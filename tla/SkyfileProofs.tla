---------------------------- MODULE SkyfileProofs ----------------------------
(***************************************************************************)
(* Proofs about the skyfile operations of the renter, for any number of    *)
(* callers, skylinks and siapaths.                                         *)
(*                                                                         *)
(* TypeCorrect: TypeOK is inductive on its own.  Its second conjunct, that *)
(* a siafile that does not exist has no metadata, rests on every AddSkylink *)
(* through an opened node leaving a deleted siafile deleted.               *)
(*                                                                         *)
(* UploadOutcomeHolds: UploadSkyfileOutcome holds when no other call       *)
(* writes the siapath of an upload (distinct caller paths, none of them a  *)
(* restore path).  Otherwise one upload's cleanup may delete the siafile   *)
(* another upload just listed its skylink in, as the skyfile_cleanup run   *)
(* shows for two uploads to one siapath.                                   *)
(* The inductive invariant says where an upload can be and what each place *)
(* guarantees: at "final" its base siafile lists the skylink, and it       *)
(* reaches the cleanup only after an error or in a dry run.                *)
(***************************************************************************)
EXTENDS Skyfile, TLAPS

\* A filesystem in which a siafile that does not exist has no metadata.
FsOK(fs) ==
  /\ fs \in [FileKeys -> Siafile]
  /\ \A f \in FileKeys : ~fs[f].exists => fs[f] = NoFile

\* The labels of TypeOK's pc.
Labels ==
  Ops \cup {"uploadExt", "checkNode", "addLink", "uploadBase", "final",
            "fanout", "restoreCheck", "cleanup", "done"}

\* No call but an upload writes the upload's siapath: callers upload to
\* siapaths of their own, and no restore writes to one of them.
DisjointPaths ==
  /\ \A c, d \in Callers : c # d => CallerPath[c] # CallerPath[d]
  /\ \A c \in Callers, l \in Links : CallerPath[c] # RestorePath[l]

\* Where an UploadSkyfile can be.
UploadLabels ==
  {"upload", "uploadExt", "checkNode", "addLink", "uploadBase", "final",
   "cleanup", "done"}

\* What each place of an upload guarantees: past the dry-run returns it is
\* a real upload, at "final" its base siafile lists the skylink, and its
\* cleanup follows an error or a dry run.
UploadInv(c) ==
  call[c].op = "upload" =>
    LET p == CallerPath[c] IN
    /\ pc[c] \in UploadLabels
    /\ pc[c] \in {"addLink", "uploadBase", "final"} => ~call[c].dry
    /\ pc[c] = "final" =>
         siafile[Base(p)].exists /\ call[c].link \in siafile[Base(p)].links
    /\ pc[c] = "cleanup" => result[c] = "err" \/ call[c].dry

\* The inductive invariant of UploadOutcomeHolds.
IInv == TypeOK /\ \A c \in Callers : UploadInv(c)

-----------------------------------------------------------------------------
(* Lemmas on the filesystem operations.                                    *)

LEMMA NoFileType == NoFile \in Siafile
BY ConstantsAssumption DEF NoFile, Siafile

LEMMA FileKeysFacts ==
  ASSUME NEW p \in Paths
  PROVE  /\ Base(p) \in FileKeys /\ Ext(p) \in FileKeys
         /\ \A q \in Paths : Base(p) # Ext(q)
         /\ \A q \in Paths : Base(p) = Base(q) => p = q
BY DEF Base, Ext, FileKeys

LEMMA WithoutOK ==
  ASSUME NEW fs, FsOK(fs), NEW f \in FileKeys
  PROVE  /\ FsOK(Without(fs, f))
         /\ ~Without(fs, f)[f].exists
         /\ \A g \in FileKeys \ {f} : Without(fs, f)[g] = fs[g]
BY NoFileType DEF FsOK, Without, NoFile

LEMMA WithLinkOK ==
  ASSUME NEW fs, FsOK(fs), NEW f \in FileKeys, fs[f].exists, NEW l \in Links
  PROVE  /\ FsOK(WithLink(fs, f, l))
         /\ WithLink(fs, f, l)[f].exists
         /\ l \in WithLink(fs, f, l)[f].links
         /\ \A g \in FileKeys \ {f} : WithLink(fs, f, l)[g] = fs[g]
BY DEF FsOK, WithLink, Siafile

LEMMA AddSkylinkOK ==
  ASSUME NEW fs, FsOK(fs), NEW f \in FileKeys, NEW l \in Links
  PROVE  /\ FsOK(AddSkylink(fs, f, l))
         /\ \A g \in FileKeys \ {f} : AddSkylink(fs, f, l)[g] = fs[g]
BY WithLinkOK DEF AddSkylink

LEMMA UploadStreamOK ==
  ASSUME FsOK(siafile), NEW f \in FileKeys, NEW c \in Callers, NEW force,
         NEW o \in UploadStreamOutcomes(f, c, force)
  PROVE  /\ FsOK(o.fs)
         /\ o.ok => o.fs[f].exists
         /\ \A g \in FileKeys \ {f} : o.fs[g] = siafile[g]
<1>. DEFINE new == [siafile EXCEPT ![f] = [exists |-> TRUE, links |-> {}, owner |-> c]]
<1>1. o = [ok |-> FALSE, fs |-> siafile, created |-> FALSE]
      \/ (o.fs = new /\ o.ok \in BOOLEAN)
  BY DEF UploadStreamOutcomes
<1>2. FsOK(new) /\ new[f].exists /\ \A g \in FileKeys \ {f} : new[g] = siafile[g]
  <2>1. [exists |-> TRUE, links |-> {}, owner |-> c] \in Siafile
    BY DEF Siafile
  <2>. QED  BY <2>1 DEF FsOK
<1>3. CASE o = [ok |-> FALSE, fs |-> siafile, created |-> FALSE]
  <2>1. o.fs = siafile /\ o.ok = FALSE  BY <1>3
  <2>. QED  BY <2>1
<1>4. CASE o.fs = new /\ o.ok \in BOOLEAN
  BY <1>2, <1>4
<1>. QED  BY <1>1, <1>3, <1>4

-----------------------------------------------------------------------------
(* TypeOK is inductive.                                                    *)

LEMMA TypeParts ==
  TypeOK <=> /\ FsOK(siafile)
             /\ blocked \subseteq Links /\ uploaded \subseteq Links
             /\ call \in [Callers -> ValidCalls]
             /\ pc \in [Callers -> Labels]
             /\ result \in [Callers -> {"none", "ok", "err"}]
BY DEF TypeOK, FsOK, Labels

\* A step of caller c returns or moves on to a label of TypeOK.
LEMMA ControlOK ==
  ASSUME TypeOK, NEW c \in Callers,
         \/ Fail(c) \/ Succeed(c)
         \/ \E label \in Labels : Goto(c, label)
         \/ /\ pc' = [pc EXCEPT ![c] = "done"]
            /\ result' = [result EXCEPT ![c] = "err"]
         \/ /\ pc' = [pc EXCEPT ![c] = "cleanup"]
            /\ result' = [result EXCEPT ![c] = "ok"]
  PROVE  /\ pc' \in [Callers -> Labels]
         /\ result' \in [Callers -> {"none", "ok", "err"}]
BY DEF TypeOK, Labels, Fail, Succeed, Goto

LEMMA InitTypeOK == Init => TypeOK
<1>. SUFFICES ASSUME Init PROVE TypeOK  OBVIOUS
<1>1. FsOK(siafile)
  BY NoFileType, ConstantsAssumption DEF Init, FsOK, Siafile, FileKeys
<1>2. pc \in [Callers -> Labels]
  BY DEF Init, ValidCalls, Call, Labels
<1>. QED  BY <1>1, <1>2, TypeParts DEF Init

LEMMA UploadStartTypeOK ==
  ASSUME TypeOK, NEW c \in Callers, UploadStart(c)
  PROVE  TypeOK'
<1>1. pc' \in [Callers -> Labels] /\ result' \in [Callers -> {"none", "ok", "err"}]
  BY ControlOK DEF UploadStart, Labels
<1>. QED  BY <1>1 DEF UploadStart, TypeOK, Labels

LEMMA ConvertTypeOK ==
  ASSUME TypeOK, NEW c \in Callers, Convert(c)
  PROVE  TypeOK'
<1>1. pc' \in [Callers -> Labels] /\ result' \in [Callers -> {"none", "ok", "err"}]
  BY ControlOK DEF Convert, Labels
<1>. QED  BY <1>1 DEF Convert, TypeOK, Labels

LEMMA FinalCheckTypeOK ==
  ASSUME TypeOK, NEW c \in Callers, FinalCheck(c)
  PROVE  TypeOK'
<1>1. pc' \in [Callers -> Labels] /\ result' \in [Callers -> {"none", "ok", "err"}]
  BY ControlOK DEF FinalCheck, Labels
<1>. QED  BY <1>1 DEF FinalCheck, TypeOK, Labels

LEMMA PinStartTypeOK ==
  ASSUME TypeOK, NEW c \in Callers, PinStart(c)
  PROVE  TypeOK'
<1>1. pc' \in [Callers -> Labels] /\ result' \in [Callers -> {"none", "ok", "err"}]
  BY ControlOK DEF PinStart, Labels
<1>. QED  BY <1>1 DEF PinStart, TypeOK, Labels

LEMMA RestoreStartTypeOK ==
  ASSUME TypeOK, NEW c \in Callers, RestoreStart(c)
  PROVE  TypeOK'
<1>1. pc' \in [Callers -> Labels] /\ result' \in [Callers -> {"none", "ok", "err"}]
  BY ControlOK DEF RestoreStart, Labels
<1>. QED  BY <1>1 DEF RestoreStart, TypeOK, Labels

LEMMA DownloadTypeOK ==
  ASSUME TypeOK, NEW c \in Callers, Download(c)
  PROVE  TypeOK'
<1>1. pc' \in [Callers -> Labels] /\ result' \in [Callers -> {"none", "ok", "err"}]
  BY ControlOK DEF Download, Labels
<1>. QED  BY <1>1 DEF Download, TypeOK, Labels

LEMMA UploadExtTypeOK ==
  ASSUME TypeOK, NEW c \in Callers, UploadExt(c)
  PROVE  TypeOK'
<1>1. PICK o \in UploadStreamOutcomes(Ext(CallerPath[c]), c, call[c].force) :
        /\ siafile' = o.fs
        /\ IF o.ok THEN \/ Goto(c, "checkNode") \/ Fail(c) ELSE Fail(c)
  BY DEF UploadExt
<1>2. FsOK(siafile')
  BY <1>1, UploadStreamOK, FileKeysFacts, ConstantsAssumption DEF TypeOK, FsOK
<1>3. pc' \in [Callers -> Labels] /\ result' \in [Callers -> {"none", "ok", "err"}]
  BY <1>1, ControlOK DEF Labels
<1>. QED  BY <1>2, <1>3 DEF UploadExt, TypeOK, FsOK, Labels

LEMMA CheckNodeTypeOK ==
  ASSUME TypeOK, NEW c \in Callers, CheckNode(c)
  PROVE  TypeOK'
<1>1. siafile' = siafile \/ siafile' = Without(siafile, Base(CallerPath[c]))
  BY DEF CheckNode
<1>2. FsOK(siafile')
  BY <1>1, WithoutOK, FileKeysFacts, ConstantsAssumption DEF TypeOK, FsOK
<1>3. pc' \in [Callers -> Labels] /\ result' \in [Callers -> {"none", "ok", "err"}]
  BY ControlOK DEF CheckNode, Labels
<1>. QED  BY <1>2, <1>3 DEF CheckNode, TypeOK, FsOK, Labels

\* The siafile a conversion or a large upload works on is a file key.
LEMMA FileNodeKey ==
  ASSUME TypeOK, NEW c \in Callers
  PROVE  FileNode(c) \in FileKeys
BY FileKeysFacts, ConstantsAssumption DEF TypeOK, FileNode, ValidCalls, Call

LEMMA AddLinkToNodeTypeOK ==
  ASSUME TypeOK, NEW c \in Callers, AddLinkToNode(c)
  PROVE  TypeOK'
<1>1. siafile' = siafile \/ siafile' = AddSkylink(siafile, FileNode(c), call[c].link)
  BY DEF AddLinkToNode
<1>2. FsOK(siafile')
  BY <1>1, AddSkylinkOK, FileNodeKey DEF TypeOK, FsOK, ValidCalls, Call
<1>3. pc' \in [Callers -> Labels] /\ result' \in [Callers -> {"none", "ok", "err"}]
  BY ControlOK DEF AddLinkToNode, Labels
<1>. QED  BY <1>2, <1>3 DEF AddLinkToNode, TypeOK, FsOK, Labels

LEMMA CleanupTypeOK ==
  ASSUME TypeOK, NEW c \in Callers, Cleanup(c)
  PROVE  TypeOK'
<1>. DEFINE p == CallerPath[c]
<1>1. p \in Paths  BY ConstantsAssumption
<1>2. FsOK(Without(siafile, Base(p)))
  BY <1>1, WithoutOK, FileKeysFacts DEF TypeOK, FsOK
<1>3. FsOK(siafile')
  BY <1>1, <1>2, WithoutOK, FileKeysFacts DEF Cleanup
<1>. QED  BY <1>3 DEF Cleanup, TypeOK, FsOK, Labels

LEMMA RestoreCheckTypeOK ==
  ASSUME TypeOK, NEW c \in Callers, RestoreCheck(c)
  PROVE  TypeOK'
<1>. DEFINE p == TargetPath(c)
<1>1. p \in Paths
  BY ConstantsAssumption DEF TargetPath, TypeOK, ValidCalls, Call
<1>2. siafile' = AddSkylink(siafile, Ext(p), call[c].link)
      \/ siafile' = Without(siafile, Base(p))
  BY DEF RestoreCheck
<1>3. FsOK(siafile') 
  <2>1. FsOK(siafile) /\ call[c].link \in Links /\ Ext(p) \in FileKeys /\ Base(p) \in FileKeys
    BY <1>1, FileKeysFacts DEF TypeOK, FsOK, ValidCalls, Call
  <2>2. FsOK(AddSkylink(siafile, Ext(p), call[c].link))
    BY <2>1, AddSkylinkOK
  <2>3. FsOK(Without(siafile, Base(p)))
    BY <2>1, WithoutOK
  <2>. QED  BY <1>2, <2>2, <2>3
<1>4. pc' \in [Callers -> Labels] /\ result' \in [Callers -> {"none", "ok", "err"}]
  BY ControlOK DEF RestoreCheck
<1>. QED  BY <1>3, <1>4 DEF RestoreCheck, TypeOK, FsOK, Labels

LEMMA BlocklistTypeOK ==
  ASSUME TypeOK, UpdateSkynetBlocklist
  PROVE  TypeOK'
BY DEF UpdateSkynetBlocklist, TypeOK

\* Where an operation goes after its base sector: a return or a label.
LEMMA AfterBaseControl ==
  ASSUME NEW c \in Callers, AfterBase(c)
  PROVE  Succeed(c) \/ Goto(c, "final") \/ Goto(c, "fanout")
BY DEF AfterBase

LEMMA UploadBaseTypeOK ==
  ASSUME TypeOK, NEW c \in Callers, UploadBase(c)
  PROVE  TypeOK'
<1>. DEFINE f == Base(TargetPath(c))
<1>1. f \in FileKeys /\ call[c].link \in Links
  BY FileKeysFacts, ConstantsAssumption DEF TargetPath, TypeOK, ValidCalls, Call
<1>2. PICK o \in UploadStreamOutcomes(f, c, call[c].force) :
        /\ uploaded' = IF o.created THEN uploaded \cup {call[c].link} ELSE uploaded
        /\ \/ o.ok /\ siafile' = WithLink(o.fs, f, call[c].link) /\ AfterBase(c)
           \/ siafile' = o.fs /\ Fail(c)
  BY DEF UploadBase
<1>3. FsOK(o.fs) /\ (o.ok => o.fs[f].exists)
  BY <1>1, UploadStreamOK DEF TypeOK, FsOK
<1>4. FsOK(siafile')
  BY <1>1, <1>2, <1>3, WithLinkOK
<1>5. pc' \in [Callers -> Labels] /\ result' \in [Callers -> {"none", "ok", "err"}]
  BY <1>2, AfterBaseControl, ControlOK DEF Labels
<1>6. uploaded' \subseteq Links
  BY <1>1, <1>2 DEF TypeOK
<1>. QED  BY <1>4, <1>5, <1>6 DEF UploadBase, TypeOK, FsOK, Labels

LEMMA PinFanoutTypeOK ==
  ASSUME TypeOK, NEW c \in Callers, PinFanout(c)
  PROVE  TypeOK'
<1>. DEFINE f == Ext(TargetPath(c))
<1>1. f \in FileKeys /\ call[c].link \in Links
  BY FileKeysFacts, ConstantsAssumption DEF TargetPath, TypeOK, ValidCalls, Call
<1>2. PICK o \in UploadStreamOutcomes(f, c, call[c].force) :
        \/ o.ok /\ siafile' = WithLink(o.fs, f, call[c].link) /\ Succeed(c)
        \/ siafile' = o.fs /\ Fail(c)
  BY DEF PinFanout
<1>3. FsOK(o.fs) /\ (o.ok => o.fs[f].exists)
  BY <1>1, UploadStreamOK DEF TypeOK, FsOK
<1>4. FsOK(siafile')
  BY <1>1, <1>2, <1>3, WithLinkOK
<1>5. pc' \in [Callers -> Labels] /\ result' \in [Callers -> {"none", "ok", "err"}]
  BY <1>2, ControlOK
<1>. QED  BY <1>4, <1>5 DEF PinFanout, TypeOK, FsOK, Labels

LEMMA RestoreFanoutTypeOK ==
  ASSUME TypeOK, NEW c \in Callers, RestoreFanout(c)
  PROVE  TypeOK'
<1>. DEFINE f == Ext(TargetPath(c))
<1>1. f \in FileKeys
  BY FileKeysFacts, ConstantsAssumption DEF TargetPath, TypeOK, ValidCalls, Call
<1>2. CASE siafile' = siafile /\ Fail(c)
  BY <1>2, ControlOK DEF RestoreFanout, TypeOK, Labels
<1>3. CASE \E o \in UploadStreamOutcomes(f, c, FALSE) :
             /\ siafile' = o.fs
             /\ IF o.ok THEN Goto(c, "restoreCheck") ELSE Fail(c)
  <2>1. PICK o \in UploadStreamOutcomes(f, c, FALSE) :
             /\ siafile' = o.fs
             /\ IF o.ok THEN Goto(c, "restoreCheck") ELSE Fail(c)
    BY <1>3
  <2>2. FsOK(siafile')
    BY <1>1, <2>1, UploadStreamOK DEF TypeOK, FsOK
  <2>3. pc' \in [Callers -> Labels] /\ result' \in [Callers -> {"none", "ok", "err"}]
    BY <2>1, ControlOK DEF Labels
  <2>. QED  BY <2>2, <2>3 DEF RestoreFanout, TypeOK, FsOK, Labels
<1>. QED  BY <1>2, <1>3 DEF RestoreFanout

\* TypeOK holds in every state.
LEMMA NextTypeOK ==
  ASSUME TypeOK, [Next]_vars
  PROVE  TypeOK'
<1>1. CASE UNCHANGED vars
  BY <1>1 DEF vars, TypeOK
<1>2. CASE UpdateSkynetBlocklist
  BY <1>2, BlocklistTypeOK
<1>3. CASE \E c \in Callers : CallerStep(c)
  BY <1>3, UploadStartTypeOK, UploadExtTypeOK, ConvertTypeOK, CheckNodeTypeOK,
     AddLinkToNodeTypeOK, UploadBaseTypeOK, FinalCheckTypeOK, CleanupTypeOK,
     PinStartTypeOK, PinFanoutTypeOK, RestoreStartTypeOK, RestoreFanoutTypeOK,
     RestoreCheckTypeOK, DownloadTypeOK DEF CallerStep
<1>. QED  BY <1>1, <1>2, <1>3 DEF Next

\* Every variable keeps its type, and no deleted siafile keeps metadata,
\* whatever the callers and the blocklist do and in whatever order.
THEOREM TypeCorrect == Spec => []TypeOK
BY InitTypeOK, NextTypeOK, PTL DEF Spec

-----------------------------------------------------------------------------
(* UploadSkyfileOutcome holds when paths are disjoint.                     *)

\* Siafile f, if it exists, still exists and still lists its skylinks.
Keeps(f) ==
  siafile[f].exists =>
    siafile'[f].exists /\ siafile[f].links \subseteq siafile'[f].links

\* An upload stream, and the AddSkylink that may follow it, change only
\* the siafile they upload to.
LEMMA StreamFrame ==
  ASSUME FsOK(siafile), NEW f \in FileKeys, NEW b \in FileKeys, b # f,
         NEW c \in Callers, NEW force, NEW l \in Links,
         NEW o \in UploadStreamOutcomes(f, c, force),
         siafile' = o.fs \/ (o.ok /\ siafile' = WithLink(o.fs, f, l))
  PROVE  siafile'[b] = siafile[b]
<1>1. FsOK(o.fs) /\ (o.ok => o.fs[f].exists) /\ o.fs[b] = siafile[b]
  BY UploadStreamOK
<1>. QED  BY <1>1, WithLinkOK

\* A step of caller c keeps the base siafile of every siapath that c
\* neither uploads to nor restores to.
LEMMA KeepsOtherBase ==
  ASSUME TypeOK, NEW c \in Callers, CallerStep(c), NEW q \in Paths,
         q # CallerPath[c], q # TargetPath(c)
  PROVE  Keeps(Base(q))
<1>. DEFINE b == Base(q)
<1>1. /\ b \in FileKeys /\ FsOK(siafile)
      /\ CallerPath[c] \in Paths /\ TargetPath(c) \in Paths
      /\ b # Base(CallerPath[c]) /\ b # Base(TargetPath(c))
      /\ b # Ext(CallerPath[c]) /\ b # Ext(TargetPath(c))
      /\ call[c].link \in Links
  BY FileKeysFacts, ConstantsAssumption DEF TypeOK, FsOK, TargetPath, ValidCalls, Call
<1>2. CASE siafile' = siafile
  BY <1>2 DEF Keeps
<1>3. CASE UploadExt(c)
  <2>1. PICK o \in UploadStreamOutcomes(Ext(CallerPath[c]), c, call[c].force) :
          siafile' = o.fs
    BY <1>3 DEF UploadExt
  <2>2. Ext(CallerPath[c]) \in FileKeys  BY <1>1, FileKeysFacts
  <2>3. siafile'[b] = siafile[b]  BY <1>1, <2>1, <2>2, StreamFrame, Zenon
  <2>. QED  BY <2>3 DEF Keeps
<1>4. CASE UploadBase(c)
  <2>1. PICK o \in UploadStreamOutcomes(Base(TargetPath(c)), c, call[c].force) :
          siafile' = o.fs \/ (o.ok /\ siafile' = WithLink(o.fs, Base(TargetPath(c)), call[c].link))
    BY <1>4 DEF UploadBase
  <2>2. Base(TargetPath(c)) \in FileKeys  BY <1>1, FileKeysFacts
  <2>3. siafile'[b] = siafile[b]  BY <1>1, <2>1, <2>2, StreamFrame, Zenon
  <2>. QED  BY <2>3 DEF Keeps
<1>5. CASE PinFanout(c)
  <2>1. PICK o \in UploadStreamOutcomes(Ext(TargetPath(c)), c, call[c].force) :
          siafile' = o.fs \/ (o.ok /\ siafile' = WithLink(o.fs, Ext(TargetPath(c)), call[c].link))
    BY <1>5 DEF PinFanout
  <2>2. Ext(TargetPath(c)) \in FileKeys  BY <1>1, FileKeysFacts
  <2>3. siafile'[b] = siafile[b]  BY <1>1, <2>1, <2>2, StreamFrame, Zenon
  <2>. QED  BY <2>3 DEF Keeps
<1>6. CASE RestoreFanout(c)
  <2>1. CASE siafile' = siafile  BY <2>1 DEF Keeps
  <2>2. CASE \E o \in UploadStreamOutcomes(Ext(TargetPath(c)), c, FALSE) : siafile' = o.fs
    <3>1. PICK o \in UploadStreamOutcomes(Ext(TargetPath(c)), c, FALSE) : siafile' = o.fs
      BY <2>2
    <3>2. Ext(TargetPath(c)) \in FileKeys  BY <1>1, FileKeysFacts
    <3>3. siafile'[b] = siafile[b]  BY <1>1, <3>1, <3>2, StreamFrame, Zenon
    <3>. QED  BY <3>3 DEF Keeps
  <2>. QED  BY <1>6, <2>1, <2>2 DEF RestoreFanout
<1>7. CASE CheckNode(c) \/ Cleanup(c) \/ RestoreCheck(c)
  <2>1. \/ siafile' = siafile
        \/ siafile' = Without(siafile, Base(CallerPath[c]))
        \/ siafile' = Without(Without(siafile, Base(CallerPath[c])), Ext(CallerPath[c]))
        \/ siafile' = AddSkylink(siafile, Ext(TargetPath(c)), call[c].link)
        \/ siafile' = Without(siafile, Base(TargetPath(c)))
    BY <1>7 DEF CheckNode, Cleanup, RestoreCheck
  <2>2. /\ Base(CallerPath[c]) \in FileKeys /\ Ext(CallerPath[c]) \in FileKeys
        /\ Base(TargetPath(c)) \in FileKeys /\ Ext(TargetPath(c)) \in FileKeys
    BY <1>1, FileKeysFacts
  <2>3. FsOK(Without(siafile, Base(CallerPath[c])))
    BY <1>1, <2>2, WithoutOK
  <2>4. Without(siafile, Base(CallerPath[c]))[b] = siafile[b]
    BY <1>1, <2>2, WithoutOK
  <2>5. Without(Without(siafile, Base(CallerPath[c])), Ext(CallerPath[c]))[b]
          = siafile[b]
    BY <1>1, <2>2, <2>3, <2>4, WithoutOK
  <2>6. AddSkylink(siafile, Ext(TargetPath(c)), call[c].link)[b] = siafile[b]
    BY <1>1, <2>2, AddSkylinkOK
  <2>7. Without(siafile, Base(TargetPath(c)))[b] = siafile[b]
    BY <1>1, <2>2, WithoutOK
  <2>8. siafile'[b] = siafile[b]
    BY <2>1, <2>4, <2>5, <2>6, <2>7
  <2>. QED  BY <2>8 DEF Keeps
<1>8. CASE AddLinkToNode(c)
  <2>1. siafile' = siafile \/ siafile' = AddSkylink(siafile, FileNode(c), call[c].link)
    BY <1>8 DEF AddLinkToNode
  <2>2. FileNode(c) \in FileKeys  BY FileNodeKey
  <2>3. CASE siafile' = AddSkylink(siafile, FileNode(c), call[c].link)
    <3>1. CASE FileNode(c) = b /\ siafile[b].exists
      BY <1>1, <2>2, <2>3, <3>1, WithLinkOK DEF AddSkylink, Keeps, WithLink
    <3>2. CASE FileNode(c) = b /\ ~siafile[b].exists
      BY <3>2 DEF Keeps
    <3>3. CASE FileNode(c) # b
      BY <1>1, <2>2, <2>3, <3>3, AddSkylinkOK DEF Keeps
    <3>. QED  BY <3>1, <3>2, <3>3
  <2>. QED  BY <1>2, <2>1, <2>3
<1>. QED  BY <1>2, <1>3, <1>4, <1>5, <1>6, <1>7, <1>8
     DEF CallerStep, UploadStart, Convert, FinalCheck, PinStart, RestoreStart, Download


\* A step of caller d leaves the call, the place and the result of every
\* other caller alone.
LEMMA CallerFrame ==
  ASSUME TypeOK, NEW d \in Callers, CallerStep(d)
  PROVE  /\ call' = call
         /\ \A c \in Callers \ {d} : pc'[c] = pc[c] /\ result'[c] = result[c]
<1>1. \A x : /\ (pc' = [pc EXCEPT ![d] = x] => \A c \in Callers \ {d} : pc'[c] = pc[c])
             /\ (result' = [result EXCEPT ![d] = x] =>
                   \A c \in Callers \ {d} : result'[c] = result[c])
  BY DEF TypeOK
<1>2. AfterBase(d) => Succeed(d) \/ Goto(d, "final") \/ Goto(d, "fanout")
  BY AfterBaseControl
<1>. QED  BY <1>1, <1>2
     DEF CallerStep, UploadStart, UploadExt, Convert, CheckNode, AddLinkToNode,
         UploadBase, FinalCheck, Cleanup, PinStart, PinFanout, RestoreStart,
         RestoreFanout, RestoreCheck, Download, Fail, Succeed, Goto

\* Under DisjointPaths, a step of another caller, or of the blocklist,
\* keeps what an upload's place guarantees.
LEMMA OtherKeepsUploadInv ==
  ASSUME TypeOK, DisjointPaths, NEW c \in Callers, UploadInv(c),
         \/ UpdateSkynetBlocklist
         \/ \E d \in Callers \ {c} : CallerStep(d)
  PROVE  UploadInv(c)'
<1>1. CASE UpdateSkynetBlocklist
  BY <1>1 DEF UpdateSkynetBlocklist, UploadInv
<1>2. CASE \E d \in Callers \ {c} : CallerStep(d)
  <2>1. PICK d \in Callers \ {c} : CallerStep(d)  BY <1>2
  <2>2. call' = call /\ pc'[c] = pc[c] /\ result'[c] = result[c]
    BY <2>1, CallerFrame
  <2>3. CallerPath[c] \in Paths /\ CallerPath[c] # CallerPath[d]
        /\ CallerPath[c] # TargetPath(d)
    BY <2>1, ConstantsAssumption DEF DisjointPaths, TargetPath, TypeOK, ValidCalls, Call
  <2>4. Keeps(Base(CallerPath[c]))
    BY <2>1, <2>3, KeepsOtherBase
  <2>. QED  BY <2>2, <2>4 DEF UploadInv, Keeps
<1>. QED  BY <1>1, <1>2


\* The step of UploadSkyfileOutcome for caller c.
OutcomeStep(c) ==
  (call[c].op = "upload" /\ pc[c] # "done" /\ pc'[c] = "done") =>
    LET p == CallerPath[c] IN
    IF result'[c] = "ok" /\ ~call[c].dry
    THEN siafile'[Base(p)].exists /\ call[c].link \in siafile'[Base(p)].links
    ELSE IF pc[c] = "upload"
    THEN siafile' = siafile
    ELSE ~siafile'[Base(p)].exists /\ ~siafile'[Ext(p)].exists

\* What an upload's own step guarantees.
OwnGoal(c) == UploadInv(c)' /\ OutcomeStep(c)

\* An upload's own steps keep what its place guarantees, and the step that
\* ends it leaves the outcome UploadSkyfileOutcome asks for.
LEMMA OwnStep ==
  ASSUME TypeOK, NEW c \in Callers, UploadInv(c), call[c].op = "upload",
         CallerStep(c)
  PROVE  OwnGoal(c)
<1>1. call' = call  BY CallerFrame
<1>2. pc[c] \in UploadLabels /\ pc \in [Callers -> Labels]
      /\ result \in [Callers -> {"none", "ok", "err"}]
  BY DEF UploadInv, TypeOK, Labels
<1>3. CASE UploadStart(c)
  BY <1>1, <1>2, <1>3 DEF UploadStart, Fail, Goto, OwnGoal, UploadInv, UploadLabels, OutcomeStep
<1>4. CASE UploadExt(c)
  BY <1>1, <1>2, <1>4 DEF UploadExt, Fail, Goto, OwnGoal, UploadInv, UploadLabels, OutcomeStep
<1>5. CASE CheckNode(c)
  BY <1>1, <1>2, <1>5 DEF CheckNode, Fail, Goto, OwnGoal, UploadInv, UploadLabels, OutcomeStep
<1>6. CASE AddLinkToNode(c)
  BY <1>1, <1>2, <1>6 DEF AddLinkToNode, Fail, Goto, OwnGoal, UploadInv, UploadLabels, OutcomeStep
<1>7. CASE UploadBase(c)
  <2>. DEFINE f == Base(CallerPath[c])
  <2>1. f \in FileKeys /\ call[c].link \in Links /\ FsOK(siafile)
        /\ TargetPath(c) = CallerPath[c]
    BY FileKeysFacts, ConstantsAssumption DEF TargetPath, TypeOK, ValidCalls, Call, FsOK
  <2>2. PICK o \in UploadStreamOutcomes(f, c, call[c].force) :
          \/ o.ok /\ siafile' = WithLink(o.fs, f, call[c].link) /\ AfterBase(c)
          \/ siafile' = o.fs /\ Fail(c)
    BY <1>7, <2>1 DEF UploadBase
  <2>3. FsOK(o.fs) /\ (o.ok => o.fs[f].exists)
    BY <2>1, UploadStreamOK
  <2>4. CASE o.ok /\ siafile' = WithLink(o.fs, f, call[c].link) /\ AfterBase(c)
    <3>1. siafile'[f].exists /\ call[c].link \in siafile'[f].links
      BY <2>1, <2>3, <2>4, WithLinkOK
    <3>2. Goto(c, "final")  BY <2>4 DEF AfterBase
    <3>. QED  BY <1>1, <1>2, <1>7, <3>1, <3>2
              DEF UploadBase, Goto, OwnGoal, UploadInv, UploadLabels, OutcomeStep
  <2>5. CASE siafile' = o.fs /\ Fail(c)
    BY <1>1, <1>2, <1>7, <2>5 DEF UploadBase, Fail, OwnGoal, UploadInv, UploadLabels, OutcomeStep
  <2>. QED  BY <2>2, <2>4, <2>5
<1>8. CASE FinalCheck(c)
  BY <1>1, <1>2, <1>8 DEF FinalCheck, Fail, Succeed, OwnGoal, UploadInv, UploadLabels, OutcomeStep
<1>9. CASE Cleanup(c)
  <2>. DEFINE b == Base(CallerPath[c])
              e == Ext(CallerPath[c])
  <2>1. b \in FileKeys /\ e \in FileKeys /\ b # e /\ FsOK(siafile)
    BY FileKeysFacts, ConstantsAssumption DEF TypeOK, FsOK
  <2>2. FsOK(Without(siafile, b)) /\ ~Without(siafile, b)[b].exists
    BY <2>1, WithoutOK
  <2>3. ~siafile'[b].exists /\ ~siafile'[e].exists
    BY <1>9, <2>1, <2>2, WithoutOK DEF Cleanup
  <2>. QED  BY <1>1, <1>2, <1>9, <2>3 DEF Cleanup, OwnGoal, UploadInv, UploadLabels, OutcomeStep
<1>10. CASE Convert(c) \/ PinStart(c) \/ PinFanout(c) \/ RestoreStart(c)
            \/ RestoreFanout(c) \/ RestoreCheck(c) \/ Download(c)
  BY <1>2, <1>10 DEF Convert, PinStart, PinFanout, RestoreStart, RestoreFanout,
                     RestoreCheck, Download, UploadLabels
<1>. QED  BY <1>3, <1>4, <1>5, <1>6, <1>7, <1>8, <1>9, <1>10 DEF CallerStep


\* IInv is inductive when paths are disjoint, and every step of the
\* system is a step of UploadSkyfileOutcome.
LEMMA NextIInv ==
  ASSUME IInv, DisjointPaths, [Next]_vars
  PROVE  IInv' /\ \A c \in Callers : OutcomeStep(c)
<1>1. TypeOK'  BY NextTypeOK DEF IInv
<1>2. SUFFICES ASSUME NEW c \in Callers PROVE UploadInv(c)' /\ OutcomeStep(c)
  BY <1>1 DEF IInv
<1>3. TypeOK /\ UploadInv(c)  BY DEF IInv
<1>4. CASE UNCHANGED vars
  BY <1>3, <1>4 DEF vars, UploadInv, OutcomeStep
<1>5. CASE UpdateSkynetBlocklist
  <2>1. UploadInv(c)'  BY <1>3, <1>5, OtherKeepsUploadInv
  <2>. QED  BY <1>5, <2>1 DEF UpdateSkynetBlocklist, OutcomeStep
<1>6. CASE CallerStep(c) /\ call[c].op = "upload"
  BY <1>3, <1>6, OwnStep DEF OwnGoal
<1>7. CASE CallerStep(c) /\ call[c].op # "upload"
  <2>1. call' = call  BY <1>3, <1>7, CallerFrame
  <2>. QED  BY <1>7, <2>1 DEF UploadInv, OutcomeStep
<1>8. CASE \E d \in Callers \ {c} : CallerStep(d)
  <2>1. UploadInv(c)'  BY <1>3, <1>8, OtherKeepsUploadInv
  <2>2. PICK d \in Callers \ {c} : CallerStep(d)  BY <1>8
  <2>3. pc'[c] = pc[c]  BY <1>3, <2>2, CallerFrame
  <2>. QED  BY <2>1, <2>3 DEF OutcomeStep
<1>. QED  BY <1>4, <1>5, <1>6, <1>7, <1>8 DEF Next

\* The initial states satisfy IInv: no upload has passed its first label.
LEMMA InitIInv == Init => IInv
<1>. SUFFICES ASSUME Init PROVE IInv  OBVIOUS
<1>1. TypeOK  BY InitTypeOK
<1>. QED  BY <1>1 DEF Init, IInv, UploadInv, UploadLabels

\* Where an upload is, its place's guarantee holds, in every state of a
\* system whose uploads own their siapaths.
THEOREM IInvHolds == ASSUME DisjointPaths PROVE Spec => []IInv
<1>1. IInv /\ [Next]_vars => IInv'  BY NextIInv
<1>. QED  BY InitIInv, <1>1, PTL DEF Spec

\* UploadSkyfile returns a skylink of a real upload only once the siafile
\* at its siapath lists it, leaves neither that siafile nor its extended
\* one behind after an error past its deferred cleanup or a dry run, and
\* touches nothing when generateFilekey fails, whatever the other callers
\* and the blocklist do, provided no other call writes its siapath.  The
\* siapath may hold a siafile before the upload starts.
THEOREM UploadOutcomeHolds == ASSUME DisjointPaths PROVE Spec => UploadSkyfileOutcome
<1>1. Spec => []IInv  BY IInvHolds
<1>2. IInv /\ [Next]_vars =>
        [\A c \in Callers :
           (call[c].op = "upload" /\ pc[c] # "done" /\ pc'[c] = "done") =>
             LET p == CallerPath[c] IN
             IF result'[c] = "ok" /\ ~call[c].dry
             THEN siafile'[Base(p)].exists /\ call[c].link \in siafile'[Base(p)].links
             ELSE IF pc[c] = "upload"
             THEN siafile' = siafile
             ELSE ~siafile'[Base(p)].exists /\ ~siafile'[Ext(p)].exists]_vars
  BY NextIInv DEF OutcomeStep
<1>. QED  BY <1>1, <1>2, PTL DEF Spec, UploadSkyfileOutcome

=============================================================================
