------------------------------- MODULE Skyfile -------------------------------
(***************************************************************************)
(* The renter's skyfile operations (src/modules/renter/skyfile.go): upload  *)
(* of a small or large skyfile, conversion of a siafile, pinning, restore   *)
(* from a backup, downloads, and updates of the Skynet blocklist, run by    *)
(* concurrent callers against one renter.                                  *)
(*                                                                         *)
(* What the model keeps: the renter's siafiles (which exist, the skylinks   *)
(* their metadata lists, and, as a history field, the call that created    *)
(* them), the blocklist, and the set of skylinks whose base sector was     *)
(* sent to hosts.  A skylink stands for its base sector's Merkle root and   *)
(* for the content that determines it, so choosing a link chooses the     *)
(* content.  Every siapath p has its base siafile Base(p) and the siafile   *)
(* of its extended data Ext(p) (ExtendedSuffix).                            *)
(*                                                                         *)
(* The filesystem and upload streaming code is not under src/: a call of    *)
(* callUploadStreamFromReader (or managedInitUploadStream) refuses a path   *)
(* that exists unless Force is set, and otherwise creates a new siafile     *)
(* that replaces the old one; the upload after it may still fail.  Every   *)
(* error of encoding, encryption, parsing or the network that the code      *)
(* returns is a nondeterministic failure of the step it belongs to.        *)
(***************************************************************************)
EXTENDS Naturals, FiniteSets

CONSTANTS
  Callers,      \* concurrent callers of the renter's skyfile API
  Links,        \* skylinks (base-sector roots)
  Paths,        \* siapaths
  CallerPath,   \* the SiaPath of each caller's upload parameters
  RestorePath,  \* SkynetFolder.Join(skylink) used by RestoreSkyfile
  Sources,      \* siapaths of existing siafiles a conversion may name
  InitLinks,    \* the skylinks each existing siafile lists at the start
  NoOwner       \* creator of a siafile that existed before the run

ASSUME ConstantsAssumption ==
  /\ CallerPath \in [Callers -> Paths]
  /\ RestorePath \in [Links -> Paths]
  /\ Sources \subseteq Paths
  /\ InitLinks \in [Sources -> SUBSET Links]
  /\ NoOwner \notin Callers

Ops == {"upload", "convert", "pin", "restore", "download"}

FileKeys == Paths \X {"base", "ext"}
Base(p) == <<p, "base">>
Ext(p) == <<p, "ext">>

Siafile == [exists : BOOLEAN, links : SUBSET Links, owner : Callers \cup {NoOwner}]
NoFile == [exists |-> FALSE, links |-> {}, owner |-> NoOwner]

Call == [op : Ops, link : Links, dry : BOOLEAN, force : BOOLEAN,
         large : BOOLEAN, src : Paths]

\* The calls a caller can make.  Only UploadSkyfile and
\* CreateSkylinkFromSiafile read DryRun; a restore and a download never
\* set Force; only a conversion names a source siafile; only uploads, pins
\* and restores have a fanout (large).
ValidCalls ==
  {k \in Call : /\ k.dry => k.op \in {"upload", "convert"}
                /\ k.force => k.op \in {"upload", "convert", "pin"}
                /\ k.large => k.op \in {"upload", "pin", "restore"}
                /\ k.op # "convert" => k.src = CHOOSE s \in Sources : TRUE
                /\ k.src \in Sources}

VARIABLES
  siafile,   \* FileKeys -> Siafile: the renter's filesystem
  blocked,   \* the skylinks of the Skynet blocklist
  uploaded,  \* skylinks whose base sector some call sent to hosts
  call,      \* each caller's operation and parameters
  pc,        \* where each caller's operation is (its first label is the op)
  result     \* "none", "ok" or "err": what the operation returned

vars == <<siafile, blocked, uploaded, call, pc, result>>

-----------------------------------------------------------------------------

\* The siapath of the files a caller's operation writes.
TargetPath(c) ==
  IF call[c].op = "restore" THEN RestorePath[call[c].link] ELSE CallerPath[c]

\* isFileNodeBlocked (lines 989-1007): one of the skylinks the siafile lists
\* is blocked.
IsFileNodeBlocked(f) == siafile[f].links \cap blocked # {}

\* What callUploadStreamFromReader, and for a dry run
\* managedCreateFileNodeFromReader (lines 277-338), may do: fail in
\* managedInitUploadStream without a trace (path taken and no Force, or bad
\* parameters), or create the siafile and then, chunk by chunk, succeed or
\* fail, leaving the created siafile behind.
UploadStreamOutcomes(f, c, force) ==
  LET new == [siafile EXCEPT ![f] = [exists |-> TRUE, links |-> {}, owner |-> c]]
  IN  {[ok |-> FALSE, fs |-> siafile, created |-> FALSE]}
      \cup (IF siafile[f].exists /\ ~force THEN {}
            ELSE [ok : BOOLEAN, fs : {new}, created : {TRUE}])

\* fileNode.AddSkylink persists the link in the siafile's metadata.
WithLink(fs, f, l) == [fs EXCEPT ![f].links = @ \cup {l}]

\* AddSkylink through a node opened earlier: the siafile may have been
\* deleted by another call since, and its metadata is then not recreated.
AddSkylink(fs, f, l) == IF fs[f].exists THEN WithLink(fs, f, l) ELSE fs

\* Mutant: DeleteFile marks the siafile deleted but keeps its metadata.
WithoutKeepMetadata(fs, f) == [fs EXCEPT ![f].exists = FALSE]

\* A deleted siafile; DeleteFile of a missing path is a no-op here.
Without(fs, f) == [fs EXCEPT ![f] = NoFile]

\* An operation returns an error: UploadSkyfile goes through its deferred
\* cleanup, every other operation just returns.
Fail(c) ==
  /\ pc' = [pc EXCEPT ![c] = IF call[c].op = "upload" THEN "cleanup" ELSE "done"]
  /\ result' = [result EXCEPT ![c] = "err"]

\* An operation returns its skylink.
Succeed(c) ==
  /\ pc' = [pc EXCEPT ![c] = "done"]
  /\ result' = [result EXCEPT ![c] = "ok"]

Goto(c, label) ==
  /\ pc' = [pc EXCEPT ![c] = label]
  /\ UNCHANGED result

-----------------------------------------------------------------------------

Init ==
  /\ siafile = [f \in FileKeys |->
                  IF f[1] \in Sources /\ f[2] = "base"
                  THEN [exists |-> TRUE, links |-> InitLinks[f[1]], owner |-> NoOwner]
                  ELSE NoFile]
  /\ blocked = {}
  /\ uploaded = {}
  /\ call \in [Callers -> ValidCalls]
  /\ pc = [c \in Callers |-> call[c].op]
  /\ result = [c \in Callers |-> "none"]

\* UploadSkyfile up to managedUploadSkyfile's choice (lines 943-954,
\* 406-445) and, for a small file, managedUploadSkyfileSmallFile up to its
\* upload (450-484).  A failure of generateFilekey returns at line 951,
\* before the cleanup is deferred (956), so nothing is deleted; a failure
\* of the metadata or of building the skylink is an error after it; a dry
\* run returns the link (and the deferred cleanup runs); no blocklist
\* check precedes the upload.
UploadStart(c) ==
  /\ pc[c] = "upload"
  /\ \/ /\ pc' = [pc EXCEPT ![c] = "done"]
        /\ result' = [result EXCEPT ![c] = "err"]
     \/ Fail(c)
     \/ /\ ~call[c].large /\ call[c].dry
        /\ pc' = [pc EXCEPT ![c] = "cleanup"]
        /\ result' = [result EXCEPT ![c] = "ok"]
     \/ ~call[c].large /\ ~call[c].dry /\ Goto(c, "uploadBase")
     \/ call[c].large /\ Goto(c, "uploadExt")
  /\ UNCHANGED <<siafile, blocked, uploaded, call>>

\* managedUploadSkyfileLargeFile (lines 495-553): upload the extended
\* data to Ext(p) (a dry run only builds its siafile with
\* managedCreateFileNodeFromReader, lines 277-335), read the metadata, and
\* convert the new siafile.
UploadExt(c) ==
  /\ pc[c] = "uploadExt"
  /\ \E o \in UploadStreamOutcomes(Ext(CallerPath[c]), c, call[c].force) :
       /\ siafile' = o.fs
       /\ IF o.ok THEN \/ Goto(c, "checkNode") \/ Fail(c) ELSE Fail(c)
  /\ UNCHANGED <<blocked, uploaded, call>>

\* CreateSkylinkFromSiafile (lines 143-167): encryption is refused and the
\* siafile must open; then managedCreateSkylinkFromFileNode runs on it.
Convert(c) ==
  /\ pc[c] = "convert"
  /\ \/ Fail(c)
     \/ siafile[Base(call[c].src)].exists /\ Goto(c, "checkNode")
  /\ UNCHANGED <<siafile, blocked, uploaded, call>>

\* The siafile managedCreateSkylinkFromFileNode converts.
FileNode(c) ==
  IF call[c].op = "convert" THEN Base(call[c].src) ELSE Ext(CallerPath[c])

\* managedCreateSkylinkFromFileNode up to AddSkylink (lines 174-257): bad
\* metadata fails; a siafile listing a blocked skylink fails after
\* DeleteFile(sup.SiaPath); key, erasure code, fanout and size checks
\* fail; a dry run returns the skylink; a blocked new skylink fails after
\* DeleteFile(sup.SiaPath).
CheckNode(c) ==
  /\ pc[c] = "checkNode"
  /\ LET refused == \/ IsFileNodeBlocked(FileNode(c))
                    \/ ~call[c].dry /\ call[c].link \in blocked
     IN  \/ /\ refused
            /\ siafile' = Without(siafile, Base(CallerPath[c]))
            /\ Fail(c)
         \/ siafile' = siafile /\ Fail(c)
         \/ /\ ~refused /\ siafile' = siafile
            /\ CASE ~call[c].dry -> Goto(c, "addLink")
                  [] call[c].dry /\ call[c].op = "convert" -> Succeed(c)
                  [] call[c].dry /\ call[c].op # "convert" ->
                              /\ pc' = [pc EXCEPT ![c] = "cleanup"]
                              /\ result' = [result EXCEPT ![c] = "ok"]
  /\ UNCHANGED <<blocked, uploaded, call>>

\* fileNode.AddSkylink (lines 259-263), before the base sector is uploaded.
AddLinkToNode(c) ==
  /\ pc[c] = "addLink"
  /\ \/ /\ siafile' = AddSkylink(siafile, FileNode(c), call[c].link)
        /\ Goto(c, "uploadBase")
     \/ siafile' = siafile /\ Fail(c)
  /\ UNCHANGED <<blocked, uploaded, call>>

\* Where an operation goes once its base sector is uploaded.
AfterBase(c) ==
  CASE call[c].op = "upload"  -> Goto(c, "final")
    [] call[c].op = "convert" -> Succeed(c)
    [] call[c].op \in {"pin", "restore"} /\ call[c].large -> Goto(c, "fanout")
    [] OTHER                  -> Succeed(c)

\* managedUploadBaseSector (lines 381-402): stream the base sector to hosts
\* into a new siafile at the target path, then add the skylink to it.
UploadBase(c) ==
  /\ pc[c] = "uploadBase"
  /\ LET f == Base(TargetPath(c)) IN
     \E o \in UploadStreamOutcomes(f, c, call[c].force) :
       /\ uploaded' = IF o.created THEN uploaded \cup {call[c].link} ELSE uploaded
       /\ \/ o.ok /\ siafile' = WithLink(o.fs, f, call[c].link) /\ AfterBase(c)
          \/ siafile' = o.fs /\ Fail(c)
  /\ UNCHANGED <<blocked, call>>

\* The end of UploadSkyfile (lines 975-984): a blocked skylink is an error
\* unless this is a dry run.
FinalCheck(c) ==
  /\ pc[c] = "final"
  /\ IF call[c].link \in blocked THEN Fail(c) ELSE Succeed(c)
  /\ UNCHANGED <<siafile, blocked, uploaded, call>>

\* Mutant: the cleanup forgets the extended siafile.
CleanupBaseOnly(c) ==
  /\ pc[c] = "cleanup"
  /\ siafile' = Without(siafile, Base(CallerPath[c]))
  /\ pc' = [pc EXCEPT ![c] = "done"]
  /\ UNCHANGED <<blocked, uploaded, call, result>>

\* The deferred cleanup of UploadSkyfile (lines 956-967), after an error
\* or a dry run: delete the siafile at sup.SiaPath and its extended one.
Cleanup(c) ==
  /\ pc[c] = "cleanup"
  /\ siafile' = Without(Without(siafile, Base(CallerPath[c])), Ext(CallerPath[c]))
  /\ pc' = [pc EXCEPT ![c] = "done"]
  /\ UNCHANGED <<blocked, uploaded, call, result>>

\* PinSkylink up to the base-sector upload (lines 668-735): a blocked
\* skylink is refused (DownloadByRoot checks the hashed root again);
\* download, decryption and parsing failures are errors.
PinStart(c) ==
  /\ pc[c] = "pin"
  /\ IF call[c].link \in blocked THEN Fail(c)
     ELSE Fail(c) \/ Goto(c, "uploadBase")
  /\ UNCHANGED <<siafile, blocked, uploaded, call>>

\* The fanout of a pinned skylink (lines 737-773): upload it from the
\* skylink's data source to Ext(p) and add the skylink to that siafile.
PinFanout(c) ==
  /\ pc[c] = "fanout" /\ call[c].op = "pin"
  /\ LET f == Ext(TargetPath(c)) IN
     \E o \in UploadStreamOutcomes(f, c, call[c].force) :
       \/ o.ok /\ siafile' = WithLink(o.fs, f, call[c].link) /\ Succeed(c)
       \/ siafile' = o.fs /\ Fail(c)
  /\ UNCHANGED <<blocked, uploaded, call>>

\* RestoreSkyfile up to the base-sector upload (lines 777-870): a
\* blocked skylink is refused; reading the backup, decrypting, parsing and
\* building the readers may fail.
RestoreStart(c) ==
  /\ pc[c] = "restore"
  /\ IF call[c].link \in blocked THEN Fail(c)
     ELSE Fail(c) \/ Goto(c, "uploadBase")
  /\ UNCHANGED <<siafile, blocked, uploaded, call>>

\* The fanout of a restored skyfile (lines 872-915): upload parameters and
\* the cipher key may fail, then the fanout is streamed to Ext(p).
RestoreFanout(c) ==
  /\ pc[c] = "fanout" /\ call[c].op = "restore"
  /\ \/ siafile' = siafile /\ Fail(c)
     \/ \E o \in UploadStreamOutcomes(Ext(TargetPath(c)), c, FALSE) :
          /\ siafile' = o.fs
          /\ IF o.ok THEN Goto(c, "restoreCheck") ELSE Fail(c)
  /\ UNCHANGED <<blocked, uploaded, call>>

\* The end of RestoreSkyfile (lines 917-936): if the fanout's siafile lists
\* a blocked skylink, or AddSkylink fails, the base siafile at sup.SiaPath
\* is deleted and an error returned; otherwise the skylink is added.
RestoreCheck(c) ==
  /\ pc[c] = "restoreCheck"
  /\ LET p == TargetPath(c) IN
     \/ /\ ~IsFileNodeBlocked(Ext(p))
        /\ siafile' = AddSkylink(siafile, Ext(p), call[c].link)
        /\ Succeed(c)
     \/ siafile' = Without(siafile, Base(p)) /\ Fail(c)
  /\ UNCHANGED <<blocked, uploaded, call>>

\* DownloadByRoot, DownloadSkylink and DownloadSkylinkBaseSector (lines
\* 557-635): a blocked skylink is refused before anything is fetched; the
\* fetch itself may fail or time out.
Download(c) ==
  /\ pc[c] = "download"
  /\ IF call[c].link \in blocked THEN Fail(c) ELSE Fail(c) \/ Succeed(c)
  /\ UNCHANGED <<siafile, blocked, uploaded, call>>

\* UpdateSkynetBlocklist (lines 349-356): add and remove hashed roots.
UpdateSkynetBlocklist ==
  /\ \E additions, removals \in SUBSET Links :
       blocked' = (blocked \cup additions) \ removals
  /\ blocked' # blocked
  /\ UNCHANGED <<siafile, uploaded, call, pc, result>>

CallerStep(c) ==
  \/ UploadStart(c) \/ UploadExt(c) \/ Convert(c) \/ CheckNode(c)
  \/ AddLinkToNode(c) \/ UploadBase(c) \/ FinalCheck(c) \/ Cleanup(c)
  \/ PinStart(c) \/ PinFanout(c) \/ RestoreStart(c) \/ RestoreFanout(c)
  \/ RestoreCheck(c) \/ Download(c)

Next == UpdateSkynetBlocklist \/ \E c \in Callers : CallerStep(c)

Spec == Init /\ [][Next]_vars

-----------------------------------------------------------------------------
(* Properties.                                                             *)

\* The variables range over their types, and a siafile that does not exist
\* has no metadata left: DeleteFile removes a siafile with its skylinks.
TypeOK ==
  /\ siafile \in [FileKeys -> Siafile]
  /\ \A f \in FileKeys : ~siafile[f].exists => siafile[f] = NoFile
  /\ blocked \subseteq Links
  /\ uploaded \subseteq Links
  /\ call \in [Callers -> ValidCalls]
  /\ pc \in [Callers -> Ops \cup {"uploadExt", "checkNode", "addLink", "uploadBase",
                                  "final", "fanout", "restoreCheck", "cleanup",
                                  "done"}]
  /\ result \in [Callers -> {"none", "ok", "err"}]

\* What UploadSkyfile leaves behind (lines 943-985), whatever the
\* blocklist does meanwhile: when it returns a skylink of a real upload,
\* the siafile at sup.SiaPath exists and lists that skylink; when it fails
\* once its cleanup is deferred (line 956), or is a dry run, neither that
\* siafile nor its extended one is left.  The early return of a
\* generateFilekey failure (line 951) is the one return from "upload"
\* itself, and it leaves the filesystem as it found it.
UploadSkyfileOutcome ==
  [][\A c \in Callers :
       (call[c].op = "upload" /\ pc[c] # "done" /\ pc'[c] = "done") =>
         LET p == CallerPath[c] IN
         IF result'[c] = "ok" /\ ~call[c].dry
         THEN siafile'[Base(p)].exists /\ call[c].link \in siafile'[Base(p)].links
         ELSE IF pc[c] = "upload"
         THEN siafile' = siafile
         ELSE ~siafile'[Base(p)].exists /\ ~siafile'[Ext(p)].exists
    ]_vars

\* Spec 4.I: the blocklist is consulted before an upload commits, and a
\* blocked skylink is refused, so no base sector of a skylink that is
\* blocked when its upload starts is sent to hosts.
NoBlockedUpload ==
  [][(uploaded' \ uploaded) \cap blocked = {}]_vars

\* The deferred cleanup of UploadSkyfile (comment at line 955) removes the
\* siafiles of the failed attempt: it never deletes a siafile that another
\* call created.
CleanupOnlyOwnFiles ==
  [][\A c \in Callers : pc[c] = "cleanup" /\ pc'[c] = "done" =>
       \A f \in {Base(CallerPath[c]), Ext(CallerPath[c])} :
         siafile[f].exists /\ ~siafile'[f].exists => siafile[f].owner = c
    ]_vars

=============================================================================
