------------------------- MODULE ProgramSectorsProofs -------------------------
(***************************************************************************)
(* Proofs that the sector cache of a program is well typed and never       *)
(* holds a gained sector the list has lost, for every value of the         *)
(* constants: any roots, any base lists, any index and instruction bounds. *)
(*                                                                         *)
(* GainedAreListed is not inductive: while dropSectors' loop runs, the     *)
(* list is already cut and the cache not yet updated.  IInv says where a   *)
(* gained root may be in the meantime: still listed, or among the dropped  *)
(* roots the loop has not reached.                                         *)
(***************************************************************************)
EXTENDS ProgramSectors, TLAPS

\* The inductive invariant: GainedAreListed, with the roots the loop of
\* dropSectors has not yet reached counted as listed.
IInv ==
  /\ TypeOK
  /\ sectorsGained \subseteq Range(merkleRoots) \cup Range(droppedRoots)
  /\ sectorsGained \cap sectorsRemoved = {}

-----------------------------------------------------------------------------
(* Lemmas on the list operations the instructions use.                     *)

\* The range of a sequence is the set of its elements at 1..Len.
LEMMA RangeMem ==
  ASSUME NEW S, NEW s \in Seq(S), NEW x
  PROVE  x \in Range(s) <=> \E i \in 1..Len(s) : s[i] = x
<1>1. DOMAIN s = 1..Len(s)
  OBVIOUS
<1>. QED  BY <1>1, Zenon DEF Range

LEMMA RangeAppend ==
  ASSUME NEW S, NEW s \in Seq(S), NEW x \in S
  PROVE  /\ Append(s, x) \in Seq(S)
         /\ Range(Append(s, x)) = Range(s) \cup {x}
<1>1. /\ Append(s, x) \in Seq(S)
      /\ Len(Append(s, x)) = Len(s) + 1
      /\ \A i \in 1..Len(s) : Append(s, x)[i] = s[i]
      /\ Append(s, x)[Len(s) + 1] = x
  OBVIOUS
<1>2. ASSUME NEW y PROVE y \in Range(Append(s, x)) <=> y \in Range(s) \/ y = x
  <2>1. y \in Range(Append(s, x)) <=> \E i \in 1..Len(Append(s, x)) : Append(s, x)[i] = y
    BY <1>1, RangeMem, Zenon
  <2>2. y \in Range(s) <=> \E i \in 1..Len(s) : s[i] = y
    BY RangeMem, Zenon
  <2>. QED  BY <1>1, <2>1, <2>2
<1>. QED  BY <1>1, <1>2

LEMMA RangeSplit ==
  ASSUME NEW S, NEW s \in Seq(S), NEW k \in 0..Len(s)
  PROVE  /\ SubSeq(s, 1, k) \in Seq(S)
         /\ SubSeq(s, k + 1, Len(s)) \in Seq(S)
         /\ Range(s) = Range(SubSeq(s, 1, k)) \cup Range(SubSeq(s, k + 1, Len(s)))
<1>. DEFINE lo == SubSeq(s, 1, k)
            hi == SubSeq(s, k + 1, Len(s))
<1>1. /\ lo \in Seq(S) /\ Len(lo) = k /\ \A i \in 1..k : lo[i] = s[i]
      /\ hi \in Seq(S) /\ Len(hi) = Len(s) - k
      /\ \A i \in 1..Len(s) - k : hi[i] = s[k + i]
  OBVIOUS
<1>2. ASSUME NEW y PROVE y \in Range(s) <=> y \in Range(lo) \/ y \in Range(hi)
  <2>1. y \in Range(s) <=> \E i \in 1..Len(s) : s[i] = y
    BY RangeMem, Zenon
  <2>2. y \in Range(lo) <=> \E i \in 1..Len(lo) : lo[i] = y
    BY <1>1, RangeMem, Zenon
  <2>3. y \in Range(hi) <=> \E i \in 1..Len(hi) : hi[i] = y
    BY <1>1, RangeMem, Zenon
  <2>4. (\E i \in 1..Len(s) : s[i] = y)
          <=> (\E i \in 1..k : s[i] = y) \/ (\E i \in 1..Len(s) - k : s[k + i] = y)
    <3>1. ASSUME NEW i \in 1..Len(s), s[i] = y
          PROVE  (\E j \in 1..k : s[j] = y) \/ (\E j \in 1..Len(s) - k : s[k + j] = y)
      <4>1. CASE i <= k  BY <3>1, <4>1
      <4>2. CASE i > k
        <5>1. i - k \in 1..Len(s) - k /\ s[k + (i - k)] = y  BY <3>1, <4>2
        <5>. QED  BY <5>1
      <4>. QED  BY <4>1, <4>2
    <3>2. ASSUME NEW i \in 1..Len(s) - k, s[k + i] = y
          PROVE  \E j \in 1..Len(s) : s[j] = y
      <4>1. k + i \in 1..Len(s)  OBVIOUS
      <4>. QED  BY <3>2, <4>1
    <3>3. ASSUME NEW i \in 1..k, s[i] = y
          PROVE  \E j \in 1..Len(s) : s[j] = y
      BY <3>3
    <3>. QED  BY <3>1, <3>2, <3>3
  <2>. QED  BY <1>1, <2>1, <2>2, <2>3, <2>4
<1>. QED  BY <1>1, <1>2

LEMMA RangeTail ==
  ASSUME NEW S, NEW s \in Seq(S), s # <<>>
  PROVE  /\ Head(s) \in S
         /\ Tail(s) \in Seq(S)
         /\ Range(s) = {Head(s)} \cup Range(Tail(s))
<1>1. /\ Head(s) \in S /\ Head(s) = s[1] /\ Len(s) >= 1
      /\ Tail(s) \in Seq(S) /\ Len(Tail(s)) = Len(s) - 1
      /\ \A i \in 1..Len(s) - 1 : Tail(s)[i] = s[i + 1]
  OBVIOUS
<1>2. ASSUME NEW y PROVE y \in Range(s) <=> y = Head(s) \/ y \in Range(Tail(s))
  <2>1. y \in Range(s) <=> \E i \in 1..Len(s) : s[i] = y
    BY RangeMem, Zenon
  <2>2. y \in Range(Tail(s)) <=> \E i \in 1..Len(Tail(s)) : Tail(s)[i] = y
    BY <1>1, RangeMem, Zenon
  <2>3. (\E i \in 1..Len(s) : s[i] = y)
          <=> s[1] = y \/ (\E i \in 1..Len(s) - 1 : s[i + 1] = y)
    <3>1. ASSUME NEW i \in 1..Len(s), s[i] = y
          PROVE  s[1] = y \/ (\E j \in 1..Len(s) - 1 : s[j + 1] = y)
      <4>1. CASE i = 1  BY <3>1, <4>1
      <4>2. CASE i > 1
        <5>1. i - 1 \in 1..Len(s) - 1 /\ s[(i - 1) + 1] = y  BY <3>1, <4>2
        <5>. QED  BY <5>1
      <4>. QED  BY <4>1, <4>2
    <3>. QED  BY <3>1, <1>1
  <2>. QED  BY <1>1, <2>1, <2>2, <2>3
<1>. QED  BY <1>1, <1>2

LEMMA RangeSwap ==
  ASSUME NEW S, NEW s \in Seq(S), NEW i \in 0..Len(s) - 1, NEW j \in 0..Len(s) - 1
  PROVE  /\ SwappedRoots(s, i, j) \in Seq(S)
         /\ Range(SwappedRoots(s, i, j)) = Range(s)
<1>. DEFINE t == SwappedRoots(s, i, j)
<1>1. /\ t \in Seq(S) /\ Len(t) = Len(s)
      /\ t[i + 1] = s[j + 1] /\ t[j + 1] = s[i + 1]
      /\ \A k \in 1..Len(s) : k # i + 1 /\ k # j + 1 => t[k] = s[k]
  BY DEF SwappedRoots
<1>2. ASSUME NEW y PROVE y \in Range(t) <=> y \in Range(s)
  <2>1. y \in Range(t) <=> \E k \in 1..Len(t) : t[k] = y
    BY <1>1, RangeMem, Zenon
  <2>2. y \in Range(s) <=> \E k \in 1..Len(s) : s[k] = y
    BY RangeMem, Zenon
  <2>3. ASSUME NEW k \in 1..Len(s), t[k] = y PROVE \E m \in 1..Len(s) : s[m] = y
    <3>1. CASE k = i + 1  BY <1>1, <2>3, <3>1
    <3>2. CASE k = j + 1  BY <1>1, <2>3, <3>2
    <3>3. CASE k # i + 1 /\ k # j + 1  BY <1>1, <2>3, <3>3
    <3>. QED  BY <3>1, <3>2, <3>3
  <2>4. ASSUME NEW k \in 1..Len(s), s[k] = y PROVE \E m \in 1..Len(s) : t[m] = y
    <3>1. CASE k = i + 1  BY <1>1, <2>4, <3>1
    <3>2. CASE k = j + 1  BY <1>1, <2>4, <3>2
    <3>3. CASE k # i + 1 /\ k # j + 1  BY <1>1, <2>4, <3>3
    <3>. QED  BY <3>1, <3>2, <3>3
  <2>5. Len(t) = Len(s)  BY <1>1
  <2>. QED  BY <2>1, <2>2, <2>3, <2>4, <2>5
<1>. QED  BY <1>1, <1>2

\* The range of a list of roots is a set of roots; the empty list has none.
LEMMA RangeType ==
  ASSUME NEW S, NEW s \in Seq(S)
  PROVE  /\ Range(s) \subseteq S
         /\ Range(<<>>) = {}
BY DEF Range

-----------------------------------------------------------------------------
(* IInv holds initially and is kept by every action.                       *)

LEMMA InitIInv == Init => IInv
<1>. SUFFICES ASSUME Init PROVE IInv  OBVIOUS
<1>1. merkleRoots \in Seq(Roots)
  BY ConstantsAssumption DEF Init
<1>2. Range(merkleRoots) \subseteq Roots /\ Range(<<>>) = {}
  BY <1>1, RangeType
<1>. QED  BY <1>1, <1>2, ConstantsAssumption DEF Init, IInv, TypeOK

\* A fatal error ends the program and changes nothing else.
LEMMA AbortIInv ==
  ASSUME IInv, Abort, executed' \in 0..MaxInstructions
  PROVE  IInv'
BY DEF Abort, IInv, TypeOK

LEMMA AppendIInv ==
  ASSUME IInv, AppendSector
  PROVE  IInv'
<1>1. executed' \in 0..MaxInstructions /\ droppedRoots = <<>>
  BY ConstantsAssumption DEF AppendSector, Instruction, IInv, TypeOK
<1>2. PICK d \in Roots \cup {ShortData} :
        IF d = ShortData
        THEN Abort
        ELSE /\ sectorsGained' = sectorsGained \cup {d}
             /\ sectorsRemoved' = sectorsRemoved \ {d}
             /\ merkleRoots' = Append(merkleRoots, d)
             /\ proof' = <<>>
             /\ UNCHANGED <<store, status, droppedRoots>>
  BY DEF AppendSector
<1>3. CASE d = ShortData
  BY <1>1, <1>2, <1>3, AbortIInv
<1>4. CASE d # ShortData
  <2>1. d \in Roots  BY <1>4
  <2>0. merkleRoots' = Append(merkleRoots, d)
    BY <1>2, <1>4
  <2>2. merkleRoots' \in Seq(Roots) /\ Range(merkleRoots') = Range(merkleRoots) \cup {d}
    BY <2>0, <2>1, RangeAppend DEF IInv, TypeOK
  <2>3. proof' \in Seq((0..MaxIndex) \X Roots)
    BY <1>2, <1>4
  <2>. QED  BY <1>1, <1>2, <1>4, <2>1, <2>2, <2>3 DEF IInv, TypeOK
<1>. QED  BY <1>3, <1>4

LEMMA DropSectorsIInv ==
  ASSUME IInv, DropSectors
  PROVE  IInv'
<1>1. executed' \in 0..MaxInstructions /\ droppedRoots = <<>>
  BY ConstantsAssumption DEF DropSectors, Instruction, IInv, TypeOK
<1>2. PICK n \in 0..MaxIndex + 1 :
        IF n > Len(merkleRoots)
        THEN Abort
        ELSE LET keep == Len(merkleRoots) - n IN
             /\ merkleRoots' = SubSeq(merkleRoots, 1, keep)
             /\ droppedRoots' = SubSeq(merkleRoots, keep + 1, Len(merkleRoots))
             /\ proof' = <<>>
             /\ UNCHANGED <<sectorsGained, sectorsRemoved, store, status>>
  BY DEF DropSectors
<1>3. CASE n > Len(merkleRoots)
  BY <1>1, <1>2, <1>3, AbortIInv
<1>4. CASE ~(n > Len(merkleRoots))
  <2>. DEFINE keep == Len(merkleRoots) - n
  <2>1. keep \in 0..Len(merkleRoots)
    BY <1>4 DEF IInv, TypeOK
  <2>0. /\ merkleRoots' = SubSeq(merkleRoots, 1, keep)
        /\ droppedRoots' = SubSeq(merkleRoots, keep + 1, Len(merkleRoots))
    BY <1>2, <1>4
  <2>2. /\ merkleRoots' \in Seq(Roots) /\ droppedRoots' \in Seq(Roots)
        /\ Range(merkleRoots) = Range(merkleRoots') \cup Range(droppedRoots')
    BY <2>0, <2>1, RangeSplit DEF IInv, TypeOK
  <2>3. Range(droppedRoots) = {}
    BY <1>1 DEF Range
  <2>. QED  BY <1>1, <1>2, <1>4, <2>2, <2>3 DEF IInv, TypeOK
<1>. QED  BY <1>3, <1>4

\* One iteration of the loop forgets a gained root or marks it removed; a
\* gained root equal to the head is the one forgotten.
LEMMA DropRootIInv ==
  ASSUME IInv, DropRoot
  PROVE  IInv'
<1>. DEFINE h == Head(droppedRoots)
<1>1. /\ droppedRoots # <<>>
      /\ h \in Roots /\ Tail(droppedRoots) \in Seq(Roots)
      /\ Range(droppedRoots) = {h} \cup Range(Tail(droppedRoots))
  BY RangeTail DEF DropRoot, IInv, TypeOK
<1>2. /\ droppedRoots' = Tail(droppedRoots)
      /\ UNCHANGED <<merkleRoots, store, status, proof, executed>>
  BY DEF DropRoot
<1>3. CASE h \in sectorsGained
  <2>1. sectorsGained' = sectorsGained \ {h} /\ sectorsRemoved' = sectorsRemoved
    BY <1>3 DEF DropRoot, DropFromCache
  <2>. QED  BY <1>1, <1>2, <2>1 DEF IInv, TypeOK
<1>4. CASE h \notin sectorsGained
  <2>1. sectorsGained' = sectorsGained /\ sectorsRemoved' = sectorsRemoved \cup {h}
    BY <1>4 DEF DropRoot, DropFromCache
  <2>. QED  BY <1>1, <1>2, <1>4, <2>1 DEF IInv, TypeOK
<1>. QED  BY <1>3, <1>4

\* The proof a swap outputs is a list of <<index, root>> pairs.
LEMMA SwapProofType ==
  ASSUME NEW s \in Seq(Roots), NEW o1 \in 0..MaxIndex, NEW o2 \in 0..MaxIndex,
         o1 <= o2, o2 < Len(s)
  PROVE  SwapProof(s, o1, o2) \in Seq((0..MaxIndex) \X Roots)
<1>1. s[o1 + 1] \in Roots /\ s[o2 + 1] \in Roots
  OBVIOUS
<1>2. <<o1, s[o2 + 1]>> \in (0..MaxIndex) \X Roots /\ <<o2, s[o1 + 1]>> \in (0..MaxIndex) \X Roots
  BY <1>1
<1>3. CASE o1 = o2
  BY <1>2, <1>3 DEF SwapProof
<1>4. CASE o1 # o2
  BY <1>2, <1>4 DEF SwapProof
<1>. QED  BY <1>3, <1>4

LEMMA SwapIInv ==
  ASSUME IInv, SwapSector
  PROVE  IInv'
<1>1. executed' \in 0..MaxInstructions /\ droppedRoots = <<>>
  BY ConstantsAssumption DEF SwapSector, Instruction, IInv, TypeOK
<1>. QED
  <2>1. PICK a \in 0..MaxIndex, b \in 0..MaxIndex, wantProof \in BOOLEAN :
          LET o1 == IF b < a THEN b ELSE a
              o2 == IF b < a THEN a ELSE b
          IN  IF o2 >= Len(merkleRoots)
              THEN Abort
              ELSE LET newRoots == SwappedRoots(merkleRoots, o1, o2) IN
                   /\ merkleRoots' = newRoots
                   /\ proof' = IF wantProof THEN SwapProof(newRoots, o1, o2)
                               ELSE <<>>
                   /\ UNCHANGED <<sectorsGained, sectorsRemoved, store, status,
                                  droppedRoots>>
    BY DEF SwapSector
  <2>. DEFINE o1 == IF b < a THEN b ELSE a
              o2 == IF b < a THEN a ELSE b
              newRoots == SwappedRoots(merkleRoots, o1, o2)
  <2>2. o1 \in 0..MaxIndex /\ o2 \in 0..MaxIndex /\ o1 <= o2
    BY ConstantsAssumption
  <2>3. CASE o2 >= Len(merkleRoots)
    BY <1>1, <2>1, <2>3, AbortIInv
  <2>4. CASE ~(o2 >= Len(merkleRoots))
    <3>1. /\ merkleRoots' = newRoots
          /\ proof' = IF wantProof THEN SwapProof(newRoots, o1, o2) ELSE <<>>
          /\ UNCHANGED <<sectorsGained, sectorsRemoved, store, status, droppedRoots>>
      BY <2>1, <2>4
    <3>2. o1 \in 0..Len(merkleRoots) - 1 /\ o2 \in 0..Len(merkleRoots) - 1
      BY <2>2, <2>4 DEF IInv, TypeOK
    <3>3. newRoots \in Seq(Roots) /\ Range(newRoots) = Range(merkleRoots)
      BY <3>2, RangeSwap DEF IInv, TypeOK
    <3>4. Len(newRoots) = Len(merkleRoots)
      BY DEF SwappedRoots
    <3>5. proof' \in Seq((0..MaxIndex) \X Roots)
      BY <2>2, <2>4, <3>1, <3>3, <3>4, SwapProofType
    <3>. QED  BY <1>1, <3>1, <3>3, <3>5 DEF IInv, TypeOK
  <2>. QED  BY <2>3, <2>4

LEMMA QueryIInv ==
  ASSUME IInv, HasSector \/ ReadSector
  PROVE  IInv'
<1>1. executed' \in 0..MaxInstructions
  BY ConstantsAssumption DEF HasSector, ReadSector, Instruction, IInv, TypeOK
<1>2. CASE HasSector
  BY <1>1, <1>2 DEF HasSector, IInv, TypeOK
<1>3. CASE ReadSector
  <2>1. PICK r \in Roots :
          IF r \in Range(merkleRoots) /\ r \notin sectorsGained /\ r \notin store
          THEN Abort
          ELSE /\ proof' = <<>>
               /\ UNCHANGED <<merkleRoots, sectorsGained, sectorsRemoved, store,
                              status, droppedRoots>>
    BY <1>3 DEF ReadSector
  <2>2. CASE r \in Range(merkleRoots) /\ r \notin sectorsGained /\ r \notin store
    BY <1>1, <2>1, <2>2, AbortIInv
  <2>3. CASE ~(r \in Range(merkleRoots) /\ r \notin sectorsGained /\ r \notin store)
    <3>1. /\ proof' = <<>>
          /\ UNCHANGED <<merkleRoots, sectorsGained, sectorsRemoved, store,
                         status, droppedRoots>>
      BY <2>1, <2>3
    <3>. QED  BY <1>1, <3>1 DEF IInv, TypeOK
  <2>. QED  BY <2>2, <2>3
<1>. QED  BY <1>2, <1>3

LEMMA CommitIInv ==
  ASSUME IInv, Commit
  PROVE  IInv'
BY DEF Commit, IInv, TypeOK

LEMMA NextIInv ==
  ASSUME IInv, [Next]_vars
  PROVE  IInv'
<1>1. CASE UNCHANGED vars
  BY <1>1 DEF vars, IInv, TypeOK
<1>. QED  BY <1>1, AppendIInv, DropSectorsIInv, DropRootIInv, SwapIInv,
             QueryIInv, CommitIInv DEF Next

-----------------------------------------------------------------------------
(* Theorems.                                                               *)

\* IInv holds in every state of every program.
THEOREM IInvHolds == Spec => []IInv
BY InitIInv, NextIInv, PTL DEF Spec

\* Every variable of the cache, the store and the program keeps the type
\* the code gives it, for any program of any length.
THEOREM TypeCorrect == Spec => []TypeOK
<1>1. IInv => TypeOK  BY DEF IInv
<1>. QED  BY <1>1, IInvHolds, PTL

\* Whatever appends, drops and swaps a program makes, once dropSectors has
\* returned every sector the commit would write is still in the list, and
\* no sector is both written and deleted by the commit.
THEOREM GainedListed == Spec => []GainedAreListed
<1>1. IInv => GainedAreListed
  <2>. SUFFICES ASSUME IInv PROVE GainedAreListed  OBVIOUS
  <2>1. droppedRoots = <<>> => Range(droppedRoots) = {}
    BY DEF Range
  <2>. QED  BY <2>1 DEF IInv, GainedAreListed
<1>. QED  BY <1>1, IInvHolds, PTL

\* The two leaves of a swap's proof are the roots the list held before it.
LEMMA SwapLeaves ==
  ASSUME NEW s \in Seq(Roots), NEW o1 \in Nat, NEW o2 \in Nat,
         o1 <= o2, o2 < Len(s)
  PROVE  LET t == SwappedRoots(s, o1, o2)
             p == SwapProof(t, o1, o2)
         IN  /\ \A k \in 1..Len(p) - 1 : p[k][1] < p[k + 1][1]
             /\ \A k \in 1..Len(p) : p[k][1] < Len(s) /\ p[k][2] = s[p[k][1] + 1]
<1>1. CASE o1 = o2
  BY <1>1 DEF SwappedRoots, SwapProof
<1>2. CASE o1 # o2
  BY <1>2 DEF SwappedRoots, SwapProof
<1>. QED  BY <1>1, <1>2

\* A step from an IInv state keeps the promise of SwapProofShowsOldLeaves:
\* only a swap that is not aborted outputs a proof, and its proof is read
\* back from the swapped list at the exchanged offsets.
LEMMA StepShowsOldLeaves ==
  ASSUME IInv, [Next]_vars
  PROVE  [executed' # executed /\ proof' # <<>> =>
            /\ \A k \in 1..Len(proof') - 1 : proof'[k][1] < proof'[k + 1][1]
            /\ \A k \in 1..Len(proof') :
                 proof'[k][1] < Len(merkleRoots)
                 /\ proof'[k][2] = merkleRoots[proof'[k][1] + 1]
         ]_vars
<1>. SUFFICES ASSUME executed' # executed, proof' # <<>>, Next
              PROVE  /\ \A k \in 1..Len(proof') - 1 : proof'[k][1] < proof'[k + 1][1]
                     /\ \A k \in 1..Len(proof') :
                          proof'[k][1] < Len(merkleRoots)
                          /\ proof'[k][2] = merkleRoots[proof'[k][1] + 1]
  BY DEF vars
<1>1. ~DropRoot /\ ~Commit
  BY DEF DropRoot, Commit
<1>2. ~AppendSector /\ ~DropSectors /\ ~HasSector /\ ~ReadSector
  BY DEF AppendSector, DropSectors, HasSector, ReadSector, Abort
<1>3. SwapSector
  BY <1>1, <1>2 DEF Next, SwapSector, IInv
<1>4. PICK a \in 0..MaxIndex, b \in 0..MaxIndex, wantProof \in BOOLEAN :
        LET o1 == IF b < a THEN b ELSE a
            o2 == IF b < a THEN a ELSE b
        IN  IF o2 >= Len(merkleRoots)
            THEN Abort
            ELSE LET newRoots == SwappedRoots(merkleRoots, o1, o2) IN
                 /\ merkleRoots' = newRoots
                 /\ proof' = IF wantProof THEN SwapProof(newRoots, o1, o2)
                             ELSE <<>>
                 /\ UNCHANGED <<sectorsGained, sectorsRemoved, store, status,
                                droppedRoots>>
  BY <1>3 DEF SwapSector
<1>. DEFINE o1 == IF b < a THEN b ELSE a
            o2 == IF b < a THEN a ELSE b
<1>5. o1 \in Nat /\ o2 \in Nat /\ o1 <= o2
  BY ConstantsAssumption
<1>6. ~(o2 >= Len(merkleRoots)) /\ wantProof
  BY <1>4 DEF Abort
<1>7. proof' = SwapProof(SwappedRoots(merkleRoots, o1, o2), o1, o2)
  BY <1>4, <1>6
<1>8. LET p == SwapProof(SwappedRoots(merkleRoots, o1, o2), o1, o2)
      IN  /\ \A k \in 1..Len(p) - 1 : p[k][1] < p[k + 1][1]
          /\ \A k \in 1..Len(p) :
               p[k][1] < Len(merkleRoots) /\ p[k][2] = merkleRoots[p[k][1] + 1]
  <2>1. merkleRoots \in Seq(Roots) /\ o2 < Len(merkleRoots)
    BY <1>6 DEF IInv, TypeOK
  <2>. QED  BY <1>5, <2>1, SwapLeaves
<1>. QED  BY <1>7, <1>8

\* Every proof a SwapSector outputs names increasing offsets inside the
\* list and carries the leaves the list held there before the swap.
THEOREM SwapProofHolds == Spec => SwapProofShowsOldLeaves
BY IInvHolds, StepShowsOldLeaves, PTL DEF Spec, SwapProofShowsOldLeaves

=============================================================================
