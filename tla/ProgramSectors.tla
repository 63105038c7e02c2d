---------------------------- MODULE ProgramSectors ----------------------------
(***************************************************************************)
(* The per-program sector cache of the host's program engine (the          *)
(* "sectors" type of package mdm, src/unnamed/part_000) and the SwapSector  *)
(* instruction that drives it (src/modules/host/mdm/instructionswapsector.go) *)
(* together with the other cache operations an instruction can call.      *)
(*                                                                         *)
(* A program starts from the contract's list of sector roots and runs its  *)
(* instructions one after the other: appendSector, dropSectors,            *)
(* swapSectors, hasSector and readSector change or query the cache         *)
(* (merkleRoots, sectorsGained, sectorsRemoved).  A fatal error ends the   *)
(* program with nothing committed; at the end the cache is committed to    *)
(* the host's sector store: deletions for sectorsRemoved, then writes for  *)
(* sectorsGained (spec 4.C).                                               *)
(*                                                                         *)
(* Sector data is identified with its Merkle root: crypto.MerkleRoot is    *)
(* taken to be collision free, so sectorsGained, a map from root to data,  *)
(* is the set of its keys.  Data of the wrong length is ShortData.  The    *)
(* running Merkle root of the list is a function of the list and is left   *)
(* out; a proof is its ranges and old leaf hashes, without the sibling     *)
(* hashes MerkleDiffProof adds.  Indices are Go's, from 0.                 *)
(*                                                                         *)
(* ProgramData is modelled as spec 4.D describes it: Uint64 returns the    *)
(* bytes at an offset or an error.  In part_000 both threadedFetchData      *)
(* (line 30, started by NewProgramData) and Uint64 (line 37) are stubs that *)
(* panic, so the code as it stands crashes the host on every program; the  *)
(* model covers the cache as it behaves once ProgramData is implemented.   *)
(***************************************************************************)
EXTENDS Naturals, Sequences, FiniteSets

CONSTANTS
  Roots,            \* sector roots (the data of a sector, by its root)
  ShortData,        \* sector data whose length is not SectorSize
  BaseLists,        \* root lists a contract may hold when a program starts
  OtherStored,      \* roots the host stores for other contracts
  MaxIndex,         \* largest sector index an instruction may name
  MaxInstructions   \* bound on the number of instructions of a program

ASSUME ConstantsAssumption ==
  /\ ShortData \notin Roots
  /\ BaseLists \subseteq Seq(Roots)
  /\ OtherStored \subseteq Roots
  /\ MaxIndex \in Nat /\ MaxInstructions \in Nat

VARIABLES
  merkleRoots,     \* the program's list of sector roots
  sectorsGained,   \* roots appended by the program and still cached
  sectorsRemoved,  \* roots dropped by the program that were not gained
  store,           \* roots in the host's sector store
  status,          \* "running", "committed" or "aborted"
  proof,           \* the last output's proof: <<index, old leaf>> pairs
  executed,        \* number of instructions run so far
  droppedRoots     \* roots dropSectors cut off and has not yet uncached

vars == <<merkleRoots, sectorsGained, sectorsRemoved, store, status, proof,
          executed, droppedRoots>>

Range(f) == {f[i] : i \in DOMAIN f}

-----------------------------------------------------------------------------

Init ==
  /\ merkleRoots \in BaseLists
  /\ sectorsGained = {}
  /\ sectorsRemoved = {}
  /\ store = Range(merkleRoots) \cup OtherStored
  /\ status = "running"
  /\ proof = <<>>
  /\ executed = 0
  /\ droppedRoots = <<>>

\* An instruction starts only while the program runs, after the previous
\* one has returned, and within the bound.
Instruction ==
  /\ status = "running"
  /\ droppedRoots = <<>>
  /\ executed < MaxInstructions
  /\ executed' = executed + 1

\* A fatal instruction error: the program ends and the cache is discarded.
Abort ==
  /\ status' = "aborted"
  /\ proof' = <<>>
  /\ UNCHANGED <<merkleRoots, sectorsGained, sectorsRemoved, store, droppedRoots>>

\* Mutant: appendSector without the SectorSize check of line 69.
AppendSectorNoLengthCheck ==
  /\ Instruction
  /\ \E d \in Roots \cup {ShortData} :
       /\ sectorsGained' = sectorsGained \cup {d}
       /\ sectorsRemoved' = sectorsRemoved \ {d}
       /\ merkleRoots' = Append(merkleRoots, d)
       /\ proof' = <<>>
       /\ UNCHANGED <<store, status, droppedRoots>>

\* appendSector (part_000 lines 68-85): reject data that is not a sector,
\* cache it, unmark it as removed and push its root.
AppendSector ==
  /\ Instruction
  /\ \E d \in Roots \cup {ShortData} :
       IF d = ShortData
       THEN Abort
       ELSE /\ sectorsGained' = sectorsGained \cup {d}
            /\ sectorsRemoved' = sectorsRemoved \ {d}
            /\ merkleRoots' = Append(merkleRoots, d)
            /\ proof' = <<>>
            /\ UNCHANGED <<store, status, droppedRoots>>

\* Mutant: a dropped gained root stays cached.
DropFromCacheKeepGained(gained, removed, root) ==
  IF root \in gained THEN <<gained, removed>> ELSE <<gained, removed \cup {root}>>

\* The cache update of dropSectors for one dropped root (lines 101-110):
\* a gained root is forgotten, any other is marked as removed.
DropFromCache(gained, removed, root) ==
  IF root \in gained
  THEN <<gained \ {root}, removed>>
  ELSE <<gained, removed \cup {root}>>

\* dropSectors (lines 88-97): reject dropping more roots than the list
\* has, and cut the dropped roots off the list.  The cache is updated by
\* the loop that follows, one DropRoot step per dropped root.
DropSectors ==
  /\ Instruction
  /\ \E n \in 0..MaxIndex + 1 :
       IF n > Len(merkleRoots)
       THEN Abort
       ELSE LET keep == Len(merkleRoots) - n IN
            /\ merkleRoots' = SubSeq(merkleRoots, 1, keep)
            /\ droppedRoots' = SubSeq(merkleRoots, keep + 1, Len(merkleRoots))
            /\ proof' = <<>>
            /\ UNCHANGED <<sectorsGained, sectorsRemoved, store, status>>

\* One iteration of dropSectors' loop over the dropped roots, in order
\* (lines 100-110); the instruction returns when none is left (112-113).
DropRoot ==
  /\ droppedRoots # <<>>
  /\ LET after == DropFromCache(sectorsGained, sectorsRemoved, Head(droppedRoots))
     IN  /\ sectorsGained' = after[1]
         /\ sectorsRemoved' = after[2]
  /\ droppedRoots' = Tail(droppedRoots)
  /\ UNCHANGED <<merkleRoots, store, status, proof, executed>>

\* swapSectors (not under src/, spec 4.C): both indices must be in the
\* list; the two roots are exchanged (nothing changes when they are equal).
SwappedRoots(list, i, j) ==
  [list EXCEPT ![i + 1] = list[j + 1], ![j + 1] = list[i + 1]]

\* Mutant: the old leaves are read at the new positions, forgetting that
\* the swap reversed them.
SwapProofNotReversed(newRoots, o1, o2) ==
  IF o1 = o2 THEN <<<<o1, newRoots[o1 + 1]>>>>
  ELSE <<<<o1, newRoots[o1 + 1]>>, <<o2, newRoots[o2 + 1]>>>>

\* The proof of instructionSwapSector.Execute (lines 78-100): the range of
\* the smaller offset and, when the offsets differ, the range of the larger,
\* each with its pre-swap leaf read from the swapped list at the other
\* offset.
SwapProof(newRoots, o1, o2) ==
  IF o1 = o2 THEN <<<<o1, newRoots[o2 + 1]>>>>
  ELSE <<<<o1, newRoots[o2 + 1]>>, <<o2, newRoots[o1 + 1]>>>>

\* instructionSwapSector.Execute (lines 50-107): fetch both offsets from the
\* program data (an error of Uint64 aborts), order them, swap, and build the
\* proof when it is wanted.
SwapSector ==
  /\ Instruction
  /\ \E a, b \in 0..MaxIndex, wantProof \in BOOLEAN :
       LET o1 == IF b < a THEN b ELSE a
           o2 == IF b < a THEN a ELSE b
       IN  IF o2 >= Len(merkleRoots)
           THEN Abort
           ELSE LET newRoots == SwappedRoots(merkleRoots, o1, o2) IN
                /\ merkleRoots' = newRoots
                /\ proof' = IF wantProof THEN SwapProof(newRoots, o1, o2)
                            ELSE <<>>
                /\ UNCHANGED <<sectorsGained, sectorsRemoved, store, status,
                                droppedRoots>>

\* hasSector (lines 118-125) answers from the list: no state changes.
HasSector ==
  /\ Instruction
  /\ proof' = <<>>
  /\ UNCHANGED <<merkleRoots, sectorsGained, sectorsRemoved, store, status,
                 droppedRoots>>

\* readSector (lines 128-142) fails when the root is not listed, serves a
\* gained root from the cache and any other from the host's store; a read
\* the store cannot serve is a fatal error of the program.
ReadSector ==
  /\ Instruction
  /\ \E r \in Roots :
       IF r \in Range(merkleRoots) /\ r \notin sectorsGained /\ r \notin store
       THEN Abort
       ELSE /\ proof' = <<>>
            /\ UNCHANGED <<merkleRoots, sectorsGained, sectorsRemoved, store, status,
                 droppedRoots>>

\* End of the program (spec 4.C): delete every removed root, then write
\* every gained one.
Commit ==
  /\ status = "running"
  /\ droppedRoots = <<>>
  /\ store' = (store \ sectorsRemoved) \cup sectorsGained
  /\ status' = "committed"
  /\ UNCHANGED <<merkleRoots, sectorsGained, sectorsRemoved, proof, executed,
                 droppedRoots>>

Next ==
  \/ AppendSector
  \/ DropSectors
  \/ DropRoot
  \/ SwapSector
  \/ HasSector
  \/ ReadSector
  \/ Commit

Spec == Init /\ [][Next]_vars

-----------------------------------------------------------------------------
(* Properties.                                                             *)

\* Every variable ranges over the values the code gives it.
TypeOK ==
  /\ merkleRoots \in Seq(Roots)
  /\ sectorsGained \subseteq Roots
  /\ sectorsRemoved \subseteq Roots
  /\ store \subseteq Roots
  /\ status \in {"running", "committed", "aborted"}
  /\ proof \in Seq((0..MaxIndex) \X Roots)
  /\ executed \in 0..MaxInstructions
  /\ droppedRoots \in Seq(Roots)

\* Every sector the commit writes is one the program's list still refers
\* to once the current instruction has returned, and none is ever both
\* written and deleted: appends and drops in any order never leave an
\* orphan in sectorsGained.
GainedAreListed ==
  /\ droppedRoots = <<>> => sectorsGained \subseteq Range(merkleRoots)
  /\ sectorsGained \cap sectorsRemoved = {}

\* The proof an instruction outputs (SwapSector) names strictly increasing
\* indices, one per distinct offset, and carries for each the leaf the
\* list held there before the instruction, so a renter can check the old
\* root from it.
SwapProofShowsOldLeaves ==
  [][executed' # executed /\ proof' # <<>> =>
       /\ \A k \in 1..Len(proof') - 1 : proof'[k][1] < proof'[k + 1][1]
       /\ \A k \in 1..Len(proof') :
            proof'[k][1] < Len(merkleRoots)
            /\ proof'[k][2] = merkleRoots[proof'[k][1] + 1]
    ]_vars

=============================================================================
