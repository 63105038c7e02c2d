----------------------------- MODULE SectorCache -----------------------------
(***************************************************************************)
(* What the sector cache of a program promises, with the store, the proofs *)
(* and the instruction count left out: each instruction changes the root   *)
(* list and the cache in one atomic step, until the program ends.          *)
(*                                                                         *)
(* The effect of dropSectors on the cache is stated in closed form rather  *)
(* than as the code's loop: a dropped root that was gained is forgotten,   *)
(* any other dropped root is marked removed, and a gained root that is     *)
(* dropped twice in one call is also marked removed (the loop forgets it   *)
(* at the first copy and finds it no longer gained at the second).         *)
(***************************************************************************)
EXTENDS Naturals, Sequences, SectorDrop

CONSTANTS
  Roots,      \* sector roots
  BaseLists   \* root lists a contract may hold when a program starts

VARIABLES
  roots,      \* the program's list of sector roots
  gained,     \* roots to write when the program commits
  removed,    \* roots to delete when the program commits
  done        \* the program has ended (committed, aborted or panicked)

cvars == <<roots, gained, removed, done>>

CInit ==
  /\ roots \in BaseLists
  /\ gained = {}
  /\ removed = {}
  /\ done = FALSE

\* appendSector: the root is cached, no longer removed, and listed last.
Append1(r) ==
  /\ ~done
  /\ roots' = Append(roots, r)
  /\ gained' = gained \cup {r}
  /\ removed' = removed \ {r}
  /\ UNCHANGED done

\* dropSectors of n roots, at once.
Drop(n) ==
  /\ ~done
  /\ n <= Len(roots)
  /\ LET keep == Len(roots) - n
         after == Dropped(gained, removed, SubSeq(roots, keep + 1, Len(roots)))
     IN  /\ roots' = SubSeq(roots, 1, keep)
         /\ gained' = after[1]
         /\ removed' = after[2]
  /\ UNCHANGED done

\* swapSectors of the i-th and j-th roots: the cache is untouched.
Swap(i, j) ==
  /\ ~done
  /\ roots' = [roots EXCEPT ![i] = roots[j], ![j] = roots[i]]
  /\ UNCHANGED <<gained, removed, done>>

\* The program ends; the cache is committed or discarded.
End ==
  /\ ~done
  /\ done' = TRUE
  /\ UNCHANGED <<roots, gained, removed>>

CNext ==
  \/ \E r \in Roots : Append1(r)
  \/ \E n \in 0..Len(roots) : Drop(n)
  \/ \E i, j \in 1..Len(roots) : Swap(i, j)
  \/ End

CSpec == CInit /\ [][CNext]_cvars

=============================================================================
