----------------------- MODULE ProgramSectorsRefinement -----------------------
(***************************************************************************)
(* ProgramSectors implements SectorCache: dropSectors' loop over the       *)
(* dropped roots, run one root at a time, has the effect of the atomic     *)
(* closed-form Drop, and every other instruction is one SectorCache step   *)
(* or none.                                                                *)
(*                                                                         *)
(* The refinement mapping shows the cache as it will be once the loop has  *)
(* finished: the roots still in droppedRoots are dropped in closed form.   *)
(* DropSectors is then the abstract Drop, and each DropRoot a stutter.     *)
(***************************************************************************)
EXTENDS ProgramSectorsProofs, SectorDrop, TLAPS

\* The cache as the pending loop will leave it.
CacheAfterLoop ==
  Dropped(sectorsGained, sectorsRemoved, droppedRoots)

gainedBar == CacheAfterLoop[1]
removedBar == CacheAfterLoop[2]
doneBar == status # "running"

Cache == INSTANCE SectorCache
           WITH roots <- merkleRoots, gained <- gainedBar,
                removed <- removedBar, done <- doneBar

\* Seen through the mapping, every behaviour of the program is one of the
\* atomic cache of SectorCache: the loop of dropSectors, whatever the
\* duplicates in the dropped roots, computes Dropped.
CacheSpec == Cache!CSpec


-----------------------------------------------------------------------------
(* Lemmas on the closed form of the loop.                                  *)

\* Elems and Range are the same set.
LEMMA ElemsIsRange ==
  ASSUME NEW s
  PROVE  Elems(s) = Range(s)
BY DEF Elems, Range

\* Dropping no roots leaves the cache as it is.
LEMMA DroppedEmpty ==
  ASSUME NEW g, NEW rm
  PROVE  Dropped(g, rm, <<>>) = <<g, rm>>
<1>1. Elems(<<>>) = {} /\ ~\E x : Twice(x, <<>>)
  BY DEF Elems, Twice
<1>. QED  BY <1>1 DEF Dropped

\* A root other than the head is twice in s exactly when it is twice in
\* the tail; the head is twice in s exactly when the tail holds it.
LEMMA TwiceTail ==
  ASSUME NEW S, NEW s \in Seq(S), s # <<>>, NEW x
  PROVE  /\ x # Head(s) => (Twice(x, s) <=> Twice(x, Tail(s)))
         /\ Twice(Head(s), s) <=> Head(s) \in Range(Tail(s))
<1>. DEFINE t == Tail(s)
<1>1. /\ Head(s) = s[1] /\ Len(s) >= 1
      /\ t \in Seq(S) /\ Len(t) = Len(s) - 1
      /\ \A i \in 1..Len(t) : t[i] = s[i + 1]
  OBVIOUS
<1>2. ASSUME x # Head(s) PROVE Twice(x, s) => Twice(x, t)
  <2>1. SUFFICES ASSUME NEW i \in 1..Len(s), NEW j \in 1..Len(s), i # j,
                        s[i] = x, s[j] = x
                 PROVE  Twice(x, t)
    BY DEF Twice
  <2>2. i - 1 \in 1..Len(t) /\ j - 1 \in 1..Len(t) /\ i - 1 # j - 1
        /\ t[i - 1] = x /\ t[j - 1] = x
    BY <1>1, <1>2, <2>1
  <2>. QED  BY <2>2 DEF Twice
<1>3. Twice(x, t) => Twice(x, s)
  <2>1. SUFFICES ASSUME NEW i \in 1..Len(t), NEW j \in 1..Len(t), i # j,
                        t[i] = x, t[j] = x
                 PROVE  Twice(x, s)
    BY DEF Twice
  <2>2. i + 1 \in 1..Len(s) /\ j + 1 \in 1..Len(s) /\ i + 1 # j + 1
        /\ s[i + 1] = x /\ s[j + 1] = x
    BY <1>1, <2>1
  <2>. QED  BY <2>2 DEF Twice
<1>4. Twice(Head(s), s) => Head(s) \in Range(t)
  <2>1. SUFFICES ASSUME NEW i \in 1..Len(s), NEW j \in 1..Len(s), i # j,
                        s[i] = Head(s), s[j] = Head(s)
                 PROVE  Head(s) \in Range(t)
    BY DEF Twice
  <2>2. PICK k \in 1..Len(s) : k # 1 /\ s[k] = Head(s)
    BY <2>1
  <2>3. k - 1 \in 1..Len(t) /\ t[k - 1] = Head(s)
    BY <1>1, <2>2
  <2>. QED  BY <1>1, <2>3, RangeMem, Zenon
<1>5. Head(s) \in Range(t) => Twice(Head(s), s)
  <2>1. SUFFICES ASSUME Head(s) \in Range(t) PROVE Twice(Head(s), s)
    OBVIOUS
  <2>2. PICK k \in 1..Len(t) : t[k] = Head(s)
    BY <1>1, <2>1, RangeMem, Zenon
  <2>3. k + 1 \in 1..Len(s) /\ 1 \in 1..Len(s) /\ k + 1 # 1
        /\ s[k + 1] = Head(s) /\ s[1] = Head(s)
    BY <1>1, <2>2
  <2>. QED  BY <2>3 DEF Twice
<1>. QED  BY <1>2, <1>3, <1>4, <1>5


\* One pass of dropSectors' loop, then the closed form of the rest of the
\* dropped roots, is the closed form of all of them.
LEMMA DropStep ==
  ASSUME NEW S, NEW s \in Seq(S), s # <<>>, NEW g, NEW rm
  PROVE  LET after == DropFromCache(g, rm, Head(s))
         IN  Dropped(after[1], after[2], Tail(s)) = Dropped(g, rm, s)
<1>. DEFINE h == Head(s)
            t == Tail(s)
<1>1. Elems(s) = {h} \cup Elems(t)
  BY RangeTail, ElemsIsRange
<1>2. \A x : x # h => (Twice(x, s) <=> Twice(x, t))
  BY TwiceTail
<1>3. Twice(h, s) <=> h \in Elems(t)
  BY TwiceTail, ElemsIsRange
<1>4. CASE h \in g
  <2>1. DropFromCache(g, rm, h) = <<g \ {h}, rm>>
    BY <1>4 DEF DropFromCache
  <2>2. (g \ {h}) \ Elems(t) = g \ Elems(s)
    BY <1>1
  <2>3. ASSUME NEW x
        PROVE  x \in rm \cup (Elems(t) \ (g \ {h})) \cup {y \in g \ {h} : Twice(y, t)}
               <=> x \in rm \cup (Elems(s) \ g) \cup {y \in g : Twice(y, s)}
    <3>1. CASE x = h  BY <1>3, <1>4, <3>1
    <3>2. CASE x # h  BY <1>1, <1>2, <3>2
    <3>. QED  BY <3>1, <3>2
  <2>. QED  BY <2>1, <2>2, <2>3 DEF Dropped
<1>5. CASE h \notin g
  <2>1. DropFromCache(g, rm, h) = <<g, rm \cup {h}>>
    BY <1>5 DEF DropFromCache
  <2>2. g \ Elems(t) = g \ Elems(s)
    BY <1>1, <1>5
  <2>3. ASSUME NEW x
        PROVE  x \in (rm \cup {h}) \cup (Elems(t) \ g) \cup {y \in g : Twice(y, t)}
               <=> x \in rm \cup (Elems(s) \ g) \cup {y \in g : Twice(y, s)}
    <3>1. CASE x = h  BY <1>1, <1>5, <3>1
    <3>2. CASE x # h  BY <1>1, <1>2, <3>2
    <3>. QED  BY <3>1, <3>2
  <2>. QED  BY <2>1, <2>2, <2>3 DEF Dropped
<1>. QED  BY <1>4, <1>5


-----------------------------------------------------------------------------
(* Each step of the program is a step of the atomic cache, or none.        *)

\* With no loop pending, the mapped cache is the cache itself.
LEMMA NoLoopPending ==
  /\ droppedRoots = <<>> => <<gainedBar, removedBar>> = <<sectorsGained, sectorsRemoved>>
  /\ droppedRoots' = <<>> =>
       <<gainedBar', removedBar'>> = <<sectorsGained', sectorsRemoved'>>
BY DroppedEmpty DEF gainedBar, removedBar, CacheAfterLoop

\* SectorCache's Drop uses the same closed form.
LEMMA SameDropped ==
  ASSUME NEW g, NEW rm, NEW s
  PROVE  Cache!Dropped(g, rm, s) = Dropped(g, rm, s)
BY DEF Cache!Dropped, Cache!Elems, Cache!Twice, Dropped, Elems, Twice

\* The mapped cache in the next state.
LEMMA BarPrimed ==
  /\ gainedBar' = Dropped(sectorsGained', sectorsRemoved', droppedRoots')[1]
  /\ removedBar' = Dropped(sectorsGained', sectorsRemoved', droppedRoots')[2]
BY DEF gainedBar, removedBar, CacheAfterLoop, Dropped, Elems, Twice

\* A step that ends a running program and leaves the list, the cache and
\* the loop alone is the abstract End.
LEMMA EndRefines ==
  ASSUME status = "running", status' # "running",
         UNCHANGED <<merkleRoots, sectorsGained, sectorsRemoved, droppedRoots>>
  PROVE  Cache!End
BY DEF Cache!End, gainedBar, removedBar, doneBar, CacheAfterLoop

LEMMA AppendRefines ==
  ASSUME TypeOK, AppendSector
  PROVE  Cache!CNext
<1>1. status = "running" /\ droppedRoots = <<>>
  BY DEF AppendSector, Instruction
<1>2. PICK d \in Roots \cup {ShortData} :
        IF d = ShortData
        THEN Abort
        ELSE /\ sectorsGained' = sectorsGained \cup {d}
             /\ sectorsRemoved' = sectorsRemoved \ {d}
             /\ merkleRoots' = Append(merkleRoots, d)
             /\ proof' = <<>>
             /\ UNCHANGED <<store, status, droppedRoots>>
  BY DEF AppendSector
<1>3. CASE d = ShortData
  BY <1>1, <1>2, <1>3, EndRefines DEF Abort, Cache!CNext
<1>4. CASE d # ShortData
  <2>1. Cache!Append1(d)
    BY <1>1, <1>2, <1>4, NoLoopPending DEF Cache!Append1, doneBar
  <2>. QED  BY <1>4, <2>1 DEF Cache!CNext
<1>. QED  BY <1>3, <1>4

LEMMA DropSectorsRefines ==
  ASSUME TypeOK, DropSectors
  PROVE  Cache!CNext
<1>1. status = "running" /\ droppedRoots = <<>>
  BY DEF DropSectors, Instruction
<1>2. PICK n \in 0..MaxIndex + 1 :
        IF n > Len(merkleRoots)
        THEN Abort
        ELSE LET keep == Len(merkleRoots) - n IN
             /\ merkleRoots' = SubSeq(merkleRoots, 1, keep)
             /\ droppedRoots' = SubSeq(merkleRoots, keep + 1, Len(merkleRoots))
             /\ proof' = <<>>
             /\ UNCHANGED <<sectorsGained, sectorsRemoved, store, status>>
  BY DEF DropSectors
<1>3. CASE n > Len(merkleRoots)
  BY <1>1, <1>2, <1>3, EndRefines DEF Abort, Cache!CNext
<1>4. CASE n <= Len(merkleRoots)
  <2>1. n \in 0..Len(merkleRoots)
    BY <1>4
  <2>2. <<gainedBar, removedBar>> = <<sectorsGained, sectorsRemoved>>
    BY <1>1, NoLoopPending
  <2>3. gainedBar = sectorsGained /\ removedBar = sectorsRemoved
    BY <2>2
  <2>6. /\ merkleRoots' = SubSeq(merkleRoots, 1, Len(merkleRoots) - n)
        /\ droppedRoots' = SubSeq(merkleRoots, Len(merkleRoots) - n + 1, Len(merkleRoots))
        /\ sectorsGained' = sectorsGained /\ sectorsRemoved' = sectorsRemoved
        /\ status' = status
    BY <1>2, <1>4
  <2>4. LET keep == Len(merkleRoots) - n
            after == Dropped(sectorsGained, sectorsRemoved,
                             SubSeq(merkleRoots, keep + 1, Len(merkleRoots)))
        IN  /\ merkleRoots' = SubSeq(merkleRoots, 1, keep)
            /\ gainedBar' = after[1] /\ removedBar' = after[2]
            /\ status' = status
    BY <2>6, BarPrimed
  <2>5. Cache!Drop(n)
    BY <1>1, <1>4, <2>3, <2>4, SameDropped DEF Cache!Drop, doneBar
  <2>. QED  BY <2>1, <2>5 DEF Cache!CNext
<1>. QED  BY <1>3, <1>4

\* A pass of the loop changes nothing the mapping shows.
LEMMA DropRootRefines ==
  ASSUME TypeOK, DropRoot
  PROVE  UNCHANGED Cache!cvars
<1>1. droppedRoots \in Seq(Roots) /\ droppedRoots # <<>>
  BY DEF TypeOK, DropRoot
<1>2. LET after == DropFromCache(sectorsGained, sectorsRemoved, Head(droppedRoots))
      IN  Dropped(after[1], after[2], Tail(droppedRoots))
            = Dropped(sectorsGained, sectorsRemoved, droppedRoots)
  BY <1>1, DropStep
<1>. QED  BY <1>2 DEF DropRoot, Cache!cvars, gainedBar, removedBar, doneBar, CacheAfterLoop


LEMMA SwapRefines ==
  ASSUME TypeOK, SwapSector
  PROVE  [Cache!CNext]_Cache!cvars
<1>1. status = "running" /\ droppedRoots = <<>>
  BY DEF SwapSector, Instruction
<1>. QED
  <2>1. PICK a \in 0..MaxIndex, b \in 0..MaxIndex, wantProof \in BOOLEAN :
          LET o1 == IF b < a THEN b ELSE a
              o2 == IF b < a THEN a ELSE b
          IN  IF o2 >= Len(merkleRoots)
              THEN Abort
              ELSE LET newRoots == SwappedRoots(merkleRoots, o1, o2) IN
                   /\ merkleRoots' = newRoots
                   /\ proof' = IF wantProof THEN SwapProof(newRoots, o1, o2)
                               ELSE <<>>
                   /\ UNCHANGED <<sectorsGained, sectorsRemoved, store, status,
                                   droppedRoots>>
    BY DEF SwapSector
  <2>. DEFINE o1 == IF b < a THEN b ELSE a
              o2 == IF b < a THEN a ELSE b
  <2>2. CASE o2 >= Len(merkleRoots)
    BY <1>1, <2>1, <2>2, EndRefines DEF Abort, Cache!CNext
  <2>3. CASE o2 < Len(merkleRoots)
    <3>1. /\ merkleRoots' = SwappedRoots(merkleRoots, o1, o2)
          /\ UNCHANGED <<sectorsGained, sectorsRemoved, status, droppedRoots>>
      BY <2>1, <2>3
    <3>2. o1 + 1 \in 1..Len(merkleRoots) /\ o2 + 1 \in 1..Len(merkleRoots)
      BY <2>3
    <3>3. UNCHANGED <<gainedBar, removedBar>>
      BY <1>1, <3>1, NoLoopPending
    <3>4. Cache!Swap(o1 + 1, o2 + 1)
      BY <1>1, <3>1, <3>3 DEF Cache!Swap, SwappedRoots, doneBar
    <3>. QED  BY <3>2, <3>4 DEF Cache!CNext
  <2>. QED  BY <2>2, <2>3

\* hasSector and readSector change nothing the mapping shows, unless a
\* failed read ends the program.
LEMMA QueryRefines ==
  ASSUME TypeOK, HasSector \/ ReadSector
  PROVE  [Cache!CNext]_Cache!cvars
<1>1. status = "running" /\ droppedRoots = <<>>
  BY DEF HasSector, ReadSector, Instruction
<1>2. CASE HasSector
  BY <1>2 DEF HasSector, Cache!cvars, gainedBar, removedBar, doneBar, CacheAfterLoop
<1>3. CASE ReadSector
  <2>1. PICK r \in Roots :
          IF r \in Range(merkleRoots) /\ r \notin sectorsGained /\ r \notin store
          THEN Abort
          ELSE /\ proof' = <<>>
               /\ UNCHANGED <<merkleRoots, sectorsGained, sectorsRemoved, store,
                              status, droppedRoots>>
    BY <1>3 DEF ReadSector
  <2>2. CASE r \in Range(merkleRoots) /\ r \notin sectorsGained /\ r \notin store
    BY <1>1, <2>1, <2>2, EndRefines DEF Abort, Cache!CNext
  <2>3. CASE ~(r \in Range(merkleRoots) /\ r \notin sectorsGained /\ r \notin store)
    BY <2>1, <2>3 DEF Cache!cvars, gainedBar, removedBar, doneBar, CacheAfterLoop
  <2>. QED  BY <2>2, <2>3
<1>. QED  BY <1>2, <1>3

LEMMA CommitRefines ==
  ASSUME TypeOK, Commit
  PROVE  Cache!CNext
BY EndRefines DEF Commit, Cache!CNext

\* Every step of the program, from a well-typed state, is a step of the
\* atomic cache or leaves the mapped state alone.
LEMMA NextRefines ==
  ASSUME TypeOK, [Next]_vars
  PROVE  [Cache!CNext]_Cache!cvars
<1>1. CASE UNCHANGED vars
  BY <1>1 DEF vars, Cache!cvars, gainedBar, removedBar, doneBar, CacheAfterLoop
<1>. QED  BY <1>1, AppendRefines, DropSectorsRefines, DropRootRefines, SwapRefines,
             QueryRefines, CommitRefines DEF Next

LEMMA InitRefines == Init => Cache!CInit
<1>. SUFFICES ASSUME Init PROVE Cache!CInit  OBVIOUS
<1>1. <<gainedBar, removedBar>> = <<{}, {}>>
  BY NoLoopPending DEF Init
<1>. QED  BY <1>1 DEF Init, Cache!CInit, doneBar

\* The program's sector cache implements the atomic cache of SectorCache
\* for every value of the constants: dropSectors' loop over the dropped
\* roots, run one root at a time and with duplicates among them, leaves
\* exactly the closed-form Dropped, and every other instruction is one
\* atomic step or none.
THEOREM Refinement == Spec => CacheSpec
<1>1. Spec => []TypeOK  BY TypeCorrect
<1>2. TypeOK /\ [Next]_vars => [Cache!CNext]_Cache!cvars  BY NextRefines
<1>. QED  BY <1>1, <1>2, InitRefines, PTL DEF Spec, CacheSpec, Cache!CSpec

=============================================================================
