---------------------------- MODULE MemoryProofs ----------------------------
(***************************************************************************)
(* Proofs about Memory, for every number of rows, names and tasks.         *)
(***************************************************************************)
EXTENDS Memory, FiniteSetTheorems, TLAPS

\* Every step keeps the type of every variable, faults included.
LEMMA TypeStep == TypeOK /\ [Next]_vars => TypeOK'
<1> SUFFICES ASSUME TypeOK, [Next]_vars PROVE TypeOK'
  OBVIOUS
<1> USE MemoryAssumption DEF TypeOK, Rows, Entry, NoName
<1>1. CASE InsertRow
  BY <1>1 DEF InsertRow, thread, roller, ghosts
<1>2. ASSUME NEW b \in Names, BeginSummary(b) PROVE TypeOK'
  <2>1. (cursor + 1)..lastRow \subseteq Rows
    OBVIOUS
  <2> QED
    BY <1>2, <2>1 DEF BeginSummary, disk, roller, ghosts
<1>3. CASE InsertEntry
  <2>1. [block |-> target, rows |-> batch] \in Entry
    BY <1>3 DEF InsertEntry
  <2>2. entries' \subseteq Entry
    BY <1>3, <2>1 DEF InsertEntry
  <2> QED
    BY <1>3, <2>2 DEF InsertEntry, roller
<1>4. CASE InsertEntryFails \/ AdvanceCursorFails
  BY <1>4 DEF InsertEntryFails, AdvanceCursorFails, Return, disk, roller, ghosts
<1>5. CASE AdvanceCursor
  BY <1>5 DEF AdvanceCursor, Return, roller, ghosts
<1>6. ASSUME NEW b \in Names, DropResidual(b) PROVE TypeOK'
  BY <1>6 DEF DropResidual, Without, roller, ghosts
<1>7. CASE ClearResidual
  BY <1>7 DEF ClearResidual, Return, roller, ghosts
<1>8. ASSUME NEW b \in Names, PickOldest(b) PROVE TypeOK'
  BY <1>8 DEF PickOldest, roller, ghosts
<1>9. CASE AbandonRoll
  BY <1>9 DEF AbandonRoll, Return, disk, roller, ghosts
<1>10. ASSUME NEW t \in Tasks, SpawnRoll(t) PROVE TypeOK'
  <2>1. RollContent(target) \in SUBSET Rows /\ RowsOf(target) \in SUBSET Rows
    BY DEF RollContent, RowsOf
  <2>2. content' \in [Tasks -> SUBSET Rows]
    BY <1>10, <2>1 DEF SpawnRoll
  <2> QED
    BY <1>10, <2>2 DEF SpawnRoll, Return, Strike, disk
<1>11. ASSUME NEW t \in Tasks, Roll(t) PROVE TypeOK'
  <2>1. CASE LlmFails(t) \/ WriteHistoryFails(t) \/ DeleteBlockFails(t)
    BY <2>1 DEF LlmFails, WriteHistoryFails, DeleteBlockFails, TaskEnds, Strike, disk, thread, ghosts
  <2>2. CASE SetMarker(t)
    BY <2>2 DEF SetMarker, thread, ghosts
  <2>3. CASE WriteHistory(t)
    BY <2>3 DEF WriteHistory, thread, ghosts
  <2>4. CASE DeleteBlock(t)
    BY <2>4 DEF DeleteBlock, Without, thread, ghosts
  <2>5. CASE ClearMarker(t)
    BY <2>5 DEF ClearMarker, TaskEnds, thread, ghosts
  <2> QED
    BY <1>11, <2>1, <2>2, <2>3, <2>4, <2>5 DEF Roll
<1>12. CASE Crash
  BY <1>12 DEF Crash, Return, Strike, disk
<1>13. CASE Respawn
  BY <1>13 DEF Respawn, Strike, disk, thread
<1>14. CASE UNCHANGED vars
  BY <1>14 DEF vars, disk, thread, roller, ghosts
<1> QED
  BY <1>1, <1>2, <1>3, <1>4, <1>5, <1>6, <1>7, <1>8, <1>9, <1>10, <1>11, <1>12, <1>13,
     <1>14 DEF Next, Summary, Prepare

LEMMA InitType == Init => TypeOK
<1> SUFFICES ASSUME Init PROVE TypeOK
  OBVIOUS
<1>1. struck \in BOOLEAN
  BY Zenon DEF Init
<1> QED
  BY <1>1, MemoryAssumption DEF Init, TypeOK, Rows, NoName

\* Every variable always holds a value of its type.
THEOREM TypeCorrect == Spec => []TypeOK
<1>1. Init => TypeOK
  BY InitType
<1> QED
  BY <1>1, TypeStep, PTL DEF Spec
-----------------------------------------------------------------------------
(***************************************************************************)
(* NothingForgotten is not inductive: that a row survives a delete rests on *)
(* what the deleter knows.  The invariant below says who knows what.       *)
(***************************************************************************)

Active(t) == stage[t] # "none"

\* One roll task at a time, and none while prepare_roll is at work.
OneTask ==
    /\ \A t, u \in Tasks : Active(t) /\ Active(u) => t = u
    /\ \A t \in Tasks : Active(t) => mine[t]
    /\ pc \in {"residual", "snapshot"} => \A t \in Tasks : ~Active(t)

NamesUsed == \A e \in entries : e.block \in used

\* No summary will ever be appended to block b: it is not a fresh name and, as
\* long as it exists, not the latest block.
Sealed(b) ==
    /\ b \in used
    /\ \A e \in entries : e.block = b => \E f \in entries : b < f.block
    /\ pc = "insert" => target # b

AllSealed ==
    /\ marker # NoName => Sealed(marker)
    /\ \A t \in Tasks : Active(t) => Sealed(block[t])
    /\ pc = "snapshot" => Sealed(target)

\* Before the history is written the task holds it and the block; afterwards
\* the history tells what the block told.
TaskKnows ==
    \A t \in Tasks :
        /\ stage[t] \in {"llm", "marked"} =>
              /\ history \subseteq content[t]
              /\ \A e \in entries : e.block = block[t] => e.rows \subseteq content[t]
        /\ stage[t] \in {"written", "deleted"} =>
              \A e \in entries : e.block = block[t] => e.rows \subseteq history

\* The marked block is compressed, or the task that marked it is about to write.
MarkerSafe ==
    \/ marker = NoName
    \/ \A e \in entries : e.block = marker => e.rows \subseteq history
    \/ \E t \in Tasks : stage[t] = "marked" /\ block[t] = marker

BatchRead == pc = "insert" => batch = (cursor + 1)..lastRow

Told(r) == r \in history \/ \E e \in entries : r \in e.rows

\* NothingForgotten, and what AdvanceCursor will need.
Kept == \A r \in 1..lastRow : Told(r) \/ (r > cursor /\ pc # "advance")

IInv ==
    /\ TypeOK /\ OneTask /\ NamesUsed /\ AllSealed
    /\ TaskKnows /\ MarkerSafe /\ BatchRead /\ Kept
\* A set of at least two elements has another one beside x.
LEMMA OneMore ==
  ASSUME NEW S, IsFiniteSet(S), Cardinality(S) >= 2, NEW x \in S
  PROVE  \E y \in S : y # x
<1> SUFFICES ASSUME S = {x} PROVE FALSE
  OBVIOUS
<1> QED
  BY FS_Singleton

\* Every step keeps the invariant, unless one of the faults strikes: a failed
\* statement or a crash outside the marker window is none of them.
LEMMA InvariantStep ==
  ASSUME ~struck', BlocksLimit >= 2, IInv, [Next]_vars
  PROVE  IInv'
<1>0. TypeOK'
  BY TypeStep DEF IInv
<1> USE MemoryAssumption DEF IInv, Active, Rows, Entry, NoName
<1>1. CASE InsertRow
  <2> USE <1>1 DEF InsertRow, thread, roller, ghosts
  <2>1. OneTask' /\ BatchRead'
    BY DEF OneTask, BatchRead, TypeOK
  <2>2. NamesUsed'
    BY DEF NamesUsed, TypeOK
  <2>3. AllSealed'
    BY DEF AllSealed, Sealed, NamesUsed, OneTask, TypeOK
  <2>4. TaskKnows'
    BY DEF TaskKnows, AllSealed, Sealed, OneTask, TypeOK
  <2>5. MarkerSafe'
    BY DEF MarkerSafe, TaskKnows, AllSealed, Sealed, OneTask, TypeOK
  <2>6. Kept'
    BY DEF Kept, Told, MarkerSafe, TaskKnows, OneTask, BatchRead, TypeOK
  <2> QED
    BY <1>0, <2>1, <2>2, <2>3, <2>4, <2>5, <2>6
<1>2. ASSUME NEW b \in Names, BeginSummary(b) PROVE IInv'
  <2> USE <1>2 DEF BeginSummary, SummaryTarget, IsLatest, Fresh, Blocks, disk, roller, ghosts
  <2>1. OneTask' /\ BatchRead'
    BY DEF OneTask, BatchRead, TypeOK
  <2>2. NamesUsed'
    BY DEF NamesUsed, TypeOK
  <2>3. AllSealed'
    <3>1. ASSUME NEW x \in Names, Sealed(x) PROVE x # b
      <4>1. CASE b \notin used
        BY <3>1, <4>1 DEF Sealed
      <4>2. CASE IsLatest(b)
        <5> SUFFICES ASSUME x = b PROVE FALSE
          OBVIOUS
        <5>1. PICK e \in entries : e.block = b
          BY <4>2
        <5>2. PICK f \in entries : b < f.block
          BY <3>1, <5>1 DEF Sealed
        <5>3. f.block <= b /\ f.block \in Nat /\ b \in Nat
          BY <4>2 DEF TypeOK
        <5> QED
          BY <5>2, <5>3
      <4> QED
        BY <4>1, <4>2
    <3>2. ASSUME NEW x \in Names, Sealed(x) PROVE Sealed(x)'
      BY <3>1, <3>2 DEF Sealed
    <3>3. \A t \in Tasks : block[t] \in Names \union {0}
      BY DEF TypeOK
    <3>4. 0 \notin used
      BY DEF TypeOK
    <3> QED
      BY <3>2, <3>3, <3>4 DEF AllSealed, Sealed, TypeOK
  <2>4. TaskKnows'
    BY DEF TaskKnows, AllSealed, Sealed, OneTask, TypeOK
  <2>5. MarkerSafe'
    BY DEF MarkerSafe, TaskKnows, AllSealed, Sealed, OneTask, TypeOK
  <2>6. Kept'
    BY DEF Kept, Told, MarkerSafe, TaskKnows, OneTask, BatchRead, TypeOK
  <2> QED
    BY <1>0, <2>1, <2>2, <2>3, <2>4, <2>5, <2>6
<1>3. CASE InsertEntry
  <2> USE <1>3 DEF InsertEntry, roller
  <2>1. OneTask' /\ BatchRead'
    BY DEF OneTask, BatchRead, TypeOK
  <2>2. NamesUsed'
    BY DEF NamesUsed, TypeOK
  <2>3. AllSealed'
    BY DEF AllSealed, Sealed, NamesUsed, OneTask, TypeOK
  <2>4. TaskKnows'
    BY DEF TaskKnows, AllSealed, Sealed, OneTask, TypeOK
  <2>5. MarkerSafe'
    BY DEF MarkerSafe, TaskKnows, AllSealed, Sealed, OneTask, TypeOK
  <2>6. Kept'
    <3>1. [block |-> target, rows |-> batch] \in entries'
      OBVIOUS
    <3>2. ASSUME NEW r \in 1..lastRow, r > cursor PROVE r \in batch
      BY <3>2 DEF BatchRead, TypeOK
    <3>3. ASSUME NEW r \in 1..lastRow, Told(r) PROVE Told(r)'
      BY <3>3 DEF Told
    <3>4. ASSUME NEW r \in batch PROVE Told(r)'
      BY <3>1 DEF Told
    <3> QED
      BY <3>2, <3>3, <3>4 DEF Kept
  <2> QED
    BY <1>0, <2>1, <2>2, <2>3, <2>4, <2>5, <2>6
<1>4. CASE InsertEntryFails
  <2> USE <1>4 DEF InsertEntryFails, Return, disk, roller, ghosts
  <2>1. OneTask' /\ BatchRead'
    BY DEF OneTask, BatchRead, TypeOK
  <2>2. NamesUsed'
    BY DEF NamesUsed, TypeOK
  <2>3. AllSealed'
    BY DEF AllSealed, Sealed, NamesUsed, OneTask, TypeOK
  <2>4. TaskKnows'
    BY DEF TaskKnows, AllSealed, Sealed, OneTask, TypeOK
  <2>5. MarkerSafe'
    BY DEF MarkerSafe, TaskKnows, AllSealed, Sealed, OneTask, TypeOK
  <2>6. Kept'
    BY DEF Kept, Told, MarkerSafe, TaskKnows, OneTask, BatchRead, TypeOK
  <2> QED
    BY <1>0, <2>1, <2>2, <2>3, <2>4, <2>5, <2>6
<1>5. CASE AdvanceCursor
  <2> USE <1>5 DEF AdvanceCursor, Return, roller, ghosts
  <2>1. OneTask' /\ BatchRead'
    BY DEF OneTask, BatchRead, TypeOK
  <2>2. NamesUsed'
    BY DEF NamesUsed, TypeOK
  <2>3. AllSealed'
    BY DEF AllSealed, Sealed, NamesUsed, OneTask, TypeOK
  <2>4. TaskKnows'
    BY DEF TaskKnows, AllSealed, Sealed, OneTask, TypeOK
  <2>5. MarkerSafe'
    BY DEF MarkerSafe, TaskKnows, AllSealed, Sealed, OneTask, TypeOK
  <2>6. Kept'
    BY DEF Kept, Told, MarkerSafe, TaskKnows, OneTask, BatchRead, TypeOK
  <2> QED
    BY <1>0, <2>1, <2>2, <2>3, <2>4, <2>5, <2>6
<1>6. CASE AdvanceCursorFails
  <2> USE <1>6 DEF AdvanceCursorFails, Return, disk, roller, ghosts
  <2>1. OneTask' /\ BatchRead'
    BY DEF OneTask, BatchRead, TypeOK
  <2>2. NamesUsed'
    BY DEF NamesUsed, TypeOK
  <2>3. AllSealed'
    BY DEF AllSealed, Sealed, NamesUsed, OneTask, TypeOK
  <2>4. TaskKnows'
    BY DEF TaskKnows, AllSealed, Sealed, OneTask, TypeOK
  <2>5. MarkerSafe'
    BY DEF MarkerSafe, TaskKnows, AllSealed, Sealed, OneTask, TypeOK
  <2>6. Kept'
    BY DEF Kept, Told, MarkerSafe, TaskKnows, OneTask, BatchRead, TypeOK
  <2> QED
    BY <1>0, <2>1, <2>2, <2>3, <2>4, <2>5, <2>6
<1>7. ASSUME NEW b \in Names, DropResidual(b) PROVE IInv'
  <2> USE <1>7 DEF DropResidual, RollingInProgress, IsOldest, AlreadyRolled, Blocks, Without, roller, ghosts
  <2>1. OneTask' /\ BatchRead'
    BY DEF OneTask, BatchRead, TypeOK
  <2>2. NamesUsed'
    BY DEF NamesUsed, TypeOK
  <2>3. AllSealed'
    BY DEF AllSealed, Sealed, NamesUsed, OneTask, TypeOK
  <2>4. TaskKnows'
    BY DEF TaskKnows, AllSealed, Sealed, OneTask, TypeOK
  <2>5. MarkerSafe'
    BY DEF MarkerSafe, TaskKnows, AllSealed, Sealed, OneTask, TypeOK
  <2>6. Kept'
    BY DEF Kept, Told, MarkerSafe, TaskKnows, OneTask, BatchRead, TypeOK
  <2> QED
    BY <1>0, <2>1, <2>2, <2>3, <2>4, <2>5, <2>6
<1>8. CASE ClearResidual
  <2> USE <1>8 DEF ClearResidual, Return, roller, ghosts
  <2>1. OneTask' /\ BatchRead'
    BY DEF OneTask, BatchRead, TypeOK
  <2>2. NamesUsed'
    BY DEF NamesUsed, TypeOK
  <2>3. AllSealed'
    BY DEF AllSealed, Sealed, NamesUsed, OneTask, TypeOK
  <2>4. TaskKnows'
    BY DEF TaskKnows, AllSealed, Sealed, OneTask, TypeOK
  <2>5. MarkerSafe'
    BY DEF MarkerSafe, TaskKnows, AllSealed, Sealed, OneTask, TypeOK
  <2>6. Kept'
    BY DEF Kept, Told, MarkerSafe, TaskKnows, OneTask, BatchRead, TypeOK
  <2> QED
    BY <1>0, <2>1, <2>2, <2>3, <2>4, <2>5, <2>6
<1>9. ASSUME NEW b \in Names, PickOldest(b) PROVE IInv'
  <2> USE <1>9 DEF PickOldest, RollingInProgress, IsOldest, Blocks, roller, ghosts
  <2>1. OneTask' /\ BatchRead'
    BY DEF OneTask, BatchRead, TypeOK
  <2>2. NamesUsed'
    BY DEF NamesUsed, TypeOK
  <2>3. AllSealed'
    <3>1. Blocks \subseteq Names /\ IsFiniteSet(Blocks)
      BY FS_Subset DEF TypeOK
    <3>2. Cardinality(Blocks) >= 2 /\ b \in Blocks
      <4>1. Cardinality(Blocks) \in Nat
        BY <3>1, FS_CardinalityType
      <4> QED
        BY <4>1 DEF RollDue
    <3> HIDE DEF Blocks
    <3>3. PICK c \in Blocks : c # b
      BY <3>1, <3>2, OneMore
    <3>4. PICK f \in entries : f.block = c
      BY <3>3 DEF Blocks
    <3>5. b < c
      <4>1. b <= c
        BY <3>3
      <4> QED
        BY <3>1, <3>2, <3>3, <4>1
    <3>6. Sealed(b)'
      BY <3>2, <3>4, <3>5 DEF Sealed, NamesUsed, Blocks
    <3>7. ~\E t \in Tasks : Active(t)
      BY DEF OneTask
    <3> QED
      BY <3>6, <3>7 DEF AllSealed, Sealed
  <2>4. TaskKnows'
    BY DEF TaskKnows, AllSealed, Sealed, OneTask, TypeOK
  <2>5. MarkerSafe'
    BY DEF MarkerSafe, TaskKnows, AllSealed, Sealed, OneTask, TypeOK
  <2>6. Kept'
    BY DEF Kept, Told, MarkerSafe, TaskKnows, OneTask, BatchRead, TypeOK
  <2> QED
    BY <1>0, <2>1, <2>2, <2>3, <2>4, <2>5, <2>6
<1>10. CASE AbandonRoll
  <2> USE <1>10 DEF AbandonRoll, Return, disk, roller, ghosts
  <2>1. OneTask' /\ BatchRead'
    BY DEF OneTask, BatchRead, TypeOK
  <2>2. NamesUsed'
    BY DEF NamesUsed, TypeOK
  <2>3. AllSealed'
    BY DEF AllSealed, Sealed, NamesUsed, OneTask, TypeOK
  <2>4. TaskKnows'
    BY DEF TaskKnows, AllSealed, Sealed, OneTask, TypeOK
  <2>5. MarkerSafe'
    BY DEF MarkerSafe, TaskKnows, AllSealed, Sealed, OneTask, TypeOK
  <2>6. Kept'
    BY DEF Kept, Told, MarkerSafe, TaskKnows, OneTask, BatchRead, TypeOK
  <2> QED
    BY <1>0, <2>1, <2>2, <2>3, <2>4, <2>5, <2>6
<1>11. ASSUME NEW t \in Tasks, SpawnRoll(t) PROVE IInv'
  <2> USE <1>11 DEF SpawnRoll, RollContent, RowsOf, Return, Strike, disk
  <2>1. OneTask' /\ BatchRead'
    BY DEF OneTask, BatchRead, TypeOK
  <2>2. NamesUsed'
    BY DEF NamesUsed, TypeOK
  <2>3. AllSealed'
    BY DEF AllSealed, Sealed, NamesUsed, OneTask, TypeOK
  <2>4. TaskKnows'
    BY DEF TaskKnows, AllSealed, Sealed, OneTask, TypeOK
  <2>5. MarkerSafe'
    BY DEF MarkerSafe, TaskKnows, AllSealed, Sealed, OneTask, TypeOK
  <2>6. Kept'
    BY DEF Kept, Told, MarkerSafe, TaskKnows, OneTask, BatchRead, TypeOK
  <2> QED
    BY <1>0, <2>1, <2>2, <2>3, <2>4, <2>5, <2>6
<1>12. ASSUME NEW t \in Tasks, LlmFails(t) PROVE IInv'
  <2> USE <1>12 DEF LlmFails, TaskEnds, disk, thread, ghosts
  <2>1. OneTask' /\ BatchRead'
    BY DEF OneTask, BatchRead, TypeOK
  <2>2. NamesUsed'
    BY DEF NamesUsed, TypeOK
  <2>3. AllSealed'
    BY DEF AllSealed, Sealed, NamesUsed, OneTask, TypeOK
  <2>4. TaskKnows'
    BY DEF TaskKnows, AllSealed, Sealed, OneTask, TypeOK
  <2>5. MarkerSafe'
    BY DEF MarkerSafe, TaskKnows, AllSealed, Sealed, OneTask, TypeOK
  <2>6. Kept'
    BY DEF Kept, Told, MarkerSafe, TaskKnows, OneTask, BatchRead, TypeOK
  <2> QED
    BY <1>0, <2>1, <2>2, <2>3, <2>4, <2>5, <2>6
<1>13. ASSUME NEW t \in Tasks, SetMarker(t) PROVE IInv'
  <2> USE <1>13 DEF SetMarker, thread, ghosts
  <2>1. OneTask' /\ BatchRead'
    BY DEF OneTask, BatchRead, TypeOK
  <2>2. NamesUsed'
    BY DEF NamesUsed, TypeOK
  <2>3. AllSealed'
    BY DEF AllSealed, Sealed, NamesUsed, OneTask, TypeOK
  <2>4. TaskKnows'
    BY DEF TaskKnows, AllSealed, Sealed, OneTask, TypeOK
  <2>5. MarkerSafe'
    BY DEF MarkerSafe, TaskKnows, AllSealed, Sealed, OneTask, TypeOK
  <2>6. Kept'
    BY DEF Kept, Told, MarkerSafe, TaskKnows, OneTask, BatchRead, TypeOK
  <2> QED
    BY <1>0, <2>1, <2>2, <2>3, <2>4, <2>5, <2>6
<1>14. ASSUME NEW t \in Tasks, WriteHistory(t) PROVE IInv'
  <2> USE <1>14 DEF WriteHistory, thread, ghosts
  <2>1. OneTask' /\ BatchRead'
    BY DEF OneTask, BatchRead, TypeOK
  <2>2. NamesUsed'
    BY DEF NamesUsed, TypeOK
  <2>3. AllSealed'
    BY DEF AllSealed, Sealed, NamesUsed, OneTask, TypeOK
  <2>4. TaskKnows'
    BY DEF TaskKnows, AllSealed, Sealed, OneTask, TypeOK
  <2>5. MarkerSafe'
    BY DEF MarkerSafe, TaskKnows, AllSealed, Sealed, OneTask, TypeOK
  <2>6. Kept'
    BY DEF Kept, Told, MarkerSafe, TaskKnows, OneTask, BatchRead, TypeOK
  <2> QED
    BY <1>0, <2>1, <2>2, <2>3, <2>4, <2>5, <2>6
<1>15. ASSUME NEW t \in Tasks, WriteHistoryFails(t) PROVE IInv'
  BY <1>15 DEF WriteHistoryFails, Strike
<1>16. ASSUME NEW t \in Tasks, DeleteBlock(t) PROVE IInv'
  <2> USE <1>16 DEF DeleteBlock, Without, thread, ghosts
  <2>1. OneTask' /\ BatchRead'
    BY DEF OneTask, BatchRead, TypeOK
  <2>2. NamesUsed'
    BY DEF NamesUsed, TypeOK
  <2>3. AllSealed'
    <3>1. Sealed(block[t])
      BY DEF AllSealed, TypeOK
    <3>2. ASSUME NEW x \in Names, Sealed(x) PROVE Sealed(x)'
      <4> SUFFICES ASSUME NEW e \in entries, e.block = x, x # block[t]
                   PROVE  \E f \in entries : x < f.block /\ f.block # block[t]
        BY <3>2 DEF Sealed
      <4>1. PICK f \in entries : x < f.block
        BY <3>2 DEF Sealed
      <4>2. CASE f.block # block[t]
        BY <4>1, <4>2
      <4>3. CASE f.block = block[t]
        <5>1. PICK g \in entries : block[t] < g.block
          BY <3>1, <4>3 DEF Sealed
        <5>2. f.block \in Nat /\ g.block \in Nat /\ x \in Nat
          BY DEF TypeOK
        <5> QED
          BY <4>1, <4>3, <5>1, <5>2
      <4> QED
        BY <4>2, <4>3
    <3>3. \A u \in Tasks : block[u] \in Names \union {0}
      BY DEF TypeOK
    <3>4. 0 \notin used
      BY DEF TypeOK
    <3> QED
      BY <3>2, <3>3, <3>4 DEF AllSealed, Sealed, TypeOK
  <2>4. TaskKnows'
    BY DEF TaskKnows, AllSealed, Sealed, OneTask, TypeOK
  <2>5. MarkerSafe'
    BY DEF MarkerSafe, TaskKnows, AllSealed, Sealed, OneTask, TypeOK
  <2>6. Kept'
    BY DEF Kept, Told, MarkerSafe, TaskKnows, OneTask, BatchRead, TypeOK
  <2> QED
    BY <1>0, <2>1, <2>2, <2>3, <2>4, <2>5, <2>6
<1>17. ASSUME NEW t \in Tasks, DeleteBlockFails(t) PROVE IInv'
  <2> USE <1>17 DEF DeleteBlockFails, TaskEnds, disk, thread, ghosts
  <2>1. OneTask' /\ BatchRead'
    BY DEF OneTask, BatchRead, TypeOK
  <2>2. NamesUsed'
    BY DEF NamesUsed, TypeOK
  <2>3. AllSealed'
    BY DEF AllSealed, Sealed, NamesUsed, OneTask, TypeOK
  <2>4. TaskKnows'
    BY DEF TaskKnows, AllSealed, Sealed, OneTask, TypeOK
  <2>5. MarkerSafe'
    BY DEF MarkerSafe, TaskKnows, AllSealed, Sealed, OneTask, TypeOK
  <2>6. Kept'
    BY DEF Kept, Told, MarkerSafe, TaskKnows, OneTask, BatchRead, TypeOK
  <2> QED
    BY <1>0, <2>1, <2>2, <2>3, <2>4, <2>5, <2>6
<1>18. ASSUME NEW t \in Tasks, ClearMarker(t) PROVE IInv'
  <2> USE <1>18 DEF ClearMarker, TaskEnds, thread, ghosts
  <2>1. OneTask' /\ BatchRead'
    BY DEF OneTask, BatchRead, TypeOK
  <2>2. NamesUsed'
    BY DEF NamesUsed, TypeOK
  <2>3. AllSealed'
    BY DEF AllSealed, Sealed, NamesUsed, OneTask, TypeOK
  <2>4. TaskKnows'
    BY DEF TaskKnows, AllSealed, Sealed, OneTask, TypeOK
  <2>5. MarkerSafe'
    BY DEF MarkerSafe, TaskKnows, AllSealed, Sealed, OneTask, TypeOK
  <2>6. Kept'
    BY DEF Kept, Told, MarkerSafe, TaskKnows, OneTask, BatchRead, TypeOK
  <2> QED
    BY <1>0, <2>1, <2>2, <2>3, <2>4, <2>5, <2>6
<1>19. CASE Crash
  <2> USE <1>19 DEF Crash, Return, Strike, disk
  <2>1. OneTask' /\ BatchRead'
    BY DEF OneTask, BatchRead, TypeOK
  <2>2. NamesUsed'
    BY DEF NamesUsed, TypeOK
  <2>3. AllSealed'
    BY DEF AllSealed, Sealed, NamesUsed, OneTask, TypeOK
  <2>4. TaskKnows'
    BY DEF TaskKnows, AllSealed, Sealed, OneTask, TypeOK
  <2>5. MarkerSafe'
    BY DEF MarkerSafe, TaskKnows, AllSealed, Sealed, OneTask, TypeOK
  <2>6. Kept'
    BY DEF Kept, Told, MarkerSafe, TaskKnows, OneTask, BatchRead, TypeOK
  <2> QED
    BY <1>0, <2>1, <2>2, <2>3, <2>4, <2>5, <2>6
<1>20. CASE Respawn
  BY <1>20 DEF Respawn, Strike
<1>21. CASE UNCHANGED vars
  <2> USE <1>21 DEF vars, disk, thread, roller, ghosts
  <2>1. OneTask' /\ BatchRead'
    BY DEF OneTask, BatchRead, TypeOK
  <2>2. NamesUsed'
    BY DEF NamesUsed, TypeOK
  <2>3. AllSealed'
    BY DEF AllSealed, Sealed, NamesUsed, OneTask, TypeOK
  <2>4. TaskKnows'
    BY DEF TaskKnows, AllSealed, Sealed, OneTask, TypeOK
  <2>5. MarkerSafe'
    BY DEF MarkerSafe, TaskKnows, AllSealed, Sealed, OneTask, TypeOK
  <2>6. Kept'
    BY DEF Kept, Told, MarkerSafe, TaskKnows, OneTask, BatchRead, TypeOK
  <2> QED
    BY <1>0, <2>1, <2>2, <2>3, <2>4, <2>5, <2>6
<1> QED
  BY <1>1, <1>2, <1>3, <1>4, <1>5, <1>6, <1>7, <1>8, <1>9, <1>10, <1>11, <1>12, <1>13, <1>14, <1>15, <1>16, <1>17, <1>18, <1>19, <1>20, <1>21 DEF Next, Summary, Prepare, Roll

\* No step undoes a fault.
LEMMA StruckStays == TypeOK /\ struck /\ [Next]_vars => struck'
<1> SUFFICES ASSUME TypeOK, struck, [Next]_vars PROVE struck'
  OBVIOUS
<1> USE DEF ghosts, Strike
<1>1. CASE InsertRow \/ Summary
  BY <1>1 DEF InsertRow, Summary, BeginSummary, InsertEntry, InsertEntryFails, AdvanceCursor,
     AdvanceCursorFails
<1>2. CASE Prepare
  BY <1>2 DEF Prepare, DropResidual, PickOldest, ClearResidual, AbandonRoll, SpawnRoll
<1>3. CASE \E t \in Tasks : Roll(t)
  BY <1>3 DEF Roll, LlmFails, SetMarker, WriteHistory, WriteHistoryFails, DeleteBlock,
     DeleteBlockFails, ClearMarker
<1>4. CASE Crash \/ Respawn \/ UNCHANGED vars
  BY <1>4 DEF Crash, Respawn, vars
<1> QED
  BY <1>1, <1>2, <1>3, <1>4 DEF Next

\* What holds until a fault strikes.
Unharmed == TypeOK /\ (~struck => IInv)

LEMMA UnharmedInit == Init => Unharmed
<1>1. Init => OneTask /\ NamesUsed /\ AllSealed /\ TaskKnows /\ MarkerSafe /\ BatchRead /\ Kept
  BY DEF Init, OneTask, Active, NamesUsed, AllSealed, TaskKnows, MarkerSafe, BatchRead, Kept, NoName
<1> QED
  BY <1>1, InitType DEF Unharmed, IInv

LEMMA UnharmedStep ==
  ASSUME BlocksLimit >= 2
  PROVE  Unharmed /\ [Next]_vars => Unharmed'
<1> SUFFICES ASSUME Unharmed, [Next]_vars PROVE Unharmed'
  OBVIOUS
<1>1. TypeOK'
  BY TypeStep DEF Unharmed
<1>2. ASSUME ~struck' PROVE IInv'
  BY <1>2, StruckStays, InvariantStep DEF Unharmed
<1> QED
  BY <1>1, <1>2 DEF Unharmed

\* Until a fault strikes inside the marker window, read_history fails or a second
\* instance thread begins, and with at least two session blocks kept, no row of
\* the action log is forgotten.
THEOREM NothingIsForgotten ==
  ASSUME BlocksLimit >= 2
  PROVE  Spec => []NothingForgotten
<1>1. Init => Unharmed
  BY UnharmedInit
<1>2. Unharmed /\ [Next]_vars => Unharmed'
  BY UnharmedStep
<1>3. Unharmed => NothingForgotten
  BY MemoryAssumption DEF Unharmed, IInv, Kept, Told, NothingForgotten, Summarised, TypeOK, Rows
<1> QED
  BY <1>1, <1>2, <1>3, PTL DEF Spec

\* Under the same assumptions no step deletes a session entry that the history
\* does not yet tell: neither the roll task nor prepare_roll by its marker.
THEOREM NoBlockIsDroppedUnrolled ==
  ASSUME BlocksLimit >= 2
  PROVE  Spec => NoBlockDroppedUnrolled
<1> DEFINE Drops == ~struck => \A e \in entries \ entries' : e.rows \subseteq history'
<1>1. Init => Unharmed
  BY UnharmedInit
<1>2. Unharmed /\ [Next]_vars => Unharmed'
  BY UnharmedStep
<1>3. Unharmed /\ [Next]_vars => [Drops]_vars
  <2> SUFFICES ASSUME IInv, Next, NEW e \in entries, e \notin entries'
               PROVE  e.rows \subseteq history'
    BY DEF Unharmed
  <2>1. CASE \E b \in Names : DropResidual(b)
    BY <2>1, MemoryAssumption DEF IInv, DropResidual, Without, AlreadyRolled, RollingInProgress,
       MarkerSafe, OneTask, Active, TypeOK, NoName
  <2>2. CASE \E t \in Tasks : DeleteBlock(t)
    BY <2>2 DEF IInv, DeleteBlock, Without, TaskKnows
  <2>3. CASE \E t \in Tasks : Roll(t) /\ ~DeleteBlock(t)
    BY <2>3 DEF Roll, LlmFails, SetMarker, WriteHistory, WriteHistoryFails, DeleteBlockFails,
       ClearMarker, disk
  <2>4. CASE InsertRow \/ Summary \/ Crash \/ Respawn
    BY <2>4 DEF InsertRow, Summary, BeginSummary, InsertEntry, InsertEntryFails, AdvanceCursor,
       AdvanceCursorFails, Crash, Respawn, disk
  <2>5. CASE Prepare /\ ~\E b \in Names : DropResidual(b)
    BY <2>5 DEF Prepare, PickOldest, ClearResidual, AbandonRoll, SpawnRoll, disk
  <2> QED
    BY <2>1, <2>2, <2>3, <2>4, <2>5 DEF Next
<1> QED
  BY <1>1, <1>2, <1>3, PTL DEF Spec, NoBlockDroppedUnrolled
-----------------------------------------------------------------------------
(***************************************************************************)
(* That Memory implements AgentMemory needs, beside the invariant, that no *)
(* text speaks of a row before it is recorded, and that what a roll is     *)
(* about to write is told already.                                         *)
(***************************************************************************)

Recorded ==
    /\ history \subseteq 1..lastRow
    /\ \A e \in entries : e.rows \subseteq 1..lastRow

TaskTells ==
    \A t \in Tasks : stage[t] \in {"llm", "marked"} => content[t] \subseteq history \union Summarised

\* Entries leave only when nobody is about to write, and when the history tells them.
LEMMA Deletes ==
  ASSUME IInv, Next, ~(entries \subseteq entries')
  PROVE  /\ \A t \in Tasks : stage'[t] \notin {"llm", "marked"}
         /\ UNCHANGED <<lastRow, cursor, history, struck, inOrder>> /\ entries' \subseteq entries
         /\ \A e \in entries \ entries' : e.rows \subseteq history
         /\ pc' # "snapshot"
<1>1. CASE \E b \in Names : DropResidual(b)
  BY <1>1, MemoryAssumption DEF IInv, DropResidual, Without, AlreadyRolled, RollingInProgress,
     MarkerSafe, OneTask, Active, TypeOK, NoName, roller, ghosts
<1>2. ASSUME NEW t \in Tasks, DeleteBlock(t)
      PROVE  /\ \A u \in Tasks : stage'[u] \notin {"llm", "marked"}
             /\ UNCHANGED <<lastRow, cursor, history, struck, inOrder>> /\ entries' \subseteq entries
             /\ \A e \in entries \ entries' : e.rows \subseteq history
             /\ pc' # "snapshot"
  <2>1. stage'[t] = "deleted" /\ \A u \in Tasks : u # t => stage'[u] = "none"
    BY <1>2 DEF IInv, DeleteBlock, OneTask, Active, TypeOK
  <2>2. pc' # "snapshot"
    BY <1>2 DEF IInv, DeleteBlock, OneTask, Active, thread
  <2> QED
    BY <1>2, <2>1, <2>2 DEF IInv, DeleteBlock, Without, TaskKnows, ghosts
<1>3. CASE \E t \in Tasks : Roll(t) /\ ~DeleteBlock(t)
  BY <1>3 DEF Roll, LlmFails, SetMarker, WriteHistory, WriteHistoryFails, DeleteBlockFails,
     ClearMarker, disk
<1>4. CASE InsertRow \/ Summary \/ Crash \/ Respawn
  BY <1>4 DEF InsertRow, Summary, BeginSummary, InsertEntry, InsertEntryFails, AdvanceCursor,
     AdvanceCursorFails, Crash, Respawn, disk
<1>5. CASE Prepare /\ ~\E b \in Names : DropResidual(b)
  BY <1>5 DEF Prepare, PickOldest, ClearResidual, AbandonRoll, SpawnRoll, disk
<1> QED
  BY <1>1, <1>2, <1>3, <1>4, <1>5 DEF Next

\* The steps that change what is told, and the rest.
LEMMA Steps ==
  ASSUME [Next]_vars
  PROVE  \/ InsertRow \/ InsertEntry \/ AdvanceCursor
         \/ \E t \in Tasks : WriteHistory(t)
         \/ Next /\ ~(entries \subseteq entries')
         \/ UNCHANGED <<lastRow, cursor, entries, history>>
<1>1. CASE Summary \/ Crash \/ Respawn
  BY <1>1 DEF Summary, BeginSummary, InsertEntryFails, AdvanceCursorFails, Crash, Respawn, disk
<1>2. CASE Prepare
  <2>1. CASE \E b \in Names : DropResidual(b)
    BY <2>1 DEF DropResidual, Without, Next, Prepare
  <2> QED
    BY <1>2, <2>1 DEF Prepare, PickOldest, ClearResidual, AbandonRoll, SpawnRoll, disk
<1>3. ASSUME NEW t \in Tasks, Roll(t), ~WriteHistory(t)
      PROVE  \/ ~(entries \subseteq entries') \/ UNCHANGED <<lastRow, cursor, entries, history>>
  BY <1>3 DEF Roll, LlmFails, SetMarker, WriteHistoryFails, DeleteBlock, DeleteBlockFails,
     ClearMarker, Without, disk
<1>4. CASE UNCHANGED vars
  BY <1>4 DEF vars, disk
<1> QED
  BY <1>1, <1>2, <1>3, <1>4 DEF Next

\* A task that is about to write was spawned just now, or was about to write before.
LEMMA AboutToWrite ==
  ASSUME TypeOK, [Next]_vars, NEW t \in Tasks, stage'[t] \in {"llm", "marked"}
  PROVE  \/ SpawnRoll(t)
         \/ stage[t] \in {"llm", "marked"} /\ content'[t] = content[t] /\ block'[t] = block[t]
<1> USE DEF TypeOK
<1>1. CASE InsertRow \/ Summary \/ Respawn \/ UNCHANGED vars
  BY <1>1 DEF InsertRow, Summary, BeginSummary, InsertEntry, InsertEntryFails, AdvanceCursor,
     AdvanceCursorFails, Respawn, vars, roller
<1>2. CASE Prepare /\ ~\E u \in Tasks : SpawnRoll(u)
  BY <1>2 DEF Prepare, PickOldest, ClearResidual, AbandonRoll, DropResidual, roller
<1>3. ASSUME NEW u \in Tasks, SpawnRoll(u), u # t
      PROVE  stage[t] \in {"llm", "marked"} /\ content'[t] = content[t] /\ block'[t] = block[t]
  BY <1>3 DEF SpawnRoll
<1>4. ASSUME NEW u \in Tasks, Roll(u)
      PROVE  stage[t] \in {"llm", "marked"} /\ content'[t] = content[t] /\ block'[t] = block[t]
  BY <1>4 DEF Roll, LlmFails, SetMarker, WriteHistory, WriteHistoryFails, DeleteBlock,
     DeleteBlockFails, ClearMarker, TaskEnds
<1>5. CASE Crash
  BY <1>5 DEF Crash
<1> QED
  BY <1>1, <1>2, <1>3, <1>4, <1>5 DEF Next

LEMMA ToldStep ==
  ASSUME ~struck', IInv, Recorded, TaskTells, [Next]_vars
  PROVE  Recorded' /\ TaskTells'
<1> USE MemoryAssumption DEF Rows
<1>0. TypeOK /\ TypeOK' /\ lastRow \in Nat /\ cursor \in Nat
  BY TypeStep DEF IInv, TypeOK
<1>1. /\ Recorded' /\ history \subseteq history'
      /\ history \union Summarised \subseteq (history \union Summarised)'
  <2>1. CASE InsertRow
    BY <1>0, <2>1 DEF InsertRow, Recorded, Summarised
  <2>2. CASE InsertEntry
    <3>1. batch \subseteq 1..lastRow
      BY <1>0, <2>2 DEF InsertEntry, IInv, BatchRead
    <3>2. /\ UNCHANGED <<lastRow, history>>
          /\ entries' = entries \union {[block |-> target, rows |-> batch]}
      BY <2>2 DEF InsertEntry
    <3>3. \A e \in entries' : e \in entries \/ e.rows = batch
      BY <3>2
    <3>4. Recorded'
      BY <3>1, <3>2, <3>3 DEF Recorded
    <3>5. Summarised \subseteq Summarised'
      BY <3>2 DEF Summarised
    <3> QED
      BY <3>2, <3>4, <3>5
  <2>3. CASE AdvanceCursor
    BY <2>3 DEF AdvanceCursor, Recorded, Summarised
  <2>4. ASSUME NEW t \in Tasks, WriteHistory(t)
        PROVE  /\ Recorded' /\ history \subseteq history'
               /\ history \union Summarised \subseteq (history \union Summarised)'
    <3>1. history \subseteq content[t] /\ content[t] \subseteq history \union Summarised
      BY <2>4 DEF WriteHistory, TaskTells, IInv, TaskKnows
    <3>2. Summarised \subseteq 1..lastRow
      BY DEF Summarised, Recorded
    <3> QED
      BY <2>4, <3>1, <3>2 DEF WriteHistory, Recorded, Summarised
  <2>5. CASE Next /\ ~(entries \subseteq entries')
    BY <2>5, Deletes DEF Recorded, Summarised
  <2>6. CASE UNCHANGED <<lastRow, cursor, entries, history>>
    BY <2>6 DEF Recorded, Summarised
  <2> QED
    BY <2>1, <2>2, <2>3, <2>4, <2>5, <2>6, Steps
<1>2. TaskTells'
  <2> SUFFICES ASSUME NEW t \in Tasks, stage'[t] \in {"llm", "marked"}
               PROVE  content'[t] \subseteq history' \union Summarised'
    BY DEF TaskTells
  <2>1. CASE SpawnRoll(t)
    <3>1. content'[t] = history \union RowsOf(target)
      BY <1>0, <2>1 DEF SpawnRoll, Strike, RollContent, TypeOK
    <3> QED
      BY <2>1, <3>1 DEF SpawnRoll, disk, RowsOf, Summarised
  <2>2. CASE stage[t] \in {"llm", "marked"} /\ content'[t] = content[t]
    BY <1>1, <2>2 DEF TaskTells
  <2> QED
    BY <1>0, <2>1, <2>2, AboutToWrite
<1> QED
  BY <1>1, <1>2

\* Every step that strikes no fault moves rows as AgentMemory says, or moves none.
LEMMA StepKeeps ==
  ASSUME ~struck, ~struck', IInv, IInv', Recorded, Recorded', TaskTells, [Next]_vars
  PROVE  [Promise!Keeps]_(Promise!vars)
<1> USE MemoryAssumption DEF Rows
<1> DEFINE tier == [r \in Rows |-> Tier(r)]
<1>0. /\ TypeOK /\ lastRow \in 0..MaxRows /\ lastRow' \in 0..MaxRows /\ cursor \in Nat /\ cursor' \in Nat
      /\ UNCHANGED struck
  BY DEF IInv, TypeOK
<1>1. ASSUME \A r \in Rows : Tier(r)' = Tier(r) PROVE UNCHANGED Promise!vars
  BY <1>0, <1>1 DEF Promise!vars
<1>2. \A r \in Rows : Tier(r) # "lost"
  BY <1>0 DEF IInv, Kept, Told, Tier, Summarised
<1>3. CASE InsertRow
  <2>1. lastRow' = lastRow + 1 /\ lastRow + 1 \in Rows /\ UNCHANGED <<cursor, entries, history>>
    BY <1>0, <1>3 DEF InsertRow
  <2>2. Summarised' = Summarised /\ Summarised \subseteq 1..lastRow /\ cursor \in 0..lastRow
    BY <2>1 DEF Summarised, Recorded, IInv, TypeOK
  <2>3. \A r \in Rows : Tier(r) = "unborn" <=> r > lastRow
    BY <1>0 DEF Tier
  <2> PICK n \in Rows : n = lastRow + 1
    BY <2>1
  <2>4. Tier(n)' = "current"
    <3>1. n \notin history' /\ n \notin Summarised' /\ n > cursor' /\ ~(n > lastRow')
      BY <1>0, <2>1, <2>2 DEF Recorded
    <3> QED
      BY <3>1 DEF Tier
  <2>5. \A r \in Rows : r # n => Tier(r)' = Tier(r)
    BY <1>0, <2>1, <2>2 DEF Tier
  <2>6. n \in Promise!Held("unborn") /\ \A q \in Promise!Held("unborn") : n <= q
    BY <1>0, <2>1, <2>3 DEF Promise!Held
  <2>7. tier' = [r \in Rows |-> IF r \in {n} THEN "current" ELSE tier[r]]
    BY <2>4, <2>5
  <2>8. Promise!Record
    BY <2>6, <2>7 DEF Promise!Record, Promise!Move
  <2> QED
    BY <1>0, <2>8 DEF Promise!Keeps
<1>4. CASE InsertEntry
  <2> DEFINE S == {r \in batch : Tier(r) = "current"}
  <2>1. /\ UNCHANGED <<lastRow, cursor, history>> /\ batch = (cursor + 1)..lastRow
        /\ entries' = entries \union {[block |-> target, rows |-> batch]}
    BY <1>4 DEF InsertEntry, IInv, BatchRead
  <2>2. Summarised' = Summarised \union batch
    <3>1. batch \subseteq Rows
      BY <1>0, <2>1
    <3>2. [block |-> target, rows |-> batch].rows = batch
      OBVIOUS
    <3> QED
      BY <2>1, <3>1, <3>2 DEF Summarised
  <2>3. \A r \in S : r \in Rows /\ Tier(r)' = "session"
    BY <1>0, <2>1, <2>2 DEF Tier
  <2>4. \A r \in Rows : r \notin S => Tier(r)' = Tier(r)
    BY <1>0, <2>1, <2>2 DEF Tier
  <2>5. S \in SUBSET Promise!Held("current")
    BY <2>3 DEF Promise!Held
  <2> HIDE DEF S
  <2>6. tier' = [r \in Rows |-> IF r \in S THEN "session" ELSE tier[r]]
    BY <2>3, <2>4
  <2>7. Promise!Summarise
    BY <2>5, <2>6 DEF Promise!Summarise, Promise!Move
  <2> QED
    BY <1>0, <2>7 DEF Promise!Keeps
<1>5. CASE AdvanceCursor
  <2>1. UNCHANGED <<lastRow, entries, history>> /\ pc = "advance"
    BY <1>5 DEF AdvanceCursor
  <2>2. Summarised' = Summarised
    BY <2>1 DEF Summarised
  <2>3. \A r \in Rows : r <= lastRow => r \in history \/ r \in Summarised
    BY <1>0, <2>1 DEF IInv, Kept, Told, Summarised
  <2>4. \A r \in Rows : Tier(r)' = Tier(r)
    BY <1>0, <2>1, <2>2, <2>3 DEF Tier
  <2> QED
    BY <1>1, <2>4
<1>6. ASSUME NEW t \in Tasks, WriteHistory(t) PROVE Promise!Keeps
  <2> DEFINE S == content[t] \ history
  <2>1. /\ UNCHANGED <<lastRow, cursor, entries>> /\ history' = content[t]
        /\ history \subseteq content[t] /\ content[t] \subseteq history \union Summarised
    BY <1>6 DEF WriteHistory, IInv, TaskKnows, TaskTells
  <2>2. Summarised' = Summarised /\ Summarised \subseteq 1..lastRow
    BY <2>1 DEF Summarised, Recorded
  <2>3. ASSUME NEW r \in S PROVE r \in Rows /\ Tier(r) = "session" /\ Tier(r)' = "history"
    <3>1. r \in Summarised /\ r \in 1..lastRow /\ r \notin history /\ r \in history'
      BY <2>1, <2>2
    <3>2. r \in Rows /\ ~(r > lastRow) /\ ~(r > lastRow')
      BY <1>0, <2>1, <3>1
    <3> QED
      BY <3>1, <3>2 DEF Tier
  <2>4. \A r \in Rows : r \notin S => Tier(r)' = Tier(r)
    BY <1>0, <2>1, <2>2 DEF Tier
  <2>5. S \in SUBSET Promise!Held("session")
    BY <2>3 DEF Promise!Held
  <2> HIDE DEF S
  <2>6. tier' = [r \in Rows |-> IF r \in S THEN "history" ELSE tier[r]]
    BY <2>3, <2>4
  <2>7. Promise!Compress
    BY <2>5, <2>6 DEF Promise!Compress, Promise!Move
  <2> QED
    BY <1>0, <2>7 DEF Promise!Keeps
<1>7. CASE Next /\ ~(entries \subseteq entries')
  <2>1. /\ UNCHANGED <<lastRow, cursor, history>> /\ entries' \subseteq entries
        /\ \A e \in entries \ entries' : e.rows \subseteq history
    BY <1>7, Deletes
  <2>2. \A r \in Rows : r \notin history => (r \in Summarised' <=> r \in Summarised)
    BY <2>1 DEF Summarised
  <2>3. \A r \in Rows : Tier(r)' = Tier(r)
    BY <1>0, <2>1, <2>2 DEF Tier
  <2> QED
    BY <1>1, <2>3
<1>8. CASE UNCHANGED <<lastRow, cursor, entries, history>>
  <2>1. \A r \in Rows : Tier(r)' = Tier(r)
    BY <1>8 DEF Tier, Summarised
  <2> QED
    BY <1>1, <2>1
<1> QED
  BY <1>3, <1>4, <1>5, <1>6, <1>7, <1>8, Steps

\* What holds, with what the refinement needs, until a fault strikes.
Faithful == Unharmed /\ (~struck => Recorded /\ TaskTells)

LEMMA FaithfulInit == Init => Faithful
<1>1. Init => Recorded /\ TaskTells
  BY DEF Init, Recorded, TaskTells
<1> QED
  BY <1>1, UnharmedInit DEF Faithful

LEMMA FaithfulStep ==
  ASSUME BlocksLimit >= 2
  PROVE  Faithful /\ [Next]_vars => Faithful'
BY UnharmedStep, StruckStays, ToldStep DEF Faithful, Unharmed

\* The store, with at least two session blocks kept, implements AgentMemory for any
\* number of rows, names and tasks: rows are told by current, then by a session block,
\* then by the history, and move in no other way until a fault strikes (memory.rs).
THEOREM ImplementsAgentMemory ==
  ASSUME BlocksLimit >= 2
  PROVE  Spec => KeepsPromise
<1>1. Init => Promise!Init
  <2> SUFFICES ASSUME Init PROVE Promise!Init
    OBVIOUS
  <2>1. \A r \in Rows : Tier(r) = "unborn"
    BY MemoryAssumption DEF Init, Tier, Rows
  <2>2. struck = FALSE
    BY Zenon DEF Init
  <2> QED
    BY <2>1, <2>2 DEF Promise!Init
<1>2. Faithful /\ [Next]_vars => Faithful'
  BY FaithfulStep
<1>3. Faithful /\ Faithful' /\ [Next]_vars => [Promise!Next]_(Promise!vars)
  <2> SUFFICES ASSUME Faithful, Faithful', [Next]_vars PROVE [Promise!Next]_(Promise!vars)
    OBVIOUS
  <2>1. CASE struck'
    <3>1. struck' = TRUE
      BY <2>1, Zenon DEF Faithful, Unharmed, TypeOK
    <3> QED
      BY <3>1 DEF Promise!Next
  <2>2. CASE ~struck'
    <3>1. ~struck
      BY <2>2, StruckStays DEF Faithful, Unharmed
    <3>2. [Promise!Keeps]_(Promise!vars)
      BY <2>2, <3>1, StepKeeps DEF Faithful, Unharmed
    <3> QED
      BY <3>2 DEF Promise!Next
  <2> QED
    BY <2>1, <2>2
<1> QED
  BY <1>1, <1>2, <1>3, FaithfulInit, PTL DEF Spec, KeepsPromise, Promise!Spec
-----------------------------------------------------------------------------
(***************************************************************************)
(* The history is a beginning of the log because history and the blocks up *)
(* to any name are one: folding the oldest block goes from one beginning   *)
(* to the next.                                                            *)
(***************************************************************************)

Upto(n) == history \union {r \in Rows : \E e \in entries : e.block <= n /\ r \in e.rows}
Beginning(S) == \E k \in 0..lastRow : S = 1..k

\* b is not younger than any block.
Eldest(b) == \A e \in entries : b <= e.block

Ordered ==
    /\ Beginning(history)
    /\ \A n \in Names : Beginning(Upto(n))
    /\ \A t \in Tasks : stage[t] \in {"llm", "marked"} =>
          Eldest(block[t]) /\ content[t] = Upto(block[t])
    /\ pc = "snapshot" => Eldest(target)

LEMMA OrderOnlyEnds == [Next]_vars /\ inOrder' => inOrder
<1> SUFFICES ASSUME [Next]_vars, inOrder' PROVE inOrder
  OBVIOUS
<1> USE DEF ghosts
<1>1. CASE InsertRow \/ Summary
  BY <1>1 DEF InsertRow, Summary, BeginSummary, InsertEntry, InsertEntryFails, AdvanceCursor,
     AdvanceCursorFails
<1>2. CASE Prepare
  BY <1>2 DEF Prepare, DropResidual, PickOldest, ClearResidual, AbandonRoll, SpawnRoll
<1>3. CASE \E t \in Tasks : Roll(t)
  BY <1>3 DEF Roll, LlmFails, SetMarker, WriteHistory, WriteHistoryFails, DeleteBlock,
     DeleteBlockFails, ClearMarker
<1>4. CASE Crash \/ Respawn \/ UNCHANGED vars
  BY <1>4 DEF Crash, Respawn, vars
<1> QED
  BY <1>1, <1>2, <1>3, <1>4 DEF Next

\* A step that leaves the texts alone, or drops entries the history tells.
LEMMA OrderedKept ==
  ASSUME IInv, Ordered, lastRow <= lastRow', lastRow' \in Nat, lastRow \in Nat, UNCHANGED history,
         entries' \subseteq entries, \A e \in entries \ entries' : e.rows \subseteq history,
         pc' = "snapshot" => Eldest(target)',
         \A t \in Tasks : stage'[t] \in {"llm", "marked"} =>
           \/ stage[t] \in {"llm", "marked"} /\ content'[t] = content[t] /\ block'[t] = block[t]
           \/ Eldest(block'[t]) /\ content'[t] = Upto(block'[t])
  PROVE  Ordered'
<1>1. \A S : Beginning(S) => Beginning(S)'
  BY DEF Beginning
<1>2. \A n : Upto(n)' = Upto(n)
  BY DEF Upto
<1>3. \A b : Eldest(b) => Eldest(b)'
  BY DEF Eldest
<1>4. Beginning(history)' /\ \A n \in Names : Beginning(Upto(n))'
  BY <1>1, <1>2 DEF Ordered, Beginning
<1> QED
  BY <1>2, <1>3, <1>4 DEF Ordered

LEMMA OrderedStep ==
  ASSUME ~struck', inOrder', IInv, TypeOK', Recorded, Ordered, [Next]_vars
  PROVE  Ordered'
<1> USE MemoryAssumption
<1>0. TypeOK /\ lastRow \in Nat /\ lastRow' \in Nat /\ cursor \in 0..lastRow
  BY DEF IInv, TypeOK
<1>1. CASE InsertEntry
  <2>1. /\ UNCHANGED <<lastRow, history, stage, block, content>> /\ batch = (cursor + 1)..lastRow
        /\ entries' = entries \union {[block |-> target, rows |-> batch]}
        /\ pc = "insert" /\ pc' = "advance"
        /\ \A u \in used : u <= target
    BY <1>1 DEF InsertEntry, IInv, BatchRead, roller
  <2>2. target \in Nat /\ target \in Names /\ \A e \in entries : e.block <= target /\ e.block \in Nat
    BY <2>1 DEF IInv, NamesUsed, TypeOK, Entry
  <2>3. [block |-> target, rows |-> batch].rows = batch /\ [block |-> target, rows |-> batch].block = target
    OBVIOUS
  <2>4. ASSUME NEW n \in Nat, n < target PROVE Upto(n)' = Upto(n)
    BY <2>1, <2>2, <2>3, <2>4 DEF Upto
  <2>5. ASSUME NEW n \in Names, target <= n PROVE Beginning(Upto(n))'
    <3>1. PICK k \in 0..lastRow : Upto(n) = 1..k
      BY DEF Ordered, Beginning
    <3>2. \A r \in 1..cursor : r \in Upto(n)
      <4> SUFFICES ASSUME NEW r \in 1..cursor PROVE r \in Upto(n)
        OBVIOUS
      <4>1. r \in 1..lastRow /\ ~(r > cursor) /\ r \in Rows
        BY <1>0 DEF TypeOK, Rows
      <4>2. \A e \in entries : e.block <= n
        BY <2>2, <2>5
      <4> QED
        BY <4>1, <4>2 DEF IInv, Kept, Told, Upto
    <3>3. Upto(n)' = Upto(n) \union batch
      <4>1. batch \subseteq Rows
        BY <1>0, <2>1 DEF TypeOK, Rows
      <4> QED
        BY <2>1, <2>3, <2>5, <4>1 DEF Upto
    <3>4. Upto(n)' = 1..lastRow
      BY <1>0, <2>1, <3>1, <3>2, <3>3
    <3> QED
      BY <1>0, <2>1, <3>4 DEF Beginning
  <2>6. \A t \in Tasks : stage[t] \in {"llm", "marked"} =>
          block[t] < target /\ block[t] \in Nat
    <3> SUFFICES ASSUME NEW t \in Tasks, stage[t] \in {"llm", "marked"}
                 PROVE  block[t] < target /\ block[t] \in Nat
      OBVIOUS
    <3>1. block[t] \in used /\ block[t] # target
      BY <2>1 DEF IInv, AllSealed, Sealed, Active
    <3>2. block[t] \in Nat
      BY <1>0, <3>1 DEF TypeOK
    <3>3. block[t] <= target
      BY <2>1, <3>1
    <3> QED
      BY <2>2, <3>1, <3>2, <3>3
  <2>7. Beginning(history)'
    BY <2>1 DEF Ordered, Beginning
  <2>8. ASSUME NEW n \in Names PROVE Beginning(Upto(n))'
    <3>1. CASE n < target
      BY <2>1, <2>4, <3>1 DEF Ordered, Beginning
    <3>2. CASE target <= n
      BY <2>5, <3>2
    <3> QED
      BY <2>2, <3>1, <3>2
  <2>9. ASSUME NEW t \in Tasks, stage'[t] \in {"llm", "marked"}
        PROVE  Eldest(block[t])' /\ content'[t] = Upto(block[t])'
    <3>1. stage[t] \in {"llm", "marked"}
      BY <2>1, <2>9
    <3>2. PICK b \in Nat : b = block[t] /\ b < target
      BY <2>6, <3>1
    <3>3. Eldest(b) /\ content[t] = Upto(b)
      BY <3>1, <3>2 DEF Ordered
    <3>4. Upto(b)' = Upto(b)
      BY <2>4, <3>2
    <3>5. \A e \in entries' : b <= e.block
      BY <2>1, <2>2, <2>3, <3>2, <3>3 DEF Eldest
    <3>6. b = block'[t] /\ content'[t] = content[t]
      BY <2>1, <3>2
    <3> QED
      BY <3>3, <3>4, <3>5, <3>6 DEF Eldest
  <2> QED
    BY <2>1, <2>7, <2>8, <2>9 DEF Ordered
<1>2. ASSUME NEW t \in Tasks, WriteHistory(t) PROVE Ordered'
  <2>1. /\ UNCHANGED <<lastRow, entries, pc, target, block, content>> /\ history' = content[t]
        /\ stage' = [stage EXCEPT ![t] = "written"] /\ stage[t] = "marked"
    BY <1>2 DEF WriteHistory, thread
  <2>2. PICK b : b = block[t] /\ b \in Names /\ Eldest(b) /\ history' = Upto(b)
    BY <2>1 DEF Ordered, IInv, AllSealed, Sealed, Active, TypeOK
  <2>3. b \in Nat /\ \A e \in entries : e.block \in Nat /\ b <= e.block
    BY <2>2 DEF TypeOK, IInv, Entry, Eldest
  <2>4. ASSUME NEW n \in Names, b <= n PROVE Upto(n)' = Upto(n)
    <3>1. \A e \in entries : e.block <= b => e.block <= n
      BY <2>3, <2>4
    <3> QED
      BY <2>1, <2>2, <3>1 DEF Upto
  <2>5. ASSUME NEW n \in Names, ~(b <= n) PROVE Upto(n)' = Upto(b)
    <3>1. \A e \in entries : ~(e.block <= n)
      BY <2>3, <2>5
    <3> QED
      BY <2>1, <2>2, <3>1 DEF Upto
  <2>6. \A n \in Names : Beginning(Upto(n))'
    BY <2>1, <2>2, <2>4, <2>5 DEF Ordered, Beginning
  <2>7. Beginning(history)'
    BY <2>1, <2>2 DEF Ordered, Beginning
  <2>8. \A u \in Tasks : stage'[u] \notin {"llm", "marked"}
    BY <2>1 DEF IInv, OneTask, Active, TypeOK
  <2>9. pc' # "snapshot"
    BY <2>1 DEF IInv, OneTask, Active
  <2> QED
    BY <2>6, <2>7, <2>8, <2>9 DEF Ordered
<1>3. CASE Next /\ ~(entries \subseteq entries')
  BY <1>0, <1>3, Deletes, OrderedKept
<1>4. CASE InsertRow \/ AdvanceCursor \/ UNCHANGED <<lastRow, cursor, entries, history>>
  <2>1. lastRow <= lastRow' /\ UNCHANGED <<history, entries>>
    BY <1>0, <1>4 DEF InsertRow, AdvanceCursor
  <2>2. pc' = "snapshot" => Eldest(target)'
    <3> SUFFICES ASSUME pc' = "snapshot" PROVE Eldest(target)'
      OBVIOUS
    <3>1. CASE pc' = pc /\ target' = target
      BY <2>1, <3>1 DEF Ordered, Eldest
    <3>2. ASSUME NEW c \in Names, PickOldest(c) PROVE Eldest(target)'
      BY <2>1, <3>2 DEF PickOldest, IsOldest, Blocks, Eldest
    <3>3. CASE InsertRow \/ Summary \/ Crash \/ Respawn \/ UNCHANGED vars
      BY <3>1, <3>3 DEF InsertRow, Summary, BeginSummary, InsertEntry, InsertEntryFails, AdvanceCursor,
         AdvanceCursorFails, Crash, Respawn, Return, thread, vars
    <3>4. CASE \E t \in Tasks : Roll(t)
      BY <3>1, <3>4 DEF Roll, LlmFails, SetMarker, WriteHistory, WriteHistoryFails, DeleteBlock,
         DeleteBlockFails, ClearMarker, thread
    <3>5. CASE Prepare
      BY <3>2, <3>5 DEF Prepare, DropResidual, ClearResidual, AbandonRoll, SpawnRoll, Return
    <3> QED
      BY <3>3, <3>4, <3>5 DEF Next
  <2>3. ASSUME NEW t \in Tasks, SpawnRoll(t)
        PROVE  Eldest(block'[t]) /\ content'[t] = Upto(block'[t])
    <3>1. /\ block'[t] = target /\ pc = "snapshot" /\ target \in Names
          /\ content'[t] = history \union RowsOf(target)
      BY <2>3 DEF SpawnRoll, Strike, RollContent, IInv, TypeOK
    <3>2. Eldest(target) /\ \A e \in entries : e.block \in Nat /\ target \in Nat
      BY <3>1 DEF Ordered, TypeOK, IInv, Entry
    <3>3. \A e \in entries : e.block <= target <=> e.block = target
      BY <3>2 DEF Eldest
    <3>4. history \union RowsOf(target) = Upto(target)
      BY <3>3 DEF RowsOf, Upto
    <3> QED
      BY <3>1, <3>2, <3>4
  <2> QED
    BY <1>0, <2>1, <2>2, <2>3, AboutToWrite, OrderedKept
<1> QED
  BY <1>1, <1>2, <1>3, <1>4, Steps

\* As long as names are given in increasing order, which the clock grants unless it is
\* set back, blocks are rolled oldest first: the history is an unbroken beginning of
\* the log, so a compression never leaves a gap (prepare_roll, commit_history).
THEOREM HistoryIsABeginning ==
  ASSUME BlocksLimit >= 2
  PROVE  Spec => []HistoryIsPrefix
<1> DEFINE Inv == Faithful /\ (~struck /\ inOrder => Ordered)
<1>1. Init => Inv
  <2> SUFFICES ASSUME Init PROVE Ordered
    BY FaithfulInit
  <2>1. lastRow = 0 /\ 1..0 = {}
    BY DEF Init
  <2> QED
    BY <2>1 DEF Init, Ordered, Beginning, Upto
<1>2. Inv /\ [Next]_vars => Inv'
  <2> SUFFICES ASSUME Inv, [Next]_vars PROVE Inv'
    OBVIOUS
  <2>1. Faithful'
    BY FaithfulStep
  <2>2. ASSUME ~struck', inOrder' PROVE Ordered'
    <3>1. ~struck /\ inOrder
      BY <2>2, StruckStays, OrderOnlyEnds DEF Faithful, Unharmed
    <3> QED
      BY <2>1, <2>2, <3>1, OrderedStep DEF Faithful, Unharmed
  <2> QED
    BY <2>1, <2>2
<1>3. Inv => HistoryIsPrefix
  BY DEF Ordered, Beginning, HistoryIsPrefix
<1> QED
  BY <1>1, <1>2, <1>3, PTL DEF Spec
-----------------------------------------------------------------------------
(***************************************************************************)
(* A summary loses nothing even after a fault: whatever may still be       *)
(* deleted is not the block the summary writes to.                         *)
(***************************************************************************)

\* The blocks somebody may still delete: the marked one, those of the tasks and
\* the one a task is about to be given.
Doomed ==
    {b \in Names : \/ b = marker
                   \/ \E t \in Tasks : stage[t] # "none" /\ block[t] = b
                   \/ pc = "snapshot" /\ target = b}

\* There is a younger block than b, and no summary writes to b.
Closed(b) ==
    /\ b \in used
    /\ \A e \in entries : e.block = b => \E f \in entries : b < f.block
    /\ pc \in {"insert", "advance"} => target # b

\* Between insert and advance the block of the summary tells what will leave
\* the action log.
Inserted ==
    pc = "advance" =>
        \A r \in (cursor + 1)..lastRow : \E e \in entries : e.block = target /\ r \in e.rows

Sheltered ==
    /\ TypeOK /\ NamesUsed /\ BatchRead /\ Inserted
    /\ \A b \in Doomed : Closed(b)

\* A step that only lets go of blocks, or inserts nothing.
LEMMA ShelteredKept ==
  ASSUME Sheltered, TypeOK', UNCHANGED <<entries, cursor, lastRow, used>>, Doomed' \subseteq Doomed,
         pc' \in {"insert", "advance"} => pc' = pc /\ UNCHANGED <<target, batch>>
  PROVE  Sheltered'
<1>1. \A b \in Doomed' : Closed(b)'
  BY DEF Sheltered, Closed
<1>2. Inserted' /\ BatchRead' /\ NamesUsed'
  BY DEF Sheltered, Inserted, BatchRead, NamesUsed
<1> QED
  BY <1>1, <1>2 DEF Sheltered

\* A block that goes, goes after a younger one has come.
LEMMA ShelteredDelete ==
  ASSUME Sheltered, TypeOK', NEW d \in Doomed, entries' = Without(d), Doomed' \subseteq Doomed,
         UNCHANGED <<cursor, lastRow, used, target, batch>>,
         pc' \in {"insert", "advance"} => pc' = pc
  PROVE  Sheltered'
<1> USE MemoryAssumption DEF Without
<1>0. \A e \in entries : e.block \in Nat
  BY DEF Sheltered, TypeOK, Entry
<1>1. \A e \in entries : e.block = d => \E f \in entries' : d < f.block
  BY <1>0 DEF Sheltered, Closed, Doomed
<1>2. ASSUME NEW b \in Doomed' PROVE Closed(b)'
  <2>1. Closed(b) /\ b \in Nat /\ d \in Nat
    BY DEF Sheltered, Doomed
  <2>2. ASSUME NEW e \in entries', e.block = b PROVE \E f \in entries' : b < f.block
    <3>1. PICK f \in entries : b < f.block
      BY <2>1, <2>2 DEF Closed
    <3>2. CASE f.block = d
      <4>1. PICK g \in entries' : d < g.block
        BY <1>1, <3>2
      <4> QED
        BY <1>0, <2>1, <3>1, <3>2, <4>1
    <3>3. CASE f.block # d
      BY <3>1, <3>3
    <3> QED
      BY <3>2, <3>3
  <2> QED
    BY <2>1, <2>2 DEF Closed
<1>3. Inserted'
  BY DEF Sheltered, Inserted, Closed
<1>4. BatchRead' /\ NamesUsed'
  BY DEF Sheltered, BatchRead, NamesUsed
<1> QED
  BY <1>2, <1>3, <1>4 DEF Sheltered

LEMMA ShelteredStep ==
  ASSUME BlocksLimit >= 2, Sheltered, [Next]_vars
  PROVE  Sheltered'
<1>0. TypeOK /\ TypeOK'
  BY TypeStep DEF Sheltered
<1> USE <1>0, MemoryAssumption
<1>1. CASE InsertRow
  BY <1>1 DEF InsertRow, Sheltered, Closed, Doomed, NamesUsed, BatchRead, Inserted, thread, roller,
     ghosts
<1>2. ASSUME NEW c \in Names, BeginSummary(c) PROVE Sheltered'
  <2>1. /\ pc = "free" /\ pc' = "insert" /\ target' = c /\ batch' = (cursor + 1)..lastRow
        /\ SummaryTarget(c)
        /\ UNCHANGED <<lastRow, cursor, entries, marker, stage, block, used>>
    BY <1>2 DEF BeginSummary, disk, roller, ghosts
  <2>2. ASSUME NEW b \in Names, Closed(b) PROVE b # c
    <3>1. CASE Fresh(c)
      BY <2>2, <3>1 DEF Closed, Fresh
    <3>2. CASE IsLatest(c)
      <4>1. \A e \in entries : e.block \in Nat /\ e.block <= c
        BY <3>2 DEF IsLatest, Blocks, TypeOK, Entry
      <4>2. \E e \in entries : e.block = c
        BY <3>2 DEF IsLatest, Blocks
      <4> QED
        BY <2>2, <4>1, <4>2 DEF Closed
    <3> QED
      BY <2>1, <3>1, <3>2 DEF SummaryTarget
  <2>3. ASSUME NEW b \in Doomed' PROVE Closed(b)'
    <3>1. b \in Doomed /\ b \in Names
      BY <2>1, <2>3 DEF Doomed
    <3>2. Closed(b)
      BY <3>1 DEF Sheltered
    <3>3. b # c
      BY <2>2, <3>1, <3>2
    <3> QED
      BY <2>1, <3>2, <3>3 DEF Closed
  <2>4. Inserted' /\ BatchRead' /\ NamesUsed'
    BY <2>1 DEF Sheltered, Inserted, BatchRead, NamesUsed
  <2> QED
    BY <2>3, <2>4 DEF Sheltered
<1>3. CASE InsertEntry
  <2>1. /\ pc = "insert" /\ pc' = "advance" /\ batch = (cursor + 1)..lastRow
        /\ entries' = entries \union {[block |-> target, rows |-> batch]}
        /\ used' = used \union {target}
        /\ UNCHANGED <<lastRow, cursor, target, batch, marker, stage, block>>
    BY <1>3 DEF InsertEntry, Sheltered, BatchRead, roller
  <2>2. Inserted'
    <3>1. [block |-> target, rows |-> batch] \in entries'
      BY <2>1
    <3> QED
      BY <2>1, <3>1 DEF Inserted
  <2>3. ASSUME NEW b \in Doomed' PROVE Closed(b)'
    <3>1. b \in Doomed
      BY <2>1, <2>3 DEF Doomed
    <3>2. Closed(b) /\ b # target
      BY <2>1, <3>1 DEF Sheltered, Closed
    <3> QED
      BY <2>1, <3>2 DEF Closed
  <2>4. BatchRead' /\ NamesUsed'
    BY <2>1 DEF Sheltered, BatchRead, NamesUsed
  <2> QED
    BY <2>2, <2>3, <2>4 DEF Sheltered
<1>4. CASE InsertEntryFails \/ AdvanceCursorFails \/ AbandonRoll \/ Crash
  <2>1. Doomed' \subseteq Doomed
    BY <1>4 DEF InsertEntryFails, AdvanceCursorFails, AbandonRoll, Crash, Return, Doomed, disk, roller
  <2> QED
    BY <1>4, <2>1, ShelteredKept DEF InsertEntryFails, AdvanceCursorFails, AbandonRoll, Crash, Return,
       disk, ghosts
<1>5. CASE AdvanceCursor
  BY <1>5 DEF AdvanceCursor, Return, Sheltered, Closed, Doomed, NamesUsed, BatchRead, Inserted,
     roller, ghosts
<1>6. ASSUME NEW c \in Names, DropResidual(c) PROVE Sheltered'
  <2>1. c \in Doomed /\ Doomed' \subseteq Doomed
    BY <1>6 DEF DropResidual, AlreadyRolled, Doomed, roller
  <2>2. CASE entries' = Without(c)
    BY <1>6, <2>1, <2>2, ShelteredDelete DEF DropResidual, ghosts
  <2>3. CASE UNCHANGED entries
    BY <1>6, <2>1, <2>3, ShelteredKept DEF DropResidual, ghosts
  <2> QED
    BY <1>6, <2>2, <2>3 DEF DropResidual
<1>7. CASE ClearResidual
  <2>1. Doomed' \subseteq Doomed
    BY <1>7 DEF ClearResidual, Return, Doomed, NoName, roller
  <2> QED
    BY <1>7, <2>1, ShelteredKept DEF ClearResidual, Return, ghosts
<1>8. ASSUME NEW c \in Names, PickOldest(c) PROVE Sheltered'
  <2>1. /\ pc' = "snapshot" /\ target' = c /\ marker' \in {NoName, marker} /\ pc = "free"
        /\ UNCHANGED <<lastRow, cursor, entries, stage, block, used>>
        /\ c \in Blocks /\ (\A x \in Blocks : c <= x) /\ Cardinality(Blocks) >= BlocksLimit
    BY <1>8 DEF PickOldest, IsOldest, RollDue, roller, ghosts
  <2>2. \E f \in entries : c < f.block
    <3>1. Blocks \subseteq Names /\ IsFiniteSet(Blocks)
      BY FS_Subset DEF Blocks, TypeOK, Entry
    <3>2. Cardinality(Blocks) \in Nat
      BY <3>1, FS_CardinalityType
    <3>3. Cardinality(Blocks) >= 2
      BY <2>1, <3>2
    <3>4. PICK x \in Blocks : x # c
      BY <2>1, <3>1, <3>3, OneMore
    <3>5. c < x
      BY <2>1, <3>1, <3>4
    <3> QED
      BY <3>4, <3>5 DEF Blocks
  <2>3. c \in used
    BY <2>1 DEF Sheltered, NamesUsed, Blocks
  <2>4. ASSUME NEW b \in Doomed' PROVE Closed(b)'
    <3>1. b = c \/ b \in Doomed
      BY <2>1, <2>4 DEF Doomed, NoName
    <3> QED
      BY <2>1, <2>2, <2>3, <3>1 DEF Sheltered, Closed
  <2>5. Inserted' /\ BatchRead' /\ NamesUsed'
    BY <2>1 DEF Sheltered, Inserted, BatchRead, NamesUsed
  <2> QED
    BY <2>4, <2>5 DEF Sheltered
<1>9. ASSUME NEW t \in Tasks, SpawnRoll(t) PROVE Sheltered'
  <2>1. Doomed' \subseteq Doomed
    BY <1>9 DEF SpawnRoll, Return, Doomed, disk, TypeOK
  <2> QED
    BY <1>9, <2>1, ShelteredKept DEF SpawnRoll, Return, disk
<1>10. ASSUME NEW t \in Tasks, Roll(t) PROVE Sheltered'
  <2>1. CASE DeleteBlock(t)
    <3>1. Doomed' \subseteq Doomed
      BY <2>1 DEF DeleteBlock, Doomed, TypeOK, thread
    <3>2. CASE block[t] \in Names
      <4>1. block[t] \in Doomed
        BY <2>1, <3>2 DEF DeleteBlock, Doomed
      <4> QED
        BY <2>1, <3>1, <4>1, ShelteredDelete DEF DeleteBlock, thread, ghosts
    <3>3. CASE block[t] \notin Names
      <4>1. entries' = entries
        BY <2>1, <3>3 DEF DeleteBlock, Without, TypeOK, Entry
      <4> QED
        BY <2>1, <3>1, <4>1, ShelteredKept DEF DeleteBlock, thread, ghosts
    <3> QED
      BY <3>2, <3>3
  <2>2. CASE LlmFails(t) \/ WriteHistoryFails(t) \/ DeleteBlockFails(t) \/ ClearMarker(t)
    <3>1. Doomed' \subseteq Doomed
      BY <2>2 DEF LlmFails, WriteHistoryFails, DeleteBlockFails, ClearMarker, TaskEnds, Doomed, TypeOK,
         NoName, disk, thread
    <3> QED
      BY <2>2, <3>1, ShelteredKept DEF LlmFails, WriteHistoryFails, DeleteBlockFails, ClearMarker, disk,
         thread, ghosts
  <2>3. CASE SetMarker(t) \/ WriteHistory(t)
    <3>1. Doomed' \subseteq Doomed
      BY <2>3 DEF SetMarker, WriteHistory, Doomed, TypeOK, thread
    <3> QED
      BY <2>3, <3>1, ShelteredKept DEF SetMarker, WriteHistory, thread, ghosts
  <2> QED
    BY <1>10, <2>1, <2>2, <2>3 DEF Roll
<1>11. CASE Respawn \/ UNCHANGED vars
  <2>1. Doomed' \subseteq Doomed
    BY <1>11 DEF Respawn, Doomed, vars, disk, thread, roller
  <2> QED
    BY <1>11, <2>1, ShelteredKept DEF Respawn, vars, disk, thread, ghosts
<1> QED
  BY <1>1, <1>2, <1>3, <1>4, <1>5, <1>6, <1>7, <1>8, <1>9, <1>10, <1>11 DEF Next, Summary, Prepare

\* Whatever faults have struck, rows leave the action log only when a session block
\* speaks of them: no roll takes the entry away between insert and advance.
THEOREM SummariesLoseNothing ==
  ASSUME BlocksLimit >= 2
  PROVE  Spec => SummaryLosesNothing
<1>1. Init => Sheltered
  <2> SUFFICES ASSUME Init PROVE Sheltered
    OBVIOUS
  <2>1. Doomed = {}
    BY MemoryAssumption DEF Init, Doomed, NoName
  <2> QED
    BY <2>1, InitType DEF Init, Sheltered, NamesUsed, BatchRead, Inserted
<1>2. Sheltered /\ [Next]_vars => Sheltered'
  BY ShelteredStep
<1>3. Sheltered /\ [Next]_vars => [\A r \in (cursor + 1)..cursor' : r \in Summarised \/ r \in history]_vars
  <2> SUFFICES ASSUME Sheltered, Next, NEW r \in (cursor + 1)..cursor' PROVE r \in Summarised
    OBVIOUS
  <2>0. cursor \in Nat
    BY DEF Sheltered, TypeOK
  <2>1. CASE AdvanceCursor
    <3>1. PICK e \in entries : r \in e.rows
      BY <2>1 DEF AdvanceCursor, Sheltered, Inserted
    <3>2. r \in Rows
      BY <3>1 DEF Sheltered, TypeOK, Entry
    <3> QED
      BY <3>1, <3>2 DEF Summarised
  <2>2. CASE ~AdvanceCursor
    <3>1. cursor' = cursor
      BY <2>2 DEF Next, InsertRow, Summary, BeginSummary, InsertEntry, InsertEntryFails,
         AdvanceCursorFails, Prepare, DropResidual, PickOldest, ClearResidual, AbandonRoll, SpawnRoll,
         Roll, LlmFails, SetMarker, WriteHistory, WriteHistoryFails, DeleteBlock, DeleteBlockFails,
         ClearMarker, Crash, Respawn, disk
    <3> QED
      BY <2>0, <3>1
  <2> QED
    BY <2>1, <2>2
<1> QED
  BY <1>1, <1>2, <1>3, PTL DEF Spec, SummaryLosesNothing
=============================================================================
