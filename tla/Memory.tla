------------------------------- MODULE Memory -------------------------------
(***************************************************************************)
(* The memory of one instance: persist/memory.rs, the summary action that  *)
(* fills it and the background task that rolls it (core/mod.rs).           *)
(*                                                                         *)
(* Rows of action_log are numbered 1, 2, ...  A prompt shows the rows past *)
(* the cursor ("current"), every session block, and the history.  A summary *)
(* turns current into one entry of a session block; a roll folds the oldest *)
(* block into the history with an LLM call that runs beside the instance.  *)
(* A text is abstracted to the set of rows it speaks of, so an entry and   *)
(* the history are sets of rows; what the model writes is taken to speak of *)
(* all it was given to summarise.  Each action is one statement against the *)
(* database or the marker file: a crash may fall between any two of them.  *)
(***************************************************************************)
EXTENDS Integers, FiniteSets

CONSTANTS
    MaxRows,          \* bound: rows of action_log
    Names,            \* block names: timestamps, so numbers (bound: a finite set)
    BlocksLimit,      \* session_blocks_limit
    Tasks,            \* roll tasks that can be alive at once
    Faults            \* the faults that may strike, beside those that always may

\* "window":  an error or a crash between the marker and the history write;
\* "read":    read_history fails, which it answers with an empty text;
\* "respawn": the instance thread ends and is spawned anew.
ASSUME MemoryAssumption ==
    /\ MaxRows \in Nat
    /\ Names \subseteq Nat \ {0} /\ IsFiniteSet(Names)
    /\ BlocksLimit \in Nat \ {0}
    /\ Faults \subseteq {"window", "read", "respawn"}

VARIABLES
    \* on disk
    lastRow,    \* the largest id of action_log
    cursor,     \* memory_cursor: rows up to here are consumed
    entries,    \* session_blocks
    history,    \* history_store
    marker,     \* the .last_rolled file
    \* the instance thread
    pc,         \* where it is inside a summary or a prepare_roll
    target,     \* the block it works on
    batch,      \* the rows it rendered for the summary
    \* the roll tasks
    stage,      \* how far the task is
    block,      \* RollTask.oldest_block
    content,    \* what the compressed text will speak of
    mine,       \* was it spawned by the present instance thread?
    \* never read by an action that models code
    used,       \* names given out so far
    inOrder,    \* has every new name been the largest so far?
    struck      \* has a fault of Faults struck?

disk == <<lastRow, cursor, entries, history, marker>>
thread == <<pc, target, batch>>
roller == <<stage, block, content, mine>>
ghosts == <<used, inOrder, struck>>
vars == <<disk, thread, roller, ghosts>>

Rows == 1..MaxRows
NoName == 0
Entry == [block : Names, rows : SUBSET Rows]

Blocks == {e.block : e \in entries}                  \* list_session_blocks_db
RowsOf(b) == {r \in Rows : \E e \in entries : e.block = b /\ r \in e.rows}
Without(b) == {e \in entries : e.block # b}
Summarised == {r \in Rows : \E e \in entries : r \in e.rows}

IsLatest(b) == b \in Blocks /\ \A c \in Blocks : c <= b

\* Mutant: the blocks are listed newest first.
NewestFirst(b) == IsLatest(b)

IsOldest(b) == b \in Blocks /\ \A c \in Blocks : b <= c

(***************************************************************************)
(* The name of a new block is the local time, with a suffix when that name *)
(* exists.  The clock may be set back (or leave daylight saving time), so  *)
(* a new name need not be the largest; it is never one used before.        *)
(***************************************************************************)
Fresh(b) == b \in Names \ used

\* Mutant: the flag is never raised.
NoRollingFlag == FALSE

RollingInProgress == \E t \in Tasks : mine[t] /\ stage[t] # "none"

Strike(fault) == fault \in Faults /\ struck' = TRUE

Init ==
    /\ lastRow = 0 /\ cursor = 0 /\ entries = {} /\ history = {} /\ marker = NoName
    /\ pc = "free" /\ target = NoName /\ batch = {}
    /\ stage = [t \in Tasks |-> "none"] /\ block = [t \in Tasks |-> NoName]
    /\ content = [t \in Tasks |-> {}] /\ mine = [t \in Tasks |-> FALSE]
    /\ used = {} /\ inOrder = TRUE /\ struck = FALSE

-----------------------------------------------------------------------------
(* The instance thread: action records and the summary. *)

\* The handler ends and its locals with it.
Return == pc' = "free" /\ target' = NoName /\ batch' = {}

\* insert_action_log, insert_done_note: one more row.  A failed insert is
\* ignored by every caller and leaves nothing behind.
InsertRow ==
    /\ pc = "free" /\ lastRow < MaxRows
    /\ lastRow' = lastRow + 1
    /\ UNCHANGED <<cursor, entries, history, marker, thread, roller, ghosts>>

\* The block commit_summary writes to: the latest one while it is smaller
\* than session_block_kb, a new one when there is none or it is full.
SummaryTarget(b) == IsLatest(b) \/ Fresh(b)

\* execute_summary up to the insert: current is rendered and the target block
\* resolved.  An empty current ends in SummaryEmpty, and so does a failed read.
\* Only the instance thread inserts rows, so both reads are one step.
BeginSummary(b) ==
    /\ pc = "free" /\ cursor < lastRow
    /\ SummaryTarget(b)
    /\ pc' = "insert" /\ target' = b /\ batch' = (cursor + 1)..lastRow
    /\ UNCHANGED <<disk, roller, ghosts>>

InsertEntry ==
    /\ pc = "insert"
    /\ entries' = entries \union {[block |-> target, rows |-> batch]}
    /\ used' = used \union {target}
    /\ inOrder' = (inOrder /\ \A n \in used : n <= target)
    /\ pc' = "advance"
    /\ UNCHANGED <<lastRow, cursor, history, marker, target, batch, roller, struck>>

\* Mutant: the error of the insert is dropped like that of the cursor.
IgnoreFailedInsert ==
    /\ pc = "insert" /\ pc' = "advance"
    /\ UNCHANGED <<target, batch, disk, roller, ghosts>>

\* The insert returns an error: the summary action ends with it.
InsertEntryFails ==
    /\ pc = "insert"
    /\ Return
    /\ UNCHANGED <<disk, roller, ghosts>>

AdvanceCursor ==
    /\ pc = "advance"
    /\ cursor' = lastRow
    /\ Return
    /\ UNCHANGED <<lastRow, entries, history, marker, roller, ghosts>>

\* advance_cursor().ok(): the error is dropped and the rows stay in current.
AdvanceCursorFails ==
    /\ pc = "advance"
    /\ Return
    /\ UNCHANGED <<disk, roller, ghosts>>

-----------------------------------------------------------------------------
(* The instance thread: prepare_roll, after a beat that ended well. *)

\* Mutant: any marker is taken for that of the oldest block.
AnyMarkerCounts(b) == marker # NoName

\* What the marker says of the oldest block.
AlreadyRolled(b) == marker = b

RollDue == Cardinality(Blocks) >= BlocksLimit

\* The oldest block carries the marker: it is deleted as already compressed.
\* An error of the delete is dropped, and the marker is cleared all the same;
\* an error of that is dropped too.
DropResidual(b) ==
    /\ pc = "free" /\ ~RollingInProgress /\ RollDue /\ IsOldest(b)
    /\ AlreadyRolled(b)
    /\ \/ entries' = Without(b)
       \/ UNCHANGED entries
    /\ pc' = "residual"
    /\ UNCHANGED <<lastRow, cursor, history, marker, target, batch, roller, ghosts>>

ClearResidual ==
    /\ pc = "residual"
    /\ marker' \in {NoName, marker}
    /\ Return
    /\ UNCHANGED <<lastRow, cursor, entries, history, roller, ghosts>>

\* Another block or none carries the marker: a stale marker is removed, if the
\* file can be.  A marker that cannot be read counts as none and stays.
PickOldest(b) ==
    /\ pc = "free" /\ ~RollingInProgress /\ RollDue /\ IsOldest(b)
    /\ \/ ~AlreadyRolled(b) /\ marker' = NoName
       \/ UNCHANGED marker
    /\ pc' = "snapshot" /\ target' = b
    /\ UNCHANGED <<lastRow, cursor, entries, history, batch, roller, ghosts>>

\* Mutant: only the block is compressed.
BlockOnly(b) == RowsOf(b)

\* The text that goes to the LLM: current_history followed by the block.
RollContent(b) == history \union RowsOf(b)

\* The block is read, the history is read, and the task is spawned with both.
\* The two reads are one step: the only writes that could fall between them are
\* those of a task that has outlived its thread, and some single moment between
\* them gives the same content.
\* read_history has no way to say that it failed.
SpawnRoll(t) ==
    /\ pc = "snapshot" /\ target \in Blocks
    /\ stage[t] = "none"
    /\ stage' = [stage EXCEPT ![t] = "llm"]
    /\ block' = [block EXCEPT ![t] = target]
    /\ \/ content' = [content EXCEPT ![t] = RollContent(target)] /\ UNCHANGED struck
       \/ content' = [content EXCEPT ![t] = RowsOf(target)] /\ Strike("read")
    /\ mine' = [mine EXCEPT ![t] = TRUE]
    /\ Return
    /\ UNCHANGED <<disk, used, inOrder>>

\* The block is empty by now (another task dropped it), or a read failed.
AbandonRoll ==
    /\ pc = "snapshot"
    /\ Return
    /\ UNCHANGED <<disk, roller, ghosts>>

-----------------------------------------------------------------------------
(* The roll task: execute_roll_task, commit_history. *)

\* The LLM fails or answers with an empty text, or a statement of
\* commit_history returns an error: the task ends where it is.
TaskEnds(t) ==
    /\ stage' = [stage EXCEPT ![t] = "none"]
    /\ block' = [block EXCEPT ![t] = NoName]
    /\ content' = [content EXCEPT ![t] = {}]
    /\ mine' = [mine EXCEPT ![t] = FALSE]

LlmFails(t) ==
    /\ stage[t] = "llm"
    /\ TaskEnds(t)
    /\ UNCHANGED <<disk, thread, ghosts>>

\* set_last_rolled.  An error writing the file is dropped.
SetMarker(t) ==
    /\ stage[t] = "llm"
    /\ marker' \in {block[t], marker}
    /\ stage' = [stage EXCEPT ![t] = "marked"]
    /\ UNCHANGED <<lastRow, cursor, entries, history, thread, block, content, mine, ghosts>>

WriteHistory(t) ==
    /\ stage[t] = "marked"
    /\ history' = content[t]
    /\ stage' = [stage EXCEPT ![t] = "written"]
    /\ UNCHANGED <<lastRow, cursor, entries, marker, thread, block, content, mine, ghosts>>

WriteHistoryFails(t) ==
    /\ stage[t] = "marked" /\ Strike("window")
    /\ TaskEnds(t)
    /\ UNCHANGED <<disk, thread, used, inOrder>>

DeleteBlock(t) ==
    /\ stage[t] = "written"
    /\ entries' = Without(block[t])
    /\ stage' = [stage EXCEPT ![t] = "deleted"]
    /\ UNCHANGED <<lastRow, cursor, history, marker, thread, block, content, mine, ghosts>>

DeleteBlockFails(t) ==
    /\ stage[t] = "written"
    /\ TaskEnds(t)
    /\ UNCHANGED <<disk, thread, ghosts>>

\* clear_last_rolled, whose errors are dropped; then the outcome is told to the
\* inbox and the flag of the instance thread goes down.
ClearMarker(t) ==
    /\ stage[t] = "deleted"
    /\ marker' \in {NoName, marker}
    /\ TaskEnds(t)
    /\ UNCHANGED <<lastRow, cursor, entries, history, thread, ghosts>>

-----------------------------------------------------------------------------
(* Faults. *)

\* The process dies and is started again: what was on disk is what there is.
Crash ==
    /\ IF \E t \in Tasks : stage[t] = "marked" THEN Strike("window") ELSE UNCHANGED struck
    /\ Return
    /\ stage' = [t \in Tasks |-> "none"] /\ block' = [t \in Tasks |-> NoName]
    /\ content' = [t \in Tasks |-> {}] /\ mine' = [t \in Tasks |-> FALSE]
    /\ UNCHANGED <<disk, used, inOrder>>

\* The instance thread leaves its loop when settings.json does not load, and
\* the hot scan spawns a new one with a new flag: tasks run on, unseen by it.
Respawn ==
    /\ pc = "free" /\ RollingInProgress /\ Strike("respawn")
    /\ mine' = [t \in Tasks |-> FALSE]
    /\ UNCHANGED <<disk, thread, stage, block, content, used, inOrder>>

Summary ==
    \/ \E b \in Names : BeginSummary(b)
    \/ InsertEntry \/ InsertEntryFails
    \/ AdvanceCursor \/ AdvanceCursorFails

Prepare ==
    \/ \E b \in Names : DropResidual(b) \/ PickOldest(b)
    \/ ClearResidual \/ AbandonRoll
    \/ \E t \in Tasks : SpawnRoll(t)

Roll(t) ==
    \/ LlmFails(t) \/ SetMarker(t)
    \/ WriteHistory(t) \/ WriteHistoryFails(t)
    \/ DeleteBlock(t) \/ DeleteBlockFails(t)
    \/ ClearMarker(t)

Next ==
    \/ InsertRow \/ Summary \/ Prepare
    \/ \E t \in Tasks : Roll(t)
    \/ Crash \/ Respawn

Spec == Init /\ [][Next]_vars
-----------------------------------------------------------------------------
(* Properties. *)

\* Every variable holds a value of its type.
TypeOK ==
    /\ lastRow \in 0..MaxRows /\ cursor \in 0..lastRow
    /\ entries \subseteq Entry /\ history \subseteq Rows
    /\ marker \in Names \union {NoName}
    /\ pc \in {"free", "insert", "advance", "residual", "snapshot"}
    /\ target \in Names \union {NoName} /\ batch \subseteq Rows
    /\ pc \in {"insert", "advance", "snapshot"} => target \in Names
    /\ stage \in [Tasks -> {"none", "llm", "marked", "written", "deleted"}]
    /\ block \in [Tasks -> Names \union {NoName}]
    /\ content \in [Tasks -> SUBSET Rows]
    /\ mine \in [Tasks -> BOOLEAN]
    /\ used \subseteq Names /\ inOrder \in BOOLEAN /\ struck \in BOOLEAN

\* Whatever the order of a summary's and a roll's steps and wherever a crash
\* falls, every row of the action log is told by the next prompt: it is past
\* the cursor, or an entry of a session block or the history speaks of it.
\* The exceptions are the three faults, once one of them has struck.
NothingForgotten ==
    ~struck => \A r \in 1..lastRow : r > cursor \/ r \in Summarised \/ r \in history

\* No step deletes an entry of a session block before the history speaks of
\* every row the entry spoke of (commit_history, prepare_roll).
NoBlockDroppedUnrolled ==
    [][~struck => \A e \in entries \ entries' : e.rows \subseteq history']_vars

\* Blocks are folded oldest first, so as long as names are given in increasing
\* order the history tells an unbroken beginning of the log: compression never
\* leaves a gap that a session block would have to fill in afterwards.
HistoryIsPrefix ==
    inOrder /\ ~struck => \E k \in 0..lastRow : history = 1..k

\* A row leaves current only when a session block or the history speaks of it,
\* also after the faults that break the promise as a whole: commit_summary
\* inserts before it advances, and no roll takes the new entry away in between.
SummaryLosesNothing ==
    [][\A r \in (cursor + 1)..cursor' : r \in Summarised \/ r \in history]_vars

\* The tier a row is in.  "lost" is no tier of AgentMemory.
Tier(r) ==
    IF r > lastRow THEN "unborn"
    ELSE IF r \in history THEN "history"
    ELSE IF r \in Summarised THEN "session"
    ELSE IF r > cursor THEN "current"
    ELSE "lost"

Promise == INSTANCE AgentMemory WITH tier <- [r \in Rows |-> Tier(r)], excused <- struck

\* The store keeps the promise of AgentMemory: rows only move from current to
\* session to history, a stale task never takes the history back.
KeepsPromise == Promise!Spec
=============================================================================
