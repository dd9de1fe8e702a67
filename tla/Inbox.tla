------------------------------- MODULE Inbox -------------------------------
(***************************************************************************)
(* How a message reaches the language model: the messages table            *)
(* (persist/chat.rs), the read_msg action (action/execute.rs) that moves   *)
(* unread messages into a row of action_log, and the beat (core/mod.rs)    *)
(* whose prompt shows the rows past the cursor until a summary advances it. *)
(*                                                                         *)
(* Reading is three statements on two databases, on connections of their   *)
(* own and without a transaction: the unread messages are selected, marked *)
(* by a second query with the same filter, and, after a wait for the list  *)
(* of contacts, written to the log.  Senders insert at any time.           *)
(***************************************************************************)
EXTENDS Integers, FiniteSets

CONSTANTS
    Messages,     \* ids of messages for this instance (bound: a finite set)
    MaxRows,      \* bound: read_msg rows of action_log
    Faults        \* the faults that may strike

\* "race":    a message is inserted between the select and the update;
\* "store":   the log cannot be written, or not be read for a prompt;
\* "halfway": the thread dies with messages marked and not yet in the log;
\* "restart": it dies anywhere else and begins anew.
ASSUME InboxAssumption ==
    /\ IsFiniteSet(Messages) /\ MaxRows \in Nat
    /\ Faults \subseteq {"race", "store", "halfway", "restart"}

VARIABLES
    status,     \* read_status of the row of the message, "unsent" before there is one
    lastRow,    \* read_msg rows inserted so far
    shows,      \* the entries in the output of each row, none while it is executing
    cursor,     \* memory_cursor
    awake,      \* ~last_was_idle
    pc,         \* where the thread is in a beat
    auto,       \* is it the hard-wired read, not one of the model's?
    row,        \* the row of the present read_msg, 0 when its insert failed
    listed,     \* the messages the present read_msg has loaded
    \* never read by an action that models code
    told,       \* messages some prompt has shown
    struck      \* faults that have struck so far

store == <<status, lastRow, shows, cursor>>
thread == <<awake, pc, auto, row, listed>>
ghosts == <<told, struck>>
vars == <<store, thread, ghosts>>

Rows == 1..MaxRows
Unread == {m \in Messages : status[m] = "unread"}

\* render_current_from_db: what the rows past the cursor show.
Current == UNION {shows[r] : r \in (cursor + 1)..lastRow}

Strike(fault) == fault \in Faults /\ struck' = struck \union {fault}

Init ==
    /\ status \in [Messages -> {"unsent", "unread"}]
    /\ lastRow = 0 /\ shows = [r \in Rows |-> {}] /\ cursor = 0
    /\ awake = FALSE /\ pc = "top" /\ auto = FALSE /\ row = 0 /\ listed = {}
    /\ told = {} /\ struck = {}

-----------------------------------------------------------------------------
(* The senders. *)

\* write_user_message, write_system_message, or the reply of another instance.
\* Rows of the instance's own replies never match the filter of the inbox.
Send(m) ==
    /\ status[m] = "unsent"
    /\ status' = [status EXCEPT ![m] = "unread"]
    /\ IF pc = "mark" THEN Strike("race") ELSE UNCHANGED struck
    /\ UNCHANGED <<lastRow, shows, cursor, thread, told>>

-----------------------------------------------------------------------------
(* The beat: read, or ask the model. *)

\* insert_action_log, whose error every caller drops.
InsertRow ==
    \/ /\ lastRow < MaxRows
       /\ lastRow' = lastRow + 1 /\ row' = lastRow + 1
       /\ UNCHANGED struck
    \/ /\ Strike("store")
       /\ row' = 0
       /\ UNCHANGED lastRow

\* Unread messages are read without asking the model.
BeginAutoRead ==
    /\ pc = "top" /\ Unread # {}
    /\ InsertRow
    /\ auto' = TRUE /\ pc' = "select"
    /\ UNCHANGED <<status, shows, cursor, awake, listed, told>>

\* The prompt shows current and goes to the model.
Infer ==
    /\ pc = "top" /\ Unread = {} /\ awake
    /\ told' = told \union Current
    /\ pc' = "acting"
    /\ UNCHANGED <<store, awake, auto, row, listed, struck>>

\* The databases fail: messages that cannot be counted count as none, and a
\* current that cannot be read is rendered as an empty one.
InferBlind ==
    /\ pc = "top" /\ awake
    /\ Strike("store")
    /\ told' \in {told, told \union Current}
    /\ pc' = "acting"
    /\ UNCHANGED <<store, awake, auto, row, listed>>

\* The timeout of an idle has passed, or there is an error to report.
Wake ==
    /\ pc = "top" /\ awake' = TRUE
    /\ UNCHANGED <<store, pc, auto, row, listed, ghosts>>

-----------------------------------------------------------------------------
(* The actions of one answer. *)

ReadMsg ==
    /\ pc = "acting"
    /\ InsertRow
    /\ auto' = FALSE /\ pc' = "select"
    /\ UNCHANGED <<status, shows, cursor, awake, listed, told>>

\* execute_summary: what was current is consumed, or an error leaves it.
Summarise ==
    /\ pc = "acting"
    /\ cursor' \in {cursor, lastRow}
    /\ UNCHANGED <<status, lastRow, shows, thread, ghosts>>

\* execute_distill: from now on the row shows a summary of the model's instead
\* of its output.  The model knows the rows a prompt has shown, consumed or not.
Distill(r) ==
    /\ pc = "acting" /\ r <= lastRow /\ shows[r] \subseteq told
    /\ shows' = [shows EXCEPT ![r] = {}]
    /\ UNCHANGED <<status, lastRow, cursor, thread, ghosts>>

\* Nothing follows an idle in the same answer.
Idle ==
    /\ pc = "acting"
    /\ awake' = FALSE /\ pc' = "top"
    /\ UNCHANGED <<store, auto, row, listed, ghosts>>

EndAnswer ==
    /\ pc = "acting"
    /\ pc' = "top"
    /\ UNCHANGED <<store, awake, auto, row, listed, ghosts>>

-----------------------------------------------------------------------------
(* read_msg. *)

\* Mutant: the list is cut to one message.
SelectOne ==
    /\ pc = "select"
    /\ \E S \in SUBSET Unread : Cardinality(S) <= 1 /\ (Unread # {} => S # {}) /\ listed' = S
    /\ pc' = IF Unread = {} THEN "complete" ELSE "mark"
    /\ UNCHANGED <<store, awake, auto, row, ghosts>>

Select ==
    /\ pc = "select"
    /\ listed' = Unread
    /\ pc' = IF Unread = {} THEN "complete" ELSE "mark"
    /\ UNCHANGED <<store, awake, auto, row, ghosts>>

\* The outcome of the action is the error.
SelectFails ==
    /\ pc = "select"
    /\ pc' = "complete"
    /\ UNCHANGED <<store, awake, auto, row, listed, ghosts>>

\* Whatever is unread by now is marked, then the list of contacts is fetched.
Mark ==
    /\ pc = "mark"
    /\ status' = [m \in Messages |-> IF m \in Unread THEN "read" ELSE status[m]]
    /\ pc' = "complete"
    /\ UNCHANGED <<lastRow, shows, cursor, awake, auto, row, listed, ghosts>>

\* Mutant: the messages are shown although they could not be marked.
MarkIgnored ==
    /\ pc = "mark"
    /\ pc' = "complete"
    /\ UNCHANGED <<store, awake, auto, row, listed, ghosts>>

\* The messages loaded are dropped with the error and stay unread.
MarkFails ==
    /\ pc = "mark"
    /\ listed' = {} /\ pc' = "complete"
    /\ UNCHANGED <<store, awake, auto, row, ghosts>>

\* Mutant: the instance is not woken by what it has read.
ReadAsleep == pc' = "top" /\ UNCHANGED awake

\* Mutant: read_msg does not end the answer it is part of.
ReadGoesOn == pc' = (IF auto THEN "top" ELSE "acting") /\ awake' = (auto \/ awake)

\* read_msg is a blocking action: the answer ends with it.  A hard-wired read
\* is a beat of its own and leaves the instance awake.
ReadEnds == pc' = "top" /\ awake' = (auto \/ awake)

\* complete_action_log.  Without a row there is none to complete.
Complete ==
    /\ pc = "complete"
    /\ shows' = IF row = 0 THEN shows ELSE [shows EXCEPT ![row] = listed]
    /\ row' = 0 /\ listed' = {}
    /\ ReadEnds
    /\ UNCHANGED <<status, lastRow, cursor, auto, ghosts>>

\* Its error is dropped, and the row remains executing.
CompleteFails ==
    /\ pc = "complete" /\ Strike("store")
    /\ row' = 0 /\ listed' = {}
    /\ ReadEnds
    /\ UNCHANGED <<store, auto, told>>

-----------------------------------------------------------------------------
(* The process dies and is started again.  The new thread counts as asleep. *)

Restart ==
    /\ Strike(IF pc = "complete" /\ listed # {} THEN "halfway" ELSE "restart")
    /\ awake' = FALSE /\ pc' = "top" /\ auto' = FALSE /\ row' = 0 /\ listed' = {}
    /\ UNCHANGED <<store, told>>

Read == BeginAutoRead \/ Select \/ SelectFails \/ Mark \/ MarkFails \/ Complete \/ CompleteFails
Answer == ReadMsg \/ Summarise \/ Idle \/ EndAnswer \/ \E r \in Rows : Distill(r)
Ask == Infer \/ InferBlind

Next ==
    \/ \E m \in Messages : Send(m)
    \/ Read \/ Ask \/ Answer \/ Wake \/ Restart

Spec == Init /\ [][Next]_vars

\* The thread goes on, the model ends its answer, and the database does not
\* fail every time.
FairSpec ==
    /\ Spec
    /\ WF_vars(BeginAutoRead) /\ SF_vars(Select) /\ SF_vars(Mark) /\ WF_vars(Complete)
    /\ WF_vars(Infer) /\ WF_vars(Idle \/ EndAnswer)
-----------------------------------------------------------------------------
(* Properties. *)

\* Every variable holds a value of its type.
TypeOK ==
    /\ status \in [Messages -> {"unsent", "unread", "read"}]
    /\ lastRow \in 0..MaxRows /\ cursor \in 0..lastRow
    /\ shows \in [Rows -> SUBSET Messages]
    /\ awake \in BOOLEAN /\ auto \in BOOLEAN
    /\ pc \in {"top", "acting", "select", "mark", "complete"}
    /\ row \in 0..lastRow /\ listed \subseteq Messages
    /\ told \subseteq Messages
    /\ struck \subseteq {"race", "store", "halfway", "restart"}

\* A message marked read is known to the model, in current for its next prompt,
\* or in the hands of the read_msg that marked it, unless it arrived between
\* select and update, the log failed or the thread died halfway.
NothingLost ==
    struck \subseteq {"restart"} =>
        \A m \in Messages : status[m] = "read" => m \in told \union Current \union listed

\* Whatever fails and however reads are repeated, no message is written to the
\* log twice: the model never takes one message for two.
ShownOnce ==
    \A r, q \in Rows : r # q => shows[r] \cap shows[q] = {}

\* A summary never consumes a message that no prompt has shown: read_msg ends
\* the answer, so a summary of the same answer cannot follow it.
ToldBeforeSummarised ==
    [][struck \subseteq {"race", "halfway", "restart"} =>
        \A r \in (cursor + 1)..cursor' : shows[r] \subseteq told]_vars

\* Every message reaches the model, through failing reads and answers that end
\* anywhere, as long as no fault strikes (and the bound on rows leaves room).
EveryMessageTold ==
    \A m \in Messages : status[m] = "unread" ~> (m \in told \/ struck # {} \/ lastRow = MaxRows)
=============================================================================
