--------------------------- MODULE MessageProofs ---------------------------
(***************************************************************************)
(* Proofs about Inbox, for any set of messages, any number of rows and any *)
(* combination of faults; and about Chat, for any number of messages, any  *)
(* size of a page and of a batch, and any interleaving of the requests of  *)
(* the page with the writers.                                              *)
(***************************************************************************)
EXTENDS Inbox, Chat, FiniteSetTheorems, WellFoundedInduction, TLAPS

-----------------------------------------------------------------------------
(* Inbox: the invariant and the types of its variables. *)

Flags == awake \in BOOLEAN /\ auto \in BOOLEAN

Values ==
    /\ status \in [Messages -> {"unsent", "unread", "read"}]
    /\ lastRow \in 0..MaxRows /\ cursor \in 0..lastRow
    /\ shows \in [Rows -> SUBSET Messages]
    /\ pc \in {"top", "acting", "select", "mark", "complete"}
    /\ row \in 0..lastRow /\ listed \subseteq Messages
    /\ told \subseteq Messages
    /\ struck \subseteq {"race", "store", "halfway", "restart"}

\* What the read_msg under way has in its hands.
Holding ==
    /\ pc \notin {"mark", "complete"} => listed = {}
    /\ pc \in {"top", "acting"} => row = 0
    /\ pc = "mark" => \A m \in listed : status[m] = "unread"
    /\ pc = "complete" => \A m \in listed : status[m] = "read"

\* The log: rows are empty until they are completed, with messages marked read.
Logging ==
    /\ \A r \in Rows : r > lastRow => shows[r] = {}
    /\ row # 0 => row > cursor /\ shows[row] = {}
    /\ \A r \in Rows : \A m \in shows[r] : status[m] = "read"
    /\ pc = "complete" => \A r \in Rows : \A m \in listed : m \notin shows[r]
    /\ ShownOnce

\* What each fault leaves behind: without it the prompt of the present answer
\* has shown current, the update marks what the select has loaded, and a
\* read_msg has a row to be completed.
Faultless ==
    /\ pc = "acting" /\ "store" \notin struck => Current \subseteq told
    /\ pc = "mark" /\ "race" \notin struck =>
         \A m \in Messages : status[m] = "unread" => m \in listed
    /\ pc \in {"select", "mark", "complete"} /\ "store" \notin struck => row # 0

Inv == Values /\ Holding /\ Logging /\ Faultless /\ NothingLost

LEMMA FlagsStep == Flags /\ [Next]_vars => Flags'
<1> SUFFICES ASSUME Flags, [Next]_vars PROVE Flags'
  OBVIOUS
<1> USE DEF Flags, vars, store, thread, ghosts
<1>1. ASSUME NEW m \in Messages, Send(m) PROVE Flags'
  BY <1>1, Zenon DEF Send
<1>2. CASE BeginAutoRead
  BY <1>2, Zenon DEF BeginAutoRead
<1>3. CASE Select \/ SelectFails \/ Mark \/ MarkFails
  BY <1>3, Zenon DEF Select, SelectFails, Mark, MarkFails
<1>4. CASE Complete \/ CompleteFails
  BY <1>4, Zenon DEF Complete, CompleteFails, ReadEnds
<1>5. CASE Infer \/ InferBlind
  BY <1>5, Zenon DEF Infer, InferBlind
<1>6. CASE ReadMsg \/ Summarise \/ Idle \/ EndAnswer
  BY <1>6, Zenon DEF ReadMsg, Summarise, Idle, EndAnswer
<1>7. CASE Wake \/ Restart
  BY <1>7, Zenon DEF Wake, Restart
<1>8. CASE UNCHANGED vars
  BY <1>8, Zenon
<1>9. ASSUME NEW r \in Rows, Distill(r) PROVE Flags'
  BY <1>9, Zenon DEF Distill
<1> QED
  BY <1>1, <1>2, <1>3, <1>4, <1>5, <1>6, <1>7, <1>8, <1>9, Zenon DEF Next, Read, Ask, Answer

LEMMA RowInserted ==
  ASSUME Values, InsertRow
  PROVE  /\ lastRow' \in lastRow..MaxRows /\ row' \in 0..lastRow'
         /\ row' # 0 => row' = lastRow + 1 /\ lastRow' = lastRow + 1
         /\ lastRow' \in {lastRow, lastRow + 1}
         /\ lastRow' = lastRow + 1 => row' = lastRow'
         /\ struck \subseteq struck'
         /\ row' = 0 => "store" \in struck'
         /\ struck' \subseteq {"race", "store", "halfway", "restart"}
<1> USE InboxAssumption DEF Values, Strike
<1>1. CASE lastRow < MaxRows /\ lastRow' = lastRow + 1 /\ row' = lastRow + 1 /\ struck' = struck
  BY <1>1
<1>2. CASE Strike("store") /\ row' = 0 /\ lastRow' = lastRow
  BY <1>2
<1> QED
  BY <1>1, <1>2 DEF InsertRow

LEMMA ValuesStep == Values /\ [Next]_vars => Values'
<1> SUFFICES ASSUME Values, [Next]_vars PROVE Values'
  OBVIOUS
<1> USE InboxAssumption DEF Values, Rows, store, thread, ghosts, Strike
<1>1. ASSUME NEW m \in Messages, Send(m) PROVE Values'
  BY <1>1 DEF Send
<1>2. CASE BeginAutoRead \/ ReadMsg
  <2>1. InsertRow
    BY <1>2 DEF BeginAutoRead, ReadMsg
  <2>2. pc' = "select" /\ UNCHANGED <<status, shows, cursor, listed, told>>
    BY <1>2 DEF BeginAutoRead, ReadMsg
  <2>3. cursor' \in 0..lastRow'
    BY <2>1, <2>2, RowInserted
  <2> QED
    BY <2>1, <2>2, <2>3, RowInserted
<1>3. CASE Select
  BY <1>3 DEF Select, Unread
<1>4. CASE SelectFails \/ MarkFails
  BY <1>4 DEF SelectFails, MarkFails
<1>5. CASE Mark
  BY <1>5 DEF Mark, Unread
<1>6. CASE Complete
  BY <1>6 DEF Complete, ReadEnds
<1>7. CASE CompleteFails
  BY <1>7 DEF CompleteFails, ReadEnds
<1>8. Current \subseteq Messages
  BY DEF Current
<1>9. CASE Infer \/ InferBlind
  BY <1>8, <1>9 DEF Infer, InferBlind
<1>10. CASE Summarise
  BY <1>10 DEF Summarise
<1>11. CASE Idle \/ EndAnswer
  BY <1>11 DEF Idle, EndAnswer
<1>12. CASE Wake
  BY <1>12 DEF Wake
<1>13. CASE Restart
  BY <1>13 DEF Restart
<1>14. CASE UNCHANGED vars
  BY <1>14 DEF vars
<1>15. ASSUME NEW r \in Rows, Distill(r) PROVE Values'
  BY <1>15 DEF Distill
<1> QED
  BY <1>1, <1>2, <1>3, <1>4, <1>5, <1>6, <1>7, <1>8, <1>9, <1>10, <1>11, <1>12, <1>13, <1>14, <1>15
  DEF Next, Read, Ask, Answer

LEMMA InitInv == Init => Flags /\ Inv
<1> SUFFICES ASSUME Init PROVE Flags /\ Inv
  OBVIOUS
<1> USE DEF Init
<1>1. Flags
  BY Zenon DEF Flags
<1>2. Values
  BY InboxAssumption DEF Values, Rows
<1>3. Holding /\ Logging
  BY InboxAssumption DEF Holding, Logging, ShownOnce, Rows
<1>4. Faultless /\ NothingLost
  BY DEF Faultless, NothingLost, Current
<1> QED
  BY <1>1, <1>2, <1>3, <1>4 DEF Inv

\* Every variable of the inbox holds a value of its type, whatever fault strikes.
THEOREM TypeCorrect == Spec => []TypeOK
<1>1. Init => Flags /\ Values
  BY InitInv DEF Inv
<1>2. Flags /\ Values => TypeOK
  BY DEF Flags, Values, TypeOK
<1> QED
  BY <1>1, <1>2, FlagsStep, ValuesStep, PTL DEF Spec
-----------------------------------------------------------------------------
(* What each action keeps of the invariant. *)

LEMMA CurrentOf == \A m : m \in Current <=> \E r \in (cursor + 1)..lastRow : m \in shows[r]
  BY DEF Current

LEMMA CurrentNext ==
  \A m : m \in Current' <=> \E r \in (cursor' + 1)..lastRow' : m \in shows'[r]
  BY DEF Current

LEMMA SendStep == ASSUME Inv, NEW m \in Messages, Send(m), Values' PROVE Inv'
<1> USE DEF Inv, Send, Values, Rows, thread
<1>1. \A x \in Messages : (status'[x] = "read" <=> status[x] = "read")
                        /\ (status[x] = "unread" => status'[x] = "unread")
  OBVIOUS
<1>2. Current' = Current
  BY DEF Current
<1>3. Holding'
  BY <1>1 DEF Holding
<1>4. Logging'
  BY <1>1 DEF Logging, ShownOnce
<1>5. struck \subseteq struck' /\ (pc = "mark" => "race" \in struck')
  BY DEF Strike
<1>6. Faultless'
  BY <1>2, <1>5 DEF Faultless
<1>7. NothingLost'
  BY <1>1, <1>2, <1>5 DEF NothingLost
<1> QED
  BY <1>3, <1>4, <1>6, <1>7

LEMMA ReadBeginsStep == ASSUME Inv, BeginAutoRead \/ ReadMsg, Values' PROVE Inv'
<1> USE InboxAssumption DEF Inv, Rows
<1>1. InsertRow /\ pc \in {"top", "acting"} /\ pc' = "select"
      /\ UNCHANGED <<status, shows, cursor, listed, told>>
  BY DEF BeginAutoRead, ReadMsg
<1>2. Current' = Current
  <2>1. \A r \in Rows : r > lastRow => shows[r] = {}
    BY DEF Logging
  <2>2. lastRow \in 0..MaxRows /\ lastRow' \in lastRow..MaxRows /\ cursor \in 0..lastRow
    BY <1>1, RowInserted DEF Values
  <2>3. \A m : (\E r \in (cursor + 1)..lastRow' : m \in shows[r])
               <=> (\E r \in (cursor + 1)..lastRow : m \in shows[r])
    BY <2>1, <2>2
  <2> QED
    BY <1>1, <2>3, CurrentOf, CurrentNext, Zenon
<1>3. Holding'
  BY <1>1 DEF Holding
<1>4. Logging'
  BY <1>1, RowInserted DEF Logging, ShownOnce, Values
<1>5. Faultless'
  BY <1>1, RowInserted DEF Faultless
<1>6. NothingLost'
  BY <1>1, <1>2, RowInserted DEF NothingLost
<1> QED
  BY <1>3, <1>4, <1>5, <1>6

LEMMA LaterTail ==
  ASSUME NEW a \in Int, NEW b \in Int, NEW c \in Int, a <= b
  PROVE  \A r \in (b + 1)..c : r \in (a + 1)..c
  OBVIOUS

LEMMA SummariseStep == ASSUME Inv, Summarise, Values' PROVE Inv'
<1> USE DEF Inv, Summarise, Rows, thread, ghosts
<1>1. cursor' \in cursor..lastRow
  BY DEF Values
<1>2. Current' \subseteq Current
  <2>1. cursor \in Int /\ lastRow \in Int /\ cursor' \in Int /\ cursor <= cursor'
    BY <1>1, InboxAssumption DEF Values
  <2>2. shows' = shows /\ lastRow' = lastRow
    OBVIOUS
  <2>3. \A r \in (cursor' + 1)..lastRow : r \in (cursor + 1)..lastRow
    BY <2>1, LaterTail
  <2> QED
    BY <2>2, <2>3, CurrentOf, CurrentNext, Zenon
<1>3. Holding'
  BY DEF Holding
<1>4. Logging'
  <2>1. row = 0
    BY DEF Holding
  <2> QED
    BY <2>1 DEF Logging, ShownOnce
<1>5. Faultless'
  BY <1>2 DEF Faultless
<1>6. NothingLost'
  <2>1. struck \subseteq {"restart"} => Current \subseteq told
    BY DEF Faultless
  <2> QED
    BY <2>1 DEF NothingLost, Holding
<1> QED
  BY <1>3, <1>4, <1>5, <1>6

LEMMA MarkStep == ASSUME Inv, Mark, Values' PROVE Inv'
<1> USE DEF Inv, Mark, Values, Unread, Rows, ghosts
<1>1. \A m \in Messages : status'[m] = "read" <=> status[m] \in {"unread", "read"}
  OBVIOUS
<1>2. Current' = Current
  BY DEF Current
<1>3. Holding'
  BY <1>1 DEF Holding
<1>4. \A r \in Rows : \A m \in shows[r] : m \in Messages /\ status[m] = "read"
  BY DEF Logging
<1>5. \A m \in listed : status[m] = "unread"
  BY DEF Holding
<1>6. Logging'
  BY <1>1, <1>4, <1>5 DEF Logging, ShownOnce
<1>7. Faultless'
  BY DEF Faultless
<1>8. NothingLost'
  BY <1>1, <1>2 DEF NothingLost, Faultless
<1> QED
  BY <1>3, <1>6, <1>7, <1>8

LEMMA CompleteStep == ASSUME Inv, Complete, Values' PROVE Inv'
<1> USE DEF Inv, Complete, ReadEnds, Rows, ghosts
<1>1. CASE row = 0
  <2>1. Current' = Current
    BY <1>1 DEF Current
  <2>2. Holding' /\ Logging' /\ Faultless'
    BY <1>1 DEF Holding, Logging, Faultless, ShownOnce
  <2>3. NothingLost'
    BY <1>1, <2>1 DEF NothingLost, Faultless
  <2> QED
    BY <2>2, <2>3
<1>2. CASE row # 0
  <2>1. row \in (cursor + 1)..lastRow /\ row \in Rows /\ cursor \in Nat /\ lastRow \in Nat
    BY <1>2, InboxAssumption DEF Values, Logging
  <2>2. \A r \in Rows : shows'[r] = IF r = row THEN listed ELSE shows[r]
    BY <1>2 DEF Values
  <2>3. shows[row] = {} /\ lastRow <= MaxRows
    BY <1>2, InboxAssumption DEF Logging, Values
  <2>4. Current \subseteq Current' /\ listed \subseteq Current'
    <3>1. \A r \in (cursor + 1)..lastRow : r \in Rows
      BY <2>1, <2>3, InboxAssumption
    <3> QED
      BY <2>1, <2>2, <2>3, <3>1, CurrentOf, CurrentNext
  <2>5. Holding'
    BY DEF Holding
  <2>6. Logging'
    BY <2>1, <2>2, <2>3 DEF Logging, ShownOnce, Holding
  <2>7. Faultless'
    BY DEF Faultless
  <2>8. NothingLost'
    BY <2>4 DEF NothingLost
  <2> QED
    BY <2>5, <2>6, <2>7, <2>8
<1> QED
  BY <1>1, <1>2

LEMMA DistillStep == ASSUME Inv, NEW q \in Rows, Distill(q), Values' PROVE Inv'
<1> USE DEF Inv, Distill, Rows, thread, ghosts
<1>1. \A r \in Rows : shows'[r] = IF r = q THEN {} ELSE shows[r]
  BY DEF Values
<1>2. \A r \in Rows : shows'[r] \subseteq shows[r]
  BY <1>1
<1>3. \A r \in (cursor + 1)..lastRow : r \in Rows
  BY InboxAssumption DEF Values
<1>4. Current' \subseteq Current
  BY <1>2, <1>3, CurrentOf, CurrentNext
<1>5. \A m : m \in Current => m \in Current' \/ m \in told
  BY <1>1, <1>3, CurrentOf, CurrentNext
<1>6. Holding'
  BY DEF Holding
<1>7. Logging'
  BY <1>2 DEF Logging, ShownOnce, Holding
<1>8. Faultless'
  BY <1>4 DEF Faultless
<1>9. NothingLost'
  BY <1>5 DEF NothingLost
<1> QED
  BY <1>6, <1>7, <1>8, <1>9

LEMMA InvStep == Inv /\ [Next]_vars => Inv'
<1> SUFFICES ASSUME Inv, [Next]_vars PROVE Inv'
  OBVIOUS
<1>0. Values'
  BY ValuesStep DEF Inv
<1> USE DEF Inv, Rows, store, thread, ghosts
<1>1. ASSUME NEW m \in Messages, Send(m) PROVE Inv'
  BY <1>0, <1>1, SendStep
<1>2. CASE BeginAutoRead \/ ReadMsg
  BY <1>0, <1>2, ReadBeginsStep
<1>3. CASE Summarise
  BY <1>0, <1>3, SummariseStep
<1>4. CASE Mark
  BY <1>0, <1>4, MarkStep
<1>5. CASE Complete
  BY <1>0, <1>5, CompleteStep
<1>6. CASE CompleteFails
  <2>1. "store" \in struck' /\ struck \subseteq struck'
    BY <1>6 DEF CompleteFails, Strike
  <2>2. Holding' /\ Logging'
    BY <1>6 DEF CompleteFails, ReadEnds, Holding, Logging, ShownOnce
  <2>3. Faultless' /\ NothingLost'
    BY <1>6, <2>1 DEF CompleteFails, ReadEnds, Faultless, NothingLost
  <2> QED
    BY <1>0, <2>2, <2>3
<1>7. CASE Select \/ SelectFails \/ MarkFails
  <2>1. UNCHANGED <<status, lastRow, shows, cursor, row, told, struck>>
    BY <1>7 DEF Select, SelectFails, MarkFails
  <2>2. Current' = Current
    BY <2>1 DEF Current
  <2>3. Holding'
    BY <1>7, <2>1 DEF Select, SelectFails, MarkFails, Holding, Unread
  <2>4. Logging'
    BY <1>7, <2>1 DEF Select, SelectFails, MarkFails, Holding, Logging, ShownOnce, Unread
  <2>5. Faultless'
    BY <1>7, <2>1 DEF Select, SelectFails, MarkFails, Faultless, Unread
  <2>6. NothingLost'
    BY <1>7, <2>1, <2>2 DEF Select, SelectFails, MarkFails, Holding, NothingLost
  <2> QED
    BY <1>0, <2>3, <2>4, <2>5, <2>6
<1>8. CASE Infer \/ InferBlind
  <2>1. UNCHANGED <<status, lastRow, shows, cursor, row, listed>> /\ pc = "top" /\ pc' = "acting"
    BY <1>8 DEF Infer, InferBlind
  <2>2. Current' = Current /\ told \subseteq told' /\ struck \subseteq struck'
    BY <1>8 DEF Infer, InferBlind, Current, Strike
  <2>3. Current \subseteq told' \/ "store" \in struck'
    BY <1>8 DEF Infer, InferBlind, Strike
  <2>4. Holding' /\ Logging'
    BY <2>1 DEF Holding, Logging, ShownOnce
  <2>5. Faultless' /\ NothingLost'
    BY <2>1, <2>2, <2>3 DEF Faultless, NothingLost
  <2> QED
    BY <1>0, <2>4, <2>5
<1>9. CASE Wake \/ Idle \/ EndAnswer \/ UNCHANGED vars
  <2>1. UNCHANGED <<status, lastRow, shows, cursor, row, listed, told, struck>>
        /\ (pc' = pc \/ (pc = "acting" /\ pc' = "top"))
    <3>1. CASE Wake
      BY <3>1 DEF Wake
    <3>2. CASE Idle \/ EndAnswer
      BY <3>2 DEF Idle, EndAnswer
    <3>3. CASE UNCHANGED vars
      BY <3>3, Zenon DEF vars
    <3> QED
      BY <1>9, <3>1, <3>2, <3>3
  <2>2. Current' = Current
    BY <2>1 DEF Current
  <2>3. Holding' /\ Logging'
    BY <2>1 DEF Holding, Logging, ShownOnce
  <2>4. Faultless' /\ NothingLost'
    BY <2>1, <2>2 DEF Faultless, NothingLost
  <2> QED
    BY <1>0, <2>3, <2>4
<1>10. CASE Restart
  <2>1. UNCHANGED <<status, lastRow, shows, cursor, told>>
        /\ pc' = "top" /\ row' = 0 /\ listed' = {}
    BY <1>10 DEF Restart
  <2>2. Current' = Current /\ struck \subseteq struck'
    BY <1>10, <2>1 DEF Current, Restart, Strike
  <2>3. pc = "complete" /\ listed # {} => "halfway" \in struck'
    BY <1>10 DEF Restart, Strike
  <2>4. Holding' /\ Logging' /\ Faultless'
    BY <2>1 DEF Holding, Logging, ShownOnce, Faultless
  <2>5. NothingLost'
    BY <2>1, <2>2, <2>3 DEF Holding, NothingLost, Values
  <2> QED
    BY <1>0, <2>4, <2>5
<1>11. ASSUME NEW r \in Rows, Distill(r) PROVE Inv'
  BY <1>0, <1>11, DistillStep
<1> QED
  BY <1>1, <1>2, <1>3, <1>4, <1>5, <1>6, <1>7, <1>8, <1>9, <1>10, <1>11
  DEF Next, Read, Ask, Answer

\* No message marked read is lost to the model, except to the faults that the
\* property names; a select or an update that fails loses none.
THEOREM NothingIsLost == Spec => []NothingLost
<1>1. Init => Inv
  BY InitInv
<1>2. Inv => NothingLost
  BY DEF Inv
<1> QED
  BY <1>1, <1>2, InvStep, PTL DEF Spec

\* No message is written to the log by two reads, under any fault.
THEOREM NothingShownTwice == Spec => []ShownOnce
<1>1. Init => Inv
  BY InitInv
<1>2. Inv => ShownOnce
  BY DEF Inv, Logging
<1> QED
  BY <1>1, <1>2, InvStep, PTL DEF Spec

\* A summary consumes only rows whose messages a prompt has shown, provided the
\* log could be read and written.
THEOREM SummariesComeAfter == Spec => ToldBeforeSummarised
<1> DEFINE Consumes == struck \subseteq {"race", "halfway", "restart"} =>
                         \A r \in (cursor + 1)..cursor' : shows[r] \subseteq told
<1>1. Init => Inv
  BY InitInv
<1>2. Inv /\ [Next]_vars => [Consumes]_vars
  <2> SUFFICES ASSUME Inv, [Next]_vars PROVE Consumes
    OBVIOUS
  <2>1. CASE Summarise
    <3>1. struck \subseteq {"race", "halfway", "restart"} => Current \subseteq told
      BY <2>1 DEF Summarise, Inv, Faultless
    <3>2. \A r \in (cursor + 1)..cursor' : r \in (cursor + 1)..lastRow
      BY <2>1, InboxAssumption DEF Summarise, Inv, Values
    <3> QED
      BY <3>1, <3>2, CurrentOf
  <2>2. CASE ~Summarise
    <3>1. cursor' = cursor
      BY <2>2 DEF Next, Read, Ask, Answer, Send, BeginAutoRead, Select, SelectFails, Mark,
        MarkFails, Complete, CompleteFails, Infer, InferBlind, ReadMsg, Idle, EndAnswer, Distill,
        Wake, Restart, vars, store
    <3>2. (cursor + 1)..cursor' = {}
      BY <3>1, InboxAssumption DEF Inv, Values
    <3> QED
      BY <3>2
  <2> QED
    BY <2>1, <2>2
<1> QED
  BY <1>1, <1>2, InvStep, PTL DEF Spec, ToldBeforeSummarised
-----------------------------------------------------------------------------
(* Chat: the invariant. *)

\* Bags of the entries of a page.
Entry == [id : Nat, msg : Nat, by : {"page", "poll", "send"}]
EntryBags == UNION {[S -> Nat \ {0}] : S \in SUBSET Entry}

AskedPoll == [at : {"asked"}, after : Nat, old : BOOLEAN, stale : BOOLEAN, known : SUBSET Nat]
AnsweredPoll ==
    [at : {"answered"}, rows : SUBSET Nat, old : BOOLEAN, stale : BOOLEAN, known : SUBSET Nat]

PageTypes ==
    /\ data \in [msgs : EntryBags, earliestId : Nat, fullyLoaded : BOOLEAN, lastMsgId : Nat]
    /\ stray \subseteq Nat /\ lost \subseteq Nat /\ crossed \in BOOLEAN

ChatTypes ==
    /\ PageTypes
    /\ written \in 0..MaxMessages /\ rowIds \subseteq Nat
    /\ load # NoRequest => load.since \in Nat
    /\ more \in [1..MaxMessages -> Nat]
    /\ poll \in {NoRequest, PollElsewhere} \cup AskedPoll \cup AnsweredPoll
    /\ send.at = "inserted" => send.msg \in Nat

\* The ids the page works with bound what it shows.
Bounded ==
    /\ data.earliestId <= data.lastMsgId
    /\ ~data.fullyLoaded => data.earliestId \in 1..written
    /\ \A e \in BagToSet(data.msgs) : e.id <= data.lastMsgId

First == IF data.fullyLoaded THEN 1 ELSE data.earliestId

\* NothingMissing, whatever the table has.
NoGap == First..data.lastMsgId \subseteq Shown \cup lost

\* What pages and polls have brought: each message once, under its own id, and
\* not on display besides.
Brought == {e \in BagToSet(data.msgs) : e.by # "send"}

Once ==
    ~crossed =>
      /\ \A e \in Brought : e.msg = e.id /\ e.id >= data.earliestId /\ data.msgs[e] = 1 /\ e.id \notin stray
      /\ \A e, f \in Brought : e.id = f.id => e = f

\* Where a request for older messages begins the page has no gap either, also
\* when another one has come before it; and it is where the page begins unless
\* one has.
Scrolling ==
    \A m \in 1..MaxMessages : more[m] > 0 =>
      /\ m \in 2..written /\ m <= data.lastMsgId /\ m..data.lastMsgId \subseteq Shown \cup lost
      /\ ~crossed => m = data.earliestId /\ more[m] = 1

\* What a poll asks after is on the page, and what it brings for it joins up
\* with the last message, however far one that was sent has moved that.
Polling ==
    /\ poll.at = "asked" /\ ~poll.stale =>
         poll.after <= data.lastMsgId /\ (~crossed => data.earliestId <= poll.after)
    /\ poll.at = "answered" =>
         /\ poll.rows \subseteq 1..written
         /\ ~poll.stale => \A a \in poll.rows :
              (data.lastMsgId + 1)..a \subseteq poll.rows /\ (~crossed => data.earliestId <= a)

ChatInv == ChatTypes /\ Bounded /\ NoGap /\ Once /\ Scrolling /\ Polling
-----------------------------------------------------------------------------
(* Lemmas about the rows of an answer, the bag of a page and their bounds. *)

\* The least and the greatest of a bounded set of ids.
LEMMA MinIn ==
  ASSUME NEW S, S \subseteq Nat, S # {}
  PROVE  Min(S) \in S /\ \A y \in S : Min(S) <= y
<1> DEFINE R == {ss \in Nat \X Nat : ss[1] < ss[2]}
<1>1. IsWellFoundedOn(R, Nat)
  BY NatLessThanWellFounded DEF IsWellFoundedOn, OpToRel
<1>2. PICK x \in S : \A y \in S : ~(<<y, x>> \in R)
  BY <1>1, WFMin
<1>3. \A y \in S : x <= y
  <2> SUFFICES ASSUME NEW y \in S PROVE x <= y
    OBVIOUS
  <2>1. x \in Nat /\ y \in Nat /\ ~(<<y, x>> \in R)
    BY <1>2
  <2>2. ~(y < x)
    BY <2>1
  <2> QED
    BY <2>1, <2>2
<1> QED
  BY <1>3 DEF Min

LEMMA MaxIn ==
  ASSUME NEW n \in Nat, NEW S, S \subseteq 0..n, S # {}
  PROVE  Max(S) \in S /\ \A y \in S : y <= Max(S)
<1> DEFINE T == {n - x : x \in S}
<1>1. T \subseteq Nat /\ T # {}
  <2>1. \A x \in S : n - x \in Nat
    OBVIOUS
  <2> QED
    BY <2>1
<1>2. PICK x \in S : Min(T) = n - x
  BY <1>1, MinIn
<1>3. \A y \in S : y <= x
  <2> SUFFICES ASSUME NEW y \in S PROVE y <= x
    OBVIOUS
  <2>1. Min(T) <= n - y
    BY <1>1, MinIn
  <2>2. x \in 0..n /\ y \in 0..n /\ n - x <= n - y
    BY <1>2, <2>1
  <2> QED
    BY <2>2
<1>4. x \in S /\ \A y \in S : x >= y
  BY <1>3
<1>5. Max(S) \in S /\ \A y \in S : Max(S) >= y
  BY <1>4 DEF Max
<1> QED
  BY <1>5

LEMMA Narrower ==
  ASSUME NEW S, NEW T, IsFiniteSet(T), S \subseteq T, NEW k \in Nat, Cardinality(T) < k
  PROVE  Cardinality(S) < k
BY FS_Subset, FS_CardinalityType

\* A page of the history is a stretch of the table that ends where it should.
LEMMA APage ==
  ASSUME NEW before \in Nat, written \in Nat
  PROVE  /\ RowsBefore(before) \subseteq 1..written
         /\ \A a \in RowsBefore(before) : a < before
         /\ \A a \in RowsBefore(before) : \A x \in 1..written :
              a <= x /\ x < before => x \in RowsBefore(before)
         /\ before - 1 \in 1..written => before - 1 \in RowsBefore(before)
<1>1. RowsBefore(before) \subseteq 1..written /\ \A a \in RowsBefore(before) : a < before
  BY DEF RowsBefore
<1>2. ASSUME NEW a \in RowsBefore(before), NEW x \in 1..written, a <= x, x < before
      PROVE  x \in RowsBefore(before)
  <2> DEFINE Past(m) == {k \in 1..written : m < k /\ k < before}
  <2>1. Past(x) \subseteq Past(a)
    BY <1>1, <1>2
  <2>2. IsFiniteSet(Past(a))
    BY FS_Interval, FS_Subset
  <2>3. Cardinality(Past(a)) < Page
    BY DEF RowsBefore
  <2>4. Cardinality(Past(x)) < Page
    BY <2>1, <2>2, <2>3, ChatAssumption, Narrower
  <2> QED
    BY <1>2, <2>4 DEF RowsBefore
<1>3. ASSUME before - 1 \in 1..written PROVE before - 1 \in RowsBefore(before)
  <2>1. {k \in 1..written : before - 1 < k /\ k < before} = {}
    OBVIOUS
  <2> QED
    BY <1>3, <2>1, FS_EmptySet, ChatAssumption DEF RowsBefore
<1> QED
  BY <1>1, <1>2, <1>3

\* A page says that there is more unless it has the first message.
LEMMA MoreThanAPage ==
  ASSUME NEW rows, written \in Nat, rows \subseteq 1..written
  PROVE  /\ HasMore(rows) \in BOOLEAN
         /\ HasMore(rows) => rows # {}
         /\ ~HasMore(rows) /\ rows # {} => 1 \in rows
<1>1. HasMore(rows) \in BOOLEAN /\ (HasMore(rows) => rows # {})
  BY DEF HasMore
<1>2. ASSUME ~HasMore(rows), rows # {} PROVE 1 \in rows
  <2>1. Min(rows) \in rows
    <3>1. rows \subseteq Nat
      OBVIOUS
    <3> QED
      BY <1>2, <3>1, MinIn, Zenon
  <2>2. \A m \in 1..written : ~(m < Min(rows))
    BY <1>2, Zenon DEF HasMore
  <2>3. PICK m \in 1..written : m = Min(rows)
    BY <2>1
  <2>4. m = 1
    BY <2>2, <2>3
  <2> QED
    BY <2>1, <2>3, <2>4
<1> QED
  BY <1>1, <1>2

\* What a poll returns begins right after the id it is asked for.
LEMMA ABatch ==
  ASSUME NEW after \in Nat, written \in Nat
  PROVE  /\ MessagesAfter(after) \subseteq 1..written
         /\ \A a \in MessagesAfter(after) :
              a > after /\ (after + 1)..a \subseteq MessagesAfter(after)
<1>1. MessagesAfter(after) \subseteq 1..written /\ \A a \in MessagesAfter(after) : a > after
  BY DEF MessagesAfter
<1>2. ASSUME NEW a \in MessagesAfter(after), NEW x \in (after + 1)..a
      PROVE  x \in MessagesAfter(after)
  <2> DEFINE Between(m) == {k \in 1..written : after < k /\ k < m}
  <2>1. a \in 1..written
    BY <1>1
  <2>2. Between(x) \subseteq Between(a)
    BY <2>1
  <2>3. IsFiniteSet(Between(a))
    <3>1. IsFiniteSet(1..written)
      BY FS_Interval
    <3>2. Between(a) \subseteq 1..written
      OBVIOUS
    <3> QED
      BY <3>1, <3>2, FS_Subset, Zenon
  <2>4. Cardinality(Between(a)) < Batch
    BY DEF MessagesAfter
  <2>5. Cardinality(Between(x)) < Batch
    BY <2>2, <2>3, <2>4, ChatAssumption, Narrower
  <2>6. x \in 1..written /\ x > after
    BY <2>1
  <2> QED
    BY <2>5, <2>6 DEF MessagesAfter
<1> QED
  BY <1>1, <1>2

\* Putting bags of entries together.
LEMMA Together ==
  ASSUME NEW A \in EntryBags, NEW B \in EntryBags
  PROVE  /\ A (+) B \in EntryBags
         /\ BagToSet(A (+) B) = BagToSet(A) \cup BagToSet(B)
         /\ \A e \in BagToSet(A) \ BagToSet(B) : (A (+) B)[e] = A[e]
         /\ \A e \in BagToSet(B) \ BagToSet(A) : (A (+) B)[e] = B[e]
<1>1. PICK S \in SUBSET Entry : A \in [S -> Nat \ {0}]
  BY DEF EntryBags
<1>2. PICK T \in SUBSET Entry : B \in [T -> Nat \ {0}]
  BY DEF EntryBags
<1>3. A (+) B \in [S \cup T -> Nat \ {0}]
  BY <1>1, <1>2 DEF (+)
<1>4. \A e \in S \cup T :
        (A (+) B)[e] = (IF e \in S THEN A[e] ELSE 0) + (IF e \in T THEN B[e] ELSE 0)
  BY <1>1, <1>2 DEF (+)
<1>5. DOMAIN A = S /\ DOMAIN B = T /\ DOMAIN (A (+) B) = S \cup T
  BY <1>1, <1>2, <1>3
<1>6. A (+) B \in EntryBags
  BY <1>3 DEF EntryBags
<1>7. \A e \in S \ T : (A (+) B)[e] = A[e]
  BY <1>1, <1>4
<1>8. \A e \in T \ S : (A (+) B)[e] = B[e]
  BY <1>2, <1>4
<1> QED
  BY <1>5, <1>6, <1>7, <1>8 DEF BagToSet

\* The entries for the rows of an answer.
LEMMA EntriesOf ==
  ASSUME NEW rows, rows \subseteq Nat, NEW by \in {"page", "poll"}
  PROVE  /\ Entries(rows, by) \in EntryBags
         /\ \A e \in BagToSet(Entries(rows, by)) :
              /\ e.id \in rows /\ e.msg = e.id /\ e.by = by
              /\ Entries(rows, by)[e] = 1
              /\ e = [id |-> e.id, msg |-> e.id, by |-> by]
         /\ \A m \in rows : \E e \in BagToSet(Entries(rows, by)) : e.msg = m /\ e.id = m
<1> DEFINE S == {[id |-> m, msg |-> m, by |-> by] : m \in rows}
<1>1. Entries(rows, by) = [e \in S |-> 1]
  BY DEF Entries, SetToBag
<1>2. S \subseteq Entry
  BY DEF Entry
<1>3. Entries(rows, by) \in [S -> Nat \ {0}]
  BY <1>1
<1>4. Entries(rows, by) \in EntryBags
  BY <1>2, <1>3 DEF EntryBags
<1>5. BagToSet(Entries(rows, by)) = S
  BY <1>1 DEF BagToSet
<1>6. \A e \in S : Entries(rows, by)[e] = 1
  BY <1>1
<1>7. \A e \in S : e.id \in rows /\ e.msg = e.id /\ e.by = by /\ e = [id |-> e.id, msg |-> e.id, by |-> by]
  OBVIOUS
<1>8. ASSUME NEW m \in rows PROVE \E e \in S : e.msg = m /\ e.id = m
  <2> WITNESS [id |-> m, msg |-> m, by |-> by] \in S
  <2> QED
    OBVIOUS
<1> QED
  BY <1>4, <1>5, <1>6, <1>7, <1>8

\* The entry for a message the user has sent.
LEMMA EntrySent ==
  ASSUME NEW id \in Nat, NEW msg \in Nat
  PROVE  LET e == [id |-> id, msg |-> msg, by |-> "send"]
         IN /\ SetToBag({e}) \in EntryBags /\ BagToSet(SetToBag({e})) = {e} /\ e \in Entry
<1> DEFINE e == [id |-> id, msg |-> msg, by |-> "send"]
<1>1. e \in Entry
  BY DEF Entry
<1>2. SetToBag({e}) \in [{e} -> Nat \ {0}]
  BY DEF SetToBag
<1> QED
  BY <1>1, <1>2 DEF EntryBags, BagToSet, SetToBag

\* What a page shows is made of entries.
LEMMA EntryIn == ASSUME NEW B \in EntryBags PROVE BagToSet(B) \subseteq Entry
BY DEF EntryBags, BagToSet
-----------------------------------------------------------------------------
(* What each step keeps of the invariant. *)

LEMMA AtIdle == NoRequest.at = "idle" /\ PollElsewhere.at = "elsewhere"
BY DEF NoRequest, PollElsewhere

LEMMA ChatInitInv == ChatInit => ChatInv
<1> SUFFICES ASSUME ChatInit PROVE ChatInv
  OBVIOUS
<1>1. data.earliestId = 0 /\ data.lastMsgId = 0 /\ data.fullyLoaded /\ data.msgs = EmptyBag
  BY DEF ChatInit, Nothing
<1>2. EmptyBag \in [{} -> Nat \ {0}] /\ BagToSet(EmptyBag) = {}
  BY DEF EmptyBag, SetToBag, BagToSet
<1>3. EmptyBag \in EntryBags
  BY <1>2 DEF EntryBags
<1>4. PageTypes
  BY <1>3 DEF ChatInit, Nothing, PageTypes
<1>5. ChatTypes
  BY <1>4, AtIdle, ChatAssumption DEF ChatInit, ChatTypes, NoMore, Asked
<1>6. Bounded /\ NoGap /\ Once
  BY <1>1, <1>2 DEF Bounded, NoGap, First, Once, Brought
<1>7. Scrolling /\ Polling
  BY AtIdle DEF ChatInit, Scrolling, Polling, NoMore
<1> QED
  BY <1>5, <1>6, <1>7 DEF ChatInv

\* The poll under way stays what it is, or has ended.
Follows == poll' \in {poll, Old(poll), NoRequest, PollElsewhere}

LEMMA PollFollows ==
  ASSUME ChatTypes, Follows
  PROVE  /\ poll' \in {NoRequest, PollElsewhere} \cup AskedPoll \cup AnsweredPoll
         /\ poll'.at = "asked" =>
              poll.at = "asked" /\ poll'.after = poll.after /\ poll'.stale = poll.stale
         /\ poll'.at = "answered" =>
              poll.at = "answered" /\ poll'.rows = poll.rows /\ poll'.stale = poll.stale
<1>1. CASE poll \in AskedPoll
  <2>1. Old(poll) = [poll EXCEPT !.old = TRUE]
    BY <1>1 DEF Old, AskedPoll
  <2>2. Old(poll) \in AskedPoll /\ Old(poll).at = "asked" /\ poll.at = "asked"
        /\ Old(poll).after = poll.after /\ Old(poll).stale = poll.stale
    BY <1>1, <2>1 DEF AskedPoll
  <2> QED
    BY <1>1, <2>2, AtIdle DEF Follows
<1>2. CASE poll \in AnsweredPoll
  <2>1. Old(poll) = [poll EXCEPT !.old = TRUE]
    BY <1>2 DEF Old, AnsweredPoll
  <2>2. Old(poll) \in AnsweredPoll /\ Old(poll).at = "answered" /\ poll.at = "answered"
        /\ Old(poll).rows = poll.rows /\ Old(poll).stale = poll.stale
    BY <1>2, <2>1 DEF AnsweredPoll
  <2> QED
    BY <1>2, <2>2, AtIdle DEF Follows
<1>3. CASE poll \in {NoRequest, PollElsewhere}
  <2>1. Old(poll) = poll
    BY <1>3, AtIdle DEF Old
  <2> QED
    BY <1>3, <2>1, AtIdle DEF Follows
<1> QED
  BY <1>1, <1>2, <1>3 DEF ChatTypes

\* The page has not changed.
LEMMA SamePage ==
  ASSUME ChatInv, UNCHANGED <<data, lost, crossed>>, stray' \subseteq stray,
         written' \in 0..MaxMessages, written <= written'
  PROVE  /\ PageTypes' /\ Bounded' /\ NoGap' /\ Once'
         /\ (\A m \in 1..MaxMessages : more'[m] \in Nat /\ more'[m] <= more[m]) => Scrolling'
         /\ Follows => Polling'
<1>1. written \in 0..MaxMessages /\ \A x \in 1..written : x \in 1..written'
  BY DEF ChatInv, ChatTypes
<1>2. PageTypes' /\ Bounded' /\ NoGap' /\ Once'
  BY <1>1 DEF ChatInv, ChatTypes, PageTypes, Bounded, NoGap, First, Shown, Once, Brought
<1>3. ASSUME \A m \in 1..MaxMessages : more'[m] \in Nat /\ more'[m] <= more[m] PROVE Scrolling'
  <2> SUFFICES ASSUME NEW m \in 1..MaxMessages, more'[m] > 0
               PROVE  /\ m \in 2..written' /\ m <= data'.lastMsgId
                      /\ m..data'.lastMsgId \subseteq (Shown \cup lost)'
                      /\ ~crossed' => m = data'.earliestId /\ more'[m] = 1
    BY DEF Scrolling
  <2>1. more[m] \in Nat /\ more'[m] \in Nat /\ more'[m] <= more[m]
    BY <1>3 DEF ChatInv, ChatTypes
  <2>2. more[m] > 0
    BY <2>1
  <2>3. m \in 2..written /\ m <= data.lastMsgId /\ m..data.lastMsgId \subseteq Shown \cup lost
        /\ (~crossed => m = data.earliestId /\ more[m] = 1)
    BY <2>2 DEF ChatInv, Scrolling
  <2>4. ~crossed => more'[m] = 1
    BY <2>1, <2>3
  <2>5. Shown' = Shown
    BY DEF Shown
  <2> QED
    BY <1>1, <2>3, <2>4, <2>5
<1>4. ASSUME Follows PROVE Polling'
  <2>1. /\ poll'.at = "asked" =>
             poll.at = "asked" /\ poll'.after = poll.after /\ poll'.stale = poll.stale
        /\ poll'.at = "answered" =>
             poll.at = "answered" /\ poll'.rows = poll.rows /\ poll'.stale = poll.stale
    BY <1>4, PollFollows DEF ChatInv
  <2> QED
    BY <1>1, <2>1 DEF ChatInv, Polling
<1> QED
  BY <1>2, <1>3, <1>4

\* A step that leaves the page and asks for nothing but loads.
LEMMA QuietStep ==
  ASSUME ChatInv, UNCHANGED <<data, lost, crossed>>, stray' \subseteq stray,
         written' \in 0..MaxMessages, written <= written', rowIds' \subseteq Nat,
         load' \in {load, NoRequest, Asked(written)},
         more' \in [1..MaxMessages -> Nat], \A m \in 1..MaxMessages : more'[m] <= more[m],
         Follows, send'.at = "inserted" => send'.msg \in Nat
  PROVE  ChatInv'
<1>1. /\ PageTypes' /\ Bounded' /\ NoGap' /\ Once'
      /\ (\A m \in 1..MaxMessages : more'[m] \in Nat /\ more'[m] <= more[m]) => Scrolling'
      /\ Polling'
  BY SamePage
<1>2. poll' \in {NoRequest, PollElsewhere} \cup AskedPoll \cup AnsweredPoll
  BY PollFollows DEF ChatInv
<1>3. load' # NoRequest => load'.since \in Nat
  BY DEF Asked, ChatInv, ChatTypes
<1>4. ChatTypes'
  BY <1>1, <1>2, <1>3 DEF ChatTypes
<1> QED
  BY <1>1, <1>4 DEF ChatInv

LEMMA InsertStep ==
  ASSUME ChatInv, Insert
  PROVE  written' \in 0..MaxMessages /\ written' = written + 1 /\ rowIds' \subseteq Nat
BY ChatAssumption DEF Insert, OnAConnection, ChatInv, ChatTypes

LEMMA QuietSteps ==
  ASSUME ChatInv,
         \/ OthersWrite \/ SwitchInstance \/ LoadFails \/ LoadRejected \/ LoadElsewhereEnds
         \/ LateScrollEnds \/ PollBringsNothing \/ PollingStops
         \/ SendMessage \/ InsertMessage \/ SendEndsElsewhere \/ UNCHANGED chatVars
  PROVE  ChatInv'
<1> USE DEF table, page, scroll, timer
<1>1. /\ written \in 0..MaxMessages /\ rowIds \subseteq Nat /\ stray \subseteq Nat
      /\ more \in [1..MaxMessages -> Nat] /\ \A m \in 1..MaxMessages : more[m] <= more[m]
      /\ send.at = "inserted" => send.msg \in Nat
  BY DEF ChatInv, ChatTypes, PageTypes
<1>2. CASE OthersWrite
  BY <1>1, <1>2, InsertStep, QuietStep DEF OthersWrite, Follows
<1>3. CASE SwitchInstance
  <2>1. more' \in [1..MaxMessages -> Nat] /\ \A m \in 1..MaxMessages : more'[m] <= more[m]
    <3>1. more' \in [1..MaxMessages -> 0..Scrolls] /\ \A m \in 1..MaxMessages : more'[m] <= more[m]
      BY <1>3 DEF SwitchInstance
    <3>2. 0..Scrolls \subseteq Nat
      BY ChatAssumption
    <3> QED
      BY <3>1, <3>2
  <2> QED
    BY <1>1, <1>3, <2>1, QuietStep DEF SwitchInstance, Follows
<1>4. CASE LoadFails \/ LoadElsewhereEnds
  <2>1. /\ UNCHANGED <<written, rowIds, data, lost, crossed, more, send>> /\ stray' = {}
        /\ poll' = Old(poll)
    BY <1>4 DEF LoadFails, LoadElsewhereEnds, GoOnWithData, StartPolling
  <2>2. load' \in {load, NoRequest}
    BY <1>4 DEF LoadFails, LoadElsewhereEnds, LoadEnds
  <2> QED
    BY <1>1, <2>1, <2>2, QuietStep DEF Follows
<1>5. CASE LoadRejected
  BY <1>1, <1>5, QuietStep DEF LoadRejected, LoadEnds, Follows
<1>6. CASE LateScrollEnds
  BY <1>1, <1>6, QuietStep DEF LateScrollEnds, Follows
<1>7. CASE PollBringsNothing \/ PollingStops
  <2>1. /\ UNCHANGED <<written, rowIds, data, stray, lost, crossed, load, more, send>>
        /\ poll' = NoRequest
    BY <1>7 DEF PollBringsNothing, PollingStops, PollEnds
  <2> QED
    BY <1>1, <2>1, QuietStep DEF Follows
<1>8. CASE SendMessage
  BY <1>1, <1>8, QuietStep DEF SendMessage, Follows
<1>9. CASE InsertMessage
  BY <1>1, <1>9, InsertStep, QuietStep DEF InsertMessage, Follows
<1>10. CASE SendEndsElsewhere
  BY <1>1, <1>10, AtIdle, QuietStep DEF SendEndsElsewhere, Follows
<1>11. CASE UNCHANGED chatVars
  BY <1>1, <1>11, QuietStep DEF chatVars, Follows
<1> QED
  BY <1>2, <1>3, <1>4, <1>5, <1>6, <1>7, <1>8, <1>9, <1>10, <1>11

\* A request for older messages ends: there are no more of them than before.
LEMMA FewerRequests ==
  ASSUME ChatTypes, NEW before \in 1..MaxMessages, MoreEnds(before)
  PROVE  /\ more' \in [1..MaxMessages -> Nat]
         /\ \A m \in 1..MaxMessages : more'[m] <= more[m]
         /\ more'[before] = more[before] - 1
<1>1. more \in [1..MaxMessages -> Nat] /\ more[before] > 0 /\ more' = [more EXCEPT ![before] = @ - 1]
  BY DEF ChatTypes, MoreEnds
<1> QED
  BY <1>1

LEMMA MoreRejectedStep ==
  ASSUME ChatInv, NEW before \in 1..MaxMessages, MoreRejected(before) PROVE ChatInv'
<1> USE DEF table, page, timer
<1>1. /\ written \in 0..MaxMessages /\ rowIds \subseteq Nat /\ stray \subseteq Nat
      /\ send.at = "inserted" => send.msg \in Nat
  BY DEF ChatInv, ChatTypes, PageTypes
<1>2. more' \in [1..MaxMessages -> Nat] /\ \A m \in 1..MaxMessages : more'[m] <= more[m]
  BY FewerRequests DEF MoreRejected, ChatInv
<1> QED
  BY <1>1, <1>2, QuietStep DEF MoreRejected, Follows

LEMMA PollRepliesStep == ASSUME ChatInv, PollReplies PROVE ChatInv'
<1> USE DEF table, page, scroll
<1>1. /\ UNCHANGED <<written, rowIds, data, stray, lost, crossed, load, more, send>>
      /\ poll' = [at |-> "asked", after |-> data.lastMsgId, old |-> FALSE, stale |-> FALSE, known |-> {}]
  BY DEF PollReplies
<1>2. /\ written \in 0..MaxMessages /\ more \in [1..MaxMessages -> Nat]
      /\ data.lastMsgId \in Nat /\ data.earliestId \in Nat
  BY DEF ChatInv, ChatTypes, PageTypes
<1>3. PageTypes' /\ Bounded' /\ NoGap' /\ Once' /\ Scrolling'
  BY <1>1, <1>2, SamePage
<1>4. poll' \in AskedPoll
  BY <1>1, <1>2 DEF AskedPoll
<1>5. ChatTypes'
  BY <1>1, <1>3, <1>4 DEF ChatInv, ChatTypes
<1>6. Polling'
  BY <1>1, <1>2 DEF ChatInv, Bounded, Polling
<1> QED
  BY <1>3, <1>5, <1>6 DEF ChatInv

LEMMA GetRepliesStep == ASSUME ChatInv, GetReplies PROVE ChatInv'
<1> USE DEF table, page, scroll
<1>1. /\ UNCHANGED <<written, rowIds, data, stray, lost, crossed, load, more, send>>
      /\ poll.at = "asked"
  BY DEF GetReplies
<1>2. /\ written \in 0..MaxMessages /\ written \in Nat /\ more \in [1..MaxMessages -> Nat]
      /\ data.lastMsgId \in Nat /\ data.earliestId \in Nat
  BY ChatAssumption DEF ChatInv, ChatTypes, PageTypes
<1>3. PageTypes' /\ Bounded' /\ NoGap' /\ Once' /\ Scrolling'
  BY <1>1, <1>2, SamePage
<1>4. poll \in AskedPoll
  BY <1>1, AtIdle DEF ChatInv, ChatTypes, AnsweredPoll
<1>5. PICK after \in Nat : after = poll.after
  BY <1>4 DEF AskedPoll
<1> DEFINE rows == MessagesAfter(after)
<1>6. rows \subseteq 1..written /\ \A a \in rows : a > after /\ (after + 1)..a \subseteq rows
  BY <1>2, <1>5, ABatch
<1>7. poll' = [at |-> "answered", rows |-> rows, old |-> poll.old, stale |-> poll.stale,
               known |-> poll.known]
  BY <1>5 DEF GetReplies
<1> HIDE DEF rows
<1>8. rows \in SUBSET Nat
  BY <1>2, <1>6
<1>9. poll' \in AnsweredPoll /\ poll'.rows = rows /\ poll'.stale = poll.stale /\ poll'.at = "answered"
  BY <1>4, <1>7, <1>8 DEF AskedPoll, AnsweredPoll
<1>10. ChatTypes'
  BY <1>1, <1>3, <1>9 DEF ChatInv, ChatTypes
<1>11. Polling'
  <2>1. ~poll.stale => after <= data.lastMsgId /\ (~crossed => data.earliestId <= after)
    BY <1>1, <1>5 DEF ChatInv, Polling
  <2>2. ASSUME ~poll.stale, NEW a \in rows
        PROVE  (data.lastMsgId + 1)..a \subseteq rows /\ (~crossed => data.earliestId <= a)
    <3>1. a \in Nat /\ a > after /\ (after + 1)..a \subseteq rows /\ after <= data.lastMsgId
      BY <1>6, <1>8, <2>1, <2>2
    <3>2. (data.lastMsgId + 1)..a \subseteq (after + 1)..a
      BY <1>2, <3>1
    <3>3. ~crossed => data.earliestId <= a
      BY <1>2, <2>1, <2>2, <3>1
    <3> QED
      BY <3>1, <3>2, <3>3
  <2> QED
    BY <1>1, <1>6, <1>9, <2>2 DEF Polling
<1> QED
  BY <1>3, <1>10, <1>11 DEF ChatInv

\* What a poll brings for a page that is gone is on display only.
LEMMA TakeRepliesLateStep == ASSUME ChatInv, TakeRepliesLate PROVE ChatInv'
<1> USE DEF table, scroll
<1>1. /\ UNCHANGED <<written, rowIds, data, lost, crossed, load, more, send>> /\ poll' = NoRequest
      /\ poll.at = "answered" /\ stray' = stray \cup (poll.rows \ (poll.known \cup Ids(data.msgs)))
  BY DEF TakeRepliesLate, PollEnds
<1>2. poll.rows \subseteq Nat /\ stray \subseteq Nat
  BY <1>1, ChatAssumption DEF ChatInv, ChatTypes, PageTypes, Polling
<1>3. PageTypes'
  BY <1>1, <1>2 DEF ChatInv, ChatTypes, PageTypes
<1>4. ChatTypes'
  BY <1>1, <1>3 DEF ChatInv, ChatTypes
<1>5. Bounded' /\ NoGap'
  BY <1>1 DEF ChatInv, Bounded, NoGap, First, Shown
<1>6. Once'
  <2>1. Brought' = Brought /\ \A e \in Brought : e.id \in Ids(data.msgs)
    BY <1>1 DEF Brought, Ids
  <2>2. \A e \in Brought : e.id \notin stray => e.id \notin stray'
    BY <1>1, <2>1
  <2> QED
    BY <1>1, <2>1, <2>2 DEF ChatInv, Once
<1>7. Scrolling'
  BY <1>1 DEF ChatInv, Scrolling, Shown
<1>8. Polling'
  BY <1>1, AtIdle DEF Polling
<1> QED
  BY <1>4, <1>5, <1>6, <1>7, <1>8 DEF ChatInv

\* One more is under way, which begins where the page begins.
LEMMA ScrollStep == ASSUME ChatInv, Scroll PROVE ChatInv'
<1> USE DEF table, timer
<1>1. UNCHANGED <<written, rowIds, stray, lost, load, poll, send>> /\ ~data.fullyLoaded
  BY DEF Scroll
<1>2. written \in 0..MaxMessages /\ written \in Nat /\ more \in [1..MaxMessages -> Nat] /\ crossed \in BOOLEAN
  BY ChatAssumption DEF ChatInv, ChatTypes, PageTypes
<1>3. data.earliestId \in 1..written /\ data.lastMsgId \in Nat /\ data.earliestId <= data.lastMsgId
  BY <1>1 DEF ChatInv, ChatTypes, PageTypes, Bounded
<1>4. CASE data.earliestId <= 1
  <2>1. data' = [data EXCEPT !.fullyLoaded = TRUE] /\ UNCHANGED <<crossed, more>>
    BY <1>4 DEF Scroll
  <2>2. /\ data' \in [msgs : EntryBags, earliestId : Nat, fullyLoaded : BOOLEAN, lastMsgId : Nat]
        /\ data'.msgs = data.msgs /\ data'.earliestId = data.earliestId
        /\ data'.fullyLoaded = TRUE /\ data'.lastMsgId = data.lastMsgId
    BY <2>1 DEF ChatInv, ChatTypes, PageTypes
  <2>3. ChatTypes'
    BY <1>1, <2>1, <2>2 DEF ChatInv, ChatTypes, PageTypes
  <2>4. data.earliestId = 1
    BY <1>2, <1>3, <1>4
  <2>5. Bounded' /\ NoGap' /\ Once'
    BY <1>1, <2>1, <2>2, <2>4 DEF ChatInv, Bounded, NoGap, First, Shown, Once, Brought
  <2>6. Polling' /\ Scrolling'
    BY <1>1, <2>1, <2>2 DEF ChatInv, Polling, Scrolling, Shown
  <2> QED
    BY <2>3, <2>5, <2>6 DEF ChatInv
<1>5. CASE ~(data.earliestId <= 1)
  <2> DEFINE E == data.earliestId
  <2>1. /\ UNCHANGED data /\ more' = [more EXCEPT ![E] = @ + 1]
        /\ crossed' = (crossed \/ more # NoMore)
    BY <1>5 DEF Scroll
  <2>2. E \in 2..written /\ E \in 1..MaxMessages
    BY <1>2, <1>3, <1>5, ChatAssumption
  <2>3. /\ more' \in [1..MaxMessages -> Nat] /\ more'[E] = more[E] + 1
        /\ \A m \in 1..MaxMessages : m # E => more'[m] = more[m]
    BY <1>2, <2>1, <2>2
  <2>4. ChatTypes'
    BY <1>1, <1>2, <2>1, <2>3 DEF ChatInv, ChatTypes, PageTypes
  <2>5. ~crossed' => ~crossed /\ \A m \in 1..MaxMessages : more[m] = 0
    BY <2>1 DEF NoMore
  <2>6. Bounded' /\ NoGap' /\ Once'
    BY <1>1, <2>1, <2>5 DEF ChatInv, Bounded, NoGap, First, Shown, Once, Brought
  <2>7. Polling'
    BY <1>1, <2>1, <2>5 DEF ChatInv, Polling
  <2>8. Scrolling'
    <3> SUFFICES ASSUME NEW m \in 1..MaxMessages, more'[m] > 0
                 PROVE  /\ m \in 2..written /\ m <= data.lastMsgId
                        /\ m..data.lastMsgId \subseteq Shown \cup lost
                        /\ ~crossed' => m = E /\ more'[m] = 1
      BY <1>1, <2>1 DEF Scrolling, Shown
    <3>1. CASE m = E
      <4>1. E..data.lastMsgId \subseteq Shown \cup lost
        BY <1>1 DEF ChatInv, NoGap, First
      <4>2. ~crossed' => more'[m] = 1
        BY <2>3, <2>5, <3>1
      <4> QED
        BY <1>3, <2>2, <3>1, <4>1, <4>2
    <3>2. CASE m # E
      <4>1. more[m] > 0
        BY <2>3, <3>2
      <4>2. crossed'
        BY <2>5, <4>1
      <4> QED
        BY <4>1, <4>2 DEF ChatInv, Scrolling
    <3> QED
      BY <3>1, <3>2
  <2> QED
    BY <2>4, <2>6, <2>7, <2>8 DEF ChatInv
<1> QED
  BY <1>4, <1>5

\* The page gives up what comes before its earliest message.
LEMMA MoreFailsStep ==
  ASSUME ChatInv, NEW before \in 1..MaxMessages, MoreFails(before) PROVE ChatInv'
<1> USE DEF table, timer
<1>1. UNCHANGED <<written, rowIds, stray, crossed, load, poll, send>>
  BY DEF MoreFails
<1>2. PICK E \in Nat, L \in Nat : E = data.earliestId /\ L = data.lastMsgId
  BY DEF ChatInv, ChatTypes, PageTypes
<1>3. /\ more' \in [1..MaxMessages -> Nat] /\ more \in [1..MaxMessages -> Nat]
      /\ \A m \in 1..MaxMessages : more'[m] <= more[m]
  BY FewerRequests DEF MoreFails, ChatInv, ChatTypes
<1>4. /\ data' \in [msgs : EntryBags, earliestId : Nat, fullyLoaded : BOOLEAN, lastMsgId : Nat]
      /\ data'.msgs = data.msgs /\ data'.earliestId = E
      /\ data'.fullyLoaded = TRUE /\ data'.lastMsgId = L
  BY <1>2 DEF MoreFails, ChatInv, ChatTypes, PageTypes
<1>5. lost' = lost \cup 1..(E - 1) /\ lost \subseteq Nat
  BY <1>2 DEF MoreFails, ChatInv, ChatTypes, PageTypes
<1>6. ChatTypes'
  <2>1. \A x \in 1..(E - 1) : x \in Nat
    BY <1>2
  <2>3. lost' \subseteq Nat
    BY <1>5, <2>1
  <2>2. PageTypes'
    BY <1>1, <1>4, <2>3 DEF ChatInv, ChatTypes, PageTypes
  <2> QED
    BY <1>1, <1>3, <2>2 DEF ChatInv, ChatTypes
<1>7. Bounded' /\ Once'
  BY <1>1, <1>2, <1>4 DEF ChatInv, Bounded, Once, Brought
<1>8. Shown' = Shown
  BY <1>4 DEF Shown
<1>9. NoGap'
  <2>1. First..L \subseteq Shown \cup lost /\ First \in {1, E}
    BY <1>2 DEF ChatInv, NoGap, First
  <2>2. First' = 1
    BY <1>4 DEF First
  <2>3. \A x \in 1..L : x \in First..L \/ x \in 1..(E - 1)
    BY <1>2, <2>1
  <2> QED
    BY <1>4, <1>5, <1>8, <2>1, <2>2, <2>3 DEF NoGap
<1>10. Polling'
  BY <1>1, <1>2, <1>4 DEF ChatInv, Polling
<1>11. Scrolling'
  <2> SUFFICES ASSUME NEW m \in 1..MaxMessages, more'[m] > 0
               PROVE  /\ m \in 2..written /\ m <= L /\ m..L \subseteq (Shown \cup lost)'
                      /\ ~crossed => m = E /\ more'[m] = 1
    BY <1>1, <1>4 DEF Scrolling
  <2>1. more[m] \in Nat /\ more'[m] \in Nat /\ more'[m] <= more[m]
    BY <1>3
  <2>2. /\ m \in 2..written /\ m <= L /\ m..L \subseteq Shown \cup lost
        /\ ~crossed => m = E /\ more[m] = 1
    BY <1>2, <2>1 DEF ChatInv, Scrolling
  <2> QED
    BY <1>5, <1>8, <2>1, <2>2
<1> QED
  BY <1>6, <1>7, <1>9, <1>10, <1>11 DEF ChatInv

\* What the engine answers is an unbroken stretch, and what the page leaves out
\* before it is what the failed count has not told it of.
LEMMA AnAnswer ==
  ASSUME NEW before \in Nat, written \in Nat, NEW res \in GetMessages(before)
  PROVE  /\ res.rows \subseteq 1..written /\ \A a \in res.rows : a < before
         /\ \A a \in res.rows : \A x \in 1..written : a <= x /\ x < before => x \in res.rows
         /\ before - 1 \in 1..written => before - 1 \in res.rows
         /\ res.hasMore \in BOOLEAN /\ (res.hasMore => res.rows # {})
         /\ Uncounted(res.rows, res.hasMore) \subseteq Nat
         /\ res.rows # {} /\ ~res.hasMore => 1..(Min(res.rows) - 1) \subseteq Uncounted(res.rows, res.hasMore)
<1> DEFINE rows == RowsBefore(before)
<1>1. res.rows = rows /\ res.hasMore \in {HasMore(rows), FALSE}
  BY DEF GetMessages
<1>2. /\ rows \subseteq 1..written /\ \A a \in rows : a < before
      /\ \A a \in rows : \A x \in 1..written : a <= x /\ x < before => x \in rows
      /\ before - 1 \in 1..written => before - 1 \in rows
  BY APage
<1>3. HasMore(rows) \in BOOLEAN /\ (HasMore(rows) => rows # {}) /\ (~HasMore(rows) /\ rows # {} => 1 \in rows)
  BY <1>2, MoreThanAPage
<1> HIDE DEF rows
<1>4. rows # {} => Min(rows) \in rows /\ Min(rows) \in Nat /\ \A y \in rows : Min(rows) <= y
  <2>1. rows \subseteq Nat
    BY <1>2
  <2>2. rows # {} => Min(rows) \in rows /\ \A y \in rows : Min(rows) <= y
    BY <2>1, MinIn
  <2> QED
    BY <2>1, <2>2
<1>5. HasMore(rows) => Uncounted(rows, FALSE) = 1..(Min(rows) - 1)
  BY <1>3 DEF Uncounted
<1>6. res.hasMore = HasMore(rows) => Uncounted(rows, res.hasMore) = {}
  BY DEF Uncounted
<1>7. Uncounted(rows, res.hasMore) \subseteq Nat
  <2>1. CASE res.hasMore = HasMore(rows)
    BY <1>6, <2>1
  <2>2. CASE res.hasMore # HasMore(rows)
    <3>1. HasMore(rows) /\ res.hasMore = FALSE /\ rows # {}
      BY <1>1, <1>3, <2>2
    <3>2. \A x \in 1..(Min(rows) - 1) : x \in Nat
      BY <1>4, <3>1
    <3> QED
      BY <1>5, <3>1, <3>2
  <2> QED
    BY <2>1, <2>2
<1>8. ASSUME rows # {}, ~res.hasMore PROVE 1..(Min(rows) - 1) \subseteq Uncounted(rows, res.hasMore)
  <2>1. CASE HasMore(rows)
    <3>1. res.hasMore = FALSE
      BY <1>1, <1>3, <1>8
    <3> QED
      BY <1>5, <2>1, <3>1
  <2>2. CASE ~HasMore(rows)
    <3>1. Min(rows) = 1
      BY <1>2, <1>3, <1>4, <1>8, <2>2
    <3> QED
      BY <3>1
  <2> QED
    BY <2>1, <2>2
<1> QED
  BY <1>1, <1>2, <1>3, <1>7, <1>8

\* A poll that is under way when the page is replaced belongs to the old one.
LEMMA LeftBehindIsStale ==
  ASSUME ChatInv, NEW p, p = Old(LeftBehind(poll))
  PROVE  /\ p \in {NoRequest, PollElsewhere} \cup AskedPoll \cup AnsweredPoll
         /\ p.at \in {"asked", "answered"} => p.stale
         /\ p.at = "answered" => p.rows \subseteq 1..written
<1>1. \A S \in SUBSET Nat : {i \in S : i > poll.after} \in SUBSET Nat /\ S \cap poll.rows \in SUBSET Nat
  OBVIOUS
<1>2. Ids(data.msgs) \in SUBSET Nat
  <2>1. BagToSet(data.msgs) \subseteq Entry
    BY EntryIn DEF ChatInv, ChatTypes, PageTypes
  <2> QED
    BY <2>1 DEF Ids, Entry
<1>3. CASE poll \in AskedPoll
  <2> DEFINE q == LeftBehind(poll)
  <2>1. q = (IF ~poll.stale
               THEN [poll EXCEPT !.stale = TRUE, !.known = {i \in Ids(data.msgs) : i > poll.after}] ELSE poll)
    BY <1>3 DEF LeftBehind, AskedPoll
  <2>2. PICK known \in SUBSET Nat : known = {i \in Ids(data.msgs) : i > poll.after}
    BY <1>1, <1>2
  <2>3. q \in AskedPoll /\ q.at = "asked" /\ q.stale
    <3>1. CASE ~poll.stale
      <4>1. q = [poll EXCEPT !.stale = TRUE, !.known = known]
        BY <2>1, <2>2, <3>1
      <4> QED
        BY <1>3, <4>1 DEF AskedPoll
    <3>2. CASE poll.stale
      <4>1. q = poll
        BY <2>1, <3>2
      <4> QED
        BY <1>3, <3>2, <4>1 DEF AskedPoll
    <3>3. poll.stale \in BOOLEAN
      BY <1>3 DEF AskedPoll
    <3> QED
      BY <3>1, <3>2, <3>3
  <2> HIDE DEF q
  <2>4. p = [q EXCEPT !.old = TRUE]
    BY <2>3 DEF Old, q
  <2> QED
    BY <2>3, <2>4 DEF AskedPoll
<1>4. CASE poll \in AnsweredPoll
  <2> DEFINE q == LeftBehind(poll)
  <2>1. q = (IF ~poll.stale
               THEN [poll EXCEPT !.stale = TRUE, !.known = Ids(data.msgs) \cap poll.rows] ELSE poll)
    BY <1>4 DEF LeftBehind, AnsweredPoll
  <2>2. PICK known \in SUBSET Nat : known = Ids(data.msgs) \cap poll.rows
    BY <1>1, <1>2
  <2>3. q \in AnsweredPoll /\ q.at = "answered" /\ q.stale /\ q.rows = poll.rows
    <3>1. CASE ~poll.stale
      <4>1. q = [poll EXCEPT !.stale = TRUE, !.known = known]
        BY <2>1, <2>2, <3>1
      <4> QED
        BY <1>4, <4>1 DEF AnsweredPoll
    <3>2. CASE poll.stale
      <4>1. q = poll
        BY <2>1, <3>2
      <4> QED
        BY <1>4, <3>2, <4>1 DEF AnsweredPoll
    <3>3. poll.stale \in BOOLEAN
      BY <1>4 DEF AnsweredPoll
    <3> QED
      BY <3>1, <3>2, <3>3
  <2>4. poll.rows \subseteq 1..written
    BY <1>4 DEF ChatInv, Polling, AnsweredPoll
  <2> HIDE DEF q
  <2>5. p = [q EXCEPT !.old = TRUE]
    BY <2>3 DEF Old, q
  <2>6. p \in AnsweredPoll /\ p.at = "answered" /\ p.stale /\ p.rows = poll.rows
    BY <2>3, <2>5 DEF AnsweredPoll
  <2> QED
    BY <2>4, <2>6
<1>5. CASE poll \in {NoRequest, PollElsewhere}
  <2>1. poll.at \notin {"asked", "answered"}
    BY <1>5, AtIdle
  <2>2. LeftBehind(poll) = poll
    BY <2>1 DEF LeftBehind
  <2>3. Old(poll) = poll
    BY <2>1 DEF Old
  <2> QED
    BY <1>5, <2>1, <2>2, <2>3
<1> QED
  BY <1>3, <1>4, <1>5 DEF ChatInv, ChatTypes

LEMMA LoadHistoryStep == ASSUME ChatInv, LoadHistory PROVE ChatInv'
<1> USE DEF table
<1>1. /\ UNCHANGED <<written, rowIds, send>> /\ load # NoRequest /\ load' \in {load, NoRequest}
      /\ more' = NoMore /\ stray' = {} /\ crossed' = FALSE /\ poll' = Old(LeftBehind(poll))
  BY DEF LoadHistory, LoadEnds
<1>2. written \in Nat /\ written \in 0..MaxMessages
  BY ChatAssumption DEF ChatInv, ChatTypes
<1>3. PICK upTo \in load.since..written : \E res \in GetMessages(upTo + 1) :
        /\ data' = [msgs |-> Entries(res.rows, "page"),
                    earliestId |-> IF res.rows = {} THEN 0 ELSE Min(res.rows),
                    fullyLoaded |-> ~res.hasMore,
                    lastMsgId |-> IF res.rows = {} THEN 0 ELSE Max(res.rows)]
        /\ lost' = Uncounted(res.rows, res.hasMore)
  BY DEF LoadHistory
<1>4. upTo + 1 \in Nat
  BY <1>1, <1>2 DEF ChatInv, ChatTypes
<1>5. PICK res \in GetMessages(upTo + 1) :
        /\ data' = [msgs |-> Entries(res.rows, "page"),
                    earliestId |-> IF res.rows = {} THEN 0 ELSE Min(res.rows),
                    fullyLoaded |-> ~res.hasMore,
                    lastMsgId |-> IF res.rows = {} THEN 0 ELSE Max(res.rows)]
        /\ lost' = Uncounted(res.rows, res.hasMore)
  BY <1>3
<1>6. PICK rows \in SUBSET (1..written), hasMore \in BOOLEAN :
        /\ rows = res.rows /\ hasMore = res.hasMore
        /\ \A a \in rows : a < upTo + 1
        /\ \A a \in rows : \A x \in 1..written : a <= x /\ x < upTo + 1 => x \in rows
        /\ hasMore => rows # {}
        /\ Uncounted(rows, hasMore) \subseteq Nat
        /\ rows # {} /\ ~hasMore => 1..(Min(rows) - 1) \subseteq Uncounted(rows, hasMore)
  BY <1>2, <1>4, AnAnswer
<1>7. PICK B \in EntryBags :
        /\ B = Entries(rows, "page")
        /\ \A e \in BagToSet(B) : e.id \in rows /\ e.msg = e.id /\ e.by = "page" /\ B[e] = 1
                                  /\ e = [id |-> e.id, msg |-> e.id, by |-> "page"]
        /\ \A m \in rows : \E e \in BagToSet(B) : e.msg = m
  <2>1. rows \subseteq Nat
    BY <1>2
  <2> QED
    BY <2>1, EntriesOf
<1>8. PICK first \in Nat, last \in Nat :
        /\ first = (IF rows = {} THEN 0 ELSE Min(rows)) /\ last = (IF rows = {} THEN 0 ELSE Max(rows))
        /\ \A y \in rows : first <= y /\ y <= last
        /\ rows # {} => first \in rows /\ last \in rows
        /\ rows = {} => first = 0 /\ last = 0
  <2>1. CASE rows = {}
    BY <2>1
  <2>2. CASE rows # {}
    <3>1. rows \subseteq Nat /\ rows \subseteq 0..written
      BY <1>2
    <3>2. Min(rows) \in rows /\ \A y \in rows : Min(rows) <= y
      BY <2>2, <3>1, MinIn
    <3>3. Max(rows) \in rows /\ \A y \in rows : y <= Max(rows)
      BY <1>2, <2>2, <3>1, MaxIn
    <3> QED
      BY <2>2, <3>1, <3>2, <3>3
  <2> QED
    BY <2>1, <2>2
<1>9. data' = [msgs |-> B, earliestId |-> first, fullyLoaded |-> ~hasMore, lastMsgId |-> last]
  BY <1>5, <1>6, <1>7, <1>8
<1>10. /\ data' \in [msgs : EntryBags, earliestId : Nat, fullyLoaded : BOOLEAN, lastMsgId : Nat]
      /\ data'.msgs = B /\ data'.earliestId = first
      /\ data'.fullyLoaded = ~hasMore /\ data'.lastMsgId = last
  BY <1>9
<1>11. lost' = Uncounted(rows, hasMore)
  BY <1>5, <1>6
<1>12. /\ poll' \in {NoRequest, PollElsewhere} \cup AskedPoll \cup AnsweredPoll
       /\ poll'.at \in {"asked", "answered"} => poll'.stale
       /\ poll'.at = "answered" => poll'.rows \subseteq 1..written
  BY <1>1, LeftBehindIsStale
<1>13. ChatTypes'
  <2>1. PageTypes'
    BY <1>1, <1>6, <1>10, <1>11 DEF PageTypes
  <2>2. more' \in [1..MaxMessages -> Nat]
    BY <1>1 DEF NoMore
  <2> QED
    BY <1>1, <1>12, <2>1, <2>2 DEF ChatInv, ChatTypes
<1>14. Bounded'
  BY <1>1, <1>2, <1>6, <1>7, <1>8, <1>10 DEF Bounded
<1>15. NoGap'
  <2>1. rows \subseteq Shown'
    BY <1>7, <1>10 DEF Shown
  <2>2. First' = (IF hasMore THEN first ELSE 1)
    BY <1>10 DEF First
  <2>3. CASE rows = {}
    BY <1>6, <1>8, <1>10, <2>2, <2>3 DEF NoGap
  <2>4. CASE rows # {}
    <3>1. first \in rows /\ last \in rows /\ first = Min(rows)
      BY <1>8, <2>4
    <3>2. \A x \in first..last : x \in rows
      BY <1>2, <1>4, <1>6, <3>1
    <3>3. ~hasMore => 1..(first - 1) \subseteq lost'
      BY <1>6, <1>11, <2>4, <3>1
    <3>4. \A x \in First'..last : x \in first..last \/ (~hasMore /\ x \in 1..(first - 1))
      BY <2>2
    <3> QED
      BY <1>10, <2>1, <3>2, <3>3, <3>4 DEF NoGap
  <2> QED
    BY <2>3, <2>4
<1>16. Once'
  BY <1>1, <1>7, <1>8, <1>10 DEF Once, Brought
<1>17. Scrolling'
  BY <1>1 DEF Scrolling, NoMore
<1>18. Polling'
  BY <1>1, <1>12 DEF Polling
<1> QED
  BY <1>13, <1>14, <1>15, <1>16, <1>17, <1>18 DEF ChatInv

LEMMA LoadMoreHistoryStep ==
  ASSUME ChatInv, NEW before \in 1..MaxMessages, LoadMoreHistory(before) PROVE ChatInv'
<1> USE DEF table, timer
<1>1. UNCHANGED <<written, rowIds, crossed, load, poll, send>> /\ stray' = {} /\ MoreEnds(before)
  BY DEF LoadMoreHistory
<1>2. written \in Nat /\ written \in 0..MaxMessages
  BY ChatAssumption DEF ChatInv, ChatTypes
<1>3. PICK E \in Nat, L \in Nat, D \in EntryBags : E = data.earliestId /\ L = data.lastMsgId /\ D = data.msgs
  BY DEF ChatInv, ChatTypes, PageTypes
<1>4. /\ more' \in [1..MaxMessages -> Nat] /\ more \in [1..MaxMessages -> Nat] /\ more[before] > 0
      /\ \A m \in 1..MaxMessages : more'[m] <= more[m]
      /\ more'[before] = more[before] - 1
  BY <1>1, FewerRequests DEF MoreEnds, ChatInv, ChatTypes
<1>5. /\ before \in 2..written /\ before \in Nat /\ before <= L /\ before..L \subseteq Shown \cup lost
      /\ ~crossed => before = E
  BY <1>2, <1>3, <1>4 DEF ChatInv, Scrolling
<1>6. PICK res \in GetMessages(before) :
        /\ data' = [data EXCEPT !.msgs = Entries(res.rows, "page") (+) @,
                               !.earliestId = Min(res.rows), !.fullyLoaded = ~res.hasMore]
        /\ lost' = lost \cup Uncounted(res.rows, res.hasMore)
  BY Zenon DEF LoadMoreHistory
<1>7. PICK rows \in SUBSET (1..written), hasMore \in BOOLEAN :
        /\ rows = res.rows /\ hasMore = res.hasMore
        /\ \A a \in rows : a < before
        /\ \A a \in rows : \A x \in 1..written : a <= x /\ x < before => x \in rows
        /\ before - 1 \in 1..written => before - 1 \in rows
        /\ Uncounted(rows, hasMore) \subseteq Nat
        /\ rows # {} /\ ~hasMore => 1..(Min(rows) - 1) \subseteq Uncounted(rows, hasMore)
  BY <1>2, <1>5, AnAnswer
<1>8. rows # {} /\ rows \subseteq Nat
  <2>1. before - 1 \in rows
    BY <1>2, <1>5, <1>7
  <2> QED
    BY <1>2, <2>1
<1>9. PICK B \in EntryBags :
        /\ B = Entries(rows, "page")
        /\ \A e \in BagToSet(B) : e.id \in rows /\ e.msg = e.id /\ e.by = "page" /\ B[e] = 1
                                  /\ e = [id |-> e.id, msg |-> e.id, by |-> "page"]
        /\ \A m \in rows : \E e \in BagToSet(B) : e.msg = m
  BY <1>8, EntriesOf
<1>10. PICK first \in rows : first = Min(rows) /\ \A y \in rows : first <= y
  BY <1>8, MinIn
<1>11. PICK C \in EntryBags :
        /\ C = B (+) D /\ BagToSet(C) = BagToSet(B) \cup BagToSet(D)
        /\ \A e \in BagToSet(B) \ BagToSet(D) : C[e] = B[e]
        /\ \A e \in BagToSet(D) \ BagToSet(B) : C[e] = D[e]
  BY Together
<1>12. data' = [data EXCEPT !.msgs = C, !.earliestId = first, !.fullyLoaded = ~hasMore]
  BY <1>3, <1>6, <1>7, <1>9, <1>10, <1>11
<1>13. first \in Nat /\ first \in 1..written /\ first < before
  BY <1>2, <1>7, <1>10
<1>14. /\ data' \in [msgs : EntryBags, earliestId : Nat, fullyLoaded : BOOLEAN, lastMsgId : Nat]
       /\ data'.msgs = C /\ data'.earliestId = first
       /\ data'.fullyLoaded = ~hasMore /\ data'.lastMsgId = L
  BY <1>3, <1>12, <1>13 DEF ChatInv, ChatTypes, PageTypes
<1>15. lost' = lost \cup Uncounted(rows, hasMore) /\ lost \subseteq Nat
  BY <1>6, <1>7 DEF ChatInv, ChatTypes, PageTypes
<1>16. /\ E <= L
       /\ \A e \in BagToSet(D) : e.id <= L
       /\ ~crossed => \A e \in BagToSet(D) : e.by # "send" => e.msg = e.id /\ e.id >= E /\ D[e] = 1
       /\ ~crossed => \A e, f \in BagToSet(D) : e.by # "send" /\ f.by # "send" /\ e.id = f.id => e = f
  BY <1>3 DEF ChatInv, Bounded, Once, Brought
<1>17. \A e \in BagToSet(B) \cup BagToSet(D) : e.id \in Nat
  BY <1>2, <1>9, EntryIn DEF Entry
<1>18. ChatTypes'
  <2>1. PageTypes'
    BY <1>1, <1>7, <1>14, <1>15 DEF ChatInv, ChatTypes, PageTypes
  <2> QED
    BY <1>1, <1>4, <2>1 DEF ChatInv, ChatTypes
<1>19. Bounded'
  <2>1. \A e \in BagToSet(B) : e.id <= L
    BY <1>2, <1>3, <1>5, <1>7, <1>8, <1>9
  <2>2. first <= L
    BY <1>3, <1>5, <1>13
  <2> QED
    BY <1>1, <1>2, <1>11, <1>13, <1>14, <1>16, <2>1, <2>2 DEF Bounded
<1>20. Shown \subseteq Shown' /\ rows \subseteq Shown'
  BY <1>3, <1>9, <1>11, <1>14 DEF Shown
<1>21. NoGap'
  <2>1. First' = (IF hasMore THEN first ELSE 1)
    BY <1>14 DEF First
  <2>2. \A x \in first..(before - 1) : x \in rows
    BY <1>2, <1>5, <1>7, <1>10, <1>13
  <2>3. ~hasMore => 1..(first - 1) \subseteq lost'
    BY <1>7, <1>8, <1>10, <1>15
  <2>4. \A x \in first..L : x \in first..(before - 1) \/ x \in before..L
    BY <1>3, <1>5, <1>13
  <2>5. \A x \in 1..L : x \in 1..(first - 1) \/ x \in first..L
    BY <1>3, <1>13
  <2>6. \A x \in first..L : x \in (Shown \cup lost)'
    BY <1>5, <1>15, <1>20, <2>2, <2>4
  <2>7. CASE hasMore
    <3>1. First' = first
      BY <2>1, <2>7
    <3> QED
      BY <1>14, <2>6, <3>1 DEF NoGap
  <2>8. CASE ~hasMore
    <3>1. First' = 1
      BY <2>1, <2>8
    <3>2. \A x \in 1..L : x \in (Shown \cup lost)'
      BY <2>3, <2>5, <2>6, <2>8
    <3> QED
      BY <1>14, <3>1, <3>2 DEF NoGap
  <2> QED
    BY <2>7, <2>8
<1>22. Once'
  <2> SUFFICES ASSUME ~crossed
               PROVE  /\ \A e \in Brought' : e.msg = e.id /\ e.id >= first /\ C[e] = 1
                      /\ \A e, f \in Brought' : e.id = f.id => e = f
    BY <1>1, <1>14 DEF Once
  <2>1. \A e \in BagToSet(B) : e.id < E /\ first <= e.id
    BY <1>5, <1>7, <1>9, <1>10
  <2>2. \A e \in BagToSet(D), f \in BagToSet(B) : e.by # "send" => e.id # f.id /\ e # f
    BY <1>3, <1>16, <1>17, <2>1
  <2>3. \A e \in BagToSet(D) : e.by # "send" => e \notin BagToSet(B) /\ C[e] = 1 /\ e.id >= first
    <3>1. first <= E
      BY <1>3, <1>5, <1>13
    <3> QED
      BY <1>3, <1>11, <1>13, <1>16, <1>17, <2>2, <3>1
  <2>4. \A e \in BagToSet(B) : e \notin BagToSet(D) /\ C[e] = 1
    BY <1>9, <1>11, <2>2
  <2>5. \A e, f \in BagToSet(B) : e.id = f.id => e = f
    BY <1>9
  <2>6. Brought' = {e \in BagToSet(B) \cup BagToSet(D) : e.by # "send"}
    BY <1>11, <1>14 DEF Brought
  <2>7. \A e \in Brought' : e.msg = e.id /\ e.id >= first /\ C[e] = 1
    BY <1>9, <1>16, <2>1, <2>3, <2>4, <2>6
  <2>8. \A e, f \in Brought' : e.id = f.id => e = f
    BY <1>16, <2>2, <2>5, <2>6
  <2> QED
    BY <2>7, <2>8
<1>23. Scrolling'
  <2> SUFFICES ASSUME NEW m \in 1..MaxMessages, more'[m] > 0
               PROVE  /\ m \in 2..written /\ m <= L /\ m..L \subseteq (Shown \cup lost)'
                      /\ ~crossed => m = first /\ more'[m] = 1
    BY <1>1, <1>14 DEF Scrolling
  <2>1. more[m] \in Nat /\ more'[m] \in Nat /\ more'[m] <= more[m] /\ more[m] > 0
    BY <1>4
  <2>2. /\ m \in 2..written /\ m <= L /\ m..L \subseteq Shown \cup lost
        /\ ~crossed => m = E /\ more[m] = 1
    BY <1>3, <2>1 DEF ChatInv, Scrolling
  <2>3. ~crossed => FALSE
    BY <1>4, <1>5, <2>1, <2>2
  <2> QED
    BY <1>15, <1>20, <2>2, <2>3
<1>24. Polling'
  <2>1. ~crossed => first <= E
    BY <1>3, <1>5, <1>13
  <2>2. poll.at = "asked" /\ ~poll.stale => poll.after <= L /\ (~crossed => first <= poll.after)
    <3> SUFFICES ASSUME poll.at = "asked", ~poll.stale
                 PROVE  poll.after <= L /\ (~crossed => first <= poll.after)
      OBVIOUS
    <3>1. poll \in AskedPoll
      BY AtIdle DEF ChatInv, ChatTypes, AnsweredPoll
    <3>2. poll.after \in Nat /\ poll.after <= L /\ (~crossed => E <= poll.after)
      BY <1>3, <3>1 DEF ChatInv, Polling, AskedPoll
    <3> QED
      BY <1>3, <1>13, <2>1, <3>2
  <2>3. poll.at = "answered" /\ ~poll.stale => \A a \in poll.rows :
          (L + 1)..a \subseteq poll.rows /\ (~crossed => first <= a)
    <3> SUFFICES ASSUME poll.at = "answered", ~poll.stale, NEW a \in poll.rows
                 PROVE  (L + 1)..a \subseteq poll.rows /\ (~crossed => first <= a)
      OBVIOUS
    <3>1. a \in 1..written /\ (L + 1)..a \subseteq poll.rows /\ (~crossed => E <= a)
      BY <1>3 DEF ChatInv, Polling
    <3> QED
      BY <1>2, <1>3, <1>13, <2>1, <3>1
  <2> QED
    BY <1>1, <1>14, <2>2, <2>3 DEF ChatInv, Polling
<1> QED
  BY <1>18, <1>19, <1>21, <1>22, <1>23, <1>24 DEF ChatInv

LEMMA TakeRepliesStep == ASSUME ChatInv, TakeReplies PROVE ChatInv'
<1> USE DEF table, scroll
<1>1. /\ UNCHANGED <<written, rowIds, stray, crossed, load, more, send>> /\ poll' = NoRequest
      /\ poll.at = "answered" /\ ~poll.stale
  BY DEF TakeReplies, PollEnds
<1>2. written \in Nat /\ written \in 0..MaxMessages
  BY ChatAssumption DEF ChatInv, ChatTypes
<1>3. PICK E \in Nat, L \in Nat, D \in EntryBags : E = data.earliestId /\ L = data.lastMsgId /\ D = data.msgs
  BY DEF ChatInv, ChatTypes, PageTypes
<1>4. PICK rows \in SUBSET (1..written) :
        rows = poll.rows /\ \A a \in rows : (L + 1)..a \subseteq rows /\ (~crossed => E <= a)
  BY <1>1, <1>3 DEF ChatInv, Polling
<1>5. PICK new \in SUBSET (1..written) : new = rows \ (Ids(D) \cup stray)
  OBVIOUS
<1>6. PICK B \in EntryBags :
        /\ B = Entries(new, "poll")
        /\ \A e \in BagToSet(B) : e.id \in new /\ e.msg = e.id /\ e.by = "poll" /\ B[e] = 1
                                  /\ e = [id |-> e.id, msg |-> e.id, by |-> "poll"]
        /\ \A m \in new : \E e \in BagToSet(B) : e.msg = m
  <2>1. new \subseteq Nat
    BY <1>2
  <2> QED
    BY <2>1, EntriesOf
<1>7. PICK last \in new \cup {L} : last = Max(new \cup {L}) /\ L <= last /\ \A y \in new : y <= last
  <2> DEFINE S == new \cup {L}
  <2>1. PICK n \in Nat : S \subseteq 0..n
    <3>1. S \subseteq 0..(written + L) /\ written + L \in Nat
      BY <1>2
    <3> QED
      BY <3>1
  <2>2. Max(S) \in S /\ \A y \in S : y <= Max(S)
    BY <2>1, MaxIn
  <2> QED
    BY <2>2
<1>8. PICK C \in EntryBags :
        /\ C = D (+) B /\ BagToSet(C) = BagToSet(B) \cup BagToSet(D)
        /\ \A e \in BagToSet(B) \ BagToSet(D) : C[e] = B[e]
        /\ \A e \in BagToSet(D) \ BagToSet(B) : C[e] = D[e]
  BY Together
<1>9. data' = [data EXCEPT !.msgs = C, !.lastMsgId = last]
  <2>1. data' = [data EXCEPT !.msgs = D (+) Entries(new, "poll"), !.lastMsgId = Max(new \cup {L})]
    BY <1>3, <1>4, <1>5 DEF TakeReplies
  <2> QED
    BY <1>6, <1>7, <1>8, <2>1
<1>10. last \in Nat
  BY <1>2, <1>7
<1>11. /\ data' \in [msgs : EntryBags, earliestId : Nat, fullyLoaded : BOOLEAN, lastMsgId : Nat]
       /\ data'.msgs = C /\ data'.earliestId = E
       /\ data'.fullyLoaded = data.fullyLoaded /\ data'.lastMsgId = last
  BY <1>3, <1>9, <1>10 DEF ChatInv, ChatTypes, PageTypes
<1>12. lost' = lost \cup {m \in rows \cap stray : m <= last} /\ lost \subseteq Nat
  BY <1>4, <1>11 DEF TakeReplies, ChatInv, ChatTypes, PageTypes
<1>13. /\ E <= L
       /\ \A e \in BagToSet(D) : e.id <= L
       /\ First..L \subseteq Shown \cup lost
       /\ ~crossed => \A e \in BagToSet(D) : e.by # "send" =>
                         e.msg = e.id /\ e.id >= E /\ D[e] = 1 /\ e.id \notin stray
       /\ ~crossed => \A e, f \in BagToSet(D) : e.by # "send" /\ f.by # "send" /\ e.id = f.id => e = f
  BY <1>3 DEF ChatInv, Bounded, NoGap, Once, Brought
<1>14. \A e \in BagToSet(B) \cup BagToSet(D) : e.id \in Nat
  BY <1>2, <1>6, EntryIn DEF Entry
<1>15. ChatTypes'
  <2>1. lost' \subseteq Nat
    <3>1. \A x \in 1..written : x \in Nat
      BY <1>2
    <3>2. {m \in rows \cap stray : m <= last} \subseteq 1..written
      OBVIOUS
    <3> QED
      BY <1>12, <3>1, <3>2
  <2>2. PageTypes'
    BY <1>1, <1>11, <2>1 DEF ChatInv, ChatTypes, PageTypes
  <2> QED
    BY <1>1, <2>2 DEF ChatInv, ChatTypes
<1>16. Bounded'
  <2>1. \A e \in BagToSet(B) : e.id <= last
    BY <1>6, <1>7
  <2>2. \A e \in BagToSet(D) : e.id <= last
    BY <1>7, <1>10, <1>13, <1>14
  <2>3. E <= last
    BY <1>7, <1>10, <1>13
  <2>4. ~data.fullyLoaded => E \in 1..written
    BY <1>3 DEF ChatInv, Bounded
  <2> QED
    BY <1>1, <1>8, <1>11, <2>1, <2>2, <2>3, <2>4 DEF Bounded
<1>17. Shown \subseteq Shown' /\ new \subseteq Shown'
  BY <1>3, <1>6, <1>8, <1>11 DEF Shown
\* What is new, or on display already, for a message past the last of the page.
<1>18. ASSUME NEW x \in (L + 1)..last PROVE x \in new \cup lost'
  <2>1. last \in rows
    <3>1. last # L
      BY <1>10
    <3> QED
      BY <1>5, <1>7, <3>1
  <2>2. x \in rows /\ x <= last
    BY <1>4, <1>10, <2>1
  <2>3. x \notin Ids(D)
    <3>1. ~(x <= L)
      BY <1>10
    <3> QED
      BY <1>13, <3>1 DEF Ids
  <2> QED
    BY <1>5, <1>12, <2>2, <2>3
<1>19. NoGap'
  <2>1. First' = First /\ First \in Nat
    BY <1>3, <1>11 DEF First
  <2>2. \A x \in First..last : x \in First..L \/ x \in (L + 1)..last
    BY <1>10, <2>1
  <2> QED
    BY <1>11, <1>12, <1>13, <1>17, <1>18, <2>1, <2>2 DEF NoGap
<1>20. Once'
  <2> SUFFICES ASSUME ~crossed
               PROVE  /\ \A e \in Brought' : e.msg = e.id /\ e.id >= E /\ C[e] = 1 /\ e.id \notin stray
                      /\ \A e, f \in Brought' : e.id = f.id => e = f
    BY <1>1, <1>11 DEF Once
  <2>1. \A e \in BagToSet(D), f \in BagToSet(B) : e.id # f.id /\ e # f
    BY <1>5, <1>6 DEF Ids
  <2>2. \A e \in BagToSet(D) : e \notin BagToSet(B) /\ C[e] = D[e]
    BY <1>8, <2>1
  <2>3. \A e \in BagToSet(B) : e \notin BagToSet(D) /\ C[e] = 1 /\ e.id >= E /\ e.id \notin stray
    <3>1. \A e \in BagToSet(B) : e.id \in rows /\ e.id \notin stray /\ e \notin BagToSet(D)
      BY <1>5, <1>6, <2>1
    <3>2. \A e \in BagToSet(B) : e.id >= E
      BY <1>3, <1>4, <1>14, <3>1
    <3> QED
      BY <1>6, <1>8, <3>1, <3>2
  <2>4. \A e, f \in BagToSet(B) : e.id = f.id => e = f
    BY <1>6
  <2>5. Brought' = {e \in BagToSet(B) \cup BagToSet(D) : e.by # "send"}
    BY <1>8, <1>11 DEF Brought
  <2>6. \A e \in Brought' : e.msg = e.id /\ e.id >= E /\ C[e] = 1 /\ e.id \notin stray
    BY <1>6, <1>13, <2>2, <2>3, <2>5
  <2>7. \A e, f \in Brought' : e.id = f.id => e = f
    BY <1>13, <2>1, <2>4, <2>5
  <2> QED
    BY <2>6, <2>7
<1>21. Scrolling'
  <2> SUFFICES ASSUME NEW m \in 1..MaxMessages, more[m] > 0
               PROVE  /\ m \in 2..written /\ m <= last /\ m..last \subseteq (Shown \cup lost)'
                      /\ ~crossed => m = E /\ more[m] = 1
    BY <1>1, <1>11 DEF Scrolling
  <2>1. /\ m \in 2..written /\ m <= L /\ m..L \subseteq Shown \cup lost
        /\ ~crossed => m = E /\ more[m] = 1
    BY <1>3 DEF ChatInv, Scrolling
  <2>2. m \in Nat /\ m <= last
    BY <1>2, <1>7, <1>10, <2>1
  <2>3. \A x \in m..last : x \in m..L \/ x \in (L + 1)..last
    BY <1>10, <2>2
  <2> QED
    BY <1>12, <1>17, <1>18, <2>1, <2>2, <2>3
<1>22. Polling'
  BY <1>1, AtIdle DEF Polling
<1> QED
  BY <1>15, <1>16, <1>19, <1>20, <1>21, <1>22 DEF ChatInv

\* A message sent by the user, of this instance or of another, takes the page
\* to the id it is told, and past whatever comes before.
LEMMA PushStep ==
  ASSUME ChatInv, NEW id \in Nat, NEW msg \in Nat, Push(id, msg), send' = NoRequest
  PROVE  ChatInv'
<1> USE DEF table, scroll, timer
<1>1. UNCHANGED <<written, rowIds, stray, crossed, load, more, poll>>
  BY DEF Push
<1>2. PICK E \in Nat, L \in Nat, D \in EntryBags : E = data.earliestId /\ L = data.lastMsgId /\ D = data.msgs
  BY DEF ChatInv, ChatTypes, PageTypes
<1>3. PICK s \in Entry : s = [id |-> id, msg |-> msg, by |-> "send"]
  BY EntrySent
<1>4. PICK B \in EntryBags : B = SetToBag({s}) /\ BagToSet(B) = {s}
  BY <1>3, EntrySent
<1>5. PICK C \in EntryBags :
        /\ C = D (+) B /\ BagToSet(C) = BagToSet(D) \cup {s}
        /\ \A e \in BagToSet(D) \ {s} : C[e] = D[e]
  <2>1. \A e \in BagToSet(D) \ BagToSet(B) : (D (+) B)[e] = D[e]
    BY Together
  <2>2. D (+) B \in EntryBags /\ BagToSet(D (+) B) = BagToSet(D) \cup BagToSet(B)
    BY Together
  <2> QED
    BY <1>4, <2>1, <2>2
<1>6. PICK last \in Nat : last = Larger(id, L) /\ L <= last /\ id <= last /\ last \in {L, id}
  BY DEF Larger
<1>7. /\ data' = [data EXCEPT !.msgs = C, !.lastMsgId = last]
      /\ lost' = lost \cup ((L + 1)..id \ {msg})
  BY <1>2, <1>3, <1>4, <1>5, <1>6 DEF Push
<1>8. /\ data' \in [msgs : EntryBags, earliestId : Nat, fullyLoaded : BOOLEAN, lastMsgId : Nat]
      /\ data'.msgs = C /\ data'.earliestId = E
      /\ data'.fullyLoaded = data.fullyLoaded /\ data'.lastMsgId = last
  BY <1>2, <1>7 DEF ChatInv, ChatTypes, PageTypes
<1>9. ChatTypes'
  <2>1. lost' \subseteq Nat
    BY <1>2, <1>7 DEF ChatInv, ChatTypes, PageTypes
  <2>2. PageTypes'
    BY <1>1, <1>8, <2>1 DEF ChatInv, ChatTypes, PageTypes
  <2> QED
    BY <1>1, <2>2, AtIdle DEF ChatInv, ChatTypes
<1>10. Bounded'
  <2>1. E <= L /\ \A e \in BagToSet(D) : e.id <= L
    BY <1>2 DEF ChatInv, Bounded
  <2>2. E <= last /\ \A e \in BagToSet(D) : e.id <= last
    BY <1>6, <2>1, EntryIn DEF Entry
  <2>3. ~data.fullyLoaded => E \in 1..written
    BY <1>2 DEF ChatInv, Bounded
  <2>4. s.id <= last
    BY <1>3, <1>6
  <2> QED
    BY <1>1, <1>5, <1>8, <2>2, <2>3, <2>4 DEF Bounded
<1>11. Shown \subseteq Shown' /\ msg \in Shown'
  BY <1>2, <1>3, <1>5, <1>8 DEF Shown
<1>12. \A x \in (L + 1)..last : x \in (Shown \cup lost)'
  <2>1. \A x \in (L + 1)..last : x = msg \/ x \in (L + 1)..id \ {msg}
    BY <1>6
  <2> QED
    BY <1>7, <1>11, <2>1
<1>13. NoGap'
  <2>1. First' = First /\ First \in Nat
    BY <1>2, <1>8 DEF First
  <2>2. First..L \subseteq Shown \cup lost
    BY <1>2 DEF ChatInv, NoGap
  <2>3. \A x \in First..last : x \in First..L \/ x \in (L + 1)..last
    BY <1>6, <2>1
  <2> QED
    BY <1>7, <1>8, <1>11, <1>12, <2>1, <2>2, <2>3 DEF NoGap
<1>14. Once'
  <2>1. Brought' = Brought /\ \A e \in Brought : e \in BagToSet(D) \ {s}
    BY <1>2, <1>3, <1>5, <1>8 DEF Brought
  <2>2. \A e \in Brought : C[e] = D[e]
    BY <1>5, <2>1
  <2> QED
    BY <1>1, <1>2, <1>8, <2>1, <2>2 DEF ChatInv, Once
<1>15. Scrolling'
  <2> SUFFICES ASSUME NEW m \in 1..MaxMessages, more[m] > 0
               PROVE  /\ m \in 2..written /\ m <= last /\ m..last \subseteq (Shown \cup lost)'
                      /\ ~crossed => m = E /\ more[m] = 1
    BY <1>1, <1>8 DEF Scrolling
  <2>1. /\ m \in 2..written /\ m <= L /\ m..L \subseteq Shown \cup lost
        /\ ~crossed => m = E /\ more[m] = 1
    BY <1>2 DEF ChatInv, Scrolling
  <2>2. m \in Int
    OBVIOUS
  <2>3. m <= last /\ \A x \in m..last : x \in m..L \/ x \in (L + 1)..last
    BY <1>6, <2>1, <2>2
  <2> QED
    BY <1>7, <1>11, <1>12, <2>1, <2>3
<1>16. Polling'
  <2>1. poll.at = "asked" /\ ~poll.stale => poll.after <= last /\ (~crossed => E <= poll.after)
    <3> SUFFICES ASSUME poll.at = "asked", ~poll.stale
                 PROVE  poll.after <= last /\ (~crossed => E <= poll.after)
      OBVIOUS
    <3>1. poll \in AskedPoll
      BY AtIdle DEF ChatInv, ChatTypes, AnsweredPoll
    <3>2. poll.after \in Nat /\ poll.after <= L /\ (~crossed => E <= poll.after)
      BY <1>2, <3>1 DEF ChatInv, Polling, AskedPoll
    <3> QED
      BY <1>6, <3>2
  <2>2. poll.at = "answered" /\ ~poll.stale => \A a \in poll.rows :
          (last + 1)..a \subseteq poll.rows /\ (~crossed => E <= a)
    <3> SUFFICES ASSUME poll.at = "answered", ~poll.stale, NEW a \in poll.rows
                 PROVE  (last + 1)..a \subseteq poll.rows /\ (~crossed => E <= a)
      OBVIOUS
    <3>1. a \in 1..written /\ (L + 1)..a \subseteq poll.rows /\ (~crossed => E <= a)
      BY <1>2 DEF ChatInv, Polling
    <3>2. a \in Int
      BY <3>1
    <3>3. \A x \in (last + 1)..a : x \in (L + 1)..a
      BY <1>6, <3>2
    <3> QED
      BY <3>1, <3>3
  <2> QED
    BY <1>1, <1>8, <2>1, <2>2 DEF ChatInv, Polling
<1> QED
  BY <1>9, <1>10, <1>13, <1>14, <1>15, <1>16 DEF ChatInv

LEMMA ChatInvStep == ChatInv /\ [ChatNext]_chatVars => ChatInv'
<1> SUFFICES ASSUME ChatInv, [ChatNext]_chatVars PROVE ChatInv'
  OBVIOUS
<1>1. CASE OthersWrite \/ UNCHANGED chatVars
  BY <1>1, QuietSteps
<1>2. CASE Load
  BY <1>2, QuietSteps, LoadHistoryStep DEF Load
<1>3. CASE More
  BY <1>3, QuietSteps, ScrollStep, LoadMoreHistoryStep, MoreFailsStep, MoreRejectedStep DEF More
<1>4. CASE Poll
  BY <1>4, QuietSteps, PollRepliesStep, GetRepliesStep, TakeRepliesStep, TakeRepliesLateStep DEF Poll
<1>5. CASE Sending
  <2>1. CASE SendMessage \/ InsertMessage \/ SendEndsElsewhere
    BY <2>1, QuietSteps
  <2>2. CASE TakeSent
    <3>1. PICK id \in rowIds \cup {0} : Push(id, send.msg)
      BY <2>2 DEF TakeSent, LastInsertRowId
    <3>2. id \in Nat /\ send.msg \in Nat /\ send' = NoRequest
      BY <2>2 DEF TakeSent, ChatInv, ChatTypes
    <3> QED
      BY <3>1, <3>2, PushStep
  <2>3. CASE TakeSentForeign
    <3>1. send' = NoRequest /\ \E id \in 0..MaxMessages : Push(id, Foreign)
      BY <2>3, ChatAssumption DEF TakeSentForeign
    <3>2. Foreign \in Nat /\ 0..MaxMessages \subseteq Nat
      BY ChatAssumption DEF Foreign
    <3> QED
      BY <3>1, <3>2, PushStep
  <2> QED
    BY <1>5, <2>1, <2>2, <2>3 DEF Sending
<1> QED
  BY <1>1, <1>2, <1>3, <1>4, <1>5 DEF ChatNext

\* Nothing is missing between the first and the last message of the page but
\* what it has given up, however loads, scrolls, polls, sends, switches and
\* writers overlap and whichever of them fail.
THEOREM PageHasNoGap == ChatSpec => []NothingMissing
<1>1. ChatInv => NothingMissing
  BY DEF ChatInv, NoGap, First, NothingMissing
<1> QED
  BY <1>1, ChatInitInv, ChatInvStep, PTL DEF ChatSpec

\* What pages and polls bring is never there twice, on the page or on display
\* besides it, with any size of page and batch, also when polls and scrolls end
\* late; unless two requests for older messages were under way for one page.
THEOREM PageShowsOnce == ChatSpec => []NothingTwice
<1>1. ChatInv => NothingTwice
  BY DEF ChatInv, Once, Brought, NothingTwice
<1> QED
  BY <1>1, ChatInitInv, ChatInvStep, PTL DEF ChatSpec
=============================================================================
