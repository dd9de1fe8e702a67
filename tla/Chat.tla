-------------------------------- MODULE Chat --------------------------------
(***************************************************************************)
(* The messages of an instance as a web page shows them (chat.rs, state.rs *)
(* and html-frontend/index.html): the page loads the newest, older ones as *)
(* the user scrolls up, polls for what is new and adds what the user sends *)
(* by the id it is told; writers insert through a pool of two connections. *)
(*                                                                         *)
(* A message is its id: the table has 1..written.  No request is ever      *)
(* cancelled: what was asked before the user turned to another instance    *)
(* and back, or clicked on the one on display, is still taken in; so is    *)
(* what was asked for other instances, which is left out but for its end   *)
(* (LoadElsewhereEnds, LateScrollEnds, PollElsewhere).  What a page has is *)
(* a bag: the order of the messages on it is left out.                     *)
(***************************************************************************)
EXTENDS Naturals, FiniteSetsExt, Bags

CONSTANTS
  MaxMessages,   \* bound: messages written
  Page,          \* messages a page of the history has (50)
  Batch,         \* messages a poll returns at most (100)
  Scrolls        \* bound: requests for the same older messages under way

ASSUME ChatAssumption ==
  MaxMessages \in Nat /\ Page \in Nat \ {0} /\ Batch \in Nat \ {0} /\ Scrolls \in Nat

VARIABLES
  written,      \* messages in the table
  rowIds,       \* what last_insert_rowid says on the two connections of the pool
  data,         \* messages[name] of the page
  stray,        \* messages that are on display without being in data
  load,         \* loadHistory, of which any number may be under way
  more,         \* how many loadMoreHistory ask for what is before each message
  listening,    \* the display has an onscroll
  loadingMore,  \* the flag of that name
  poll,         \* pollReplies, of which there is one at a time (isPolling)
  polling,      \* the timer for the next poll is set, or its poll under way
  send,         \* sendMessage, and send_message behind it
  lost,         \* ids the page will not ask for again although it has them not
  crossed       \* two requests for older messages were under way for data

table == <<written, rowIds>>
page == <<data, stray, lost, crossed>>
scroll == <<more, listening, loadingMore>>
timer == <<poll, polling>>
chatVars == <<table, page, load, scroll, timer, send>>

NoRequest == [at |-> "idle"]
Asked(n) == [at |-> "asked", since |-> n]
PollElsewhere == [at |-> "elsewhere"]
NoMore == [m \in 1..MaxMessages |-> 0]
Nothing == [msgs |-> EmptyBag, earliestId |-> 0, fullyLoaded |-> TRUE, lastMsgId |-> 0]
Foreign == 0    \* a message that is not in the table; bound: the page shows one

Ids(msgs) == {e.id : e \in BagToSet(msgs)}
Shown == {e.msg : e \in BagToSet(data.msgs)}
Larger(a, b) == IF a > b THEN a ELSE b

Entries(rows, by) == SetToBag({[id |-> m, msg |-> m, by |-> by] : m \in rows})

ChatInit ==
  /\ written = 0 /\ rowIds = {0}
  /\ data = Nothing /\ stray = {} /\ lost = {} /\ crossed = FALSE
  /\ load = Asked(0)
  /\ more = NoMore /\ listening = FALSE /\ loadingMore = FALSE
  /\ poll = NoRequest /\ polling = FALSE
  /\ send = NoRequest

---------------------------------------------------------------------------
(* The table.                                                              *)

\* Mutant: the page begins with the message it should end before.
RowsUpTo(before) ==
  {m \in 1..written : m <= before /\ Cardinality({k \in 1..written : m < k /\ k <= before}) < Page}

RowsBefore(before) ==
  {m \in 1..written : m < before /\ Cardinality({k \in 1..written : m < k /\ k < before}) < Page}

HasMore(rows) == rows # {} /\ \E m \in 1..written : m < Min(rows)

\* The answers there may be: the count behind has_more is 0 when it fails.
GetMessages(before) ==
  LET rows == RowsBefore(before) IN [rows : {rows}, hasMore : {HasMore(rows), FALSE}]

\* What the page then takes not to be there.
Uncounted(rows, hasMore) == IF hasMore = HasMore(rows) THEN {} ELSE 1..(Min(rows) - 1)

\* Mutant: the newest are returned when there are too many.
NewestAfter(after) ==
  {m \in 1..written : m > after /\ Cardinality({k \in 1..written : m < k}) < Batch}

MessagesAfter(after) ==
  {m \in 1..written : m > after /\ Cardinality({k \in 1..written : after < k /\ k < m}) < Batch}

\* A statement runs on a connection of the pool, whichever is free.
OnAConnection(id) == \E other \in rowIds : rowIds' = {other, id}

Insert ==
  /\ written < MaxMessages
  /\ written' = written + 1
  /\ OnAConnection(written + 1)

(* Agents, other instances, background tasks and the system write, too.    *)
OthersWrite ==
  /\ Insert
  /\ UNCHANGED <<page, load, scroll, timer, send>>

---------------------------------------------------------------------------
(* The poll under way, and the timer.  A chain of polls that has been      *)
(* replaced clears the timer of its successor when its last poll ends.     *)

Old(p) == IF p.at \in {"asked", "answered"} THEN [p EXCEPT !.old = TRUE] ELSE p

\* data is replaced: the poll keeps the one it was asked with.
LeftBehind(p) ==
  IF p.at = "asked" /\ ~p.stale
    THEN [p EXCEPT !.stale = TRUE, !.known = {i \in Ids(data.msgs) : i > p.after}]
  ELSE IF p.at = "answered" /\ ~p.stale
    THEN [p EXCEPT !.stale = TRUE, !.known = Ids(data.msgs) \cap p.rows]
  ELSE p

StartPolling == polling' = TRUE /\ poll' = Old(poll)

PollEnds == poll' = NoRequest /\ polling' = (polling /\ ~poll.old)

---------------------------------------------------------------------------
(* switchInstance and loadHistory.  As many loads may be under way as there *)
(* were clicks; load tells since when, by what was written at the first.   *)

(* A click on the instance on display, on "Retry", or on others and then   *)
(* on this one: by then any request may have been answered and dropped,    *)
(* and a poll of another instance may be under way.                        *)
SwitchInstance ==
  /\ load' = IF load = NoRequest THEN Asked(written) ELSE load
  /\ polling' = FALSE /\ poll' \in {Old(poll), NoRequest, PollElsewhere}
  /\ more' \in {f \in [1..MaxMessages -> 0..Scrolls] : \A m \in 1..MaxMessages : f[m] <= more[m]}
  /\ listening' = FALSE /\ loadingMore' = FALSE /\ stray' = {}
  /\ UNCHANGED <<table, data, lost, crossed, send>>

LoadEnds == load # NoRequest /\ load' \in {load, NoRequest}

(* The answer is the newest of what the table had at any time meanwhile.   *)
LoadHistory ==
  /\ LoadEnds
  /\ \E upTo \in load.since..written : \E res \in GetMessages(upTo + 1) :
       /\ data' = [msgs |-> Entries(res.rows, "page"),
                   earliestId |-> IF res.rows = {} THEN 0 ELSE Min(res.rows),
                   fullyLoaded |-> ~res.hasMore,
                   lastMsgId |-> IF res.rows = {} THEN 0 ELSE Max(res.rows)]
       /\ lost' = Uncounted(res.rows, res.hasMore)
  /\ more' = NoMore /\ listening' = TRUE /\ stray' = {} /\ crossed' = FALSE
  /\ polling' = TRUE /\ poll' = Old(LeftBehind(poll))
  /\ UNCHANGED <<table, loadingMore, send>>

(* The page renders what it has and polls on from there.  Only an error of *)
(* the engine lets it listen to the user's scrolling, 502 and 504 do not.  *)
GoOnWithData ==
  /\ listening' \in {listening, TRUE} /\ stray' = {}
  /\ StartPolling
  /\ UNCHANGED <<table, data, lost, crossed, more, loadingMore, send>>

LoadFails ==
  /\ LoadEnds
  /\ GoOnWithData

(* The request itself fails: switchInstance ends there and then.           *)
LoadRejected ==
  /\ LoadEnds
  /\ UNCHANGED <<table, page, scroll, timer, send>>

(* switchInstance goes on in the same way after the load of another one.   *)
LoadElsewhereEnds ==
  /\ GoOnWithData
  /\ UNCHANGED load

---------------------------------------------------------------------------
(* loadMoreHistory.                                                        *)

Scroll ==
  /\ listening /\ ~loadingMore /\ ~data.fullyLoaded
  /\ IF data.earliestId <= 1
       THEN data' = [data EXCEPT !.fullyLoaded = TRUE] /\ UNCHANGED <<crossed, more, loadingMore>>
       ELSE /\ more[data.earliestId] < Scrolls
            /\ more' = [more EXCEPT ![data.earliestId] = @ + 1]
            /\ crossed' = (crossed \/ more # NoMore)
            /\ loadingMore' = TRUE /\ UNCHANGED data
  /\ UNCHANGED <<table, stray, lost, load, listening, timer, send>>

MoreEnds(before) == more[before] > 0 /\ more' = [more EXCEPT ![before] = @ - 1]

LoadMoreHistory(before) ==
  /\ MoreEnds(before)
  /\ \E res \in GetMessages(before) :
       /\ data' = [data EXCEPT !.msgs = Entries(res.rows, "page") (+) @,
                               !.earliestId = Min(res.rows), !.fullyLoaded = ~res.hasMore]
       /\ lost' = lost \cup Uncounted(res.rows, res.hasMore)
  /\ loadingMore' = FALSE /\ stray' = {}
  /\ UNCHANGED <<table, crossed, load, listening, timer, send>>

(* An error is taken for the beginning of the history.                     *)
MoreFails(before) ==
  /\ MoreEnds(before)
  /\ data' = [data EXCEPT !.fullyLoaded = TRUE]
  /\ lost' = lost \cup 1..(data.earliestId - 1)
  /\ loadingMore' = FALSE
  /\ UNCHANGED <<table, stray, crossed, load, listening, timer, send>>

(* A failed request, 502 and 504 are thrown: the flag is left as it is.    *)
MoreRejected(before) ==
  /\ MoreEnds(before)
  /\ UNCHANGED <<table, page, load, listening, loadingMore, timer, send>>

(* One that was asked for a data the page has replaced since, and is       *)
(* rendered again unless there is an error; or for another instance.       *)
LateScrollEnds ==
  /\ loadingMore' = FALSE /\ stray' \in {stray, {}}
  /\ UNCHANGED <<table, data, lost, crossed, load, more, listening, timer, send>>

---------------------------------------------------------------------------
(* pollReplies.                                                            *)

PollReplies ==
  /\ polling /\ poll = NoRequest /\ send = NoRequest
  /\ poll' = [at |-> "asked", after |-> data.lastMsgId, old |-> FALSE, stale |-> FALSE, known |-> {}]
  /\ UNCHANGED <<table, page, load, scroll, polling, send>>

GetReplies ==
  /\ poll.at = "asked" /\ MessagesAfter(poll.after) # {}
  /\ poll' = [at |-> "answered", rows |-> MessagesAfter(poll.after),
              old |-> poll.old, stale |-> poll.stale, known |-> poll.known]
  /\ UNCHANGED <<table, page, load, scroll, polling, send>>

\* Mutant: the page polls after the same message again.
TakeRepliesInPlace ==
  /\ poll.at = "answered" /\ ~poll.stale
  /\ LET new == poll.rows \ (Ids(data.msgs) \cup stray)
     IN data' = [data EXCEPT !.msgs = @ (+) Entries(new, "poll")]
  /\ lost' = lost \cup {m \in poll.rows \cap stray : m <= data'.lastMsgId}
  /\ PollEnds
  /\ UNCHANGED <<table, stray, crossed, load, scroll, send>>

(* What is on display already is skipped, and may be passed.               *)
TakeReplies ==
  /\ poll.at = "answered" /\ ~poll.stale
  /\ LET new == poll.rows \ (Ids(data.msgs) \cup stray)
     IN data' = [data EXCEPT !.msgs = @ (+) Entries(new, "poll"), !.lastMsgId = Max(new \cup {@})]
  /\ lost' = lost \cup {m \in poll.rows \cap stray : m <= data'.lastMsgId}
  /\ PollEnds
  /\ UNCHANGED <<table, stray, crossed, load, scroll, send>>

(* The new ones go to the data the poll was asked with, and on display.    *)
TakeRepliesLate ==
  /\ poll.at = "answered" /\ poll.stale
  /\ stray' = stray \cup (poll.rows \ (poll.known \cup Ids(data.msgs)))
  /\ PollEnds
  /\ UNCHANGED <<table, data, lost, crossed, load, scroll, send>>

(* There is nothing new, or get_replies_after answers so because the store *)
(* fails, or the request does.                                             *)
PollBringsNothing ==
  /\ poll.at = "asked"
  /\ PollEnds
  /\ UNCHANGED <<table, page, load, scroll, send>>

(* 502 and 504 stop the polls, for this instance or another; and the poll  *)
(* of another is one of an old chain.                                      *)
PollingStops ==
  /\ poll.at \in {"asked", "elsewhere"}
  /\ poll' = NoRequest /\ polling' = FALSE
  /\ UNCHANGED <<table, page, load, scroll, send>>

---------------------------------------------------------------------------
(* sendMessage.                                                            *)

SendMessage ==
  /\ send = NoRequest
  /\ send' = [at |-> "asked"]
  /\ UNCHANGED <<table, page, load, scroll, timer>>

InsertMessage ==
  /\ send.at = "asked"
  /\ Insert
  /\ send' = [at |-> "inserted", msg |-> written + 1]
  /\ UNCHANGED <<page, load, scroll, timer>>

\* insert_message asks for the id on any connection the pool gives it, at any
\* time until the page has its answer, and answers 0 when that fails.
LastInsertRowId == rowIds \cup {0}

Push(id, msg) ==
  /\ data' = [data EXCEPT !.msgs = @ (+) SetToBag({[id |-> id, msg |-> msg, by |-> "send"]}),
                          !.lastMsgId = Larger(id, @)]
  /\ lost' = lost \cup ((data.lastMsgId + 1)..id \ {msg})
  /\ UNCHANGED <<table, stray, crossed, load, scroll, timer>>

TakeSent ==
  /\ send.at = "inserted"
  /\ \E id \in LastInsertRowId : Push(id, send.msg)
  /\ send' = NoRequest

(* The answer comes while another instance is on display, or not at all.   *)
SendEndsElsewhere ==
  /\ send # NoRequest
  /\ send' = NoRequest
  /\ UNCHANGED <<table, page, load, scroll, timer>>

(* A refused message, and one sent to another instance and answered while  *)
(* this one is on display: sendMessage takes them for one of this instance,*)
(* without an id and with the id of the other.                             *)
TakeSentForeign ==
  /\ Foreign \notin Shown
  /\ \/ send = NoRequest /\ \E id \in 0..MaxMessages : Push(id, Foreign)
     \/ send.at = "asked" /\ Push(0, Foreign)
  /\ send' = NoRequest

---------------------------------------------------------------------------
Load == SwitchInstance \/ LoadHistory \/ LoadFails \/ LoadRejected \/ LoadElsewhereEnds
More ==
  \/ Scroll
  \/ \E before \in 1..MaxMessages : LoadMoreHistory(before) \/ MoreFails(before) \/ MoreRejected(before)
  \/ LateScrollEnds
Poll == PollReplies \/ GetReplies \/ TakeReplies \/ TakeRepliesLate \/ PollBringsNothing \/ PollingStops
Sending ==
  SendMessage \/ InsertMessage \/ TakeSent \/ SendEndsElsewhere \/ TakeSentForeign

ChatNext == OthersWrite \/ Load \/ More \/ Poll \/ Sending

(* A timer that is set goes off, and not into a send each time.  Polls are *)
(* answered, and of those that go on polling not each with an error; sends *)
(* end.  Nothing is asked of loads and scrolls.                            *)
ChatSpec ==
  /\ ChatInit /\ [][ChatNext]_chatVars
  /\ SF_chatVars(PollReplies) /\ SF_chatVars(GetReplies)
  /\ WF_chatVars(TakeReplies \/ TakeRepliesLate \/ PollBringsNothing \/ PollingStops)
  /\ WF_chatVars(InsertMessage \/ TakeSent \/ SendEndsElsewhere)

---------------------------------------------------------------------------
(* What the page has has no gap (state.rs:172, index.html:1392): from the  *)
(* earliest message, the first one of all when it says there is nothing    *)
(* more to load, to the last one it polls after, it has them all, through  *)
(* pages, polls, switches and errors that overlap.  Excepted is what the   *)
(* page gives up: messages written before one the user sends, which takes  *)
(* their place; what a late poll put on display only, once a later one is  *)
(* polled; and the beginning, when an error is taken for it.               *)
NothingMissing ==
  LET first == IF data.fullyLoaded THEN 1 ELSE data.earliestId
  IN first..data.lastMsgId \cap 1..written \subseteq Shown \cup lost

(* Nothing is shown twice, also what a late poll has put on display, except *)
(* what a poll has brought before the page was told its id, or was told a  *)
(* wrong one (chat.rs:541); unless two requests for older messages were    *)
(* under way for the same page.                                            *)
NothingTwice ==
  LET brought == {e \in BagToSet(data.msgs) : e.by # "send"}
  IN ~crossed =>
       /\ \A e, f \in brought : e.msg = f.msg => e = f /\ data.msgs[e] = 1
       /\ \A e \in brought : e.msg \notin stray

(* As long as the page polls and nothing is being loaded, every message    *)
(* comes onto the display by itself, or stands before those the page has,  *)
(* unless the page has given it up.                                        *)
EveryMessageShown ==
  \A m \in 1..MaxMessages :
    m <= written ~>
      (m \in Shown \cup stray \cup lost \/ m < data.earliestId \/ load # NoRequest \/ ~polling)

============================================================================
