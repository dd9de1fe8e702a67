------------------------------ MODULE HubLink ------------------------------
(***************************************************************************)
(* An engine joined to a host: the mode and its four operations            *)
(* (hub/mod.rs), the link with its reconnecting task (hub/slave.rs), and    *)
(* the table a host keeps of connected slaves, with one handler per        *)
(* connection (hub/host.rs).  Each side has a mode of its own; the mode    *)
(* here is that of the engine that joins, hostOn that of the host.         *)
(*                                                                         *)
(* A connection is lost at any time and each end finds out for itself: at  *)
(* once if it is closed or reset; but a peer that vanishes without a word  *)
(* is missed only by an end that writes, and only the host writes of its   *)
(* own accord (the heartbeats of host.rs).                                 *)
(* join_host makes a SlaveState whose background task outlives the call,   *)
(* and outlives the mode too, so there may be several at once.             *)
(***************************************************************************)
EXTENDS Integers, Sequences, FiniteSets

CONSTANTS
    Slaves,       \* SlaveState objects at one time (bound); a finished one is used again
    Ids,          \* ids the engine may go by: that of its first instance at the time
    MaxSockets,   \* bound: connections at one time; one both ends have dropped is used again
    MaxQueue      \* bound: messages under way on a connection

ASSUME HubAssumption ==
    /\ IsFiniteSet(Slaves) /\ IsFiniteSet(Ids) /\ Ids # {}
    /\ MaxSockets \in Nat \ {0} /\ MaxQueue \in Nat \ {0}
    /\ Slaves \cap {"off", "host"} = {}

VARIABLES
    mode,       \* HubState.mode of this engine: off, host, or the slave that is joined
    hung,       \* does a notice hold the mode's lock for ever?
    call,       \* where the join_host or leave_host about each slave is
    task,       \* where the background task of each slave is
    id,         \* engine_id
    should,     \* should_reconnect
    sender,     \* the connection ws_sender writes to, 0 when None
    reader,     \* the connection the task reads from
    wire,       \* is each connection open, lost (or not made), or silent: lost without a word?
    queue,      \* messages from slave to host under way
    handler,    \* handle_slave_connection: none, waiting (for a register), serving, orphan
    held,       \* the id each handler has registered
    hostOn,     \* is the host in host mode?
    conns,      \* HostState.connections: the connection of each id, 0 when there is none
    alive,      \* connections whose connected flag is set
    \* never read by an action that models code
    robbed      \* connections whose entry the handler of another one took away

engine == <<mode, hung>>
slave == <<call, task, id, should, sender, reader>>
net == <<wire, queue>>
host == <<handler, held, hostOn, conns, alive>>
vars == <<engine, slave, net, host, robbed>>

Sockets == 1..MaxSockets
Register(i) == [kind |-> "register", id |-> i]
Leave == [kind |-> "leave"]
SomeId == CHOOSE i \in Ids : TRUE

\* A handler that sends no heartbeats, as it waits for a register message or its
\* flag is cleared, may wait for ever for a slave that is gone without a word.
Listed == {conns[i] : i \in Ids} \ {0}
Deaf(c) == wire[c] = "silent" /\ c \notin Listed \union alive

\* The number of a new connection is the lowest no end refers to any more, but
\* perhaps a handler that never hears of anything.
Unused(c) ==
    /\ wire[c] # "open" /\ (handler[c] = "none" \/ Deaf(c))
    /\ \A s \in Slaves : c \notin {sender[s], reader[s]}
Free(c) == Unused(c) /\ \A d \in 1..(c - 1) : ~Unused(d)

\* What is written to a lost connection is lost.
Sent(c, msg) ==
    IF c # 0 /\ wire[c] = "open" THEN [queue EXCEPT ![c] = Append(@, msg)] ELSE queue
HasRoom(c) == c # 0 => Len(queue[c]) < MaxQueue

Init ==
    /\ mode = "off" /\ hung = FALSE
    /\ call = [s \in Slaves |-> "none"] /\ task = [s \in Slaves |-> "none"]
    /\ id = [s \in Slaves |-> SomeId] /\ should = [s \in Slaves |-> FALSE]
    /\ sender = [s \in Slaves |-> 0] /\ reader = [s \in Slaves |-> 0]
    /\ wire = [c \in Sockets |-> "lost"] /\ queue = [c \in Sockets |-> <<>>]
    /\ handler = [c \in Sockets |-> "none"] /\ held = [c \in Sockets |-> SomeId]
    /\ hostOn \in BOOLEAN /\ conns = [i \in Ids |-> 0] /\ alive = {}
    /\ robbed = {}

-----------------------------------------------------------------------------
(* The mode of this engine. *)

EnableHost ==
    /\ mode = "off" /\ ~hung /\ mode' = "host"
    /\ UNCHANGED <<hung, slave, net, host, robbed>>

DisableHost ==
    /\ mode = "host" /\ ~hung /\ mode' = "off"
    /\ UNCHANGED <<hung, slave, net, host, robbed>>

\* The mode is looked at and its lock released; connecting takes seconds.
BeginJoin(s) ==
    /\ mode = "off" /\ call[s] = "none" /\ task[s] = "none"
    /\ \E i \in Ids : id' = [id EXCEPT ![s] = i]
    /\ should' = [should EXCEPT ![s] = TRUE]
    /\ call' = [call EXCEPT ![s] = "dialing"]
    /\ UNCHANGED <<engine, task, sender, reader, net, host, robbed>>

\* Nothing refers to s any more.
Forget(s) ==
    /\ id' = [id EXCEPT ![s] = SomeId]
    /\ should' = [should EXCEPT ![s] = FALSE]
    /\ sender' = [sender EXCEPT ![s] = 0]
    /\ reader' = [reader EXCEPT ![s] = 0]

\* No host there, a wrong token, or the timeout of 5 seconds.
JoinFails(s) ==
    /\ call[s] = "dialing"
    /\ call' = [call EXCEPT ![s] = "none"] /\ Forget(s)
    /\ UNCHANGED <<engine, task, net, host, robbed>>

\* connect_async, and the handler it makes the host spawn.
Connect(s, c) ==
    /\ hostOn /\ Free(c)
    /\ wire' = [wire EXCEPT ![c] = "open"]
    /\ handler' = [handler EXCEPT ![c] = "waiting"]
    /\ sender' = [sender EXCEPT ![s] = c]
    /\ reader' = [reader EXCEPT ![s] = c]
    /\ held' = [held EXCEPT ![c] = SomeId]
    /\ UNCHANGED <<queue, hostOn, conns, alive, robbed>>

JoinConnects(s, c) ==
    /\ call[s] = "dialing" /\ Connect(s, c)
    /\ call' = [call EXCEPT ![s] = "greeting"]
    /\ UNCHANGED <<engine, task, id, should>>

\* The register message is sent and the background task spawned.
JoinGreets(s) ==
    /\ call[s] = "greeting"
    /\ queue' = Sent(sender[s], Register(id[s]))
    /\ task' = [task EXCEPT ![s] = "looping"]
    /\ call' = [call EXCEPT ![s] = "deciding"]
    /\ UNCHANGED <<engine, id, should, sender, reader, wire, host, robbed>>

JoinGreetFails(s) ==
    /\ call[s] = "greeting" /\ wire[sender[s]] # "open"
    /\ call' = [call EXCEPT ![s] = "none"] /\ Forget(s)
    /\ UNCHANGED <<engine, task, net, host, robbed>>

\* The mode is checked again.  A join that is refused leaves its task running.
JoinDecides(s) ==
    /\ call[s] = "deciding" /\ ~hung
    /\ IF mode = "off"
       THEN mode' = s /\ call' = [call EXCEPT ![s] = "none"]
       ELSE mode' = mode /\ call' = [call EXCEPT ![s] = "refused"]
    /\ UNCHANGED <<hung, task, id, should, sender, reader, net, host, robbed>>

\* Mutant: stop_reconnect is not called.
LeaveReconnecting(s) ==
    /\ mode = s /\ ~hung /\ mode' = "off"
    /\ call' = [call EXCEPT ![s] = "leaving"]
    /\ UNCHANGED <<hung, task, id, should, sender, reader, net, host, robbed>>

\* leave_host up to the release of the lock.
BeginLeave(s) ==
    /\ mode = s /\ ~hung /\ mode' = "off"
    /\ should' = [should EXCEPT ![s] = FALSE]
    /\ call' = [call EXCEPT ![s] = "leaving"]
    /\ UNCHANGED <<hung, task, id, sender, reader, net, host, robbed>>

\* Mutant: the sender is dropped without a Leave.
DisconnectSilently(s) ==
    /\ call[s] = "leaving" /\ task[s] # "stuck"
    /\ sender' = [sender EXCEPT ![s] = 0]
    /\ call' = [call EXCEPT ![s] = "none"]
    /\ UNCHANGED <<engine, task, id, should, reader, net, host, robbed>>

\* It waits for the lock of ws_sender.
Disconnect(s) ==
    /\ call[s] = "leaving" /\ task[s] # "stuck" /\ HasRoom(sender[s])
    /\ queue' = Sent(sender[s], Leave)
    /\ sender' = [sender EXCEPT ![s] = 0]
    /\ call' = [call EXCEPT ![s] = "none"]
    /\ UNCHANGED <<engine, task, id, should, reader, wire, host, robbed>>

\* An instance was created or deleted.  The lock of the mode is held while the
\* sender is waited for.
Notify(s) ==
    /\ mode = s /\ ~hung /\ HasRoom(sender[s])
    /\ IF task[s] = "stuck"
       THEN hung' = TRUE /\ queue' = queue
       ELSE hung' = hung /\ queue' = Sent(sender[s], Register(id[s]))
    /\ UNCHANGED <<mode, slave, wire, host, robbed>>

-----------------------------------------------------------------------------
(* The background task of a slave. *)

\* The socket is closed by the other end, or fails.
LoopEnds(s) ==
    /\ task[s] = "looping" /\ wire[reader[s]] # "open"
    /\ sender' = [sender EXCEPT ![s] = 0]
    /\ reader' = [reader EXCEPT ![s] = 0]
    /\ task' = [task EXCEPT ![s] = "backoff"]
    /\ UNCHANGED <<engine, call, id, should, net, host, robbed>>

\* should_reconnect is looked at before and after the sleep.
GiveUp(s) ==
    /\ task[s] = "backoff" /\ ~should[s]
    /\ task' = [task EXCEPT ![s] = "none"] /\ Forget(s)
    /\ UNCHANGED <<engine, call, net, host, robbed>>

Redial(s) ==
    /\ task[s] = "backoff" /\ should[s]
    /\ task' = [task EXCEPT ![s] = "dialing"]
    /\ UNCHANGED <<engine, call, id, should, sender, reader, net, host, robbed>>

\* Mutant: a failed attempt ends the task.
RedialOnce(s) ==
    /\ task[s] = "dialing"
    /\ task' = [task EXCEPT ![s] = "none"]
    /\ UNCHANGED <<engine, call, id, should, sender, reader, net, host, robbed>>

RedialFails(s) ==
    /\ task[s] = "dialing"
    /\ task' = [task EXCEPT ![s] = "backoff"]
    /\ UNCHANGED <<engine, call, id, should, sender, reader, net, host, robbed>>

\* Nobody looks at should_reconnect any more.
RedialConnects(s, c) ==
    /\ task[s] = "dialing" /\ Connect(s, c)
    /\ task' = [task EXCEPT ![s] = "greeting"]
    /\ UNCHANGED <<engine, call, id, should>>

\* Mutant: a new connection is not registered.
GreetSilently(s) ==
    /\ task[s] = "greeting"
    /\ task' = [task EXCEPT ![s] = "looping"]
    /\ UNCHANGED <<engine, call, id, should, sender, reader, net, host, robbed>>

\* ws_sender may have been emptied by a leave.
Greet(s) ==
    /\ task[s] = "greeting" /\ HasRoom(sender[s])
    /\ queue' = Sent(sender[s], Register(id[s]))
    /\ task' = [task EXCEPT ![s] = "looping"]
    /\ UNCHANGED <<engine, call, id, should, sender, reader, wire, host, robbed>>

\* The write fails: the lock is taken a second time while the first guard lives.
GreetJams(s) ==
    /\ task[s] = "greeting" /\ sender[s] # 0 /\ wire[sender[s]] # "open"
    /\ task' = [task EXCEPT ![s] = "stuck"]
    /\ UNCHANGED <<engine, call, id, should, sender, reader, net, host, robbed>>

-----------------------------------------------------------------------------
(* The host. *)

Receives(c, kind) == queue[c] # <<>> /\ Head(queue[c]).kind = kind
Consume(c) == queue' = [queue EXCEPT ![c] = Tail(@)]

\* Mutant: entries of the same endpoint under another id stay.
TableKeeping(c, i) == [conns EXCEPT ![i] = c]

\* Mutant: nothing is removed.
TableAsIs(i) == conns

\* The entries of the same endpoint under another id go, an entry of this id is
\* replaced.  All slaves here are of one engine, so of one endpoint.
TableWith(c, i) == [j \in Ids |-> IF j = i THEN c ELSE 0]
TableWithout(i) == [conns EXCEPT ![i] = 0]
Stale(i) == {conns[j] : j \in Ids \ {i}}
Robbed(taken) == robbed \union {c \in taken : wire[c] = "open"}

TakeRegister(c) ==
    /\ handler[c] = "waiting" /\ Receives(c, "register") /\ Consume(c)
    /\ LET i == Head(queue[c]).id IN
        /\ held' = [held EXCEPT ![c] = i]
        /\ conns' = TableWith(c, i)
        /\ alive' = (alive \ Stale(i)) \union {c}
    /\ robbed' = Robbed(Listed \ {c}) \ {c}
    /\ handler' = [handler EXCEPT ![c] = "serving"]
    /\ UNCHANGED <<engine, slave, wire, hostOn>>

\* A further register message replaces the list of instances.
Update(c) ==
    /\ handler[c] \in {"serving", "orphan"} /\ Receives(c, "register") /\ Consume(c)
    /\ UNCHANGED <<engine, slave, wire, host, robbed>>

\* A heartbeat cannot be sent: the entry stays but is not shown any more.
HeartbeatFails(c) ==
    /\ handler[c] = "serving" /\ wire[c] # "open" /\ c \in alive
    /\ alive' = alive \ {c}
    /\ UNCHANGED <<engine, slave, net, handler, held, hostOn, conns, robbed>>

\* What an end closes is lost to the other one, unless no word gets through.
Closed(c) == IF wire[c] = "silent" THEN "silent" ELSE "lost"

\* The handler returns, and its end of the connection with it.
HandlerEnds(c) ==
    /\ handler' = [handler EXCEPT ![c] = "none"]
    /\ held' = [held EXCEPT ![c] = SomeId]
    /\ wire' = [wire EXCEPT ![c] = Closed(c)]
    /\ queue' = [queue EXCEPT ![c] = <<>>]
    /\ UNCHANGED <<engine, slave, hostOn>>

\* The peer is gone, said so, or began with something else.
Over(c) == wire[c] # "open" \/ Receives(c, "leave")

NeverRegistered(c) ==
    /\ handler[c] = "waiting" /\ Over(c) /\ HandlerEnds(c)
    /\ robbed' = robbed \ {c}
    /\ UNCHANGED <<conns, alive>>

\* The entry of the id is removed, whosever it is by now.
CleanUp(c) ==
    /\ handler[c] = "serving" /\ Over(c) /\ HandlerEnds(c)
    /\ alive' = alive \ {c}
    /\ conns' = TableWithout(held[c])
    /\ robbed' = Robbed({conns[held[c]]} \ {0, c}) \ {c}

\* Its HostState is no longer that of the mode.
OrphanEnds(c) ==
    /\ handler[c] = "orphan" /\ Over(c) /\ HandlerEnds(c)
    /\ robbed' = robbed \ {c}
    /\ UNCHANGED <<conns, alive>>

HostEnables ==
    /\ ~hostOn /\ hostOn' = TRUE
    /\ UNCHANGED <<engine, slave, net, handler, held, conns, alive, robbed>>

\* The HostState goes, its handlers keep it and their connections alive.
HostDisables ==
    /\ hostOn /\ hostOn' = FALSE
    /\ conns' = [i \in Ids |-> 0] /\ alive' = {}
    /\ handler' = [c \in Sockets |-> IF handler[c] = "none" THEN "none" ELSE "orphan"]
    /\ held' = [c \in Sockets |-> SomeId] /\ robbed' = {}
    /\ UNCHANGED <<engine, slave, net>>

-----------------------------------------------------------------------------
(* The network and the two processes. *)

Drop(c) ==
    /\ wire[c] = "open" /\ wire' = [wire EXCEPT ![c] = "lost"]
    /\ robbed' = robbed \ {c}
    /\ UNCHANGED <<engine, slave, queue, host>>

\* The host or the network between vanishes without a word: what was under way
\* goes with it, and nothing that either end closes is heard of by the other.
FallSilent(c) ==
    /\ wire[c] = "open" /\ wire' = [wire EXCEPT ![c] = "silent"]
    /\ queue' = [queue EXCEPT ![c] = <<>>] /\ robbed' = robbed \ {c}
    /\ UNCHANGED <<engine, slave, host>>

AllLost == wire' = [c \in Sockets |-> Closed(c)] /\ robbed' = {}

\* Hub state is in memory only.
HostRestarts ==
    /\ AllLost /\ hostOn' = FALSE
    /\ conns' = [i \in Ids |-> 0] /\ alive' = {}
    /\ handler' = [c \in Sockets |-> "none"] /\ held' = [c \in Sockets |-> SomeId]
    /\ queue' = [c \in Sockets |-> <<>>]
    /\ UNCHANGED <<engine, slave>>

EngineRestarts ==
    /\ AllLost /\ mode' = "off" /\ hung' = FALSE
    /\ call' = [s \in Slaves |-> "none"] /\ task' = [s \in Slaves |-> "none"]
    /\ id' = [s \in Slaves |-> SomeId] /\ should' = [s \in Slaves |-> FALSE]
    /\ sender' = [s \in Slaves |-> 0] /\ reader' = [s \in Slaves |-> 0]
    /\ UNCHANGED <<queue, host>>

-----------------------------------------------------------------------------
Mode(s) == BeginJoin(s) \/ JoinDecides(s) \/ BeginLeave(s) \/ Disconnect(s) \/ Notify(s)
Join(s) ==
    \/ JoinFails(s) \/ JoinGreets(s) \/ JoinGreetFails(s)
    \/ \E c \in Sockets : JoinConnects(s, c)
Task(s) ==
    \/ LoopEnds(s) \/ GiveUp(s) \/ Redial(s) \/ RedialFails(s)
    \/ \E c \in Sockets : RedialConnects(s, c)
    \/ Greet(s) \/ GreetJams(s)
Handler(c) ==
    \/ TakeRegister(c) \/ Update(c) \/ HeartbeatFails(c)
    \/ NeverRegistered(c) \/ CleanUp(c) \/ OrphanEnds(c)

Next ==
    \/ EnableHost \/ DisableHost
    \/ \E s \in Slaves : Mode(s) \/ Join(s) \/ Task(s)
    \/ \E c \in Sockets : Handler(c) \/ Drop(c) \/ FallSilent(c)
    \/ HostEnables \/ HostDisables \/ HostRestarts \/ EngineRestarts

Spec == Init /\ [][Next]_vars

\* Calls and tasks that can go on do; the host reads what has arrived and finds
\* out about lost connections by its heartbeats; a slave finds out only about
\* those that were closed or reset, since it waits without limit for the next
\* message; of ever new attempts to connect to a host that is there, one
\* succeeds.
FairSpec ==
    /\ Spec
    /\ \A s \in Slaves :
        /\ WF_vars(Disconnect(s))
        /\ WF_vars(LoopEnds(s) /\ wire[reader[s]] = "lost")
        /\ WF_vars(GiveUp(s)) /\ WF_vars(Redial(s))
        /\ WF_vars(Greet(s) \/ GreetJams(s))
        /\ SF_vars(\E c \in Sockets : RedialConnects(s, c))
    /\ \A c \in Sockets : WF_vars(Handler(c) /\ ~Deaf(c))

-----------------------------------------------------------------------------
(* Properties. *)

\* Every variable holds a value of its type, and a slave writes to the
\* connection it reads from or to none.
TypeOK ==
    /\ mode \in Slaves \union {"off", "host"} /\ hung \in BOOLEAN
    /\ call \in [Slaves -> {"none", "dialing", "greeting", "deciding", "refused", "leaving"}]
    /\ task \in [Slaves -> {"none", "looping", "backoff", "dialing", "greeting", "stuck"}]
    /\ id \in [Slaves -> Ids] /\ should \in [Slaves -> BOOLEAN]
    /\ reader \in [Slaves -> 0..MaxSockets] /\ sender \in [Slaves -> 0..MaxSockets]
    /\ \A s \in Slaves : sender[s] \in {0, reader[s]}
    /\ wire \in [Sockets -> {"open", "lost", "silent"}]
    /\ queue \in [Sockets -> Seq({Leave} \union {Register(i) : i \in Ids})]
    /\ handler \in [Sockets -> {"none", "waiting", "serving", "orphan"}]
    /\ held \in [Sockets -> Ids] /\ hostOn \in BOOLEAN
    /\ conns \in [Ids -> 0..MaxSockets]
    /\ alive \subseteq Sockets /\ robbed \subseteq Sockets

\* host.rs:90 calls an entry left under an id the engine no longer goes by a
\* zombie: through joins under changing ids, overlapping connections and late
\* clean-ups the host never has the engine in its table twice.
ListedOnce == \A i, j \in Ids : conns[i] # 0 /\ conns[j] # 0 => i = j

\* An entry of the table always has a handler that serves its connection and
\* will remove it: no entry outlives its connection.
EntryServed ==
    \A i \in Ids : conns[i] # 0 => handler[conns[i]] = "serving" /\ held[conns[i]] = i

\* A task that will go on reconnecting belongs to the slave of the mode, where
\* leave_host finds it, or to a join not yet decided, or to one that was
\* refused: join_host does not stop the task of the loser.
Stoppable ==
    \A s \in Slaves : task[s] # "none" /\ should[s] => mode = s \/ call[s] \in {"deciding", "refused"}

Linked(s) == reader[s] # 0 /\ wire[reader[s]] = "open"

\* Nothing has told the slave that its connection is gone.
Unheard(s) == reader[s] # 0 /\ wire[reader[s]] = "silent"

\* A joined engine is linked again and again as long as the host is there, the
\* task has not locked itself out (GreetJams) and the connection was not lost
\* without a word: only the host sends heartbeats, the slave waits for ever.
Reconnects ==
    \A s \in Slaves :
        mode = s ~> (Linked(s) \/ mode # s \/ ~hostOn \/ task[s] = "stuck" \/ Unheard(s))

\* A link that stays up is shown by the host, unless the handler of another
\* connection has taken its entry, or the host has left its mode meanwhile.
LinkIsListed ==
    \A s \in Slaves, c \in Sockets :
        (task[s] = "looping" /\ sender[s] = c /\ wire[c] = "open") ~>
            \/ c \in Listed \cap alive
            \/ sender[s] # c \/ wire[c] # "open"
            \/ c \in robbed \/ handler[c] = "orphan"

\* Having left, a slave that was not in the middle of connecting is gone: its
\* connection ends at both sides and its task does not reconnect, unless it is
\* never told that the host has hung up.
LeaveIsFinal ==
    \A s \in Slaves :
        (~should[s] /\ sender[s] = 0 /\ task[s] \in {"looping", "backoff"})
            ~> (task[s] = "none" \/ Unheard(s))
=============================================================================
