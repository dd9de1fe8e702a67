----------------------------- MODULE HubProofs -----------------------------
(***************************************************************************)
(* Proofs about the two halves of the hub.  First HubLink, for any number  *)
(* of slaves, ids and connections: joins that overlap, tasks that outlive  *)
(* their mode, handlers that find out late.  Then Relay, for any number of *)
(* slaves, sends and broken connections: where the packets of a send are,  *)
(* and so what its sender is told and for whom it waits.                   *)
(***************************************************************************)
EXTENDS HubLink, Relay, SequenceTheorems, TLAPS

---------------------------------------------------------------------------
(* HubLink.                                                                *)

Flags == hung \in BOOLEAN /\ should \in [Slaves -> BOOLEAN] /\ hostOn \in BOOLEAN

Message == {Leave} \union {Register(i) : i \in Ids}

\* TypeOK without the flags, in three parts.
CallTypes ==
    /\ mode \in Slaves \union {"off", "host"}
    /\ call \in [Slaves -> {"none", "dialing", "greeting", "deciding", "refused", "leaving"}]
    /\ task \in [Slaves -> {"none", "looping", "backoff", "dialing", "greeting", "stuck"}]

LinkTypes ==
    /\ id \in [Slaves -> Ids]
    /\ reader \in [Slaves -> 0..MaxSockets] /\ sender \in [Slaves -> 0..MaxSockets]
    /\ \A s \in Slaves : sender[s] \in {0, reader[s]}
    /\ wire \in [Sockets -> {"open", "lost", "silent"}]
    /\ queue \in [Sockets -> Seq(Message)]

HostTypes ==
    /\ handler \in [Sockets -> {"none", "waiting", "serving", "orphan"}]
    /\ held \in [Sockets -> Ids]
    /\ conns \in [Ids -> 0..MaxSockets]
    /\ alive \subseteq Sockets /\ robbed \subseteq Sockets

\* The table: who is in it, and who will take it out.
Table == HostTypes /\ ListedOnce /\ EntryServed

\* Which tasks go on reconnecting: leave_host stops them before it disconnects.
Stopping ==
    /\ CallTypes /\ Stoppable
    /\ \A s \in Slaves : call[s] = "leaving" => ~should[s]

LEMMA SomeIdIsId == SomeId \in Ids
BY HubAssumption DEF SomeId

LEMMA ZeroIsNoSocket == 0 \notin Sockets /\ Sockets \subseteq 0..MaxSockets /\ 0 \in 0..MaxSockets
BY HubAssumption DEF Sockets

LEMMA SentIsTyped ==
  ASSUME LinkTypes, NEW c \in 0..MaxSockets, NEW msg \in Message
  PROVE  Sent(c, msg) \in [Sockets -> Seq(Message)]
<1>1. CASE c = 0
  BY <1>1 DEF Sent, LinkTypes
<1>2. CASE c # 0
  <2>1. c \in Sockets
    BY <1>2, HubAssumption DEF Sockets
  <2>2. Append(queue[c], msg) \in Seq(Message)
    BY <2>1 DEF LinkTypes
  <2> QED
    BY <2>1, <2>2 DEF Sent, LinkTypes
<1> QED
  BY <1>1, <1>2

LEMMA HeadIsTyped ==
  ASSUME LinkTypes, NEW c \in Sockets, NEW kind, Receives(c, kind)
  PROVE  /\ Head(queue[c]) \in Message
         /\ Tail(queue[c]) \in Seq(Message)
         /\ kind = "register" => Head(queue[c]).id \in Ids
<1>1. queue[c] \in Seq(Message) /\ queue[c] # <<>>
  BY DEF LinkTypes, Receives
<1>2. Head(queue[c]) \in Message /\ Tail(queue[c]) \in Seq(Message)
  BY <1>1
<1>3. ASSUME kind = "register" PROVE Head(queue[c]).id \in Ids
  <2>1. Head(queue[c]).kind = "register"
    BY <1>3 DEF Receives
  <2>2. Head(queue[c]) # Leave
    BY <2>1 DEF Leave
  <2>3. PICK i \in Ids : Head(queue[c]) = Register(i)
    BY <1>2, <2>2 DEF Message
  <2> QED
    BY <2>3 DEF Register
<1> QED
  BY <1>2, <1>3

LEMMA FlagsStep == Flags /\ [Next]_vars => Flags'
<1> SUFFICES ASSUME Flags, [Next]_vars PROVE Flags'
  OBVIOUS
<1> USE DEF Flags, vars, engine, slave, net, host
<1>1. CASE EnableHost \/ DisableHost
  BY <1>1 DEF EnableHost, DisableHost
<1>2. ASSUME NEW s \in Slaves, Mode(s) PROVE Flags'
  BY <1>2 DEF Mode, BeginJoin, JoinDecides, BeginLeave, Disconnect, Notify
<1>3. ASSUME NEW s \in Slaves, Join(s) PROVE Flags'
  BY <1>3 DEF Join, JoinFails, JoinGreets, JoinGreetFails, JoinConnects, Forget, Connect
<1>4. ASSUME NEW s \in Slaves, Task(s) PROVE Flags'
  BY <1>4 DEF Task, LoopEnds, GiveUp, Redial, RedialFails, RedialConnects, Greet, GreetJams,
    Forget, Connect
<1>5. ASSUME NEW c \in Sockets, Handler(c) \/ Drop(c) \/ FallSilent(c) PROVE Flags'
  BY <1>5 DEF Handler, TakeRegister, Update, HeartbeatFails, NeverRegistered, CleanUp,
    OrphanEnds, HandlerEnds, Drop, FallSilent
<1>6. CASE HostEnables \/ HostDisables \/ HostRestarts \/ EngineRestarts
  BY <1>6 DEF HostEnables, HostDisables, HostRestarts, EngineRestarts
<1>7. CASE UNCHANGED vars
  BY <1>7
<1> QED
  BY <1>1, <1>2, <1>3, <1>4, <1>5, <1>6, <1>7 DEF Next

LEMMA LinkStep == LinkTypes /\ CallTypes /\ [Next]_vars => LinkTypes'
<1> SUFFICES ASSUME LinkTypes, CallTypes, [Next]_vars PROVE LinkTypes'
  OBVIOUS
<1> USE SomeIdIsId, ZeroIsNoSocket DEF vars, engine, slave, net, host
<1>1. CASE EnableHost \/ DisableHost
  BY <1>1 DEF EnableHost, DisableHost, LinkTypes
<1>2. ASSUME NEW s \in Slaves, Mode(s) PROVE LinkTypes'
  <2>1. CASE BeginJoin(s) \/ JoinDecides(s) \/ BeginLeave(s)
    BY <2>1 DEF BeginJoin, JoinDecides, BeginLeave, LinkTypes
  <2>2. CASE Disconnect(s) \/ Notify(s)
    <3>1. sender[s] \in 0..MaxSockets /\ Leave \in Message /\ Register(id[s]) \in Message
      BY DEF LinkTypes, Message
    <3>2. \A msg \in Message : Sent(sender[s], msg) \in [Sockets -> Seq(Message)]
      BY <3>1, SentIsTyped
    <3>3. queue' \in {queue, Sent(sender[s], Leave), Sent(sender[s], Register(id[s]))}
      BY <2>2 DEF Disconnect, Notify
    <3>4. queue' \in [Sockets -> Seq(Message)]
      BY <3>1, <3>2, <3>3 DEF LinkTypes
    <3> QED
      BY <2>2, <3>4 DEF Disconnect, Notify, LinkTypes
  <2> QED
    BY <1>2, <2>1, <2>2 DEF Mode
<1>3. ASSUME NEW s \in Slaves, Join(s) PROVE LinkTypes'
  <2>1. CASE JoinFails(s) \/ JoinGreetFails(s)
    BY <2>1 DEF JoinFails, JoinGreetFails, Forget, LinkTypes
  <2>2. ASSUME NEW c \in Sockets, JoinConnects(s, c) PROVE LinkTypes'
    BY <2>2 DEF JoinConnects, Connect, LinkTypes
  <2>3. CASE JoinGreets(s)
    <3>1. sender[s] \in 0..MaxSockets /\ Register(id[s]) \in Message
      BY DEF LinkTypes, Message
    <3> QED
      BY <2>3, <3>1, SentIsTyped DEF JoinGreets, LinkTypes
  <2> QED
    BY <1>3, <2>1, <2>2, <2>3 DEF Join
<1>4. ASSUME NEW s \in Slaves, Task(s) PROVE LinkTypes'
  <2>1. CASE LoopEnds(s) \/ GiveUp(s) \/ Redial(s) \/ RedialFails(s) \/ GreetJams(s)
    BY <2>1 DEF LoopEnds, GiveUp, Redial, RedialFails, GreetJams, Forget, LinkTypes
  <2>2. ASSUME NEW c \in Sockets, RedialConnects(s, c) PROVE LinkTypes'
    BY <2>2 DEF RedialConnects, Connect, LinkTypes
  <2>3. CASE Greet(s)
    <3>1. sender[s] \in 0..MaxSockets /\ Register(id[s]) \in Message
      BY DEF LinkTypes, Message
    <3> QED
      BY <2>3, <3>1, SentIsTyped DEF Greet, LinkTypes
  <2> QED
    BY <1>4, <2>1, <2>2, <2>3 DEF Task
<1>5. ASSUME NEW c \in Sockets, Handler(c) \/ Drop(c) \/ FallSilent(c) PROVE LinkTypes'
  <2>1. CASE TakeRegister(c) \/ Update(c)
    <3>1. Tail(queue[c]) \in Seq(Message)
      BY <2>1, HeadIsTyped DEF TakeRegister, Update
    <3> QED
      BY <2>1, <3>1 DEF TakeRegister, Update, Consume, LinkTypes
  <2>2. CASE HeartbeatFails(c) \/ Drop(c)
    BY <2>2 DEF HeartbeatFails, Drop, LinkTypes
  <2>3. CASE NeverRegistered(c) \/ CleanUp(c) \/ OrphanEnds(c)
    <3>1. HandlerEnds(c)
      BY <2>3 DEF NeverRegistered, CleanUp, OrphanEnds
    <3> QED
      BY <3>1 DEF HandlerEnds, Closed, LinkTypes
  <2>4. CASE FallSilent(c)
    <3>1. /\ wire' = [wire EXCEPT ![c] = "silent"] /\ queue' = [queue EXCEPT ![c] = <<>>]
          /\ UNCHANGED <<id, reader, sender>>
      BY <2>4 DEF FallSilent
    <3>2. <<>> \in Seq(Message)
      OBVIOUS
    <3> QED
      BY <3>1, <3>2 DEF LinkTypes
  <2> QED
    BY <1>5, <2>1, <2>2, <2>3, <2>4 DEF Handler
<1>6. CASE HostEnables \/ HostDisables
  BY <1>6 DEF HostEnables, HostDisables, LinkTypes
<1>7. CASE HostRestarts
  <2>1. queue' \in [Sockets -> Seq(Message)]
    BY <1>7 DEF HostRestarts
  <2> QED
    BY <1>7, <2>1 DEF HostRestarts, AllLost, Closed, LinkTypes
<1>8. CASE EngineRestarts
  BY <1>8 DEF EngineRestarts, AllLost, Closed, LinkTypes
<1>9. CASE UNCHANGED vars
  BY <1>9 DEF LinkTypes
<1> QED
  BY <1>1, <1>2, <1>3, <1>4, <1>5, <1>6, <1>7, <1>8, <1>9 DEF Next

\* An engine that steps by itself leaves the table alone.
TableKept == UNCHANGED <<handler, held, conns, alive>>

LEMMA TableStep == Table /\ LinkTypes /\ [Next]_vars => Table'
<1> SUFFICES ASSUME Table, LinkTypes, [Next]_vars PROVE Table'
  OBVIOUS
<1> USE SomeIdIsId, ZeroIsNoSocket DEF vars, engine, slave, net, host
<1>1. CASE TableKept /\ robbed' \subseteq robbed
  BY <1>1 DEF TableKept, Table, HostTypes, ListedOnce, EntryServed
<1>2. ASSUME NEW s \in Slaves, NEW c \in Sockets, Connect(s, c) PROVE Table'
  <2>1. \A i \in Ids : conns[i] # c
    BY <1>2 DEF Connect, Free, Unused, Deaf, Listed, Table, EntryServed
  <2> QED
    BY <1>2, <2>1 DEF Connect, Table, HostTypes, ListedOnce, EntryServed
<1>3. ASSUME NEW c \in Sockets, TakeRegister(c) PROVE Table'
  <2> DEFINE i == Head(queue[c]).id
  <2>1. i \in Ids
    BY <1>3, HeadIsTyped DEF TakeRegister
  <2>2. /\ held' = [held EXCEPT ![c] = i]
        /\ conns' = [j \in Ids |-> IF j = i THEN c ELSE 0]
        /\ handler' = [handler EXCEPT ![c] = "serving"]
        /\ alive' \subseteq alive \union {c}
        /\ robbed' \subseteq robbed \union Listed
    BY <1>3 DEF TakeRegister, TableWith, Robbed
  <2>3. Listed \subseteq Sockets
    BY HubAssumption DEF Table, HostTypes, Listed, Sockets
  <2> HIDE DEF i
  <2>4. HostTypes'
    BY <2>1, <2>2, <2>3 DEF Table, HostTypes
  <2>5. ListedOnce' /\ EntryServed'
    BY <2>1, <2>2 DEF Table, HostTypes, ListedOnce, EntryServed
  <2> QED
    BY <2>4, <2>5 DEF Table
<1>4. ASSUME NEW c \in Sockets, HeartbeatFails(c) PROVE Table'
  BY <1>4 DEF HeartbeatFails, Table, HostTypes, ListedOnce, EntryServed
<1>5. ASSUME NEW c \in Sockets, NeverRegistered(c) \/ OrphanEnds(c) PROVE Table'
  <2>1. \A i \in Ids : conns[i] # c
    BY <1>5 DEF NeverRegistered, OrphanEnds, Table, EntryServed
  <2>2. /\ handler' = [handler EXCEPT ![c] = "none"]
        /\ held' = [held EXCEPT ![c] = SomeId]
        /\ conns' = conns /\ alive' = alive /\ robbed' \subseteq robbed
    BY <1>5 DEF NeverRegistered, OrphanEnds, HandlerEnds
  <2>3. HostTypes'
    BY <2>2 DEF Table, HostTypes
  <2>4. ListedOnce' /\ EntryServed'
    BY <2>1, <2>2 DEF Table, HostTypes, ListedOnce, EntryServed
  <2> QED
    BY <2>3, <2>4 DEF Table
<1>6. ASSUME NEW c \in Sockets, CleanUp(c) PROVE Table'
  <2>1. /\ conns' = [conns EXCEPT ![held[c]] = 0]
        /\ handler' = [handler EXCEPT ![c] = "none"]
        /\ held' = [held EXCEPT ![c] = SomeId]
        /\ alive' = alive \ {c}
        /\ robbed' \subseteq robbed \union ({conns[held[c]]} \ {0})
    BY <1>6 DEF CleanUp, HandlerEnds, TableWithout, Robbed
  <2>2. held[c] \in Ids
    BY DEF Table, HostTypes
  <2>3. conns[held[c]] \in Sockets \union {0}
    BY <2>2, HubAssumption DEF Table, HostTypes, Sockets
  <2>4. \A i \in Ids : i # held[c] => conns[i] # c
    BY DEF Table, EntryServed
  <2>5. HostTypes'
    BY <1>6, <2>1, <2>2, <2>3 DEF Table, HostTypes
  <2>6. ListedOnce' /\ EntryServed'
    BY <2>1, <2>2, <2>4 DEF Table, HostTypes, ListedOnce, EntryServed
  <2> QED
    BY <2>5, <2>6 DEF Table
<1>7. CASE HostDisables \/ HostRestarts
  BY <1>7 DEF HostDisables, HostRestarts, AllLost, Table, HostTypes, ListedOnce, EntryServed
<1>8. CASE EnableHost \/ DisableHost \/ HostEnables \/ EngineRestarts \/ UNCHANGED vars
  BY <1>1, <1>8 DEF EnableHost, DisableHost, HostEnables, EngineRestarts, AllLost, TableKept
<1>9. ASSUME NEW s \in Slaves, Mode(s) PROVE Table'
  BY <1>1, <1>9 DEF Mode, BeginJoin, JoinDecides, BeginLeave, Disconnect, Notify, TableKept
<1>10. ASSUME NEW s \in Slaves, Join(s) PROVE Table'
  BY <1>1, <1>2, <1>10 DEF Join, JoinFails, JoinGreets, JoinGreetFails, JoinConnects, TableKept
<1>11. ASSUME NEW s \in Slaves, Task(s) PROVE Table'
  BY <1>1, <1>2, <1>11 DEF Task, LoopEnds, GiveUp, Redial, RedialFails, RedialConnects, Greet,
    GreetJams, TableKept
<1>12. ASSUME NEW c \in Sockets, Handler(c) \/ Drop(c) \/ FallSilent(c) PROVE Table'
  <2>1. CASE Update(c) \/ Drop(c) \/ FallSilent(c)
    BY <1>1, <2>1 DEF Update, Drop, FallSilent, TableKept
  <2> QED
    BY <1>3, <1>4, <1>5, <1>6, <1>12, <2>1 DEF Handler
<1> QED
  BY <1>7, <1>8, <1>9, <1>10, <1>11, <1>12 DEF Next

LEMMA StoppingStep == Stopping /\ Flags /\ [Next]_vars => Stopping'
<1> SUFFICES ASSUME Stopping, Flags, [Next]_vars PROVE Stopping'
  OBVIOUS
<1> USE HubAssumption DEF vars, engine, slave, net, host, Stopping, CallTypes, Stoppable, Flags
<1>1. CASE EnableHost \/ DisableHost
  BY <1>1 DEF EnableHost, DisableHost
<1>2. ASSUME NEW s \in Slaves, Mode(s) PROVE Stopping'
  <2>1. CASE BeginJoin(s)
    BY <2>1 DEF BeginJoin
  <2>2. CASE JoinDecides(s)
    BY <2>2 DEF JoinDecides
  <2>3. CASE BeginLeave(s)
    BY <2>3 DEF BeginLeave
  <2>4. CASE Disconnect(s) \/ Notify(s)
    BY <2>4 DEF Disconnect, Notify
  <2> QED
    BY <1>2, <2>1, <2>2, <2>3, <2>4 DEF Mode
<1>3. ASSUME NEW s \in Slaves, Join(s) PROVE Stopping'
  <2>1. CASE JoinFails(s) \/ JoinGreetFails(s)
    BY <2>1 DEF JoinFails, JoinGreetFails, Forget
  <2>2. CASE JoinGreets(s)
    BY <2>2 DEF JoinGreets
  <2>3. ASSUME NEW c \in Sockets, JoinConnects(s, c) PROVE Stopping'
    BY <2>3 DEF JoinConnects, Connect
  <2> QED
    BY <1>3, <2>1, <2>2, <2>3 DEF Join
<1>4. ASSUME NEW s \in Slaves, Task(s) PROVE Stopping'
  <2>1. CASE GiveUp(s)
    BY <2>1 DEF GiveUp, Forget
  <2>2. CASE LoopEnds(s) \/ Redial(s) \/ RedialFails(s) \/ Greet(s) \/ GreetJams(s)
    BY <2>2 DEF LoopEnds, Redial, RedialFails, Greet, GreetJams
  <2>3. ASSUME NEW c \in Sockets, RedialConnects(s, c) PROVE Stopping'
    BY <2>3 DEF RedialConnects, Connect
  <2> QED
    BY <1>4, <2>1, <2>2, <2>3 DEF Task
<1>5. ASSUME NEW c \in Sockets, Handler(c) \/ Drop(c) \/ FallSilent(c) PROVE Stopping'
  BY <1>5 DEF Handler, TakeRegister, Update, HeartbeatFails, NeverRegistered, CleanUp,
    OrphanEnds, HandlerEnds, Drop, FallSilent
<1>6. CASE HostEnables \/ HostDisables \/ HostRestarts
  BY <1>6 DEF HostEnables, HostDisables, HostRestarts
<1>7. CASE EngineRestarts
  BY <1>7 DEF EngineRestarts
<1>8. CASE UNCHANGED vars
  BY <1>8
<1> QED
  BY <1>1, <1>2, <1>3, <1>4, <1>5, <1>6, <1>7, <1>8 DEF Next

LEMMA InitHolds == Init => Flags /\ LinkTypes /\ Table /\ Stopping
<1> SUFFICES ASSUME Init PROVE Flags /\ LinkTypes /\ Table /\ Stopping
  OBVIOUS
<1> USE SomeIdIsId, ZeroIsNoSocket DEF Init
<1>1. Flags
  BY DEF Flags
<1>2. LinkTypes
  BY DEF LinkTypes
<1>3. Table
  BY DEF Table, HostTypes, ListedOnce, EntryServed
<1>4. Stopping
  BY DEF Stopping, CallTypes, Stoppable
<1> QED
  BY <1>1, <1>2, <1>3, <1>4

LEMMA Inductive == Spec => [](Flags /\ LinkTypes /\ Table /\ Stopping)
<1>1. Stopping => CallTypes
  BY DEF Stopping
<1> QED
  BY <1>1, InitHolds, FlagsStep, LinkStep, TableStep, StoppingStep, PTL DEF Spec

\* Type correctness of both ends, and a slave never writes to a connection it
\* does not read from.
THEOREM TypeCorrect == Spec => []TypeOK
<1>1. Flags /\ LinkTypes /\ Table /\ Stopping => TypeOK
  BY DEF Flags, LinkTypes, Table, HostTypes, Stopping, CallTypes, TypeOK, Message
<1> QED
  BY <1>1, Inductive, PTL

\* The host never has the engine in its table twice, however many connections
\* and ids it has had.
THEOREM EngineIsListedOnce == Spec => []ListedOnce
<1>1. Table => ListedOnce
  BY DEF Table
<1> QED
  BY <1>1, Inductive, PTL

\* No entry outlives its connection: a handler still serves each one.
THEOREM EveryEntryIsServed == Spec => []EntryServed
<1>1. Table => EntryServed
  BY DEF Table
<1> QED
  BY <1>1, Inductive, PTL

\* Only a refused join leaves behind a task that nothing can stop.
THEOREM TasksAreStoppable == Spec => []Stoppable
<1>1. Stopping => Stoppable
  BY DEF Stopping
<1> QED
  BY <1>1, Inductive, PTL

---------------------------------------------------------------------------
(* Relay.                                                                  *)

(***************************************************************************)
(* Where the packets of a send are.                                        *)

Whats == {"request", "ok", "err"}
Mail == [send : Sends, kind : Kinds, what : Whats]
Letters(m) == {p \in Mail : p.send = m}
Has(q, p) == \E i \in DOMAIN q : q[i] = p
Single(q) == \A i, j \in DOMAIN q : q[i] = q[j] => i = j
InUp(p) == \E s \in Joined : Has(up[s], p)
InDown(p) == \E s \in Joined : Has(down[s], p)
IsReply(p) == p.kind = "relay" /\ p.what # "request"
Handled(m) == \E r \in Joined : busy[r] = m
Proxied(m) == \E s \in Joined : working[s] = m
Quiet(m) == ~Handled(m) /\ ~Proxied(m) /\ \A p \in Letters(m) : ~InUp(p) /\ ~InDown(p)

Stories == [at : Kinds \cup {"unborn", "listed", "done"}, src : Engines, dst : Engines,
            age : Nat, told : {None, "ok", "err"}]

RelayTypes ==
  /\ sent \in [Sends -> Stories]
  /\ copies \in [Sends -> {0, 1}] /\ struck \in [Sends -> BOOLEAN]
  /\ up \in [Joined -> Seq(Mail)]
  /\ down \in [Joined -> Seq(Mail)]
  /\ works \in [Joined -> BOOLEAN] /\ cuts \in Nat
  /\ hostEnd \in [Joined -> {"up", "closing", "down"}] /\ slaveEnd \in [Joined -> {"up", "closing", "down"}]
  /\ busy \in [Joined -> Sends \cup {None}] /\ age \in [Joined -> Nat]
  /\ working \in [Joined -> Sends \cup {None}]

LinkSound ==
  \A s \in Joined :
    /\ Single(up[s]) /\ Single(down[s])
    /\ works[s] => hostEnd[s] = "up" /\ slaveEnd[s] = "up"

Addressed(m) ==
  /\ \A s \in Joined, p \in Letters(m) :
       /\ Has(up[s], p) =>
            IF p.what = "request" THEN p.kind \in {"contacts", "relay"} /\ s = sent[m].src
            ELSE p.kind \in {"relay", "http"} /\ s = sent[m].dst
       /\ Has(down[s], p) =>
            IF p.what = "request" THEN p.kind \in {"relay", "http"} /\ s = sent[m].dst
            ELSE p.kind \in {"contacts", "relay"} /\ s = sent[m].src
  /\ \A s \in Joined : busy[s] = m => s = sent[m].src /\ sent[m].dst \in Joined
  /\ \A s \in Joined : working[s] = m => s = sent[m].dst

OneLetter(m) ==
  /\ \A p, q \in Letters(m) :
       /\ InUp(p) /\ InUp(q) => p = q
       /\ InDown(p) /\ InDown(q) /\ (IsReply(p) <=> IsReply(q)) => p = q
       /\ InUp(p) /\ InDown(q) => IsReply(q) /\ p.what # "request"
       /\ InDown(p) /\ InDown(q) /\ IsReply(p) => q.kind = "relay"
  /\ Proxied(m) => ~Handled(m) /\ \A p \in Letters(m) : ~InUp(p) /\ ~InDown(p)
  /\ Handled(m) => \A p \in Letters(m) :
       /\ InUp(p) => IsReply(p)
       /\ InDown(p) => p = Packet(m, "relay", "request")

Early(m) ==
  /\ sent[m].at \in {"unborn", "listed"} => Quiet(m)
  /\ sent[m].at \in {"unborn", "listed", "contacts"} => copies[m] = 0 /\ ~Handled(m) /\ ~Proxied(m)
  /\ \A p \in Letters(m) : InUp(p) \/ InDown(p) =>
       /\ sent[m].at = "contacts" => p.kind = "contacts"
       /\ p.kind = "contacts" => sent[m].at \in {"contacts", "done"} /\ copies[m] = 0
  /\ sent[m].told # None => sent[m].at = "done"
  /\ sent[m].at \in {"unborn", "http"} => sent[m].src = Host
  /\ sent[m].at \in {"contacts", "listed"} => sent[m].src # Host
  /\ sent[m].at \in Kinds /\ sent[m].src = Host => sent[m].dst # Host

Written(m) ==
  /\ \A p \in Letters(m) : (InUp(p) \/ InDown(p)) /\ p.kind # "contacts" =>
       /\ p.what = "request" => copies[m] = 0
       /\ p.what = "ok" => copies[m] = 1
  /\ Proxied(m) => copies[m] = 1
  /\ sent[m].told = "ok" => copies[m] = 1

Unstruck(m) ==
  /\ sent[m].at = "done" => Quiet(m)
  /\ sent[m].told = "err" => copies[m] = 0
  /\ sent[m].age = 0 /\ \A s \in Joined : busy[s] = m => age[s] = 0
  /\ \A p, q \in Letters(m) : InDown(p) /\ IsReply(p) => ~InUp(q) /\ (InDown(q) => q = p)
  /\ \A p \in Letters(m) : (InUp(p) \/ InDown(p)) /\ p.kind # "contacts" /\ p.what = "err" => copies[m] = 0
  /\ \A s \in Joined : ~works[s] =>
       /\ \A p \in Letters(m) : ~Has(up[s], p) /\ ~Has(down[s], p)
       /\ working[s] # m
       /\ FromSlave(m, s) => copies[m] = 0 /\ Quiet(m)
  /\ copies[m] = 1 /\ Waiting(m) =>
       \/ InDown(Packet(m, "relay", "ok"))
       \/ /\ sent[m].src = Host \/ Handled(m)
          /\ InUp(Packet(m, "relay", "ok")) \/ InUp(Packet(m, "http", "ok")) \/ Proxied(m)
  /\ \A p \in Letters(m) :
       sent[m].src # Host /\ ((InDown(p) /\ p.what = "request") \/ (InUp(p) /\ p.what # "request" )) => Handled(m)

Flows(m) ==
  /\ \A s \in Joined : hostEnd[s] = "down" /\ sent[m].dst = s => ~FromHost(m) /\ ~Handled(m)
  /\ \A s \in Joined : slaveEnd[s] = "down" => ~FromSlave(m, s)
  /\ FromHost(m) /\ works[sent[m].dst] => Proxied(m) \/ \E p \in Letters(m) : InUp(p) \/ InDown(p)
  /\ sent[m].at = "contacts" /\ works[sent[m].src] => \E p \in Letters(m) : InUp(p) \/ InDown(p)
  /\ sent[m].at = "relay" /\ sent[m].src # Host /\ works[sent[m].src] =>
       \/ Handled(m) \/ InUp(Packet(m, "relay", "request"))
       \/ InDown(Packet(m, "relay", "ok")) \/ InDown(Packet(m, "relay", "err"))
  /\ Handled(m) /\ works[sent[m].dst] =>
       \E p \in Letters(m) : InDown(p) \/ InUp(p)

Sound(m) == Addressed(m) /\ OneLetter(m) /\ Early(m) /\ Written(m) /\ (~struck[m] => Unstruck(m)) /\ Flows(m)
RelayInv == RelayTypes /\ LinkSound /\ \A m \in Sends : Sound(m)

---------------------------------------------------------------------------
(* Queues.                                                                 *)

LEMMA PacketFields ==
  ASSUME NEW m \in Sends, NEW kind \in Kinds, NEW what \in Whats
  PROVE  /\ Packet(m, kind, what) \in Letters(m) /\ Packet(m, kind, what) \in Mail
         /\ Packet(m, kind, what).send = m /\ Packet(m, kind, what).kind = kind
         /\ Packet(m, kind, what).what = what
BY DEF Packet, Letters, Mail

LEMMA SamePacket ==
  ASSUME NEW p \in Mail
  PROVE  p = Packet(p.send, p.kind, p.what) /\ p.send \in Sends /\ p.kind \in Kinds /\ p.what \in Whats
BY DEF Packet, Mail

LEMMA Appended ==
  ASSUME NEW q \in Seq(Mail), NEW x \in Mail
  PROVE  /\ Append(q, x) \in Seq(Mail)
         /\ \A p : Has(Append(q, x), p) <=> Has(q, p) \/ p = x
         /\ Single(q) /\ ~Has(q, x) => Single(Append(q, x))
<1>1. /\ Append(q, x) \in Seq(Mail) /\ Len(Append(q, x)) = Len(q) + 1 /\ Len(q) \in Nat
      /\ DOMAIN q = 1..Len(q) /\ DOMAIN Append(q, x) = 1..(Len(q) + 1)
      /\ \A i \in 1..Len(q) : Append(q, x)[i] = q[i]
      /\ Append(q, x)[Len(q) + 1] = x
  BY AppendProperties, LenProperties
<1>2. \A p : Has(Append(q, x), p) <=> Has(q, p) \/ p = x
  BY <1>1 DEF Has
<1>3. ASSUME Single(q), ~Has(q, x) PROVE Single(Append(q, x))
  BY <1>1, <1>3 DEF Has, Single
<1> QED
  BY <1>1, <1>2, <1>3

LEMMA Popped ==
  ASSUME NEW q \in Seq(Mail), q # <<>>
  PROVE  /\ Tail(q) \in Seq(Mail) /\ Head(q) \in Mail /\ Has(q, Head(q))
         /\ Single(q) => Single(Tail(q)) /\ \A p : Has(Tail(q), p) <=> Has(q, p) /\ p # Head(q)
<1>1. /\ Tail(q) \in Seq(Mail) /\ Head(q) \in Mail /\ Len(q) \in Nat \ {0}
      /\ DOMAIN q = 1..Len(q) /\ DOMAIN Tail(q) = 1..(Len(q) - 1)
      /\ \A i \in 1..(Len(q) - 1) : Tail(q)[i] = q[i + 1]
      /\ Head(q) = q[1]
  BY HeadTailProperties, LenProperties, EmptySeq
<1>2. Has(q, Head(q))
  BY <1>1 DEF Has
<1>3. ASSUME Single(q) PROVE Single(Tail(q))
  BY <1>1, <1>3 DEF Single
<1>4. ASSUME Single(q), NEW p PROVE Has(Tail(q), p) <=> Has(q, p) /\ p # Head(q)
  <2>1. ASSUME Has(Tail(q), p) PROVE Has(q, p) /\ p # Head(q)
    <3>1. PICK i \in 1..(Len(q) - 1) : q[i + 1] = p
      BY <1>1, <2>1 DEF Has
    <3>2. i + 1 \in 1..Len(q) /\ 1 \in 1..Len(q) /\ i + 1 # 1
      BY <1>1
    <3> QED
      BY <1>1, <1>4, <3>1, <3>2 DEF Has, Single
  <2>2. ASSUME Has(q, p), p # Head(q) PROVE Has(Tail(q), p)
    <3>1. PICK i \in 1..Len(q) : q[i] = p
      BY <1>1, <2>2 DEF Has
    <3>2. i # 1 /\ i - 1 \in 1..(Len(q) - 1) /\ Tail(q)[i - 1] = q[i]
      BY <1>1, <2>2, <3>1
    <3> QED
      BY <1>1, <3>1, <3>2 DEF Has
  <2> QED
    BY <2>1, <2>2
<1> QED
  BY <1>1, <1>2, <1>3, <1>4

LEMMA Shortened ==
  ASSUME NEW q \in Seq(Mail), NEW i \in 0..Len(q)
  PROVE  /\ SubSeq(q, 1, i) \in Seq(Mail)
         /\ \A p : Has(SubSeq(q, 1, i), p) => Has(q, p)
         /\ Single(q) => Single(SubSeq(q, 1, i))
<1>1. Len(q) \in Nat /\ DOMAIN q = 1..Len(q)
  BY LenProperties
<1>2. \A k \in 1..i : k \in 1..Len(q)
  BY <1>1
<1>3. SubSeq(q, 1, i) \in Seq(Mail) /\ DOMAIN SubSeq(q, 1, i) = 1..i /\ \A k \in 1..i : SubSeq(q, 1, i)[k] = q[k]
  <2>1. SubSeq(q, 1, i) = [k \in 1..i |-> q[k]]
    BY <1>1, SMT
  <2>2. \A k \in 1..i : q[k] \in Mail
    BY <1>2, ElementOfSeq
  <2> QED
    BY <1>1, <2>1, <2>2, IsASeq
<1> QED
  BY <1>1, <1>2, <1>3 DEF Has, Single

LEMMA Holding ==
  ASSUME NEW lane \in [Joined -> Seq(Mail)], NEW s \in Joined, NEW x \in Mail
  PROVE  /\ Put(lane, s, x) \in [Joined -> Seq(Mail)]
         /\ \A t \in Joined : \A p : Has(Put(lane, s, x)[t], p) <=> Has(lane[t], p) \/ (works[s] /\ t = s /\ p = x)
         /\ (\A t \in Joined : Single(lane[t])) /\ ~Has(lane[s], x) =>
              \A t \in Joined : Single(Put(lane, s, x)[t])
<1>1. CASE works[s]
  <2>1. Put(lane, s, x) = [lane EXCEPT ![s] = Append(@, x)]
    BY <1>1 DEF Put
  <2>2. lane[s] \in Seq(Mail)
    OBVIOUS
  <2> QED
    BY <1>1, <2>1, <2>2, Appended
<1>2. CASE ~works[s]
  BY <1>2 DEF Put
<1> QED
  BY <1>1, <1>2

LEMMA Taking ==
  ASSUME NEW lane \in [Joined -> Seq(Mail)], NEW s \in Joined, lane[s] # <<>>,
         \A t \in Joined : Single(lane[t])
  PROVE  /\ Pop(lane, s) \in [Joined -> Seq(Mail)] /\ Head(lane[s]) \in Mail /\ Has(lane[s], Head(lane[s]))
         /\ \A t \in Joined : \A p : Has(Pop(lane, s)[t], p) <=> Has(lane[t], p) /\ ~(t = s /\ p = Head(lane[s]))
         /\ \A t \in Joined : Single(Pop(lane, s)[t])
<1>1. lane[s] \in Seq(Mail)
  OBVIOUS
<1>2. Pop(lane, s) = [lane EXCEPT ![s] = Tail(@)]
  BY DEF Pop
<1> QED
  BY <1>1, <1>2, Popped

---------------------------------------------------------------------------
(* What a step does to the packets.                                        *)

LEMMA UpTaken ==
  ASSUME RelayInv, NEW s \in Joined, up[s] # <<>>, up' = Pop(up, s)
  PROVE  /\ Head(up[s]) \in Mail /\ Has(up[s], Head(up[s])) /\ InUp(Head(up[s]))
         /\ up' \in [Joined -> Seq(Mail)] /\ \A t \in Joined : Single(up'[t])
         /\ \A t \in Joined, p \in Mail : Has(up'[t], p) <=> Has(up[t], p) /\ p # Head(up[s])
         /\ \A p \in Mail : InUp(p)' <=> InUp(p) /\ p # Head(up[s])
<1> DEFINE h == Head(up[s])
<1>1. up \in [Joined -> Seq(Mail)] /\ \A t \in Joined : Single(up[t])
  BY DEF RelayInv, RelayTypes, LinkSound
<1>2. /\ up' \in [Joined -> Seq(Mail)] /\ h \in Mail /\ Has(up[s], h)
      /\ \A t \in Joined : \A p : Has(up'[t], p) <=> Has(up[t], p) /\ ~(t = s /\ p = h)
      /\ \A t \in Joined : Single(up'[t])
  BY <1>1, Taking
<1>3. \A t \in Joined : Has(up[t], h) => t = s
  <2>1. h.send \in Sends /\ h \in Letters(h.send)
    BY <1>2 DEF Mail, Letters
  <2>2. Addressed(h.send)
    BY <2>1 DEF RelayInv, Sound
  <2> QED
    BY <1>2, <2>1, <2>2 DEF Addressed
<1>4. \A t \in Joined, p \in Mail : Has(up'[t], p) <=> Has(up[t], p) /\ p # h
  BY <1>2, <1>3
<1> QED
  BY <1>2, <1>4 DEF InUp

LEMMA DownTaken ==
  ASSUME RelayInv, NEW s \in Joined, down[s] # <<>>, down' = Pop(down, s)
  PROVE  /\ Head(down[s]) \in Mail /\ Has(down[s], Head(down[s])) /\ InDown(Head(down[s]))
         /\ down' \in [Joined -> Seq(Mail)] /\ \A t \in Joined : Single(down'[t])
         /\ \A t \in Joined, p \in Mail : Has(down'[t], p) <=> Has(down[t], p) /\ p # Head(down[s])
         /\ \A p \in Mail : InDown(p)' <=> InDown(p) /\ p # Head(down[s])
<1> DEFINE h == Head(down[s])
<1>1. down \in [Joined -> Seq(Mail)] /\ \A t \in Joined : Single(down[t])
  BY DEF RelayInv, RelayTypes, LinkSound
<1>2. /\ down' \in [Joined -> Seq(Mail)] /\ h \in Mail /\ Has(down[s], h)
      /\ \A t \in Joined : \A p : Has(down'[t], p) <=> Has(down[t], p) /\ ~(t = s /\ p = h)
      /\ \A t \in Joined : Single(down'[t])
  BY <1>1, Taking
<1>3. \A t \in Joined : Has(down[t], h) => t = s
  <2>1. h.send \in Sends /\ h \in Letters(h.send)
    BY <1>2 DEF Mail, Letters
  <2>2. Addressed(h.send)
    BY <2>1 DEF RelayInv, Sound
  <2> QED
    BY <1>2, <2>1, <2>2 DEF Addressed
<1>4. \A t \in Joined, p \in Mail : Has(down'[t], p) <=> Has(down[t], p) /\ p # h
  BY <1>2, <1>3
<1> QED
  BY <1>2, <1>4 DEF InDown

LEMMA UpPut ==
  ASSUME RelayInv, NEW s \in Joined, NEW x \in Mail, ~InUp(x), up' = Put(up, s, x)
  PROVE  /\ up' \in [Joined -> Seq(Mail)] /\ \A t \in Joined : Single(up'[t])
         /\ \A t \in Joined, p \in Mail : Has(up'[t], p) <=> Has(up[t], p) \/ (works[s] /\ t = s /\ p = x)
         /\ \A p \in Mail : InUp(p)' <=> InUp(p) \/ (works[s] /\ p = x)
<1>1. up \in [Joined -> Seq(Mail)] /\ \A t \in Joined : Single(up[t])
  BY DEF RelayInv, RelayTypes, LinkSound
<1>2. ~Has(up[s], x)
  BY DEF InUp
<1>3. /\ up' \in [Joined -> Seq(Mail)] /\ \A t \in Joined : Single(up'[t])
      /\ \A t \in Joined, p \in Mail : Has(up'[t], p) <=> Has(up[t], p) \/ (works[s] /\ t = s /\ p = x)
  BY <1>1, <1>2, Holding
<1> QED
  BY <1>3 DEF InUp

LEMMA DownPut ==
  ASSUME RelayInv, NEW s \in Joined, NEW x \in Mail, ~InDown(x), down' = Put(down, s, x)
  PROVE  /\ down' \in [Joined -> Seq(Mail)] /\ \A t \in Joined : Single(down'[t])
         /\ \A t \in Joined, p \in Mail : Has(down'[t], p) <=> Has(down[t], p) \/ (works[s] /\ t = s /\ p = x)
         /\ \A p \in Mail : InDown(p)' <=> InDown(p) \/ (works[s] /\ p = x)
<1>1. down \in [Joined -> Seq(Mail)] /\ \A t \in Joined : Single(down[t])
  BY DEF RelayInv, RelayTypes, LinkSound
<1>2. ~Has(down[s], x)
  BY DEF InDown
<1>3. /\ down' \in [Joined -> Seq(Mail)] /\ \A t \in Joined : Single(down'[t])
      /\ \A t \in Joined, p \in Mail : Has(down'[t], p) <=> Has(down[t], p) \/ (works[s] /\ t = s /\ p = x)
  BY <1>1, <1>2, Holding
<1> QED
  BY <1>3 DEF InDown

\* Nothing happens to m.
Spared(m) ==
  /\ sent'[m] = sent[m] /\ copies'[m] = copies[m] /\ struck'[m] = struck[m]
  /\ \A s \in Joined, p \in Letters(m) : (Has(up'[s], p) <=> Has(up[s], p)) /\ (Has(down'[s], p) <=> Has(down[s], p))
  /\ \A s \in Joined : /\ (busy'[s] = m <=> busy[s] = m) /\ (busy[s] = m => age'[s] = age[s])
                       /\ (working'[s] = m <=> working[s] = m)

LEMMA SparedIsSound ==
  ASSUME NEW m \in Sends, Sound(m), Spared(m), UNCHANGED links
  PROVE  Sound(m)'
<1>1. works' = works /\ hostEnd' = hostEnd /\ slaveEnd' = slaveEnd
  BY DEF links
<1>2. /\ sent'[m] = sent[m] /\ copies'[m] = copies[m] /\ struck'[m] = struck[m]
      /\ \A s \in Joined, p \in Letters(m) : (Has(up'[s], p) <=> Has(up[s], p)) /\ (Has(down'[s], p) <=> Has(down[s], p))
      /\ \A p \in Letters(m) : (InUp(p)' <=> InUp(p)) /\ (InDown(p)' <=> InDown(p))
      /\ \A s \in Joined : /\ (busy'[s] = m <=> busy[s] = m) /\ (busy[s] = m => age'[s] = age[s])
                           /\ (working'[s] = m <=> working[s] = m)
      /\ (Handled(m)' <=> Handled(m)) /\ (Proxied(m)' <=> Proxied(m))
  BY DEF Spared, InUp, InDown, Handled, Proxied
<1>3. (Quiet(m)' <=> Quiet(m)) /\ (Waiting(m)' <=> Waiting(m)) /\ (FromHost(m)' <=> FromHost(m))
      /\ \A s : FromSlave(m, s)' <=> FromSlave(m, s)
  BY <1>2 DEF Quiet, Waiting, FromHost, FromSlave
<1>4. Addressed(m)'
  BY <1>2 DEF Sound, Addressed
<1>5. OneLetter(m)'
  BY <1>2 DEF Sound, OneLetter, IsReply
<1>6. Early(m)'
  BY <1>2, <1>3 DEF Sound, Early
<1>7. Written(m)'
  BY <1>2 DEF Sound, Written
<1>8. ASSUME ~struck'[m] PROVE Unstruck(m)'
  <2>1. Unstruck(m)
    BY <1>2, <1>8 DEF Sound
  <2> QED
    BY <1>1, <1>2, <1>3, <2>1, PacketFields DEF Unstruck, IsReply, Kinds, Whats
<1>9. Flows(m)'
  BY <1>1, <1>2, <1>3, PacketFields DEF Sound, Flows, Kinds, Whats
<1> QED
  BY <1>4, <1>5, <1>6, <1>7, <1>8, <1>9 DEF Sound

---------------------------------------------------------------------------
(* The steps.                                                              *)

LEMMA OneSendAtATime ==
  ASSUME RelayInv, RelayTypes', LinkSound', UNCHANGED links,
         NEW m \in Sends, Sound(m)', \A n \in Sends \ {m} : Spared(n)
  PROVE  RelayInv'
BY SparedIsSound DEF RelayInv

LEMMA SlaveDeliversSafely ==
  ASSUME RelayInv, NEW s \in Joined, SlaveDelivers(s)
  PROVE  RelayInv'
<1>1. PICK h \in Mail, m \in Sends : h = Head(down[s]) /\ InDown(h) /\ Has(down[s], h) /\ m = h.send
           /\ m # None /\ h \in Letters(m) /\ h = Packet(m, "relay", "request") /\ h.what = "request" /\ h.kind = "relay"
  BY DownTaken, SamePacket, RelayAssumption DEF SlaveDelivers, SlaveReads, Letters, None
<1>2. Sound(m) /\ RelayTypes /\ LinkSound
  BY <1>1 DEF RelayInv
<1>3. PICK ok \in BOOLEAN : Deliver(m, ok) /\ up' = Put(up, s, Packet(m, "relay", Verdict(ok)))
  BY <1>1 DEF SlaveDelivers, Reply
<1>4. PICK x \in Letters(m), what \in {"ok", "err"} :
        /\ x = Packet(m, "relay", what) /\ what = Verdict(ok) /\ x \in Mail /\ x.kind = "relay" /\ x.what = what
        /\ (ok <=> what = "ok")
  BY <1>1, PacketFields DEF Verdict, Kinds, Whats
<1>5. \A p \in Letters(m) : ~InUp(p)
  BY <1>1, <1>2 DEF Sound, OneLetter, IsReply
<1>6. copies[m] = 0 /\ copies' = [copies EXCEPT ![m] = copies'[m]] /\ copies'[m] \in {0, 1} /\ (copies'[m] = 1 <=> what = "ok")
  <2>1. copies[m] = 0
    BY <1>1, <1>2 DEF Sound, Written
  <2>2. CASE ok
    <3>1. copies' = [copies EXCEPT ![m] = copies[m] + 1]
      BY <1>3, <2>2 DEF Deliver
    <3>2. copies' = [copies EXCEPT ![m] = 1] /\ copies \in [Sends -> {0, 1}]
      BY <1>2, <2>1, <3>1 DEF RelayTypes
    <3> QED
      BY <1>4, <2>1, <2>2, <3>2
  <2>3. CASE ~ok
    BY <1>1, <1>2, <1>3, <1>4, <2>1, <2>3 DEF Deliver, RelayTypes
  <2> QED
    BY <2>1, <2>2, <2>3
<1>7. /\ \A t \in Joined, p \in Letters(m) : Has(up'[t], p) <=> (works[s] /\ t = s /\ p = x)
      /\ \A p \in Letters(m) : InUp(p)' <=> (works[s] /\ p = x)
      /\ \A t \in Joined, p \in Letters(m) : Has(down'[t], p) <=> Has(down[t], p) /\ p # h
      /\ \A p \in Letters(m) : InDown(p)' <=> InDown(p) /\ p # h
  BY <1>1, <1>3, <1>4, <1>5, UpPut, DownTaken DEF SlaveDelivers, SlaveReads, Letters, InUp
<1>8. sent' = sent /\ struck' = struck /\ busy' = busy /\ age' = age /\ working' = working /\ UNCHANGED links
      /\ works' = works /\ hostEnd' = hostEnd /\ slaveEnd' = slaveEnd /\ cuts' = cuts
  BY DEF SlaveDelivers, links, readers
<1>9. RelayTypes' /\ LinkSound'
  <2>1. down' = Pop(down, s) /\ down[s] # <<>>
    BY DEF SlaveDelivers, SlaveReads
  <2>2. up' \in [Joined -> Seq(Mail)] /\ \A t \in Joined : Single(up'[t])
    BY <1>3, <1>4, <1>5, UpPut
  <2>3. down' \in [Joined -> Seq(Mail)] /\ \A t \in Joined : Single(down'[t])
    BY <2>1, DownTaken
  <2>4. copies' \in [Sends -> {0, 1}]
    BY <1>2, <1>6 DEF RelayTypes
  <2> QED
    BY <1>2, <1>8, <2>2, <2>3, <2>4 DEF RelayTypes, LinkSound
<1>10. \A n \in Sends \ {m} : Spared(n)
  BY <1>1, <1>2, <1>3, <1>4, <1>5, <1>6, <1>8, UpPut, DownTaken
     DEF Spared, Letters, SlaveDelivers, SlaveReads, RelayTypes
<1>11. (Handled(m)' <=> Handled(m)) /\ (Proxied(m)' <=> Proxied(m)) /\ ~Proxied(m)
  BY <1>1, <1>2, <1>8 DEF Handled, Proxied, Sound, OneLetter
<1>12. Addressed(m)'
  <2>1. Addressed(m) /\ s = sent[m].dst
    BY <1>1, <1>2 DEF Sound, Addressed
  <2>2. ASSUME NEW t \in Joined, NEW p \in Letters(m), Has(up'[t], p)
        PROVE  p.what # "request" /\ p.kind \in {"relay", "http"} /\ t = sent'[m].dst
    <3>1. t = s /\ p = x
      BY <1>7, <2>2
    <3> QED
      BY <1>4, <1>8, <2>1, <3>1
  <2>3. \A t \in Joined, p \in Letters(m) : Has(down'[t], p) => Has(down[t], p)
    BY <1>7
  <2> QED
    BY <1>8, <2>1, <2>2, <2>3 DEF Addressed
<1>13. OneLetter(m)'
  BY <1>1, <1>2, <1>4, <1>7, <1>8, <1>11 DEF Sound, OneLetter, IsReply
<1>14. sent[m].at \in {"relay", "http", "done"} /\ (sent[m].at = "done" => struck[m])
  BY <1>1, <1>2 DEF Sound, Early, Unstruck, Quiet, RelayTypes, Stories, Kinds
<1>15. Early(m)'
  BY <1>1, <1>2, <1>4, <1>6, <1>7, <1>8, <1>11, <1>14 DEF Sound, Early, Quiet, OneLetter, IsReply
<1>16. Written(m)'
  BY <1>1, <1>2, <1>4, <1>6, <1>7, <1>8, <1>11 DEF Sound, Written, OneLetter, IsReply
<1>17. ASSUME ~struck'[m] PROVE Unstruck(m)'
  <2>1. Unstruck(m) /\ ~struck[m]
    BY <1>2, <1>8, <1>17 DEF Sound
  <2>2. sent[m].at # "done" /\ sent[m].told # "err" /\ sent[m].age = 0 /\ \A t \in Joined : busy[t] = m => age[t] = 0
    BY <1>1, <1>2, <1>14, <2>1 DEF Unstruck, Sound, Early, None
  <2>3. works[s]
    BY <1>1, <2>1 DEF Unstruck
  <2>4. sent[m].src = Host \/ Handled(m)
    BY <1>1, <2>1 DEF Unstruck
  <2>5. \A p \in Letters(m) : ~InDown(p)'
    BY <1>1, <1>2, <1>4, <1>7, <2>1 DEF Unstruck, Sound, OneLetter, IsReply
  <2>6. \A t \in Joined : ~works[t] =>
          /\ \A p \in Letters(m) : ~Has(up'[t], p) /\ ~Has(down'[t], p)
          /\ working'[t] # m /\ ~FromSlave(m, t)'
    BY <1>1, <1>7, <1>8, <2>1, <2>3 DEF Unstruck, Quiet, FromSlave, Waiting
  <2>7. \A p \in Letters(m) : (InUp(p)' \/ InDown(p)') /\ p.kind # "contacts" /\ p.what = "err" => copies'[m] = 0
    BY <1>4, <1>6, <1>7, <2>5
  <2>8. copies'[m] = 1 => InUp(Packet(m, "relay", "ok"))'
    BY <1>4, <1>6, <1>7, <2>3
  <2> QED
    BY <1>8, <1>11, <2>2, <2>4, <2>5, <2>6, <2>7, <2>8 DEF Unstruck
<1>18. Flows(m)'
  <2>1. works[s] => \E p \in Letters(m) : InUp(p)'
    BY <1>7
  <2>2. sent[m].dst = s
    BY <1>1, <1>2 DEF Sound, Addressed
  <2>3. h # Packet(m, "relay", "ok") /\ h # Packet(m, "relay", "err")
        /\ Packet(m, "relay", "ok") \in Letters(m) /\ Packet(m, "relay", "err") \in Letters(m)
        /\ Packet(m, "relay", "request") \in Letters(m)
    BY <1>1, PacketFields DEF Kinds, Whats
  <2>4. sent[m].at = "relay" /\ sent[m].src # Host /\ works[sent[m].src] =>
         \/ Handled(m) \/ InDown(Packet(m, "relay", "ok")) \/ InDown(Packet(m, "relay", "err"))
    BY <1>2, <1>5, <2>3 DEF Sound, Flows
  <2>5. sent[m].at = "relay" /\ sent[m].src # Host /\ works[sent[m].src] =>
         \/ Handled(m)' \/ InDown(Packet(m, "relay", "ok"))' \/ InDown(Packet(m, "relay", "err"))'
    BY <1>7, <1>11, <2>3, <2>4
  <2> QED
    BY <1>2, <1>8, <1>11, <1>14, <2>1, <2>2, <2>5 DEF Sound, Flows, FromHost, FromSlave, Waiting
<1> QED
  BY <1>9, <1>10, <1>12, <1>13, <1>15, <1>16, <1>17, <1>18, OneSendAtATime, <1>1, <1>8 DEF Sound

LEMMA RequestAtHost ==
  ASSUME NEW m \in Sends, Sound(m), NEW s \in Joined, NEW h \in Letters(m), Has(up[s], h), h.what = "request"
  PROVE  /\ sent[m].src = s /\ s # Host /\ h.kind \in {"contacts", "relay"}
         /\ ~Handled(m) /\ ~Proxied(m)
         /\ \A p \in Letters(m) : (InUp(p) <=> p = h) /\ ~InDown(p)
         /\ \A t \in Joined, p \in Letters(m) : (Has(up[t], p) <=> t = s /\ p = h) /\ ~Has(down[t], p)
         /\ copies[m] = 0
         /\ ~struck[m] => works[s] /\ sent[m].at # "done"
<1>1. InUp(h)
  BY DEF InUp
<1>2. sent[m].src = s /\ s # Host /\ h.kind \in {"contacts", "relay"}
  BY RelayAssumption DEF Sound, Addressed, Host
<1>3. ~Handled(m) /\ ~Proxied(m) /\ \A p \in Letters(m) : (InUp(p) <=> p = h) /\ ~InDown(p)
  BY <1>1 DEF Sound, OneLetter, IsReply
<1>4. \A t \in Joined, p \in Letters(m) : (Has(up[t], p) <=> t = s /\ p = h) /\ ~Has(down[t], p)
  <2>1. \A t \in Joined, p \in Letters(m) : (Has(up[t], p) => InUp(p)) /\ (Has(down[t], p) => InDown(p))
    BY DEF InUp, InDown
  <2>2. \A t \in Joined : Has(up[t], h) => t = s
    BY <1>2 DEF Sound, Addressed
  <2> QED
    BY <1>3, <2>1, <2>2
<1>5. copies[m] = 0
  BY <1>1 DEF Sound, Early, Written
<1>6. ASSUME ~struck[m] PROVE works[s] /\ sent[m].at # "done"
  BY <1>1, <1>6 DEF Sound, Unstruck, Quiet
<1> QED
  BY <1>2, <1>3, <1>4, <1>5, <1>6

\* The host answers a relay itself.
LEMMA HostAnswersSafely ==
  ASSUME RelayInv, NEW s \in Joined, NEW h \in Mail, NEW m \in Sends, NEW what \in {"ok", "err"},
         up[s] # <<>>, h = Head(up[s]), h = Packet(m, "relay", "request"),
         up' = Pop(up, s), down' = Put(down, s, Packet(m, "relay", what)),
         copies' = [copies EXCEPT ![m] = copies'[m]], copies'[m] \in {0, 1}, copies'[m] = 1 <=> what = "ok",
         UNCHANGED <<sent, struck, links, readers>>
  PROVE  RelayInv'
<1>1. h \in Letters(m) /\ h.what = "request" /\ h.kind = "relay" /\ Has(up[s], h) /\ m # None /\ InUp(h)
  BY UpTaken, PacketFields, RelayAssumption DEF Kinds, Whats, None
<1>2. Sound(m) /\ RelayTypes /\ LinkSound
  BY DEF RelayInv
<1>3. /\ sent[m].src = s /\ s # Host
      /\ ~Handled(m) /\ ~Proxied(m)
      /\ \A p \in Letters(m) : (InUp(p) <=> p = h) /\ ~InDown(p)
      /\ \A t \in Joined, p \in Letters(m) : ~Has(down[t], p) /\ (Has(up[t], p) <=> t = s /\ p = h)
      /\ copies[m] = 0
      /\ ~struck[m] => works[s] /\ sent[m].at # "done"
  BY <1>1, <1>2, RequestAtHost
<1>4. PICK x \in Letters(m) : x = Packet(m, "relay", what) /\ x \in Mail /\ x.kind = "relay" /\ x.what = what
  BY PacketFields DEF Kinds, Whats
<1>5. /\ \A t \in Joined, p \in Letters(m) : Has(down'[t], p) <=> (works[s] /\ t = s /\ p = x)
      /\ \A p \in Letters(m) : InDown(p)' <=> (works[s] /\ p = x)
      /\ \A t \in Joined, p \in Letters(m) : ~Has(up'[t], p)
      /\ \A p \in Letters(m) : ~InUp(p)'
  BY <1>1, <1>3, <1>4, DownPut, UpTaken DEF Letters, InDown
<1>6. sent' = sent /\ struck' = struck /\ busy' = busy /\ age' = age /\ working' = working /\ UNCHANGED links
      /\ works' = works /\ hostEnd' = hostEnd /\ slaveEnd' = slaveEnd /\ cuts' = cuts
  BY DEF links, readers
<1>7. RelayTypes' /\ LinkSound'
  <2>1. /\ up' \in [Joined -> Seq(Mail)] /\ down' \in [Joined -> Seq(Mail)]
        /\ \A t \in Joined : Single(up'[t]) /\ Single(down'[t])
    BY <1>1, <1>3, <1>4, DownPut, UpTaken
  <2>2. copies' \in [Sends -> {0, 1}]
    BY <1>2 DEF RelayTypes
  <2> QED
    BY <1>2, <1>6, <2>1, <2>2 DEF RelayTypes, LinkSound
<1>8. \A n \in Sends \ {m} : Spared(n)
  BY <1>1, <1>2, <1>3, <1>4, <1>6, DownPut, UpTaken DEF Spared, Letters, RelayTypes
<1>9. ~Handled(m)' /\ ~Proxied(m)'
  BY <1>3, <1>6 DEF Handled, Proxied
<1>10. sent[m].at \in {"relay", "done"} /\ sent[m].told # "ok" /\ (sent[m].told # None => sent[m].at = "done")
  BY <1>1, <1>2, <1>3 DEF Sound, Early, Written, Quiet, RelayTypes, Stories, Kinds
<1>11. Addressed(m)'
  BY <1>2, <1>3, <1>4, <1>5, <1>6 DEF Sound, Addressed
<1>12. OneLetter(m)'
  BY <1>4, <1>5, <1>6, <1>9 DEF OneLetter, IsReply
<1>13. Early(m)'
  BY <1>2, <1>3, <1>4, <1>5, <1>6, <1>9, <1>10 DEF Sound, Early, Quiet
<1>14. Written(m)'
  BY <1>3, <1>4, <1>5, <1>6, <1>9, <1>10 DEF Written
<1>15. ASSUME ~struck'[m] PROVE Unstruck(m)'
  <2>1. Unstruck(m) /\ ~struck[m] /\ works[s] /\ sent[m].at = "relay"
    BY <1>2, <1>3, <1>6, <1>10, <1>15 DEF Sound
  <2>2. sent[m].told # "err" /\ sent[m].age = 0 /\ \A t \in Joined : busy[t] = m => age[t] = 0
    BY <1>10, <2>1 DEF Unstruck, None
  <2>3. \A t \in Joined : ~works[t] =>
          /\ \A p \in Letters(m) : ~Has(up'[t], p) /\ ~Has(down'[t], p)
          /\ working'[t] # m /\ ~FromSlave(m, t)'
    BY <1>3, <1>5, <1>6, <2>1 DEF Unstruck, FromSlave
  <2>4. copies'[m] = 1 => InDown(Packet(m, "relay", "ok"))'
    BY <1>4, <1>5, <2>1
  <2> QED
    BY <1>4, <1>5, <1>6, <1>9, <2>1, <2>2, <2>3, <2>4 DEF Unstruck, IsReply
<1>16. Flows(m)'
  <2>1. works[s] => InDown(Packet(m, "relay", what))'
    BY <1>4, <1>5
  <2> QED
    BY <1>2, <1>3, <1>6, <1>9, <1>10, <2>1 DEF Sound, Flows, FromHost, FromSlave, Waiting
<1> QED
  BY <1>7, <1>8, <1>11, <1>12, <1>13, <1>14, <1>15, <1>16, OneSendAtATime, <1>6 DEF Sound

LEMMA Delivered ==
  ASSUME RelayTypes, NEW m \in Sends, copies[m] = 0, NEW ok \in BOOLEAN, Deliver(m, ok)
  PROVE  copies' = [copies EXCEPT ![m] = copies'[m]] /\ copies'[m] \in {0, 1} /\ (copies'[m] = 1 <=> Verdict(ok) = "ok")
         /\ Verdict(ok) \in {"ok", "err"}
<1>1. copies \in [Sends -> {0, 1}]
  BY DEF RelayTypes
<1>2. CASE ok
  <2>1. copies' = [copies EXCEPT ![m] = copies[m] + 1]
    BY <1>2 DEF Deliver
  <2>2. copies' = [copies EXCEPT ![m] = 1]
    BY <2>1
  <2> QED
    BY <1>1, <1>2, <2>2 DEF Verdict
<1>3. CASE ~ok
  BY <1>1, <1>3 DEF Deliver, Verdict
<1> QED
  BY <1>2, <1>3

LEMMA HostDeliversSafely ==
  ASSUME RelayInv, NEW s \in Joined, HostDelivers(s)
  PROVE  RelayInv'
<1>1. PICK h \in Mail, m \in Sends : h = Head(up[s]) /\ Has(up[s], h) /\ m = h.send /\ h \in Letters(m)
           /\ h = Packet(m, "relay", "request") /\ h.what = "request"
  BY UpTaken, SamePacket DEF HostDelivers, HostReads, Letters
<1>2. copies[m] = 0 /\ RelayTypes
  BY <1>1, RequestAtHost DEF RelayInv
<1>3. PICK ok \in BOOLEAN : Deliver(m, ok) /\ down' = Put(down, s, Packet(m, "relay", Verdict(ok)))
  BY <1>1 DEF HostDelivers, Reply
<1> QED
  BY <1>1, <1>2, <1>3, Delivered, HostAnswersSafely DEF HostDelivers, HostReads

LEMMA HostFindsNobodySafely ==
  ASSUME RelayInv, NEW s \in Joined, HostFindsNobody(s)
  PROVE  RelayInv'
<1>1. PICK h \in Mail, m \in Sends : h = Head(up[s]) /\ Has(up[s], h) /\ m = h.send /\ h \in Letters(m)
           /\ h = Packet(m, "relay", "request") /\ h.what = "request"
  BY UpTaken, SamePacket DEF HostFindsNobody, HostReads, Letters
<1>2. copies[m] = 0 /\ copies' = copies /\ copies \in [Sends -> {0, 1}]
  BY <1>1, RequestAtHost DEF RelayInv, RelayTypes, HostFindsNobody
<1>3. down' = Put(down, s, Packet(m, "relay", "err")) /\ up' = Pop(up, s) /\ UNCHANGED <<sent, struck, links, readers>> /\ up[s] # <<>>
  BY <1>1 DEF HostFindsNobody, HostReads, Reply
<1>4. copies' = [copies EXCEPT ![m] = copies'[m]] /\ copies'[m] \in {0, 1} /\ (copies'[m] = 1 <=> "err" = "ok")
  BY <1>2
<1> QED
  BY <1>1, <1>3, <1>4, HostAnswersSafely

LEMMA HostListsContactsSafely ==
  ASSUME RelayInv, NEW s \in Joined, HostListsContacts(s)
  PROVE  RelayInv'
<1>1. PICK h \in Mail, m \in Sends : h = Head(up[s]) /\ Has(up[s], h) /\ m = h.send /\ h \in Letters(m)
           /\ h = Packet(m, "contacts", "request") /\ h.what = "request" /\ h.kind = "contacts"
           /\ up[s] # <<>> /\ up' = Pop(up, s) /\ m # None /\ InUp(h)
  BY UpTaken, SamePacket, RelayAssumption DEF HostListsContacts, HostReads, Letters, None
<1>2. Sound(m) /\ RelayTypes /\ LinkSound
  BY DEF RelayInv
<1>3. /\ sent[m].src = s /\ s # Host
      /\ ~Handled(m) /\ ~Proxied(m)
      /\ \A p \in Letters(m) : (InUp(p) <=> p = h) /\ ~InDown(p)
      /\ \A t \in Joined, p \in Letters(m) : ~Has(down[t], p) /\ (Has(up[t], p) <=> t = s /\ p = h)
      /\ copies[m] = 0
      /\ ~struck[m] => works[s] /\ sent[m].at # "done"
  BY <1>1, <1>2, RequestAtHost
<1>4. PICK x \in Letters(m), what \in {"ok", "err"} :
        x = Packet(m, "contacts", what) /\ x \in Mail /\ x.kind = "contacts" /\ x.what = what
        /\ down' = Put(down, s, x)
  <2>1. \A e \in BOOLEAN : Verdict(e) \in {"ok", "err"}
    BY DEF Verdict
  <2>2. PICK e \in BOOLEAN : down' = Put(down, s, Packet(m, "contacts", Verdict(e)))
    BY <1>1 DEF HostListsContacts, Reply
  <2> QED
    BY <2>1, <2>2, PacketFields DEF Kinds, Whats
<1>5. /\ \A t \in Joined, p \in Letters(m) : Has(down'[t], p) <=> (works[s] /\ t = s /\ p = x)
      /\ \A p \in Letters(m) : InDown(p)' <=> (works[s] /\ p = x)
      /\ \A t \in Joined, p \in Letters(m) : ~Has(up'[t], p)
      /\ \A p \in Letters(m) : ~InUp(p)'
  BY <1>1, <1>3, <1>4, DownPut, UpTaken DEF Letters, InDown
<1>6. sent' = sent /\ struck' = struck /\ busy' = busy /\ age' = age /\ working' = working /\ UNCHANGED links
      /\ works' = works /\ hostEnd' = hostEnd /\ slaveEnd' = slaveEnd /\ cuts' = cuts /\ copies' = copies
  BY DEF HostListsContacts, links, readers
<1>7. RelayTypes' /\ LinkSound'
  <2>1. /\ up' \in [Joined -> Seq(Mail)] /\ down' \in [Joined -> Seq(Mail)]
        /\ \A t \in Joined : Single(up'[t]) /\ Single(down'[t])
    BY <1>1, <1>3, <1>4, DownPut, UpTaken
  <2> QED
    BY <1>2, <1>6, <2>1 DEF RelayTypes, LinkSound
<1>8. \A n \in Sends \ {m} : Spared(n)
  BY <1>1, <1>2, <1>3, <1>4, <1>6, DownPut, UpTaken DEF Spared, Letters, RelayTypes
<1>9. ~Handled(m)' /\ ~Proxied(m)'
  BY <1>3, <1>6 DEF Handled, Proxied
<1>10. sent[m].at \in {"contacts", "done"}
  BY <1>1, <1>2, <1>3 DEF Sound, Early
<1>11. Addressed(m)'
  BY <1>2, <1>3, <1>4, <1>5, <1>6 DEF Sound, Addressed
<1>12. OneLetter(m)'
  BY <1>4, <1>5, <1>6, <1>9 DEF OneLetter, IsReply
<1>13. Early(m)'
  BY <1>2, <1>3, <1>4, <1>5, <1>6, <1>9, <1>10 DEF Sound, Early, Quiet
<1>14. Written(m)'
  BY <1>2, <1>3, <1>4, <1>5, <1>6, <1>9, <1>10 DEF Sound, Written
<1>15. ASSUME ~struck'[m] PROVE Unstruck(m)'
  <2>1. Unstruck(m) /\ ~struck[m] /\ works[s] /\ sent[m].at = "contacts"
    BY <1>2, <1>3, <1>6, <1>10, <1>15 DEF Sound
  <2>2. sent[m].told # "err" /\ sent[m].age = 0 /\ \A t \in Joined : busy[t] = m => age[t] = 0
    BY <1>2, <2>1 DEF Unstruck, Sound, Early, None
  <2>3. \A t \in Joined : ~works[t] =>
          /\ \A p \in Letters(m) : ~Has(up'[t], p) /\ ~Has(down'[t], p)
          /\ working'[t] # m /\ ~FromSlave(m, t)'
    BY <1>3, <1>5, <1>6, <2>1 DEF Unstruck, FromSlave
  <2> QED
    BY <1>3, <1>4, <1>5, <1>6, <1>9, <2>1, <2>2, <2>3 DEF Unstruck, IsReply
<1>16. Flows(m)'
  <2>1. works[s] => \E p \in Letters(m) : InDown(p)'
    BY <1>4, <1>5
  <2> QED
    BY <1>2, <1>3, <1>6, <1>9, <1>10, <2>1 DEF Sound, Flows, FromHost, FromSlave, Waiting
<1> QED
  BY <1>7, <1>8, <1>11, <1>12, <1>13, <1>14, <1>15, <1>16, OneSendAtATime, <1>6 DEF Sound

LEMMA HostForwardsSafely ==
  ASSUME RelayInv, NEW s \in Joined, HostForwards(s)
  PROVE  RelayInv'
<1>1. PICK h \in Mail, m \in Sends : h = Head(up[s]) /\ Has(up[s], h) /\ m = h.send /\ h \in Letters(m)
           /\ h = Packet(m, "relay", "request") /\ h.what = "request" /\ h.kind = "relay"
           /\ up[s] # <<>> /\ up' = Pop(up, s) /\ m # None /\ InUp(h)
  BY UpTaken, SamePacket, RelayAssumption DEF HostForwards, HostReads, Letters, None
<1>2. Sound(m) /\ RelayTypes /\ LinkSound
  BY DEF RelayInv
<1>3. /\ sent[m].src = s /\ s # Host
      /\ ~Handled(m) /\ ~Proxied(m)
      /\ \A p \in Letters(m) : (InUp(p) <=> p = h) /\ ~InDown(p)
      /\ \A t \in Joined, p \in Letters(m) : ~Has(down[t], p) /\ (Has(up[t], p) <=> t = s /\ p = h)
      /\ copies[m] = 0
      /\ ~struck[m] => works[s] /\ sent[m].at # "done"
  BY <1>1, <1>2, RequestAtHost
<1>4. PICK d \in Joined : d = sent[m].dst /\ hostEnd[d] = "up" /\ down' = Put(down, d, h)
  BY <1>1 DEF HostForwards
<1>5. busy' = [busy EXCEPT ![s] = m] /\ age' = [age EXCEPT ![s] = 0] /\ busy[s] = None
  BY <1>1 DEF HostForwards, HostReads
<1>6. /\ \A t \in Joined, p \in Letters(m) : Has(down'[t], p) <=> (works[d] /\ t = d /\ p = h)
      /\ \A p \in Letters(m) : InDown(p)' <=> (works[d] /\ p = h)
      /\ \A t \in Joined, p \in Letters(m) : ~Has(up'[t], p)
      /\ \A p \in Letters(m) : ~InUp(p)'
  <2>1. /\ \A t \in Joined, p \in Letters(m) : Has(down'[t], p) <=> (works[d] /\ t = d /\ p = h)
        /\ \A p \in Letters(m) : InDown(p)' <=> (works[d] /\ p = h)
    <3>1. ~InDown(h)
      BY <1>1, <1>3
    <3> QED
      <4>1. /\ \A t \in Joined, p \in Mail : Has(down'[t], p) <=> Has(down[t], p) \/ (works[d] /\ t = d /\ p = h)
            /\ \A p \in Mail : InDown(p)' <=> InDown(p) \/ (works[d] /\ p = h)
        BY <1>4, <3>1, DownPut
      <4>2. Letters(m) \subseteq Mail
        BY DEF Letters
      <4> QED
        BY <1>3, <4>1, <4>2
  <2>2. /\ \A t \in Joined, p \in Letters(m) : ~Has(up'[t], p)
        /\ \A p \in Letters(m) : ~InUp(p)'
    BY <1>1, <1>3, UpTaken DEF Letters
  <2> QED
    BY <2>1, <2>2
<1>7. sent' = sent /\ struck' = struck /\ working' = working /\ UNCHANGED links
      /\ works' = works /\ hostEnd' = hostEnd /\ slaveEnd' = slaveEnd /\ cuts' = cuts /\ copies' = copies
  BY DEF HostForwards, links
<1>8. RelayTypes' /\ LinkSound'
  <2>1. /\ up' \in [Joined -> Seq(Mail)] /\ down' \in [Joined -> Seq(Mail)]
        /\ \A t \in Joined : Single(up'[t]) /\ Single(down'[t])
    BY <1>1, <1>3, <1>4, DownPut, UpTaken
  <2>2. busy' \in [Joined -> Sends \cup {None}] /\ age' \in [Joined -> Nat]
    BY <1>2, <1>5 DEF RelayTypes
  <2> QED
    BY <1>2, <1>7, <2>1, <2>2 DEF RelayTypes, LinkSound
<1>9. \A t \in Joined : /\ busy'[t] = (IF t = s THEN m ELSE busy[t])
                        /\ age'[t] = (IF t = s THEN 0 ELSE age[t])
  BY <1>2, <1>5 DEF RelayTypes
<1>10. \A n \in Sends \ {m} : Spared(n)
  <2>1. \A n \in Sends : n # None
    BY RelayAssumption DEF None
  <2> QED
    <3>1. /\ \A t \in Joined, p \in Mail : Has(down'[t], p) <=> Has(down[t], p) \/ (works[d] /\ t = d /\ p = h)
          /\ \A t \in Joined, p \in Mail : Has(up'[t], p) <=> Has(up[t], p) /\ p # h
      <4>1. ~InDown(h)
        BY <1>1, <1>3
      <4>2. \A t \in Joined, p \in Mail : Has(down'[t], p) <=> Has(down[t], p) \/ (works[d] /\ t = d /\ p = h)
        BY <1>4, <4>1, DownPut
      <4>3. \A t \in Joined, p \in Mail : Has(up'[t], p) <=> Has(up[t], p) /\ p # h
        BY <1>1, UpTaken
      <4> QED
        BY <4>2, <4>3
    <3>2. ASSUME NEW n \in Sends \ {m} PROVE Spared(n)
      <4>1. \A p \in Letters(n) : p \in Mail /\ p # h
        BY <1>1 DEF Letters
      <4>2. \A t \in Joined : (busy'[t] = n <=> busy[t] = n) /\ (busy[t] = n => age'[t] = age[t])
        BY <1>5, <1>9, <2>1
      <4> QED
        BY <1>7, <3>1, <4>1, <4>2 DEF Spared
    <3> QED
      BY <3>2
<1>11. Handled(m)' /\ ~Proxied(m)' /\ \A t \in Joined : busy'[t] = m => t = s
  BY <1>3, <1>9, <1>7 DEF Handled, Proxied
<1>12. sent[m].at \in {"relay", "done"} /\ sent[m].told # "ok" /\ (sent[m].told # None => sent[m].at = "done")
  BY <1>1, <1>2, <1>3 DEF Sound, Early, Written, Quiet, RelayTypes, Stories, Kinds
<1>13. Addressed(m)'
  <2>1. \A t \in Joined, p \in Letters(m) : ~Has(up'[t], p) /\ (Has(down'[t], p) => t = d /\ p = h)
    BY <1>6
  <2>2. \A t \in Joined : working'[t] # m
    BY <1>11 DEF Proxied
  <2>3. sent'[m].src = s /\ sent'[m].dst = d
    BY <1>3, <1>4, <1>7
  <2>4. \A t \in Joined : busy'[t] = m => t = s
    BY <1>11
  <2> QED
    BY <1>1, <1>4, <2>1, <2>2, <2>3, <2>4 DEF Addressed
<1>14. OneLetter(m)'
  BY <1>1, <1>6, <1>7, <1>11 DEF OneLetter, IsReply
<1>15. Early(m)'
  BY <1>1, <1>2, <1>3, <1>6, <1>7, <1>11, <1>12 DEF Sound, Early, Quiet
<1>16. Written(m)'
  BY <1>1, <1>3, <1>6, <1>7, <1>11, <1>12 DEF Written
<1>17. ASSUME ~struck'[m] PROVE Unstruck(m)'
  <2>1. Unstruck(m) /\ ~struck[m] /\ works[s] /\ sent[m].at = "relay"
    BY <1>2, <1>3, <1>7, <1>12, <1>17 DEF Sound
  <2>2. sent[m].told # "err" /\ sent[m].age = 0
    BY <1>12, <2>1 DEF Unstruck, None
  <2>3. \A t \in Joined : ~works[t] =>
          /\ \A p \in Letters(m) : ~Has(up'[t], p) /\ ~Has(down'[t], p)
          /\ working'[t] # m /\ ~FromSlave(m, t)'
    BY <1>3, <1>6, <1>7, <2>1 DEF Unstruck, FromSlave
  <2>4. \A t \in Joined : busy'[t] = m => age'[t] = 0
    BY <1>9, <1>11
  <2> QED
    BY <1>1, <1>3, <1>6, <1>7, <1>11, <2>1, <2>2, <2>3, <2>4 DEF Unstruck, IsReply
<1>18. Flows(m)'
  <2>1. works[d] => InDown(h)'
    BY <1>1, <1>6
  <2> QED
    BY <1>1, <1>2, <1>3, <1>4, <1>7, <1>11, <1>12, <2>1 DEF Sound, Flows, FromHost, FromSlave, Waiting
<1> QED
  BY <1>8, <1>10, <1>13, <1>14, <1>15, <1>16, <1>17, <1>18, OneSendAtATime, <1>7 DEF Sound

LEMMA SlaveRequestsSafely ==
  ASSUME RelayInv, NEW s \in Joined, SlaveRequests(s)
  PROVE  RelayInv'
<1>1. PICK h \in Mail, m \in Sends : h = Head(down[s]) /\ Has(down[s], h) /\ m = h.send /\ h \in Letters(m)
           /\ h = Packet(m, "http", "request") /\ h.what = "request" /\ h.kind = "http"
           /\ down[s] # <<>> /\ down' = Pop(down, s) /\ m # None /\ InDown(h)
  BY DownTaken, SamePacket, RelayAssumption DEF SlaveRequests, SlaveReads, Letters, None
<1>2. Sound(m) /\ RelayTypes /\ LinkSound
  BY DEF RelayInv
<1>3. /\ sent[m].dst = s /\ ~Handled(m) /\ ~Proxied(m)
      /\ \A p \in Letters(m) : ~InUp(p) /\ (InDown(p) => p = h)
      /\ copies[m] = 0
  <2>1. sent[m].dst = s /\ copies[m] = 0
    BY <1>1, <1>2 DEF Sound, Addressed, Written
  <2>2. \A p \in Letters(m) : ~InUp(p) /\ (InDown(p) => p = h)
    BY <1>1, <1>2 DEF Sound, OneLetter, IsReply
  <2>3. ~Handled(m) /\ ~Proxied(m)
    BY <1>1, <1>2, PacketFields DEF Sound, OneLetter, Kinds, Whats
  <2> QED
    BY <2>1, <2>2, <2>3
<1>4. working' = [working EXCEPT ![s] = m] /\ copies' = [copies EXCEPT ![m] = 1] /\ working[s] = None
  <2>1. Deliver(m, TRUE)
    BY <1>1 DEF SlaveRequests
  <2>2. copies' = [copies EXCEPT ![m] = copies[m] + 1]
    BY <2>1 DEF Deliver
  <2> QED
    BY <1>1, <1>3, <2>2 DEF SlaveRequests, SlaveReads
<1>5. copies'[m] = 1 /\ \A t \in Joined : working'[t] = (IF t = s THEN m ELSE working[t])
  BY <1>2, <1>4 DEF RelayTypes
<1>6. /\ \A t \in Joined, p \in Letters(m) : ~Has(up'[t], p) /\ ~Has(down'[t], p)
      /\ \A p \in Letters(m) : ~InUp(p)' /\ ~InDown(p)'
  BY <1>1, <1>3, DownTaken DEF Letters, InDown, InUp, SlaveRequests
<1>7. sent' = sent /\ struck' = struck /\ busy' = busy /\ age' = age /\ up' = up /\ UNCHANGED links
      /\ works' = works /\ hostEnd' = hostEnd /\ slaveEnd' = slaveEnd /\ cuts' = cuts
  BY DEF SlaveRequests, links
<1>8. RelayTypes' /\ LinkSound'
  <2>1. down' \in [Joined -> Seq(Mail)] /\ \A t \in Joined : Single(down'[t])
    BY <1>1, DownTaken
  <2>2. working' \in [Joined -> Sends \cup {None}] /\ copies' \in [Sends -> {0, 1}]
    BY <1>2, <1>4 DEF RelayTypes
  <2> QED
    BY <1>2, <1>7, <2>1, <2>2 DEF RelayTypes, LinkSound
<1>9. \A n \in Sends \ {m} : Spared(n)
  <2>1. \A n \in Sends : n # None
    BY RelayAssumption DEF None
  <2>2. \A n \in Sends \ {m} : copies'[n] = copies[n]
    BY <1>2, <1>4 DEF RelayTypes
  <2> QED
    BY <1>1, <1>4, <1>5, <1>7, <2>1, <2>2, DownTaken DEF Spared, Letters
<1>10. ~Handled(m)' /\ Proxied(m)'
  BY <1>3, <1>5, <1>7 DEF Handled, Proxied
<1>11. sent[m].at \in {"relay", "http", "done"} /\ sent[m].told # "ok" /\ (sent[m].told # None => sent[m].at = "done")
  BY <1>1, <1>2, <1>3 DEF Sound, Early, Written, Quiet, RelayTypes, Stories, Kinds
<1>12. Addressed(m)'
  <2>1. \A t \in Joined : working'[t] = m => t = s
    BY <1>3, <1>5 DEF Proxied
  <2> QED
    BY <1>3, <1>6, <1>7, <1>10, <2>1 DEF Addressed, Handled
<1>13. OneLetter(m)'
  BY <1>6, <1>10 DEF OneLetter
<1>14. Early(m)'
  BY <1>2, <1>6, <1>7, <1>10, <1>11 DEF Sound, Early
<1>15. Written(m)'
  BY <1>5, <1>6, <1>7, <1>10, <1>11 DEF Written
<1>16. ASSUME ~struck'[m] PROVE Unstruck(m)'
  <2>1. Unstruck(m) /\ ~struck[m]
    BY <1>2, <1>7, <1>16 DEF Sound
  <2>2. works[s] /\ sent[m].src = Host /\ sent[m].at # "done"
    BY <1>1, <1>3, <2>1 DEF Unstruck, Quiet
  <2>3. sent[m].told # "err" /\ sent[m].age = 0
    BY <1>11, <2>1, <2>2 DEF Unstruck, None
  <2>4. \A t \in Joined : ~FromSlave(m, t)'
    BY <1>7, <2>2, RelayAssumption DEF FromSlave, Host
  <2>5. \A t \in Joined : ~works[t] => working'[t] # m
    BY <1>5, <2>1, <2>2 DEF Unstruck
  <2> QED
    BY <1>6, <1>7, <1>10, <2>2, <2>3, <2>4, <2>5 DEF Unstruck, Handled
<1>17. Flows(m)'
  <2>1. ~(sent[m].at = "relay" /\ sent[m].src # Host /\ works[sent[m].src])
    BY <1>1, <1>2, <1>3, PacketFields DEF Sound, Flows, Kinds, Whats
  <2> QED
    BY <1>2, <1>7, <1>10, <1>11, <2>1 DEF Sound, Flows, FromHost, FromSlave, Waiting
<1> QED
  BY <1>8, <1>9, <1>12, <1>13, <1>14, <1>15, <1>16, <1>17, OneSendAtATime, <1>7 DEF Sound

LEMMA SlaveRespondsSafely ==
  ASSUME RelayInv, NEW s \in Joined, SlaveResponds(s)
  PROVE  RelayInv'
<1>1. PICK m \in Sends : m = working[s] /\ m # None
  BY DEF SlaveResponds, RelayInv, RelayTypes
<1>2. Sound(m) /\ RelayTypes /\ LinkSound
  BY DEF RelayInv
<1>3. /\ Proxied(m) /\ ~Handled(m) /\ sent[m].dst = s /\ copies[m] = 1
      /\ \A p \in Letters(m) : ~InUp(p) /\ ~InDown(p)
      /\ \A t \in Joined, p \in Letters(m) : ~Has(up[t], p) /\ ~Has(down[t], p)
  <2>1. Proxied(m)
    BY <1>1 DEF Proxied
  <2>2. ~Handled(m) /\ \A p \in Letters(m) : ~InUp(p) /\ ~InDown(p)
    BY <1>2, <2>1 DEF Sound, OneLetter
  <2>3. sent[m].dst = s /\ copies[m] = 1
    BY <1>1, <1>2, <2>1 DEF Sound, Addressed, Written
  <2> QED
    BY <2>1, <2>2, <2>3 DEF InUp, InDown
<1>4. PICK x \in Letters(m) : x = Packet(m, "http", "ok") /\ x \in Mail /\ x.kind = "http" /\ x.what = "ok"
             /\ up' = Put(up, s, x)
  BY <1>1, PacketFields DEF SlaveResponds, Reply, Kinds, Whats
<1>5. working' = [working EXCEPT ![s] = None]
  BY DEF SlaveResponds
<1>6. \A t \in Joined : working'[t] = (IF t = s THEN None ELSE working[t])
  BY <1>2, <1>5 DEF RelayTypes
<1>7. /\ \A t \in Joined, p \in Letters(m) : Has(up'[t], p) <=> (works[s] /\ t = s /\ p = x)
      /\ \A p \in Letters(m) : InUp(p)' <=> (works[s] /\ p = x)
      /\ \A t \in Joined, p \in Letters(m) : ~Has(down'[t], p)
      /\ \A p \in Letters(m) : ~InDown(p)'
  BY <1>1, <1>3, <1>4, UpPut DEF Letters, InUp, InDown, SlaveResponds
<1>8. sent' = sent /\ struck' = struck /\ busy' = busy /\ age' = age /\ down' = down /\ UNCHANGED links
      /\ works' = works /\ hostEnd' = hostEnd /\ slaveEnd' = slaveEnd /\ cuts' = cuts /\ copies' = copies
  BY DEF SlaveResponds, links
<1>9. RelayTypes' /\ LinkSound'
  <2>1. up' \in [Joined -> Seq(Mail)] /\ \A t \in Joined : Single(up'[t])
    BY <1>3, <1>4, UpPut
  <2>2. working' \in [Joined -> Sends \cup {None}]
    BY <1>2, <1>5 DEF RelayTypes
  <2> QED
    BY <1>2, <1>8, <2>1, <2>2 DEF RelayTypes, LinkSound
<1>10. \A n \in Sends \ {m} : Spared(n)
  <2>1. \A n \in Sends : n # None
    BY RelayAssumption DEF None
  <2> QED
    BY <1>1, <1>3, <1>4, <1>6, <1>8, <2>1, UpPut DEF Spared, Letters
<1>11. ~Handled(m)' /\ ~Proxied(m)'
  <2>1. \A t \in Joined : working[t] = m => t = s
    BY <1>2, <1>3 DEF Sound, Addressed
  <2> QED
    BY <1>1, <1>3, <1>6, <1>8, <2>1 DEF Handled, Proxied
<1>12. sent[m].at \in {"relay", "http", "done"} /\ (sent[m].told # None => sent[m].at = "done")
  BY <1>1, <1>2, <1>3 DEF Sound, Early, Quiet, RelayTypes, Stories, Kinds
<1>13. Addressed(m)'
  BY <1>3, <1>4, <1>7, <1>8, <1>11 DEF Addressed, Handled, Proxied
<1>14. OneLetter(m)'
  BY <1>4, <1>7, <1>11 DEF OneLetter, IsReply
<1>15. Early(m)'
  BY <1>2, <1>4, <1>7, <1>8, <1>11, <1>12 DEF Sound, Early, Quiet
<1>16. Written(m)'
  BY <1>3, <1>4, <1>7, <1>8, <1>11 DEF Written
<1>17. ASSUME ~struck'[m] PROVE Unstruck(m)'
  <2>1. Unstruck(m) /\ ~struck[m]
    BY <1>2, <1>8, <1>17 DEF Sound
  <2>2. works[s] /\ sent[m].at # "done"
    BY <1>1, <1>3, <2>1 DEF Unstruck, Quiet
  <2>3. sent[m].src = Host
    <3>1. Waiting(m)
      BY <1>12, <2>2 DEF Waiting, Kinds
    <3>2. ~InDown(Packet(m, "relay", "ok"))
      BY <1>3, PacketFields DEF Kinds, Whats
    <3> QED
      BY <1>3, <2>1, <3>1, <3>2 DEF Unstruck
  <2>4. sent[m].told # "err" /\ sent[m].age = 0
    BY <1>12, <2>1, <2>2 DEF Unstruck, None
  <2>5. \A t \in Joined : ~FromSlave(m, t)'
    BY <1>8, <2>3, RelayAssumption DEF FromSlave, Host
  <2>6. \A t \in Joined : working'[t] # m
    BY <1>11 DEF Proxied
  <2>7. InUp(Packet(m, "http", "ok"))'
    BY <1>4, <1>7, <2>2
  <2> QED
    BY <1>4, <1>7, <1>8, <1>11, <2>2, <2>3, <2>4, <2>5, <2>6, <2>7 DEF Unstruck, Handled
<1>18. Flows(m)'
  <2>1. ~(sent[m].at = "relay" /\ sent[m].src # Host /\ works[sent[m].src])
    BY <1>2, <1>3, PacketFields DEF Sound, Flows, Kinds, Whats
  <2>2. works[s] => InUp(x)'
    BY <1>7
  <2> QED
    BY <1>2, <1>3, <1>8, <1>11, <1>12, <2>1, <2>2 DEF Sound, Flows, FromHost, FromSlave, Waiting
<1> QED
  BY <1>9, <1>10, <1>13, <1>14, <1>15, <1>16, <1>17, <1>18, OneSendAtATime, <1>8 DEF Sound

\* What is known of an answer the host reads.
LEMMA AnswerAtHost ==
  ASSUME NEW m \in Sends, Sound(m), NEW s \in Joined, NEW h \in Letters(m), Has(up[s], h), h.what # "request"
  PROVE  /\ sent[m].dst = s /\ h.kind \in {"relay", "http"} /\ ~Proxied(m)
         /\ \A p \in Letters(m) : (InUp(p) <=> p = h) /\ (InDown(p) => IsReply(p))
         /\ sent[m].at \notin {"unborn", "listed", "contacts"}
         /\ h.what = "ok" => copies[m] = 1
         /\ ~struck[m] => sent[m].at # "done" /\ works[s] /\ (h.what = "err" => copies[m] = 0)
         /\ Handled(m) => IsReply(h) /\ \A p \in Letters(m) : ~InDown(p)
         /\ sent[m].src = Host => ~Handled(m) /\ \A p \in Letters(m) : ~InDown(p)
<1>1. InUp(h)
  BY DEF InUp
<1>2. sent[m].dst = s /\ h.kind \in {"relay", "http"}
  BY DEF Sound, Addressed
<1>3. ~Proxied(m) /\ \A p \in Letters(m) : (InUp(p) <=> p = h) /\ (InDown(p) => IsReply(p))
  BY <1>1 DEF Sound, OneLetter
<1>4. sent[m].at \notin {"unborn", "listed", "contacts"}
  BY <1>1, <1>2 DEF Sound, Early, Quiet
<1>5. h.what = "ok" => copies[m] = 1
  BY <1>1, <1>2 DEF Sound, Written
<1>6. ASSUME ~struck[m] PROVE sent[m].at # "done" /\ works[s] /\ (h.what = "err" => copies[m] = 0)
  BY <1>1, <1>2, <1>6 DEF Sound, Unstruck, Quiet
<1>7. ASSUME Handled(m) PROVE IsReply(h) /\ \A p \in Letters(m) : ~InDown(p)
  <2>1. IsReply(h) /\ \A p \in Letters(m) : InDown(p) => p = Packet(m, "relay", "request")
    BY <1>1, <1>7 DEF Sound, OneLetter
  <2> QED
    BY <1>3, <2>1, PacketFields DEF IsReply, Kinds, Whats
<1>8. ASSUME sent[m].src = Host PROVE ~Handled(m) /\ \A p \in Letters(m) : ~InDown(p)
  <2>1. \A t \in Joined : t # sent[m].src
    BY <1>8, RelayAssumption DEF Host
  <2> QED
    BY <1>3, <2>1 DEF Sound, Addressed, Handled, InDown, IsReply
<1> QED
  BY <1>2, <1>3, <1>4, <1>5, <1>6, <1>7, <1>8

LEMMA Telling ==
  ASSUME RelayTypes, NEW m \in Sends, NEW what \in {"ok", "err"}, sent' = Tell(m, what)
  PROVE  /\ sent' \in [Sends -> Stories] /\ sent'[m].at = "done" /\ sent'[m].told = what
         /\ sent'[m].src = sent[m].src /\ sent'[m].dst = sent[m].dst /\ sent'[m].age = sent[m].age
         /\ \A n \in Sends \ {m} : sent'[n] = sent[n]
<1>1. sent' = [sent EXCEPT ![m] = [sent[m] EXCEPT !.at = "done", !.told = what]]
  BY DEF Tell, RelayTypes
<1>2. sent[m] \in Stories /\ sent \in [Sends -> Stories]
  BY DEF RelayTypes
<1>3. PICK e : e = [sent[m] EXCEPT !.at = "done", !.told = what]
  OBVIOUS
<1>4. e \in Stories /\ e.at = "done" /\ e.told = what /\ e.src = sent[m].src /\ e.dst = sent[m].dst /\ e.age = sent[m].age
  BY <1>2, <1>3 DEF Stories
<1>5. sent' = [sent EXCEPT ![m] = e]
  BY <1>1, <1>3
<1> QED
  BY <1>2, <1>4, <1>5

LEMMA HandlerTakesAnswerSafely ==
  ASSUME RelayInv, NEW s \in Joined, NEW r \in Joined, NEW h \in Mail, NEW m \in Sends,
         up[s] # <<>>, h = Head(up[s]), h \in Letters(m), h.what # "request", m # None,
         busy[r] = m, busy' = [busy EXCEPT ![r] = None], down' = Put(down, r, Packet(m, "relay", h.what)),
         up' = Pop(up, s), UNCHANGED <<sent, copies, struck, links, age, working>>
  PROVE  RelayInv'
<1>1. Has(up[s], h) /\ InUp(h) /\ h.kind \in Kinds /\ h.what \in Whats \ {"request"}
  BY UpTaken, SamePacket
<1>2. Sound(m) /\ RelayTypes /\ LinkSound
  BY DEF RelayInv
<1>3. /\ sent[m].dst = s /\ ~Proxied(m) /\ Handled(m) /\ sent[m].src = r
      /\ \A p \in Letters(m) : (InUp(p) <=> p = h) /\ ~InDown(p)
      /\ \A t \in Joined, p \in Letters(m) : ~Has(down[t], p)
      /\ sent[m].at \notin {"unborn", "listed", "contacts"}
      /\ h.what = "ok" => copies[m] = 1
      /\ ~struck[m] => sent[m].at # "done" /\ works[s] /\ (h.what = "err" => copies[m] = 0)
      /\ sent[m].src # Host /\ \A t \in Joined : busy[t] = m => t = r
  <2>1. Handled(m)
    BY DEF Handled
  <2>2. sent[m].src = r /\ (\A t \in Joined : busy[t] = m => t = r) /\ r # Host
    BY <1>2, RelayAssumption DEF Sound, Addressed, Host
  <2> QED
    BY <1>1, <1>2, <2>1, <2>2, AnswerAtHost DEF InDown
<1>4. PICK x \in Letters(m) : x = Packet(m, "relay", h.what) /\ x \in Mail /\ x.kind = "relay" /\ x.what = h.what
             /\ down' = Put(down, r, x)
  BY <1>1, PacketFields DEF Kinds
<1>5. \A t \in Joined : busy'[t] = (IF t = r THEN None ELSE busy[t])
  BY <1>2 DEF RelayTypes
<1>6. /\ \A t \in Joined, p \in Letters(m) : Has(down'[t], p) <=> (works[r] /\ t = r /\ p = x)
      /\ \A p \in Letters(m) : InDown(p)' <=> (works[r] /\ p = x)
      /\ \A t \in Joined, p \in Letters(m) : ~Has(up'[t], p)
      /\ \A p \in Letters(m) : ~InUp(p)'
  <2>1. /\ \A t \in Joined, p \in Mail : Has(down'[t], p) <=> Has(down[t], p) \/ (works[r] /\ t = r /\ p = x)
        /\ \A p \in Mail : InDown(p)' <=> InDown(p) \/ (works[r] /\ p = x)
    BY <1>3, <1>4, DownPut
  <2>2. /\ \A t \in Joined, p \in Mail : Has(up'[t], p) <=> Has(up[t], p) /\ p # h
        /\ \A p \in Mail : InUp(p)' <=> InUp(p) /\ p # h
    BY UpTaken
  <2>3. Letters(m) \subseteq Mail
    BY DEF Letters
  <2>4. \A t \in Joined, p \in Letters(m) : Has(up[t], p) => p = h
    BY <1>3 DEF InUp
  <2> QED
    BY <1>3, <2>1, <2>2, <2>3, <2>4
<1>7. sent' = sent /\ struck' = struck /\ age' = age /\ working' = working /\ UNCHANGED links
      /\ works' = works /\ hostEnd' = hostEnd /\ slaveEnd' = slaveEnd /\ cuts' = cuts /\ copies' = copies
  BY DEF links
<1>8. RelayTypes' /\ LinkSound'
  <2>1. /\ up' \in [Joined -> Seq(Mail)] /\ down' \in [Joined -> Seq(Mail)]
        /\ \A t \in Joined : Single(up'[t]) /\ Single(down'[t])
    BY <1>1, <1>3, <1>4, DownPut, UpTaken
  <2>2. busy' \in [Joined -> Sends \cup {None}]
    BY <1>2 DEF RelayTypes
  <2> QED
    BY <1>2, <1>7, <2>1, <2>2 DEF RelayTypes, LinkSound
<1>9. \A n \in Sends \ {m} : Spared(n)
  <2>1. \A n \in Sends : n # None
    BY RelayAssumption DEF None
  <2> QED
    BY <1>1, <1>3, <1>4, <1>5, <1>7, <2>1, UpTaken, DownPut DEF Spared, Letters
<1>10. ~Handled(m)' /\ ~Proxied(m)'
  BY <1>3, <1>5, <1>7 DEF Handled, Proxied
<1>11. Addressed(m)'
  BY <1>3, <1>4, <1>6, <1>7, <1>10, <1>1 DEF Addressed, Handled, Proxied
<1>12. OneLetter(m)'
  BY <1>4, <1>6, <1>10 DEF OneLetter, IsReply
<1>13. Early(m)'
  BY <1>2, <1>3, <1>4, <1>6, <1>7, <1>10 DEF Sound, Early
<1>14. Written(m)'
  BY <1>1, <1>2, <1>3, <1>4, <1>6, <1>7, <1>10 DEF Sound, Written
<1>15. ASSUME ~struck'[m] PROVE Unstruck(m)'
  <2>1. Unstruck(m) /\ ~struck[m] /\ sent[m].at # "done"
    BY <1>2, <1>3, <1>7, <1>15 DEF Sound
  <2>2. Waiting(m) /\ FromSlave(m, r) /\ sent[m].told # "err"
    BY <1>2, <1>3, <2>1 DEF Waiting, FromSlave, RelayTypes, Stories, Kinds, Sound, Early, None
  <2>3. works[r]
    BY <1>3, <2>1, <2>2 DEF Unstruck, Quiet
  <2>4. \A t \in Joined : ~works[t] => ~FromSlave(m, t)' /\ working'[t] # m
    BY <1>3, <1>7, <2>3, <1>10 DEF FromSlave, Proxied
  <2>5. sent[m].age = 0 /\ \A t \in Joined : busy'[t] # m
    BY <2>1, <1>10 DEF Unstruck, Handled
  <2>6. copies'[m] = 1 => InDown(Packet(m, "relay", "ok"))'
    BY <1>1, <1>3, <1>4, <1>6, <1>7, <2>1, <2>3 DEF Whats
  <2> QED
    BY <1>1, <1>3, <1>4, <1>6, <1>7, <1>10, <2>1, <2>2, <2>3, <2>4, <2>5, <2>6 DEF Unstruck
<1>16. Flows(m)'
  <2>1. works[r] => InDown(Packet(m, "relay", "ok"))' \/ InDown(Packet(m, "relay", "err"))'
    BY <1>1, <1>4, <1>6 DEF Whats
  <2> QED
    BY <1>2, <1>3, <1>7, <1>10, <2>1 DEF Sound, Flows, FromHost, FromSlave, Waiting
<1> QED
  BY <1>8, <1>9, <1>11, <1>12, <1>13, <1>14, <1>15, <1>16, OneSendAtATime, <1>7 DEF Sound

LEMMA HostCallerTakesAnswerSafely ==
  ASSUME RelayInv, NEW s \in Joined, NEW h \in Mail, NEW m \in Sends,
         up[s] # <<>>, h = Head(up[s]), h \in Letters(m), h.what # "request",
         FromHost(m), sent' = Tell(m, h.what),
         up' = Pop(up, s), UNCHANGED <<copies, struck, down, links, readers>>
  PROVE  RelayInv'
<1>1. Has(up[s], h) /\ InUp(h) /\ h.kind \in Kinds /\ h.what \in Whats \ {"request"}
  BY UpTaken, SamePacket
<1>2. Sound(m) /\ RelayTypes /\ LinkSound
  BY DEF RelayInv
<1>3. /\ sent[m].dst = s /\ ~Proxied(m) /\ ~Handled(m) /\ sent[m].src = Host
      /\ \A p \in Letters(m) : (InUp(p) <=> p = h) /\ ~InDown(p)
      /\ h.what = "ok" => copies[m] = 1
      /\ ~struck[m] => (h.what = "err" => copies[m] = 0)
  BY <1>1, <1>2, AnswerAtHost DEF FromHost
<1>4. /\ sent'[m].at = "done" /\ sent'[m].told = h.what /\ sent'[m].src = Host /\ sent'[m].dst = s
      /\ sent'[m].age = sent[m].age /\ \A n \in Sends \ {m} : sent'[n] = sent[n]
      /\ sent' \in [Sends -> Stories]
  BY <1>1, <1>2, <1>3, Telling DEF Whats
<1>5. /\ \A t \in Joined, p \in Letters(m) : ~Has(down'[t], p) /\ ~Has(up'[t], p)
      /\ \A p \in Letters(m) : ~InUp(p)' /\ ~InDown(p)'
  BY <1>1, <1>3, UpTaken DEF Letters, InUp, InDown
<1>6. struck' = struck /\ busy' = busy /\ age' = age /\ working' = working /\ UNCHANGED links /\ down' = down
      /\ works' = works /\ hostEnd' = hostEnd /\ slaveEnd' = slaveEnd /\ cuts' = cuts /\ copies' = copies
  BY DEF links, readers
<1>7. RelayTypes' /\ LinkSound'
  <2>1. up' \in [Joined -> Seq(Mail)] /\ \A t \in Joined : Single(up'[t])
    BY <1>1, UpTaken
  <2> QED
    BY <1>2, <1>4, <1>6, <2>1 DEF RelayTypes, LinkSound
<1>8. \A n \in Sends \ {m} : Spared(n)
  BY <1>1, <1>4, <1>6, UpTaken DEF Spared, Letters
<1>9. ~Handled(m)' /\ ~Proxied(m)' /\ Quiet(m)' /\ ~Waiting(m)'
  BY <1>3, <1>4, <1>5, <1>6 DEF Handled, Proxied, Quiet, Waiting, Kinds
<1>10. Addressed(m)'
  BY <1>5, <1>9 DEF Addressed, Handled, Proxied
<1>11. OneLetter(m)'
  BY <1>5, <1>9 DEF OneLetter
<1>12. Early(m)'
  BY <1>4, <1>5, <1>9 DEF Early, Kinds
<1>13. Written(m)'
  BY <1>3, <1>4, <1>5, <1>6, <1>9 DEF Written
<1>14. ASSUME ~struck'[m] PROVE Unstruck(m)'
  <2>1. ~struck[m] /\ sent[m].age = 0 /\ \A t \in Joined : busy'[t] # m /\ working'[t] # m
    BY <1>2, <1>6, <1>9, <1>14 DEF Sound, Unstruck, Handled, Proxied
  <2> QED
    BY <1>3, <1>4, <1>5, <1>6, <1>9, <2>1 DEF Unstruck, FromSlave
<1>15. Flows(m)'
  BY <1>4, <1>9 DEF Flows, FromHost, FromSlave, Waiting
<1> QED
  BY <1>7, <1>8, <1>10, <1>11, <1>12, <1>13, <1>14, <1>15, OneSendAtATime, <1>6 DEF Sound

LEMMA LateAnswerAtHostIsSafe ==
  ASSUME RelayInv, NEW s \in Joined, NEW h \in Mail, NEW m \in Sends,
         up[s] # <<>>, h = Head(up[s]), h \in Letters(m), h.what # "request",
         ~FromHost(m), \A r \in Joined : busy[r] # m,
         up' = Pop(up, s), UNCHANGED <<sent, copies, struck, down, links, readers>>
  PROVE  RelayInv'
<1>1. Has(up[s], h) /\ InUp(h) /\ h.kind \in Kinds /\ h.what \in Whats \ {"request"}
  BY UpTaken, SamePacket
<1>2. Sound(m) /\ RelayTypes /\ LinkSound
  BY DEF RelayInv
<1>3. /\ ~Handled(m) /\ ~Proxied(m)
      /\ \A p \in Letters(m) : InUp(p) <=> p = h
      /\ sent[m].at \notin {"unborn", "listed", "contacts"}
      /\ ~struck[m] => sent[m].at # "done"
  BY <1>1, <1>2, AnswerAtHost DEF Handled
<1>4. /\ \A t \in Joined, p \in Letters(m) : ~Has(up'[t], p)
      /\ \A p \in Letters(m) : ~InUp(p)' /\ (InDown(p)' <=> InDown(p))
  BY <1>1, <1>3, UpTaken DEF Letters, InUp, InDown
<1>5. struck' = struck /\ busy' = busy /\ age' = age /\ working' = working /\ UNCHANGED links /\ down' = down /\ sent' = sent
      /\ works' = works /\ hostEnd' = hostEnd /\ slaveEnd' = slaveEnd /\ cuts' = cuts /\ copies' = copies
  BY DEF links, readers
<1>6. RelayTypes' /\ LinkSound'
  <2>1. up' \in [Joined -> Seq(Mail)] /\ \A t \in Joined : Single(up'[t])
    BY <1>1, UpTaken
  <2> QED
    BY <1>2, <1>5, <2>1 DEF RelayTypes, LinkSound
<1>7. \A n \in Sends \ {m} : Spared(n)
  BY <1>1, <1>5, UpTaken DEF Spared, Letters
<1>8. ~Handled(m)' /\ ~Proxied(m)'
  BY <1>3, <1>5 DEF Handled, Proxied
<1>9. Addressed(m)'
  BY <1>2, <1>4, <1>5 DEF Sound, Addressed
<1>10. OneLetter(m)'
  BY <1>2, <1>4, <1>8 DEF Sound, OneLetter
<1>11. Early(m)'
  BY <1>2, <1>3, <1>4, <1>5, <1>8 DEF Sound, Early
<1>12. Written(m)'
  BY <1>2, <1>4, <1>5, <1>8 DEF Sound, Written
<1>13. struck[m]
  <2>1. ASSUME ~struck[m] PROVE Waiting(m) /\ sent[m].src = Host
    BY <1>1, <1>2, <1>3, <2>1 DEF Sound, Unstruck, Waiting, RelayTypes, Stories, Kinds
  <2> QED
    BY <2>1 DEF FromHost
<1>14. Flows(m)'
  <2>1. h # Packet(m, "relay", "request")
    BY <1>1, PacketFields DEF Kinds, Whats
  <2>2. Packet(m, "relay", "request") \in Letters(m) /\ Packet(m, "relay", "ok") \in Letters(m) /\ Packet(m, "relay", "err") \in Letters(m)
    BY PacketFields DEF Kinds, Whats
  <2> QED
    BY <1>2, <1>3, <1>4, <1>5, <1>8, <2>1, <2>2 DEF Sound, Flows, FromHost, FromSlave, Waiting
<1> QED
  BY <1>5, <1>6, <1>7, <1>9, <1>10, <1>11, <1>12, <1>13, <1>14, OneSendAtATime DEF Sound

LEMMA HostTakesAnswerSafely ==
  ASSUME RelayInv, NEW s \in Joined, HostTakesAnswer(s)
  PROVE  RelayInv'
<1>1. PICK h \in Mail, m \in Sends : h = Head(up[s]) /\ m = h.send /\ h \in Letters(m) /\ h.what # "request"
           /\ up[s] # <<>> /\ up' = Pop(up, s) /\ m # None
  BY UpTaken, SamePacket, RelayAssumption DEF HostTakesAnswer, HostReads, Letters, None
<1>2. UNCHANGED <<copies, struck, links, age, working>>
  BY DEF HostTakesAnswer
<1>3. \/ \E r \in Joined : busy[r] = m /\ busy' = [busy EXCEPT ![r] = None]
                           /\ down' = Put(down, r, Packet(m, "relay", h.what)) /\ UNCHANGED sent
      \/ FromHost(m) /\ sent' = Tell(m, h.what) /\ UNCHANGED <<busy, down>>
      \/ ~FromHost(m) /\ (\A r \in Joined : busy[r] # m) /\ UNCHANGED <<sent, busy, down>>
  BY <1>1 DEF HostTakesAnswer, Reply
<1>4. CASE \E r \in Joined : busy[r] = m /\ busy' = [busy EXCEPT ![r] = None]
                           /\ down' = Put(down, r, Packet(m, "relay", h.what)) /\ UNCHANGED sent
  BY <1>1, <1>2, <1>4, HandlerTakesAnswerSafely
<1>5. CASE FromHost(m) /\ sent' = Tell(m, h.what) /\ UNCHANGED <<busy, down>>
  BY <1>1, <1>2, <1>5, HostCallerTakesAnswerSafely DEF readers
<1>6. CASE ~FromHost(m) /\ (\A r \in Joined : busy[r] # m) /\ UNCHANGED <<sent, busy, down>>
  BY <1>1, <1>2, <1>6, LateAnswerAtHostIsSafe DEF readers
<1> QED
  BY <1>3, <1>4, <1>5, <1>6

\* What is known of an answer a slave reads.
LEMMA AnswerAtSlave ==
  ASSUME NEW m \in Sends, Sound(m), NEW s \in Joined, NEW h \in Letters(m), Has(down[s], h), h.what # "request"
  PROVE  /\ sent[m].src = s /\ s # Host /\ h.kind \in {"relay", "contacts"} /\ ~Proxied(m) /\ ~Handled(m)
         /\ sent[m].at \notin {"unborn", "listed", "http"}
         /\ h.kind = "contacts" => /\ sent[m].at \in {"contacts", "done"} /\ copies[m] = 0
                                   /\ \A p \in Letters(m) : ~InUp(p) /\ (InDown(p) => p = h)
         /\ h.kind = "relay" => sent[m].at # "contacts" /\ (h.what = "ok" => copies[m] = 1)
         /\ ~struck[m] => /\ sent[m].at # "done" /\ works[s] /\ (h.what = "err" => copies[m] = 0)
                          /\ \A p \in Letters(m) : ~InUp(p) /\ (InDown(p) => p = h)
<1>1. InDown(h)
  BY DEF InDown
<1>2. sent[m].src = s /\ h.kind \in {"relay", "contacts"} /\ s # Host
  BY RelayAssumption DEF Sound, Addressed, Host
<1>3. ~Proxied(m) /\ ~Handled(m)
  BY <1>1, PacketFields DEF Sound, OneLetter, Kinds, Whats
<1>4. sent[m].at \notin {"unborn", "listed", "http"}
  BY <1>1, <1>2 DEF Sound, Early, Quiet
<1>5. ASSUME h.kind = "contacts"
      PROVE  /\ sent[m].at \in {"contacts", "done"} /\ copies[m] = 0
             /\ \A p \in Letters(m) : ~InUp(p) /\ (InDown(p) => p = h)
  <2>1. sent[m].at \in {"contacts", "done"} /\ copies[m] = 0
    BY <1>1, <1>5 DEF Sound, Early
  <2>2. \A p \in Letters(m) : ~InUp(p) /\ (InDown(p) => p = h)
    BY <1>1, <1>5 DEF Sound, OneLetter, IsReply
  <2> QED
    BY <2>1, <2>2
<1>6. ASSUME h.kind = "relay" PROVE sent[m].at # "contacts" /\ (h.what = "ok" => copies[m] = 1)
  BY <1>1, <1>6 DEF Sound, Early, Written
<1>7. ASSUME ~struck[m]
      PROVE  /\ sent[m].at # "done" /\ works[s] /\ (h.what = "err" => copies[m] = 0)
             /\ \A p \in Letters(m) : ~InUp(p) /\ (InDown(p) => p = h)
  BY <1>1, <1>2, <1>5, <1>7 DEF Sound, Unstruck, Quiet, IsReply
<1> QED
  BY <1>2, <1>3, <1>4, <1>5, <1>6, <1>7

LEMMA SlaveTakesAnswerSafely ==
  ASSUME RelayInv, NEW s \in Joined, SlaveTakesAnswer(s)
  PROVE  RelayInv'
<1>1. PICK h \in Mail, m \in Sends : h = Head(down[s]) /\ Has(down[s], h) /\ m = h.send /\ h \in Letters(m)
           /\ h.what \in Whats \ {"request"} /\ down[s] # <<>> /\ down' = Pop(down, s) /\ m # None /\ InDown(h)
  BY DownTaken, SamePacket, RelayAssumption DEF SlaveTakesAnswer, SlaveReads, Letters, None
<1>2. Sound(m) /\ RelayTypes /\ LinkSound
  BY DEF RelayInv
<1>3. /\ sent[m].src = s /\ s # Host /\ h.kind \in {"relay", "contacts"} /\ ~Proxied(m) /\ ~Handled(m)
      /\ sent[m].at \notin {"unborn", "listed", "http"}
      /\ h.kind = "contacts" => /\ sent[m].at \in {"contacts", "done"} /\ copies[m] = 0
                                /\ \A p \in Letters(m) : ~InUp(p) /\ (InDown(p) => p = h)
      /\ h.kind = "relay" => sent[m].at # "contacts" /\ (h.what = "ok" => copies[m] = 1)
      /\ ~struck[m] => /\ sent[m].at # "done" /\ works[s] /\ (h.what = "err" => copies[m] = 0)
                       /\ \A p \in Letters(m) : ~InUp(p) /\ (InDown(p) => p = h)
  BY <1>1, <1>2, AnswerAtSlave
<1>4. \/ ~FromSlave(m, s) /\ sent' = sent
      \/ FromSlave(m, s) /\ sent[m].at = "contacts" /\ h.what = "ok" /\ sent' = [sent EXCEPT ![m].at = "listed"]
      \/ FromSlave(m, s) /\ ~(sent[m].at = "contacts" /\ h.what = "ok") /\ sent' = Tell(m, h.what)
  BY <1>1 DEF SlaveTakesAnswer
<1>5. /\ \A t \in Joined, p \in Letters(m) : (Has(down'[t], p) <=> Has(down[t], p) /\ p # h) /\ (Has(up'[t], p) <=> Has(up[t], p))
      /\ \A p \in Letters(m) : (InUp(p)' <=> InUp(p)) /\ (InDown(p)' <=> InDown(p) /\ p # h)
  BY <1>1, DownTaken DEF Letters, InUp, SlaveTakesAnswer
<1>6. struck' = struck /\ busy' = busy /\ age' = age /\ working' = working /\ UNCHANGED links /\ up' = up
      /\ works' = works /\ hostEnd' = hostEnd /\ slaveEnd' = slaveEnd /\ cuts' = cuts /\ copies' = copies
  BY DEF SlaveTakesAnswer, links, readers
<1>7. /\ sent' \in [Sends -> Stories]
      /\ \A n \in Sends \ {m} : sent'[n] = sent[n]
      /\ sent'[m].src = s /\ sent'[m].dst = sent[m].dst /\ sent'[m].age = sent[m].age
  <2>1. CASE ~FromSlave(m, s) /\ sent' = sent
    BY <1>2, <1>3, <2>1 DEF RelayTypes
  <2>2. CASE sent' = [sent EXCEPT ![m].at = "listed"]
    <3>1. PICK e : e = [sent[m] EXCEPT !.at = "listed"]
      OBVIOUS
    <3>2. sent[m] \in Stories /\ sent \in [Sends -> Stories] /\ sent' = [sent EXCEPT ![m] = e]
      BY <1>2, <2>2, <3>1 DEF RelayTypes
    <3>3. e \in Stories /\ e.src = sent[m].src /\ e.dst = sent[m].dst /\ e.age = sent[m].age
      BY <3>1, <3>2 DEF Stories
    <3> QED
      BY <1>3, <3>2, <3>3
  <2>3. CASE sent' = Tell(m, h.what)
    BY <1>1, <1>2, <1>3, <2>3, Telling DEF Whats
  <2> QED
    BY <1>4, <2>1, <2>2, <2>3
<1>8. \/ sent'[m] = sent[m] /\ sent[m].at = "done" /\ struck[m]
      \/ sent[m].at = "contacts" /\ h.kind = "contacts" /\ sent'[m].at = "listed" /\ sent'[m].told = None
      \/ /\ sent[m].at = "contacts" /\ h.kind = "contacts" /\ h.what = "err"
         /\ sent'[m].at = "done" /\ sent'[m].told = "err"
      \/ /\ sent[m].at = "relay" /\ h.kind = "relay" /\ sent'[m].at = "done" /\ sent'[m].told = h.what
  <2>1. CASE ~FromSlave(m, s) /\ sent' = sent
    <3>1. sent[m].at = "done"
      BY <1>2, <1>3, <2>1 DEF FromSlave, Waiting, Kinds, RelayTypes, Stories
    <3> QED
      BY <1>3, <2>1, <3>1
  <2>2. CASE FromSlave(m, s) /\ sent[m].at = "contacts" /\ h.what = "ok" /\ sent' = [sent EXCEPT ![m].at = "listed"]
    <3>1. sent[m].told = None
      BY <1>2, <2>2 DEF Sound, Early
    <3> QED
      BY <1>2, <1>3, <2>2, <3>1 DEF RelayTypes
  <2>3. CASE FromSlave(m, s) /\ ~(sent[m].at = "contacts" /\ h.what = "ok") /\ sent' = Tell(m, h.what)
    <3>1. sent'[m].at = "done" /\ sent'[m].told = h.what
      BY <1>1, <1>2, <2>3, Telling DEF Whats
    <3>2. sent[m].at \in {"contacts", "relay"}
      BY <1>3, <2>3 DEF FromSlave, Waiting, Kinds
    <3> QED
      BY <1>1, <1>3, <2>3, <3>1, <3>2 DEF Whats
  <2> QED
    BY <1>4, <2>1, <2>2, <2>3
<1>9. RelayTypes' /\ LinkSound'
  <2>1. down' \in [Joined -> Seq(Mail)] /\ \A t \in Joined : Single(down'[t])
    BY <1>1, DownTaken
  <2> QED
    BY <1>2, <1>7, <1>6, <2>1 DEF RelayTypes, LinkSound
<1>10. \A n \in Sends \ {m} : Spared(n)
  BY <1>1, <1>7, <1>6, DownTaken DEF Spared, Letters
<1>11. ~Handled(m)' /\ ~Proxied(m)'
  BY <1>3, <1>6 DEF Handled, Proxied
<1>12. Addressed(m)'
  BY <1>2, <1>3, <1>7, <1>5, <1>6, <1>11 DEF Sound, Addressed, Handled, Proxied
<1>13. OneLetter(m)'
  BY <1>2, <1>5, <1>11 DEF Sound, OneLetter
<1>14. h.kind = "contacts" \/ ~struck[m] => Quiet(m)'
  BY <1>3, <1>5, <1>11 DEF Quiet
<1>15. Early(m)'
  <2>1. sent'[m].at \in {"listed", "done"} /\ (sent'[m].at = "listed" => h.kind = "contacts" /\ sent'[m].told = None)
        /\ (h.kind = "contacts" => copies[m] = 0)
    BY <1>3, <1>8
  <2>2. \A p \in Letters(m) : (InUp(p)' \/ InDown(p)') /\ p.kind = "contacts" => copies[m] = 0
    BY <1>2, <1>5 DEF Sound, Early
  <2>3. sent'[m].at = "listed" => Quiet(m)'
    BY <1>14, <2>1
  <2> QED
    BY <1>3, <1>7, <1>6, <1>11, <2>1, <2>2, <2>3 DEF Early, Quiet, Kinds
<1>16. Written(m)'
  BY <1>2, <1>3, <1>8, <1>5, <1>6, <1>11 DEF Sound, Written, None
<1>17. ASSUME ~struck'[m] PROVE Unstruck(m)'
  <2>1. Unstruck(m) /\ ~struck[m] /\ Quiet(m)'
    BY <1>2, <1>6, <1>14, <1>17 DEF Sound
  <2>2. sent'[m].told = "err" => copies[m] = 0
    BY <1>3, <1>8, <2>1 DEF None
  <2>3. ~Waiting(m)'
    BY <1>8, <2>1 DEF Waiting, Kinds
  <2>4. sent[m].age = 0 /\ \A t \in Joined : busy'[t] # m /\ working'[t] # m
    BY <1>11, <2>1 DEF Unstruck, Handled, Proxied
  <2>5. \A p \in Letters(m) : ~InUp(p)' /\ ~InDown(p)' /\ \A t \in Joined : ~Has(up'[t], p) /\ ~Has(down'[t], p)
    BY <2>1 DEF Quiet, InUp, InDown
  <2> QED
    BY <1>7, <1>6, <1>11, <2>1, <2>2, <2>3, <2>4, <2>5 DEF Unstruck, FromSlave
<1>18. Flows(m)'
  BY <1>8, <1>11 DEF Flows, FromHost, FromSlave, Waiting, Kinds
<1> QED
  BY <1>9, <1>10, <1>12, <1>13, <1>15, <1>16, <1>17, <1>18, OneSendAtATime, <1>6 DEF Sound

LEMMA HandlerTimesOutSafely ==
  ASSUME RelayInv, NEW s \in Joined, HandlerTimesOut(s)
  PROVE  RelayInv'
<1>1. PICK m \in Sends : m = busy[s] /\ m # None
  BY DEF HandlerTimesOut, HandlerDue, RelayInv, RelayTypes
<1>2. Sound(m) /\ RelayTypes /\ LinkSound
  BY DEF RelayInv
<1>3. /\ Handled(m) /\ ~Proxied(m) /\ struck[m] /\ sent[m].src = s /\ s # Host
      /\ \A p \in Letters(m) : (InUp(p) => IsReply(p)) /\ (InDown(p) => p = Packet(m, "relay", "request"))
      /\ \A t \in Joined : busy[t] = m => t = s
      /\ sent[m].at \notin {"unborn", "listed", "contacts"}
  <2>1. Handled(m)
    BY <1>1 DEF Handled
  <2>2. ~Proxied(m) /\ \A p \in Letters(m) : (InUp(p) => IsReply(p)) /\ (InDown(p) => p = Packet(m, "relay", "request"))
    BY <1>2, <2>1 DEF Sound, OneLetter
  <2>3. sent[m].src = s /\ (\A t \in Joined : busy[t] = m => t = s) /\ s # Host
    BY <1>1, <1>2, RelayAssumption DEF Sound, Addressed, Host
  <2>4. struck[m]
    <3>1. age[s] # 0
      BY <1>2 DEF HandlerTimesOut, HandlerDue, HostLimit, RelayTypes
    <3> QED
      BY <1>1, <1>2, <3>1 DEF Sound, Unstruck
  <2>5. sent[m].at \notin {"unborn", "listed", "contacts"}
    BY <1>2, <2>1 DEF Sound, Early
  <2> QED
    BY <2>1, <2>2, <2>3, <2>4, <2>5
<1>4. PICK x \in Letters(m) : x = Packet(m, "relay", "err") /\ x \in Mail /\ x.kind = "relay" /\ x.what = "err"
             /\ down' = Put(down, s, x)
  BY <1>1, PacketFields DEF HandlerTimesOut, Reply, Kinds, Whats
<1>5. busy' = [busy EXCEPT ![s] = None]
  BY DEF HandlerTimesOut
<1>6. \A t \in Joined : busy'[t] = (IF t = s THEN None ELSE busy[t])
  BY <1>2, <1>5 DEF RelayTypes
<1>7. /\ \A t \in Joined, p \in Letters(m) : /\ Has(down'[t], p) <=> Has(down[t], p) \/ (works[s] /\ t = s /\ p = x)
                                             /\ Has(up'[t], p) <=> Has(up[t], p)
      /\ \A p \in Letters(m) : (InUp(p)' <=> InUp(p)) /\ (InDown(p)' <=> InDown(p) \/ (works[s] /\ p = x))
      /\ ~InDown(x)
  <2>1. ~InDown(x)
    BY <1>3, <1>4, PacketFields DEF Kinds, Whats
  <2>2. up' = up
    BY DEF HandlerTimesOut
  <2> QED
    BY <1>1, <1>4, <2>1, <2>2, DownPut DEF Letters, InUp
<1>8. sent' = sent /\ struck' = struck /\ age' = age /\ working' = working /\ UNCHANGED links /\ up' = up
      /\ works' = works /\ hostEnd' = hostEnd /\ slaveEnd' = slaveEnd /\ cuts' = cuts /\ copies' = copies
  BY DEF HandlerTimesOut, links
<1>9. RelayTypes' /\ LinkSound'
  <2>1. down' \in [Joined -> Seq(Mail)] /\ \A t \in Joined : Single(down'[t])
    BY <1>4, <1>7, DownPut
  <2>2. busy' \in [Joined -> Sends \cup {None}]
    BY <1>2, <1>5 DEF RelayTypes
  <2> QED
    BY <1>2, <1>8, <2>1, <2>2 DEF RelayTypes, LinkSound
<1>10. \A n \in Sends \ {m} : Spared(n)
  <2>1. \A n \in Sends : n # None
    BY RelayAssumption DEF None
  <2> QED
    BY <1>1, <1>4, <1>6, <1>7, <1>8, <2>1, DownPut DEF Spared, Letters
<1>11. ~Handled(m)' /\ ~Proxied(m)'
  BY <1>1, <1>3, <1>6, <1>8 DEF Handled, Proxied
<1>12. Addressed(m)'
  BY <1>2, <1>3, <1>4, <1>7, <1>8, <1>11 DEF Sound, Addressed, Handled, Proxied
<1>13. OneLetter(m)'
  <2>1. \A p \in Letters(m) : InDown(p)' => p = x \/ (InDown(p) /\ p.kind = "relay" /\ p.what = "request")
    BY <1>3, <1>7, PacketFields DEF Kinds, Whats
  <2> QED
    BY <1>2, <1>3, <1>4, <1>7, <1>11, <2>1 DEF Sound, OneLetter, IsReply
<1>14. Early(m)'
  <2>1. \A p \in Letters(m) : InUp(p)' \/ InDown(p)' => p.kind = "relay"
    BY <1>3, <1>4, <1>7, PacketFields DEF IsReply, Kinds, Whats
  <2> QED
    BY <1>2, <1>3, <1>8, <1>11, <2>1 DEF Sound, Early
<1>15. Written(m)'
  BY <1>2, <1>4, <1>7, <1>8, <1>11 DEF Sound, Written
<1>16. Flows(m)'
  BY <1>2, <1>3, <1>4, <1>7, <1>8, <1>11 DEF Sound, Flows, FromHost, FromSlave, Waiting
<1> QED
  BY <1>3, <1>8, <1>9, <1>10, <1>12, <1>13, <1>14, <1>15, <1>16, OneSendAtATime DEF Sound

LEMMA CallerTimesOutSafely ==
  ASSUME RelayInv, NEW m \in Sends, CallerTimesOut(m)
  PROVE  RelayInv'
<1>1. Sound(m) /\ RelayTypes /\ LinkSound
  BY DEF RelayInv
<1>2. struck[m] /\ sent[m].at \in Kinds
  <2>1. sent[m].age \in Nat /\ sent[m].age >= 1
    BY <1>1 DEF CallerTimesOut, Due, HostLimit, SlaveLimit, RelayTypes, Stories
  <2> QED
    BY <1>1, <2>1 DEF Sound, Unstruck, CallerTimesOut, Due, Waiting
<1>3. /\ sent'[m].at = "done" /\ sent'[m].told = "err" /\ sent'[m].src = sent[m].src /\ sent'[m].dst = sent[m].dst
      /\ \A n \in Sends \ {m} : sent'[n] = sent[n]
      /\ sent' \in [Sends -> Stories]
  BY <1>1, Telling DEF CallerTimesOut
<1>4. struck' = struck /\ age' = age /\ working' = working /\ busy' = busy /\ UNCHANGED links /\ up' = up /\ down' = down
      /\ works' = works /\ hostEnd' = hostEnd /\ slaveEnd' = slaveEnd /\ cuts' = cuts /\ copies' = copies
  BY DEF CallerTimesOut, links, readers
<1>5. RelayTypes' /\ LinkSound'
  BY <1>1, <1>3, <1>4 DEF RelayTypes, LinkSound
<1>6. \A n \in Sends \ {m} : Spared(n)
  BY <1>3, <1>4 DEF Spared
<1>7. (Handled(m)' <=> Handled(m)) /\ (Proxied(m)' <=> Proxied(m))
      /\ \A p \in Letters(m) : (InUp(p)' <=> InUp(p)) /\ (InDown(p)' <=> InDown(p))
  BY <1>4 DEF Handled, Proxied, InUp, InDown
<1>8. Addressed(m)'
  BY <1>1, <1>3, <1>4 DEF Sound, Addressed
<1>9. OneLetter(m)'
  BY <1>1, <1>7 DEF Sound, OneLetter
<1>10. Early(m)'
  BY <1>1, <1>3, <1>4, <1>7 DEF Sound, Early, Kinds
<1>11. Written(m)'
  BY <1>1, <1>3, <1>4, <1>7 DEF Sound, Written
<1>12. Flows(m)'
  BY <1>1, <1>3, <1>4, <1>7 DEF Sound, Flows, FromHost, FromSlave, Waiting, Kinds
<1> QED
  BY <1>2, <1>4, <1>5, <1>6, <1>8, <1>9, <1>10, <1>11, <1>12, OneSendAtATime DEF Sound

\* What is known of a send that waits for nothing yet.
LEMMA NothingSent ==
  ASSUME RelayInv, NEW m \in Sends, sent[m].at \in {"unborn", "listed"}
  PROVE  /\ Sound(m) /\ RelayTypes /\ LinkSound
         /\ ~Handled(m) /\ ~Proxied(m) /\ copies[m] = 0 /\ sent[m].told = None
         /\ \A p \in Letters(m) : ~InUp(p) /\ ~InDown(p)
         /\ \A t \in Joined : busy[t] # m /\ working[t] # m /\ \A p \in Letters(m) : ~Has(up[t], p) /\ ~Has(down[t], p)
         /\ ~struck[m] => sent[m].age = 0
         /\ sent[m].at = "unborn" => sent[m].src = Host
<1>1. Sound(m) /\ RelayTypes /\ LinkSound
  BY DEF RelayInv
<1>2. Quiet(m) /\ copies[m] = 0 /\ sent[m].told = None /\ (sent[m].at = "unborn" => sent[m].src = Host)
  BY <1>1 DEF Sound, Early
<1>3. ~struck[m] => sent[m].age = 0
  BY <1>1 DEF Sound, Unstruck
<1> QED
  BY <1>1, <1>2, <1>3 DEF Quiet, Handled, Proxied, InUp, InDown

\* A send that ends before it has put a request on a link.
LEMMA EndsAtOnceSafely ==
  ASSUME RelayInv, NEW m \in Sends, sent[m].at \in {"unborn", "listed"}, NEW what \in {"ok", "err"},
         sent' = Tell(m, what),
         copies' = [copies EXCEPT ![m] = copies'[m]], copies'[m] \in {0, 1}, copies'[m] = 1 <=> what = "ok",
         UNCHANGED <<struck, up, down, links, readers>>
  PROVE  RelayInv'
<1>1. /\ Sound(m) /\ RelayTypes /\ LinkSound
      /\ ~Handled(m) /\ ~Proxied(m) /\ copies[m] = 0 /\ sent[m].told = None
      /\ \A p \in Letters(m) : ~InUp(p) /\ ~InDown(p)
      /\ \A t \in Joined : busy[t] # m /\ working[t] # m /\ \A p \in Letters(m) : ~Has(up[t], p) /\ ~Has(down[t], p)
      /\ ~struck[m] => sent[m].age = 0
  BY NothingSent
<1>2. /\ sent' \in [Sends -> Stories] /\ sent'[m].at = "done" /\ sent'[m].told = what
      /\ sent'[m].age = sent[m].age /\ \A n \in Sends \ {m} : sent'[n] = sent[n]
  BY <1>1, Telling
<1>3. struck' = struck /\ age' = age /\ working' = working /\ busy' = busy /\ UNCHANGED links /\ up' = up /\ down' = down
      /\ works' = works /\ hostEnd' = hostEnd /\ slaveEnd' = slaveEnd /\ cuts' = cuts
  BY DEF links, readers
<1>4. RelayTypes' /\ LinkSound'
  <2>1. copies' \in [Sends -> {0, 1}]
    BY <1>1 DEF RelayTypes
  <2> QED
    BY <1>1, <1>2, <1>3, <2>1 DEF RelayTypes, LinkSound
<1>5. \A n \in Sends \ {m} : Spared(n)
  BY <1>1, <1>2, <1>3 DEF Spared, RelayTypes
<1>6. /\ ~Handled(m)' /\ ~Proxied(m)' /\ ~Waiting(m)' /\ \A p \in Letters(m) : ~InUp(p)' /\ ~InDown(p)'
      /\ \A t \in Joined, p \in Letters(m) : ~Has(up'[t], p) /\ ~Has(down'[t], p)
  BY <1>1, <1>2, <1>3 DEF Handled, Proxied, InUp, InDown, Waiting, Kinds
<1>7. Addressed(m)'
  BY <1>1, <1>3, <1>6 DEF Addressed
<1>8. OneLetter(m)'
  BY <1>6 DEF OneLetter
<1>9. Early(m)'
  BY <1>2, <1>6 DEF Early, Kinds
<1>10. Written(m)'
  BY <1>2, <1>6 DEF Written
<1>11. ASSUME ~struck'[m] PROVE Unstruck(m)'
  <2>1. sent'[m].age = 0 /\ (what = "err" => copies'[m] = 0) /\ Quiet(m)'
    BY <1>1, <1>2, <1>3, <1>6, <1>11 DEF Quiet
  <2> QED
    BY <1>1, <1>2, <1>3, <1>6, <2>1 DEF Unstruck, FromSlave
<1>12. Flows(m)'
  BY <1>2, <1>6 DEF Flows, FromHost, FromSlave, Waiting, Kinds
<1> QED
  BY <1>4, <1>5, <1>7, <1>8, <1>9, <1>10, <1>11, <1>12, OneSendAtATime, <1>3 DEF Sound

LEMMA HostAsksSafely ==
  ASSUME RelayInv, NEW m \in Sends, sent[m].at = "unborn", NEW d \in Joined, hostEnd[d] = "up",
         NEW kind \in {"relay", "http"},
         sent' = [sent EXCEPT ![m].at = kind, ![m].dst = d], down' = Put(down, d, Packet(m, kind, "request")),
         UNCHANGED <<copies, struck, up, links, readers>>
  PROVE  RelayInv'
<1>1. /\ Sound(m) /\ RelayTypes /\ LinkSound
      /\ ~Handled(m) /\ ~Proxied(m) /\ copies[m] = 0 /\ sent[m].told = None
      /\ \A p \in Letters(m) : ~InUp(p) /\ ~InDown(p)
      /\ \A t \in Joined : busy[t] # m /\ working[t] # m /\ \A p \in Letters(m) : ~Has(up[t], p) /\ ~Has(down[t], p)
      /\ ~struck[m] => sent[m].age = 0
      /\ sent[m].src = Host /\ d # Host
  BY NothingSent, RelayAssumption DEF Host
<1>2. PICK x \in Letters(m) : x = Packet(m, kind, "request") /\ x \in Mail /\ x.kind = kind /\ x.what = "request"
             /\ down' = Put(down, d, x)
  BY PacketFields DEF Kinds, Whats
<1>3. /\ sent' \in [Sends -> Stories] /\ sent'[m].at = kind /\ sent'[m].told = None /\ sent'[m].src = Host
      /\ sent'[m].age = sent[m].age /\ sent'[m].dst = d /\ \A n \in Sends \ {m} : sent'[n] = sent[n]
  <2>1. PICK e : e = [sent[m] EXCEPT !.at = kind, !.dst = d]
    OBVIOUS
  <2>2. sent[m] \in Stories /\ sent \in [Sends -> Stories] /\ sent' = [sent EXCEPT ![m] = e]
    BY <1>1, <2>1 DEF RelayTypes
  <2>3. e \in Stories /\ e.at = kind /\ e.told = None /\ e.src = Host /\ e.age = sent[m].age /\ e.dst = d
    BY <1>1, <2>1, <2>2 DEF Stories, Kinds, Engines
  <2> QED
    BY <2>2, <2>3
<1>4. /\ \A t \in Joined, p \in Letters(m) : ~Has(up'[t], p) /\ (Has(down'[t], p) <=> (works[d] /\ t = d /\ p = x))
      /\ \A p \in Letters(m) : ~InUp(p)' /\ (InDown(p)' <=> (works[d] /\ p = x))
  BY <1>1, <1>2, DownPut DEF Letters, InUp, InDown
<1>5. struck' = struck /\ age' = age /\ working' = working /\ busy' = busy /\ UNCHANGED links /\ up' = up /\ copies' = copies
      /\ works' = works /\ hostEnd' = hostEnd /\ slaveEnd' = slaveEnd /\ cuts' = cuts
  BY DEF links, readers
<1>6. RelayTypes' /\ LinkSound'
  <2>1. down' \in [Joined -> Seq(Mail)] /\ \A t \in Joined : Single(down'[t])
    BY <1>1, <1>2, DownPut
  <2> QED
    BY <1>1, <1>3, <1>5, <2>1 DEF RelayTypes, LinkSound
<1>7. \A n \in Sends \ {m} : Spared(n)
  BY <1>1, <1>2, <1>3, <1>5, DownPut DEF Spared, Letters
<1>8. ~Handled(m)' /\ ~Proxied(m)' /\ \A t \in Joined : busy'[t] # m /\ working'[t] # m
  BY <1>1, <1>5 DEF Handled, Proxied
<1>9. Addressed(m)'
  BY <1>2, <1>3, <1>4, <1>8 DEF Addressed
<1>10. OneLetter(m)'
  BY <1>2, <1>4, <1>8 DEF OneLetter, IsReply
<1>11. Early(m)'
  BY <1>1, <1>2, <1>3, <1>4, <1>5, <1>8 DEF Early, Kinds, Quiet
<1>12. Written(m)'
  BY <1>1, <1>2, <1>3, <1>4, <1>5, <1>8 DEF Written, None
<1>13. ASSUME ~struck'[m] PROVE Unstruck(m)'
  <2>1. sent'[m].age = 0 /\ sent'[m].at # "done" /\ sent'[m].told # "err" /\ copies'[m] = 0
    BY <1>1, <1>3, <1>5, <1>13 DEF None
  <2>2. \A t \in Joined : ~FromSlave(m, t)'
    BY <1>1, <1>3, RelayAssumption DEF FromSlave, Host
  <2> QED
    BY <1>2, <1>3, <1>4, <1>5, <1>8, <2>1, <2>2 DEF Unstruck, IsReply
<1>14. Flows(m)'
  BY <1>1, <1>2, <1>3, <1>4, <1>5, <1>8, RelayAssumption DEF Flows, FromHost, FromSlave, Waiting, Kinds, Host
<1> QED
  BY <1>6, <1>7, <1>9, <1>10, <1>11, <1>12, <1>13, <1>14, OneSendAtATime, <1>5 DEF Sound

LEMMA SlaveAsksSafely ==
  ASSUME RelayInv, NEW m \in Sends, NEW s \in Joined, slaveEnd[s] = "up", NEW kind \in {"contacts", "relay"},
         sent[m].at \in {"unborn", "listed"}, sent' \in [Sends -> Stories],
         sent'[m].at = kind, sent'[m].src = s, sent'[m].told = sent[m].told, ~struck[m] => sent'[m].age = 0,
         \A n \in Sends \ {m} : sent'[n] = sent[n],
         up' = Put(up, s, Packet(m, kind, "request")),
         UNCHANGED <<copies, struck, down, links, readers>>
  PROVE  RelayInv'
<1>1. /\ Sound(m) /\ RelayTypes /\ LinkSound
      /\ ~Handled(m) /\ ~Proxied(m) /\ copies[m] = 0 /\ sent[m].told = None
      /\ \A p \in Letters(m) : ~InUp(p) /\ ~InDown(p)
      /\ \A t \in Joined : busy[t] # m /\ working[t] # m /\ \A p \in Letters(m) : ~Has(up[t], p) /\ ~Has(down[t], p)
      /\ s # Host
  BY NothingSent, RelayAssumption DEF Host
<1>2. PICK x \in Letters(m) : x = Packet(m, kind, "request") /\ x \in Mail /\ x.kind = kind /\ x.what = "request"
             /\ up' = Put(up, s, x)
  BY PacketFields DEF Kinds, Whats
<1>3. /\ \A t \in Joined, p \in Letters(m) : ~Has(down'[t], p) /\ (Has(up'[t], p) <=> (works[s] /\ t = s /\ p = x))
      /\ \A p \in Letters(m) : ~InDown(p)' /\ (InUp(p)' <=> (works[s] /\ p = x))
  BY <1>1, <1>2, UpPut DEF Letters, InUp, InDown
<1>4. struck' = struck /\ age' = age /\ working' = working /\ busy' = busy /\ UNCHANGED links /\ down' = down /\ copies' = copies
      /\ works' = works /\ hostEnd' = hostEnd /\ slaveEnd' = slaveEnd /\ cuts' = cuts
  BY DEF links, readers
<1>5. RelayTypes' /\ LinkSound'
  <2>1. up' \in [Joined -> Seq(Mail)] /\ \A t \in Joined : Single(up'[t])
    BY <1>1, <1>2, UpPut
  <2> QED
    BY <1>1, <1>4, <2>1 DEF RelayTypes, LinkSound
<1>6. \A n \in Sends \ {m} : Spared(n)
  BY <1>1, <1>2, <1>4, UpPut DEF Spared, Letters
<1>7. ~Handled(m)' /\ ~Proxied(m)' /\ \A t \in Joined : busy'[t] # m /\ working'[t] # m
  BY <1>1, <1>4 DEF Handled, Proxied
<1>8. Addressed(m)'
  BY <1>2, <1>3, <1>7 DEF Addressed
<1>9. OneLetter(m)'
  BY <1>2, <1>3, <1>7 DEF OneLetter, IsReply
<1>10. Early(m)'
  BY <1>1, <1>2, <1>3, <1>4, <1>7 DEF Early, Kinds, Quiet
<1>11. Written(m)'
  BY <1>1, <1>2, <1>3, <1>4, <1>7 DEF Written, None
<1>12. ASSUME ~struck'[m] PROVE Unstruck(m)'
  <2>1. sent'[m].age = 0 /\ sent'[m].at # "done" /\ sent'[m].told # "err" /\ copies'[m] = 0
    BY <1>1, <1>4, <1>12 DEF None
  <2>2. \A t \in Joined : ~works[t] /\ FromSlave(m, t)' => Quiet(m)'
    BY <1>3, <1>7 DEF FromSlave, Quiet
  <2> QED
    BY <1>2, <1>3, <1>4, <1>7, <2>1, <2>2 DEF Unstruck, IsReply
<1>13. Flows(m)'
  <2>1. kind = "relay" /\ works[s] => InUp(Packet(m, "relay", "request"))'
    BY <1>2, <1>3
  <2>2. works[s] => InUp(x)'
    BY <1>3
  <2>3. \A t \in Joined : slaveEnd[t] = "down" => ~FromSlave(m, t)'
    BY DEF FromSlave
  <2> QED
    BY <1>1, <1>4, <1>7, <2>1, <2>2, <2>3 DEF Flows, FromHost
<1> QED
  BY <1>5, <1>6, <1>8, <1>9, <1>10, <1>11, <1>12, <1>13, OneSendAtATime, <1>4 DEF Sound

LEMMA SenderSafely ==
  ASSUME RelayInv, NEW m \in Sends, Sender(m)
  PROVE  RelayInv'
<1>1. RelayTypes /\ sent \in [Sends -> Stories] /\ copies \in [Sends -> {0, 1}]
  BY DEF RelayInv, RelayTypes
<1>2. \A what \in {"ok", "err"} : sent[m].at \in {"unborn", "listed"} /\ sent' = Tell(m, what) /\ what = "err"
        /\ UNCHANGED <<copies, struck, up, down, links, readers>> => RelayInv'
  <2> SUFFICES ASSUME sent[m].at \in {"unborn", "listed"}, sent' = Tell(m, "err"),
                      UNCHANGED <<copies, struck, up, down, links, readers>>
               PROVE  RelayInv'
    OBVIOUS
  <2>1. copies[m] = 0
    BY NothingSent
  <2>2. copies' = [copies EXCEPT ![m] = copies'[m]] /\ copies'[m] \in {0, 1} /\ (copies'[m] = 1 <=> "err" = "ok")
    BY <1>1, <2>1
  <2> QED
    BY <2>2, EndsAtOnceSafely
<1>3. CASE HostSends(m)
  <2>1. PICK d \in Engines :
      /\ sent[m].at = "unborn" /\ UNCHANGED <<struck, up, links, readers>>
      /\ \/ /\ d \in Joined /\ hostEnd[d] = "up"
            /\ sent' = [sent EXCEPT ![m].at = "relay", ![m].dst = d]
            /\ down' = Put(down, d, Packet(m, "relay", "request"))
            /\ UNCHANGED copies
         \/ sent' = Tell(m, "err") /\ UNCHANGED <<copies, down>>
         \/ (\E ok \in BOOLEAN : Deliver(m, ok) /\ sent' = Tell(m, Verdict(ok))) /\ UNCHANGED down
    BY <1>3 DEF HostSends
  <2>2. CASE /\ d \in Joined /\ hostEnd[d] = "up"
             /\ sent' = [sent EXCEPT ![m].at = "relay", ![m].dst = d]
             /\ down' = Put(down, d, Packet(m, "relay", "request"))
             /\ UNCHANGED copies
    BY <2>1, <2>2, HostAsksSafely
  <2>3. CASE sent' = Tell(m, "err") /\ UNCHANGED <<copies, down>>
    BY <1>2, <2>1, <2>3
  <2>4. CASE (\E ok \in BOOLEAN : Deliver(m, ok) /\ sent' = Tell(m, Verdict(ok))) /\ UNCHANGED down
    <3>1. copies[m] = 0
      BY <2>1, NothingSent
    <3>2. PICK ok \in BOOLEAN : Deliver(m, ok) /\ sent' = Tell(m, Verdict(ok))
      BY <2>4
    <3>3. PICK what \in {"ok", "err"} : what = Verdict(ok)
      BY DEF Verdict
    <3>4. copies' = [copies EXCEPT ![m] = copies'[m]] /\ copies'[m] \in {0, 1} /\ (copies'[m] = 1 <=> what = "ok")
      BY <1>1, <3>1, <3>2, <3>3, Delivered
    <3> QED
      BY <2>1, <2>4, <3>2, <3>3, <3>4, EndsAtOnceSafely
  <2> QED
    BY <2>1, <2>2, <2>3, <2>4
<1>4. CASE HostProxies(m)
  BY <1>4, HostAsksSafely DEF HostProxies
<1>5. ASSUME NEW s \in Joined, SlaveSends(m, s) PROVE RelayInv'
  <2>1. PICK d \in Engines :
      /\ sent[m].at = "unborn" /\ UNCHANGED <<copies, struck, down, links, readers>>
      /\ \/ /\ slaveEnd[s] = "up"
            /\ sent' = [sent EXCEPT ![m].at = "contacts", ![m].src = s, ![m].dst = d]
            /\ up' = Put(up, s, Packet(m, "contacts", "request"))
         \/ sent' = Tell(m, "err") /\ UNCHANGED up
    BY <1>5 DEF SlaveSends
  <2>2. CASE /\ slaveEnd[s] = "up"
             /\ sent' = [sent EXCEPT ![m].at = "contacts", ![m].src = s, ![m].dst = d]
             /\ up' = Put(up, s, Packet(m, "contacts", "request"))
    <3>1. PICK e : e = [sent[m] EXCEPT !.at = "contacts", !.src = s, !.dst = d]
      OBVIOUS
    <3>2. sent[m] \in Stories /\ sent' = [sent EXCEPT ![m] = e]
      BY <1>1, <2>2, <3>1
    <3>3. e \in Stories /\ e.at = "contacts" /\ e.told = sent[m].told /\ e.src = s /\ e.age = sent[m].age
      BY <3>1, <3>2 DEF Stories, Kinds, Engines
    <3>4. ~struck[m] => sent[m].age = 0
      BY <2>1, NothingSent
    <3>5. /\ sent' \in [Sends -> Stories] /\ sent'[m].at = "contacts" /\ sent'[m].src = s /\ sent'[m].told = sent[m].told
          /\ (~struck[m] => sent'[m].age = 0) /\ \A n \in Sends \ {m} : sent'[n] = sent[n]
      BY <1>1, <3>2, <3>3, <3>4
    <3> QED
      BY <2>1, <2>2, <3>5, SlaveAsksSafely
  <2>3. CASE sent' = Tell(m, "err") /\ UNCHANGED up
    BY <1>2, <2>1, <2>3
  <2> QED
    BY <2>1, <2>2, <2>3
<1>6. ASSUME NEW s \in Joined, SlaveRelays(m, s) PROVE RelayInv'
  <2>1. /\ sent[m].at = "listed" /\ UNCHANGED <<copies, struck, down, links, readers>>
        /\ \/ slaveEnd[s] = "up" /\ Ask(m, s, "relay")
           \/ sent' = Tell(m, "err") /\ UNCHANGED up
    BY <1>6 DEF SlaveRelays
  <2>2. CASE slaveEnd[s] = "up" /\ Ask(m, s, "relay")
    <3>1. PICK e : e = [sent[m] EXCEPT !.at = "relay", !.src = s, !.age = 0]
      OBVIOUS
    <3>2. sent[m] \in Stories /\ sent' = [sent EXCEPT ![m] = e]
      BY <1>1, <2>2, <3>1 DEF Ask
    <3>3. e \in Stories /\ e.at = "relay" /\ e.told = sent[m].told /\ e.src = s /\ e.age = 0
      BY <3>1, <3>2 DEF Stories, Kinds, Engines
    <3>5. /\ sent' \in [Sends -> Stories] /\ sent'[m].at = "relay" /\ sent'[m].src = s /\ sent'[m].told = sent[m].told
          /\ (~struck[m] => sent'[m].age = 0) /\ \A n \in Sends \ {m} : sent'[n] = sent[n]
      BY <1>1, <3>2, <3>3
    <3> QED
      BY <2>1, <2>2, <3>5, SlaveAsksSafely DEF Ask
  <2>3. CASE sent' = Tell(m, "err") /\ UNCHANGED up
    BY <1>2, <2>1, <2>3
  <2> QED
    BY <2>1, <2>2, <2>3
<1> QED
  BY <1>3, <1>4, <1>5, <1>6 DEF Sender

LEMMA TickSafely ==
  ASSUME RelayInv, Tick
  PROVE  RelayInv'
<1>1. RelayTypes /\ LinkSound /\ \A m \in Sends : Sound(m)
  BY DEF RelayInv
<1>2. UNCHANGED <<copies, up, down, busy, working>> /\ works' = works /\ hostEnd' = hostEnd /\ slaveEnd' = slaveEnd /\ cuts' = cuts
  BY DEF Tick, links
<1>3. struck' \in [Sends -> BOOLEAN] /\ \A m \in Sends : ~struck'[m] => ~struck[m] /\ ~Waiting(m)
  <2>1. struck' = [m \in Sends |-> struck[m] \/ Waiting(m)]
    BY DEF Tick
  <2>2. struck' \in [Sends -> BOOLEAN]
    BY <1>1, <2>1, Zenon DEF RelayTypes
  <2> QED
    BY <2>1, <2>2
<1>4. age' \in [Joined -> Nat] /\ \A s \in Joined : busy[s] = None => age'[s] = age[s]
  BY <1>1 DEF Tick, RelayTypes
<1>5. ASSUME NEW m \in Sends
      PROVE  /\ sent'[m] \in Stories /\ sent'[m].at = sent[m].at /\ sent'[m].src = sent[m].src /\ sent'[m].dst = sent[m].dst
             /\ sent'[m].told = sent[m].told /\ (~Waiting(m) => sent'[m].age = sent[m].age)
  <2>1. sent[m] \in Stories
    BY <1>1 DEF RelayTypes
  <2>2. sent'[m] = IF Waiting(m) THEN [sent[m] EXCEPT !.age = @ + 1] ELSE sent[m]
    BY DEF Tick
  <2> QED
    BY <2>1, <2>2 DEF Stories
<1>6. RelayTypes'
  <2>1. sent' \in [Sends -> Stories]
    <3>1. sent' = [m \in Sends |-> IF Waiting(m) THEN [sent[m] EXCEPT !.age = @ + 1] ELSE sent[m]]
      BY DEF Tick
    <3>2. sent' = [m \in Sends |-> sent'[m]]
      BY <3>1, Zenon
    <3> QED
      BY <1>5, <3>2, Zenon
  <2> QED
    BY <1>1, <1>2, <1>3, <1>4, <2>1 DEF RelayTypes
<1>7. LinkSound'
  BY <1>1, <1>2 DEF LinkSound
<1>8. ASSUME NEW m \in Sends PROVE Sound(m)'
  <2>1. /\ (Handled(m)' <=> Handled(m)) /\ (Proxied(m)' <=> Proxied(m)) /\ (Quiet(m)' <=> Quiet(m))
        /\ \A p \in Letters(m) : (InUp(p)' <=> InUp(p)) /\ (InDown(p)' <=> InDown(p))
    BY <1>2 DEF Handled, Proxied, Quiet, InUp, InDown
  <2>2. (Waiting(m)' <=> Waiting(m)) /\ (FromHost(m)' <=> FromHost(m)) /\ \A s \in Joined : FromSlave(m, s)' <=> FromSlave(m, s)
    BY <1>5 DEF Waiting, FromHost, FromSlave
  <2>3. Sound(m)
    BY <1>1
  <2>4. Addressed(m)'
    BY <1>2, <1>5, <2>3 DEF Sound, Addressed
  <2>5. OneLetter(m)'
    BY <2>1, <2>3 DEF Sound, OneLetter
  <2>6. Early(m)'
    BY <1>2, <1>5, <2>1, <2>3 DEF Sound, Early
  <2>7. Written(m)'
    BY <1>2, <1>5, <2>1, <2>3 DEF Sound, Written
  <2>8. ASSUME ~struck'[m] PROVE Unstruck(m)'
    <3>1. Unstruck(m) /\ ~Waiting(m)
      BY <1>3, <2>3, <2>8 DEF Sound
    <3>2. sent[m].at \in {"unborn", "listed", "done"}
      BY <1>1, <3>1 DEF Waiting, RelayTypes, Stories
    <3>3. Quiet(m)
      BY <2>3, <3>1, <3>2 DEF Sound, Early, Unstruck
    <3>4. \A p \in Letters(m) : ~InUp(p)' /\ ~InDown(p)' /\ \A t \in Joined : ~Has(up'[t], p) /\ ~Has(down'[t], p)
      BY <2>1, <3>3 DEF Quiet, InUp, InDown
    <3>5. \A t \in Joined : busy'[t] # m /\ working'[t] # m
      BY <1>2, <3>3 DEF Quiet, Handled, Proxied
    <3> QED
      BY <1>2, <1>5, <2>1, <2>2, <3>1, <3>3, <3>4, <3>5 DEF Unstruck, FromSlave
  <2>9. Flows(m)'
    <3>1. Flows(m) /\ Packet(m, "relay", "request") \in Letters(m) /\ Packet(m, "relay", "ok") \in Letters(m)
          /\ Packet(m, "relay", "err") \in Letters(m)
      BY <2>3, PacketFields DEF Sound, Kinds, Whats
    <3> QED
      BY <1>2, <1>5, <2>1, <2>2, <3>1 DEF Flows
  <2> QED
    BY <2>4, <2>5, <2>6, <2>7, <2>8, <2>9 DEF Sound
<1> QED
  BY <1>6, <1>7, <1>8 DEF RelayInv

LEMMA CutSafely ==
  ASSUME RelayInv, NEW s \in Joined, Cut(s)
  PROVE  RelayInv'
<1>1. RelayTypes /\ LinkSound /\ \A m \in Sends : Sound(m)
  BY DEF RelayInv
<1>2. /\ UNCHANGED <<sent, copies, busy, age, working>> /\ hostEnd' = hostEnd /\ slaveEnd' = slaveEnd
      /\ works' = [works EXCEPT ![s] = FALSE] /\ cuts' = cuts + 1
  BY DEF Cut, readers
<1>3. struck' \in [Sends -> BOOLEAN] /\ \A m \in Sends : ~struck'[m] => ~struck[m] /\ ~Waiting(m) /\ sent[m].at # "listed"
  <2>1. struck' = [m \in Sends |-> struck[m] \/ Waiting(m) \/ sent[m].at = "listed"]
    BY DEF Cut
  <2>2. struck' \in [Sends -> BOOLEAN]
    BY <1>1, <2>1, Zenon DEF RelayTypes
  <2> QED
    BY <2>1, <2>2
<1>4. works' \in [Joined -> BOOLEAN] /\ \A t \in Joined : works'[t] => t # s /\ works[t]
  BY <1>1, <1>2 DEF RelayTypes
<1>5. /\ up' \in [Joined -> Seq(Mail)] /\ down' \in [Joined -> Seq(Mail)]
      /\ \A t \in Joined : Single(up'[t]) /\ Single(down'[t])
      /\ \A t \in Joined, p \in Mail : /\ (Has(up'[t], p) => Has(up[t], p)) /\ (Has(down'[t], p) => Has(down[t], p))
                                       /\ t # s => (Has(up'[t], p) <=> Has(up[t], p)) /\ (Has(down'[t], p) <=> Has(down[t], p))
  <2>1. PICK i \in 0..Len(up[s]), j \in 0..Len(down[s]) :
          up' = [up EXCEPT ![s] = SubSeq(up[s], 1, i)] /\ down' = [down EXCEPT ![s] = SubSeq(down[s], 1, j)]
    BY DEF Cut
  <2>2. up \in [Joined -> Seq(Mail)] /\ down \in [Joined -> Seq(Mail)] /\ \A t \in Joined : Single(up[t]) /\ Single(down[t])
    BY <1>1 DEF RelayTypes, LinkSound
  <2>3. /\ SubSeq(up[s], 1, i) \in Seq(Mail) /\ \A p : Has(SubSeq(up[s], 1, i), p) => Has(up[s], p)
        /\ Single(SubSeq(up[s], 1, i))
    BY <2>2, Shortened
  <2>4. /\ SubSeq(down[s], 1, j) \in Seq(Mail) /\ \A p : Has(SubSeq(down[s], 1, j), p) => Has(down[s], p)
        /\ Single(SubSeq(down[s], 1, j))
    BY <2>2, Shortened
  <2> QED
    BY <2>1, <2>2, <2>3, <2>4
<1>6. RelayTypes'
  BY <1>1, <1>2, <1>3, <1>4, <1>5 DEF RelayTypes
<1>7. LinkSound'
  BY <1>1, <1>2, <1>4, <1>5 DEF LinkSound
<1>8. ASSUME NEW m \in Sends PROVE Sound(m)'
  <2>0. \A p \in Letters(m) : p \in Mail
    BY DEF Letters
  <2>1. /\ (Handled(m)' <=> Handled(m)) /\ (Proxied(m)' <=> Proxied(m))
        /\ (\A p \in Letters(m) : (InUp(p)' => InUp(p)) /\ (InDown(p)' => InDown(p)))
        /\ (Quiet(m) => Quiet(m)')
    BY <1>2, <1>5, <2>0 DEF Handled, Proxied, Quiet, InUp, InDown
  <2>2. (Waiting(m)' <=> Waiting(m)) /\ (FromHost(m)' <=> FromHost(m)) /\ \A t \in Joined : FromSlave(m, t)' <=> FromSlave(m, t)
    BY <1>2 DEF Waiting, FromHost, FromSlave
  <2>3. Sound(m)
    BY <1>1
  <2>4. Addressed(m)'
    BY <1>2, <1>5, <2>0, <2>3 DEF Sound, Addressed
  <2>5. OneLetter(m)'
    BY <2>1, <2>3 DEF Sound, OneLetter
  <2>6. Early(m)'
    BY <1>2, <2>1, <2>3 DEF Sound, Early
  <2>7. Written(m)'
    BY <1>2, <2>1, <2>3 DEF Sound, Written
  <2>8. ASSUME ~struck'[m] PROVE Unstruck(m)'
    <3>1. Unstruck(m) /\ ~Waiting(m) /\ sent[m].at # "listed"
      BY <1>3, <2>3, <2>8 DEF Sound
    <3>2. sent[m].at \in {"unborn", "done"}
      BY <1>1, <3>1 DEF Waiting, RelayTypes, Stories
    <3>3. Quiet(m)'
      BY <2>1, <2>3, <3>1, <3>2 DEF Sound, Early, Unstruck
    <3>4. \A p \in Letters(m) : ~InUp(p)' /\ ~InDown(p)' /\ \A t \in Joined : ~Has(up'[t], p) /\ ~Has(down'[t], p)
      BY <3>3 DEF Quiet, InUp, InDown
    <3>5. \A t \in Joined : busy'[t] # m /\ working'[t] # m
      BY <3>3 DEF Quiet, Handled, Proxied
    <3> QED
      BY <1>2, <2>1, <2>2, <3>1, <3>3, <3>4, <3>5 DEF Unstruck, FromSlave
  <2>9. Flows(m)'
    <3>1. Flows(m) /\ Packet(m, "relay", "request") \in Letters(m) /\ Packet(m, "relay", "ok") \in Letters(m)
          /\ Packet(m, "relay", "err") \in Letters(m)
      BY <2>3, PacketFields DEF Sound, Kinds, Whats
    <3>2. \A p \in Letters(m) :
            /\ InUp(p) => IF p.what = "request" THEN sent[m].src \in Joined /\ Has(up[sent[m].src], p)
                                                ELSE sent[m].dst \in Joined /\ Has(up[sent[m].dst], p)
            /\ InDown(p) => IF p.what = "request" THEN sent[m].dst \in Joined /\ Has(down[sent[m].dst], p)
                                                  ELSE sent[m].src \in Joined /\ Has(down[sent[m].src], p)
      BY <2>3 DEF Sound, Addressed, InUp, InDown
    <3>3. ASSUME NEW t \in Joined, NEW p \in Letters(m), works'[t]
          PROVE  (Has(up[t], p) => InUp(p)') /\ (Has(down[t], p) => InDown(p)')
      BY <1>4, <1>5, <2>0, <3>3 DEF InUp, InDown
    <3>4. \A t : works'[t] /\ (t = sent[m].src \/ t = sent[m].dst) /\ t \in Joined => works[t]
      BY <1>4
    <3>5. sent[m].src \in Joined \cup {Host} /\ sent[m].dst \in Joined \cup {Host}
      BY <1>1 DEF RelayTypes, Stories, Engines
    <3>6. /\ \A t \in Joined : hostEnd'[t] = "down" /\ sent'[m].dst = t => ~FromHost(m)' /\ ~Handled(m)'
          /\ \A t \in Joined : slaveEnd'[t] = "down" => ~FromSlave(m, t)'
      BY <1>2, <2>1, <2>2, <3>1 DEF Flows
    <3>7. ASSUME FromHost(m)', works'[sent'[m].dst] PROVE Proxied(m)' \/ \E p \in Letters(m) : InUp(p)' \/ InDown(p)'
      <4>1. FromHost(m) /\ sent[m].src = Host /\ sent[m].dst \in Joined /\ works[sent[m].dst]
        BY <1>2, <2>2, <2>3, <3>4, <3>5, <3>7 DEF FromHost, Waiting, Sound, Early
      <4>2. sent[m].src \notin Joined
        BY <4>1, RelayAssumption DEF Host
      <4>3. Proxied(m) \/ \E p \in Letters(m) : InUp(p) \/ InDown(p)
        BY <3>1, <4>1 DEF Flows
      <4> QED
        BY <1>2, <2>1, <3>2, <3>3, <3>7, <4>1, <4>2, <4>3
    <3>8. ASSUME sent'[m].at = "contacts", works'[sent'[m].src] PROVE \E p \in Letters(m) : InUp(p)' \/ InDown(p)'
      <4>1. sent[m].at = "contacts" /\ sent[m].src \in Joined /\ works[sent[m].src]
        BY <1>2, <2>3, <3>4, <3>5, <3>8 DEF Sound, Early
      <4>2. PICK p \in Letters(m) : InUp(p) \/ InDown(p)
        BY <3>1, <4>1 DEF Flows
      <4>3. p.kind = "contacts"
        BY <2>3, <4>1, <4>2 DEF Sound, Early
      <4>4. Has(up[sent[m].src], p) \/ Has(down[sent[m].src], p)
        BY <2>3, <4>2, <4>3 DEF Sound, Addressed, InUp, InDown
      <4> QED
        BY <1>2, <3>3, <3>8, <4>1, <4>4
    <3>9. ASSUME sent'[m].at = "relay", sent'[m].src # Host, works'[sent'[m].src]
          PROVE  \/ Handled(m)' \/ InUp(Packet(m, "relay", "request"))'
                 \/ InDown(Packet(m, "relay", "ok"))' \/ InDown(Packet(m, "relay", "err"))'
      <4>1. sent[m].at = "relay" /\ sent[m].src # Host /\ sent[m].src \in Joined /\ works[sent[m].src]
        BY <1>2, <3>4, <3>5, <3>9
      <4>2. \/ Handled(m) \/ InUp(Packet(m, "relay", "request"))
            \/ InDown(Packet(m, "relay", "ok")) \/ InDown(Packet(m, "relay", "err"))
        BY <3>1, <4>1 DEF Flows
      <4>3. Packet(m, "relay", "request").what = "request" /\ Packet(m, "relay", "ok").what # "request"
            /\ Packet(m, "relay", "err").what # "request"
        BY DEF Packet
      <4> QED
        BY <1>2, <2>1, <3>1, <3>2, <3>3, <3>9, <4>1, <4>2, <4>3
    <3>10. ASSUME Handled(m)', works'[sent'[m].dst] PROVE \E p \in Letters(m) : InDown(p)' \/ InUp(p)'
      <4>1. Handled(m) /\ sent[m].dst \in Joined /\ works[sent[m].dst]
        BY <1>2, <2>1, <2>3, <3>4, <3>10 DEF Sound, Addressed, Handled
      <4>2. PICK p \in Letters(m) : InUp(p) \/ InDown(p)
        BY <3>1, <4>1 DEF Flows
      <4>3. Has(up[sent[m].dst], p) \/ Has(down[sent[m].dst], p)
        BY <2>3, <3>2, <4>1, <4>2, PacketFields DEF Sound, OneLetter, IsReply, Kinds, Whats
      <4> QED
        BY <1>2, <3>3, <3>10, <4>1, <4>3
    <3> QED
      BY <3>6, <3>7, <3>8, <3>9, <3>10 DEF Flows
  <2> QED
    BY <2>4, <2>5, <2>6, <2>7, <2>8, <2>9 DEF Sound
<1> QED
  BY <1>6, <1>7, <1>8 DEF RelayInv

LEMMA EndNoticesSafely ==
  ASSUME RelayInv, NEW s \in Joined, HostNotices(s) \/ SlaveNotices(s)
  PROVE  RelayInv'
<1>1. RelayTypes /\ LinkSound /\ \A m \in Sends : Sound(m)
  BY DEF RelayInv
<1>2. UNCHANGED <<sent, copies, struck, up, down, works, cuts, busy, age, working>>
  BY DEF HostNotices, SlaveNotices, readers
<1>3. /\ hostEnd' \in [Joined -> {"up", "closing", "down"}] /\ slaveEnd' \in [Joined -> {"up", "closing", "down"}]
      /\ \A t \in Joined : /\ (hostEnd'[t] = "down" => hostEnd[t] = "down") /\ (slaveEnd'[t] = "down" => slaveEnd[t] = "down")
                           /\ works[t] => hostEnd'[t] = hostEnd[t] /\ slaveEnd'[t] = slaveEnd[t]
  BY <1>1 DEF HostNotices, SlaveNotices, RelayTypes
<1>4. RelayTypes' /\ LinkSound'
  BY <1>1, <1>2, <1>3 DEF RelayTypes, LinkSound
<1>5. ASSUME NEW m \in Sends PROVE Sound(m)'
  <2>1. /\ (Handled(m)' <=> Handled(m)) /\ (Proxied(m)' <=> Proxied(m)) /\ (Quiet(m)' <=> Quiet(m))
        /\ \A p \in Letters(m) : (InUp(p)' <=> InUp(p)) /\ (InDown(p)' <=> InDown(p))
        /\ (Waiting(m)' <=> Waiting(m)) /\ (FromHost(m)' <=> FromHost(m)) /\ \A t : FromSlave(m, t)' <=> FromSlave(m, t)
    BY <1>2 DEF Handled, Proxied, Quiet, InUp, InDown, Waiting, FromHost, FromSlave
  <2>2. Sound(m) /\ Packet(m, "relay", "request") \in Letters(m) /\ Packet(m, "relay", "ok") \in Letters(m)
          /\ Packet(m, "relay", "err") \in Letters(m) /\ Packet(m, "http", "ok") \in Letters(m)
    BY <1>1, PacketFields DEF Kinds, Whats
  <2>3. Addressed(m)' /\ OneLetter(m)' /\ Early(m)' /\ Written(m)'
    BY <1>2, <2>1, <2>2 DEF Sound, Addressed, OneLetter, Early, Written
  <2>4. ~struck'[m] => Unstruck(m)'
    BY <1>2, <2>1, <2>2 DEF Sound, Unstruck
  <2>5. Flows(m)'
    BY <1>2, <1>3, <2>1, <2>2 DEF Sound, Flows
  <2> QED
    BY <2>3, <2>4, <2>5 DEF Sound
<1> QED
  BY <1>4, <1>5 DEF RelayInv

LEMMA ReconnectSafely ==
  ASSUME RelayInv, NEW s \in Joined, Reconnect(s)
  PROVE  RelayInv'
<1>1. RelayTypes /\ LinkSound /\ \A m \in Sends : Sound(m)
  BY DEF RelayInv
<1>2. UNCHANGED <<sent, copies, struck, up, down, cuts, busy, age, working>>
  BY DEF Reconnect, readers
<1>3. /\ hostEnd' \in [Joined -> {"up", "closing", "down"}] /\ slaveEnd' \in [Joined -> {"up", "closing", "down"}]
      /\ works' \in [Joined -> BOOLEAN]
      /\ hostEnd[s] = "down" /\ slaveEnd[s] = "down" /\ works'[s] /\ hostEnd'[s] = "up" /\ slaveEnd'[s] = "up"
      /\ \A t \in Joined : t # s => works'[t] = works[t] /\ hostEnd'[t] = hostEnd[t] /\ slaveEnd'[t] = slaveEnd[t]
  BY <1>1 DEF Reconnect, RelayTypes
<1>4. RelayTypes' /\ LinkSound'
  BY <1>1, <1>2, <1>3 DEF RelayTypes, LinkSound
<1>5. ASSUME NEW m \in Sends PROVE Sound(m)'
  <2>1. /\ (Handled(m)' <=> Handled(m)) /\ (Proxied(m)' <=> Proxied(m)) /\ (Quiet(m)' <=> Quiet(m))
        /\ \A p \in Letters(m) : (InUp(p)' <=> InUp(p)) /\ (InDown(p)' <=> InDown(p))
        /\ (Waiting(m)' <=> Waiting(m)) /\ (FromHost(m)' <=> FromHost(m)) /\ \A t : FromSlave(m, t)' <=> FromSlave(m, t)
    BY <1>2 DEF Handled, Proxied, Quiet, InUp, InDown, Waiting, FromHost, FromSlave
  <2>2. Sound(m) /\ Packet(m, "relay", "request") \in Letters(m) /\ Packet(m, "relay", "ok") \in Letters(m)
          /\ Packet(m, "relay", "err") \in Letters(m) /\ Packet(m, "http", "ok") \in Letters(m)
    BY <1>1, PacketFields DEF Kinds, Whats
  <2>3. Addressed(m)' /\ OneLetter(m)' /\ Early(m)' /\ Written(m)'
    BY <1>2, <2>1, <2>2 DEF Sound, Addressed, OneLetter, Early, Written
  <2>4. ~struck'[m] => Unstruck(m)'
    <3>1. \A t \in Joined : ~works'[t] => ~works[t]
      BY <1>3
    <3> QED
      BY <1>2, <2>1, <2>2, <3>1 DEF Sound, Unstruck
  <2>5. Flows(m)'
    <3>1. Flows(m) /\ (Handled(m) => sent[m].dst \in Joined) /\ (sent[m].at = "contacts" => sent[m].src # Host)
          /\ (FromHost(m) => sent[m].dst # Host)
      BY <2>2 DEF Sound, Addressed, Early, Handled, FromHost, Waiting
    <3>2. sent[m].src \in Joined \cup {Host} /\ sent[m].dst \in Joined \cup {Host}
      BY <1>1 DEF RelayTypes, Stories, Engines
    <3>3. (FromHost(m) \/ Handled(m)) => sent[m].dst # s
      BY <1>3, <3>1 DEF Flows
    <3>4. ~FromSlave(m, s)
      BY <1>3, <3>1 DEF Flows
    <3>5. sent[m].at \in {"contacts", "relay"} /\ sent[m].src # Host => sent[m].src # s
      BY <3>4 DEF FromSlave, Waiting, Kinds
    <3>6. /\ \A t \in Joined : hostEnd'[t] = "down" /\ sent[m].dst = t => ~FromHost(m) /\ ~Handled(m)
          /\ \A t \in Joined : slaveEnd'[t] = "down" => ~FromSlave(m, t)
      BY <1>3, <3>1 DEF Flows
    <3> QED
      BY <1>2, <1>3, <2>1, <2>2, <3>1, <3>2, <3>3, <3>5, <3>6 DEF Flows
  <2> QED
    BY <2>3, <2>4, <2>5 DEF Sound
<1> QED
  BY <1>4, <1>5 DEF RelayInv

LEMMA SlaveDrainsSafely ==
  ASSUME RelayInv, NEW s \in Joined, SlaveDrains(s)
  PROVE  RelayInv'
<1>1. RelayTypes /\ LinkSound /\ \A m \in Sends : Sound(m)
  BY DEF RelayInv
<1>2. UNCHANGED <<copies, struck, up, down, works, hostEnd, cuts, busy, age, working>>
  BY DEF SlaveDrains, readers
<1>3. /\ slaveEnd' \in [Joined -> {"up", "closing", "down"}]
      /\ ~works[s] /\ \A t \in Joined : t # s => slaveEnd'[t] = slaveEnd[t]
  BY <1>1 DEF SlaveDrains, RelayTypes, LinkSound
<1>4. ASSUME NEW m \in Sends
      PROVE  /\ sent'[m] \in Stories
             /\ FromSlave(m, s) => /\ sent'[m].at = "done" /\ sent'[m].told = "err" /\ sent'[m].src = sent[m].src
                                   /\ sent'[m].dst = sent[m].dst /\ sent'[m].age = sent[m].age
             /\ ~FromSlave(m, s) => sent'[m] = sent[m]
  <2>1. sent[m] \in Stories
    BY <1>1 DEF RelayTypes
  <2>2. sent'[m] = IF FromSlave(m, s) THEN [sent[m] EXCEPT !.at = "done", !.told = "err"] ELSE sent[m]
    BY DEF SlaveDrains
  <2> QED
    BY <2>1, <2>2 DEF Stories
<1>5. RelayTypes' /\ LinkSound'
  <2>1. sent' \in [Sends -> Stories]
    <3>1. sent' = [m \in Sends |-> IF FromSlave(m, s) THEN [sent[m] EXCEPT !.at = "done", !.told = "err"] ELSE sent[m]]
      BY DEF SlaveDrains
    <3>2. sent' = [m \in Sends |-> sent'[m]]
      BY <3>1, Zenon
    <3> QED
      BY <1>4, <3>2, Zenon
  <2> QED
    BY <1>1, <1>2, <1>3, <2>1 DEF RelayTypes, LinkSound
<1>6. ASSUME NEW m \in Sends PROVE Sound(m)'
  <2>1. /\ (Handled(m)' <=> Handled(m)) /\ (Proxied(m)' <=> Proxied(m)) /\ (Quiet(m)' <=> Quiet(m))
        /\ \A p \in Letters(m) : (InUp(p)' <=> InUp(p)) /\ (InDown(p)' <=> InDown(p))
    BY <1>2 DEF Handled, Proxied, Quiet, InUp, InDown
  <2>2. Sound(m) /\ Packet(m, "relay", "request") \in Letters(m) /\ Packet(m, "relay", "ok") \in Letters(m)
          /\ Packet(m, "relay", "err") \in Letters(m) /\ Packet(m, "http", "ok") \in Letters(m)
    BY <1>1, PacketFields DEF Kinds, Whats
  <2>3. CASE FromSlave(m, s)
    <3>1. /\ sent'[m].at = "done" /\ sent'[m].told = "err" /\ sent'[m].src = sent[m].src
          /\ sent'[m].dst = sent[m].dst /\ sent'[m].age = sent[m].age /\ Waiting(m) /\ ~Waiting(m)'
      BY <1>4, <2>3 DEF FromSlave, Waiting, Kinds
    <3>2. Addressed(m)' /\ OneLetter(m)' /\ Written(m)'
      BY <1>2, <2>1, <2>2, <3>1 DEF Sound, Addressed, OneLetter, Written
    <3>3. Early(m)'
      BY <1>2, <2>1, <2>2, <3>1 DEF Sound, Early, Kinds
    <3>4. ~struck'[m] => Unstruck(m)'
      <4> SUFFICES ASSUME ~struck[m] PROVE Unstruck(m)'
        BY <1>2
      <4>1. Unstruck(m) /\ copies[m] = 0 /\ Quiet(m)
        BY <1>3, <2>2, <2>3 DEF Sound, Unstruck
      <4>2. \A p \in Letters(m) : ~InUp(p)' /\ ~InDown(p)' /\ \A t \in Joined : ~Has(up'[t], p) /\ ~Has(down'[t], p)
        BY <2>1, <4>1 DEF Quiet, InUp, InDown
      <4>3. \A t \in Joined : busy'[t] # m /\ working'[t] # m
        BY <1>2, <4>1 DEF Quiet, Handled, Proxied
      <4> QED
        BY <1>2, <2>1, <3>1, <4>1, <4>2, <4>3 DEF Unstruck, FromSlave
    <3>5. Flows(m)'
      BY <1>2, <2>1, <2>2, <3>1 DEF Sound, Flows, FromHost, FromSlave
    <3> QED
      BY <3>2, <3>3, <3>4, <3>5 DEF Sound
  <2>4. CASE ~FromSlave(m, s)
    <3>1. sent'[m] = sent[m] /\ (Waiting(m)' <=> Waiting(m)) /\ (FromHost(m)' <=> FromHost(m)) /\ \A t : FromSlave(m, t)' <=> FromSlave(m, t)
      BY <1>4, <2>4 DEF Waiting, FromHost, FromSlave
    <3>2. Addressed(m)' /\ OneLetter(m)' /\ Early(m)' /\ Written(m)'
      BY <1>2, <2>1, <2>2, <3>1 DEF Sound, Addressed, OneLetter, Early, Written
    <3>3. ~struck'[m] => Unstruck(m)'
      BY <1>2, <2>1, <2>2, <3>1 DEF Sound, Unstruck
    <3>4. Flows(m)'
      BY <1>2, <1>3, <2>1, <2>2, <2>4, <3>1 DEF Sound, Flows
    <3> QED
      BY <3>2, <3>3, <3>4 DEF Sound
  <2> QED
    BY <2>3, <2>4
<1> QED
  BY <1>5, <1>6 DEF RelayInv

LEMMA HostDrainsSafely ==
  ASSUME RelayInv, NEW s \in Joined, HostDrains(s)
  PROVE  RelayInv'
<1> DEFINE Left(r) == Nested(r, s)
           Err(m) == Packet(m, "relay", "err")
<1>1. RelayTypes /\ LinkSound /\ (\A m \in Sends : Sound(m)) /\ \A m \in Sends : m # None
  BY RelayAssumption DEF RelayInv, None
<1>2. UNCHANGED <<copies, struck, up, works, slaveEnd, cuts, age, working>>
  BY DEF HostDrains
<1>3. /\ hostEnd' \in [Joined -> {"up", "closing", "down"}]
      /\ ~works[s] /\ busy[s] = None /\ \A t \in Joined : t # s => hostEnd'[t] = hostEnd[t]
  BY <1>1 DEF HostDrains, RelayTypes, LinkSound
<1>4. ASSUME NEW m \in Sends
      PROVE  /\ sent'[m] \in Stories
             /\ FromHost(m) /\ sent[m].dst = s =>
                  /\ sent'[m].at = "done" /\ sent'[m].told = "err" /\ sent'[m].src = sent[m].src
                  /\ sent'[m].dst = sent[m].dst /\ sent'[m].age = sent[m].age
             /\ ~(FromHost(m) /\ sent[m].dst = s) => sent'[m] = sent[m]
  <2>1. sent[m] \in Stories
    BY <1>1 DEF RelayTypes
  <2>2. sent'[m] = IF FromHost(m) /\ sent[m].dst = s THEN [sent[m] EXCEPT !.at = "done", !.told = "err"] ELSE sent[m]
    BY DEF HostDrains
  <2> QED
    BY <2>1, <2>2 DEF Stories
<1>5. \A r \in Joined : /\ busy'[r] = IF Left(r) THEN None ELSE busy[r]
                        /\ down'[r] = IF Left(r) /\ works[r] THEN Append(down[r], Err(busy[r])) ELSE down[r]
  BY DEF HostDrains
<1>6. ASSUME NEW r \in Joined, Left(r)
      PROVE  /\ busy[r] \in Sends /\ r = sent[busy[r]].src /\ sent[busy[r]].dst = s /\ r # s /\ r # Host
             /\ Handled(busy[r]) /\ ~Proxied(busy[r]) /\ Err(busy[r]) \in Mail /\ ~InDown(Err(busy[r]))
             /\ \A t \in Joined : busy[t] = busy[r] => t = r
             /\ \A p \in Letters(busy[r]) : (InUp(p) => IsReply(p)) /\ (InDown(p) => p = Packet(busy[r], "relay", "request"))
             /\ sent[busy[r]].at \notin {"unborn", "listed", "contacts"}
  <2>1. busy[r] \in Sends /\ sent[busy[r]].dst = s /\ r # s
    BY <1>1, <1>3, <1>6 DEF Nested, RelayTypes
  <2>2. Handled(busy[r]) /\ Sound(busy[r])
    BY <1>1, <2>1 DEF Handled
  <2>3. r = sent[busy[r]].src /\ r # Host /\ \A t \in Joined : busy[t] = busy[r] => t = r
    BY <2>2, RelayAssumption DEF Sound, Addressed, Host
  <2>4. /\ ~Proxied(busy[r])
        /\ \A p \in Letters(busy[r]) : (InUp(p) => IsReply(p)) /\ (InDown(p) => p = Packet(busy[r], "relay", "request"))
    BY <2>2 DEF Sound, OneLetter
  <2>5. Err(busy[r]) \in Mail /\ ~InDown(Err(busy[r]))
    BY <2>1, <2>4, PacketFields DEF Kinds, Whats
  <2>6. sent[busy[r]].at \notin {"unborn", "listed", "contacts"}
    BY <2>2 DEF Sound, Early
  <2> QED
    BY <2>1, <2>2, <2>3, <2>4, <2>5, <2>6
<1>7. /\ down' \in [Joined -> Seq(Mail)] /\ \A t \in Joined : Single(down'[t])
      /\ \A t \in Joined, p \in Mail : Has(down'[t], p) <=> Has(down[t], p) \/ (Left(t) /\ works[t] /\ p = Err(busy[t]))
  <2>1. ASSUME NEW t \in Joined
        PROVE  /\ down'[t] \in Seq(Mail) /\ Single(down'[t])
               /\ \A p \in Mail : Has(down'[t], p) <=> Has(down[t], p) \/ (Left(t) /\ works[t] /\ p = Err(busy[t]))
    <3>1. down[t] \in Seq(Mail) /\ Single(down[t])
      BY <1>1 DEF RelayTypes, LinkSound
    <3>2. CASE Left(t) /\ works[t]
      <4>1. PICK x \in Mail : x = Err(busy[t]) /\ ~Has(down[t], x) /\ down'[t] = Append(down[t], x)
        BY <1>5, <1>6, <3>2 DEF InDown
      <4> QED
        BY <3>1, <3>2, <4>1, Appended
    <3>3. CASE ~(Left(t) /\ works[t])
      BY <1>5, <3>1, <3>3
    <3> QED
      BY <3>2, <3>3
  <2>2. down' = [t \in Joined |-> down'[t]]
    BY DEF HostDrains
  <2> QED
    BY <2>1, <2>2
<1>8. busy' \in [Joined -> Sends \cup {None}]
  <2>1. busy' = [t \in Joined |-> IF t \in {r \in Joined : Nested(r, s)} THEN None ELSE busy[t]]
    BY DEF HostDrains
  <2> QED
    BY <1>1, <2>1 DEF RelayTypes
<1>9. RelayTypes' /\ LinkSound'
  <2>1. sent' \in [Sends -> Stories]
    <3>1. sent' = [m \in Sends |-> IF FromHost(m) /\ sent[m].dst = s THEN [sent[m] EXCEPT !.at = "done", !.told = "err"] ELSE sent[m]]
      BY DEF HostDrains
    <3>2. sent' = [m \in Sends |-> sent'[m]]
      BY <3>1, Zenon
    <3> QED
      BY <1>4, <3>2, Zenon
  <2> QED
    BY <1>1, <1>2, <1>3, <1>7, <1>8, <2>1 DEF RelayTypes, LinkSound
<1>10. ASSUME NEW m \in Sends PROVE Sound(m)'
  <2>0. /\ Sound(m) /\ m # None /\ Letters(m) \subseteq Mail
        /\ Packet(m, "relay", "request") \in Letters(m) /\ Packet(m, "relay", "ok") \in Letters(m)
        /\ Packet(m, "relay", "err") \in Letters(m) /\ Packet(m, "http", "ok") \in Letters(m)
    BY <1>1, PacketFields DEF Kinds, Whats, Letters
  <2>1. (Proxied(m)' <=> Proxied(m)) /\ \A p \in Letters(m) : InUp(p)' <=> InUp(p)
    BY <1>2 DEF Proxied, InUp
  <2>2. CASE ~\E r \in Joined : Left(r) /\ busy[r] = m
    <3>1. \A r \in Joined : busy'[r] = m <=> busy[r] = m
      BY <1>5, <2>0, <2>2
    <3>2. \A t \in Joined, p \in Letters(m) : Has(down'[t], p) <=> Has(down[t], p)
      <4>1. \A t \in Joined, p \in Letters(m) : Left(t) => p # Err(busy[t])
        BY <2>2 DEF Letters, Packet
      <4> QED
        BY <1>7, <2>0, <4>1
    <3>3. /\ (Handled(m)' <=> Handled(m)) /\ (\A p \in Letters(m) : InDown(p)' <=> InDown(p)) /\ (Quiet(m)' <=> Quiet(m))
      BY <2>1, <3>1, <3>2 DEF Handled, InDown, Quiet
    <3>4. CASE FromHost(m) /\ sent[m].dst = s
      <4>1. /\ sent'[m].at = "done" /\ sent'[m].told = "err" /\ sent'[m].src = sent[m].src
            /\ sent'[m].dst = sent[m].dst /\ sent'[m].age = sent[m].age /\ Waiting(m) /\ ~Waiting(m)' /\ sent[m].src = Host
        BY <1>4, <3>4 DEF FromHost, Waiting, Kinds
      <4>2. Addressed(m)' /\ OneLetter(m)' /\ Written(m)'
        BY <1>2, <2>0, <2>1, <3>1, <3>2, <3>3, <4>1 DEF Sound, Addressed, OneLetter, Written
      <4>3. Early(m)'
        BY <1>2, <2>0, <2>1, <3>3, <4>1 DEF Sound, Early, Kinds
      <4>4. ~struck'[m] => Unstruck(m)'
        <5> SUFFICES ASSUME ~struck[m] PROVE Unstruck(m)'
          BY <1>2
        <5>1. Unstruck(m)
          BY <2>0 DEF Sound
        <5>2. /\ \A t \in Joined : busy[t] # m /\ working[t] # m
              /\ \A t \in Joined, p \in Letters(m) : ~Has(up[t], p) /\ ~Has(down[t], p)
          <6>1. \A t \in Joined : t # Host
            BY RelayAssumption DEF Host
          <6>2. \A p \in Letters(m) : ~Has(up[s], p) /\ ~Has(down[s], p) /\ working[s] # m
            BY <1>3, <5>1 DEF Unstruck
          <6> QED
            BY <2>0, <3>4, <4>1, <6>1, <6>2 DEF Sound, Addressed
        <5>3. Quiet(m)
          BY <5>2 DEF Quiet, Handled, Proxied, InUp, InDown
        <5>4. copies[m] = 0
          <6>1. copies[m] # 1
            BY <2>0, <4>1, <5>1, <5>3 DEF Unstruck, Quiet
          <6> QED
            BY <1>1, <6>1 DEF RelayTypes
        <5> QED
          BY <1>2, <2>1, <3>1, <3>2, <3>3, <4>1, <5>1, <5>2, <5>3, <5>4 DEF Unstruck, Quiet, FromSlave
      <4>5. Flows(m)'
        <5>1. ~Handled(m)
          BY <2>0, <4>1, RelayAssumption DEF Sound, Addressed, Handled, Host
        <5> QED
          BY <3>3, <4>1, <5>1 DEF Flows, FromHost, FromSlave
      <4> QED
        BY <4>2, <4>3, <4>4, <4>5 DEF Sound
    <3>5. CASE ~(FromHost(m) /\ sent[m].dst = s)
      <4>1. sent'[m] = sent[m] /\ (Waiting(m)' <=> Waiting(m)) /\ (FromHost(m)' <=> FromHost(m)) /\ \A t : FromSlave(m, t)' <=> FromSlave(m, t)
        BY <1>4, <3>5 DEF Waiting, FromHost, FromSlave
      <4>2. Addressed(m)' /\ OneLetter(m)' /\ Early(m)' /\ Written(m)'
        BY <1>2, <2>0, <2>1, <3>1, <3>2, <3>3, <4>1 DEF Sound, Addressed, OneLetter, Early, Written
      <4>3. ~struck'[m] => Unstruck(m)'
        BY <1>2, <2>0, <2>1, <3>1, <3>2, <3>3, <4>1 DEF Sound, Unstruck
      <4>4. Flows(m)'
        <5>1. sent[m].dst = s => ~Handled(m)
          BY <2>0, <2>2 DEF Handled, Nested
        <5>2. \A t \in Joined : hostEnd'[t] = "down" /\ sent[m].dst = t => ~FromHost(m) /\ ~Handled(m)
          BY <1>3, <2>0, <3>5, <5>1 DEF Sound, Flows
        <5> QED
          BY <1>2, <2>0, <2>1, <3>3, <4>1, <5>2 DEF Sound, Flows
      <4> QED
        BY <4>2, <4>3, <4>4 DEF Sound
    <3> QED
      BY <3>4, <3>5
  <2>3. ASSUME NEW r \in Joined, Left(r), busy[r] = m PROVE Sound(m)'
    <3>1. PICK x \in Letters(m) : x = Err(m) /\ x.kind = "relay" /\ x.what = "err"
      BY PacketFields DEF Kinds, Whats
    <3>2. /\ sent[m].src = r /\ sent[m].dst = s /\ r # s /\ r # Host /\ Handled(m) /\ ~Proxied(m) /\ ~InDown(x)
          /\ \A t \in Joined : busy[t] = m => t = r
          /\ \A p \in Letters(m) : (InUp(p) => IsReply(p)) /\ (InDown(p) => p = Packet(m, "relay", "request"))
          /\ sent[m].at \notin {"unborn", "listed", "contacts"}
      BY <1>6, <2>3, <3>1
    <3>3. sent'[m] = sent[m]
      BY <1>4, <3>2 DEF FromHost
    <3>4. ~Handled(m)' /\ ~Proxied(m)'
      BY <1>5, <2>0, <2>1, <2>3, <3>2 DEF Handled
    <3>5. \A t \in Joined, p \in Letters(m) : Has(down'[t], p) <=> Has(down[t], p) \/ (works[r] /\ t = r /\ p = x)
      <4>1. \A t \in Joined, p \in Letters(m) : Left(t) /\ p = Err(busy[t]) => busy[t] = m
        BY DEF Letters, Packet
      <4> QED
        BY <1>7, <2>0, <2>3, <3>1, <3>2, <4>1
    <3>6. \A p \in Letters(m) : InDown(p)' <=> InDown(p) \/ (works[r] /\ p = x)
      BY <3>5 DEF InDown
    <3>7. Addressed(m)'
      BY <1>2, <2>0, <3>1, <3>2, <3>3, <3>4, <3>5 DEF Sound, Addressed, Handled, Proxied
    <3>8. OneLetter(m)'
      <4>1. \A p \in Letters(m) : InDown(p)' => p = x \/ (InDown(p) /\ p.kind = "relay" /\ p.what = "request")
        BY <3>2, <3>6, PacketFields DEF Kinds, Whats
      <4> QED
        BY <2>0, <2>1, <3>1, <3>2, <3>4, <3>6, <4>1 DEF Sound, OneLetter, IsReply
    <3>9. Early(m)'
      <4>1. \A p \in Letters(m) : InUp(p)' \/ InDown(p)' => p.kind = "relay"
        BY <2>1, <3>1, <3>2, <3>6, PacketFields DEF IsReply, Kinds, Whats
      <4> QED
        BY <1>2, <2>0, <3>2, <3>3, <3>4, <4>1 DEF Sound, Early
    <3>10. Written(m)'
      BY <1>2, <2>0, <2>1, <3>1, <3>3, <3>4, <3>6 DEF Sound, Written
    <3>11. ~struck'[m] => Unstruck(m)'
      <4> SUFFICES ASSUME ~struck[m] PROVE Unstruck(m)'
        BY <1>2
      <4>1. Unstruck(m)
        BY <2>0 DEF Sound
      <4>2. sent[m].at # "done" /\ Waiting(m) /\ FromSlave(m, r) /\ sent[m].told # "err"
        <5>1. sent[m].at # "done"
          BY <3>2, <4>1 DEF Unstruck, Quiet
        <5> QED
          BY <1>1, <2>0, <3>2, <5>1 DEF Waiting, FromSlave, RelayTypes, Stories, Kinds, Sound, Early, None
      <4>3. works[r]
        BY <3>2, <4>1, <4>2 DEF Unstruck, Quiet
      <4>4. /\ \A p \in Letters(m) : ~InUp(p) /\ ~InDown(p)
            /\ \A t \in Joined, p \in Letters(m) : ~Has(up[t], p) /\ ~Has(down[t], p)
        <5>1. \A p \in Letters(m) : ~Has(up[s], p) /\ ~Has(down[s], p)
          BY <1>3, <4>1 DEF Unstruck
        <5>2. \A p \in Letters(m) : ~InUp(p)
          BY <2>0, <3>2, <5>1 DEF Sound, Addressed, InUp, IsReply
        <5>3. \A p \in Letters(m) : ~InDown(p)
          BY <2>0, <3>2, <5>1, PacketFields DEF Sound, Addressed, InDown, Kinds, Whats
        <5> QED
          BY <5>2, <5>3 DEF InUp, InDown
      <4>5. copies[m] = 0
        <5>1. copies[m] # 1
          BY <2>0, <3>2, <4>1, <4>2, <4>4 DEF Unstruck
        <5> QED
          BY <1>1, <5>1 DEF RelayTypes
      <4>6. \A t \in Joined : busy'[t] # m /\ working'[t] # m
        BY <3>4 DEF Handled, Proxied
      <4>7. \A t \in Joined : ~works'[t] => ~FromSlave(m, t)'
        BY <1>2, <3>2, <3>3, <4>3 DEF FromSlave
      <4>8. /\ \A t \in Joined, p \in Letters(m) : ~Has(up'[t], p) /\ (Has(down'[t], p) <=> t = r /\ p = x)
            /\ \A p \in Letters(m) : ~InUp(p)' /\ (InDown(p)' <=> p = x)
        BY <1>2, <2>1, <3>5, <3>6, <4>3, <4>4
      <4> QED
        BY <1>2, <3>1, <3>3, <4>1, <4>2, <4>3, <4>5, <4>6, <4>7, <4>8 DEF Unstruck
    <3>12. Flows(m)'
      BY <1>2, <2>0, <2>1, <3>1, <3>2, <3>3, <3>4, <3>6 DEF Sound, Flows, FromHost, FromSlave, Waiting
    <3> QED
      BY <3>7, <3>8, <3>9, <3>10, <3>11, <3>12 DEF Sound
  <2> QED
    BY <2>2, <2>3
<1> QED
  BY <1>9, <1>10 DEF RelayInv

LEMMA RelayStartsSound ==
  ASSUME RelayInit
  PROVE  RelayInv
<1>1. /\ \A m \in Sends : sent[m] = Fresh /\ copies[m] = 0
      /\ \A s \in Joined : up[s] = <<>> /\ down[s] = <<>> /\ busy[s] = None /\ working[s] = None /\ age[s] = 0
                           /\ works[s] /\ hostEnd[s] = "up" /\ slaveEnd[s] = "up"
  BY DEF RelayInit
<1>2. Fresh \in Stories /\ Fresh.at = "unborn" /\ Fresh.told = None /\ Fresh.src = Host /\ Fresh.age = 0
  BY DEF Fresh, Stories, Engines
<1>3. DOMAIN <<>> = {}
  OBVIOUS
<1>4. \A p : ~Has(<<>>, p)
  BY <1>3 DEF Has
<1>5. RelayTypes
  BY <1>2 DEF RelayInit, RelayTypes
<1>6. LinkSound
  BY <1>1, <1>3 DEF LinkSound, Single
<1>7. ASSUME NEW m \in Sends PROVE Sound(m)
  <2>1. m # None
    BY RelayAssumption DEF None
  <2>2. ~Handled(m) /\ ~Proxied(m) /\ (\A p : ~InUp(p) /\ ~InDown(p)) /\ \A s \in Joined, p \in Mail : ~Has(up[s], p) /\ ~Has(down[s], p)
    BY <1>1, <1>4, <2>1 DEF Handled, Proxied, InUp, InDown
  <2>3. Addressed(m)
    BY <2>2 DEF Addressed, Handled, Proxied, Letters
  <2>4. OneLetter(m)
    BY <2>2 DEF OneLetter
  <2>5. Early(m)
    BY <1>1, <1>2, <2>2 DEF Early, Quiet, Kinds
  <2>6. Written(m)
    BY <1>1, <1>2, <2>2 DEF Written, None
  <2>7. Unstruck(m)
    BY <1>1, <1>2, <2>2 DEF Unstruck, Quiet, FromSlave, Waiting, Kinds, None
  <2>8. Flows(m)
    BY <1>1, <1>2, <2>2 DEF Flows, FromHost, FromSlave, Waiting, Kinds
  <2> QED
    BY <2>3, <2>4, <2>5, <2>6, <2>7, <2>8 DEF Sound
<1> QED
  BY <1>5, <1>6, <1>7 DEF RelayInv

LEMMA RelayStepsSafely ==
  ASSUME RelayInv, [RelayNext]_relayVars
  PROVE  RelayInv'
<1>1. CASE UNCHANGED relayVars
  BY <1>1
     DEF relayVars, RelayInv, RelayTypes, LinkSound, Sound, Addressed, OneLetter, Early, Written,
         Unstruck, Flows,
              Quiet, Handled, Proxied, InUp, InDown, Waiting, FromHost, FromSlave
<1>2. CASE Tick
  BY <1>2, TickSafely
<1>3. ASSUME NEW m \in Sends, Sender(m) \/ CallerTimesOut(m) PROVE RelayInv'
  BY <1>3, SenderSafely, CallerTimesOutSafely
<1>4. ASSUME NEW s \in Joined, HostReader(s) PROVE RelayInv'
  BY <1>4, HostListsContactsSafely, HostDeliversSafely, HostForwardsSafely, HostFindsNobodySafely, HostTakesAnswerSafely
     DEF HostReader
<1>5. ASSUME NEW s \in Joined, SlaveReader(s) PROVE RelayInv'
  BY <1>5, SlaveDeliversSafely, SlaveRequestsSafely, SlaveTakesAnswerSafely DEF SlaveReader
<1>6. ASSUME NEW s \in Joined, SlaveResponds(s) \/ HandlerTimesOut(s) PROVE RelayInv'
  BY <1>6, SlaveRespondsSafely, HandlerTimesOutSafely
<1>7. ASSUME NEW s \in Joined, Link(s) PROVE RelayInv'
  BY <1>7, CutSafely, EndNoticesSafely, HostDrainsSafely, SlaveDrainsSafely, ReconnectSafely DEF Link
<1> QED
  BY <1>1, <1>2, <1>3, <1>4, <1>5, <1>6, <1>7 DEF RelayNext

\* Where the packets of every send are, whatever breaks: the invariant the two
\* results below rest on (host_tunnel.rs, slave_tunnel.rs, tunnel.rs).
THEOREM RelayIsSound == RelaySpec => []RelayInv
<1>1. RelayInit => RelayInv
  BY RelayStartsSound
<1>2. RelayInv /\ [RelayNext]_relayVars => RelayInv'
  BY RelayStepsSafely
<1> QED
  BY <1>1, <1>2, PTL DEF RelaySpec

\* A send that is told Ok has been written once, and one that is told an error
\* has not been written unless time passed or a connection broke, for any number
\* of slaves, sends and broken connections (service/extension.rs:19).
THEOREM SendersAreToldTheTruth == RelaySpec => []ToldTheTruth
<1>1. RelayInv => ToldTheTruth
  BY DEF RelayInv, Sound, Written, Unstruck, ToldTheTruth
<1> QED
  BY <1>1, RelayIsSound, PTL

\* When nothing is broken and no local server is slow, time passes for a call
\* only because readers of the host wait for one another in a circle.
THEOREM CallsWaitOnlyInCircles == RelaySpec => WaitsOnlyInCycles
<1>1. ASSUME RelayInv, Tick, \A s \in Joined : works[s] /\ working[s] = None
      PROVE  \E R \in SUBSET Joined : Circle(R)
  <2> DEFINE Stuck == {s \in Joined : busy[s] # None}
  <2>1. RelayTypes /\ LinkSound /\ \A m \in Sends : Sound(m)
    BY <1>1 DEF RelayInv
  <2>2. \A s \in Joined : /\ hostEnd[s] = "up" /\ slaveEnd[s] = "up"
                          /\ down[s] = <<>> /\ (busy[s] # None \/ up[s] = <<>>)
    BY <1>1, <2>1 DEF LinkSound, Tick, HostReads, SlaveReads
  <2>3. \A p : ~Has(<<>>, p)
    <3>1. DOMAIN <<>> = {}
      OBVIOUS
    <3> QED
      BY <3>1 DEF Has
  <2>4. \A p : ~InDown(p)
    BY <2>2, <2>3 DEF InDown
  <2>5. \A s \in Joined, p \in Mail : Has(up[s], p) => s \in Stuck
    BY <2>2, <2>3
  <2>6. \A m \in Sends : ~Proxied(m) \* m # None
    BY <1>1, RelayAssumption DEF Proxied, None
  <2>7. ASSUME NEW r \in Stuck PROVE \E s \in Stuck : Nested(r, s)
    <3>1. PICK m \in Sends : busy[r] = m
      BY <2>1 DEF RelayTypes
    <3>2. Handled(m) /\ Sound(m) /\ sent[m].dst \in Joined
      BY <2>1, <3>1 DEF Handled, Sound, Addressed
    <3>3. PICK p \in Letters(m) : InUp(p)
      BY <1>1, <2>4, <3>2 DEF Sound, Flows
    <3>4. p.what # "request" /\ p \in Mail
      BY <3>2, <3>3 DEF Sound, OneLetter, IsReply, Letters
    <3>5. Has(up[sent[m].dst], p)
      BY <3>2, <3>3, <3>4 DEF Sound, Addressed, InUp
    <3> QED
      BY <2>5, <3>1, <3>2, <3>4, <3>5 DEF Nested
  <2>8. Stuck # {}
    <3>1. PICK m \in Sends : Waiting(m)
      BY <1>1 DEF Tick, Outstanding
    <3>2. Sound(m) /\ ~Proxied(m)
      BY <2>1, <2>6
    <3>3. sent[m].src \in Joined \cup {Host} /\ sent[m].dst \in Joined \cup {Host}
      BY <2>1 DEF RelayTypes, Stories, Engines
    <3>4. Handled(m) \/ \E p \in Letters(m) : InUp(p)
      <4>1. CASE sent[m].src = Host
        <5>1. FromHost(m) /\ sent[m].dst \in Joined
          BY <3>1, <3>2, <3>3, <4>1 DEF FromHost, Waiting, Sound, Early
        <5> QED
          BY <1>1, <2>4, <3>2, <5>1 DEF Sound, Flows
      <4>2. CASE sent[m].src # Host
        <5>1. sent[m].src \in Joined /\ sent[m].at \in {"contacts", "relay"}
          BY <3>1, <3>2, <3>3, <4>2 DEF Waiting, Kinds, Sound, Early
        <5>2. Packet(m, "relay", "request") \in Letters(m)
          BY PacketFields DEF Kinds, Whats
        <5> QED
          BY <1>1, <2>4, <3>2, <4>2, <5>1, <5>2 DEF Sound, Flows
      <4> QED
        BY <4>1, <4>2
    <3>5. CASE Handled(m)
      BY <3>5, RelayAssumption DEF Handled, None
    <3>6. CASE \E p \in Letters(m) : InUp(p)
      BY <2>5, <3>6 DEF InUp, Letters
    <3> QED
      BY <3>4, <3>5, <3>6
  <2>9. Circle(Stuck)
    BY <2>7, <2>8 DEF Circle
  <2> QED
    BY <2>9
<1>2. RelayInv /\ [RelayNext]_relayVars =>
        [Tick => \/ \E s \in Joined : ~works[s] \/ working[s] # None
                 \/ \E R \in SUBSET Joined : Circle(R)]_relayVars
  BY <1>1
<1> QED
  BY <1>2, RelayIsSound, PTL DEF RelaySpec, WaitsOnlyInCycles

============================================================================
