------------------------------- MODULE Relay -------------------------------
(***************************************************************************)
(* Messages between instances of different engines, and requests the host  *)
(* hands on to the engine an instance lives on: calls over the tunnels     *)
(* between a host and its slaves.                                          *)
(*                                                                         *)
(* Each side of a tunnel has one reader, which takes one message after the *)
(* other and handles a request on the spot: while a handler waits, nothing *)
(* else is read.  An instance is named by its engine; two instances may    *)
(* live on one.  Handling takes no time, so time passes (Tick, ten         *)
(* seconds) only when no reader can go on.  How links are made and listed  *)
(* is in HubLink: here a link comes back after both sides have let it go.  *)
(***************************************************************************)
EXTENDS Naturals, Sequences

CONSTANTS
  Joined,     \* the slaves, by the engines they are
  Sends,      \* send_msg actions and proxied requests, each made once
  MaxCuts     \* bound: connections that break

ASSUME RelayAssumption == MaxCuts \in Nat /\ "host" \notin Joined /\ "none" \notin Sends

VARIABLES
  sent,       \* what each send waits for, and what its caller was told
  copies,     \* how often its message was written, or its request carried out
  struck,     \* time passed, or a connection broke, while it waited
  up, down,   \* of each link: messages to the host, messages to the slave
  works,      \* the connection works
  hostEnd, slaveEnd,   \* the endpoints of each link
  busy,       \* what the handler of each reader at the host waits for
  age,        \* how long already, in ticks
  working,    \* the proxied request the reader of a slave is waiting for
  cuts

links == <<works, hostEnd, slaveEnd, cuts>>
readers == <<busy, age, working>>
relayVars == <<sent, copies, struck, up, down, works, hostEnd, slaveEnd, cuts, busy, age, working>>

Host == "host"
Engines == Joined \cup {Host}
None == "none"
HostLimit == 1       \* ticks: 10 s
SlaveLimit == 3      \* 30 s
Kinds == {"contacts", "relay", "http"}
Fresh == [at |-> "unborn", src |-> Host, dst |-> Host, age |-> 0, told |-> None]

Waiting(m) == sent[m].at \in Kinds
FromHost(m) == Waiting(m) /\ sent[m].src = Host
FromSlave(m, s) == Waiting(m) /\ sent[m].src = s
Nested(r, s) == busy[r] # None /\ sent[busy[r]].dst = s
Outstanding == {m \in Sends : Waiting(m)}

RelayInit ==
  /\ sent = [m \in Sends |-> Fresh] /\ copies = [m \in Sends |-> 0] /\ struck = [m \in Sends |-> FALSE]
  /\ up = [s \in Joined |-> <<>>] /\ down = [s \in Joined |-> <<>>]
  /\ works = [s \in Joined |-> TRUE] /\ cuts = 0
  /\ hostEnd = [s \in Joined |-> "up"] /\ slaveEnd = [s \in Joined |-> "up"]
  /\ busy = [s \in Joined |-> None] /\ age = [s \in Joined |-> 0]
  /\ working = [s \in Joined |-> None]

Packet(m, kind, what) == [send |-> m, kind |-> kind, what |-> what]
Verdict(ok) == IF ok THEN "ok" ELSE "err"

(* What is put on a broken connection is lost.                             *)
Put(queue, s, p) == IF works[s] THEN [queue EXCEPT ![s] = Append(@, p)] ELSE queue
Pop(queue, s) == [queue EXCEPT ![s] = Tail(@)]

Tell(m, what) == [sent EXCEPT ![m].at = "done", ![m].told = what]

(* local_relay: the store is opened and the message written, or not.       *)
Deliver(m, ok) == copies' = IF ok THEN [copies EXCEPT ![m] = @ + 1] ELSE copies

---------------------------------------------------------------------------
(* The sender: fetch_contacts, then relay_message.                         *)

Ask(m, s, kind) ==
  /\ sent' = [sent EXCEPT ![m].at = kind, ![m].src = s, ![m].age = 0]
  /\ up' = Put(up, s, Packet(m, kind, "request"))

(* On the host both are answered from its own tables, the table of slaves  *)
(* first; only the delivery on a slave is a call.                          *)
HostSends(m) == \E dst \in Engines :
  /\ sent[m].at = "unborn"
  /\ \/ /\ dst \in Joined /\ hostEnd[dst] = "up"
        /\ sent' = [sent EXCEPT ![m].at = "relay", ![m].dst = dst]
        /\ down' = Put(down, dst, Packet(m, "relay", "request"))
        /\ UNCHANGED copies
     \/ /\ dst \in Joined /\ hostEnd[dst] # "up"
        /\ sent' = Tell(m, "err")
        /\ UNCHANGED <<copies, down>>
     \/ /\ dst = Host
        /\ \E ok \in BOOLEAN : Deliver(m, ok) /\ sent' = Tell(m, Verdict(ok))
        /\ UNCHANGED down
  /\ UNCHANGED <<struck, up, links, readers>>

HostProxies(m) == \E dst \in Joined :
  /\ sent[m].at = "unborn" /\ hostEnd[dst] = "up"
  /\ sent' = [sent EXCEPT ![m].at = "http", ![m].dst = dst]
  /\ down' = Put(down, dst, Packet(m, "http", "request"))
  /\ UNCHANGED <<copies, struck, up, links, readers>>

SlaveSends(m, s) == \E dst \in Engines :
  /\ sent[m].at = "unborn"
  /\ IF slaveEnd[s] = "up"
     THEN /\ sent' = [sent EXCEPT ![m].at = "contacts", ![m].src = s, ![m].dst = dst]
          /\ up' = Put(up, s, Packet(m, "contacts", "request"))
     ELSE sent' = Tell(m, "err") /\ UNCHANGED up
  /\ UNCHANGED <<copies, struck, down, links, readers>>

SlaveRelays(m, s) ==
  /\ sent[m].at = "listed" /\ sent[m].src = s
  /\ IF slaveEnd[s] = "up" THEN Ask(m, s, "relay") ELSE sent' = Tell(m, "err") /\ UNCHANGED up
  /\ UNCHANGED <<copies, struck, down, links, readers>>

---------------------------------------------------------------------------
(* The reader of the host for the link of slave s, and HostLocalHandler.   *)

HostReads(s) == hostEnd[s] # "down" /\ busy[s] = None /\ up[s] # <<>>
Reply(queue, s, m, kind, what) == Put(queue, s, Packet(m, kind, what))

HostListsContacts(s) ==
  /\ HostReads(s)
  /\ LET p == Head(up[s]) IN
       /\ p.what = "request" /\ p.kind = "contacts"
       /\ LET dst == sent[p.send].dst IN
            down' = Reply(down, s, p.send, "contacts", Verdict(dst = Host \/ hostEnd[dst] = "up"))
  /\ up' = Pop(up, s)
  /\ UNCHANGED <<sent, copies, struck, links, readers>>

\* Mutant: a failed write is logged and not answered.
HostDeliversSilently(s) ==
  /\ HostReads(s)
  /\ LET p == Head(up[s]) IN
       /\ p.what = "request" /\ p.kind = "relay" /\ sent[p.send].dst = Host
       /\ \E ok \in BOOLEAN :
            Deliver(p.send, ok) /\ down' = IF ok THEN Reply(down, s, p.send, "relay", "ok") ELSE down
  /\ up' = Pop(up, s)
  /\ UNCHANGED <<sent, struck, links, readers>>

HostDelivers(s) ==
  /\ HostReads(s)
  /\ LET p == Head(up[s]) IN
       /\ p.what = "request" /\ p.kind = "relay" /\ sent[p.send].dst = Host
       /\ \E ok \in BOOLEAN : Deliver(p.send, ok) /\ down' = Reply(down, s, p.send, "relay", Verdict(ok))
  /\ up' = Pop(up, s)
  /\ UNCHANGED <<sent, struck, links, readers>>

\* Mutant: the sender is answered when the request is on its way.
HostForwardsBlindly(s) ==
  /\ HostReads(s)
  /\ LET p == Head(up[s])
         dst == sent[p.send].dst IN
       /\ p.what = "request" /\ p.kind = "relay" /\ dst \in Joined /\ hostEnd[dst] = "up"
       /\ down' = Reply(Put(down, dst, p), s, p.send, "relay", "ok")
  /\ up' = Pop(up, s)
  /\ UNCHANGED <<sent, copies, struck, links, readers>>

(* The handler calls the other slave, and the reader waits with it.        *)
HostForwards(s) ==
  /\ HostReads(s)
  /\ LET p == Head(up[s])
         dst == sent[p.send].dst IN
       /\ p.what = "request" /\ p.kind = "relay" /\ dst \in Joined /\ hostEnd[dst] = "up"
       /\ down' = Put(down, dst, p)
       /\ busy' = [busy EXCEPT ![s] = p.send]
  /\ age' = [age EXCEPT ![s] = 0]
  /\ up' = Pop(up, s)
  /\ UNCHANGED <<sent, copies, struck, links, working>>

HostFindsNobody(s) ==
  /\ HostReads(s)
  /\ LET p == Head(up[s])
         dst == sent[p.send].dst IN
       /\ p.what = "request" /\ p.kind = "relay" /\ dst \in Joined /\ hostEnd[dst] # "up"
       /\ down' = Reply(down, s, p.send, "relay", "err")
  /\ up' = Pop(up, s)
  /\ UNCHANGED <<sent, copies, struck, links, readers>>

(* An answer is for a handler that waits, for a caller of the host, or for *)
(* a call that has timed out: then it is dropped.                          *)
HostTakesAnswer(s) ==
  /\ HostReads(s)
  /\ LET p == Head(up[s])
         m == p.send IN
       /\ p.what # "request"
       /\ \/ \E r \in Joined :
               /\ busy[r] = m
               /\ busy' = [busy EXCEPT ![r] = None]
               /\ down' = Reply(down, r, m, "relay", p.what)
               /\ UNCHANGED sent
          \/ FromHost(m) /\ sent' = Tell(m, p.what) /\ UNCHANGED <<busy, down>>
          \/ ~FromHost(m) /\ (\A r \in Joined : busy[r] # m) /\ UNCHANGED <<sent, busy, down>>
  /\ up' = Pop(up, s)
  /\ UNCHANGED <<copies, struck, links, age, working>>

---------------------------------------------------------------------------
(* The reader of slave s, SlaveLocalHandler and SlaveHttpProxyHandler.     *)

SlaveReads(s) == slaveEnd[s] # "down" /\ working[s] = None /\ down[s] # <<>>

SlaveDelivers(s) ==
  /\ SlaveReads(s)
  /\ LET p == Head(down[s]) IN
       /\ p.what = "request" /\ p.kind = "relay"
       /\ \E ok \in BOOLEAN : Deliver(p.send, ok) /\ up' = Reply(up, s, p.send, "relay", Verdict(ok))
  /\ down' = Pop(down, s)
  /\ UNCHANGED <<sent, struck, links, readers>>

SlaveRequests(s) ==
  /\ SlaveReads(s)
  /\ LET p == Head(down[s]) IN
       /\ p.what = "request" /\ p.kind = "http"
       /\ working' = [working EXCEPT ![s] = p.send]
       /\ Deliver(p.send, TRUE)
  /\ down' = Pop(down, s)
  /\ UNCHANGED <<sent, struck, up, links, busy, age>>

(* Whatever the local server says, or that it says nothing, is a response. *)
SlaveResponds(s) ==
  /\ working[s] # None
  /\ up' = Reply(up, s, working[s], "http", "ok")
  /\ working' = [working EXCEPT ![s] = None]
  /\ UNCHANGED <<sent, copies, struck, down, links, busy, age>>

(* Contacts without the recipient, or none at all, end the send.           *)
SlaveTakesAnswer(s) ==
  /\ SlaveReads(s)
  /\ LET p == Head(down[s])
         m == p.send IN
       /\ p.what # "request"
       /\ sent' = IF ~FromSlave(m, s) THEN sent
                  ELSE IF sent[m].at = "contacts" /\ p.what = "ok" THEN [sent EXCEPT ![m].at = "listed"]
                  ELSE Tell(m, p.what)
  /\ down' = Pop(down, s)
  /\ UNCHANGED <<copies, struck, up, links, readers>>

---------------------------------------------------------------------------
(* Time.                                                                   *)

Due(m) == Waiting(m) /\ sent[m].age >= (IF sent[m].src = Host THEN HostLimit ELSE SlaveLimit)
HandlerDue(s) == busy[s] # None /\ age[s] >= HostLimit
Drains(s) ==
  \/ hostEnd[s] = "closing" /\ busy[s] = None /\ up[s] = <<>>
  \/ slaveEnd[s] = "closing" /\ working[s] = None /\ down[s] = <<>>

Tick ==
  /\ Outstanding # {}
  /\ \A s \in Joined : ~HostReads(s) /\ ~SlaveReads(s) /\ ~Drains(s) /\ ~HandlerDue(s)
  /\ \A m \in Sends : ~Due(m) /\ sent[m].at # "listed"
  /\ sent' = [m \in Sends |-> IF Waiting(m) THEN [sent[m] EXCEPT !.age = @ + 1] ELSE sent[m]]
  /\ age' = [s \in Joined |-> IF busy[s] = None THEN age[s] ELSE age[s] + 1]
  /\ struck' = [m \in Sends |-> struck[m] \/ Waiting(m)]
  /\ UNCHANGED <<copies, up, down, links, busy, working>>

\* Mutant: only the calls of the host have a limit.
HostCallerTimesOut(m) ==
  /\ Due(m) /\ sent[m].src = Host
  /\ sent' = Tell(m, "err")
  /\ UNCHANGED <<copies, struck, up, down, links, readers>>

CallerTimesOut(m) ==
  /\ Due(m)
  /\ sent' = Tell(m, "err")
  /\ UNCHANGED <<copies, struck, up, down, links, readers>>

HandlerTimesOut(s) ==
  /\ HandlerDue(s)
  /\ down' = Reply(down, s, busy[s], "relay", "err")
  /\ busy' = [busy EXCEPT ![s] = None]
  /\ UNCHANGED <<sent, copies, struck, up, links, age, working>>

---------------------------------------------------------------------------
(* Connections.                                                            *)

(* The messages that had arrived are still read.                           *)
Cut(s) == \E i \in 0..Len(up[s]), j \in 0..Len(down[s]) :
  /\ works[s] /\ cuts < MaxCuts
  /\ works' = [works EXCEPT ![s] = FALSE]
  /\ cuts' = cuts + 1
  /\ up' = [up EXCEPT ![s] = SubSeq(@, 1, i)]
  /\ down' = [down EXCEPT ![s] = SubSeq(@, 1, j)]
  /\ struck' = [m \in Sends |-> struck[m] \/ Waiting(m) \/ sent[m].at = "listed"]
  /\ UNCHANGED <<sent, copies, hostEnd, slaveEnd, readers>>

HostNotices(s) ==
  /\ ~works[s] /\ hostEnd[s] = "up"
  /\ hostEnd' = [hostEnd EXCEPT ![s] = "closing"]
  /\ UNCHANGED <<sent, copies, struck, up, down, works, slaveEnd, cuts, readers>>

SlaveNotices(s) ==
  /\ ~works[s] /\ slaveEnd[s] = "up"
  /\ slaveEnd' = [slaveEnd EXCEPT ![s] = "closing"]
  /\ UNCHANGED <<sent, copies, struck, up, down, works, hostEnd, cuts, readers>>

(* The reader has left its loop: whoever waits for an answer is told.      *)
HostDrains(s) ==
  LET abandoned == {r \in Joined : Nested(r, s)} IN
  /\ hostEnd[s] = "closing" /\ busy[s] = None /\ up[s] = <<>>
  /\ hostEnd' = [hostEnd EXCEPT ![s] = "down"]
  /\ sent' = [m \in Sends |->
       IF FromHost(m) /\ sent[m].dst = s THEN [sent[m] EXCEPT !.at = "done", !.told = "err"] ELSE sent[m]]
  /\ busy' = [r \in Joined |-> IF r \in abandoned THEN None ELSE busy[r]]
  /\ down' = [r \in Joined |->
       IF r \in abandoned /\ works[r] THEN Append(down[r], Packet(busy[r], "relay", "err")) ELSE down[r]]
  /\ UNCHANGED <<copies, struck, up, works, slaveEnd, cuts, age, working>>

SlaveDrains(s) ==
  /\ slaveEnd[s] = "closing" /\ working[s] = None /\ down[s] = <<>>
  /\ slaveEnd' = [slaveEnd EXCEPT ![s] = "down"]
  /\ sent' = [m \in Sends |->
       IF FromSlave(m, s) THEN [sent[m] EXCEPT !.at = "done", !.told = "err"] ELSE sent[m]]
  /\ UNCHANGED <<copies, struck, up, down, works, hostEnd, cuts, readers>>

Reconnect(s) ==
  /\ hostEnd[s] = "down" /\ slaveEnd[s] = "down"
  /\ works' = [works EXCEPT ![s] = TRUE]
  /\ hostEnd' = [hostEnd EXCEPT ![s] = "up"]
  /\ slaveEnd' = [slaveEnd EXCEPT ![s] = "up"]
  /\ UNCHANGED <<sent, copies, struck, up, down, cuts, readers>>

---------------------------------------------------------------------------
HostReader(s) ==
  \/ HostListsContacts(s) \/ HostDelivers(s) \/ HostForwards(s) \/ HostFindsNobody(s)
  \/ HostTakesAnswer(s)
SlaveReader(s) == SlaveDelivers(s) \/ SlaveRequests(s) \/ SlaveTakesAnswer(s)
Sender(m) ==
  \/ HostSends(m) \/ HostProxies(m)
  \/ \E s \in Joined : SlaveSends(m, s) \/ SlaveRelays(m, s)
Link(s) ==
  \/ Cut(s) \/ HostNotices(s) \/ SlaveNotices(s)
  \/ HostDrains(s) \/ SlaveDrains(s) \/ Reconnect(s)

RelayNext ==
  \/ Tick
  \/ \E m \in Sends : Sender(m) \/ CallerTimesOut(m)
  \/ \E s \in Joined : HostReader(s) \/ SlaveReader(s) \/ SlaveResponds(s) \/ HandlerTimesOut(s) \/ Link(s)

(* Tasks are run and timers fire.  Nothing is said of the local server a   *)
(* slave asks, nor of noticing that a connection is gone.                  *)
Fairness ==
  /\ WF_relayVars(Tick)
  /\ \A m \in Sends : WF_relayVars(CallerTimesOut(m)) /\ \A s \in Joined : WF_relayVars(SlaveRelays(m, s))
  /\ \A s \in Joined :
       /\ WF_relayVars(HostReader(s)) /\ WF_relayVars(SlaveReader(s)) /\ WF_relayVars(HandlerTimesOut(s))
       /\ WF_relayVars(HostDrains(s)) /\ WF_relayVars(SlaveDrains(s))

RelaySpec == RelayInit /\ [][RelayNext]_relayVars /\ Fairness

---------------------------------------------------------------------------
(* A sender that is told Ok has had its message written, once; one that is *)
(* told an error has had nothing written, unless time passed or a          *)
(* connection broke while it waited (service/extension.rs:19).             *)
ToldTheTruth ==
  \A m \in Sends :
    /\ sent[m].told = "ok" => copies[m] = 1
    /\ sent[m].told = "err" => copies[m] = 0 \/ struck[m]

(* While every connection works and no local server is slow, a call waits  *)
(* only for readers of the host that wait for one another: a slave that    *)
(* sends to itself by way of the host, two that send to each other, or a   *)
(* longer circle, none of which can be left by following who waits.        *)
Circle(R) == R # {} /\ \A r \in R : \E s \in R : Nested(r, s)

WaitsOnlyInCycles ==
  [][Tick => \/ \E s \in Joined : ~works[s] \/ working[s] # None
             \/ \E R \in SUBSET Joined : Circle(R)]_relayVars

(* Every send ends, whatever breaks and whoever waits for whom.            *)
EverySendEnds == \A m \in Sends : sent[m].at # "unborn" ~> sent[m].at = "done"

============================================================================
