------------------------------ MODULE Settings ------------------------------
(***************************************************************************)
(* The settings of one instance and the global ones behind them: documents *)
(* that requests load, merge and write back on pool threads without a      *)
(* lock, while the thread of the instance reads them at every turn; and    *)
(* the rotation over the channels they list.                               *)
(*                                                                         *)
(* One field stands for each way the thread treats a field.  limit: the    *)
(* session and safety limits.  privileged: 1 is Some(true), 2 is           *)
(* Some(false); the name goes the same way.  channels: 1 or 2 extra        *)
(* channels with their keys and models.  host: the address, the notes on   *)
(* the shell and max_beats.  None is 0.  user_id, which merge_fallback     *)
(* forgets, and color and avatar are read by no thread and left out.       *)
(***************************************************************************)
EXTENDS Naturals, FiniteSets

CONSTANTS
  Requests,     \* update requests under way
  Agent,        \* the thread of the instance, which writes the document too
  MaxUpdates,   \* bound: updates in a behaviour
  MaxFails,     \* bound: failures of the model counted since the list changed
  Faults        \* the faults of a run: "crash"

ASSUME SettingsAssumption ==
  /\ MaxUpdates \in Nat /\ MaxFails \in Nat
  /\ Faults \subseteq {"crash"}
  /\ Agent \notin Requests

VARIABLES
  docs,     \* settings.json ("inst") and global_settings.json ("glob")
  req,      \* what each writer of a document is in the middle of
  updates,  \* updates begun, for the bound
  alive,    \* the thread runs
  view,     \* what it has taken from the documents
  born,     \* the host by both documents when it began, never read by the code
  index,    \* its channel counter, modulo 6, a multiple of every length
  seen,     \* it has read the documents since they were last written
  acked,    \* what the documents should hold by the answers given
  tried,    \* channels used since list or selection changed
  fails     \* failures since then

thread == <<alive, view, born, index, seen, tried, fails>>
vars == <<docs, req, updates, acked, alive, view, born, index, seen, tried, fails>>

Writers == Requests \cup {Agent}
Fields == {"limit", "privileged", "channels", "host"}
Values == 0..2
Docs == {"inst", "glob"}
Text == [Fields -> Values]
Torn == [torn |-> TRUE]
Idle == [at |-> "idle"]
Blank == [f \in Fields |-> 0]

\* engine.toml sets the limits, the environment perhaps the rest
Seed == [Blank EXCEPT !.limit = 1]

\* Mutant: the fallback wins.
MergePreferringFallback(s, fallback) ==
  [f \in Fields |-> IF fallback[f] = 0 THEN s[f] ELSE fallback[f]]

Merge(s, fallback) == [f \in Fields |-> IF s[f] = 0 THEN fallback[f] ELSE s[f]]

\* What the properties mean by a text laid over another.
Over(s, t) == [f \in Fields |-> IF s[f] # 0 THEN s[f] ELSE t[f]]

Privileged(v) == IF v = 1 THEN 1 ELSE 0
Readable(d) == docs[d] # Torn
Writing(d) == {r \in Writers : req[r] # Idle /\ req[r].doc = d /\ req[r].at = "fill"}
Loaded(d) == {r \in Writers : req[r] # Idle /\ req[r].doc = d /\ req[r].at \in {"save", "fill"}}
Length == 1 + view.channels
Current == index % Length

TypeOK ==
  /\ docs \in [Docs -> Text \cup {Torn}]
  /\ req \in [Writers -> {Idle} \cup
       [doc : Docs, change : Text, at : {"load", "save", "fill"}, text : Text, stale : BOOLEAN, alone : BOOLEAN]]
  /\ acked \in [Docs -> Text]
  /\ updates \in 0..MaxUpdates /\ fails \in 0..MaxFails
  /\ alive \in BOOLEAN /\ seen \in BOOLEAN
  /\ view \in Text /\ view.privileged \in 0..1 /\ born \in Values
  /\ index \in 0..5 /\ tried \subseteq 0..(Length - 1)

Init ==
  /\ docs = [inst |-> Blank, glob |-> Seed] /\ acked = docs
  /\ req = [r \in Writers |-> Idle]
  /\ updates = 0
  /\ alive = FALSE /\ seen = FALSE
  /\ view = Blank /\ born = 0 /\ index = 0 /\ tried = {} /\ fails = 0

---------------------------------------------------------------------------
(* update_settings and GlobalSettingsStore::merge_update.                  *)

Begin(r) ==
  /\ req[r] = Idle /\ updates < MaxUpdates
  /\ updates' = updates + 1
  /\ \E d \in Docs, f \in Fields, v \in Values \ {0} :
       req' = [req EXCEPT ![r] = [doc |-> d, change |-> [Blank EXCEPT ![f] = v], at |-> "load",
                                  text |-> Blank, stale |-> FALSE, alone |-> TRUE]]
  /\ UNCHANGED <<docs, acked, thread>>

(* execute_set_profile: the thread loads the document too and writes it    *)
(* back with a new name, colour or avatar, none of them a field here.      *)
SetProfile ==
  /\ alive /\ req[Agent] = Idle /\ updates < MaxUpdates
  /\ updates' = updates + 1
  /\ req' = [req EXCEPT ![Agent] = [doc |-> "inst", change |-> Blank, at |-> "load",
                                   text |-> Blank, stale |-> FALSE, alone |-> TRUE]]
  /\ UNCHANGED <<docs, acked, thread>>

(* describe_settings_change does not look at extra_channels.               *)
Described(old, new) == \E f \in Fields \ {"channels"} : old[f] # new[f]

Merged(r) == Merge(req[r].change, docs[req[r].doc])
At(r, pc) == req[r] # Idle /\ req[r].at = pc
Accepts(r) == r = Agent \/ req[r].doc = "glob" \/ Described(docs[req[r].doc], Merged(r))

Load(r) ==
  /\ At(r, "load") /\ Readable(req[r].doc) /\ Accepts(r)
  /\ req' = [req EXCEPT ![r].at = "save", ![r].text = Merged(r)]
  /\ UNCHANGED <<docs, updates, acked, thread>>

Refuse(r) ==
  /\ At(r, "load") /\ Readable(req[r].doc) /\ ~Accepts(r)
  /\ req' = [req EXCEPT ![r] = Idle]
  /\ UNCHANGED <<docs, updates, acked, thread>>

LoadFails(r) ==
  /\ At(r, "load") /\ ~Readable(req[r].doc)
  /\ req' = [req EXCEPT ![r] = Idle]
  /\ UNCHANGED <<docs, updates, acked, thread>>

Truncate(r) ==
  LET d == req[r].doc IN
  /\ At(r, "save")
  /\ docs' = [docs EXCEPT ![d] = Torn]
  /\ req' = [s \in Writers |->
       IF s = r THEN [req[r] EXCEPT !.at = "fill", !.alone = Writing(d) = {}]
       ELSE IF s \in Writing(d) THEN [req[s] EXCEPT !.alone = FALSE]
       ELSE req[s]]
  /\ seen' = FALSE
  /\ UNCHANGED <<updates, acked, alive, view, born, index, tried, fails>>

(* After the save the thread takes over what the text grants.              *)
ProfileApplies(r) ==
  view' = IF r # Agent THEN view ELSE [view EXCEPT !.privileged = Privileged(req[Agent].text.privileged)]

(* Writers that loaded before this one has written will write back what    *)
(* they loaded: they are stale.  Two that write at once may mix.           *)
Fill(r) ==
  LET d == req[r].doc IN
  /\ At(r, "fill")
  /\ \/ /\ docs' = [docs EXCEPT ![d] = req[r].text]
        /\ acked' = [acked EXCEPT ![d] = IF req[r].stale THEN req[r].text ELSE Over(req[r].change, @)]
     \/ ~req[r].alone /\ docs' = [docs EXCEPT ![d] = Torn] /\ UNCHANGED acked
  /\ req' = [s \in Writers |->
       IF s = r THEN Idle
       ELSE IF s \in Loaded(d) THEN [req[s] EXCEPT !.stale = TRUE]
       ELSE req[s]]
  /\ seen' = FALSE
  /\ ProfileApplies(r)
  /\ UNCHANGED <<updates, alive, born, index, tried, fails>>

---------------------------------------------------------------------------
(* The thread: spawned with merged settings, reloading at every turn.      *)

Begun(n) == tried' = {index' % n} /\ fails' = 0

\* SignalHub::register makes the channel state anew, also for a respawned thread.
Registered == index' = 0

Spawn ==
  /\ ~alive /\ Readable("inst") /\ Readable("glob")
  /\ LET s == Merge(docs.inst, docs.glob) IN
       /\ view' = [s EXCEPT !.privileged = Privileged(@)]
       /\ born' = Over(docs.inst, docs.glob).host
       /\ Registered
       /\ Begun(1 + s.channels)
  /\ alive' = TRUE /\ seen' = TRUE
  /\ UNCHANGED <<docs, req, updates, acked>>

\* Mutant: the channels of the instance are not merged with the global ones.
ReloadedUnmerged ==
  LET s == docs.inst
  IN [limit |-> IF s.limit = 0 THEN view.limit ELSE s.limit,
      privileged |-> Privileged(s.privileged), channels |-> s.channels, host |-> view.host]

\* What the thread takes at every turn: the channels of both documents, if the
\* global one can be read; limits and privileged of the instance's own alone;
\* nothing of the kind of host.
Reloaded ==
  LET s == docs.inst
      channels == IF Readable("glob") THEN Merge(s, docs.glob).channels ELSE view.channels
  IN [limit |-> IF s.limit = 0 THEN view.limit ELSE s.limit,
      privileged |-> Privileged(s.privileged), channels |-> channels, host |-> view.host]

Reload ==
  /\ alive /\ req[Agent] = Idle /\ Readable("inst")
  /\ view' = Reloaded
  /\ seen' = Readable("glob")
  /\ IF view'.channels = view.channels THEN UNCHANGED <<index, tried, fails>>
     ELSE UNCHANGED index /\ Begun(1 + view'.channels)
  /\ UNCHANGED <<docs, req, updates, acked, alive, born>>

ReloadFails ==
  /\ alive /\ req[Agent] = Idle /\ ~Readable("inst")
  /\ alive' = FALSE
  /\ UNCHANGED <<docs, req, updates, acked, view, born, index, seen, tried, fails>>

(* select_channel of the web api.                                          *)
Select ==
  /\ alive
  /\ \E n \in 0..(Length - 1) : index' = n
  /\ Begun(Length)
  /\ UNCHANGED <<docs, req, updates, acked, alive, view, born, seen>>

\* Mutant: the counter is advanced past the channel that follows.
AdvanceTwice == index' = (index + 2) % 6

Advance == index' = (index + 1) % 6

(* An inference fails: advance_channel.                                    *)
InferenceFails ==
  /\ alive /\ req[Agent] = Idle /\ fails < MaxFails
  /\ IF Length = 1 THEN UNCHANGED index ELSE Advance
  /\ tried' = tried \cup {index' % Length}
  /\ fails' = fails + 1
  /\ UNCHANGED <<docs, req, updates, acked, alive, view, born, seen>>

(* The process is killed and started: GlobalSettingsStore::init takes what *)
(* it cannot read for empty, and writes that back.                         *)
Restart ==
  /\ "crash" \in Faults
  /\ docs' = [docs EXCEPT !.glob = IF Readable("glob") THEN Merge(@, Seed) ELSE Seed]
  /\ acked' = [acked EXCEPT !.glob = IF Readable("glob") THEN Over(@, Seed) ELSE Seed]
  /\ req' = [r \in Writers |-> Idle]
  /\ alive' = FALSE /\ seen' = FALSE
  /\ UNCHANGED <<updates, view, born, index, tried, fails>>

---------------------------------------------------------------------------
Updating(r) == Load(r) \/ Refuse(r) \/ LoadFails(r) \/ Truncate(r) \/ Fill(r)
Turn == Spawn \/ Reload \/ ReloadFails \/ Select \/ InferenceFails

Next ==
  \/ Turn \/ SetProfile \/ Restart
  \/ \E r \in Requests : Begin(r)
  \/ \E r \in Writers : Updating(r)

Spec == Init /\ [][Next]_vars

---------------------------------------------------------------------------
(* A document that can be read holds what the answers promised: an update  *)
(* changes its own field and keeps the others (state.rs:446), restarts     *)
(* keep them.  Only an update that had loaded before another one wrote     *)
(* takes that one back; only a crash in the middle of a write loses all.   *)
UpdatesSurvive == \A d \in Docs : Readable(d) => docs[d] = acked[d]

(* Once the thread has read both documents since they were last written,   *)
(* it works with the settings merged, instance first (settings.rs:25),     *)
(* with three exceptions in the code.  For fields the instance leaves open *)
(* a limit stays what it was, and privileged falls back to false after the *)
(* first turn.  And host is that of the two documents when the thread      *)
(* began, whatever was written to them since.  While the global document   *)
(* is torn nothing is said but that.                                       *)
ViewIsMerged ==
  LET s == Over(docs.inst, docs.glob) IN
  alive =>
    /\ view.host = born
    /\ seen =>
         /\ view.channels = s.channels
         /\ docs.inst.limit # 0 => view.limit = s.limit
         /\ docs.inst.privileged # 0 => view.privileged = Privileged(s.privileged)

(* Failover reaches every channel (README:102): n failures in a row have   *)
(* tried n + 1 channels, or all, whatever was selected or reloaded before  *)
(* and wherever the counter stood.                                         *)
RotationTriesAll ==
  alive => Cardinality(tried) = IF fails + 1 < Length THEN fails + 1 ELSE Length

============================================================================
