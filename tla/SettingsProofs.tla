--------------------------- MODULE SettingsProofs ---------------------------
(***************************************************************************)
(* Proofs about Settings, for any number of writers, updates and failures: *)
(* what the documents keep, and what the thread makes of them.             *)
(***************************************************************************)
EXTENDS Settings, FiniteSetTheorems, TLAPS

Requesting == [doc : Docs, change : Text, at : {"load", "save", "fill"}, text : Text, stale : BOOLEAN, alone : BOOLEAN]

\* TypeOK in two parts: documents with their writers, and the thread.
DocTypes ==
  /\ docs \in [Docs -> Text \cup {Torn}]
  /\ acked \in [Docs -> Text]
  /\ req \in [Writers -> {Idle} \cup Requesting]

ThreadTypes ==
  /\ updates \in 0..MaxUpdates /\ fails \in 0..MaxFails
  /\ view \in Text /\ view.privileged \in 0..1 /\ born \in Values
  /\ index \in 0..5 /\ tried \subseteq 0..(Length - 1)

Flags == alive \in BOOLEAN /\ seen \in BOOLEAN

\* A writer that has loaded, and has not been overtaken, holds what the document should
\* hold when it has written.
LoadedKept ==
  \A r \in Writers : req[r] # Idle /\ req[r].at \in {"save", "fill"} /\ ~req[r].stale =>
    req[r].text = Over(req[r].change, acked[req[r].doc])

DocsInv == DocTypes /\ UpdatesSurvive /\ LoadedKept

LEMMA MergeIsOver == ASSUME NEW s, NEW t PROVE Merge(s, t) = Over(s, t)
BY Zenon DEF Merge, Over

LEMMA MergeIsText == ASSUME NEW s \in Text, NEW t \in Text PROVE Merge(s, t) \in Text
BY DEF Merge, Text

LEMMA SeedIsText == Seed \in Text /\ Blank \in Text
BY DEF Seed, Blank, Text, Fields, Values

LEMMA BlankIsOne == ASSUME NEW f \in Fields, NEW v \in Values PROVE [Blank EXCEPT ![f] = v] \in Text
BY DEF Blank, Text, Fields, Values

LEMMA IdleIsNoRequest == Idle \notin Requesting
BY DEF Idle, Requesting

LEMMA ReadableIsText == ASSUME DocTypes, NEW d \in Docs, Readable(d) PROVE docs[d] \in Text
BY DEF DocTypes, Readable

LEMMA RequestTyped ==
  ASSUME DocTypes, NEW r \in Writers, req[r] # Idle
  PROVE  /\ req[r] \in Requesting /\ req[r].doc \in Docs
         /\ req[r].change \in Text /\ req[r].text \in Text
BY DEF DocTypes, Requesting

---------------------------------------------------------------------------
(* The documents *)

LEMMA DocsStep == DocsInv /\ [Next]_vars => DocsInv'
<1> SUFFICES ASSUME DocsInv, [Next]_vars PROVE DocsInv'
  OBVIOUS
<1> USE DEF DocsInv, vars, thread
<1>1. CASE UNCHANGED <<docs, acked, req>>
  BY <1>1 DEF DocTypes, UpdatesSurvive, LoadedKept, Readable
<1>2. ASSUME NEW r \in Writers, req[r] = Idle, NEW new \in Requesting, new.at = "load",
             req' = [req EXCEPT ![r] = new], UNCHANGED <<docs, acked>>
      PROVE  DocsInv'
  BY <1>2 DEF DocTypes, UpdatesSurvive, LoadedKept, Readable
<1>3. ASSUME NEW r \in Requests, Begin(r) PROVE DocsInv'
  <2>1. PICK d \in Docs, f \in Fields, v \in Values :
          req' = [req EXCEPT ![r] = [doc |-> d, change |-> [Blank EXCEPT ![f] = v], at |-> "load",
                                     text |-> Blank, stale |-> FALSE, alone |-> TRUE]]
    BY <1>3 DEF Begin
  <2>2. [doc |-> d, change |-> [Blank EXCEPT ![f] = v], at |-> "load",
         text |-> Blank, stale |-> FALSE, alone |-> TRUE] \in Requesting
    BY BlankIsOne, SeedIsText DEF Requesting
  <2> QED
    BY <1>2, <1>3, <2>1, <2>2 DEF Begin, Writers
<1>4. CASE SetProfile
  <2>1. [doc |-> "inst", change |-> Blank, at |-> "load",
         text |-> Blank, stale |-> FALSE, alone |-> TRUE] \in Requesting
    BY SeedIsText DEF Requesting, Docs
  <2> QED
    BY <1>2, <1>4, <2>1 DEF SetProfile, Writers
<1>5. ASSUME NEW r \in Writers, Load(r) PROVE DocsInv'
  <2> DEFINE d == req[r].doc
  <2>1. req[r] # Idle /\ d \in Docs /\ req[r].change \in Text /\ Readable(d)
    BY <1>5, RequestTyped DEF Load, At
  <2>2. docs[d] = acked[d] /\ docs[d] \in Text
    BY <2>1, ReadableIsText DEF UpdatesSurvive
  <2>3. Merged(r) \in Text /\ Merged(r) = Over(req[r].change, acked[d])
    BY <2>1, <2>2, MergeIsText, MergeIsOver DEF Merged
  <2>4. /\ req' = [req EXCEPT ![r].at = "save", ![r].text = Merged(r)]
        /\ UNCHANGED <<docs, acked>>
    BY <1>5 DEF Load
  <2>5. req'[r] = [req[r] EXCEPT !.at = "save", !.text = Merged(r)]
    BY <2>4 DEF DocTypes
  <2>6. req'[r] \in Requesting
    BY <2>1, <2>3, <2>5, RequestTyped DEF Requesting
  <2>7. DocTypes'
    BY <2>4, <2>6 DEF DocTypes
  <2>8. req'[r].doc = d /\ req'[r].change = req[r].change /\ req'[r].text = Merged(r)
    BY <2>1, <2>5, RequestTyped DEF Requesting
  <2>9. LoadedKept'
    BY <2>3, <2>4, <2>8 DEF LoadedKept, DocTypes, Over
  <2> QED
    BY <2>4, <2>7, <2>9 DEF UpdatesSurvive, Readable
<1>6. ASSUME NEW r \in Writers, Refuse(r) \/ LoadFails(r) PROVE DocsInv'
  BY <1>6 DEF Refuse, LoadFails, DocTypes, UpdatesSurvive, LoadedKept, Readable
<1>7. ASSUME NEW r \in Writers, Truncate(r) PROVE DocsInv'
  <2> DEFINE d == req[r].doc
  <2>1. req[r] # Idle /\ req[r].at = "save" /\ d \in Docs
    BY <1>7, RequestTyped DEF Truncate, At
  <2>2. docs' = [docs EXCEPT ![d] = Torn] /\ acked' = acked
    BY <1>7 DEF Truncate
  <2>3. \A s \in Writers : req'[s] = req[s] \/
          (/\ req[s] # Idle /\ req[s].at \in {"save", "fill"}
           /\ \E b \in BOOLEAN : req'[s] = [req[s] EXCEPT !.at = "fill", !.alone = b])
    <3>1. req'[r] = [req[r] EXCEPT !.at = "fill", !.alone = (Writing(d) = {})]
      BY <1>7 DEF Truncate
    <3>2. (Writing(d) = {}) \in BOOLEAN
      OBVIOUS
    <3>3. \A s \in Writers \ {r} : req'[s] = req[s] \/ (s \in Writing(d) /\ req'[s] = [req[s] EXCEPT !.alone = FALSE])
      BY <1>7 DEF Truncate
    <3>4. \A s \in Writing(d) : req[s] # Idle /\ req[s].at = "fill" /\ req[s] \in Requesting
      BY DEF Writing, DocTypes
    <3>5. \A s \in Writing(d) : [req[s] EXCEPT !.alone = FALSE] = [req[s] EXCEPT !.at = "fill", !.alone = FALSE]
      BY <3>4 DEF Requesting
    <3> QED
      BY <2>1, <3>1, <3>2, <3>3, <3>4, <3>5
  <2>4. \A s \in Writers : req'[s] # req[s] =>
          /\ req[s] # Idle /\ req[s].at \in {"save", "fill"}
          /\ req'[s] \in Requesting
          /\ req'[s].doc = req[s].doc /\ req'[s].change = req[s].change
          /\ req'[s].text = req[s].text /\ req'[s].stale = req[s].stale
    <3> SUFFICES ASSUME NEW s \in Writers, req'[s] # req[s]
                 PROVE  /\ req[s] # Idle /\ req[s].at \in {"save", "fill"}
                        /\ req'[s] \in Requesting
                        /\ req'[s].doc = req[s].doc /\ req'[s].change = req[s].change
                        /\ req'[s].text = req[s].text /\ req'[s].stale = req[s].stale
      OBVIOUS
    <3>1. req[s] # Idle /\ req[s].at \in {"save", "fill"}
      BY <2>3
    <3>2. PICK b \in BOOLEAN : req'[s] = [req[s] EXCEPT !.at = "fill", !.alone = b]
      BY <2>3
    <3>3. PICK q \in Requesting : q = req[s]
      BY <3>1, RequestTyped
    <3>4. PICK x : x = [q EXCEPT !.at = "fill", !.alone = b]
      OBVIOUS
    <3>5. x \in Requesting /\ x.doc = q.doc /\ x.change = q.change /\ x.text = q.text /\ x.stale = q.stale
      BY <3>4 DEF Requesting
    <3> QED
      BY <3>1, <3>2, <3>3, <3>4, <3>5
  <2>5. DOMAIN req' = Writers /\ req' = [s \in Writers |-> req'[s]]
    BY <1>7 DEF Truncate
  <2>6. DocTypes'
    BY <2>1, <2>2, <2>4, <2>5 DEF DocTypes
  <2>7. LoadedKept'
    BY <2>2, <2>4 DEF LoadedKept
  <2> QED
    BY <2>1, <2>2, <2>6, <2>7 DEF UpdatesSurvive, Readable, DocTypes
<1>8. ASSUME NEW r \in Writers, Fill(r) PROVE DocsInv'
  <2> DEFINE d == req[r].doc
  <2>1. req[r] # Idle /\ req[r].at = "fill" /\ d \in Docs /\ req[r].text \in Text
    BY <1>8, RequestTyped DEF Fill, At
  <2>2. Over(req[r].change, acked[d]) \in Text
    BY <2>1, RequestTyped, MergeIsText, MergeIsOver DEF DocTypes
  <2>3. \/ /\ docs' = [docs EXCEPT ![d] = req[r].text]
           /\ acked' = [acked EXCEPT ![d] = IF req[r].stale THEN req[r].text ELSE Over(req[r].change, acked[d])]
        \/ docs' = [docs EXCEPT ![d] = Torn] /\ acked' = acked
    BY <1>8 DEF Fill
  <2>4. req' = [s \in Writers |-> IF s = r THEN Idle
                  ELSE IF s \in Loaded(d) THEN [req[s] EXCEPT !.stale = TRUE] ELSE req[s]]
    BY <1>8 DEF Fill
  <2>5. \A s \in Loaded(d) : [req[s] EXCEPT !.stale = TRUE] \in Requesting /\ [req[s] EXCEPT !.stale = TRUE].stale
    <3> SUFFICES ASSUME NEW s \in Loaded(d)
                 PROVE  [req[s] EXCEPT !.stale = TRUE] \in Requesting /\ [req[s] EXCEPT !.stale = TRUE].stale
      OBVIOUS
    <3>1. req[s] \in Requesting
      BY RequestTyped DEF Loaded
    <3> QED
      BY <3>1 DEF Requesting
  <2>6. DocTypes'
    BY <2>1, <2>2, <2>3, <2>4, <2>5 DEF DocTypes
  <2>7. UpdatesSurvive'
    BY <2>1, <2>3 DEF UpdatesSurvive, LoadedKept, Readable, DocTypes
  <2>8. LoadedKept'
    <3> SUFFICES ASSUME NEW s \in Writers, req'[s] # Idle, req'[s].at \in {"save", "fill"}, ~req'[s].stale
                 PROVE  req'[s].text = Over(req'[s].change, acked'[req'[s].doc])
      BY DEF LoadedKept
    <3>1. req'[s] = req[s] /\ s \notin Loaded(d)
      BY <2>4, <2>5
    <3>2. req[s].doc # d
      BY <3>1 DEF Loaded
    <3>3. acked'[req[s].doc] = acked[req[s].doc]
      BY <2>3, <3>1, <3>2, RequestTyped DEF DocTypes
    <3> QED
      BY <3>1, <3>3 DEF LoadedKept
  <2> QED
    BY <2>6, <2>7, <2>8
<1>9. CASE Restart
  <2>1. Readable("glob") => /\ docs["glob"] = acked["glob"] /\ docs["glob"] \in Text
                            /\ Merge(docs["glob"], Seed) = Over(acked["glob"], Seed)
    BY ReadableIsText, MergeIsOver DEF UpdatesSurvive, Docs
  <2>2. /\ docs' = [docs EXCEPT !["glob"] = IF Readable("glob") THEN Merge(docs["glob"], Seed) ELSE Seed]
        /\ acked' = [acked EXCEPT !["glob"] = IF Readable("glob") THEN Over(acked["glob"], Seed) ELSE Seed]
        /\ req' = [r \in Writers |-> Idle]
    BY <1>9 DEF Restart
  <2>3. Readable("glob") => Merge(docs["glob"], Seed) \in Text
    BY <2>1, SeedIsText, MergeIsText
  <2>4. DocTypes'
    BY <2>1, <2>2, <2>3, SeedIsText DEF DocTypes
  <2> QED
    BY <2>1, <2>2, <2>4 DEF UpdatesSurvive, LoadedKept, Readable, DocTypes
<1>10. CASE Turn
  BY <1>1, <1>10 DEF Turn, Spawn, Reload, ReloadFails, Select, InferenceFails
<1> QED
  BY <1>1, <1>3, <1>4, <1>5, <1>6, <1>7, <1>8, <1>9, <1>10 DEF Next, Updating

---------------------------------------------------------------------------
(* The thread *)

Quiet == UNCHANGED thread

LEMMA ChannelsTyped == ASSUME NEW v \in Text PROVE v.channels \in 0..2 /\ v.limit \in 0..2 /\ v.privileged \in 0..2 /\ v.host \in 0..2
BY DEF Text, Fields, Values

LEMMA RemainderTyped == ASSUME NEW i \in Nat, NEW n \in 1..3 PROVE i % n \in 0..(n - 1)
OBVIOUS

LEMMA PrivilegedTyped == ASSUME NEW v PROVE Privileged(v) \in 0..1
BY DEF Privileged

\* What Reload makes of documents it can read.
LEMMA ReloadedTyped ==
  ASSUME DocTypes, view \in Text, Readable("inst")
  PROVE  /\ Reloaded \in Text /\ Reloaded.privileged \in 0..1
         /\ Reloaded.limit = IF docs["inst"].limit = 0 THEN view.limit ELSE docs["inst"].limit
         /\ Reloaded.privileged = Privileged(docs["inst"].privileged)
         /\ Reloaded.host = view.host
         /\ Readable("glob") => Reloaded.channels = Merge(docs["inst"], docs["glob"]).channels
<1> DEFINE s == docs["inst"]
           channels == IF Readable("glob") THEN Merge(s, docs["glob"]).channels ELSE view.channels
           limit == IF s.limit = 0 THEN view.limit ELSE s.limit
<1>1. s \in Text /\ (Readable("glob") => Merge(s, docs["glob"]) \in Text)
  BY ReadableIsText, MergeIsText DEF Docs
<1>2. channels \in 0..2 /\ limit \in 0..2
  BY <1>1, ChannelsTyped
<1>3. Reloaded = [limit |-> limit, privileged |-> Privileged(s.privileged), channels |-> channels,
                  host |-> view.host]
  BY Zenon DEF Reloaded
<1>4. Privileged(s.privileged) \in 0..1 /\ view.host \in 0..2
  BY PrivilegedTyped, ChannelsTyped
<1> HIDE DEF limit, channels
<1>5. Reloaded \in Text
  BY <1>2, <1>3, <1>4 DEF Text, Fields, Values
<1>6. /\ Reloaded.limit = limit /\ Reloaded.privileged = Privileged(s.privileged)
      /\ Reloaded.channels = channels /\ Reloaded.host = view.host
  BY <1>3
<1> QED
  BY <1>4, <1>5, <1>6 DEF channels, limit

LEMMA ThreadStep == ThreadTypes /\ DocTypes /\ [Next]_vars => ThreadTypes'
<1> SUFFICES ASSUME ThreadTypes, DocTypes, [Next]_vars PROVE ThreadTypes'
  OBVIOUS
<1> USE SettingsAssumption DEF ThreadTypes, vars, thread
<1>1. CASE UNCHANGED <<view, born, index, tried, fails>> /\ updates' \in 0..MaxUpdates
  BY <1>1 DEF Length
<1>2. CASE SetProfile \/ Restart \/ ReloadFails \/ \E r \in Requests : Begin(r)
  BY <1>1, <1>2 DEF SetProfile, Restart, ReloadFails, Begin
<1>3. ASSUME NEW r \in Writers, Load(r) \/ Refuse(r) \/ LoadFails(r) \/ Truncate(r) PROVE ThreadTypes'
  BY <1>1, <1>3 DEF Load, Refuse, LoadFails, Truncate
<1>4. ASSUME NEW r \in Writers, Fill(r) PROVE ThreadTypes'
  <2>1. view' = view \/ view' = [view EXCEPT !.privileged = Privileged(req[Agent].text.privileged)]
    BY <1>4 DEF Fill, ProfileApplies
  <2>2. view' \in Text /\ view'.privileged \in 0..1 /\ view'.channels = view.channels
    BY <2>1, PrivilegedTyped DEF Text, Fields, Values
  <2> QED
    BY <1>4, <2>2 DEF Fill, Length
<1>5. CASE Spawn
  <2> DEFINE s == Merge(docs["inst"], docs["glob"])
  <2>1. s \in Text /\ s.channels \in 0..2
    BY <1>5, ReadableIsText, MergeIsText, ChannelsTyped DEF Spawn, Docs
  <2>2. /\ view' = [s EXCEPT !.privileged = Privileged(s.privileged)]
        /\ index' = 0 /\ tried' = {0 % (1 + s.channels)} /\ fails' = 0 /\ updates' = updates
        /\ born' = s.host
    BY <1>5, MergeIsOver DEF Spawn, Registered, Begun
  <2> HIDE DEF s
  <2>3. view' \in Text /\ view'.privileged \in 0..1 /\ view'.channels = s.channels /\ born' \in Values
    BY <2>1, <2>2, PrivilegedTyped DEF Text, Fields, Values
  <2>4. 0 % (1 + s.channels) \in 0..s.channels
    BY <2>1, RemainderTyped
  <2>5. Length' - 1 = s.channels
    BY <2>1, <2>3 DEF Length
  <2>6. tried' \subseteq 0..(Length' - 1)
    BY <2>2, <2>4, <2>5
  <2> QED
    BY <2>2, <2>3, <2>6
<1>6. CASE Reload
  <2>1. view' \in Text /\ view'.privileged \in 0..1 /\ view'.channels \in 0..2
    BY <1>6, ReloadedTyped, ChannelsTyped DEF Reload
  <2>2. \/ view'.channels = view.channels /\ UNCHANGED <<index, tried, fails>>
        \/ index' = index /\ tried' = {index' % (1 + view'.channels)} /\ fails' = 0
    BY <1>6 DEF Reload, Begun
  <2>3. index % (1 + view'.channels) \in 0..view'.channels
    BY <2>1, RemainderTyped
  <2>4. updates' = updates /\ born' = born
    BY <1>6 DEF Reload
  <2>5. tried' \subseteq 0..(Length' - 1)
    <3>1. Length' - 1 = view'.channels
      BY <2>1 DEF Length
    <3>2. view'.channels = view.channels => Length' = Length
      BY DEF Length
    <3> QED
      BY <2>2, <2>3, <3>1, <3>2
  <2>6. index' \in 0..5 /\ fails' \in 0..MaxFails
    BY <2>2
  <2> QED
    BY <2>1, <2>4, <2>5, <2>6
<1>7. CASE Select
  <2>1. view.channels \in 0..2
    BY ChannelsTyped
  <2>2. PICK n \in 0..view.channels : index' = n /\ tried' = {n % (1 + view.channels)} /\ fails' = 0
    BY <1>7, <2>1 DEF Select, Begun, Length
  <2>3. n % (1 + view.channels) \in 0..view.channels
    BY <2>1, RemainderTyped
  <2> QED
    BY <1>7, <2>1, <2>2, <2>3 DEF Select, Length
<1>8. CASE InferenceFails
  <2>1. view.channels \in 0..2
    BY ChannelsTyped
  <2>2. index' \in 0..5
    BY <1>8 DEF InferenceFails, Advance
  <2>3. index' % (1 + view.channels) \in 0..view.channels
    BY <2>1, <2>2, RemainderTyped
  <2>4. fails' \in 0..MaxFails /\ tried' = tried \cup {index' % (1 + view.channels)}
        /\ UNCHANGED <<view, born, updates>>
    BY <1>8 DEF InferenceFails, Length
  <2>5. tried' \subseteq 0..(Length' - 1)
    <3>1. Length' = Length /\ Length - 1 = view.channels
      BY <2>1, <2>4 DEF Length
    <3> QED
      BY <2>3, <2>4, <3>1
  <2> QED
    BY <2>2, <2>4, <2>5
<1>9. CASE UNCHANGED vars
  BY <1>1, <1>9
<1> QED
  BY <1>2, <1>3, <1>4, <1>5, <1>6, <1>7, <1>8, <1>9 DEF Next, Turn, Updating

LEMMA FlagsStep == Flags /\ [Next]_vars => Flags'
<1> SUFFICES ASSUME Flags, [Next]_vars PROVE Flags'
  OBVIOUS
<1> USE DEF Flags, vars, thread
<1>1. CASE SetProfile \/ Restart \/ Turn \/ UNCHANGED vars
  BY <1>1 DEF SetProfile, Restart, Turn, Spawn, Reload, ReloadFails, Select, InferenceFails, Readable
<1>2. ASSUME NEW r \in Requests, Begin(r) PROVE Flags'
  BY <1>2 DEF Begin
<1>3. ASSUME NEW r \in Writers, Updating(r) PROVE Flags'
  BY <1>3 DEF Updating, Load, Refuse, LoadFails, Truncate, Fill
<1> QED
  BY <1>1, <1>2, <1>3 DEF Next

LEMMA OverIs == ASSUME NEW s, NEW t, NEW f \in Fields PROVE Over(s, t)[f] = IF s[f] # 0 THEN s[f] ELSE t[f]
BY DEF Over

LEMMA ViewStep == DocTypes /\ ThreadTypes /\ ViewIsMerged /\ [Next]_vars => ViewIsMerged'
<1> SUFFICES ASSUME DocTypes, ThreadTypes, ViewIsMerged, [Next]_vars PROVE ViewIsMerged'
  OBVIOUS
<1> USE DEF vars, thread
<1>1. CASE UNCHANGED <<docs, thread>>
  BY <1>1 DEF ViewIsMerged
<1>2. CASE ~alive' \/ (~seen' /\ UNCHANGED <<alive, born>> /\ view'.host = view.host)
  BY <1>2 DEF ViewIsMerged
<1>3. CASE UNCHANGED <<docs, alive, view, born, seen>>
  BY <1>3 DEF ViewIsMerged
<1>4. CASE SetProfile \/ Restart \/ ReloadFails \/ Select \/ InferenceFails \/ \E r \in Requests : Begin(r)
  BY <1>1, <1>2, <1>3, <1>4 DEF SetProfile, Restart, ReloadFails, Select, InferenceFails, Begin
<1>5. ASSUME NEW r \in Writers, Updating(r) PROVE ViewIsMerged'
  <2>1. CASE Fill(r)
    <3>1. view' = view \/ view' = [view EXCEPT !.privileged = Privileged(req[Agent].text.privileged)]
      BY <2>1 DEF Fill, ProfileApplies
    <3>2. view'.host = view.host
      BY <3>1 DEF ThreadTypes, Text, Fields
    <3> QED
      BY <1>2, <2>1, <3>2 DEF Fill
  <2> QED
    BY <1>1, <1>2, <1>5, <2>1 DEF Updating, Load, Refuse, LoadFails, Truncate
<1>6. CASE Spawn
  <2> DEFINE s == Merge(docs["inst"], docs["glob"])
  <2>1. s \in Text /\ s = Over(docs["inst"], docs["glob"])
    BY <1>6, ReadableIsText, MergeIsText, MergeIsOver DEF Spawn, Docs
  <2>2. view' = [s EXCEPT !.privileged = Privileged(s.privileged)] /\ docs' = docs /\ born' = s.host
    BY <1>6, <2>1 DEF Spawn
  <2> HIDE DEF s
  <2>3. /\ view'.channels = s.channels /\ view'.limit = s.limit
        /\ view'.privileged = Privileged(s.privileged) /\ view'.host = s.host
    BY <2>1, <2>2 DEF Text, Fields
  <2> QED
    BY <2>1, <2>2, <2>3 DEF ViewIsMerged
<1>7. CASE Reload
  <2>1. seen' = Readable("glob") /\ view' = Reloaded /\ docs' = docs /\ Readable("inst")
    BY <1>7 DEF Reload
  <2>4. view'.host = view.host /\ UNCHANGED <<alive, born>>
    BY <1>7, <2>1, ReloadedTyped DEF Reload, ThreadTypes
  <2> SUFFICES ASSUME Readable("glob") PROVE ViewIsMerged'
    BY <2>1, <2>4, <1>2
  <2> DEFINE s == Over(docs["inst"], docs["glob"])
  <2>2. /\ view'.limit = IF docs["inst"].limit = 0 THEN view.limit ELSE docs["inst"].limit
        /\ view'.privileged = Privileged(docs["inst"].privileged)
        /\ view'.channels = s.channels
    BY <2>1, ReloadedTyped, MergeIsOver DEF ThreadTypes
  <2>3. /\ docs["inst"]["limit"] # 0 => s["limit"] = docs["inst"]["limit"]
        /\ docs["inst"]["privileged"] # 0 => s["privileged"] = docs["inst"]["privileged"]
    BY OverIs DEF Fields
  <2> HIDE DEF s
  <2> QED
    BY <2>1, <2>2, <2>3, <2>4 DEF ViewIsMerged, s
<1> QED
  BY <1>1, <1>4, <1>5, <1>6, <1>7 DEF Next, Turn

---------------------------------------------------------------------------
(* Failover.  The counter walks round: what has been tried are the         *)
(* channels it stands on and has just left.                                *)

Walked ==
  alive =>
    /\ Length = 1 => tried = {0}
    /\ Length = 2 => tried = IF fails = 0 THEN {index % 2} ELSE {0, 1}
    /\ Length = 3 => tried = IF fails = 0 THEN {index % 3}
                             ELSE IF fails = 1 THEN {index % 3, (index + 2) % 3} ELSE {0, 1, 2}

LEMMA Remainders ==
  /\ \A i \in 0..5 : i % 1 = 0
  /\ \A i \in 0..5 : i % 2 \in {0, 1} /\ ((i + 1) % 6) % 2 # i % 2 /\ ((i + 1) % 6) % 2 \in {0, 1}
  /\ \A i \in 0..5 : /\ i % 3 \in {0, 1, 2} /\ (i + 2) % 3 \in {0, 1, 2} /\ i % 3 # (i + 2) % 3
                     /\ (((i + 1) % 6) + 2) % 3 = i % 3
                     /\ ((i + 1) % 6) % 3 \in {0, 1, 2} \ {i % 3, (i + 2) % 3}
<1>1. \A i \in 0..5 : i \in {0, 1, 2, 3, 4, 5}
  OBVIOUS
<1> QED
  BY <1>1

LEMMA WalkedStep == DocTypes /\ ThreadTypes /\ Walked /\ [Next]_vars => Walked'
<1> SUFFICES ASSUME DocTypes, ThreadTypes, Walked, [Next]_vars PROVE Walked'
  OBVIOUS
<1> USE DEF vars, thread
<1>1. CASE UNCHANGED <<alive, index, tried, fails>> /\ view'.channels = view.channels
  BY <1>1 DEF Walked, Length
<1>2. CASE ~alive'
  BY <1>2 DEF Walked
<1>3. ASSUME tried' = {index' % (1 + view'.channels)}, fails' = 0, index' \in 0..5 PROVE Walked'
  BY <1>3, Remainders DEF Walked, Length
<1>4. CASE SetProfile \/ Restart \/ ReloadFails \/ \E r \in Requests : Begin(r)
  BY <1>1, <1>2, <1>4 DEF SetProfile, Restart, ReloadFails, Begin
<1>5. ASSUME NEW r \in Writers, Load(r) \/ Refuse(r) \/ LoadFails(r) \/ Truncate(r) PROVE Walked'
  BY <1>1, <1>5 DEF Load, Refuse, LoadFails, Truncate
<1>6. ASSUME NEW r \in Writers, Fill(r) PROVE Walked'
  <2>1. view' = view \/ view' = [view EXCEPT !.privileged = Privileged(req[Agent].text.privileged)]
    BY <1>6 DEF Fill, ProfileApplies
  <2>2. view'.channels = view.channels
    BY <2>1 DEF ThreadTypes, Text, Fields
  <2> QED
    BY <1>1, <1>6, <2>2 DEF Fill
<1>7. CASE Spawn
  <2> DEFINE s == Merge(docs["inst"], docs["glob"])
  <2>1. s \in Text
    BY <1>7, ReadableIsText, MergeIsText DEF Spawn, Docs
  <2>2. view' = [s EXCEPT !.privileged = Privileged(s.privileged)]
    BY <1>7 DEF Spawn
  <2>3. view'.channels = s.channels
    BY <2>1, <2>2 DEF Text, Fields
  <2> QED
    BY <1>3, <1>7, <2>3 DEF Spawn, Registered, Begun
<1>8. CASE Reload
  BY <1>1, <1>3, <1>8 DEF Reload, Begun, ThreadTypes
<1>9. CASE Select
  <2>1. view.channels \in 0..2 /\ view' = view
    BY <1>9, ChannelsTyped DEF ThreadTypes, Select
  <2>2. index' \in 0..5 /\ tried' = {index' % (1 + view.channels)} /\ fails' = 0
    BY <1>9, <2>1 DEF Select, Begun, Length
  <2> QED
    BY <1>3, <2>1, <2>2
<1>10. CASE InferenceFails
  <2>1. Length \in {1, 2, 3} /\ Length' = Length /\ index \in 0..5 /\ fails \in Nat /\ alive
    BY <1>10, ChannelsTyped, SettingsAssumption DEF ThreadTypes, InferenceFails, Length
  <2>2. /\ index' = IF Length = 1 THEN index ELSE (index + 1) % 6
        /\ tried' = tried \cup {index' % Length} /\ fails' = fails + 1
    BY <1>10 DEF InferenceFails, Advance
  <2>3. CASE Length = 1
    BY <2>1, <2>2, <2>3, Remainders DEF Walked
  <2>4. CASE Length = 2
    BY <2>1, <2>2, <2>4, Remainders DEF Walked
  <2>5. CASE Length = 3
    <3>1. index' % 3 \in {0, 1, 2} \ {index % 3, (index + 2) % 3} /\ (index' + 2) % 3 = index % 3
      BY <2>1, <2>2, <2>5, Remainders
    <3>2. index % 3 \in {0, 1, 2} /\ (index + 2) % 3 \in {0, 1, 2} /\ index % 3 # (index + 2) % 3
      BY <2>1, Remainders
    <3>3. CASE fails = 0
      BY <2>1, <2>2, <2>5, <3>1, <3>3 DEF Walked
    <3>4. CASE fails = 1
      <4>1. tried' = {index % 3, (index + 2) % 3, index' % 3}
        BY <2>1, <2>2, <2>5, <3>4 DEF Walked
      <4>2. tried' = {0, 1, 2}
        BY <3>1, <3>2, <4>1
      <4> QED
        BY <2>1, <2>2, <2>5, <3>4, <4>2 DEF Walked
    <3>5. CASE fails > 1
      BY <2>1, <2>2, <2>5, <3>1, <3>5 DEF Walked
    <3> QED
      BY <2>1, <3>3, <3>4, <3>5
  <2> QED
    BY <2>1, <2>3, <2>4, <2>5
<1>11. CASE UNCHANGED vars
  BY <1>1, <1>11
<1> QED
  BY <1>4, <1>5, <1>6, <1>7, <1>8, <1>9, <1>10, <1>11 DEF Next, Turn, Updating

LEMMA CountOne == ASSUME NEW a PROVE Cardinality({a}) = 1 /\ IsFiniteSet({a})
BY FS_Singleton

LEMMA CountTwo == ASSUME NEW a, NEW b, a # b PROVE Cardinality({a, b}) = 2 /\ IsFiniteSet({a, b})
<1>1. b \notin {a}
  OBVIOUS
<1>2. IsFiniteSet({a}) /\ Cardinality({a}) = 1
  BY CountOne
<1>3. IsFiniteSet({a} \cup {b}) /\ Cardinality({a} \cup {b}) = Cardinality({a}) + 1
  BY <1>1, <1>2, FS_AddElement, Zenon
<1>4. {a, b} = {a} \cup {b}
  OBVIOUS
<1> QED
  BY <1>2, <1>3, <1>4

LEMMA CountThree == Cardinality({0, 1, 2}) = 3
<1>1. IsFiniteSet({0, 1}) /\ Cardinality({0, 1}) = 2
  BY 0 # 1, CountTwo, Zenon
<1>2. 2 \notin {0, 1}
  OBVIOUS
<1>3. Cardinality({0, 1} \cup {2}) = Cardinality({0, 1}) + 1
  BY <1>1, <1>2, FS_AddElement, Zenon
<1>4. {0, 1, 2} = {0, 1} \cup {2}
  OBVIOUS
<1> QED
  BY <1>1, <1>3, <1>4

LEMMA WalkedIsCounted == ThreadTypes /\ Walked => RotationTriesAll
<1> SUFFICES ASSUME ThreadTypes, Walked, alive
             PROVE  Cardinality(tried) = IF fails + 1 < Length THEN fails + 1 ELSE Length
  BY DEF RotationTriesAll
<1>1. Length \in {1, 2, 3} /\ index \in 0..5 /\ fails \in Nat
  BY ChannelsTyped, SettingsAssumption DEF ThreadTypes, Length
<1>2. CASE Length = 1
  <2>1. tried = {0} /\ Cardinality({0}) = 1
    BY <1>2, CountOne DEF Walked
  <2> QED
    BY <1>1, <1>2, <2>1
<1>3. CASE Length > 1 /\ fails = 0
  <2>1. tried = {index % Length}
    BY <1>1, <1>3 DEF Walked
  <2>2. Cardinality({index % Length}) = 1
    BY CountOne
  <2> QED
    BY <1>1, <1>3, <2>1, <2>2
<1>4. CASE Length = 2 /\ fails > 0
  <2>1. tried = {0, 1}
    BY <1>1, <1>4 DEF Walked
  <2>2. Cardinality({0, 1}) = 2
    BY 0 # 1, CountTwo, Zenon
  <2> QED
    BY <1>1, <1>4, <2>1, <2>2
<1>5. CASE Length = 3 /\ fails = 1
  <2>1. tried = {index % 3, (index + 2) % 3}
    BY <1>5 DEF Walked
  <2>2. index % 3 # (index + 2) % 3
    BY <1>1, Remainders
  <2>3. Cardinality({index % 3, (index + 2) % 3}) = 2
    BY <2>2, CountTwo
  <2> QED
    BY <1>5, <2>1, <2>3
<1>6. CASE Length = 3 /\ fails > 1
  <2>1. tried = {0, 1, 2} /\ Cardinality({0, 1, 2}) = 3
    BY <1>6, CountThree DEF Walked
  <2> QED
    BY <1>1, <1>6, <2>1
<1> QED
  BY <1>1, <1>2, <1>3, <1>4, <1>5, <1>6

---------------------------------------------------------------------------
LEMMA InitHolds == Init => DocsInv /\ ThreadTypes /\ Flags /\ ViewIsMerged /\ Walked
<1> SUFFICES ASSUME Init PROVE DocsInv /\ ThreadTypes /\ Flags /\ ViewIsMerged /\ Walked
  OBVIOUS
<1> USE DEF Init
<1>1. DocsInv
  <2>1. docs \in [Docs -> Text]
    BY SeedIsText DEF Docs
  <2> QED
    BY <2>1 DEF DocsInv, DocTypes, UpdatesSurvive, LoadedKept
<1>2. ThreadTypes
  BY SeedIsText, SettingsAssumption DEF ThreadTypes, Blank, Fields, Values, Length
<1>3. Flags /\ ViewIsMerged /\ Walked
  BY DEF Flags, ViewIsMerged, Walked
<1> QED
  BY <1>1, <1>2, <1>3

LEMMA Inductive == Spec => [](DocsInv /\ ThreadTypes /\ Flags /\ ViewIsMerged /\ Walked)
<1>1. DocsInv => DocTypes
  BY DEF DocsInv
<1> QED
  BY <1>1, InitHolds, DocsStep, ThreadStep, FlagsStep, ViewStep, WalkedStep, PTL DEF Spec

\* Type correctness of documents, writers and thread, through crashes and torn files.
THEOREM TypeCorrect == Spec => []TypeOK
<1>1. DocsInv /\ ThreadTypes /\ Flags => TypeOK
  BY DEF DocsInv, DocTypes, Requesting, ThreadTypes, Flags, TypeOK
<1> QED
  BY <1>1, Inductive, PTL

\* No update that was answered is lost but to one that had loaded before it wrote, however
\* many overlap: LoadedKept says what a writer that was not overtaken is about to write.
THEOREM AnsweredUpdatesSurvive == Spec => []UpdatesSurvive
<1>1. DocsInv => UpdatesSurvive
  BY DEF DocsInv
<1> QED
  BY <1>1, Inductive, PTL

\* A thread that has read both documents since they were written works with the two
\* merged, but for what the comment of ViewIsMerged excepts: limits and privileges the
\* instance leaves open, and host, which stays as it was when the thread began.
THEOREM ThreadWorksWithMerged == Spec => []ViewIsMerged
BY Inductive, PTL

\* n failures since the list or the selection changed have moved the thread over n + 1
\* channels, or over all there are, wherever the counter stood.
THEOREM FailoverTriesAll == Spec => []RotationTriesAll
BY WalkedIsCounted, Inductive, PTL
=============================================================================
