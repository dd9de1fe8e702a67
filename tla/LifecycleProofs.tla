-------------------------- MODULE LifecycleProofs --------------------------
(***************************************************************************)
(* Proofs about Lifecycle, for any set of instances and requests: what is  *)
(* deleted stays deleted, and cached handles are on what is there.         *)
(***************************************************************************)
EXTENDS Lifecycle, TLAPS

LoopState == [op : {"create", "spawn", "delete"}, inst : Instances, at : {"settings", "fill", "open", "chat", "memory"}]
Requesting == [op : Handlers, inst : Instances, at : {"chat", "memory", "dirs", "write", "blanked", "load", "fill"},
               on : 0..MaxGen, text : {"blank", "set"}, alone : BOOLEAN]

\* TypeOK in three parts.  A directory the loop works on was made once.
DiskTypes ==
  /\ dir \in [Instances -> Files]
  /\ gen \in [Instances -> 0..MaxGen]
  /\ cache \in [Instances -> [chat : 0..MaxGen, memory : 0..MaxGen]]
  /\ \A i \in Instances : Exists(i) => gen[i] > 0

Made == loop # Idle => gen[loop.inst] > 0

ActorTypes ==
  /\ loop \in {Idle} \cup LoopState
  /\ req \in [Requests -> {Idle} \cup Requesting]
  /\ task \in [Instances -> {"none", "alive", "over"}]

GhostTypes ==
  /\ broken \subseteq Instances
  /\ raced \subseteq deleted /\ deleted \subseteq Instances

\* Whoever could make a deleted directory anew: a request that had found it, or a creation.
Gone ==
  /\ \A i \in deleted : gen[i] > 0
  /\ loop # Idle /\ loop.at \in {"settings", "fill", "open"} => loop.inst \notin deleted
  /\ \A i \in deleted \ raced : dir[i] = "none" /\ OpenedBy(i) = {}

\* A directory that is made anew finds no handle on the one before, but while the
\* deletion has still to forget it.
ChatFresh(i) == cache[i].chat = 0 \/ (Exists(i) /\ cache[i].chat = gen[i])
MemoryFresh(i) == cache[i].memory = 0 \/ (Exists(i) /\ cache[i].memory = gen[i])

Fresh ==
  \A i \in Instances :
    /\ ChatFresh(i) \/ (Busy(i) /\ loop.at = "chat")
    /\ MemoryFresh(i) \/ (Busy(i) /\ loop.at \in {"chat", "memory"})

LEMMA LoopTyped == ASSUME ActorTypes, loop # Idle PROVE loop \in LoopState /\ loop.inst \in Instances
BY DEF ActorTypes, LoopState

LEMMA RequestTyped ==
  ASSUME ActorTypes, NEW r \in Requests, req[r] # Idle
  PROVE  req[r] \in Requesting /\ req[r].inst \in Instances
BY DEF ActorTypes, Requesting

LEMMA MakeDirsTyped ==
  ASSUME DiskTypes, NEW i \in Instances, MakeDirs(i)
  PROVE  /\ dir' \in [Instances -> Files] /\ gen' \in [Instances -> 0..MaxGen]
         /\ dir'[i] # "none" /\ gen'[i] > 0
         /\ \A j \in Instances : j # i => dir'[j] = dir[j] /\ gen'[j] = gen[j]
         /\ dir[i] # "none" => dir' = dir /\ gen' = gen
         /\ gen'[i] >= gen[i]
<1>1. CASE dir[i] # "none"
  BY <1>1 DEF MakeDirs, DiskTypes, Exists, disk
<1>2. CASE dir[i] = "none"
  <2>1. gen[i] \in 0..MaxGen /\ gen[i] < MaxGen /\ MaxGen \in Nat
    BY <1>2, LifecycleAssumption DEF MakeDirs, DiskTypes
  <2>2. gen[i] + 1 \in 0..MaxGen /\ gen[i] + 1 > 0
    BY <2>1
  <2> QED
    BY <1>2, <2>1, <2>2 DEF MakeDirs, DiskTypes, Files
<1> QED
  BY <1>1, <1>2

LEMMA GetConnectionTyped ==
  ASSUME DiskTypes, NEW i \in Instances, GetConnection(i)
  PROVE  /\ DiskTypes'
         /\ \A j \in Instances : j # i => dir'[j] = dir[j] /\ gen'[j] = gen[j] /\ cache'[j] = cache[j]
         /\ \/ UNCHANGED store
            \/ /\ cache[i].chat = 0 /\ MakeDirs(i)
               /\ cache' = [cache EXCEPT ![i].chat = gen'[i]]
<1>1. CASE cache[i].chat # 0
  BY <1>1 DEF GetConnection, DiskTypes, store, Exists
<1>2. CASE cache[i].chat = 0
  <2>1. MakeDirs(i) /\ cache' = [cache EXCEPT ![i].chat = gen'[i]]
    BY <1>2 DEF GetConnection
  <2>2. gen'[i] \in 0..MaxGen
    BY <2>1, MakeDirsTyped
  <2>3. cache' \in [Instances -> [chat : 0..MaxGen, memory : 0..MaxGen]]
    BY <2>1, <2>2 DEF DiskTypes
  <2> QED
    BY <1>2, <2>1, <2>3, MakeDirsTyped DEF DiskTypes, Exists
<1> QED
  BY <1>1, <1>2

LEMMA GetMemoryTyped ==
  ASSUME DiskTypes, ActorTypes, NEW r \in Requests, GetMemory(r)
  PROVE  LET i == req[r].inst IN
         /\ i \in Instances /\ DiskTypes'
         /\ \A j \in Instances : j # i => dir'[j] = dir[j] /\ gen'[j] = gen[j] /\ cache'[j] = cache[j]
         /\ \/ UNCHANGED store
            \/ /\ cache[i].memory = 0 /\ MakeDirs(i)
               /\ cache' = [cache EXCEPT ![i].memory = gen'[i]]
<1> DEFINE i == req[r].inst
<1>1. i \in Instances
  BY RequestTyped DEF GetMemory, At
<1>2. IF cache[i].memory # 0 THEN UNCHANGED store
      ELSE MakeDirs(i) /\ cache' = [cache EXCEPT ![i].memory = gen'[i]]
  BY DEF GetMemory
<1> HIDE DEF i
<1>3. CASE cache[i].memory # 0
  BY <1>1, <1>2, <1>3 DEF DiskTypes, store, Exists, i
<1>4. CASE cache[i].memory = 0
  <2>1. gen'[i] \in 0..MaxGen
    BY <1>1, <1>2, <1>4, MakeDirsTyped
  <2>2. cache' \in [Instances -> [chat : 0..MaxGen, memory : 0..MaxGen]]
    BY <1>1, <1>2, <1>4, <2>1 DEF DiskTypes
  <2> QED
    BY <1>1, <1>2, <1>4, <2>2, MakeDirsTyped DEF DiskTypes, Exists, i
<1> QED
  BY <1>3, <1>4

---------------------------------------------------------------------------
(* Types *)

LEMMA ZeroIsGen == 0 \in 0..MaxGen
BY LifecycleAssumption

\* A step that writes a file in a directory.
LEMMA FileTyped ==
  ASSUME DiskTypes, NEW i \in Instances, gen[i] > 0, NEW text \in Files,
         dir' = [dir EXCEPT ![i] = text], UNCHANGED <<gen, cache>>
  PROVE  DiskTypes'
BY DEF DiskTypes, Exists

LEMMA DiskStep == DiskTypes /\ Made /\ ActorTypes /\ [Next]_vars => DiskTypes'
<1> SUFFICES ASSUME DiskTypes, Made, ActorTypes, [Next]_vars PROVE DiskTypes'
  OBVIOUS
<1> USE ZeroIsGen
<1>1. CASE UNCHANGED store
  BY <1>1 DEF DiskTypes, store, Exists
<1>2. ASSUME NEW i \in Instances, WebCreates(i) \/ AgentCreates(i) PROVE DiskTypes'
  BY <1>2, MakeDirsTyped DEF WebCreates, AgentCreates, BeginCreate, DiskTypes, Exists
<1>3. CASE CreateTruncates \/ CreateFills
  <2>1. loop.inst \in Instances /\ gen[loop.inst] > 0
    BY <1>3, LoopTyped DEF CreateTruncates, CreateFills, Made
  <2>2. \E text \in Files : dir' = [dir EXCEPT ![loop.inst] = text]
    BY <1>3 DEF CreateTruncates, CreateFills, Files
  <2> QED
    BY <1>3, <2>1, <2>2, FileTyped DEF CreateTruncates, CreateFills
<1>4. CASE CreateOpens
  <2>1. gen[loop.inst] \in 0..MaxGen /\ loop.inst \in Instances
    BY <1>4, LoopTyped DEF CreateOpens, DiskTypes
  <2>2. cache' \in [Instances -> [chat : 0..MaxGen, memory : 0..MaxGen]]
    BY <1>4, <2>1 DEF CreateOpens, DiskTypes
  <2> QED
    BY <1>4, <2>2 DEF CreateOpens, DiskTypes, Exists, disk
<1>5. ASSUME NEW i \in Instances, BeginDelete(i) PROVE DiskTypes'
  BY <1>5 DEF BeginDelete, DiskTypes, Exists, Files
<1>6. CASE ForgetChat \/ ForgetMemory
  <2>1. cache' \in [Instances -> [chat : 0..MaxGen, memory : 0..MaxGen]]
    BY <1>6 DEF ForgetChat, ForgetMemory, DiskTypes
  <2> QED
    BY <1>6, <2>1 DEF ForgetChat, ForgetMemory, DiskTypes, Exists, disk
<1>7. CASE Crash
  BY <1>7 DEF Crash, DiskTypes, Exists, disk
<1>8. ASSUME NEW i \in Instances, Engine(i) \/ ThreadPanics(i) PROVE DiskTypes'
  BY <1>1, <1>8 DEF Engine, Retain, HotScan, ThreadEnds, ThreadPanics
<1>9. ASSUME NEW r \in Requests, NEW i \in Instances, Asking(r, i) PROVE DiskTypes'
  BY <1>1, <1>9 DEF Asking, GetInstance, UpdateSettings, BeginOpen, BeginList
<1>10. ASSUME NEW r \in Requests, Handling(r) PROVE DiskTypes'
  <2>1. CASE OpenChat(r) \/ CollectInstance(r)
    BY <2>1, RequestTyped, GetConnectionTyped DEF OpenChat, CollectInstance, At
  <2>2. CASE GetMemory(r)
    BY <2>2, GetMemoryTyped
  <2>3. CASE EnsureDirs(r)
    BY <2>3, RequestTyped, MakeDirsTyped DEF EnsureDirs, At, DiskTypes, Exists
  <2>4. CASE OpenFails(r)
    BY <1>1, <2>4 DEF OpenFails
  <2>5. ASSUME WriteDefault(r) \/ LoadAndSave(r) PROVE DiskTypes'
    <3>1. req[r].inst \in Instances /\ Exists(req[r].inst)
      BY <2>5, RequestTyped DEF WriteDefault, LoadAndSave, At, Exists
    <3>2. dir' = [dir EXCEPT ![req[r].inst] = "torn"] /\ UNCHANGED <<gen, cache>>
      BY <2>5 DEF WriteDefault, LoadAndSave, Truncate
    <3> QED
      BY <3>1, <3>2, FileTyped DEF DiskTypes, Files
  <2>6. CASE Fill(r)
    <3>1. req[r].inst \in Instances /\ req[r].text \in Files
      BY <2>6, RequestTyped DEF Fill, At, Requesting, Files
    <3>2. /\ UNCHANGED <<gen, cache>>
          /\ \/ Exists(req[r].inst) /\ dir' = [dir EXCEPT ![req[r].inst] = req[r].text]
             \/ Exists(req[r].inst) /\ dir' = [dir EXCEPT ![req[r].inst] = "torn"]
             \/ dir' = dir
      BY <2>6 DEF Fill
    <3> QED
      BY <1>1, <3>1, <3>2, FileTyped DEF DiskTypes, Files, store
  <2> QED
    BY <1>10, <2>1, <2>2, <2>3, <2>4, <2>5, <2>6 DEF Handling
<1>11. CASE UNCHANGED vars
  BY <1>1, <1>11 DEF vars, store
<1> QED
  BY <1>2, <1>3, <1>4, <1>5, <1>6, <1>7, <1>8, <1>9, <1>10, <1>11 DEF Next, Creating, Deleting

\* Directories are never made less often.
LEMMA GenGrows ==
  ASSUME DiskTypes, Made, ActorTypes, [Next]_vars
  PROVE  \A i \in Instances : gen'[i] >= gen[i]
<1> USE DEF DiskTypes
<1>0. \A i \in Instances : gen[i] \in Nat
  BY LifecycleAssumption
<1>1. CASE UNCHANGED gen
  BY <1>0, <1>1
<1>2. ASSUME NEW i \in Instances, MakeDirs(i) PROVE \A j \in Instances : gen'[j] >= gen[j]
  BY <1>0, <1>2, MakeDirsTyped
<1>3. CASE Creating
  BY <1>1, <1>2, <1>3 DEF Creating, WebCreates, AgentCreates, BeginCreate, CreateTruncates, CreateFills, CreateOpens, disk
<1>4. CASE Deleting \/ Crash
  BY <1>1, <1>4 DEF Deleting, BeginDelete, ForgetChat, ForgetMemory, Crash, disk
<1>5. ASSUME NEW i \in Instances, Engine(i) \/ ThreadPanics(i) PROVE UNCHANGED gen
  BY <1>5 DEF Engine, Retain, HotScan, ThreadEnds, ThreadPanics, store
<1>6. ASSUME NEW r \in Requests, NEW i \in Instances, Asking(r, i) PROVE UNCHANGED gen
  BY <1>6 DEF Asking, GetInstance, UpdateSettings, BeginOpen, BeginList, store
<1>7. ASSUME NEW r \in Requests, Handling(r) PROVE \A j \in Instances : gen'[j] >= gen[j]
  <2>1. CASE OpenFails(r) \/ WriteDefault(r) \/ LoadAndSave(r) \/ Fill(r)
    BY <1>1, <2>1 DEF OpenFails, WriteDefault, LoadAndSave, Fill, store
  <2>2. CASE OpenChat(r) \/ CollectInstance(r) \/ GetMemory(r) \/ EnsureDirs(r)
    <3>1. req[r].inst \in Instances
      BY <2>2, RequestTyped DEF OpenChat, CollectInstance, GetMemory, EnsureDirs, At
    <3>2. MakeDirs(req[r].inst) \/ UNCHANGED gen
      BY <2>2 DEF OpenChat, CollectInstance, GetMemory, EnsureDirs, GetConnection, store
    <3> QED
      BY <1>1, <1>2, <3>1, <3>2
  <2> QED
    BY <1>7, <2>1, <2>2 DEF Handling
<1>8. CASE UNCHANGED vars
  BY <1>1, <1>8 DEF vars
<1> QED
  BY <1>1, <1>3, <1>4, <1>5, <1>6, <1>7, <1>8 DEF Next

LEMMA MadeStep == DiskTypes /\ Made /\ ActorTypes /\ [Next]_vars => Made'
<1> SUFFICES ASSUME DiskTypes, Made, ActorTypes, [Next]_vars, loop' # Idle PROVE gen'[loop'.inst] > 0
  BY DEF Made
<1>1. CASE loop # Idle /\ loop'.inst = loop.inst
  <2>1. loop.inst \in Instances /\ gen[loop.inst] > 0 /\ gen'[loop.inst] >= gen[loop.inst]
    BY <1>1, LoopTyped, GenGrows DEF Made
  <2>2. gen[loop.inst] \in Nat /\ gen'[loop.inst] \in Nat
    BY <2>1, DiskStep, LifecycleAssumption DEF DiskTypes
  <2> QED
    BY <1>1, <2>1, <2>2
<1>2. CASE UNCHANGED loop
  BY <1>1, <1>2
<1>3. ASSUME NEW i \in Instances, WebCreates(i) \/ AgentCreates(i) PROVE gen'[loop'.inst] > 0
  BY <1>3, MakeDirsTyped DEF WebCreates, AgentCreates, BeginCreate
<1>4. ASSUME NEW i \in Instances, BeginDelete(i) PROVE gen'[loop'.inst] > 0
  BY <1>4 DEF BeginDelete, DiskTypes, Exists
<1>5. CASE CreateTruncates \/ CreateFills \/ CreateOpens \/ ForgetChat \/ ForgetMemory
  BY <1>1, <1>5, LoopTyped DEF CreateTruncates, CreateFills, CreateOpens, ForgetChat, ForgetMemory, LoopState
<1>6. CASE Crash
  BY <1>6 DEF Crash
<1>7. ASSUME NEW i \in Instances, Engine(i) \/ ThreadPanics(i) PROVE UNCHANGED loop
  BY <1>7 DEF Engine, Retain, HotScan, ThreadEnds, ThreadPanics
<1>8. ASSUME NEW r \in Requests, NEW i \in Instances, Asking(r, i) PROVE UNCHANGED loop
  BY <1>8 DEF Asking, GetInstance, UpdateSettings, BeginOpen, BeginList, engine
<1>9. ASSUME NEW r \in Requests, Handling(r) PROVE UNCHANGED loop
  BY <1>9 DEF Handling, OpenChat, CollectInstance, GetMemory, EnsureDirs, OpenFails, WriteDefault, LoadAndSave,
    Fill, engine
<1>10. CASE UNCHANGED vars
  BY <1>2, <1>10 DEF vars
<1> QED
  BY <1>2, <1>3, <1>4, <1>5, <1>6, <1>7, <1>8, <1>9, <1>10 DEF Next, Creating, Deleting

\* A request goes on, or ends.
LEMMA GoesOn ==
  ASSUME ActorTypes, NEW r \in Requests, UNCHANGED <<loop, task>>,
         \/ req' = [req EXCEPT ![r] = Idle]
         \/ req[r] # Idle /\ \E pc \in {"chat", "memory", "dirs", "write", "blanked", "load", "fill"} : Goto(r, pc)
  PROVE  ActorTypes'
<1>1. CASE req' = [req EXCEPT ![r] = Idle]
  BY <1>1 DEF ActorTypes
<1>2. ASSUME req[r] # Idle, NEW pc \in {"chat", "memory", "dirs", "write", "blanked", "load", "fill"}, Goto(r, pc)
      PROVE  ActorTypes'
  <2>1. [req[r] EXCEPT !.at = pc] \in Requesting
    BY <1>2, RequestTyped DEF Requesting
  <2>2. req' = [req EXCEPT ![r] = [req[r] EXCEPT !.at = pc]]
    BY <1>2 DEF Goto
  <2> QED
    BY <2>1, <2>2 DEF ActorTypes
<1> QED
  BY <1>1, <1>2

LEMMA TruncateTyped ==
  ASSUME DiskTypes, ActorTypes, NEW r \in Requests, req[r] # Idle, NEW pc \in {"blanked", "fill"},
         NEW text \in {"blank", "set"}, Truncate(r, pc, text)
  PROVE  /\ req' \in [Requests -> {Idle} \cup Requesting]
         /\ \A s \in Requests : /\ req'[s] = Idle <=> req[s] = Idle
                                /\ req[s] # Idle => req'[s].inst = req[s].inst
<1> DEFINE i == req[r].inst
           alone == Writing(i) = {}
<1>1. req' = [s \in Requests |->
        IF s = r THEN [req[r] EXCEPT !.at = pc, !.on = gen[i], !.text = text, !.alone = alone]
        ELSE IF s \in Writing(i) THEN [req[s] EXCEPT !.alone = FALSE] ELSE req[s]]
  BY DEF Truncate
<1>2. req[r] \in Requesting /\ i \in Instances /\ gen[i] \in 0..MaxGen /\ alone \in BOOLEAN
  BY RequestTyped DEF DiskTypes
<1> HIDE DEF alone
<1>3. /\ [req[r] EXCEPT !.at = pc, !.on = gen[i], !.text = text, !.alone = alone] \in Requesting
      /\ [req[r] EXCEPT !.at = pc, !.on = gen[i], !.text = text, !.alone = alone].inst = req[r].inst
  BY <1>2 DEF Requesting
<1>4. \A s \in Writing(i) : /\ [req[s] EXCEPT !.alone = FALSE] \in Requesting
                            /\ [req[s] EXCEPT !.alone = FALSE].inst = req[s].inst
                            /\ s \in Requests /\ req[s] # Idle
  BY RequestTyped DEF Writing, OpenedBy, Requesting
<1>5. Idle \notin Requesting
  BY DEF Idle, Requesting
<1> HIDE DEF i
<1>6. \A s \in Requests : req'[s] \in {Idle} \cup Requesting
  BY <1>1, <1>3, <1>4 DEF ActorTypes
<1>7. \A s \in Requests : /\ req'[s] = Idle <=> req[s] = Idle
                          /\ req[s] # Idle => req'[s].inst = req[s].inst
  BY <1>1, <1>3, <1>4, <1>5
<1> QED
  BY <1>1, <1>6, <1>7

LEMMA ActorStep == DiskTypes /\ ActorTypes /\ [Next]_vars => ActorTypes'
<1> SUFFICES ASSUME DiskTypes, ActorTypes, [Next]_vars PROVE ActorTypes'
  OBVIOUS
<1>1. CASE UNCHANGED <<loop, req, task>>
  BY <1>1 DEF ActorTypes
<1>2. ASSUME NEW i \in Instances, WebCreates(i) \/ AgentCreates(i) \/ BeginDelete(i) PROVE ActorTypes'
  BY <1>2 DEF WebCreates, AgentCreates, BeginCreate, BeginDelete, ActorTypes, LoopState
<1>3. CASE CreateTruncates \/ CreateFills \/ CreateOpens \/ ForgetChat \/ ForgetMemory
  <2>1. /\ loop # Idle /\ UNCHANGED <<req, task>>
        /\ loop' = Idle \/ loop' = [loop EXCEPT !.at = "fill"] \/ loop' = [loop EXCEPT !.at = "open"]
             \/ loop' = [loop EXCEPT !.at = "memory"]
    BY <1>3 DEF CreateTruncates, CreateFills, CreateOpens, ForgetChat, ForgetMemory
  <2>2. loop \in LoopState
    BY <2>1, LoopTyped
  <2>3. loop' \in {Idle} \cup LoopState
    BY <2>1, <2>2 DEF LoopState
  <2> QED
    BY <2>1, <2>3 DEF ActorTypes
<1>4. CASE Crash
  BY <1>4 DEF Crash, ActorTypes
<1>5. ASSUME NEW i \in Instances, Engine(i) \/ ThreadPanics(i) PROVE ActorTypes'
  BY <1>5 DEF Engine, Retain, HotScan, ThreadEnds, ThreadPanics, ActorTypes
<1>6. ASSUME NEW r \in Requests, NEW i \in Instances, Asking(r, i) PROVE ActorTypes'
  <2>1. \A op \in Handlers : Asks(op, i) \in Requesting
    BY LifecycleAssumption DEF Asks, Requesting
  <2>2. \E op \in Handlers : req' = [req EXCEPT ![r] = Asks(op, i)]
    BY <1>6 DEF Asking, GetInstance, UpdateSettings, BeginOpen, BeginList, Handlers
  <2> QED
    BY <1>6, <2>1, <2>2 DEF Asking, GetInstance, UpdateSettings, BeginOpen, BeginList, engine, ActorTypes
<1>7. ASSUME NEW r \in Requests, Handling(r) PROVE ActorTypes'
  <2>1. UNCHANGED <<loop, task>>
    BY <1>7 DEF Handling, OpenChat, CollectInstance, GetMemory, EnsureDirs, OpenFails, WriteDefault, LoadAndSave,
      Fill, engine
  <2>2. CASE OpenChat(r) \/ CollectInstance(r) \/ GetMemory(r) \/ EnsureDirs(r) \/ OpenFails(r)
    BY <2>1, <2>2, GoesOn DEF OpenChat, CollectInstance, GetMemory, EnsureDirs, OpenFails, At
  <2>3. CASE WriteDefault(r)
    BY <2>1, <2>3, TruncateTyped DEF WriteDefault, At, ActorTypes
  <2>4. CASE LoadAndSave(r)
    BY <2>1, <2>4, TruncateTyped DEF LoadAndSave, At, ActorTypes
  <2>5. CASE Fill(r)
    BY <2>1, <2>5, GoesOn DEF Fill, At, Goto
  <2> QED
    BY <1>7, <2>2, <2>3, <2>4, <2>5 DEF Handling
<1>8. CASE UNCHANGED vars
  BY <1>1, <1>8 DEF vars
<1> QED
  BY <1>2, <1>3, <1>4, <1>5, <1>6, <1>7, <1>8 DEF Next, Creating, Deleting

LEMMA GhostStep == DiskTypes /\ ActorTypes /\ GhostTypes /\ [Next]_vars => GhostTypes'
<1> SUFFICES ASSUME DiskTypes, ActorTypes, GhostTypes, [Next]_vars PROVE GhostTypes'
  OBVIOUS
<1> USE DEF GhostTypes
<1>1. CASE UNCHANGED ghosts
  BY <1>1 DEF ghosts
<1>2. CASE Creating \/ ForgetChat \/ ForgetMemory
  BY <1>1, <1>2 DEF Creating, WebCreates, AgentCreates, BeginCreate, CreateTruncates, CreateFills, CreateOpens,
    ForgetChat, ForgetMemory
<1>3. ASSUME NEW i \in Instances, BeginDelete(i) PROVE GhostTypes'
  BY <1>3 DEF BeginDelete
<1>4. CASE Crash
  BY <1>4 DEF Crash
<1>5. ASSUME NEW i \in Instances, Engine(i) \/ ThreadPanics(i) PROVE GhostTypes'
  BY <1>1, <1>5 DEF Engine, Retain, HotScan, ThreadEnds, ThreadPanics
<1>6. ASSUME NEW r \in Requests, NEW i \in Instances, Asking(r, i) PROVE GhostTypes'
  BY <1>1, <1>6 DEF Asking, GetInstance, UpdateSettings, BeginOpen, BeginList
<1>7. ASSUME NEW r \in Requests, Handling(r) PROVE GhostTypes'
  <2>1. CASE Fill(r)
    BY <2>1, RequestTyped DEF Fill, At
  <2> QED
    BY <1>1, <1>7, <2>1 DEF Handling, OpenChat, CollectInstance, GetMemory, EnsureDirs, OpenFails, WriteDefault,
      LoadAndSave
<1>8. CASE UNCHANGED vars
  BY <1>1, <1>8 DEF vars, ghosts
<1> QED
  BY <1>2, <1>3, <1>4, <1>5, <1>6, <1>7, <1>8 DEF Next, Deleting

---------------------------------------------------------------------------
(* What is deleted *)

\* A step that does not begin a deletion keeps what is gone gone, if it leaves alone the
\* directories and the requests of instances that are.
LEMMA GoneKept ==
  ASSUME DiskTypes, Made, ActorTypes, GhostTypes, Gone, [Next]_vars, UNCHANGED <<deleted, raced>>,
         loop' # Idle /\ loop'.at \in {"settings", "fill", "open"} => loop'.inst \notin deleted,
         \A i \in deleted \ raced : dir'[i] = dir[i],
         \A i \in deleted \ raced, r \in Requests : req'[r] # Idle /\ req'[r].inst = i => req[r] # Idle /\ req[r].inst = i
  PROVE  Gone'
<1>1. \A i \in deleted : gen'[i] > 0
  <2> SUFFICES ASSUME NEW i \in deleted PROVE gen'[i] > 0
    OBVIOUS
  <2>1. i \in Instances /\ gen[i] > 0 /\ gen'[i] >= gen[i]
    BY GenGrows DEF Gone, GhostTypes
  <2>2. gen[i] \in Nat /\ gen'[i] \in Nat
    BY <2>1, DiskStep, LifecycleAssumption DEF DiskTypes
  <2> QED
    BY <2>1, <2>2
<1>2. \A i \in deleted \ raced : OpenedBy(i)' = {}
  BY DEF Gone, OpenedBy
<1> QED
  BY <1>1, <1>2 DEF Gone

LEMMA GoneStep == DiskTypes /\ Made /\ ActorTypes /\ GhostTypes /\ Gone /\ [Next]_vars => Gone'
<1> SUFFICES ASSUME DiskTypes, Made, ActorTypes, GhostTypes, Gone, [Next]_vars PROVE Gone'
  OBVIOUS
<1>1. CASE UNCHANGED <<dir, loop, req, deleted, raced>>
  BY <1>1, GoneKept DEF Gone
<1>2. ASSUME NEW i \in Instances, WebCreates(i) \/ AgentCreates(i) PROVE Gone'
  <2>1. /\ gen[i] = 0 /\ MakeDirs(i) /\ loop'.inst = i /\ UNCHANGED <<req, deleted, raced>>
    BY <1>2 DEF WebCreates, AgentCreates, BeginCreate, ghosts
  <2>2. i \notin deleted
    BY <2>1 DEF Gone
  <2>3. \A j \in deleted \ raced : dir'[j] = dir[j]
    BY <2>1, <2>2, MakeDirsTyped DEF GhostTypes
  <2> QED
    BY <2>1, <2>2, <2>3, GoneKept
<1>3. CASE CreateTruncates \/ CreateFills
  <2>1. /\ loop # Idle /\ loop.inst \notin deleted /\ loop.inst \in Instances /\ loop'.inst = loop.inst
        /\ UNCHANGED <<req, deleted, raced>>
    BY <1>3, LoopTyped DEF CreateTruncates, CreateFills, Gone, ghosts, LoopState
  <2>2. \A j \in deleted \ raced : dir'[j] = dir[j]
    BY <1>3, <2>1 DEF CreateTruncates, CreateFills, GhostTypes, DiskTypes
  <2> QED
    BY <2>1, <2>2, GoneKept
<1>4. CASE CreateOpens \/ ForgetChat \/ ForgetMemory
  <2>1. loop' # Idle => loop'.at = "memory"
    BY <1>4, LoopTyped DEF CreateOpens, ForgetChat, ForgetMemory, LoopState
  <2> QED
    BY <1>4, <2>1, GoneKept DEF CreateOpens, ForgetChat, ForgetMemory, disk, ghosts
<1>5. ASSUME NEW i \in Instances, BeginDelete(i) PROVE Gone'
  <2>1. /\ dir[i] # "none" /\ dir' = [dir EXCEPT ![i] = "none"] /\ loop'.at = "chat"
        /\ deleted' = deleted \cup {i} /\ gen' = gen /\ req' = req
        /\ raced' = IF OpenedBy(i) = {} THEN raced \ {i} ELSE raced \cup {i}
    BY <1>5 DEF BeginDelete
  <2>2. gen[i] > 0
    BY <2>1 DEF DiskTypes, Exists
  <2>3. \A j \in deleted' : gen'[j] > 0
    BY <2>1, <2>2 DEF Gone
  <2>4. \A j \in deleted' \ raced' : dir'[j] = "none" /\ OpenedBy(j) = {}
    BY <2>1 DEF Gone, GhostTypes, DiskTypes
  <2>5. \A j : OpenedBy(j)' = OpenedBy(j)
    BY <2>1 DEF OpenedBy
  <2> QED
    BY <2>1, <2>3, <2>4, <2>5 DEF Gone
<1>6. CASE Crash
  BY <1>6, GoneKept DEF Crash, disk
<1>7. ASSUME NEW i \in Instances, Engine(i) \/ ThreadPanics(i) PROVE Gone'
  BY <1>1, <1>7 DEF Engine, Retain, HotScan, ThreadEnds, ThreadPanics, store, ghosts
<1>8. ASSUME NEW r \in Requests, NEW i \in Instances, Asking(r, i) PROVE Gone'
  <2>1. /\ dir[i] # "none" /\ UNCHANGED <<dir, loop, deleted, raced>>
        /\ \E op \in Handlers : req' = [req EXCEPT ![r] = Asks(op, i)]
    BY <1>8 DEF Asking, GetInstance, UpdateSettings, BeginOpen, BeginList, Exists, Listed, store, engine, ghosts,
      Handlers
  <2>2. i \notin deleted \ raced
    BY <2>1 DEF Gone
  <2>3. \A s \in Requests : req'[s] = req[s] \/ req'[s].inst = i
    BY <2>1 DEF ActorTypes, Asks
  <2> QED
    BY <2>1, <2>2, <2>3, GoneKept DEF Gone
<1>9. ASSUME NEW r \in Requests, Handling(r) PROVE Gone'
  <2> DEFINE i == req[r].inst
  <2>1. req[r] # Idle /\ i \in Instances
    BY <1>9, RequestTyped DEF Handling, OpenChat, CollectInstance, GetMemory, EnsureDirs, OpenFails, WriteDefault,
      LoadAndSave, Fill, At
  <2>2. i \notin deleted \ raced
    BY <2>1 DEF Gone, OpenedBy
  <2>3. UNCHANGED <<loop, deleted, raced>>
    BY <1>9 DEF Handling, OpenChat, CollectInstance, GetMemory, EnsureDirs, OpenFails, WriteDefault, LoadAndSave,
      Fill, engine, ghosts
  <2>4. \A j \in Instances \ {i} : dir'[j] = dir[j]
    <3>1. CASE OpenChat(r) \/ CollectInstance(r)
      BY <2>1, <3>1, GetConnectionTyped DEF OpenChat, CollectInstance
    <3>2. CASE GetMemory(r)
      BY <3>2, GetMemoryTyped
    <3>3. CASE EnsureDirs(r)
      BY <2>1, <3>3, MakeDirsTyped DEF EnsureDirs
    <3>4. CASE OpenFails(r)
      BY <3>4 DEF OpenFails, store
    <3>5. CASE WriteDefault(r) \/ LoadAndSave(r)
      BY <3>5 DEF WriteDefault, LoadAndSave, Truncate, DiskTypes
    <3>6. CASE Fill(r)
      BY <3>6 DEF Fill, DiskTypes
    <3> QED
      BY <1>9, <3>1, <3>2, <3>3, <3>4, <3>5, <3>6 DEF Handling
  <2>5. \A s \in Requests : req'[s] # Idle => req[s] # Idle /\ req'[s].inst = req[s].inst
    <3>1. CASE WriteDefault(r)
      BY <2>1, <3>1, TruncateTyped DEF WriteDefault
    <3>2. CASE LoadAndSave(r)
      BY <2>1, <3>2, TruncateTyped DEF LoadAndSave
    <3>3. CASE OpenChat(r) \/ CollectInstance(r) \/ GetMemory(r) \/ EnsureDirs(r) \/ OpenFails(r) \/ Fill(r)
      <4>1. \A s \in Requests \ {r} : req'[s] = req[s]
        BY <3>3 DEF OpenChat, CollectInstance, GetMemory, EnsureDirs, OpenFails, Fill, Goto, ActorTypes
      <4>2. req'[r] = Idle \/ \E pc \in {"memory", "dirs", "write", "load"} : req'[r] = [req[r] EXCEPT !.at = pc]
        BY <3>3 DEF OpenChat, CollectInstance, GetMemory, EnsureDirs, OpenFails, Fill, Goto, ActorTypes
      <4>3. \A pc : [req[r] EXCEPT !.at = pc].inst = i
        BY <2>1, RequestTyped DEF Requesting
      <4> QED
        BY <2>1, <4>1, <4>2, <4>3
    <3> QED
      BY <1>9, <3>1, <3>2, <3>3 DEF Handling
  <2>6. loop # Idle /\ loop.at \in {"settings", "fill", "open"} => loop.inst \notin deleted
    BY DEF Gone
  <2> HIDE DEF i
  <2>7. \A j \in deleted \ raced : dir'[j] = dir[j]
    BY <2>2, <2>4 DEF GhostTypes
  <2> QED
    BY <2>3, <2>5, <2>6, <2>7, GoneKept
<1>10. CASE UNCHANGED vars
  BY <1>1, <1>10 DEF vars
<1> QED
  BY <1>2, <1>3, <1>4, <1>5, <1>6, <1>7, <1>8, <1>9, <1>10 DEF Next, Creating, Deleting

---------------------------------------------------------------------------
(* What is cached *)

\* A directory in the making is there: only the loop itself deletes.
Standing == loop # Idle /\ loop.at \in {"settings", "fill", "open"} => Exists(loop.inst)

\* What a request does leaves every directory that was there where it is.
LEMMA RequestsDeleteNothing ==
  ASSUME DiskTypes, ActorTypes, NEW r \in Requests, Handling(r)
  PROVE  \A i \in Instances : Exists(i) => Exists(i)'
<1>1. req[r] # Idle /\ req[r].inst \in Instances
  BY RequestTyped DEF Handling, OpenChat, CollectInstance, GetMemory, EnsureDirs, OpenFails, WriteDefault,
    LoadAndSave, Fill, At
<1>2. ASSUME NEW i \in Instances, MakeDirs(i) PROVE \A j \in Instances : Exists(j) => Exists(j)'
  BY <1>2, MakeDirsTyped DEF Exists
<1>3. CASE OpenChat(r) \/ CollectInstance(r) \/ GetMemory(r) \/ EnsureDirs(r)
  <2>1. MakeDirs(req[r].inst) \/ UNCHANGED dir
    BY <1>3 DEF OpenChat, CollectInstance, GetMemory, EnsureDirs, GetConnection, store
  <2> QED
    BY <1>1, <1>2, <2>1 DEF Exists
<1>4. CASE OpenFails(r)
  BY <1>4 DEF OpenFails, store, Exists
<1>5. CASE WriteDefault(r) \/ LoadAndSave(r)
  BY <1>5 DEF WriteDefault, LoadAndSave, Truncate, DiskTypes, Exists
<1>6. CASE Fill(r)
  <2>1. req[r].text \in {"blank", "set"}
    BY <1>1, RequestTyped DEF Requesting
  <2> QED
    BY <1>6, <2>1 DEF Fill, DiskTypes, Exists
<1> QED
  BY <1>3, <1>4, <1>5, <1>6 DEF Handling

LEMMA StandingStep == DiskTypes /\ ActorTypes /\ Standing /\ [Next]_vars => Standing'
<1> SUFFICES ASSUME DiskTypes, ActorTypes, Standing, [Next]_vars PROVE Standing'
  OBVIOUS
<1>1. CASE UNCHANGED <<dir, loop>>
  BY <1>1 DEF Standing, Exists
<1>2. ASSUME NEW i \in Instances, WebCreates(i) \/ AgentCreates(i) PROVE Standing'
  BY <1>2, MakeDirsTyped DEF WebCreates, AgentCreates, BeginCreate, Standing, Exists
<1>3. CASE CreateTruncates \/ CreateFills
  <2>1. loop' = [loop EXCEPT !.at = "fill"] \/ loop' = [loop EXCEPT !.at = "open"]
    BY <1>3 DEF CreateTruncates, CreateFills
  <2>2. loop \in LoopState /\ loop.inst \in Instances
    BY <1>3, LoopTyped DEF CreateTruncates, CreateFills
  <2>3. loop'.inst = loop.inst
    BY <2>1, <2>2 DEF LoopState
  <2>4. \E text \in {"torn", "blank", "set"} : dir' = [dir EXCEPT ![loop.inst] = text]
    BY <1>3 DEF CreateTruncates, CreateFills
  <2>5. dir'[loop.inst] # "none"
    BY <2>2, <2>4 DEF DiskTypes
  <2> QED
    BY <2>3, <2>5 DEF Standing, Exists
<1>4. CASE CreateOpens \/ ForgetChat \/ ForgetMemory
  <2>1. loop' = Idle \/ loop' = [loop EXCEPT !.at = "memory"]
    BY <1>4 DEF CreateOpens, ForgetChat, ForgetMemory
  <2>2. loop \in LoopState
    BY <1>4, LoopTyped DEF CreateOpens, ForgetChat, ForgetMemory
  <2>3. loop' # Idle => loop'.at = "memory"
    BY <2>1, <2>2 DEF LoopState
  <2> QED
    BY <2>3 DEF Standing
<1>5. ASSUME NEW i \in Instances, BeginDelete(i) PROVE Standing'
  BY <1>5 DEF BeginDelete, Standing
<1>6. CASE Crash
  BY <1>6 DEF Crash, Standing
<1>7. ASSUME NEW i \in Instances, Engine(i) \/ ThreadPanics(i) PROVE Standing'
  BY <1>1, <1>7 DEF Engine, Retain, HotScan, ThreadEnds, ThreadPanics, store
<1>8. ASSUME NEW r \in Requests, NEW i \in Instances, Asking(r, i) PROVE Standing'
  BY <1>1, <1>8 DEF Asking, GetInstance, UpdateSettings, BeginOpen, BeginList, store, engine
<1>9. ASSUME NEW r \in Requests, Handling(r) PROVE Standing'
  <2>1. UNCHANGED loop
    BY <1>9 DEF Handling, OpenChat, CollectInstance, GetMemory, EnsureDirs, OpenFails, WriteDefault, LoadAndSave,
      Fill, engine
  <2>2. \A i \in Instances : Exists(i) => Exists(i)'
    BY <1>9, RequestsDeleteNothing
  <2>3. loop # Idle => loop.inst \in Instances
    BY LoopTyped
  <2> QED
    BY <2>1, <2>2, <2>3 DEF Standing, Exists
<1>10. CASE UNCHANGED vars
  BY <1>1, <1>10 DEF vars
<1> QED
  BY <1>2, <1>3, <1>4, <1>5, <1>6, <1>7, <1>8, <1>9, <1>10 DEF Next, Creating, Deleting

\* The deletion that has not forgotten yet goes on not having forgotten.
SameDeletion ==
  \A i \in Instances :
    /\ Busy(i) /\ loop.at = "chat" => (Busy(i) /\ loop.at = "chat")'
    /\ Busy(i) /\ loop.at \in {"chat", "memory"} => (Busy(i) /\ loop.at \in {"chat", "memory"})'

LEMMA FreshKept ==
  ASSUME Fresh, UNCHANGED <<gen, cache>>, SameDeletion, \A i \in Instances : Exists(i) => Exists(i)'
  PROVE  Fresh'
BY DEF Fresh, ChatFresh, MemoryFresh, SameDeletion

\* A directory made anew: its handles were forgotten, or the deletion is not done.
LEMMA FreshMade ==
  ASSUME DiskTypes, Fresh, NEW i \in Instances, MakeDirs(i), SameDeletion,
         \A j \in Instances : cache'[j] = cache[j]
  PROVE  Fresh'
<1>1. \A j \in Instances : j # i => Exists(j)' = Exists(j) /\ gen'[j] = gen[j]
  BY MakeDirsTyped DEF Exists
<1>2. Exists(i)' /\ (Exists(i) => gen'[i] = gen[i])
  BY MakeDirsTyped DEF Exists
<1>3. \A j \in Instances : ChatFresh(j) => ChatFresh(j)'
  BY <1>1, <1>2 DEF ChatFresh
<1>4. \A j \in Instances : MemoryFresh(j) => MemoryFresh(j)'
  BY <1>1, <1>2 DEF MemoryFresh
<1> QED
  BY <1>3, <1>4 DEF Fresh, SameDeletion

\* The handle a request takes is one on what is there.
LEMMA FreshTaken ==
  ASSUME DiskTypes, Fresh, NEW i \in Instances, MakeDirs(i), SameDeletion, gen'[i] \in 0..MaxGen,
         \/ cache' = [cache EXCEPT ![i].chat = gen'[i]]
         \/ cache' = [cache EXCEPT ![i].memory = gen'[i]]
  PROVE  Fresh'
<1>1. \A j \in Instances : j # i => Exists(j)' = Exists(j) /\ gen'[j] = gen[j] /\ cache'[j] = cache[j]
  BY MakeDirsTyped DEF Exists, DiskTypes
<1>2. Exists(i)' /\ (Exists(i) => gen'[i] = gen[i])
  BY MakeDirsTyped DEF Exists
<1>3. /\ cache'[i].chat = gen'[i] \/ cache'[i].chat = cache[i].chat
      /\ cache'[i].memory = gen'[i] \/ cache'[i].memory = cache[i].memory
  BY DEF DiskTypes
<1>4. \A j \in Instances : ChatFresh(j) => ChatFresh(j)'
  BY <1>1, <1>2, <1>3 DEF ChatFresh
<1>5. \A j \in Instances : MemoryFresh(j) => MemoryFresh(j)'
  BY <1>1, <1>2, <1>3 DEF MemoryFresh
<1> QED
  BY <1>4, <1>5 DEF Fresh, SameDeletion

LEMMA FreshStep == DiskTypes /\ ActorTypes /\ Standing /\ Fresh /\ [Next]_vars => Fresh'
<1> SUFFICES ASSUME DiskTypes, ActorTypes, Standing, Fresh, [Next]_vars PROVE Fresh'
  OBVIOUS
<1>0. ASSUME UNCHANGED loop PROVE SameDeletion
  BY <1>0 DEF SameDeletion, Busy
<1>1. CASE UNCHANGED <<store, loop>>
  BY <1>0, <1>1, FreshKept DEF store, Exists
<1>2. ASSUME NEW i \in Instances, WebCreates(i) \/ AgentCreates(i) PROVE Fresh'
  <2>1. loop = Idle /\ MakeDirs(i) /\ UNCHANGED cache
    BY <1>2 DEF WebCreates, AgentCreates, BeginCreate
  <2>2. SameDeletion
    BY <2>1 DEF SameDeletion, Busy
  <2> QED
    BY <2>1, <2>2, FreshMade
<1>3. CASE CreateTruncates \/ CreateFills
  <2>1. loop # Idle /\ loop.at \notin {"chat", "memory"} /\ UNCHANGED <<gen, cache>>
    BY <1>3 DEF CreateTruncates, CreateFills
  <2>2. \E text \in {"torn", "blank", "set"} : dir' = [dir EXCEPT ![loop.inst] = text]
    BY <1>3 DEF CreateTruncates, CreateFills
  <2>3. \A i \in Instances : Exists(i) => Exists(i)'
    BY <2>2 DEF DiskTypes, Exists
  <2>4. SameDeletion
    BY <2>1 DEF SameDeletion
  <2> QED
    BY <2>1, <2>3, <2>4, FreshKept
<1>4. CASE CreateOpens
  <2> DEFINE i == loop.inst
  <2>1. /\ loop # Idle /\ loop.at = "open" /\ UNCHANGED <<dir, gen>>
        /\ cache' = cache \/ cache' = [cache EXCEPT ![i] = [chat |-> gen[i], memory |-> gen[i]]]
    BY <1>4 DEF CreateOpens, disk
  <2>2. SameDeletion
    BY <2>1 DEF SameDeletion
  <2>3. Exists(i) /\ i \in Instances
    BY <2>1, LoopTyped DEF Standing
  <2> HIDE DEF i
  <2>4. CASE cache' = cache
    BY <2>1, <2>2, <2>4, FreshKept DEF Exists
  <2>5. CASE cache' = [cache EXCEPT ![i] = [chat |-> gen[i], memory |-> gen[i]]]
    <3>1. \A j \in Instances : j # i => cache'[j] = cache[j]
      BY <2>5 DEF DiskTypes
    <3>2. cache'[i].chat = gen[i] /\ cache'[i].memory = gen[i]
      BY <2>3, <2>5 DEF DiskTypes
    <3> QED
      BY <2>1, <2>2, <2>3, <3>1, <3>2 DEF Fresh, ChatFresh, MemoryFresh, SameDeletion, Exists
  <2> QED
    BY <2>1, <2>4, <2>5
<1>5. ASSUME NEW i \in Instances, BeginDelete(i) PROVE Fresh'
  <2>1. /\ loop = Idle /\ loop' # Idle /\ loop'.inst = i /\ loop'.at = "chat"
        /\ dir' = [dir EXCEPT ![i] = "none"] /\ UNCHANGED <<gen, cache>>
    BY <1>5 DEF BeginDelete, Idle
  <2>2. (Busy(i) /\ loop.at = "chat")'
    BY <2>1 DEF Busy
  <2>3. \A j \in Instances : j # i => Exists(j)' = Exists(j)
    BY <2>1 DEF Exists, DiskTypes
  <2> QED
    BY <2>1, <2>2, <2>3 DEF Fresh, ChatFresh, MemoryFresh, Busy
<1>6. CASE ForgetChat
  <2> DEFINE i == loop.inst
  <2>1. /\ loop # Idle /\ loop.at = "chat" /\ UNCHANGED <<dir, gen>>
        /\ cache' = [cache EXCEPT ![i].chat = 0] /\ loop' = [loop EXCEPT !.at = "memory"]
    BY <1>6 DEF ForgetChat, disk
  <2>2. loop \in LoopState /\ i \in Instances
    BY <2>1, LoopTyped
  <2>3. loop' # Idle /\ loop'.inst = i /\ loop'.at = "memory"
    BY <2>1, <2>2 DEF LoopState, Idle
  <2> HIDE DEF i
  <2>4. \A j \in Instances : /\ j # i => cache'[j] = cache[j]
                             /\ cache'[j].memory = cache[j].memory
    BY <2>1 DEF DiskTypes
  <2>5. cache'[i].chat = 0
    BY <2>1, <2>2 DEF DiskTypes
  <2> QED
    BY <2>1, <2>2, <2>3, <2>4, <2>5 DEF Fresh, ChatFresh, MemoryFresh, Busy, Exists, i
<1>7. CASE ForgetMemory
  <2> DEFINE i == loop.inst
  <2>1. /\ loop # Idle /\ loop.at = "memory" /\ UNCHANGED <<dir, gen>>
        /\ cache' = [cache EXCEPT ![i].memory = 0]
    BY <1>7 DEF ForgetMemory, disk
  <2>2. i \in Instances
    BY <2>1, LoopTyped
  <2> HIDE DEF i
  <2>4. \A j \in Instances : /\ j # i => cache'[j] = cache[j]
                             /\ cache'[j].chat = cache[j].chat
    BY <2>1 DEF DiskTypes
  <2>5. cache'[i].memory = 0
    BY <2>1, <2>2 DEF DiskTypes
  <2>6. \A j \in Instances : ChatFresh(j) /\ (j # i => MemoryFresh(j))
    BY <2>1 DEF Fresh, Busy, i
  <2> QED
    BY <2>1, <2>4, <2>5, <2>6 DEF Fresh, ChatFresh, MemoryFresh, Exists
<1>8. CASE Crash
  BY <1>8 DEF Crash, Fresh, ChatFresh, MemoryFresh
<1>9. ASSUME NEW i \in Instances, Engine(i) \/ ThreadPanics(i) PROVE Fresh'
  BY <1>1, <1>9 DEF Engine, Retain, HotScan, ThreadEnds, ThreadPanics
<1>10. ASSUME NEW r \in Requests, NEW i \in Instances, Asking(r, i) PROVE Fresh'
  BY <1>1, <1>10 DEF Asking, GetInstance, UpdateSettings, BeginOpen, BeginList, engine
<1>11. ASSUME NEW r \in Requests, Handling(r) PROVE Fresh'
  <2>1. UNCHANGED loop
    BY <1>11 DEF Handling, OpenChat, CollectInstance, GetMemory, EnsureDirs, OpenFails, WriteDefault, LoadAndSave,
      Fill, engine
  <2>2. SameDeletion
    BY <1>0, <2>1
  <2>3. \A i \in Instances : Exists(i) => Exists(i)'
    BY <1>11, RequestsDeleteNothing
  <2>4. CASE OpenFails(r) \/ WriteDefault(r) \/ LoadAndSave(r) \/ Fill(r)
    BY <2>2, <2>3, <2>4, FreshKept DEF OpenFails, WriteDefault, LoadAndSave, Fill, store
  <2>5. CASE OpenChat(r) \/ CollectInstance(r)
    <3>1. req[r].inst \in Instances /\ GetConnection(req[r].inst)
      BY <2>5, RequestTyped DEF OpenChat, CollectInstance, At
    <3>2. CASE UNCHANGED store
      BY <1>1, <2>1, <3>2
    <3>3. CASE MakeDirs(req[r].inst) /\ cache' = [cache EXCEPT ![req[r].inst].chat = gen'[req[r].inst]]
      BY <2>2, <3>1, <3>3, FreshTaken, MakeDirsTyped
    <3> QED
      BY <3>1, <3>2, <3>3, GetConnectionTyped
  <2>6. CASE GetMemory(r)
    <3>1. CASE UNCHANGED store
      BY <1>1, <2>1, <3>1
    <3>2. CASE MakeDirs(req[r].inst) /\ cache' = [cache EXCEPT ![req[r].inst].memory = gen'[req[r].inst]]
      BY <2>2, <2>6, <3>2, FreshTaken, MakeDirsTyped, GetMemoryTyped
    <3> QED
      BY <2>6, <3>1, <3>2, GetMemoryTyped
  <2>7. CASE EnsureDirs(r)
    <3>1. req[r].inst \in Instances /\ MakeDirs(req[r].inst) /\ UNCHANGED cache
      BY <2>7, RequestTyped DEF EnsureDirs, At
    <3> QED
      BY <2>2, <3>1, FreshMade
  <2> QED
    BY <1>11, <2>4, <2>5, <2>6, <2>7 DEF Handling
<1>12. CASE UNCHANGED vars
  BY <1>1, <1>12 DEF vars, store
<1> QED
  BY <1>2, <1>3, <1>4, <1>5, <1>6, <1>7, <1>8, <1>9, <1>10, <1>11, <1>12 DEF Next, Creating, Deleting

---------------------------------------------------------------------------
(* The theorems *)

IInv == DiskTypes /\ Made /\ ActorTypes /\ GhostTypes /\ Gone /\ Standing /\ Fresh

LEMMA InitHolds == Init => IInv
<1> SUFFICES ASSUME Init PROVE IInv
  OBVIOUS
<1> USE DEF Init
<1>1. DiskTypes
  BY ZeroIsGen DEF DiskTypes, Files, Exists
<1>2. Made /\ Standing
  BY DEF Made, Standing
<1>3. ActorTypes /\ GhostTypes
  BY DEF ActorTypes, GhostTypes
<1>4. Gone /\ Fresh
  BY DEF Gone, Fresh, ChatFresh, MemoryFresh
<1> QED
  BY <1>1, <1>2, <1>3, <1>4 DEF IInv

LEMMA Inductive == IInv /\ [Next]_vars => IInv'
BY DiskStep, MadeStep, ActorStep, GhostStep, GoneStep, StandingStep, FreshStep DEF IInv

(* Every variable keeps its type: what the loop is in the middle of, what  *)
(* each request opened, and no directory that was never made.              *)
THEOREM TypeCorrect == Spec => []TypeOK
<1>1. IInv => TypeOK
  BY DEF IInv, TypeOK, DiskTypes, ActorTypes, GhostTypes, LoopState, Requesting
<1> QED
  BY <1>1, InitHolds, Inductive, PTL DEF Spec

(* Only a request that had found the instance before brings the directory  *)
(* of a deleted one back (store.open, delete in instance.rs).              *)
THEOREM DeletedStay == Spec => []DeletedStaysDeleted
<1>1. IInv => DeletedStaysDeleted
  BY DEF IInv, Gone, DeletedStaysDeleted
<1> QED
  BY <1>1, InitHolds, Inductive, PTL DEF Spec

(* Between operations the caches of the store hold nothing, or handles on  *)
(* the databases that are there now, whatever was deleted under a request. *)
THEOREM CachesAreFresh == Spec => []CachesFresh
<1>1. IInv => CachesFresh
  BY DEF IInv, Fresh, ChatFresh, MemoryFresh, CachesFresh
<1> QED
  BY <1>1, InitHolds, Inductive, PTL DEF Spec
=============================================================================
