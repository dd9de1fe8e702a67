----------------------------- MODULE Lifecycle -----------------------------
(***************************************************************************)
(* The life of instances: their directories, the caches of the store the   *)
(* web api shares, and the threads the engine keeps for them.              *)
(*                                                                         *)
(* The runtime has one thread, here "the loop": creating, deleting, the    *)
(* hot scan and the turns of the instance threads run on it, one after the *)
(* other.  The web api reads and writes on the pool of spawn_blocking,     *)
(* whose threads interleave with all of that, statement by statement.      *)
(***************************************************************************)
EXTENDS Naturals

CONSTANTS
  Instances,    \* ids; a new instance takes one that was never used
  Requests,     \* web requests under way on the pool
  GlobalKey,    \* the global settings hold an api_key
  MaxGen,       \* bound: a directory is made at most this often
  Faults        \* the faults of a run: "crash", "panic"

ASSUME LifecycleAssumption ==
  /\ GlobalKey \in BOOLEAN
  /\ MaxGen \in Nat \ {0}
  /\ Faults \subseteq {"crash", "panic"}

VARIABLES
  dir,      \* of each instance: no directory, or what it holds as settings.json
  gen,      \* how often the directory was made: tells its databases apart
  cache,    \* the store's handles on chat and memory: their gen, or 0
  loop,     \* what the loop is in the middle of
  req,      \* what each request is in the middle of
  task,     \* the entry of the engine's table of threads
  deleted,  \* instances somebody deleted
  raced,    \* those of them a request had found just before
  broken    \* those whose settings.json two writers, or a crash, left torn

disk == <<dir, gen>>
store == <<dir, gen, cache>>
engine == <<loop, task>>
ghosts == <<deleted, raced, broken>>
vars == <<dir, gen, cache, loop, req, task, deleted, raced, broken>>

Files == {"none", "bare", "torn", "blank", "set"}
Idle == [op |-> "idle"]
Handlers == {"read", "save", "list"}

Exists(i) == dir[i] # "none"
Listed(i) == dir[i] \in {"torn", "blank", "set"}
Valid(i) == dir[i] = "set" \/ (dir[i] = "blank" /\ GlobalKey)
Busy(i) == loop # Idle /\ loop.inst = i
OpenedBy(i) == {r \in Requests : req[r] # Idle /\ req[r].inst = i}
Writing(i) == {r \in OpenedBy(i) : req[r].at \in {"fill", "blanked"}}

TypeOK ==
  /\ dir \in [Instances -> Files]
  /\ gen \in [Instances -> 0..MaxGen]
  /\ cache \in [Instances -> [chat : 0..MaxGen, memory : 0..MaxGen]]
  /\ loop \in {Idle} \cup
       [op : {"create", "spawn", "delete"}, inst : Instances, at : {"settings", "fill", "open", "chat", "memory"}]
  /\ req \in [Requests -> {Idle} \cup
       [op : Handlers, inst : Instances, at : {"chat", "memory", "dirs", "write", "blanked", "load", "fill"},
        on : 0..MaxGen, text : {"blank", "set"}, alone : BOOLEAN]]
  /\ task \in [Instances -> {"none", "alive", "over"}]
  /\ broken \subseteq Instances
  /\ raced \subseteq deleted /\ deleted \subseteq Instances
  /\ \A i \in Instances : Exists(i) => gen[i] > 0

Init ==
  /\ dir = [i \in Instances |-> "none"]
  /\ gen = [i \in Instances |-> 0]
  /\ cache = [i \in Instances |-> [chat |-> 0, memory |-> 0]]
  /\ loop = Idle
  /\ req = [r \in Requests |-> Idle]
  /\ task = [i \in Instances |-> "none"]
  /\ deleted = {} /\ raced = {} /\ broken = {}

(* create_dir_all: the directory is there afterwards, new if it was not. *)
MakeDirs(i) ==
  IF dir[i] # "none" THEN UNCHANGED disk
  ELSE /\ gen[i] < MaxGen
       /\ dir' = [dir EXCEPT ![i] = "bare"]
       /\ gen' = [gen EXCEPT ![i] = @ + 1]

---------------------------------------------------------------------------
(* Creating: directories, a settings.json written in place (opened and     *)
(* truncated, then filled), handles, caches.  The web api creates with its *)
(* shared store, the thread of an instance (create_instance) with one of   *)
(* its own, whose caches nobody uses.                                      *)

BeginCreate(i, by) ==
  /\ loop = Idle /\ gen[i] = 0
  /\ MakeDirs(i)
  /\ loop' = [op |-> by, inst |-> i, at |-> "settings"]
  /\ UNCHANGED <<cache, req, task, ghosts>>

WebCreates(i) == BeginCreate(i, "create")

\* The creator may be an instance outside Instances.
AgentCreates(i) == BeginCreate(i, "spawn")

CreateTruncates ==
  /\ loop # Idle /\ loop.at = "settings"
  /\ dir' = [dir EXCEPT ![loop.inst] = "torn"]
  /\ loop' = [loop EXCEPT !.at = "fill"]
  /\ UNCHANGED <<gen, cache, req, task, ghosts>>

CreateFills ==
  /\ loop # Idle /\ loop.at = "fill"
  /\ \E text \in {"blank", "set"} : dir' = [dir EXCEPT ![loop.inst] = text]
  /\ loop' = [loop EXCEPT !.at = "open"]
  /\ UNCHANGED <<gen, cache, req, task, ghosts>>

CreateOpens ==
  /\ loop # Idle /\ loop.at = "open"
  /\ cache' = IF loop.op = "spawn" THEN cache
              ELSE [cache EXCEPT ![loop.inst] = [chat |-> gen[loop.inst], memory |-> gen[loop.inst]]]
  /\ loop' = Idle
  /\ UNCHANGED <<disk, req, task, ghosts>>

---------------------------------------------------------------------------
(* Deleting: the directory moves to the trash, then the two caches forget. *)

BeginDelete(i) ==
  /\ loop = Idle /\ dir[i] # "none"
  /\ dir' = [dir EXCEPT ![i] = "none"]
  /\ loop' = [op |-> "delete", inst |-> i, at |-> "chat"]
  /\ deleted' = deleted \cup {i}
  /\ raced' = IF OpenedBy(i) = {} THEN raced \ {i} ELSE raced \cup {i}
  /\ broken' = broken \ {i}
  /\ UNCHANGED <<gen, cache, req, task>>

ForgetChat ==
  /\ loop # Idle /\ loop.at = "chat"
  /\ cache' = [cache EXCEPT ![loop.inst].chat = 0]
  /\ loop' = [loop EXCEPT !.at = "memory"]
  /\ UNCHANGED <<disk, req, task, ghosts>>

\* Mutant: only the cache of connections forgets.
KeepMemory ==
  /\ loop # Idle /\ loop.at = "memory"
  /\ loop' = Idle
  /\ UNCHANGED <<store, req, task, ghosts>>

ForgetMemory ==
  /\ loop # Idle /\ loop.at = "memory"
  /\ cache' = [cache EXCEPT ![loop.inst].memory = 0]
  /\ loop' = Idle
  /\ UNCHANGED <<disk, req, task, ghosts>>

---------------------------------------------------------------------------
(* The engine: threads that ended are struck from the table, directories   *)
(* without a thread get one, a thread ends when it cannot load settings.   *)

\* Mutant: only the threads of deleted instances are struck.
RetainOthers(i) ==
  /\ loop = Idle /\ task[i] = "over" /\ dir[i] = "none"
  /\ task' = [task EXCEPT ![i] = "none"]
  /\ UNCHANGED <<store, loop, req, ghosts>>

Retain(i) ==
  /\ loop = Idle /\ task[i] = "over"
  /\ task' = [task EXCEPT ![i] = "none"]
  /\ UNCHANGED <<store, loop, req, ghosts>>

HotScan(i) ==
  /\ loop = Idle /\ task[i] = "none" /\ Valid(i)
  /\ task' = [task EXCEPT ![i] = "alive"]
  /\ UNCHANGED <<store, loop, req, ghosts>>

ThreadEnds(i) ==
  /\ loop = Idle /\ task[i] = "alive" /\ dir[i] \in {"none", "bare", "torn"}
  /\ task' = [task EXCEPT ![i] = "over"]
  /\ UNCHANGED <<store, loop, req, ghosts>>

ThreadPanics(i) ==
  /\ "panic" \in Faults
  /\ loop = Idle /\ task[i] = "alive"
  /\ task' = [task EXCEPT ![i] = "over"]
  /\ UNCHANGED <<store, loop, req, ghosts>>

---------------------------------------------------------------------------
(* Requests.  store.open looks whether the directory exists, takes the two *)
(* handles, makes the directories and a default settings.json if there is  *)
(* none; get_instances lists and takes only the connection.  Clients know  *)
(* an id from a list or from the answer to create, not before.             *)

Asks(op, i) == [op |-> op, inst |-> i, at |-> "chat", on |-> 0, text |-> "blank", alone |-> TRUE]

\* Mutant: open does not look whether the directory exists.
OpenUnchecked(r, i, op) ==
  /\ req[r] = Idle /\ gen[i] > 0 /\ ~Busy(i)
  /\ req' = [req EXCEPT ![r] = Asks(op, i)]
  /\ UNCHANGED <<store, engine, ghosts>>

BeginOpen(r, i, op) ==
  /\ req[r] = Idle /\ Exists(i) /\ ~(Busy(i) /\ dir[i] = "bare")
  /\ req' = [req EXCEPT ![r] = Asks(op, i)]
  /\ UNCHANGED <<store, engine, ghosts>>

GetInstance(r, i) == BeginOpen(r, i, "read")
UpdateSettings(r, i) == BeginOpen(r, i, "save")

BeginList(r, i) ==
  /\ req[r] = Idle /\ Listed(i)
  /\ req' = [req EXCEPT ![r] = Asks("list", i)]
  /\ UNCHANGED <<store, engine, ghosts>>

At(r, pc) == req[r] # Idle /\ req[r].at = pc
Goto(r, pc) == req' = [req EXCEPT ![r].at = pc]

GetConnection(i) ==
  IF cache[i].chat # 0 THEN UNCHANGED store
  ELSE MakeDirs(i) /\ cache' = [cache EXCEPT ![i].chat = gen'[i]]

OpenChat(r) ==
  /\ At(r, "chat") /\ req[r].op # "list"
  /\ GetConnection(req[r].inst)
  /\ Goto(r, "memory")
  /\ UNCHANGED <<engine, ghosts>>

CollectInstance(r) ==
  /\ At(r, "chat") /\ req[r].op = "list"
  /\ GetConnection(req[r].inst)
  /\ req' = [req EXCEPT ![r] = Idle]
  /\ UNCHANGED <<engine, ghosts>>

GetMemory(r) ==
  /\ At(r, "memory")
  /\ LET i == req[r].inst IN
       IF cache[i].memory # 0 THEN UNCHANGED store
       ELSE MakeDirs(i) /\ cache' = [cache EXCEPT ![i].memory = gen'[i]]
  /\ Goto(r, "dirs")
  /\ UNCHANGED <<engine, ghosts>>

EnsureDirs(r) ==
  /\ At(r, "dirs")
  /\ MakeDirs(req[r].inst)
  /\ LET i == req[r].inst IN
       IF dir'[i] = "bare" THEN Goto(r, "write")
       ELSE IF req[r].op = "save" THEN Goto(r, "load")
       ELSE req' = [req EXCEPT ![r] = Idle]
  /\ UNCHANGED <<cache, engine, ghosts>>

(* A request that opens the file to write: whoever is writing too is no    *)
(* longer alone.                                                           *)
Truncate(r, pc, text) ==
  LET i == req[r].inst IN
  /\ dir' = [dir EXCEPT ![i] = "torn"]
  /\ req' = [s \in Requests |->
       IF s = r THEN [req[r] EXCEPT !.at = pc, !.on = gen[i], !.text = text, !.alone = Writing(i) = {}]
       ELSE IF s \in Writing(i) THEN [req[s] EXCEPT !.alone = FALSE]
       ELSE req[s]]

WriteDefault(r) ==
  /\ At(r, "write") /\ Exists(req[r].inst)
  /\ Truncate(r, "blanked", "blank")
  /\ UNCHANGED <<gen, cache, engine, ghosts>>

LoadAndSave(r) ==
  /\ At(r, "load") /\ dir[req[r].inst] \in {"blank", "set"}
  /\ \E text \in {"set", dir[req[r].inst]} : Truncate(r, "fill", text)
  /\ UNCHANGED <<gen, cache, engine, ghosts>>

OpenFails(r) ==
  /\ \/ At(r, "write") /\ ~Exists(req[r].inst)
     \/ At(r, "load") /\ dir[req[r].inst] \in {"none", "bare", "torn"}
  /\ req' = [req EXCEPT ![r] = Idle]
  /\ UNCHANGED <<store, engine, ghosts>>

(* Two that write at once may leave the tail of the longer text behind the *)
(* shorter one.  What is filled after a deletion goes to the trash.        *)
Fill(r) ==
  /\ At(r, "fill") \/ At(r, "blanked")
  /\ LET i == req[r].inst
         here == Exists(i) /\ gen[i] = req[r].on
     IN /\ \/ here /\ dir' = [dir EXCEPT ![i] = req[r].text] /\ broken' = broken \ {i}
           \/ here /\ ~req[r].alone
              /\ dir' = [dir EXCEPT ![i] = "torn"] /\ broken' = broken \cup {i}
           \/ ~here /\ UNCHANGED <<dir, broken>>
        /\ req' = [req EXCEPT ![r] = IF At(r, "blanked") /\ @.op = "save"
                                     THEN [@ EXCEPT !.at = "load"] ELSE Idle]
  /\ UNCHANGED <<gen, cache, engine, deleted, raced>>

Crash ==
  /\ "crash" \in Faults
  /\ cache' = [i \in Instances |-> [chat |-> 0, memory |-> 0]]
  /\ loop' = Idle
  /\ req' = [r \in Requests |-> Idle]
  /\ task' = [i \in Instances |-> "none"]
  /\ broken' = broken \cup {i \in Instances : dir[i] = "torn"}
  /\ UNCHANGED <<disk, deleted, raced>>

---------------------------------------------------------------------------
Creating == (\E i \in Instances : WebCreates(i) \/ AgentCreates(i)) \/ CreateTruncates \/ CreateFills \/ CreateOpens
Deleting == (\E i \in Instances : BeginDelete(i)) \/ ForgetChat \/ ForgetMemory
Engine(i) == Retain(i) \/ HotScan(i) \/ ThreadEnds(i)
Handling(r) == OpenChat(r) \/ CollectInstance(r) \/ GetMemory(r) \/ EnsureDirs(r)
               \/ OpenFails(r) \/ WriteDefault(r) \/ LoadAndSave(r) \/ Fill(r)

Asking(r, i) == GetInstance(r, i) \/ UpdateSettings(r, i) \/ BeginList(r, i)

Next ==
  \/ Creating \/ Deleting \/ Crash
  \/ \E i \in Instances : Engine(i) \/ ThreadPanics(i)
  \/ \E r \in Requests : Handling(r) \/ \E i \in Instances : Asking(r, i)

Spec == Init /\ [][Next]_vars

(* The loop finishes what it began, pool threads run, the scan comes round *)
(* again and again: it does not meet a file that is being written each     *)
(* time (strong fairness).                                                 *)
FairSpec ==
  /\ Spec
  /\ WF_vars(CreateTruncates \/ CreateFills \/ CreateOpens \/ ForgetChat \/ ForgetMemory)
  /\ \A r \in Requests : WF_vars(Handling(r))
  /\ \A i \in Instances : SF_vars(Retain(i)) /\ SF_vars(HotScan(i)) /\ SF_vars(ThreadEnds(i))

---------------------------------------------------------------------------
(* A deleted instance stays deleted (state.rs:155), whatever requests come *)
(* later, unless one had found it before the deletion and goes on: that    *)
(* one makes the directory anew, with default settings.                    *)
DeletedStaysDeleted == \A i \in deleted \ raced : dir[i] = "none"

(* Between operations a cached handle is one on the databases that are     *)
(* there now (instance.rs:428-434), also after a deletion that raced: what *)
(* is written through the cache is not written to the trash.               *)
CachesFresh ==
  \A i \in Instances : ~Busy(i) /\ Exists(i) =>
    cache[i].chat \in {0, gen[i]} /\ cache[i].memory \in {0, gen[i]}

(* Every instance with settings that are valid gets a thread, again after  *)
(* any end of its thread, unless it is deleted or its file is broken       *)
(* (engine/mod.rs:287-325).                                                *)
EveryInstanceRuns ==
  \A i \in Instances :
    Valid(i) ~> (task[i] = "alive" \/ i \in deleted \cup broken \/ (dir[i] = "blank" /\ ~GlobalKey))

============================================================================
