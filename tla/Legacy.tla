------------------------------- MODULE Legacy -------------------------------
(***************************************************************************)
(* How the memory of an instance that was written by an earlier version    *)
(* moves from text files into the database: migrate_all runs whenever      *)
(* somebody opens the instance, the engine or a request, step by step and  *)
(* beside one another, and may fail or be killed anywhere.  What is in the *)
(* database by then goes on changing: the engine writes a first history,   *)
(* and after every summary a background task writes the knowledge anew.    *)
(*                                                                         *)
(* A text stands for what it says: a set of facts.  Blank files, which say *)
(* nothing and are passed over, are left out.                              *)
(***************************************************************************)
EXTENDS Naturals, FiniteSetsExt

CONSTANTS
  Engine,      \* the engine, which opens the instance to run it
  Requests,    \* requests that open it
  Sessions,    \* names of the session files, in order
  Captures,    \* captures in a behaviour, and what each of them teaches
  MaxCopies,   \* bound: imports of one text
  MaxFaults,   \* bound: faults in a behaviour
  Faults       \* the faults of a run: "crash", "read", "store", "rename"

Openers == {Engine} \cup Requests

ASSUME LegacyAssumption ==
  /\ Engine \notin Requests /\ Openers \cap Captures = {}
  /\ MaxCopies \in Nat /\ MaxFaults \in Nat
  /\ Sessions \subseteq Nat
  /\ Faults \subseteq {"crash", "read", "store", "rename"}

VARIABLES
  there,     \* which of knowledge.md, history.txt and current.txt have not been renamed
  files,     \* the session files that have not been renamed
  row,       \* knowledge_store and history_store: one row each
  blocks,    \* how often each session file is in session_blocks
  current,   \* how often current.txt is in action_log above the cursor
  consumed,  \* and below it, in a summary
  acted,     \* other actions are above the cursor
  summed,    \* summaries have added session blocks of their own
  alive,     \* the engine runs the instance
  opener,    \* where each open is in migrate_all and what it found there
  capture,   \* what each capture task has read
  misled,    \* those whose picture of the database is wrong, or wrong by now
  clobbered, \* tables one of them has written to
  skipped,   \* session files that could not be read
  struck     \* faults that have struck

disk == <<there, files>>
log == <<current, consumed, acted, summed>>
ghosts == <<misled, clobbered, skipped, struck>>
vars == <<disk, row, blocks, log, alive, opener, capture, ghosts>>

Rows == {"knowledge", "history"}
Says == [knowledge |-> {"old knowledge"}, history |-> {"old history"}]
Initial == {"initial history"}
Idle == [at |-> "idle"]
NotYet == [at |-> "unborn"]
Over == [at |-> "over"]

Init ==
  /\ there = {"knowledge", "history", "current"} /\ files = Sessions
  /\ row = [f \in Rows |-> {}]
  /\ blocks = [s \in Sessions |-> 0]
  /\ current = 0 /\ consumed = 0 /\ acted = FALSE /\ summed = FALSE /\ alive = FALSE
  /\ opener = [o \in Openers |-> Idle]
  /\ capture = [c \in Captures |-> NotYet]
  /\ misled = {} /\ clobbered = {} /\ skipped = {} /\ struck = 0

At(o, step, phase) == opener[o] # Idle /\ opener[o].at = step /\ opener[o].phase = phase

Step(at, phase, todo, listed) == [at |-> at, phase |-> phase, todo |-> todo, listed |-> listed]
Look(at) == Step(at, "look", {}, {})

(* Each part is taken up whatever became of the one before.                *)
After(o, step) ==
  CASE step = "knowledge" -> Look("history")
    [] step = "history" -> Look("sessions")
    [] step = "sessions" -> Look("current")
    [] step = "current" -> IF o = Engine THEN Look("birth") ELSE Idle
GoOn(o, step) == opener' = [opener EXCEPT ![o] = After(o, step)]
Phase(o, phase) == opener' = [opener EXCEPT ![o].phase = phase]

(* What a part of the migration, or a capture, is going by.                *)
Table(at) == IF at = "birth" THEN "history" ELSE at
Relying(table) ==
  {o \in Openers : opener[o] # Idle /\ Table(opener[o].at) = table /\ opener[o].phase # "look"}
    \cup {c \in Captures : table = "knowledge" /\ capture[c].at = "running"}

Sees(w, right) == misled' = IF right THEN misled \ {w} ELSE misled \cup {w}

Writes(w, table) ==
  /\ misled' = (misled \cup Relying(table)) \ {w}
  /\ clobbered' = IF w \in misled THEN clobbered \cup {table} ELSE clobbered

Strike(fault) == fault \in Faults /\ struck < MaxFaults /\ struck' = struck + 1

---------------------------------------------------------------------------
(* Instance::open, open_with_resources.                                    *)

Open(o) ==
  /\ opener[o] = Idle /\ (o = Engine => ~alive)
  /\ opener' = [opener EXCEPT ![o] = Look("knowledge")]
  /\ UNCHANGED <<disk, row, blocks, log, alive, capture, ghosts>>

(* migrate_knowledge, migrate_history: a table that cannot be read counts  *)
(* as empty.                                                               *)
LookRow(o, f) ==
  /\ At(o, f, "look")
  /\ f \in there
  /\ \/ row[f] = {} /\ UNCHANGED struck
     \/ row[f] # {} /\ Strike("store")
  /\ Phase(o, "write")
  /\ Sees(o, row[f] = {})
  /\ UNCHANGED <<disk, row, blocks, log, alive, capture, clobbered, skipped>>

PassRow(o, f) ==
  /\ At(o, f, "look")
  /\ \/ (row[f] # {} \/ f \notin there) /\ UNCHANGED struck
     \/ Strike("read")
  /\ GoOn(o, f)
  /\ UNCHANGED <<disk, row, blocks, log, alive, capture, misled, clobbered, skipped>>

WriteRow(o, f) ==
  /\ At(o, f, "write")
  /\ row' = [row EXCEPT ![f] = Says[f]]
  /\ Writes(o, f)
  /\ Phase(o, "move")
  /\ UNCHANGED <<disk, blocks, log, alive, capture, skipped, struck>>

WriteRowFails(o, f) ==
  /\ At(o, f, "write") /\ Strike("store")
  /\ GoOn(o, f)
  /\ UNCHANGED <<disk, row, blocks, log, alive, capture, misled, clobbered, skipped>>

(* rename_migrated: also fails when somebody else was faster.              *)
Rename(o, f) ==
  /\ At(o, f, "move")
  /\ \/ there' = there \ {f} /\ UNCHANGED struck
     \/ Strike("rename") /\ UNCHANGED there
  /\ GoOn(o, f)
  /\ UNCHANGED <<files, row, blocks, log, alive, capture, misled, clobbered, skipped>>

---------------------------------------------------------------------------
(* migrate_sessions: a transaction per file, then all files are renamed.   *)

NoBlocks == ~summed /\ \A s \in Sessions : blocks[s] = 0

\* Mutant: blocks that are there already do not matter.
ListSessionsAlways(o) ==
  /\ At(o, "sessions", "look") /\ files # {} /\ UNCHANGED struck
  /\ opener' = [opener EXCEPT ![o] = Step("sessions", "write", files, files)]
  /\ Sees(o, TRUE)
  /\ UNCHANGED <<disk, row, blocks, log, alive, capture, clobbered, skipped>>

ListSessions(o) ==
  /\ At(o, "sessions", "look") /\ files # {}
  /\ \/ NoBlocks /\ UNCHANGED struck
     \/ ~NoBlocks /\ Strike("store")
  /\ opener' = [opener EXCEPT ![o] = Step("sessions", "write", files, files)]
  /\ Sees(o, NoBlocks)
  /\ UNCHANGED <<disk, row, blocks, log, alive, capture, clobbered, skipped>>

PassSessions(o) ==
  /\ At(o, "sessions", "look") /\ (files = {} \/ ~NoBlocks)
  /\ GoOn(o, "sessions")
  /\ UNCHANGED <<disk, row, blocks, log, alive, capture, ghosts>>

Done(o, s) ==
  LET rest == opener[o].todo \ {s}
  IN opener' = [opener EXCEPT ![o].todo = rest, ![o].phase = IF rest = {} THEN "move" ELSE "write"]

InsertSession(o) ==
  /\ At(o, "sessions", "write")
  /\ LET s == Min(opener[o].todo) IN
       /\ s \in files /\ blocks[s] < MaxCopies
       /\ blocks' = [blocks EXCEPT ![s] = @ + 1]
       /\ Done(o, s)
  /\ Writes(o, "sessions")
  /\ UNCHANGED <<disk, row, log, alive, capture, skipped, struck>>

\* A file that cannot be read is passed over, and renamed with the others.
PassSession(o) ==
  /\ At(o, "sessions", "write")
  /\ LET s == Min(opener[o].todo) IN
       /\ \/ s \notin files /\ UNCHANGED <<skipped, struck>>
          \/ Strike("read") /\ skipped' = skipped \cup {s}
       /\ Done(o, s)
  /\ UNCHANGED <<disk, row, blocks, log, alive, capture, misled, clobbered>>

\* Mutant: a failed insert is only logged.
LogFailedInsert(o) ==
  /\ At(o, "sessions", "write") /\ Strike("store")
  /\ Done(o, Min(opener[o].todo))
  /\ UNCHANGED <<disk, row, blocks, log, alive, capture, misled, clobbered, skipped>>

InsertSessionFails(o) ==
  /\ At(o, "sessions", "write") /\ Strike("store")
  /\ GoOn(o, "sessions")
  /\ UNCHANGED <<disk, row, blocks, log, alive, capture, misled, clobbered, skipped>>

RenameSession(o) ==
  /\ At(o, "sessions", "move")
  /\ LET s == Min(opener[o].listed) IN
       /\ \/ files' = files \ {s} /\ UNCHANGED struck
          \/ Strike("rename") /\ UNCHANGED files
       /\ IF opener[o].listed = {s} THEN GoOn(o, "sessions")
          ELSE opener' = [opener EXCEPT ![o].listed = @ \ {s}]
  /\ UNCHANGED <<there, row, blocks, log, alive, capture, misled, clobbered, skipped>>

---------------------------------------------------------------------------
(* migrate_current: one note in the action log.                            *)

NothingCurrent == current = 0 /\ ~acted

LookCurrent(o) ==
  /\ At(o, "current", "look") /\ "current" \in there /\ NothingCurrent
  /\ Phase(o, "write")
  /\ Sees(o, TRUE)
  /\ UNCHANGED <<disk, row, blocks, log, alive, capture, clobbered, skipped, struck>>

PassCurrent(o) ==
  /\ At(o, "current", "look")
  /\ \/ ("current" \notin there \/ ~NothingCurrent) /\ UNCHANGED struck
     \/ (Strike("read") \/ Strike("store"))
  /\ GoOn(o, "current")
  /\ UNCHANGED <<disk, row, blocks, log, alive, capture, misled, clobbered, skipped>>

InsertNote(o) ==
  /\ At(o, "current", "write") /\ current + consumed < MaxCopies
  /\ current' = current + 1
  /\ Writes(o, "current")
  /\ Phase(o, "move")
  /\ UNCHANGED <<disk, row, blocks, consumed, acted, summed, alive, capture, skipped, struck>>

InsertNoteFails(o) ==
  /\ At(o, "current", "write") /\ Strike("store")
  /\ GoOn(o, "current")
  /\ UNCHANGED <<disk, row, blocks, log, alive, capture, misled, clobbered, skipped>>

---------------------------------------------------------------------------
(* The engine gives an instance without history its first one, and runs it.*)

\* Mutant: the first history is written whatever there is.
FindAnyHistory ==
  /\ At(Engine, "birth", "look") /\ UNCHANGED struck
  /\ Phase(Engine, "write")
  /\ Sees(Engine, TRUE)
  /\ UNCHANGED <<disk, row, blocks, log, alive, capture, clobbered, skipped>>

FindNoHistory ==
  /\ At(Engine, "birth", "look")
  /\ \/ row.history = {} /\ UNCHANGED struck
     \/ row.history # {} /\ Strike("store")
  /\ Phase(Engine, "write")
  /\ Sees(Engine, row.history = {})
  /\ UNCHANGED <<disk, row, blocks, log, alive, capture, clobbered, skipped>>

WriteInitialHistory ==
  /\ At(Engine, "birth", "write")
  /\ \/ /\ row' = [row EXCEPT !.history = Initial]
        /\ Writes(Engine, "history") /\ UNCHANGED struck
     \/ Strike("store") /\ UNCHANGED <<row, misled, clobbered>>
  /\ opener' = [opener EXCEPT ![Engine] = Idle] /\ alive' = TRUE
  /\ UNCHANGED <<disk, blocks, log, capture, skipped>>

FindHistory ==
  /\ At(Engine, "birth", "look") /\ row.history # {}
  /\ opener' = [opener EXCEPT ![Engine] = Idle] /\ alive' = TRUE
  /\ UNCHANGED <<disk, row, blocks, log, capture, ghosts>>

---------------------------------------------------------------------------
(* The instance acts, summarises what it did, and has the knowledge        *)
(* rewritten: spawn_capture_task, execute_capture_task.                    *)

Act ==
  /\ alive /\ acted' = TRUE
  /\ UNCHANGED <<disk, row, blocks, current, consumed, summed, alive, opener, capture, ghosts>>

(* A row that cannot be read is taken for an empty one here, too.          *)
BuildCaptureRequest(c) ==
  \/ /\ capture' = [capture EXCEPT ![c] = [at |-> "running", basis |-> row.knowledge]]
     /\ Sees(c, TRUE) /\ UNCHANGED struck
  \/ /\ Strike("store")
     /\ capture' = [capture EXCEPT ![c] = [at |-> "running", basis |-> {}]]
     /\ Sees(c, row.knowledge = {})

Summarise(c) ==
  /\ alive /\ ~NothingCurrent /\ capture[c] = NotYet
  /\ consumed' = consumed + current /\ current' = 0 /\ acted' = FALSE /\ summed' = TRUE
  /\ BuildCaptureRequest(c)
  /\ UNCHANGED <<disk, row, blocks, alive, opener, clobbered, skipped>>

(* The model is asked for all it was given and what is new.                *)
CaptureEnds(c) ==
  /\ capture[c].at = "running"
  /\ row' = [row EXCEPT !.knowledge = capture[c].basis \cup {c}]
  /\ Writes(c, "knowledge")
  /\ capture' = [capture EXCEPT ![c] = Over]
  /\ UNCHANGED <<disk, blocks, log, alive, opener, skipped, struck>>

\* Mutant: an empty answer is written, too.
CaptureWritesNothing(c) ==
  /\ capture[c].at = "running"
  /\ capture' = [capture EXCEPT ![c] = Over]
  /\ row' = [row EXCEPT !.knowledge = {}]
  /\ Writes(c, "knowledge")
  /\ UNCHANGED <<disk, blocks, log, alive, opener, skipped, struck>>

CaptureFails(c) ==
  /\ capture[c].at = "running"
  /\ capture' = [capture EXCEPT ![c] = Over]
  /\ misled' = misled \ {c}
  /\ UNCHANGED <<disk, row, blocks, log, alive, opener, clobbered, skipped, struck>>

Crash ==
  /\ Strike("crash")
  /\ opener' = [o \in Openers |-> Idle]
  /\ capture' = [c \in Captures |-> IF capture[c] = NotYet THEN NotYet ELSE Over]
  /\ alive' = FALSE /\ misled' = {}
  /\ UNCHANGED <<disk, row, blocks, log, clobbered, skipped>>

---------------------------------------------------------------------------
Row(o) ==
  \E f \in Rows :
    LookRow(o, f) \/ PassRow(o, f) \/ WriteRow(o, f) \/ WriteRowFails(o, f)
Move(o) == \E f \in Rows \cup {"current"} : Rename(o, f)
Session(o) ==
  \/ ListSessions(o) \/ PassSessions(o) \/ InsertSession(o) \/ PassSession(o)
  \/ InsertSessionFails(o) \/ RenameSession(o)
Current(o) == LookCurrent(o) \/ PassCurrent(o) \/ InsertNote(o) \/ InsertNoteFails(o)
Birth == FindNoHistory \/ WriteInitialHistory \/ FindHistory
Capture(c) == Summarise(c) \/ CaptureEnds(c) \/ CaptureFails(c)

Next ==
  \/ \E o \in Openers : Open(o) \/ Row(o) \/ Move(o) \/ Session(o) \/ Current(o)
  \/ Birth \/ Act \/ Crash
  \/ \E c \in Captures : Capture(c)

Spec == Init /\ [][Next]_vars

---------------------------------------------------------------------------
Facts == {"old knowledge", "old history", "initial history"} \cup Captures
Steps == [at : Rows \cup {"sessions", "current", "birth"}, phase : {"look", "write", "move"},
          todo : SUBSET Sessions, listed : SUBSET Sessions]

(* Every variable holds a value of its type.                               *)
TypeOK ==
  /\ there \subseteq Rows \cup {"current"} /\ files \subseteq Sessions
  /\ row \in [Rows -> SUBSET Facts] /\ blocks \in [Sessions -> 0..MaxCopies]
  /\ current \in Nat /\ consumed \in Nat
  /\ acted \in BOOLEAN /\ summed \in BOOLEAN /\ alive \in BOOLEAN
  /\ opener \in [Openers -> {Idle} \cup Steps]
  /\ capture \in [Captures -> {NotYet, Over} \cup [at : {"running"}, basis : SUBSET Facts]]
  /\ misled \subseteq Openers \cup Captures /\ clobbered \subseteq Rows \cup {"sessions", "current"}
  /\ skipped \subseteq Sessions /\ struck \in 0..MaxFaults

(* Whatever fails or is killed on the way, the database holds what a file  *)
(* said by the time the file is renamed, and from then on.  A session file *)
(* that could not be read is renamed all the same, and a capture or an     *)
(* initial history whose writer was misled may take a text back.           *)
LegacyKept ==
  /\ \A f \in Rows \ there : Says[f] \subseteq row[f] \/ f \in clobbered
  /\ \A s \in Sessions \ files : blocks[s] > 0 \/ s \in skipped
  /\ "current" \notin there => current + consumed > 0

(* Knowledge is only ever added to: by captures, also when they fail, and  *)
(* by imports that come late.  One that began before another wrote, or     *)
(* could not read what there was, takes the rest back.                     *)
NothingUnlearned ==
  [][row.knowledge \subseteq row'.knowledge \/ misled \ misled' # {}]_vars

(* No text is imported beside itself ("is idempotent", migrate.rs:4): a    *)
(* crash or a failed rename do not make the next open import it again, but *)
(* two opens at once may, or one that cannot read what is there.           *)
ImportedOnce ==
  /\ \A s \in Sessions : blocks[s] <= 1 \/ "sessions" \in clobbered
  /\ current <= 1 \/ "current" \in clobbered

(* When nothing fails, the engine runs the instance only when all that was *)
(* in its files is in the database, or what was made of it, whoever else   *)
(* has opened it meanwhile; a request may still be at the session files.   *)
RunsWithAllMemory ==
  alive /\ struck = 0 =>
    /\ row.history = Says.history
    /\ Says.knowledge \subseteq row.knowledge
    /\ \A s \in Sessions : blocks[s] > 0 \/ \E r \in Requests : opener[r] # Idle /\ s \in opener[r].todo
    /\ current + consumed > 0

============================================================================
