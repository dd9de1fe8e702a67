---------------------------- MODULE LegacyProofs ----------------------------
(***************************************************************************)
(* Proofs about Legacy, for any number of requests, session files and      *)
(* captures, and any faults.                                               *)
(***************************************************************************)
EXTENDS Legacy, WellFoundedInduction, TLAPS

\* The first of a set of session files is one of them.
LEMMA MinIn ==
  ASSUME NEW S, S \subseteq Nat, S # {}
  PROVE  Min(S) \in S
<1> DEFINE R == {ss \in Nat \X Nat : ss[1] < ss[2]}
<1>1. IsWellFoundedOn(R, Nat)
  BY NatLessThanWellFounded DEF IsWellFoundedOn, OpToRel
<1>2. PICK x \in S : \A y \in S : ~(<<y, x>> \in R)
  BY <1>1, WFMin
<1>3. \A y \in S : x <= y
  <2> SUFFICES ASSUME NEW y \in S PROVE x <= y
    OBVIOUS
  <2>1. x \in Nat /\ y \in Nat /\ ~(<<y, x>> \in R)
    BY <1>2
  <2>2. ~(y < x)
    BY <2>1
  <2> QED
    BY <2>1, <2>2
<1> QED
  BY <1>3 DEF Min

-----------------------------------------------------------------------------
(* How an opener goes from step to step. *)

Parts == {"knowledge", "history", "sessions", "current"}
Others(o) == \A u \in Openers : u # o => opener'[u] = opener[u]

LEMMA Tables == Rows = {"knowledge", "history"} /\ Idle \notin Steps
BY DEF Rows, Idle, Steps

\* After part, the next one begins, or nothing.
LEMMA Going ==
  ASSUME TypeOK, NEW o \in Openers, NEW part \in Parts, GoOn(o, part)
  PROVE  /\ opener' \in [Openers -> {Idle} \cup Steps] /\ Others(o)
         /\ opener'[o] # Idle =>
              /\ opener'[o].phase = "look" /\ opener'[o].todo = {} /\ opener'[o].at # part
              /\ opener'[o].at = "birth" => o = Engine
              /\ opener'[o].at = (CASE part = "knowledge" -> "history" [] part = "history" -> "sessions"
                                    [] part = "sessions" -> "current" [] part = "current" -> "birth")
         /\ opener'[o] = Idle => part = "current" /\ o # Engine
<1>1. \A a \in Rows \cup {"sessions", "current", "birth"} :
        /\ Look(a) \in Steps /\ Look(a) # Idle
        /\ Look(a).at = a /\ Look(a).phase = "look" /\ Look(a).todo = {}
  BY DEF Look, Step, Steps, Idle
<1>2. opener' = [opener EXCEPT ![o] = After(o, part)] /\ opener'[o] = After(o, part)
  BY DEF GoOn, TypeOK
<1>3. CASE part = "knowledge"
  BY <1>1, <1>2, <1>3 DEF After, TypeOK, Rows, Others
<1>4. CASE part = "history"
  BY <1>1, <1>2, <1>4 DEF After, TypeOK, Rows, Others
<1>5. CASE part = "sessions"
  BY <1>1, <1>2, <1>5 DEF After, TypeOK, Rows, Others
<1>6. CASE part = "current"
  BY <1>1, <1>2, <1>6 DEF After, TypeOK, Rows, Others
<1> QED
  BY <1>3, <1>4, <1>5, <1>6 DEF Parts

\* Within a part only the phase changes.
LEMMA Phasing ==
  ASSUME TypeOK, NEW o \in Openers, opener[o] # Idle, NEW p \in {"look", "write", "move"}, Phase(o, p)
  PROVE  /\ opener' \in [Openers -> {Idle} \cup Steps] /\ Others(o)
         /\ opener'[o] # Idle /\ opener'[o].phase = p /\ opener'[o].at = opener[o].at
         /\ opener'[o].todo = opener[o].todo /\ opener'[o].listed = opener[o].listed
<1>1. opener[o] \in Steps
  BY DEF TypeOK
<1>2. [opener[o] EXCEPT !.phase = p] \in Steps
  BY <1>1 DEF Steps
<1>3. opener' = [opener EXCEPT ![o] = [opener[o] EXCEPT !.phase = p]]
  BY DEF Phase
<1>4. opener'[o] = [opener[o] EXCEPT !.phase = p]
  BY <1>3 DEF TypeOK
<1> QED
  BY <1>1, <1>2, <1>3, <1>4, Tables DEF TypeOK, Others, Steps

\* One of the listed files is dealt with.
LEMMA Doing ==
  ASSUME TypeOK, NEW o \in Openers, opener[o] # Idle, NEW s, Done(o, s)
  PROVE  /\ opener' \in [Openers -> {Idle} \cup Steps] /\ Others(o)
         /\ opener'[o] # Idle /\ opener'[o].at = opener[o].at
         /\ opener'[o].todo = opener[o].todo \ {s} /\ opener'[o].listed = opener[o].listed
         /\ opener'[o].phase = IF opener[o].todo \ {s} = {} THEN "move" ELSE "write"
<1> DEFINE rest == opener[o].todo \ {s}
           phase == IF rest = {} THEN "move" ELSE "write"
           next == [opener[o] EXCEPT !.todo = rest, !.phase = phase]
<1>1. opener[o] \in Steps
  BY DEF TypeOK
<1>2. rest \subseteq Sessions /\ phase \in {"look", "write", "move"}
  BY <1>1 DEF Steps
<1>3. next \in Steps /\ next.at = opener[o].at /\ next.todo = rest /\ next.phase = phase
      /\ next.listed = opener[o].listed
  BY <1>1, <1>2 DEF Steps
<1>4. opener' = [opener EXCEPT ![o] = next]
  BY DEF Done
<1> HIDE DEF next
<1> QED
  BY <1>3, <1>4, Tables DEF TypeOK, Others

-----------------------------------------------------------------------------
(* Types. *)

LEMMA TypeInit == Init => TypeOK
<1> SUFFICES ASSUME Init PROVE TypeOK
  OBVIOUS
<1>1. acted \in BOOLEAN /\ summed \in BOOLEAN /\ alive \in BOOLEAN
  BY Zenon DEF Init
<1>2. opener \in [Openers -> {Idle} \cup Steps]
  BY DEF Init
<1>3. capture \in [Captures -> {NotYet, Over} \cup [at : {"running"}, basis : SUBSET Facts]]
  BY DEF Init
<1> QED
  BY <1>1, <1>2, <1>3, LegacyAssumption DEF Init, TypeOK, Rows

\* Whoever inserts session files has some to insert.
Busy == \A o \in Openers : At(o, "sessions", "write") => opener[o].todo # {}

LEMMA TypeStep == TypeOK /\ Busy /\ [Next]_vars => TypeOK'
<1> SUFFICES ASSUME TypeOK, Busy, [Next]_vars PROVE TypeOK'
  OBVIOUS
<1> USE LegacyAssumption DEF disk, log, ghosts
<1>0. /\ \A f \in Rows : f \in Parts /\ Says[f] \in SUBSET Facts
      /\ "sessions" \in Parts /\ "current" \in Parts
      /\ Initial \in SUBSET Facts /\ "history" \in Rows /\ "knowledge" \in Rows
      /\ "write" \in {"look", "write", "move"} /\ "move" \in {"look", "write", "move"}
  BY DEF Rows, Parts, Says, Facts, Initial
<1>1. \A w \in Openers \cup Captures, right \in BOOLEAN :
        Sees(w, right) => misled' \subseteq Openers \cup Captures
  BY DEF Sees, TypeOK
<1>2. \A w, table : table \in Rows \cup {"sessions", "current"} /\ Writes(w, table) =>
        misled' \subseteq Openers \cup Captures /\ clobbered' \subseteq Rows \cup {"sessions", "current"}
  BY DEF Writes, Relying, TypeOK
<1>3. \A fault : Strike(fault) => struck' \in 0..MaxFaults
  BY DEF Strike, TypeOK
<1>4. ASSUME NEW o \in Openers, Open(o) PROVE TypeOK'
  <2>1. Look("knowledge") \in Steps
    BY DEF Look, Step, Steps, Rows
  <2> QED
    BY <1>4, <2>1 DEF Open, TypeOK
<1>5. ASSUME NEW o \in Openers, NEW f \in Rows, LookRow(o, f) PROVE TypeOK'
  <2>1. opener' \in [Openers -> {Idle} \cup Steps]
    BY <1>0, <1>5, Phasing DEF LookRow, At
  <2>2. misled' \subseteq Openers \cup Captures /\ struck' \in 0..MaxFaults
    BY <1>1, <1>3, <1>5 DEF LookRow, TypeOK
  <2> QED
    BY <1>5, <2>1, <2>2 DEF LookRow, TypeOK
<1>6. ASSUME NEW o \in Openers, NEW f \in Rows, PassRow(o, f) \/ WriteRowFails(o, f) PROVE TypeOK'
  <2>1. opener' \in [Openers -> {Idle} \cup Steps]
    BY <1>0, <1>6, Going DEF PassRow, WriteRowFails
  <2>2. struck' \in 0..MaxFaults
    BY <1>3, <1>6 DEF PassRow, WriteRowFails, TypeOK
  <2> QED
    BY <1>6, <2>1, <2>2 DEF PassRow, WriteRowFails, TypeOK
<1>7. ASSUME NEW o \in Openers, NEW f \in Rows, WriteRow(o, f) PROVE TypeOK'
  <2>1. opener' \in [Openers -> {Idle} \cup Steps]
    BY <1>0, <1>7, Phasing DEF WriteRow, At
  <2>2. row' \in [Rows -> SUBSET Facts]
    BY <1>0, <1>7 DEF WriteRow, TypeOK
  <2>3. misled' \subseteq Openers \cup Captures /\ clobbered' \subseteq Rows \cup {"sessions", "current"}
    BY <1>2, <1>7 DEF WriteRow
  <2> QED
    BY <1>7, <2>1, <2>2, <2>3 DEF WriteRow, TypeOK
<1>8. ASSUME NEW o \in Openers, NEW f \in Rows \cup {"current"}, Rename(o, f) PROVE TypeOK'
  <2>1. opener' \in [Openers -> {Idle} \cup Steps]
    BY <1>0, <1>8, Going DEF Rename
  <2> QED
    BY <1>3, <1>8, <2>1 DEF Rename, TypeOK
<1>9. ASSUME NEW o \in Openers, ListSessions(o) PROVE TypeOK'
  <2>1. Step("sessions", "write", files, files) \in Steps
    BY DEF Step, Steps, TypeOK
  <2>2. misled' \subseteq Openers \cup Captures
    BY <1>1, <1>9 DEF ListSessions, NoBlocks
  <2>3. struck' \in 0..MaxFaults
    BY <1>3, <1>9 DEF ListSessions, TypeOK
  <2> QED
    BY <1>9, <2>1, <2>2, <2>3 DEF ListSessions, TypeOK
<1>10. ASSUME NEW o \in Openers, PassSessions(o) \/ InsertSessionFails(o) PROVE TypeOK'
  <2>1. opener' \in [Openers -> {Idle} \cup Steps]
    BY <1>0, <1>10, Going DEF PassSessions, InsertSessionFails
  <2> QED
    BY <1>3, <1>10, <2>1 DEF PassSessions, InsertSessionFails, TypeOK
<1>11. ASSUME NEW o \in Openers, InsertSession(o) PROVE TypeOK'
  <2>1. PICK s : s \in files /\ blocks[s] < MaxCopies /\ blocks' = [blocks EXCEPT ![s] = @ + 1] /\ Done(o, s)
    BY <1>11 DEF InsertSession
  <2>2. opener' \in [Openers -> {Idle} \cup Steps]
    BY <1>11, <2>1, Doing DEF InsertSession, At
  <2>3. blocks' \in [Sessions -> 0..MaxCopies]
    BY <2>1 DEF TypeOK
  <2>4. misled' \subseteq Openers \cup Captures /\ clobbered' \subseteq Rows \cup {"sessions", "current"}
    BY <1>2, <1>11 DEF InsertSession
  <2> QED
    BY <1>11, <2>2, <2>3, <2>4 DEF InsertSession, TypeOK
<1>12. ASSUME NEW o \in Openers, PassSession(o) PROVE TypeOK'
  <2> DEFINE s == Min(opener[o].todo)
  <2>1. opener' \in [Openers -> {Idle} \cup Steps]
    BY <1>12, Doing DEF PassSession, At
  <2>2. opener[o].todo \subseteq Sessions /\ opener[o].todo # {}
    BY <1>12, Tables DEF PassSession, At, TypeOK, Steps, Busy
  <2>3. skipped' \subseteq Sessions /\ struck' \in 0..MaxFaults
    <3>1. s \in Sessions
      BY <2>2, MinIn
    <3> QED
      BY <1>3, <1>12, <3>1 DEF PassSession, TypeOK
  <2> QED
    BY <1>12, <2>1, <2>2, <2>3 DEF PassSession, TypeOK
<1>13. ASSUME NEW o \in Openers, RenameSession(o) PROVE TypeOK'
  <2> DEFINE rest == opener[o].listed \ {Min(opener[o].listed)}
  <2>1. opener[o] \in Steps
    BY <1>13 DEF RenameSession, At, TypeOK
  <2>2. CASE GoOn(o, "sessions")
    BY <1>0, <1>3, <1>13, <2>2, Going DEF RenameSession, TypeOK
  <2>3. CASE opener' = [opener EXCEPT ![o].listed = rest]
    <3>1. [opener[o] EXCEPT !.listed = rest] \in Steps
      BY <2>1 DEF Steps
    <3>2. opener' \in [Openers -> {Idle} \cup Steps]
      BY <2>3, <3>1 DEF TypeOK
    <3> QED
      BY <1>3, <1>13, <3>2 DEF RenameSession, TypeOK
  <2> QED
    BY <1>13, <2>2, <2>3 DEF RenameSession
<1>14. ASSUME NEW o \in Openers, LookCurrent(o) PROVE TypeOK'
  <2>1. opener' \in [Openers -> {Idle} \cup Steps]
    BY <1>0, <1>14, Phasing DEF LookCurrent, At
  <2> QED
    BY <1>1, <1>14, <2>1 DEF LookCurrent, TypeOK
<1>15. ASSUME NEW o \in Openers, PassCurrent(o) \/ InsertNoteFails(o) PROVE TypeOK'
  <2>1. opener' \in [Openers -> {Idle} \cup Steps]
    BY <1>0, <1>15, Going DEF PassCurrent, InsertNoteFails
  <2>2. struck' \in 0..MaxFaults
    BY <1>3, <1>15 DEF PassCurrent, InsertNoteFails, TypeOK
  <2> QED
    BY <1>15, <2>1, <2>2 DEF PassCurrent, InsertNoteFails, TypeOK
<1>16. ASSUME NEW o \in Openers, InsertNote(o) PROVE TypeOK'
  <2>1. opener' \in [Openers -> {Idle} \cup Steps]
    BY <1>0, <1>16, Phasing DEF InsertNote, At
  <2>2. misled' \subseteq Openers \cup Captures /\ clobbered' \subseteq Rows \cup {"sessions", "current"}
    BY <1>2, <1>16 DEF InsertNote
  <2> QED
    BY <1>16, <2>1, <2>2 DEF InsertNote, TypeOK
<1>17. CASE FindNoHistory
  <2>1. opener' \in [Openers -> {Idle} \cup Steps] /\ Engine \in Openers
    BY <1>0, <1>17, Phasing DEF FindNoHistory, At, Openers
  <2>2. misled' \subseteq Openers \cup Captures /\ struck' \in 0..MaxFaults
    BY <1>1, <1>3, <1>17, <2>1 DEF FindNoHistory, TypeOK
  <2> QED
    BY <1>17, <2>1, <2>2 DEF FindNoHistory, TypeOK
<1>18. CASE WriteInitialHistory
  <2>1. row' \in [Rows -> SUBSET Facts]
    BY <1>0, <1>18 DEF WriteInitialHistory, TypeOK
  <2>2. opener' \in [Openers -> {Idle} \cup Steps]
    BY <1>18 DEF WriteInitialHistory, TypeOK
  <2>3. misled' \subseteq Openers \cup Captures /\ clobbered' \subseteq Rows \cup {"sessions", "current"}
    BY <1>0, <1>2, <1>18 DEF WriteInitialHistory, TypeOK
  <2>4. struck' \in 0..MaxFaults
    BY <1>3, <1>18 DEF WriteInitialHistory, TypeOK
  <2> QED
    BY <1>18, <2>1, <2>2, <2>3, <2>4 DEF WriteInitialHistory, TypeOK
<1>19. CASE FindHistory \/ Act
  BY <1>19 DEF FindHistory, Act, TypeOK
<1>20. ASSUME NEW c \in Captures, Summarise(c) PROVE TypeOK'
  <2>1. row["knowledge"] \in SUBSET Facts
    BY <1>0 DEF TypeOK
  <2>2. \E known \in SUBSET Facts : capture' = [capture EXCEPT ![c] = [at |-> "running", basis |-> known]]
    BY <1>20, <2>1 DEF Summarise, BuildCaptureRequest
  <2>3. misled' \subseteq Openers \cup Captures
    BY <1>1, <1>20 DEF Summarise, BuildCaptureRequest
  <2>4. struck' \in 0..MaxFaults
    BY <1>3, <1>20 DEF Summarise, BuildCaptureRequest, TypeOK
  <2>5. capture' \in [Captures -> {NotYet, Over} \cup [at : {"running"}, basis : SUBSET Facts]]
    BY <2>2 DEF TypeOK
  <2>6. acted' \in BOOLEAN /\ summed' \in BOOLEAN
    BY <1>20, Zenon DEF Summarise
  <2>7. current' \in Nat /\ consumed' \in Nat
    BY <1>20 DEF Summarise, TypeOK
  <2>8. UNCHANGED <<disk, row, blocks, alive, opener, clobbered, skipped>>
    BY <1>20 DEF Summarise
  <2> QED
    BY <2>3, <2>4, <2>5, <2>6, <2>7, <2>8 DEF TypeOK
<1>21. ASSUME NEW c \in Captures, CaptureEnds(c) PROVE TypeOK'
  <2>1. capture[c] \in [at : {"running"}, basis : SUBSET Facts]
    BY <1>21 DEF CaptureEnds, TypeOK, NotYet, Over
  <2>2. capture[c].basis \cup {c} \in SUBSET Facts
    BY <2>1 DEF Facts
  <2>3. row' \in [Rows -> SUBSET Facts]
    BY <1>0, <1>21, <2>2 DEF CaptureEnds, TypeOK
  <2>4. misled' \subseteq Openers \cup Captures /\ clobbered' \subseteq Rows \cup {"sessions", "current"}
    BY <1>0, <1>2, <1>21 DEF CaptureEnds
  <2>5. capture' \in [Captures -> {NotYet, Over} \cup [at : {"running"}, basis : SUBSET Facts]]
    BY <1>21 DEF CaptureEnds, TypeOK
  <2> QED
    BY <1>21, <2>3, <2>4, <2>5 DEF CaptureEnds, TypeOK
<1>22. ASSUME NEW c \in Captures, CaptureFails(c) PROVE TypeOK'
  <2>1. capture' \in [Captures -> {NotYet, Over} \cup [at : {"running"}, basis : SUBSET Facts]]
    BY <1>22 DEF CaptureFails, TypeOK
  <2> QED
    BY <1>22, <2>1 DEF CaptureFails, TypeOK
<1>23. CASE Crash
  <2>1. capture' \in [Captures -> {NotYet, Over} \cup [at : {"running"}, basis : SUBSET Facts]]
    BY <1>23 DEF Crash
  <2> QED
    BY <1>3, <1>23, <2>1 DEF Crash, TypeOK
<1>24. CASE UNCHANGED vars
  BY <1>24 DEF vars, TypeOK
<1> QED
  BY <1>4, <1>5, <1>6, <1>7, <1>8, <1>9, <1>10, <1>11, <1>12, <1>13, <1>14, <1>15, <1>16, <1>17, <1>18,
     <1>19, <1>20, <1>21, <1>22, <1>23, <1>24
     DEF Next, Row, Move, Session, Current, Birth, Capture

-----------------------------------------------------------------------------
(***************************************************************************)
(* LegacyKept and ImportedOnce rest on what an opener, or a capture, may   *)
(* believe: one that is not misled still sees the database as it is, and   *)
(* one that is about to rename a file has seen its text in the database.   *)
(***************************************************************************)

Kept(f) == Says[f] \subseteq row[f] \/ f \in clobbered
Imported(s) == blocks[s] > 0 \/ s \in skipped
Noted == current + consumed > 0

RowSound(o) ==
    /\ \A f \in Rows : At(o, f, "write") /\ o \notin misled => row[f] = {}
    /\ \A f \in Rows : At(o, f, "move") => Kept(f)
    /\ At(o, "birth", "write") /\ o \notin misled => row["history"] = {}
    /\ opener[o].at = "birth" => o = Engine

SessionsSound(o) ==
    /\ At(o, "sessions", "write") =>
          /\ opener[o].todo # {} /\ opener[o].todo \subseteq opener[o].listed
          /\ \A s \in opener[o].listed \ opener[o].todo : Imported(s)
          /\ o \notin misled /\ "sessions" \notin clobbered => \A s \in opener[o].todo : blocks[s] = 0
    /\ At(o, "sessions", "move") =>
          opener[o].listed # {} /\ \A s \in opener[o].listed : Imported(s)

CurrentSound(o) ==
    /\ At(o, "current", "write") /\ o \notin misled => current = 0
    /\ At(o, "current", "move") => Noted

Sound(o) == RowSound(o) /\ SessionsSound(o) /\ CurrentSound(o)

Knows(c) == capture[c].at = "running" /\ c \notin misled => capture[c].basis = row["knowledge"]

IInv ==
    /\ TypeOK /\ LegacyKept /\ ImportedOnce
    /\ \A o \in Openers : Sound(o)
    /\ \A c \in Captures : Knows(c)


\* What the database has been told, it still tells.
Monotone ==
    /\ \A f \in Rows : Kept(f) => Kept(f)'
    /\ \A s \in Sessions : Imported(s) => Imported(s)'
    /\ Noted => Noted'
    /\ clobbered \subseteq clobbered'

\* Nobody but w has had his picture of the database changed without being misled.
Fair(w) ==
    /\ \A u \in Openers : u # w /\ opener[u] # Idle /\ opener[u].phase # "look" /\ u \notin misled' =>
          /\ u \notin misled
          /\ \A f \in Rows : Table(opener[u].at) = f => row'[f] = row[f]
          /\ opener[u].at = "sessions" => blocks' = blocks
          /\ opener[u].at = "current" /\ current = 0 => current' = 0
    /\ \A c \in Captures : c # w /\ capture[c].at = "running" /\ c \notin misled' =>
          c \notin misled /\ row'["knowledge"] = row["knowledge"]

LEMMA OthersSound ==
  ASSUME IInv, Monotone, NEW w, Fair(w), NEW u \in Openers, u # w, opener'[u] = opener[u]
  PROVE  Sound(u)'
<1> USE DEF IInv, Sound, Monotone, At
<1>1. RowSound(u)'
  BY DEF RowSound, Fair, Table, Rows
<1>2. SessionsSound(u)'
  <2>1. opener[u] # Idle => opener[u].listed \subseteq Sessions
    BY DEF TypeOK, Steps
  <2> QED
    BY <2>1 DEF SessionsSound, Fair
<1>3. CurrentSound(u)'
  BY DEF CurrentSound, Fair
<1> QED
  BY <1>1, <1>2, <1>3

\* An opener that looks, or is gone, is going by nothing yet.
LEMMA Resting ==
  ASSUME NEW o, opener'[o] # Idle => opener'[o].phase = "look" /\ (opener'[o].at = "birth" => o = Engine)
  PROVE  Sound(o)'
BY DEF Sound, RowSound, SessionsSound, CurrentSound, At, Idle

\* The invariant after a step of opener o.
LEMMA OneSteps ==
  ASSUME IInv, TypeOK', Monotone, NEW o \in Openers, Others(o), Fair(o), Sound(o)', LegacyKept', ImportedOnce',
         capture' = capture
  PROVE  IInv'
<1>1. \A u \in Openers : Sound(u)'
  BY OthersSound DEF Others
<1>2. ASSUME NEW c \in Captures PROVE Knows(c)'
  <2>1. c # o
    BY LegacyAssumption
  <2> QED
    BY <2>1 DEF IInv, Knows, Fair
<1> QED
  BY <1>1, <1>2 DEF IInv

LEMMA KeptStays == IInv /\ Monotone /\ UNCHANGED disk => LegacyKept'
BY DEF IInv, Monotone, LegacyKept, Kept, Imported, Noted, disk

\* A step of opener o that leaves the database alone.
LEMMA Quiet ==
  ASSUME IInv, TypeOK', UNCHANGED <<disk, row, blocks, current, consumed, clobbered, capture>>,
         skipped \subseteq skipped', NEW o \in Openers, Others(o), Sound(o)',
         \A w : w \in misled /\ w # o => w \in misled'
  PROVE  IInv'
<1>1. Monotone
  BY DEF Monotone, Kept, Imported, Noted
<1>2. Fair(o)
  BY DEF Fair
<1>3. ImportedOnce'
  BY DEF IInv, ImportedOnce
<1> QED
  BY <1>1, <1>2, <1>3, KeptStays, OneSteps

\* Whoever relies on a table that is written is misled.
LEMMA Misleads ==
  ASSUME NEW w, NEW table, Writes(w, table)
  PROVE  /\ \A u : u # w /\ u \notin misled' => u \notin misled /\ u \notin Relying(table)
         /\ clobbered \subseteq clobbered' /\ w \notin misled'
         /\ w \in misled => table \in clobbered'
BY DEF Writes

LEMMA InvariantStep == IInv /\ [Next]_vars => IInv'
<1> SUFFICES ASSUME IInv, [Next]_vars PROVE IInv'
  OBVIOUS
<1>0. /\ TypeOK /\ TypeOK' /\ Engine \in Openers /\ \A f \in Rows : f \in Parts
      /\ "history" \in Rows /\ "knowledge" \in Rows
  <2>1. Busy
    BY DEF IInv, Sound, SessionsSound, Busy
  <2> QED
    BY <2>1, TypeStep DEF IInv, Openers, Rows, Parts
<1> USE <1>0, LegacyAssumption DEF disk, log, ghosts
<1>1. ASSUME NEW o \in Openers, Open(o) PROVE IInv'
  <2>1. Others(o) /\ opener'[o] = Look("knowledge")
    BY <1>1 DEF Open, Others, TypeOK
  <2>2. Sound(o)'
    BY <2>1, Resting DEF Look, Step
  <2> QED
    BY <1>1, <2>1, <2>2, Quiet DEF Open
<1>2. ASSUME NEW o \in Openers, NEW f \in Rows, LookRow(o, f) PROVE IInv'
  <2>1. /\ Others(o) /\ opener'[o].phase = "write" /\ opener'[o].at = f
        /\ o \notin misled' => row[f] = {}
        /\ \A w : w \in misled /\ w # o => w \in misled'
    BY <1>2, Phasing DEF LookRow, At, Sees
  <2>2. Sound(o)'
    BY <1>2, <2>1 DEF LookRow, Sound, RowSound, SessionsSound, CurrentSound, At, Rows
  <2> QED
    BY <1>2, <2>1, <2>2, Quiet DEF LookRow
<1>3. ASSUME NEW o \in Openers, NEW f \in Rows, PassRow(o, f) \/ WriteRowFails(o, f) PROVE IInv'
  <2>1. Others(o) /\ Sound(o)'
    BY <1>3, Going, Resting DEF PassRow, WriteRowFails
  <2> QED
    BY <1>3, <2>1, Quiet DEF PassRow, WriteRowFails
<1>4. ASSUME NEW o \in Openers, NEW f \in Rows, WriteRow(o, f) PROVE IInv'
  <2>1. /\ Others(o) /\ opener'[o].phase = "move" /\ opener'[o].at = f
        /\ row'[f] = Says[f] /\ \A g \in Rows : g # f => row'[g] = row[g]
        /\ UNCHANGED <<disk, blocks, current, consumed, capture, skipped>>
    BY <1>4, Phasing DEF WriteRow, At, TypeOK
  <2>2. /\ \A u : u # o /\ u \notin misled' => u \notin misled /\ u \notin Relying(f)
        /\ clobbered \subseteq clobbered'
    BY <1>4, Misleads DEF WriteRow
  <2>3. Monotone
    BY <2>1, <2>2 DEF Monotone, Kept, Imported, Noted
  <2>4. Fair(o)
    BY <2>1, <2>2 DEF Fair, Relying
  <2>5. Sound(o)'
    BY <2>1 DEF Sound, RowSound, SessionsSound, CurrentSound, At, Rows, Kept
  <2>6. ImportedOnce'
    BY <2>1, <2>2 DEF IInv, ImportedOnce
  <2> QED
    BY <2>1, <2>3, <2>4, <2>5, <2>6, KeptStays, OneSteps
<1>5. ASSUME NEW o \in Openers, NEW f \in Rows \cup {"current"}, Rename(o, f) PROVE IInv'
  <2>1. /\ UNCHANGED <<files, row, blocks, current, consumed, capture, misled, clobbered, skipped>>
        /\ there \ {f} \subseteq there'
    BY <1>5 DEF Rename
  <2>2. f \in Parts /\ GoOn(o, f)
    BY <1>5 DEF Rename, Parts, Rows
  <2>3. Others(o) /\ Sound(o)'
    BY <2>2, Going, Resting
  <2>4. IF f = "current" THEN Noted ELSE Kept(f)
    BY <1>5 DEF Rename, IInv, Sound, RowSound, CurrentSound
  <2>5. LegacyKept'
    BY <2>1, <2>4 DEF IInv, LegacyKept, Kept, Noted, Rows
  <2>6. Monotone /\ Fair(o) /\ ImportedOnce'
    BY <2>1 DEF Monotone, Kept, Imported, Noted, Fair, IInv, ImportedOnce
  <2> QED
    BY <2>1, <2>3, <2>5, <2>6, OneSteps
<1>6. ASSUME NEW o \in Openers, ListSessions(o) PROVE IInv'
  <2>1. /\ Others(o) /\ opener'[o] = Step("sessions", "write", files, files)
        /\ o \notin misled' => NoBlocks
        /\ \A w : w \in misled /\ w # o => w \in misled'
    BY <1>6 DEF ListSessions, Others, TypeOK, Sees
  <2>2. Sound(o)'
    BY <1>6, <2>1 DEF ListSessions, NoBlocks, TypeOK, Step, Sound, RowSound, SessionsSound, CurrentSound,
       At, Rows
  <2> QED
    BY <1>6, <2>1, <2>2, Quiet DEF ListSessions
<1>7. ASSUME NEW o \in Openers, PassSessions(o) \/ InsertSessionFails(o) PROVE IInv'
  <2>1. Others(o) /\ Sound(o)'
    BY <1>7, Going, Resting DEF PassSessions, InsertSessionFails, Parts
  <2> QED
    BY <1>7, <2>1, Quiet DEF PassSessions, InsertSessionFails
<1>8. ASSUME NEW o \in Openers, NEW s, At(o, "sessions", "write"), s = Min(opener[o].todo), Done(o, s)
      PROVE  /\ s \in opener[o].todo /\ s \in Sessions /\ Others(o) /\ opener'[o].at = "sessions"
             /\ opener'[o].todo = opener[o].todo \ {s} /\ opener'[o].listed = opener[o].listed
             /\ opener'[o].listed # {} /\ opener'[o].todo \subseteq opener'[o].listed
             /\ opener'[o].phase = IF opener'[o].todo = {} THEN "move" ELSE "write"
             /\ \A t \in opener'[o].listed \ opener'[o].todo : t = s \/ Imported(t)
  <2>1. opener[o].todo # {} /\ opener[o].todo \subseteq opener[o].listed
        /\ \A t \in opener[o].listed \ opener[o].todo : Imported(t)
    BY <1>8 DEF IInv, Sound, SessionsSound
  <2>2. opener[o].todo \subseteq Sessions
    BY <1>8 DEF At, TypeOK, Steps
  <2>3. s \in opener[o].todo
    BY <1>8, <2>1, <2>2, MinIn
  <2> QED
    BY <1>8, <2>1, <2>2, <2>3, Doing DEF At
<1>9. ASSUME NEW o \in Openers, InsertSession(o) PROVE IInv'
  <2>1. PICK s : /\ s = Min(opener[o].todo) /\ s \in files /\ Done(o, s)
                 /\ blocks' = [blocks EXCEPT ![s] = @ + 1]
    BY <1>9 DEF InsertSession
  <2>2. At(o, "sessions", "write") /\ UNCHANGED <<disk, row, current, consumed, capture, skipped>>
    BY <1>9 DEF InsertSession
  <2>3. /\ s \in opener[o].todo /\ s \in Sessions /\ Others(o) /\ opener'[o].at = "sessions"
        /\ opener'[o].todo = opener[o].todo \ {s} /\ opener'[o].listed # {}
        /\ opener'[o].todo \subseteq opener'[o].listed
        /\ opener'[o].phase = IF opener'[o].todo = {} THEN "move" ELSE "write"
        /\ \A t \in opener'[o].listed \ opener'[o].todo : t = s \/ Imported(t)
    BY <1>8, <2>1, <2>2
  <2>4. /\ \A u : u # o /\ u \notin misled' => u \notin misled /\ u \notin Relying("sessions")
        /\ clobbered \subseteq clobbered' /\ (o \in misled => "sessions" \in clobbered')
    BY <1>9, Misleads DEF InsertSession
  <2>5. /\ \A t \in Sessions : blocks[t] \in Nat /\ blocks'[t] = IF t = s THEN blocks[t] + 1 ELSE blocks[t]
        /\ opener[o].todo \subseteq Sessions /\ opener'[o].listed \subseteq Sessions
    <3>1. opener'[o].listed = opener[o].listed
      BY <1>8, <2>1, <2>2
    <3> QED
      BY <2>1, <2>2, <2>3, <3>1 DEF TypeOK, Steps, At
  <2>6. Monotone /\ Imported(s)'
    BY <2>2, <2>3, <2>4, <2>5 DEF Monotone, Kept, Imported, Noted
  <2>7. Fair(o)
    BY <2>2, <2>4 DEF Fair, Relying, Table
  <2>8. "sessions" \notin clobbered' => \A t \in opener[o].todo : blocks[t] = 0
    BY <2>2, <2>4 DEF IInv, Sound, SessionsSound
  <2>9. Sound(o)'
    <3>1. \A t \in opener'[o].listed \ opener'[o].todo : Imported(t)'
      BY <2>3, <2>5, <2>6 DEF Monotone
    <3>2. "sessions" \notin clobbered' => \A t \in opener'[o].todo : blocks'[t] = 0
      BY <2>3, <2>5, <2>8
    <3> QED
      BY <2>3, <3>1, <3>2 DEF Sound, RowSound, SessionsSound, CurrentSound, At, Rows
  <2>10. ImportedOnce'
    BY <2>2, <2>3, <2>4, <2>5, <2>8 DEF IInv, ImportedOnce
  <2> QED
    BY <2>2, <2>3, <2>6, <2>7, <2>9, <2>10, KeptStays, OneSteps
<1>10. ASSUME NEW o \in Openers, PassSession(o) PROVE IInv'
  <2>1. PICK s : /\ s = Min(opener[o].todo) /\ Done(o, s)
                 /\ (s \notin files /\ skipped' = skipped) \/ skipped' = skipped \cup {s}
    BY <1>10 DEF PassSession
  <2>2. /\ At(o, "sessions", "write")
        /\ UNCHANGED <<disk, row, blocks, current, consumed, capture, misled, clobbered>>
    BY <1>10 DEF PassSession
  <2>3. /\ s \in opener[o].todo /\ s \in Sessions /\ Others(o) /\ opener'[o].at = "sessions"
        /\ opener'[o].todo = opener[o].todo \ {s} /\ opener'[o].listed # {}
        /\ opener'[o].todo \subseteq opener'[o].listed
        /\ opener'[o].phase = IF opener'[o].todo = {} THEN "move" ELSE "write"
        /\ \A t \in opener'[o].listed \ opener'[o].todo : t = s \/ Imported(t)
    BY <1>8, <2>1, <2>2
  <2>4. Imported(s)'
    BY <2>1, <2>2, <2>3 DEF IInv, LegacyKept, Imported
  <2>5. \A t : Imported(t) => Imported(t)'
    BY <2>1, <2>2 DEF Imported
  <2>6. o \notin misled' /\ "sessions" \notin clobbered' => \A t \in opener[o].todo : blocks[t] = 0
    BY <2>2 DEF IInv, Sound, SessionsSound
  <2>7. Sound(o)'
    BY <2>2, <2>3, <2>4, <2>5, <2>6 DEF Sound, RowSound, SessionsSound, CurrentSound, At, Rows
  <2> QED
    BY <2>1, <2>2, <2>3, <2>7, Quiet
<1>11. ASSUME NEW o \in Openers, RenameSession(o) PROVE IInv'
  <2> DEFINE s == Min(opener[o].listed)
  <2>1. /\ UNCHANGED <<there, row, blocks, current, consumed, capture, misled, clobbered, skipped>>
        /\ At(o, "sessions", "move") /\ files \ {s} \subseteq files'
    BY <1>11 DEF RenameSession
  <2>2. opener[o] \in Steps
    BY <2>1 DEF At, TypeOK
  <2>3. opener[o].listed # {} /\ opener[o].listed \subseteq Sessions
        /\ \A t \in opener[o].listed : Imported(t)
    BY <2>1, <2>2 DEF IInv, Sound, SessionsSound, Steps
  <2>4. s \in opener[o].listed
    BY <2>3, MinIn
  <2>5. Others(o) /\ Sound(o)'
    <3>1. CASE GoOn(o, "sessions")
      BY <3>1, Going, Resting DEF Parts
    <3>2. CASE opener[o].listed # {s} /\ opener' = [opener EXCEPT ![o].listed = @ \ {s}]
      <4>1. /\ Others(o) /\ opener'[o].at = "sessions" /\ opener'[o].phase = "move"
            /\ opener'[o].listed = opener[o].listed \ {s}
        BY <2>1, <2>2, <3>2 DEF TypeOK, Steps, At, Others
      <4>2. \A t \in opener'[o].listed : Imported(t)'
        BY <2>1, <2>3, <4>1 DEF Imported
      <4>3. opener'[o].listed # {}
        BY <2>3, <2>4, <3>2, <4>1
      <4> QED
        BY <4>1, <4>2, <4>3 DEF Sound, RowSound, SessionsSound, CurrentSound, At, Rows
    <3> QED
      BY <1>11, <3>1, <3>2 DEF RenameSession
  <2>6. LegacyKept'
    BY <2>1, <2>3, <2>4 DEF IInv, LegacyKept, Imported
  <2>7. Monotone /\ Fair(o) /\ ImportedOnce'
    BY <2>1 DEF Monotone, Kept, Imported, Noted, Fair, IInv, ImportedOnce
  <2> QED
    BY <2>1, <2>5, <2>6, <2>7, OneSteps
<1>12. ASSUME NEW o \in Openers, LookCurrent(o) PROVE IInv'
  <2>1. /\ Others(o) /\ opener'[o].phase = "write" /\ opener'[o].at = "current"
        /\ \A w : w \in misled /\ w # o => w \in misled'
    BY <1>12, Phasing DEF LookCurrent, At, Sees
  <2>2. Sound(o)'
    BY <1>12, <2>1 DEF LookCurrent, NothingCurrent, Sound, RowSound, SessionsSound, CurrentSound, At, Rows
  <2> QED
    BY <1>12, <2>1, <2>2, Quiet DEF LookCurrent
<1>13. ASSUME NEW o \in Openers, PassCurrent(o) \/ InsertNoteFails(o) PROVE IInv'
  <2>1. Others(o) /\ Sound(o)'
    BY <1>13, Going, Resting DEF PassCurrent, InsertNoteFails, Parts
  <2> QED
    BY <1>13, <2>1, Quiet DEF PassCurrent, InsertNoteFails
<1>14. ASSUME NEW o \in Openers, InsertNote(o) PROVE IInv'
  <2>1. /\ Others(o) /\ opener'[o].phase = "move" /\ opener'[o].at = "current"
        /\ current' = current + 1 /\ UNCHANGED <<disk, row, blocks, consumed, capture, skipped>>
        /\ o \notin misled => current = 0
    BY <1>14, Phasing DEF InsertNote, At, IInv, Sound, CurrentSound
  <2>2. /\ \A u : u # o /\ u \notin misled' => u \notin misled /\ u \notin Relying("current")
        /\ clobbered \subseteq clobbered' /\ (o \in misled => "current" \in clobbered')
    BY <1>14, Misleads DEF InsertNote
  <2>3. Monotone /\ Noted'
    BY <2>1, <2>2 DEF Monotone, Kept, Imported, Noted, TypeOK
  <2>4. Fair(o)
    BY <2>1, <2>2 DEF Fair, Relying, Table
  <2>5. Sound(o)'
    BY <2>1, <2>3 DEF Sound, RowSound, SessionsSound, CurrentSound, At, Rows
  <2>6. ImportedOnce'
    BY <2>1, <2>2 DEF IInv, ImportedOnce
  <2> QED
    BY <2>1, <2>3, <2>4, <2>5, <2>6, KeptStays, OneSteps
<1>15. CASE FindNoHistory
  <2>1. /\ Others(Engine) /\ opener'[Engine].phase = "write" /\ opener'[Engine].at = "birth"
        /\ Engine \notin misled' => row["history"] = {}
        /\ \A w : w \in misled /\ w # Engine => w \in misled'
    BY <1>15, Phasing DEF FindNoHistory, At, Sees
  <2>2. Sound(Engine)'
    BY <1>15, <2>1 DEF FindNoHistory, Sound, RowSound, SessionsSound, CurrentSound, At, Rows
  <2> QED
    BY <1>15, <2>1, <2>2, Quiet DEF FindNoHistory
<1>16. CASE WriteInitialHistory \/ FindHistory
  <2>1. Others(Engine) /\ opener'[Engine] = Idle /\ Sound(Engine)'
    <3>1. Others(Engine) /\ opener'[Engine] = Idle
      BY <1>16 DEF WriteInitialHistory, FindHistory, Others, TypeOK
    <3> QED
      BY <3>1, Resting
  <2>2. CASE UNCHANGED <<row, misled, clobbered>>
    BY <1>16, <2>1, <2>2, Quiet DEF WriteInitialHistory, FindHistory
  <2>3. CASE WriteInitialHistory /\ ~UNCHANGED <<row, misled, clobbered>>
    <3>1. /\ At(Engine, "birth", "write") /\ Writes(Engine, "history")
          /\ row' = [row EXCEPT !["history"] = Initial]
          /\ UNCHANGED <<disk, blocks, current, consumed, capture, skipped>>
      BY <2>3 DEF WriteInitialHistory
    <3>2. row'["knowledge"] = row["knowledge"]
      BY <3>1 DEF TypeOK
    <3>3. /\ \A u : u # Engine /\ u \notin misled' => u \notin misled /\ u \notin Relying("history")
          /\ clobbered \subseteq clobbered' /\ (Engine \in misled => "history" \in clobbered')
      BY <3>1, Misleads
    <3>4. Kept("history") => "history" \in clobbered'
      BY <3>1, <3>3 DEF Kept, Says, IInv, Sound, RowSound
    <3>5. Monotone
      BY <3>1, <3>2, <3>3, <3>4 DEF Monotone, Kept, Imported, Noted, Rows
    <3>6. Fair(Engine)
      BY <3>1, <3>2, <3>3 DEF Fair, Relying, Rows
    <3>7. ImportedOnce'
      BY <3>1, <3>3 DEF IInv, ImportedOnce
    <3> QED
      BY <2>1, <3>1, <3>5, <3>6, <3>7, KeptStays, OneSteps
  <2> QED
    BY <1>16, <2>2, <2>3 DEF FindHistory
<1>17. CASE Act \/ UNCHANGED vars
  <2>1. UNCHANGED <<disk, row, blocks, current, consumed, clobbered, capture, skipped, opener, misled>>
    BY <1>17 DEF Act, vars
  <2>2. Sound(Engine)'
    BY <2>1 DEF IInv, Sound, RowSound, SessionsSound, CurrentSound, At, Kept, Imported, Noted
  <2> QED
    BY <2>1, <2>2, Quiet DEF Others
<1>18. ASSUME NEW c \in Captures, Summarise(c) \/ CaptureEnds(c) \/ CaptureFails(c) PROVE IInv'
  <2>1. /\ UNCHANGED <<disk, blocks, opener, skipped>> /\ c \notin Openers
        /\ \A d \in Captures : d # c => capture'[d] = capture[d]
    BY <1>18 DEF Summarise, BuildCaptureRequest, CaptureEnds, CaptureFails, TypeOK
  <2>2. Monotone /\ Fair(c) /\ Knows(c)' /\ ImportedOnce'
    <3>1. CASE Summarise(c)
      <4>1. /\ current' = 0 /\ consumed' = consumed + current /\ UNCHANGED <<row, clobbered>>
            /\ \A w : w # c /\ w \notin misled' => w \notin misled
        BY <3>1 DEF Summarise, BuildCaptureRequest, Sees
      <4>2. Monotone
        BY <2>1, <4>1 DEF Monotone, Kept, Imported, Noted, TypeOK
      <4>3. Fair(c) /\ ImportedOnce'
        BY <2>1, <4>1 DEF Fair, IInv, ImportedOnce
      <4>4. Knows(c)'
        <5>1. \E known : /\ capture'[c] = [at |-> "running", basis |-> known]
                         /\ c \notin misled' => known = row["knowledge"]
          BY <3>1 DEF Summarise, BuildCaptureRequest, Sees, TypeOK
        <5> QED
          BY <4>1, <5>1 DEF Knows
      <4> QED
        BY <4>2, <4>3, <4>4
    <3>2. CASE CaptureEnds(c)
      <4>1. /\ Writes(c, "knowledge") /\ UNCHANGED <<current, consumed>> /\ capture'[c] = Over
            /\ capture[c].at = "running"
            /\ row' = [row EXCEPT !["knowledge"] = capture[c].basis \cup {c}]
        BY <3>2 DEF CaptureEnds, TypeOK
      <4>2. row'["history"] = row["history"] /\ row'["knowledge"] = capture[c].basis \cup {c}
        BY <4>1 DEF TypeOK
      <4>3. /\ \A u : u # c /\ u \notin misled' => u \notin misled /\ u \notin Relying("knowledge")
            /\ clobbered \subseteq clobbered' /\ (c \in misled => "knowledge" \in clobbered')
        BY <4>1, Misleads
      <4>4. Kept("knowledge") => Kept("knowledge")'
        BY <4>1, <4>2, <4>3 DEF Kept, IInv, Knows
      <4>5. Monotone
        BY <2>1, <4>1, <4>2, <4>3, <4>4 DEF Monotone, Kept, Imported, Noted, Rows
      <4>6. Fair(c)
        BY <2>1, <4>1, <4>2, <4>3 DEF Fair, Relying, Rows
      <4>7. Knows(c)' /\ ImportedOnce'
        BY <2>1, <4>1, <4>3 DEF Knows, Over, IInv, ImportedOnce
      <4> QED
        BY <4>5, <4>6, <4>7
    <3>3. CASE CaptureFails(c)
      <4>1. /\ UNCHANGED <<row, current, consumed, clobbered>> /\ capture'[c] = Over
            /\ \A w : w # c /\ w \notin misled' => w \notin misled
        BY <3>3 DEF CaptureFails, TypeOK
      <4> QED
        BY <2>1, <4>1 DEF Monotone, Kept, Imported, Noted, Fair, Knows, Over, IInv, ImportedOnce
    <3> QED
      BY <1>18, <3>1, <3>2, <3>3
  <2>3. \A u \in Openers : Sound(u)'
    BY <2>1, <2>2, OthersSound
  <2>4. ASSUME NEW d \in Captures PROVE Knows(d)'
    <3>1. CASE d = c
      BY <2>2, <3>1
    <3>2. CASE d # c
      BY <2>1, <2>2, <3>2 DEF IInv, Knows, Fair
    <3> QED
      BY <3>1, <3>2
  <2> QED
    BY <2>1, <2>2, <2>3, <2>4, KeptStays DEF IInv
<1>19. CASE Crash
  <2>1. /\ UNCHANGED <<disk, row, blocks, current, consumed, clobbered, skipped>>
        /\ \A o \in Openers : opener'[o] = Idle
        /\ \A c \in Captures : capture'[c] = NotYet \/ capture'[c] = Over
    BY <1>19 DEF Crash
  <2>2. \A o \in Openers : Sound(o)'
    BY <2>1, Resting
  <2>3. \A c \in Captures : Knows(c)'
    BY <2>1 DEF Knows, NotYet, Over
  <2>4. LegacyKept' /\ ImportedOnce'
    BY <2>1 DEF IInv, LegacyKept, ImportedOnce
  <2> QED
    BY <2>2, <2>3, <2>4 DEF IInv
<1> QED
  BY <1>1, <1>2, <1>3, <1>4, <1>5, <1>6, <1>7, <1>9, <1>10, <1>11, <1>12, <1>13, <1>14, <1>15, <1>16,
     <1>17, <1>18, <1>19
     DEF Next, Row, Move, Session, Current, Birth, Capture

LEMMA InvariantInit == Init => IInv
<1> SUFFICES ASSUME Init PROVE IInv
  OBVIOUS
<1>1. LegacyKept /\ ImportedOnce
  BY DEF Init, LegacyKept, ImportedOnce, Rows
<1>2. \A o \in Openers : Sound(o)
  BY DEF Init, Sound, RowSound, SessionsSound, CurrentSound, At, Idle
<1>3. \A c \in Captures : Knows(c)
  BY DEF Init, Knows, NotYet
<1> QED
  BY <1>1, <1>2, <1>3, TypeInit DEF IInv

THEOREM Invariant == Spec => []IInv
BY InvariantInit, InvariantStep, PTL DEF Spec

\* Every variable always holds a value of its type.
THEOREM TypeCorrect == Spec => []TypeOK
<1>1. IInv => TypeOK
  BY DEF IInv
<1> QED
  BY <1>1, Invariant, PTL

\* However often the migration fails, is killed or runs twice at once, the database holds
\* what a file said before the file is renamed, with the exceptions LegacyKept names.
THEOREM LegacyIsKept == Spec => []LegacyKept
<1>1. IInv => LegacyKept
  BY DEF IInv
<1> QED
  BY <1>1, Invariant, PTL

\* Opening an instance again imports nothing again, unless two opens met (migrate.rs:4).
THEOREM MigrationIsIdempotent == Spec => []ImportedOnce
<1>1. IInv => ImportedOnce
  BY DEF IInv
<1> QED
  BY <1>1, Invariant, PTL


\* Knowledge is only added to, but by one whose picture of it is wrong: the step that
\* takes something back is the one with which a misled writer ends.
THEOREM NothingIsUnlearned == Spec => NothingUnlearned
<1>1. IInv /\ [Next]_vars => [row.knowledge \subseteq row'.knowledge \/ misled \ misled' # {}]_vars
  <2> SUFFICES ASSUME IInv, Next PROVE row["knowledge"] \subseteq row'["knowledge"] \/ misled \ misled' # {}
    BY DEF vars
  <2>1. ASSUME NEW o \in Openers, NEW f \in Rows, WriteRow(o, f)
        PROVE  row["knowledge"] \subseteq row'["knowledge"] \/ misled \ misled' # {}
    <3>1. o \in misled => o \in misled \ misled'
      BY <2>1, Misleads DEF WriteRow
    <3>2. o \notin misled => row[f] = {}
      BY <2>1 DEF WriteRow, IInv, Sound, RowSound
    <3>3. f # "knowledge" => row'["knowledge"] = row["knowledge"]
      BY <2>1, Tables DEF WriteRow, IInv, TypeOK
    <3> QED
      BY <3>1, <3>2, <3>3
  <2>2. ASSUME NEW c \in Captures, CaptureEnds(c)
        PROVE  row["knowledge"] \subseteq row'["knowledge"] \/ misled \ misled' # {}
    <3>1. c \in misled => c \in misled \ misled'
      BY <2>2, Misleads DEF CaptureEnds
    <3>2. c \notin misled => capture[c].basis = row["knowledge"]
      BY <2>2 DEF CaptureEnds, IInv, Knows
    <3>3. row'["knowledge"] = capture[c].basis \cup {c}
      BY <2>2, Tables DEF CaptureEnds, IInv, TypeOK
    <3> QED
      BY <3>1, <3>2, <3>3
  <2>3. CASE row'["knowledge"] = row["knowledge"]
    BY <2>3
  <2>4. CASE WriteInitialHistory
    BY <2>3, <2>4, Tables DEF WriteInitialHistory, IInv, TypeOK
  <2>5. ASSUME NEW o \in Openers, Open(o) \/ Move(o) \/ Session(o) \/ Current(o) PROVE row' = row
    BY <2>5 DEF Open, Move, Rename, Session, ListSessions, PassSessions, InsertSession, PassSession,
       InsertSessionFails, RenameSession, Current, LookCurrent, PassCurrent, InsertNote, InsertNoteFails
  <2>6. ASSUME NEW o \in Openers, NEW f \in Rows, LookRow(o, f) \/ PassRow(o, f) \/ WriteRowFails(o, f)
        PROVE  row' = row
    BY <2>6 DEF LookRow, PassRow, WriteRowFails
  <2>7. ASSUME NEW c \in Captures, Summarise(c) \/ CaptureFails(c) PROVE row' = row
    BY <2>7 DEF Summarise, CaptureFails
  <2>8. CASE FindNoHistory \/ FindHistory \/ Act \/ Crash
    BY <2>8 DEF FindNoHistory, FindHistory, Act, Crash
  <2> QED
    BY <2>1, <2>2, <2>3, <2>4, <2>5, <2>6, <2>7, <2>8 DEF Next, Row, Birth, Capture
<1> QED
  BY <1>1, Invariant, PTL DEF Spec, NothingUnlearned

-----------------------------------------------------------------------------
(***************************************************************************)
(* Where no fault strikes, the engine never leaves a part of the migration *)
(* before its text is in the database or on its way there.                 *)
(***************************************************************************)

Past(parts) == alive \/ opener[Engine].at \in parts
Coming(s) == \E r \in Requests : opener[r] # Idle /\ s \in opener[r].todo

Progress ==
    /\ Past({"history", "sessions", "current", "birth"}) => row["knowledge"] # {}
    /\ Past({"sessions", "current", "birth"}) => row["history"] # {}
    /\ Past({"current", "birth"}) => \A s \in Sessions : blocks[s] > 0 \/ Coming(s)
    /\ Past({"birth"}) => Noted

InPlace(o) ==
    /\ opener[o] # Idle /\ opener[o].todo # {} => At(o, "sessions", "write")
    /\ \A f \in Rows : At(o, f, "move") => row[f] # {}
    /\ At(o, "sessions", "write") => \A s \in Sessions : s \in opener[o].todo \/ blocks[s] > 0
    /\ At(o, "sessions", "move") => \A s \in Sessions : blocks[s] > 0

\* Once one session file is imported, somebody is importing all the others.
AllOrNone ==
    (\E s \in Sessions : blocks[s] > 0) =>
        \A s \in Sessions : blocks[s] > 0 \/ \E o \in Openers : opener[o] # Idle /\ s \in opener[o].todo

Texts ==
    /\ skipped = {}
    /\ \A f \in Rows \ there : row[f] # {}
    /\ row["history"] \in {{}, Says["history"]}
    /\ row["knowledge"] # {} => Says["knowledge"] \subseteq row["knowledge"]
    /\ \A c \in Captures : capture[c].at = "running" => Says["knowledge"] \subseteq capture[c].basis

Unharmed ==
    /\ Texts /\ AllOrNone /\ Progress
    /\ \A o \in Openers : InPlace(o)
    /\ alive => opener[Engine] = Idle
    /\ acted \/ summed \/ (\E c \in Captures : capture[c] # NotYet) => alive
    /\ ~At(Engine, "birth", "write")

AllWell == struck = 0 => Unharmed

\* What the database has, it keeps.
Grows ==
    /\ \A f \in Rows : row[f] # {} => row'[f] # {}
    /\ \A s \in Sessions : blocks[s] > 0 => blocks'[s] > 0
    /\ Noted => Noted'

\* A file an opener was going to import is imported when he no longer is.
Imports(o) ==
    \A s \in Sessions : opener[o] # Idle /\ s \in opener[o].todo =>
        blocks'[s] > 0 \/ (opener'[o] # Idle /\ s \in opener'[o].todo)

LEMMA InPlaceKept ==
  ASSUME Grows, NEW u, InPlace(u), opener'[u] = opener[u]
  PROVE  InPlace(u)'
BY DEF Grows, InPlace, At

\* Nobody is at work in a part he only looks at.
LEMMA NothingToDo ==
  ASSUME NEW o, InPlace(o), opener[o] # Idle, ~At(o, "sessions", "write")
  PROVE  opener[o].todo = {}
BY DEF InPlace

\* Whatever an opener does, the files somebody was going to import still come.
LEMMA StillComing ==
  ASSUME NEW o \in Openers, Others(o), Imports(o), Grows
  PROVE  /\ \A s \in Sessions : Coming(s) => blocks'[s] > 0 \/ Coming(s)'
         /\ (\E s \in Sessions : blocks[s] > 0) /\ AllOrNone => AllOrNone'
BY DEF Others, Imports, Grows, Coming, AllOrNone, Openers

LEMMA ProgressKept ==
  ASSUME Progress, Grows, \A s \in Sessions : Coming(s) => blocks'[s] > 0 \/ Coming(s)',
         \/ alive' = alive /\ opener'[Engine].at = opener[Engine].at
         \/ alive' = alive /\ opener'[Engine].at \in {"idle", "knowledge"}
         \/ opener[Engine].at = "birth"
  PROVE  Progress'
<1>1. \A f \in Rows : row[f] # {} => row'[f] # {}
  BY DEF Grows
<1>2. "knowledge" \in Rows /\ "history" \in Rows
  BY DEF Rows
<1>3. CASE opener[Engine].at = "birth"
  BY <1>1, <1>2, <1>3 DEF Progress, Past, Grows
<1>4. CASE opener[Engine].at # "birth"
  BY <1>1, <1>2, <1>4 DEF Progress, Past, Grows
<1> QED
  BY <1>3, <1>4

\* What the engine must have found when it leaves a part.
Reached(part) ==
    /\ part \in Rows => row[part] # {}
    /\ part = "sessions" => \A s \in Sessions : blocks[s] > 0 \/ Coming(s)
    /\ part = "current" => Noted

LEMMA ProgressNext ==
  ASSUME TypeOK, Progress, Grows, \A s \in Sessions : Coming(s) => blocks'[s] > 0 \/ Coming(s)',
         Engine \in Openers, NEW part \in Parts, opener[Engine].at = part, GoOn(Engine, part),
         alive' = alive, ~alive, Reached(part)'
  PROVE  Progress'
<1>1. \A f \in Rows : row[f] # {} => row'[f] # {}
  BY DEF Grows
<1>2. opener'[Engine] # Idle
      /\ opener'[Engine].at = (CASE part = "knowledge" -> "history" [] part = "history" -> "sessions"
                                 [] part = "sessions" -> "current" [] part = "current" -> "birth")
  BY Going
<1>3. CASE part = "knowledge"
  BY <1>2, <1>3 DEF Progress, Past, Reached, Rows
<1>4. CASE part = "history"
  BY <1>1, <1>2, <1>4 DEF Progress, Past, Reached, Rows
<1>5. CASE part = "sessions"
  BY <1>1, <1>2, <1>5 DEF Progress, Past, Reached, Rows
<1>6. CASE part = "current"
  BY <1>1, <1>2, <1>6 DEF Progress, Past, Reached, Rows, Grows
<1> QED
  BY <1>3, <1>4, <1>5, <1>6 DEF Parts

\* The invariant after a step of opener o, who is not done with the instance.
LEMMA OneInPlace ==
  ASSUME IInv, Unharmed, NEW o \in Openers, Others(o), InPlace(o)', Grows, Texts', Progress', AllOrNone',
         UNCHANGED <<alive, acted, summed, capture>>, o = Engine => ~alive,
         ~At(o, "birth", "write")'
  PROVE  Unharmed'
<1>1. \A u \in Openers : InPlace(u)'
  BY InPlaceKept DEF Others, Unharmed
<1>2. alive' => opener'[Engine] = Idle
  BY DEF Unharmed, Others, Openers
<1>3. ~At(Engine, "birth", "write")'
  BY DEF Unharmed, Others, Openers, At
<1> QED
  BY <1>1, <1>2, <1>3 DEF Unharmed

\* An opener that leaves a part leaves it to nobody.
LEMMA LeavesPart ==
  ASSUME IInv, Unharmed, NEW o \in Openers, NEW part \in Parts, GoOn(o, part), opener[o] # Idle,
         opener[o].at = part, opener[o].phase # "write" \/ part # "sessions",
         UNCHANGED <<row, files, blocks, current, consumed, skipped, alive, acted, summed, capture>>,
         \A f \in there \ there' : f \in Rows => row[f] # {},
         o = Engine => Reached(part)
  PROVE  Unharmed'
<1>1. TypeOK /\ Engine \in Openers
  BY DEF IInv, Openers
<1>2. Others(o) /\ (opener'[o] # Idle => opener'[o].phase = "look" /\ opener'[o].todo = {})
  BY <1>1, Going
<1>3. opener[o].todo = {}
  BY NothingToDo DEF Unharmed, At
<1>4. Grows /\ Imports(o) /\ InPlace(o)' /\ ~At(o, "birth", "write")'
  BY <1>2, <1>3 DEF Grows, Noted, Imports, InPlace, At
<1>5. o = Engine => ~alive
  BY DEF Unharmed
<1>6. Texts'
  BY DEF Unharmed, Texts
<1>7. /\ \A s \in Sessions : Coming(s) => blocks'[s] > 0 \/ Coming(s)'
      /\ AllOrNone'
  BY <1>2, <1>4, StillComing DEF Unharmed, AllOrNone
<1>8. Progress'
  <2>1. CASE o = Engine
    <3>1. Reached(part)'
      BY <1>7, <2>1 DEF Reached, Noted
    <3> QED
      BY <1>1, <1>4, <1>5, <1>7, <2>1, <3>1, ProgressNext DEF Unharmed
  <2>2. CASE o # Engine
    BY <1>1, <1>2, <1>4, <1>7, <2>2, ProgressKept DEF Unharmed, Others
  <2> QED
    BY <2>1, <2>2
<1> QED
  BY <1>2, <1>4, <1>5, <1>6, <1>7, <1>8, OneInPlace

\* An opener that goes on within a part, in which it has or finds nothing to import.
LEMMA StaysInPart ==
  ASSUME IInv, Unharmed, NEW o \in Openers, Others(o), opener[o] # Idle, opener'[o] # Idle,
         opener'[o].at = opener[o].at, InPlace(o)', Grows, Imports(o), Texts', AllOrNone',
         UNCHANGED <<alive, acted, summed, capture>>,
         ~At(o, "birth", "write")'
  PROVE  Unharmed'
<1>1. o = Engine => ~alive
  BY DEF Unharmed
<1>2. Engine \in Openers
  BY DEF Openers
<1>3. Progress'
  <2>1. opener'[Engine].at = opener[Engine].at
    BY <1>2 DEF Others
  <2> QED
    BY <2>1, StillComing, ProgressKept DEF Unharmed
<1> QED
  BY <1>1, <1>3, OneInPlace

LEMMA UnharmedStep ==
  ASSUME IInv, IInv', struck = 0, struck' = 0, Unharmed, [Next]_vars
  PROVE  Unharmed'
<1>0. /\ TypeOK /\ TypeOK' /\ Engine \in Openers /\ (\A f \in Rows : f \in Parts)
      /\ "history" \in Rows /\ "knowledge" \in Rows /\ (\A fault : ~Strike(fault))
  BY DEF IInv, Openers, Rows, Parts, Strike
<1> USE <1>0, LegacyAssumption DEF disk, log, ghosts
<1>1. ASSUME NEW o \in Openers, Open(o) PROVE Unharmed'
  <2>1. /\ Others(o) /\ opener'[o] = Look("knowledge") /\ opener[o] = Idle
        /\ UNCHANGED <<disk, row, blocks, log, alive, capture, ghosts>> /\ (o = Engine => ~alive)
    BY <1>1 DEF Open, Others, TypeOK
  <2>2. /\ opener'[o].phase = "look" /\ opener'[o].todo = {} /\ opener'[o].at = "knowledge"
    BY <2>1 DEF Look, Step
  <2>3. Grows /\ Imports(o) /\ InPlace(o)' /\ Texts' /\ ~At(o, "birth", "write")'
    BY <2>1, <2>2 DEF Grows, Noted, Imports, InPlace, At, Unharmed, Texts
  <2>4. AllOrNone' /\ \A s \in Sessions : Coming(s) => blocks'[s] > 0 \/ Coming(s)'
    BY <2>1, <2>3, StillComing DEF Unharmed, AllOrNone
  <2>5. Progress'
    BY <2>1, <2>2, <2>3, <2>4, ProgressKept DEF Unharmed, Others
  <2> QED
    BY <2>1, <2>3, <2>4, <2>5, OneInPlace
<1>2. ASSUME NEW o \in Openers, NEW f \in Rows, LookRow(o, f) PROVE Unharmed'
  <2>1. /\ Others(o) /\ opener[o] # Idle /\ opener'[o] # Idle /\ opener'[o].at = opener[o].at
        /\ opener'[o].at = f /\ opener'[o].phase = "write" /\ opener'[o].todo = opener[o].todo
        /\ UNCHANGED <<disk, row, blocks, log, alive, capture, skipped>> /\ opener[o].phase = "look"
    BY <1>2, Phasing DEF LookRow, At
  <2>2. opener[o].todo = {}
    BY <2>1, NothingToDo DEF Unharmed, At
  <2>3. Grows /\ Imports(o) /\ InPlace(o)' /\ Texts' /\ ~At(o, "birth", "write")'
    BY <2>1, <2>2 DEF Grows, Noted, Imports, InPlace, At, Unharmed, Texts, Rows
  <2>4. AllOrNone'
    BY <2>1, <2>3, StillComing DEF Unharmed, AllOrNone
  <2> QED
    BY <2>1, <2>3, <2>4, StaysInPart
<1>3. ASSUME NEW o \in Openers, NEW f \in Rows, PassRow(o, f) \/ WriteRowFails(o, f) PROVE Unharmed'
  <2>1. PassRow(o, f)
    BY <1>3 DEF WriteRowFails
  <2>2. row[f] # {}
    BY <2>1 DEF PassRow, Unharmed, Texts
  <2>3. Reached(f)
    BY <2>2 DEF Reached, Rows
  <2> QED
    BY <2>1, <2>3, LeavesPart DEF PassRow, At
<1>4. ASSUME NEW o \in Openers, NEW f \in Rows, WriteRow(o, f) PROVE Unharmed'
  <2>1. /\ Others(o) /\ opener[o] # Idle /\ opener'[o] # Idle /\ opener'[o].at = opener[o].at
        /\ opener'[o].at = f /\ opener'[o].phase = "move" /\ opener'[o].todo = opener[o].todo
        /\ UNCHANGED <<disk, blocks, log, alive, capture, skipped>> /\ opener[o].phase = "write"
        /\ row'[f] = Says[f] /\ \A g \in Rows : g # f => row'[g] = row[g]
    BY <1>4, Phasing DEF WriteRow, At, TypeOK
  <2>2. opener[o].todo = {}
    BY <2>1, NothingToDo DEF Unharmed, At, Rows
  <2>3. Says[f] # {}
    <3>1. Says["knowledge"] # {} /\ Says["history"] # {}
      BY DEF Says
    <3> QED
      BY <3>1, Tables
  <2>4. Grows /\ Imports(o) /\ InPlace(o)' /\ ~At(o, "birth", "write")'
    BY <2>1, <2>2, <2>3 DEF Grows, Noted, Imports, InPlace, At, Rows
  <2>5. Texts'
    BY <2>1, <2>3 DEF Unharmed, Texts
  <2>6. AllOrNone'
    BY <2>1, <2>4, StillComing DEF Unharmed, AllOrNone
  <2> QED
    BY <2>1, <2>4, <2>5, <2>6, StaysInPart
<1>5. ASSUME NEW o \in Openers, NEW f \in Rows \cup {"current"}, Rename(o, f) PROVE Unharmed'
  <2>1. f \in Parts /\ (f \in Rows => row[f] # {}) /\ (f = "current" => Noted) /\ there \ there' \subseteq {f}
    BY <1>5 DEF Rename, Parts, Unharmed, InPlace, IInv, Sound, CurrentSound
  <2>2. Reached(f)
    BY <2>1 DEF Reached, Rows
  <2> QED
    BY <1>5, <2>1, <2>2, LeavesPart DEF Rename, At
<1>6. ASSUME NEW o \in Openers, ListSessions(o) PROVE Unharmed'
  <2>1. /\ Others(o) /\ opener'[o] = Step("sessions", "write", files, files) /\ files # {} /\ NoBlocks
        /\ opener[o] # Idle /\ opener[o].at = "sessions" /\ opener[o].phase = "look"
        /\ UNCHANGED <<disk, row, blocks, log, alive, capture, skipped>>
    BY <1>6 DEF ListSessions, Others, TypeOK, At
  <2>2. /\ opener'[o] # Idle /\ opener'[o].at = "sessions" /\ opener'[o].phase = "write"
        /\ opener'[o].todo = files
    BY <2>1 DEF Step, Idle
  <2>3. \A s \in Sessions : s \in files \/ blocks[s] > 0
    BY DEF IInv, LegacyKept, Unharmed, Texts
  <2>4. opener[o].todo = {}
    BY <2>1, NothingToDo DEF Unharmed, At
  <2>5. Grows /\ Imports(o) /\ InPlace(o)' /\ Texts' /\ ~At(o, "birth", "write")'
    BY <2>1, <2>2, <2>3, <2>4 DEF Grows, Noted, Imports, InPlace, At, Unharmed, Texts, Rows
  <2>6. AllOrNone'
    BY <2>1, <2>5, StillComing DEF Unharmed, AllOrNone
  <2> QED
    BY <2>1, <2>2, <2>5, <2>6, StaysInPart
<1>7. ASSUME NEW o \in Openers, PassSessions(o) \/ InsertSessionFails(o) PROVE Unharmed'
  <2>1. /\ PassSessions(o) /\ opener[o] # Idle /\ opener[o].at = "sessions" /\ opener[o].phase = "look"
        /\ GoOn(o, "sessions")
    BY <1>7 DEF InsertSessionFails, PassSessions, At
  <2>2. o = Engine => Reached("sessions")
    <3> SUFFICES ASSUME o = Engine PROVE \A s \in Sessions : blocks[s] > 0 \/ Coming(s)
      BY DEF Reached, Rows
    <3>1. CASE files = {}
      BY <3>1 DEF IInv, LegacyKept, Unharmed, Texts
    <3>2. CASE files # {}
      <4>1. ~alive /\ ~summed
        BY <2>1 DEF Unharmed
      <4>2. \E s \in Sessions : blocks[s] > 0
        <5>1. ~NoBlocks
          BY <2>1, <3>2 DEF PassSessions
        <5>2. \E s \in Sessions : blocks[s] # 0
          BY <4>1, <5>1, Zenon DEF NoBlocks
        <5>3. \A s \in Sessions : blocks[s] \in Nat
          BY DEF TypeOK
        <5> QED
          BY <5>2, <5>3
      <4>3. opener[Engine].todo = {}
        BY <2>1, NothingToDo DEF Unharmed, At
      <4> QED
        BY <4>2, <4>3 DEF Unharmed, AllOrNone, Coming, Openers
    <3> QED
      BY <3>1, <3>2
  <2> QED
    BY <2>1, <2>2, LeavesPart DEF PassSessions, Parts
<1>8. ASSUME NEW o \in Openers, NEW s, At(o, "sessions", "write"), s = Min(opener[o].todo), Done(o, s),
             s \in Sessions => blocks'[s] > 0, \A t \in Sessions : blocks[t] > 0 => blocks'[t] > 0,
             UNCHANGED <<disk, row, log, alive, capture, skipped>>
      PROVE  Unharmed'
  <2>1. /\ Others(o) /\ opener[o] # Idle /\ opener'[o] # Idle
        /\ opener[o].at = "sessions" /\ opener'[o].at = "sessions"
        /\ opener'[o].todo = opener[o].todo \ {s}
        /\ opener'[o].phase = IF opener'[o].todo = {} THEN "move" ELSE "write"
    BY <1>8, Doing DEF At
  <2>2. \A t \in Sessions : t \in opener'[o].todo \/ blocks'[t] > 0
    BY <1>8, <2>1 DEF Unharmed, InPlace
  <2>3. Grows /\ Imports(o) /\ InPlace(o)' /\ Texts' /\ ~At(o, "birth", "write")'
    BY <1>8, <2>1, <2>2 DEF Grows, Noted, Imports, InPlace, At, Unharmed, Texts, Rows
  <2>4. AllOrNone'
    BY <2>1, <2>2 DEF AllOrNone
  <2> QED
    BY <1>8, <2>1, <2>3, <2>4, StaysInPart
<1>9. ASSUME NEW o \in Openers, InsertSession(o) PROVE Unharmed'
  <2>1. PICK s : /\ s = Min(opener[o].todo) /\ s \in files /\ Done(o, s)
                 /\ blocks' = [blocks EXCEPT ![s] = @ + 1]
    BY <1>9 DEF InsertSession
  <2>2. \A t \in Sessions : blocks[t] \in Nat /\ blocks'[t] = IF t = s THEN blocks[t] + 1 ELSE blocks[t]
    BY <2>1 DEF TypeOK
  <2>3. /\ s \in Sessions => blocks'[s] > 0
        /\ \A t \in Sessions : blocks[t] > 0 => blocks'[t] > 0
    <3> SUFFICES ASSUME NEW t \in Sessions PROVE blocks'[t] > 0 \/ (t # s /\ blocks'[t] = blocks[t])
      OBVIOUS
    <3> QED
      BY <2>2
  <2>4. At(o, "sessions", "write") /\ UNCHANGED <<disk, row, log, alive, capture, skipped>>
    BY <1>9 DEF InsertSession
  <2> QED
    BY <1>8, <2>1, <2>3, <2>4
<1>10. ASSUME NEW o \in Openers, PassSession(o) PROVE Unharmed'
  <2>1. PICK s : s = Min(opener[o].todo) /\ s \notin files /\ Done(o, s)
    BY <1>10 DEF PassSession
  <2>2. UNCHANGED <<disk, row, blocks, log, alive, capture, skipped>> /\ At(o, "sessions", "write")
    BY <1>10 DEF PassSession
  <2>3. s \in Sessions => blocks[s] > 0
    BY <2>1 DEF IInv, LegacyKept, Unharmed, Texts
  <2> QED
    BY <1>8, <2>1, <2>2, <2>3
<1>11. ASSUME NEW o \in Openers, RenameSession(o) PROVE Unharmed'
  <2>1. /\ opener[o] # Idle /\ opener[o].at = "sessions" /\ opener[o].phase = "move"
        /\ UNCHANGED <<there, row, blocks, log, alive, capture, skipped>>
        /\ \A s \in Sessions : blocks[s] > 0
    BY <1>11 DEF RenameSession, At, Unharmed, InPlace
  <2>2. opener[o].todo = {} /\ opener[o] \in Steps
    BY <2>1, NothingToDo DEF Unharmed, At, TypeOK
  <2>3. CASE GoOn(o, "sessions")
    <3>1. /\ Others(o) /\ (opener'[o] # Idle => opener'[o].phase = "look" /\ opener'[o].todo = {})
      BY <2>3, Going DEF Parts
    <3>2. Grows /\ Imports(o) /\ InPlace(o)' /\ Texts' /\ AllOrNone' /\ ~At(o, "birth", "write")'
      BY <2>1, <2>2, <3>1 DEF Grows, Noted, Imports, InPlace, At, Unharmed, Texts, AllOrNone
    <3>3. Reached("sessions")'
      BY <2>1 DEF Reached, Rows
    <3>4. o = Engine => ~alive
      BY <2>1 DEF Unharmed
    <3>5. Progress'
      <4>1. CASE o = Engine
        BY <2>1, <2>3, <3>1, <3>2, <3>3, <3>4, <4>1, ProgressNext, StillComing DEF Unharmed, Parts
      <4>2. CASE o # Engine
        BY <2>1, <3>1, <3>2, <4>2, ProgressKept, StillComing DEF Unharmed, Others
      <4> QED
        BY <4>1, <4>2
    <3> QED
      BY <2>1, <3>1, <3>2, <3>4, <3>5, OneInPlace
  <2>4. CASE opener' = [opener EXCEPT ![o].listed = @ \ {Min(opener[o].listed)}]
    <3>1. /\ Others(o) /\ opener'[o] # Idle /\ opener'[o].at = "sessions" /\ opener'[o].phase = "move"
          /\ opener'[o].todo = {}
      BY <2>1, <2>2, <2>4 DEF TypeOK, Steps, Others, Idle
    <3>2. Grows /\ Imports(o) /\ InPlace(o)' /\ Texts' /\ AllOrNone' /\ ~At(o, "birth", "write")'
      BY <2>1, <2>2, <3>1 DEF Grows, Noted, Imports, InPlace, At, Unharmed, Texts, AllOrNone, Rows
    <3> QED
      BY <2>1, <3>1, <3>2, StaysInPart
  <2> QED
    BY <1>11, <2>3, <2>4 DEF RenameSession
<1>12. ASSUME NEW o \in Openers, LookCurrent(o) \/ InsertNote(o) PROVE Unharmed'
  <2>1. /\ Others(o) /\ opener[o] # Idle /\ opener'[o] # Idle /\ opener[o].at = "current"
        /\ opener'[o].at = "current" /\ opener'[o].todo = opener[o].todo
        /\ UNCHANGED <<disk, row, blocks, acted, summed, alive, capture, skipped>>
        /\ (Noted => Noted')
    <3>1. CASE LookCurrent(o)
      BY <3>1, Phasing DEF LookCurrent, At, Noted
    <3>2. CASE InsertNote(o)
      <4>1. current' = current + 1 /\ consumed' = consumed
        BY <3>2 DEF InsertNote
      <4> QED
        BY <3>2, <4>1, Phasing DEF InsertNote, At, Noted, TypeOK
    <3> QED
      BY <1>12, <3>1, <3>2
  <2>2. opener[o].todo = {}
    BY <2>1, NothingToDo DEF Unharmed, At
  <2>3. Grows /\ Imports(o) /\ InPlace(o)' /\ Texts' /\ ~At(o, "birth", "write")'
    BY <2>1, <2>2 DEF Grows, Imports, InPlace, At, Unharmed, Texts, Rows
  <2>4. AllOrNone'
    BY <2>1, <2>3, StillComing DEF Unharmed, AllOrNone
  <2> QED
    BY <2>1, <2>3, <2>4, StaysInPart
<1>13. ASSUME NEW o \in Openers, PassCurrent(o) \/ InsertNoteFails(o) PROVE Unharmed'
  <2>1. PassCurrent(o) /\ opener[o] # Idle /\ opener[o].at = "current" /\ opener[o].phase = "look"
        /\ GoOn(o, "current")
    BY <1>13 DEF PassCurrent, InsertNoteFails, At
  <2>2. o = Engine => Noted
    <3>1. o = Engine => ~acted
      BY <2>1 DEF Unharmed
    <3> QED
      BY <2>1, <3>1 DEF PassCurrent, NothingCurrent, IInv, LegacyKept, Noted, TypeOK
  <2>3. o = Engine => Reached("current")
    BY <2>2 DEF Reached, Rows
  <2> QED
    BY <2>1, <2>3, LeavesPart DEF PassCurrent, Parts
<1>14. ~FindNoHistory /\ ~WriteInitialHistory
  <2>1. ~FindNoHistory
    BY DEF FindNoHistory, At, Unharmed, Progress, Past
  <2>2. ~WriteInitialHistory
    BY DEF WriteInitialHistory, Unharmed
  <2> QED
    BY <2>1, <2>2
<1>15. CASE FindHistory
  <2>1. /\ Others(Engine) /\ opener'[Engine] = Idle /\ opener[Engine] # Idle /\ opener[Engine].at = "birth"
        /\ UNCHANGED <<disk, row, blocks, log, capture, ghosts>>
    BY <1>15 DEF FindHistory, At, Others, TypeOK
  <2>2. opener[Engine].todo = {}
    BY <2>1, NothingToDo DEF Unharmed, At
  <2>3. Grows /\ Imports(Engine) /\ InPlace(Engine)' /\ Texts' /\ ~At(Engine, "birth", "write")'
    BY <2>1, <2>2 DEF Grows, Noted, Imports, InPlace, At, Unharmed, Texts
  <2>4. AllOrNone' /\ Progress'
    BY <2>1, <2>3, StillComing, ProgressKept DEF Unharmed, AllOrNone
  <2>5. \A u \in Openers : InPlace(u)'
    BY <2>1, <2>3, InPlaceKept DEF Unharmed, Others
  <2> QED
    BY <1>15, <2>1, <2>3, <2>4, <2>5 DEF Unharmed, FindHistory
<1>16. CASE Act \/ UNCHANGED vars
  BY <1>16 DEF Act, vars, Unharmed, Texts, AllOrNone, Progress, Past, Coming, Noted, InPlace, At
<1>17. ASSUME NEW c \in Captures, Summarise(c) \/ CaptureEnds(c) \/ CaptureFails(c) PROVE Unharmed'
  <2>1. /\ UNCHANGED <<disk, blocks, opener, skipped, alive>> /\ alive
        /\ \A d \in Captures : d # c => capture'[d] = capture[d]
    <3>1. capture[c] # NotYet \/ alive
      BY <1>17 DEF Summarise, CaptureEnds, CaptureFails, NotYet
    <3> QED
      BY <1>17, <3>1 DEF Summarise, BuildCaptureRequest, CaptureEnds, CaptureFails, TypeOK, Unharmed
  <2>2. Says["knowledge"] \subseteq row["knowledge"]
    BY <2>1 DEF Unharmed, Progress, Past, Texts
  <2>3. Texts' /\ Grows
    <3>1. CASE Summarise(c)
      <4>1. row' = row /\ capture'[c] = [at |-> "running", basis |-> row["knowledge"]]
            /\ current' = 0 /\ consumed' = consumed + current
        BY <3>1 DEF Summarise, BuildCaptureRequest, TypeOK
      <4> QED
        BY <2>1, <2>2, <4>1 DEF Unharmed, Texts, Grows, Noted, TypeOK
    <3>2. CASE CaptureEnds(c)
      <4>1. /\ UNCHANGED <<current, consumed>> /\ capture'[c] = Over /\ capture[c].at = "running"
            /\ row'["history"] = row["history"] /\ row'["knowledge"] = capture[c].basis \cup {c}
        BY <3>2 DEF CaptureEnds, TypeOK
      <4>2. Says["knowledge"] \subseteq row'["knowledge"] /\ row'["knowledge"] # {}
        BY <4>1 DEF Unharmed, Texts
      <4> QED
        BY <2>1, <4>1, <4>2 DEF Unharmed, Texts, Grows, Noted, Rows, Over
    <3>3. CASE CaptureFails(c)
      <4>1. UNCHANGED <<row, current, consumed>> /\ capture'[c] = Over
        BY <3>3 DEF CaptureFails, TypeOK
      <4> QED
        BY <2>1, <4>1 DEF Unharmed, Texts, Grows, Noted, Over
    <3> QED
      BY <1>17, <3>1, <3>2, <3>3
  <2>4. Progress' /\ AllOrNone'
    BY <2>1, <2>3, ProgressKept DEF Unharmed, AllOrNone, Coming
  <2>5. \A u \in Openers : InPlace(u)'
    BY <2>1, <2>3, InPlaceKept DEF Unharmed
  <2> QED
    BY <2>1, <2>3, <2>4, <2>5 DEF Unharmed, At
<1>18. ~Crash
  BY DEF Crash
<1> QED
  BY <1>1, <1>2, <1>3, <1>4, <1>5, <1>6, <1>7, <1>9, <1>10, <1>11, <1>12, <1>13, <1>14, <1>15, <1>16,
     <1>17, <1>18
     DEF Next, Row, Move, Session, Current, Birth, Capture

LEMMA StruckGrows == TypeOK /\ [Next]_vars /\ struck' = 0 => struck = 0
<1> SUFFICES ASSUME TypeOK, [Next]_vars, struck' = 0, struck # 0 PROVE FALSE
  OBVIOUS
<1>1. \A fault : ~Strike(fault)
  BY DEF Strike, TypeOK
<1> USE <1>1 DEF ghosts
<1>2. ASSUME NEW o \in Openers PROVE ~Open(o) /\ ~Row(o) /\ ~Move(o)
  BY <1>2 DEF Open, Row, LookRow, PassRow, WriteRow, WriteRowFails, Move, Rename
<1>3. ASSUME NEW o \in Openers PROVE ~Session(o) /\ ~Current(o)
  BY <1>3 DEF Session, ListSessions, PassSessions, InsertSession, PassSession, InsertSessionFails,
     RenameSession, Current, LookCurrent, PassCurrent, InsertNote, InsertNoteFails
<1>4. ~Birth /\ ~Act /\ ~Crash
  BY DEF Birth, FindNoHistory, WriteInitialHistory, FindHistory, Act, Crash
<1>5. ASSUME NEW c \in Captures PROVE ~Capture(c)
  BY <1>5 DEF Capture, Summarise, BuildCaptureRequest, CaptureEnds, CaptureFails
<1> QED
  BY <1>2, <1>3, <1>4, <1>5 DEF Next, vars

\* When nothing fails, the engine runs an instance only with all its files said: they are
\* in the database, or a request that is at the session files still brings them.
THEOREM RunsWithAll == Spec => []RunsWithAllMemory
<1>1. Init => AllWell
  <2> SUFFICES ASSUME Init PROVE Unharmed
    BY DEF AllWell
  <2>1. Texts /\ AllOrNone /\ Progress
    BY DEF Init, Texts, AllOrNone, Progress, Past, Openers, Idle, Rows, NotYet
  <2>2. \A o \in Openers : InPlace(o) /\ ~At(o, "birth", "write")
    BY DEF Init, InPlace, At
  <2> QED
    BY <2>1, <2>2 DEF Init, Unharmed, Openers
<1>2. IInv /\ IInv' /\ AllWell /\ [Next]_vars => AllWell'
  <2> SUFFICES ASSUME IInv, IInv', AllWell, [Next]_vars, struck' = 0 PROVE Unharmed'
    BY DEF AllWell
  <2>1. struck = 0
    BY StruckGrows DEF IInv
  <2> QED
    BY <2>1, UnharmedStep DEF AllWell
<1>3. AllWell => RunsWithAllMemory
  <2> SUFFICES ASSUME Unharmed, alive PROVE
        /\ row["history"] = Says["history"] /\ Says["knowledge"] \subseteq row["knowledge"]
        /\ \A s \in Sessions : blocks[s] > 0 \/ Coming(s)
        /\ Noted
    BY DEF AllWell, RunsWithAllMemory, Coming, Noted
  <2> QED
    BY DEF Unharmed, Texts, Progress, Past
<1> QED
  BY <1>1, <1>2, <1>3, Invariant, PTL DEF Spec
=============================================================================
