---------------------------- MODULE ShellProofs ----------------------------
(***************************************************************************)
(* Proofs about Shell, for any capacity of the pipes, any limits and any   *)
(* file: what an answer shows, and what a replacement does to the file.    *)
(***************************************************************************)
EXTENDS Shell, SequenceTheorems, FiniteSetTheorems, TLAPS

Running == {"feed", "out", "err", "wait"}

ActionTypes ==
  /\ action \in [op : {None, "script", "write", "read", "store"}, mode : Modes,
                 search : Text \cup {None}, text : Seq(Unit)]
  /\ action.op = "read" => action.text # <<>>

BashState == [at : {"ready", "speaks", "warns", "hangs", "ended"}, units : Seq(Unit), ok : BOOLEAN]

BashTypes ==
  /\ bash \in BashState
  /\ left \in [todo : Nat, holds : BOOLEAN]

PipeTypes ==
  /\ file \in Seq(Unit) /\ output \in Seq(Unit) /\ errors \in Seq(Unit)
  /\ stdout \in Seq(Unit) /\ stderr \in Seq(Unit)
  /\ unsent \in Nat /\ stdin \in Nat /\ spoken \in Nat

TypeOK ==
  /\ phase \in {"idle", "own"} \cup Running
  /\ answer \in {None, "shown", "truncated", "written", "replaced", "failed", "unmatched", "timeout"}
  /\ ActionTypes /\ BashTypes /\ PipeTypes

\* Where the engine is while bash runs, and what bash has still to take.
Phases ==
  /\ phase \in {"idle", "own"} => bash.at = "ended"
  /\ phase \in {"out", "err", "wait"} => unsent = 0
  /\ phase = "own" <=> (phase # "idle" /\ action.mode = "privileged")
  /\ phase = "own" => action.op = "read"
  /\ phase # "idle" => answer \notin {"shown", "replaced"}
  /\ bash.at = "hangs" => action.op = "script"
  /\ bash.at = "warns" => bash.units # <<>>

\* All that was written to the pipes is read or still in them, and when a reader has gone
\* on although its pipe is not empty, what was read is at its limit.
Counted ==
  /\ phase \in Running => spoken = Len(output) + Len(errors) + Len(stdout) + Len(stderr)
  /\ phase \in {"err", "wait"} => Len(output) >= MaxOutput \/ (stdout = <<>> /\ bash.at = "ended")
  /\ phase = "wait" => 2 * Len(output) + Len(errors) >= MaxOutput \/ stderr = <<>>

LEMMA FilesAreSeq == Files \subseteq Seq(Unit)
BY ShellAssumption DEF Unit

LEMMA DecodedTyped == ASSUME NEW text \in Seq(Unit) PROVE Decoded(text) \in Seq(Unit)
<1>1. DOMAIN text = 1..Len(text) /\ Len(text) \in Nat /\ \A i \in 1..Len(text) : text[i] \in Unit
  OBVIOUS
<1>2. Mark \in Unit
  BY ShellAssumption DEF Unit
<1>3. Decoded(text) \in [1..Len(text) -> Unit]
  BY <1>1, <1>2 DEF Decoded
<1> QED
  BY <1>1, <1>3

LEMMA KeptTyped == ASSUME NEW text \in Seq(Unit) PROVE Kept(text) \subseteq Seq(Unit)
<1> DEFINE places == {i \in DOMAIN text : text[i] # Nul}
           n == Cardinality(places)
<1>1. DOMAIN text = 1..Len(text) /\ Len(text) \in Nat /\ \A i \in 1..Len(text) : text[i] \in Unit
  OBVIOUS
<1>2. n \in Nat
  <2>1. IsFiniteSet(1..Len(text))
    BY <1>1, FS_Interval
  <2> QED
    BY <1>1, <2>1, FS_Subset, FS_CardinalityType
<1>3. ASSUME NEW f \in [1..n -> places] PROVE [i \in 1..n |-> text[f[i]]] \in Seq(Unit)
  <2>1. \A i \in 1..n : f[i] \in 1..Len(text)
    BY <1>1
  <2>2. [i \in 1..n |-> text[f[i]]] \in [1..n -> Unit]
    BY <1>1, <2>1
  <2> HIDE DEF n
  <2> QED
    BY <1>2, <2>2
<1> QED
  BY <1>3 DEF Kept

LEMMA ReplaceTyped ==
  ASSUME NEW text \in Seq(Unit), NEW s, NEW r \in Unit
  PROVE  ReplaceOnce(text, s, r) \in Seq(Unit)
<1>1. DOMAIN text = 1..Len(text) /\ Len(text) \in Nat /\ \A i \in 1..Len(text) : text[i] \in Unit
  OBVIOUS
<1>2. ReplaceOnce(text, s, r) \in [1..Len(text) -> Unit]
  BY <1>1 DEF ReplaceOnce
<1> QED
  BY <1>1, <1>2

LEMMA OneIsSeq == ASSUME NEW t \in Unit PROVE <<t>> \in Seq(Unit) /\ <<t>> # <<>> /\ <<t>>[1] = t
OBVIOUS

LEMMA EmptyIsSeq == <<>> \in Seq(Unit)
OBVIOUS

\* The states a step of bash can lead to.
LEMMA StatesTyped ==
  /\ Dead \in BashState
  /\ \A ok \in BOOLEAN : Ready(ok) \in BashState
  /\ [Ready(TRUE) EXCEPT !.at = "hangs"] \in BashState
  /\ \A units \in Seq(Unit) :
       /\ Says(units) \in BashState
       /\ \A ok \in BOOLEAN : Warns(units, ok) \in BashState
BY EmptyIsSeq DEF Dead, Ready, Says, Warns, BashState

LEMMA SurvivorsTyped == ASSUME BashTypes, PipeTypes PROVE Survivors \in Nat
BY ShellAssumption DEF BashTypes, PipeTypes, Survivors

LEMMA EditsTyped == ASSUME PipeTypes PROVE Edits \subseteq Seq(Unit)
<1>1. \A t \in Text : Append(file, t) \in Seq(Unit)
  BY DEF PipeTypes, Unit
<1> QED
  BY <1>1, EmptyIsSeq DEF Edits

---------------------------------------------------------------------------
(* Types *)

LEMMA SpawnTyped ==
  ASSUME BashTypes, NEW mode, NEW n \in Nat, Spawn(mode, n), file' \in Seq(Unit)
  PROVE  BashTypes' /\ PipeTypes' /\ phase' = "feed"
<1>1. bash' \in BashState
  <2>1. <<Newline>> \in Seq(Unit)
    BY OneIsSeq DEF Unit
  <2> QED
    BY <2>1, StatesTyped DEF Spawn, Greeting, Warning
<1> QED
  BY <1>1, EmptyIsSeq DEF Spawn, BashTypes, PipeTypes

LEMMA BeginTyped ==
  ASSUME NEW op \in {"script", "write", "read"}, NEW mode \in Modes, NEW s \in Text \cup {None},
         NEW text \in Seq(Unit), op = "read" => text # <<>>, Begin(op, mode, s, text)
  PROVE  ActionTypes' /\ answer' = None
BY DEF Begin, ActionTypes

LEMMA ExecuteTyped ==
  ASSUME TypeOK, ExecuteScript \/ ExecuteWriteFile \/ ExecuteReplaceInFile
  PROVE  TypeOK'
<1> USE DEF TypeOK, Running
<1>1. CASE ExecuteScript
  <2>1. PICK mode \in Modes, n \in 1..MaxScript : Begin("script", mode, None, <<>>) /\ Spawn(mode, n)
    BY <1>1 DEF ExecuteScript
  <2>2. n \in Nat /\ file' \in Seq(Unit)
    BY <1>1, ShellAssumption DEF ExecuteScript, PipeTypes
  <2>3. ActionTypes' /\ answer' = None
    BY <2>1, BeginTyped, EmptyIsSeq
  <2> QED
    BY <2>1, <2>2, <2>3, SpawnTyped
<1>2. CASE ExecuteWriteFile
  <2>1. PICK mode \in Modes, t \in Text :
          /\ Begin("write", mode, None, <<t>>)
          /\ IF mode = "privileged"
             THEN file' = <<t>> /\ phase' = "idle" /\ UNCHANGED <<unsent, pipes, bash, heard, spoken, left>>
             ELSE Spawn(mode, 1) /\ UNCHANGED file
    BY <1>2 DEF ExecuteWriteFile
  <2>2. <<t>> \in Seq(Unit)
    BY OneIsSeq DEF Unit
  <2>3. ActionTypes' /\ answer' = None
    BY <2>1, <2>2, BeginTyped
  <2>4. CASE mode = "privileged"
    BY <2>1, <2>2, <2>3, <2>4 DEF BashTypes, PipeTypes, pipes, heard
  <2>5. CASE mode # "privileged"
    <3>1. Spawn(mode, 1) /\ file' \in Seq(Unit)
      BY <2>1, <2>5 DEF PipeTypes
    <3> QED
      BY <2>3, <3>1, SpawnTyped
  <2> QED
    BY <2>4, <2>5
<1>3. CASE ExecuteReplaceInFile
  <2>1. PICK mode \in Modes, s \in Text, r \in Text :
          /\ Begin("read", mode, s, <<r>>)
          /\ IF mode = "privileged"
             THEN phase' = "own" /\ output' = file /\ errors' = <<>> /\ UNCHANGED <<unsent, pipes, bash, spoken, left>>
             ELSE Spawn(mode, 1)
    BY <1>3 DEF ExecuteReplaceInFile
  <2>2. <<r>> \in Seq(Unit) /\ <<r>> # <<>>
    BY OneIsSeq DEF Unit
  <2>3. ActionTypes' /\ answer' = None
    BY <2>1, <2>2, BeginTyped
  <2>4. file' = file
    BY <1>3 DEF ExecuteReplaceInFile
  <2>5. CASE mode = "privileged"
    BY <2>1, <2>3, <2>4, <2>5, EmptyIsSeq DEF BashTypes, PipeTypes, pipes, heard
  <2>6. CASE mode # "privileged"
    <3>1. Spawn(mode, 1) /\ file' \in Seq(Unit)
      BY <2>1, <2>4, <2>6 DEF PipeTypes
    <3> QED
      BY <2>3, <3>1, SpawnTyped
  <2> QED
    BY <2>5, <2>6
<1> QED
  BY <1>1, <1>2, <1>3

\* What is put in place of a match is a unit.
LEMMA ReplacementTyped ==
  ASSUME TypeOK, action.op = "read" PROVE action.text[1] \in Unit
<1>1. action.text \in Seq(Unit) /\ action.text # <<>>
  BY DEF TypeOK, ActionTypes
<1> QED
  BY <1>1

LEMMA EngineTyped == ASSUME TypeOK, Phases, Engine PROVE TypeOK'
<1> USE DEF TypeOK, Running
<1>1. CASE OwnReplace
  <2>1. action.text[1] \in Unit
    BY <1>1, ReplacementTyped DEF OwnReplace, Phases
  <2>2. file' = file \/ file' = ReplaceOnce(output, action.search, action.text[1])
    BY <1>1 DEF OwnReplace
  <2>3. file' \in Seq(Unit)
    BY <2>1, <2>2, ReplaceTyped DEF PipeTypes
  <2> QED
    BY <1>1, <2>3 DEF OwnReplace, ActionTypes, BashTypes, PipeTypes, pipes, heard
<1>2. CASE Writing
  BY <1>2 DEF Writing, ActionTypes, BashTypes, PipeTypes, heard
<1>3. CASE CloseStdin \/ StopReading
  BY <1>3 DEF CloseStdin, StopReading, ActionTypes, BashTypes, PipeTypes, pipes, heard
<1>4. CASE ReadLimited
  <2>1. /\ stdout # <<>> => Head(stdout) \in Unit /\ Tail(stdout) \in Seq(Unit)
        /\ stderr # <<>> => Head(stderr) \in Unit /\ Tail(stderr) \in Seq(Unit)
    BY DEF PipeTypes
  <2>2. /\ output' \in Seq(Unit) /\ errors' \in Seq(Unit)
        /\ stdout' \in Seq(Unit) /\ stderr' \in Seq(Unit)
    <3>1. CASE phase = "out"
      <4>1. /\ stdout # <<>> /\ output' = Append(output, Head(stdout)) /\ stdout' = Tail(stdout)
            /\ stderr' = stderr /\ errors' = errors
        BY <1>4, <3>1 DEF ReadLimited
      <4> QED
        BY <2>1, <4>1 DEF PipeTypes
    <3>2. CASE phase = "err"
      <4>1. /\ stderr # <<>> /\ errors' = Append(errors, Head(stderr)) /\ stderr' = Tail(stderr)
            /\ stdout' = stdout /\ output' = output
        BY <1>4, <3>2 DEF ReadLimited
      <4> QED
        BY <2>1, <4>1 DEF PipeTypes
    <3> QED
      BY <1>4, <3>1, <3>2 DEF ReadLimited
  <2> QED
    BY <1>4, <2>2 DEF ReadLimited, ActionTypes, BashTypes, PipeTypes, heard
<1>5. CASE ScriptEnds \/ WriteEnds \/ ReadFails
  BY <1>5 DEF ScriptEnds, WriteEnds, ReadFails, Exited, Shown, ActionTypes, BashTypes, PipeTypes, pipes, heard
<1>6. CASE Store
  <2> DEFINE text == ReplaceOnce(Content, action.search, action.text[1])
  <2>1. /\ action' = [action EXCEPT !.op = "store", !.text = text]
        /\ Spawn(action.mode, 1) /\ UNCHANGED answer /\ file' = file /\ action.op = "read"
    BY <1>6 DEF Store, StoreUnchecked, Exited
  <2>2. text \in Seq(Unit)
    <3>1. Content \in Seq(Unit)
      <4>1. Output \in Seq(Unit)
        BY DEF PipeTypes, Output
      <4> QED
        BY <4>1, DecodedTyped DEF Content
    <3> QED
      BY <2>1, <3>1, ReplacementTyped, ReplaceTyped
  <2> HIDE DEF text
  <2>3. ActionTypes'
    BY <2>1, <2>2 DEF ActionTypes
  <2> QED
    BY <2>1, <2>3, SpawnTyped DEF PipeTypes
<1> QED
  BY <1>1, <1>2, <1>3, <1>4, <1>5, <1>6 DEF Engine

LEMMA BashTyped == ASSUME TypeOK, Bash PROVE TypeOK'
<1> USE DEF TypeOK, Running
<1>1. CASE RunCommand
  <2>1. file' \in Seq(Unit)
    BY <1>1, EditsTyped DEF RunCommand, PipeTypes
  <2>2. <<Newline>> \in Seq(Unit)
    BY OneIsSeq DEF Unit
  <2>3. bash' \in BashState
    BY <1>1, <2>2, StatesTyped DEF RunCommand
  <2>4. left' \in [todo : Nat, holds : BOOLEAN]
    <3>1. left' = left \/ left' = [todo |-> left.todo + 1, holds |-> TRUE]
      BY <1>1 DEF RunCommand
    <3>2. left \in [todo : Nat, holds : BOOLEAN] /\ left.todo + 1 \in Nat
      BY DEF BashTypes
    <3>3. [todo |-> left.todo + 1, holds |-> TRUE] \in [todo : Nat, holds : BOOLEAN]
      BY <3>2
    <3> QED
      BY <3>1, <3>2, <3>3
  <2> QED
    BY <1>1, <2>1, <2>3, <2>4 DEF RunCommand, Take, ActionTypes, BashTypes, PipeTypes, heard
<1>2. CASE Cat
  <2>1. <<Newline>> \in Seq(Unit)
    BY OneIsSeq DEF Unit
  <2>2. bash' \in BashState
    BY <1>2, <2>1, StatesTyped DEF Cat, PipeTypes
  <2> QED
    BY <1>2, <2>2 DEF Cat, Take, ActionTypes, BashTypes, PipeTypes, heard
<1>3. CASE Put
  <2>1. \A text \in Kept(action.text) : Append(text, Newline) \in Seq(Unit)
    <3>1. Kept(action.text) \subseteq Seq(Unit) /\ Newline \in Unit
      BY KeptTyped DEF ActionTypes, Unit
    <3> QED
      BY <3>1
  <2>2. bash' \in BashState /\ file' \in Seq(Unit)
    BY <1>3, <2>1, EmptyIsSeq, StatesTyped DEF Put
  <2> QED
    BY <1>3, <2>2 DEF Put, Take, ActionTypes, BashTypes, PipeTypes, heard
<1>4. CASE Speak
  <2>1. bash.units \in Seq(Unit) /\ bash.ok \in BOOLEAN
    BY DEF BashTypes, BashState
  <2>2. bash.units # <<>> => Head(bash.units) \in Unit /\ Tail(bash.units) \in Seq(Unit)
    BY <2>1
  <2>3. bash.units # <<>> => Rest \in BashState
    BY <2>1, <2>2, StatesTyped DEF Rest, BashTypes, BashState
  <2>4. bash' \in BashState
    BY <1>4, <2>1, <2>3, StatesTyped DEF Speak, Broken
  <2>5. stdout' \in Seq(Unit) /\ stderr' \in Seq(Unit) /\ spoken' \in Nat
    <3>1. CASE bash.units = <<>>
      BY <1>4, <3>1 DEF Speak, Broken, PipeTypes
    <3>2. CASE bash.units # <<>>
      <4>1. /\ Append(stdout, Head(bash.units)) \in Seq(Unit)
            /\ Append(stderr, Head(bash.units)) \in Seq(Unit) /\ spoken + 1 \in Nat
        BY <2>2, <3>2 DEF PipeTypes
      <4>2. /\ stdout' \in {stdout, Append(stdout, Head(bash.units))}
            /\ stderr' \in {stderr, Append(stderr, Head(bash.units))}
            /\ spoken' \in {spoken, spoken + 1}
        BY <1>4, <3>2 DEF Speak, Broken
      <4> QED
        BY <4>1, <4>2 DEF PipeTypes
    <3> QED
      BY <3>1, <3>2
  <2> QED
    BY <1>4, <2>4, <2>5 DEF Speak, ActionTypes, BashTypes, PipeTypes, heard
<1>5. CASE Exit
  <2>1. bash' \in BashState
    BY <1>5, EmptyIsSeq DEF Exit, Dead, BashTypes, BashState
  <2> QED
    BY <1>5, <2>1 DEF Exit, ActionTypes, BashTypes, PipeTypes, pipes, heard
<1> QED
  BY <1>1, <1>2, <1>3, <1>4, <1>5 DEF Bash

LEMMA TypesStep == TypeOK /\ Phases /\ [Next]_vars => TypeOK'
<1> SUFFICES ASSUME TypeOK, Phases, [Next]_vars PROVE TypeOK'
  OBVIOUS
<1> USE DEF TypeOK, Running
<1>1. CASE ExecuteScript \/ ExecuteWriteFile \/ ExecuteReplaceInFile
  BY <1>1, ExecuteTyped
<1>2. CASE Engine
  BY <1>2, EngineTyped
<1>3. CASE Bash
  BY <1>3, BashTyped
<1>4. CASE Timeout
  BY <1>4, SurvivorsTyped, StatesTyped, EmptyIsSeq DEF Timeout, TimeoutIn, ActionTypes, BashTypes, PipeTypes, heard
<1>5. CASE HangEnds
  BY <1>5, StatesTyped DEF HangEnds, ActionTypes, BashTypes, PipeTypes, pipes, heard
<1>6. CASE LeftBehind
  <2>1. file' \in Seq(Unit)
    BY <1>6, EditsTyped DEF LeftBehind, PipeTypes
  <2>2. left' \in [todo : Nat, holds : BOOLEAN]
    <3>1. /\ left.todo \in Nat
          /\ left.holds \in BOOLEAN /\ (left.holds /\ left.todo > 1) \in BOOLEAN
      BY DEF BashTypes
    <3>2. \/ left' = [left EXCEPT !.todo = left.todo - 1, !.holds = left.holds /\ left.todo > 1]
          \/ left' = [todo |-> 0, holds |-> FALSE]
      BY <1>6 DEF LeftBehind
    <3>3. /\ left.todo > 0
          /\ left = [todo |-> left.todo, holds |-> left.holds]
      BY <1>6 DEF LeftBehind, BashTypes
    <3>4. \/ left' = [todo |-> left.todo - 1, holds |-> left.holds /\ left.todo > 1]
          \/ left' = [todo |-> 0, holds |-> FALSE]
      BY <3>2, <3>3
    <3>5. \A n \in Nat, b \in BOOLEAN : [todo |-> n, holds |-> b] \in [todo : Nat, holds : BOOLEAN]
      OBVIOUS
    <3>6. left.todo - 1 \in Nat /\ 0 \in Nat
      BY <3>1, <3>3
    <3>7. [todo |-> left.todo - 1, holds |-> left.holds /\ left.todo > 1] \in [todo : Nat, holds : BOOLEAN]
      BY <3>1, <3>5, <3>6, Zenon
    <3>8. [todo |-> 0, holds |-> FALSE] \in [todo : Nat, holds : BOOLEAN]
      BY <3>5, <3>6
    <3> QED
      BY <3>4, <3>7, <3>8, Zenon
  <2>3. stdout' \in Seq(Unit) /\ spoken' \in Nat
    <3>1. Append(stdout, Newline) \in Seq(Unit)
      BY DEF PipeTypes, Unit
    <3>2. spoken + 1 \in Nat
      BY DEF PipeTypes
    <3>3. stdout' \in {stdout, Append(stdout, Newline)} /\ spoken' \in {spoken, spoken + 1}
      BY <1>6 DEF LeftBehind
    <3> QED
      BY <3>1, <3>2, <3>3 DEF PipeTypes
  <2> QED
    BY <1>6, <2>1, <2>2, <2>3 DEF LeftBehind, ActionTypes, BashTypes, PipeTypes, heard
<1>7. CASE UNCHANGED vars
  BY <1>7 DEF vars, ActionTypes, BashTypes, PipeTypes, heard
<1> QED
  BY <1>1, <1>2, <1>3, <1>4, <1>5, <1>6, <1>7 DEF Next

---------------------------------------------------------------------------
(* Control *)

\* A shell that starts: nothing is read or in the pipes, and it speaks first if its login
\* shell does.
Starts(mode) ==
  /\ stdin' = 0 /\ stdout' = <<>> /\ stderr' = <<>> /\ output' = <<>> /\ errors' = <<>>
  /\ spoken' = 0 /\ ~left'.holds
  /\ bash' = IF mode = "greeted" THEN Says(Greeting(mode))
             ELSE IF mode = "warned" THEN Warns(Warning(mode), TRUE) ELSE Ready(TRUE)

LEMMA SpawnStarts ==
  ASSUME BashTypes, NEW mode, NEW n, Spawn(mode, n)
  PROVE  Starts(mode) /\ phase' = "feed" /\ unsent' = n
BY DEF Spawn, Starts, BashTypes

\* How bash stands when it starts, and what is to come out of it.
LEMMA StartsSays ==
  ASSUME NEW mode, Starts(mode)
  PROVE  /\ bash'.ok /\ bash'.at \in {"ready", "speaks", "warns"}
         /\ bash'.at = "warns" => bash'.units # <<>>
         /\ (IF bash'.at = "speaks" THEN bash'.units ELSE <<>>) = Greeting(mode)
         /\ (IF bash'.at = "warns" THEN bash'.units ELSE <<>>) = Warning(mode)
<1>1. CASE mode = "greeted"
  BY <1>1 DEF Starts, Says, Greeting, Warning
<1>2. CASE mode = "warned"
  <2>1. <<Newline>> # <<>>
    OBVIOUS
  <2> QED
    BY <1>2, <2>1 DEF Starts, Warns, Greeting, Warning
<1>3. CASE mode \notin {"greeted", "warned"}
  BY <1>3 DEF Starts, Ready, Greeting, Warning
<1> QED
  BY <1>1, <1>2, <1>3

\* What a new action leaves behind, whichever it is.
LEMMA ExecuteBegins ==
  ASSUME TypeOK, Phases, ExecuteScript \/ ExecuteWriteFile \/ ExecuteReplaceInFile
  PROVE  /\ phase = "idle" /\ answer' = None /\ ~touched'
         /\ \/ /\ phase' = "idle" /\ UNCHANGED bash
            \/ /\ phase' = "own" /\ UNCHANGED bash
               /\ action'.op = "read" /\ action'.mode = "privileged"
               /\ before' = file /\ file' = file /\ output' = file
            \/ /\ phase' = "feed" /\ action'.mode # "privileged" /\ Starts(action'.mode)
               /\ unsent' \in Nat \ {0}
               /\ action'.op \in {"script", "write", "read"}
               /\ action'.op = "read" => before' = file /\ file' = file /\ unsent' = 1
<1> USE ShellAssumption DEF Begin
<1>1. BashTypes
  BY DEF TypeOK
<1>2. CASE ExecuteScript
  <2>1. PICK mode \in Modes \ {"privileged"}, n \in 1..MaxScript :
          Begin("script", mode, None, <<>>) /\ Spawn(mode, n)
    BY <1>2 DEF ExecuteScript
  <2> QED
    BY <1>1, <2>1, SpawnStarts
<1>3. CASE ExecuteWriteFile
  <2>1. PICK mode \in Modes, t \in Text :
          /\ Begin("write", mode, None, <<t>>)
          /\ \/ mode = "privileged" /\ phase' = "idle" /\ UNCHANGED bash
             \/ mode # "privileged" /\ Spawn(mode, 1)
    BY <1>3 DEF ExecuteWriteFile
  <2> QED
    BY <1>1, <2>1, SpawnStarts
<1>4. CASE ExecuteReplaceInFile
  <2>1. PICK mode \in Modes, s \in Text, r \in Text :
          /\ Begin("read", mode, s, <<r>>) /\ file' = file
          /\ \/ mode = "privileged" /\ phase' = "own" /\ output' = file /\ UNCHANGED bash
             \/ mode # "privileged" /\ Spawn(mode, 1)
    BY <1>4 DEF ExecuteReplaceInFile
  <2> QED
    BY <1>1, <2>1, SpawnStarts
<1> QED
  BY <1>2, <1>3, <1>4

LEMMA TailOfMore == ASSUME NEW s \in Seq(Unit), Len(s) > 1 PROVE Tail(s) # <<>>
<1>1. Len(s) \in Nat /\ Len(Tail(s)) = Len(s) - 1
  OBVIOUS
<1>2. \A n \in Nat : n > 1 => n - 1 # 0
  OBVIOUS
<1>3. Len(Tail(s)) # 0
  BY <1>1, <1>2, Zenon
<1>4. Len(<<>>) = 0
  OBVIOUS
<1> QED
  BY <1>3, <1>4, Zenon

LEMMA PhasesStep == TypeOK /\ Phases /\ [Next]_vars => Phases'
<1> SUFFICES ASSUME TypeOK, Phases, [Next]_vars PROVE Phases'
  OBVIOUS
<1> USE DEF Phases
<1>1. CASE ExecuteScript \/ ExecuteWriteFile \/ ExecuteReplaceInFile
  BY <1>1, ExecuteBegins, StartsSays DEF None
<1>2. CASE OwnReplace
  BY <1>2 DEF OwnReplace
<1>3. CASE Writing
  BY <1>3 DEF Writing
<1>4. CASE CloseStdin \/ ReadLimited \/ StopReading
  BY <1>4 DEF CloseStdin, ReadLimited, StopReading, pipes
<1>5. CASE ScriptEnds \/ WriteEnds \/ ReadFails
  BY <1>5 DEF ScriptEnds, WriteEnds, ReadFails, Exited
<1>6. CASE Store
  <2>1. action'.mode = action.mode
    BY <1>6 DEF Store, StoreUnchecked, TypeOK, ActionTypes
  <2>2. Starts(action.mode) /\ phase' = "feed"
    BY <1>6, SpawnStarts DEF Store, StoreUnchecked, TypeOK
  <2> QED
    BY <1>6, <2>1, <2>2, StartsSays DEF Store, StoreUnchecked, Exited
<1>7. CASE Timeout
  BY <1>7 DEF Timeout, TimeoutIn, Dead
<1>8. CASE RunCommand
  <2>1. <<Newline>> # <<>>
    OBVIOUS
  <2>2. /\ Says(<<Newline>>).at = "speaks" /\ Warns(<<Newline>>, TRUE).units = <<Newline>>
        /\ [Ready(TRUE) EXCEPT !.at = "hangs"].at = "hangs" /\ Dead.at = "ended" /\ Ready(TRUE).at = "ready"
    BY DEF Says, Warns, Ready, Dead
  <2>3. bash'.at = "warns" => bash'.units # <<>>
    BY <1>8, <2>1, <2>2 DEF RunCommand
  <2> QED
    BY <1>8, <2>3 DEF RunCommand, Take
<1>9. CASE Cat \/ Put
  <2>1. bash.at = "ready" /\ UNCHANGED <<phase, unsent, action, answer>>
    BY <1>9 DEF Cat, Put, Take
  <2>2. CASE Cat
    <3>1. /\ Says(file).at = "speaks" /\ Warns(<<Newline>>, FALSE).at = "warns"
          /\ Warns(<<Newline>>, FALSE).units # <<>>
      BY DEF Says, Warns
    <3>2. bash'.at \in {"speaks", "warns"} /\ (bash'.at = "warns" => bash'.units # <<>>)
      BY <2>2, <3>1 DEF Cat
    <3> QED
      BY <2>1, <3>2
  <2>3. CASE Put
    BY <2>1, <2>3 DEF Put, Ready
  <2> QED
    BY <1>9, <2>2, <2>3
<1>10. CASE Speak
  <2>1. bash.at \in {"speaks", "warns"}
    BY <1>10 DEF Speak
  <2>2. bash'.at # "hangs" /\ (bash'.at = "warns" => bash'.units # <<>>)
    <3>1. \/ bash' \in {Ready(bash.ok), Ready(FALSE), Dead}
          \/ bash' = [bash EXCEPT !.units = Tail(bash.units)] /\ Len(bash.units) > 1
      BY <1>10 DEF Speak, Broken, Rest
    <3>2. bash \in BashState
      BY DEF TypeOK, BashTypes
    <3>3. Len(bash.units) > 1 => Tail(bash.units) # <<>>
      BY <3>2, TailOfMore DEF BashState
    <3>4. CASE bash' \in {Ready(bash.ok), Ready(FALSE), Dead}
      BY <3>4 DEF Ready, Dead
    <3>5. CASE bash' = [bash EXCEPT !.units = Tail(bash.units)] /\ Len(bash.units) > 1
      <4>1. bash'.at = bash.at /\ bash'.units = Tail(bash.units)
        BY <3>2, <3>5 DEF BashState
      <4> QED
        BY <2>1, <3>3, <3>5, <4>1
    <3> QED
      BY <3>1, <3>4, <3>5
  <2> QED
    BY <1>10, <2>1, <2>2 DEF Speak
<1>11. CASE Exit \/ HangEnds
  BY <1>11 DEF Exit, HangEnds, Dead, Ready, pipes
<1>12. CASE LeftBehind
  BY <1>12 DEF LeftBehind
<1>13. CASE UNCHANGED vars
  BY <1>13 DEF vars
<1> QED
  BY <1>1, <1>2, <1>3, <1>4, <1>5, <1>6, <1>7, <1>8, <1>9, <1>10, <1>11, <1>12, <1>13 DEF Next, Engine, Bash

---------------------------------------------------------------------------
(* What an answer shows *)

LEMMA CountedStep == TypeOK /\ Phases /\ Counted /\ OutputWhole /\ [Next]_vars => Counted' /\ OutputWhole'
<1> SUFFICES ASSUME TypeOK, Phases, Counted, OutputWhole, [Next]_vars PROVE Counted' /\ OutputWhole'
  OBVIOUS
<1> USE DEF Counted, OutputWhole, Running
<1>1. CASE ExecuteScript \/ ExecuteWriteFile \/ ExecuteReplaceInFile
  <2>1. answer' # "shown"
    BY <1>1, ExecuteBegins DEF None
  <2>2. phase' \in Running => phase' = "feed" /\ Starts(action'.mode)
    BY <1>1, ExecuteBegins
  <2>3. phase' \notin {"err", "wait"}
    BY <1>1, ExecuteBegins
  <2>4. Starts(action'.mode) => 0 = Len(output') + Len(errors') + Len(stdout') + Len(stderr') /\ spoken' = 0
    <3>1. Len(<<>>) + Len(<<>>) + Len(<<>>) + Len(<<>>) = 0
      OBVIOUS
    <3> QED
      BY <3>1 DEF Starts
  <2>5. Counted'
    BY <2>2, <2>3, <2>4
  <2> QED
    BY <2>1, <2>5
<1>2. CASE /\ UNCHANGED <<phase, output, errors, stdout, stderr, spoken, answer>>
           /\ bash.at = "ended" => bash'.at = "ended"
  BY <1>2 DEF Output, Phases
<1>3. CASE OwnReplace
  BY <1>3 DEF OwnReplace
<1>4. CASE CloseStdin
  BY <1>4 DEF CloseStdin, pipes, heard, Phases
<1>5. CASE ReadLimited
  <2>1. answer' # "shown" /\ bash' = bash
    BY <1>5 DEF ReadLimited, Phases
  <2>2. CASE phase = "out"
    <3>1. stdout # <<>> /\ output' = Append(output, Head(stdout)) /\ stdout' = Tail(stdout)
      BY <1>5, <2>2 DEF ReadLimited
    <3>2. Len(output') = Len(output) + 1 /\ Len(stdout') = Len(stdout) - 1
      BY <3>1 DEF TypeOK, PipeTypes
    <3>3. phase' = phase /\ stderr' = stderr /\ errors' = errors /\ spoken' = spoken
      BY <1>5, <2>2 DEF ReadLimited
    <3> QED
      BY <2>1, <2>2, <3>2, <3>3 DEF TypeOK, PipeTypes
  <2>3. CASE phase = "err"
    <3>1. stderr # <<>> /\ errors' = Append(errors, Head(stderr)) /\ stderr' = Tail(stderr)
      BY <1>5, <2>3 DEF ReadLimited
    <3>2. Len(errors') = Len(errors) + 1 /\ Len(stderr') = Len(stderr) - 1
      BY <3>1 DEF TypeOK, PipeTypes
    <3>3. phase' = phase /\ stdout' = stdout /\ spoken' = spoken /\ output' = output
      BY <1>5, <2>3 DEF ReadLimited
    <3> QED
      BY <2>1, <2>3, <3>2, <3>3, ShellAssumption DEF TypeOK, PipeTypes
  <2> QED
    BY <1>5, <2>2, <2>3 DEF ReadLimited
<1>6. CASE StopReading
  BY <1>6 DEF StopReading, Full, Closed, pipes, heard, Phases
<1>7. CASE ScriptEnds
  <2>1. phase = "wait" /\ phase' = "idle" /\ UNCHANGED <<output, errors, spoken>> /\ answer' = Shown
    BY <1>7 DEF ScriptEnds, Exited, heard
  <2>2. Len(Output) = Len(output) + Len(errors)
    BY DEF Output, TypeOK, PipeTypes
  <2>4. answer' = "shown" => Len(output) + Len(errors) <= ShowLimit
    BY <2>1, <2>2, ShellAssumption DEF Shown, TypeOK, PipeTypes
  <2>3. answer' = "shown" => stdout = <<>> /\ stderr = <<>>
    BY <2>1, <2>4, ShellAssumption DEF TypeOK, PipeTypes
  <2> QED
    BY <2>1, <2>2, <2>3 DEF Output, TypeOK, PipeTypes
<1>8. CASE WriteEnds \/ ReadFails
  BY <1>8 DEF WriteEnds, ReadFails
<1>9. CASE Store
  <2>1. Starts(action.mode) /\ phase' = "feed"
    BY <1>9, SpawnStarts DEF Store, StoreUnchecked, TypeOK
  <2> QED
    BY <1>9, <2>1 DEF Store, StoreUnchecked, Exited, Starts, Phases
<1>10. CASE Timeout
  BY <1>10 DEF Timeout, TimeoutIn
<1>11. CASE Speak
  <2>1. phase' = phase /\ answer' = answer /\ output' = output /\ errors' = errors
    BY <1>11 DEF Speak, heard
  <2>2. phase \in Running /\ answer # "shown" /\ bash.at # "ended"
    BY <1>11 DEF Speak, Phases, TypeOK
  <2>3. \/ UNCHANGED <<stdout, stderr, spoken>>
        \/ OutOpen /\ stdout' = Append(stdout, Head(bash.units)) /\ spoken' = spoken + 1 /\ stderr' = stderr
        \/ ErrOpen /\ stderr' = Append(stderr, Head(bash.units)) /\ spoken' = spoken + 1 /\ stdout' = stdout
    BY <1>11 DEF Speak, Broken
  <2>4. \/ UNCHANGED <<stdout, stderr, spoken>>
        \/ /\ phase \in {"feed", "out"} /\ Len(stdout') = Len(stdout) + 1
           /\ spoken' = spoken + 1 /\ stderr' = stderr
        \/ /\ phase \in {"feed", "out", "err"} /\ Len(stderr') = Len(stderr) + 1
           /\ spoken' = spoken + 1 /\ stdout' = stdout
    BY <2>3 DEF OutOpen, ErrOpen, TypeOK, PipeTypes
  <2>5. (phase' # "wait" /\ answer' # "shown") \/ UNCHANGED <<stdout, stderr, spoken>>
    BY <2>1, <2>2, <2>4
  <2>6. spoken' = Len(output') + Len(errors') + Len(stdout') + Len(stderr')
    <3>1. /\ spoken = Len(output) + Len(errors) + Len(stdout) + Len(stderr)
          /\ spoken \in Nat /\ Len(output) \in Nat /\ Len(errors) \in Nat
          /\ Len(stdout) \in Nat /\ Len(stderr) \in Nat
      BY <2>2 DEF TypeOK, PipeTypes
    <3> QED
      BY <2>1, <2>4, <3>1
  <2>7. phase' \in {"err", "wait"} => Len(output') >= MaxOutput
    BY <2>1, <2>2
  <2> QED
    BY <2>1, <2>2, <2>5, <2>6, <2>7
<1>12. CASE LeftBehind
  <2>1. /\ phase' = phase /\ answer' = answer /\ stderr' = stderr
        /\ output' = output /\ errors' = errors /\ bash' = bash
    BY <1>12 DEF LeftBehind, heard
  <2>2. \/ UNCHANGED <<stdout, spoken>>
        \/ OutOpen /\ stdout' = Append(stdout, Newline) /\ spoken' = spoken + 1
    BY <1>12 DEF LeftBehind
  <2>3. \/ UNCHANGED <<stdout, spoken>>
        \/ phase \in {"feed", "out"} /\ Len(stdout') = Len(stdout) + 1 /\ spoken' = spoken + 1
    BY <2>2 DEF OutOpen, TypeOK, PipeTypes
  <2>4. OutputWhole'
    <3>1. answer = "shown" => phase = "idle"
      BY DEF Phases
    <3> QED
      BY <2>1, <2>3, <3>1 DEF Output
  <2>5. Counted'
    <3>1. UNCHANGED <<stdout, spoken>> => Counted'
      BY <2>1
    <3>2. ASSUME phase \in {"feed", "out"}, Len(stdout') = Len(stdout) + 1, spoken' = spoken + 1 PROVE Counted'
      <4>1. /\ spoken = Len(output) + Len(errors) + Len(stdout) + Len(stderr)
            /\ spoken \in Nat /\ Len(output) \in Nat /\ Len(errors) \in Nat
            /\ Len(stdout) \in Nat /\ Len(stderr) \in Nat
        BY <3>2 DEF TypeOK, PipeTypes
      <4>2. spoken' = Len(output') + Len(errors') + Len(stdout') + Len(stderr')
        BY <2>1, <3>2, <4>1
      <4> QED
        BY <2>1, <3>2, <4>2
    <3> QED
      BY <2>3, <3>1, <3>2
  <2> QED
    BY <2>4, <2>5
<1>13. CASE Writing \/ RunCommand \/ Cat \/ Put \/ Exit \/ HangEnds \/ UNCHANGED vars
  BY <1>2, <1>13 DEF Writing, RunCommand, Cat, Put, Take, Exit, HangEnds, Dead, pipes, heard, vars
<1> QED
  BY <1>1, <1>3, <1>4, <1>5, <1>6, <1>7, <1>8, <1>9, <1>10, <1>11, <1>12, <1>13 DEF Next, Engine, Bash

---------------------------------------------------------------------------
(* What a replacement does to the file.  Before: while the file is read,   *)
(* what was read of either channel, what is in its pipe and what bash has  *)
(* still to say are what the login shell says and then the file; while it  *)
(* is written, the text is the one that was planned.                       *)

Intact == bash.ok /\ ~touched

\* The command of a replacement is not yet taken.
Waiting == unsent + stdin # 0

OutSaid == (output \o stdout) \o (IF bash.at = "speaks" THEN bash.units ELSE <<>>)
ErrSaid == (errors \o stderr) \o (IF bash.at = "warns" THEN bash.units ELSE <<>>)

Reads ==
  action.op = "read" /\ phase \in Running =>
    /\ unsent + stdin <= 1
    /\ ~left.holds /\ Len(stdout) <= Pipe /\ Len(output) <= MaxOutput
    /\ ~touched => file = before
    /\ Waiting => /\ bash.ok /\ bash.at \in {"ready", "speaks", "warns"}
                  /\ OutSaid = Greeting(action.mode) /\ ErrSaid = Warning(action.mode)
    /\ ~Waiting /\ Intact => OutSaid = Greeting(action.mode) \o before /\ ErrSaid = Warning(action.mode)

Owns ==
  /\ action.op = "read" => action.text[1] \in Text
  /\ phase = "own" /\ ~touched => output = file /\ file = before

Planned ==
  /\ Len(Greeting(action.mode) \o before) <= MaxOutput + Pipe
  /\ \E r \in Text, complaint \in {<<>>, Warning(action.mode)} :
       /\ Matches(Given(action.mode, before, complaint), action.search) = 1
       /\ action.text = ReplaceOnce(Given(action.mode, before, complaint), action.search, r)

Written == file \in {Append(text, Newline) : text \in Kept(action.text)}

Stores ==
  action.op = "store" /\ phase \in Running =>
    /\ unsent + stdin <= 1
    /\ bash.at = "ended" /\ bash.ok => unsent + stdin = 0
    /\ ~touched => Planned
    /\ Intact /\ unsent + stdin = 0 => Written

Replacing == Reads /\ Owns /\ Stores /\ ReplaceKeepsRest

LEMMA MoveHead ==
  ASSUME NEW s \in Seq(Unit), NEW t \in Seq(Unit), t # <<>>
  PROVE  Append(s, Head(t)) \o Tail(t) = s \o t
OBVIOUS

LEMMA AppendLast ==
  ASSUME NEW s \in Seq(Unit), NEW t \in Seq(Unit), NEW u \in Unit
  PROVE  s \o Append(t, u) = Append(s \o t, u)
OBVIOUS

LEMMA ConcatEmpty ==
  ASSUME NEW s \in Seq(Unit) PROVE s \o <<>> = s /\ <<>> \o s = s
OBVIOUS

LEMMA Beginning ==
  ASSUME NEW s \in Seq(Unit), NEW t \in Seq(Unit)
  PROVE  SubSeq(s \o t, 1, Len(s)) = s /\ Len(s \o t) = Len(s) + Len(t) /\ s \o t \in Seq(Unit)
OBVIOUS

LEMMA TailOfOne == ASSUME NEW s \in Seq(Unit), Len(s) = 1 PROVE Tail(s) = <<>>
<1>1. Tail(s) \in Seq(Unit) /\ Len(Tail(s)) = 0
  OBVIOUS
<1> QED
  BY <1>1, EmptySeq

LEMMA LoginTyped ==
  ASSUME NEW mode
  PROVE  /\ Greeting(mode) \in Seq(Unit) /\ Warning(mode) \in Seq(Unit)
         /\ Len(Greeting(mode)) <= 1 /\ Warning(mode) \in {<<>>, <<Newline>>}
         /\ Warning(mode) # <<>> => Greeting(mode) = <<>>
<1>1. Newline \in Unit
  BY DEF Unit
<1>2. <<Newline>> \in Seq(Unit) /\ <<>> \in Seq(Unit) /\ Len(<<Newline>>) = 1 /\ Len(<<>>) = 0
  BY <1>1
<1> QED
  BY <1>2 DEF Greeting, Warning

\* A shell that starts has said nothing yet of what its login shell says.
LEMMA StartSaid ==
  ASSUME NEW mode, Starts(mode)
  PROVE  /\ OutSaid' = Greeting(mode) /\ ErrSaid' = Warning(mode)
         /\ bash'.ok /\ bash'.at \in {"ready", "speaks", "warns"}
<1>1. \A s \in Seq(Unit) : (<<>> \o <<>>) \o s = s
  BY ConcatEmpty, EmptyIsSeq
<1> QED
  BY <1>1, LoginTyped, StartsSays DEF Starts, OutSaid, ErrSaid

\* Nothing the properties speak of changes but the place of the engine.
LEMMA ReplacingKept ==
  ASSUME Replacing, UNCHANGED <<file, action, unsent, pipes, bash, heard, left, before, touched>>,
         phase' \in Running => phase \in Running, phase' # "own" \/ phase = "own",
         answer' # "replaced" \/ answer' = answer
  PROVE  Replacing'
<1> USE DEF Replacing, pipes, heard
<1>1. Reads'
  BY DEF Reads, Intact, Waiting, OutSaid, ErrSaid
<1>2. Owns'
  BY DEF Owns
<1>3. Stores'
  BY DEF Stores, Intact, Planned, Written
<1>4. ReplaceKeepsRest'
  BY DEF ReplaceKeepsRest
<1> QED
  BY <1>1, <1>2, <1>3, <1>4

LEMMA ReplaceBegins ==
  ASSUME TypeOK, Phases, Replacing, ExecuteScript \/ ExecuteWriteFile \/ ExecuteReplaceInFile
  PROVE  Replacing'
<1> USE DEF Running, None
<1>1. answer' # "replaced"
  BY ExecuteBegins
<1>2. action'.op = "read" => action'.text[1] \in Text
  <2>1. ASSUME NEW op \in {"script", "write"}, NEW mode, NEW s, NEW text, Begin(op, mode, s, text)
        PROVE  action'.op # "read"
    BY <2>1 DEF Begin
  <2>2. ASSUME NEW mode, NEW s, NEW r \in Text, Begin("read", mode, s, <<r>>) PROVE action'.text[1] \in Text
    BY <2>2 DEF Begin
  <2>3. CASE ExecuteScript
    BY <2>1, <2>3 DEF ExecuteScript
  <2>4. CASE ExecuteWriteFile
    BY <2>1, <2>4 DEF ExecuteWriteFile
  <2>5. CASE ExecuteReplaceInFile
    BY <2>2, <2>5 DEF ExecuteReplaceInFile
  <2> QED
    BY <2>3, <2>4, <2>5
<1>3. Owns'
  BY <1>2, ExecuteBegins DEF Owns
<1>4. Reads'
  <2> SUFFICES ASSUME action'.op = "read", phase' \in Running PROVE Reads'
    BY DEF Reads
  <2>1. /\ Starts(action'.mode) /\ unsent' = 1 /\ before' = file /\ file' = file
    BY ExecuteBegins
  <2>2. /\ OutSaid' = Greeting(action'.mode) /\ ErrSaid' = Warning(action'.mode)
        /\ bash'.ok /\ bash'.at \in {"ready", "speaks", "warns"}
    BY <2>1, StartSaid
  <2>3. /\ unsent' + stdin' = 1 /\ ~left'.holds /\ stdout' = <<>> /\ output' = <<>>
    BY <2>1 DEF Starts
  <2>4. Len(<<>>) = 0 /\ 0 <= Pipe /\ 0 <= MaxOutput
    BY ShellAssumption
  <2> QED
    BY <2>1, <2>2, <2>3, <2>4 DEF Reads, Waiting
<1>5. Stores'
  BY ExecuteBegins DEF Stores
<1> QED
  BY <1>1, <1>3, <1>4, <1>5 DEF Replacing, ReplaceKeepsRest

LEMMA OwnReplaceKeeps ==
  ASSUME TypeOK, Phases, Replacing, OwnReplace
  PROVE  Replacing'
<1>1. /\ phase = "own" /\ phase' = "idle" /\ action' = action /\ before' = before /\ touched' = touched
      /\ answer' = "replaced" => /\ Matches(output, action.search) = 1
                                 /\ file' = ReplaceOnce(output, action.search, action.text[1])
  BY DEF OwnReplace, ghosts
<1>2. action.op = "read" /\ action.mode = "privileged" /\ action.text[1] \in Text
  BY <1>1 DEF Phases, Replacing, Owns
<1>3. ReplaceKeepsRest'
  BY <1>1, <1>2 DEF ReplaceKeepsRest, Replacing, Owns
<1>4. Owns'
  BY <1>1, <1>2 DEF Owns
<1> QED
  BY <1>1, <1>3, <1>4 DEF Replacing, Reads, Stores, Running

LEMMA OneLong == \A s \in {<<>>, <<Newline>>} : Len(s) <= 1
<1>1. Len(<<>>) = 0 /\ Len(<<Newline>>) = 1
  OBVIOUS
<1>2. Len(<<>>) <= 1 /\ Len(<<Newline>>) <= 1
  BY <1>1
<1> QED
  BY <1>2, Zenon

LEMMA PrefixOfOne ==
  ASSUME NEW s \in Seq(Unit), NEW t \in Seq(Unit), s \o t \in {<<>>, <<Newline>>}
  PROVE  s \in {<<>>, s \o t}
<1>1. Len(s \o t) = Len(s) + Len(t) /\ Len(s) \in Nat /\ Len(t) \in Nat
  OBVIOUS
<1>2. Len(s \o t) <= 1
  BY Zenon, OneLong
<1>3. Len(s) = 0 \/ Len(t) = 0
  BY <1>1, <1>2
<1>4. CASE Len(s) = 0
  BY <1>4, EmptySeq
<1>5. CASE Len(t) = 0
  <2>1. t = <<>>
    BY <1>5, EmptySeq
  <2>2. s \o t = s
    BY <2>1, ConcatEmpty
  <2> QED
    BY <2>2
<1> QED
  BY <1>3, <1>4, <1>5

\* What the engine has read when both readers have gone on.
LEMMA AllGiven ==
  ASSUME TypeOK, Phases, Counted, Reads, phase = "wait", bash.at = "ended", bash.ok,
         action.op = "read", ~touched
  PROVE  /\ Len(Greeting(action.mode) \o before) <= MaxOutput + Pipe
         /\ \E complaint \in {<<>>, Warning(action.mode)} : Content = Given(action.mode, before, complaint)
<1> DEFINE said == Greeting(action.mode) \o before
<1>1. /\ Len(stdout) <= Pipe /\ Len(output) <= MaxOutput
      /\ OutSaid = said /\ ErrSaid = Warning(action.mode)
  BY DEF Reads, Running, Waiting, Intact
<1>2. /\ output \in Seq(Unit) /\ stdout \in Seq(Unit) /\ errors \in Seq(Unit) /\ stderr \in Seq(Unit)
      /\ output \o stdout \in Seq(Unit) /\ errors \o stderr \in Seq(Unit)
  BY DEF TypeOK, PipeTypes
<1>3. output \o stdout = said /\ errors \o stderr = Warning(action.mode)
  BY <1>1, <1>2, ConcatEmpty DEF OutSaid, ErrSaid
<1>4. errors \in {<<>>, Warning(action.mode)}
  BY <1>2, <1>3, LoginTyped, PrefixOfOne
<1>5. Len(said) = Len(output) + Len(stdout)
  BY <1>2, <1>3, Beginning
<1>6. Len(said) <= MaxOutput + Pipe
  BY <1>1, <1>2, <1>5, ShellAssumption
<1>7. output = IF Len(said) <= MaxOutput THEN said ELSE SubSeq(said, 1, MaxOutput)
  <2>1. CASE stdout = <<>>
    BY <1>1, <1>2, <1>3, <2>1, ConcatEmpty
  <2>2. CASE stdout # <<>>
    <3>1. Len(output) = MaxOutput
      BY <1>1, <1>2, <2>2, ShellAssumption DEF Counted
    <3>2. Len(stdout) # 0
      BY <1>2, <2>2, EmptySeq
    <3>3. ~(Len(said) <= MaxOutput)
      BY <1>2, <1>5, <3>1, <3>2, ShellAssumption
    <3>4. SubSeq(said, 1, MaxOutput) = output
      BY <1>2, <1>3, <3>1, Beginning
    <3> QED
      BY <3>3, <3>4
  <2> QED
    BY <2>1, <2>2
<1>8. Content = Given(action.mode, before, errors)
  BY <1>7 DEF Content, Output, Given
<1> QED
  BY <1>4, <1>6, <1>8

LEMMA StoreKeeps ==
  ASSUME TypeOK, Phases, Counted, Replacing, Store
  PROVE  Replacing'
<1> DEFINE text == ReplaceOnce(Content, action.search, action.text[1])
<1>1. /\ phase = "wait" /\ bash.at = "ended" /\ bash.ok /\ action.op = "read"
      /\ Matches(Content, action.search) = 1
      /\ action' = [action EXCEPT !.op = "store", !.text = text]
      /\ file' = file /\ before' = before /\ touched' = touched /\ answer' = answer
  BY DEF Store, StoreUnchecked, Exited, ghosts
<1>2. phase' = "feed" /\ unsent' = 1 /\ Starts(action.mode)
  BY SpawnStarts DEF Store, StoreUnchecked, TypeOK
<1>3. action.text[1] \in Text
  BY <1>1 DEF Replacing, Owns
<1>4. /\ action'.op = "store" /\ action'.search = action.search
      /\ action'.text = text /\ action'.mode = action.mode
  BY <1>1 DEF TypeOK, ActionTypes
<1>5. ASSUME ~touched PROVE Planned'
  <2>1. /\ Len(Greeting(action.mode) \o before) <= MaxOutput + Pipe
        /\ \E complaint \in {<<>>, Warning(action.mode)} : Content = Given(action.mode, before, complaint)
    BY <1>1, <1>5, AllGiven DEF Replacing
  <2> QED
    BY <1>1, <1>3, <1>4, <2>1 DEF Planned
<1>6. answer' # "replaced"
  BY <1>1 DEF Phases
<1>7. Stores'
  <2>1. unsent' + stdin' = 1 /\ bash'.at # "ended"
    <3>1. stdin' = 0
      BY <1>2 DEF Starts
    <3>2. bash'.at \in {"ready", "speaks", "warns"}
      BY <1>2, StartSaid
    <3> QED
      BY <1>2, <3>1, <3>2
  <2> QED
    BY <1>1, <1>5, <2>1 DEF Stores
<1>8. Owns' /\ Reads' /\ ReplaceKeepsRest'
  BY <1>2, <1>4, <1>6 DEF Owns, Reads, ReplaceKeepsRest
<1> QED
  BY <1>7, <1>8 DEF Replacing

LEMMA WriteEndsKeeps ==
  ASSUME TypeOK, Phases, Replacing, WriteEnds
  PROVE  Replacing'
<1>1. /\ phase = "wait" /\ bash.at = "ended" /\ phase' = "idle"
      /\ UNCHANGED <<file, action, before, touched>>
      /\ answer' = "replaced" => bash.ok /\ action.op = "store"
  BY DEF WriteEnds, Exited, ghosts
<1>2. ASSUME answer' = "replaced", ~touched
      PROVE  Written /\ Planned /\ action.mode # "privileged"
  <2>1. unsent + stdin = 0
    BY <1>1, <1>2 DEF Replacing, Stores, Running
  <2> QED
    BY <1>1, <1>2, <2>1 DEF Replacing, Stores, Running, Intact, Phases
<1>3. ReplaceKeepsRest'
  BY <1>1, <1>2 DEF ReplaceKeepsRest, Planned, Written
<1> QED
  BY <1>1, <1>3 DEF Replacing, Reads, Stores, Owns, Running

LEMMA ReadLimitedKeeps ==
  ASSUME TypeOK, Phases, Replacing, ReadLimited
  PROVE  Replacing'
<1>1. /\ UNCHANGED <<file, action, phase, unsent, stdin, bash, left, answer, before, touched>>
      /\ phase \in {"out", "err"}
  BY DEF ReadLimited, ghosts
<1>2. Owns' /\ Stores' /\ ReplaceKeepsRest'
  BY <1>1 DEF Replacing, Owns, Stores, ReplaceKeepsRest, Intact, Planned, Written
<1>3. /\ output \in Seq(Unit) /\ stdout \in Seq(Unit)
      /\ errors \in Seq(Unit) /\ stderr \in Seq(Unit)
  BY DEF TypeOK, PipeTypes
<1>4. /\ output' \o stdout' = output \o stdout /\ errors' \o stderr' = errors \o stderr
      /\ Len(stdout) <= Pipe => Len(stdout') <= Pipe
      /\ Len(output) <= MaxOutput => Len(output') <= MaxOutput
  <2>1. CASE phase = "out"
    <3>1. /\ stdout # <<>> /\ UNCHANGED <<stderr, errors>> /\ Len(output) < MaxOutput
          /\ output' = Append(output, Head(stdout)) /\ stdout' = Tail(stdout)
      BY <2>1, ShellAssumption, <1>3 DEF ReadLimited, Full
    <3>2. output' \o stdout' = output \o stdout
      BY <1>3, <3>1, MoveHead
    <3>3. Len(stdout') = Len(stdout) - 1 /\ Len(output') = Len(output) + 1
      BY <1>3, <3>1
    <3> QED
      BY <1>3, <3>1, <3>2, <3>3, ShellAssumption
  <2>2. CASE phase = "err"
    <3>1. /\ stderr # <<>> /\ UNCHANGED <<stdout, output>>
          /\ errors' = Append(errors, Head(stderr)) /\ stderr' = Tail(stderr)
      BY <2>2 DEF ReadLimited
    <3>2. errors' \o stderr' = errors \o stderr
      BY <1>3, <3>1, MoveHead
    <3> QED
      BY <3>1, <3>2
  <2> QED
    BY <1>1, <2>1, <2>2
<1>5. Reads'
  BY <1>1, <1>4 DEF Replacing, Reads, Running, Intact, Waiting, OutSaid, ErrSaid
<1> QED
  BY <1>2, <1>5 DEF Replacing

\* bash is not at work without an action that runs.
LEMMA BashRuns == ASSUME TypeOK, Phases, bash.at # "ended" PROVE phase \in Running /\ answer \notin {"shown", "replaced"}
BY DEF TypeOK, Phases, Running

\* A unit that bash writes moves from what it has to say into the pipe.
LEMMA SpeakMoves ==
  ASSUME TypeOK, Speak
  PROVE  \/ bash' \in {Ready(FALSE), Dead} /\ UNCHANGED <<stdout, stderr>>
            /\ \/ bash.at = "speaks" /\ bash.units # <<>> /\ ~OutOpen
               \/ bash.at = "warns" /\ ~ErrOpen
         \/ /\ OutSaid' = OutSaid /\ ErrSaid' = ErrSaid /\ bash'.ok = bash.ok
            /\ bash'.at \in {"ready", "speaks", "warns"}
            /\ Len(stdout) <= Pipe => Len(stdout') <= Pipe
<1> DEFINE unit == Head(bash.units)
<1>1. /\ output \in Seq(Unit) /\ stdout \in Seq(Unit) /\ errors \in Seq(Unit) /\ stderr \in Seq(Unit)
      /\ bash \in BashState /\ bash.units \in Seq(Unit)
      /\ UNCHANGED <<output, errors>> /\ bash.at \in {"speaks", "warns"}
      /\ output \o stdout \in Seq(Unit) /\ errors \o stderr \in Seq(Unit)
  BY DEF TypeOK, PipeTypes, BashTypes, BashState, Speak, heard
<1>2. CASE bash.units = <<>> /\ bash' = Ready(bash.ok) /\ UNCHANGED <<stdout, stderr>>
  BY <1>1, <1>2 DEF OutSaid, ErrSaid, Ready
<1>3. ASSUME bash.units # <<>>, bash' = Rest
      PROVE  /\ bash'.ok = bash.ok /\ bash'.at \in {bash.at, "ready"}
             /\ (IF bash'.at = bash.at THEN bash'.units ELSE <<>>) = Tail(bash.units)
             /\ unit \in Unit /\ Tail(bash.units) \in Seq(Unit)
  <2>1. unit \in Unit /\ Tail(bash.units) \in Seq(Unit)
    BY <1>1, <1>3
  <2>2. CASE Len(bash.units) > 1
    <3>1. bash' = [bash EXCEPT !.units = Tail(bash.units)]
      BY <1>3, <2>2 DEF Rest
    <3> QED
      BY <1>1, <2>1, <3>1 DEF BashState
  <2>3. CASE ~(Len(bash.units) > 1)
    <3>1. Len(bash.units) = 1
      <4>1. Len(bash.units) \in Nat /\ Len(bash.units) # 0
        BY <1>1, <1>3, EmptySeq
      <4>2. \A n \in Nat : n # 0 /\ ~(n > 1) => n = 1
        OBVIOUS
      <4> QED
        BY <2>3, <4>1, <4>2
    <3>2. Tail(bash.units) = <<>>
      BY <1>1, <3>1, TailOfOne
    <3>3. bash' = Ready(bash.ok)
      BY <1>3, <2>3 DEF Rest
    <3> QED
      BY <1>1, <2>1, <3>2, <3>3 DEF Ready
  <2> QED
    BY <2>2, <2>3
<1>4. CASE /\ bash.at = "speaks" /\ bash.units # <<>> /\ Len(stdout) < Pipe
           /\ stdout' = Append(stdout, unit) /\ bash' = Rest /\ UNCHANGED stderr
  <2>1. /\ bash'.ok = bash.ok /\ bash'.at \in {"speaks", "ready"}
        /\ (IF bash'.at = "speaks" THEN bash'.units ELSE <<>>) = Tail(bash.units)
        /\ unit \in Unit /\ Tail(bash.units) \in Seq(Unit)
    BY <1>3, <1>4
  <2>2. (output \o stdout') \o Tail(bash.units) = (output \o stdout) \o bash.units
    <3>1. output \o stdout' = Append(output \o stdout, unit)
      BY <1>1, <1>4, <2>1, AppendLast
    <3> QED
      BY <1>1, <1>4, <3>1, MoveHead
  <2>3. Len(stdout') <= Pipe
    <3>1. Len(stdout') = Len(stdout) + 1
      BY <1>1, <1>4, <2>1
    <3> QED
      BY <1>1, <1>4, <3>1, ShellAssumption
  <2>4. OutSaid' = OutSaid
    BY <1>1, <1>4, <2>1, <2>2 DEF OutSaid
  <2>5. ErrSaid' = ErrSaid
    BY <1>1, <1>4, <2>1 DEF ErrSaid
  <2> QED
    BY <2>1, <2>3, <2>4, <2>5
<1>5. CASE /\ bash.at = "warns" /\ bash.units # <<>>
           /\ stderr' = Append(stderr, unit) /\ bash' = Rest /\ UNCHANGED stdout
  <2>1. /\ bash'.ok = bash.ok /\ bash'.at \in {"warns", "ready"}
        /\ (IF bash'.at = "warns" THEN bash'.units ELSE <<>>) = Tail(bash.units)
        /\ unit \in Unit /\ Tail(bash.units) \in Seq(Unit)
    BY <1>3, <1>5
  <2>2. (errors \o stderr') \o Tail(bash.units) = (errors \o stderr) \o bash.units
    <3>1. errors \o stderr' = Append(errors \o stderr, unit)
      BY <1>1, <1>5, <2>1, AppendLast
    <3> QED
      BY <1>1, <1>5, <3>1, MoveHead
  <2>3. ErrSaid' = ErrSaid
    BY <1>1, <1>5, <2>1, <2>2 DEF ErrSaid
  <2>4. OutSaid' = OutSaid
    BY <1>1, <1>5, <2>1 DEF OutSaid
  <2> QED
    BY <1>5, <2>1, <2>3, <2>4
<1> QED
  BY <1>2, <1>4, <1>5 DEF Speak, Broken

\* While the login shell speaks, somebody reads what it says.
LEMMA GreetingIsRead ==
  ASSUME TypeOK, Phases, Counted, Reads, action.op = "read", phase \in Running, Waiting
  PROVE  /\ bash.at = "speaks" /\ bash.units # <<>> => OutOpen
         /\ bash.at = "warns" => ErrOpen
<1>1. OutSaid = Greeting(action.mode) /\ ErrSaid = Warning(action.mode) /\ bash.at # "ended"
  BY DEF Reads
<1>2. /\ output \in Seq(Unit) /\ stdout \in Seq(Unit) /\ errors \in Seq(Unit) /\ stderr \in Seq(Unit)
      /\ bash.units \in Seq(Unit)
  BY DEF TypeOK, PipeTypes, BashTypes, BashState
<1>3. Len(Greeting(action.mode)) <= 1 /\ (Warning(action.mode) # <<>> => Greeting(action.mode) = <<>>)
  BY LoginTyped
<1> DEFINE spoken1 == IF bash.at = "speaks" THEN bash.units ELSE <<>>
<1>4. Len(output) + Len(stdout) + Len(spoken1) = Len(Greeting(action.mode))
  <2>1. spoken1 \in Seq(Unit)
    BY <1>2, EmptyIsSeq
  <2>2. OutSaid = (output \o stdout) \o spoken1
    BY DEF OutSaid
  <2> HIDE DEF spoken1
  <2> QED
    BY <1>1, <1>2, <2>1, <2>2
<1>5. ASSUME ~OutOpen PROVE Len(output) >= 1 /\ Len(spoken1) = 0
  <2>1. Len(output) >= MaxOutput /\ MaxOutput >= 1
    BY <1>1, <1>5, ShellAssumption DEF Counted, OutOpen, Running
  <2>2. Len(output) >= 1
    BY <1>2, <2>1, ShellAssumption
  <2>3. spoken1 \in Seq(Unit)
    BY <1>2, EmptyIsSeq
  <2>4. \A k, m, n, o \in Nat : k + m + n = o /\ o <= 1 /\ k >= 1 => n = 0
    OBVIOUS
  <2>5. Len(output) \in Nat /\ Len(stdout) \in Nat /\ Len(spoken1) \in Nat /\ Len(Greeting(action.mode)) \in Nat
    BY <1>2, <2>3, LoginTyped
  <2> HIDE DEF spoken1
  <2> QED
    BY <1>3, <1>4, <2>2, <2>4, <2>5
<1>6. bash.at = "speaks" /\ bash.units # <<>> => OutOpen
  BY <1>2, <1>5, EmptySeq
<1>7. bash.at = "warns" => OutOpen
  <2> SUFFICES ASSUME bash.at = "warns", ~OutOpen PROVE FALSE
    OBVIOUS
  <2>1. Len(Greeting(action.mode)) # 0
    <3>1. Len(output) \in Nat /\ Len(stdout) \in Nat /\ Len(spoken1) = 0
      BY <1>2, <1>5
    <3> HIDE DEF spoken1
    <3> QED
      BY <1>4, <1>5, <3>1
  <2>2. Warning(action.mode) = <<>>
    BY <1>3, <2>1
  <2>3. Len(errors \o stderr \o bash.units) = 0
    BY <1>1, <2>2 DEF ErrSaid
  <2>4. Len(bash.units) # 0
    BY <1>2, EmptySeq DEF Phases
  <2>5. \A k, m, n \in Nat : k + m + n = 0 => n = 0
    OBVIOUS
  <2>6. Len(errors \o stderr \o bash.units) = Len(errors) + Len(stderr) + Len(bash.units)
    BY <1>2
  <2>7. Len(errors) \in Nat /\ Len(stderr) \in Nat /\ Len(bash.units) \in Nat
    BY <1>2
  <2> QED
    BY <2>3, <2>4, <2>5, <2>6, <2>7
<1> QED
  BY <1>6, <1>7 DEF OutOpen, ErrOpen

LEMMA SpeakKeeps ==
  ASSUME TypeOK, Phases, Counted, Replacing, Speak
  PROVE  Replacing'
<1>1. /\ UNCHANGED <<file, action, phase, unsent, stdin, output, errors, left, answer, before, touched>>
      /\ bash.at \in {"speaks", "warns"} /\ phase \in Running /\ answer # "replaced"
  BY BashRuns DEF Speak, heard, ghosts
<1>2. ~Ready(FALSE).ok /\ ~Dead.ok
  BY DEF Ready, Dead
<1>3. bash'.ok => bash.ok /\ bash'.at # "ended"
  BY <1>2, SpeakMoves
<1>4. Owns' /\ Stores' /\ ReplaceKeepsRest'
  BY <1>1, <1>3 DEF Replacing, Owns, Stores, ReplaceKeepsRest, Intact, Planned, Written
<1>5. ASSUME action.op = "read" PROVE Reads'
  <2>1. Waiting => (bash.at = "speaks" /\ bash.units # <<>> => OutOpen) /\ (bash.at = "warns" => ErrOpen)
    BY <1>1, <1>5, GreetingIsRead DEF Replacing
  <2>2. CASE bash' \in {Ready(FALSE), Dead} /\ UNCHANGED <<stdout, stderr>> /\ ~Waiting
    BY <1>1, <1>2, <1>5, <2>2 DEF Replacing, Reads, Waiting, Intact
  <2>3. CASE /\ OutSaid' = OutSaid /\ ErrSaid' = ErrSaid /\ bash'.ok = bash.ok
             /\ bash'.at \in {"ready", "speaks", "warns"}
             /\ Len(stdout) <= Pipe => Len(stdout') <= Pipe
    BY <1>1, <1>5, <2>3 DEF Replacing, Reads, Waiting, Intact
  <2> QED
    BY <2>1, <2>2, <2>3, SpeakMoves
<1>6. Reads'
  BY <1>1, <1>5 DEF Reads
<1> QED
  BY <1>4, <1>6 DEF Replacing

LEMMA TakeKeeps ==
  ASSUME TypeOK, Phases, Replacing, RunCommand \/ Cat \/ Put
  PROVE  Replacing'
<1>1. /\ UNCHANGED <<action, phase, unsent, stdout, stderr, output, answer, before, touched>>
      /\ bash.at = "ready" /\ stdin > 0 /\ stdin' = stdin - 1
  BY DEF RunCommand, Cat, Put, Take, heard, ghosts
<1>2. phase \in Running /\ answer # "replaced" /\ unsent \in Nat /\ stdin \in Nat
  BY <1>1, BashRuns DEF TypeOK, PipeTypes
<1>3. Owns' /\ ReplaceKeepsRest'
  BY <1>1, <1>2 DEF Replacing, Owns, ReplaceKeepsRest, Phases
<1>4. CASE RunCommand
  BY <1>1, <1>3, <1>4 DEF RunCommand, Replacing, Reads, Stores
<1>5. CASE Cat
  <2>1. action.op = "read" /\ file' = file /\ left' = left /\ errors' = errors
    BY <1>5 DEF Cat, heard
  <2>2. bash' = Says(file) \/ bash' = Warns(<<Newline>>, FALSE)
    BY <1>5 DEF Cat
  <2>3. \/ bash'.at = "speaks" /\ bash'.units = file
        \/ ~bash'.ok
    <3>1. Says(file).at = "speaks" /\ Says(file).units = file /\ ~Warns(<<Newline>>, FALSE).ok
      BY DEF Says, Warns
    <3> QED
      BY <2>2, <3>1
  <2>4. Waiting /\ ~Waiting'
    BY <1>1, <1>2, <2>1 DEF Replacing, Reads, Waiting
  <2>5. ASSUME bash'.at = "speaks", bash'.units = file, ~touched
        PROVE  OutSaid' = Greeting(action.mode) \o before /\ ErrSaid' = Warning(action.mode)
    <3>1. OutSaid = Greeting(action.mode) /\ ErrSaid = Warning(action.mode) /\ file = before
      BY <1>2, <2>1, <2>4, <2>5 DEF Replacing, Reads
    <3>2. output \o stdout \in Seq(Unit) /\ errors \o stderr \in Seq(Unit)
      BY DEF TypeOK, PipeTypes
    <3>3. output \o stdout = Greeting(action.mode) /\ errors \o stderr = Warning(action.mode)
      BY <1>1, <3>1, <3>2, ConcatEmpty DEF OutSaid, ErrSaid
    <3>4. OutSaid' = (output \o stdout) \o file
      BY <1>1, <2>5 DEF OutSaid
    <3>5. ErrSaid' = (errors \o stderr) \o <<>>
      BY <1>1, <2>1, <2>5 DEF ErrSaid
    <3> QED
      BY <3>1, <3>2, <3>3, <3>4, <3>5, ConcatEmpty
  <2>6. unsent' + stdin' <= 1
    BY <1>1, <1>2, <2>1 DEF Replacing, Reads
  <2>7. Reads'
    BY <1>1, <1>2, <2>1, <2>3, <2>4, <2>5, <2>6 DEF Replacing, Reads, Intact
  <2> QED
    BY <1>1, <1>3, <2>1, <2>7 DEF Replacing, Stores
<1>6. CASE Put
  <2>1. action.op \in {"write", "store"}
    BY <1>6 DEF Put
  <2>2. \/ file' \in {Append(text, Newline) : text \in Kept(action.text)} /\ bash' = Ready(TRUE)
        \/ bash' = Ready(FALSE)
    BY <1>6 DEF Put
  <2>3. \/ Written' /\ bash'.at = "ready"
        \/ ~bash'.ok /\ bash'.at = "ready"
    BY <1>1, <2>2 DEF Ready, Written
  <2>4. action.op = "store" => unsent + stdin = 1 /\ unsent' + stdin' = 0
    BY <1>1, <1>2 DEF Replacing, Stores
  <2>5. Stores'
    BY <1>1, <1>2, <2>3, <2>4 DEF Replacing, Stores, Intact, Planned
  <2> QED
    BY <1>1, <1>3, <2>1, <2>5 DEF Replacing, Reads
<1> QED
  BY <1>4, <1>5, <1>6

LEMMA WritingKeeps ==
  ASSUME TypeOK, Phases, Replacing, Writing
  PROVE  Replacing'
<1>1. /\ UNCHANGED <<file, action, phase, stdout, stderr, bash, output, errors, left, answer, before, touched>>
      /\ phase = "feed" /\ unsent > 0 /\ unsent \in Nat /\ stdin \in Nat
      /\ \/ bash.at = "ended" /\ unsent' = 0 /\ stdin' = stdin
         \/ stdin' = stdin + 1 /\ unsent' = unsent - 1
  BY DEF Writing, heard, ghosts, TypeOK, PipeTypes
<1>2. Owns' /\ ReplaceKeepsRest'
  BY <1>1 DEF Replacing, Owns, ReplaceKeepsRest, Phases
<1>3. Reads'
  <2> SUFFICES ASSUME action.op = "read" PROVE Reads'
    BY <1>1 DEF Reads
  <2>1. unsent + stdin <= 1 /\ bash.at # "ended" /\ phase \in Running
    BY <1>1 DEF Replacing, Reads, Running, Waiting
  <2>2. unsent' + stdin' = unsent + stdin
    BY <1>1, <2>1
  <2> QED
    BY <1>1, <2>1, <2>2 DEF Replacing, Reads, Intact, Waiting, OutSaid, ErrSaid
<1>4. CASE action.op = "store"
  <2>1. unsent + stdin <= 1 /\ (bash.at = "ended" /\ bash.ok => FALSE)
    BY <1>1, <1>4 DEF Replacing, Stores, Running
  <2>2. unsent' + stdin' <= 1 /\ (bash.ok => unsent' + stdin' = unsent + stdin)
    BY <1>1, <2>1
  <2>3. Stores'
    BY <1>1, <1>4, <2>1, <2>2 DEF Replacing, Stores, Running, Intact, Planned, Written
  <2> QED
    BY <1>2, <1>3, <2>3 DEF Replacing
<1>5. CASE action.op # "store"
  BY <1>1, <1>2, <1>3, <1>5 DEF Replacing, Stores
<1> QED
  BY <1>4, <1>5

LEMMA ExitKeeps ==
  ASSUME TypeOK, Phases, Replacing, Exit
  PROVE  Replacing'
<1>1. /\ UNCHANGED <<file, action, phase, unsent, stdin, stdout, stderr, output, errors, left, answer, before, touched>>
      /\ bash.at = "ready" /\ stdin = 0 /\ phase # "feed" /\ phase \in Running /\ answer # "replaced"
  BY BashRuns DEF Exit, pipes, heard, ghosts
<1>2. bash'.at = "ended" /\ bash'.ok = bash.ok
  BY DEF Exit, Dead
<1>3. unsent + stdin = 0
  BY <1>1 DEF Phases, Running
<1>4. Owns' /\ ReplaceKeepsRest'
  BY <1>1 DEF Replacing, Owns, ReplaceKeepsRest
<1>5. OutSaid' = OutSaid /\ ErrSaid' = ErrSaid
  BY <1>1, <1>2 DEF OutSaid, ErrSaid
<1>6. Reads' /\ Stores'
  BY <1>1, <1>2, <1>3, <1>5 DEF Replacing, Reads, Stores, Intact, Waiting, Planned, Written
<1> QED
  BY <1>4, <1>6 DEF Replacing

LEMMA LeftBehindKeeps ==
  ASSUME TypeOK, Phases, Replacing, LeftBehind
  PROVE  Replacing'
<1>1. /\ UNCHANGED <<action, phase, unsent, stdin, stderr, bash, output, errors, answer, before>>
      /\ left'.holds => left.holds
      /\ \/ touched' /\ UNCHANGED stdout
         \/ UNCHANGED <<file, touched, stdout>>
         \/ left.holds /\ UNCHANGED <<file, touched>>
  <2>1. left' = [left EXCEPT !.todo = left.todo - 1, !.holds = left.holds /\ left.todo > 1] \/ ~left'.holds
    BY DEF LeftBehind
  <2>2. left'.holds => left.holds
    BY <2>1 DEF TypeOK, BashTypes
  <2> QED
    BY <2>2 DEF LeftBehind, heard
<1>2. CASE touched' /\ UNCHANGED stdout
  BY <1>1, <1>2 DEF Replacing, Reads, Owns, Stores, ReplaceKeepsRest, Intact, Waiting, OutSaid, ErrSaid
<1>3. CASE UNCHANGED <<file, touched, stdout>>
  BY <1>1, <1>3 DEF Replacing, Reads, Owns, Stores, ReplaceKeepsRest, Intact, Planned, Written,
    Waiting, OutSaid, ErrSaid
<1>4. CASE left.holds /\ UNCHANGED <<file, touched>>
  BY <1>1, <1>4 DEF Replacing, Reads, Owns, Stores, ReplaceKeepsRest, Intact, Planned, Written
<1> QED
  BY <1>1, <1>2, <1>3, <1>4

LEMMA ReplacingStep == TypeOK /\ Phases /\ Counted /\ Replacing /\ [Next]_vars => Replacing'
<1> SUFFICES ASSUME TypeOK, Phases, Counted, Replacing, [Next]_vars PROVE Replacing'
  OBVIOUS
<1>1. CASE ExecuteScript \/ ExecuteWriteFile \/ ExecuteReplaceInFile
  BY <1>1, ReplaceBegins
<1>2. CASE CloseStdin \/ StopReading
  BY <1>2, ReplacingKept DEF CloseStdin, StopReading, heard, ghosts, Running
<1>3. CASE ScriptEnds \/ ReadFails
  BY <1>3, ReplacingKept DEF ScriptEnds, ReadFails, Exited, Shown, heard, ghosts, Running
<1>4. CASE Timeout
  <2>1. phase' = "idle" /\ answer' = "timeout" /\ action' = action
    BY <1>4 DEF Timeout, TimeoutIn
  <2> QED
    BY <2>1 DEF Replacing, Reads, Owns, Stores, ReplaceKeepsRest, Running
<1>5. CASE HangEnds
  <2>1. action.op = "script" /\ action' = action /\ phase' = phase /\ phase # "own"
    BY <1>5 DEF HangEnds, Phases
  <2>2. answer' # "replaced"
    BY <1>5, BashRuns DEF HangEnds
  <2> QED
    BY <2>1, <2>2 DEF Replacing, Reads, Owns, Stores, ReplaceKeepsRest
<1>6. CASE UNCHANGED vars
  BY <1>6, ReplacingKept DEF vars, pipes, heard
<1> QED
  BY <1>1, <1>2, <1>3, <1>4, <1>5, <1>6, OwnReplaceKeeps, WritingKeeps, ReadLimitedKeeps, WriteEndsKeeps,
    StoreKeeps, TakeKeeps, SpeakKeeps, ExitKeeps, LeftBehindKeeps DEF Next, Engine, Bash

---------------------------------------------------------------------------
LEMMA InitHolds == Init => TypeOK /\ Phases /\ Counted /\ OutputWhole /\ Replacing
<1> SUFFICES ASSUME Init PROVE TypeOK /\ Phases /\ Counted /\ OutputWhole /\ Replacing
  OBVIOUS
<1> USE DEF Init, Running, None
<1>1. TypeOK
  BY FilesAreSeq, EmptyIsSeq, StatesTyped DEF TypeOK, ActionTypes, BashTypes, PipeTypes, Modes
<1>2. Phases
  BY DEF Phases, Dead
<1>3. Counted /\ OutputWhole
  BY DEF Counted, OutputWhole
<1>4. Replacing
  BY DEF Replacing, Reads, Owns, Stores, ReplaceKeepsRest
<1> QED
  BY <1>1, <1>2, <1>3, <1>4

LEMMA Inductive == Spec => [](TypeOK /\ Phases /\ Counted /\ OutputWhole /\ Replacing)
BY InitHolds, TypesStep, PhasesStep, CountedStep, ReplacingStep, PTL DEF Spec

\* Type correctness of engine, pipes and bash.
THEOREM TypeCorrect == Spec => []TypeOK
BY Inductive, PTL

\* For pipes of any capacity and limits of any size: an answer leaves something out only
\* if it says so.
THEOREM AnswersShowAll == Spec => []OutputWhole
BY Inductive, PTL

\* A replacement reported done has written what it read of the file, with its one match
\* replaced, for files and limits of any size: what ReplaceKeepsRest says may differ is all
\* that differs.
THEOREM ReplacementsKeepTheRest == Spec => []ReplaceKeepsRest
<1>1. Replacing => ReplaceKeepsRest
  BY DEF Replacing
<1> QED
  BY <1>1, Inductive, PTL

\* A text without NUL bytes passes through bash as it is, one without undecodable bytes
\* through the answer.
LEMMA CleanText ==
  ASSUME NEW text \in Seq(Unit), \A i \in DOMAIN text : text[i] \notin {Raw, Nul}
  PROVE  Decoded(text) = text /\ Kept(text) = {text}
<1>1. Decoded(text) = text
  BY DEF Decoded
<1>2. {i \in DOMAIN text : text[i] # Nul} = DOMAIN text
  OBVIOUS
<1> QED
  BY <1>1, <1>2 DEF Kept

BeforeTyped == before \in Seq(Unit)

\* What a replacement does to a file of nothing but text, within the limit, where no login
\* shell speaks and nothing left behind writes: it changes the one match, adds a newline if
\* a script writes it, and leaves all else as it was.
CleanReplacement ==
  /\ answer = "replaced" /\ ~touched
  /\ action.mode \in {"privileged", "plain", "su"} /\ Len(before) <= MaxOutput
  /\ \A i \in DOMAIN before : before[i] \notin {Raw, Nul}
  => \E r \in Text :
       /\ Matches(before, action.search) = 1
       /\ file = IF action.mode = "privileged" THEN ReplaceOnce(before, action.search, r)
                                              ELSE Append(ReplaceOnce(before, action.search, r), Newline)

\* A clean file is changed in its one match and nowhere else.
THEOREM CleanFilesKeepTheRest == Spec => []CleanReplacement
<1>1. BeforeTyped /\ ReplaceKeepsRest => CleanReplacement
  <2> SUFFICES ASSUME BeforeTyped, ReplaceKeepsRest, answer = "replaced", ~touched,
                      action.mode \in {"plain", "su"}, Len(before) <= MaxOutput,
                      \A i \in DOMAIN before : before[i] \notin {Raw, Nul}
               PROVE  \E r \in Text :
                        /\ Matches(before, action.search) = 1
                        /\ file = Append(ReplaceOnce(before, action.search, r), Newline)
    BY DEF CleanReplacement, ReplaceKeepsRest
  <2>1. Greeting(action.mode) = <<>> /\ Warning(action.mode) = <<>>
    BY DEF Greeting, Warning
  <2>2. before \in Seq(Unit)
    BY DEF BeforeTyped
  <2>3. Given(action.mode, before, <<>>) = before
    BY <2>1, <2>2, ConcatEmpty, CleanText DEF Given
  <2>4. PICK r \in Text :
          /\ Matches(before, action.search) = 1
          /\ file \in {Append(text, Newline) : text \in Kept(ReplaceOnce(before, action.search, r))}
    BY <2>1, <2>3 DEF ReplaceKeepsRest
  <2>5. Kept(ReplaceOnce(before, action.search, r)) = {ReplaceOnce(before, action.search, r)}
    <3>1. r \in Unit /\ r \notin {Raw, Nul}
      BY ShellAssumption DEF Unit
    <3>2. ReplaceOnce(before, action.search, r) \in Seq(Unit)
      BY <2>2, <3>1, ReplaceTyped
    <3>3. \A i \in DOMAIN ReplaceOnce(before, action.search, r) :
            ReplaceOnce(before, action.search, r)[i] \notin {Raw, Nul}
      BY <3>1 DEF ReplaceOnce
    <3> QED
      BY <3>2, <3>3, CleanText
  <2> QED
    BY <2>4, <2>5
<1>2. Init => BeforeTyped
  BY EmptyIsSeq DEF Init, BeforeTyped
<1>3. TypeOK /\ BeforeTyped /\ [Next]_vars => BeforeTyped'
  <2> SUFFICES ASSUME TypeOK, BeforeTyped, [Next]_vars PROVE BeforeTyped'
    OBVIOUS
  <2>1. before' \in {before, file, <<>>}
    BY DEF Next, Engine, Bash, ExecuteScript, ExecuteWriteFile, ExecuteReplaceInFile, Begin, OwnReplace,
      Writing, CloseStdin, ReadLimited, StopReading, ScriptEnds, WriteEnds, Store, StoreUnchecked, ReadFails,
      Exited, Timeout, TimeoutIn, RunCommand, Cat, Put, Speak, Exit, HangEnds, LeftBehind, ghosts, vars
  <2> QED
    BY <2>1, EmptyIsSeq DEF BeforeTyped, TypeOK, PipeTypes
<1>4. Spec => []BeforeTyped
  BY <1>2, <1>3, TypeCorrect, PTL DEF Spec
<1> QED
  BY <1>1, <1>4, ReplacementsKeepTheRest, PTL
=============================================================================
