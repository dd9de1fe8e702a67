------------------------------- MODULE Shell -------------------------------
(***************************************************************************)
(* The actions that run bash: script, write_file and replace_in_file.      *)
(*                                                                         *)
(* The engine feeds the script into bash's input until all is written,     *)
(* then reads the output, up to a limit, then the errors, then waits for   *)
(* bash; bash takes one command after the other.  The three pipes hold     *)
(* Pipe units.  What a command does is bash's choice, not the engine's.    *)
(* The limit of time starts with the reading.  When it strikes, the shell  *)
(* is killed, not what it has started, and under su not even bash: what is *)
(* left behind may still write the file, whatever the engine does next.    *)
(* A file is a sequence of units; a unit is the least that a search finds. *)
(* A replacement reads the file through cat, as text, and writes it back   *)
(* through bash: bytes that are not text, NUL bytes, and what the login    *)
(* shell of su says of its own accord, do not come out as they went in.    *)
(***************************************************************************)
EXTENDS Naturals, Sequences, FiniteSets

CONSTANTS
  Text,        \* what a unit of a text may be, the mark of what could not be decoded among it
  Mark,
  Newline,
  Raw, Nul,    \* what a file may hold besides: bytes that are not UTF-8, and NUL bytes
  Files,       \* what the file may be at first
  Pipe,        \* capacity of a pipe, in units of output or commands: 64 KB
  MaxOutput,   \* what the shell reads of an output: 1 MB
  ShowLimit,   \* what an answer shows of it: 100 KB
  MaxScript,   \* bound: commands of a script
  MaxFile,     \* bound: units of the file that a write adds to
  MaxLeft      \* bound: commands that are left behind

ASSUME ShellAssumption ==
  /\ \A text \in Files : text \in Seq(Text \cup {Newline, Raw, Nul})
  /\ Mark \in Text /\ Newline # Raw /\ Newline # Nul /\ Raw \notin Text /\ Nul \notin Text
  /\ Pipe \in Nat \ {0} /\ MaxOutput \in Nat /\ ShowLimit \in Nat /\ 2 * ShowLimit < MaxOutput
  /\ MaxScript \in Nat \ {0} /\ MaxFile \in Nat /\ MaxLeft \in Nat
  /\ Newline \notin Text

VARIABLES
  file,
  action,      \* what the engine does: op, mode, and the texts of a write or a replacement
  phase,       \* where it is: "idle", "own" (without bash), "feed", "out", "err", "wait"
  unsent,      \* commands not yet written to bash
  stdin, stdout, stderr,   \* commands, and units of output, in the pipes
  bash,        \* at, the units its command has still to write, and whether it succeeded
  output, errors,  \* what the engine has read, of both
  left,        \* what is left behind: commands, and whether it holds the output open
  answer,      \* to the last action
  spoken,      \* units written to the pipes
  before,      \* the file when the replacement began
  touched      \* a process left behind wrote the file since

pipes == <<stdin, stdout, stderr>>
ghosts == <<before, touched>>
heard == <<output, errors>>
vars == <<file, action, phase, unsent, stdin, stdout, stderr, bash, output, errors, left, answer, spoken, before, touched>>

None == "none"
\* The instance is privileged, or has no user of its own, or its scripts run under su, whose
\* login shell is quiet, or prints a line, or complains in one.
Su == {"su", "greeted", "warned"}
Modes == {"privileged", "plain"} \cup Su
Greeting(mode) == IF mode = "greeted" THEN <<Newline>> ELSE <<>>
Warning(mode) == IF mode = "warned" THEN <<Newline>> ELSE <<>>

Unit == Text \cup {Newline, Raw, Nul}
Ready(ok) == [at |-> "ready", units |-> <<>>, ok |-> ok]
Says(units) == [at |-> "speaks", units |-> units, ok |-> TRUE]
Warns(units, ok) == [at |-> "warns", units |-> units, ok |-> ok]
Dead == [at |-> "ended", units |-> <<>>, ok |-> FALSE]

\* The channels that somebody still reads.
OutOpen == phase \in {"feed", "out"}
ErrOpen == phase \in {"feed", "out", "err"}
\* Nobody can write to the output any more.
Closed == bash.at = "ended" /\ ~left.holds

Matches(text, s) == Cardinality({i \in DOMAIN text : text[i] = s})
\* Bytes that are not UTF-8 become the mark.
Decoded(text) == [i \in DOMAIN text |-> IF text[i] = Raw THEN Mark ELSE text[i]]
\* bash leaves NUL bytes out of what it reads: the one text that keeps the others in order.
Kept(text) ==
  LET places == {i \in DOMAIN text : text[i] # Nul}
      orders == {f \in [1..Cardinality(places) -> places] : \A i, j \in DOMAIN f : i < j => f[i] < f[j]}
  IN IF places = DOMAIN text THEN {text} ELSE {[i \in 1..Cardinality(places) |-> text[f[i]]] : f \in orders}
ReplaceOnce(text, s, r) == [i \in DOMAIN text |-> IF text[i] = s THEN r ELSE text[i]]

Init ==
  /\ file \in Files
  /\ action = [op |-> None, mode |-> "plain", search |-> None, text |-> <<>>]
  /\ phase = "idle" /\ unsent = 0 /\ stdin = 0 /\ stdout = <<>> /\ stderr = <<>>
  /\ bash = Dead /\ output = <<>> /\ errors = <<>> /\ left = [todo |-> 0, holds |-> FALSE]
  /\ answer = None /\ spoken = 0
  /\ before = <<>> /\ touched = FALSE

-----------------------------------------------------------------------------
(* The actions *)

\* bash is started, with empty pipes: those of the last script are gone.  Under su a login
\* shell may speak before it takes a command.
Spawn(mode, commands) ==
  /\ phase' = "feed" /\ unsent' = commands
  /\ stdin' = 0 /\ stdout' = <<>> /\ stderr' = <<>>
  /\ bash' = IF mode = "greeted" THEN Says(Greeting(mode))
             ELSE IF mode = "warned" THEN Warns(Warning(mode), TRUE) ELSE Ready(TRUE)
  /\ output' = <<>> /\ errors' = <<>> /\ spoken' = 0
  /\ left' = [left EXCEPT !.holds = FALSE]

Begin(op, mode, s, text) ==
  /\ phase = "idle"
  /\ action' = [op |-> op, mode |-> mode, search |-> s, text |-> text]
  /\ answer' = None
  /\ before' = (IF op = "read" THEN file ELSE <<>>) /\ touched' = FALSE

\* A privileged instance runs its scripts as one without a user does.
ExecuteScript ==
  /\ \E mode \in Modes \ {"privileged"}, n \in 1..MaxScript : Begin("script", mode, None, <<>>) /\ Spawn(mode, n)
  /\ UNCHANGED file

\* A privileged instance writes the file itself.
ExecuteWriteFile ==
  \E mode \in Modes, t \in Text :
    /\ Begin("write", mode, None, <<t>>)
    /\ IF mode = "privileged"
       THEN /\ file' = <<t>>
            /\ phase' = "idle" /\ UNCHANGED <<unsent, pipes, bash, heard, spoken, left>>
       ELSE Spawn(mode, 1) /\ UNCHANGED file

ExecuteReplaceInFile ==
  \E mode \in Modes, s, r \in Text :
    /\ Begin("read", mode, s, <<r>>)
    /\ IF mode = "privileged"
       THEN phase' = "own" /\ output' = file /\ errors' = <<>> /\ UNCHANGED <<unsent, pipes, bash, spoken, left>>
       ELSE Spawn(mode, 1)
    /\ UNCHANGED file

\* The privileged replacement writes what it has read, with its one match replaced; it
\* reads nothing but text.
OwnReplace ==
  /\ phase = "own" /\ phase' = "idle"
  /\ \/ /\ \E i \in DOMAIN output : output[i] = Raw
        /\ answer' = "failed" /\ UNCHANGED file
     \/ /\ \A i \in DOMAIN output : output[i] # Raw
        /\ Matches(output, action.search) = 1
        /\ file' = ReplaceOnce(output, action.search, action.text[1]) /\ answer' = "replaced"
     \/ /\ \A i \in DOMAIN output : output[i] # Raw
        /\ Matches(output, action.search) # 1
        /\ answer' = "unmatched" /\ UNCHANGED file
  /\ UNCHANGED <<action, unsent, pipes, bash, heard, left, spoken, ghosts>>

-----------------------------------------------------------------------------
(* Shell::exec_in_dir *)

Writing ==
  /\ phase = "feed" /\ unsent > 0
  /\ IF bash.at = "ended"
     THEN unsent' = 0 /\ UNCHANGED stdin
     ELSE stdin < Pipe /\ stdin' = stdin + 1 /\ unsent' = unsent - 1
  /\ UNCHANGED <<file, action, phase, stdout, stderr, bash, heard, left, answer, spoken, ghosts>>

CloseStdin ==
  /\ phase = "feed" /\ unsent = 0 /\ phase' = "out"
  /\ UNCHANGED <<file, action, unsent, pipes, bash, heard, left, answer, spoken, ghosts>>

\* The limit for the errors is what the output has left of it, and what is counted against
\* it is the output again.
Full == IF phase = "out" THEN Len(output) >= MaxOutput
                         ELSE 2 * Len(output) + Len(errors) >= MaxOutput

\* The next chunk of the output, or of the errors when the output has ended.
ReadLimited ==
  /\ ~Full
  /\ \/ /\ phase = "out" /\ stdout # <<>>
        /\ output' = Append(output, Head(stdout)) /\ stdout' = Tail(stdout) /\ UNCHANGED <<stderr, errors>>
     \/ /\ phase = "err" /\ stderr # <<>>
        /\ errors' = Append(errors, Head(stderr)) /\ stderr' = Tail(stderr) /\ UNCHANGED <<stdout, output>>
  /\ UNCHANGED <<file, action, phase, unsent, stdin, bash, left, answer, spoken, ghosts>>

\* A reader stops at the end or at the limit, and drops the pipe.
StopReading ==
  /\ \/ /\ phase = "out" /\ ((stdout = <<>> /\ Closed) \/ Full)
        /\ phase' = "err"
     \/ /\ phase = "err" /\ ((stderr = <<>> /\ Closed) \/ Full)
        /\ phase' = "wait"
  /\ UNCHANGED <<file, action, unsent, pipes, bash, heard, left, answer, spoken, ghosts>>

\* All that was read, and the text that the answer makes of it.
Output == output \o errors
Content == Decoded(Output)

ShownBelowMaxOutput == IF Len(Output) > MaxOutput THEN "truncated" ELSE "shown"

\* The answer says when it leaves something out.
Shown == IF Len(Output) > ShowLimit THEN "truncated" ELSE "shown"

Exited ==
  /\ phase = "wait" /\ bash.at = "ended"
  /\ UNCHANGED <<file, ghosts>>

ScriptEnds ==
  /\ Exited /\ action.op = "script"
  /\ phase' = "idle" /\ answer' = Shown
  /\ UNCHANGED <<action, unsent, pipes, bash, heard, left, spoken>>

WriteEnds ==
  /\ Exited /\ action.op \in {"write", "store"}
  /\ phase' = "idle"
  /\ answer' = IF ~bash.ok THEN "failed" ELSE IF action.op = "store" THEN "replaced" ELSE "written"
  /\ UNCHANGED <<action, unsent, pipes, bash, heard, left, spoken>>

\* The one match is replaced in what was read, and a second script writes it.
StoreUnchecked ==
  /\ Exited /\ action.op = "read"
  /\ Matches(Content, action.search) = 1
  /\ action' = [action EXCEPT !.op = "store", !.text = ReplaceOnce(Content, action.search, action.text[1])]
  /\ Spawn(action.mode, 1) /\ UNCHANGED answer

Store == bash.ok /\ StoreUnchecked

ReadFails ==
  /\ Exited /\ action.op = "read"
  /\ phase' = "idle"
  /\ \/ ~bash.ok /\ answer' = "failed"
     \/ bash.ok /\ Matches(Content, action.search) # 1 /\ answer' = "unmatched"
  /\ UNCHANGED <<action, unsent, pipes, bash, heard, left, spoken>>

\* The shell is killed: an external command it runs goes on, and under su so does bash.
Survivors ==
  LET running == IF bash.at \in {"speaks", "warns", "hangs"} THEN 1 ELSE 0
      queued == IF action.mode \in Su /\ bash.at # "ended" THEN stdin ELSE 0
      all == left.todo + running + queued
  IN IF all > MaxLeft THEN MaxLeft ELSE all

TimeoutIn(phases) ==
  /\ phase \in phases /\ phase' = "idle"
  /\ answer' = "timeout" /\ bash' = Dead
  /\ output' = <<>> /\ errors' = <<>> /\ stdin' = 0 /\ stdout' = <<>> /\ stderr' = <<>>
  /\ left' = [todo |-> Survivors, holds |-> FALSE]
  /\ UNCHANGED <<file, action, unsent, spoken, ghosts>>

TimeoutReading == TimeoutIn({"out"})
Timeout == TimeoutIn({"out", "err", "wait"})

-----------------------------------------------------------------------------
(* bash *)

Take == bash.at = "ready" /\ stdin > 0 /\ stdin' = stdin - 1

Edits == {<<>>} \cup (IF Len(file) < MaxFile THEN {Append(file, t) : t \in Text} ELSE {})

\* A command of a script: it prints, complains, never ends, stops the script, writes
\* the file, or leaves a process behind that holds the output open.
RunCommand ==
  /\ Take /\ action.op = "script"
  /\ \/ /\ bash' \in {Says(<<Newline>>), Warns(<<Newline>>, TRUE),
                      [Ready(TRUE) EXCEPT !.at = "hangs"], Dead}
        /\ UNCHANGED <<file, left>>
     \/ bash' = Ready(TRUE) /\ file' \in Edits /\ UNCHANGED left
     \/ /\ left.todo < MaxLeft /\ left' = [todo |-> left.todo + 1, holds |-> TRUE]
        /\ bash' = Ready(TRUE) /\ UNCHANGED file
  /\ UNCHANGED <<action, phase, unsent, stdout, stderr, heard, answer, spoken, ghosts>>

\* cat of Shell::read_file.
Cat ==
  /\ Take /\ action.op = "read"
  /\ bash' \in {Says(file), Warns(<<Newline>>, FALSE)}
  /\ UNCHANGED <<file, action, phase, unsent, stdout, stderr, heard, left, answer, spoken, ghosts>>

\* cat with the heredoc of Shell::write_file, which ends in a newline of its own.
Put ==
  /\ Take /\ action.op \in {"write", "store"}
  /\ \/ file' \in {Append(text, Newline) : text \in Kept(action.text)} /\ bash' = Ready(TRUE)
     \/ file' = <<>> /\ bash' = Ready(FALSE)
  /\ UNCHANGED <<action, phase, unsent, stdout, stderr, heard, left, answer, spoken, ghosts>>

\* A write to a pipe nobody reads kills the command, or the shell itself.
Broken == bash' \in {Ready(FALSE), Dead} /\ UNCHANGED <<stdout, stderr, spoken>>
Rest == IF Len(bash.units) > 1 THEN [bash EXCEPT !.units = Tail(@)] ELSE Ready(bash.ok)

Speak ==
  /\ \/ /\ bash.at \in {"speaks", "warns"} /\ bash.units = <<>>
        /\ bash' = Ready(bash.ok) /\ UNCHANGED <<stdout, stderr, spoken>>
     \/ /\ bash.at = "speaks" /\ bash.units # <<>> /\ OutOpen /\ Len(stdout) < Pipe
        /\ stdout' = Append(stdout, Head(bash.units)) /\ bash' = Rest
        /\ spoken' = spoken + 1 /\ UNCHANGED stderr
     \/ /\ bash.at = "warns" /\ bash.units # <<>> /\ ErrOpen /\ Len(stderr) < Pipe
        /\ stderr' = Append(stderr, Head(bash.units)) /\ bash' = Rest
        /\ spoken' = spoken + 1 /\ UNCHANGED stdout
     \/ bash.at = "speaks" /\ bash.units # <<>> /\ ~OutOpen /\ Broken
     \/ bash.at = "warns" /\ ~ErrOpen /\ Broken
  /\ UNCHANGED <<file, action, phase, unsent, stdin, heard, left, answer, ghosts>>

\* The script is at its end.
Exit ==
  /\ bash.at = "ready" /\ stdin = 0 /\ phase # "feed"
  /\ bash' = [Dead EXCEPT !.ok = bash.ok]
  /\ UNCHANGED <<file, action, phase, unsent, pipes, heard, left, answer, spoken, ghosts>>

Bash == RunCommand \/ Cat \/ Put \/ Speak \/ Exit

\* What hangs may end.
HangEnds ==
  /\ bash.at = "hangs" /\ bash' = Ready(TRUE)
  /\ UNCHANGED <<file, action, phase, unsent, pipes, heard, left, answer, spoken, ghosts>>

\* What was left behind writes the file or the output, or ends.
LeftBehind ==
  /\ left.todo > 0
  /\ \/ /\ file' \in Edits /\ touched' = TRUE
        /\ left' = [left EXCEPT !.todo = @ - 1, !.holds = @ /\ left.todo > 1]
        /\ UNCHANGED <<stdout, spoken>>
     \/ /\ left.holds /\ OutOpen /\ Len(stdout) < Pipe
        /\ stdout' = Append(stdout, Newline) /\ spoken' = spoken + 1
        /\ left' = [left EXCEPT !.todo = @ - 1, !.holds = @ /\ left.todo > 1]
        /\ UNCHANGED <<file, touched>>
     \/ /\ left' = [todo |-> 0, holds |-> FALSE]
        /\ UNCHANGED <<file, touched, stdout, spoken>>
  /\ UNCHANGED <<action, phase, unsent, stdin, stderr, bash, heard, answer, before>>

-----------------------------------------------------------------------------
Engine ==
  \/ OwnReplace \/ Writing \/ CloseStdin \/ ReadLimited \/ StopReading
  \/ ScriptEnds \/ WriteEnds \/ Store \/ ReadFails

Next ==
  \/ ExecuteScript \/ ExecuteWriteFile \/ ExecuteReplaceInFile
  \/ Engine \/ Timeout \/ Bash \/ HangEnds \/ LeftBehind

Spec == Init /\ [][Next]_vars

\* The thread of the instance, the timer and the processes run when they can; a command
\* that hangs, and a process left behind, need not end.
FairSpec == Spec /\ WF_vars(Engine) /\ WF_vars(Timeout) /\ WF_vars(Bash)

-----------------------------------------------------------------------------
(* Properties *)

\* An answer that does not say it leaves something out shows all that the script, and
\* what it left behind, has written, whichever pipe filled first.
OutputWhole == answer = "shown" => Len(Output) = spoken

\* What a script that reads the file gives of it, up to a complaint that it may not have read.
Given(mode, text, complaint) ==
  LET said == Greeting(mode) \o text
  IN Decoded((IF Len(said) <= MaxOutput THEN said ELSE SubSeq(said, 1, MaxOutput)) \o complaint)

\* What a replacement that is reported done has written: a privileged one, the file with its
\* one match replaced; one by scripts, the text it was given of the file, with its one match
\* replaced, and a newline.  That text is the file but for what is not text in it, what the
\* login shell said itself, and the end of a file longer than the limit by less than a pipe.
\* What a process left behind writes in between is excepted.
ReplaceKeepsRest ==
  answer = "replaced" /\ ~touched =>
    \E r \in Text, complaint \in {<<>>, Warning(action.mode)} :
      LET Done(text) == ReplaceOnce(text, action.search, r)
          given == Given(action.mode, before, complaint)
      IN IF action.mode = "privileged"
         THEN Matches(before, action.search) = 1 /\ file = Done(before)
         ELSE /\ Len(Greeting(action.mode) \o before) <= MaxOutput + Pipe
              /\ Matches(given, action.search) = 1
              /\ file \in {Append(text, Newline) : text \in Kept(Done(given))}

\* Still writing its script, the engine waits for a bash that does not read on: one that
\* hangs, or that waits for the engine to read what it says.
Wedged ==
  /\ phase = "feed" /\ unsent > 0 /\ stdin = Pipe
  /\ \/ bash.at = "hangs"
     \/ bash.at = "speaks" /\ Len(stdout) = Pipe
     \/ bash.at = "warns" /\ Len(stderr) = Pipe

\* Every action comes to its end, a script that hangs by the limit of time, unless it
\* does so before all of it is written.
EveryActionEnds == phase # "idle" ~> phase = "idle" \/ Wedged

=============================================================================
