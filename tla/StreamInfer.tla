---------------------------- MODULE StreamInfer ----------------------------
(***************************************************************************)
(* StreamInfer::next (mad-hatter/src/llm.rs): the answer of a model        *)
(* arrives in chunks, cut anywhere, and its elements are handed out as     *)
(* soon as they are complete.  Each action is one turn of the loop of      *)
(* next(), or a chunk that arrives while it waits.                         *)
(***************************************************************************)
EXTENDS AnswerText

(* "half" is what a chunk that ends inside the opening tag leaves of it:    *)
(* nobody writes that.                                                     *)
Written == {token \in Token : token.w # "half"}

CONSTANTS
  Alphabet,   \* words a model may write next
  Openings,   \* how it may begin
  MaxMore     \* bound: words it writes after the opening

ASSUME StreamAssumption ==
  /\ Alphabet \subseteq Written /\ MaxMore \in Nat
  /\ \A t \in Openings : t \in Seq(Written) /\ t # <<>>

VARIABLES
  text,      \* what the model has written
  more,      \* words written after the opening, for the bound
  buffer,    \* StreamInfer.buffer
  thought,   \* thinking_done
  count,     \* parsed_count
  out,       \* what next() has returned
  at,        \* "chunk": a chunk arrives; "run": next() runs; "wait"; "done"
  closed     \* the channel

streamVars == <<text, more, buffer, thought, count, out, at, closed>>

(* next() is called before anything has arrived, and waits.                *)
StreamInit ==
  /\ text = <<>> /\ more = 0 /\ buffer = <<>>
  /\ thought = FALSE /\ count = 0 /\ out = <<>> /\ closed = FALSE
  /\ at = "wait"

---------------------------------------------------------------------------
(* The loop, in the order of its branches.                                 *)

Fail(what) == out' = Append(out, Error(what)) /\ at' = "done"

OpenAt == Least({i \in DOMAIN buffer : buffer[i].w = "open"})
CloseAt == FindLine(buffer, "close")
Thinking == count = 0 /\ ~thought /\ OpenAt # 0

PreambleBeforeThought ==
  /\ at = "run" /\ Thinking /\ OpenAt > 1
  /\ Fail("format")
  /\ UNCHANGED <<text, more, buffer, thought, count, closed>>

DropThought ==
  /\ at = "run" /\ Thinking /\ OpenAt = 1 /\ CloseAt # 0
  /\ buffer' = From(buffer, CloseAt + 1)
  /\ thought' = TRUE
  /\ UNCHANGED <<text, more, count, out, at, closed>>

(* Neither branch above: this turn goes on to look for separators, knowing *)
(* that no thinking comes when what has arrived cannot begin its tag.      *)
Searches == at = "run" /\ ~(Thinking /\ (OpenAt > 1 \/ CloseAt # 0))
Thought == thought \/ (count = 0 /\ OpenAt = 0 /\ buffer # <<>> /\ buffer[1].w # "half")
First == FindLine(buffer, "sep")
Preamble == count = 0 /\ Thought /\ First = 0 /\ \E i \in DOMAIN buffer : buffer[i].nl

PreambleLine ==
  /\ Searches /\ Preamble
  /\ Fail("format")
  /\ thought' = Thought
  /\ UNCHANGED <<text, more, buffer, count, closed>>

PreambleBeforeSeparator ==
  /\ Searches /\ count = 0 /\ First > 1
  /\ Fail("format")
  /\ thought' = Thought
  /\ UNCHANGED <<text, more, buffer, count, closed>>

Rest == From(buffer, First + 1)
NextSep == FindLine(Rest, "sep")
NextEnd == FindLine(Rest, "end")
Boundary == IF NextEnd = 0 \/ (NextSep # 0 /\ NextSep <= NextEnd) THEN NextSep ELSE NextEnd
AtElement == Searches /\ First # 0 /\ ~(count = 0 /\ First > 1) /\ Boundary # 0

(* Readers take no more after an error.                                    *)
Return(result) ==
  IF result.what = "parse" THEN out' = Append(out, result) /\ at' = "done" /\ UNCHANGED count
  ELSE out' = Append(out, result) /\ count' = count + 1 /\ at' = IF Boundary = NextEnd THEN "done" ELSE "run"

\* Mutant: the separator that ends an element is dropped with it.
TakeElementWithSeparator ==
  /\ AtElement /\ Boundary > 1
  /\ Return(Parse(SubSeq(Rest, 1, Boundary - 1)))
  /\ buffer' = IF Boundary = NextEnd THEN buffer ELSE From(Rest, Boundary + 1)
  /\ thought' = Thought
  /\ UNCHANGED <<text, more, closed>>

TakeElement ==
  /\ AtElement /\ Boundary > 1
  /\ Return(Parse(SubSeq(Rest, 1, Boundary - 1)))
  /\ buffer' = IF Boundary = NextEnd THEN buffer ELSE From(Rest, Boundary)
  /\ thought' = Thought
  /\ UNCHANGED <<text, more, closed>>

\* Mutant: the buffer stays as it is.
SkipNothing ==
  /\ AtElement /\ Boundary = 1
  /\ at' = IF NextEnd = 1 THEN "done" ELSE "run"
  /\ thought' = Thought
  /\ UNCHANGED <<text, more, buffer, count, out, closed>>

SkipEmpty ==
  /\ AtElement /\ Boundary = 1
  /\ IF NextEnd = 1 THEN at' = "done" /\ UNCHANGED buffer
     ELSE buffer' = Rest /\ UNCHANGED at
  /\ thought' = Thought
  /\ UNCHANGED <<text, more, count, out, closed>>

NeedsMore == Searches /\ ~Preamble /\ ~(count = 0 /\ First > 1) /\ ~AtElement

WaitForMore ==
  /\ NeedsMore /\ ~closed
  /\ at' = "wait" /\ thought' = Thought
  /\ UNCHANGED <<text, more, buffer, count, out, closed>>

RunsOut ==
  /\ NeedsMore /\ closed
  /\ thought' = Thought
  /\ IF FindLine(buffer, "end") # 0 THEN at' = "done" /\ UNCHANGED out ELSE Fail("truncated")
  /\ UNCHANGED <<text, more, buffer, count, closed>>

---------------------------------------------------------------------------
(* The channel.                                                            *)

Whole(t) == IF t # <<>> /\ Last(t).w = "half" THEN [t EXCEPT ![Len(t)].w = "open"] ELSE t

(* A chunk is one or several words, and may end inside the opening tag.    *)
ChunkGoesOn == at' \in IF more' < MaxMore /\ Last(buffer').w # "half" THEN {"chunk", "run"} ELSE {"run"}

Write(t) ==
  /\ text' = text \o t
  /\ \/ buffer' = Whole(buffer) \o t
     \/ Last(t).w = "open" /\ buffer' = [Whole(buffer) \o t EXCEPT ![Len(Whole(buffer) \o t)].w = "half"]

Begins ==
  /\ at = "wait" /\ text = <<>> /\ ~closed
  /\ \E t \in Openings : Write(t)
  /\ UNCHANGED <<more, thought, count, out, closed>>
  /\ ChunkGoesOn

Chunks ==
  /\ at \in {"wait", "chunk"} /\ text # <<>> /\ ~closed /\ more < MaxMore
  /\ \E token \in Alphabet : Write(<<token>>)
  /\ more' = more + 1
  /\ ChunkGoesOn
  /\ UNCHANGED <<thought, count, out, closed>>

(* The rest of a word that was cut.                                        *)
Completes ==
  /\ at = "wait" /\ ~closed /\ buffer # <<>> /\ Last(buffer).w = "half"
  /\ buffer' = Whole(buffer)
  /\ at' = "run"
  /\ UNCHANGED <<text, more, thought, count, out, closed>>

Closes ==
  /\ at = "wait" /\ ~closed
  /\ (buffer # <<>> => Last(buffer).w # "half")
  /\ closed' = TRUE /\ at' = "run"
  /\ UNCHANGED <<text, more, buffer, thought, count, out>>

(* parse_channel_error: a chunk that says the request failed.              *)
ChannelFails ==
  /\ at = "wait" /\ ~closed
  /\ closed' = TRUE
  /\ Fail("channel")
  /\ UNCHANGED <<text, more, buffer, thought, count>>

---------------------------------------------------------------------------
Turn ==
  \/ PreambleBeforeThought \/ DropThought
  \/ PreambleLine \/ PreambleBeforeSeparator
  \/ TakeElement \/ SkipEmpty \/ WaitForMore \/ RunsOut

StreamNext == Turn \/ Begins \/ Chunks \/ Completes \/ Closes \/ ChannelFails

StreamSpec == StreamInit /\ [][StreamNext]_streamVars

---------------------------------------------------------------------------
(* However a clean answer is cut into chunks, what next() has returned     *)
(* whenever it waits or is done is what the text so far means: no element  *)
(* too early, too late, twice or cut short, and the first error is the one *)
(* the schema calls for.                                                   *)
ReadsWhatWasWritten ==
  (at \in {"wait", "done"} /\ Clean(text) /\ (out # <<>> => Last(out).what # "channel")) =>
    out = Meaning(text, closed)

(* Every call of next() returns or waits: whenever its loop goes round, it *)
(* does so on a shorter buffer.                                            *)
EveryTurnConsumes == [][at = "run" /\ at' = "run" => Len(buffer') < Len(buffer)]_streamVars

============================================================================
