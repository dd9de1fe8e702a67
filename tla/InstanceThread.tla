--------------------------- MODULE InstanceThread ---------------------------
(***************************************************************************)
(* The heartbeat of one instance: the loop of Engine::instance_thread      *)
(* (engine/mod.rs) and the beat it calls (core/mod.rs), with the stream of *)
(* actions a language model writes and the guard they pass.  Beside it run *)
(* the clock, the senders of messages (people, other instances, finished   *)
(* background tasks) and the interrupt endpoint.                           *)
(*                                                                         *)
(* The loop decides: sleep (nothing unread and the last beat ended in      *)
(* idle), cool down, stop at the beat limit, back off, or beat.  A beat    *)
(* reads the unread messages if there are any and infers otherwise.        *)
(***************************************************************************)
EXTENDS Integers

CONSTANTS
    Valve,        \* safety_max_consecutive_beats
    MaxBeats,     \* max_beats: {} for none, {n} for n
    Timeouts,     \* idle timeouts, in polls of the idle loop (bound: a finite set)
    DiskEvery,    \* disk_check_interval_beats
    MaxChunks,    \* bound: chunks of one answer (the model stops at max_tokens)
    CountCap,     \* bound: beats and inferences are counted up to this number
    Faults        \* of "crash", "settings", "store"

ASSUME ThreadAssumption ==
    /\ Valve \in Nat /\ MaxBeats \subseteq 0..CountCap /\ Timeouts \subseteq 0..CountCap
    /\ DiskEvery \in Nat \ {0} /\ MaxChunks \in Nat /\ CountCap \in Nat
    /\ Faults \subseteq {"crash", "settings", "store"}

VARIABLES
    \* shared with other tasks
    unread,       \* does the inbox hold an unread message?
    interrupt,    \* InstanceSignals.interrupt
    inferring,    \* EngineStatus.inferring, what observe reports
    backoff,      \* is inference_backoff_until in the future?
    \* Alice and the locals of the loop
    pc,
    lastIdle,     \* last_was_idle
    idleTimeout,  \* idle_timeout_secs
    idleElapsed,  \* idle_elapsed
    consecutive,  \* consecutive_beats
    beatCount,    \* beat_count
    \* the locals of a beat
    guard,        \* SequenceGuard.state
    cancelIdle,   \* Transaction.cancel_idle
    item,         \* what the stream yielded
    chunks,       \* chunks the model may still send
    failure,      \* inference_error
    \* never read by an action that models code
    unsaid,       \* how sends of this inference failed: "refused", "store"
    slept,        \* polls slept through since the last idle action
    inferences    \* streams opened so far

loop == <<lastIdle, idleTimeout, idleElapsed, consecutive, beatCount>>
beat == <<guard, cancelIdle, item, chunks, failure>>
shared == <<unread, interrupt, inferring, backoff>>
ghosts == <<unsaid, slept, inferences>>
vars == <<shared, pc, loop, beat, ghosts>>

NoTimeout == -1
Kinds == {"idle", "script", "read", "send", "other"}
Failures == {"channel", "output"}

Count(n) == IF n < CountCap THEN n + 1 ELSE n

\* notify_anomaly: one more system message, unless the insert fails.
NotifyAnomaly == unread' \in {unread, TRUE}

\* count_unread_messages answers 0 when the query fails.
CountsNone == ~unread \/ "store" \in Faults

\* Alice::new and the locals instance_thread begins with.
FreshThread ==
    /\ pc = "top" /\ lastIdle = TRUE /\ idleTimeout = NoTimeout /\ idleElapsed = 0
    /\ consecutive = 0 /\ beatCount = 0 /\ backoff = FALSE
    /\ guard = "Normal" /\ cancelIdle = FALSE /\ item = "none" /\ chunks = 0
    /\ failure = "none" /\ interrupt = FALSE /\ inferring = FALSE
    /\ unsaid = {} /\ slept = 0

Init == FreshThread /\ unread \in BOOLEAN /\ inferences = 0

-----------------------------------------------------------------------------
(* The head of the loop and idle polling. *)

\* Nothing to do: the idle status is written and the thread sleeps one poll.
FallAsleep ==
    /\ pc = "top" /\ lastIdle /\ CountsNone
    /\ pc' = "asleep" /\ inferring' = FALSE /\ consecutive' = 0
    /\ UNCHANGED <<unread, interrupt, backoff, lastIdle, idleTimeout, idleElapsed, beatCount,
                   beat, ghosts>>

GoOn ==
    /\ pc = "top" /\ (~lastIdle \/ unread)
    /\ pc' = "gate"
    /\ UNCHANGED <<shared, loop, beat, ghosts>>

Slept == slept' = IF slept < CountCap THEN slept + 1 ELSE slept

\* An interrupt turns a timed idle into an endless one.
IdleInterrupted ==
    /\ pc = "asleep" /\ interrupt
    /\ interrupt' = FALSE /\ idleTimeout' = NoTimeout /\ idleElapsed' = 0 /\ inferring' = FALSE
    /\ pc' = "top" /\ Slept
    /\ UNCHANGED <<unread, backoff, lastIdle, consecutive, beatCount, beat, unsaid, inferences>>

TimedOut == idleTimeout # NoTimeout /\ idleElapsed + 1 >= idleTimeout

TimerRings ==
    /\ pc = "asleep" /\ ~interrupt /\ TimedOut
    /\ idleTimeout' = NoTimeout /\ idleElapsed' = 0 /\ lastIdle' = FALSE
    /\ pc' = "gate" /\ Slept
    /\ UNCHANGED <<shared, consecutive, beatCount, beat, unsaid, inferences>>

\* The poll counts towards the timeout, if there is one.
CountPoll == idleElapsed' = IF idleTimeout = NoTimeout THEN idleElapsed ELSE idleElapsed + 1

KeepSleeping ==
    /\ pc = "asleep" /\ ~interrupt /\ ~TimedOut /\ CountsNone
    /\ CountPoll /\ pc' = "top" /\ Slept
    /\ UNCHANGED <<shared, lastIdle, idleTimeout, consecutive, beatCount, beat, unsaid,
                   inferences>>

MessageWakes ==
    /\ pc = "asleep" /\ ~interrupt /\ ~TimedOut /\ unread
    /\ CountPoll /\ pc' = "gate" /\ Slept
    /\ UNCHANGED <<shared, lastIdle, idleTimeout, consecutive, beatCount, beat, unsaid,
                   inferences>>

-----------------------------------------------------------------------------
(* The gates before a beat, in the order the loop checks them. *)

ValveTrips == consecutive >= Valve
LimitReached == \E max \in MaxBeats : beatCount >= max

Cooldown ==
    /\ pc = "gate" /\ ValveTrips
    /\ NotifyAnomaly
    /\ consecutive' = 0 /\ lastIdle' = FALSE /\ pc' = "top"
    /\ UNCHANGED <<interrupt, inferring, backoff, idleTimeout, idleElapsed, beatCount, beat, ghosts>>

\* The loop goes round without a beat; the first time it says so.
StopAtLimit ==
    /\ pc = "gate" /\ ~ValveTrips /\ LimitReached
    /\ IF lastIdle THEN UNCHANGED unread ELSE NotifyAnomaly
    /\ lastIdle' = TRUE /\ pc' = "top"
    /\ UNCHANGED <<interrupt, inferring, backoff, idleTimeout, idleElapsed, consecutive, beatCount,
                   beat, ghosts>>

BackOff ==
    /\ pc = "gate" /\ ~ValveTrips /\ ~LimitReached /\ backoff
    /\ idleElapsed' = 0 /\ pc' = "top"
    /\ UNCHANGED <<shared, lastIdle, idleTimeout, consecutive, beatCount, beat, ghosts>>

\* Mutant: the polls of an idle that a message ended are kept for the next one.
EnterBeatKeepingPolls ==
    /\ pc = "gate" /\ ~ValveTrips /\ ~LimitReached /\ ~backoff
    /\ IF consecutive % DiskEvery = 0 THEN NotifyAnomaly ELSE UNCHANGED unread
    /\ pc' = "beat"
    /\ UNCHANGED <<interrupt, inferring, backoff, lastIdle, idleTimeout, idleElapsed, consecutive,
                   beatCount, beat, ghosts>>

\* Every so many beats the disk is looked at, and its want of space reported.
EnterBeat ==
    /\ pc = "gate" /\ ~ValveTrips /\ ~LimitReached /\ ~backoff
    /\ IF consecutive % DiskEvery = 0 THEN NotifyAnomaly ELSE UNCHANGED unread
    /\ idleElapsed' = 0 /\ pc' = "beat"
    /\ UNCHANGED <<interrupt, inferring, backoff, lastIdle, idleTimeout, consecutive, beatCount,
                   beat, ghosts>>

-----------------------------------------------------------------------------
(* How a beat ends. *)

\* beat() returned Ok, having left last_was_idle as idle.
BeatDone(idle) ==
    /\ pc' = "top" /\ lastIdle' = idle
    /\ beatCount' = Count(beatCount)
    /\ consecutive' = IF idle THEN 0 ELSE consecutive + 1

\* beat() returned an error: it is reported, and the thread sleeps.
BeatFails ==
    /\ pc = "failed"
    /\ inferring' = FALSE /\ NotifyAnomaly
    /\ lastIdle' = FALSE /\ consecutive' = 0 /\ pc' = "top"
    /\ UNCHANGED <<interrupt, backoff, idleTimeout, idleElapsed, beatCount, beat, ghosts>>

-----------------------------------------------------------------------------
(* The beat: skip, read, or infer. *)

Skip ==
    /\ pc = "beat" /\ CountsNone /\ lastIdle
    /\ BeatDone(TRUE)
    /\ UNCHANGED <<shared, idleTimeout, idleElapsed, beat, ghosts>>

\* Mutant: reading does not wake the instance.
AutoReadAsleep ==
    /\ pc = "beat" /\ unread
    /\ \/ unread' = FALSE
       \/ "store" \in Faults /\ UNCHANGED unread
    /\ BeatDone(lastIdle)
    /\ UNCHANGED <<interrupt, inferring, backoff, idleTimeout, idleElapsed, beat, ghosts>>

\* Unread messages are read without asking the model.  A read that fails is
\* recorded as the outcome of the action.
AutoRead ==
    /\ pc = "beat" /\ unread
    /\ \/ unread' = FALSE
       \/ "store" \in Faults /\ UNCHANGED unread
    /\ BeatDone(FALSE)
    /\ UNCHANGED <<interrupt, inferring, backoff, idleTimeout, idleElapsed, beat, ghosts>>

StartInference ==
    /\ pc = "beat" /\ CountsNone /\ ~lastIdle
    /\ inferring' = TRUE /\ pc' = "open"
    /\ UNCHANGED <<unread, interrupt, backoff, loop, beat, ghosts>>

OpenFails ==
    /\ pc = "open"
    /\ backoff' = TRUE /\ pc' = "failed"
    /\ UNCHANGED <<unread, interrupt, inferring, loop, beat, ghosts>>

OpenStream ==
    /\ pc = "open"
    /\ lastIdle' = FALSE /\ guard' = "Normal" /\ cancelIdle' = FALSE /\ failure' = "none"
    /\ chunks' = MaxChunks /\ item' = "none" /\ pc' = "stream"
    /\ inferences' = Count(inferences) /\ unsaid' = {}
    /\ UNCHANGED <<shared, idleTimeout, idleElapsed, consecutive, beatCount, slept>>

-----------------------------------------------------------------------------
(* StreamInfer::next: the flag is looked at before each wait for a chunk. *)

AwaitChunk ==
    /\ pc = "stream" /\ ~interrupt
    /\ pc' = "recv"
    /\ UNCHANGED <<shared, loop, beat, ghosts>>

StreamCancelled ==
    /\ pc = "stream" /\ interrupt
    /\ pc' = "after"
    /\ UNCHANGED <<shared, loop, beat, ghosts>>

\* A chunk without the end of an element.
PartialChunk ==
    /\ pc = "recv" /\ chunks > 0
    /\ chunks' = chunks - 1 /\ pc' = "stream"
    /\ UNCHANGED <<shared, loop, guard, cancelIdle, item, failure, ghosts>>

\* An element is complete, or the answer turns out to be broken.
Yield(kind) ==
    /\ pc = "recv" /\ (kind \in Failures \/ chunks > 0)
    /\ chunks' = IF kind \in Failures THEN 0 ELSE chunks - 1
    /\ item' = kind /\ pc' = "item"
    /\ UNCHANGED <<shared, loop, guard, cancelIdle, failure, ghosts>>

\* The end marker: the answer is complete.
StreamEnds ==
    /\ pc = "recv"
    /\ pc' = "after"
    /\ UNCHANGED <<shared, loop, beat, ghosts>>

-----------------------------------------------------------------------------
(* The loop over the actions of one inference. *)

IsBlocking(kind) == kind \in {"script", "read"}

\* SequenceGuard::check
Verdict(kind) ==
    IF guard = "Normal" \/ (guard = "AfterBlocking" /\ (IsBlocking(kind) \/ kind = "send"))
    THEN "Allow"
    ELSE IF kind = "idle" THEN "Ignore" ELSE "Reject"

GuardAfter(kind) ==
    IF guard # "Normal" THEN guard
    ELSE IF kind = "idle" THEN "AfterIdle"
    ELSE IF IsBlocking(kind) THEN "AfterBlocking" ELSE "Normal"

\* The interrupt is looked at before the result of next is.
ItemInterrupted ==
    /\ pc = "item" /\ interrupt
    /\ interrupt' = FALSE /\ item' = "none" /\ pc' = "after"
    /\ UNCHANGED <<unread, inferring, backoff, loop, guard, cancelIdle, chunks, failure, ghosts>>

ItemFails ==
    /\ pc = "item" /\ ~interrupt /\ item \in Failures
    /\ failure' = item /\ item' = "none" /\ pc' = "after"
    /\ UNCHANGED <<shared, loop, guard, cancelIdle, chunks, ghosts>>

IgnoreItem ==
    /\ pc = "item" /\ ~interrupt /\ item \in Kinds /\ Verdict(item) = "Ignore"
    /\ item' = "none" /\ pc' = "stream"
    /\ UNCHANGED <<shared, loop, guard, cancelIdle, chunks, failure, ghosts>>

RejectItem ==
    /\ pc = "item" /\ ~interrupt /\ item \in Kinds /\ Verdict(item) = "Reject"
    /\ item' = "none" /\ pc' = "after"
    /\ UNCHANGED <<shared, loop, guard, cancelIdle, chunks, failure, ghosts>>

\* Mutant: the idle is executed all the same.
ObeyIdle ==
    /\ pc = "item" /\ ~interrupt /\ item = "idle" /\ Verdict(item) = "Allow" /\ cancelIdle
    /\ guard' = GuardAfter(item) /\ pc' = "exec"
    /\ UNCHANGED <<shared, loop, cancelIdle, item, chunks, failure, ghosts>>

\* An idle after a failed send is recorded but not obeyed.
CancelIdle ==
    /\ pc = "item" /\ ~interrupt /\ item = "idle" /\ Verdict(item) = "Allow" /\ cancelIdle
    /\ guard' = GuardAfter(item) /\ item' = "none" /\ pc' = "stream"
    /\ UNCHANGED <<shared, loop, cancelIdle, chunks, failure, ghosts>>

AcceptItem ==
    /\ pc = "item" /\ ~interrupt /\ item \in Kinds /\ Verdict(item) = "Allow"
    /\ ~(item = "idle" /\ cancelIdle)
    /\ guard' = GuardAfter(item) /\ pc' = "exec"
    /\ UNCHANGED <<shared, loop, cancelIdle, item, chunks, failure, ghosts>>

\* A blocking action ends the inference once it is executed.
NextItem == item' = "none" /\ pc' = IF IsBlocking(item) THEN "after" ELSE "stream"

ExecuteIdle(timeout) ==
    /\ pc = "exec" /\ item = "idle"
    /\ lastIdle' = TRUE /\ idleTimeout' = timeout
    /\ NextItem /\ slept' = 0
    /\ UNCHANGED <<shared, idleElapsed, consecutive, beatCount, guard, cancelIdle, chunks, failure,
                   unsaid, inferences>>

ExecuteRead ==
    /\ pc = "exec" /\ item = "read"
    /\ \/ unread' = FALSE
       \/ "store" \in Faults /\ UNCHANGED unread
    /\ NextItem
    /\ UNCHANGED <<interrupt, inferring, backoff, loop, guard, cancelIdle, chunks, failure, ghosts>>

\* A send reaches its recipient; or nobody has that name or the relay fails,
\* and the transaction is marked; or the reply cannot be written, and the
\* error leaves the handler before it marks anything.
ExecuteSend ==
    /\ pc = "exec" /\ item = "send"
    /\ \/ UNCHANGED <<cancelIdle, unsaid>>
       \/ cancelIdle' = TRUE /\ unsaid' = unsaid \union {"refused"}
       \/ "store" \in Faults /\ unsaid' = unsaid \union {"store"} /\ UNCHANGED cancelIdle
    /\ NextItem
    /\ UNCHANGED <<shared, loop, guard, chunks, failure, slept, inferences>>

ExecuteOther ==
    /\ pc = "exec" /\ item \in {"script", "other"}
    /\ NextItem
    /\ UNCHANGED <<shared, loop, guard, cancelIdle, chunks, failure, ghosts>>

-----------------------------------------------------------------------------
(* After the loop: a pending interrupt is consumed, the outcome is judged. *)

InferenceFails ==
    /\ pc = "after" /\ failure = "channel"
    /\ interrupt' = FALSE /\ backoff' = TRUE /\ pc' = "failed"
    /\ UNCHANGED <<unread, inferring, loop, beat, ghosts>>

\* Mutant: an interrupt that ended the stream is left for later.
EndsKeepingInterrupt ==
    /\ pc = "after" /\ failure # "channel"
    /\ IF failure = "none" THEN backoff' = FALSE ELSE UNCHANGED backoff
    /\ BeatDone(lastIdle)
    /\ UNCHANGED <<unread, interrupt, inferring, idleTimeout, idleElapsed, beat, ghosts>>

InferenceEnds ==
    /\ pc = "after" /\ failure # "channel"
    /\ interrupt' = FALSE
    /\ IF failure = "none" THEN backoff' = FALSE ELSE UNCHANGED backoff
    /\ BeatDone(lastIdle)
    /\ UNCHANGED <<unread, inferring, idleTimeout, idleElapsed, beat, ghosts>>

-----------------------------------------------------------------------------
(* The world around the thread. *)

\* A message of a person or another instance, or the notice of a finished
\* roll or capture: each is an unread row of the inbox.
MessageArrives ==
    /\ unread' = TRUE
    /\ UNCHANGED <<interrupt, inferring, backoff, pc, loop, beat, ghosts>>

InterruptRequested ==
    /\ pc # "exited"
    /\ interrupt' = TRUE
    /\ UNCHANGED <<unread, inferring, backoff, pc, loop, beat, ghosts>>

BackoffExpires ==
    /\ backoff
    /\ backoff' = FALSE
    /\ UNCHANGED <<unread, interrupt, inferring, pc, loop, beat, ghosts>>

\* settings.json does not load at the head of the loop, or the engine dies.
ThreadExits ==
    /\ \/ pc = "top" /\ "settings" \in Faults
       \/ pc # "exited" /\ "crash" \in Faults
    /\ pc' = "exited"
    /\ UNCHANGED <<shared, loop, beat, ghosts>>

\* The scan of the instances directory finds no thread for this one, or the
\* engine restores its instances: the thread begins anew, with new signals.
Respawn ==
    /\ pc = "exited"
    /\ pc' = "top" /\ lastIdle' = TRUE /\ idleTimeout' = NoTimeout /\ idleElapsed' = 0
    /\ consecutive' = 0 /\ beatCount' = 0 /\ backoff' = FALSE
    /\ guard' = "Normal" /\ cancelIdle' = FALSE /\ item' = "none" /\ chunks' = 0
    /\ failure' = "none" /\ interrupt' = FALSE /\ inferring' = FALSE
    /\ unsaid' = {} /\ slept' = 0
    /\ UNCHANGED <<unread, inferences>>

Poll == FallAsleep \/ GoOn \/ IdleInterrupted \/ TimerRings \/ KeepSleeping \/ MessageWakes
Gate == Cooldown \/ StopAtLimit \/ BackOff \/ EnterBeat
Beat == Skip \/ AutoRead \/ StartInference \/ OpenFails \/ OpenStream \/ BeatFails
Execute ==
    \/ \E timeout \in Timeouts \union {NoTimeout} : ExecuteIdle(timeout)
    \/ ExecuteRead \/ ExecuteSend \/ ExecuteOther
Consume ==
    \/ AwaitChunk \/ StreamCancelled
    \/ ItemInterrupted \/ ItemFails \/ IgnoreItem \/ RejectItem \/ CancelIdle \/ AcceptItem
    \/ Execute
    \/ InferenceFails \/ InferenceEnds

\* What the thread does of its own, and what it waits for the model to do.
Thread == Poll \/ Gate \/ Beat \/ Consume \/ Respawn
Model == PartialChunk \/ (\E kind \in Kinds \union Failures : Yield(kind)) \/ StreamEnds
World == MessageArrives \/ InterruptRequested \/ BackoffExpires \/ ThreadExits

Next == Thread \/ Model \/ World

Spec == Init /\ [][Next]_vars

\* The runtime runs every ready task, the clock goes on, and the model answers:
\* it sends the next chunk, ends or fails.
FairSpec == Spec /\ WF_vars(Thread) /\ WF_vars(BackoffExpires) /\ WF_vars(Model)
-----------------------------------------------------------------------------
(* Properties. *)

Inferring == pc \in {"open", "stream", "recv", "item", "exec", "after", "failed"}

\* Every variable holds a value of its type, the beats in a row stay within the
\* valve and the polls counted within the longest timeout.
TypeOK ==
    /\ unread \in BOOLEAN /\ interrupt \in BOOLEAN /\ inferring \in BOOLEAN
    /\ backoff \in BOOLEAN
    /\ pc \in {"top", "asleep", "gate", "beat", "open", "stream", "recv", "item", "exec", "after",
              "failed", "exited"}
    /\ lastIdle \in BOOLEAN /\ idleTimeout \in Timeouts \union {NoTimeout}
    /\ idleElapsed \in 0..CountCap /\ beatCount \in 0..CountCap
    /\ consecutive \in 0..Valve
    /\ guard \in {"Normal", "AfterBlocking", "AfterIdle"} /\ cancelIdle \in BOOLEAN
    /\ item \in Kinds \union Failures \union {"none"} /\ chunks \in 0..MaxChunks
    /\ failure \in Failures \union {"none"}
    /\ unsaid \subseteq {"refused", "store"}
    /\ slept \in 0..CountCap /\ inferences \in 0..CountCap

\* Once the model has put the instance to sleep nothing more of the same answer
\* is executed, whatever it goes on to write (SequenceGuard).
NoSleepwalking == pc = "exec" => ~lastIdle

\* An inference in which a message was refused, for it has no such recipient or
\* the relay failed, never puts the instance to sleep, whatever the order of
\* sends, idles and errors in it.  Excepted is a message lost because its own
\* row cannot be written: nothing is marked, and an idle after it is obeyed.
FailedSendStaysAwake ==
    "refused" \in unsaid /\ pc \in {"stream", "recv", "item", "exec", "after", "failed"}
        => ~lastIdle

\* observe calls the instance inferring whenever the model is at work for it,
\* and never while it sleeps for want of work.
HonestStatus == (Inferring => inferring) /\ (pc = "asleep" => ~inferring)

\* A timed idle does not end of itself before its time: polls counted for an
\* earlier idle, which a message ended, do not count for this one.
WakesNotEarly ==
    [][pc = "asleep" /\ lastIdle /\ ~lastIdle' => slept + 1 >= idleTimeout]_vars

\* The loop keeps the promise of Attention: no message is dropped unread, its
\* reader is awake afterwards, and every message is read in the end, through
\* failing inferences, backoff, cooldowns and interrupts.
Promise == INSTANCE Attention WITH awake <- ~lastIdle, mail <- unread
KeepsPromise == Promise!Spec

\* An interrupt does not linger and kill one inference after another: it is
\* consumed, unless inferences keep failing or new messages, which are read
\* before the model is asked, keep the thread from one.
InterruptConsumed == []<>~interrupt \/ []<>(pc = "failed") \/ []<>unread
=============================================================================
