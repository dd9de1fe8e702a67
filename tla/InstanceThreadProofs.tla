------------------------ MODULE InstanceThreadProofs ------------------------
(***************************************************************************)
(* Proofs about InstanceThread, for every setting of its limits and every  *)
(* combination of faults; and about StreamInfer, which it reads its        *)
(* answers from, for every text and every way to cut it.                   *)
(***************************************************************************)
EXTENDS InstanceThread, StreamInfer, FiniteSetTheorems, WellFoundedInduction, TLAPS

Flags ==
    /\ unread \in BOOLEAN /\ interrupt \in BOOLEAN /\ inferring \in BOOLEAN
    /\ backoff \in BOOLEAN /\ lastIdle \in BOOLEAN /\ cancelIdle \in BOOLEAN

ValueTypes ==
    /\ pc \in {"top", "asleep", "gate", "beat", "open", "stream", "recv", "item", "exec", "after",
              "failed", "exited"}
    /\ idleTimeout \in Timeouts \union {NoTimeout}
    /\ idleElapsed \in 0..CountCap /\ beatCount \in 0..CountCap
    /\ consecutive \in 0..Valve
    /\ guard \in {"Normal", "AfterBlocking", "AfterIdle"}
    /\ item \in Kinds \union Failures \union {"none"} /\ chunks \in 0..MaxChunks
    /\ failure \in Failures \union {"none"}
    /\ unsaid \subseteq {"refused", "store"}
    /\ slept \in 0..CountCap /\ inferences \in 0..CountCap

\* The gate lets no beat begin that would take the beats in a row over the valve.
BelowValve ==
    pc \in {"beat", "open", "stream", "recv", "item", "exec", "after"} => consecutive < Valve

LEMMA CountType == \A n \in 0..CountCap : Count(n) \in 0..CountCap
BY ThreadAssumption DEF Count

LEMMA FlagsStep == Flags /\ [Next]_vars => Flags'
<1> SUFFICES ASSUME Flags, [Next]_vars PROVE Flags'
  OBVIOUS
<1> USE DEF Flags, vars, loop, beat, shared, ghosts
<1>1. CASE FallAsleep
  BY <1>1, Zenon DEF FallAsleep
<1>2. CASE GoOn
  BY <1>2, Zenon DEF GoOn
<1>3. CASE IdleInterrupted
  BY <1>3, Zenon DEF IdleInterrupted, Slept
<1>4. CASE TimerRings
  BY <1>4, Zenon DEF TimerRings, Slept
<1>5. CASE KeepSleeping
  BY <1>5, Zenon DEF KeepSleeping, CountPoll, TimedOut, Slept
<1>6. CASE MessageWakes
  BY <1>6, Zenon DEF MessageWakes, CountPoll, TimedOut, Slept
<1>7. CASE Cooldown
  BY <1>7, Zenon DEF Cooldown, NotifyAnomaly
<1>8. CASE StopAtLimit
  BY <1>8, Zenon DEF StopAtLimit, NotifyAnomaly
<1>9. CASE BackOff
  BY <1>9, Zenon DEF BackOff
<1>10. CASE EnterBeat
  BY <1>10, Zenon DEF EnterBeat, NotifyAnomaly, ValveTrips
<1>11. CASE Skip
  BY <1>11, Zenon DEF Skip, BeatDone
<1>12. CASE AutoRead
  BY <1>12, Zenon DEF AutoRead, BeatDone
<1>13. CASE StartInference
  BY <1>13, Zenon DEF StartInference
<1>14. CASE OpenFails
  BY <1>14, Zenon DEF OpenFails
<1>15. CASE OpenStream
  BY <1>15, Zenon DEF OpenStream
<1>16. CASE BeatFails
  BY <1>16, Zenon DEF BeatFails, NotifyAnomaly
<1>17. CASE AwaitChunk
  BY <1>17, Zenon DEF AwaitChunk
<1>18. CASE StreamCancelled
  BY <1>18, Zenon DEF StreamCancelled
<1>19. CASE ItemInterrupted
  BY <1>19, Zenon DEF ItemInterrupted
<1>20. CASE ItemFails
  BY <1>20, Zenon DEF ItemFails
<1>21. CASE IgnoreItem
  BY <1>21, Zenon DEF IgnoreItem
<1>22. CASE RejectItem
  BY <1>22, Zenon DEF RejectItem
<1>23. CASE CancelIdle
  BY <1>23, Zenon DEF CancelIdle, GuardAfter
<1>24. CASE AcceptItem
  BY <1>24, Zenon DEF AcceptItem, GuardAfter
<1>25. CASE \E timeout \in Timeouts \union {NoTimeout} : ExecuteIdle(timeout)
  BY <1>25, Zenon DEF ExecuteIdle, NextItem
<1>26. CASE ExecuteRead
  BY <1>26, Zenon DEF ExecuteRead, NextItem
<1>27. CASE ExecuteSend
  BY <1>27, Zenon DEF ExecuteSend, NextItem
<1>28. CASE ExecuteOther
  BY <1>28, Zenon DEF ExecuteOther, NextItem
<1>29. CASE InferenceFails
  BY <1>29, Zenon DEF InferenceFails
<1>30. CASE InferenceEnds
  BY <1>30, Zenon DEF InferenceEnds, BeatDone
<1>31. CASE Respawn
  BY <1>31, Zenon DEF Respawn
<1>32. CASE PartialChunk
  BY <1>32, Zenon DEF PartialChunk
<1>33. CASE \E kind \in Kinds \union Failures : Yield(kind)
  BY <1>33, Zenon DEF Yield
<1>34. CASE StreamEnds
  BY <1>34, Zenon DEF StreamEnds
<1>35. CASE MessageArrives
  BY <1>35, Zenon DEF MessageArrives
<1>36. CASE InterruptRequested
  BY <1>36, Zenon DEF InterruptRequested
<1>37. CASE BackoffExpires
  BY <1>37, Zenon DEF BackoffExpires
<1>38. CASE ThreadExits
  BY <1>38, Zenon DEF ThreadExits
<1>39. CASE UNCHANGED vars
  BY <1>39, Zenon
<1> QED
  BY <1>1, <1>2, <1>3, <1>4, <1>5, <1>6, <1>7, <1>8, <1>9, <1>10, <1>11, <1>12, <1>13,
     <1>14, <1>15, <1>16, <1>17, <1>18, <1>19, <1>20, <1>21, <1>22, <1>23, <1>24, <1>25,
     <1>26, <1>27, <1>28, <1>29, <1>30, <1>31, <1>32, <1>33, <1>34, <1>35, <1>36, <1>37,
     <1>38, <1>39
     DEF Next, Thread, Model, World, Poll, Gate, Beat, Consume, Execute

LEMMA ValuesStep == ValueTypes /\ BelowValve /\ [Next]_vars => ValueTypes' /\ BelowValve'
<1> SUFFICES ASSUME ValueTypes, BelowValve, [Next]_vars PROVE ValueTypes' /\ BelowValve'
  OBVIOUS
<1> USE ThreadAssumption, CountType
    DEF ValueTypes, BelowValve, Kinds, Failures, NoTimeout, vars, loop, beat, shared, ghosts
<1>1. CASE FallAsleep
  BY <1>1 DEF FallAsleep
<1>2. CASE GoOn
  BY <1>2 DEF GoOn
<1>3. CASE IdleInterrupted
  BY <1>3 DEF IdleInterrupted, Slept
<1>4. CASE TimerRings
  BY <1>4 DEF TimerRings, Slept
<1>5. CASE KeepSleeping
  BY <1>5 DEF KeepSleeping, CountPoll, TimedOut, Slept
<1>6. CASE MessageWakes
  BY <1>6 DEF MessageWakes, CountPoll, TimedOut, Slept
<1>7. CASE Cooldown
  BY <1>7 DEF Cooldown, NotifyAnomaly
<1>8. CASE StopAtLimit
  BY <1>8 DEF StopAtLimit, NotifyAnomaly
<1>9. CASE BackOff
  BY <1>9 DEF BackOff
<1>10. CASE EnterBeat
  BY <1>10 DEF EnterBeat, NotifyAnomaly, ValveTrips
<1>11. CASE Skip
  BY <1>11 DEF Skip, BeatDone
<1>12. CASE AutoRead
  BY <1>12 DEF AutoRead, BeatDone
<1>13. CASE StartInference
  BY <1>13 DEF StartInference
<1>14. CASE OpenFails
  BY <1>14 DEF OpenFails
<1>15. CASE OpenStream
  BY <1>15 DEF OpenStream
<1>16. CASE BeatFails
  BY <1>16 DEF BeatFails, NotifyAnomaly
<1>17. CASE AwaitChunk
  BY <1>17 DEF AwaitChunk
<1>18. CASE StreamCancelled
  BY <1>18 DEF StreamCancelled
<1>19. CASE ItemInterrupted
  BY <1>19 DEF ItemInterrupted
<1>20. CASE ItemFails
  BY <1>20 DEF ItemFails
<1>21. CASE IgnoreItem
  BY <1>21 DEF IgnoreItem
<1>22. CASE RejectItem
  BY <1>22 DEF RejectItem
<1>23. CASE CancelIdle
  BY <1>23 DEF CancelIdle, GuardAfter
<1>24. CASE AcceptItem
  BY <1>24 DEF AcceptItem, GuardAfter
<1>25. CASE \E timeout \in Timeouts \union {NoTimeout} : ExecuteIdle(timeout)
  BY <1>25 DEF ExecuteIdle, NextItem
<1>26. CASE ExecuteRead
  BY <1>26 DEF ExecuteRead, NextItem
<1>27. CASE ExecuteSend
  BY <1>27 DEF ExecuteSend, NextItem
<1>28. CASE ExecuteOther
  BY <1>28 DEF ExecuteOther, NextItem
<1>29. CASE InferenceFails
  BY <1>29 DEF InferenceFails
<1>30. CASE InferenceEnds
  BY <1>30 DEF InferenceEnds, BeatDone
<1>31. CASE Respawn
  BY <1>31 DEF Respawn
<1>32. CASE PartialChunk
  BY <1>32 DEF PartialChunk
<1>33. CASE \E kind \in Kinds \union Failures : Yield(kind)
  BY <1>33 DEF Yield
<1>34. CASE StreamEnds
  BY <1>34 DEF StreamEnds
<1>35. CASE MessageArrives
  BY <1>35 DEF MessageArrives
<1>36. CASE InterruptRequested
  BY <1>36 DEF InterruptRequested
<1>37. CASE BackoffExpires
  BY <1>37 DEF BackoffExpires
<1>38. CASE ThreadExits
  BY <1>38 DEF ThreadExits
<1>39. CASE UNCHANGED vars
  BY <1>39
<1> QED
  BY <1>1, <1>2, <1>3, <1>4, <1>5, <1>6, <1>7, <1>8, <1>9, <1>10, <1>11, <1>12, <1>13,
     <1>14, <1>15, <1>16, <1>17, <1>18, <1>19, <1>20, <1>21, <1>22, <1>23, <1>24, <1>25,
     <1>26, <1>27, <1>28, <1>29, <1>30, <1>31, <1>32, <1>33, <1>34, <1>35, <1>36, <1>37,
     <1>38, <1>39
     DEF Next, Thread, Model, World, Poll, Gate, Beat, Consume, Execute

\* Every variable always holds a value of its type, whatever the settings; in
\* particular the beats in a row never exceed the safety valve.
THEOREM TypeCorrect == Spec => []TypeOK
<1>1. Init => Flags
  BY Zenon DEF Init, FreshThread, Flags
<1>2. Init => ValueTypes /\ BelowValve
  BY ThreadAssumption DEF Init, FreshThread, ValueTypes, BelowValve, NoTimeout, Kinds, Failures
<1>3. Flags /\ ValueTypes => TypeOK
  BY DEF Flags, ValueTypes, TypeOK
<1> QED
  BY <1>1, <1>2, <1>3, FlagsStep, ValuesStep, PTL DEF Spec

-----------------------------------------------------------------------------
(***************************************************************************)
(* Why an answer cannot act after it has put the instance to sleep: from   *)
(* the idle on the guard is AfterIdle and lets nothing through.  And why a  *)
(* refused send keeps the instance awake: it has marked the transaction,   *)
(* no idle is executed from then on, and no send once the instance sleeps. *)
(***************************************************************************)

Streaming == {"stream", "recv", "item", "exec"}

AnswerInv ==
    /\ pc = "open" => ~lastIdle
    /\ lastIdle /\ pc \in Streaming => guard = "AfterIdle"
    /\ NoSleepwalking
    /\ pc = "exec" /\ item = "idle" => ~cancelIdle /\ guard = "AfterIdle"
    /\ "refused" \in unsaid /\ pc \in Streaming => cancelIdle
    /\ FailedSendStaysAwake

LEMMA AnswerStep == AnswerInv /\ [Next]_vars => AnswerInv'
<1> SUFFICES ASSUME AnswerInv, [Next]_vars PROVE AnswerInv'
  OBVIOUS
<1> USE DEF AnswerInv, NoSleepwalking, FailedSendStaysAwake, Streaming, IsBlocking,
    vars, loop, beat, shared, ghosts
<1>1. CASE FallAsleep
  BY <1>1 DEF FallAsleep
<1>2. CASE GoOn
  BY <1>2 DEF GoOn
<1>3. CASE IdleInterrupted
  BY <1>3 DEF IdleInterrupted, Slept
<1>4. CASE TimerRings
  BY <1>4 DEF TimerRings, Slept
<1>5. CASE KeepSleeping
  BY <1>5 DEF KeepSleeping, CountPoll, TimedOut, Slept
<1>6. CASE MessageWakes
  BY <1>6 DEF MessageWakes, CountPoll, TimedOut, Slept
<1>7. CASE Cooldown
  BY <1>7 DEF Cooldown, NotifyAnomaly
<1>8. CASE StopAtLimit
  BY <1>8 DEF StopAtLimit, NotifyAnomaly
<1>9. CASE BackOff
  BY <1>9 DEF BackOff
<1>10. CASE EnterBeat
  BY <1>10 DEF EnterBeat, NotifyAnomaly, ValveTrips
<1>11. CASE Skip
  BY <1>11 DEF Skip, BeatDone
<1>12. CASE AutoRead
  BY <1>12 DEF AutoRead, BeatDone
<1>13. CASE StartInference
  BY <1>13 DEF StartInference
<1>14. CASE OpenFails
  BY <1>14 DEF OpenFails
<1>15. CASE OpenStream
  BY <1>15 DEF OpenStream
<1>16. CASE BeatFails
  BY <1>16 DEF BeatFails, NotifyAnomaly
<1>17. CASE AwaitChunk
  BY <1>17 DEF AwaitChunk
<1>18. CASE StreamCancelled
  BY <1>18 DEF StreamCancelled
<1>19. CASE ItemInterrupted
  BY <1>19 DEF ItemInterrupted
<1>20. CASE ItemFails
  BY <1>20 DEF ItemFails
<1>21. CASE IgnoreItem
  BY <1>21 DEF IgnoreItem
<1>22. CASE RejectItem
  BY <1>22 DEF RejectItem
<1>23. CASE CancelIdle
  BY <1>23 DEF CancelIdle, GuardAfter, Verdict
<1>24. CASE AcceptItem
  BY <1>24 DEF AcceptItem, GuardAfter, Verdict
<1>25. CASE \E timeout \in Timeouts \union {NoTimeout} : ExecuteIdle(timeout)
  BY <1>25 DEF ExecuteIdle, NextItem
<1>26. CASE ExecuteRead
  BY <1>26 DEF ExecuteRead, NextItem
<1>27. CASE ExecuteSend
  BY <1>27 DEF ExecuteSend, NextItem
<1>28. CASE ExecuteOther
  BY <1>28 DEF ExecuteOther, NextItem
<1>29. CASE InferenceFails
  BY <1>29 DEF InferenceFails
<1>30. CASE InferenceEnds
  BY <1>30 DEF InferenceEnds, BeatDone
<1>31. CASE Respawn
  BY <1>31 DEF Respawn
<1>32. CASE PartialChunk
  BY <1>32 DEF PartialChunk
<1>33. CASE \E kind \in Kinds \union Failures : Yield(kind)
  BY <1>33 DEF Yield
<1>34. CASE StreamEnds
  BY <1>34 DEF StreamEnds
<1>35. CASE MessageArrives
  BY <1>35 DEF MessageArrives
<1>36. CASE InterruptRequested
  BY <1>36 DEF InterruptRequested
<1>37. CASE BackoffExpires
  BY <1>37 DEF BackoffExpires
<1>38. CASE ThreadExits
  BY <1>38 DEF ThreadExits
<1>39. CASE UNCHANGED vars
  BY <1>39
<1> QED
  BY <1>1, <1>2, <1>3, <1>4, <1>5, <1>6, <1>7, <1>8, <1>9, <1>10, <1>11, <1>12, <1>13,
     <1>14, <1>15, <1>16, <1>17, <1>18, <1>19, <1>20, <1>21, <1>22, <1>23, <1>24, <1>25,
     <1>26, <1>27, <1>28, <1>29, <1>30, <1>31, <1>32, <1>33, <1>34, <1>35, <1>36, <1>37,
     <1>38, <1>39
     DEF Next, Thread, Model, World, Poll, Gate, Beat, Consume, Execute

THEOREM AnswerInvariant == Spec => []AnswerInv
<1>1. Init => AnswerInv
  BY DEF Init, FreshThread, AnswerInv, NoSleepwalking, FailedSendStaysAwake, Streaming
<1> QED
  BY <1>1, AnswerStep, PTL DEF Spec

\* Nothing of an answer is executed after the idle that put the instance to sleep.
THEOREM NeverSleepwalks == Spec => []NoSleepwalking
BY AnswerInvariant, PTL DEF AnswerInv

\* An inference in which a send was refused does not end with the instance asleep.
THEOREM FailedSendKeepsAwake == Spec => []FailedSendStaysAwake
BY AnswerInvariant, PTL DEF AnswerInv

-----------------------------------------------------------------------------
(***************************************************************************)
(* The safety half of the promise of Attention.  A step that drops no mail *)
(* is one of Attention whatever it does; the two that read are found awake *)
(* afterwards, the second because nothing is executed once asleep.         *)
(***************************************************************************)

\* A step after which no unread message is missing.
DropsNone == unread' \in {unread, TRUE}

LEMMA NoneDropped ==
  ASSUME [Next]_vars, ~AutoRead, ~ExecuteRead
  PROVE  DropsNone
<1> USE DEF DropsNone, shared, vars
<1>1. CASE Poll
  BY <1>1 DEF Poll, FallAsleep, GoOn, IdleInterrupted, TimerRings, KeepSleeping, MessageWakes
<1>2. CASE Gate
  BY <1>2 DEF Gate, Cooldown, StopAtLimit, BackOff, EnterBeat, NotifyAnomaly
<1>3. CASE Beat
  BY <1>3 DEF Beat, Skip, StartInference, OpenFails, OpenStream, BeatFails, NotifyAnomaly
<1>4. CASE Execute
  BY <1>4 DEF Execute, ExecuteIdle, ExecuteSend, ExecuteOther
<1>5. CASE Consume /\ ~Execute
  BY <1>5 DEF Consume, AwaitChunk, StreamCancelled, ItemInterrupted, ItemFails, IgnoreItem, RejectItem,
     CancelIdle, AcceptItem, InferenceFails, InferenceEnds
<1>6. CASE Respawn
  BY <1>6 DEF Respawn
<1>7. CASE Model
  BY <1>7 DEF Model, PartialChunk, Yield, StreamEnds
<1>8. CASE World
  BY <1>8 DEF World, MessageArrives, InterruptRequested, BackoffExpires, ThreadExits
<1>9. CASE UNCHANGED vars
  BY <1>9
<1> QED
  BY <1>1, <1>2, <1>3, <1>4, <1>5, <1>6, <1>7, <1>8, <1>9 DEF Next, Thread

LEMMA AttentionStep ==
  ASSUME Flags, Flags', NoSleepwalking, [Next]_vars
  PROVE  [Promise!Next]_(Promise!vars)
<1>1. unread \in BOOLEAN /\ lastIdle' \in BOOLEAN
  BY DEF Flags
<1>2. ASSUME DropsNone PROVE Promise!Next
  <2>1. CASE lastIdle' = TRUE
    <3>1. Promise!Rest
      BY <1>2, <2>1 DEF Promise!Rest, DropsNone
    <3> QED
      BY <3>1 DEF Promise!Next
  <2>2. CASE lastIdle' = FALSE
    <3>1. Promise!Wake
      BY <1>2, <2>2 DEF Promise!Wake, DropsNone
    <3> QED
      BY <3>1 DEF Promise!Next
  <2> QED
    BY <1>1, <2>1, <2>2
<1>3. ASSUME unread = TRUE, unread' = FALSE, lastIdle' = FALSE PROVE Promise!Next
  <2>1. Promise!Attend
    BY <1>3 DEF Promise!Attend
  <2> QED
    BY <2>1 DEF Promise!Next
<1>4. CASE AutoRead
  <2>1. unread = TRUE /\ lastIdle' = FALSE /\ (unread' = FALSE \/ unread' = unread)
    BY <1>1, <1>4 DEF AutoRead, BeatDone
  <2> QED
    BY <1>2, <1>3, <2>1 DEF DropsNone
<1>5. CASE ExecuteRead
  <2>1. lastIdle' = FALSE /\ (unread' = FALSE \/ unread' = unread)
    BY <1>1, <1>5 DEF ExecuteRead, NoSleepwalking, loop, Flags
  <2> QED
    BY <1>1, <1>2, <1>3, <2>1 DEF DropsNone
<1>6. CASE ~AutoRead /\ ~ExecuteRead
  BY <1>2, <1>6, NoneDropped
<1> QED
  BY <1>4, <1>5, <1>6

\* The loop implements Attention, its fairness apart: no message is dropped unread, and
\* whoever reads one is awake to think about it, through every fault and restart.
THEOREM ImplementsAttention == Spec => Promise!Init /\ [][Promise!Next]_(Promise!vars)
<1>1. Init => Promise!Init
  BY DEF Init, FreshThread, Promise!Init
<1>2. Init => Flags
  BY Zenon DEF Init, FreshThread, Flags
<1>3. AnswerInv => NoSleepwalking
  BY DEF AnswerInv
<1>4. Flags /\ Flags' /\ NoSleepwalking /\ [Next]_vars => [Promise!Next]_(Promise!vars)
  BY AttentionStep
<1> QED
  BY <1>1, <1>2, <1>3, <1>4, FlagsStep, AnswerInvariant, PTL DEF Spec

-----------------------------------------------------------------------------
(* The status that observe reports.                                        *)

LEMMA StatusStep == HonestStatus /\ [Next]_vars => HonestStatus'
<1> SUFFICES ASSUME HonestStatus, [Next]_vars PROVE HonestStatus'
  OBVIOUS
<1> USE DEF HonestStatus, Inferring, vars, loop, beat, shared, ghosts
<1>1. CASE FallAsleep
  BY <1>1 DEF FallAsleep
<1>2. CASE GoOn
  BY <1>2 DEF GoOn
<1>3. CASE IdleInterrupted
  BY <1>3 DEF IdleInterrupted, Slept
<1>4. CASE TimerRings
  BY <1>4 DEF TimerRings, Slept
<1>5. CASE KeepSleeping
  BY <1>5 DEF KeepSleeping, CountPoll, TimedOut, Slept
<1>6. CASE MessageWakes
  BY <1>6 DEF MessageWakes, CountPoll, TimedOut, Slept
<1>7. CASE Cooldown
  BY <1>7 DEF Cooldown, NotifyAnomaly
<1>8. CASE StopAtLimit
  BY <1>8 DEF StopAtLimit, NotifyAnomaly
<1>9. CASE BackOff
  BY <1>9 DEF BackOff
<1>10. CASE EnterBeat
  BY <1>10 DEF EnterBeat, NotifyAnomaly, ValveTrips
<1>11. CASE Skip
  BY <1>11 DEF Skip, BeatDone
<1>12. CASE AutoRead
  BY <1>12 DEF AutoRead, BeatDone
<1>13. CASE StartInference
  BY <1>13 DEF StartInference
<1>14. CASE OpenFails
  BY <1>14 DEF OpenFails
<1>15. CASE OpenStream
  BY <1>15 DEF OpenStream
<1>16. CASE BeatFails
  BY <1>16 DEF BeatFails, NotifyAnomaly
<1>17. CASE AwaitChunk
  BY <1>17 DEF AwaitChunk
<1>18. CASE StreamCancelled
  BY <1>18 DEF StreamCancelled
<1>19. CASE ItemInterrupted
  BY <1>19 DEF ItemInterrupted
<1>20. CASE ItemFails
  BY <1>20 DEF ItemFails
<1>21. CASE IgnoreItem
  BY <1>21 DEF IgnoreItem
<1>22. CASE RejectItem
  BY <1>22 DEF RejectItem
<1>23. CASE CancelIdle
  BY <1>23 DEF CancelIdle, GuardAfter
<1>24. CASE AcceptItem
  BY <1>24 DEF AcceptItem, GuardAfter
<1>25. CASE \E timeout \in Timeouts \union {NoTimeout} : ExecuteIdle(timeout)
  BY <1>25 DEF ExecuteIdle, NextItem
<1>26. CASE ExecuteRead
  BY <1>26 DEF ExecuteRead, NextItem
<1>27. CASE ExecuteSend
  BY <1>27 DEF ExecuteSend, NextItem
<1>28. CASE ExecuteOther
  BY <1>28 DEF ExecuteOther, NextItem
<1>29. CASE InferenceFails
  BY <1>29 DEF InferenceFails
<1>30. CASE InferenceEnds
  BY <1>30 DEF InferenceEnds, BeatDone
<1>31. CASE Respawn
  BY <1>31 DEF Respawn
<1>32. CASE PartialChunk
  BY <1>32 DEF PartialChunk
<1>33. CASE \E kind \in Kinds \union Failures : Yield(kind)
  BY <1>33 DEF Yield
<1>34. CASE StreamEnds
  BY <1>34 DEF StreamEnds
<1>35. CASE MessageArrives
  BY <1>35 DEF MessageArrives
<1>36. CASE InterruptRequested
  BY <1>36 DEF InterruptRequested
<1>37. CASE BackoffExpires
  BY <1>37 DEF BackoffExpires
<1>38. CASE ThreadExits
  BY <1>38 DEF ThreadExits
<1>39. CASE UNCHANGED vars
  BY <1>39
<1> QED
  BY <1>1, <1>2, <1>3, <1>4, <1>5, <1>6, <1>7, <1>8, <1>9, <1>10, <1>11, <1>12, <1>13,
     <1>14, <1>15, <1>16, <1>17, <1>18, <1>19, <1>20, <1>21, <1>22, <1>23, <1>24, <1>25,
     <1>26, <1>27, <1>28, <1>29, <1>30, <1>31, <1>32, <1>33, <1>34, <1>35, <1>36, <1>37,
     <1>38, <1>39
     DEF Next, Thread, Model, World, Poll, Gate, Beat, Consume, Execute

\* observe never calls an instance idle that the model is at work for, nor one
\* inferring that sleeps for want of work.
THEOREM StatusIsHonest == Spec => []HonestStatus
<1>1. Init => HonestStatus
  BY DEF Init, FreshThread, HonestStatus, Inferring
<1> QED
  BY <1>1, StatusStep, PTL DEF Spec

-----------------------------------------------------------------------------
(***************************************************************************)
(* The polls counted towards a timeout are polls slept since the idle,     *)
(* because every beat begins by forgetting those of an earlier one.        *)
(***************************************************************************)

InBeat == pc \in {"beat", "open", "stream", "recv", "item", "exec", "after"}

CountsSleep ==
    /\ idleElapsed \in 0..CountCap /\ slept \in 0..CountCap
    /\ idleElapsed <= slept
    /\ InBeat => idleElapsed = 0

\* One more poll, slept and perhaps counted.
LEMMA OnePoll ==
  ASSUME ValueTypes', CountsSleep, Slept, idleElapsed' \in {0, idleElapsed, idleElapsed + 1}, pc' \in {"top", "gate"}
  PROVE  CountsSleep'
BY ThreadAssumption DEF CountsSleep, Slept, InBeat, ValueTypes

LEMMA CountsSleepStep == ValueTypes' /\ CountsSleep /\ [Next]_vars => CountsSleep'
<1> SUFFICES ASSUME ValueTypes', CountsSleep, [Next]_vars PROVE CountsSleep'
  OBVIOUS
<1> USE DEF vars, loop, beat, shared, ghosts
<1>1. CASE IdleInterrupted \/ TimerRings \/ KeepSleeping \/ MessageWakes
  <2>1. Slept /\ idleElapsed' \in {0, idleElapsed, idleElapsed + 1} /\ pc' \in {"top", "gate"}
    BY <1>1 DEF IdleInterrupted, TimerRings, KeepSleeping, MessageWakes, CountPoll
  <2> QED
    BY <2>1, OnePoll
<1>2. CASE FallAsleep \/ GoOn \/ Gate
  <2>1. CASE FallAsleep \/ GoOn \/ Cooldown \/ StopAtLimit
    BY <2>1 DEF FallAsleep, GoOn, Cooldown, StopAtLimit, CountsSleep, InBeat
  <2>2. CASE BackOff \/ EnterBeat
    <3>1. idleElapsed' = 0 /\ slept' = slept
      BY <2>2, Zenon DEF BackOff, EnterBeat
    <3> QED
      BY <3>1, ThreadAssumption DEF CountsSleep
  <2> QED
    BY <1>2, <2>1, <2>2 DEF Gate
<1>3. CASE Beat
  BY <1>3 DEF Beat, Skip, AutoRead, StartInference, OpenFails, OpenStream, BeatFails, BeatDone,
     CountsSleep, InBeat
<1>4. CASE AwaitChunk \/ StreamCancelled \/ ItemInterrupted \/ ItemFails \/ IgnoreItem \/ RejectItem
  BY <1>4 DEF AwaitChunk, StreamCancelled, ItemInterrupted, ItemFails, IgnoreItem, RejectItem,
     CountsSleep, InBeat
<1>5. CASE CancelIdle \/ AcceptItem \/ InferenceFails \/ InferenceEnds
  BY <1>5 DEF CancelIdle, AcceptItem, InferenceFails, InferenceEnds, BeatDone, CountsSleep, InBeat
<1>6. CASE Execute
  <2>1. idleElapsed' = 0 /\ slept' \in {0, slept}
    BY <1>6 DEF Execute, ExecuteIdle, ExecuteRead, ExecuteSend, ExecuteOther, CountsSleep, InBeat
  <2> QED
    BY <2>1, ThreadAssumption DEF CountsSleep, ValueTypes
<1>7. CASE Respawn
  BY <1>7, ThreadAssumption DEF Respawn, CountsSleep, ValueTypes
<1>8. CASE Model
  BY <1>8 DEF Model, PartialChunk, Yield, StreamEnds, CountsSleep, InBeat
<1>9. CASE World \/ UNCHANGED vars
  BY <1>9 DEF World, MessageArrives, InterruptRequested, BackoffExpires, ThreadExits, CountsSleep, InBeat
<1> QED
  BY <1>1, <1>2, <1>3, <1>4, <1>5, <1>6, <1>7, <1>8, <1>9 DEF Next, Thread, Poll, Consume

\* A timed idle ends of itself only after as many polls as it was given, whatever polls
\* an earlier idle had counted when a message ended it (engine/mod.rs, instance_thread).
THEOREM NeverWakesEarly == Spec => WakesNotEarly
<1>1. Init => Flags
  BY Zenon DEF Init, FreshThread, Flags
<1>2. Init => ValueTypes /\ BelowValve /\ CountsSleep
  BY ThreadAssumption DEF Init, FreshThread, ValueTypes, BelowValve, CountsSleep, InBeat, NoTimeout, Kinds,
     Failures
<1>3. Flags /\ ValueTypes /\ CountsSleep /\ [Next]_vars
        => [pc = "asleep" /\ lastIdle /\ ~lastIdle' => slept + 1 >= idleTimeout]_vars
  <2> SUFFICES ASSUME ValueTypes, CountsSleep, Next, pc = "asleep", lastIdle, ~lastIdle'
               PROVE  slept + 1 >= idleTimeout
    OBVIOUS
  <2> USE DEF vars, loop, beat, shared, ghosts
  <2>1. CASE TimerRings
    BY <2>1, ThreadAssumption DEF TimerRings, TimedOut, CountsSleep, ValueTypes, NoTimeout
  <2>2. CASE IdleInterrupted \/ KeepSleeping \/ MessageWakes
    BY <2>2 DEF IdleInterrupted, KeepSleeping, MessageWakes
  <2>3. CASE World
    BY <2>3 DEF World, MessageArrives, InterruptRequested, BackoffExpires, ThreadExits
  <2>4. ~(FallAsleep \/ GoOn \/ Gate \/ Beat \/ Respawn \/ Model)
    BY DEF FallAsleep, GoOn, Gate, Cooldown, StopAtLimit, BackOff, EnterBeat, Beat, Skip, AutoRead,
       StartInference, OpenFails, OpenStream, BeatFails, Respawn, Model, PartialChunk, Yield, StreamEnds
  <2>5. ~Consume
    BY DEF Consume, AwaitChunk, StreamCancelled, ItemInterrupted, ItemFails, IgnoreItem, RejectItem,
       CancelIdle, AcceptItem, Execute, ExecuteIdle, ExecuteRead, ExecuteSend, ExecuteOther,
       InferenceFails, InferenceEnds
  <2> QED
    BY <2>1, <2>2, <2>3, <2>4, <2>5 DEF Next, Thread, Poll
<1> QED
  BY <1>1, <1>2, <1>3, FlagsStep, ValuesStep, CountsSleepStep, PTL DEF Spec, WakesNotEarly

-----------------------------------------------------------------------------
(***************************************************************************)
(* Why a reader of the stream gets what the model wrote, however its text  *)
(* is cut into chunks.  Until it is done, next() stands at a separator of  *)
(* what follows the thinking: the buffer is the text from there on, and    *)
(* the results are the elements before it.  What is written later changes  *)
(* none of these elements, and each is parsed as what the schema says.     *)
(***************************************************************************)

\* Where a word stands, and the texts in which the words of the format stand on
\* lines of their own.
Spots(t, w) == {i \in DOMAIN t : t[i].w = w}
Alone == {"sep", "end", "close", "f", "g"}
Neat(t) == \A i \in DOMAIN t : t[i].w \in Alone => IsLine(t, i)

StreamTypes ==
    /\ text \in Seq(Written) /\ buffer \in Seq(Token)
    /\ thought \in BOOLEAN /\ closed \in BOOLEAN

\* The tag of the thinking has come first, and the thinking is not dropped yet.
Opened == text # <<>> /\ text[1].w = "open"
Thinks == Opened /\ ~thought

\* The text after the thinking.
Dropped == IF Opened THEN Least(LinesOf(text, "close")) ELSE 0
Said == From(text, Dropped + 1)

Fine(result) == result.what \in {"unit", "name"}
Marks(t, p) == {s \in Spots(t, "sep") : s <= p}

\* With the buffer b and the results o: b is what follows in t from the separator
\* at p, and o the elements before it; or b is t itself, before the first separator
\* is found.
Reading(t, p, b, o) ==
    /\ p \in 1..(Len(t) + 1) /\ b = From(t, p)
    /\ p > 1 => 1 \in Spots(t, "sep") /\ p \in Spots(t, "sep")
    /\ \A e \in Spots(t, "end") : e >= p
    /\ o = Segments(t, Marks(t, p)) /\ \A k \in 1..Len(o) : Fine(o[k])

\* The last chunk has ended inside the opening tag.
Halved == Len(text) = 1 /\ buffer = [text EXCEPT ![1].w = "half"]

\* How far next() is with a clean text.
Progress ==
    /\ at = "wait" => ~closed /\ out = Meaning(text, FALSE)
    /\ at = "done" => out = Meaning(text, closed) \/ (out # <<>> /\ Last(out).what = "channel")
    /\ at # "done" =>
         /\ text = <<>> => ~thought
         /\ count = Len(out)
         /\ IF Thinks THEN out = <<>> /\ (buffer = text \/ Halved)
            ELSE (Opened => Dropped # 0) /\ \E p \in 1..(Len(Said) + 1) : Reading(Said, p, buffer, out)

StreamInv == StreamTypes /\ (Clean(text) => Progress)

\* The least of a set of positions is one of them.
LEMMA MinIn ==
  ASSUME NEW S, S \subseteq Nat, S # {}
  PROVE  Min(S) \in S /\ \A y \in S : Min(S) <= y
<1> DEFINE R == {ss \in Nat \X Nat : ss[1] < ss[2]}
<1>1. IsWellFoundedOn(R, Nat)
  BY NatLessThanWellFounded DEF IsWellFoundedOn, OpToRel
<1>2. PICK x \in S : \A y \in S : ~(<<y, x>> \in R)
  BY <1>1, WFMin
<1>3. \A y \in S : x <= y
  <2> SUFFICES ASSUME NEW y \in S PROVE x <= y
    OBVIOUS
  <2>1. x \in Nat /\ y \in Nat /\ ~(<<y, x>> \in R)
    BY <1>2
  <2>2. ~(y < x)
    BY <2>1
  <2> QED
    BY <2>1, <2>2
<1> QED
  BY <1>3 DEF Min

-----------------------------------------------------------------------------
(* Lemmas about texts, and parts of them.                                  *)

\* What is left from position p on.
LEMMA FromIs ==
  ASSUME NEW S, NEW t \in Seq(S), NEW p \in 1..(Len(t) + 1)
  PROVE  /\ From(t, p) \in Seq(S) /\ Len(From(t, p)) = Len(t) - p + 1
         /\ \A i \in 1..(Len(t) - p + 1) : From(t, p)[i] = t[i + p - 1]
<1>1. From(t, p) = SubSeq(t, p, Len(t))
  BY DEF From
<1>2. Len(t) \in Nat /\ p \in Nat
  OBVIOUS
<1> QED
  BY <1>1, <1>2

\* The same, as a name for it.
LEMMA FromPart ==
  ASSUME NEW S, NEW t \in Seq(S), NEW p \in 1..(Len(t) + 1)
  PROVE  \E r \in Seq(S) : /\ r = From(t, p) /\ Len(r) = Len(t) - p + 1
                           /\ \A i \in 1..(Len(t) - p + 1) : r[i] = t[i + p - 1]
<1>1. From(t, p) \in Seq(S)
  BY FromIs
<1> WITNESS From(t, p) \in Seq(S)
<1> QED
  BY FromIs

\* What lies between two positions.
LEMMA BetweenIs ==
  ASSUME NEW S, NEW t \in Seq(S), NEW i \in 0..Len(t), NEW j \in (i + 1)..(Len(t) + 1)
  PROVE  /\ Between(t, i, j) \in Seq(S) /\ Len(Between(t, i, j)) = j - i - 1
         /\ \A k \in 1..(j - i - 1) : Between(t, i, j)[k] = t[k + i]
<1>1. Between(t, i, j) = SubSeq(t, i + 1, j - 1)
  BY DEF Between
<1>2. i \in Nat /\ j \in Nat /\ Len(t) \in Nat
  OBVIOUS
<1> QED
  BY <1>1, <1>2

\* The same, as a name for it.
LEMMA BetweenPart ==
  ASSUME NEW S, NEW t \in Seq(S), NEW i \in 0..Len(t), NEW j \in (i + 1)..(Len(t) + 1)
  PROVE  \E r \in Seq(S) : /\ r = Between(t, i, j) /\ Len(r) = j - i - 1
                           /\ \A k \in 1..(j - i - 1) : r[k] = t[k + i]
<1>1. Between(t, i, j) \in Seq(S)
  BY BetweenIs
<1> WITNESS Between(t, i, j) \in Seq(S)
<1> QED
  BY BetweenIs

\* Sequences of equal length that agree everywhere are equal.
LEMMA SameSeq ==
  ASSUME NEW S, NEW T, NEW s \in Seq(S), NEW t \in Seq(T), Len(s) = Len(t),
         \A i \in 1..Len(s) : s[i] = t[i]
  PROVE  s = t
<1>1. s = [i \in 1..Len(s) |-> s[i]] /\ t = [i \in 1..Len(t) |-> t[i]]
  OBVIOUS
<1> QED
  BY <1>1

\* A sequence over a set is one over every larger set.
LEMMA SeqOfMore ==
  ASSUME NEW S, NEW T, NEW s \in Seq(S), S \subseteq T
  PROVE  s \in Seq(T)
OBVIOUS

\* From the first position on it is the whole text.
LEMMA FromAll == ASSUME NEW S, NEW t \in Seq(S) PROVE From(t, 1) = t
BY DEF From

\* To go on from where one went on from.
LEMMA FromFrom ==
  ASSUME NEW S, NEW t \in Seq(S), NEW p \in 1..(Len(t) + 1), NEW q \in 1..(Len(t) - p + 2)
  PROVE  From(From(t, p), q) = From(t, p + q - 1)
<1>1. Len(t) \in Nat /\ p + q - 1 \in 1..(Len(t) + 1)
  OBVIOUS
<1>2. PICK r \in Seq(S) :
        /\ r = From(t, p) /\ Len(r) = Len(t) - p + 1
        /\ \A i \in 1..(Len(t) - p + 1) : r[i] = t[i + p - 1]
  <2>1. From(t, p) \in Seq(S)
    BY FromIs
  <2> WITNESS From(t, p) \in Seq(S)
  <2> QED
    BY FromIs
<1>3. q \in 1..(Len(r) + 1)
  BY <1>1, <1>2
<1>4. PICK u \in Seq(S) :
        /\ u = From(r, q) /\ Len(u) = Len(r) - q + 1
        /\ \A i \in 1..(Len(r) - q + 1) : u[i] = r[i + q - 1]
  <2>1. From(r, q) \in Seq(S)
    BY <1>3, FromIs
  <2> WITNESS From(r, q) \in Seq(S)
  <2> QED
    BY <1>3, FromIs
<1>5. PICK v \in Seq(S) :
        /\ v = From(t, p + q - 1) /\ Len(v) = Len(t) - (p + q - 1) + 1
        /\ \A i \in 1..(Len(t) - (p + q - 1) + 1) : v[i] = t[i + (p + q - 1) - 1]
  <2> DEFINE n == p + q - 1
  <2>1. n \in 1..(Len(t) + 1)
    BY <1>1
  <2> HIDE DEF n
  <2>2. \E v \in Seq(S) : /\ v = From(t, n) /\ Len(v) = Len(t) - n + 1
                          /\ \A i \in 1..(Len(t) - n + 1) : v[i] = t[i + n - 1]
    <3>1. From(t, n) \in Seq(S)
      BY <2>1, FromIs
    <3> WITNESS From(t, n) \in Seq(S)
    <3> QED
      BY <2>1, FromIs
  <2> QED
    BY <2>2 DEF n
<1>6. ASSUME NEW i \in 1..Len(u) PROVE u[i] = v[i]
  <2>1. /\ i \in 1..(Len(r) - q + 1) /\ i + q - 1 \in 1..(Len(t) - p + 1)
        /\ i \in 1..(Len(t) - (p + q - 1) + 1)
        /\ (i + q - 1) + p - 1 = i + (p + q - 1) - 1
    BY <1>1, <1>2, <1>4
  <2>2. r[i + q - 1] = t[(i + q - 1) + p - 1]
    BY <1>2, <2>1
  <2> QED
    BY <1>4, <1>5, <2>1, <2>2
<1>7. Len(u) = Len(v)
  BY <1>1, <1>2, <1>4, <1>5
<1> QED
  BY <1>2, <1>4, <1>5, <1>6, <1>7, SameSeq

\* A text with another after it.
LEMMA ConcatIs ==
  ASSUME NEW S, NEW t \in Seq(S), NEW s \in Seq(S)
  PROVE  /\ t \o s \in Seq(S) /\ Len(t \o s) = Len(t) + Len(s)
         /\ \A i \in 1..(Len(t) + Len(s)) : (t \o s)[i] = IF i <= Len(t) THEN t[i] ELSE s[i - Len(t)]
OBVIOUS

\* What is written later is at the end of what is left.
LEMMA FromConcat ==
  ASSUME NEW S, NEW t \in Seq(S), NEW s \in Seq(S), NEW p \in 1..(Len(t) + 1)
  PROVE  From(t \o s, p) = From(t, p) \o s
<1>1. PICK c \in Seq(S) :
        /\ c = t \o s /\ Len(c) = Len(t) + Len(s)
        /\ \A i \in 1..(Len(t) + Len(s)) : c[i] = IF i <= Len(t) THEN t[i] ELSE s[i - Len(t)]
  <2>1. t \o s \in Seq(S)
    BY ConcatIs
  <2> WITNESS t \o s \in Seq(S)
  <2> QED
    BY ConcatIs
<1>2. Len(t) \in Nat /\ Len(s) \in Nat /\ p \in 1..(Len(c) + 1)
  BY <1>1
<1>3. PICK r \in Seq(S) :
        /\ r = From(t, p) /\ Len(r) = Len(t) - p + 1
        /\ \A i \in 1..(Len(t) - p + 1) : r[i] = t[i + p - 1]
  BY FromPart
<1>4. PICK u \in Seq(S) :
        /\ u = From(c, p) /\ Len(u) = Len(c) - p + 1
        /\ \A i \in 1..(Len(c) - p + 1) : u[i] = c[i + p - 1]
  <2>1. From(c, p) \in Seq(S)
    BY <1>2, FromIs
  <2> WITNESS From(c, p) \in Seq(S)
  <2> QED
    BY <1>2, FromIs
<1>5. PICK v \in Seq(S) :
        /\ v = r \o s /\ Len(v) = Len(r) + Len(s)
        /\ \A i \in 1..(Len(r) + Len(s)) : v[i] = IF i <= Len(r) THEN r[i] ELSE s[i - Len(r)]
  <2>1. r \o s \in Seq(S)
    BY ConcatIs
  <2> WITNESS r \o s \in Seq(S)
  <2> QED
    BY ConcatIs
<1>6. ASSUME NEW i \in 1..Len(u) PROVE u[i] = v[i]
  <2>1. /\ i \in 1..(Len(c) - p + 1) /\ i \in 1..(Len(r) + Len(s))
        /\ i + p - 1 \in 1..(Len(t) + Len(s)) /\ (i + p - 1) - Len(t) = i - Len(r)
    BY <1>1, <1>2, <1>3, <1>4
  <2>2. u[i] = c[i + p - 1]
    BY <1>4, <2>1
  <2>3. CASE i <= Len(r)
    <3>1. i + p - 1 <= Len(t) /\ i \in 1..(Len(t) - p + 1)
      BY <1>2, <1>3, <2>3
    <3> QED
      BY <1>1, <1>3, <1>5, <2>1, <2>2, <2>3, <3>1
  <2>4. CASE ~(i <= Len(r))
    <3>1. ~(i + p - 1 <= Len(t))
      BY <1>2, <1>3, <2>4
    <3> QED
      BY <1>1, <1>5, <2>1, <2>2, <2>4, <3>1
  <2> QED
    BY <2>3, <2>4
<1>7. Len(u) = Len(v)
  BY <1>1, <1>2, <1>3, <1>4, <1>5
<1> QED
  BY <1>1, <1>3, <1>4, <1>5, <1>6, <1>7, SameSeq

\* A part of what is left is a part of the text.
LEMMA BetweenFrom ==
  ASSUME NEW S, NEW t \in Seq(S), NEW p \in 1..Len(t), NEW b \in 1..(Len(t) - p + 1)
  PROVE  SubSeq(From(t, p + 1), 1, b - 1) = Between(t, p, p + b)
<1>1. Len(t) \in Nat /\ p + 1 \in 1..(Len(t) + 1) /\ p + b \in (p + 1)..(Len(t) + 1) /\ p \in 0..Len(t)
  OBVIOUS
<1>2. /\ From(t, p + 1) \in Seq(S) /\ Len(From(t, p + 1)) = Len(t) - (p + 1) + 1
      /\ \A i \in 1..(Len(t) - (p + 1) + 1) : From(t, p + 1)[i] = t[i + (p + 1) - 1]
  BY <1>1, FromIs
<1>3. /\ Between(t, p, p + b) \in Seq(S) /\ Len(Between(t, p, p + b)) = p + b - p - 1
      /\ \A k \in 1..(p + b - p - 1) : Between(t, p, p + b)[k] = t[k + p]
  BY <1>1, BetweenIs
<1>4. PICK r \in Seq(S) : r = From(t, p + 1) /\ Len(r) = Len(t) - p
  BY <1>1, <1>2
<1>5. /\ SubSeq(r, 1, b - 1) \in Seq(S) /\ Len(SubSeq(r, 1, b - 1)) = b - 1
      /\ \A k \in 1..(b - 1) : SubSeq(r, 1, b - 1)[k] = r[k]
  BY <1>1, <1>4
<1>6. ASSUME NEW k \in 1..(b - 1) PROVE SubSeq(r, 1, b - 1)[k] = Between(t, p, p + b)[k]
  <2>1. k \in 1..(Len(t) - (p + 1) + 1) /\ k + (p + 1) - 1 = k + p /\ k \in 1..(p + b - p - 1)
    BY <1>1
  <2> QED
    BY <1>2, <1>3, <1>4, <1>5, <2>1
<1>7. Len(SubSeq(r, 1, b - 1)) = Len(Between(t, p, p + b))
  BY <1>1, <1>3, <1>5
<1> QED
  BY <1>3, <1>4, <1>5, <1>6, <1>7, SameSeq

\* What is written later does not change a part.
LEMMA BetweenConcat ==
  ASSUME NEW S, NEW t \in Seq(S), NEW s \in Seq(S),
         NEW i \in 0..Len(t), NEW j \in (i + 1)..(Len(t) + 1)
  PROVE  Between(t \o s, i, j) = Between(t, i, j)
<1>1. /\ t \o s \in Seq(S) /\ Len(t \o s) = Len(t) + Len(s) /\ Len(t) \in Nat /\ Len(s) \in Nat
      /\ \A k \in 1..Len(t) : (t \o s)[k] = t[k]
  OBVIOUS
<1>2. i \in 0..Len(t \o s) /\ j \in (i + 1)..(Len(t \o s) + 1)
  BY <1>1
<1>3. /\ Between(t, i, j) \in Seq(S) /\ Len(Between(t, i, j)) = j - i - 1
      /\ \A k \in 1..(j - i - 1) : Between(t, i, j)[k] = t[k + i]
  BY BetweenIs
<1>4. /\ Between(t \o s, i, j) \in Seq(S) /\ Len(Between(t \o s, i, j)) = j - i - 1
      /\ \A k \in 1..(j - i - 1) : Between(t \o s, i, j)[k] = (t \o s)[k + i]
  BY <1>1, <1>2, BetweenIs
<1>5. \A k \in 1..(j - i - 1) : k + i \in 1..Len(t)
  BY <1>1
<1>6. ASSUME NEW k \in 1..(j - i - 1) PROVE Between(t \o s, i, j)[k] = Between(t, i, j)[k]
  BY <1>1, <1>3, <1>4, <1>5
<1>7. Len(Between(t \o s, i, j)) = Len(Between(t, i, j))
  BY <1>3, <1>4
<1> QED
  BY <1>3, <1>4, <1>6, <1>7, SameSeq

\* Least finds the least position, or 0.
LEMMA LeastIs ==
  ASSUME NEW S, S \subseteq Nat
  PROVE  /\ S = {} => Least(S) = 0
         /\ S # {} => Least(S) \in S /\ \A y \in S : Least(S) <= y
BY MinIn DEF Least

-----------------------------------------------------------------------------
(* Lemmas about the words of a clean text.                                 *)

\* In a neat text every word of the format is found as a line.
LEMMA NeatLines ==
  ASSUME NEW t, Neat(t), NEW w \in Alone
  PROVE  LinesOf(t, w) = Spots(t, w)
BY DEF Neat, LinesOf, Spots

\* Words keep their places in what is left.
LEMMA SpotsFrom ==
  ASSUME NEW t \in Seq(Token), NEW p \in 1..(Len(t) + 1), NEW w
  PROVE  /\ Spots(t, w) \subseteq 1..Len(t)
         /\ \A i \in Nat : i \in Spots(From(t, p), w) <=> i > 0 /\ i + p - 1 \in Spots(t, w)
<1>1. PICK r \in Seq(Token) :
        /\ r = From(t, p) /\ Len(r) = Len(t) - p + 1
        /\ \A i \in 1..(Len(t) - p + 1) : r[i] = t[i + p - 1]
  BY FromPart
<1>2. DOMAIN t = 1..Len(t) /\ DOMAIN r = 1..Len(r) /\ Len(t) \in Nat
  OBVIOUS
<1>3. ASSUME NEW i \in Nat PROVE i \in Spots(r, w) <=> i > 0 /\ i + p - 1 \in Spots(t, w)
  <2>1. i \in 1..Len(r) <=> i > 0 /\ i + p - 1 \in 1..Len(t)
    BY <1>1, <1>2
  <2>2. i \in 1..Len(r) => r[i] = t[i + p - 1]
    BY <1>1, <2>1
  <2> QED
    BY <1>2, <2>1, <2>2 DEF Spots
<1> QED
  BY <1>1, <1>2, <1>3 DEF Spots

\* What is left of a neat text is neat.
LEMMA NeatFrom ==
  ASSUME NEW t \in Seq(Token), Neat(t), NEW p \in 1..(Len(t) + 1)
  PROVE  Neat(From(t, p))
<1>1. PICK r \in Seq(Token) :
        /\ r = From(t, p) /\ Len(r) = Len(t) - p + 1
        /\ \A i \in 1..(Len(t) - p + 1) : r[i] = t[i + p - 1]
  BY FromPart
<1>2. DOMAIN t = 1..Len(t) /\ DOMAIN r = 1..Len(r) /\ Len(t) \in Nat
  OBVIOUS
<1>3. ASSUME NEW i \in DOMAIN r, r[i].w \in Alone PROVE IsLine(r, i)
  <2>1. i \in 1..Len(r) /\ i + p - 1 \in 1..Len(t) /\ i \in 1..(Len(t) - p + 1)
    BY <1>1, <1>2
  <2>2. r[i] = t[i + p - 1]
    BY <1>1, <2>1
  <2>3. IsLine(t, i + p - 1)
    BY <1>2, <1>3, <2>1, <2>2 DEF Neat
  <2>4. r[i].nl \/ i = Len(r)
    BY <1>1, <1>2, <2>1, <2>2, <2>3 DEF IsLine
  <2>5. i = 1 \/ r[i - 1].nl
    <3>1. CASE i = 1
      BY <3>1
    <3>2. CASE i # 1
      <4>1. i - 1 \in 1..(Len(t) - p + 1) /\ i + p - 1 # 1 /\ (i + p - 1) - 1 = (i - 1) + p - 1
        BY <2>1, <3>2
      <4>2. t[(i + p - 1) - 1].nl
        BY <2>3, <4>1 DEF IsLine
      <4>3. r[i - 1] = t[(i - 1) + p - 1]
        BY <1>1, <4>1
      <4> QED
        BY <4>1, <4>2, <4>3
    <3> QED
      BY <3>1, <3>2
  <2> QED
    BY <2>4, <2>5 DEF IsLine
<1> QED
  BY <1>1, <1>3 DEF Neat

\* A clean text is neat.
LEMMA CleanIsNeat == ASSUME NEW t, Clean(t) PROVE Neat(t)
BY DEF Clean, Neat, Alone

\* A clean text has been clean all the time, and the words that make it up have
\* been where they are.
LEMMA CleanBefore ==
  ASSUME NEW t \in Seq(Written), NEW s \in Seq(Written), s # <<>>, Clean(t \o s)
  PROVE  /\ Clean(t)
         /\ \A w : Spots(t, w) = Spots(t \o s, w) \cap 1..Len(t)
         /\ \A i \in 1..Len(t) : t[i].w \in Alone => t[i].nl
<1>1. PICK c \in Seq(Written) :
        /\ c = t \o s /\ Len(c) = Len(t) + Len(s)
        /\ \A i \in 1..Len(t) : c[i] = t[i]
  <2>1. t \o s \in Seq(Written)
    BY ConcatIs
  <2> WITNESS t \o s \in Seq(Written)
  <2> QED
    BY ConcatIs
<1>2. DOMAIN t = 1..Len(t) /\ DOMAIN c = 1..Len(c) /\ Len(t) \in Nat /\ Len(s) \in Nat /\ Len(s) > 0
  OBVIOUS
<1>3. ASSUME NEW w PROVE Spots(t, w) = Spots(c, w) \cap 1..Len(t)
  BY <1>1, <1>2 DEF Spots
<1>4. Neat(c)
  BY <1>1, CleanIsNeat
<1>5. ASSUME NEW i \in 1..Len(t), t[i].w \in Alone PROVE IsLine(t, i) /\ t[i].nl
  <2>1. i \in DOMAIN c /\ c[i] = t[i] /\ i # Len(c)
    BY <1>1, <1>2
  <2>2. IsLine(c, i)
    BY <1>4, <1>5, <2>1 DEF Neat
  <2>3. c[i].nl /\ (i = 1 \/ c[i - 1].nl)
    BY <2>1, <2>2 DEF IsLine
  <2>4. i # 1 => c[i - 1] = t[i - 1]
    BY <1>1, <1>2
  <2> QED
    BY <2>1, <2>3, <2>4 DEF IsLine
<1>6. Neat(t)
  BY <1>2, <1>5 DEF Neat
<1>7. \A i \in DOMAIN t : t[i].w = "open" => i = 1
  BY <1>1, <1>2 DEF Clean
<1>8. ASSUME t # <<>>, t[1].w = "open", NEW i \in LinesOf(t, "sep")
      PROVE  \E j \in LinesOf(t, "close") : j < i
  <2>1. LinesOf(t, "sep") = Spots(t, "sep") /\ LinesOf(c, "sep") = Spots(c, "sep")
        /\ LinesOf(t, "close") = Spots(t, "close") /\ LinesOf(c, "close") = Spots(c, "close")
    BY <1>4, <1>6, NeatLines DEF Alone
  <2>2. c # <<>> /\ c[1].w = "open"
    BY <1>1, <1>2, <1>8
  <2>3. i \in LinesOf(c, "sep")
    BY <1>3, <1>8, <2>1
  <2>4. PICK j \in LinesOf(c, "close") : j < i
    BY <1>1, <2>2, <2>3 DEF Clean
  <2>5. j \in Spots(t, "close")
    <3>1. i \in 1..Len(t) /\ j \in 1..Len(c)
      BY <1>2, <1>8, <2>1, <2>4 DEF Spots
    <3>2. j \in 1..Len(t)
      BY <1>2, <2>4, <3>1
    <3> QED
      BY <1>3, <2>1, <2>4, <3>2
  <2> QED
    BY <2>1, <2>4, <2>5
<1>9. Clean(t)
  BY <1>6, <1>7, <1>8 DEF Clean, Neat, Alone
<1> QED
  BY <1>1, <1>3, <1>5, <1>9

-----------------------------------------------------------------------------
(* Lemmas about marks, and the elements between them.                      *)

\* The next mark is a mark, and none lies before it.
LEMMA NextMarkIs ==
  ASSUME NEW M, M \subseteq Nat, NEW i \in Nat, NEW q \in M, q > i
  PROVE  NextMark(M, i) \in M /\ NextMark(M, i) > i /\ \A j \in M : j > i => NextMark(M, i) <= j
<1> DEFINE S == {j \in M : j > i}
<1>1. S \subseteq Nat /\ S # {}
  OBVIOUS
<1>2. Min(S) \in S /\ \A j \in S : Min(S) <= j
  BY <1>1, MinIn
<1> QED
  BY <1>2 DEF NextMark

\* An element begins at i.
Begun(M, i) == i \in M /\ \E j \in M : j > i + 1 /\ \A k \in M : k <= i \/ k >= j

\* Where an element begins, without the minimum.
LEMMA StartsAre ==
  ASSUME NEW M, M \subseteq Nat, NEW i \in Nat
  PROVE  i \in Starts(M) <=> Begun(M, i)
<1>1. ASSUME i \in Starts(M) PROVE i \in M /\ \E j \in M : j > i + 1 /\ \A k \in M : k <= i \/ k >= j
  <2>1. PICK j \in M : j > i + 1 /\ j = NextMark(M, i)
    BY <1>1 DEF Starts
  <2>2. j > i /\ i \in M
    BY <1>1, <2>1 DEF Starts
  <2>3. \A k \in M : k > i => j <= k
    BY <2>1, <2>2, NextMarkIs
  <2>4. \A k \in M : k <= i \/ k >= j
    BY <2>3
  <2> QED
    BY <2>1, <2>2, <2>4
<1>2. ASSUME i \in M, NEW j \in M, j > i + 1, \A k \in M : k <= i \/ k >= j PROVE i \in Starts(M)
  <2>1. j > i
    BY <1>2
  <2>2. PICK q \in M : q = NextMark(M, i) /\ q > i /\ q <= j
    BY <2>1, NextMarkIs
  <2>3. q = j
    BY <1>2, <2>2
  <2> QED
    BY <1>2, <2>2, <2>3 DEF Starts
<1> QED
  BY <1>1, <1>2 DEF Begun

\* Sets of positions are finite, and their parts no larger.
LEMMA Counts ==
  ASSUME NEW n \in Nat, NEW S, S \subseteq 1..n
  PROVE  /\ IsFiniteSet(S) /\ Cardinality(S) \in Nat
         /\ \A T : T \subseteq S => IsFiniteSet(T) /\ Cardinality(T) \in Nat /\ Cardinality(T) <= Cardinality(S)
<1>1. IsFiniteSet(1..n)
  BY FS_Interval
<1>2. IsFiniteSet(S)
  BY <1>1, FS_Subset
<1> QED
  BY <1>2, FS_Subset, FS_CardinalityType

\* The first ones of a set stay the first when others follow them.
LEMMA NthOfMore ==
  ASSUME NEW n \in Nat, NEW S, NEW N, S \subseteq N, N \subseteq 1..n,
         \A a \in S : \A b \in N \ S : a < b,
         NEW k \in 1..Cardinality(S)
  PROVE  Nth(N, k) = Nth(S, k)
<1> DEFINE UpTo(T, i) == {j \in T : j <= i}
<1>1. IsFiniteSet(S) /\ Cardinality(S) \in Nat /\ IsFiniteSet(N)
  BY Counts
<1>2. ASSUME NEW i \in S PROVE UpTo(N, i) = UpTo(S, i)
  <2>1. \A j \in N : j <= i => j \in S
    OBVIOUS
  <2> QED
    BY <2>1
<1>3. ASSUME NEW i \in N, i \notin S PROVE Cardinality(UpTo(N, i)) # k
  <2>1. S \cup {i} \subseteq UpTo(N, i)
    BY <1>3
  <2>2. Cardinality(S \cup {i}) = Cardinality(S) + 1
    BY <1>1, <1>3, FS_AddElement
  <2>3. UpTo(N, i) \subseteq N
    OBVIOUS
  <2>4. IsFiniteSet(UpTo(N, i)) /\ Cardinality(UpTo(N, i)) \in Nat
    BY <2>3, Counts
  <2>5. Cardinality(S \cup {i}) <= Cardinality(UpTo(N, i))
    BY <2>1, <2>4, FS_Subset
  <2> QED
    BY <1>1, <2>2, <2>4, <2>5
<1>4. {i \in N : Cardinality(UpTo(N, i)) = k} = {i \in S : Cardinality(UpTo(S, i)) = k}
  <2>1. \A i \in S : Cardinality(UpTo(N, i)) = Cardinality(UpTo(S, i))
    BY <1>2
  <2> HIDE DEF UpTo
  <2> QED
    BY <1>3, <2>1
<1> QED
  BY <1>4 DEF Nth

\* A position after all others is the last one.
LEMMA NthLast ==
  ASSUME NEW n \in Nat, NEW S, S \subseteq 1..n, NEW p \in 1..n, \A a \in S : a < p
  PROVE  Cardinality(S \cup {p}) = Cardinality(S) + 1 /\ Nth(S \cup {p}, Cardinality(S) + 1) = p
<1> DEFINE N == S \cup {p}
<1> DEFINE UpTo(i) == {j \in N : j <= i}
<1>1. IsFiniteSet(S) /\ Cardinality(S) \in Nat
  BY Counts
<1>2. p \notin S
  OBVIOUS
<1>3. Cardinality(N) = Cardinality(S) + 1
  BY <1>1, <1>2, FS_AddElement
<1>4. UpTo(p) = N
  <2>1. \A j \in N : j <= p
    OBVIOUS
  <2> QED
    BY <2>1
<1>5. ASSUME NEW i \in S PROVE Cardinality(UpTo(i)) # Cardinality(S) + 1
  <2>1. UpTo(i) \subseteq S
    OBVIOUS
  <2>2. Cardinality(UpTo(i)) \in Nat /\ Cardinality(UpTo(i)) <= Cardinality(S)
    BY <2>1, Counts
  <2> QED
    BY <1>1, <2>2
<1>6. {i \in N : Cardinality(UpTo(i)) = Cardinality(S) + 1} = {p}
  <2>1. Cardinality(UpTo(p)) = Cardinality(S) + 1
    BY <1>3, <1>4
  <2> HIDE DEF UpTo
  <2> QED
    BY <1>5, <2>1
<1>7. Min({p}) = p
  <2>1. {p} \subseteq Nat /\ {p} # {}
    OBVIOUS
  <2>2. Min({p}) \in {p}
    BY <2>1, MinIn, Zenon
  <2> QED
    BY <2>2
<1> QED
  BY <1>3, <1>6, <1>7 DEF Nth

\* Each of them is counted.
LEMMA NthIn ==
  ASSUME NEW n \in Nat, NEW S, S \subseteq 1..n, NEW k \in 1..Cardinality(S)
  PROVE  Nth(S, k) \in S
<1> DEFINE UpTo(i) == {j \in S : j <= i}
<1> DEFINE Hit(c) == \E i \in S : Cardinality(UpTo(i)) = c
<1>1. IsFiniteSet(S) /\ Cardinality(S) \in Nat /\ S \subseteq Nat
  <2>1. S \subseteq Nat
    OBVIOUS
  <2> QED
    BY <2>1, Counts
<1>2. Hit(k)
  <2> SUFFICES ASSUME ~Hit(k) PROVE FALSE
    OBVIOUS
  <2> DEFINE Missed == {c \in 1..Cardinality(S) : ~Hit(c)}
  <2>1. Missed \subseteq Nat /\ Missed # {}
    BY <1>1
  <2>2. PICK c \in Missed : \A d \in Missed : c <= d
    BY <2>1, MinIn
  <2>3. c \in 1..Cardinality(S) /\ ~Hit(c)
    OBVIOUS
  <2>4. c = 1 \/ Hit(c - 1)
    <3>1. CASE c # 1
      <4>1. c - 1 \in 1..Cardinality(S) /\ ~(c <= c - 1)
        BY <1>1, <2>3, <3>1
      <4> QED
        BY <2>2, <4>1
    <3> QED
      BY <3>1
  <2> DEFINE Past(i) == {j \in S : j > i}
  <2>5. PICK low \in Nat : Cardinality(UpTo(low)) = c - 1
    <3>1. CASE c = 1
      <4>1. \A j \in S : ~(j <= 0)
        OBVIOUS
      <4>2. UpTo(0) = {}
        BY <4>1
      <4>3. Cardinality({}) = 0 /\ c - 1 = 0
        BY <3>1, FS_EmptySet
      <4> QED
        BY <4>2, <4>3
    <3>2. CASE Hit(c - 1)
      BY <1>1, <3>2
    <3> QED
      BY <2>4, <3>1, <3>2
  <2>6. Past(low) # {}
    <3> SUFFICES ASSUME Past(low) = {} PROVE FALSE
      OBVIOUS
    <3>1. \A j \in S : j <= low
      BY <1>1
    <3>2. UpTo(low) = S
      BY <3>1
    <3>3. Cardinality(S) = c - 1
      BY <2>5, <3>2, Zenon
    <3> QED
      BY <1>1, <2>3, <3>3
  <2>7. Past(low) \subseteq Nat
    BY <1>1
  <2>8. PICK m \in Past(low) : \A j \in Past(low) : m <= j
    BY <2>6, <2>7, MinIn
  <2>9. m \in S /\ m > low /\ \A j \in S : j > low => m <= j
    BY <2>8
  <2>10. UpTo(m) = UpTo(low) \cup {m} /\ m \notin UpTo(low)
    <3>1. \A j \in S : j <= m <=> j <= low \/ j = m
      BY <1>1, <2>9
    <3>2. ~(m <= low)
      BY <1>1, <2>9
    <3> QED
      BY <2>9, <3>1, <3>2
  <2>11. UpTo(low) \subseteq S
    OBVIOUS
  <2>12. IsFiniteSet(UpTo(low))
    BY <2>11, Counts
  <2>13. Cardinality(UpTo(m)) = c - 1 + 1
    <3>1. Cardinality(UpTo(low) \cup {m}) = Cardinality(UpTo(low)) + 1
      BY <2>10, <2>12, FS_AddElement, Zenon
    <3> QED
      BY <2>5, <2>10, <3>1, Zenon
  <2>14. Cardinality(UpTo(m)) = c
    BY <1>1, <2>3, <2>13
  <2> HIDE DEF UpTo
  <2> QED
    BY <2>3, <2>9, <2>14
<1> DEFINE H == {i \in S : Cardinality(UpTo(i)) = k}
<1>3. H \subseteq Nat /\ H # {}
  BY <1>1, <1>2
<1>4. Min(H) \in H
  BY <1>3, MinIn, Zenon
<1> QED
  BY <1>4 DEF Nth

\* There are as many elements as places where one begins.
LEMMA SegmentsAre ==
  ASSUME NEW n \in Nat, NEW t, NEW M \in SUBSET (1..n)
  PROVE  /\ Starts(M) \in SUBSET (1..n) /\ Cardinality(Starts(M)) \in Nat
         /\ \E S : Segments(t, M) \in Seq(S)
         /\ Len(Segments(t, M)) = Cardinality(Starts(M))
<1>1. Starts(M) \subseteq 1..n
  BY DEF Starts
<1>2. Cardinality(Starts(M)) \in Nat
  BY <1>1, Counts
<1>3. DOMAIN Segments(t, M) = 1..Cardinality(Starts(M))
  BY DEF Segments
<1>4. Segments(t, M) = [k \in 1..Cardinality(Starts(M)) |-> Segments(t, M)[k]]
  BY <1>3, Zenon DEF Segments
<1>5. Segments(t, M) \in Seq({Segments(t, M)[k] : k \in 1..Cardinality(Starts(M))})
  BY <1>2, <1>4
<1>6. Len(Segments(t, M)) = Cardinality(Starts(M))
  BY <1>2, <1>3, <1>5
<1> QED
  BY <1>1, <1>2, <1>5, <1>6

\* Element k begins at the k-th of them.
LEMMA SegmentIs ==
  ASSUME NEW n \in Nat, NEW t, NEW M \in SUBSET (1..n), NEW k \in 1..Cardinality(Starts(M))
  PROVE  \E i \in Starts(M) :
            i = Nth(Starts(M), k) /\ Segments(t, M)[k] = Element(Between(t, i, NextMark(M, i)))
<1>1. Starts(M) \subseteq 1..n
  BY DEF Starts
<1>2. Nth(Starts(M), k) \in Starts(M)
  BY <1>1, NthIn
<1> QED
  BY <1>2 DEF Segments

\* M is the part of N up to q.
Continues(M, N, q) == M \subseteq N /\ q \in M /\ (\A a \in M : a <= q) /\ (\A b \in N \ M : b > q)

\* The same, without a name for where it begins.
LEMMA SegmentAt ==
  ASSUME NEW n \in Nat, NEW t, NEW M \in SUBSET (1..n), NEW k \in 1..Cardinality(Starts(M))
  PROVE  Segments(t, M)[k] = Element(Between(t, Nth(Starts(M), k), NextMark(M, Nth(Starts(M), k))))
<1>1. PICK i \in Starts(M) :
        i = Nth(Starts(M), k) /\ Segments(t, M)[k] = Element(Between(t, i, NextMark(M, i)))
  BY SegmentIs
<1> QED
  BY <1>1

\* Up to q, what follows makes no difference.
LEMMA StartsOfMore ==
  ASSUME NEW n \in Nat, NEW N \in SUBSET (1..n), NEW M, NEW q, Continues(M, N, q)
  PROVE  /\ Starts(M) \subseteq Starts(N) /\ \A b \in Starts(N) \ Starts(M) : b >= q
         /\ \A i \in Starts(M) : i < q /\ NextMark(N, i) = NextMark(M, i)
<1>1. /\ M \subseteq Nat /\ N \subseteq Nat /\ q \in Nat /\ q \in M /\ M \subseteq N
      /\ (\A a \in M : a <= q) /\ (\A b \in N \ M : b > q)
  BY DEF Continues
<1>2. ASSUME NEW i \in N, i < q PROVE i \in M
  BY <1>1, <1>2
<1>3. ASSUME NEW i \in M, NEW j \in M, i < j
      PROVE  (\A k \in M : k <= i \/ k >= j) <=> (\A k \in N : k <= i \/ k >= j)
  <2>1. \A k \in N : k \in M \/ k > q
    BY <1>1
  <2>2. j <= q
    BY <1>1
  <2> QED
    BY <1>1, <2>1, <2>2
<1>4. ASSUME NEW i \in Starts(M) PROVE i \in Starts(N) /\ i < q /\ NextMark(N, i) = NextMark(M, i)
  <2>1. i \in Nat /\ i \in M
    BY <1>1 DEF Starts
  <2>2. PICK j \in M : j > i + 1 /\ \A k \in M : k <= i \/ k >= j
    BY <1>1, <1>4, <2>1, StartsAre DEF Begun
  <2>3. i < j /\ j > i /\ j \in N /\ j \in Nat /\ j <= q
    BY <1>1, <2>1, <2>2
  <2>4. \A k \in N : k <= i \/ k >= j
    BY <1>3, <2>1, <2>2, <2>3
  <2>5. i \in Starts(N)
    <3>1. Begun(N, i)
      BY <1>1, <2>1, <2>2, <2>3, <2>4 DEF Begun
    <3> QED
      BY <1>1, <2>1, <3>1, StartsAre
  <2>6. PICK x \in M : x = NextMark(M, i) /\ x > i /\ x <= j
    BY <1>1, <2>1, <2>3, NextMarkIs
  <2>7. PICK y \in N : y = NextMark(N, i) /\ y > i /\ y <= j
    BY <1>1, <2>1, <2>3, NextMarkIs
  <2>8. x = j
    BY <1>1, <2>1, <2>2, <2>3, <2>6
  <2>9. y = j
    BY <1>1, <2>1, <2>3, <2>4, <2>7
  <2> QED
    BY <1>1, <2>1, <2>3, <2>5, <2>6, <2>7, <2>8, <2>9
<1>5. ASSUME NEW b \in Starts(N), b < q PROVE b \in Starts(M)
  <2>1. b \in N /\ b \in Nat
    BY <1>1 DEF Starts
  <2>2. b \in M
    BY <1>2, <1>5, <2>1
  <2>3. PICK j \in N : j > b + 1 /\ \A k \in N : k <= b \/ k >= j
    BY <1>1, <2>1, StartsAre DEF Begun
  <2>4. j <= q
    BY <1>1, <1>5, <2>1, <2>3
  <2>5. j \in M
    BY <1>1, <2>3, <2>4
  <2>6. \A k \in M : k <= b \/ k >= j
    BY <1>1, <2>3
  <2>7. Begun(M, b)
    BY <2>2, <2>3, <2>5, <2>6 DEF Begun
  <2> QED
    BY <1>1, <2>1, <2>7, StartsAre
<1>6. ASSUME NEW b \in Starts(N), b \notin Starts(M) PROVE b >= q
  <2>1. b \in Nat
    BY <1>1 DEF Starts
  <2> QED
    BY <1>1, <1>5, <1>6, <2>1
<1> QED
  BY <1>4, <1>6

\* s begins with r.
StartsWith(r, s) == Len(r) <= Len(s) /\ \A k \in 1..Len(r) : s[k] = r[k]

\* Up to q, the elements are the same.
LEMMA SegmentsOfMore ==
  ASSUME NEW n \in Nat, NEW t, NEW N \in SUBSET (1..n), NEW M, NEW q, Continues(M, N, q)
  PROVE  StartsWith(Segments(t, M), Segments(t, N))
<1>1. M \in SUBSET (1..n) /\ q \in Nat
  BY DEF Continues
<1>2. /\ Starts(M) \subseteq Starts(N) /\ \A b \in Starts(N) \ Starts(M) : b >= q
      /\ \A i \in Starts(M) : i < q /\ NextMark(N, i) = NextMark(M, i)
  BY StartsOfMore
<1>3. /\ Starts(M) \in SUBSET (1..n) /\ Len(Segments(t, M)) = Cardinality(Starts(M))
      /\ Cardinality(Starts(M)) \in Nat
  BY <1>1, SegmentsAre
<1>4. /\ Starts(N) \in SUBSET (1..n) /\ Len(Segments(t, N)) = Cardinality(Starts(N))
      /\ Cardinality(Starts(N)) \in Nat
  BY SegmentsAre
<1>5. \A a \in Starts(M) : \A b \in Starts(N) \ Starts(M) : a < b
  BY <1>1, <1>2, <1>3, <1>4
<1>6. \A k \in 1..Cardinality(Starts(M)) : Nth(Starts(N), k) = Nth(Starts(M), k)
  BY <1>2, <1>4, <1>5, NthOfMore
<1>7. Cardinality(Starts(M)) <= Cardinality(Starts(N))
  BY <1>2, <1>4, Counts
<1>8. ASSUME NEW k \in 1..Cardinality(Starts(M)) PROVE Segments(t, N)[k] = Segments(t, M)[k]
  <2>1. k \in 1..Cardinality(Starts(N))
    BY <1>3, <1>4, <1>7
  <2>2. PICK i \in Starts(M) :
          i = Nth(Starts(M), k) /\ Segments(t, M)[k] = Element(Between(t, i, NextMark(M, i)))
    BY <1>1, SegmentIs
  <2>3. PICK j \in Starts(N) :
          j = Nth(Starts(N), k) /\ Segments(t, N)[k] = Element(Between(t, j, NextMark(N, j)))
    BY <2>1, SegmentIs
  <2>4. i = j
    BY <1>6, <2>2, <2>3
  <2> QED
    BY <1>2, <2>2, <2>3, <2>4
<1> QED
  BY <1>3, <1>4, <1>7, <1>8 DEF StartsWith

\* The marks M and, after them, q.
WithMark(M, q) == M \cup {q}

\* The next mark q after the last, p, ends an element unless it follows at once.
LEMMA SegmentsGrow ==
  ASSUME NEW n \in Nat, NEW t, NEW M \in SUBSET (1..n), NEW p \in M, \A a \in M : a <= p,
         NEW q \in 1..n, q > p
  PROVE  /\ q = p + 1 => Len(Segments(t, WithMark(M, q))) = Len(Segments(t, M))
         /\ q > p + 1 =>
              /\ Len(Segments(t, WithMark(M, q))) = Len(Segments(t, M)) + 1
              /\ Segments(t, WithMark(M, q))[Len(Segments(t, M)) + 1] = Element(Between(t, p, q))
         /\ StartsWith(Segments(t, M), Segments(t, WithMark(M, q)))
<1> DEFINE N == WithMark(M, q)
<1>a. N = M \cup {q}
  BY DEF WithMark
<1> HIDE DEF N
<1>1. N \in SUBSET (1..n) /\ Continues(M, N, p)
  BY <1>a DEF Continues
<1>2. M \subseteq N /\ p \in Nat /\ q \in Nat /\ M \subseteq Nat /\ N \subseteq Nat /\ q \in N /\ N = M \cup {q}
  BY <1>a
<1>3. /\ Starts(M) \subseteq Starts(N) /\ \A b \in Starts(N) \ Starts(M) : b >= p
      /\ \A i \in Starts(M) : i < p /\ NextMark(N, i) = NextMark(M, i)
  BY <1>1, StartsOfMore
<1>4. /\ Len(Segments(t, M)) = Cardinality(Starts(M)) /\ Len(Segments(t, N)) = Cardinality(Starts(N))
      /\ Cardinality(Starts(M)) \in Nat /\ Cardinality(Starts(N)) \in Nat
      /\ Starts(M) \in SUBSET (1..n) /\ Starts(N) \in SUBSET (1..n)
  BY <1>1, SegmentsAre
<1>5. q \notin Starts(N)
  <2>1. \A j \in N : ~(j > q + 1)
    BY <1>2
  <2>2. ~Begun(N, q)
    BY <2>1 DEF Begun
  <2> QED
    BY <1>2, <2>2, StartsAre
<1>6. p \notin Starts(M)
  BY <1>3, <1>2
<1>7. \A b \in Starts(N) \ Starts(M) : b = p
  <2> SUFFICES ASSUME NEW b \in Starts(N), b \notin Starts(M) PROVE b = p
    OBVIOUS
  <2>1. b \in N /\ b # q
    BY <1>5 DEF Starts
  <2>2. b \in M /\ b >= p
    BY <1>2, <1>3, <2>1
  <2> QED
    BY <1>2, <2>2
<1>8. p \in Starts(N) <=> q > p + 1
  <2>1. ASSUME q > p + 1 PROVE p \in Starts(N)
    <3>1. \A k \in N : k <= p \/ k >= q
      BY <1>2
    <3>2. Begun(N, p)
      BY <1>2, <2>1, <3>1 DEF Begun
    <3> QED
      BY <1>2, <3>2, StartsAre
  <2>2. ASSUME p \in Starts(N) PROVE q > p + 1
    <3>1. PICK j \in N : j > p + 1
      BY <1>2, <2>2, StartsAre DEF Begun
    <3> QED
      BY <1>2, <3>1
  <2> QED
    BY <2>1, <2>2
<1>9. StartsWith(Segments(t, M), Segments(t, N))
  BY <1>1, SegmentsOfMore
<1>10. ASSUME q = p + 1 PROVE Len(Segments(t, N)) = Len(Segments(t, M))
  <2>1. Starts(N) = Starts(M)
    BY <1>2, <1>3, <1>7, <1>8, <1>10
  <2> QED
    BY <1>4, <2>1
<1>11. ASSUME q > p + 1
       PROVE  /\ Len(Segments(t, N)) = Len(Segments(t, M)) + 1
              /\ Segments(t, N)[Len(Segments(t, M)) + 1] = Element(Between(t, p, q))
  <2>1. Starts(N) = Starts(M) \cup {p}
    BY <1>3, <1>7, <1>8, <1>11
  <2>2. p \in 1..n /\ \A a \in Starts(M) : a < p
    BY <1>3
  <2>3. /\ Cardinality(Starts(N)) = Cardinality(Starts(M)) + 1
        /\ Nth(Starts(N), Cardinality(Starts(M)) + 1) = p
    BY <1>4, <2>1, <2>2, NthLast
  <2>4. NextMark(N, p) = q
    <3>1. PICK x \in N : x = NextMark(N, p) /\ x > p
      BY <1>2, NextMarkIs
    <3>2. x = q
      BY <1>2, <3>1
    <3> QED
      BY <3>1, <3>2
  <2>5. Cardinality(Starts(M)) + 1 \in 1..Cardinality(Starts(N))
    BY <1>4, <2>3
  <2>6. Segments(t, N)[Cardinality(Starts(M)) + 1] = Element(Between(t, p, NextMark(N, p)))
    <3>1. PICK k \in 1..Cardinality(Starts(N)) : k = Cardinality(Starts(M)) + 1
      BY <2>5
    <3>2. PICK i : i = Nth(Starts(N), k) /\ Segments(t, N)[k] = Element(Between(t, i, NextMark(N, i)))
      <4>1. n \in Nat /\ N \in SUBSET (1..n)
        BY <1>1
      <4>2. Segments(t, N)[k] = Element(Between(t, Nth(Starts(N), k), NextMark(N, Nth(Starts(N), k))))
        BY <4>1, SegmentAt
      <4> QED
        BY <4>2
    <3> QED
      BY <2>3, <3>1, <3>2
  <2> QED
    BY <1>4, <2>3, <2>4, <2>6
<1> QED
  BY <1>9, <1>10, <1>11 DEF N

\* Nothing that is written later changes them.
LEMMA SegmentsStay ==
  ASSUME NEW S, NEW t \in Seq(S), NEW s \in Seq(S), NEW M \in SUBSET (1..Len(t))
  PROVE  Segments(t \o s, M) = Segments(t, M)
<1>1. Len(t) \in Nat /\ M \subseteq Nat
  OBVIOUS
<1>2. Starts(M) \in SUBSET (1..Len(t))
  BY <1>1, SegmentsAre
<1>3. ASSUME NEW k \in 1..Cardinality(Starts(M)) PROVE Segments(t \o s, M)[k] = Segments(t, M)[k]
  <2>1. Len(t) \in Nat
    BY <1>1
  <2>2. PICK i \in Starts(M) : i = Nth(Starts(M), k) /\ Segments(t, M)[k] = Element(Between(t, i, NextMark(M, i)))
    <3>1. Segments(t, M)[k] = Element(Between(t, Nth(Starts(M), k), NextMark(M, Nth(Starts(M), k))))
      BY <2>1, SegmentAt
    <3>2. Nth(Starts(M), k) \in Starts(M)
      BY <1>2, <2>1, NthIn
    <3> QED
      BY <3>1, <3>2
  <2>3. Segments(t \o s, M)[k] = Element(Between(t \o s, i, NextMark(M, i)))
    BY <2>1, <2>2, SegmentAt
  <2>4. i \in 1..Len(t) /\ i \in Nat
    BY <1>2, <2>2
  <2>5. PICK j \in M : j > i
    <3>1. \E j \in M : j > i + 1
      BY <1>1, <2>2, <2>4, StartsAre DEF Begun
    <3> QED
      BY <1>1, <2>4, <3>1
  <2>6. PICK next \in M : next = NextMark(M, i) /\ next > i
    BY <1>1, <2>4, <2>5, NextMarkIs
  <2>7. i \in 0..Len(t) /\ next \in (i + 1)..(Len(t) + 1)
    BY <1>1, <2>4, <2>6
  <2>8. Between(t \o s, i, next) = Between(t, i, next)
    BY <2>7, BetweenConcat
  <2> QED
    BY <2>2, <2>3, <2>6, <2>8
<1> QED
  BY <1>3, Zenon DEF Segments

-----------------------------------------------------------------------------
(* Lemmas about elements: what is read is what was written.                *)

\* All results, if none is an error; otherwise those up to the first.
LEMMA UpToErrorIs ==
  ASSUME NEW S, NEW r \in Seq(S)
  PROVE  /\ (\A i \in 1..Len(r) : Fine(r[i])) => UpToError(r) = r
         /\ \A n \in 1..Len(r) : (~Fine(r[n]) /\ \A i \in 1..(n - 1) : Fine(r[i])) =>
              UpToError(r) = SubSeq(r, 1, n)
<1> DEFINE B == {i \in DOMAIN r : r[i].what \notin {"unit", "name"}}
<1>1. B = {i \in 1..Len(r) : ~Fine(r[i])} /\ Len(r) \in Nat
  BY DEF Fine
<1>2. B \subseteq Nat
  BY <1>1
<1>3. UpToError(r) = IF Least(B) = 0 THEN r ELSE SubSeq(r, 1, Least(B))
  BY DEF UpToError
<1>4. ASSUME \A i \in 1..Len(r) : Fine(r[i]) PROVE UpToError(r) = r
  <2>1. B = {}
    BY <1>1, <1>4
  <2> QED
    BY <1>2, <1>3, <2>1, LeastIs
<1>5. ASSUME NEW n \in 1..Len(r), ~Fine(r[n]), \A i \in 1..(n - 1) : Fine(r[i])
      PROVE  UpToError(r) = SubSeq(r, 1, n)
  <2>1. n \in B /\ \A b \in B : n <= b
    BY <1>1, <1>5
  <2>2. Least(B) \in B /\ Least(B) <= n
    BY <1>2, <2>1, LeastIs
  <2>3. Least(B) = n /\ n # 0
    BY <1>1, <2>1, <2>2
  <2> QED
    BY <1>3, <2>3
<1> QED
  BY <1>4, <1>5

\* A word without its newline.
LEMMA Unended ==
  ASSUME NEW token \in Token
  PROVE  /\ [token EXCEPT !.nl = FALSE] = [w |-> token.w, nl |-> FALSE]
         /\ [token EXCEPT !.nl = FALSE] \in Token
<1>1. PICK x \in Token : x = [token EXCEPT !.nl = FALSE]
  BY DEF Token
<1>2. x.w = token.w /\ x.nl = FALSE
  BY <1>1 DEF Token
<1>3. x = [w |-> token.w, nl |-> FALSE]
  BY <1>2 DEF Token
<1> QED
  BY <1>1, <1>3

\* Trim takes the newline off the last word only.
LEMMA TrimIs ==
  ASSUME NEW t \in Seq(Token), t # <<>>
  PROVE  /\ Trim(t) \in Seq(Token) /\ Len(Trim(t)) = Len(t)
         /\ \A i \in 1..(Len(t) - 1) : Trim(t)[i] = t[i]
         /\ Trim(t)[Len(t)] = [w |-> t[Len(t)].w, nl |-> FALSE]
<1>1. Len(t) \in 1..Len(t) /\ t[Len(t)] \in Token /\ Len(t) \in Nat
  OBVIOUS
<1>2. PICK token \in Token :
        token = [t[Len(t)] EXCEPT !.nl = FALSE] /\ token = [w |-> t[Len(t)].w, nl |-> FALSE]
  BY <1>1, Unended
<1>3. Trim(t) = [t EXCEPT ![Len(t)] = token]
  BY <1>2, Zenon DEF Trim
<1>4. /\ [t EXCEPT ![Len(t)] = token] \in Seq(Token) /\ Len([t EXCEPT ![Len(t)] = token]) = Len(t)
      /\ [t EXCEPT ![Len(t)] = token][Len(t)] = token
      /\ \A i \in 1..(Len(t) - 1) : [t EXCEPT ![Len(t)] = token][i] = t[i]
  BY <1>1
<1> QED
  BY <1>2, <1>3, <1>4

\* There is none to take off twice.
LEMMA TrimOfTrim ==
  ASSUME NEW t \in Seq(Token), t # <<>>, t[Len(t)].nl = FALSE
  PROVE  Trim(t) = t
<1>1. Len(t) \in 1..Len(t) /\ t[Len(t)] \in Token /\ Len(t) \in Nat
  OBVIOUS
<1>2. t[Len(t)] = [w |-> t[Len(t)].w, nl |-> FALSE]
  BY <1>1 DEF Token
<1>3. \A i \in 1..Len(t) : i = Len(t) \/ i \in 1..(Len(t) - 1)
  BY <1>1
<1>4. /\ Trim(t) \in Seq(Token) /\ Len(Trim(t)) = Len(t)
      /\ \A i \in 1..(Len(t) - 1) : Trim(t)[i] = t[i]
      /\ Trim(t)[Len(t)] = [w |-> t[Len(t)].w, nl |-> FALSE]
  BY TrimIs
<1>5. \A i \in 1..Len(t) : Trim(t)[i] = t[i]
  BY <1>2, <1>3, <1>4
<1> QED
  BY <1>4, <1>5, SameSeq

\* To trim a text and to cut it commute.
LEMMA TrimBetween ==
  ASSUME NEW t \in Seq(Token), t # <<>>, NEW i \in 0..(Len(t) - 1), NEW j \in (i + 2)..(Len(t) + 1)
  PROVE  /\ j <= Len(t) => Between(Trim(t), i, j) = Between(t, i, j)
         /\ j = Len(t) + 1 =>
              /\ Trim(Between(t, i, j)) = Between(Trim(t), i, j)
              /\ Trim(Between(Trim(t), i, j)) = Between(Trim(t), i, j)
<1>1. PICK r \in Seq(Token) :
        /\ r = Trim(t) /\ Len(r) = Len(t)
        /\ \A k \in 1..(Len(t) - 1) : r[k] = t[k]
        /\ r[Len(t)] = [w |-> t[Len(t)].w, nl |-> FALSE]
  BY TrimIs
<1>2. Len(t) \in Nat /\ i \in 0..Len(t) /\ j \in (i + 1)..(Len(t) + 1)
  OBVIOUS
<1>3. i \in 0..Len(r) /\ j \in (i + 1)..(Len(r) + 1)
  BY <1>1, <1>2
<1>4. PICK a \in Seq(Token) :
        a = Between(t, i, j) /\ Len(a) = j - i - 1 /\ \A k \in 1..(j - i - 1) : a[k] = t[k + i]
  BY <1>2, BetweenPart
<1>5. PICK b \in Seq(Token) :
        b = Between(r, i, j) /\ Len(b) = j - i - 1 /\ \A k \in 1..(j - i - 1) : b[k] = r[k + i]
  BY <1>3, BetweenPart
<1>6. ASSUME j <= Len(t) PROVE a = b
  <2>1. \A k \in 1..(j - i - 1) : k + i \in 1..(Len(t) - 1)
    BY <1>2, <1>6
  <2>2. ASSUME NEW k \in 1..Len(a) PROVE a[k] = b[k]
    <3>1. k \in 1..(j - i - 1)
      BY <1>4
    <3>2. a[k] = t[k + i] /\ b[k] = r[k + i] /\ k + i \in 1..(Len(t) - 1)
      BY <1>4, <1>5, <2>1, <3>1
    <3> QED
      BY <1>1, <3>2
  <2>3. Len(a) = Len(b)
    BY <1>4, <1>5
  <2> QED
    BY <2>2, <2>3, SameSeq
<1>7. ASSUME j = Len(t) + 1 PROVE Trim(a) = b /\ Trim(b) = b
  <2>1. a # <<>> /\ b # <<>> /\ Len(a) \in Nat /\ Len(a) = Len(b) /\ Len(a) + i = Len(t)
        /\ Len(a) \in 1..(j - i - 1)
    BY <1>2, <1>4, <1>5, <1>7
  <2>2. b[Len(b)] = [w |-> t[Len(t)].w, nl |-> FALSE] /\ a[Len(a)] = t[Len(t)]
    BY <1>1, <1>4, <1>5, <2>1
  <2>3. Trim(b) = b
    <3>1. b[Len(b)].nl = FALSE
      BY <2>2
    <3> QED
      BY <2>1, <3>1, TrimOfTrim
  <2>4. PICK c \in Seq(Token) :
          /\ c = Trim(a) /\ Len(c) = Len(a)
          /\ \A k \in 1..(Len(a) - 1) : c[k] = a[k]
          /\ c[Len(a)] = [w |-> a[Len(a)].w, nl |-> FALSE]
    BY <2>1, TrimIs
  <2>5. \A k \in 1..(Len(a) - 1) : k \in 1..(j - i - 1) /\ k + i \in 1..(Len(t) - 1)
    BY <1>2, <2>1
  <2>6. \A k \in 1..(Len(a) - 1) : c[k] = b[k]
    BY <1>1, <1>4, <1>5, <2>4, <2>5
  <2>7. c[Len(a)] = b[Len(a)]
    BY <2>1, <2>2, <2>4
  <2>8. \A k \in 1..Len(c) : c[k] = b[k]
    BY <2>1, <2>4, <2>6, <2>7
  <2> QED
    BY <2>1, <2>3, <2>4, <2>8, SameSeq
<1> QED
  BY <1>1, <1>4, <1>5, <1>6, <1>7

\* What stands between two marks of a clean text.
Plain(seg) ==
    /\ seg \in Seq(Token) /\ seg # <<>> /\ seg[Len(seg)].nl
    /\ \A i \in 1..Len(seg) : /\ seg[i].w \notin {"sep", "end"}
                              /\ seg[i].w \in {"f", "g"} => seg[i].nl /\ (i = 1 \/ seg[i - 1].nl)

\* One chunk only.
LEMMA ParseIsChunk ==
  ASSUME NEW seg, Plain(seg), Len(seg) > 1
  PROVE  Parse(seg) = Chunk(Trim(seg))
<1>1. PICK t \in Seq(Token) :
        /\ t = Trim(seg) /\ Len(t) = Len(seg)
        /\ \A i \in 1..(Len(seg) - 1) : t[i] = seg[i]
        /\ t[Len(seg)] = [w |-> seg[Len(seg)].w, nl |-> FALSE]
  BY TrimIs DEF Plain
<1>2. Len(t) \in Nat /\ Len(t) > 1 /\ DOMAIN t = 1..Len(t) /\ Len(t) = Len(seg) /\ Len(seg) \in Nat
  BY <1>1
<1>3. \A i \in DOMAIN t : t[i] # [w |-> "sep", nl |-> TRUE]
  <2> SUFFICES ASSUME NEW i \in 1..Len(t) PROVE t[i].w # "sep"
    BY <1>2
  <2>1. seg[i].w # "sep"
    BY <1>1 DEF Plain
  <2>2. CASE i = Len(t)
    <3>1. t[i] = [w |-> seg[i].w, nl |-> FALSE]
      BY <1>1, <2>2
    <3> QED
      BY <2>1, <3>1
  <2>3. CASE i \in 1..(Len(seg) - 1)
    BY <1>1, <2>1, <2>3
  <2>4. i = Len(t) \/ i \in 1..(Len(seg) - 1)
    <3>1. PICK n \in Nat : n = Len(t) /\ n = Len(seg)
      BY <1>2
    <3>2. i \in 1..n => i = n \/ i \in 1..(n - 1)
      OBVIOUS
    <3> QED
      BY <3>1, <3>2
  <2> QED
    BY <2>2, <2>3, <2>4
<1> DEFINE cuts == {0, Len(t) + 1} \cup {i \in DOMAIN t : t[i] = [w |-> "sep", nl |-> TRUE]}
<1> DEFINE starts == {i \in cuts : \E j \in cuts : j > i + 1 /\ \A k \in cuts : k <= i \/ k >= j}
<1> DEFINE After(i) == Trim(Between(t, i, Min({j \in cuts : j > i})))
<1>4. Parse(seg) = IF \E i \in starts : Chunk(After(i)).what = "parse" THEN Error("parse")
                   ELSE Chunk(After(Min(starts)))
  BY <1>1 DEF Parse
<1>5. cuts = {0, Len(t) + 1}
  BY <1>3
<1>6. starts = {0}
  <2>1. 0 \in starts
    BY <1>2, <1>5
  <2>2. Len(t) + 1 \notin starts
    BY <1>2, <1>5
  <2> QED
    BY <1>5, <2>1, <2>2
<1>7. Min(starts) = 0
  <2>1. {0} \subseteq Nat /\ {0} # {}
    OBVIOUS
  <2>2. Min({0}) \in {0}
    BY <2>1, MinIn, Zenon
  <2> QED
    BY <1>6, <2>2
<1>8. Min({j \in cuts : j > 0}) = Len(t) + 1
  <2>1. {j \in cuts : j > 0} = {Len(t) + 1}
    BY <1>2, <1>5
  <2>2. {Len(t) + 1} \subseteq Nat /\ {Len(t) + 1} # {}
    BY <1>2
  <2>3. Min({Len(t) + 1}) \in {Len(t) + 1}
    BY <2>2, MinIn, Zenon
  <2> QED
    BY <2>1, <2>3
<1>9. After(0) = t
  <2>1. Between(t, 0, Len(t) + 1) = t
    BY <1>2 DEF Between
  <2>2. Trim(t) = t
    <3>1. t[Len(t)].nl = FALSE /\ t # <<>>
      BY <1>1, <1>2
    <3> QED
      BY <3>1, TrimOfTrim
  <2> QED
    BY <1>8, <2>1, <2>2
<1>10. Chunk(t).what = "parse" => Chunk(t) = Error("parse")
  BY DEF Chunk, Result, Error
<1> HIDE DEF starts, After
<1> QED
  BY <1>1, <1>4, <1>6, <1>7, <1>9, <1>10

\* What an element can turn out to be.
LEMMA ElementKinds ==
  ASSUME NEW seg
  PROVE  Element(seg).what \in {"unit", "name", "parse"}
<1>1. \A t : Chunk(t).what \in {"unit", "name", "parse"}
  BY DEF Chunk, Result, Error
<1>2. Parse(seg).what \in {"unit", "name", "parse"}
  BY <1>1 DEF Parse, Result, Error
<1> QED
  BY <1>2 DEF Element, Result

\* A field whose separator comes first.
LEMMA FieldAtFirst ==
  ASSUME NEW t \in Seq(Token), NEW k, t # <<>>, t[1] = [w |-> Schema[k], nl |-> TRUE]
  PROVE  Field(t, k) = [value |-> Trim(Between(From(t, 2), 0, Stop(From(t, 2), k))),
                        rest  |-> From(From(t, 2), Stop(From(t, 2), k))]
<1> DEFINE A == {i \in DOMAIN t : t[i] = [w |-> Schema[k], nl |-> TRUE]}
<1>1. 1 \in A /\ A \subseteq Nat /\ \A i \in A : i >= 1
  OBVIOUS
<1> HIDE DEF A
<1>2. PICK least \in A : least = Least(A) /\ least <= 1
  BY <1>1, LeastIs
<1>3. Least(A) = 1
  BY <1>1, <1>2
<1> QED
  BY <1>3 DEF Field, A

\* The first field ends where the second begins.
LEMMA StopIs ==
  ASSUME NEW t \in Seq(Token)
  PROVE  /\ Ends(t, "g") = {} => Stop(t, 1) = Len(t) + 1
         /\ \A i \in 1..Len(t) : Ends(t, "g") = {i} => Stop(t, 1) = i
         /\ Stop(t, 2) = Len(t) + 1
<1>1. Len(Schema) = 2 /\ Schema[2] = "g"
  BY DEF Schema
<1>2. {j \in (2 + 1)..Len(Schema) : Ends(t, Schema[j]) # {}} = {}
  BY <1>1
<1>3. {j \in (1 + 1)..Len(Schema) : Ends(t, Schema[j]) # {}} = IF Ends(t, "g") = {} THEN {} ELSE {2}
  BY <1>1
<1>4. ASSUME NEW i \in 1..Len(t), Ends(t, "g") = {i} PROVE Stop(t, 1) = i
  <2>1. {2} \subseteq Nat /\ {i} \subseteq Nat /\ {i} # {} /\ {2} # {}
    OBVIOUS
  <2>2. Min({2}) = 2
    <3>1. Min({2}) \in {2}
      BY <2>1, MinIn, Zenon
    <3> QED
      BY <3>1
  <2>3. Min({i}) = i
    <3>1. Min({i}) \in {i}
      BY <2>1, MinIn, Zenon
    <3> QED
      BY <3>1
  <2> QED
    BY <1>1, <1>3, <1>4, <2>2, <2>3 DEF Stop
<1> QED
  BY <1>2, <1>3, <1>4 DEF Stop

\* A field of which only the separator is there, or not even that.
LEMMA FieldOfNothing ==
  /\ Field(<<>>, 2).value = <<>>
  /\ \A t \in Seq(Token) : (Len(t) = 1 /\ t[1] = [w |-> "g", nl |-> FALSE]) => Field(t, 2).value = <<>>
<1>1. Schema[2] = "g"
  BY DEF Schema
<1>2. Least({}) = 0 /\ Trim(<<>>) = <<>>
  BY DEF Least, Trim
<1>3. Field(<<>>, 2).value = <<>>
  <2>1. {i \in DOMAIN <<>> : <<>>[i] = [w |-> Schema[2], nl |-> TRUE]} = {}
    OBVIOUS
  <2>2. Len(<<>>) # 1
    OBVIOUS
  <2> QED
    BY <1>2, <2>1, <2>2 DEF Field
<1>4. ASSUME NEW t \in Seq(Token), Len(t) = 1, t[1] = [w |-> "g", nl |-> FALSE] PROVE Field(t, 2).value = <<>>
  <2>1. {i \in DOMAIN t : t[i] = [w |-> Schema[2], nl |-> TRUE]} = {}
    <3>1. DOMAIN t = {1}
      BY <1>4
    <3>2. t[1] # [w |-> Schema[2], nl |-> TRUE]
      BY <1>4
    <3> QED
      BY <3>1, <3>2
  <2>2. t[1].w = Schema[2]
    BY <1>1, <1>4
  <2>3. From(t, 2) = <<>>
    BY <1>4 DEF From
  <2>4. Stop(<<>>, 2) = 1
    <3>1. <<>> \in Seq(Token) /\ Len(<<>>) + 1 = 1
      OBVIOUS
    <3>2. Stop(<<>>, 2) = Len(<<>>) + 1
      BY <3>1, StopIs
    <3> QED
      BY <3>1, <3>2
  <2>5. Between(<<>>, 0, 1) = <<>>
    BY DEF Between
  <2>6. Field(t, 2).value = Trim(Between(From(t, 2), 0, Stop(From(t, 2), 2)))
    BY <1>2, <1>4, <2>1, <2>2 DEF Field
  <2> QED
    BY <1>2, <2>3, <2>4, <2>5, <2>6
<1> QED
  BY <1>3, <1>4

\* An element that names the fields in the order of the schema, each on a line of
\* its own, is read field by field.
LEMMA FieldsAre ==
  ASSUME NEW seg, Plain(seg), Len(seg) >= 3, seg[2].w = "f",
         NEW g \in 4..(Len(seg) + 1), FieldWords(seg) = {2, g} \cap 1..Len(seg),
         g <= Len(seg) => seg[g].w = "g"
  PROVE  /\ Values(Tail(Trim(seg))) = <<Trim(Between(seg, 2, g)), Trim(Between(seg, g, Len(seg) + 1))>>
         /\ Trim(Between(seg, 2, g)) # <<>>
<1>1. PICK t \in Seq(Token) :
        /\ t = Trim(seg) /\ Len(t) = Len(seg)
        /\ \A i \in 1..(Len(seg) - 1) : t[i] = seg[i]
        /\ t[Len(seg)] = [w |-> seg[Len(seg)].w, nl |-> FALSE]
  BY TrimIs DEF Plain
<1>2. /\ seg \in Seq(Token) /\ Len(t) = Len(seg) /\ Len(seg) \in Nat /\ Len(t) \in Nat /\ Len(t) >= 3
      /\ DOMAIN t = 1..Len(t) /\ DOMAIN seg = 1..Len(seg)
      /\ g \in 4..(Len(t) + 1) /\ g \in Nat
  BY <1>1 DEF Plain
<1>3. \A i \in 1..Len(t) : t[i].w = seg[i].w /\ (i < Len(t) => t[i].nl = seg[i].nl)
  <2> SUFFICES ASSUME NEW i \in 1..Len(t) PROVE t[i].w = seg[i].w /\ (i < Len(t) => t[i].nl = seg[i].nl)
    OBVIOUS
  <2>1. CASE i = Len(t)
    <3>1. t[i] = [w |-> seg[i].w, nl |-> FALSE]
      BY <1>1, <2>1
    <3>2. t[i].w = seg[i].w
      BY <3>1
    <3>3. ~(i < Len(t))
      BY <1>2, <2>1
    <3> QED
      BY <3>2, <3>3
  <2>2. CASE i \in 1..(Len(seg) - 1)
    BY <1>1, <2>2
  <2>3. i = Len(t) \/ i \in 1..(Len(seg) - 1)
    <3>1. PICK n \in Nat : n = Len(t) /\ n = Len(seg)
      BY <1>2
    <3>2. i \in 1..n => i = n \/ i \in 1..(n - 1)
      OBVIOUS
    <3> QED
      BY <3>1, <3>2
  <2> QED
    BY <2>1, <2>2, <2>3
<1>4. \A i \in 1..Len(t) : t[i].w = "g" => i = g
  <2> SUFFICES ASSUME NEW i \in 1..Len(t), t[i].w = "g" PROVE i = g
    OBVIOUS
  <2>1. seg[i].w = "g"
    BY <1>3
  <2>2. i \in FieldWords(seg)
    BY <1>1, <1>2, <2>1 DEF FieldWords
  <2>3. i # 2
    BY <2>1
  <2> QED
    BY <2>2, <2>3
<1>5. g <= Len(t) => t[g].w = "g" /\ (g < Len(t) => t[g] = [w |-> "g", nl |-> TRUE])
  <2> SUFFICES ASSUME g <= Len(t) PROVE t[g].w = "g" /\ (g < Len(t) => t[g] = [w |-> "g", nl |-> TRUE])
    OBVIOUS
  <2>1. g \in 1..Len(t) /\ seg[g].w = "g"
    BY <1>1, <1>2
  <2>2. seg[g].nl /\ t[g] \in Token
    BY <1>1, <1>2, <2>1 DEF Plain
  <2>3. t[g].w = "g" /\ (g < Len(t) => t[g].nl = TRUE)
    BY <1>3, <2>1, <2>2 DEF Token
  <2> QED
    BY <2>2, <2>3 DEF Token
<1>6. t[2] = [w |-> "f", nl |-> TRUE]
  <2>1. 2 \in 1..Len(t) /\ 2 < Len(t) /\ 2 \in 1..Len(seg) /\ t[2] \in Token
    BY <1>1, <1>2
  <2>2. seg[2].nl
    BY <2>1 DEF Plain
  <2>3. t[2].w = "f" /\ t[2].nl = TRUE
    BY <1>3, <2>1, <2>2 DEF Token
  <2> QED
    BY <2>1, <2>3 DEF Token
<1>7. PICK b \in Seq(Token) :
        b = From(t, 2) /\ Len(b) = Len(t) - 1 /\ \A i \in 1..(Len(t) - 1) : b[i] = t[i + 1]
  <2>1. PICK p \in 1..(Len(t) + 1) : p = 2
    BY <1>2
  <2>2. From(t, p) \in Seq(Token) /\ Len(From(t, p)) = Len(t) - p + 1
        /\ \A i \in 1..(Len(t) - p + 1) : From(t, p)[i] = t[i + p - 1]
    BY FromIs
  <2>3. Len(t) - p + 1 = Len(t) - 1 /\ \A i \in Nat : i + p - 1 = i + 1
    BY <1>2, <2>1
  <2>4. ASSUME NEW i \in 1..(Len(t) - 1) PROVE From(t, p)[i] = t[i + 1]
    <3>1. i \in Nat /\ i \in 1..(Len(t) - p + 1) /\ i + p - 1 = i + 1
      BY <2>3
    <3>2. From(t, p)[i] = t[i + p - 1]
      BY <2>2, <3>1
    <3> QED
      BY <3>1, <3>2
  <2> QED
    BY <2>1, <2>2, <2>3, <2>4
<1>8. PICK r \in Seq(Token) :
        r = From(t, 3) /\ Len(r) = Len(t) - 2 /\ \A i \in 1..(Len(t) - 2) : r[i] = t[i + 2]
  <2>1. PICK p \in 1..(Len(t) + 1) : p = 3
    BY <1>2
  <2>2. From(t, p) \in Seq(Token) /\ Len(From(t, p)) = Len(t) - p + 1
        /\ \A i \in 1..(Len(t) - p + 1) : From(t, p)[i] = t[i + p - 1]
    BY FromIs
  <2>3. Len(t) - p + 1 = Len(t) - 2 /\ \A i \in Nat : i + p - 1 = i + 2
    BY <1>2, <2>1
  <2>4. \A i \in 1..(Len(t) - 2) : From(t, p)[i] = t[i + 2]
    BY <1>2, <2>2, <2>3
  <2> QED
    BY <2>1, <2>2, <2>3, <2>4
<1>9. From(b, 2) = r /\ Tail(t) = b
  <2>1. 2 \in 1..(Len(t) + 1) /\ 2 \in 1..(Len(t) - 2 + 2) /\ 2 + 2 - 1 = 3
    BY <1>2
  <2>2. From(From(t, 2), 2) = From(t, 2 + 2 - 1)
    BY <2>1, FromFrom
  <2>3. Tail(t) = From(t, 2)
    BY <1>2 DEF From
  <2> QED
    BY <1>7, <1>8, <2>1, <2>2, <2>3
<1>10. Stop(r, 1) = g - 2
  <2>1. Len(r) \in Nat /\ Len(r) = Len(t) - 2 /\ DOMAIN r = 1..Len(r)
    <3>1. Len(r) \in Nat /\ DOMAIN r = 1..Len(r)
      OBVIOUS
    <3>2. Len(r) = Len(t) - 2
      BY <1>8
    <3> QED
      BY <3>1, <3>2
  <2>2. ASSUME NEW i \in 1..Len(r), r[i].w = "g" PROVE i = g - 2
    <3>1. i + 2 \in 1..Len(t) /\ t[i + 2].w = "g" /\ i \in Nat
      <4>1. i \in 1..(Len(t) - 2) /\ i + 2 \in 1..Len(t) /\ i \in Nat
        BY <1>2, <2>1
      <4>2. r[i] = t[i + 2]
        BY <1>8, <4>1
      <4> QED
        BY <2>2, <4>1, <4>2
    <3>2. i + 2 = g
      BY <1>4, <3>1
    <3> QED
      BY <3>1, <3>2
  <2>3. CASE g = Len(t) + 1
    <3>1. g - 2 = Len(r) + 1 /\ g - 2 \notin 1..Len(r)
      BY <1>2, <2>1, <2>3
    <3>2. Ends(r, "g") = {}
      BY <2>1, <2>2, <3>1 DEF Ends
    <3> QED
      BY <3>1, <3>2, StopIs
  <2>4. CASE g <= Len(t)
    <3>1. g - 2 \in 1..Len(r) /\ (g - 2) + 2 = g /\ g \in 1..Len(t) /\ g - 2 \in 1..(Len(t) - 2)
          /\ (g = Len(t) => g - 2 = Len(r)) /\ (g = Len(t) \/ g < Len(t))
      <4>1. PICK m \in Nat : m = Len(t) /\ m - 2 = Len(r) /\ m >= 3
        BY <1>2, <2>1
      <4>2. g \in 4..m
        BY <1>2, <2>4, <4>1
      <4> QED
        BY <4>1, <4>2
    <3>2. r[g - 2] = t[g]
      BY <1>8, <3>1
    <3>3. r[g - 2].w = "g"
      BY <1>5, <2>4, <3>2
    <3>4. r[g - 2].nl \/ g - 2 = Len(r)
      <4>1. CASE g < Len(t)
        <5>1. t[g] = [w |-> "g", nl |-> TRUE]
          BY <1>5, <2>4, <4>1
        <5>2. t[g].nl
          BY <5>1
        <5> QED
          BY <3>2, <5>2
      <4> QED
        BY <3>1, <4>1
    <3>5. g - 2 \in Ends(r, "g")
      BY <2>1, <3>1, <3>3, <3>4 DEF Ends
    <3>6. \A i \in Ends(r, "g") : i = g - 2
      BY <2>1, <2>2 DEF Ends
    <3>7. Ends(r, "g") = {g - 2}
      BY <3>5, <3>6
    <3> QED
      BY <3>1, <3>7, StopIs
  <2>5. g = Len(t) + 1 \/ g <= Len(t)
    BY <1>2
  <2> QED
    BY <2>3, <2>4, <2>5
<1>11. Field(b, 1) = [value |-> Trim(Between(r, 0, g - 2)), rest |-> From(r, g - 2)]
  <2>1. Schema[1] = "f"
    BY DEF Schema
  <2>2. b # <<>> /\ b[1] = t[2]
    <3>1. 1 \in 1..(Len(t) - 1) /\ 1 + 1 = 2 /\ Len(b) # 0
      BY <1>2, <1>7
    <3> QED
      BY <1>7, <3>1
  <2>3. b[1] = [w |-> Schema[1], nl |-> TRUE]
    BY <1>6, <2>1, <2>2
  <2> QED
    BY <1>9, <1>10, <2>2, <2>3, FieldAtFirst
<1>12. Between(r, 0, g - 2) = Between(t, 2, g) /\ From(r, g - 2) = From(t, g)
  <2>1. /\ 2 \in 1..Len(t) /\ g - 2 \in 1..(Len(t) - 2 + 1) /\ 2 + (g - 2) = g
        /\ 3 \in 1..(Len(t) + 1) /\ g - 2 \in 1..(Len(t) - 3 + 2) /\ 3 + (g - 2) - 1 = g
        /\ 2 + 1 = 3 /\ 0 + 1 = 1
    BY <1>2
  <2>2. SubSeq(From(t, 2 + 1), 1, g - 2 - 1) = Between(t, 2, 2 + (g - 2))
    <3>1. PICK a \in 1..Len(t) : a = 2
      BY <2>1
    <3>2. PICK d \in 1..(Len(t) - a + 1) : d = g - 2
      BY <2>1, <3>1
    <3>3. SubSeq(From(t, a + 1), 1, d - 1) = Between(t, a, a + d)
      BY BetweenFrom
    <3> QED
      BY <3>1, <3>2, <3>3
  <2>3. From(From(t, 3), g - 2) = From(t, 3 + (g - 2) - 1)
    BY <2>1, FromFrom
  <2>4. Between(r, 0, g - 2) = SubSeq(r, 1, g - 2 - 1)
    BY <2>1 DEF Between
  <2> QED
    BY <1>8, <2>1, <2>2, <2>3, <2>4
<1>13. /\ Trim(Between(t, 2, g)) = Trim(Between(seg, 2, g))
       /\ g < Len(t) => Trim(Between(t, g, Len(t) + 1)) = Trim(Between(seg, g, Len(t) + 1))
  <2>1. /\ seg # <<>> /\ 2 \in 0..(Len(seg) - 1) /\ g \in (2 + 2)..(Len(seg) + 1)
        /\ g < Len(t) => g \in 0..(Len(seg) - 1) /\ Len(seg) + 1 \in (g + 2)..(Len(seg) + 1)
        /\ g <= Len(seg) \/ g = Len(seg) + 1
    BY <1>2
  <2>2. /\ g <= Len(seg) => Between(Trim(seg), 2, g) = Between(seg, 2, g)
        /\ g = Len(seg) + 1 =>
             /\ Trim(Between(seg, 2, g)) = Between(Trim(seg), 2, g)
             /\ Trim(Between(Trim(seg), 2, g)) = Between(Trim(seg), 2, g)
    BY <1>2, <2>1, TrimBetween
  <2>3. ASSUME g < Len(t)
        PROVE  /\ Trim(Between(seg, g, Len(seg) + 1)) = Between(Trim(seg), g, Len(seg) + 1)
               /\ Trim(Between(Trim(seg), g, Len(seg) + 1)) = Between(Trim(seg), g, Len(seg) + 1)
    BY <1>2, <2>1, <2>3, TrimBetween
  <2> QED
    BY <1>1, <2>1, <2>2, <2>3
<1>14. Trim(Between(seg, 2, g)) # <<>>
  <2>1. 2 \in 0..Len(seg) /\ g \in (2 + 1)..(Len(seg) + 1) /\ g - 2 - 1 > 0
    BY <1>2
  <2>2. PICK v \in Seq(Token) : v = Between(seg, 2, g) /\ Len(v) = g - 2 - 1
    <3>1. seg \in Seq(Token)
      BY <1>2
    <3>2. PICK i \in 0..Len(seg) : i = 2
      BY <2>1
    <3>3. PICK j \in (i + 1)..(Len(seg) + 1) : j = g
      BY <2>1, <3>2
    <3>4. \E x \in Seq(Token) : x = Between(seg, i, j) /\ Len(x) = j - i - 1
      BY <3>1, BetweenPart
    <3> QED
      BY <3>2, <3>3, <3>4
  <2>3. v # <<>>
    BY <2>1, <2>2
  <2>4. Len(Trim(v)) = Len(v)
    BY <2>3, TrimIs
  <2> QED
    BY <2>1, <2>2, <2>4
<1>15. Field(From(t, g), 2).value = Trim(Between(seg, g, Len(seg) + 1))
  <2>1. CASE g = Len(t) + 1
    <3>1. From(t, g) = <<>>
      BY <1>2, <2>1 DEF From
    <3>2. Between(seg, g, Len(seg) + 1) = <<>>
      BY <1>2, <2>1 DEF Between
    <3>3. Trim(<<>>) = <<>>
      BY DEF Trim
    <3> QED
      BY <3>1, <3>2, <3>3, FieldOfNothing
  <2>2. CASE g = Len(t)
    <3>1. g \in 1..(Len(t) + 1) /\ Len(t) - g + 1 = 1 /\ 1 + g - 1 = Len(t)
      BY <1>2, <2>2
    <3>2. PICK u \in Seq(Token) :
            u = From(t, g) /\ Len(u) = Len(t) - g + 1 /\ \A i \in 1..(Len(t) - g + 1) : u[i] = t[i + g - 1]
      BY <3>1, FromPart
    <3>3. Len(u) = 1 /\ u[1] = t[Len(t)]
      BY <3>1, <3>2
    <3>4. seg[Len(seg)].w = "g"
      BY <1>2, <2>2
    <3>5. u[1] = [w |-> "g", nl |-> FALSE]
      BY <1>1, <1>2, <3>3, <3>4
    <3>6. Field(u, 2).value = <<>>
      BY <3>3, <3>5, FieldOfNothing
    <3>7. Between(seg, g, Len(seg) + 1) = <<>>
      BY <1>2, <2>2 DEF Between
    <3>8. Trim(<<>>) = <<>>
      BY DEF Trim
    <3> QED
      BY <3>2, <3>6, <3>7, <3>8
  <2>3. CASE g < Len(t)
    <3>1. /\ g \in 1..(Len(t) + 1) /\ 2 \in 1..(Len(t) - g + 2) /\ g + 2 - 1 = g + 1 /\ g \in 1..Len(t)
          /\ Len(t) - g + 1 \in 1..(Len(t) - g + 1) /\ g + (Len(t) - g + 1) = Len(t) + 1
          /\ 1 \in 1..(Len(t) - g + 1) /\ 1 + g - 1 = g /\ g + 1 \in 1..(Len(t) + 1)
          /\ Len(t) - (g + 1) + 1 = Len(t) - g
      <4>1. PICK n \in Nat : n = Len(t)
        BY <1>2
      <4>2. g \in Nat /\ g >= 4 /\ g < n
        BY <2>3, <4>1
      <4>3. /\ g \in 1..(n + 1) /\ 2 \in 1..(n - g + 2) /\ g + 2 - 1 = g + 1 /\ g \in 1..n
            /\ n - g + 1 \in 1..(n - g + 1) /\ g + (n - g + 1) = n + 1
            /\ 1 \in 1..(n - g + 1) /\ 1 + g - 1 = g /\ g + 1 \in 1..(n + 1)
            /\ n - (g + 1) + 1 = n - g
        BY <4>2
      <4> QED
        BY <4>1, <4>3
    <3>2. PICK u \in Seq(Token) :
            u = From(t, g) /\ Len(u) = Len(t) - g + 1 /\ \A i \in 1..(Len(t) - g + 1) : u[i] = t[i + g - 1]
      BY <3>1, FromPart
    <3>3. u # <<>> /\ u[1] = [w |-> Schema[2], nl |-> TRUE]
      <4>1. Schema[2] = "g"
        BY DEF Schema
      <4>2. u[1] = t[g] /\ Len(u) # 0
        <5>1. u[1] = t[1 + g - 1]
          BY <3>1, <3>2
        <5>2. Len(u) # 0
          BY <3>1, <3>2
        <5> QED
          BY <3>1, <5>1, <5>2
      <4>3. t[g] = [w |-> "g", nl |-> TRUE]
        BY <1>2, <1>5, <2>3
      <4> QED
        BY <4>1, <4>2, <4>3
    <3>4. From(u, 2) = From(t, g + 1)
      <4>1. From(From(t, g), 2) = From(t, g + 2 - 1)
        BY <3>1, FromFrom
      <4> QED
        BY <3>1, <3>2, <4>1
    <3>5. PICK v \in Seq(Token) : v = From(t, g + 1) /\ Len(v) = Len(t) - (g + 1) + 1
      <4>1. PICK p \in 1..(Len(t) + 1) : p = g + 1
        BY <3>1
      <4>2. PICK x \in Seq(Token) : x = From(t, p) /\ Len(x) = Len(t) - p + 1
        BY FromPart
      <4> QED
        BY <4>1, <4>2
    <3>6. Stop(v, 2) = Len(t) - g + 1
      BY <3>1, <3>5, StopIs
    <3>7. Field(u, 2).value = Trim(Between(v, 0, Len(t) - g + 1))
      <4>1. From(u, 2) = v
        BY <3>4, <3>5
      <4>2. Field(u, 2) = [value |-> Trim(Between(From(u, 2), 0, Stop(From(u, 2), 2))),
                           rest  |-> From(From(u, 2), Stop(From(u, 2), 2))]
        BY <3>2, <3>3, FieldAtFirst
      <4> QED
        BY <3>6, <4>1, <4>2
    <3>8. SubSeq(From(t, g + 1), 1, Len(t) - g + 1 - 1) = Between(t, g, g + (Len(t) - g + 1))
      <4>1. PICK m \in 1..(Len(t) - g + 1) : m = Len(t) - g + 1
        BY <3>1
      <4>2. SubSeq(From(t, g + 1), 1, m - 1) = Between(t, g, g + m)
        <5>1. g \in 1..Len(t)
          BY <3>1
        <5> QED
          BY <5>1, BetweenFrom
      <4> QED
        BY <4>1, <4>2
    <3>9. Between(v, 0, Len(t) - g + 1) = SubSeq(v, 1, Len(t) - g + 1 - 1)
      <4>1. 0 + 1 = 1
        OBVIOUS
      <4> QED
        BY <4>1 DEF Between
    <3> QED
      BY <1>2, <1>13, <2>3, <3>1, <3>2, <3>5, <3>7, <3>8, <3>9
  <2>4. g = Len(t) + 1 \/ g = Len(t) \/ g < Len(t)
    <3>1. PICK m \in Nat : m = Len(t)
      BY <1>2
    <3>2. g \in 4..(m + 1)
      BY <1>2, <3>1
    <3>3. g = m + 1 \/ g = m \/ g < m
      BY <3>2
    <3> QED
      BY <3>1, <3>3
  <2> QED
    BY <2>1, <2>2, <2>3, <2>4
<1>16. Values(b) = <<Field(b, 1).value, Field(Field(b, 1).rest, 2).value>>
  BY DEF Values
<1>17. Field(b, 1).value = Trim(Between(seg, 2, g))
  BY <1>11, <1>12, <1>13
<1>18. Field(b, 1).rest = From(t, g)
  BY <1>11, <1>12
<1> QED
  BY <1>1, <1>9, <1>14, <1>15, <1>16, <1>17, <1>18

\* Parsing an element finds what was written.
LEMMA ParseElement ==
  ASSUME NEW seg, Plain(seg)
  PROVE  Parse(seg) = Element(seg)
<1> DEFINE fields == FieldWords(seg)
<1> SUFFICES ASSUME /\ Len(seg) >= 3 /\ seg[1].w = "name" /\ seg[2].w = "f"
                    /\ fields \in {{2}} \cup {{2, i} : i \in 4..Len(seg)}
                    /\ \A i \in fields \ {2} : seg[i].w = "g"
             PROVE  Parse(seg) = Element(seg)
  BY DEF Element
<1>1. seg \in Seq(Token) /\ Len(seg) \in Nat /\ Len(seg) > 1 /\ seg # <<>>
  BY DEF Plain
<1>2. PICK g \in 4..(Len(seg) + 1) :
        /\ g = IF fields = {2} THEN Len(seg) + 1 ELSE Max(fields)
        /\ fields = {2, g} \cap 1..Len(seg) /\ (g <= Len(seg) => seg[g].w = "g")
  <2>1. CASE fields = {2}
    BY <1>1, <2>1
  <2>2. CASE fields # {2}
    <3>1. PICK i \in 4..Len(seg) : fields = {2, i}
      BY <2>2
    <3>2. Max({2, i}) = i
      <4>1. \A y \in {2, i} : i >= y
        BY <1>1, <3>1
      <4>2. \A y \in {2, i} : (\A z \in {2, i} : y >= z) => y = i
        BY <1>1, <3>1
      <4> QED
        BY <4>1, <4>2 DEF Max
    <3> QED
      BY <1>1, <2>2, <3>1, <3>2
  <2> QED
    BY <2>1, <2>2
<1>3. Element(seg) = Result("name", Trim(Between(seg, 2, g)), Trim(Between(seg, g, Len(seg) + 1)))
  BY <1>2 DEF Element
<1>4. /\ Values(Tail(Trim(seg))) = <<Trim(Between(seg, 2, g)), Trim(Between(seg, g, Len(seg) + 1))>>
      /\ Trim(Between(seg, 2, g)) # <<>>
  BY <1>2, FieldsAre
<1>5. Trim(seg)[1].w = "name" /\ IsLine(Trim(seg), 1)
  <2>1. 1 \in 1..(Len(seg) - 1) /\ 2 \in 1..Len(seg) /\ 2 # 1
    BY <1>1
  <2>2. Trim(seg)[1] = seg[1]
    BY <1>1, <2>1, TrimIs
  <2>3. seg[2 - 1].nl
    BY <2>1 DEF Plain
  <2> QED
    BY <2>2, <2>3 DEF IsLine
<1>6. Chunk(Trim(seg)) = Result("name", Trim(Between(seg, 2, g)), Trim(Between(seg, g, Len(seg) + 1)))
  BY <1>4, <1>5 DEF Chunk
<1> QED
  BY <1>1, <1>3, <1>6, ParseIsChunk

-----------------------------------------------------------------------------
(* Lemmas about where next() is in a clean text.                           *)

\* Up to the end marker, all marks.
AllMarks(t) ==
    IF Spots(t, "end") = {} THEN Spots(t, "sep")
    ELSE {i \in Spots(t, "sep") : i < Least(Spots(t, "end"))} \cup {Least(Spots(t, "end"))}
CutOff(t, isClosed) == IF isClosed /\ Spots(t, "end") = {} THEN <<Error("truncated")>> ELSE <<>>

\* The first place of a word, if it is there.
LEMMA SpotsAre ==
  ASSUME NEW S, NEW t \in Seq(S), NEW w
  PROVE  /\ Spots(t, w) \in SUBSET (1..Len(t)) /\ Spots(t, w) \subseteq Nat
         /\ Spots(t, w) = {} => Least(Spots(t, w)) = 0
         /\ Spots(t, w) # {} => /\ Least(Spots(t, w)) \in Spots(t, w) /\ Least(Spots(t, w)) > 0
                                /\ \A i \in Spots(t, w) : Least(Spots(t, w)) <= i
<1>1. Spots(t, w) \in SUBSET (1..Len(t)) /\ Spots(t, w) \subseteq Nat
  BY DEF Spots
<1>2. /\ Spots(t, w) = {} => Least(Spots(t, w)) = 0
      /\ Spots(t, w) # {} => Least(Spots(t, w)) \in Spots(t, w) /\ \A i \in Spots(t, w) : Least(Spots(t, w)) <= i
  BY <1>1, LeastIs
<1>3. \A i \in Spots(t, w) : i > 0
  BY <1>1
<1> QED
  BY <1>1, <1>2, <1>3

\* What a neat text means, by where its words stand.
LEMMA BodyIs ==
  ASSUME NEW t \in Seq(Written), Neat(t), NEW isClosed \in BOOLEAN
  PROVE  /\ Spots(t, "sep") = {} =>
              Body(t, isClosed) = IF \E i \in 1..Len(t) : t[i].nl THEN <<Error("format")>> ELSE CutOff(t, isClosed)
         /\ Spots(t, "sep") # {} /\ 1 \notin Spots(t, "sep") => Body(t, isClosed) = <<Error("format")>>
         /\ 1 \in Spots(t, "sep") => Body(t, isClosed) = UpToError(Segments(t, AllMarks(t)) \o CutOff(t, isClosed))
<1> DEFINE end == Least(LinesOf(t, "end"))
<1> DEFINE marks == IF end = 0 THEN LinesOf(t, "sep") ELSE {i \in LinesOf(t, "sep") : i < end} \cup {end}
<1> DEFINE truncated == IF isClosed /\ end = 0 THEN <<Error("truncated")>> ELSE <<>>
<1>1. LinesOf(t, "sep") = Spots(t, "sep") /\ LinesOf(t, "end") = Spots(t, "end")
  BY NeatLines DEF Alone
<1>2. /\ Spots(t, "sep") \subseteq 1..Len(t) /\ Spots(t, "sep") \subseteq Nat /\ DOMAIN t = 1..Len(t)
      /\ (end = 0 <=> Spots(t, "end") = {})
  <2>1. /\ Spots(t, "end") = {} => Least(Spots(t, "end")) = 0
        /\ Spots(t, "end") # {} => Least(Spots(t, "end")) > 0
    BY SpotsAre
  <2>2. end = 0 <=> Spots(t, "end") = {}
    BY <1>1, <2>1
  <2>3. Spots(t, "sep") \in SUBSET (1..Len(t)) /\ Spots(t, "sep") \subseteq Nat
    BY SpotsAre
  <2> QED
    BY <2>2, <2>3
<1>3. marks = AllMarks(t) /\ truncated = CutOff(t, isClosed)
  BY <1>1, <1>2 DEF AllMarks, CutOff
<1>4. Body(t, isClosed) =
        IF LinesOf(t, "sep") = {}
        THEN IF \E i \in DOMAIN t : t[i].nl THEN <<Error("format")>> ELSE truncated
        ELSE IF Min(LinesOf(t, "sep")) # 1 THEN <<Error("format")>>
        ELSE UpToError(Segments(t, marks) \o truncated)
  BY DEF Body
<1> HIDE DEF marks, truncated, end
<1>5. Spots(t, "sep") # {} => (Min(Spots(t, "sep")) = 1 <=> 1 \in Spots(t, "sep"))
  <2> SUFFICES ASSUME Spots(t, "sep") # {} PROVE Min(Spots(t, "sep")) = 1 <=> 1 \in Spots(t, "sep")
    OBVIOUS
  <2>1. PICK m \in Spots(t, "sep") : m = Min(Spots(t, "sep")) /\ \A y \in Spots(t, "sep") : m <= y
    BY <1>2, MinIn
  <2>2. m >= 1 /\ m \in Nat
    BY <1>2
  <2> QED
    BY <2>1, <2>2
<1> QED
  BY <1>1, <1>2, <1>3, <1>4, <1>5

\* One mark alone bounds no element.
LEMMA FewMarks ==
  ASSUME NEW t, NEW M, M \subseteq {1}
  PROVE  Segments(t, M) = <<>>
<1>1. Starts(M) = {}
  <2>1. \A i \in M : \A j \in M : i = 1 /\ j = 1
    OBVIOUS
  <2>2. ~(1 > 1 + 1)
    OBVIOUS
  <2> QED
    BY <2>1, <2>2 DEF Starts
<1>2. Cardinality({}) = 0
  BY FS_EmptySet
<1> QED
  BY <1>1, <1>2 DEF Segments

\* What FindLine finds in the buffer.
LEMMA Looks ==
  ASSUME NEW t \in Seq(Written), Neat(t), NEW p, NEW b, NEW o, Reading(t, p, b, o),
         NEW first, first = FindLine(b, "sep")
  PROVE  /\ first \in Nat
         /\ first = 0 => p = 1 /\ b = t /\ Spots(t, "sep") = {} /\ o = <<>>
         /\ first > 1 => p = 1 /\ b = t /\ Spots(t, "sep") # {} /\ 1 \notin Spots(t, "sep") /\ o = <<>>
         /\ first = 1 => p \in Spots(t, "sep") /\ 1 \in Spots(t, "sep")
         /\ FindLine(b, "end") = 0 <=> Spots(t, "end") = {}
<1>1. p \in 1..(Len(t) + 1) /\ p \in Nat /\ b = From(t, p) /\ t \in Seq(Token) /\ Len(t) \in Nat
  BY DEF Reading, Written
<1>2. Neat(b) /\ b \in Seq(Token)
  BY <1>1, NeatFrom, FromIs
<1>3. first = Least(Spots(b, "sep")) /\ FindLine(b, "end") = Least(Spots(b, "end"))
  BY <1>2, NeatLines DEF Alone, FindLine
<1>4. ASSUME NEW w PROVE /\ Spots(b, w) \subseteq Nat /\ Spots(t, w) \subseteq 1..Len(t)
                         /\ \A i \in Nat : i \in Spots(b, w) <=> i > 0 /\ i + p - 1 \in Spots(t, w)
  BY <1>1, <1>2, SpotsAre, SpotsFrom
<1>5. /\ Spots(b, "sep") = {} => first = 0
      /\ Spots(b, "sep") # {} => first \in Spots(b, "sep") /\ first > 0 /\ \A i \in Spots(b, "sep") : first <= i
  BY <1>2, <1>3, SpotsAre
<1>6. first \in Nat
  BY <1>4, <1>5
<1>7. p \in Spots(t, "sep") <=> first = 1
  <2>1. 1 \in Spots(b, "sep") <=> p \in Spots(t, "sep")
    <3>1. 1 + p - 1 = p
      BY <1>1
    <3> QED
      BY <1>4, <3>1
  <2>2. 1 \in Spots(b, "sep") => first = 1
    BY <1>5, <1>6
  <2>3. first = 1 => 1 \in Spots(b, "sep")
    BY <1>5
  <2> QED
    BY <2>1, <2>2, <2>3
<1>8. first # 1 => p = 1 /\ b = t /\ 1 \notin Spots(t, "sep") /\ o = <<>>
  <2> SUFFICES ASSUME first # 1 PROVE p = 1 /\ b = t /\ 1 \notin Spots(t, "sep") /\ o = <<>>
    OBVIOUS
  <2>1. p = 1 /\ 1 \notin Spots(t, "sep")
    BY <1>1, <1>7 DEF Reading
  <2>2. b = t
    BY <1>1, <2>1, FromAll
  <2>3. Marks(t, 1) \subseteq {1}
    BY <1>1, <1>4 DEF Marks
  <2> QED
    BY <2>1, <2>2, <2>3, FewMarks DEF Reading
<1>9. first # 1 => (first = 0 <=> Spots(t, "sep") = {})
  BY <1>5, <1>8
<1>10. first = 1 => 1 \in Spots(t, "sep")
  BY <1>1, <1>7 DEF Reading
<1>11. FindLine(b, "end") = 0 <=> Spots(t, "end") = {}
  <2>1. Spots(b, "end") = {} <=> Spots(t, "end") = {}
    <3>1. ASSUME NEW i \in Spots(b, "end") PROVE i + p - 1 \in Spots(t, "end")
      BY <1>4
    <3>2. ASSUME NEW e \in Spots(t, "end") PROVE e - p + 1 \in Spots(b, "end")
      <4>1. e \in Nat /\ e >= p
        BY <1>4 DEF Reading
      <4>2. e - p + 1 \in Nat /\ e - p + 1 > 0 /\ (e - p + 1) + p - 1 = e
        BY <1>1, <4>1
      <4> QED
        BY <1>4, <4>2
    <3> QED
      BY <3>1, <3>2
  <2>2. /\ Spots(b, "end") = {} => Least(Spots(b, "end")) = 0
        /\ Spots(b, "end") # {} => Least(Spots(b, "end")) > 0
    BY <1>2, SpotsAre
  <2> QED
    BY <1>3, <2>1, <2>2
<1> QED
  BY <1>6, <1>7, <1>8, <1>9, <1>10, <1>11

\* q is where the element after the separator at p ends: at the next separator, or at
\* the end marker.
Reaches(t, p, q, isLast) ==
    /\ q \in (p + 1)..Len(t)
    /\ q \in Spots(t, IF isLast THEN "end" ELSE "sep")
    /\ \A e \in Spots(t, "end") : e >= q
    /\ \A s \in Spots(t, "sep") : s <= p \/ s >= q

\* What FindLine finds in the buffer after the separator it begins with.
LEMMA LooksOn ==
  ASSUME NEW t \in Seq(Written), Neat(t), NEW p, NEW b, NEW o, Reading(t, p, b, o), p \in Spots(t, "sep"),
         NEW s, s = FindLine(From(b, 2), "sep"), NEW e, e = FindLine(From(b, 2), "end"),
         NEW d, d = IF e = 0 \/ (s # 0 /\ s <= e) THEN s ELSE e
  PROVE  /\ d \in Nat /\ From(b, 2) = From(t, p + 1)
         /\ d = 0 => Spots(t, "end") = {} /\ Marks(t, p) = Spots(t, "sep")
         /\ d > 0 => Reaches(t, p, p + d, d = e)
<1>1. p \in 1..Len(t) /\ p \in Nat /\ b = From(t, p) /\ t \in Seq(Token) /\ Len(t) \in Nat
  BY SpotsAre DEF Reading, Written
<1>2. PICK r \in Seq(Token) : r = From(t, p + 1) /\ r = From(b, 2) /\ Neat(r)
  <2>1. /\ p \in 1..(Len(t) + 1) /\ 2 \in 1..(Len(t) - p + 2) /\ p + 2 - 1 = p + 1 /\ p + 1 \in 1..(Len(t) + 1)
    BY <1>1
  <2>2. From(From(t, p), 2) = From(t, p + 2 - 1)
    BY <1>1, <2>1, FromFrom
  <2>3. Neat(From(t, p + 1)) /\ From(t, p + 1) \in Seq(Token)
    BY <1>1, <2>1, NeatFrom, FromIs
  <2> QED
    BY <1>1, <2>1, <2>2, <2>3
<1>3. s = Least(Spots(r, "sep")) /\ e = Least(Spots(r, "end"))
  BY <1>2, NeatLines DEF Alone, FindLine
<1>4. ASSUME NEW w PROVE /\ Spots(r, w) \subseteq Nat /\ Spots(t, w) \subseteq 1..Len(t) /\ Spots(t, w) \subseteq Nat
                         /\ \A i \in Nat : i \in Spots(r, w) <=> i > 0 /\ p + i \in Spots(t, w)
  <2>1. p + 1 \in 1..(Len(t) + 1) /\ \A i \in Nat : i + (p + 1) - 1 = p + i
    BY <1>1
  <2>2. Spots(r, w) \subseteq Nat /\ Spots(t, w) \in SUBSET (1..Len(t)) /\ Spots(t, w) \subseteq Nat
    BY SpotsAre
  <2>3. \A i \in Nat : i \in Spots(r, w) <=> i > 0 /\ i + (p + 1) - 1 \in Spots(t, w)
    BY <1>1, <1>2, <2>1, SpotsFrom
  <2> QED
    BY <2>1, <2>2, <2>3
<1>5. ASSUME NEW w, NEW x \in Spots(t, w), x > p PROVE x - p \in Spots(r, w)
  <2>1. x \in Nat
    BY <1>4
  <2>2. x - p \in Nat /\ x - p > 0 /\ p + (x - p) = x
    BY <1>1, <1>5, <2>1
  <2> QED
    BY <1>4, <2>2
<1>6. /\ s \in Nat /\ (Spots(r, "sep") = {} => s = 0)
      /\ Spots(r, "sep") # {} => s \in Spots(r, "sep") /\ s > 0 /\ \A i \in Spots(r, "sep") : s <= i
  <2>1. Spots(r, "sep") \subseteq Nat
    BY <1>4
  <2>2. /\ Spots(r, "sep") = {} => s = 0
        /\ Spots(r, "sep") # {} => s \in Spots(r, "sep") /\ s > 0 /\ \A i \in Spots(r, "sep") : s <= i
    BY <1>3, SpotsAre
  <2> QED
    BY <2>1, <2>2
<1>7. /\ e \in Nat /\ (Spots(r, "end") = {} => e = 0)
      /\ Spots(r, "end") # {} => e \in Spots(r, "end") /\ e > 0 /\ \A i \in Spots(r, "end") : e <= i
  <2>1. Spots(r, "end") \subseteq Nat
    BY <1>4
  <2>2. /\ Spots(r, "end") = {} => e = 0
        /\ Spots(r, "end") # {} => e \in Spots(r, "end") /\ e > 0 /\ \A i \in Spots(r, "end") : e <= i
    BY <1>3, SpotsAre
  <2> QED
    BY <2>1, <2>2
<1>8. \A x \in Spots(t, "end") : x \in Nat /\ x > p
  <2>1. \A x \in Spots(t, "end") : x >= p /\ x # p /\ x \in Nat
    BY <1>4 DEF Reading, Spots
  <2> QED
    BY <1>1, <2>1
<1>9. d = 0 => Spots(t, "end") = {} /\ Marks(t, p) = Spots(t, "sep")
  <2> SUFFICES ASSUME d = 0 PROVE Spots(t, "end") = {} /\ Marks(t, p) = Spots(t, "sep")
    OBVIOUS
  <2>1. e = 0 /\ s = 0
    BY <1>6, <1>7
  <2>2. Spots(r, "end") = {} /\ Spots(r, "sep") = {}
    BY <1>6, <1>7, <2>1
  <2>3. Spots(t, "end") = {}
    BY <1>5, <1>8, <2>2
  <2>4. \A x \in Spots(t, "sep") : x <= p
    <3>1. \A x \in Spots(t, "sep") : x \in Nat /\ ~(x > p)
      BY <1>4, <1>5, <2>2
    <3> QED
      BY <1>1, <3>1
  <2> QED
    BY <2>3, <2>4 DEF Marks
<1>10. d > 0 => Reaches(t, p, p + d, d = e)
  <2> SUFFICES ASSUME d > 0 PROVE Reaches(t, p, p + d, d = e)
    OBVIOUS
  <2>1. d \in Nat
    BY <1>6, <1>7
  <2>2. d \in Spots(r, IF d = e THEN "end" ELSE "sep")
    BY <1>6, <1>7
  <2>3. p + d \in Spots(t, IF d = e THEN "end" ELSE "sep")
    BY <1>4, <2>1, <2>2
  <2>4. p + d \in (p + 1)..Len(t)
    BY <1>1, <1>4, <2>1, <2>3
  <2>5. \A x \in Spots(t, "end") : x >= p + d
    <3> SUFFICES ASSUME NEW x \in Spots(t, "end") PROVE x >= p + d
      OBVIOUS
    <3>1. x \in Nat /\ x - p \in Spots(r, "end")
      BY <1>5, <1>8
    <3>2. e <= x - p /\ e > 0
      BY <1>7, <3>1
    <3>3. d <= e
      BY <1>6, <1>7, <3>2
    <3> QED
      BY <1>1, <1>7, <2>1, <3>1, <3>2, <3>3
  <2>6. \A x \in Spots(t, "sep") : x <= p \/ x >= p + d
    <3> SUFFICES ASSUME NEW x \in Spots(t, "sep"), ~(x <= p) PROVE x >= p + d
      OBVIOUS
    <3>1. x \in Nat
      BY <1>4
    <3>2. x > p
      BY <1>1, <3>1
    <3>3. x - p \in Spots(r, "sep")
      BY <1>5, <3>2
    <3>4. s <= x - p /\ s > 0
      BY <1>6, <3>3
    <3>5. d <= s
      BY <1>6, <1>7, <3>4
    <3> QED
      BY <1>1, <1>6, <2>1, <3>1, <3>4, <3>5
  <2> QED
    BY <2>3, <2>4, <2>5, <2>6 DEF Reaches
<1> QED
  BY <1>2, <1>6, <1>7, <1>9, <1>10

\* What is between p and q is an element, unless nothing is.
LEMMA ReachesElement ==
  ASSUME NEW t \in Seq(Written), Neat(t), NEW p \in Spots(t, "sep"), NEW q, NEW isLast, Reaches(t, p, q, isLast),
         \A e \in Spots(t, "end") : e >= p, q > p + 1
  PROVE  Parse(Between(t, p, q)) = Element(Between(t, p, q))
<1>1. p \in 0..Len(t) /\ p \in Nat /\ q \in (p + 1)..(Len(t) + 1) /\ q \in Nat /\ q <= Len(t) /\ q > p + 1
      /\ Len(t) \in Nat /\ DOMAIN t = 1..Len(t) /\ p >= 1
  BY SpotsAre DEF Reaches
<1>2. PICK seg \in Seq(Written) :
        seg = Between(t, p, q) /\ Len(seg) = q - p - 1 /\ \A k \in 1..(q - p - 1) : seg[k] = t[k + p]
  <2>1. PICK i \in 0..Len(t) : i = p
    BY <1>1
  <2>2. PICK j \in (i + 1)..(Len(t) + 1) : j = q
    BY <1>1, <2>1
  <2>3. \E seg \in Seq(Written) :
          seg = Between(t, i, j) /\ Len(seg) = j - i - 1 /\ \A k \in 1..(j - i - 1) : seg[k] = t[k + i]
    BY BetweenPart
  <2> QED
    BY <2>1, <2>2, <2>3
<1>3. \A k \in 1..Len(seg) : k + p \in 1..Len(t) /\ k + p > p /\ k + p < q /\ seg[k] = t[k + p]
  BY <1>1, <1>2
<1>4. ASSUME NEW k \in 1..Len(seg) PROVE seg[k].w \notin {"sep", "end"}
  <2>1. k + p \notin Spots(t, "sep")
    BY <1>1, <1>3 DEF Reaches
  <2>2. k + p \notin Spots(t, "end")
    BY <1>1, <1>3 DEF Reaches
  <2> QED
    BY <1>1, <1>3, <2>1, <2>2 DEF Spots
<1>5. ASSUME NEW k \in 1..Len(seg), seg[k].w \in {"f", "g"} PROVE seg[k].nl /\ (k = 1 \/ seg[k - 1].nl)
  <2>1. PICK i \in 1..Len(t) : i = k + p /\ seg[k] = t[i]
    BY <1>3
  <2>2. IsLine(t, i)
    BY <1>1, <1>5, <2>1 DEF Neat, Alone
  <2>3. i # 1 /\ i # Len(t)
    <3>1. k + p > p /\ k + p < q
      BY <1>3
    <3>2. i > p /\ i < q /\ i \in Nat
      BY <2>1, <3>1
    <3>3. \A m \in Nat : q <= m => i # m
      BY <1>1, <3>2
    <3>4. i # 1
      BY <1>1, <3>2
    <3>5. i # Len(t)
      BY <1>1, <3>3
    <3> QED
      BY <3>4, <3>5
  <2>4. t[i].nl /\ t[i - 1].nl
    BY <2>2, <2>3, Zenon DEF IsLine
  <2>5. k # 1 => k - 1 \in 1..Len(seg) /\ (k - 1) + p = i - 1
    BY <1>1, <2>1
  <2>6. k # 1 => seg[k - 1] = t[i - 1]
    BY <1>3, <2>5
  <2> QED
    BY <2>1, <2>4, <2>6
<1>6. seg[Len(seg)].nl
  <2>1. q \in DOMAIN t /\ t[q].w \in Alone /\ q # 1
    BY <1>1 DEF Reaches, Spots, Alone
  <2>2. t[q - 1].nl
    BY <2>1 DEF Neat, IsLine
  <2>3. Len(seg) \in 1..Len(seg) /\ Len(seg) + p = q - 1
    BY <1>1, <1>2
  <2> QED
    BY <1>3, <2>2, <2>3
<1>7. seg # <<>> /\ seg \in Seq(Token)
  <2>1. Written \subseteq Token
    BY DEF Written
  <2> QED
    BY <1>1, <1>2, <2>1
<1>8. Plain(seg)
  BY <1>4, <1>5, <1>6, <1>7 DEF Plain
<1> QED
  BY <1>2, <1>8, ParseElement

\* The marks up to q.
LEMMA ReachesMarks ==
  ASSUME NEW t \in Seq(Written), NEW p \in Spots(t, "sep"), NEW q, NEW isLast, Reaches(t, p, q, isLast)
  PROVE  /\ AllMarks(t) \in SUBSET (1..Len(t)) /\ Marks(t, p) \in SUBSET (1..Len(t))
         /\ WithMark(Marks(t, p), q) \in SUBSET (1..Len(t))
         /\ p \in Marks(t, p) /\ (\A a \in Marks(t, p) : a <= p) /\ q > p /\ q \in 1..Len(t) /\ p \in Nat
         /\ Continues(WithMark(Marks(t, p), q), AllMarks(t), q)
         /\ isLast => WithMark(Marks(t, p), q) = AllMarks(t)
         /\ ~isLast => WithMark(Marks(t, p), q) = Marks(t, q)
<1> DEFINE N == WithMark(Marks(t, p), q)
<1>1. N = Marks(t, p) \cup {q}
  BY DEF WithMark
<1> HIDE DEF N
<1>2. /\ Spots(t, "sep") \in SUBSET (1..Len(t)) /\ Spots(t, "sep") \subseteq Nat /\ Spots(t, "end") \subseteq Nat
      /\ Spots(t, "end") \in SUBSET (1..Len(t)) /\ Len(t) \in Nat /\ p \in Nat /\ q \in Nat
  BY SpotsAre DEF Reaches
<1>3. p \in Marks(t, p) /\ (\A a \in Marks(t, p) : a <= p) /\ q > p /\ q \in 1..Len(t)
  BY <1>2 DEF Marks, Reaches
<1>4. AllMarks(t) \in SUBSET (1..Len(t)) /\ Marks(t, p) \in SUBSET (1..Len(t)) /\ N \in SUBSET (1..Len(t))
  <2>1. Spots(t, "end") # {} => Least(Spots(t, "end")) \in Spots(t, "end")
    BY SpotsAre
  <2> QED
    BY <1>1, <1>2, <1>3, <2>1 DEF Marks, AllMarks
<1>5. isLast => Spots(t, "end") # {} /\ Least(Spots(t, "end")) = q
  <2> SUFFICES ASSUME isLast PROVE Spots(t, "end") # {} /\ Least(Spots(t, "end")) = q
    OBVIOUS
  <2>1. q \in Spots(t, "end") /\ \A e \in Spots(t, "end") : e >= q
    BY DEF Reaches
  <2>2. PICK m \in Spots(t, "end") : m = Least(Spots(t, "end")) /\ m <= q
    BY <2>1, SpotsAre
  <2>3. m >= q /\ m \in Nat
    BY <1>2, <2>1
  <2> QED
    BY <1>2, <2>2, <2>3
<1>6. \A s \in Spots(t, "sep") : s <= p \/ s >= q
  BY DEF Reaches
<1>7. isLast => N = AllMarks(t)
  <2> SUFFICES ASSUME isLast PROVE N = AllMarks(t)
    OBVIOUS
  <2>1. q \notin Spots(t, "sep")
    BY DEF Reaches, Spots
  <2>2. \A s \in Spots(t, "sep") : s <= p <=> s < q
    BY <1>2, <1>3, <1>6
  <2> QED
    BY <1>1, <1>5, <2>2 DEF AllMarks, Marks
<1>8. ~isLast => N = Marks(t, q)
  <2> SUFFICES ASSUME ~isLast PROVE N = Marks(t, q)
    OBVIOUS
  <2>1. q \in Spots(t, "sep")
    BY DEF Reaches
  <2>2. \A s \in Spots(t, "sep") : s <= q <=> s <= p \/ s = q
    BY <1>2, <1>3, <1>6
  <2> QED
    BY <1>1, <2>1, <2>2 DEF Marks
<1>9. Continues(N, AllMarks(t), q)
  <2>1. q \in N /\ \A a \in N : a <= q
    BY <1>1, <1>2, <1>3, <1>4
  <2>2. CASE isLast
    BY <1>7, <2>1, <2>2 DEF Continues
  <2>3. CASE ~isLast
    <3>1. q \in Spots(t, "sep") /\ \A e \in Spots(t, "end") : e >= q
      BY <2>3 DEF Reaches
    <3>2. q \notin Spots(t, "end")
      BY <3>1 DEF Spots
    <3>3. Spots(t, "end") # {} => Least(Spots(t, "end")) \in Spots(t, "end")
      BY SpotsAre
    <3>4. Spots(t, "end") # {} => Least(Spots(t, "end")) > q /\ Least(Spots(t, "end")) \in Nat
      <4>1. ASSUME NEW x \in Spots(t, "end") PROVE x > q /\ x \in Nat
        BY <1>2, <3>1, <3>2
      <4> QED
        BY <3>3, <4>1
    <3>5. \A s \in Spots(t, "sep") : s \in Nat /\ (s <= q <=> s <= p \/ s = q)
      BY <1>2, <1>3, <1>6
    <3>6. N \subseteq AllMarks(t)
      BY <1>1, <1>2, <3>1, <3>4, <3>5 DEF AllMarks, Marks
    <3>7. \A x \in AllMarks(t) \ N : x > q
      BY <1>1, <1>2, <3>1, <3>4, <3>5 DEF AllMarks, Marks
    <3> QED
      BY <2>1, <3>6, <3>7 DEF Continues
  <2> QED
    BY <2>2, <2>3
<1> QED
  BY <1>2, <1>3, <1>4, <1>7, <1>8, <1>9 DEF N

\* Where an element ends, the elements up to there are the results before and this one.
LEMMA NextElement ==
  ASSUME NEW t \in Seq(Written), Neat(t), NEW p, NEW b, NEW o, Reading(t, p, b, o), p \in Spots(t, "sep"),
         NEW q, NEW isLast, Reaches(t, p, q, isLast)
  PROVE  /\ q = p + 1 => Segments(t, WithMark(Marks(t, p), q)) = o
         /\ q > p + 1 => Segments(t, WithMark(Marks(t, p), q)) = Append(o, Parse(Between(t, p, q)))
<1> DEFINE M == Marks(t, p)
<1> DEFINE N == WithMark(Marks(t, p), q)
<1>1. /\ M \in SUBSET (1..Len(t)) /\ N \in SUBSET (1..Len(t)) /\ Len(t) \in Nat
      /\ p \in M /\ (\A a \in M : a <= p) /\ q > p /\ q \in 1..Len(t) /\ p \in Nat
  BY ReachesMarks
<1>2. /\ o = Segments(t, M) /\ \A e \in Spots(t, "end") : e >= p
  BY DEF Reading
<1> HIDE DEF M, N
<1>3. PICK S : o \in Seq(S)
  BY <1>1, <1>2, SegmentsAre
<1>4. PICK T : Segments(t, N) \in Seq(T)
  BY <1>1, SegmentsAre
<1> DEFINE r == Segments(t, N)
<1>5. /\ q = p + 1 => Len(r) = Len(o)
      /\ q > p + 1 => Len(r) = Len(o) + 1 /\ r[Len(o) + 1] = Element(Between(t, p, q))
      /\ StartsWith(o, r)
  <2>1. N = WithMark(M, q)
    BY DEF M, N
  <2> QED
    BY <1>1, <1>2, <2>1, SegmentsGrow
<1> HIDE DEF r
<1>6. \A k \in 1..Len(o) : r[k] = o[k]
  BY <1>5 DEF StartsWith
<1>7. ASSUME q = p + 1 PROVE r = o
  <2>1. r \in Seq(T) /\ Len(r) = Len(o) /\ \A k \in 1..Len(r) : r[k] = o[k]
    BY <1>4, <1>5, <1>6, <1>7 DEF r
  <2> QED
    BY <1>3, <2>1, SameSeq
<1>8. ASSUME q > p + 1 PROVE r = Append(o, Parse(Between(t, p, q)))
  <2>1. PICK x : x = Parse(Between(t, p, q)) /\ x = Element(Between(t, p, q))
    BY <1>2, <1>8, ReachesElement
  <2>2. PICK A : o \in Seq(A) /\ x \in A
    <3>1. o \in Seq(S \cup {x})
      BY <1>3, SeqOfMore
    <3> QED
      BY <3>1
  <2>3. Append(o, x) \in Seq(A) /\ Len(Append(o, x)) = Len(o) + 1 /\ Append(o, x)[Len(o) + 1] = x
        /\ (\A k \in 1..Len(o) : Append(o, x)[k] = o[k]) /\ Len(o) \in Nat
    BY <2>2
  <2>4. Len(r) = Len(o) + 1 /\ r[Len(o) + 1] = x
    BY <1>5, <1>8, <2>1
  <2>5. \A k \in 1..Len(r) : k \in 1..Len(o) \/ k = Len(o) + 1
    BY <2>3, <2>4
  <2>6. \A k \in 1..Len(r) : r[k] = Append(o, x)[k]
    BY <1>6, <2>3, <2>4, <2>5
  <2>7. r \in Seq(T) /\ Len(r) = Len(Append(o, x))
    BY <1>4, <2>3, <2>4 DEF r
  <2> QED
    BY <2>1, <2>3, <2>6, <2>7, SameSeq
<1> QED
  BY <1>7, <1>8 DEF r, N

\* The last result is the first error.
EndsInError(r) == r # <<>> /\ ~Fine(r[Len(r)]) /\ \A i \in 1..(Len(r) - 1) : Fine(r[i])

\* Nothing counts after it.
LEMMA ErrorEnds ==
  ASSUME NEW S, NEW T, NEW U, NEW r \in Seq(S), NEW s \in Seq(T), NEW x \in Seq(U), StartsWith(r, s),
         EndsInError(r)
  PROVE  UpToError(s \o x) = r
<1> DEFINE A == S \cup T \cup U
<1>1. r \in Seq(A) /\ s \in Seq(A) /\ x \in Seq(A)
  BY SeqOfMore
<1> HIDE DEF A
<1>2. PICK c \in Seq(A) :
        /\ c = s \o x /\ Len(c) = Len(s) + Len(x)
        /\ \A i \in 1..(Len(s) + Len(x)) : c[i] = IF i <= Len(s) THEN s[i] ELSE x[i - Len(s)]
  <2>1. s \o x \in Seq(A)
    BY <1>1, ConcatIs
  <2> WITNESS s \o x \in Seq(A)
  <2> QED
    BY <1>1, ConcatIs
<1>3. Len(r) \in Nat /\ Len(r) # 0 /\ Len(s) \in Nat /\ Len(x) \in Nat /\ Len(r) <= Len(s)
  BY <1>1 DEF StartsWith, EndsInError
<1>4. \A i \in 1..Len(r) : c[i] = r[i]
  <2>1. \A i \in 1..Len(r) : i \in 1..(Len(s) + Len(x)) /\ i <= Len(s)
    BY <1>3
  <2> QED
    BY <1>2, <2>1 DEF StartsWith
<1>5. Len(r) \in 1..Len(r) /\ Len(r) \in 1..Len(c) /\ \A i \in 1..(Len(r) - 1) : i \in 1..Len(r)
  BY <1>2, <1>3
<1>6. ~Fine(c[Len(r)]) /\ \A i \in 1..(Len(r) - 1) : Fine(c[i])
  BY <1>4, <1>5 DEF EndsInError
<1>7. UpToError(c) = SubSeq(c, 1, Len(r))
  BY <1>5, <1>6, UpToErrorIs
<1>8. SubSeq(c, 1, Len(r)) \in Seq(A) /\ Len(SubSeq(c, 1, Len(r))) = Len(r)
      /\ \A i \in 1..Len(r) : SubSeq(c, 1, Len(r))[i] = c[i]
  BY <1>3, <1>5
<1>9. SubSeq(c, 1, Len(r)) = r
  BY <1>1, <1>4, <1>8, SameSeq
<1> QED
  BY <1>2, <1>7, <1>9

-----------------------------------------------------------------------------
(* Lemmas about what the text means, where next() is in it.                *)

\* The results form a sequence that an error can be added to.
LEMMA ResultsAre ==
  ASSUME NEW n \in Nat, NEW t, NEW M \in SUBSET (1..n), NEW x
  PROVE  \E S : Segments(t, M) \in Seq(S) /\ x \in S
<1>1. PICK S : Segments(t, M) \in Seq(S)
  BY SegmentsAre
<1>2. Segments(t, M) \in Seq(S \cup {x})
  BY <1>1, SeqOfMore
<1> QED
  BY <1>2

\* So do those of next().
LEMMA ReadingIsSeq ==
  ASSUME NEW t \in Seq(Written), NEW p, NEW b, NEW o, Reading(t, p, b, o), NEW x
  PROVE  \E S : o \in Seq(S) /\ x \in S
<1>1. Marks(t, p) \in SUBSET (1..Len(t)) /\ Len(t) \in Nat
  BY SpotsAre DEF Marks
<1> QED
  BY <1>1, ResultsAre DEF Reading

\* No element is complete after the separator at p.
LEMMA BodyWhenStopped ==
  ASSUME NEW t \in Seq(Written), Neat(t), NEW p, NEW b, NEW o, Reading(t, p, b, o), p \in Spots(t, "sep"),
         Spots(t, "end") = {}, Marks(t, p) = Spots(t, "sep"), NEW isClosed \in BOOLEAN
  PROVE  Body(t, isClosed) = IF isClosed THEN Append(o, Error("truncated")) ELSE o
<1>1. 1 \in Spots(t, "sep")
  <2>1. p \in 1..Len(t) /\ Len(t) \in Nat
    BY SpotsAre
  <2>2. p = 1 \/ p > 1
    BY <2>1
  <2> QED
    BY <2>2 DEF Reading
<1>2. AllMarks(t) = Marks(t, p) /\ CutOff(t, isClosed) = IF isClosed THEN <<Error("truncated")>> ELSE <<>>
  BY DEF AllMarks, CutOff
<1>3. Body(t, isClosed) = UpToError(o \o CutOff(t, isClosed))
  BY <1>1, <1>2, BodyIs DEF Reading
<1>4. PICK S : o \in Seq(S) /\ Error("truncated") \in S
  BY ReadingIsSeq
<1>5. \A k \in 1..Len(o) : Fine(o[k])
  BY DEF Reading
<1>6. CASE ~isClosed
  <2>1. o \o <<>> = o
    BY <1>4
  <2>2. UpToError(o) = o
    BY <1>4, <1>5, UpToErrorIs
  <2> QED
    BY <1>2, <1>3, <1>6, <2>1, <2>2
<1>7. CASE isClosed
  <2>0. PICK x \in S : x = Error("truncated")
    BY <1>4
  <2>1. PICK r \in Seq(S) :
          /\ r = Append(o, x) /\ r = o \o <<x>>
          /\ Len(o) \in Nat /\ Len(r) = Len(o) + 1 /\ r[Len(o) + 1] = x
          /\ \A k \in 1..Len(o) : r[k] = o[k]
    <3>1. Append(o, x) \in Seq(S)
      BY <1>4
    <3> WITNESS Append(o, x) \in Seq(S)
    <3> QED
      BY <1>4
  <2>2. PICK n \in 1..Len(r) : n = Len(r) /\ n = Len(o) + 1
    BY <2>1
  <2>3. ~Fine(r[n]) /\ \A i \in 1..(n - 1) : Fine(r[i])
    <3>1. Error("truncated").what = "truncated"
      BY DEF Error, Result
    <3>2. ~Fine(r[n])
      BY <2>0, <2>1, <2>2, <3>1 DEF Fine
    <3>3. \A i \in 1..(n - 1) : i \in 1..Len(o)
      BY <2>1, <2>2
    <3> QED
      BY <1>5, <2>1, <3>2, <3>3
  <2>4. UpToError(r) = SubSeq(r, 1, n)
    BY <2>3, UpToErrorIs
  <2>5. SubSeq(r, 1, n) = r
    <3>1. SubSeq(r, 1, Len(r)) = r
      OBVIOUS
    <3> QED
      BY <2>2, <3>1
  <2> QED
    BY <1>2, <1>3, <1>7, <2>0, <2>1, <2>4, <2>5
<1> QED
  BY <1>6, <1>7

\* Where one separator has been found, the text begins with one.
LEMMA FirstIsMark ==
  ASSUME NEW t \in Seq(Written), NEW p, NEW b, NEW o, Reading(t, p, b, o), p \in Spots(t, "sep")
  PROVE  1 \in Spots(t, "sep")
<1>1. p \in 1..Len(t) /\ Len(t) \in Nat
  BY SpotsAre
<1>2. p = 1 \/ p > 1
  BY <1>1
<1> QED
  BY <1>2 DEF Reading

\* The element that ends at q is in error.
LEMMA BodyAtError ==
  ASSUME NEW t \in Seq(Written), Neat(t), NEW p, NEW b, NEW o, Reading(t, p, b, o), p \in Spots(t, "sep"),
         NEW q, NEW isLast, Reaches(t, p, q, isLast), q > p + 1, ~Fine(Parse(Between(t, p, q))),
         NEW isClosed \in BOOLEAN
  PROVE  Body(t, isClosed) = Append(o, Parse(Between(t, p, q)))
<1>1. PICK x : x = Parse(Between(t, p, q))
  OBVIOUS
<1>2. PICK S : o \in Seq(S) /\ x \in S
  BY ReadingIsSeq
<1>3. PICK r \in Seq(S) :
        /\ r = Append(o, x) /\ r = o \o <<x>> /\ r # <<>>
        /\ Len(o) \in Nat /\ Len(r) = Len(o) + 1 /\ r[Len(o) + 1] = x
        /\ \A k \in 1..Len(o) : r[k] = o[k]
  <2>1. Append(o, x) \in Seq(S)
    BY <1>2
  <2> WITNESS Append(o, x) \in Seq(S)
  <2> QED
    BY <1>2
<1>4. r = Segments(t, WithMark(Marks(t, p), q))
  <2>1. Segments(t, WithMark(Marks(t, p), q)) = Append(o, Parse(Between(t, p, q)))
    BY NextElement
  <2> QED
    BY <1>1, <1>3, <2>1
<1>5. /\ WithMark(Marks(t, p), q) \in SUBSET (1..Len(t)) /\ AllMarks(t) \in SUBSET (1..Len(t)) /\ Len(t) \in Nat
      /\ Continues(WithMark(Marks(t, p), q), AllMarks(t), q)
  BY ReachesMarks
<1>6. StartsWith(r, Segments(t, AllMarks(t)))
  BY <1>4, <1>5, SegmentsOfMore
<1>7. PICK T, s : s \in Seq(T) /\ s = Segments(t, AllMarks(t))
  BY <1>5, SegmentsAre
<1>8. PICK U, c : c \in Seq(U) /\ c = CutOff(t, isClosed)
  <2>1. <<>> \in Seq({Error("truncated")}) /\ <<Error("truncated")>> \in Seq({Error("truncated")})
    OBVIOUS
  <2>2. CutOff(t, isClosed) = <<>> \/ CutOff(t, isClosed) = <<Error("truncated")>>
    BY DEF CutOff
  <2> QED
    BY <2>1, <2>2
<1>9. EndsInError(r)
  <2>1. ~Fine(r[Len(r)])
    BY <1>1, <1>3
  <2>2. \A k \in 1..Len(o) : Fine(o[k])
    BY DEF Reading
  <2>3. \A i \in 1..(Len(r) - 1) : i \in 1..Len(o)
    BY <1>3
  <2> QED
    BY <1>3, <2>1, <2>2, <2>3 DEF EndsInError
<1>10. UpToError(s \o c) = r
  <2>1. r \in Seq(S) /\ StartsWith(r, s) /\ s \in Seq(T) /\ c \in Seq(U)
    BY <1>3, <1>6, <1>7, <1>8
  <2> QED
    BY <1>9, <2>1, ErrorEnds
<1>11. 1 \in Spots(t, "sep")
  BY FirstIsMark
<1> QED
  BY <1>1, <1>3, <1>7, <1>8, <1>10, <1>11, BodyIs

\* The end marker is at q.
LEMMA BodyAtEnd ==
  ASSUME NEW t \in Seq(Written), Neat(t), NEW p, NEW b, NEW o, Reading(t, p, b, o), p \in Spots(t, "sep"),
         NEW q, NEW isLast, isLast, Reaches(t, p, q, isLast), NEW r, r = Segments(t, WithMark(Marks(t, p), q)),
         \A k \in 1..Len(r) : Fine(r[k]), NEW isClosed \in BOOLEAN
  PROVE  Body(t, isClosed) = r
<1>1. /\ AllMarks(t) \in SUBSET (1..Len(t)) /\ Len(t) \in Nat /\ WithMark(Marks(t, p), q) = AllMarks(t)
  <2>1. Len(t) \in Nat
    OBVIOUS
  <2> QED
    BY <2>1, ReachesMarks, Zenon
<1>2. CutOff(t, isClosed) = <<>>
  BY DEF CutOff, Reaches
<1>3. PICK S : r \in Seq(S)
  BY <1>1, SegmentsAre
<1>4. r \o <<>> = r
  BY <1>3
<1>5. UpToError(r) = r
  BY <1>3, UpToErrorIs
<1>6. 1 \in Spots(t, "sep")
  BY FirstIsMark
<1> QED
  BY <1>1, <1>2, <1>4, <1>5, <1>6, BodyIs

\* The next separator is at q.
LEMMA ReadingOn ==
  ASSUME NEW t \in Seq(Written), NEW p, NEW b, NEW o, Reading(t, p, b, o), p \in Spots(t, "sep"),
         NEW q, NEW isLast, ~isLast, Reaches(t, p, q, isLast), NEW r, r = Segments(t, WithMark(Marks(t, p), q)),
         \A k \in 1..Len(r) : Fine(r[k])
  PROVE  q \in 1..(Len(t) + 1) /\ Reading(t, q, From(t, q), r)
<1>1. WithMark(Marks(t, p), q) = Marks(t, q) /\ q \in 1..Len(t) /\ Len(t) \in Nat
  BY ReachesMarks
<1>2. q \in Spots(t, "sep") /\ (\A e \in Spots(t, "end") : e >= q) /\ 1 \in Spots(t, "sep")
  BY FirstIsMark DEF Reaches
<1> QED
  BY <1>1, <1>2 DEF Reading

-----------------------------------------------------------------------------
(* The turns of the loop with a clean text.                                *)

\* No thinking, or all of it is there.
Heard == Opened => Dropped # 0

\* The text after the thinking is clean, and carries the meaning of the whole.
LEMMA SaidIs ==
  ASSUME StreamTypes, Clean(text), Heard
  PROVE  /\ Said \in Seq(Written) /\ Neat(Said) /\ Spots(Said, "open") = {}
         /\ \A isClosed \in BOOLEAN : Meaning(text, isClosed) = Body(Said, isClosed)
         /\ Dropped \in 0..Len(text) /\ (text = <<>> => Said = <<>>)
<1>1. text \in Seq(Written) /\ text \in Seq(Token) /\ Len(text) \in Nat /\ DOMAIN text = 1..Len(text) /\ Neat(text)
  BY CleanIsNeat DEF StreamTypes, Written
<1>2. Dropped \in 0..Len(text)
  <2>1. LinesOf(text, "close") = Spots(text, "close")
    BY <1>1, NeatLines DEF Alone
  <2>2. /\ Spots(text, "close") \in SUBSET (1..Len(text))
        /\ Spots(text, "close") = {} => Least(Spots(text, "close")) = 0
        /\ Spots(text, "close") # {} => Least(Spots(text, "close")) \in Spots(text, "close")
    BY <1>1, SpotsAre
  <2>3. Least(Spots(text, "close")) \in 0..Len(text)
    BY <1>1, <2>2
  <2> QED
    BY <1>1, <2>1, <2>3 DEF Dropped
<1>3. PICK p \in 1..(Len(text) + 1) : p = Dropped + 1 /\ p \in Nat
  BY <1>1, <1>2
<1>4. Said = From(text, p)
  BY <1>3 DEF Said
<1>5. Said \in Seq(Written) /\ Neat(Said)
  BY <1>1, <1>4, FromIs, NeatFrom
<1>6. Spots(Said, "open") = {}
  <2> SUFFICES ASSUME NEW i \in Spots(Said, "open") PROVE FALSE
    OBVIOUS
  <2>1. i \in Nat /\ i > 0 /\ i + p - 1 \in Spots(text, "open")
    <3>1. i \in Nat
      BY <1>5, SpotsAre
    <3> QED
      BY <1>1, <1>4, <3>1, SpotsFrom
  <2>2. i + p - 1 = 1 /\ text[i + p - 1].w = "open" /\ text # <<>>
    BY <1>1, <2>1 DEF Spots, Clean
  <2>3. Opened
    BY <2>2 DEF Opened
  <2>4. p > 1
    BY <1>2, <1>3, <2>3 DEF Heard
  <2> QED
    BY <1>3, <2>1, <2>2, <2>4
<1>7. \A isClosed \in BOOLEAN : Meaning(text, isClosed) = Body(Said, isClosed)
  <2> SUFFICES ASSUME NEW isClosed \in BOOLEAN PROVE Meaning(text, isClosed) = Body(Said, isClosed)
    OBVIOUS
  <2>1. CASE Opened
    <3>1. Dropped = Least(LinesOf(text, "close")) /\ Dropped # 0 /\ text # <<>> /\ text[1].w = "open"
      BY <2>1 DEF Dropped, Opened, Heard
    <3> QED
      BY <3>1 DEF Meaning, Said
  <2>2. CASE ~Opened
    <3>1. Dropped = 0 /\ (text = <<>> \/ text[1].w # "open")
      BY <2>2 DEF Dropped, Opened
    <3>2. Said = text
      BY <1>1, <1>3, <1>4, <3>1, FromAll
    <3> QED
      BY <3>1, <3>2 DEF Meaning
  <2> QED
    BY <2>1, <2>2
<1>8. text = <<>> => Said = <<>>
  BY <1>2 DEF Said, From
<1> QED
  BY <1>2, <1>5, <1>6, <1>7, <1>8

\* What next() does when it has results and no thinking to drop.
LEMMA TurnReads ==
  ASSUME StreamTypes, Clean(text), Progress, at = "run", ~Thinks
  PROVE  /\ Heard /\ ~Thinking /\ Searches /\ (Opened => Thought) /\ (text = <<>> => ~Thought)
         /\ Thought \in BOOLEAN /\ count = Len(out)
         /\ \E p \in 1..(Len(Said) + 1) :
              /\ Reading(Said, p, buffer, out)
              /\ count = 0 /\ p = 1 /\ ~Thought => buffer = <<>>
<1>1. Heard /\ count = Len(out) /\ (text = <<>> => ~thought)
  BY DEF Progress, Heard
<1>2. PICK p \in 1..(Len(Said) + 1) : Reading(Said, p, buffer, out)
  BY DEF Progress
<1>3. Said \in Seq(Written) /\ Said \in Seq(Token) /\ Spots(Said, "open") = {} /\ (text = <<>> => Said = <<>>)
  BY <1>1, SaidIs DEF Written
<1>4. buffer \in Seq(Written) /\ buffer = From(Said, p)
  BY <1>2, <1>3, FromIs DEF Reading
<1>5. Spots(buffer, "open") = {}
  <2> SUFFICES ASSUME NEW i \in Spots(buffer, "open") PROVE FALSE
    OBVIOUS
  <2>1. i \in Nat
    BY <1>4, SpotsAre
  <2> QED
    BY <1>3, <1>4, <2>1, SpotsFrom
<1>6. OpenAt = 0
  BY <1>5, LeastIs DEF OpenAt, Spots, Least
<1>7. ~Thinking
  BY <1>6 DEF Thinking
<1>8. Searches
  BY <1>7 DEF Searches
<1>9. buffer # <<>> => buffer[1].w # "half"
  <2>1. buffer # <<>> => buffer[1] \in Written
    BY <1>4
  <2> QED
    BY <2>1 DEF Written
<1>10. Thought <=> thought \/ (count = 0 /\ buffer # <<>>)
  BY <1>6, <1>9 DEF Thought
<1>11. (Opened => Thought) /\ Thought \in BOOLEAN
  BY <1>10 DEF Thinks, StreamTypes, Thought
<1>12. text = <<>> => ~Thought
  <2> SUFFICES ASSUME text = <<>> PROVE ~Thought
    OBVIOUS
  <2>1. Said = <<>>
    BY <1>3
  <2>2. p = 1
    BY <2>1
  <2>3. buffer = <<>>
    BY <1>3, <1>4, <2>1, <2>2, FromAll
  <2> QED
    BY <1>1, <1>10, <2>3
<1> QED
  BY <1>1, <1>2, <1>7, <1>8, <1>10, <1>11, <1>12

\* A turn that is the last one.
LEMMA TurnEnds ==
  ASSUME StreamTypes, Clean(text), Heard, text' = text, closed' = closed, at' = "done", out' = Body(Said, closed)
  PROVE  Progress'
<1>1. out' = Meaning(text, closed)
  BY SaidIs DEF StreamTypes
<1>2. out' = Meaning(text', closed')
  BY <1>1
<1> QED
  BY <1>2 DEF Progress

\* A turn after which next() goes on.
LEMMA TurnGoesOn ==
  ASSUME StreamTypes, Heard, text' = text, closed' = closed, at' \in {"run", "wait"},
         Opened => thought', text = <<>> => ~thought',
         count' = Len(out'), NEW p \in 1..(Len(Said) + 1), Reading(Said, p, buffer', out'),
         at' = "wait" => ~closed /\ Clean(text) /\ out' = Body(Said, FALSE)
  PROVE  Progress'
<1>1. Said' = Said /\ Opened' = Opened /\ Dropped' = Dropped
  BY DEF Said, Dropped, Opened
<1>2. ~Thinks'
  BY <1>1 DEF Thinks
<1>3. at' = "wait" => ~closed' /\ out' = Meaning(text', FALSE)
  BY SaidIs
<1>4. (Opened' => Dropped' # 0) /\ \E x \in 1..(Len(Said') + 1) : Reading(Said', x, buffer', out')
  BY <1>1 DEF Heard
<1>5. Progress' <=>
        /\ at' = "wait" => ~closed' /\ out' = Meaning(text', FALSE)
        /\ at' = "done" => out' = Meaning(text', closed') \/ (out' # <<>> /\ Last(out').what = "channel")
        /\ at' # "done" =>
             /\ text' = <<>> => ~thought'
             /\ count' = Len(out')
             /\ IF Thinks' THEN out' = <<>> /\ (buffer' = text' \/ Halved')
                ELSE (Opened' => Dropped' # 0) /\ \E x \in 1..(Len(Said') + 1) : Reading(Said', x, buffer', out')
  BY DEF Progress
<1> QED
  BY <1>2, <1>3, <1>4, <1>5

\* Nothing can come before the thinking.
LEMMA NoPreambleBeforeThought ==
  ASSUME StreamTypes, Clean(text), Progress, PreambleBeforeThought
  PROVE  FALSE
<1>1. at = "run" /\ Thinking /\ OpenAt > 1
  BY DEF PreambleBeforeThought
<1>2. Thinks
  BY <1>1, TurnReads
<1>3. buffer = text \/ Halved
  BY <1>1, <1>2 DEF Progress
<1>4. text \in Seq(Written) /\ text # <<>> /\ text[1].w = "open" /\ DOMAIN text = 1..Len(text) /\ Len(text) \in Nat
  BY <1>2 DEF Thinks, Opened, StreamTypes
<1>5. CASE buffer = text
  <2>1. OpenAt = Least(Spots(text, "open"))
    BY <1>5 DEF OpenAt, Spots
  <2>2. 1 \in Spots(text, "open")
    BY <1>4 DEF Spots
  <2>3. Least(Spots(text, "open")) <= 1
    BY <1>4, <2>2, SpotsAre
  <2>4. Least(Spots(text, "open")) \in Nat
    BY <1>4, <2>2, SpotsAre
  <2> QED
    BY <1>1, <2>1, <2>3, <2>4
<1>6. CASE Halved
  <2>1. buffer \in Seq(Token) /\ Len(buffer) = 1 /\ buffer[1].w = "half"
    BY <1>4, <1>6 DEF Halved, StreamTypes
  <2>2. {i \in DOMAIN buffer : buffer[i].w = "open"} = {}
    BY <2>1
  <2>3. OpenAt = 0
    BY <2>2 DEF OpenAt, Least
  <2> QED
    BY <1>1, <2>3
<1> QED
  BY <1>3, <1>5, <1>6

\* The first separator, where the buffer is read from p on.
LEMMA TurnLooks ==
  ASSUME StreamTypes, Clean(text), Heard, NEW p, Reading(Said, p, buffer, out)
  PROVE  /\ First \in Nat
         /\ First = 0 => p = 1 /\ buffer = Said /\ Spots(Said, "sep") = {} /\ out = <<>>
         /\ First > 1 => p = 1 /\ buffer = Said /\ Spots(Said, "sep") # {} /\ 1 \notin Spots(Said, "sep") /\ out = <<>>
         /\ First = 1 => p \in Spots(Said, "sep") /\ 1 \in Spots(Said, "sep")
         /\ FindLine(buffer, "end") = 0 <=> Spots(Said, "end") = {}
<1>1. Said \in Seq(Written) /\ Neat(Said)
  BY SaidIs
<1>2. PICK first : first = First
  OBVIOUS
<1>3. first = FindLine(buffer, "sep")
  BY <1>2 DEF First
<1>4. /\ first \in Nat
      /\ first = 0 => p = 1 /\ buffer = Said /\ Spots(Said, "sep") = {} /\ out = <<>>
      /\ first > 1 => p = 1 /\ buffer = Said /\ Spots(Said, "sep") # {} /\ 1 \notin Spots(Said, "sep") /\ out = <<>>
      /\ first = 1 => p \in Spots(Said, "sep") /\ 1 \in Spots(Said, "sep")
      /\ FindLine(buffer, "end") = 0 <=> Spots(Said, "end") = {}
  BY <1>1, <1>3, Looks
<1> QED
  BY <1>2, <1>4

\* The end of the element after it.
LEMMA TurnLooksOn ==
  ASSUME StreamTypes, Clean(text), Heard, NEW p, Reading(Said, p, buffer, out), First = 1
  PROVE  /\ p \in Spots(Said, "sep") /\ Boundary \in Nat /\ Rest = From(Said, p + 1)
         /\ Boundary = 0 => Spots(Said, "end") = {} /\ Marks(Said, p) = Spots(Said, "sep")
         /\ Boundary > 0 => Reaches(Said, p, p + Boundary, Boundary = NextEnd)
<1>1. Said \in Seq(Written) /\ Neat(Said) /\ p \in Spots(Said, "sep")
  BY SaidIs, TurnLooks
<1>2. Rest = From(buffer, 2)
  BY DEF Rest
<1>3. PICK s, e, d : s = NextSep /\ e = NextEnd /\ d = Boundary
  OBVIOUS
<1>4. /\ s = FindLine(From(buffer, 2), "sep") /\ e = FindLine(From(buffer, 2), "end")
      /\ d = IF e = 0 \/ (s # 0 /\ s <= e) THEN s ELSE e
  BY <1>2, <1>3 DEF NextSep, NextEnd, Boundary
<1>5. /\ d \in Nat /\ From(buffer, 2) = From(Said, p + 1)
      /\ d = 0 => Spots(Said, "end") = {} /\ Marks(Said, p) = Spots(Said, "sep")
      /\ d > 0 => Reaches(Said, p, p + d, d = e)
  BY <1>1, <1>4, LooksOn
<1> QED
  BY <1>1, <1>2, <1>3, <1>5

\* A line came that cannot be part of an element.
LEMMA PreambleLineStep ==
  ASSUME StreamTypes, Clean(text), Progress, ~Thinks, PreambleLine
  PROVE  Progress'
<1>1. at = "run" /\ Preamble /\ text' = text /\ closed' = closed /\ at' = "done" /\ out' = Append(out, Error("format"))
  BY DEF PreambleLine, Searches, Fail
<1>2. PICK p : Heard /\ Reading(Said, p, buffer, out)
  BY <1>1, TurnReads
<1>3. First = 0 /\ \E i \in DOMAIN buffer : buffer[i].nl
  BY <1>1 DEF Preamble
<1>4. buffer = Said /\ Spots(Said, "sep") = {} /\ out = <<>>
  BY <1>2, <1>3, TurnLooks
<1>5. Said \in Seq(Written) /\ Neat(Said) /\ closed \in BOOLEAN
  BY <1>2, SaidIs DEF StreamTypes
<1>6. \E i \in 1..Len(Said) : Said[i].nl
  BY <1>3, <1>4, <1>5
<1>7. Body(Said, closed) = <<Error("format")>>
  BY <1>4, <1>5, <1>6, BodyIs
<1>8. out' = Body(Said, closed)
  BY <1>1, <1>4, <1>7
<1> QED
  BY <1>1, <1>2, <1>8, TurnEnds

\* Something came before the first separator.
LEMMA PreambleBeforeSeparatorStep ==
  ASSUME StreamTypes, Clean(text), Progress, ~Thinks, PreambleBeforeSeparator
  PROVE  Progress'
<1>1. at = "run" /\ First > 1 /\ text' = text /\ closed' = closed /\ at' = "done" /\ out' = Append(out, Error("format"))
  BY DEF PreambleBeforeSeparator, Searches, Fail
<1>2. PICK p : Heard /\ Reading(Said, p, buffer, out)
  BY <1>1, TurnReads
<1>3. Spots(Said, "sep") # {} /\ 1 \notin Spots(Said, "sep") /\ out = <<>>
  BY <1>1, <1>2, TurnLooks
<1>4. Said \in Seq(Written) /\ Neat(Said) /\ closed \in BOOLEAN
  BY <1>2, SaidIs DEF StreamTypes
<1>5. Body(Said, closed) = <<Error("format")>>
  BY <1>3, <1>4, BodyIs
<1>6. out' = Body(Said, closed)
  BY <1>1, <1>3, <1>5
<1> QED
  BY <1>1, <1>2, <1>6, TurnEnds

\* A separator that is not the first word is an error before the first element only.
LEMMA FirstIsFirst ==
  ASSUME StreamTypes, Clean(text), Heard, NEW p, Reading(Said, p, buffer, out), count = Len(out),
         ~(count = 0 /\ First > 1), First # 0
  PROVE  First = 1
<1>1. First \in Nat /\ (First > 1 => out = <<>>)
  BY TurnLooks
<1>2. First > 1 => count = 0
  BY <1>1
<1> QED
  BY <1>1, <1>2

\* Nothing lies between two separators.
LEMMA SkipEmptyStep ==
  ASSUME StreamTypes, Clean(text), Progress, ~Thinks, SkipEmpty
  PROVE  Progress'
<1>1. /\ at = "run" /\ AtElement /\ Boundary = 1 /\ thought' = Thought
      /\ text' = text /\ closed' = closed /\ count' = count /\ out' = out
      /\ IF NextEnd = 1 THEN at' = "done" ELSE buffer' = Rest /\ at' = "run"
  BY DEF SkipEmpty, AtElement, Searches
<1>2. PICK p \in 1..(Len(Said) + 1) : Reading(Said, p, buffer, out)
  BY <1>1, TurnReads
<1>3. Heard /\ (Opened => Thought) /\ (text = <<>> => ~Thought) /\ count = Len(out)
  BY <1>1, TurnReads
<1>4. First = 1
  BY <1>1, <1>2, <1>3, FirstIsFirst DEF AtElement
<1>5. Said \in Seq(Written) /\ Neat(Said) /\ closed \in BOOLEAN
  BY <1>3, SaidIs DEF StreamTypes
<1>6. PICK isLast : isLast <=> NextEnd = 1
  OBVIOUS
<1>7. p \in Spots(Said, "sep") /\ Rest = From(Said, p + 1) /\ Reaches(Said, p, p + 1, 1 = NextEnd)
  BY <1>1, <1>2, <1>3, <1>4, TurnLooksOn
<1>8. Reaches(Said, p, p + 1, isLast)
  BY <1>6, <1>7 DEF Reaches
<1>9. Segments(Said, WithMark(Marks(Said, p), p + 1)) = out
  BY <1>2, <1>5, <1>7, <1>8, NextElement
<1>10. \A k \in 1..Len(out) : Fine(out[k])
  BY <1>2 DEF Reading
<1>11. CASE isLast
  <2>1. Body(Said, closed) = out
    BY <1>2, <1>5, <1>7, <1>8, <1>9, <1>10, <1>11, BodyAtEnd
  <2> QED
    BY <1>1, <1>3, <1>6, <1>11, <2>1, TurnEnds
<1>12. CASE ~isLast
  <2>1. p + 1 \in 1..(Len(Said) + 1) /\ Reading(Said, p + 1, From(Said, p + 1), out)
    BY <1>2, <1>5, <1>7, <1>8, <1>9, <1>10, <1>12, ReadingOn
  <2>2. /\ thought' = Thought /\ count' = Len(out') /\ at' = "run"
        /\ Reading(Said, p + 1, buffer', out')
    BY <1>1, <1>3, <1>6, <1>7, <1>12, <2>1
  <2> QED
    BY <1>1, <1>3, <2>1, <2>2, TurnGoesOn
<1> QED
  BY <1>11, <1>12

\* An element is complete.
LEMMA TakeElementStep ==
  ASSUME StreamTypes, Clean(text), Progress, ~Thinks, TakeElement
  PROVE  Progress'
<1>1. /\ at = "run" /\ AtElement /\ Boundary > 1 /\ thought' = Thought
      /\ text' = text /\ closed' = closed
      /\ buffer' = IF Boundary = NextEnd THEN buffer ELSE From(Rest, Boundary)
      /\ Return(Parse(SubSeq(Rest, 1, Boundary - 1)))
  BY DEF TakeElement, AtElement, Searches
<1>2. PICK p \in 1..(Len(Said) + 1) : Reading(Said, p, buffer, out)
  BY <1>1, TurnReads
<1>3. Heard /\ (Opened => Thought) /\ (text = <<>> => ~Thought) /\ count = Len(out)
  BY <1>1, TurnReads
<1>4. First = 1
  BY <1>1, <1>2, <1>3, FirstIsFirst DEF AtElement
<1>5. Said \in Seq(Written) /\ Neat(Said) /\ closed \in BOOLEAN
  BY <1>3, SaidIs DEF StreamTypes
<1>6. PICK isLast : isLast <=> Boundary = NextEnd
  OBVIOUS
<1>7. PICK d \in Nat : d = Boundary /\ d > 1
  BY <1>1, <1>2, <1>3, <1>4, TurnLooksOn
<1>8. p \in Spots(Said, "sep") /\ Rest = From(Said, p + 1) /\ Reaches(Said, p, p + d, Boundary = NextEnd)
  BY <1>2, <1>3, <1>4, <1>7, TurnLooksOn
<1>9. Reaches(Said, p, p + d, isLast)
  BY <1>6, <1>8 DEF Reaches
<1>10. PICK q : q = p + d
  OBVIOUS
<1>11. /\ p \in 1..Len(Said) /\ p \in Nat /\ q \in Nat /\ q > p + 1 /\ q <= Len(Said) /\ Len(Said) \in Nat
       /\ d \in 1..(Len(Said) - p + 1) /\ d <= Len(Said) - p
  <2>1. p \in 1..Len(Said) /\ Len(Said) \in Nat
    BY <1>5, <1>8, SpotsAre
  <2>2. p + d \in (p + 1)..Len(Said)
    BY <1>9 DEF Reaches
  <2> QED
    BY <1>7, <1>10, <2>1, <2>2
<1>12. SubSeq(Rest, 1, Boundary - 1) = Between(Said, p, q) /\ From(Rest, Boundary) = From(Said, q)
  <2>1. SubSeq(From(Said, p + 1), 1, d - 1) = Between(Said, p, p + d)
    BY <1>5, <1>11, BetweenFrom
  <2>2. p + 1 \in 1..(Len(Said) + 1) /\ d \in 1..(Len(Said) - (p + 1) + 2) /\ (p + 1) + d - 1 = q
    BY <1>7, <1>10, <1>11
  <2>3. From(From(Said, p + 1), d) = From(Said, (p + 1) + d - 1)
    BY <1>5, <2>2, FromFrom
  <2> QED
    BY <1>7, <1>8, <1>10, <2>1, <2>2, <2>3
<1>13. PICK x : x = Parse(Between(Said, p, q))
  OBVIOUS
<1>14. Segments(Said, WithMark(Marks(Said, p), q)) = Append(out, x)
  BY <1>2, <1>5, <1>8, <1>9, <1>10, <1>11, <1>13, NextElement
<1>15. x.what \in {"unit", "name", "parse"}
  <2>1. x = Element(Between(Said, p, q))
    <3>1. \A e \in Spots(Said, "end") : e >= p
      BY <1>2 DEF Reading
    <3> QED
      BY <1>5, <1>8, <1>9, <1>10, <1>11, <1>13, <3>1, ReachesElement
  <2> QED
    BY <2>1, ElementKinds
<1>16. /\ out' = Append(out, x)
       /\ IF x.what = "parse" THEN at' = "done" /\ count' = count
          ELSE count' = count + 1 /\ at' = IF isLast THEN "done" ELSE "run"
  BY <1>1, <1>6, <1>12, <1>13 DEF Return
<1>17. CASE x.what = "parse"
  <2>1. ~Fine(x)
    BY <1>17 DEF Fine
  <2>2. Body(Said, closed) = Append(out, x)
    BY <1>2, <1>5, <1>8, <1>9, <1>10, <1>11, <1>13, <2>1, BodyAtError
  <2> QED
    BY <1>1, <1>3, <1>16, <1>17, <2>2, TurnEnds
<1>18. CASE x.what # "parse"
  <2>1. PICK S : out \in Seq(S) /\ x \in S
    BY <1>2, <1>5, ReadingIsSeq
  <2>2. PICK r : r = Append(out, x)
    OBVIOUS
  <2>3. Len(r) = Len(out) + 1 /\ Len(out) \in Nat /\ r[Len(out) + 1] = x /\ \A k \in 1..Len(out) : r[k] = out[k]
    BY <2>1, <2>2
  <2>4. \A k \in 1..Len(r) : Fine(r[k])
    <3>1. Fine(x) /\ \A k \in 1..Len(out) : Fine(out[k])
      BY <1>2, <1>15, <1>18 DEF Reading, Fine
    <3>2. \A k \in 1..Len(r) : k \in 1..Len(out) \/ k = Len(out) + 1
      BY <2>3
    <3> QED
      BY <2>3, <3>1, <3>2
  <2>5. r = Segments(Said, WithMark(Marks(Said, p), q))
    BY <1>14, <2>2
  <2>6. CASE isLast
    <3>1. Body(Said, closed) = r
      BY <1>2, <1>5, <1>8, <1>9, <1>10, <2>4, <2>5, <2>6, BodyAtEnd
    <3> QED
      BY <1>1, <1>3, <1>16, <1>18, <2>2, <2>6, <3>1, TurnEnds
  <2>7. CASE ~isLast
    <3>1. q \in 1..(Len(Said) + 1) /\ Reading(Said, q, From(Said, q), r)
      BY <1>2, <1>5, <1>8, <1>9, <1>10, <2>4, <2>5, <2>7, ReadingOn
    <3>2. buffer' = From(Said, q) /\ out' = r /\ count' = Len(out') /\ at' = "run" /\ thought' = Thought
      BY <1>1, <1>3, <1>6, <1>12, <1>16, <1>18, <2>2, <2>3, <2>7
    <3> QED
      BY <1>1, <1>3, <3>1, <3>2, TurnGoesOn
  <2> QED
    BY <2>6, <2>7
<1> QED
  BY <1>17, <1>18

\* Nothing can be decided yet.
LEMMA WaitForMoreStep ==
  ASSUME StreamTypes, Clean(text), Progress, ~Thinks, WaitForMore
  PROVE  Progress'
<1>1. /\ at = "run" /\ NeedsMore /\ ~closed /\ at' = "wait" /\ thought' = Thought
      /\ text' = text /\ closed' = closed /\ buffer' = buffer /\ count' = count /\ out' = out
  BY DEF WaitForMore, NeedsMore, Searches
<1>2. PICK p \in 1..(Len(Said) + 1) :
        /\ Reading(Said, p, buffer, out)
        /\ count = 0 /\ p = 1 /\ ~Thought => buffer = <<>>
  BY <1>1, TurnReads
<1>3. Heard /\ (Opened => Thought) /\ (text = <<>> => ~Thought) /\ count = Len(out) /\ Searches
  BY <1>1, TurnReads
<1>4. Said \in Seq(Written) /\ Neat(Said)
  BY <1>3, SaidIs
<1>5. ~Preamble /\ ~(count = 0 /\ First > 1) /\ ~AtElement
  BY <1>1 DEF NeedsMore
<1>6. Body(Said, FALSE) = out
  <2>1. CASE First = 0
    <3>1. p = 1 /\ buffer = Said /\ Spots(Said, "sep") = {} /\ out = <<>>
      BY <1>2, <1>3, <2>1, TurnLooks
    <3>2. count = 0
      BY <1>3, <3>1
    <3>3. ~\E i \in 1..Len(Said) : Said[i].nl
      BY <1>2, <1>4, <1>5, <2>1, <3>1, <3>2 DEF Preamble
    <3>4. CutOff(Said, FALSE) = <<>>
      BY DEF CutOff
    <3> QED
      BY <1>4, <3>1, <3>3, <3>4, BodyIs
  <2>2. CASE First # 0
    <3>1. First = 1
      BY <1>2, <1>3, <1>5, <2>2, FirstIsFirst
    <3>2. Boundary = 0
      BY <1>3, <1>5, <2>2 DEF AtElement
    <3>3. p \in Spots(Said, "sep") /\ Spots(Said, "end") = {} /\ Marks(Said, p) = Spots(Said, "sep")
      BY <1>2, <1>3, <3>1, <3>2, TurnLooksOn
    <3>4. PICK isClosed \in BOOLEAN : ~isClosed
      OBVIOUS
    <3>5. Body(Said, isClosed) = out
      BY <1>2, <1>4, <3>3, <3>4, BodyWhenStopped
    <3> QED
      BY <3>4, <3>5
  <2> QED
    BY <2>1, <2>2
<1>7. /\ thought' = Thought /\ count' = Len(out') /\ Reading(Said, p, buffer', out') /\ out' = Body(Said, FALSE)
  BY <1>1, <1>2, <1>3, <1>6
<1>8. /\ at' \in {"run", "wait"} /\ (Opened => thought') /\ (text = <<>> => ~thought')
      /\ (at' = "wait" => ~closed /\ Clean(text) /\ out' = Body(Said, FALSE))
  BY <1>1, <1>3, <1>7
<1> QED
  BY <1>1, <1>2, <1>3, <1>7, <1>8, TurnGoesOn

\* Nothing can be decided, and nothing more comes.
LEMMA RunsOutStep ==
  ASSUME StreamTypes, Clean(text), Progress, ~Thinks, RunsOut
  PROVE  Progress'
<1>1. /\ at = "run" /\ NeedsMore /\ closed /\ at' = "done" /\ text' = text /\ closed' = closed
      /\ out' = IF FindLine(buffer, "end") # 0 THEN out ELSE Append(out, Error("truncated"))
  BY DEF RunsOut, NeedsMore, Searches, Fail
<1>2. PICK p \in 1..(Len(Said) + 1) :
        /\ Reading(Said, p, buffer, out)
        /\ count = 0 /\ p = 1 /\ ~Thought => buffer = <<>>
  BY <1>1, TurnReads
<1>3. Heard /\ count = Len(out) /\ Searches
  BY <1>1, TurnReads
<1>4. Said \in Seq(Written) /\ Neat(Said) /\ closed \in BOOLEAN
  BY <1>3, SaidIs DEF StreamTypes
<1>5. ~Preamble /\ ~(count = 0 /\ First > 1) /\ ~AtElement
  BY <1>1 DEF NeedsMore
<1>6. FindLine(buffer, "end") = 0 <=> Spots(Said, "end") = {}
  BY <1>2, <1>3, TurnLooks
<1>7. Body(Said, closed) = out'
  <2>1. CASE First = 0
    <3>1. p = 1 /\ buffer = Said /\ Spots(Said, "sep") = {} /\ out = <<>>
      BY <1>2, <1>3, <2>1, TurnLooks
    <3>2. count = 0
      BY <1>3, <3>1
    <3>3. ~\E i \in 1..Len(Said) : Said[i].nl
      BY <1>2, <1>4, <1>5, <2>1, <3>1, <3>2 DEF Preamble
    <3>4. CutOff(Said, closed) = IF FindLine(buffer, "end") # 0 THEN <<>> ELSE <<Error("truncated")>>
      BY <1>1, <1>6 DEF CutOff
    <3>5. Body(Said, closed) = CutOff(Said, closed)
      BY <1>4, <3>1, <3>3, BodyIs
    <3>6. out' = IF FindLine(buffer, "end") # 0 THEN <<>> ELSE <<Error("truncated")>>
      BY <1>1, <3>1
    <3> QED
      BY <3>4, <3>5, <3>6
  <2>2. CASE First # 0
    <3>1. First = 1
      BY <1>2, <1>3, <1>5, <2>2, FirstIsFirst
    <3>2. Boundary = 0
      BY <1>3, <1>5, <2>2 DEF AtElement
    <3>3. p \in Spots(Said, "sep") /\ Spots(Said, "end") = {} /\ Marks(Said, p) = Spots(Said, "sep")
      BY <1>2, <1>3, <3>1, <3>2, TurnLooksOn
    <3>4. Body(Said, closed) = IF closed THEN Append(out, Error("truncated")) ELSE out
      BY <1>2, <1>4, <3>3, BodyWhenStopped
    <3> QED
      BY <1>1, <1>6, <3>3, <3>4
  <2> QED
    BY <2>1, <2>2
<1> QED
  BY <1>1, <1>3, <1>7, TurnEnds

-----------------------------------------------------------------------------
(* The turns while the thinking is not dropped.                            *)

\* What next() sees of it.
LEMMA ThinkingIs ==
  ASSUME StreamTypes, Clean(text), Progress, at = "run", Thinks
  PROVE  /\ count = 0 /\ out = <<>> /\ text \in Seq(Written) /\ text # <<>> /\ Neat(text)
         /\ Dropped = Least(LinesOf(text, "close")) /\ Dropped \in 0..Len(text)
         /\ \/ buffer = text /\ OpenAt = 1 /\ Thinking /\ CloseAt = Dropped
               /\ FindLine(buffer, "end") = Least(LinesOf(text, "end"))
            \/ Halved /\ OpenAt = 0 /\ Dropped = 0 /\ ~Thinking
               /\ FindLine(buffer, "end") = 0 /\ LinesOf(text, "end") = {}
         /\ ~Thought
<1>1. /\ count = 0 /\ out = <<>> /\ (buffer = text \/ Halved) /\ ~thought
      /\ text \in Seq(Written) /\ text # <<>> /\ text[1].w = "open" /\ Opened
  <2>1. count = Len(out) /\ out = <<>> /\ (buffer = text \/ Halved)
    BY DEF Progress
  <2> QED
    BY <2>1 DEF Thinks, Opened, StreamTypes
<1>2. /\ text \in Seq(Token) /\ Neat(text) /\ Len(text) \in Nat /\ Len(text) > 0 /\ DOMAIN text = 1..Len(text)
      /\ Dropped = Least(LinesOf(text, "close"))
  BY <1>1, CleanIsNeat DEF Written, Dropped
<1>3. Dropped \in 0..Len(text)
  <2>1. LinesOf(text, "close") = Spots(text, "close")
    BY <1>2, NeatLines DEF Alone
  <2>2. /\ Spots(text, "close") \in SUBSET (1..Len(text))
        /\ Spots(text, "close") = {} => Least(Spots(text, "close")) = 0
        /\ Spots(text, "close") # {} => Least(Spots(text, "close")) \in Spots(text, "close")
    BY <1>1, SpotsAre
  <2> QED
    BY <1>2, <2>1, <2>2
<1>4. CASE buffer = text
  <2>1. OpenAt = Least(Spots(text, "open"))
    BY <1>4 DEF OpenAt, Spots
  <2>2. 1 \in Spots(text, "open")
    BY <1>1, <1>2 DEF Spots
  <2>3. PICK x \in Spots(text, "open") : x = Least(Spots(text, "open")) /\ x > 0 /\ x <= 1
    BY <1>1, <2>2, SpotsAre
  <2>4. x = 1
    BY <1>2, <2>3 DEF Spots
  <2>5. OpenAt = 1 /\ Thinking /\ ~Thought
    BY <1>1, <2>1, <2>3, <2>4 DEF Thinking, Thought
  <2>6. CloseAt = Dropped /\ FindLine(buffer, "end") = Least(LinesOf(text, "end"))
    BY <1>2, <1>4 DEF CloseAt, FindLine
  <2> QED
    BY <1>1, <1>2, <1>3, <1>4, <2>5, <2>6
<1>5. CASE Halved
  <2>1. /\ Len(text) = 1 /\ DOMAIN text = {1} /\ buffer \in Seq(Token) /\ Len(buffer) = 1
        /\ DOMAIN buffer = {1} /\ buffer[1].w = "half"
    BY <1>2, <1>5 DEF Halved, StreamTypes
  <2>2. {i \in DOMAIN buffer : buffer[i].w = "open"} = {} /\ LinesOf(buffer, "end") = {}
    BY <2>1 DEF LinesOf
  <2>3. LinesOf(text, "close") = {} /\ LinesOf(text, "end") = {}
    BY <1>1, <2>1 DEF LinesOf
  <2>4. OpenAt = 0 /\ FindLine(buffer, "end") = 0 /\ Dropped = 0
    BY <1>2, <2>2, <2>3 DEF OpenAt, Least, FindLine
  <2>5. ~Thinking /\ ~Thought
    BY <1>1, <2>1, <2>4 DEF Thinking, Thought
  <2> QED
    BY <1>1, <1>2, <1>3, <1>5, <2>3, <2>4, <2>5
<1> QED
  BY <1>1, <1>4, <1>5

\* No separator comes before the thinking ends.
LEMMA NoSeparatorYet ==
  ASSUME StreamTypes, Clean(text), Progress, at = "run", Thinks, Dropped = 0
  PROVE  First = 0
<1>1. /\ text \in Seq(Written) /\ text # <<>> /\ Neat(text) /\ Dropped = Least(LinesOf(text, "close"))
      /\ (buffer = text \/ Halved)
  BY ThinkingIs
<1>2. text[1].w = "open" /\ Len(text) \in Nat /\ DOMAIN text = 1..Len(text)
  BY <1>1 DEF Thinks, Opened
<1>3. LinesOf(text, "close") = {}
  <2>1. LinesOf(text, "close") = Spots(text, "close")
    BY <1>1, NeatLines DEF Alone
  <2>2. Spots(text, "close") # {} => Least(Spots(text, "close")) > 0
    BY <1>1, SpotsAre
  <2> QED
    BY <1>1, <2>1, <2>2
<1>4. LinesOf(text, "sep") = {}
  BY <1>1, <1>2, <1>3 DEF Clean
<1>5. CASE buffer = text
  BY <1>4, <1>5 DEF First, FindLine, Least
<1>6. CASE Halved
  <2>1. buffer \in Seq(Token) /\ Len(buffer) = 1 /\ buffer[1].w = "half"
    BY <1>1, <1>2, <1>6 DEF Halved, StreamTypes
  <2>2. LinesOf(buffer, "sep") = {}
    BY <2>1 DEF LinesOf
  <2> QED
    BY <2>2 DEF First, FindLine, Least
<1> QED
  BY <1>1, <1>5, <1>6

\* The thinking is complete.
LEMMA DropThoughtStep ==
  ASSUME StreamTypes, Clean(text), Progress, DropThought
  PROVE  Progress'
<1>1. /\ at = "run" /\ Thinking /\ OpenAt = 1 /\ CloseAt # 0 /\ thought' = TRUE
      /\ text' = text /\ closed' = closed /\ count' = count /\ out' = out /\ at' = at
      /\ buffer' = From(buffer, CloseAt + 1)
  BY DEF DropThought
<1>2. Thinks
  BY <1>1, TurnReads
<1>3. /\ count = 0 /\ out = <<>> /\ buffer = text /\ CloseAt = Dropped /\ text # <<>>
  BY <1>1, <1>2, ThinkingIs
<1>4. Heard
  BY <1>1, <1>3 DEF Heard
<1>5. buffer' = Said
  BY <1>1, <1>3 DEF Said
<1>6. Said \in Seq(Written)
  BY <1>4, SaidIs
<1>7. Reading(Said, 1, buffer', out')
  <2>1. Spots(Said, "sep") \subseteq Nat /\ Spots(Said, "end") \in SUBSET (1..Len(Said)) /\ Len(Said) \in Nat
        /\ Spots(Said, "sep") \in SUBSET (1..Len(Said))
    BY <1>6, SpotsAre
  <2>2. Marks(Said, 1) \subseteq {1}
    BY <2>1 DEF Marks
  <2>3. Segments(Said, Marks(Said, 1)) = <<>>
    BY <2>2, FewMarks
  <2>4. From(Said, 1) = Said
    BY <1>6, FromAll
  <2>5. \A e \in Spots(Said, "end") : e >= 1
    BY <2>1
  <2> QED
    BY <1>1, <1>3, <1>5, <2>1, <2>3, <2>4, <2>5 DEF Reading
<1>8. 1 \in 1..(Len(Said) + 1)
  BY <1>6
<1>9. at' \in {"run", "wait"} /\ at' # "wait" /\ count' = Len(out')
  BY <1>1, <1>3
<1> QED
  BY <1>1, <1>3, <1>4, <1>7, <1>8, <1>9, TurnGoesOn

\* The other turns while it thinks: nothing is found.
LEMMA ThinkingStep ==
  ASSUME StreamTypes, Clean(text), Progress, Thinks,
         PreambleLine \/ PreambleBeforeSeparator \/ TakeElement \/ SkipEmpty \/ WaitForMore \/ RunsOut
  PROVE  Progress'
<1>1. Searches /\ at = "run" /\ text' = text /\ closed' = closed /\ thought' = Thought
  BY
     DEF PreambleLine, PreambleBeforeSeparator, TakeElement, SkipEmpty, AtElement, WaitForMore, RunsOut,
         NeedsMore,
         Searches
<1>2. /\ count = 0 /\ out = <<>> /\ text \in Seq(Written) /\ text # <<>> /\ Neat(text) /\ ~Thought
      /\ Dropped = Least(LinesOf(text, "close"))
      /\ \/ buffer = text /\ OpenAt = 1 /\ Thinking /\ CloseAt = Dropped
            /\ FindLine(buffer, "end") = Least(LinesOf(text, "end"))
         \/ Halved /\ OpenAt = 0 /\ Dropped = 0 /\ ~Thinking
            /\ FindLine(buffer, "end") = 0 /\ LinesOf(text, "end") = {}
  BY <1>1, ThinkingIs
<1>3. Dropped = 0
  BY <1>1, <1>2 DEF Searches
<1>4. First = 0
  BY <1>1, <1>3, NoSeparatorYet
<1>5. \A isClosed : Meaning(text, isClosed) =
                      IF isClosed /\ LinesOf(text, "end") = {} THEN <<Error("truncated")>> ELSE <<>>
  <2>1. text[1].w = "open" /\ Least(LinesOf(text, "close")) = 0
    BY <1>2, <1>3 DEF Thinks, Opened
  <2> QED
    BY <1>2, <2>1 DEF Meaning
<1>6. FindLine(buffer, "end") = 0 <=> LinesOf(text, "end") = {}
  <2>1. LinesOf(text, "end") = Spots(text, "end")
    BY <1>2, NeatLines DEF Alone
  <2>2. /\ Spots(text, "end") = {} => Least(Spots(text, "end")) = 0
        /\ Spots(text, "end") # {} => Least(Spots(text, "end")) > 0
    BY <1>2, SpotsAre
  <2>3. Least(LinesOf(text, "end")) = 0 <=> LinesOf(text, "end") = {}
    BY <2>1, <2>2
  <2> QED
    BY <1>2, <2>3
<1>7. ~PreambleLine /\ ~PreambleBeforeSeparator /\ ~TakeElement /\ ~SkipEmpty
  BY <1>2, <1>4 DEF PreambleLine, Preamble, PreambleBeforeSeparator, TakeElement, SkipEmpty, AtElement
<1>8. CASE WaitForMore
  <2>1. /\ ~closed /\ at' = "wait" /\ buffer' = buffer /\ out' = out /\ count' = count
    BY <1>8 DEF WaitForMore
  <2>2. out' = Meaning(text', FALSE) /\ ~closed'
    BY <1>1, <1>2, <1>5, <2>1
  <2>3. Thinks' /\ (buffer' = text' \/ Halved')
    BY <1>1, <1>2, <2>1 DEF Thinks, Opened, Halved
  <2>4. text' # <<>> /\ count' = Len(out') /\ out' = <<>>
    BY <1>1, <1>2, <2>1
  <2> QED
    BY <2>1, <2>2, <2>3, <2>4 DEF Progress
<1>9. CASE RunsOut
  <2>1. /\ closed /\ at' = "done"
        /\ out' = IF FindLine(buffer, "end") # 0 THEN out ELSE Append(out, Error("truncated"))
    BY <1>9 DEF RunsOut, Fail
  <2>2. out' = IF LinesOf(text, "end") = {} THEN <<Error("truncated")>> ELSE <<>>
    <3>1. Append(<<>>, Error("truncated")) = <<Error("truncated")>>
      OBVIOUS
    <3> QED
      BY <1>2, <1>6, <2>1, <3>1
  <2>3. Meaning(text, closed) = IF LinesOf(text, "end") = {} THEN <<Error("truncated")>> ELSE <<>>
    BY <1>5, <2>1
  <2>4. out' = Meaning(text', closed')
    BY <1>1, <2>2, <2>3
  <2> QED
    BY <2>1, <2>4 DEF Progress
<1> QED
  BY <1>7, <1>8, <1>9

-----------------------------------------------------------------------------
(* The channel, with a clean text.                                         *)

\* What is written later moves no word.
LEMMA SpotsOfMore ==
  ASSUME NEW t \in Seq(Written), NEW s \in Seq(Written), NEW w
  PROVE  Spots(t, w) = Spots(t \o s, w) \cap 1..Len(t)
<1>1. PICK c \in Seq(Written) :
        /\ c = t \o s /\ Len(c) = Len(t) + Len(s)
        /\ \A i \in 1..Len(t) : c[i] = t[i]
  <2>1. t \o s \in Seq(Written)
    BY ConcatIs
  <2> WITNESS t \o s \in Seq(Written)
  <2> QED
    BY ConcatIs
<1>2. DOMAIN t = 1..Len(t) /\ DOMAIN c = 1..Len(c) /\ Len(t) \in Nat /\ Len(s) \in Nat
  OBVIOUS
<1> QED
  BY <1>1, <1>2 DEF Spots

\* What arrives is read on with.
LEMMA ReadingGrows ==
  ASSUME NEW t \in Seq(Written), NEW s \in Seq(Written), NEW p, NEW b, NEW o, Reading(t, p, b, o)
  PROVE  p \in 1..(Len(t \o s) + 1) /\ Reading(t \o s, p, b \o s, o)
<1>1. PICK c \in Seq(Written) : c = t \o s /\ Len(c) = Len(t) + Len(s)
  BY ConcatIs
<1>2. /\ p \in 1..(Len(t) + 1) /\ b = From(t, p) /\ Len(t) \in Nat /\ Len(s) \in Nat
      /\ p > 1 => 1 \in Spots(t, "sep") /\ p \in Spots(t, "sep")
      /\ \A e \in Spots(t, "end") : e >= p
      /\ o = Segments(t, Marks(t, p)) /\ \A k \in 1..Len(o) : Fine(o[k])
  BY DEF Reading
<1>3. From(c, p) = b \o s
  BY <1>1, <1>2, FromConcat
<1>4. ASSUME NEW w PROVE /\ Spots(t, w) = Spots(c, w) \cap 1..Len(t)
                         /\ Spots(c, w) \in SUBSET (1..Len(c)) /\ Spots(c, w) \subseteq Nat
  BY <1>1, SpotsOfMore, SpotsAre
<1>5. p > 1 => 1 \in Spots(c, "sep") /\ p \in Spots(c, "sep") /\ p <= Len(t)
  BY <1>2, <1>4
<1>6. p = 1 \/ p > 1
  BY <1>2
<1>7. \A e \in Spots(c, "end") : e >= p
  <2> SUFFICES ASSUME NEW e \in Spots(c, "end") PROVE e >= p
    OBVIOUS
  <2>1. e \in Nat /\ e >= 1
    BY <1>4
  <2>2. e \in 1..Len(t) \/ e > Len(t)
    BY <1>2, <2>1
  <2>3. e \in 1..Len(t) => e >= p
    BY <1>2, <1>4
  <2> QED
    BY <1>2, <1>5, <1>6, <2>1, <2>2, <2>3
<1>8. o = Segments(c, Marks(c, p))
  <2>1. CASE p = 1
    <3>1. Marks(c, 1) \subseteq {1} /\ Marks(t, 1) \subseteq {1}
      BY <1>4 DEF Marks
    <3> QED
      BY <1>2, <2>1, <3>1, FewMarks
  <2>2. CASE p > 1
    <3>1. Marks(c, p) = Marks(t, p)
      BY <1>2, <1>4, <1>5, <2>2 DEF Marks
    <3>2. Marks(t, p) \in SUBSET (1..Len(t))
      BY <1>4 DEF Marks
    <3>3. Segments(t \o s, Marks(t, p)) = Segments(t, Marks(t, p))
      BY <3>2, SegmentsStay
    <3> QED
      BY <1>1, <1>2, <3>1, <3>3
  <2> QED
    BY <1>6, <2>1, <2>2
<1>9. p \in 1..(Len(c) + 1)
  BY <1>1, <1>2
<1> QED
  BY <1>1, <1>2, <1>3, <1>5, <1>7, <1>8, <1>9 DEF Reading

\* FindLine stays within the text.
LEMMA FindLineIs ==
  ASSUME NEW t \in Seq(Token), NEW w
  PROVE  FindLine(t, w) \in 0..Len(t)
<1>1. LinesOf(t, w) \subseteq Nat /\ LinesOf(t, w) \in SUBSET (1..Len(t)) /\ Len(t) \in Nat
  BY DEF LinesOf
<1>2. LinesOf(t, w) # {} => Least(LinesOf(t, w)) \in LinesOf(t, w)
  BY <1>1, LeastIs
<1>3. LinesOf(t, w) = {} => Least(LinesOf(t, w)) = 0
  BY DEF Least
<1> QED
  BY <1>1, <1>2, <1>3 DEF FindLine

\* Only half a tag is made whole.
LEMMA WholeIs ==
  /\ \A b \in Seq(Token) : Whole(b) \in Seq(Token) /\ Len(Whole(b)) = Len(b)
  /\ \A b \in Seq(Written) : Whole(b) = b
<1>1. ASSUME NEW b \in Seq(Token) PROVE Whole(b) \in Seq(Token) /\ Len(Whole(b)) = Len(b)
  <2>1. CASE b # <<>> /\ Last(b).w = "half"
    <3>1. Whole(b) = [b EXCEPT ![Len(b)].w = "open"]
      BY <2>1 DEF Whole
    <3>2. Len(b) \in 1..Len(b) /\ b[Len(b)] \in Token
      BY <2>1
    <3>3. [b[Len(b)] EXCEPT !.w = "open"] \in Token
      BY <3>2 DEF Token, Words
    <3> QED
      BY <3>1, <3>2, <3>3
  <2>2. CASE ~(b # <<>> /\ Last(b).w = "half")
    <3>1. Whole(b) = b
      BY <2>2 DEF Whole
    <3> QED
      BY <3>1
  <2> QED
    BY <2>1, <2>2
<1>2. ASSUME NEW b \in Seq(Written) PROVE Whole(b) = b
  <2>1. b # <<>> => Last(b) \in Written
    BY DEF Last
  <2>2. ~(b # <<>> /\ Last(b).w = "half")
    BY <2>1 DEF Written
  <2> QED
    BY <2>2 DEF Whole
<1> QED
  BY <1>1, <1>2

\* The rest of the tag makes it whole.
LEMMA HalvedIs ==
  ASSUME StreamTypes, Halved, text[1].w = "open"
  PROVE  Whole(buffer) = text
<1>1. text \in Seq(Token) /\ Len(text) = 1 /\ text[1] \in Token /\ buffer \in Seq(Token)
  BY DEF Halved, StreamTypes, Written
<1>2. buffer = [text EXCEPT ![1].w = "half"]
  BY DEF Halved
<1>3. PICK x \in Token : x = [text[1] EXCEPT !.w = "half"] /\ x.w = "half" /\ x.nl = text[1].nl
  <2>1. [text[1] EXCEPT !.w = "half"] \in Token
    BY <1>1 DEF Token, Words
  <2> WITNESS [text[1] EXCEPT !.w = "half"] \in Token
  <2> QED
    BY <1>1 DEF Token
<1>4. Len(buffer) = 1 /\ buffer[1] = x
  BY <1>1, <1>2, <1>3
<1>5. buffer # <<>> /\ Last(buffer).w = "half"
  <2>1. Last(buffer) = buffer[Len(buffer)]
    BY DEF Last
  <2>2. buffer # <<>>
    <3>1. Len(buffer) # 0
      BY <1>4
    <3> QED
      BY <3>1
  <2>3. Last(buffer) = x
    BY <1>4, <2>1
  <2> QED
    BY <1>3, <2>2, <2>3
<1>6. Whole(buffer) = [buffer EXCEPT ![Len(buffer)].w = "open"]
  BY <1>5 DEF Whole
<1>7. PICK y \in Token : y = [x EXCEPT !.w = "open"] /\ y.w = "open" /\ y.nl = x.nl
  <2>1. [x EXCEPT !.w = "open"] \in Token
    BY <1>1 DEF Token, Words
  <2> WITNESS [x EXCEPT !.w = "open"] \in Token
  <2> QED
    BY <1>1 DEF Token
<1>8. y = text[1]
  BY <1>1, <1>3, <1>7 DEF Token
<1>9. PICK c \in Seq(Token) : c = [buffer EXCEPT ![1] = y] /\ Len(c) = 1 /\ c[1] = y
  <2>1. 1 \in 1..Len(buffer)
    BY <1>4
  <2>2. [buffer EXCEPT ![1] = y] \in Seq(Token)
    BY <1>1, <2>1
  <2> WITNESS [buffer EXCEPT ![1] = y] \in Seq(Token)
  <2>3. Len([buffer EXCEPT ![1] = y]) = Len(buffer) /\ [buffer EXCEPT ![1] = y][1] = y
    BY <1>1, <2>1
  <2> QED
    BY <1>4, <2>3
<1>10. Whole(buffer) = c
  BY <1>4, <1>6, <1>7, <1>9
<1>11. c = text
  <2>1. Len(c) = Len(text) /\ \A i \in 1..Len(c) : c[i] = text[i]
    <3>1. Len(c) = 1 /\ Len(text) = 1 /\ c[1] = text[1]
      BY <1>1, <1>8, <1>9
    <3>2. \A i \in 1..1 : i = 1
      OBVIOUS
    <3> QED
      BY <3>1, <3>2
  <2> QED
    BY <1>1, <2>1, SameSeq
<1> QED
  BY <1>10, <1>11

\* Every step keeps the types.
LEMMA StreamTypesStep ==
  ASSUME StreamTypes, StreamNext
  PROVE  StreamTypes'
<1>1. /\ text \in Seq(Written) /\ buffer \in Seq(Token) /\ thought \in BOOLEAN /\ closed \in BOOLEAN
      /\ text \in Seq(Token) /\ Len(buffer) \in Nat
  BY DEF StreamTypes, Written
<1>2. ASSUME NEW b \in Seq(Token), NEW i \in Nat, i > 0 PROVE From(b, i) \in Seq(Token)
  <2>1. CASE i <= Len(b) + 1
    BY <1>2, <2>1, FromIs
  <2>2. CASE i > Len(b) + 1
    <3>1. From(b, i) = <<>>
      BY <1>2, <2>2 DEF From
    <3> QED
      BY <3>1
  <2> QED
    BY <1>2, <2>1, <2>2
<1>3. Thought \in BOOLEAN
  BY DEF Thought
<1>4. ASSUME NEW t \in Seq(Written), Write(t), t # <<>> PROVE text' \in Seq(Written) /\ buffer' \in Seq(Token)
  <2>1. text' = text \o t
    BY <1>4 DEF Write
  <2>2. PICK b \in Seq(Token) : b = Whole(buffer) \o t /\ b # <<>>
    <3>1. Whole(buffer) \in Seq(Token) /\ t \in Seq(Token)
      BY <1>1, WholeIs DEF Written
    <3>2. PICK x \in Seq(Token) : x = Whole(buffer)
      BY <3>1
    <3>3. x \o t \in Seq(Token) /\ x \o t # <<>>
      BY <1>4, <3>1
    <3> QED
      BY <3>2, <3>3
  <2>3. buffer' = b \/ buffer' = [b EXCEPT ![Len(b)].w = "half"]
    BY <1>4, <2>2 DEF Write
  <2>4. [b EXCEPT ![Len(b)].w = "half"] \in Seq(Token)
    <3>1. Len(b) \in 1..Len(b) /\ b[Len(b)] \in Token
      BY <2>2
    <3>2. [b[Len(b)] EXCEPT !.w = "half"] \in Token
      BY <3>1 DEF Token, Words
    <3> QED
      BY <3>1, <3>2
  <2>5. text' \in Seq(Written)
    BY <1>1, <2>1
  <2>6. buffer' \in Seq(Token)
    BY <2>2, <2>3, <2>4
  <2> QED
    BY <2>5, <2>6
<1>5. CASE PreambleBeforeThought
  BY <1>1, <1>5 DEF PreambleBeforeThought, StreamTypes
<1>6. CASE DropThought
  <2>1. CloseAt \in Nat
    BY <1>1, FindLineIs DEF CloseAt
  <2> QED
    BY <1>1, <1>2, <1>6, <2>1 DEF DropThought, StreamTypes
<1>7. CASE PreambleLine
  BY <1>1, <1>3, <1>7 DEF PreambleLine, StreamTypes
<1>8. CASE PreambleBeforeSeparator
  BY <1>1, <1>3, <1>8 DEF PreambleBeforeSeparator, StreamTypes
<1>9. Rest \in Seq(Token) /\ Boundary \in Nat
  <2>1. First \in Nat
    BY <1>1, FindLineIs DEF First
  <2>2. Rest \in Seq(Token)
    BY <1>1, <1>2, <2>1 DEF Rest
  <2>3. NextSep \in Nat /\ NextEnd \in Nat
    BY <2>2, FindLineIs DEF NextSep, NextEnd
  <2> QED
    BY <2>2, <2>3 DEF Boundary
<1>10. CASE TakeElement
  BY <1>1, <1>2, <1>3, <1>9, <1>10 DEF TakeElement, StreamTypes
<1>11. CASE SkipEmpty
  BY <1>1, <1>3, <1>9, <1>11 DEF SkipEmpty, StreamTypes
<1>12. CASE WaitForMore
  BY <1>1, <1>3, <1>12 DEF WaitForMore, StreamTypes
<1>13. CASE RunsOut
  BY <1>1, <1>3, <1>13 DEF RunsOut, StreamTypes
<1>14. CASE Begins
  <2>1. PICK t \in Openings : Write(t)
    BY <1>14 DEF Begins
  <2>2. t \in Seq(Written) /\ t # <<>>
    BY StreamAssumption
  <2>3. text' \in Seq(Written) /\ buffer' \in Seq(Token)
    BY <1>4, <2>1, <2>2
  <2> QED
    BY <1>1, <1>14, <2>3 DEF Begins, StreamTypes
<1>15. CASE Chunks
  <2>1. PICK token \in Alphabet : Write(<<token>>)
    BY <1>15 DEF Chunks
  <2>2. <<token>> \in Seq(Written) /\ <<token>> # <<>>
    BY StreamAssumption
  <2>3. text' \in Seq(Written) /\ buffer' \in Seq(Token)
    BY <1>4, <2>1, <2>2
  <2> QED
    BY <1>1, <1>15, <2>3 DEF Chunks, StreamTypes
<1>16. CASE Completes
  BY <1>1, <1>16, WholeIs DEF Completes, StreamTypes
<1>17. CASE Closes
  BY <1>1, <1>17 DEF Closes, StreamTypes
<1>18. CASE ChannelFails
  BY <1>1, <1>18 DEF ChannelFails, StreamTypes
<1> QED
  BY <1>5, <1>6, <1>7, <1>8, <1>10, <1>11, <1>12, <1>13, <1>14, <1>15, <1>16, <1>17, <1>18
     DEF StreamNext, Turn

\* What arrives while next() waits.
LEMMA WriteStep ==
  ASSUME StreamTypes, Clean(text) => Progress, at # "done", ~closed, Clean(text'),
         NEW t \in Seq(Written), t # <<>>, Write(t),
         out' = out, count' = count, thought' = thought, closed' = closed, at' \in {"chunk", "run"}
  PROVE  Progress'
<1>1. /\ text' = text \o t /\ text \in Seq(Written) /\ buffer \in Seq(Token)
      /\ \/ buffer' = Whole(buffer) \o t
         \/ Last(t).w = "open" /\ buffer' = [Whole(buffer) \o t EXCEPT ![Len(Whole(buffer) \o t)].w = "half"]
  BY DEF Write, StreamTypes
<1>2. /\ Clean(text) /\ Progress
      /\ \A w : Spots(text, w) = Spots(text', w) \cap 1..Len(text)
  BY <1>1, CleanBefore
<1>3. /\ text = <<>> => ~thought
      /\ count = Len(out)
      /\ Thinks => out = <<>> /\ (buffer = text \/ Halved)
  BY <1>2 DEF Progress
<1>4. ~Thinks => Heard /\ \E p \in 1..(Len(Said) + 1) : Reading(Said, p, buffer, out)
  BY <1>2 DEF Progress, Heard
<1>5. PICK text1 \in Seq(Written) :
        /\ text1 = text' /\ Len(text1) = Len(text) + Len(t) /\ text1 # <<>>
        /\ \A i \in 1..Len(text) : text1[i] = text[i]
        /\ text1[Len(text1)] = Last(t)
        /\ text = <<>> => text1 = t
  <2>1. text \o t \in Seq(Written)
    BY <1>1
  <2>2. /\ Len(text \o t) = Len(text) + Len(t) /\ text \o t # <<>>
        /\ \A i \in 1..Len(text) : (text \o t)[i] = text[i]
        /\ (text \o t)[Len(text) + Len(t)] = Last(t)
        /\ text = <<>> => text \o t = t
    <3>1. Len(t) # 0 /\ Len(t) \in Nat /\ Len(text) \in Nat
      BY <1>1
    <3>2. /\ Len(text \o t) = Len(text) + Len(t)
          /\ \A i \in 1..Len(text) : (text \o t)[i] = text[i]
      BY <1>1
    <3>3. (text \o t)[Len(text) + Len(t)] = t[Len(t)]
      BY <1>1, <3>1
    <3>4. text \o t # <<>>
      BY <3>1, <3>2
    <3>5. text = <<>> => text \o t = t
      OBVIOUS
    <3> QED
      BY <3>2, <3>3, <3>4, <3>5 DEF Last
  <2>3. PICK c \in Seq(Written) : c = text \o t
    BY <2>1
  <2> QED
    BY <1>1, <2>2, <2>3
<1>6. /\ Len(text) \in Nat /\ Len(t) \in Nat /\ Len(t) > 0 /\ DOMAIN text1 = 1..Len(text1)
      /\ text # <<>> <=> Len(text) > 0
  BY <1>1
<1>7. Last(t).w = "open" => text = <<>> /\ Len(t) = 1
  <2> SUFFICES ASSUME Last(t).w = "open" PROVE text = <<>> /\ Len(t) = 1
    OBVIOUS
  <2>1. Len(text1) \in DOMAIN text1 /\ text1[Len(text1)].w = "open"
    BY <1>5, <1>6
  <2>2. Len(text1) = 1
    BY <1>5, <2>1 DEF Clean
  <2> QED
    BY <1>5, <1>6, <2>2
<1>8. CASE text = <<>>
  <2>1. ~Opened /\ Said = <<>> /\ ~thought /\ ~Thinks
    BY <1>2, <1>3, <1>4, <1>8, SaidIs DEF Opened, Thinks, StreamTypes
  <2>2. buffer = <<>> /\ out = <<>>
    <3>1. PICK p \in 1..(Len(Said) + 1) : Reading(Said, p, buffer, out)
      BY <1>4, <2>1
    <3>2. p = 1
      BY <2>1, <3>1
    <3>3. buffer = <<>>
      BY <2>1, <3>1, <3>2 DEF Reading, From
    <3>4. Marks(<<>>, 1) \subseteq {1}
      BY DEF Marks, Spots
    <3>5. out = <<>>
      BY <2>1, <3>1, <3>2, <3>4, FewMarks DEF Reading
    <3> QED
      BY <3>3, <3>5
  <2>3. Whole(buffer) \o t = t
    <3>1. <<>> \in Seq(Written) /\ <<>> \o t = t
      OBVIOUS
    <3>2. Whole(<<>>) = <<>>
      BY <3>1, WholeIs
    <3> QED
      BY <2>2, <3>1, <3>2
  <2>4. text1 = t /\ text' = t /\ (buffer' = t \/ (Last(t).w = "open" /\ buffer' = [t EXCEPT ![Len(t)].w = "half"]))
    BY <1>1, <1>5, <1>8, <2>3
  <2>5. CASE t[1].w = "open"
    <3>1. Thinks'
      BY <1>6, <2>1, <2>4, <2>5 DEF Thinks, Opened
    <3>2. buffer' = text' \/ Halved'
      BY <1>7, <2>4 DEF Halved
    <3>3. out' = <<>> /\ text' # <<>> /\ count' = Len(out')
      BY <1>3, <2>2, <2>4
    <3> QED
      BY <3>1, <3>2, <3>3 DEF Progress
  <2>6. CASE t[1].w # "open"
    <3>1. ~Opened'
      BY <2>4, <2>6 DEF Opened
    <3>2. buffer' = t
      <4>1. Last(t).w # "open"
        <5>1. Len(t) = 1 => Last(t) = t[1]
          BY DEF Last
        <5> QED
          BY <1>7, <2>6, <5>1
      <4> QED
        BY <2>4, <4>1
    <3>3. Said' = t
      <4>1. Dropped' = 0
        BY <3>1 DEF Dropped
      <4>2. Said' = From(text', Dropped' + 1)
        BY DEF Said
      <4>3. From(t, 1) = t
        BY FromAll
      <4> QED
        BY <2>4, <4>1, <4>2, <4>3
    <3>4. Reading(t, 1, t, <<>>)
      <4>1. Marks(t, 1) \subseteq {1} /\ \A e \in Spots(t, "end") : e >= 1
        BY SpotsAre DEF Marks
      <4>2. From(t, 1) = t /\ Segments(t, Marks(t, 1)) = <<>>
        BY <4>1, FromAll, FewMarks
      <4> QED
        BY <1>6, <4>1, <4>2 DEF Reading
    <3>5. 1 \in 1..(Len(Said') + 1) /\ Reading(Said', 1, buffer', out')
      BY <1>6, <2>2, <3>2, <3>3, <3>4
    <3>6. ~Thinks' /\ text' # <<>> /\ count' = Len(out')
      BY <1>3, <1>6, <2>4, <3>1 DEF Thinks
    <3> QED
      BY <3>1, <3>5, <3>6 DEF Progress
  <2> QED
    BY <2>5, <2>6
<1>9. CASE text # <<>>
  <2>1. buffer' = Whole(buffer) \o t
    BY <1>1, <1>7, <1>9
  <2>2. Opened' = Opened /\ Thinks' = Thinks /\ text' # <<>>
    <3>1. 1 \in 1..Len(text)
      BY <1>6, <1>9
    <3>2. text'[1] = text[1] /\ text' # <<>>
      BY <1>5, <3>1
    <3> QED
      BY <1>9, <3>2 DEF Opened, Thinks
  <2>3. CASE Thinks
    <3>1. Whole(buffer) = text
      <4>1. Opened
        BY <2>3 DEF Thinks
      <4> QED
        BY <1>1, <1>3, <2>3, <4>1, WholeIs, HalvedIs DEF Opened
    <3>2. buffer' = text' /\ out' = <<>> /\ count' = Len(out')
      BY <1>1, <1>3, <2>1, <2>3, <3>1
    <3> QED
      BY <2>2, <2>3, <3>2 DEF Progress
  <2>4. CASE ~Thinks
    <3>1. PICK p \in 1..(Len(Said) + 1) : Reading(Said, p, buffer, out)
      BY <1>4, <2>4
    <3>2. Heard /\ Said \in Seq(Written) /\ Dropped \in 0..Len(text)
      BY <1>2, <1>4, <2>4, SaidIs
    <3>3. buffer' = buffer \o t
      <4>1. buffer \in Seq(Written)
        BY <3>1, <3>2, FromIs DEF Reading
      <4> QED
        BY <2>1, <4>1, WholeIs
    <3>4. Dropped' = Dropped
      <4>1. CASE Opened
        <5>1. LinesOf(text, "close") = Spots(text, "close") /\ LinesOf(text1, "close") = Spots(text1, "close")
          BY <1>2, <1>5, CleanIsNeat, NeatLines DEF Alone
        <5>2. Dropped = Least(Spots(text, "close")) /\ Dropped' = Least(Spots(text1, "close")) /\ Dropped # 0
          BY <1>5, <2>2, <3>2, <4>1, <5>1 DEF Dropped, Heard
        <5>3. Spots(text, "close") = Spots(text1, "close") \cap 1..Len(text)
          BY <1>2, <1>5
        <5>4. /\ Spots(text, "close") # {}
              /\ Dropped \in Spots(text, "close") /\ \A i \in Spots(text, "close") : Dropped <= i
          BY <1>1, <5>2, SpotsAre
        <5>5. PICK x \in Spots(text1, "close") : x = Dropped' /\ \A i \in Spots(text1, "close") : x <= i
          BY <1>5, <5>2, <5>3, <5>4, SpotsAre
        <5>6. x <= Dropped /\ x \in Nat /\ x > 0 /\ Dropped \in 1..Len(text)
          BY <5>3, <5>4, <5>5, SpotsAre
        <5>7. x \in Spots(text, "close")
          BY <1>6, <5>3, <5>6
        <5>8. Dropped <= x
          BY <5>4, <5>7
        <5> QED
          BY <5>5, <5>6, <5>8
      <4>2. CASE ~Opened
        BY <2>2, <4>2 DEF Dropped
      <4> QED
        BY <4>1, <4>2
    <3>5. Said' = Said \o t
      <4>1. PICK x \in 1..(Len(text) + 1) : x = Dropped + 1
        BY <1>6, <3>2
      <4>2. From(text \o t, x) = From(text, x) \o t
        BY <1>1, FromConcat
      <4>3. Said' = From(text', Dropped' + 1)
        BY DEF Said
      <4> QED
        BY <1>1, <3>4, <4>1, <4>2, <4>3 DEF Said
    <3>6. p \in 1..(Len(Said') + 1) /\ Reading(Said', p, buffer', out')
      BY <3>1, <3>2, <3>3, <3>5, ReadingGrows
    <3>7. Opened' => Dropped' # 0
      BY <2>2, <3>2, <3>4 DEF Heard
    <3> QED
      BY <1>3, <2>2, <2>4, <3>6, <3>7 DEF Progress
  <2> QED
    BY <2>3, <2>4
<1> QED
  BY <1>8, <1>9

\* The rest of a tag arrives.
LEMMA CompletesStep ==
  ASSUME StreamTypes, Clean(text), Progress, Completes
  PROVE  Progress'
<1>1. /\ at = "wait" /\ buffer # <<>> /\ Last(buffer).w = "half" /\ buffer' = Whole(buffer) /\ at' = "run"
      /\ text' = text /\ thought' = thought /\ count' = count /\ out' = out /\ closed' = closed
  BY DEF Completes
<1>2. buffer \notin Seq(Written)
  <2> SUFFICES ASSUME buffer \in Seq(Written) PROVE FALSE
    OBVIOUS
  <2>1. Last(buffer) \in Written
    BY <1>1 DEF Last
  <2> QED
    BY <1>1, <2>1 DEF Written
<1>3. Thinks
  <2> SUFFICES ASSUME ~Thinks PROVE FALSE
    OBVIOUS
  <2>1. Heard /\ \E p \in 1..(Len(Said) + 1) : Reading(Said, p, buffer, out)
    BY <1>1 DEF Progress, Heard
  <2>2. buffer \in Seq(Written)
    BY <2>1, SaidIs, FromIs DEF Reading
  <2> QED
    BY <1>2, <2>2
<1>4. Halved /\ out = <<>> /\ count = Len(out)
  BY <1>1, <1>2, <1>3 DEF Progress, StreamTypes
<1>5. buffer' = text /\ text # <<>>
  BY <1>1, <1>3, <1>4, HalvedIs DEF Thinks, Opened
<1>6. Thinks' /\ buffer' = text' /\ out' = <<>> /\ count' = Len(out') /\ text' # <<>>
  BY <1>1, <1>3, <1>4, <1>5 DEF Thinks, Opened
<1> QED
  BY <1>1, <1>6 DEF Progress

\* The channel closes.
LEMMA ClosesStep ==
  ASSUME StreamTypes, Progress, Closes
  PROVE  Progress'
<1>1. /\ at = "wait" /\ closed' = TRUE /\ at' = "run"
      /\ text' = text /\ thought' = thought /\ count' = count /\ out' = out /\ buffer' = buffer
  BY DEF Closes
<1>2. Thinks' = Thinks /\ Halved' = Halved /\ Said' = Said /\ Opened' = Opened /\ Dropped' = Dropped
  BY <1>1 DEF Thinks, Halved, Said, Opened, Dropped
<1>3. /\ text = <<>> => ~thought
      /\ count = Len(out)
      /\ IF Thinks THEN out = <<>> /\ (buffer = text \/ Halved)
         ELSE (Opened => Dropped # 0) /\ \E p \in 1..(Len(Said) + 1) : Reading(Said, p, buffer, out)
  BY <1>1 DEF Progress
<1>4. /\ text' = <<>> => ~thought'
      /\ count' = Len(out')
      /\ IF Thinks' THEN out' = <<>> /\ (buffer' = text' \/ Halved')
         ELSE (Opened' => Dropped' # 0) /\ \E p \in 1..(Len(Said') + 1) : Reading(Said', p, buffer', out')
  BY <1>1, <1>2, <1>3
<1> QED
  BY <1>1, <1>4 DEF Progress

\* A chunk says that the request failed.
LEMMA ChannelFailsStep ==
  ASSUME StreamTypes, Clean(text), Progress, ChannelFails
  PROVE  Progress'
<1>1. at = "wait" /\ at' = "done" /\ out' = Append(out, Error("channel"))
  BY DEF ChannelFails, Fail
<1>2. PICK S : out \in Seq(S) /\ Error("channel") \in S
  <2>1. CASE Thinks
    <3>1. out = <<>>
      BY <1>1, <2>1 DEF Progress
    <3>2. <<>> \in Seq({Error("channel")}) /\ Error("channel") \in {Error("channel")}
      OBVIOUS
    <3> QED
      BY <3>1, <3>2
  <2>2. CASE ~Thinks
    <3>1. Heard /\ \E p \in 1..(Len(Said) + 1) : Reading(Said, p, buffer, out)
      BY <1>1, <2>2 DEF Progress, Heard
    <3> QED
      BY <3>1, SaidIs, ReadingIsSeq
  <2> QED
    BY <2>1, <2>2
<1>3. out' # <<>> /\ Last(out') = Error("channel")
  <2>1. PICK x \in S : x = Error("channel")
    BY <1>2
  <2>2. Append(out, x) # <<>> /\ Append(out, x)[Len(Append(out, x))] = x
    <3>1. PICK o \in Seq(S) : o = out
      BY <1>2
    <3>2. Len(Append(o, x)) = Len(o) + 1 /\ Append(o, x)[Len(o) + 1] = x /\ Len(o) \in Nat
      OBVIOUS
    <3>3. Append(o, x) # <<>>
      BY <3>2
    <3> QED
      BY <3>1, <3>2, <3>3
  <2> QED
    BY <1>1, <2>1, <2>2 DEF Last
<1>4. Last(out').what = "channel"
  BY <1>3 DEF Error, Result
<1> QED
  BY <1>1, <1>3, <1>4 DEF Progress

\* Every step from a state where a clean text has been read as far as it should.
LEMMA ProgressStep ==
  ASSUME StreamTypes, Clean(text) => Progress, Clean(text'), StreamNext
  PROVE  Progress'
<1>1. ASSUME Turn, text' = text PROVE Progress'
  <2>1. Clean(text) /\ Progress
    BY <1>1
  <2>2. CASE PreambleBeforeThought
    BY <2>1, <2>2, NoPreambleBeforeThought
  <2>3. CASE DropThought
    BY <2>1, <2>3, DropThoughtStep
  <2>4. CASE PreambleLine
    BY <2>1, <2>4, PreambleLineStep, ThinkingStep
  <2>5. CASE PreambleBeforeSeparator
    BY <2>1, <2>5, PreambleBeforeSeparatorStep, ThinkingStep
  <2>6. CASE TakeElement
    BY <2>1, <2>6, TakeElementStep, ThinkingStep
  <2>7. CASE SkipEmpty
    BY <2>1, <2>7, SkipEmptyStep, ThinkingStep
  <2>8. CASE WaitForMore
    BY <2>1, <2>8, WaitForMoreStep, ThinkingStep
  <2>9. CASE RunsOut
    BY <2>1, <2>9, RunsOutStep, ThinkingStep
  <2> QED
    BY <1>1, <2>2, <2>3, <2>4, <2>5, <2>6, <2>7, <2>8, <2>9 DEF Turn
<1>2. ASSUME Turn PROVE text' = text
  BY <1>2
     DEF Turn, PreambleBeforeThought, DropThought, PreambleLine, PreambleBeforeSeparator, TakeElement,
         SkipEmpty,
             WaitForMore, RunsOut
<1>3. CASE Begins
  <2>1. PICK t \in Openings : Write(t)
    BY <1>3 DEF Begins
  <2>2. t \in Seq(Written) /\ t # <<>>
    BY StreamAssumption
  <2>3. /\ at # "done" /\ ~closed /\ out' = out /\ count' = count /\ thought' = thought /\ closed' = closed
        /\ at' \in {"chunk", "run"}
    BY <1>3 DEF Begins, ChunkGoesOn
  <2> QED
    BY <2>1, <2>2, <2>3, WriteStep
<1>4. CASE Chunks
  <2>1. PICK token \in Alphabet : Write(<<token>>)
    BY <1>4 DEF Chunks
  <2>2. PICK t \in Seq(Written) : t = <<token>> /\ t # <<>>
    <3>1. token \in Written
      BY StreamAssumption
    <3>2. <<token>> \in Seq(Written) /\ <<token>> # <<>>
      BY <3>1
    <3> QED
      BY <3>2
  <2>3. /\ at # "done" /\ ~closed /\ out' = out /\ count' = count /\ thought' = thought /\ closed' = closed
        /\ at' \in {"chunk", "run"}
    BY <1>4 DEF Chunks, ChunkGoesOn
  <2> QED
    BY <2>1, <2>2, <2>3, WriteStep
<1>5. CASE Completes
  <2>1. Clean(text) /\ Progress
    BY <1>5 DEF Completes
  <2> QED
    BY <1>5, <2>1, CompletesStep
<1>6. CASE Closes
  <2>1. Clean(text) /\ Progress
    BY <1>6 DEF Closes
  <2> QED
    BY <1>6, <2>1, ClosesStep
<1>7. CASE ChannelFails
  <2>1. Clean(text) /\ Progress
    BY <1>7 DEF ChannelFails
  <2> QED
    BY <1>7, <2>1, ChannelFailsStep
<1> QED
  BY <1>1, <1>2, <1>3, <1>4, <1>5, <1>6, <1>7 DEF StreamNext

\* next() begins with nothing read of nothing.
LEMMA StreamStart == StreamInit => StreamInv
<1> SUFFICES ASSUME StreamInit PROVE StreamInv
  OBVIOUS
<1>1. /\ text = <<>> /\ buffer = <<>> /\ thought = FALSE /\ count = 0 /\ out = <<>> /\ closed = FALSE /\ at = "wait"
  BY DEF StreamInit
<1>2. StreamTypes
  <2>1. <<>> \in Seq(Written) /\ <<>> \in Seq(Token)
    OBVIOUS
  <2> QED
    BY <1>1, <2>1 DEF StreamTypes
<1>3. ~Opened /\ ~Thinks /\ Dropped = 0
  BY <1>1 DEF Opened, Thinks, Dropped
<1>4. <<>> \in Seq(Written) /\ Len(<<>>) = 0 /\ DOMAIN <<>> = {}
  OBVIOUS
<1>5. Said = <<>>
  BY <1>1, <1>3 DEF Said, From
<1>6. Spots(<<>>, "sep") = {} /\ Spots(<<>>, "end") = {}
  BY <1>4 DEF Spots
<1>7. Reading(<<>>, 1, <<>>, <<>>)
  <2>1. Marks(<<>>, 1) \subseteq {1}
    BY <1>6 DEF Marks
  <2>2. Segments(<<>>, Marks(<<>>, 1)) = <<>>
    BY <2>1, FewMarks
  <2>3. From(<<>>, 1) = <<>>
    BY <1>4 DEF From
  <2> QED
    BY <1>4, <1>6, <2>2, <2>3 DEF Reading
<1>8. Meaning(<<>>, FALSE) = <<>>
  <2>1. Neat(<<>>)
    BY <1>4 DEF Neat
  <2>2. PICK t \in Seq(Written), isClosed \in BOOLEAN : t = <<>> /\ ~isClosed
    BY <1>4
  <2>3. Neat(t) /\ Spots(t, "sep") = {} /\ ~\E i \in 1..Len(t) : t[i].nl
    <3>1. 1..Len(t) = {}
      BY <1>4, <2>2
    <3> QED
      BY <1>6, <2>1, <2>2, <3>1
  <2>4. Body(t, isClosed) = CutOff(t, isClosed)
    BY <2>3, BodyIs
  <2>5. CutOff(t, isClosed) = <<>>
    BY <2>2 DEF CutOff
  <2>6. isClosed = FALSE
    BY <2>2
  <2> QED
    BY <2>2, <2>4, <2>5, <2>6 DEF Meaning
<1>9. Progress
  <2>1. 1 \in 1..(Len(Said) + 1) /\ Reading(Said, 1, buffer, out)
    BY <1>1, <1>4, <1>5, <1>7
  <2> QED
    BY <1>1, <1>3, <1>4, <1>8, <2>1 DEF Progress
<1> QED
  BY <1>2, <1>9 DEF StreamInv

\* Every step keeps the invariant.
LEMMA StreamStep == StreamInv /\ [StreamNext]_streamVars => StreamInv'
<1> SUFFICES ASSUME StreamInv, [StreamNext]_streamVars PROVE StreamInv'
  OBVIOUS
<1>1. CASE StreamNext
  <2>1. StreamTypes /\ (Clean(text) => Progress)
    BY DEF StreamInv
  <2>2. StreamTypes'
    BY <1>1, <2>1, StreamTypesStep
  <2>3. Clean(text') => Progress'
    BY <1>1, <2>1, ProgressStep
  <2> QED
    BY <2>2, <2>3 DEF StreamInv
<1>2. CASE UNCHANGED streamVars
  <2>1. Said' = Said /\ Opened' = Opened /\ Dropped' = Dropped /\ Thinks' = Thinks /\ Halved' = Halved
    BY <1>2 DEF streamVars, Said, Opened, Dropped, Thinks, Halved
  <2>2. StreamTypes'
    BY <1>2 DEF streamVars, StreamInv, StreamTypes
  <2>3. Progress => Progress'
    BY <1>2, <2>1 DEF streamVars, Progress
  <2>4. Clean(text') <=> Clean(text)
    BY <1>2 DEF streamVars
  <2> QED
    BY <2>2, <2>3, <2>4 DEF StreamInv
<1> QED
  BY <1>1, <1>2

\* However a clean answer is cut into chunks, next() has returned what the text so far
\* means, no element too early, too late, twice or cut short.
THEOREM StreamReadsWhatWasWritten == StreamSpec => []ReadsWhatWasWritten
<1>1. StreamInv => ReadsWhatWasWritten
  <2> SUFFICES ASSUME StreamInv, at \in {"wait", "done"}, Clean(text), out # <<>> => Last(out).what # "channel"
               PROVE  out = Meaning(text, closed)
    BY DEF ReadsWhatWasWritten
  <2>1. Progress /\ closed \in BOOLEAN
    BY DEF StreamInv, StreamTypes
  <2>2. CASE at = "wait"
    <3>1. ~closed /\ out = Meaning(text, FALSE)
      BY <2>1, <2>2 DEF Progress
    <3>2. closed = FALSE
      BY <2>1, <3>1
    <3> QED
      BY <3>1, <3>2
  <2>3. CASE at = "done"
    BY <2>1, <2>3 DEF Progress
  <2> QED
    BY <2>2, <2>3
<1> QED
  BY <1>1, StreamStart, StreamStep, PTL DEF StreamSpec

\* Whenever the loop of next() goes round, it does so on a shorter buffer.
THEOREM StreamTurnsConsume == StreamSpec => EveryTurnConsumes
<1>1. StreamInv /\ [StreamNext]_streamVars => [at = "run" /\ at' = "run" => Len(buffer') < Len(buffer)]_streamVars
  <2> SUFFICES ASSUME StreamInv, StreamNext, at = "run", at' = "run"
               PROVE  Len(buffer') < Len(buffer)
    OBVIOUS
  <2>1. buffer \in Seq(Token) /\ Len(buffer) \in Nat
    BY DEF StreamInv, StreamTypes
  <2>2. First \in 0..Len(buffer) /\ CloseAt \in 0..Len(buffer)
    BY <2>1, FindLineIs DEF First, CloseAt
  <2>3. First # 0 => Rest \in Seq(Token) /\ Len(Rest) = Len(buffer) - First
    <3> SUFFICES ASSUME First # 0 PROVE Rest \in Seq(Token) /\ Len(Rest) = Len(buffer) - First
      OBVIOUS
    <3>1. PICK p \in 1..(Len(buffer) + 1) : p = First + 1
      BY <2>1, <2>2
    <3>2. From(buffer, p) \in Seq(Token) /\ Len(From(buffer, p)) = Len(buffer) - p + 1
      BY <2>1, FromIs
    <3>3. Len(buffer) - p + 1 = Len(buffer) - First
      BY <2>1, <2>2, <3>1
    <3> QED
      BY <3>1, <3>2, <3>3 DEF Rest
  <2>4. CASE DropThought
    <3>1. PICK p \in 1..(Len(buffer) + 1) : p = CloseAt + 1 /\ p > 1
      BY <2>1, <2>2, <2>4 DEF DropThought
    <3>2. Len(From(buffer, p)) = Len(buffer) - p + 1
      BY <2>1, FromIs
    <3>3. buffer' = From(buffer, p)
      BY <2>4, <3>1 DEF DropThought
    <3> QED
      BY <2>1, <3>1, <3>2, <3>3
  <2>5. CASE TakeElement
    <3>1. /\ First # 0 /\ Boundary > 1 /\ Boundary # NextEnd /\ buffer' = From(Rest, Boundary)
      BY <2>5 DEF TakeElement, AtElement, Return, Error
    <3>2. Rest \in Seq(Token) /\ Len(Rest) = Len(buffer) - First /\ Len(Rest) \in Nat
      BY <2>3, <3>1
    <3>3. Boundary \in 0..Len(Rest)
      BY <3>2, FindLineIs DEF Boundary, NextSep, NextEnd
    <3>4. PICK d \in 1..(Len(Rest) + 1) : d = Boundary
      BY <3>1, <3>2, <3>3
    <3>5. Len(From(Rest, d)) = Len(Rest) - d + 1
      BY <3>2, FromIs
    <3> QED
      BY <2>1, <2>2, <3>1, <3>2, <3>4, <3>5
  <2>6. CASE SkipEmpty
    <3>1. First # 0 /\ buffer' = Rest
      BY <2>6 DEF SkipEmpty, AtElement
    <3> QED
      BY <2>1, <2>2, <2>3, <3>1
  <2>7. ~PreambleBeforeThought /\ ~PreambleLine /\ ~PreambleBeforeSeparator /\ ~WaitForMore /\ ~RunsOut
    BY DEF PreambleBeforeThought, PreambleLine, PreambleBeforeSeparator, WaitForMore, RunsOut, Fail
  <2>8. ~Begins /\ ~Chunks /\ ~Completes /\ ~Closes /\ ~ChannelFails
    BY DEF Begins, Chunks, Completes, Closes, ChannelFails
  <2> QED
    BY <2>4, <2>5, <2>6, <2>7, <2>8 DEF StreamNext, Turn
<1> QED
  BY <1>1, StreamStart, StreamStep, PTL DEF StreamSpec, EveryTurnConsumes
=============================================================================
