----------------------------- MODULE Attention -----------------------------
(***************************************************************************)
(* What an instance promises its correspondents, apart from how its loop   *)
(* is built: a message is never dropped, and whoever reads one is awake to *)
(* think about it before it rests.                                         *)
(***************************************************************************)
VARIABLES
    awake,    \* will it think again of its own accord?
    mail      \* is there an unread message?

vars == <<awake, mail>>

Init == awake = FALSE /\ mail \in BOOLEAN

Arrive == mail' = TRUE /\ UNCHANGED awake

Attend == mail /\ mail' = FALSE /\ awake' = TRUE

\* Its own decision, the beat limit or a restart.
Rest == awake' = FALSE /\ mail' \in {mail, TRUE}

\* A timer, an error to report, the end of a cooldown.
Wake == awake' = TRUE /\ mail' \in {mail, TRUE}

Next == Arrive \/ Attend \/ Rest \/ Wake

\* Mail is attended to, however often the instance rests or is woken first.
Spec == Init /\ [][Next]_vars /\ SF_vars(Attend)
=============================================================================
