---------------------------- MODULE AgentMemory ----------------------------
(***************************************************************************)
(* What the memory of an instance promises, apart from how it keeps it: a   *)
(* row of the action log, once recorded, stays within what the next prompt  *)
(* tells.  It is told verbatim at first (current), then by a summary        *)
(* (session), then by the compressed history; it only moves in that         *)
(* direction and is never dropped on the way.  The promise ends when the    *)
(* store is excused: by a fault it does not claim to survive.               *)
(***************************************************************************)
EXTENDS Naturals

CONSTANT Rows
VARIABLES tier, excused

vars == <<tier, excused>>

Init == tier = [r \in Rows |-> "unborn"] /\ excused = FALSE

Held(kind) == {r \in Rows : tier[r] = kind}

Move(S, kind) == tier' = [r \in Rows |-> IF r \in S THEN kind ELSE tier[r]]

Record == \E r \in Held("unborn") :
            /\ \A q \in Held("unborn") : r <= q
            /\ Move({r}, "current")

Summarise == \E S \in SUBSET Held("current") : Move(S, "session")

Compress == \E S \in SUBSET Held("session") : Move(S, "history")

Keeps == (Record \/ Summarise \/ Compress) /\ UNCHANGED excused

Next == Keeps \/ excused' = TRUE

Spec == Init /\ [][Next]_vars
=============================================================================
