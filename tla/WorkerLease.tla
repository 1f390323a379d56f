----------------------------- MODULE WorkerLease -----------------------------
(***************************************************************************)
(* What the process supervisor promises about workers, without the tasks,  *)
(* notifications and locks it takes to keep it: a lease that one worker    *)
(* generation holds at a time.  Closing the lease does not call back the   *)
(* one request that was admitted before.                                   *)
(***************************************************************************)
EXTENDS Naturals

VARIABLES
    generation,   \* the newest generation
    holders,      \* the generations that hold the lease
    open,         \* requests are admitted
    admitted      \* a request was, and has not been granted yet

leaseVars == <<generation, holders, open, admitted>>

Init == generation = 0 /\ holders = {} /\ open = TRUE /\ admitted = FALSE

\* A new generation.  It holds the lease, unless it could not be started.
Give ==
    /\ holders = {}
    /\ generation' = generation + 1
    /\ holders' \in {{}, {generation + 1}}
    /\ admitted' = FALSE

\* The owner's own request opens a closed lease and is granted at once.
Open == ~admitted /\ open' = TRUE /\ Give

Admit ==
    /\ open /\ holders = {} /\ ~admitted
    /\ admitted' = TRUE
    /\ UNCHANGED <<generation, holders, open>>

Grant == admitted /\ Give /\ UNCHANGED open

\* The holder died or was sent to its death.
Revoke == holders' = {} /\ UNCHANGED <<generation, open, admitted>>

Close == open' = FALSE /\ UNCHANGED <<generation, holders, admitted>>

Next == Open \/ Admit \/ Grant \/ Revoke \/ Close

Spec == Init /\ [][Next]_leaseVars
=============================================================================
