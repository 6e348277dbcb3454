--------------------------- MODULE ProcessService ---------------------------
(***************************************************************************)
(* What the process core of MeongOS promises a user: a set of processes    *)
(* that are alive, exactly one of which has the CPU.  A process is created *)
(* and destroyed by another that keeps the CPU; the one that has the CPU   *)
(* is never destroyed under itself; the CPU is only handed to a process    *)
(* that is alive.  Kernel.tla is shown to implement it.                    *)
(***************************************************************************)
CONSTANTS
    Processes,
    Nobody       \* not a process: what runs before the first one

VARIABLES alive, running

service == <<alive, running>>

Init == alive = {} /\ running = Nobody

Start(p) ==
    /\ alive = {}
    /\ alive' = {p}
    /\ running' = p

Create(p) ==
    /\ running # Nobody
    /\ p \notin alive
    /\ alive' = alive \cup {p}
    /\ UNCHANGED running

Destroy(p) ==
    /\ p \in alive \ {running}
    /\ alive' = alive \ {p}
    /\ UNCHANGED running

Dispatch(p) ==
    /\ p \in alive
    /\ running' = p
    /\ UNCHANGED alive

Next == \E p \in Processes : Start(p) \/ Create(p) \/ Destroy(p) \/ Dispatch(p)

Spec == Init /\ [][Next]_service
=============================================================================
