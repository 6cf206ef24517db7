------------------------------ MODULE RolePair ------------------------------
(***************************************************************************)
(* What the pair promises, without files, locks or heartbeats: each role   *)
(* is held by at most one process, and while one role is held the other    *)
(* does not stay vacant.                                                   *)
(***************************************************************************)
CONSTANTS
    Proc,    \* processes
    Nobody,  \* the holder of a vacant role
    Role     \* the roles

VARIABLE holder  \* the process that holds each role

Init == holder = [r \in Role |-> Nobody]

Acquire(r, p) ==
    /\ holder[r] = Nobody
    /\ holder' = [holder EXCEPT ![r] = p]

\* The holder returns from Run, or dies.
Vacate(r) ==
    /\ holder[r] # Nobody
    /\ holder' = [holder EXCEPT ![r] = Nobody]

Next == \E r \in Role : Vacate(r) \/ \E p \in Proc : Acquire(r, p)

\* A partner restarts the role.
Refill(r) ==
    /\ \E s \in Role \ {r} : holder[s] # Nobody
    /\ \E p \in Proc : Acquire(r, p)

Spec == Init /\ [][Next]_holder /\ \A r \in Role : WF_holder(Refill(r))
=============================================================================
