--------------------------- MODULE ServedDatabase ---------------------------
(***************************************************************************)
(* What a replica promises the clients of its Service, whatever restores   *)
(* come and go behind it: once a database is served there always is one,   *)
(* it only changes to one that is up, and a database that was replaced     *)
(* stays up until the grace period of the last change is over.             *)
(***************************************************************************)
EXTENDS Naturals

CONSTANT Restores       \* the restores there may be; 0 is none

VARIABLES
    up,         \* the restores whose database answers
    served,     \* the restore clients reach, 0 before the first
    settled     \* the grace period of the last change is over

vars == <<up, served, settled>>

Init == up = {} /\ served = 0 /\ settled = FALSE

ComesUp(r) ==
    /\ r \notin up
    /\ up' = up \cup {r}
    /\ UNCHANGED <<served, settled>>

Serve(r) ==
    /\ r \in up
    /\ served' = r
    /\ settled' = FALSE
    /\ UNCHANGED up

Settle ==
    /\ served # 0
    /\ settled' = TRUE
    /\ UNCHANGED <<up, served>>

Retire(r) ==
    /\ settled
    /\ r \in up \ {served}
    /\ up' = up \ {r}
    /\ UNCHANGED <<served, settled>>

Next == Settle \/ \E r \in Restores : ComesUp(r) \/ Serve(r) \/ Retire(r)

Spec == Init /\ [][Next]_vars

=============================================================================
