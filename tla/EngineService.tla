--------------------------- MODULE EngineService ---------------------------
(***************************************************************************)
(* What the engine promises its host about deployments, whatever threads   *)
(* and stores bring it about: a deployment is accepted only when no        *)
(* session can be used any more, sessions are opened on the latest one,    *)
(* and once the engine is down nothing is reported, deployed or opened.    *)
(***************************************************************************)
EXTENDS Naturals

VARIABLES
    availability,  \* what the host is told
    epoch,         \* deployments accepted so far
    open,          \* the epoch of the session in use, if there is one
    down           \* is the engine being freed?

vars == <<availability, epoch, open, down>>

Init ==
    /\ availability = "PREPARING"
    /\ epoch = 0
    /\ open = {}
    /\ down = FALSE

Report ==
    /\ ~down
    /\ availability' \in {"PREPARING", "READY", "FAILED"}
    /\ UNCHANGED <<epoch, open, down>>

Deploy ==
    /\ ~down /\ open = {}
    /\ epoch' = epoch + 1
    /\ UNCHANGED <<availability, open, down>>

Open ==
    /\ ~down
    /\ open' = {epoch}
    /\ UNCHANGED <<availability, epoch, down>>

Close ==
    /\ open' = {}
    /\ UNCHANGED <<availability, epoch, down>>

Stop ==
    /\ ~down /\ down' = TRUE
    /\ UNCHANGED <<availability, epoch, open>>

Next == Report \/ Deploy \/ Open \/ Close \/ Stop

Spec == Init /\ [][Next]_vars

=============================================================================
