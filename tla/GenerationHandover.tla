------------------------- MODULE GenerationHandover ------------------------
(***************************************************************************)
(* What a production cutover promises, without tables, locks or clocks.    *)
(* Executions are opened only while a generation serves; a generation is   *)
(* revoked once, and its successor starts to serve only when nothing of it *)
(* is open any more.                                                       *)
(***************************************************************************)
EXTENDS Naturals

CONSTANT Executions   \* what may be open: a live plan, a subject without a result

VARIABLES
    generation,       \* the generation installed last, 0 before the first
    serving,          \* whether it still admits executions
    open              \* executions that have not ended

handover == <<generation, serving, open>>

Init == generation = 0 /\ serving = FALSE /\ open = {}

Open(x) ==
    /\ serving
    /\ open' = open \cup {x}
    /\ UNCHANGED <<generation, serving>>

(* Expiry ends any number of plans at once. *)
Close ==
    /\ open' \in SUBSET open
    /\ UNCHANGED <<generation, serving>>

Revoke ==
    /\ serving
    /\ serving' = FALSE
    /\ UNCHANGED <<generation, open>>

Succeed ==
    /\ ~serving
    /\ open = {}
    /\ generation' = generation + 1
    /\ serving' = TRUE
    /\ UNCHANGED open

Next == (\E x \in Executions : Open(x)) \/ Close \/ Revoke \/ Succeed

Spec == Init /\ [][Next]_handover

============================================================================
