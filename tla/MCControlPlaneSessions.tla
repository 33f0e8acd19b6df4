----------------------- MODULE MCControlPlaneSessions -----------------------
(* Two logins of one identity that may hold one session, and two deliveries  *)
(* of one logout token that selects both.                                    *)
EXTENDS ControlPlaneSessions, TLC

MCIdentityOf == [s \in 1 .. HandleCount |-> "a"]
MCTokenOf == [d \in Deliveries |-> "t"]
MCTargetOf == [t \in {"t"} |-> 1 .. HandleCount]

DeliverySymmetry == Permutations(Deliveries)

=============================================================================
