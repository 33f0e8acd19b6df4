------------------------- MODULE MCProductionSystem ------------------------
EXTENDS ProductionSystem, TLC

CONSTANTS a1, a2, e1, e2, s1, s2, r1, r2, o1, o2, c1, c2

MCGenerationOf == [a \in Authorities |-> IF a = a1 THEN 1 ELSE 2]

MCEpochOf == [a \in Authorities |-> e1]

MCNotAfterOf == [a \in Authorities |-> IF a = a1 THEN 3 ELSE 6]

(* Receipts that outlive the run, so that only the plan lifetime bounds a plan. *)
MCLateNotAfterOf == [a \in Authorities |-> 6]

MCSubjectOf == [r \in Requests |-> s1]

(* Requests of one subject, and the candidate plans, are interchangeable. *)
MCSymmetry == Permutations(Requests) \cup Permutations(Candidates)

============================================================================
