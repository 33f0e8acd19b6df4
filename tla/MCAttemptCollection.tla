------------------------ MODULE MCAttemptCollection -------------------------
(* Two provider sources of one run attempt with different heads, and a      *)
(* reconciliation subject for the attempt of the first.                     *)
EXTENDS AttemptCollection

MCSource(id, kind, head, created) ==
    [id |-> id, kind |-> kind, run |-> 1, head |-> head, created |-> created]

MCFirst == MCSource(1, "provider_run", "h1", 0)

MCSources ==
    {MCFirst, MCSource(2, "provider_run", "h2", 1), MCSource(3, "reconciliation", "h1", 0)}

MCSourceOf == [r \in Reports |-> MCFirst]

=============================================================================
