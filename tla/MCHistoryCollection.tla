------------------------ MODULE MCHistoryCollection -------------------------
(* Small instances of HistoryCollection. *)
EXTENDS HistoryCollection, TLC

MCKeys == (1 .. RunCount) \X (1 .. MaxAttempt)

(* Runs alternate between two workflows. *)
MCWorkflowOf == [r \in 1 .. RunCount |-> IF r % 2 = 1 THEN "w1" ELSE "w2"]

MCConfiguration(enabled, selection, gaps, bytes, policy) ==
    [enabled |-> enabled, selection |-> selection, quota |-> Usage(9, 9, gaps, bytes),
     policy |-> policy]

(* The scans run under one selection; it changes in the queue instance. *)
MCScanConfigurations == {MCConfiguration(TRUE, {"w1", "w2"}, 1, 99, "disabled")}

MCQueueConfigurations ==
    {MCConfiguration(TRUE, {"w1"}, 1, 99, "disabled"),
     MCConfiguration(FALSE, {"w1"}, 1, 99, "disabled"),
     MCConfiguration(TRUE, {"w2"}, 1, 99, "disabled")}

(* Each detail policy, with room for complete statistics and one more byte, *)
(* or without that byte.                                                    *)
MCArchiveConfigurations ==
    {MCConfiguration(TRUE, {"w1"}, 1, 4, "finite"),
     MCConfiguration(TRUE, {"w1"}, 2, 5, "unlimited"),
     MCConfiguration(TRUE, {"w1"}, 1, 3, "disabled")}

MCLast == {<<1, MaxAttempt>>}

MCFull == [jobs |-> {"j1", "j2"}, population |-> "complete"]
MCPart(j) == [jobs |-> {j}, population |-> "partial"]
MCOneObservation == {MCFull}
MCArchiveObservations ==
    {MCFull, MCPart("j1"), MCPart("j2"), [jobs |-> {"j1"}, population |-> "complete"]}

MCSymmetry == Permutations(Workers)

=============================================================================
