------------------------- MODULE MCAssistantRelease -------------------------
(* Two items: one about d1, one the corpus cannot answer.                  *)
EXTENDS AssistantRelease, TLC
CONSTANTS p1, p2, d1, d2, s1

MCExpectedSources == 1 :> {d1} @@ 2 :> {}
MCDatasetMenu == {{1, 2}}
MCObservationMenu ==
  {[refused |-> TRUE, cited |-> {}],
   [refused |-> FALSE, cited |-> {d1, d2}]}
MCGateMenu ==
  {[metric |-> "access_control", operator |-> ">=", threshold |-> Scale, mandatory |-> TRUE]}
MCPolicyMenu ==
  {[default |-> TRUE, kind |-> "retrieval", active |-> TRUE],
   [default |-> FALSE, kind |-> "safety", active |-> TRUE]}
MCDraftMenu ==
  {[spaces |-> {s1}, policy |-> 0, provider |-> FALSE],
   [spaces |-> {s1}, policy |-> 2, provider |-> TRUE]}
Symmetry == Permutations(Sessions)
=============================================================================
