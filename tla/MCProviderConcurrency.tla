------------------------ MODULE MCProviderConcurrency ------------------------
(* A root with two children, one of which has a child; limits 1 and 2.      *)
EXTENDS ProviderConcurrency

MCAgent == {"root", "left", "right", "leaf"}
MCChildrenOf == [a \in MCAgent |->
  CASE a = "root" -> {"left", "right"} [] a = "left" -> {"leaf"} [] OTHER -> {}]
MCTurns == 2
MCClient == MCAgent \X (1..MCTurns)
MCLimitInput == {1, 2}
=============================================================================
