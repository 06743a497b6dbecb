------------------------------ MODULE AgentsMC ------------------------------
(***************************************************************************)
(* A small instance of Agents: an agent with a condition and one without,  *)
(* the first registering the second or the other way round.                *)
(***************************************************************************)
EXTENDS Agents
CONSTANTS agent1, agent2, attr1, attr2
TwoAgents == {agent1, agent2}
OneConditional == {agent1}
TwoAttributes == {attr1, attr2}
=============================================================================
