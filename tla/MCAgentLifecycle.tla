-------------------------- MODULE MCAgentLifecycle --------------------------
(* AgentLifecycle with one pull source.  Two stoppers of AIX, which pops    *)
(* what another one joins, multiply the states of a second start there.    *)
EXTENDS AgentLifecycle

Restarts == [p \in Platforms |-> IF p = "aix" THEN 1 ELSE MaxStarts]
=============================================================================
