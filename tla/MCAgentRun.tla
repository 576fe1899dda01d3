---------------------------- MODULE MCAgentRun ----------------------------
(* Instances of AgentRun for TLC. *)
EXTENDS AgentRun, TLC

CONSTANTS i1, i2

\* Every member in one instance, or each run in an instance of its own.
OneInstance   == [m \in Members |-> i1]
InstancePerRun == [m \in Members |-> IF m[1] = 1 THEN i1 ELSE i2]
\* Overlapping reconcile passes are interchangeable.
PassPerms == Permutations(Reconcilers)
=============================================================================
