-------------------------- MODULE MCStoryScheduler --------------------------
(* StoryScheduler with a queueing and a skipping policy, for TLC.       *)
EXTENDS StoryScheduler

MCPolicies ==
  {[limit |-> 1, whenBusy |-> "queue", cooldown |-> FALSE],
   [limit |-> 2, whenBusy |-> "skip", cooldown |-> TRUE]}
=============================================================================
