---------------------------- MODULE MCStoryStore ----------------------------
(* StoryStore with two documents, for TLC.                                 *)
EXTENDS StoryStore
=============================================================================
