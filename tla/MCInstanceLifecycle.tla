------------------------ MODULE MCInstanceLifecycle ------------------------
(* InstanceLifecycle with two process numbers, for TLC.                  *)
EXTENDS InstanceLifecycle
=============================================================================
