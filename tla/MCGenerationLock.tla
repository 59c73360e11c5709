--------------------------- MODULE MCGenerationLock ---------------------------
(* GenerationLock on small instances.  In the instances that must be safe the
   timing assumption holds with equality, so that one more missed beat or one
   more tick of delay would break it. *)
EXTENDS GenerationLock

ASSUME SafeTiming == HeartbeatsOutpaceStaleness
===============================================================================
