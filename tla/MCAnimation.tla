------------------------------ MODULE MCAnimation ------------------------------
(* An animation that is looped while a service starts, one that is to be     *)
(* displayed once, and one that follows the progress, also of a service.     *)
EXTENDS Animation

MCKind       == [spinner |-> "loop", intro |-> "once", bar |-> "proportional"]
MCOfService  == {"spinner", "bar"}
MCFrames     == [spinner |-> 3, intro |-> 2, bar |-> 3]
MCFrameDelay == [spinner |-> 2, intro |-> 3, bar |-> 1]
===============================================================================
