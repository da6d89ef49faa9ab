---------------------------- MODULE MCSuspension ----------------------------
(* Instances of Suspension for TLC: the constants are plain numbers, given   *)
(* in the configurations.                                                    *)
EXTENDS Suspension

=============================================================================
