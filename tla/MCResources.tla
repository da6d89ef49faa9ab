----------------------------- MODULE MCResources -----------------------------
(* Instances of Resources for TLC: worklets and keys are model values, given *)
(* in the configuration.                                                     *)
EXTENDS Resources

=============================================================================
