--------------------------- MODULE MCAndroidWorklet ---------------------------
(* Instances of AndroidWorklet, and so of Worklet, for TLC: the worklets are *)
(* model values, given in the configuration.                                 *)
EXTENDS AndroidWorklet

=============================================================================
