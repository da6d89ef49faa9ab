----------------------------- MODULE MCIpcStream -----------------------------
(* Instances of IpcStream for TLC: the constants are plain numbers, given in *)
(* the configurations.                                                       *)
EXTENDS IpcStream

=============================================================================
