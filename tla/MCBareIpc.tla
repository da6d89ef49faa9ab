------------------------------ MODULE MCBareIpc ------------------------------
(* Instances of BareIpc for TLC: the constants are plain numbers, given in   *)
(* the configurations.                                                       *)
EXTENDS BareIpc

\* Messages or a second start of the poll, not both.
Bounded == sent = 0 \/ starts <= 1

=============================================================================
