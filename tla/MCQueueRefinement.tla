-------------------------- MODULE MCQueueRefinement --------------------------
(* Instances of QueueRefinement for TLC: the constants are plain numbers,    *)
(* given in the configurations.                                              *)
EXTENDS QueueRefinement

=============================================================================
