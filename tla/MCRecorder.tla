----------------------------- MODULE MCRecorder ------------------------------
(***************************************************************************)
(* The recorder on small instances.                                        *)
(***************************************************************************)
EXTENDS Recorder

Two == 1 .. 2

=============================================================================
