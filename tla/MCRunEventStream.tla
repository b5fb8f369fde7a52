-------------------------- MODULE MCRunEventStream --------------------------
(* Instances of RunEventStream for TLC.                                      *)
EXTENDS RunEventStream
=============================================================================
