--------------------------- MODULE MCJobExecution ---------------------------
(***************************************************************************)
(* Small instances of JobExecution: a timer's round and a manual one over  *)
(* two jobs of up to two providers.                                        *)
(***************************************************************************)
EXTENDS JobExecution, TLC

=============================================================================
