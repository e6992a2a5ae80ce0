------------------------------ MODULE MCTransfer ------------------------------
(* Two segments and up to three runs: a failure, a re-run of what failed, and *)
(* a failure of the re-run.                                                   *)
EXTENDS Transfer

CONSTANTS ddb, os
MCProcessor == {ddb, os}
==============================================================================
