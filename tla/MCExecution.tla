------------------------------ MODULE MCExecution ------------------------------
(* Values for TLC: three rows in two tables, puts that meet in a batch, that *)
(* follow in a later one and that are of the other table; copies that meet   *)
(* in a window and across windows.                                           *)
EXTENDS Execution

MCTableOf == [w \in Row |-> IF w = "x" THEN "audit" ELSE "main"]
MCFlushes ==
  {[puts |-> <<"a", "x", "b", "a">>, copies |-> <<>>],
   [puts |-> <<"a", "a">>, copies |-> <<"o">>],
   [puts |-> <<"x">>, copies |-> <<"o", "p", "o">>]}
==============================================================================
