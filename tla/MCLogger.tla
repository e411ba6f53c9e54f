------------------------------ MODULE MCLogger ------------------------------
(***************************************************************************)
(* A small instance of Logger: messages of two severities, all but one of  *)
(* them above every level.                                                 *)
(***************************************************************************)
EXTENDS Logger

CONSTANT m1

MCSeverity == [m \in Messages |-> IF m = m1 THEN 0 ELSE 1]
=============================================================================
