--------------------------- MODULE MCVerifyControl ---------------------------
(***************************************************************************)
(* A small instance of the command line: two shells, of which both may     *)
(* find no file, and a third invocation that finds what they left.         *)
(***************************************************************************)
EXTENDS VerifyControl
=============================================================================
