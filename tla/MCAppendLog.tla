----------------------------- MODULE MCAppendLog -----------------------------
(***************************************************************************)
(* Model-checking instance of AppendLog: the .cfg files give the bounds.   *)
(***************************************************************************)
EXTENDS AppendLog
=============================================================================
