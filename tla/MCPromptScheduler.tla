-------------------------- MODULE MCPromptScheduler --------------------------
(* Bounded instances of the prompt scheduler. *)
EXTENDS PromptScheduler
=============================================================================
