-------------------------- MODULE MCPromptDelivery --------------------------
(* Small instances of PromptDelivery for TLC. *)
EXTENDS PromptDelivery
=============================================================================
