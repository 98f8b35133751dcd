---------------------- MODULE MCConversationRollover ----------------------
(* Small instances of ConversationRollover for TLC. *)
EXTENDS ConversationRollover, TLC

RowSymmetry == Permutations(Key) \cup Permutations(Rollover) \cup Permutations(Attempt)
SlotSymmetry == RowSymmetry \cup Permutations(Slot)
=============================================================================
