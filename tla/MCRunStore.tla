----------------------------- MODULE MCRunStore -----------------------------
(* RunStore on a small instance: three runs, so that a third can be behind *)
(* a settled and an active one, over two interchangeable conversations.    *)
EXTENDS RunStore, TLC

ConversationSymmetry == Permutations(Conversations)

=============================================================================
