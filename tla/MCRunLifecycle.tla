--------------------------- MODULE MCRunLifecycle ---------------------------
(* RunLifecycle on small instances; the conversations are interchangeable. *)
EXTENDS RunLifecycle, TLC

ConversationSymmetry == Permutations(Conversations)

=============================================================================
