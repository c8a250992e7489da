------------------------------ MODULE Selection ------------------------------
(***************************************************************************)
(* Selecting from a sequence by place.  It says what SelectSeq says, in a  *)
(* form that can be reasoned about for sequences of any length.            *)
(***************************************************************************)
EXTENDS Naturals, FiniteSets

(* The elements of s at the places of keep, in their order. *)
Selected(s, keep) ==
    LET place(k) == CHOOSE i \in keep : Cardinality({j \in keep : j <= i}) = k
    IN  [k \in 1..Cardinality(keep) |-> s[place(k)]]

=============================================================================
