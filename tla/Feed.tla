-------------------------------- MODULE Feed --------------------------------
(***************************************************************************)
(* What the event history of a run promises to those who follow it: a log  *)
(* that only grows, that a terminal event closes, and readers who each get *)
(* every event of it once, in order, and in the end all of them.  Nothing  *)
(* is said of transactions, wake-ups, connections or cursors.              *)
(***************************************************************************)
EXTENDS Naturals, Sequences

CONSTANT Readers

VARIABLES
    log,       \* the published events
    received   \* [Readers -> Seq(Event)], what each reader has handled

vars == <<log, received>>

Closed(events) == events # <<>> /\ events[Len(events)].type = "run"

Init ==
    /\ log = <<>>
    /\ received = [c \in Readers |-> <<>>]

(* The log grows by one or more events at once; only the last may close it. *)
Publish ==
    /\ ~Closed(log)
    /\ Len(log') > Len(log)
    /\ \A i \in 1..Len(log) : log'[i] = log[i]
    /\ \A i \in (Len(log) + 1)..(Len(log') - 1) : log'[i].type # "run"
    /\ UNCHANGED received

Receive(c) ==
    /\ Len(received[c]) < Len(log)
    /\ received' = [received EXCEPT ![c] = Append(@, log[Len(@) + 1])]
    /\ UNCHANGED log

Next == Publish \/ \E c \in Readers : Receive(c)

SafeSpec == Init /\ [][Next]_vars

Spec == SafeSpec /\ \A c \in Readers : WF_vars(Receive(c))

=============================================================================
