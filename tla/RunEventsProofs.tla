--------------------------- MODULE RunEventsProofs ---------------------------
(***************************************************************************)
(* What the event history of a run guarantees, for any number of runs,     *)
(* readers, artifacts and lost connections: sequences without gaps, a      *)
(* history that the outcome closes, and readers who each hold a prefix of  *)
(* it - the safety half of Feed.  That a reader gets all of it in the end  *)
(* rests on fairness and is left to TLC.                                   *)
(***************************************************************************)
EXTENDS RunEvents, RunStoreProofs, SequenceTheorems, FiniteSetTheorems

-----------------------------------------------------------------------------
(* Selecting from a sequence.  The model selects an interval every time:   *)
(* all of it, none of it, or what follows a cursor.                        *)

LEMMA IntervalCardinality ==
    ASSUME NEW a \in Nat, NEW b \in Nat, a <= b
    PROVE  Cardinality((a + 1)..b) = b - a
<1> DEFINE c == a + 1
<1>1. c \in Int /\ b \in Int
  OBVIOUS
<1>2. Cardinality(c..b) = IF c > b THEN 0 ELSE b - c + 1
  <2> HIDE DEF c
  <2> QED
    BY <1>1, FS_Interval
<1> QED
  BY <1>2

LEMMA SelectedInterval ==
    ASSUME NEW S, NEW s \in Seq(S), NEW a \in 0..Len(s)
    PROVE  LET t == Selected(s, (a + 1)..Len(s))
           IN  /\ t \in Seq(S) /\ Len(t) = Len(s) - a
               /\ \A k \in 1..Len(t) : t[k] = s[a + k]
<1> DEFINE keep == (a + 1)..Len(s)
           n == Len(s) - a
           place(k) == CHOOSE i \in keep : Cardinality({j \in keep : j <= i}) = k
           t == Selected(s, keep)
<1>0. Len(s) \in Nat /\ a \in Nat /\ a <= Len(s)
  BY LenProperties
<1>1. Cardinality(keep) = n /\ n \in Nat
  BY <1>0, IntervalCardinality
<1>2. ASSUME NEW k \in 1..n
      PROVE  place(k) = a + k
  <2>1. ASSUME NEW i \in keep
        PROVE  Cardinality({j \in keep : j <= i}) = i - a
    <3>1. {j \in keep : j <= i} = (a + 1)..i
      BY <1>0
    <3>2. i \in Nat /\ a <= i
      BY <1>0
    <3>3. Cardinality((a + 1)..i) = i - a
      BY <1>0, <3>2, IntervalCardinality
    <3> QED
      BY <3>1, <3>3
  <2>2. a + k \in keep
    BY <1>0
  <2>3. \A i \in keep : Cardinality({j \in keep : j <= i}) = k <=> i = a + k
    BY <1>0, <2>1
  <2> DEFINE rank(i) == Cardinality({j \in keep : j <= i})
  <2>4. place(k) = CHOOSE i \in keep : rank(i) = k
    OBVIOUS
  <2> HIDE DEF keep, rank, place
  <2>5. \A i \in keep : rank(i) = k <=> i = a + k
    BY <2>3 DEF rank
  <2> QED
    BY <2>2, <2>4, <2>5
<1>3. t = [k \in 1..n |-> s[a + k]]
  <2>1. t = [k \in 1..Cardinality(keep) |-> s[place(k)]]
    BY DEF Selected
  <2> HIDE DEF place, keep
  <2> QED
    BY <1>1, <1>2, <2>1
<1>4. \A k \in 1..n : s[a + k] \in S
  BY <1>0, ElementOfSeq
<1>5. t \in Seq(S) /\ Len(t) = n /\ \A k \in 1..n : t[k] = s[a + k]
  <2> HIDE DEF t, n
  <2> QED
    BY <1>1, <1>3, <1>4
<1> QED
  BY <1>5

LEMMA SelectedNone ==
    ASSUME NEW s PROVE Selected(s, {}) = << >>
  BY FS_EmptySet DEF Selected

LEMMA SelectedAll ==
    ASSUME NEW S, NEW s \in Seq(S)
    PROVE  Selected(s, 1..Len(s)) = s
<1>1. 0 \in 0..Len(s) /\ Len(s) \in Nat
  BY LenProperties
<1>2. LET t == Selected(s, 1..Len(s))
      IN  t \in Seq(S) /\ Len(t) = Len(s) /\ \A k \in 1..Len(t) : t[k] = s[k]
  BY <1>1, SelectedInterval
<1> QED
  BY <1>2, SeqEqual

(* An order of a finite set goes through all of it, through each once. *)
LEMMA OrderOfFinite ==
    ASSUME NEW S, IsFiniteSet(S), NEW order \in Orders(S)
    PROVE  /\ order \in Seq(S) /\ Len(order) = Cardinality(S)
           /\ \A i, j \in 1..Len(order) : order[i] = order[j] => i = j
           /\ \A x \in S : \E i \in 1..Len(order) : order[i] = x
<1> DEFINE n == Cardinality(S)
<1>1. n \in Nat /\ IsFiniteSet(1..n) /\ Cardinality(1..n) = n
  BY FS_CardinalityType, FS_Interval
<1>2. order \in [1..n -> S] /\ \A i, j \in 1..n : order[i] = order[j] => i = j
  BY DEF Orders
<1>3. order \in Seq(S) /\ Len(order) = n
  BY <1>1, <1>2
<1>4. order \in Injection(1..n, S)
  BY <1>2 DEF Injection, IsInjective
<1>5. order \in Surjection(1..n, S)
  BY <1>1, <1>4, FS_Injection
<1> QED
  BY <1>2, <1>3, <1>5 DEF Surjection

LEMMA FunctionIsSeq ==
    ASSUME NEW S, NEW n \in Nat, NEW f \in [1..n -> S]
    PROVE  f \in Seq(S) /\ Len(f) = n
  OBVIOUS

-----------------------------------------------------------------------------
(* Appending. *)

LogTyped ==
    /\ log \in Seq(Event) /\ next \in Nat \ {0}
    /\ messages \in SUBSET Nat /\ records \in SUBSET Artifacts

(* The log keeps what it has and goes on with these events. *)
Grows(events) ==
    /\ log' \in Seq(Event) /\ Len(log') = Len(log) + Len(events) /\ next' = next + Len(events)
    /\ \A i \in 1..Len(log) : log'[i] = log[i]
    /\ \A i \in 1..Len(events) : log'[Len(log) + i] = [events[i] EXCEPT !.seq = next + i - 1]

LEMMA NumberedGrows ==
    ASSUME LogTyped, NEW events \in Seq(Event),
           log' = log \o [i \in 1..Len(events) |-> [events[i] EXCEPT !.seq = next + i - 1]],
           next' = next + Len(events)
    PROVE  Grows(events)
<1> DEFINE numbered == [i \in 1..Len(events) |-> [events[i] EXCEPT !.seq = next + i - 1]]
<1>0. Len(events) \in Nat /\ log \in Seq(Event) /\ Len(log) \in Nat /\ next \in Nat \ {0}
  BY LenProperties DEF LogTyped
<1>1. ASSUME NEW i \in 1..Len(events)
      PROVE  [events[i] EXCEPT !.seq = next + i - 1] \in Event
  <2>1. events[i] \in Event /\ next + i - 1 \in Nat \ {0}
    BY <1>0, ElementOfSeq
  <2> QED
    BY <2>1 DEF Event
<1>2. numbered \in Seq(Event) /\ Len(numbered) = Len(events)
  <2>1. numbered \in [1..Len(events) -> Event]
    BY <1>1
  <2> HIDE DEF numbered
  <2> QED
    BY <1>0, <2>1, FunctionIsSeq
<1>3. \A i \in 1..Len(events) : numbered[i] = [events[i] EXCEPT !.seq = next + i - 1]
  OBVIOUS
<1>4. log' = log \o numbered
  OBVIOUS
<1> HIDE DEF numbered
<1>5. /\ log \o numbered \in Seq(Event) /\ Len(log \o numbered) = Len(log) + Len(numbered)
      /\ \A i \in 1..Len(log) + Len(numbered) :
            (log \o numbered)[i] = IF i <= Len(log) THEN log[i] ELSE numbered[i - Len(log)]
  BY <1>0, <1>2, ConcatProperties, Zenon
<1>6. \A i \in 1..Len(log) : log'[i] = log[i]
  BY <1>0, <1>2, <1>4, <1>5
<1>7. ASSUME NEW i \in 1..Len(events)
      PROVE  log'[Len(log) + i] = numbered[i]
  <2>1. Len(log) + i \in 1..Len(log) + Len(numbered) /\ ~(Len(log) + i <= Len(log))
        /\ Len(log) + i - Len(log) = i
    BY <1>0, <1>2
  <2>2. ASSUME NEW k, k = Len(log) + i
        PROVE  log'[k] = numbered[i]
    <3>1. k \in 1..Len(log) + Len(numbered) /\ ~(k <= Len(log)) /\ k - Len(log) = i
      BY <2>1, <2>2
    <3>2. (log \o numbered)[k] = numbered[k - Len(log)]
      BY <1>5, <3>1
    <3> QED
      BY <1>4, <3>1, <3>2
  <2> QED
    BY <2>2
<1> QED
  BY <1>2, <1>3, <1>4, <1>5, <1>6, <1>7 DEF Grows

(* Events none of which is there yet are all appended. *)
LEMMA AppendsAll ==
    ASSUME LogTyped, NEW events \in Seq(Event), Appends(events),
           \A i \in 1..Len(events) : ~Recorded(events[i])
    PROVE  Grows(events)
<1>1. {i \in 1..Len(events) : ~Recorded(events[i])} = 1..Len(events)
  OBVIOUS
<1>2. Fresh(events) = events
  BY <1>1, SelectedAll DEF Fresh
<1> QED
  BY <1>2, NumberedGrows DEF Appends

(* A single event is appended, unless it is there already. *)
LEMMA AppendsOne ==
    ASSUME LogTyped, NEW e \in Event, Appends(<<e>>)
    PROVE  IF Recorded(e) THEN UNCHANGED <<log, next>> ELSE Grows(<<e>>)
<1>0. /\ <<e>> \in Seq(Event) /\ Len(<<e>>) = 1 /\ <<e>>[1] = e
      /\ log \in Seq(Event) /\ next \in Nat
  BY DEF LogTyped
<1>1. CASE Recorded(e)
  <2>1. {i \in 1..Len(<<e>>) : ~Recorded(<<e>>[i])} = {}
    BY <1>0, <1>1
  <2>2. Fresh(<<e>>) = << >>
    BY <2>1, SelectedNone DEF Fresh
  <2>3. /\ Len(<< >>) = 0
        /\ [i \in 1..0 |-> [<< >>[i] EXCEPT !.seq = next + i - 1]] = << >>
    OBVIOUS
  <2>4. log' = log \o << >> /\ next' = next + 0
    BY <2>2, <2>3 DEF Appends
  <2> QED
    BY <1>0, <1>1, <2>4, ConcatEmptySeq
<1>2. CASE ~Recorded(e)
  <2>1. \A i \in 1..Len(<<e>>) : ~Recorded(<<e>>[i])
    <3>1. \A i \in 1..Len(<<e>>) : <<e>>[i] = e
      BY <1>0
    <3> QED
      BY <1>2, <3>1
  <2>2. Grows(<<e>>)
    BY <1>0, <2>1, AppendsAll
  <2> QED
    BY <1>2, <2>2
<1> QED
  BY <1>1, <1>2

-----------------------------------------------------------------------------
(* The log.  Its outcome in terms of places, which is easier to use. *)

Told ==
    /\ \A i \in 1..Len(log) : log[i].type = "run" <=> Settled(Watched) /\ i = Len(log)
    /\ Settled(Watched) => Len(log) > 0
    /\ \A i \in 1..Len(log) : log[i].type = "run" => log[i].arg = rows[Watched].status
    /\ \A i \in 1..Len(log) :
          log[i].type = "artifact.published" => Settled(Watched) /\ log[i].arg \in records
    /\ Settled(Watched) => \A x \in records :
          \E i \in 1..Len(log) : log[i].type = "artifact.published" /\ log[i].arg = x
    /\ \A i, j \in 1..Len(log) :
          /\ log[i].type = "artifact.published" /\ log[j].type = "artifact.published"
          /\ log[i].arg = log[j].arg
          => i = j
    /\ records # {} => rows[Watched].status = "succeeded"

LEMMA ToldIsOutcome == ASSUME LogTyped PROVE LogTellsOutcome <=> Told
<1>0. Len(log) \in Nat
  BY LenProperties DEF LogTyped
<1>1. ASSUME LogTellsOutcome PROVE Told
  <2> DEFINE Published == {i \in 1..Len(log) : log[i].type = "artifact.published"}
             Final == {i \in 1..Len(log) : log[i].type = "run"}
  <2>1. /\ Final = IF Settled(Watched) THEN {Len(log)} ELSE {}
        /\ \A i \in Final : log[i].arg = rows[Watched].status
        /\ {log[i].arg : i \in Published} = IF Settled(Watched) THEN records ELSE {}
        /\ \A i, j \in Published : log[i].arg = log[j].arg => i = j
        /\ records # {} => rows[Watched].status = "succeeded"
    BY <1>1 DEF LogTellsOutcome
  <2>2. \A i \in 1..Len(log) : log[i].type = "run" <=> Settled(Watched) /\ i = Len(log)
    BY <1>0, <2>1
  <2>3. Settled(Watched) => Len(log) > 0
    BY <1>0, <2>1
  <2>4. \A i \in Published : log[i].arg \in IF Settled(Watched) THEN records ELSE {}
    BY <2>1
  <2>5. Settled(Watched) => \A x \in records : \E i \in Published : x = log[i].arg
    BY <2>1
  <2> QED
    BY <1>0, <2>1, <2>2, <2>3, <2>4, <2>5 DEF Told
<1>2. ASSUME Told PROVE LogTellsOutcome
  BY <1>0, <1>2 DEF LogTellsOutcome, Told
<1> QED
  BY <1>1, <1>2

LogRight == LogTyped /\ LogGapless /\ Told

(* A step that is invisible in the log, or one of Feed's. *)
Publication ==
    \/ UNCHANGED log
    \/ /\ ~TheFeed!Closed(log)
       /\ Len(log') > Len(log)
       /\ \A i \in 1..Len(log) : log'[i] = log[i]
       /\ \A i \in (Len(log) + 1)..(Len(log') - 1) : log'[i].type # "run"

LEMMA OpenLog ==
    ASSUME LogRight, ~Settled(Watched)
    PROVE  ~TheFeed!Closed(log) /\ \A i \in 1..Len(log) : log[i].type \notin {"run", "artifact.published"}
<1>1. log \in Seq(Event) /\ Len(log) \in Nat
  BY LenProperties DEF LogRight, LogTyped
<1>2. \A i \in 1..Len(log) : log[i].type \notin {"run", "artifact.published"}
  BY DEF LogRight, Told
<1>3. ~TheFeed!Closed(log)
  BY <1>1, <1>2 DEF TheFeed!Closed
<1> QED
  BY <1>2, <1>3

LEMMA NothingAppended ==
    ASSUME LogRight, UNCHANGED <<log, next, messages>>, records' \in SUBSET Artifacts,
           rows'[Watched].finalized <=> rows[Watched].finalized,
           Settled(Watched) => rows'[Watched].status = rows[Watched].status /\ records' = records,
           records' # {} => rows'[Watched].status = "succeeded"
    PROVE  LogRight' /\ Publication
<1>1. LogTyped' /\ LogGapless'
  BY DEF LogRight, LogTyped, LogGapless
<1>2. Told'
  BY DEF LogRight, Told, Settled
<1> QED
  BY <1>1, <1>2 DEF LogRight, Publication

LEMMA OneAppended ==
    ASSUME LogRight, NEW e \in Event, e.type \in RuntimeTypes, Appends(<<e>>),
           ~rows[Watched].finalized, ~rows'[Watched].finalized, records' = records,
           records # {} => rows'[Watched].status = "succeeded",
           \/ messages' = messages /\ e.type # "assistant.message"
           \/ /\ ~Recorded(e) /\ e.runtime \in Nat
              /\ messages' = IF e.type = "assistant.message" THEN messages \cup {e.runtime}
                             ELSE messages
    PROVE  LogRight' /\ Publication
<1>0. /\ LogTyped /\ log \in Seq(Event) /\ Len(log) \in Nat /\ next = Len(log) + 1
      /\ ~TheFeed!Closed(log)
      /\ \A i \in 1..Len(log) : log[i].type \notin {"run", "artifact.published"}
  BY LenProperties, OpenLog DEF LogRight, LogTyped, LogGapless, Settled
<1>1. CASE Recorded(e)
  <2>1. UNCHANGED <<log, next, messages>>
    BY <1>0, <1>1, AppendsOne
  <2> QED
    BY <1>0, <2>1, NothingAppended DEF LogTyped, Settled
<1>2. CASE ~Recorded(e)
  <2>1. /\ log' \in Seq(Event) /\ Len(log') = Len(log) + 1 /\ next' = next + 1
        /\ \A i \in 1..Len(log) : log'[i] = log[i]
        /\ log'[Len(log) + 1] = [e EXCEPT !.seq = next]
    <3>1. Grows(<<e>>) /\ Len(<<e>>) = 1 /\ <<e>>[1] = e /\ next + 1 - 1 = next
      BY <1>0, <1>2, AppendsOne
    <3> QED
      BY <1>0, <3>1 DEF Grows
  <2>2. /\ log'[Len(log) + 1].seq = Len(log) + 1 /\ log'[Len(log) + 1].type = e.type
        /\ log'[Len(log) + 1].runtime = e.runtime
    BY <1>0, <2>1 DEF Event
  <2>3. \A i \in 1..Len(log') : i \in 1..Len(log) \/ i = Len(log) + 1
    BY <1>0, <2>1
  <2>4. LogTyped'
    BY <1>0, <2>1 DEF LogTyped, Event
  <2>5. LogGapless'
    <3>1. next' = Len(log') + 1 /\ \A i \in 1..Len(log') : log'[i].seq = i
      BY <1>0, <2>1, <2>2, <2>3 DEF LogRight, LogGapless
    <3>2. ASSUME e.runtime # 0
          PROVE  \A i \in 1..Len(log) : log[i].runtime # e.runtime
      BY <1>2, <3>2 DEF Recorded
    <3>3. \A i, j \in 1..Len(log') :
             log'[i].runtime # 0 /\ log'[i].runtime = log'[j].runtime => i = j
      <4>1. \A i, j \in 1..Len(log) :
               log[i].runtime # 0 /\ log[i].runtime = log[j].runtime => i = j
        BY DEF LogRight, LogGapless
      <4>2. \A i \in 1..Len(log) : log'[i].runtime = log[i].runtime
        BY <2>1
      <4> QED
        BY <2>2, <2>3, <3>2, <4>1, <4>2
    <3>4. messages' = {log'[i].runtime : i \in {j \in 1..Len(log') :
                                                   log'[j].type = "assistant.message"}}
      <4>1. messages = {log[i].runtime : i \in {j \in 1..Len(log) :
                                                   log[j].type = "assistant.message"}}
        BY DEF LogRight, LogGapless
      <4>2. 1..Len(log') = 1..Len(log) \cup {Len(log) + 1}
        BY <1>0, <2>1
      <4>3. messages' = IF e.type = "assistant.message" THEN messages \cup {e.runtime}
                        ELSE messages
        OBVIOUS
      <4> DEFINE n == Len(log) + 1
                 S == {j \in 1..Len(log) : log[j].type = "assistant.message"}
                 T == {j \in 1..Len(log') : log'[j].type = "assistant.message"}
      <4>4. \A j \in 1..Len(log) : log'[j] = log[j]
        BY <2>1
      <4>5. T = IF e.type = "assistant.message" THEN S \cup {n} ELSE S
        BY <2>2, <4>2, <4>4
      <4>6. \A j \in S : log'[j].runtime = log[j].runtime
        BY <4>4
      <4>7. {log'[j].runtime : j \in S} = messages
        BY <4>1, <4>6
      <4>8. log'[n].runtime = e.runtime
        BY <2>2
      <4>9. messages' = {log'[i].runtime : i \in T}
        <5> HIDE DEF S, T, n
        <5> QED
          BY <4>3, <4>5, <4>7, <4>8
      <4> QED
        BY <4>9
    <3> QED
      BY <3>1, <3>3, <3>4 DEF LogGapless
  <2>6. Told'
    <3>1. \A i \in 1..Len(log') : log'[i].type \notin {"run", "artifact.published"}
      BY <1>0, <2>1, <2>2, <2>3 DEF RuntimeTypes
    <3>2. ~Settled(Watched)' /\ (records' # {} => rows'[Watched].status = "succeeded")
      BY DEF Settled
    <3> QED
      BY <3>1, <3>2 DEF Told
  <2>7. Publication
    BY <1>0, <2>1 DEF Publication
  <2> QED
    BY <2>4, <2>5, <2>6, <2>7 DEF LogRight
<1> QED
  BY <1>1, <1>2

(* The announcements of all artifacts, then the outcome, are what closes   *)
(* the log.                                                                *)
LEMMA Closes ==
    ASSUME LogRight, NEW order \in Orders(records), NEW s \in Terminal,
           NEW events \in Seq(Event), Len(events) = Len(order) + 1,
           \A i \in 1..Len(order) : events[i] = ProductEvent("artifact.published", order[i]),
           events[Len(order) + 1] = ProductEvent("run", s),
           Appends(events), UNCHANGED <<messages, records>>,
           ~rows[Watched].finalized, rows'[Watched].finalized, rows'[Watched].status = s,
           records # {} => s = "succeeded"
    PROVE  LogRight' /\ Publication
<1> DEFINE n == Len(log)
           m == Len(order)
<1>0. /\ LogTyped /\ log \in Seq(Event) /\ n \in Nat /\ next = n + 1
      /\ ~TheFeed!Closed(log) /\ records \in SUBSET Artifacts
      /\ \A i \in 1..n : log[i].type \notin {"run", "artifact.published"}
  BY LenProperties, OpenLog DEF LogRight, LogTyped, LogGapless, Settled
<1>1. /\ m \in Nat /\ order \in Seq(records)
      /\ \A i, j \in 1..m : order[i] = order[j] => i = j
      /\ \A x \in records : \E i \in 1..m : order[i] = x
  <2>1. IsFiniteSet(records)
    BY <1>0, ArtifactsAssumption, FS_Subset
  <2>2. /\ order \in Seq(records)
        /\ \A i, j \in 1..Len(order) : order[i] = order[j] => i = j
        /\ \A x \in records : \E i \in 1..Len(order) : order[i] = x
    BY <2>1, OrderOfFinite
  <2>3. Len(order) \in Nat
    BY <2>2, LenProperties
  <2> QED
    BY <2>2, <2>3
<1>2. \A i \in 1..Len(events) : ~Recorded(events[i])
  <2> SUFFICES ASSUME NEW i \in 1..Len(events) PROVE ~Recorded(events[i])
    OBVIOUS
  <2>1. i \in 1..m \/ i = m + 1
    BY <1>1
  <2>2. events[i].runtime = 0 /\ events[i].type \in {"run", "artifact.published"}
    <3>1. ASSUME NEW type, NEW arg
          PROVE  ProductEvent(type, arg).runtime = 0 /\ ProductEvent(type, arg).type = type
      BY DEF ProductEvent, RuntimeEvent
    <3>2. CASE i \in 1..m
      BY <3>1, <3>2
    <3>3. CASE i = m + 1
      BY <3>1, <3>3
    <3> QED
      BY <2>1, <3>2, <3>3
  <2> QED
    BY <1>0, <2>2 DEF Recorded
<1>3. /\ log' \in Seq(Event) /\ Len(log') = n + m + 1 /\ next' = n + m + 2
      /\ \A i \in 1..n : log'[i] = log[i]
      /\ \A i \in 1..m : log'[n + i] = [seq |-> n + i, runtime |-> 0,
                                        type |-> "artifact.published", arg |-> order[i]]
      /\ log'[n + m + 1] = [seq |-> n + m + 1, runtime |-> 0, type |-> "run", arg |-> s]
  <2>1. Grows(events)
    BY <1>0, <1>2, AppendsAll
  <2>2. /\ log' \in Seq(Event) /\ Len(log') = n + (m + 1) /\ next' = n + 1 + (m + 1)
        /\ \A i \in 1..n : log'[i] = log[i]
        /\ \A i \in 1..m + 1 : log'[n + i] = [events[i] EXCEPT !.seq = next + i - 1]
    BY <1>0, <2>1 DEF Grows
  <2>3. ASSUME NEW i \in 1..m
        PROVE  log'[n + i] = [seq |-> n + i, runtime |-> 0,
                              type |-> "artifact.published", arg |-> order[i]]
    <3>1. events[i] = [seq |-> 1, runtime |-> 0,
                       type |-> "artifact.published", arg |-> order[i]]
      BY DEF ProductEvent, RuntimeEvent
    <3>2. next + i - 1 = n + i /\ i \in 1..m + 1
      BY <1>0, <1>1
    <3>3. log'[n + i] = [events[i] EXCEPT !.seq = n + i]
      BY <2>2, <3>2
    <3> QED
      BY <3>1, <3>3
  <2>4. log'[n + m + 1] = [seq |-> n + m + 1, runtime |-> 0, type |-> "run", arg |-> s]
    <3>1. events[m + 1] = [seq |-> 1, runtime |-> 0, type |-> "run", arg |-> s]
      BY DEF ProductEvent, RuntimeEvent
    <3>2. next + (m + 1) - 1 = n + m + 1 /\ m + 1 \in 1..m + 1 /\ n + (m + 1) = n + m + 1
      BY <1>0, <1>1
    <3>3. log'[n + m + 1] = [events[m + 1] EXCEPT !.seq = n + m + 1]
      BY <2>2, <3>2
    <3> QED
      BY <3>1, <3>3
  <2> QED
    BY <1>0, <1>1, <2>2, <2>3, <2>4, SMTT(30)
<1> HIDE DEF n, m
<1>4. ASSUME NEW k \in 1..Len(log')
      PROVE  k \in 1..n \/ (\E i \in 1..m : k = n + i) \/ k = n + m + 1
  <2>1. n \in Nat /\ m \in Nat /\ k \in 1..n + m + 1
    BY <1>0, <1>1, <1>3
  <2>2. CASE k > n /\ k # n + m + 1
    <3>1. k - n \in 1..m /\ k = n + (k - n)
      BY <2>1, <2>2
    <3> QED
      BY <3>1
  <2> QED
    BY <2>1, <2>2
<1>5. LogTyped'
  BY <1>0, <1>1, <1>3 DEF LogTyped
<1>6. /\ \A k \in 1..n : /\ log'[k] = log[k] /\ k \in 1..Len(log') /\ k <= n
                         /\ log'[k].type \notin {"run", "artifact.published"}
      /\ \A i \in 1..m : /\ n + i \in 1..Len(log') /\ n + i <= n + m
                         /\ log'[n + i].seq = n + i /\ log'[n + i].runtime = 0
                         /\ log'[n + i].type = "artifact.published"
                         /\ log'[n + i].arg = order[i]
      /\ n + m + 1 \in 1..Len(log')
      /\ log'[n + m + 1].seq = n + m + 1 /\ log'[n + m + 1].runtime = 0
      /\ log'[n + m + 1].type = "run" /\ log'[n + m + 1].arg = s
  <2>1. n \in Nat /\ m \in Nat /\ Len(log') = n + m + 1
    BY <1>0, <1>1, <1>3
  <2>2. /\ \A k \in 1..n : k \in 1..Len(log') /\ k <= n
        /\ \A i \in 1..m : n + i \in 1..Len(log') /\ n + i <= n + m
        /\ n + m + 1 \in 1..Len(log')
    BY <2>1
  <2>3. \A k \in 1..n :
           log'[k] = log[k] /\ log'[k].type \notin {"run", "artifact.published"}
    BY <1>0, <1>3 DEF n
  <2>4. ASSUME NEW i \in 1..m
        PROVE  /\ log'[n + i].seq = n + i /\ log'[n + i].runtime = 0
               /\ log'[n + i].type = "artifact.published"
               /\ log'[n + i].arg = order[i]
    <3>1. log'[n + i] = [seq |-> n + i, runtime |-> 0,
                         type |-> "artifact.published", arg |-> order[i]]
      BY <1>3, Zenon
    <3> QED
      BY <3>1
  <2>5. /\ log'[n + m + 1].seq = n + m + 1 /\ log'[n + m + 1].runtime = 0
        /\ log'[n + m + 1].type = "run" /\ log'[n + m + 1].arg = s
    BY <1>3
  <2> QED
    BY <2>2, <2>3, <2>4, <2>5
<1>7. LogGapless'
  <2>1. next' = Len(log') + 1
    BY <1>0, <1>1, <1>3
  <2>2. \A k \in 1..Len(log') : log'[k].seq = k
    <3>1. \A k \in 1..n : log[k].seq = k
      BY DEF LogRight, LogGapless, n
    <3> QED
      BY <1>4, <1>6, <3>1
  <2>3. \A j, k \in 1..Len(log') :
           log'[j].runtime # 0 /\ log'[j].runtime = log'[k].runtime => j = k
    <3>1. \A j, k \in 1..n : log[j].runtime # 0 /\ log[j].runtime = log[k].runtime => j = k
      BY DEF LogRight, LogGapless, n
    <3>2. \A k \in 1..Len(log') : log'[k].runtime # 0 => k \in 1..n
      BY <1>4, <1>6
    <3> QED
      BY <1>6, <3>1, <3>2, SMTT(40)
  <2>4. messages' = {log'[i].runtime : i \in {j \in 1..Len(log') :
                                                 log'[j].type = "assistant.message"}}
    <3> DEFINE S == {j \in 1..n : log[j].type = "assistant.message"}
               T == {j \in 1..Len(log') : log'[j].type = "assistant.message"}
    <3>1. messages = {log[i].runtime : i \in S}
      BY DEF LogRight, LogGapless, n
    <3>2. T = S
      BY <1>4, <1>6
    <3>3. \A i \in S : log'[i].runtime = log[i].runtime
      BY <1>6
    <3>4. messages' = {log'[i].runtime : i \in S}
      <4> HIDE DEF S
      <4> QED
        BY <3>1, <3>3
    <3> QED
      BY <3>2, <3>4
  <2> QED
    BY <2>1, <2>2, <2>3, <2>4 DEF LogGapless
<1>8. Told'
  <2>0. n \in Nat /\ m \in Nat
    BY <1>0, <1>1
  <2>1. Settled(Watched)' /\ records' = records /\ Len(log') = n + m + 1 /\ Len(log') > 0
    BY <1>3, <2>0 DEF Settled
  <2>2. ASSUME NEW k \in 1..Len(log')
        PROVE  log'[k].type = "run" <=> k = Len(log')
    <3>1. CASE k \in 1..n
      BY <1>6, <2>0, <2>1, <3>1
    <3>2. ASSUME NEW i \in 1..m, k = n + i
          PROVE  log'[k].type # "run" /\ k # Len(log')
      BY <1>6, <2>0, <2>1, <3>2, ZenonT(40)
    <3>3. CASE k = n + m + 1
      BY <1>6, <2>1, <3>3
    <3> QED
      BY <1>4, <3>1, <3>2, <3>3
  <2>3. \A k \in 1..Len(log') : log'[k].type = "run" => log'[k].arg = rows'[Watched].status
    BY <1>6, <2>1, <2>2
  <2>4. ASSUME NEW k \in 1..Len(log'), log'[k].type = "artifact.published"
        PROVE  \E i \in 1..m : k = n + i
    BY <1>4, <1>6, <2>4
  <2>5. \A i \in 1..m : order[i] \in records
    BY <1>1 DEF m
  <2>6. \A k \in 1..Len(log') : log'[k].type = "artifact.published" => log'[k].arg \in records
    BY <1>6, <2>4, <2>5
  <2>7. ASSUME NEW x \in records
        PROVE  \E k \in 1..Len(log') : log'[k].type = "artifact.published" /\ log'[k].arg = x
    <3>1. PICK i \in 1..m : order[i] = x
      BY <1>1 DEF m
    <3> QED
      BY <1>6, <3>1
  <2>8. \A j, k \in 1..Len(log') :
           /\ log'[j].type = "artifact.published" /\ log'[k].type = "artifact.published"
           /\ log'[j].arg = log'[k].arg
           => j = k
    BY <1>1, <1>6, <2>4, SMTT(30)
  <2> QED
    BY <2>1, <2>2, <2>3, <2>6, <2>7, <2>8 DEF Told
<1>9. Publication
  <2>1. Len(log') > n /\ Len(log') - 1 = n + m
    BY <1>0, <1>1, <1>3
  <2>2. ASSUME NEW k \in (n + 1)..(Len(log') - 1)
        PROVE  log'[k].type # "run"
    <3>1. k - n \in 1..m /\ k = n + (k - n)
      BY <1>0, <1>1, <2>1
    <3>2. log'[n + (k - n)].type = "artifact.published"
      BY <1>6, <3>1
    <3> QED
      BY <3>1, <3>2
  <2> QED
    BY <1>0, <1>6, <2>1, <2>2 DEF Publication, n
<1> QED
  BY <1>5, <1>7, <1>8, <1>9 DEF LogRight

-----------------------------------------------------------------------------
(* The transactions, one by one. *)

EventsBase == StoreBase /\ LogRight

(* The invariant is kept, the rows change as RunStore lets them, and the   *)
(* log as Feed does.                                                       *)
Keeps == [StoreNext]_storeVars /\ LogRight' /\ Publication

LEMMA EventTyped ==
    ASSUME NEW n \in Nat, NEW type \in RuntimeTypes \cup {"artifact.published", "run"},
           NEW arg \in Phase \cup Terminal \cup Artifacts
    PROVE  RuntimeEvent(n, type, arg) \in Event
  BY DEF RuntimeEvent, Event

LEMMA WatchedRow ==
    ASSUME EventsBase
    PROVE  /\ Watched \in Runs /\ rows \in [Runs -> Row]
           /\ rows[Watched] \in Row /\ Shaped(rows[Watched], Watched)
           /\ records \in SUBSET Artifacts
           /\ records # {} => rows[Watched].status = "succeeded"
           /\ LogRight
  BY WatchedAssumption, RowFacts
     DEF EventsBase, StoreBase, StoreTypeOK, LogRight, LogTyped, Told

LEMMA SetsPhaseKeeps == ASSUME EventsBase, SetsPhase PROVE Keeps
<1>1. PICK p \in {"agent", "publishing"} :
         SetPhase(Watched, p) /\ Appends(<<ProductEvent("phase.changed", p)>>)
  BY DEF SetsPhase
<1>2. [StoreNext]_storeVars
  BY <1>1, WatchedAssumption DEF StoreNext, RunTx
<1>3. PICK e \in Event : e = ProductEvent("phase.changed", p)
  <2>1. ProductEvent("phase.changed", p) \in Event
    BY EventTyped DEF RuntimeTypes, Phase, ProductEvent
  <2> QED
    BY <2>1
<1>4. e.type = "phase.changed" /\ Appends(<<e>>)
  <2>1. e.type = "phase.changed"
    BY <1>3 DEF ProductEvent, RuntimeEvent
  <2> QED
    BY <1>1, <1>3, <2>1
<1>5. /\ rows[Watched].status = "running" /\ ~rows[Watched].finalized
      /\ rows'[Watched].status = "running" /\ ~rows'[Watched].finalized
  BY <1>1, WatchedRow DEF SetPhase, CanSetPhase, Row
<1>6. UNCHANGED <<messages, records>>
  BY DEF SetsPhase
<1>7. records = {}
  BY <1>5, WatchedRow
<1> QED
  BY <1>2, <1>4, <1>5, <1>6, <1>7, OneAppended, WatchedRow DEF Keeps, RuntimeTypes

LEMMA RecordsRuntimeEventKeeps == ASSUME EventsBase, RecordsRuntimeEvent PROVE Keeps
<1>1. PICK n \in 1..MaxRuntime, type \in RuntimeTypes,
           arg \in {"agent", "null"} :
         /\ arg = IF type = "phase.changed" THEN "agent" ELSE "null"
         /\ rows[Watched].status = "running" /\ ~Recorded(RuntimeEvent(n, type, arg))
         /\ RuntimeUpdate(type, arg)
         /\ Appends(<<RuntimeEvent(n, type, arg)>>)
         /\ messages' = IF type = "assistant.message" THEN messages \cup {n} ELSE messages
         /\ UNCHANGED records
  BY DEF RecordsRuntimeEvent
<1>2. PICK e \in Event : e = RuntimeEvent(n, type, arg)
  <2>1. n \in Nat
    BY EventBounds
  <2>2. RuntimeEvent(n, type, arg) \in Event
    BY <2>1, EventTyped DEF Phase
  <2> QED
    BY <2>2
<1>3. e.type = type /\ e.runtime = n /\ n \in Nat
  BY <1>2, EventBounds DEF RuntimeEvent
<1>4. ~Recorded(e) /\ Appends(<<e>>)
  BY <1>1, <1>2
<1>5. /\ ~rows[Watched].finalized /\ ~rows'[Watched].finalized /\ [StoreNext]_storeVars
  <2>0. ~rows[Watched].finalized
    BY <1>1, WatchedRow DEF Shaped, Terminal
  <2>1. CASE type = "phase.changed"
    <3>1. SetPhase(Watched, "agent")
      BY <1>1, <2>1 DEF RuntimeUpdate, RecordPhase
    <3>2. ~rows'[Watched].finalized
      BY <2>0, <3>1, WatchedRow DEF SetPhase, Row
    <3> QED
      BY <2>0, <3>1, <3>2, WatchedAssumption DEF StoreNext, RunTx
  <2>2. CASE type = "agent.failed"
    <3>1. RecordAgentFailed(Watched)
      BY <1>1, <2>2 DEF RuntimeUpdate
    <3>2. ~rows'[Watched].finalized
      BY <2>0, <3>1, WatchedRow DEF RecordAgentFailed, Row
    <3> QED
      BY <2>0, <3>1, <3>2, WatchedAssumption DEF StoreNext, RunTx
  <2>3. CASE type \notin {"phase.changed", "agent.failed"}
    <3>1. UNCHANGED storeVars
      BY <1>1, <2>3 DEF RuntimeUpdate
    <3> QED
      BY <2>0, <3>1 DEF storeVars
  <2> QED
    BY <2>1, <2>2, <2>3
<1>6. records = {}
  BY <1>1, WatchedRow
<1>7. messages' = IF e.type = "assistant.message" THEN messages \cup {e.runtime} ELSE messages
  BY <1>1, <1>3
<1>8. e.type \in RuntimeTypes /\ e.runtime \in Nat /\ records' = records
  BY <1>1, <1>3
<1> QED
  BY <1>4, <1>5, <1>6, <1>7, <1>8, OneAppended, WatchedRow DEF Keeps

LEMMA RecordsOutcomeKeeps == ASSUME EventsBase, RecordsOutcome PROVE Keeps
<1>1. PICK s \in {"failed", "cancelled", "interrupted"} : RecordFailure(Watched, s)
  BY DEF RecordsOutcome
<1>2. [StoreNext]_storeVars
  BY <1>1, WatchedAssumption DEF StoreNext, RunTx
<1>3. /\ rows'[Watched].finalized = rows[Watched].finalized
      /\ rows[Watched].status \in Terminal => rows'[Watched].status = rows[Watched].status
  BY <1>1, WatchedRow DEF RecordFailure, Row
<1>4. /\ Settled(Watched) => rows'[Watched].status = rows[Watched].status
      /\ records # {} => rows'[Watched].status = "succeeded"
  BY <1>3, WatchedRow DEF Settled, Shaped, Terminal
<1>5. UNCHANGED <<log, next, messages, records>>
  BY DEF RecordsOutcome, logVars
<1> QED
  BY <1>2, <1>3, <1>4, <1>5, NothingAppended, WatchedRow DEF Keeps

LEMMA CommitsProductsKeeps == ASSUME EventsBase, CommitsProducts PROVE Keeps
<1>1. CommitProducts(Watched) /\ records' \in SUBSET Artifacts /\ UNCHANGED <<log, next, messages>>
  BY DEF CommitsProducts
<1>2. [StoreNext]_storeVars
  BY <1>1, WatchedAssumption DEF StoreNext, RunTx
<1>3. /\ ~rows[Watched].finalized /\ ~rows'[Watched].finalized
      /\ rows'[Watched].status = "succeeded"
  BY <1>1, WatchedRow DEF CommitProducts, CanCommitProducts, Row
<1> QED
  BY <1>1, <1>2, <1>3, NothingAppended, WatchedRow DEF Keeps, Settled

LEMMA AcknowledgesKeeps == ASSUME EventsBase, Acknowledges PROVE Keeps
<1>1. /\ AcknowledgeFinalized(Watched) /\ ~Settled(Watched)
      /\ UNCHANGED <<messages, records>>
  BY DEF Acknowledges
<1>2. [StoreNext]_storeVars
  BY <1>1, WatchedAssumption DEF StoreNext, RunTx
<1>3. /\ ~rows[Watched].finalized /\ rows'[Watched].finalized
      /\ rows[Watched].status \in Terminal /\ rows'[Watched].status = rows[Watched].status
  BY <1>1, WatchedRow DEF AcknowledgeFinalized, CanAcknowledge, Settled, Row
<1>4. PICK s \in Terminal : s = rows[Watched].status
  BY <1>3
<1>5. PICK order \in Orders(records) :
         Appends([i \in DOMAIN order |-> ProductEvent("artifact.published", order[i])]
                 \o <<ProductEvent("run", rows[Watched].status)>>)
  BY DEF Acknowledges
<1> DEFINE announced == [i \in DOMAIN order |-> ProductEvent("artifact.published", order[i])]
           last == ProductEvent("run", s)
           events == announced \o <<last>>
<1>6. Appends(events)
  BY <1>4, <1>5
<1>7. order \in Seq(records) /\ Len(order) \in Nat /\ DOMAIN order = 1..Len(order)
      /\ order \in [1..Len(order) -> records]
  <2>1. IsFiniteSet(records)
    BY WatchedRow, ArtifactsAssumption, FS_Subset
  <2>2. order \in Seq(records)
    BY <2>1, OrderOfFinite
  <2> QED
    BY <2>2, LenProperties
<1>8. announced \in [1..Len(order) -> Event] /\ last \in Event
  BY <1>7, WatchedRow DEF Event, ProductEvent, RuntimeEvent
<1>9. \A i \in 1..Len(order) : announced[i] = ProductEvent("artifact.published", order[i])
  BY <1>7
<1> HIDE DEF announced, last
<1>10. announced \in Seq(Event) /\ Len(announced) = Len(order)
  BY <1>7, <1>8, FunctionIsSeq
<1>11. <<last>> \in Seq(Event) /\ Len(<<last>>) = 1 /\ <<last>>[1] = last
  BY <1>8
<1>12. /\ events \in Seq(Event) /\ Len(events) = Len(order) + 1
       /\ \A i \in 1..Len(order) : events[i] = announced[i]
       /\ events[Len(order) + 1] = last
  <2>1. /\ events \in Seq(Event) /\ Len(events) = Len(announced) + Len(<<last>>)
        /\ \A i \in 1..Len(announced) + Len(<<last>>) :
              events[i] = IF i <= Len(announced) THEN announced[i]
                          ELSE <<last>>[i - Len(announced)]
    BY <1>10, <1>11, ConcatProperties
  <2> HIDE DEF events
  <2>2. Len(events) = Len(order) + 1 /\ \A i \in 1..Len(order) : events[i] = announced[i]
    BY <1>7, <1>10, <1>11, <2>1
  <2>3. events[Len(order) + 1] = last
    <3>1. ASSUME NEW k, k = Len(order) + 1
          PROVE  events[k] = last
      <4>1. k \in 1..Len(announced) + Len(<<last>>) /\ ~(k <= Len(announced))
            /\ k - Len(announced) = 1
        BY <1>7, <1>10, <1>11, <3>1
      <4>2. events[k] = <<last>>[k - Len(announced)]
        BY <2>1, <4>1
      <4> QED
        BY <1>11, <4>1, <4>2
    <3> QED
      BY <3>1
  <2> QED
    BY <2>1, <2>2, <2>3
<1>13. PICK told \in Seq(Event) : told = events
  BY <1>12
<1>14. /\ Appends(told) /\ Len(told) = Len(order) + 1
       /\ \A i \in 1..Len(order) : told[i] = ProductEvent("artifact.published", order[i])
       /\ told[Len(order) + 1] = ProductEvent("run", s)
  <2> HIDE DEF events
  <2>1. Appends(told)
    BY <1>6, <1>13
  <2> QED
    BY <1>9, <1>12, <1>13, <2>1 DEF last
<1>15. rows'[Watched].status = s /\ (records # {} => s = "succeeded")
  BY <1>3, <1>4, WatchedRow
<1> QED
  BY <1>1, <1>2, <1>3, <1>14, <1>15, Closes, WatchedRow DEF Keeps

LEMMA CancelsQueuedKeeps == ASSUME EventsBase, CancelsQueued PROVE Keeps
<1>1. /\ CancelQueued(Watched) /\ Appends(<<ProductEvent("run", "cancelled")>>)
      /\ UNCHANGED <<messages, records>>
  BY DEF CancelsQueued
<1>2. [StoreNext]_storeVars
  BY <1>1, WatchedAssumption DEF StoreNext, RunTx
<1>3. /\ ~rows[Watched].finalized /\ rows'[Watched].finalized
      /\ rows[Watched].status = "queued" /\ rows'[Watched].status = "cancelled"
  BY <1>1, WatchedRow DEF CancelQueued, CanCancelQueued, Row
<1>4. records = {}
  BY <1>3, WatchedRow
<1>5. << >> \in Orders(records) /\ Len(<< >>) = 0
  BY <1>4, FS_EmptySet DEF Orders
<1>6. PICK e \in Event : e = ProductEvent("run", "cancelled")
  <2>1. ProductEvent("run", "cancelled") \in Event
    BY EventTyped DEF Terminal, ProductEvent
  <2> QED
    BY <2>1
<1>7. /\ <<e>> \in Seq(Event) /\ Len(<<e>>) = Len(<< >>) + 1
      /\ <<e>>[Len(<< >>) + 1] = e
  BY <1>5
<1>8. Appends(<<e>>)
  BY <1>1, <1>6
<1>9. PICK order \in Orders(records) : order = << >>
  BY <1>5
<1>10. PICK told \in Seq(Event) : told = <<e>>
  BY <1>7
<1>11. /\ Len(told) = Len(order) + 1 /\ 1..Len(order) = {} /\ Appends(told)
       /\ told[Len(order) + 1] = ProductEvent("run", "cancelled")
  BY <1>5, <1>6, <1>7, <1>8, <1>9, <1>10
<1>12. "cancelled" \in Terminal
  BY DEF Terminal
<1> QED
  BY <1>1, <1>2, <1>3, <1>4, <1>11, <1>12, Closes, WatchedRow DEF Keeps

(* Another run's transaction leaves the watched row alone. *)
LEMMA OtherRun ==
    ASSUME StoreBase, NEW r \in Runs, NEW q \in Runs \ {r}, RunTx(q)
    PROVE  rows'[r] = rows[r]
<1>0. rows \in [Runs -> Row] /\ q # r
  BY DEF StoreBase, StoreTypeOK
<1> QED
  BY <1>0 DEF RunTx, SubmitMessage, ClaimNext, RefreshSource, BeginSandboxAcquire,
     AttachSandboxRef, SetPhase, RecordAgentFailed, RecordFailure, CommitProducts,
     AcknowledgeFinalized, CancelQueued, MarkConsistency

LEMMA CommitsNothingKeeps ==
    ASSUME EventsBase, UNCHANGED <<storeVars, logVars>> PROVE Keeps
<1>1. UNCHANGED <<log, next, messages, records>> /\ UNCHANGED storeVars
  BY DEF logVars
<1>2. rows' = rows
  BY <1>1 DEF storeVars
<1> QED
  BY <1>1, <1>2, NothingAppended, WatchedRow DEF Keeps

LEMMA CommitsElsewhereKeeps == ASSUME EventsBase, CommitsElsewhere PROVE Keeps
<1>1. UNCHANGED <<log, next, messages, records>>
  BY DEF CommitsElsewhere, logVars
<1> DEFINE Kept ==
             /\ [StoreNext]_storeVars /\ rows'[Watched].finalized = rows[Watched].finalized
             /\ rows[Watched].status \in Terminal => rows'[Watched].status = rows[Watched].status
<1>2. Kept
  <2>1. ASSUME NEW q \in Runs \ {Watched}, RunTx(q) PROVE Kept
    BY <2>1, OtherRun, WatchedAssumption DEF StoreNext, EventsBase
  <2>2. ASSUME NEW c \in Conversations, SubmitMessage(Watched, c) PROVE Kept
    <3>1. [StoreNext]_storeVars
      BY <2>2, WatchedAssumption DEF StoreNext, RunTx
    <3>2. rows[Watched].status = "none" /\ ~rows[Watched].finalized
      BY <2>2, WatchedRow DEF SubmitMessage, Exists, Shaped, Terminal, Row
    <3>3. rows'[Watched].finalized = FALSE
      BY <2>2, WatchedRow DEF SubmitMessage, NoRow
    <3>4. rows[Watched].finalized = FALSE
      BY <3>2, WatchedRow DEF Row
    <3> QED
      BY <3>1, <3>2, <3>3, <3>4 DEF Terminal
  <2>3. ASSUME NEW c \in Conversations, DeleteConversation(c) PROVE Kept
    BY <2>3 DEF StoreNext, DeleteConversation
  <2>4. ASSUME NEW locked \in SUBSET Runs, ClaimNext(Watched, locked) PROVE Kept
    BY <2>4, WatchedRow DEF StoreNext, RunTx, ClaimNext, CanClaim, Row, Terminal
  <2> QED
    BY <2>1, <2>2, <2>3, <2>4 DEF CommitsElsewhere
<1>3. /\ Settled(Watched) => rows'[Watched].status = rows[Watched].status
      /\ records # {} => rows'[Watched].status = "succeeded"
  BY <1>2, WatchedRow DEF Settled, Shaped, Terminal
<1> QED
  BY <1>1, <1>2, <1>3, NothingAppended, WatchedRow DEF Keeps

LEMMA TransactionKeeps == ASSUME EventsBase, Transaction PROVE Keeps
  BY SetsPhaseKeeps, RecordsRuntimeEventKeeps, RecordsOutcomeKeeps, CommitsProductsKeeps,
     AcknowledgesKeeps, CancelsQueuedKeeps, CommitsNothingKeeps, CommitsElsewhereKeeps
     DEF Transaction, CommitsNothing

-----------------------------------------------------------------------------
(* The readers.  What a client has handled is a prefix of the log, and the *)
(* connection carries what comes next; so the handler's cursor is the      *)
(* place up to which the log has been written to the connection, and none  *)
(* of the frames a client sees is skipped as old.                          *)

ReadersTyped ==
    /\ owed \in BOOLEAN /\ early \in BOOLEAN
    /\ conn \in [Readers -> {"off", "reading", "waiting"}]
    /\ hint \in [Readers -> BOOLEAN]
    /\ after \in [Readers -> Nat] /\ cursor \in [Readers -> Nat]
    /\ wire \in [Readers -> Seq(Event)] /\ received \in [Readers -> Seq(Event)]
    /\ drops \in Nat

Follows(c) ==
    /\ cursor[c] = Len(received[c]) /\ cursor[c] + Len(wire[c]) <= Len(log)
    /\ \A i \in 1..Len(received[c]) : received[c][i] = log[i]
    /\ \A i \in 1..Len(wire[c]) : wire[c][i] = log[cursor[c] + i]
    /\ conn[c] = "off" => wire[c] = << >>
    /\ conn[c] # "off" => after[c] = cursor[c] + Len(wire[c])

ReadersRight == \A c \in Readers : Follows(c)

EventsRight == EventsBase /\ ReadersTyped /\ ReadersRight

LEMMA ReaderFacts ==
    ASSUME EventsRight, NEW c \in Readers
    PROVE  /\ log \in Seq(Event) /\ Len(log) \in Nat /\ \A i \in 1..Len(log) : log[i].seq = i
           /\ wire[c] \in Seq(Event) /\ Len(wire[c]) \in Nat
           /\ received[c] \in Seq(Event) /\ Len(received[c]) \in Nat
           /\ cursor[c] \in Nat /\ after[c] \in Nat
           /\ Follows(c)
<1>1. /\ log \in Seq(Event) /\ wire[c] \in Seq(Event) /\ received[c] \in Seq(Event)
      /\ cursor[c] \in Nat /\ after[c] \in Nat /\ Follows(c)
      /\ \A i \in 1..Len(log) : log[i].seq = i
  BY DEF EventsRight, EventsBase, LogRight, LogTyped, LogGapless, ReadersTyped, ReadersRight
<1> QED
  BY <1>1, LenProperties

(* A prefix and what follows it lie within the log, and within a longer    *)
(* one.                                                                    *)
LEMMA WithinLog ==
    ASSUME NEW a \in Nat, NEW b \in Nat, NEW m \in Nat, NEW n \in Nat, a + b <= m, m <= n
    PROVE  /\ \A i \in 1..a : i \in 1..m
           /\ \A i \in 1..b : a + i \in 1..m
           /\ a + b <= n
  BY SMT

(* A reader whose connection and cursors are untouched goes on following   *)
(* a log that keeps what it had.                                           *)
LEMMA FollowsKept ==
    ASSUME EventsRight, NEW c \in Readers, log' \in Seq(Event), Publication,
           conn'[c] = conn[c], after'[c] = after[c], wire'[c] = wire[c],
           cursor'[c] = cursor[c], received'[c] = received[c]
    PROVE  Follows(c)'
<1>1. Len(log') \in Nat /\ Len(log') >= Len(log) /\ \A i \in 1..Len(log) : log'[i] = log[i]
  <2>1. Len(log) \in Nat /\ Len(log') \in Nat
    BY ReaderFacts, LenProperties
  <2> QED
    BY <2>1 DEF Publication
<1>2. /\ \A i \in 1..Len(received[c]) : i \in 1..Len(log)
      /\ \A i \in 1..Len(wire[c]) : cursor[c] + i \in 1..Len(log)
      /\ cursor[c] + Len(wire[c]) <= Len(log')
  <2>1. /\ Len(received[c]) \in Nat /\ Len(wire[c]) \in Nat /\ Len(log) \in Nat
        /\ cursor[c] = Len(received[c]) /\ cursor[c] + Len(wire[c]) <= Len(log)
    BY ReaderFacts DEF Follows
  <2> DEFINE a == Len(received[c])
             b == Len(wire[c])
             m == Len(log)
             n == Len(log')
  <2>2. a \in Nat /\ b \in Nat /\ m \in Nat /\ n \in Nat /\ a + b <= m /\ m <= n
    BY <1>1, <2>1
  <2>3. cursor[c] = a
    BY <2>1
  <2> HIDE DEF a, b, m, n
  <2>4. /\ \A i \in 1..a : i \in 1..m
        /\ \A i \in 1..b : a + i \in 1..m
        /\ a + b <= n
    BY <2>2, WithinLog
  <2> QED
    BY <2>3, <2>4 DEF a, b, m, n
<1>3. \A i \in 1..Len(received[c]) : received[c][i] = log'[i]
  BY <1>1, <1>2, ReaderFacts DEF Follows
<1>4. ASSUME NEW i \in 1..Len(wire[c]) PROVE wire[c][i] = log'[cursor[c] + i]
  <2>1. wire[c][i] = log[cursor[c] + i]
    BY ReaderFacts DEF Follows
  <2> QED
    BY <1>1, <1>2, <2>1
<1>5. /\ cursor[c] = Len(received[c])
      /\ conn[c] = "off" => wire[c] = << >>
      /\ conn[c] # "off" => after[c] = cursor[c] + Len(wire[c])
  BY ReaderFacts DEF Follows
<1> QED
  BY <1>2, <1>3, <1>4, <1>5 DEF Follows

(* What a step of one reader leaves of the others. *)
LEMMA OthersFollow ==
    ASSUME EventsRight, NEW c \in Readers, Follows(c)', UNCHANGED log,
           \A d \in Readers \ {c} :
              /\ conn'[d] = conn[d] /\ after'[d] = after[d] /\ wire'[d] = wire[d]
              /\ cursor'[d] = cursor[d] /\ received'[d] = received[d]
    PROVE  ReadersRight'
<1>1. ASSUME NEW d \in Readers PROVE Follows(d)'
  <2>1. CASE d = c
    BY <2>1
  <2>2. CASE d # c
    <3>1. log' \in Seq(Event) /\ Publication
      BY ReaderFacts DEF Publication
    <3> QED
      BY <2>2, <3>1, FollowsKept
  <2> QED
    BY <2>1, <2>2
<1> QED
  BY <1>1 DEF ReadersRight

(* What a reader's step must do: keep the readers' part of the invariant,  *)
(* and let this reader have its next event, or nothing new.                *)
Serves(c) ==
    /\ UNCHANGED <<storeVars, logVars>>
    /\ ReadersTyped' /\ ReadersRight'
    /\ UNCHANGED received \/ TheFeed!Receive(c)

LEMMA ConnectServes ==
    ASSUME EventsRight, NEW c \in Readers, Connect(c) PROVE Serves(c)
<1>1. /\ UNCHANGED <<storeVars, logVars, owed, early, hint, wire, cursor, received, drops>>
      /\ conn[c] = "off"
      /\ conn' = [conn EXCEPT ![c] = "reading"]
      /\ after' = [after EXCEPT ![c] = cursor[c]]
  BY DEF Connect
<1>2. ReadersTyped'
  BY <1>1, ReaderFacts DEF EventsRight, ReadersTyped
<1>3. conn \in [Readers -> {"off", "reading", "waiting"}] /\ after \in [Readers -> Nat]
  BY DEF EventsRight, ReadersTyped
<1>4. wire[c] = << >> /\ Len(wire[c]) = 0
  BY <1>1, ReaderFacts DEF Follows
<1>5. UNCHANGED log
  BY <1>1 DEF logVars
<1>6. Follows(c)'
  <2>1. conn'[c] = "reading" /\ after'[c] = cursor[c] + Len(wire[c])
    BY <1>1, <1>3, <1>4, ReaderFacts
  <2> QED
    BY <1>1, <1>5, <2>1, ReaderFacts DEF Follows
<1>7. ReadersRight'
  BY <1>1, <1>3, <1>5, <1>6, OthersFollow
<1> QED
  BY <1>1, <1>2, <1>7 DEF Serves

LEMMA WakeServes ==
    ASSUME EventsRight, NEW c \in Readers, Wake(c) PROVE Serves(c)
<1>1. /\ UNCHANGED <<storeVars, logVars, owed, early, after, wire, cursor, received, drops>>
      /\ conn[c] = "waiting"
      /\ conn' = [conn EXCEPT ![c] = "reading"]
      /\ hint' \in {[hint EXCEPT ![c] = FALSE], hint}
  BY DEF Wake
<1>2. ReadersTyped'
  BY <1>1 DEF EventsRight, ReadersTyped
<1>3. conn \in [Readers -> {"off", "reading", "waiting"}]
  BY DEF EventsRight, ReadersTyped
<1>4. UNCHANGED log
  BY <1>1 DEF logVars
<1>5. Follows(c)'
  <2>1. conn'[c] = "reading" /\ after'[c] = cursor[c] + Len(wire[c])
    BY <1>1, <1>3, ReaderFacts DEF Follows
  <2> QED
    BY <1>1, <1>4, <2>1, ReaderFacts DEF Follows
<1>6. ReadersRight'
  BY <1>1, <1>3, <1>4, <1>5, OthersFollow
<1> QED
  BY <1>1, <1>2, <1>6 DEF Serves

(* A connection that ends takes what it carried with it. *)
LEMMA DisconnectedFollows ==
    ASSUME EventsRight, NEW c \in Readers, Disconnected(c), UNCHANGED log,
           cursor' \in [Readers -> Nat], received' \in [Readers -> Seq(Event)],
           cursor'[c] = Len(received'[c]), cursor'[c] <= Len(log),
           \A i \in 1..Len(received'[c]) : received'[c][i] = log[i],
           \A d \in Readers \ {c} : cursor'[d] = cursor[d] /\ received'[d] = received[d],
           UNCHANGED <<owed, early>>, drops' \in Nat
    PROVE  ReadersTyped' /\ ReadersRight'
<1>1. /\ conn' = [conn EXCEPT ![c] = "off"] /\ hint' = [hint EXCEPT ![c] = FALSE]
      /\ after' = [after EXCEPT ![c] = 0] /\ wire' = [wire EXCEPT ![c] = << >>]
  BY DEF Disconnected
<1>2. /\ conn \in [Readers -> {"off", "reading", "waiting"}] /\ after \in [Readers -> Nat]
      /\ wire \in [Readers -> Seq(Event)] /\ hint \in [Readers -> BOOLEAN]
      /\ owed \in BOOLEAN /\ early \in BOOLEAN
  BY DEF EventsRight, ReadersTyped
<1>3. << >> \in Seq(Event)
  OBVIOUS
<1>4. ReadersTyped'
  BY <1>1, <1>2, <1>3 DEF ReadersTyped
<1>5. Follows(c)'
  <2>1. conn'[c] = "off" /\ wire'[c] = << >> /\ Len(wire'[c]) = 0
    BY <1>1, <1>2
  <2>2. cursor'[c] \in Nat /\ cursor'[c] + 0 <= Len(log') /\ 1..0 = {}
    OBVIOUS
  <2> QED
    BY <2>1, <2>2 DEF Follows
<1>6. ReadersRight'
  BY <1>1, <1>2, <1>5, OthersFollow
<1> QED
  BY <1>4, <1>6

LEMMA DropServes ==
    ASSUME EventsRight, NEW c \in Readers, Drop(c) PROVE Serves(c)
<1>1. /\ UNCHANGED <<storeVars, logVars, owed, early, cursor, received>>
      /\ Disconnected(c) /\ drops > 0 /\ drops' = drops - 1
  BY DEF Drop
<1>2. /\ drops' \in Nat /\ UNCHANGED log
      /\ cursor' \in [Readers -> Nat] /\ received' \in [Readers -> Seq(Event)]
  BY <1>1 DEF EventsRight, ReadersTyped, logVars
<1>3. /\ cursor'[c] = Len(received'[c]) /\ cursor'[c] <= Len(log)
      /\ \A i \in 1..Len(received'[c]) : received'[c][i] = log[i]
  BY <1>1, ReaderFacts DEF Follows
<1>4. ReadersTyped' /\ ReadersRight'
  BY <1>1, <1>2, <1>3, DisconnectedFollows
<1> QED
  BY <1>1, <1>4 DEF Serves

LEMMA ListServes ==
    ASSUME EventsRight, NEW c \in Readers, List(c) PROVE Serves(c)
<1> DEFINE events == Selected(log, {i \in 1..Len(log) : log[i].seq > after[c]})
<1>1. /\ UNCHANGED <<storeVars, logVars, owed, early, hint, cursor, received, drops>>
      /\ conn[c] = "reading" /\ conn' = [conn EXCEPT ![c] = "waiting"]
      /\ wire' = [wire EXCEPT ![c] = @ \o events]
      /\ after' = [after EXCEPT ![c] = IF events = << >> THEN @ ELSE events[Len(events)].seq]
  BY DEF List
<1>2. /\ conn \in [Readers -> {"off", "reading", "waiting"}]
      /\ after \in [Readers -> Nat] /\ wire \in [Readers -> Seq(Event)]
  BY DEF EventsRight, ReadersTyped
<1>3. after[c] = cursor[c] + Len(wire[c]) /\ after[c] \in 0..Len(log)
  BY <1>1, ReaderFacts DEF Follows
<1>4. {i \in 1..Len(log) : log[i].seq > after[c]} = (after[c] + 1)..Len(log)
  BY <1>3, ReaderFacts
<1>5. /\ events \in Seq(Event) /\ Len(events) = Len(log) - after[c]
      /\ \A k \in 1..Len(events) : events[k] = log[after[c] + k]
  <2> HIDE DEF events
  <2>1. events = Selected(log, (after[c] + 1)..Len(log))
    BY <1>4 DEF events
  <2> QED
    BY <1>3, <2>1, ReaderFacts, SelectedInterval
<1> HIDE DEF events
<1>6. wire[c] \in Seq(Event) /\ Len(wire[c]) \in Nat /\ Len(events) \in Nat
  BY <1>5, ReaderFacts, LenProperties
<1>7. /\ wire'[c] \in Seq(Event) /\ Len(wire'[c]) = Len(wire[c]) + Len(events)
      /\ \A i \in 1..Len(wire[c]) + Len(events) :
            wire'[c][i] = IF i <= Len(wire[c]) THEN wire[c][i] ELSE events[i - Len(wire[c])]
  <2>1. /\ wire[c] \o events \in Seq(Event)
        /\ Len(wire[c] \o events) = Len(wire[c]) + Len(events)
        /\ \A i \in 1..Len(wire[c]) + Len(events) :
              (wire[c] \o events)[i] = IF i <= Len(wire[c]) THEN wire[c][i]
                                       ELSE events[i - Len(wire[c])]
    BY <1>5, <1>6, ConcatProperties
  <2>2. wire'[c] = wire[c] \o events
    BY <1>1, <1>2
  <2> QED
    BY <2>1, <2>2
<1>8. after'[c] = Len(log)
  <2>1. CASE events = << >>
    <3>1. Len(events) = 0
      BY <2>1
    <3> QED
      BY <1>1, <1>2, <1>3, <1>5, <2>1, <3>1, ReaderFacts
  <2>2. CASE events # << >>
    <3>1. Len(events) # 0
      BY <1>5, <2>2, EmptySeq
    <3>2. Len(log) \in Nat /\ after[c] \in Nat
      BY ReaderFacts
    <3>3. Len(events) \in 1..Len(events) /\ after[c] + Len(events) = Len(log)
      BY <1>5, <1>6, <3>1, <3>2
    <3>4. events[Len(events)] = log[Len(log)] /\ Len(log) \in 1..Len(log)
      BY <1>3, <1>5, <1>6, <3>1, <3>2, <3>3
    <3>5. events[Len(events)].seq = Len(log)
      BY <3>4, ReaderFacts
    <3> QED
      BY <1>1, <1>2, <2>2, <3>5
  <2> QED
    BY <2>1, <2>2
<1>9. ReadersTyped'
  <2>1. conn' \in [Readers -> {"off", "reading", "waiting"}]
    BY <1>1, <1>2
  <2>2. wire' \in [Readers -> Seq(Event)]
    BY <1>1, <1>2, <1>7
  <2>3. after' \in [Readers -> Nat]
    BY <1>1, <1>2, <1>8, ReaderFacts
  <2> QED
    BY <1>1, <2>1, <2>2, <2>3 DEF EventsRight, ReadersTyped
<1>10. UNCHANGED log
  BY <1>1 DEF logVars
<1>11. Follows(c)'
  <2>1. conn'[c] = "waiting" /\ UNCHANGED <<cursor, received>>
    BY <1>1, <1>2
  <2>2. cursor[c] + Len(wire'[c]) = Len(log)
    <3>1. cursor[c] \in Nat /\ Len(log) \in Nat
      BY ReaderFacts
    <3>2. /\ after[c] = cursor[c] + Len(wire[c]) /\ Len(events) = Len(log) - after[c]
          /\ Len(wire'[c]) = Len(wire[c]) + Len(events)
      BY <1>3, <1>5, <1>7
    <3> QED
      BY <1>6, <3>1, <3>2
  <2>3. ASSUME NEW i \in 1..Len(wire'[c])
        PROVE  wire'[c][i] = log[cursor[c] + i]
    <3>0. Len(wire[c]) \in Nat /\ Len(events) \in Nat /\ cursor[c] \in Nat /\ i \in Nat
          /\ i \in 1..Len(wire[c]) + Len(events)
      BY <1>6, <1>7, ReaderFacts
    <3>1. CASE i <= Len(wire[c])
      <4>1. i \in 1..Len(wire[c]) /\ wire'[c][i] = wire[c][i]
        BY <1>7, <3>0, <3>1
      <4>2. wire[c][i] = log[cursor[c] + i]
        BY <4>1, ReaderFacts DEF Follows
      <4> QED
        BY <4>1, <4>2
    <3>2. CASE ~(i <= Len(wire[c]))
      <4>1. /\ i - Len(wire[c]) \in 1..Len(events)
            /\ after[c] + (i - Len(wire[c])) = cursor[c] + i
        BY <1>3, <3>0, <3>2
      <4>2. wire'[c][i] = events[i - Len(wire[c])]
        BY <1>7, <3>0, <3>2
      <4>3. events[i - Len(wire[c])] = log[after[c] + (i - Len(wire[c]))]
        BY <1>5, <4>1
      <4> QED
        BY <4>1, <4>2, <4>3
    <3> QED
      BY <3>1, <3>2
  <2>4. cursor[c] = Len(received[c]) /\ \A i \in 1..Len(received[c]) : received[c][i] = log[i]
    BY ReaderFacts DEF Follows
  <2>5. Len(log) <= Len(log)
    BY ReaderFacts
  <2> QED
    BY <1>8, <1>10, <2>1, <2>2, <2>3, <2>4, <2>5 DEF Follows
<1>12. ReadersRight'
  BY <1>1, <1>2, <1>10, <1>11, OthersFollow
<1> QED
  BY <1>1, <1>9, <1>12 DEF Serves

LEMMA HandleServes ==
    ASSUME EventsRight, NEW c \in Readers, Handle(c) PROVE Serves(c)
<1> DEFINE e == Head(wire[c])
           n == Len(received[c])
<1>1. wire[c] # << >> /\ UNCHANGED <<storeVars, logVars, owed, early, drops>>
  BY DEF Handle
<1>2. /\ Len(wire[c]) > 0 /\ e = wire[c][1] /\ e \in Event
      /\ Tail(wire[c]) \in Seq(Event) /\ Len(Tail(wire[c])) = Len(wire[c]) - 1
      /\ \A i \in 1..Len(Tail(wire[c])) : Tail(wire[c])[i] = wire[c][i + 1]
  <2>1. wire[c] \in Seq(Event) /\ Len(wire[c]) \in Nat
    BY ReaderFacts
  <2>2. Len(wire[c]) > 0
    BY <1>1, <2>1, EmptySeq
  <2> QED
    BY <1>1, <2>1, <2>2, HeadTailProperties
<1>3. /\ n \in Nat /\ cursor[c] = n /\ n + 1 \in 1..Len(log)
      /\ e = log[n + 1] /\ e.seq = n + 1 /\ e.seq > cursor[c]
  <2>1. /\ n \in Nat /\ cursor[c] = n /\ Len(wire[c]) \in Nat /\ Len(log) \in Nat
        /\ cursor[c] + Len(wire[c]) <= Len(log)
        /\ \A i \in 1..Len(wire[c]) : wire[c][i] = log[cursor[c] + i]
    BY ReaderFacts DEF Follows
  <2>2. n + 1 \in 1..Len(log) /\ 1 \in 1..Len(wire[c])
    <3> HIDE DEF n
    <3>1. /\ n \in Nat /\ Len(wire[c]) \in Nat /\ Len(log) \in Nat
          /\ n + Len(wire[c]) <= Len(log) /\ Len(wire[c]) > 0
      BY <1>2, <2>1
    <3> QED
      BY <3>1
  <2>3. wire[c][1] = log[n + 1]
    BY <2>1, <2>2
  <2>4. log[n + 1].seq = n + 1
    BY <2>2, ReaderFacts
  <2> QED
    BY <1>2, <2>1, <2>2, <2>3, <2>4
<1>4. /\ received' = [received EXCEPT ![c] = Append(@, e)]
      /\ cursor' = [cursor EXCEPT ![c] = n + 1]
  BY <1>3 DEF Handle
<1>5. \/ e.type = "run" /\ Disconnected(c)
      \/ wire' = [wire EXCEPT ![c] = Tail(@)] /\ UNCHANGED <<conn, hint, after>>
  BY <1>3 DEF Handle
<1> HIDE DEF e, n
<1>6. /\ received \in [Readers -> Seq(Event)] /\ cursor \in [Readers -> Nat]
      /\ wire \in [Readers -> Seq(Event)]
  BY DEF EventsRight, ReadersTyped
<1>7. /\ received'[c] \in Seq(Event) /\ Len(received'[c]) = n + 1
      /\ \A i \in 1..n : received'[c][i] = received[c][i]
      /\ received'[c][n + 1] = e
  <2>1. received'[c] = Append(received[c], e) /\ received[c] \in Seq(Event)
    BY <1>4, <1>6
  <2> QED
    BY <1>2, <2>1, AppendProperties DEF n
<1>8. UNCHANGED log
  BY <1>1 DEF logVars
<1>9. TheFeed!Receive(c)
  <2>1. n < Len(log)
    BY <1>3, ReaderFacts
  <2>2. received' = [received EXCEPT ![c] = Append(@, log[Len(@) + 1])]
    BY <1>3, <1>4 DEF n
  <2> QED
    BY <1>8, <2>1, <2>2 DEF TheFeed!Receive, n
<1>10. /\ received' \in [Readers -> Seq(Event)] /\ cursor' \in [Readers -> Nat]
       /\ cursor'[c] = n + 1 /\ n + 1 <= Len(log)
       /\ \A d \in Readers \ {c} : cursor'[d] = cursor[d] /\ received'[d] = received[d]
  BY <1>3, <1>4, <1>6, <1>7, ReaderFacts
<1>11. ASSUME NEW i \in 1..n + 1
       PROVE  received'[c][i] = log[i]
  <2>1. CASE i \in 1..n
    BY <1>7, <2>1, ReaderFacts DEF Follows, n
  <2>2. CASE i = n + 1
    BY <1>3, <1>7, <2>2
  <2> QED
    BY <1>3, <2>1, <2>2
<1>12. ReadersTyped' /\ ReadersRight'
  <2>1. CASE Disconnected(c)
    <3>1. drops' \in Nat
      BY <1>1 DEF EventsRight, ReadersTyped
    <3> QED
      BY <1>1, <1>7, <1>8, <1>10, <1>11, <2>1, <3>1, DisconnectedFollows
  <2>2. CASE wire' = [wire EXCEPT ![c] = Tail(@)] /\ UNCHANGED <<conn, hint, after>>
    <3>1. wire' \in [Readers -> Seq(Event)] /\ wire'[c] = Tail(wire[c])
      BY <1>2, <1>6, <2>2
    <3>2. ReadersTyped'
      BY <1>1, <1>10, <2>2, <3>1 DEF EventsRight, ReadersTyped
    <3>3. Follows(c)'
      <4> DEFINE old == Len(wire[c])
                 new == Len(wire'[c])
                 to == cursor'[c]
      <4>0. /\ old \in Nat /\ n \in Nat /\ new = old - 1 /\ to = n + 1 /\ cursor[c] = n
            /\ to + new = cursor[c] + old
        <5>1. old \in Nat
          BY ReaderFacts
        <5>2. new = old - 1
          BY <1>2, <3>1
        <5>3. n \in Nat /\ to = n + 1 /\ cursor[c] = n
          BY <1>3, <1>10
        <5> HIDE DEF old, new, to
        <5> QED
          BY <5>1, <5>2, <5>3
      <4>1. cursor'[c] = Len(received'[c]) /\ cursor'[c] + Len(wire'[c]) <= Len(log)
        BY <1>7, <1>10, <4>0, ReaderFacts DEF Follows
      <4>2. ASSUME NEW i \in 1..Len(wire'[c])
            PROVE  wire'[c][i] = log[cursor'[c] + i]
        <5>1. i + 1 \in 1..Len(wire[c]) /\ cursor[c] + (i + 1) = cursor'[c] + i
          <6>1. i \in 1..new
            OBVIOUS
          <6>2. i + 1 \in 1..old /\ n + (i + 1) = to + i
            <7> HIDE DEF old, new, to
            <7> QED
              BY <4>0, <6>1
          <6> QED
            BY <4>0, <6>2
        <5>2. wire'[c][i] = wire[c][i + 1]
          BY <1>2, <3>1
        <5>3. wire[c][i + 1] = log[cursor[c] + (i + 1)]
          BY <5>1, ReaderFacts DEF Follows
        <5> QED
          BY <5>1, <5>2, <5>3
      <4>3. conn'[c] # "off" /\ after'[c] = cursor'[c] + Len(wire'[c])
        BY <1>1, <2>2, <4>0, ReaderFacts DEF Follows
      <4> QED
        BY <1>7, <1>8, <1>11, <4>1, <4>2, <4>3 DEF Follows
    <3>4. ReadersRight'
      BY <1>6, <1>8, <1>10, <2>2, <3>3, OthersFollow
    <3> QED
      BY <3>2, <3>4
  <2> QED
    BY <1>5, <2>1, <2>2
<1> QED
  BY <1>1, <1>9, <1>12 DEF Serves

LEMMA CrashServes ==
    ASSUME EventsRight, Crash
    PROVE  /\ UNCHANGED <<storeVars, logVars, received>>
           /\ ReadersTyped' /\ ReadersRight'
<1>1. /\ UNCHANGED <<storeVars, logVars, early, cursor, received>>
      /\ owed' = FALSE /\ drops > 0 /\ drops' = drops - 1
      /\ conn' = [c \in Readers |-> "off"] /\ hint' = [c \in Readers |-> FALSE]
      /\ after' = [c \in Readers |-> 0] /\ wire' = [c \in Readers |-> << >>]
  BY DEF Crash
<1>2. << >> \in Seq(Event) /\ Len(<< >>) = 0
  OBVIOUS
<1>3. ReadersTyped'
  <2>1. /\ early \in BOOLEAN /\ cursor \in [Readers -> Nat] /\ drops \in Nat
        /\ received \in [Readers -> Seq(Event)]
    BY DEF EventsRight, ReadersTyped
  <2>2. owed' \in BOOLEAN /\ early' \in BOOLEAN /\ drops' \in Nat
    <3>1. drops' \in Nat
      BY <1>1, <2>1
    <3>2. owed' \in BOOLEAN /\ early' = early
      BY <1>1
    <3> QED
      BY <2>1, <3>1, <3>2
  <2>3. /\ conn' \in [Readers -> {"off", "reading", "waiting"}]
        /\ hint' \in [Readers -> BOOLEAN] /\ after' \in [Readers -> Nat]
    BY <1>1
  <2>4. /\ wire' \in [Readers -> Seq(Event)] /\ cursor' \in [Readers -> Nat]
        /\ received' \in [Readers -> Seq(Event)]
    BY <1>1, <1>2, <2>1
  <2> QED
    BY <2>2, <2>3, <2>4 DEF ReadersTyped
<1>4. ASSUME NEW c \in Readers PROVE Follows(c)'
  <2>1. conn'[c] = "off" /\ wire'[c] = << >> /\ Len(wire'[c]) = 0
    BY <1>1, <1>2
  <2>2. /\ UNCHANGED <<log, cursor, received>> /\ cursor[c] \in Nat /\ 1..0 = {}
        /\ cursor[c] + 0 <= Len(log)
    BY <1>1, ReaderFacts DEF Follows, logVars
  <2> QED
    BY <2>1, <2>2, ReaderFacts DEF Follows
<1> QED
  BY <1>1, <1>3, <1>4 DEF ReadersRight

LEMMA BrokerServes ==
    ASSUME EventsRight, BrokerNext
    PROVE  /\ UNCHANGED <<storeVars, logVars, received>>
           /\ ReadersTyped' /\ ReadersRight'
<1>1. UNCHANGED <<storeVars, logVars, conn, after, wire, cursor, received, drops>>
  BY DEF BrokerNext, Notify, GiveUp, RollsBack, readerVars
<1>2. owed' \in BOOLEAN /\ early' \in BOOLEAN /\ hint' \in [Readers -> BOOLEAN]
  <2>1. /\ owed \in BOOLEAN /\ early \in BOOLEAN /\ hint \in [Readers -> BOOLEAN]
        /\ conn \in [Readers -> {"off", "reading", "waiting"}]
    BY DEF EventsRight, ReadersTyped
  <2>2. CASE Notify
    BY <2>1, <2>2 DEF Notify, Notified
  <2>3. CASE GiveUp
    BY <2>1, <2>3 DEF GiveUp, Notified
  <2>4. CASE RollsBack
    BY <2>1, <2>4 DEF RollsBack, readerVars
  <2> QED
    BY <2>2, <2>3, <2>4 DEF BrokerNext
<1>3. ReadersTyped'
  BY <1>1, <1>2 DEF EventsRight, ReadersTyped
<1>4. ASSUME NEW c \in Readers PROVE Follows(c)'
  <2>1. log' \in Seq(Event) /\ Publication
    BY <1>1, ReaderFacts DEF Publication, logVars
  <2> QED
    BY <1>1, <2>1, FollowsKept
<1> QED
  BY <1>1, <1>3, <1>4 DEF ReadersRight

-----------------------------------------------------------------------------
(* The specification. *)

LEMMA EventsInit == Init => EventsRight /\ TheFeed!Init
<1> SUFFICES ASSUME Init PROVE EventsRight /\ TheFeed!Init
  OBVIOUS
<1>1. StoreBase
  BY StoreBaseInit DEF Init
<1>2. /\ log = << >> /\ next = 1 /\ messages = {} /\ records = {} /\ Len(log) = 0 /\ 1..0 = {}
      /\ << >> \in Seq(Event)
  BY DEF Init
<1>3. ~Settled(Watched)
  BY WatchedAssumption DEF Init, StoreInit, NoRow, Settled
<1>4. LogTyped /\ LogGapless /\ Told
  BY <1>2, <1>3 DEF LogTyped, LogGapless, Told
<1>5. ReadersTyped
  BY <1>2, EventBounds DEF Init, ReadersTyped
<1>6. ASSUME NEW c \in Readers PROVE Follows(c)
  BY <1>2 DEF Init, Follows
<1>7. TheFeed!Init
  BY DEF Init, TheFeed!Init
<1> QED
  BY <1>1, <1>4, <1>5, <1>6, <1>7 DEF EventsRight, EventsBase, LogRight, ReadersRight

LEMMA EventsStep ==
    ASSUME EventsRight, [Next]_vars
    PROVE  EventsRight' /\ [StoreNext]_storeVars /\ [TheFeed!Next]_(TheFeed!vars)
<1> DEFINE Goal == EventsRight' /\ [StoreNext]_storeVars /\ [TheFeed!Next]_(TheFeed!vars)
<1>0. EventsBase /\ StoreBase
  BY DEF EventsRight, EventsBase
<1>1. ASSUME Keeps, UNCHANGED <<received, conn, after, wire, cursor>>, ReadersTyped'
      PROVE  Goal
  <2>1. StoreBase' /\ LogRight' /\ Publication
    BY <1>0, <1>1, StoreBaseStep DEF Keeps
  <2>2. ASSUME NEW c \in Readers PROVE Follows(c)'
    BY <1>1, <2>1, FollowsKept DEF LogRight, LogTyped
  <2>3. [TheFeed!Next]_(TheFeed!vars)
    BY <1>1, <2>1 DEF Publication, TheFeed!Next, TheFeed!Publish, TheFeed!vars
  <2> QED
    BY <1>1, <2>1, <2>2, <2>3 DEF Keeps, EventsRight, EventsBase, ReadersRight
<1>2. ASSUME UNCHANGED <<storeVars, logVars>>, ReadersTyped', ReadersRight',
             UNCHANGED received \/ \E c \in Readers : TheFeed!Receive(c)
      PROVE  Goal
  <2>1. Keeps
    BY <1>0, <1>2, CommitsNothingKeeps
  <2>2. StoreBase' /\ LogRight'
    BY <1>0, <2>1, StoreBaseStep DEF Keeps
  <2>3. [TheFeed!Next]_(TheFeed!vars)
    BY <1>2 DEF TheFeed!Next, TheFeed!vars, logVars
  <2> QED
    BY <1>2, <2>1, <2>2, <2>3 DEF Keeps, EventsRight, EventsBase
<1>3. CASE Transaction
  <2>1. Keeps
    BY <1>0, <1>3, TransactionKeeps
  <2>2. UNCHANGED <<readerVars, drops>> /\ owed' \in BOOLEAN /\ early' \in BOOLEAN
    <3>1. owed \in BOOLEAN /\ early \in BOOLEAN
      BY DEF EventsRight, ReadersTyped
    <3>2. Commits => UNCHANGED <<readerVars, drops>> /\ owed' \in BOOLEAN /\ early' \in BOOLEAN
      BY <3>1 DEF Commits
    <3>3. Commits \/ UNCHANGED <<owed, early, readerVars, drops>>
      BY <1>3 DEF Transaction, SetsPhase, RecordsRuntimeEvent, RecordsOutcome, CommitsProducts,
                  Acknowledges, CancelsQueued, CommitsNothing, CommitsElsewhere
    <3> QED
      BY <3>1, <3>2, <3>3
  <2>3. ReadersTyped' /\ UNCHANGED <<received, conn, after, wire, cursor>>
    BY <2>2 DEF EventsRight, ReadersTyped, readerVars
  <2> QED
    BY <1>1, <2>1, <2>3
<1>4. CASE BrokerNext
  BY <1>2, <1>4, BrokerServes
<1>5. CASE Crash
  BY <1>2, <1>5, CrashServes
<1>6. ASSUME NEW c \in Readers, ReaderNext(c) PROVE Goal
  <2>1. Serves(c)
    BY <1>6, ConnectServes, ListServes, WakeServes, HandleServes, DropServes DEF ReaderNext
  <2> QED
    BY <1>2, <2>1 DEF Serves
<1>7. CASE UNCHANGED vars
  <2>1. UNCHANGED <<storeVars, logVars, owed, early, readerVars, drops>>
    BY <1>7 DEF vars
  <2>2. ReadersTyped' /\ ReadersRight' /\ UNCHANGED received
    BY <2>1 DEF EventsRight, ReadersTyped, ReadersRight, Follows, readerVars, logVars
  <2> QED
    BY <1>2, <2>1, <2>2
<1> QED
  BY <1>3, <1>4, <1>5, <1>6, <1>7 DEF Next

LEMMA EventsRightCorrect == Spec => []EventsRight
<1>1. Init => EventsRight
  BY EventsInit
<1>2. EventsRight /\ [Next]_vars => EventsRight'
  BY EventsStep
<1> QED
  BY <1>1, <1>2, PTL DEF Spec

(* The types of the log, the broker's hints and the connections.           *)
THEOREM EventsTypeCorrect == Spec => []TypeOK
<1>1. EventsRight => TypeOK
  BY DEF EventsRight, EventsBase, StoreBase, LogRight, LogTyped, ReadersTyped, TypeOK
<1> QED
  BY <1>1, EventsRightCorrect, PTL

(* Sequences are handed out without gaps or repetitions, and a Runtime     *)
(* event has one row and at most one message, whatever is replayed.        *)
THEOREM LogGaplessCorrect == Spec => []LogGapless
<1>1. EventsRight => LogGapless
  BY DEF EventsRight, EventsBase, LogRight
<1> QED
  BY <1>1, EventsRightCorrect, PTL

(* The history ends with the outcome, and announces what was published.    *)
THEOREM LogTellsOutcomeCorrect == Spec => []LogTellsOutcome
<1>1. EventsRight => LogTellsOutcome
  BY ToldIsOutcome DEF EventsRight, EventsBase, LogRight
<1> QED
  BY <1>1, EventsRightCorrect, PTL

(* However connections break, wake-ups are lost or COMMITs land late, a    *)
(* reader handles the events of the log in order, each once and none that  *)
(* follows a terminal one; and the log, once closed, never grows: the      *)
(* safety half of Feed is implemented.                                     *)
THEOREM FeedSafety == Spec => TheFeed!SafeSpec
<1>1. Init => TheFeed!Init
  BY EventsInit
<1>2. EventsRight /\ [Next]_vars => [TheFeed!Next]_(TheFeed!vars)
  BY EventsStep
<1> QED
  BY <1>1, <1>2, EventsRightCorrect, PTL DEF Spec, TheFeed!SafeSpec

=============================================================================
