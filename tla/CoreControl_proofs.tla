-------------------------- MODULE CoreControl_proofs --------------------------
(* What the core controller's feedback loop promises, for any number of local *)
(* controllers, stages, jobs, operations and rules, under any interleaving    *)
(* with registrations and failures.                                           *)
EXTENDS CoreControl, RateAllocation_proofs

-------------------------------------------------------------------------------
(* Queues of a session, whatever they hold.                                   *)

List(s) == \E R : s \in Seq(R)

LEMMA EmptyList == List(<<>>) /\ Len(<<>>) = 0
<1>1. <<>> \in Seq({})
  OBVIOUS
<1> QED
  BY <1>1 DEF List

LEMMA OneList == ASSUME NEW e PROVE List(<<e>>) /\ Len(<<e>>) = 1
<1>1. <<e>> \in Seq({e}) /\ Len(<<e>>) = 1
  OBVIOUS
<1> QED
  BY <1>1 DEF List

LEMMA MappedList ==
    ASSUME NEW n \in Nat, NEW f, f = [i \in 1..n |-> f[i]]
    PROVE  List(f) /\ Len(f) = n
<1>1. f \in [1..n -> {f[i] : i \in 1..n}]
  BY Zenon
<1>2. f \in Seq({f[i] : i \in 1..n}) /\ Len(f) = n
  BY <1>1
<1> QED
  BY <1>2 DEF List

LEMMA ListLen ==
    ASSUME NEW s, List(s)
    PROVE  Len(s) \in Nat /\ (s # <<>> => Len(s) > 0)
<1>1. PICK R : s \in Seq(R)
  BY DEF List
<1> QED
  BY <1>1, EmptySeq

LEMMA ListAppend ==
    ASSUME NEW s, List(s), NEW e
    PROVE  List(Append(s, e)) /\ Len(Append(s, e)) = Len(s) + 1
<1>1. PICK R : s \in Seq(R)
  BY DEF List
<1>2. s \in Seq(R \cup {e}) /\ e \in R \cup {e}
  BY <1>1, SeqMonotonic
<1>3. Append(s, e) \in Seq(R \cup {e}) /\ Len(Append(s, e)) = Len(s) + 1
  BY <1>2
<1> QED
  BY <1>3 DEF List

LEMMA ListTail ==
    ASSUME NEW s, List(s), s # <<>>
    PROVE  List(Tail(s)) /\ Len(Tail(s)) = Len(s) - 1
<1>1. PICK R : s \in Seq(R)
  BY DEF List
<1>2. Tail(s) \in Seq(R) /\ Len(Tail(s)) = Len(s) - 1
  BY <1>1, HeadTailProperties
<1> QED
  BY <1>2 DEF List

LEMMA ListConcat ==
    ASSUME NEW s, List(s), NEW t, List(t)
    PROVE  List(s \o t) /\ Len(s \o t) = Len(s) + Len(t)
<1>1. PICK R : s \in Seq(R)
  BY DEF List
<1>2. PICK T : t \in Seq(T)
  BY DEF List
<1>3. s \in Seq(R \cup T) /\ t \in Seq(R \cup T)
  BY <1>1, <1>2, SeqMonotonic
<1>4. s \o t \in Seq(R \cup T) /\ Len(s \o t) = Len(s) + Len(t)
  BY <1>3, ConcatProperties
<1> QED
  BY <1>4 DEF List

LEMMA ListRemoveAt ==
    ASSUME NEW s, List(s), NEW i \in 1..Len(s)
    PROVE  List(RemoveAt(s, i)) /\ Len(RemoveAt(s, i)) = Len(s) - 1
<1>1. PICK R : s \in Seq(R)
  BY DEF List
<1> DEFINE a == SubSeq(s, 1, i - 1)
           b == SubSeq(s, i + 1, Len(s))
<1>2. Len(s) \in Nat
  BY <1>1
<1>3. a \in Seq(R) /\ Len(a) = i - 1
  <2>1. 1 \in Int /\ i - 1 \in Int /\ \A k \in 1..(i - 1) : s[k] \in R
    BY <1>1
  <2>2. a \in Seq(R) /\ Len(a) = IF 1 <= i - 1 THEN (i - 1) - 1 + 1 ELSE 0
    BY <2>1, SubSeqProperties
  <2> QED
    BY <1>2, <2>2
<1>4. b \in Seq(R) /\ Len(b) = Len(s) - i
  <2>1. i + 1 \in Int /\ Len(s) \in Int /\ \A k \in (i + 1)..Len(s) : s[k] \in R
    BY <1>1
  <2>2. b \in Seq(R) /\ Len(b) = IF i + 1 <= Len(s) THEN Len(s) - (i + 1) + 1 ELSE 0
    BY <2>1, SubSeqProperties
  <2> QED
    BY <1>2, <2>2
<1> HIDE DEF a, b
<1>5. a \o b \in Seq(R) /\ Len(a \o b) = Len(a) + Len(b)
  BY <1>3, <1>4, ConcatProperties
<1>6. RemoveAt(s, i) = a \o b
  BY DEF RemoveAt, a, b
<1>7. Len(a) + Len(b) = Len(s) - 1
  BY <1>2, <1>3, <1>4
<1> QED
  BY <1>5, <1>6, <1>7 DEF List

-------------------------------------------------------------------------------
(* Jobs in the order of job_location_tracker.                                 *)

LEMMA CoreJobs ==
    /\ JobOrder \in Seq(Jobs) /\ Distinct(JobOrder)
    /\ Len(JobOrder) \in Nat
    /\ Jobs = First(JobOrder, Len(JobOrder))
    /\ IsFiniteSet(Jobs) /\ Cardinality(Jobs) = Len(JobOrder)
<1>1. JobOrder \in Seq(Jobs) /\ Distinct(JobOrder)
  BY CoreAssumption DEF Distinct
<1>2. Len(JobOrder) \in Nat /\ DOMAIN JobOrder = 1..Len(JobOrder)
  BY <1>1
<1>3. Jobs = First(JobOrder, Len(JobOrder))
  BY <1>2 DEF Jobs, ToSet, First
<1> QED
  BY <1>1, <1>2, <1>3, FirstJobsFinite, JobsCounted

\* The part of InOrder for the first i jobs.
AmongStep(some, g, i) ==
    IF i = 0 THEN <<>>
    ELSE IF JobOrder[i] \in some THEN Append(g[i - 1], JobOrder[i]) ELSE g[i - 1]

LEMMA InOrderExists ==
    ASSUME NEW some, NEW n \in Nat
    PROVE  \E g : g = [i \in 0..n |-> AmongStep(some, g, i)]
<1> DEFINE Step(g, i) == AmongStep(some, g, i)
           Q == {k \in Nat : \E g : g = [i \in 0..k |-> Step(g, i)]}
<1>1. 0 \in Q
  <2> DEFINE g == [i \in 0..0 |-> <<>>]
  <2>1. \A i \in 0..0 : Step(g, i) = <<>>
    BY DEF AmongStep
  <2>2. g = [i \in 0..0 |-> Step(g, i)]
    BY <2>1
  <2> HIDE DEF Step
  <2> QED
    BY <2>2
<1>2. ASSUME NEW k \in Nat, NEW g, g = [i \in 0..k |-> Step(g, i)]
      PROVE  \E h : h = [i \in 0..(k + 1) |-> Step(h, i)]
  <2> DEFINE h == [i \in 0..(k + 1) |-> Step(g, i)]
  <2>1. ASSUME NEW i \in 0..(k + 1) PROVE Step(g, i) = Step(h, i)
    <3>1. CASE i = 0
      BY <3>1 DEF AmongStep
    <3>2. CASE i # 0
      <4>1. i - 1 \in 0..k /\ i - 1 \in 0..(k + 1)
        BY <3>2
      <4>2. h[i - 1] = Step(g, i - 1)
        BY <4>1
      <4>3. g[i - 1] = Step(g, i - 1)
        <5> HIDE DEF Step
        <5> QED
          BY <1>2, <4>1
      <4> HIDE DEF h
      <4> QED
        BY <3>2, <4>2, <4>3 DEF AmongStep
    <3> QED
      BY <3>1, <3>2
  <2>2. h = [i \in 0..(k + 1) |-> Step(h, i)]
    <3> HIDE DEF Step
    <3> QED
      BY Zenon, <2>1
  <2> QED
    BY <2>2
<1>3. Nat \subseteq Q
  <2>1. \A k \in Nat : k \in Q => k + 1 \in Q
    BY <1>2
  <2> HIDE DEF Q
  <2> QED
    BY <1>1, <2>1, NatInductive
<1> QED
  BY <1>3

\* InOrder lists each of some jobs once.
LEMMA InOrderLists ==
    ASSUME NEW some, some \subseteq Jobs
    PROVE  /\ InOrder(some) \in Seq(some)
           /\ Distinct(InOrder(some))
           /\ First(InOrder(some), Len(InOrder(some))) = some
           /\ Len(InOrder(some)) = Cardinality(some)
<1> DEFINE n == Len(JobOrder)
           g == CHOOSE h : h = [i \in 0..n |-> AmongStep(some, h, i)]
<1>1. n \in Nat /\ JobOrder \in Seq(Jobs) /\ Distinct(JobOrder) /\ Jobs = First(JobOrder, n)
  BY CoreJobs
<1>2. g = [i \in 0..n |-> AmongStep(some, g, i)]
  BY <1>1, InOrderExists
<1>3. InOrder(some) = g[n]
  BY DEF InOrder, AmongStep
<1> HIDE DEF g
<1>4. g[0] = <<>>
  BY <1>1, <1>2 DEF AmongStep
<1>5. ASSUME NEW i \in Nat, i < n
      PROVE  g[i + 1] = IF JobOrder[i + 1] \in some THEN Append(g[i], JobOrder[i + 1]) ELSE g[i]
  <2>1. i + 1 \in 0..n /\ i + 1 # 0 /\ (i + 1) - 1 = i
    BY <1>1, <1>5
  <2> QED
    BY <1>2, <2>1 DEF AmongStep
<1> DEFINE Good(i) == /\ g[i] \in Seq(some)
                      /\ First(g[i], Len(g[i])) = some \cap First(JobOrder, i)
                      /\ Distinct(g[i])
           Q == {i \in Nat : i <= n => Good(i)}
<1>6. 0 \in Q
  <2>1. First(<<>>, 0) = {} /\ First(JobOrder, 0) = {} /\ Distinct(<<>>) /\ <<>> \in Seq(some)
    BY DEF First, Distinct
  <2> QED
    BY <1>4, <2>1
<1>7. ASSUME NEW i \in Nat, i \in Q PROVE i + 1 \in Q
  <2> SUFFICES ASSUME i + 1 <= n PROVE Good(i + 1)
    OBVIOUS
  <2> DEFINE job == JobOrder[i + 1]
             s == g[i]
  <2>1. i < n /\ s \in Seq(some) /\ Distinct(s) /\ Len(s) \in Nat
        /\ First(s, Len(s)) = some \cap First(JobOrder, i)
    BY <1>1, <1>7
  <2>2. First(JobOrder, i + 1) = First(JobOrder, i) \cup {job} /\ job \notin First(JobOrder, i)
    BY <1>1, <2>1, FirstJobs
  <2>3. CASE job \notin some
    <3>1. g[i + 1] = s
      BY <1>5, <2>1, <2>3
    <3> HIDE DEF s, job
    <3> QED
      BY <2>1, <2>2, <2>3, <3>1
  <2>4. CASE job \in some
    <3> DEFINE t == Append(s, job)
    <3>1. g[i + 1] = t
      BY <1>5, <2>1, <2>4
    <3> HIDE DEF s, job
    <3>2. /\ t \in Seq(some) /\ Len(t) = Len(s) + 1 /\ t[Len(s) + 1] = job
          /\ \A k \in 1..Len(s) : t[k] = s[k]
      BY <2>1, <2>4
    <3> HIDE DEF t
    <3>3. First(t, Len(t)) = First(s, Len(s)) \cup {job}
      <4>1. 1..(Len(s) + 1) = (1..Len(s)) \cup {Len(s) + 1}
        BY <2>1
      <4> QED
        BY <3>2, <4>1 DEF First
    <3>4. Distinct(t)
      <4> SUFFICES ASSUME NEW k \in 1..Len(t), NEW m \in 1..Len(t), t[k] = t[m]
                   PROVE  k = m
        <5>1. DOMAIN t = 1..Len(t)
          BY <3>2
        <5> QED
          BY <5>1 DEF Distinct
      <4>1. \A j \in 1..Len(s) : s[j] # job
        BY <2>1, <2>2 DEF First
      <4>2. DOMAIN s = 1..Len(s)
        BY <2>1
      <4>3. CASE k \in 1..Len(s) /\ m \in 1..Len(s)
        BY <2>1, <3>2, <4>2, <4>3 DEF Distinct
      <4>4. CASE k = Len(s) + 1 /\ m \in 1..Len(s)
        BY <3>2, <4>1, <4>4
      <4>5. CASE m = Len(s) + 1 /\ k \in 1..Len(s)
        BY <3>2, <4>1, <4>5
      <4>6. CASE k = Len(s) + 1 /\ m = Len(s) + 1
        BY <4>6
      <4> QED
        BY <2>1, <3>2, <4>3, <4>4, <4>5, <4>6
    <3> QED
      BY <2>1, <2>2, <2>4, <3>1, <3>2, <3>3, <3>4
  <2> QED
    BY <2>3, <2>4
<1>8. Good(n)
  <2>1. Nat \subseteq Q
    <3> HIDE DEF Q
    <3> QED
      BY <1>6, <1>7, NatInductive
  <2> QED
    BY <1>1, <2>1
<1>9. some \cap First(JobOrder, n) = some
  BY <1>1
<1>10. Len(g[n]) = Cardinality(First(g[n], Len(g[n])))
  <2>1. g[n] \in Seq(some) /\ Distinct(g[n]) /\ Len(g[n]) \in Nat /\ Len(g[n]) <= Len(g[n])
    BY <1>8
  <2> QED
    BY <2>1, JobsCounted
<1> HIDE DEF n
<1> QED
  BY <1>3, <1>8, <1>9, <1>10

-------------------------------------------------------------------------------
(* Where the main loop is, what it waits for, and what the queues hold.       *)

KeysAt(l) == {Key(s) : s \in {t \in Stages : LocalOf[t] = l}}

\* What a local controller may answer.
Responses(l) ==
    {Ack(ok) : ok \in BOOLEAN} \cup {Stats(alive) : alive \in UNION {[K -> BOOLEAN] : K \in SUBSET KeysAt(l)}}

SessionTyped(l, q) ==
    /\ q = [submission |-> q.submission, sending |-> q.sending,
            completion |-> q.completion, threads |-> q.threads]
    /\ List(q.submission) /\ List(q.sending)
    /\ q.completion \in Seq(Responses(l))

SessionsTyped ==
    /\ session = [l \in Locals |-> session[l]]
    /\ \A l \in Locals : SessionTyped(l, session[l])

\* The requests of a session without an answer.
Pending(q) == Len(q.submission) + Len(q.sending) + Len(q.completion)

StagesOf(l) == {s \in Stages : LocalOf[s] = l}

LocalTyped(l, p) ==
    /\ p = [up |-> p.up, starts |-> p.starts, handshaken |-> p.handshaken,
            preparing |-> p.preparing, data_sessions |-> p.data_sessions]
    /\ p.preparing \subseteq StagesOf(l)
    /\ p.data_sessions \subseteq StagesOf(l)

LocalsTyped ==
    /\ local = [l \in Locals |-> local[l]]
    /\ \A l \in Locals : LocalTyped(l, local[l])

Leftover == ControlType = "DYNAMIC_LEFTOVER"

\* Places where the main loop waits for answers, or where it stopped.
Waiting == {"local_handshake", "stage_ready", "collect", "results", "crashed"}

Places ==
    /\ pc \in {"wait", "loop", "loop_data_planes", "exiting", "local_controllers",
               "data_planes", "control", "compute", "sleep", "exited", "hung"} \cup Waiting
    /\ IsFiniteSet(todo)
    /\ pc \notin Waiting => todo = {}
    /\ pc = "local_handshake" => \E l \in Locals : todo = {<<l, "handshake">>}
    /\ pc = "stage_ready" => \E s \in Stages : todo = {<<LocalOf[s], s>>}
    /\ pc = "collect" => todo \subseteq local_sessions_ \X {"stats"}
    /\ pc = "results" => todo \subseteq Locals \X Jobs
    /\ todo \subseteq Locals \X ({"handshake", "stats"} \cup Stages \cup Jobs)
    /\ local_queue \in Seq(Locals)
    /\ local_to_data_queue_ \in Seq(Stages)
    /\ local_sessions_ \subseteq Locals
    /\ DOMAIN job_location_tracker \subseteq Jobs

\* The rounds of DYNAMIC_LEFTOVER: a collection is open between its first round
\* and its last.
Collecting == rounds_counter \in 1..(COLLECT_ROUNDS - 1)

RoundsCounted ==
    /\ rounds_counter \in 0..COLLECT_ROUNDS
    /\ sessions_sent \subseteq Locals
    /\ ~Leftover => rounds_counter = 0
    /\ pc \in {"collect", "compute"} => ~Collecting
    /\ Leftover /\ pc \notin {"collect", "compute", "hung", "crashed"} => rounds_counter < COLLECT_ROUNDS
    /\ Collecting => sessions_sent \subseteq Overseeing

\* Local controllers that lost all their stages are those to be disconnected.
Departing ==
    /\ sessions_to_delete \subseteq local_sessions_
    /\ pc \notin {"collect", "crashed"} => sessions_to_delete = {}
    /\ \A l \in sessions_to_delete : StagesAt(l) = {}

Flow == Places /\ RoundsCounted /\ Departing /\ SessionsTyped /\ LocalsTyped

\* Every session counts as active, or is about to.
Counted ==
    /\ IsFiniteSet(local_sessions_)
    /\ active_locals \in Nat
    /\ Cardinality(local_sessions_) <= active_locals + (IF pc = "local_handshake" THEN 1 ELSE 0)

\* A fault stops the main loop.
FaultStops == fault # "none" => pc \in {"crashed", "hung"}

-------------------------------------------------------------------------------
(* What the steps do to one session: its type is kept, and the number of      *)
(* requests without an answer changes by those submitted or answered.         *)

LEMMA SessionIs ==
    ASSUME NEW l, NEW a, NEW b, NEW c, NEW d, NEW q,
           q = [submission |-> a, sending |-> b, completion |-> c, threads |-> d]
    PROVE  /\ q.submission = a /\ q.sending = b /\ q.completion = c /\ q.threads = d
           /\ SessionTyped(l, q) <=> List(a) /\ List(b) /\ c \in Seq(Responses(l))
           /\ Pending(q) = Len(a) + Len(b) + Len(c)
<1>1. q.submission = a /\ q.sending = b /\ q.completion = c /\ q.threads = d
  OBVIOUS
<1> QED
  BY <1>1, Zenon DEF SessionTyped, Pending

\* A typed session has these fields.
Fields(l, q, a, b, c, d) ==
    /\ q = [submission |-> a, sending |-> b, completion |-> c, threads |-> d]
    /\ q.submission = a /\ q.sending = b /\ q.completion = c
    /\ List(a) /\ List(b) /\ c \in Seq(Responses(l)) /\ List(c)
    /\ Len(a) \in Nat /\ Len(b) \in Nat /\ Len(c) \in Nat
    /\ Pending(q) = Len(a) + Len(b) + Len(c)

LEMMA SessionParts ==
    ASSUME NEW l, NEW q, SessionTyped(l, q)
    PROVE  \E a, b, c, d : Fields(l, q, a, b, c, d)
<1>1. List(q.submission) /\ List(q.sending) /\ q.completion \in Seq(Responses(l))
  BY DEF SessionTyped
<1>2. List(q.completion)
  BY <1>1 DEF List
<1>3. Len(q.submission) \in Nat /\ Len(q.sending) \in Nat /\ Len(q.completion) \in Nat
  BY <1>1, <1>2, ListLen
<1>4. Fields(l, q, q.submission, q.sending, q.completion, q.threads)
  BY <1>1, <1>2, <1>3, Zenon DEF SessionTyped, Pending, Fields
<1> QED
  BY <1>4

LEMMA PendingType ==
    ASSUME NEW l, NEW q, SessionTyped(l, q)
    PROVE  Pending(q) \in Nat /\ (Pending(q) = 0 => q.completion = <<>>)
<1>1. PICK a, b, c, d : Fields(l, q, a, b, c, d)
  BY SessionParts
<1> USE DEF Fields
<1>2. c # <<>> => Len(c) > 0
  BY <1>1, ListLen
<1> QED
  BY <1>1, <1>2

LEMMA IdlePending == \A l : SessionTyped(l, Idle) /\ Pending(Idle) = 0
<1> SUFFICES ASSUME NEW l PROVE SessionTyped(l, Idle) /\ Pending(Idle) = 0
  OBVIOUS
<1>1. List(<<>>) /\ Len(<<>>) = 0 /\ <<>> \in Seq(Responses(l))
  BY EmptyList
<1>2. Idle = [submission |-> <<>>, sending |-> <<>>, completion |-> <<>>, threads |-> 0]
  BY DEF Idle
<1>3. Pending(Idle) = Len(<<>>) + Len(<<>>) + Len(<<>>) /\ SessionTyped(l, Idle)
  <2> DEFINE none == <<>>
  <2>1. Idle = [submission |-> none, sending |-> none, completion |-> none, threads |-> 0]
        /\ List(none) /\ none \in Seq(Responses(l))
    BY <1>1, <1>2
  <2> HIDE DEF none
  <2>2. Pending(Idle) = Len(none) + Len(none) + Len(none) /\ SessionTyped(l, Idle)
    BY <2>1, SessionIs
  <2> QED
    BY <2>2 DEF none
<1> QED
  BY <1>1, <1>3

LEMMA SubmitPending ==
    ASSUME NEW l, NEW q, SessionTyped(l, q), NEW requests, List(requests)
    PROVE  LET r == [q EXCEPT !.submission = @ \o requests]
           IN  SessionTyped(l, r) /\ Pending(r) = Pending(q) + Len(requests)
<1> DEFINE r == [q EXCEPT !.submission = @ \o requests]
<1>1. PICK a, b, c, d : Fields(l, q, a, b, c, d)
  BY SessionParts
<1> USE DEF Fields
<1> DEFINE new == a \o requests
<1>2. r = [submission |-> new, sending |-> b, completion |-> c, threads |-> d]
  <2>1. r = [q EXCEPT !.submission = new]
    BY <1>1
  <2> HIDE DEF r, new
  <2> QED
    BY <1>1, <2>1
<1>3. List(new) /\ Len(new) = Len(a) + Len(requests) /\ Len(requests) \in Nat
  BY <1>1, ListConcat, ListLen
<1> HIDE DEF r, new
<1>4. SessionTyped(l, r) /\ Pending(r) = Len(new) + Len(b) + Len(c)
  BY <1>1, <1>2, <1>3, SessionIs
<1>5. Pending(r) = Pending(q) + Len(requests)
  BY <1>1, <1>3, <1>4
<1> QED
  BY <1>4, <1>5 DEF r

LEMMA PopPending ==
    ASSUME NEW l, NEW q, SessionTyped(l, q), q.completion # <<>>
    PROVE  LET r == [q EXCEPT !.completion = Tail(@)]
           IN  /\ SessionTyped(l, r) /\ Pending(r) = Pending(q) - 1
               /\ Head(q.completion) \in Responses(l)
<1> DEFINE r == [q EXCEPT !.completion = Tail(@)]
<1>1. PICK a, b, c, d : Fields(l, q, a, b, c, d)
  BY SessionParts
<1> USE DEF Fields
<1> DEFINE new == Tail(c)
<1>2. r = [submission |-> a, sending |-> b, completion |-> new, threads |-> d]
  BY <1>1
<1>3. Head(c) \in Responses(l) /\ new \in Seq(Responses(l)) /\ Len(new) = Len(c) - 1
  BY <1>1, HeadTailProperties
<1> HIDE DEF r, new
<1>4. SessionTyped(l, r) /\ Pending(r) = Len(a) + Len(b) + Len(new)
  BY <1>1, <1>2, <1>3, SessionIs
<1>5. Pending(r) = Pending(q) - 1
  BY <1>1, <1>3, <1>4
<1> QED
  BY <1>1, <1>3, <1>4, <1>5 DEF r

LEMMA SendPending ==
    ASSUME NEW l, NEW q, SessionTyped(l, q), q.submission # <<>>
    PROVE  LET r == [q EXCEPT !.submission = Tail(@), !.sending = Append(@, Head(q.submission))]
           IN  SessionTyped(l, r) /\ Pending(r) = Pending(q)
<1> DEFINE r == [q EXCEPT !.submission = Tail(@), !.sending = Append(@, Head(q.submission))]
<1>1. PICK a, b, c, d : Fields(l, q, a, b, c, d)
  BY SessionParts
<1> USE DEF Fields
<1> DEFINE rest == Tail(a)
           more == Append(b, Head(a))
<1>2. r = [submission |-> rest, sending |-> more, completion |-> c, threads |-> d]
  <2>1. r = [q EXCEPT !.submission = rest, !.sending = more]
    BY <1>1
  <2> HIDE DEF r, rest, more
  <2> QED
    BY <1>1, <2>1
<1>3. List(rest) /\ Len(rest) = Len(a) - 1 /\ List(more) /\ Len(more) = Len(b) + 1
  BY <1>1, ListTail, ListAppend
<1> HIDE DEF r, rest, more
<1>4. SessionTyped(l, r) /\ Pending(r) = Len(rest) + Len(more) + Len(c)
  <2>1. List(rest) /\ List(more) /\ c \in Seq(Responses(l))
    BY <1>1, <1>3
  <2> QED
    BY <1>2, <2>1, SessionIs
<1>5. Pending(r) = Pending(q)
  BY <1>1, <1>3, <1>4
<1> QED
  BY <1>4, <1>5 DEF r

WithResponse(q, i, response) ==
    [q EXCEPT !.sending = RemoveAt(@, i), !.completion = Append(@, response)]

LEMMA RespondPending ==
    ASSUME NEW l, NEW q, SessionTyped(l, q), NEW i \in 1..Len(q.sending),
           NEW response \in Responses(l)
    PROVE  /\ SessionTyped(l, WithResponse(q, i, response))
           /\ Pending(WithResponse(q, i, response)) = Pending(q)
<1> DEFINE r == WithResponse(q, i, response)
<1>1. PICK a, b, c, d : Fields(l, q, a, b, c, d)
  BY SessionParts
<1> USE DEF Fields
<1> DEFINE rest == RemoveAt(b, i)
           more == Append(c, response)
<1>2. r = [submission |-> a, sending |-> rest, completion |-> more, threads |-> d]
  <2>1. r = [q EXCEPT !.sending = rest, !.completion = more]
    BY <1>1 DEF WithResponse
  <2> HIDE DEF r, rest, more
  <2> QED
    BY <1>1, <2>1
<1>3. List(rest) /\ Len(rest) = Len(b) - 1
  BY <1>1, ListRemoveAt
<1>4. more \in Seq(Responses(l)) /\ Len(more) = Len(c) + 1
  BY <1>1
<1> HIDE DEF r, rest, more
<1>5. SessionTyped(l, r) /\ Pending(r) = Len(a) + Len(rest) + Len(more)
  <2>1. List(a) /\ List(rest) /\ more \in Seq(Responses(l))
    BY <1>1, <1>3, <1>4
  <2> QED
    BY ONLY <1>2, <2>1, SessionIs
<1>6. Pending(r) = Pending(q)
  BY <1>1, <1>3, <1>4, <1>5
<1> QED
  BY <1>5, <1>6 DEF r
-------------------------------------------------------------------------------
(* What the steps do to the sessions.                                         *)

OutstandingNow(l) == Pending(session[l])

LEMMA OutstandingIs ==
    /\ \A l \in Locals : Outstanding(l) = OutstandingNow(l)
    /\ SessionsTyped => \A l \in Locals : OutstandingNow(l) \in Nat
<1>1. \A l \in Locals : Outstanding(l) = OutstandingNow(l)
  BY Zenon DEF Outstanding, OutstandingNow, Pending
<1>2. SessionsTyped => \A l \in Locals : OutstandingNow(l) \in Nat
  BY PendingType DEF SessionsTyped, OutstandingNow
<1> QED
  BY <1>1, <1>2

\* Every session may change, if its type stays.
LEMMA SessionsReplaced ==
    ASSUME NEW q, session' = q, q = [l \in Locals |-> q[l]],
           \A l \in Locals : SessionTyped(l, q[l])
    PROVE  SessionsTyped' /\ \A l \in Locals : OutstandingNow(l)' = Pending(q[l])
  BY Zenon DEF SessionsTyped, OutstandingNow

LEMMA SessionUpdated ==
    ASSUME SessionsTyped, NEW l \in Locals, NEW r, SessionTyped(l, r),
           session' = [session EXCEPT ![l] = r]
    PROVE  /\ SessionsTyped'
           /\ \A m \in Locals :
                  OutstandingNow(m)' = IF m = l THEN Pending(r) ELSE OutstandingNow(m)
<1> DEFINE q == [session EXCEPT ![l] = r]
<1>1. q = [m \in Locals |-> q[m]] /\ q[l] = r /\ \A m \in Locals : m # l => q[m] = session[m]
  BY DEF SessionsTyped
<1>2. session' = q
  OBVIOUS
<1> HIDE DEF q
<1>3. \A m \in Locals : SessionTyped(m, q[m])
  BY <1>1 DEF SessionsTyped
<1>4. SessionsTyped' /\ \A m \in Locals : OutstandingNow(m)' = Pending(q[m])
  BY <1>1, <1>2, <1>3, SessionsReplaced
<1> QED
  BY <1>1, <1>4 DEF OutstandingNow

LEMMA Popped ==
    ASSUME SessionsTyped, NEW l \in Locals, Answered(l), session' = PopAnswer(l)
    PROVE  /\ SessionsTyped'
           /\ Answer(l) \in Responses(l)
           /\ \A m \in Locals :
                  OutstandingNow(m)' = IF m = l THEN OutstandingNow(l) - 1 ELSE OutstandingNow(m)
<1> DEFINE q == session[l]
           r == [q EXCEPT !.completion = Tail(@)]
<1>1. SessionTyped(l, q) /\ q.completion # <<>>
  BY DEF SessionsTyped, Answered
<1>2. SessionTyped(l, r) /\ Pending(r) = Pending(q) - 1 /\ Head(q.completion) \in Responses(l)
  <2> HIDE DEF q
  <2> QED
    BY <1>1, PopPending
<1>3. session' = [session EXCEPT ![l] = r]
  BY DEF PopAnswer, SessionsTyped
<1> HIDE DEF r
<1>4. /\ SessionsTyped'
      /\ \A m \in Locals :
             OutstandingNow(m)' = IF m = l THEN Pending(r) ELSE OutstandingNow(m)
  BY <1>2, <1>3, SessionUpdated
<1> QED
  BY <1>2, <1>4 DEF OutstandingNow, Answer

LEMMA SubmittedTo ==
    ASSUME SessionsTyped, NEW l \in Locals, NEW request, session' = Submit(l, <<request>>)
    PROVE  /\ SessionsTyped'
           /\ \A m \in Locals :
                  OutstandingNow(m)' = IF m = l THEN OutstandingNow(l) + 1 ELSE OutstandingNow(m)
<1> DEFINE q == session[l]
           s == <<request>>
           r == [q EXCEPT !.submission = @ \o s]
<1>1. SessionTyped(l, q)
  BY DEF SessionsTyped
<1>2. List(s) /\ Len(s) = 1
  BY OneList
<1>3. SessionTyped(l, r) /\ Pending(r) = Pending(q) + 1
  <2> HIDE DEF q, s
  <2> QED
    BY <1>1, <1>2, SubmitPending
<1>4. session' = [session EXCEPT ![l] = r]
  <2> HIDE DEF s
  <2>1. session' = Submit(l, s)
    BY DEF s
  <2> QED
    BY <2>1 DEF Submit, SessionsTyped
<1> HIDE DEF r
<1>5. /\ SessionsTyped'
      /\ \A m \in Locals :
             OutstandingNow(m)' = IF m = l THEN Pending(r) ELSE OutstandingNow(m)
  BY <1>3, <1>4, SessionUpdated
<1> QED
  BY <1>3, <1>5 DEF OutstandingNow

\* Requests are submitted to every local controller, as many as it gets.
LEMMA SubmittedToAll ==
    ASSUME SessionsTyped, NEW requests, \A l \in Locals : List(requests[l]),
           session' = [l \in Locals |-> Submit(l, requests[l])[l]]
    PROVE  /\ SessionsTyped'
           /\ \A l \in Locals : OutstandingNow(l)' = OutstandingNow(l) + Len(requests[l])
<1> DEFINE q == [l \in Locals |-> Submit(l, requests[l])[l]]
<1>1. ASSUME NEW l \in Locals
      PROVE  SessionTyped(l, q[l]) /\ Pending(q[l]) = OutstandingNow(l) + Len(requests[l])
  <2> DEFINE p == session[l]
             r == [p EXCEPT !.submission = @ \o requests[l]]
  <2>1. SessionTyped(l, p) /\ List(requests[l])
    BY DEF SessionsTyped
  <2>2. SessionTyped(l, r) /\ Pending(r) = Pending(p) + Len(requests[l])
    <3> HIDE DEF p
    <3> QED
      BY <2>1, SubmitPending
  <2>3. Submit(l, requests[l])[l] = r
    BY DEF Submit, SessionsTyped
  <2>4. q[l] = r
    BY <2>3
  <2> HIDE DEF r
  <2> QED
    BY <2>2, <2>4 DEF OutstandingNow
<1>2. session' = q /\ q = [l \in Locals |-> q[l]]
  OBVIOUS
<1> HIDE DEF q
<1>3. SessionsTyped' /\ \A l \in Locals : OutstandingNow(l)' = Pending(q[l])
  BY <1>1, <1>2, SessionsReplaced
<1> QED
  BY <1>1, <1>3

LEMMA Requested ==
    ASSUME SessionsTyped, NEW some, session' = Request(some)
    PROVE  /\ SessionsTyped'
           /\ \A l \in Locals :
                  OutstandingNow(l)' = OutstandingNow(l) + IF l \in some THEN 1 ELSE 0
<1> DEFINE q == Request(some)
<1>1. ASSUME NEW l \in Locals
      PROVE  /\ SessionTyped(l, q[l])
             /\ Pending(q[l]) = OutstandingNow(l) + IF l \in some THEN 1 ELSE 0
  <2> DEFINE p == session[l]
             s == <<CollectStats>>
             r == [p EXCEPT !.submission = @ \o s]
  <2>1. SessionTyped(l, p) /\ Pending(p) \in Nat
    BY PendingType DEF SessionsTyped
  <2>2. List(s) /\ Len(s) = 1
    BY OneList
  <2>3. SessionTyped(l, r) /\ Pending(r) = Pending(p) + 1
    <3> HIDE DEF p, s
    <3> QED
      BY <2>1, <2>2, SubmitPending
  <2>4. Submit(l, s)[l] = r
    <3> HIDE DEF s
    <3> QED
      BY DEF Submit, SessionsTyped
  <2>5. q[l] = IF l \in some THEN r ELSE p
    BY <2>4 DEF Request
  <2> HIDE DEF q, p, r
  <2>6. OutstandingNow(l) = Pending(p)
    BY DEF OutstandingNow, p
  <2> QED
    BY <2>1, <2>3, <2>5, <2>6
<1>2. session' = q /\ q = [l \in Locals |-> q[l]]
  BY DEF Request
<1> HIDE DEF q
<1>3. SessionsTyped' /\ \A l \in Locals : OutstandingNow(l)' = Pending(q[l])
  BY <1>1, <1>2, SessionsReplaced
<1> QED
  BY <1>1, <1>3
LEMMA Sent ==
    ASSUME SessionsTyped, NEW l \in Locals, SessionSend(l)
    PROVE  SessionsTyped' /\ \A m \in Locals : OutstandingNow(m)' = OutstandingNow(m)
<1> DEFINE q == session[l]
           r == [q EXCEPT !.submission = Tail(@), !.sending = Append(@, Head(q.submission))]
<1>1. SessionTyped(l, q) /\ q.submission # <<>>
  BY DEF SessionsTyped, SessionSend
<1>2. SessionTyped(l, r) /\ Pending(r) = Pending(q)
  <2> HIDE DEF q
  <2> QED
    BY <1>1, SendPending
<1>3. session' = [session EXCEPT ![l] = r]
  BY DEF SessionSend, SessionsTyped
<1> HIDE DEF r
<1>4. /\ SessionsTyped'
      /\ \A m \in Locals :
             OutstandingNow(m)' = IF m = l THEN Pending(r) ELSE OutstandingNow(m)
  BY <1>2, <1>3, SessionUpdated
<1> QED
  BY <1>2, <1>4 DEF OutstandingNow

LEMMA Responded ==
    ASSUME SessionsTyped, NEW l \in Locals, NEW i \in 1..Len(session[l].sending),
           NEW response \in Responses(l), Respond(l, i, response)
    PROVE  SessionsTyped' /\ \A m \in Locals : OutstandingNow(m)' = OutstandingNow(m)
<1> DEFINE q == session[l]
           r == WithResponse(q, i, response)
<1>1. SessionTyped(l, q) /\ i \in 1..Len(q.sending)
  BY DEF SessionsTyped
<1>2. SessionTyped(l, r) /\ Pending(r) = Pending(q)
  <2> HIDE DEF q
  <2> QED
    BY <1>1, RespondPending
<1>3. session' = [session EXCEPT ![l] = r]
  BY DEF Respond, SessionsTyped, WithResponse
<1> HIDE DEF r
<1>4. /\ SessionsTyped'
      /\ \A m \in Locals :
             OutstandingNow(m)' = IF m = l THEN Pending(r) ELSE OutstandingNow(m)
  BY <1>2, <1>3, SessionUpdated
<1>5. OutstandingNow(l) = Pending(q)
  BY DEF OutstandingNow
<1> HIDE DEF q
<1> QED
  BY <1>2, <1>4, <1>5, Zenon

\* The handlers' updates of a local controller's state keep its type.
LEMMA LocalUpdates ==
    ASSUME NEW l, NEW p, LocalTyped(l, p),
           NEW x, NEW some, some \subseteq StagesOf(l), NEW more, more \subseteq StagesOf(l)
    PROVE  /\ LocalTyped(l, [p EXCEPT !.handshaken = x])
           /\ LocalTyped(l, [p EXCEPT !.preparing = some, !.data_sessions = more])
           /\ LocalTyped(l, [p EXCEPT !.data_sessions = more])
           /\ LocalTyped(l, [Stopped EXCEPT !.starts = x])
           /\ LocalTyped(l, [Stopped EXCEPT !.up = TRUE, !.starts = x])
<1> DEFINE Record(a, b, c, d, e) ==
    [up |-> a, starts |-> b, handshaken |-> c, preparing |-> d, data_sessions |-> e]
<1>1. \A a, b, c, d, e :
          d \subseteq StagesOf(l) /\ e \subseteq StagesOf(l) => LocalTyped(l, Record(a, b, c, d, e))
  BY DEF LocalTyped
<1>2. PICK a, b, c, d, e :
          p = Record(a, b, c, d, e) /\ d \subseteq StagesOf(l) /\ e \subseteq StagesOf(l)
  BY Zenon DEF LocalTyped
<1>3. LocalTyped(l, [p EXCEPT !.handshaken = x])
  <2>1. [p EXCEPT !.handshaken = x] = Record(a, b, x, d, e)
    BY <1>2
  <2> HIDE DEF Record
  <2> QED
    BY <1>1, <1>2, <2>1
<1>4. LocalTyped(l, [p EXCEPT !.preparing = some, !.data_sessions = more])
  <2>1. [p EXCEPT !.preparing = some] = Record(a, b, c, some, e)
    BY <1>2
  <2>2. [Record(a, b, c, some, e) EXCEPT !.data_sessions = more] = Record(a, b, c, some, more)
    OBVIOUS
  <2>3. [p EXCEPT !.preparing = some, !.data_sessions = more] = Record(a, b, c, some, more)
    BY <2>1, <2>2, Zenon
  <2> HIDE DEF Record
  <2> QED
    BY <1>1, <2>3
<1>5. LocalTyped(l, [p EXCEPT !.data_sessions = more])
  <2>1. [p EXCEPT !.data_sessions = more] = Record(a, b, c, d, more)
    BY <1>2
  <2> HIDE DEF Record
  <2> QED
    BY <1>1, <1>2, <2>1
<1> DEFINE no == FALSE
           yes == TRUE
<1>6. Stopped = Record(no, 0, no, {}, {})
  BY DEF Stopped
<1>7. [Stopped EXCEPT !.up = yes, !.starts = x] = [[Stopped EXCEPT !.up = yes] EXCEPT !.starts = x]
  OBVIOUS
<1> HIDE DEF no, yes
<1>8. LocalTyped(l, [Stopped EXCEPT !.starts = x])
  <2>1. [Stopped EXCEPT !.starts = x] = Record(no, x, no, {}, {})
    BY <1>6
  <2> HIDE DEF Record
  <2> QED
    BY <1>1, <2>1
<1>9. LocalTyped(l, [Stopped EXCEPT !.up = yes, !.starts = x])
  <2>1. [Stopped EXCEPT !.up = yes] = Record(yes, 0, no, {}, {})
    BY <1>6
  <2>2. [Record(yes, 0, no, {}, {}) EXCEPT !.starts = x] = Record(yes, x, no, {}, {})
    OBVIOUS
  <2>3. [Stopped EXCEPT !.up = yes, !.starts = x] = Record(yes, x, no, {}, {})
    BY <1>7, <2>1, <2>2, Zenon
  <2> HIDE DEF Record
  <2> QED
    BY <1>1, <2>3
<1> QED
  BY <1>3, <1>4, <1>5, <1>8, <1>9, Zenon DEF yes

\* Whatever a session thread gets back, it is a response of its local
\* controller, whose own state stays typed.
LEMMA Replied ==
    ASSUME SessionsTyped, LocalsTyped, NEW l \in Locals, SessionReply(l)
    PROVE  /\ SessionsTyped' /\ LocalsTyped'
           /\ \A m \in Locals : OutstandingNow(m)' = OutstandingNow(m)
           /\ UNCHANGED <<queues, trackers, rates, sessions, rounds, control, next_rule, stage>>
<1>1. PICK i \in 1..Len(session[l].sending) :
          \/ CallFails(l, i)
          \/ HandleLocalHandshake(l, i)
          \/ MarkStageReady(l, i)
          \/ CollectGlobalStatistics(l, i)
          \/ CreateEnforcementRule(l, i)
  BY DEF SessionReply
<1>2. /\ Ack(TRUE) \in Responses(l) /\ Ack(FALSE) \in Responses(l)
      /\ Stats(<<>>) \in Responses(l)
  <2>1. <<>> \in [{} -> BOOLEAN]
    OBVIOUS
  <2> QED
    BY <2>1 DEF Responses
<1>3. ASSUME NEW r \in Responses(l), Respond(l, i, r)
      PROVE  /\ SessionsTyped' /\ \A m \in Locals : OutstandingNow(m)' = OutstandingNow(m)
             /\ UNCHANGED <<queues, trackers, rates, sessions, rounds, control, next_rule>>
  BY <1>3, Responded DEF Respond
<1>4. ASSUME NEW p, LocalTyped(l, p), local' = [local EXCEPT ![l] = p] PROVE LocalsTyped'
  BY <1>4, Zenon DEF LocalsTyped
<1>5. ASSUME UNCHANGED local PROVE LocalsTyped'
  BY <1>5 DEF LocalsTyped
<1>p. LocalTyped(l, local[l])
  BY DEF LocalsTyped
<1>6. CASE CallFails(l, i)
  BY <1>2, <1>3, <1>5, <1>6 DEF CallFails
<1>7. CASE HandleLocalHandshake(l, i)
  <2> DEFINE p == [local[l] EXCEPT !.handshaken = TRUE]
  <2>1. LocalTyped(l, p)
    BY <1>p, LocalUpdates
  <2>2. local' = [local EXCEPT ![l] = p]
    BY <1>7 DEF HandleLocalHandshake, LocalsTyped
  <2> HIDE DEF p
  <2> QED
    BY <1>2, <1>3, <1>4, <1>7, <2>1, <2>2 DEF HandleLocalHandshake
<1>8. CASE MarkStageReady(l, i)
  <2> DEFINE ready == {s \in local[l].preparing : Key(s) = session[l].sending[i].key}
             p == [local[l] EXCEPT !.preparing = @ \ ready, !.data_sessions = @ \cup ready]
  <2>1. LocalTyped(l, p)
    <3> DEFINE some == local[l].preparing \ ready
               more == local[l].data_sessions \cup ready
    <3>1. some \subseteq StagesOf(l) /\ more \subseteq StagesOf(l)
      BY <1>p DEF LocalTyped
    <3>2. p = [local[l] EXCEPT !.preparing = some, !.data_sessions = more]
      OBVIOUS
    <3> HIDE DEF p, some, more
    <3> QED
      BY <1>p, <3>1, <3>2, LocalUpdates
  <2>2. local' = [local EXCEPT ![l] = p]
    BY <1>8 DEF MarkStageReady, LocalsTyped
  <2> HIDE DEF p
  <2> QED
    BY <1>2, <1>3, <1>4, <1>8, <2>1, <2>2 DEF MarkStageReady
<1>9. CASE CollectGlobalStatistics(l, i)
  <2> DEFINE asked == local[l].data_sessions
             alive == {s \in asked : stage[s] = "running"}
             p == [local[l] EXCEPT !.data_sessions = alive]
             r == Stats([k \in {Key(s) : s \in asked} |-> \E s \in alive : Key(s) = k])
  <2>1. LocalTyped(l, p)
    <3>1. alive \subseteq StagesOf(l)
      BY <1>p DEF LocalTyped
    <3> HIDE DEF alive
    <3> QED
      BY <1>p, <3>1, LocalUpdates
  <2>2. local' = [local EXCEPT ![l] = p] /\ Respond(l, i, r)
    BY <1>9 DEF CollectGlobalStatistics, LocalsTyped
  <2>3. r \in Responses(l)
    <3>1. {Key(s) : s \in asked} \in SUBSET KeysAt(l)
      BY DEF LocalsTyped, LocalTyped, StagesOf, KeysAt
    <3>2. [k \in {Key(s) : s \in asked} |-> \E s \in alive : Key(s) = k]
          \in [{Key(s) : s \in asked} -> BOOLEAN]
      BY Zenon
    <3> QED
      BY <3>1, <3>2, Zenon DEF Responses
  <2> HIDE DEF p, r
  <2> QED
    BY <1>3, <1>4, <1>9, <2>1, <2>2, <2>3 DEF CollectGlobalStatistics
<1>10. CASE CreateEnforcementRule(l, i)
  <2>1. \/ UNCHANGED local
        \/ local' = StopLocal(l)
    BY <1>10, Zenon DEF CreateEnforcementRule
  <2>2. Respond(l, i, Ack(TRUE)) \/ Respond(l, i, Ack(FALSE))
    BY <1>10, Zenon DEF CreateEnforcementRule
  <2>3. UNCHANGED stage
    BY <1>10, Zenon DEF CreateEnforcementRule
  <2>4. LocalsTyped'
    <3>1. CASE local' = StopLocal(l)
      <4> DEFINE p == [Stopped EXCEPT !.starts = local[l].starts]
      <4>1. LocalTyped(l, p)
        <5>1. {} \subseteq StagesOf(l)
          OBVIOUS
        <5> QED
          BY <1>p, <5>1, LocalUpdates
      <4>2. local' = [local EXCEPT ![l] = p]
        BY <3>1 DEF StopLocal
      <4> HIDE DEF p
      <4> QED
        BY <1>4, <4>1, <4>2
    <3> QED
      BY <1>5, <2>1, <3>1
  <2> QED
    BY <1>2, <1>3, <2>2, <2>3, <2>4
<1> QED
  BY <1>1, <1>6, <1>7, <1>8, <1>9, <1>10
\* A local controller gets a thread and a request for the handshake.
LEMMA Greeted ==
    ASSUME SessionsTyped, NEW l \in Locals,
           session' = [session EXCEPT ![l].threads = @ + 1,
                                      ![l].submission = Append(@, LocalHandshake)]
    PROVE  /\ SessionsTyped'
           /\ \A m \in Locals :
                  OutstandingNow(m)' = IF m = l THEN OutstandingNow(l) + 1 ELSE OutstandingNow(m)
<1> DEFINE q == session[l]
           r == [q EXCEPT !.threads = @ + 1, !.submission = Append(@, LocalHandshake)]
<1>1. SessionTyped(l, q) /\ OutstandingNow(l) = Pending(q)
  BY DEF SessionsTyped, OutstandingNow
<1>2. SessionTyped(l, r) /\ Pending(r) = Pending(q) + 1
  <2> HIDE DEF q
  <2>1. PICK a, b, c, d : Fields(l, q, a, b, c, d)
    BY <1>1, SessionParts
  <2> DEFINE more == Append(a, LocalHandshake)
             threads == q.threads + 1
  <2>2. r = [submission |-> more, sending |-> b, completion |-> c, threads |-> threads]
    <3>1. r = [q EXCEPT !.threads = threads, !.submission = more]
      BY <2>1 DEF Fields
    <3> HIDE DEF r, more, threads
    <3> QED
      BY <2>1, <3>1 DEF Fields
  <2>3. List(more) /\ Len(more) = Len(a) + 1
    BY <2>1, ListAppend DEF Fields
  <2> HIDE DEF r, more, threads
  <2>4. List(b) /\ c \in Seq(Responses(l)) /\ Pending(q) = Len(a) + Len(b) + Len(c)
        /\ Len(a) \in Nat /\ Len(b) \in Nat /\ Len(c) \in Nat
    BY <2>1 DEF Fields
  <2>5. SessionTyped(l, r) /\ Pending(r) = Len(more) + Len(b) + Len(c)
    BY ONLY <2>2, <2>3, <2>4, SessionIs
  <2> QED
    BY <2>3, <2>4, <2>5
<1>3. session' = [session EXCEPT ![l] = r]
  BY DEF SessionsTyped
<1> HIDE DEF q, r
<1>4. /\ SessionsTyped'
      /\ \A m \in Locals :
             OutstandingNow(m)' = IF m = l THEN Pending(r) ELSE OutstandingNow(m)
  BY <1>2, <1>3, SessionUpdated
<1> QED
  BY <1>1, <1>2, <1>4

LEMMA Erased ==
    ASSUME SessionsTyped, NEW some,
           session' = [l \in Locals |-> IF l \in some THEN Idle ELSE session[l]]
    PROVE  /\ SessionsTyped'
           /\ \A l \in Locals : OutstandingNow(l)' = IF l \in some THEN 0 ELSE OutstandingNow(l)
<1> DEFINE q == [l \in Locals |-> IF l \in some THEN Idle ELSE session[l]]
<1>1. ASSUME NEW l \in Locals
      PROVE  /\ SessionTyped(l, q[l])
             /\ Pending(q[l]) = IF l \in some THEN 0 ELSE OutstandingNow(l)
  BY IdlePending DEF SessionsTyped, OutstandingNow
<1>2. session' = q /\ q = [l \in Locals |-> q[l]]
  OBVIOUS
<1> HIDE DEF q
<1>3. SessionsTyped' /\ \A l \in Locals : OutstandingNow(l)' = Pending(q[l])
  BY <1>1, <1>2, SessionsReplaced
<1> QED
  BY <1>1, <1>3

\* The jobs among some of which a local controller has stages, and who is told
\* of new rates for these jobs.
JobsAt(l, some) == {job \in some : TrackedEnvs(job, l) # {}}
Targets(some) == {w \in Locals \X some : TrackedEnvs(w[2], w[1]) # {}}

LEMMA RulesSubmitted ==
    ASSUME SessionsTyped, NEW send, send \subseteq Jobs, NEW new_rates,
           SendEnforcementRules(send, new_rates)
    PROVE  /\ SessionsTyped'
           /\ \/ /\ pc' = "results" /\ fault' = fault
                 /\ \A w \in Targets(send) : w[1] \in local_sessions_
                 /\ todo' = Targets(send)
                 /\ \A l \in Locals :
                        OutstandingNow(l)' = OutstandingNow(l) + Cardinality(JobsAt(l, send))
              \/ /\ pc' = "crashed" /\ fault' = "no_session"
                 /\ UNCHANGED <<session, todo>>
<1> DEFINE Listed(l) == InOrder(JobsAt(l, send))
           Rule(l, job) == CreateEnfRule(job, active_op', TrackedEnvs(job, l),
                               LimitPerStage(new_rates[job], TotalStages(job)))
           Rules(l) == [i \in DOMAIN Listed(l) |-> Rule(l, Listed(l)[i])]
           requests == [l \in Locals |-> Rules(l)]
<1>1. ASSUME NEW l \in Locals
      PROVE  List(Rules(l)) /\ Len(Rules(l)) = Cardinality(JobsAt(l, send))
  <2>1. /\ Listed(l) \in Seq(JobsAt(l, send))
        /\ Len(Listed(l)) = Cardinality(JobsAt(l, send))
    <3>1. JobsAt(l, send) \subseteq Jobs
      BY DEF JobsAt
    <3> QED
      BY <3>1, InOrderLists
  <2> DEFINE n == Len(Listed(l))
             f == Rules(l)
  <2>2. n \in Nat /\ DOMAIN Listed(l) = 1..n
    BY <2>1
  <2>3. f = [i \in 1..n |-> f[i]]
    BY <2>2
  <2> HIDE DEF f
  <2>4. List(f) /\ Len(f) = n
    BY <2>2, <2>3, MappedList
  <2> QED
    BY <2>1, <2>4 DEF f
<1>2. \/ /\ session' = [l \in Locals |-> Submit(l, Rules(l))[l]]
         /\ \A w \in Targets(send) : w[1] \in local_sessions_
         /\ todo' = Targets(send) /\ pc' = "results" /\ fault' = fault
      \/ /\ pc' = "crashed" /\ fault' = "no_session"
         /\ UNCHANGED <<session, todo>>
  BY Zenon DEF SendEnforcementRules, JobsAt, Targets, Goto, Crash
<1> HIDE DEF Rules
<1>3. CASE session' = [l \in Locals |-> Submit(l, Rules(l))[l]]
  <2>1. \A l \in Locals : requests[l] = Rules(l)
    OBVIOUS
  <2> HIDE DEF requests
  <2>2. session' = [l \in Locals |-> Submit(l, requests[l])[l]]
    BY <1>3, <2>1
  <2>3. \A l \in Locals : List(requests[l])
    BY <1>1, <2>1
  <2>4. SessionsTyped' /\ \A l \in Locals : OutstandingNow(l)' = OutstandingNow(l) + Len(requests[l])
    BY <2>2, <2>3, SubmittedToAll
  <2>5. \A l \in Locals : OutstandingNow(l)' = OutstandingNow(l) + Cardinality(JobsAt(l, send))
    BY <1>1, <2>1, <2>4
  <2>6. \/ /\ \A w \in Targets(send) : w[1] \in local_sessions_
           /\ todo' = Targets(send) /\ pc' = "results" /\ fault' = fault
        \/ /\ pc' = "crashed" /\ fault' = "no_session"
           /\ UNCHANGED <<session, todo>>
    BY <1>2
  <2> QED
    BY <2>4, <2>5, <2>6
<1>4. CASE UNCHANGED session
  <2>1. SessionsTyped'
    BY <1>4 DEF SessionsTyped
  <2> QED
    BY <1>2, <1>3, <2>1
<1> QED
  BY <1>2, <1>3, <1>4
-------------------------------------------------------------------------------
(* Counting the answers that the main loop waits for from one local           *)
(* controller.                                                                *)

Due(l, awaited) == {w \in awaited : w[1] = l}

LEMMA DueOne ==
    ASSUME NEW l, NEW m, NEW x
    PROVE  /\ Cardinality(Due(l, {})) = 0
           /\ Cardinality(Due(l, {<<m, x>>})) = IF l = m THEN 1 ELSE 0
<1>1. Due(l, {}) = {}
  BY DEF Due
<1>2. Due(l, {<<m, x>>}) = IF l = m THEN {<<m, x>>} ELSE {}
  BY DEF Due
<1> QED
  BY <1>1, <1>2, FS_EmptySet, FS_Singleton

LEMMA DueRemoved ==
    ASSUME NEW l, NEW awaited, IsFiniteSet(awaited), NEW w \in awaited
    PROVE  /\ Cardinality(Due(l, awaited)) \in Nat
           /\ Cardinality(Due(l, awaited \ {w})) =
                  Cardinality(Due(l, awaited)) - IF w[1] = l THEN 1 ELSE 0
<1>1. IsFiniteSet(Due(l, awaited))
  BY FS_Subset DEF Due
<1>2. Cardinality(Due(l, awaited)) \in Nat
  BY <1>1, FS_CardinalityType
<1>3. Due(l, awaited \ {w}) = Due(l, awaited) \ {w}
  BY DEF Due
<1>4. w \in Due(l, awaited) <=> w[1] = l
  BY DEF Due
<1> DEFINE due == Due(l, awaited)
<1>5. Cardinality(due \ {w}) = IF w \in due THEN Cardinality(due) - 1 ELSE Cardinality(due)
  <2> HIDE DEF due
  <2>1. IsFiniteSet(due)
    BY <1>1 DEF due
  <2> QED
    BY <2>1, FS_RemoveElement
<1>6. CASE w[1] = l
  BY <1>2, <1>3, <1>4, <1>5, <1>6
<1>7. CASE w[1] # l
  BY <1>2, <1>3, <1>4, <1>5, <1>7
<1> QED
  BY <1>6, <1>7

LEMMA DueProduct ==
    ASSUME NEW l, NEW some, NEW x
    PROVE  Cardinality(Due(l, some \X {x})) = IF l \in some THEN 1 ELSE 0
<1>1. Due(l, some \X {x}) = IF l \in some THEN {<<l, x>>} ELSE {}
  BY DEF Due
<1> QED
  BY <1>1, FS_EmptySet, FS_Singleton

LEMMA TargetsFinite ==
    ASSUME NEW send, send \subseteq Jobs
    PROVE  IsFiniteSet(Targets(send)) /\ Targets(send) \subseteq Locals \X Jobs
<1>1. IsFiniteSet(Locals \X Jobs)
  BY CoreAssumption, CoreJobs, FS_Product
<1>2. Targets(send) \subseteq Locals \X Jobs
  BY DEF Targets
<1> QED
  BY <1>1, <1>2, FS_Subset

LEMMA DueTargets ==
    ASSUME NEW l \in Locals, NEW send, send \subseteq Jobs
    PROVE  Cardinality(Due(l, Targets(send))) = Cardinality(JobsAt(l, send))
<1> DEFINE f == [job \in JobsAt(l, send) |-> <<l, job>>]
<1>1. IsFiniteSet(JobsAt(l, send))
  BY CoreJobs, FS_Subset DEF JobsAt
<1>2. f \in Bijection(JobsAt(l, send), Due(l, Targets(send)))
  <2>1. \A job \in JobsAt(l, send) : <<l, job>> \in Due(l, Targets(send))
    BY DEF JobsAt, Due, Targets
  <2>2. \A w \in Due(l, Targets(send)) : w[2] \in JobsAt(l, send) /\ w = <<l, w[2]>>
    BY DEF JobsAt, Due, Targets
  <2>3. f \in [JobsAt(l, send) -> Due(l, Targets(send))]
    BY <2>1
  <2>4. \A a, b \in JobsAt(l, send) : f[a] = f[b] => a = b
    OBVIOUS
  <2>5. \A w \in Due(l, Targets(send)) : \E a \in JobsAt(l, send) : f[a] = w
    BY <2>2
  <2> HIDE DEF f
  <2> QED
    BY <2>3, <2>4, <2>5 DEF Bijection, Injection, Surjection, IsInjective
<1> QED
  BY <1>1, <1>2, FS_Bijection DEF ExistsBijection
-------------------------------------------------------------------------------
(* The main loop is where it says it is.                                      *)

\* What the steps outside the main loop leave alone.
Outside == UNCHANGED <<pc, fault, todo, local_sessions_, active_locals, sessions_to_delete,
                       trackers, rates, rounds>>

LEMMA Environment ==
    ASSUME Flow,
           \/ \E l \in Locals : SessionSend(l) \/ SessionReply(l) \/ LocalStart(l) \/ LocalStop(l)
           \/ \E s \in Stages : StageStart(s) \/ StageStop(s)
           \/ EnqueueRule \/ CountLocal \/ CountDataPlane
           \/ UNCHANGED vars
    PROVE  /\ Outside
           /\ SessionsTyped' /\ LocalsTyped'
           /\ \A l \in Locals : OutstandingNow(l)' = OutstandingNow(l)
           /\ local_queue' \in Seq(Locals) /\ local_to_data_queue_' \in Seq(Stages)
<1> DEFINE Queues == local_queue' \in Seq(Locals) /\ local_to_data_queue_' \in Seq(Stages)
           Sessions == SessionsTyped' /\ \A l \in Locals : OutstandingNow(l)' = OutstandingNow(l)
<1>1. local_queue \in Seq(Locals) /\ local_to_data_queue_ \in Seq(Stages)
  BY DEF Flow, Places
<1>2. ASSUME UNCHANGED queues PROVE Queues
  BY <1>1, <1>2 DEF queues
<1>3. ASSUME UNCHANGED session PROVE Sessions
  BY <1>3 DEF Flow, SessionsTyped, OutstandingNow
<1>4. ASSUME UNCHANGED local PROVE LocalsTyped'
  BY <1>4 DEF Flow, LocalsTyped
<1>5. ASSUME NEW l \in Locals, NEW p, LocalTyped(l, p), local' = [local EXCEPT ![l] = p]
      PROVE  LocalsTyped'
  BY <1>5, Zenon DEF Flow, LocalsTyped
<1>6. ASSUME NEW l \in Locals PROVE LocalTyped(l, local[l])
  BY DEF Flow, LocalsTyped
<1>7. ASSUME NEW l \in Locals, SessionSend(l)
      PROVE  Outside /\ Sessions /\ LocalsTyped' /\ Queues
  <2>1. Sessions
    BY <1>7, Sent DEF Flow
  <2>2. /\ UNCHANGED <<queues, trackers, rates, sessions, rounds, control, environment>>
    BY <1>7 DEF SessionSend
  <2> HIDE DEF Queues, Sessions
  <2> QED
    BY <1>2, <1>4, <2>1, <2>2 DEF Outside, sessions, control, environment
<1>8. ASSUME NEW l \in Locals, SessionReply(l)
      PROVE  Outside /\ Sessions /\ LocalsTyped' /\ Queues
  <2>1. /\ Sessions /\ LocalsTyped'
        /\ UNCHANGED <<queues, trackers, rates, sessions, rounds, control, next_rule, stage>>
    BY <1>8, Replied DEF Flow
  <2> HIDE DEF Queues, Sessions
  <2> QED
    BY <1>2, <2>1 DEF Outside, sessions, control
<1>9. ASSUME NEW l \in Locals, LocalStart(l)
      PROVE  Outside /\ Sessions /\ LocalsTyped' /\ Queues
  <2>1. local_queue' = Append(local_queue, l) /\ UNCHANGED local_to_data_queue_
    BY <1>9 DEF LocalStart
  <2>2. Append(local_queue, l) \in Seq(Locals)
    BY <1>1
  <2>3. Queues
    BY <1>1, <2>1, <2>2
  <2>4. LocalsTyped'
    <3> DEFINE starts == local[l].starts + 1
               p == [Stopped EXCEPT !.up = TRUE, !.starts = starts]
    <3>1. LocalTyped(l, p)
      <4>1. {} \subseteq StagesOf(l)
        OBVIOUS
      <4> HIDE DEF starts
      <4> QED
        BY <1>6, <4>1, LocalUpdates
    <3>2. local' = [local EXCEPT ![l] = p]
      BY <1>9, Zenon DEF LocalStart
    <3> HIDE DEF p
    <3> QED
      BY <1>5, <3>1, <3>2
  <2>5. Sessions
    <3> HIDE DEF Sessions
    <3> QED
      BY <1>3, <1>9 DEF LocalStart
  <2>6. Outside
    BY <1>9 DEF LocalStart, Outside, sessions, control
  <2> QED
    BY <2>3, <2>4, <2>5, <2>6
<1>10. ASSUME NEW l \in Locals, LocalStop(l)
       PROVE  Outside /\ Sessions /\ LocalsTyped' /\ Queues
  <2>1. LocalsTyped'
    <3> DEFINE starts == local[l].starts
               p == [Stopped EXCEPT !.starts = starts]
    <3>1. LocalTyped(l, p)
      <4>1. {} \subseteq StagesOf(l)
        OBVIOUS
      <4> HIDE DEF starts
      <4> QED
        BY <1>6, <4>1, LocalUpdates
    <3>2. local' = [local EXCEPT ![l] = p]
      BY <1>10, Zenon DEF LocalStop, StopLocal
    <3> HIDE DEF p
    <3> QED
      BY <1>5, <3>1, <3>2
  <2> HIDE DEF Queues, Sessions
  <2> QED
    BY <1>2, <1>3, <1>10, <2>1 DEF LocalStop, Outside, sessions, control
<1>11. ASSUME NEW s \in Stages, StageStart(s)
       PROVE  Outside /\ Sessions /\ LocalsTyped' /\ Queues
  <2>1. local_to_data_queue_' = Append(local_to_data_queue_, s) /\ UNCHANGED local_queue
    BY <1>11 DEF StageStart
  <2>2. Append(local_to_data_queue_, s) \in Seq(Stages)
    BY <1>1
  <2>3. Queues
    BY <1>1, <2>1, <2>2
  <2>4. LocalsTyped'
    <3> DEFINE l == LocalOf[s]
               q == local[l]
               some == q.preparing \cup {s}
               p == [q EXCEPT !.preparing = some, !.data_sessions = q.data_sessions]
    <3>1. l \in Locals
      BY CoreAssumption
    <3>2. LocalTyped(l, q)
      BY <1>6, <3>1
    <3>3. some \subseteq StagesOf(l) /\ q.data_sessions \subseteq StagesOf(l)
      BY <3>2 DEF LocalTyped, StagesOf
    <3>4. LocalTyped(l, p)
      <4> HIDE DEF l, q, some
      <4> QED
        BY <3>2, <3>3, LocalUpdates
    <3>5. [q EXCEPT !.preparing = some] = p
      <4> HIDE DEF l, q, some
      <4>1. q = [up |-> q.up, starts |-> q.starts, handshaken |-> q.handshaken,
                 preparing |-> q.preparing, data_sessions |-> q.data_sessions]
        BY <3>2 DEF LocalTyped
      <4>2. DOMAIN q = {"up", "starts", "handshaken", "preparing", "data_sessions"}
        BY <4>1, Zenon
      <4> QED
        BY <4>2, Zenon
    <3>6. local' = [local EXCEPT ![l] = [q EXCEPT !.preparing = some]]
      BY <1>11, <3>1 DEF StageStart, Flow, LocalsTyped
    <3> HIDE DEF l, p
    <3> QED
      BY <1>5, <3>1, <3>4, <3>5, <3>6
  <2>5. Sessions
    <3> HIDE DEF Sessions
    <3> QED
      BY <1>3, <1>11 DEF StageStart
  <2>6. Outside
    BY <1>11 DEF StageStart, Outside, sessions, control
  <2> QED
    BY <2>3, <2>4, <2>5, <2>6
<1> HIDE DEF Queues, Sessions
<1>12. ASSUME NEW s \in Stages, StageStop(s)
       PROVE  Outside /\ Sessions /\ LocalsTyped' /\ Queues
  BY <1>2, <1>3, <1>4, <1>12 DEF StageStop, Outside, sessions, control
<1>13. ASSUME EnqueueRule \/ CountLocal \/ CountDataPlane
       PROVE  Outside /\ Sessions /\ LocalsTyped' /\ Queues
  BY <1>1, <1>3, <1>4, <1>13
     DEF EnqueueRule, CountLocal, CountDataPlane, Outside, sessions, control, environment, Queues
<1>14. ASSUME UNCHANGED vars
       PROVE  Outside /\ Sessions /\ LocalsTyped' /\ Queues
  BY <1>2, <1>3, <1>4, <1>14 DEF vars, Outside, sessions, control, environment
<1>15. Outside /\ Sessions /\ LocalsTyped' /\ Queues
  BY <1>7, <1>8, <1>9, <1>10, <1>11, <1>12, <1>13, <1>14
<1> QED
  BY <1>15 DEF Queues, Sessions
\* The three computations of rates.
Computes ==
    \/ ComputeAndEnforceStaticRules
    \/ ComputeAndEnforceDynamicVanillaRules
    \/ ComputeAndEnforceDynamicLeftoverRules

\* All of them end in sending rules for some of the jobs, or none.
LEMMA ComputeSteps ==
    ASSUME Places, Computes
    PROVE  /\ pc = "compute"
           /\ UNCHANGED <<local_queue, local_to_data_queue_, trackers, sessions, sessions_sent,
                          environment>>
           /\ rounds_counter' = IF Leftover THEN 0 ELSE rounds_counter
           /\ \/ NothingToEnforce
              \/ \E new_rates : \E send \in SUBSET DOMAIN job_location_tracker :
                     SendEnforcementRules(send, new_rates)
<1>1. CASE ComputeAndEnforceStaticRules
  <2> DEFINE new_rates == PutAll(job_rates, Restrict(UpdatedDemands,
                              {job \in DOMAIN UpdatedDemands : UpdatedDemands[job] # -1}))
             send == {job \in DOMAIN job_location_tracker : ~BelowThreshold(job, new_rates)}
  <2>1. NothingToEnforce \/ SendEnforcementRules(send, new_rates)
    BY <1>1, Zenon DEF ComputeAndEnforceStaticRules
  <2>2. /\ pc = "compute" /\ ControlType = "STATIC" /\ rounds_counter' = rounds_counter
        /\ UNCHANGED <<local_queue, local_to_data_queue_, trackers, sessions, sessions_sent,
                       environment>>
    BY <1>1, Zenon DEF ComputeAndEnforceStaticRules
  <2>3. send \in SUBSET DOMAIN job_location_tracker
    OBVIOUS
  <2> HIDE DEF send, new_rates
  <2> QED
    BY <2>1, <2>2, <2>3 DEF Leftover
<1>2. CASE ComputeAndEnforceDynamicVanillaRules
  <2> DEFINE allocation == VanillaAllocation(CurrentJobs, UpdatedDemands, maximum_limit)
             send == {job \in DOMAIN job_location_tracker : VanillaSends(job, allocation.rates)}
  <2>1. NothingToEnforce \/ SendEnforcementRules(send, allocation.rates)
    BY <1>2, Zenon DEF ComputeAndEnforceDynamicVanillaRules
  <2>2. /\ pc = "compute" /\ ControlType = "DYNAMIC_VANILLA"
        /\ UNCHANGED <<local_queue, local_to_data_queue_, trackers, sessions, rounds, environment>>
    BY <1>2, Zenon DEF ComputeAndEnforceDynamicVanillaRules
  <2>3. send \in SUBSET DOMAIN job_location_tracker
    OBVIOUS
  <2> HIDE DEF send, allocation
  <2> QED
    BY <2>1, <2>2, <2>3 DEF Leftover, rounds
<1>3. CASE ComputeAndEnforceDynamicLeftoverRules
  <2>1. /\ pc = "compute" /\ ControlType = "DYNAMIC_LEFTOVER" /\ rounds_counter' = 0
        /\ UNCHANGED <<local_queue, local_to_data_queue_, trackers, sessions, sessions_sent,
                       environment>>
    BY <1>3, Zenon DEF ComputeAndEnforceDynamicLeftoverRules
  <2>2. \/ NothingToEnforce
        \/ \E new_rates : \E send \in SUBSET DOMAIN job_location_tracker :
               SendEnforcementRules(send, new_rates)
    BY <1>3 DEF ComputeAndEnforceDynamicLeftoverRules
  <2> QED
    BY <2>1, <2>2 DEF Leftover
<1> QED
  BY <1>1, <1>2, <1>3 DEF Computes

LEMMA PlacesKept == ASSUME Flow, MainLoop PROVE Places'
<1> USE DEF Places, Waiting
<1>1. Places /\ sessions_to_delete \subseteq local_sessions_
  BY DEF Flow, Departing
<1>2. CASE WaitForLocal
  BY <1>1, <1>2 DEF WaitForLocal, Goto, queues, trackers, sessions
<1>3. CASE LoopCondition
  BY <1>1, <1>3 DEF LoopCondition, Goto, queues, trackers, sessions
<1>4. CASE HandleLocalController
  <2> DEFINE l == Head(local_queue)
  <2>1. l \in Locals /\ Tail(local_queue) \in Seq(Locals)
    BY <1>1, <1>4, HeadTailProperties DEF HandleLocalController
  <2>2. pc' = "local_handshake" /\ todo' = {<<l, "handshake">>} /\ local_queue' = Tail(local_queue)
        /\ local_sessions_' = local_sessions_ \cup {l}
        /\ UNCHANGED <<local_to_data_queue_, job_location_tracker>>
    BY <1>4 DEF HandleLocalController, Goto
  <2>3. IsFiniteSet({<<l, "handshake">>})
    BY FS_Singleton
  <2> HIDE DEF l
  <2> QED
    BY <1>1, <2>1, <2>2, <2>3
<1>5. CASE CallLocalHandshake
  BY <1>1, <1>5, FS_EmptySet DEF CallLocalHandshake, Goto, queues, trackers
<1>6. CASE NoMoreLocalControllers
  BY <1>1, <1>6 DEF NoMoreLocalControllers, Goto, queues, trackers, sessions
<1>7. CASE HandleDataPlane
  <2> DEFINE s == Head(local_to_data_queue_)
  <2>1. s \in Stages /\ Tail(local_to_data_queue_) \in Seq(Stages) /\ pc = "data_planes"
    BY <1>1, <1>7, HeadTailProperties DEF HandleDataPlane
  <2>2. /\ local_to_data_queue_' = Tail(local_to_data_queue_) /\ UNCHANGED local_queue
        /\ UNCHANGED local_sessions_
        /\ DOMAIN job_location_tracker' = DOMAIN job_location_tracker \cup {JobOf[s]}
    BY <1>7 DEF HandleDataPlane, Put, sessions
  <2>3. \/ pc' = "stage_ready" /\ todo' = {<<LocalOf[s], s>>}
        \/ pc' = "crashed" /\ UNCHANGED todo
    BY <1>7 DEF HandleDataPlane, Goto, Crash
  <2>4. IsFiniteSet({<<LocalOf[s], s>>})
    BY FS_Singleton
  <2>5. LocalOf[s] \in Locals /\ JobOf[s] \in Jobs
    BY <2>1, CoreAssumption
  <2> HIDE DEF s
  <2>6. DOMAIN job_location_tracker' \subseteq Jobs
    BY <1>1, <2>2, <2>5
  <2>7. CASE pc' = "stage_ready" /\ todo' = {<<LocalOf[s], s>>}
    BY <1>1, <2>1, <2>2, <2>4, <2>5, <2>6, <2>7
  <2>8. CASE pc' = "crashed" /\ UNCHANGED todo
    BY <1>1, <2>1, <2>2, <2>6, <2>8
  <2> QED
    BY <2>3, <2>7, <2>8
<1>8. CASE MarkDataPlaneStageReady
  BY <1>1, <1>8, FS_EmptySet DEF MarkDataPlaneStageReady, Goto, queues, sessions
<1>9. CASE NoMoreDataPlanes
  BY <1>1, <1>9 DEF NoMoreDataPlanes, Goto, queues, trackers, sessions
<1>10. \A some \in SUBSET Locals : IsFiniteSet(some \X {"stats"})
  <2> SUFFICES ASSUME NEW some \in SUBSET Locals PROVE IsFiniteSet(some \X {"stats"})
    OBVIOUS
  <2>1. IsFiniteSet(some) /\ IsFiniteSet({"stats"})
    BY CoreAssumption, FS_Subset, FS_Singleton
  <2> QED
    BY <2>1, FS_Product
<1>11. Overseeing \in SUBSET Locals /\ Overseeing \subseteq local_sessions_
  BY <1>1 DEF Overseeing
<1>12. CASE CollectStatisticsGlobal
  <2>1. todo' = Overseeing \X {"stats"} /\ pc' = "collect"
        /\ UNCHANGED <<local_queue, local_to_data_queue_, job_location_tracker, local_sessions_>>
    BY <1>12 DEF CollectStatisticsGlobal, Goto, queues, trackers, sessions
  <2> DEFINE some == Overseeing
  <2>2. some \in SUBSET Locals /\ some \subseteq local_sessions_
    BY <1>11
  <2>3. IsFiniteSet(some \X {"stats"}) /\ todo' = some \X {"stats"}
    BY <1>10, <2>1, <2>2
  <2> HIDE DEF some
  <2> QED
    BY <1>1, <2>1, <2>2, <2>3
<1>13. CASE CollectStatisticsGlobalSend
  <2>1. /\ pc = "control"
        /\ \/ todo' = (sessions_sent' \cap Overseeing) \X {"stats"} /\ pc' = "collect"
           \/ UNCHANGED todo /\ pc' = "results"
        /\ UNCHANGED <<local_queue, local_to_data_queue_, job_location_tracker, local_sessions_>>
    BY <1>13 DEF CollectStatisticsGlobalSend, Goto, queues, trackers, sessions
  <2>2. CASE todo' = (sessions_sent' \cap Overseeing) \X {"stats"} /\ pc' = "collect"
    <3> DEFINE some == sessions_sent' \cap Overseeing
    <3>1. some \in SUBSET Locals /\ some \subseteq local_sessions_
      BY <1>11
    <3>2. IsFiniteSet(some \X {"stats"}) /\ todo' = some \X {"stats"}
      BY <1>10, <2>2, <3>1
    <3> HIDE DEF some
    <3> QED
      BY <1>1, <2>1, <2>2, <3>1, <3>2
  <2> QED
    BY <1>1, <2>1, <2>2
<1>14. CASE CollectStatisticsResult
  <2>1. PICK w \in todo :
            /\ pc = "collect" /\ todo' = todo \ {w}
            /\ UNCHANGED queues /\ UNCHANGED local_sessions_
            /\ \/ pc' = "crashed" /\ UNCHANGED trackers
               \/ UNCHANGED pc /\ RemoveStages(Lost(w[1], Answer(w[1]).alive))
    BY <1>14, Zenon DEF CollectStatisticsResult, Crash
  <2>2. DOMAIN job_location_tracker' \subseteq DOMAIN job_location_tracker
    BY <2>1 DEF RemoveStages, trackers
  <2>3. IsFiniteSet(todo \ {w})
    BY <1>1, FS_RemoveElement
  <2> QED
    BY <1>1, <2>1, <2>2, <2>3 DEF queues
<1>15. CASE DisconnectLocals
  BY <1>1, <1>15 DEF DisconnectLocals, Goto, queues, trackers
<1>16. ASSUME NEW send, send \subseteq Jobs, NEW new_rates, SendEnforcementRules(send, new_rates)
       PROVE  \/ pc' = "results" /\ todo' = Targets(send)
              \/ pc' = "crashed" /\ UNCHANGED todo
  BY <1>16, RulesSubmitted DEF Flow
<1>17. ASSUME pc = "compute",
              UNCHANGED <<local_queue, local_to_data_queue_, job_location_tracker, local_sessions_>>,
              \/ NothingToEnforce
              \/ \E new_rates : \E send \in SUBSET Jobs : SendEnforcementRules(send, new_rates)
       PROVE  Places'
  <2>1. CASE NothingToEnforce
    BY <1>1, <1>17, <2>1 DEF NothingToEnforce, Goto
  <2>2. ASSUME NEW send \in SUBSET Jobs, NEW new_rates, SendEnforcementRules(send, new_rates)
        PROVE  Places'
    <3>1. \/ pc' = "results" /\ todo' = Targets(send)
          \/ pc' = "crashed" /\ UNCHANGED todo
      BY <1>16, <2>2
    <3>2. IsFiniteSet(Targets(send)) /\ Targets(send) \subseteq Locals \X Jobs
      BY TargetsFinite
    <3> QED
      BY <1>1, <1>17, <3>1, <3>2
  <2> QED
    BY <1>17, <2>1, <2>2
<1>18. CASE Computes
  <2>1. /\ pc = "compute"
        /\ UNCHANGED <<local_queue, local_to_data_queue_, job_location_tracker, local_sessions_>>
        /\ \/ NothingToEnforce
           \/ \E new_rates : \E send \in SUBSET DOMAIN job_location_tracker :
                  SendEnforcementRules(send, new_rates)
    BY <1>1, <1>18, ComputeSteps DEF trackers, sessions
  <2>2. DOMAIN job_location_tracker \subseteq Jobs
    BY <1>1
  <2> HIDE DEF Places
  <2> QED
    BY <1>17, <2>1, <2>2
<1>19. CASE CollectEnforcementRuleResults
  <2>1. PICK w \in todo :
            /\ pc = "results" /\ todo' = todo \ {w}
            /\ UNCHANGED <<queues, trackers, sessions>>
            /\ pc' \in {"results", "crashed"}
    BY <1>19 DEF CollectEnforcementRuleResults, Crash
  <2>2. IsFiniteSet(todo \ {w})
    BY <1>1, FS_RemoveElement
  <2> QED
    BY <1>1, <2>1, <2>2 DEF queues, trackers, sessions
<1>20. CASE EndRound
  BY <1>1, <1>20 DEF EndRound, Goto, queues, trackers, sessions
<1>21. CASE WakeUp
  BY <1>1, <1>21 DEF WakeUp, Goto, queues, trackers, sessions
<1>22. CASE Exit
  BY <1>1, <1>22 DEF Exit, Goto, queues, trackers, sessions
<1> QED
  BY <1>2, <1>3, <1>4, <1>5, <1>6, <1>7, <1>8, <1>9, <1>12, <1>13, <1>14, <1>15, <1>18,
     <1>19, <1>20, <1>21, <1>22 DEF MainLoop, Computes
LEMMA RoundsKept == ASSUME Flow, MainLoop PROVE RoundsCounted'
<1>1. RoundsCounted /\ Places /\ COLLECT_ROUNDS \in Nat \ {0}
  BY CoreAssumption DEF Flow
<1> USE DEF RoundsCounted, Collecting
<1>2. ASSUME Overseeing \subseteq Overseeing', UNCHANGED <<rounds_counter, sessions_sent>>,
             \/ pc' \notin {"collect", "compute"} /\ pc \notin {"collect", "compute", "hung", "crashed"}
             \/ pc' = pc
             \/ pc = "collect" /\ pc' \in {"compute", "hung", "crashed"}
             \/ pc' = "collect" /\ ~Leftover
             \/ pc' = "crashed"
      PROVE  RoundsCounted'
  BY <1>1, <1>2
<1>3. ASSUME UNCHANGED <<local_sessions_, local_to_stages>> PROVE Overseeing' = Overseeing
  BY <1>3 DEF Overseeing, StagesAt
<1>4. CASE WaitForLocal \/ LoopCondition \/ Exit \/ NoMoreLocalControllers \/ NoMoreDataPlanes
           \/ EndRound \/ WakeUp
  <2>1. /\ UNCHANGED <<local_sessions_, local_to_stages, rounds_counter, sessions_sent>>
        /\ pc' \notin {"collect", "compute"} /\ pc \notin {"collect", "compute", "hung", "crashed"}
    BY <1>4 DEF WaitForLocal, LoopCondition, Exit, NoMoreLocalControllers, NoMoreDataPlanes, EndRound,
                WakeUp, Goto, sessions, trackers, rounds
  <2> QED
    BY <1>2, <1>3, <2>1
<1>5. CASE CallLocalHandshake \/ MarkDataPlaneStageReady \/ CollectEnforcementRuleResults
  <2>1. /\ UNCHANGED <<local_sessions_, local_to_stages, rounds_counter, sessions_sent>>
        /\ pc' \notin {"collect", "compute"} /\ pc \notin {"collect", "compute", "hung", "crashed"}
    BY <1>5 DEF CallLocalHandshake, MarkDataPlaneStageReady, CollectEnforcementRuleResults,
                Goto, Crash, sessions, trackers, rounds
  <2> QED
    BY <1>2, <1>3, <2>1
<1>6. CASE HandleLocalController
  <2>1. Overseeing \subseteq Overseeing'
    BY <1>6 DEF HandleLocalController, Overseeing, StagesAt, Emplace, Put
  <2>2. /\ UNCHANGED <<rounds_counter, sessions_sent>>
        /\ pc = "local_controllers" /\ pc' = "local_handshake"
    BY <1>6 DEF HandleLocalController, Goto, rounds
  <2> QED
    BY <1>2, <2>1, <2>2
<1>7. CASE HandleDataPlane
  <2>1. Overseeing \subseteq Overseeing'
    BY <1>7 DEF HandleDataPlane, Overseeing, StagesAt, Put, sessions
  <2>2. /\ UNCHANGED <<rounds_counter, sessions_sent>>
        /\ pc = "data_planes" /\ pc' \in {"stage_ready", "crashed"}
    BY <1>7 DEF HandleDataPlane, Goto, Crash
  <2> QED
    BY <1>2, <2>1, <2>2
<1>8. CASE CollectStatisticsGlobal
  <2>1. /\ UNCHANGED <<local_sessions_, local_to_stages, rounds_counter, sessions_sent>>
        /\ pc' = "collect" /\ ~Leftover
    BY <1>8 DEF CollectStatisticsGlobal, Goto, sessions, trackers, rounds, Leftover
  <2> QED
    BY <1>2, <1>3, <2>1
<1>9. CASE CollectStatisticsGlobalSend
  <2>1. /\ UNCHANGED <<local_sessions_, local_to_stages>> /\ pc = "control" /\ Leftover
        /\ rounds_counter' = rounds_counter + 1
    BY <1>9 DEF CollectStatisticsGlobalSend, sessions, trackers, Leftover
  <2>2. Overseeing' = Overseeing /\ Overseeing \subseteq Locals
    BY <1>1, <1>3, <2>1 DEF Overseeing, Places
  <2>3. \/ rounds_counter = 0 /\ sessions_sent' = Overseeing
        \/ rounds_counter # 0 /\ sessions_sent' = sessions_sent
    BY <1>9 DEF CollectStatisticsGlobalSend, CollectionStarts
  <2>4. \/ rounds_counter' = COLLECT_ROUNDS /\ pc' = "collect"
        \/ rounds_counter' # COLLECT_ROUNDS /\ pc' = "results"
    BY <1>9 DEF CollectStatisticsGlobalSend, Goto
  <2>5. rounds_counter < COLLECT_ROUNDS
    BY <1>1, <2>1
  <2>6. sessions_sent' \subseteq Locals /\ (Collecting' => sessions_sent' \subseteq Overseeing')
    BY <1>1, <2>1, <2>2, <2>3, <2>5
  <2> QED
    BY <1>1, <2>1, <2>4, <2>5, <2>6
<1>10. CASE CollectStatisticsResult
  <2>1. UNCHANGED <<rounds_counter, sessions_sent>> /\ pc = "collect" /\ pc' \in {"collect", "crashed"}
    BY <1>10, Zenon DEF CollectStatisticsResult, Crash
  <2> QED
    BY <1>1, <2>1
<1>11. CASE DisconnectLocals
  <2>1. UNCHANGED <<rounds_counter, sessions_sent>> /\ pc = "collect" /\ pc' \in {"compute", "hung"}
    BY <1>11 DEF DisconnectLocals, Goto, rounds
  <2> QED
    BY <1>1, <2>1
<1>12. CASE Computes
  <2>1. /\ pc = "compute" /\ UNCHANGED <<trackers, sessions, sessions_sent>>
        /\ rounds_counter' = IF Leftover THEN 0 ELSE rounds_counter
        /\ \/ NothingToEnforce
           \/ \E new_rates : \E send \in SUBSET DOMAIN job_location_tracker :
                  SendEnforcementRules(send, new_rates)
    BY <1>1, <1>12, ComputeSteps
  <2>2. pc' \in {"results", "crashed"}
    BY <2>1, Zenon DEF NothingToEnforce, SendEnforcementRules, Goto, Crash
  <2> QED
    BY <1>1, <2>1, <2>2
<1> QED
  BY <1>4, <1>5, <1>6, <1>7, <1>8, <1>9, <1>10, <1>11, <1>12 DEF MainLoop, Computes

LEMMA DepartingKept == ASSUME Flow, MainLoop PROVE Departing'
<1>1. Departing /\ Places
  BY DEF Flow
<1> USE DEF Departing
<1>2. ASSUME pc \notin {"collect", "crashed"}, UNCHANGED sessions_to_delete PROVE Departing'
  BY <1>1, <1>2
<1>3. CASE WaitForLocal \/ LoopCondition \/ Exit \/ NoMoreLocalControllers \/ NoMoreDataPlanes
           \/ EndRound \/ WakeUp
  BY <1>2, <1>3 DEF WaitForLocal, LoopCondition, Exit, NoMoreLocalControllers, NoMoreDataPlanes,
                    EndRound, WakeUp, sessions
<1>4. CASE CallLocalHandshake \/ MarkDataPlaneStageReady \/ CollectEnforcementRuleResults
  BY <1>2, <1>4 DEF CallLocalHandshake, MarkDataPlaneStageReady, CollectEnforcementRuleResults,
                    sessions
<1>5. CASE HandleLocalController \/ HandleDataPlane
  BY <1>2, <1>5 DEF HandleLocalController, HandleDataPlane, sessions
<1>6. CASE CollectStatisticsGlobal \/ CollectStatisticsGlobalSend
  BY <1>2, <1>6 DEF CollectStatisticsGlobal, CollectStatisticsGlobalSend, sessions
<1>7. CASE CollectStatisticsResult
  <2>1. PICK w \in todo :
            /\ pc = "collect" /\ UNCHANGED local_sessions_
            /\ \/ pc' = "crashed" /\ UNCHANGED <<trackers, sessions_to_delete>>
               \/ LET l == w[1]
                      lost == Lost(l, Answer(l).alive)
                  IN  /\ UNCHANGED pc
                      /\ local_to_stages' =
                           IF Remaining(l, lost) # {}
                           THEN [local_to_stages EXCEPT ![l] = Remaining(l, lost)]
                           ELSE Restrict(local_to_stages, DOMAIN local_to_stages \ {l})
                      /\ sessions_to_delete' =
                           sessions_to_delete \cup (IF Disconnects(l, lost) THEN {l} ELSE {})
    BY <1>7, Zenon DEF CollectStatisticsResult, Crash
  <2>2. w[1] \in local_sessions_
    BY <1>1, <2>1 DEF Places
  <2>3. CASE pc' = "crashed" /\ UNCHANGED <<trackers, sessions_to_delete>>
    BY <1>1, <2>1, <2>3 DEF trackers, StagesAt
  <2>4. CASE UNCHANGED pc
    <3> DEFINE l == w[1]
               left == Remaining(l, Lost(l, Answer(l).alive))
    <3>1. /\ local_to_stages' = IF left # {} THEN [local_to_stages EXCEPT ![l] = left]
                                ELSE Restrict(local_to_stages, DOMAIN local_to_stages \ {l})
          /\ sessions_to_delete' = sessions_to_delete \cup (IF left = {} THEN {l} ELSE {})
      BY <2>1, <2>4 DEF Disconnects
    <3>2. left \subseteq StagesAt(l)
      BY DEF Remaining
    <3> HIDE DEF l, left
    <3>3. \A m : StagesAt(m)' = IF m = l THEN left ELSE StagesAt(m)
      BY <3>1, <3>2 DEF StagesAt, Restrict
    <3> QED
      BY <1>1, <2>1, <2>2, <2>4, <3>1, <3>2, <3>3 DEF l
  <2> QED
    BY <2>1, <2>3, <2>4
<1>8. CASE DisconnectLocals
  BY <1>1, <1>8 DEF DisconnectLocals
<1>9. CASE Computes
  BY <1>1, <1>2, <1>9, ComputeSteps DEF sessions
<1> QED
  BY <1>3, <1>4, <1>5, <1>6, <1>7, <1>8, <1>9 DEF MainLoop, Computes
-------------------------------------------------------------------------------
(* Every answer that the main loop waits for is still to come.                *)

\* DYNAMIC_LEFTOVER waits for an answer in a later round.
Later(l) == IF Collecting /\ l \in sessions_sent THEN 1 ELSE 0

InStep == \A l \in Locals : OutstandingNow(l) = Cardinality(Due(l, todo)) + Later(l)

LEMMA InStepIs == SessionsInStep <=> InStep
<1>1. \A l \in Locals : Expected(l) = Cardinality(Due(l, todo)) + Later(l)
  BY Zenon DEF Expected, Due, Later, Collecting
<1> QED
  BY <1>1, OutstandingIs DEF SessionsInStep, InStep

LEMMA SessionsKept ==
    ASSUME Flow, MainLoop
    PROVE  SessionsTyped' /\ LocalsTyped' /\ (InStep => InStep')
<1>1. SessionsTyped /\ LocalsTyped /\ Places /\ RoundsCounted
  BY DEF Flow
<1>2. \A l \in Locals : OutstandingNow(l) \in Nat
  BY <1>1, OutstandingIs
<1> DEFINE Goal == SessionsTyped' /\ LocalsTyped' /\ (InStep => InStep')
<1>3. ASSUME UNCHANGED local PROVE LocalsTyped'
  BY <1>1, <1>3 DEF LocalsTyped
<1>4. ASSUME UNCHANGED <<rounds_counter, sessions_sent>> PROVE \A l \in Locals : Later(l)' = Later(l)
  BY <1>4 DEF Later, Collecting
<1>5. ASSUME UNCHANGED <<session, todo, rounds, local>> PROVE Goal
  <2>1. SessionsTyped' /\ \A l \in Locals : OutstandingNow(l)' = OutstandingNow(l)
    BY <1>1, <1>5 DEF SessionsTyped, OutstandingNow
  <2>2. \A l \in Locals : Later(l)' = Later(l)
    BY <1>4, <1>5 DEF rounds
  <2>3. UNCHANGED todo /\ LocalsTyped'
    BY <1>3, <1>5
  <2> QED
    BY <2>1, <2>2, <2>3 DEF InStep
<1>6. CASE WaitForLocal \/ LoopCondition \/ Exit \/ NoMoreLocalControllers \/ NoMoreDataPlanes
           \/ WakeUp
  BY <1>5, <1>6 DEF WaitForLocal, LoopCondition, Exit, NoMoreLocalControllers, NoMoreDataPlanes,
                    WakeUp, environment
<1>7. CASE EndRound
  <2>1. UNCHANGED <<session, todo, rounds_counter, sessions_sent, local>>
    BY <1>7 DEF EndRound, environment
  <2>2. SessionsTyped' /\ \A l \in Locals : OutstandingNow(l)' = OutstandingNow(l)
    BY <1>1, <2>1 DEF SessionsTyped, OutstandingNow
  <2>3. \A l \in Locals : Later(l)' = Later(l)
    BY <1>4, <2>1
  <2> QED
    BY <1>3, <2>1, <2>2, <2>3 DEF InStep
\* A request is submitted to one local controller, whose answer is waited for.
<1>8. ASSUME NEW l \in Locals, NEW x, todo = {}, todo' = {<<l, x>>}, SessionsTyped',
             UNCHANGED <<rounds_counter, sessions_sent, local>>,
             \A m \in Locals :
                 OutstandingNow(m)' = IF m = l THEN OutstandingNow(l) + 1 ELSE OutstandingNow(m)
      PROVE  Goal
  <2>1. ASSUME NEW m \in Locals, InStep
        PROVE  OutstandingNow(m)' = Cardinality(Due(m, todo')) + Later(m)'
    <3>1. OutstandingNow(m) = Later(m) /\ Later(m)' = Later(m) /\ Later(m) \in Nat
      <4>1. Cardinality(Due(m, todo)) = 0
        BY <1>8, DueOne
      <4>2. Later(m) \in Nat
        BY DEF Later
      <4> QED
        BY <1>4, <1>8, <2>1, <4>1, <4>2 DEF InStep
    <3>2. Cardinality(Due(m, todo')) = IF m = l THEN 1 ELSE 0
      BY <1>8, DueOne
    <3> QED
      BY <1>8, <3>1, <3>2
  <2> QED
    BY <1>3, <1>8, <2>1 DEF InStep
\* An answer that was waited for is taken.
<1>9. ASSUME NEW w \in todo, Answered(w[1]), session' = PopAnswer(w[1]), todo' = todo \ {w},
             UNCHANGED <<rounds_counter, sessions_sent, local>>
      PROVE  Goal
  <2> DEFINE l == w[1]
  <2>1. l \in Locals
    BY <1>1 DEF Places
  <2>2. /\ SessionsTyped'
        /\ \A m \in Locals :
               OutstandingNow(m)' = IF m = l THEN OutstandingNow(l) - 1 ELSE OutstandingNow(m)
    BY <1>1, <1>9, <2>1, Popped
  <2>3. ASSUME NEW m \in Locals, InStep
        PROVE  OutstandingNow(m)' = Cardinality(Due(m, todo')) + Later(m)'
    <3>1. /\ Cardinality(Due(m, todo)) \in Nat
          /\ Cardinality(Due(m, todo')) = Cardinality(Due(m, todo)) - IF l = m THEN 1 ELSE 0
      BY <1>1, <1>9, DueRemoved DEF Places
    <3>2. Later(m)' = Later(m) /\ Later(m) \in Nat
      BY <1>4, <1>9 DEF Later
    <3>3. OutstandingNow(m) = Cardinality(Due(m, todo)) + Later(m)
      BY <2>3 DEF InStep
    <3> HIDE DEF l
    <3> QED
      BY <2>2, <3>1, <3>2, <3>3
  <2> QED
    BY <1>3, <1>9, <2>2, <2>3 DEF InStep
<1>10. CASE HandleLocalController
  <2> DEFINE l == Head(local_queue)
  <2>1. l \in Locals /\ todo = {}
    BY <1>1, <1>10, HeadTailProperties DEF HandleLocalController, Places, Waiting
  <2>2. /\ session' = [session EXCEPT ![l].threads = @ + 1,
                                      ![l].submission = Append(@, LocalHandshake)]
        /\ todo' = {<<l, "handshake">>}
        /\ UNCHANGED <<rounds_counter, sessions_sent, local>>
    BY <1>10 DEF HandleLocalController, rounds, environment
  <2> HIDE DEF l
  <2>3. /\ SessionsTyped'
        /\ \A m \in Locals :
               OutstandingNow(m)' = IF m = l THEN OutstandingNow(l) + 1 ELSE OutstandingNow(m)
    BY <1>1, <2>1, <2>2, Greeted
  <2> QED
    BY <1>8, <2>1, <2>2, <2>3
<1>11. CASE CallLocalHandshake
  <2>1. PICK w \in todo :
            /\ pc = "local_handshake" /\ Answered(w[1]) /\ session' = PopAnswer(w[1]) /\ todo' = {}
            /\ UNCHANGED <<rounds_counter, sessions_sent, local>>
    BY <1>11 DEF CallLocalHandshake, rounds, environment
  <2>2. todo = {w}
    BY <1>1, <2>1 DEF Places
  <2>3. todo' = todo \ {w}
    BY <2>1, <2>2
  <2> QED
    BY <1>9, <2>1, <2>3
<1>12. CASE HandleDataPlane
  <2> DEFINE s == Head(local_to_data_queue_)
             l == LocalOf[s]
  <2>1. l \in Locals /\ todo = {}
    BY <1>1, <1>12, HeadTailProperties, CoreAssumption DEF HandleDataPlane, Places, Waiting
  <2>2. /\ \/ session' = Submit(l, <<StageReady(s)>>) /\ todo' = {<<l, s>>}
           \/ UNCHANGED <<session, todo>>
        /\ UNCHANGED <<rounds_counter, sessions_sent, local>>
    BY <1>12 DEF HandleDataPlane, environment
  <2>3. CASE session' = Submit(l, <<StageReady(s)>>) /\ todo' = {<<l, s>>}
    <3> DEFINE request == StageReady(s)
    <3>1. session' = Submit(l, <<request>>)
      BY <2>3
    <3> HIDE DEF l, request
    <3>2. /\ SessionsTyped'
          /\ \A m \in Locals :
                 OutstandingNow(m)' = IF m = l THEN OutstandingNow(l) + 1 ELSE OutstandingNow(m)
      BY <1>1, <2>1, <3>1, SubmittedTo
    <3> QED
      BY <1>8, <2>1, <2>2, <2>3, <3>2
  <2>4. CASE UNCHANGED <<session, todo>>
    <3>1. SessionsTyped' /\ \A m \in Locals : OutstandingNow(m)' = OutstandingNow(m)
      BY <1>1, <2>4 DEF SessionsTyped, OutstandingNow
    <3>2. \A m \in Locals : Later(m)' = Later(m)
      BY <1>4, <2>2
    <3> QED
      BY <1>3, <2>2, <2>4, <3>1, <3>2 DEF InStep
  <2> QED
    BY <2>2, <2>3, <2>4
<1>13. CASE MarkDataPlaneStageReady
  <2>1. PICK w \in todo :
            /\ pc = "stage_ready" /\ Answered(w[1]) /\ session' = PopAnswer(w[1]) /\ todo' = {}
            /\ UNCHANGED <<rounds_counter, sessions_sent, local>>
    BY <1>13 DEF MarkDataPlaneStageReady, rounds, environment
  <2>2. todo = {w}
    BY <1>1, <2>1 DEF Places
  <2>3. todo' = todo \ {w}
    BY <2>1, <2>2
  <2> QED
    BY <1>9, <2>1, <2>3
\* All local controllers that oversee stages are asked for statistics.
<1>14. CASE CollectStatisticsGlobal
  <2>1. /\ session' = Request(Overseeing) /\ todo' = Overseeing \X {"stats"} /\ todo = {}
        /\ UNCHANGED <<rounds_counter, sessions_sent, local>>
    BY <1>1, <1>14 DEF CollectStatisticsGlobal, Places, Waiting, rounds, environment
  <2> DEFINE asked == Overseeing
  <2>2. /\ SessionsTyped'
        /\ \A m \in Locals : OutstandingNow(m)' = OutstandingNow(m) + IF m \in asked THEN 1 ELSE 0
    BY <1>1, <2>1, Requested
  <2> HIDE DEF asked
  <2>3. ASSUME NEW m \in Locals, InStep
        PROVE  OutstandingNow(m)' = Cardinality(Due(m, todo')) + Later(m)'
    <3>1. Cardinality(Due(m, todo)) = 0 /\ Later(m)' = Later(m) /\ Later(m) \in Nat
      BY <1>4, <2>1, DueOne DEF Later
    <3>2. Cardinality(Due(m, todo')) = IF m \in asked THEN 1 ELSE 0
      BY <2>1, DueProduct DEF asked
    <3>3. OutstandingNow(m) = Later(m)
      BY <2>3, <3>1 DEF InStep
    <3> QED
      BY <2>2, <3>1, <3>2, <3>3
  <2> QED
    BY <1>3, <2>1, <2>2, <2>3 DEF InStep
<1>15. CASE CollectStatisticsGlobalSend
  <2>1. /\ pc = "control" /\ todo = {} /\ Leftover /\ UNCHANGED local
        /\ rounds_counter' = rounds_counter + 1
    BY <1>1, <1>15 DEF CollectStatisticsGlobalSend, Places, Waiting, environment, Leftover
  <2>2. rounds_counter \in Nat /\ rounds_counter < COLLECT_ROUNDS /\ COLLECT_ROUNDS \in Nat
    BY <1>1, <2>1, CoreAssumption DEF RoundsCounted
  <2>3. \/ /\ rounds_counter = 0 /\ session' = Request(Overseeing) /\ sessions_sent' = Overseeing
        \/ /\ rounds_counter # 0 /\ UNCHANGED <<session, sessions_sent>>
    BY <1>15 DEF CollectStatisticsGlobalSend, CollectionStarts
  <2>4. \/ /\ rounds_counter' = COLLECT_ROUNDS
           /\ todo' = (sessions_sent' \cap Overseeing) \X {"stats"}
        \/ /\ rounds_counter' # COLLECT_ROUNDS /\ UNCHANGED todo
    BY <1>15 DEF CollectStatisticsGlobalSend
  <2>5. /\ SessionsTyped'
        /\ \A m \in Locals :
               OutstandingNow(m)' = OutstandingNow(m)
                   + IF rounds_counter = 0 /\ m \in Overseeing THEN 1 ELSE 0
    <3>1. CASE rounds_counter = 0
      <4>1. session' = Request(Overseeing)
        BY <2>3, <3>1
      <4> QED
        BY <1>1, <3>1, <4>1, Requested
    <3>2. CASE rounds_counter # 0
      <4>1. UNCHANGED session
        BY <2>3, <3>2
      <4>2. SessionsTyped' /\ \A m \in Locals : OutstandingNow(m)' = OutstandingNow(m)
        BY <1>1, <4>1 DEF SessionsTyped, OutstandingNow
      <4> QED
        BY <1>2, <3>2, <4>2
    <3> QED
      BY <3>1, <3>2
  <2>6. rounds_counter # 0 => sessions_sent \subseteq Overseeing
    <3>1. rounds_counter # 0 => Collecting
      BY <2>2 DEF Collecting
    <3> QED
      BY <1>1, <3>1 DEF RoundsCounted
  <2>7. ASSUME NEW m \in Locals, InStep
        PROVE  OutstandingNow(m)' = Cardinality(Due(m, todo')) + Later(m)'
    <3> DEFINE asked == sessions_sent' \cap Overseeing
    <3>1. /\ OutstandingNow(m) = Later(m)
          /\ Later(m) = IF rounds_counter # 0 /\ m \in sessions_sent THEN 1 ELSE 0
      <4>1. Cardinality(Due(m, todo)) = 0
        BY <2>1, DueOne
      <4>2. Later(m) = IF rounds_counter # 0 /\ m \in sessions_sent THEN 1 ELSE 0
        BY <2>2 DEF Later, Collecting
      <4> QED
        BY <2>7, <4>1, <4>2 DEF InStep
    <3>2. OutstandingNow(m)' = IF m \in asked THEN 1 ELSE 0
      <4>1. CASE rounds_counter = 0
        BY <2>3, <2>5, <3>1, <4>1
      <4>2. CASE rounds_counter # 0
        BY <2>3, <2>5, <2>6, <3>1, <4>2
      <4> QED
        BY <4>1, <4>2
    <3>3. CASE rounds_counter' = COLLECT_ROUNDS
      <4>1. Later(m)' = 0
        BY <2>2, <3>3 DEF Later, Collecting
      <4>2. todo' = asked \X {"stats"}
        BY <2>4, <3>3
      <4>3. Cardinality(Due(m, todo')) = IF m \in asked THEN 1 ELSE 0
        <5> HIDE DEF asked
        <5>1. Due(m, todo') = Due(m, asked \X {"stats"})
          BY <4>2
        <5>2. Cardinality(Due(m, asked \X {"stats"})) = IF m \in asked THEN 1 ELSE 0
          BY DueProduct
        <5> QED
          BY <5>1, <5>2
      <4> HIDE DEF asked
      <4> QED
        BY <3>2, <4>1, <4>3
    <3>4. CASE rounds_counter' # COLLECT_ROUNDS
      <4>1. Cardinality(Due(m, todo')) = 0
        BY <2>1, <2>4, <3>4, DueOne
      <4>2. rounds_counter' \in 1..(COLLECT_ROUNDS - 1)
        BY <2>1, <2>2, <3>4
      <4>3. m \in asked <=> m \in sessions_sent'
        BY <2>3, <2>6
      <4>4. Later(m)' = IF m \in asked THEN 1 ELSE 0
        BY <4>2, <4>3 DEF Later, Collecting
      <4> HIDE DEF asked
      <4> QED
        BY <3>2, <4>1, <4>4
    <3> QED
      BY <3>3, <3>4
  <2> QED
    BY <1>3, <2>1, <2>5, <2>7 DEF InStep
<1>16. CASE CollectStatisticsResult
  <2>1. PICK w \in todo :
            /\ Answered(w[1]) /\ session' = PopAnswer(w[1]) /\ todo' = todo \ {w}
            /\ UNCHANGED <<rounds_counter, sessions_sent, local>>
    BY <1>16, Zenon DEF CollectStatisticsResult, environment
  <2> QED
    BY <1>9, <2>1
<1>17. CASE DisconnectLocals
  <2>1. /\ pc = "collect" /\ todo = {} /\ UNCHANGED <<todo, rounds_counter, sessions_sent, local>>
        /\ session' = [l \in Locals |-> IF l \in sessions_to_delete THEN Idle ELSE session[l]]
    BY <1>17 DEF DisconnectLocals, rounds, environment
  <2>2. /\ SessionsTyped'
        /\ \A m \in Locals : OutstandingNow(m)' =
               IF m \in sessions_to_delete THEN 0 ELSE OutstandingNow(m)
    BY <1>1, <2>1, Erased
  <2>3. ASSUME NEW m \in Locals, InStep
        PROVE  OutstandingNow(m)' = Cardinality(Due(m, todo')) + Later(m)'
    <3>1. Cardinality(Due(m, todo)) = 0 /\ Cardinality(Due(m, todo')) = 0
      BY <2>1, DueOne
    <3>2. Later(m) = 0 /\ Later(m)' = 0
      BY <1>1, <1>4, <2>1 DEF RoundsCounted, Later
    <3> QED
      BY <2>2, <2>3, <3>1, <3>2 DEF InStep
  <2> QED
    BY <1>3, <2>1, <2>2, <2>3 DEF InStep
\* Every local controller gets as many rules as answers are waited for from it.
<1>18. CASE Computes
  <2>1. /\ pc = "compute" /\ todo = {} /\ UNCHANGED local
        /\ rounds_counter' = IF Leftover THEN 0 ELSE rounds_counter
        /\ UNCHANGED sessions_sent
        /\ \/ NothingToEnforce
           \/ \E new_rates : \E send \in SUBSET DOMAIN job_location_tracker :
                  SendEnforcementRules(send, new_rates)
    BY <1>1, <1>18, ComputeSteps DEF environment, Places, Waiting
  <2>2. \A m \in Locals : Later(m) = 0 /\ Later(m)' = 0 /\ Cardinality(Due(m, todo)) = 0
    <3>1. ~Collecting /\ ~Collecting'
      BY <1>1, <2>1 DEF RoundsCounted, Collecting
    <3> QED
      BY <2>1, <3>1, DueOne DEF Later
  <2>3. ASSUME UNCHANGED <<session, todo>> PROVE Goal
    <3>1. SessionsTyped' /\ \A m \in Locals : OutstandingNow(m)' = OutstandingNow(m)
      BY <1>1, <2>3 DEF SessionsTyped, OutstandingNow
    <3> QED
      BY <1>3, <2>1, <2>2, <2>3, <3>1 DEF InStep
  <2>4. ASSUME NEW send \in SUBSET DOMAIN job_location_tracker, NEW new_rates,
               SendEnforcementRules(send, new_rates)
        PROVE  Goal
    <3>1. send \subseteq Jobs
      BY <1>1 DEF Places
    <3>2. /\ SessionsTyped'
          /\ \/ /\ todo' = Targets(send)
                /\ \A l \in Locals :
                       OutstandingNow(l)' = OutstandingNow(l) + Cardinality(JobsAt(l, send))
             \/ UNCHANGED <<session, todo>>
      BY <1>1, <2>4, <3>1, RulesSubmitted
    <3>3. CASE /\ todo' = Targets(send)
               /\ \A l \in Locals :
                      OutstandingNow(l)' = OutstandingNow(l) + Cardinality(JobsAt(l, send))
      <4>1. \A m \in Locals : Cardinality(Due(m, todo')) = Cardinality(JobsAt(m, send))
        BY <3>1, <3>3, DueTargets
      <4>2. \A m \in Locals : Cardinality(JobsAt(m, send)) \in Nat
        <5>1. \A m \in Locals : JobsAt(m, send) \in SUBSET Jobs
          BY <3>1 DEF JobsAt
        <5> QED
          BY <5>1, CoreJobs, FS_Subset, FS_CardinalityType
      <4>3. InStep => InStep'
        BY <2>2, <3>3, <4>1, <4>2 DEF InStep
      <4> QED
        BY <1>3, <2>1, <3>2, <4>3
    <3> QED
      BY <2>3, <3>2, <3>3
  <2>5. NothingToEnforce => UNCHANGED <<session, todo>>
    BY DEF NothingToEnforce
  <2> QED
    BY <2>1, <2>3, <2>4, <2>5
<1>19. CASE CollectEnforcementRuleResults
  <2>1. PICK w \in todo :
            /\ Answered(w[1]) /\ session' = PopAnswer(w[1]) /\ todo' = todo \ {w}
            /\ UNCHANGED <<rounds_counter, sessions_sent, local>>
    BY <1>19, Zenon DEF CollectEnforcementRuleResults, environment, rounds
  <2> QED
    BY <1>9, <2>1
<1> QED
  BY <1>6, <1>7, <1>10, <1>11, <1>12, <1>13, <1>14, <1>15, <1>16, <1>17, <1>18, <1>19
     DEF MainLoop, Computes
-------------------------------------------------------------------------------
(* The invariants.                                                            *)

LEMMA FlowAtStart == Init => Flow /\ InStep
<1> SUFFICES ASSUME Init PROVE Flow /\ InStep
  OBVIOUS
<1> USE DEF Init
<1>1. Places
  BY FS_EmptySet DEF Places, Waiting
<1>2. RoundsCounted
  BY CoreAssumption DEF RoundsCounted, Collecting, Leftover
<1>3. Departing
  BY DEF Departing
<1>4. SessionsTyped /\ \A l \in Locals : OutstandingNow(l) = 0
  BY IdlePending DEF SessionsTyped, OutstandingNow
<1>5. LocalsTyped
  <2>1. \A l \in Locals : LocalTyped(l, Stopped)
    BY Zenon DEF LocalTyped, Stopped
  <2> QED
    BY <2>1 DEF LocalsTyped
<1>6. InStep
  <2>1. \A l \in Locals : Later(l) = 0
    BY DEF Later, Collecting
  <2>2. \A l \in Locals : Cardinality(Due(l, todo)) = 0
    BY DueOne
  <2> QED
    BY <1>4, <2>1, <2>2 DEF InStep
<1> QED
  BY <1>1, <1>2, <1>3, <1>4, <1>5, <1>6 DEF Flow

LEMMA FlowKept == ASSUME Flow, [Next]_vars PROVE Flow' /\ (InStep => InStep')
<1>1. CASE MainLoop
  BY <1>1, PlacesKept, RoundsKept, DepartingKept, SessionsKept DEF Flow
<1>2. CASE \/ \E l \in Locals : SessionSend(l) \/ SessionReply(l) \/ LocalStart(l) \/ LocalStop(l)
           \/ \E s \in Stages : StageStart(s) \/ StageStop(s)
           \/ EnqueueRule \/ CountLocal \/ CountDataPlane
           \/ UNCHANGED vars
  <2>1. /\ Outside
        /\ SessionsTyped' /\ LocalsTyped'
        /\ \A l \in Locals : OutstandingNow(l)' = OutstandingNow(l)
        /\ local_queue' \in Seq(Locals) /\ local_to_data_queue_' \in Seq(Stages)
    BY <1>2, Environment
  <2>2. Places /\ RoundsCounted /\ Departing
    BY DEF Flow
  <2>3. Places'
    BY <2>1, <2>2 DEF Places, Waiting, Outside, trackers
  <2>4. RoundsCounted'
    BY <2>1, <2>2 DEF RoundsCounted, Collecting, Overseeing, StagesAt, Outside, trackers, rounds
  <2>5. Departing'
    BY <2>1, <2>2 DEF Departing, StagesAt, Outside, trackers
  <2>6. InStep => InStep'
    BY <2>1 DEF InStep, Later, Collecting, Outside, rounds
  <2> QED
    BY <2>1, <2>3, <2>4, <2>5, <2>6 DEF Flow
<1> QED
  BY <1>1, <1>2 DEF Next

LEMMA FlowHolds == SafetySpec => [](Flow /\ InStep)
<1>1. Init => Flow /\ InStep
  BY FlowAtStart
<1>2. Flow /\ InStep /\ [Next]_vars => Flow' /\ InStep'
  BY FlowKept
<1> QED
  BY <1>1, <1>2, PTL DEF SafetySpec

\* Between two steps, as many requests of each session are under way or
\* answered as the main loop waits for, now or, under DYNAMIC_LEFTOVER, in a
\* later round: it never waits for an answer nobody will send, and never takes
\* one that a former round left behind.
\* (The SubmitRule and GetResult calls of the feedback loop.)
THEOREM AnswersMatchRequests == SafetySpec => []SessionsInStep
  BY FlowHolds, InStepIs, PTL
-------------------------------------------------------------------------------
(* Sessions of local controllers that oversee stages, and the exit.           *)

\* Places behind the reading of the counters of local controllers.
Leaving == {"loop_data_planes", "exiting", "exited"}

\* A step of the main loop is one of a main loop that has not stopped, and it
\* goes towards the exit only when no local controller is counted.
LEMMA MainLoopRuns ==
    ASSUME Flow, MainLoop
    PROVE  /\ pc \notin {"exited", "crashed", "hung"}
           /\ fault' = fault \/ pc' \in {"crashed", "hung"}
           /\ pc' \in Leaving =>
                  /\ (pc \in Leaving \/ (pc = "loop" /\ ~(LocalConnections > 0)))
                  /\ UNCHANGED <<sessions, trackers>>
<1> USE DEF Leaving
<1>1. CASE LoopCondition \/ Exit
  BY <1>1 DEF LoopCondition, Exit, Goto, sessions, trackers
<1>2. CASE WaitForLocal \/ NoMoreLocalControllers \/ NoMoreDataPlanes \/ EndRound \/ WakeUp
  BY <1>2 DEF WaitForLocal, NoMoreLocalControllers, NoMoreDataPlanes, EndRound, WakeUp, Goto
<1>3. CASE HandleLocalController \/ CallLocalHandshake \/ HandleDataPlane \/ MarkDataPlaneStageReady
  BY <1>3 DEF HandleLocalController, CallLocalHandshake, HandleDataPlane, MarkDataPlaneStageReady,
              Goto, Crash
<1>4. CASE CollectStatisticsGlobal \/ CollectStatisticsGlobalSend \/ DisconnectLocals
  BY <1>4 DEF CollectStatisticsGlobal, CollectStatisticsGlobalSend, DisconnectLocals, Goto
<1>5. CASE CollectStatisticsResult
  BY <1>5, Zenon DEF CollectStatisticsResult, Crash
<1>6. CASE CollectEnforcementRuleResults
  BY <1>6 DEF CollectEnforcementRuleResults, Crash
<1>7. CASE Computes
  <2>1. /\ pc = "compute"
        /\ \/ NothingToEnforce
           \/ \E new_rates : \E send \in SUBSET DOMAIN job_location_tracker :
                  SendEnforcementRules(send, new_rates)
    BY <1>7, ComputeSteps DEF Flow
  <2> QED
    BY <2>1, Zenon DEF NothingToEnforce, SendEnforcementRules, Goto, Crash
<1> QED
  BY <1>1, <1>2, <1>3, <1>4, <1>5, <1>6, <1>7 DEF MainLoop, Computes

LEMMA FaultStopsAlways == SafetySpec => []FaultStops
<1>1. Init => FaultStops
  BY DEF Init, FaultStops
<1>2. Flow /\ FaultStops /\ [Next]_vars => FaultStops'
  <2> SUFFICES ASSUME Flow, FaultStops, [Next]_vars PROVE FaultStops'
    OBVIOUS
  <2>1. CASE MainLoop
    BY <2>1, MainLoopRuns DEF FaultStops
  <2>2. CASE ~MainLoop
    <3>1. Outside
      BY <2>2, Environment DEF Next
    <3> QED
      BY <3>1 DEF Outside, FaultStops
  <2> QED
    BY <2>1, <2>2
<1> QED
  BY <1>1, <1>2, FlowHolds, PTL DEF SafetySpec

\* While sessions come and are erased, and stages with them, a local controller
\* with a tracked stage has a session, until the core itself finds that a
\* session is missing.
\* (local_sessions_ and local_to_stages, disconnect_local_controllers.)
THEOREM TrackedStagesReachable == SafetySpec => []TrackedLocalsHaveSessions
<1> DEFINE Inv == TrackedLocalsHaveSessions
<1>1. Init => Inv
  BY DEF Init, TrackedLocalsHaveSessions, StagesAt
<1>2. ASSUME Flow, Flow', FaultStops, FaultStops', Inv, [Next]_vars PROVE Inv'
  <2>1. CASE ~MainLoop
    <3>1. Outside
      BY <1>2, <2>1, Environment DEF Next
    <3> QED
      BY <1>2, <3>1 DEF Outside, TrackedLocalsHaveSessions, StagesAt, trackers
  <2> SUFFICES ASSUME MainLoop PROVE Inv'
    BY <2>1
  <2>2. \A l \in Locals : StagesAt(l) # {} => l \in local_sessions_
    BY <1>2, MainLoopRuns DEF FaultStops, TrackedLocalsHaveSessions
  <2>3. ASSUME UNCHANGED <<local_to_stages, local_sessions_>> PROVE Inv'
    BY <2>2, <2>3 DEF TrackedLocalsHaveSessions, StagesAt
  <2>4. CASE WaitForLocal \/ LoopCondition \/ Exit \/ CallLocalHandshake \/ NoMoreLocalControllers
             \/ MarkDataPlaneStageReady \/ NoMoreDataPlanes
    BY <2>3, <2>4 DEF WaitForLocal, LoopCondition, Exit, CallLocalHandshake, NoMoreLocalControllers,
                      MarkDataPlaneStageReady, NoMoreDataPlanes, trackers, sessions
  <2>5. CASE CollectStatisticsGlobal \/ CollectStatisticsGlobalSend
             \/ CollectEnforcementRuleResults \/ EndRound \/ WakeUp
    BY <2>3, <2>5 DEF CollectStatisticsGlobal, CollectStatisticsGlobalSend,
                      CollectEnforcementRuleResults, EndRound, WakeUp, trackers, sessions
  <2>6. CASE Computes
    BY <1>2, <2>3, <2>6, ComputeSteps DEF Flow, trackers, sessions
  <2>7. CASE HandleLocalController
    BY <2>2, <2>7 DEF HandleLocalController, TrackedLocalsHaveSessions, StagesAt, Emplace, Put
  <2>8. CASE HandleDataPlane
    <3> DEFINE l == LocalOf[Head(local_to_data_queue_)]
    <3>1. UNCHANGED local_sessions_ /\ \A m : m # l => StagesAt(m)' = StagesAt(m)
      BY <2>8 DEF HandleDataPlane, sessions, StagesAt, Put
    <3>2. l \in local_sessions_ \/ fault' = "no_session"
      BY <2>8 DEF HandleDataPlane, Crash
    <3> HIDE DEF l
    <3> QED
      BY <2>2, <3>1, <3>2 DEF TrackedLocalsHaveSessions
  <2>9. CASE CollectStatisticsResult
    <3>1. /\ UNCHANGED local_sessions_
          /\ \/ UNCHANGED trackers
             \/ \E w \in todo : LET left == Remaining(w[1], Lost(w[1], Answer(w[1]).alive)) IN
                    local_to_stages' = IF left # {} THEN [local_to_stages EXCEPT ![w[1]] = left]
                        ELSE Restrict(local_to_stages, DOMAIN local_to_stages \ {w[1]})
      BY <2>9, Zenon DEF CollectStatisticsResult
    <3>2. ASSUME NEW l, NEW left, left \subseteq StagesAt(l),
                 local_to_stages' = IF left # {} THEN [local_to_stages EXCEPT ![l] = left]
                     ELSE Restrict(local_to_stages, DOMAIN local_to_stages \ {l})
          PROVE  \A m \in Locals : StagesAt(m)' # {} => StagesAt(m) # {}
      BY <3>2 DEF StagesAt, Restrict
    <3>3. \A m \in Locals : StagesAt(m)' # {} => StagesAt(m) # {}
      <4>1. \A l : Remaining(l, Lost(l, Answer(l).alive)) \subseteq StagesAt(l)
        BY DEF Remaining
      <4>2. CASE UNCHANGED trackers
        BY <4>2 DEF trackers, StagesAt
      <4> QED
        BY <3>1, <3>2, <4>1, <4>2
    <3> QED
      BY <2>2, <3>1, <3>3 DEF TrackedLocalsHaveSessions
  <2>10. CASE DisconnectLocals
    BY <1>2, <2>2, <2>10 DEF DisconnectLocals, Flow, Departing, TrackedLocalsHaveSessions,
                             StagesAt, trackers
  <2> QED
    BY <2>4, <2>5, <2>6, <2>7, <2>8, <2>9, <2>10 DEF MainLoop, Computes
<1> QED
  BY <1>1, <1>2, FlowHolds, FaultStopsAlways, PTL DEF SafetySpec

LEMMA CountedAlways == SafetySpec => []Counted
<1>1. Init => Counted
  BY FS_EmptySet DEF Init, Counted
<1>2. ASSUME Flow, Counted, [Next]_vars PROVE Counted'
  <2>1. CASE ~MainLoop
    <3>1. Outside
      BY <1>2, <2>1, Environment DEF Next
    <3> QED
      BY <1>2, <3>1 DEF Outside, Counted
  <2>2. IsFiniteSet(local_sessions_) /\ Cardinality(local_sessions_) \in Nat /\ active_locals \in Nat
    BY <1>2, FS_CardinalityType DEF Counted
  <2>3. ASSUME UNCHANGED <<local_sessions_, active_locals>>,
               pc # "local_handshake", pc' # "local_handshake"
        PROVE  Counted'
    BY <1>2, <2>3 DEF Counted
  <2>4. CASE WaitForLocal \/ LoopCondition \/ Exit \/ NoMoreLocalControllers \/ MarkDataPlaneStageReady
             \/ HandleDataPlane \/ NoMoreDataPlanes
    BY <2>3, <2>4 DEF WaitForLocal, LoopCondition, Exit, NoMoreLocalControllers, HandleDataPlane,
                      MarkDataPlaneStageReady, NoMoreDataPlanes, Goto, Crash, sessions
  <2>5. CASE CollectStatisticsGlobal \/ CollectStatisticsGlobalSend
             \/ CollectEnforcementRuleResults \/ EndRound \/ WakeUp
    BY <2>3, <2>5 DEF CollectStatisticsGlobal, CollectStatisticsGlobalSend,
                      CollectEnforcementRuleResults, EndRound, WakeUp, Goto, Crash, sessions
  <2>6. CASE Computes
    <3>1. /\ pc = "compute" /\ UNCHANGED sessions
          /\ \/ NothingToEnforce
             \/ \E new_rates : \E send \in SUBSET DOMAIN job_location_tracker :
                    SendEnforcementRules(send, new_rates)
      BY <1>2, <2>6, ComputeSteps DEF Flow
    <3>2. pc' \in {"results", "crashed"}
      BY <3>1, Zenon DEF NothingToEnforce, SendEnforcementRules, Goto, Crash
    <3> QED
      BY <2>3, <3>1, <3>2 DEF sessions
  <2>7. CASE CollectStatisticsResult
    <3>1. UNCHANGED <<local_sessions_, active_locals>> /\ pc = "collect" /\ pc' \in {"collect", "crashed"}
      BY <2>7, Zenon DEF CollectStatisticsResult, Crash
    <3> QED
      BY <2>3, <3>1
  <2>8. CASE HandleLocalController
    <3> DEFINE l == Head(local_queue)
    <3>1. /\ pc = "local_controllers" /\ pc' = "local_handshake" /\ UNCHANGED active_locals
          /\ local_sessions_' = local_sessions_ \cup {l}
      BY <2>8 DEF HandleLocalController, Goto
    <3> HIDE DEF l
    <3>2. /\ IsFiniteSet(local_sessions_ \cup {l})
          /\ \/ Cardinality(local_sessions_ \cup {l}) = Cardinality(local_sessions_)
             \/ Cardinality(local_sessions_ \cup {l}) = Cardinality(local_sessions_) + 1
      BY <2>2, FS_AddElement
    <3> QED
      BY <1>2, <2>2, <3>1, <3>2 DEF Counted
  <2>9. CASE CallLocalHandshake
    BY <1>2, <2>2, <2>9 DEF CallLocalHandshake, Goto, Counted
  <2>10. CASE DisconnectLocals
    <3>1. /\ pc = "collect" /\ pc' \in {"compute", "hung"}
          /\ local_sessions_' = local_sessions_ \ sessions_to_delete
          /\ active_locals' = active_locals - Cardinality(sessions_to_delete)
      BY <2>10 DEF DisconnectLocals, Goto
    <3>2. sessions_to_delete \subseteq local_sessions_
      BY <1>2 DEF Flow, Departing
    <3>3. /\ IsFiniteSet(local_sessions_ \ sessions_to_delete)
          /\ Cardinality(sessions_to_delete) \in Nat
          /\ Cardinality(local_sessions_ \ sessions_to_delete) \in Nat
          /\ Cardinality(local_sessions_ \ sessions_to_delete) =
                 Cardinality(local_sessions_) - Cardinality(sessions_to_delete)
      <4>1. local_sessions_ \cap sessions_to_delete = sessions_to_delete
        BY <3>2
      <4>2. IsFiniteSet(sessions_to_delete) /\ IsFiniteSet(local_sessions_ \ sessions_to_delete)
        BY <2>2, <3>2, FS_Subset
      <4>3. Cardinality(local_sessions_ \ sessions_to_delete) =
                Cardinality(local_sessions_) - Cardinality(local_sessions_ \cap sessions_to_delete)
        BY <2>2, FS_Difference
      <4> QED
        BY <4>1, <4>2, <4>3, FS_CardinalityType
    <3> QED
      BY <1>2, <2>2, <3>1, <3>3 DEF Counted
  <2> QED
    BY <2>1, <2>4, <2>5, <2>6, <2>7, <2>8, <2>9, <2>10 DEF MainLoop, Computes
<1> QED
  BY <1>1, <1>2, FlowHolds, PTL DEF SafetySpec

\* A counter of waiting registrations lags behind its queue.
PendingCounted ==
    /\ pending_locals \in 0..Len(local_queue)
    /\ pending_data_planes \in 0..Len(local_to_data_queue_)

\* Where a queue or its counter changes: a registration enters the queue and then
\* raises the counter, the main loop takes it out of both.
LEMMA QueueSteps ==
    ASSUME Flow, PendingCounted, [Next]_vars
    PROVE  PendingCounted'
<1>1. /\ local_queue \in Seq(Locals) /\ local_to_data_queue_ \in Seq(Stages)
      /\ Len(local_queue) \in Nat /\ Len(local_to_data_queue_) \in Nat
  BY DEF Flow, Places
<1>2. /\ pending_locals \in 0..Len(local_queue)
      /\ pending_data_planes \in 0..Len(local_to_data_queue_)
  BY DEF PendingCounted
<1>3. ASSUME UNCHANGED <<local_queue, local_to_data_queue_, counters>> PROVE PendingCounted'
  BY <1>3 DEF PendingCounted, counters
<1>4. CASE \E l \in Locals : LocalStart(l)
  <2>1. PICK l \in Locals : local_queue' = Append(local_queue, l)
    BY <1>4 DEF LocalStart
  <2>2. Len(local_queue') = Len(local_queue) + 1
    BY <1>1, <2>1
  <2>3. UNCHANGED <<local_to_data_queue_, counters>>
    BY <1>4 DEF LocalStart
  <2> QED
    BY <1>1, <1>2, <2>2, <2>3 DEF PendingCounted, counters
<1>5. CASE \E s \in Stages : StageStart(s)
  <2>1. PICK s \in Stages : local_to_data_queue_' = Append(local_to_data_queue_, s)
    BY <1>5 DEF StageStart
  <2>2. Len(local_to_data_queue_') = Len(local_to_data_queue_) + 1
    BY <1>1, <2>1
  <2>3. UNCHANGED <<local_queue, counters>>
    BY <1>5 DEF StageStart
  <2> QED
    BY <1>1, <1>2, <2>2, <2>3 DEF PendingCounted, counters
<1>6. CASE CountLocal \/ CountDataPlane
  BY <1>1, <1>2, <1>6 DEF CountLocal, CountDataPlane, PendingCounted
<1>7. CASE HandleLocalController
  <2>1. /\ local_queue # <<>> /\ pending_locals > 0
        /\ local_queue' = Tail(local_queue) /\ pending_locals' = pending_locals - 1
        /\ UNCHANGED <<local_to_data_queue_, pending_data_planes>>
    BY <1>7 DEF HandleLocalController
  <2>2. Len(Tail(local_queue)) = Len(local_queue) - 1
    BY <1>1, <2>1, HeadTailProperties
  <2> QED
    BY <1>1, <1>2, <2>1, <2>2 DEF PendingCounted
<1>8. CASE HandleDataPlane
  <2>1. /\ local_to_data_queue_ # <<>> /\ pending_data_planes > 0
        /\ local_to_data_queue_' = Tail(local_to_data_queue_)
        /\ pending_data_planes' = pending_data_planes - 1
        /\ UNCHANGED <<local_queue, pending_locals>>
    BY <1>8 DEF HandleDataPlane
  <2>2. Len(Tail(local_to_data_queue_)) = Len(local_to_data_queue_) - 1
    BY <1>1, <2>1, HeadTailProperties
  <2> QED
    BY <1>1, <1>2, <2>1, <2>2 DEF PendingCounted
<1>9. CASE WaitForLocal \/ LoopCondition \/ Exit \/ CallLocalHandshake \/ NoMoreLocalControllers
           \/ MarkDataPlaneStageReady \/ NoMoreDataPlanes
  BY <1>3, <1>9 DEF WaitForLocal, LoopCondition, Exit, CallLocalHandshake, NoMoreLocalControllers,
                    MarkDataPlaneStageReady, NoMoreDataPlanes, queues
<1>10. CASE CollectStatisticsGlobal \/ CollectStatisticsGlobalSend \/ DisconnectLocals
            \/ CollectEnforcementRuleResults \/ EndRound \/ WakeUp
  BY <1>3, <1>10 DEF CollectStatisticsGlobal, CollectStatisticsGlobalSend, DisconnectLocals,
                     CollectEnforcementRuleResults, EndRound, WakeUp, queues
<1>11. CASE CollectStatisticsResult
  <2>1. UNCHANGED queues
    BY <1>11, Zenon DEF CollectStatisticsResult
  <2> QED
    BY <1>3, <2>1 DEF queues
<1>12. CASE Computes
  <2>1. UNCHANGED <<local_queue, local_to_data_queue_, counters>>
    BY <1>12, Zenon DEF Computes, ComputeAndEnforceStaticRules,
       ComputeAndEnforceDynamicVanillaRules, ComputeAndEnforceDynamicLeftoverRules
  <2> QED
    BY <1>3, <2>1
<1>13. CASE \/ \E l \in Locals : SessionSend(l) \/ LocalStop(l)
            \/ \E s \in Stages : StageStop(s)
            \/ EnqueueRule \/ UNCHANGED vars
  BY <1>3, <1>13 DEF SessionSend, LocalStop, StageStop, EnqueueRule, vars, queues
<1>14. CASE \E l \in Locals : SessionReply(l)
  <2>1. UNCHANGED queues
    BY <1>14, Replied DEF Flow
  <2> QED
    BY <1>3, <2>1 DEF queues
<1> QED
  BY <1>4, <1>5, <1>6, <1>7, <1>8, <1>9, <1>10, <1>11, <1>12, <1>13, <1>14
     DEF Next, MainLoop, Computes

LEMMA PendingAlways == SafetySpec => []PendingCounted
<1>1. Init => PendingCounted
  BY DEF Init, PendingCounted
<1>2. Flow /\ PendingCounted /\ [Next]_vars => PendingCounted'
  BY QueueSteps
<1> QED
  BY <1>1, <1>2, FlowHolds, PTL DEF SafetySpec

\* What the main loop has found when it is on its way out.
LeavesIdle == pc \in Leaving => active_locals = 0

LEMMA LeavesIdleAlways == SafetySpec => []LeavesIdle
<1>1. Init => LeavesIdle
  BY DEF Init, LeavesIdle, Leaving
<1>2. ASSUME Flow, Counted, PendingCounted, LeavesIdle, [Next]_vars PROVE LeavesIdle'
  <2>1. CASE ~MainLoop
    <3>1. Outside
      BY <1>2, <2>1, Environment DEF Next
    <3> QED
      BY <1>2, <3>1 DEF Outside, LeavesIdle
  <2>2. CASE MainLoop
    <3> SUFFICES ASSUME pc' \in Leaving PROVE active_locals' = 0
      BY DEF LeavesIdle
    <3>1. /\ (pc \in Leaving \/ (pc = "loop" /\ ~(LocalConnections > 0)))
          /\ active_locals' = active_locals
      BY <1>2, <2>2, MainLoopRuns DEF sessions
    <3>2. active_locals \in Nat /\ pending_locals \in Nat
      BY <1>2 DEF Counted, PendingCounted
    <3> QED
      BY <1>2, <3>1, <3>2 DEF LeavesIdle, LocalConnections
  <2> QED
    BY <2>1, <2>2
<1> QED
  BY <1>1, <1>2, FlowHolds, CountedAlways, PendingAlways, PTL DEF SafetySpec

\* However registrations interleave with the loop's condition, which reads one
\* counter after the other, the controller never exits while a local controller
\* has a session or a stage is tracked, whatever its counter of active local
\* controllers has gone through.  (What is still in the queues is abandoned.)
\* (The condition of the loop in execute_feedback_loop, m_active_local_controller_sessions.)
THEOREM ExitsWhenIdle == SafetySpec => []ExitOnlyWhenIdle
<1>1. ASSUME Counted, LeavesIdle, FaultStops, TrackedLocalsHaveSessions PROVE ExitOnlyWhenIdle
  <2> SUFFICES ASSUME pc \in {"exiting", "exited"}
               PROVE  local_sessions_ = {} /\ \A l \in Locals : StagesAt(l) = {}
    BY DEF ExitOnlyWhenIdle
  <2>1. /\ IsFiniteSet(local_sessions_) /\ Cardinality(local_sessions_) \in Nat
        /\ Cardinality(local_sessions_) <= active_locals
    BY <1>1, FS_CardinalityType DEF Counted
  <2>2. active_locals = 0
    BY <1>1 DEF LeavesIdle, Leaving
  <2>3. local_sessions_ = {}
    BY <2>1, <2>2, FS_EmptySet
  <2>4. fault # "no_session"
    BY <1>1 DEF FaultStops
  <2> QED
    BY <1>1, <2>3, <2>4 DEF TrackedLocalsHaveSessions
<1> QED
  BY <1>1, CountedAlways, LeavesIdleAlways, FaultStopsAlways, TrackedStagesReachable, PTL
-------------------------------------------------------------------------------
(* The trackers.                                                              *)

\* A job's envs are kept per local controller, none of them empty; a local
\* controller's stages are on its node.
TrackersTyped ==
    /\ \A job \in DOMAIN job_location_tracker :
          /\ DOMAIN job_location_tracker[job] # {}
          /\ DOMAIN job_location_tracker[job] \subseteq Locals
          /\ \A l \in DOMAIN job_location_tracker[job] :
                /\ job_location_tracker[job][l] # {}
                /\ job_location_tracker[job][l] \subseteq Envs
    /\ \A l \in Locals : StagesAt(l) \subseteq KeysAt(l)
    /\ DOMAIN job_previous_rates = DOMAIN job_location_tracker

SameStages ==
    \A l \in Locals, job \in Jobs, e \in Envs : <<job, e>> \in StagesAt(l) <=> e \in TrackedEnvs(job, l)

\* A tracked stage has its information, or is about to.
Informed ==
    \A l \in Locals : \A k \in StagesAt(l) :
        \/ k \in DOMAIN stage_info_detailed /\ stage_info_detailed[k] = l
        \/ pc = "stage_ready" /\ \E w \in todo : Key(w[2]) = k
        \/ Failed

InfoTracked ==
    /\ \A k \in DOMAIN stage_info_detailed :
          stage_info_detailed[k] \in Locals /\ k \in StagesAt(stage_info_detailed[k])
    /\ pc = "stage_ready" => \A w \in todo : Key(w[2]) \in StagesAt(w[1])

Tracking == TrackersTyped /\ SameStages /\ Informed /\ InfoTracked
\* What the trackers say of one local controller, or of one stage, after a step
\* that leaves them alone.
LEMMA StillTracked ==
    ASSUME Tracking, pc \notin {"stage_ready", "crashed", "hung"}, pc' # "stage_ready",
           UNCHANGED <<job_location_tracker, stage_info_detailed>>,
           \A l \in Locals : StagesAt(l)' = StagesAt(l),
           DOMAIN job_previous_rates' = DOMAIN job_previous_rates
    PROVE  Tracking'
<1>1. TrackersTyped' /\ SameStages'
  BY DEF Tracking, TrackersTyped, SameStages, TrackedEnvs
<1>2. Informed' /\ InfoTracked'
  BY DEF Tracking, Informed, InfoTracked, Failed
<1> QED
  BY <1>1, <1>2 DEF Tracking

LEMMA OutsideTracked ==
    ASSUME Tracking, Outside
    PROVE  Tracking'
<1>1. TrackersTyped' /\ SameStages'
  BY DEF Tracking, TrackersTyped, SameStages, TrackedEnvs, Outside, trackers, rates, StagesAt
<1>2. Informed' /\ InfoTracked'
  BY DEF Tracking, Informed, InfoTracked, Failed, Outside, trackers, StagesAt
<1> QED
  BY <1>1, <1>2 DEF Tracking

\* Two stages with the same key have the same local controller.
KeysTellNodes == \A s, t \in Stages : Key(s) = Key(t) => LocalOf[s] = LocalOf[t]

\* The trackers stay typed, whatever keys the stages have.
LEMMA StageEnteredTyped ==
    ASSUME Flow, TrackersTyped, HandleDataPlane
    PROVE  TrackersTyped'
<1> DEFINE s == Head(local_to_data_queue_)
           l == LocalOf[s]
           job == JobOf[s]
           locations == IF job \in DOMAIN job_location_tracker
                        THEN job_location_tracker[job] ELSE <<>>
<1>1. s \in Stages
  BY HeadTailProperties DEF HandleDataPlane, Flow, Places
<1>2. l \in Locals /\ job \in Jobs /\ EnvOf[s] \in Envs /\ Key(s) \in KeysAt(l)
  BY <1>1, CoreAssumption DEF Envs, KeysAt
<1>3. /\ job_location_tracker' =
            Put(job_location_tracker, job, Put(locations, l, TrackedEnvs(job, l) \cup {EnvOf[s]}))
      /\ local_to_stages' = Put(local_to_stages, l, StagesAt(l) \cup {Key(s)})
      /\ job_previous_rates' = Emplace(job_previous_rates, job, 0)
  BY DEF HandleDataPlane
<1> HIDE DEF s, l, job
<1>4. \A m \in Locals : StagesAt(m)' = IF m = l THEN StagesAt(m) \cup {Key(s)} ELSE StagesAt(m)
  BY <1>3 DEF StagesAt, Put
<1>5. DOMAIN job_previous_rates' = DOMAIN job_location_tracker'
  BY <1>3 DEF TrackersTyped, Put, Emplace
<1>6. \A m \in Locals : StagesAt(m)' \subseteq KeysAt(m)
  BY <1>2, <1>4 DEF TrackersTyped
<1>7. ASSUME NEW j \in DOMAIN job_location_tracker'
      PROVE  /\ DOMAIN job_location_tracker'[j] # {}
             /\ DOMAIN job_location_tracker'[j] \subseteq Locals
             /\ \A m \in DOMAIN job_location_tracker'[j] :
                   job_location_tracker'[j][m] # {} /\ job_location_tracker'[j][m] \subseteq Envs
  <2>1. CASE j # job
    BY <1>3, <1>7, <2>1 DEF TrackersTyped, Put
  <2>2. CASE j = job
    <3>1. job_location_tracker'[j] = Put(locations, l, TrackedEnvs(job, l) \cup {EnvOf[s]})
      BY <1>3, <2>2 DEF Put
    <3>2. /\ DOMAIN locations \subseteq Locals
          /\ \A m \in DOMAIN locations : locations[m] # {} /\ locations[m] \subseteq Envs
      BY DEF TrackersTyped
    <3>3. TrackedEnvs(job, l) \subseteq Envs
      BY DEF TrackersTyped, TrackedEnvs
    <3> HIDE DEF locations
    <3> QED
      BY <1>2, <3>1, <3>2, <3>3 DEF Put
  <2> QED
    BY <2>1, <2>2
<1> QED
  BY <1>5, <1>6, <1>7 DEF TrackersTyped

LEMMA StagesRemovedTyped ==
    ASSUME TrackersTyped,
           NEW l \in Locals, NEW lost, RemoveStages(lost),
           local_to_stages' =
               IF Remaining(l, lost) # {}
               THEN [local_to_stages EXCEPT ![l] = Remaining(l, lost)]
               ELSE Restrict(local_to_stages, DOMAIN local_to_stages \ {l})
    PROVE  TrackersTyped'
<1> DEFINE Left(j, m) == EnvsLeft(j, m, lost)
           Where(j) == LocationsLeft(j, lost)
           jobs == {j \in DOMAIN job_location_tracker : Where(j) # {}}
<1>1. /\ job_location_tracker' = [j \in jobs |-> [m \in Where(j) |-> Left(j, m)]]
      /\ DOMAIN job_previous_rates' =
             DOMAIN job_previous_rates \ (DOMAIN job_location_tracker \ jobs)
  BY DEF RemoveStages, Restrict
<1>2. /\ \A j, m : Left(j, m) \subseteq TrackedEnvs(j, m)
      /\ \A j \in DOMAIN job_location_tracker :
             Where(j) = {m \in DOMAIN job_location_tracker[j] : Left(j, m) # {}}
  BY DEF EnvsLeft, LocationsLeft
<1> HIDE DEF Left, Where
<1>3. \A m \in Locals : StagesAt(m)' \subseteq StagesAt(m)
  BY DEF StagesAt, Remaining, Restrict
<1>4. \A m \in Locals : StagesAt(m)' \subseteq KeysAt(m)
  BY <1>3 DEF TrackersTyped
<1>5. DOMAIN job_previous_rates' = DOMAIN job_location_tracker'
  BY <1>1 DEF TrackersTyped
<1>6. ASSUME NEW j \in DOMAIN job_location_tracker'
      PROVE  /\ DOMAIN job_location_tracker'[j] # {}
             /\ DOMAIN job_location_tracker'[j] \subseteq Locals
             /\ \A m \in DOMAIN job_location_tracker'[j] :
                   job_location_tracker'[j][m] # {} /\ job_location_tracker'[j][m] \subseteq Envs
  <2>1. j \in DOMAIN job_location_tracker /\ Where(j) # {}
        /\ job_location_tracker'[j] = [m \in Where(j) |-> Left(j, m)]
    BY <1>1, <1>6
  <2>2. DOMAIN job_location_tracker'[j] = Where(j)
        /\ \A m \in Where(j) : job_location_tracker'[j][m] = Left(j, m)
    BY <2>1
  <2>3. \A m \in Where(j) : /\ m \in DOMAIN job_location_tracker[j] /\ m \in Locals
                            /\ Left(j, m) # {} /\ Left(j, m) \subseteq Envs
    BY <1>2, <2>1 DEF TrackersTyped, TrackedEnvs
  <2> QED
    BY <2>1, <2>2, <2>3
<1> QED
  BY <1>4, <1>5, <1>6 DEF TrackersTyped

LEMMA StageEntered ==
    ASSUME Flow, Tracking, HandleDataPlane
    PROVE  Tracking'
<1> DEFINE s == Head(local_to_data_queue_)
           l == LocalOf[s]
           job == JobOf[s]
           locations == IF job \in DOMAIN job_location_tracker
                        THEN job_location_tracker[job] ELSE <<>>
<1>1. s \in Stages
  BY HeadTailProperties DEF HandleDataPlane, Flow, Places
<1>2. l \in Locals /\ job \in Jobs /\ EnvOf[s] \in Envs /\ Key(s) = <<job, EnvOf[s]>>
      /\ Key(s) \in KeysAt(l)
  BY <1>1, CoreAssumption DEF Envs, Key, KeysAt
<1>3. /\ job_location_tracker' =
            Put(job_location_tracker, job, Put(locations, l, TrackedEnvs(job, l) \cup {EnvOf[s]}))
      /\ local_to_stages' = Put(local_to_stages, l, StagesAt(l) \cup {Key(s)})
      /\ job_previous_rates' = Emplace(job_previous_rates, job, 0)
      /\ UNCHANGED stage_info_detailed
      /\ pc = "data_planes"
      /\ \/ pc' = "stage_ready" /\ todo' = {<<l, s>>}
         \/ pc' = "crashed"
  BY DEF HandleDataPlane, Goto, Crash
<1> HIDE DEF s, l, job
<1>4. \A m \in Locals : StagesAt(m)' = IF m = l THEN StagesAt(m) \cup {Key(s)} ELSE StagesAt(m)
  BY <1>3 DEF StagesAt, Put
<1>5. \A j, m : TrackedEnvs(j, m)' =
          IF j = job /\ m = l THEN TrackedEnvs(j, m) \cup {EnvOf[s]} ELSE TrackedEnvs(j, m)
  <2> TAKE j, m
  <2> DEFINE entered == TrackedEnvs(job, l) \cup {EnvOf[s]}
  <2>1. CASE j # job
    BY <1>3, <2>1 DEF TrackedEnvs, Put
  <2>2. CASE j = job
    <3>1. j \in DOMAIN job_location_tracker' /\ job_location_tracker'[j] = Put(locations, l, entered)
      BY <1>3, <2>2 DEF Put
    <3>2. TrackedEnvs(j, m) = IF m \in DOMAIN locations THEN locations[m] ELSE {}
      BY <2>2 DEF TrackedEnvs
    <3> HIDE DEF locations, entered
    <3>3. TrackedEnvs(j, m)' = IF m = l THEN entered ELSE TrackedEnvs(j, m)
      BY <3>1, <3>2 DEF TrackedEnvs, Put
    <3> QED
      BY <2>2, <3>3 DEF entered
  <2> QED
    BY <2>1, <2>2
<1>6. TrackersTyped'
  BY StageEnteredTyped DEF Tracking
<1>7. SameStages'
  <2> SUFFICES ASSUME NEW m \in Locals, NEW j \in Jobs, NEW e \in Envs
               PROVE  <<j, e>> \in StagesAt(m)' <=> e \in TrackedEnvs(j, m)'
    BY DEF SameStages
  <2>1. <<j, e>> \in StagesAt(m) <=> e \in TrackedEnvs(j, m)
    BY DEF Tracking, SameStages
  <2>2. <<j, e>> = Key(s) <=> j = job /\ e = EnvOf[s]
    BY <1>2
  <2> QED
    BY <1>4, <1>5, <2>1, <2>2
<1>8. Informed'
  <2> SUFFICES ASSUME NEW m \in Locals, NEW k \in StagesAt(m)', pc' # "crashed"
               PROVE  \/ k \in DOMAIN stage_info_detailed /\ stage_info_detailed[k] = m
                      \/ pc' = "stage_ready" /\ \E w \in todo' : Key(w[2]) = k
    BY <1>3 DEF Informed, Failed
  <2>1. CASE k \in StagesAt(m)
    BY <1>3, <2>1 DEF Tracking, Informed, Failed
  <2>2. CASE k = Key(s)
    <3>1. pc' = "stage_ready" /\ <<l, s>> \in todo' /\ <<l, s>>[2] = s
      BY <1>3
    <3> QED
      BY <2>2, <3>1
  <2> QED
    BY <1>4, <2>1, <2>2
<1>9. InfoTracked'
  BY <1>2, <1>3, <1>4 DEF Tracking, InfoTracked
<1> QED
  BY <1>6, <1>7, <1>8, <1>9 DEF Tracking

LEMMA StageInformed ==
    ASSUME Flow, Tracking, KeysTellNodes, MarkDataPlaneStageReady
    PROVE  Tracking'
<1>1. pc = "stage_ready"
  BY DEF MarkDataPlaneStageReady
<1>2. PICK s \in Stages : todo = {<<LocalOf[s], s>>}
  BY <1>1 DEF Flow, Places
<1>3. /\ stage_info_detailed' = Put(stage_info_detailed, Key(s), LocalOf[s])
      /\ pc' = "data_planes"
      /\ UNCHANGED <<local_to_stages, job_location_tracker, rates>>
  BY <1>2 DEF MarkDataPlaneStageReady, Goto
<1>4. Key(s) \in StagesAt(LocalOf[s]) /\ LocalOf[s] \in Locals
  BY <1>1, <1>2, CoreAssumption DEF Tracking, InfoTracked
<1>5. TrackersTyped' /\ SameStages'
  BY <1>3 DEF Tracking, TrackersTyped, SameStages, TrackedEnvs, rates, StagesAt
<1>6. Informed'
  <2> SUFFICES ASSUME NEW l \in Locals, NEW k \in StagesAt(l)
               PROVE  k \in DOMAIN stage_info_detailed' /\ stage_info_detailed'[k] = l
    BY <1>3 DEF Informed, StagesAt
  <2>1. CASE k = Key(s)
    <3>1. k \in KeysAt(l)
      BY DEF Tracking, TrackersTyped
    <3>2. LocalOf[s] = l
      BY <2>1, <3>1 DEF KeysAt, KeysTellNodes
    <3> QED
      BY <1>3, <2>1, <3>2 DEF Put
  <2>2. CASE k # Key(s)
    BY <1>1, <1>2, <1>3, <2>2 DEF Tracking, Informed, Failed, Put
  <2> QED
    BY <2>1, <2>2
<1>7. InfoTracked'
  <2>1. \A l : StagesAt(l)' = StagesAt(l)
    BY <1>3 DEF StagesAt
  <2> QED
    BY <1>3, <1>4, <2>1 DEF Tracking, InfoTracked, Put
<1> QED
  BY <1>5, <1>6, <1>7 DEF Tracking
\* Stages leave all trackers together.
LEMMA StagesRemoved ==
    ASSUME Tracking, KeysTellNodes, pc = "collect", pc' = "collect",
           NEW l \in Locals, NEW lost, lost \subseteq KeysAt(l), CanRemove(lost), RemoveStages(lost),
           local_to_stages' =
               IF Remaining(l, lost) # {}
               THEN [local_to_stages EXCEPT ![l] = Remaining(l, lost)]
               ELSE Restrict(local_to_stages, DOMAIN local_to_stages \ {l})
    PROVE  Tracking'
<1>1. \A m \in Locals : \A k \in StagesAt(m) :
          k \in KeysAt(m) /\ k \in DOMAIN stage_info_detailed /\ stage_info_detailed[k] = m
  BY DEF Tracking, TrackersTyped, Informed, Failed
<1>2. \A m \in Locals : KeysAt(m) \cap KeysAt(l) # {} => m = l
  BY DEF KeysAt, KeysTellNodes
<1>3. ASSUME NEW k \in lost
      PROVE  stage_info_detailed[k] = l /\ k \in StagesAt(l) /\ k \in DOMAIN stage_info_detailed
  <2>1. k \in DOMAIN stage_info_detailed
    BY DEF CanRemove
  <2>2. stage_info_detailed[k] \in Locals /\ k \in StagesAt(stage_info_detailed[k])
    BY <2>1 DEF Tracking, InfoTracked
  <2> QED
    BY <1>1, <1>2, <2>1, <2>2
<1> DEFINE Left(j, m) == EnvsLeft(j, m, lost)
           Where(j) == LocationsLeft(j, lost)
           jobs == {j \in DOMAIN job_location_tracker : Where(j) # {}}
<1>4. /\ job_location_tracker' = [j \in jobs |-> [m \in Where(j) |-> Left(j, m)]]
      /\ DOMAIN job_previous_rates' =
             DOMAIN job_previous_rates \ (DOMAIN job_location_tracker \ jobs)
      /\ stage_info_detailed' = Restrict(stage_info_detailed, DOMAIN stage_info_detailed \ lost)
  BY DEF RemoveStages, Restrict
<1>5. /\ \A j, m : Left(j, m) \subseteq TrackedEnvs(j, m)
      /\ \A j \in DOMAIN job_location_tracker :
             Where(j) = {m \in DOMAIN job_location_tracker[j] : Left(j, m) # {}}
  BY DEF EnvsLeft, LocationsLeft
<1>6. \A j \in Jobs, m \in Locals, e \in Envs :
          e \in Left(j, m) <=> e \in TrackedEnvs(j, m) /\ ~(m = l /\ <<j, e>> \in lost)
  <2> TAKE j \in Jobs, m \in Locals, e \in Envs
  <2>1. e \in Left(j, m) <=>
            e \in TrackedEnvs(j, m) /\ ~(<<j, e>> \in lost /\ stage_info_detailed[<<j, e>>] = m)
    BY DEF EnvsLeft
  <2> HIDE DEF Left
  <2> QED
    BY <1>3, <2>1
<1> HIDE DEF Left, Where
<1>7. \A j, m : TrackedEnvs(j, m)' = Left(j, m)
  <2> TAKE j, m
  <2>1. CASE j \in jobs /\ m \in Where(j)
    BY <1>4, <2>1 DEF TrackedEnvs
  <2>2. CASE ~(j \in jobs /\ m \in Where(j))
    <3>1. TrackedEnvs(j, m)' = {}
      BY <1>4, <2>2 DEF TrackedEnvs
    <3>2. Left(j, m) = {}
      BY <1>5, <2>2 DEF TrackedEnvs
    <3> QED
      BY <3>1, <3>2
  <2> QED
    BY <2>1, <2>2
<1>8. \A m \in Locals : StagesAt(m)' = IF m = l THEN StagesAt(m) \ lost ELSE StagesAt(m)
  BY DEF StagesAt, Remaining, Restrict
<1>9. TrackersTyped'
  BY StagesRemovedTyped DEF Tracking
<1>10. SameStages'
  <2> SUFFICES ASSUME NEW m \in Locals, NEW j \in Jobs, NEW e \in Envs
               PROVE  <<j, e>> \in StagesAt(m)' <=> e \in TrackedEnvs(j, m)'
    BY DEF SameStages
  <2>1. <<j, e>> \in StagesAt(m) <=> e \in TrackedEnvs(j, m)
    BY DEF Tracking, SameStages
  <2> QED
    BY <1>6, <1>7, <1>8, <2>1
<1>11. Informed'
  <2> SUFFICES ASSUME NEW m \in Locals, NEW k \in StagesAt(m)'
               PROVE  k \in DOMAIN stage_info_detailed' /\ stage_info_detailed'[k] = m
    BY DEF Informed
  <2>1. k \in StagesAt(m) /\ k \notin lost
    BY <1>1, <1>3, <1>8
  <2> QED
    BY <1>1, <1>4, <2>1 DEF Restrict
<1>12. InfoTracked'
  <2> SUFFICES ASSUME NEW k \in DOMAIN stage_info_detailed'
               PROVE  \E m \in Locals : stage_info_detailed'[k] = m /\ k \in StagesAt(m)'
    BY DEF InfoTracked, StagesAt
  <2>1. k \in DOMAIN stage_info_detailed /\ k \notin lost
        /\ stage_info_detailed'[k] = stage_info_detailed[k]
    BY <1>4 DEF Restrict
  <2>2. stage_info_detailed[k] \in Locals /\ k \in StagesAt(stage_info_detailed[k])
    BY <2>1 DEF Tracking, InfoTracked
  <2>3. PICK m \in Locals : stage_info_detailed[k] = m /\ k \in StagesAt(m)
    BY <2>2
  <2>4. k \in StagesAt(m)'
    BY <1>8, <2>1, <2>3
  <2> QED
    BY <2>1, <2>3, <2>4
<1> QED
  BY <1>9, <1>10, <1>11, <1>12 DEF Tracking

\* A local controller names only stages of its own as lost.
LEMMA LostKeys ==
    ASSUME Tracking, NEW l \in Locals, NEW answer \in Responses(l), answer.type = "STATS"
    PROVE  Lost(l, answer.alive) \subseteq KeysAt(l)
<1>1. StagesAt(l) \subseteq KeysAt(l)
  BY DEF Tracking, TrackersTyped
<1>2. PICK alive \in UNION {[K -> BOOLEAN] : K \in SUBSET KeysAt(l)} : answer = Stats(alive)
  BY DEF Responses, Ack
<1>3. DOMAIN alive \subseteq KeysAt(l) /\ answer.alive = alive
  BY <1>2 DEF Stats
<1> QED
  BY <1>1, <1>3 DEF Lost

LEMMA AnswerTracked ==
    ASSUME Flow, Tracking, KeysTellNodes, CollectStatisticsResult
    PROVE  Tracking'
<1>1. pc = "collect"
  BY DEF CollectStatisticsResult
<1>2. PICK w \in todo :
          LET l == w[1]
              lost == Lost(l, Answer(l).alive)
          IN  /\ Answered(l)
              /\ session' = PopAnswer(l)
              /\ \/ Crash("bad_cast") /\ UNCHANGED <<trackers, rates>>
                 \/ Crash("unknown_stage") /\ UNCHANGED <<trackers, rates>>
                 \/ /\ Answer(l).type = "STATS"
                    /\ CanRemove(lost)
                    /\ RemoveStages(lost)
                    /\ local_to_stages' =
                         IF Remaining(l, lost) # {}
                         THEN [local_to_stages EXCEPT ![l] = Remaining(l, lost)]
                         ELSE Restrict(local_to_stages, DOMAIN local_to_stages \ {l})
                    /\ UNCHANGED pc
  BY Zenon DEF CollectStatisticsResult
<1> DEFINE l == w[1]
<1>3. l \in Locals
  BY DEF Flow, Places
<1>4. Answer(l) \in Responses(l)
  BY <1>2, <1>3, Popped DEF Flow
<1>5. CASE pc' = "crashed" /\ UNCHANGED <<trackers, rates>>
  BY <1>1, <1>5, StillTracked DEF trackers, rates, StagesAt
<1>6. CASE ~(pc' = "crashed" /\ UNCHANGED <<trackers, rates>>)
  <2> DEFINE lost == Lost(l, Answer(l).alive)
  <2>1. /\ Answer(l).type = "STATS" /\ CanRemove(lost) /\ RemoveStages(lost) /\ UNCHANGED pc
        /\ local_to_stages' =
               IF Remaining(l, lost) # {}
               THEN [local_to_stages EXCEPT ![l] = Remaining(l, lost)]
               ELSE Restrict(local_to_stages, DOMAIN local_to_stages \ {l})
    BY <1>2, <1>6, Zenon DEF Crash
  <2>2. lost \subseteq KeysAt(l)
    BY <1>3, <1>4, <2>1, LostKeys
  <2> HIDE DEF lost, l
  <2> QED
    BY <1>1, <1>3, <2>1, <2>2, StagesRemoved
<1> QED
  BY <1>5, <1>6
LEMMA TrackingKept ==
    ASSUME Flow, Tracking, KeysTellNodes, [Next]_vars
    PROVE  Tracking'
<1>1. CASE ~MainLoop
  <2>1. Outside
    BY <1>1, Environment DEF Next
  <2> QED
    BY <2>1, OutsideTracked
<1> SUFFICES ASSUME MainLoop PROVE Tracking'
  BY <1>1
<1>2. pc \notin {"crashed", "hung"}
  BY MainLoopRuns
<1>3. ASSUME UNCHANGED <<trackers, rates>>, pc # "stage_ready", pc' # "stage_ready"
      PROVE  Tracking'
  BY <1>2, <1>3, StillTracked DEF trackers, rates, StagesAt
<1>4. CASE WaitForLocal \/ LoopCondition \/ Exit \/ CallLocalHandshake \/ NoMoreLocalControllers
           \/ NoMoreDataPlanes
  BY <1>3, <1>4 DEF WaitForLocal, LoopCondition, Exit, CallLocalHandshake, NoMoreLocalControllers,
                    NoMoreDataPlanes, Goto
<1>5. CASE CollectStatisticsGlobal \/ CollectStatisticsGlobalSend \/ DisconnectLocals
  BY <1>3, <1>5 DEF CollectStatisticsGlobal, CollectStatisticsGlobalSend, DisconnectLocals, Goto
<1>6. CASE CollectEnforcementRuleResults \/ EndRound \/ WakeUp
  BY <1>3, <1>6 DEF CollectEnforcementRuleResults, EndRound, WakeUp, Goto, Crash
<1>7. CASE Computes
  <2>1. /\ pc = "compute" /\ UNCHANGED trackers
        /\ \/ NothingToEnforce
           \/ \E new_rates : \E send \in SUBSET DOMAIN job_location_tracker :
                  SendEnforcementRules(send, new_rates)
    BY <1>7, ComputeSteps DEF Flow
  <2>2. pc' \in {"results", "crashed"} /\ DOMAIN job_previous_rates' = DOMAIN job_previous_rates
    <3>1. CASE NothingToEnforce
      BY <3>1 DEF NothingToEnforce, Goto
    <3>2. CASE \E new_rates : \E send \in SUBSET DOMAIN job_location_tracker :
                   SendEnforcementRules(send, new_rates)
      <4>1. PICK send, new_rates : SendEnforcementRules(send, new_rates)
        BY <3>2
      <4>2. job_previous_rates' = [job \in DOMAIN job_previous_rates |->
                IF job \in send THEN new_rates[job] ELSE job_previous_rates[job]]
        BY <4>1, Zenon DEF SendEnforcementRules
      <4>3. pc' \in {"results", "crashed"}
        BY <4>1, Zenon DEF SendEnforcementRules, Goto, Crash
      <4> QED
        BY <4>2, <4>3
    <3> QED
      BY <2>1, <3>1, <3>2
  <2> QED
    BY <2>1, <2>2, StillTracked DEF trackers, StagesAt
<1>8. CASE HandleLocalController
  <2>1. /\ pc = "local_controllers" /\ pc' = "local_handshake"
        /\ UNCHANGED <<job_location_tracker, stage_info_detailed, rates>>
        /\ \E l : local_to_stages' = Emplace(local_to_stages, l, {})
    BY <1>8 DEF HandleLocalController, Goto
  <2>2. \A l \in Locals : StagesAt(l)' = StagesAt(l)
    BY <2>1 DEF StagesAt, Emplace, Put
  <2> QED
    BY <2>1, <2>2, StillTracked DEF rates
<1> QED
  BY <1>4, <1>5, <1>6, <1>7, <1>8, StageEntered, StageInformed, AnswerTracked DEF MainLoop, Computes

\* A job that is tracked has stages, whose number divides its rate.
LEMMA StagesCounted ==
    ASSUME TrackersTyped, NEW job \in DOMAIN job_location_tracker
    PROVE  TotalStages(job) \in Nat /\ TotalStages(job) > 0
<1> DEFINE D == DOMAIN job_location_tracker[job]
           f == [l \in D |-> Cardinality(job_location_tracker[job][l])]
<1>1. IsFiniteSet(Envs)
  <2>1. Envs = {EnvOf[s] : s \in Stages} /\ IsFiniteSet(Stages) /\ EnvOf \in [Stages -> Nat]
    BY CoreAssumption DEF Envs
  <2>2. EnvOf \in Surjection(Stages, Envs)
    BY <2>1 DEF Surjection
  <2> QED
    BY <2>1, <2>2, FS_Surjection
<1>2. IsFiniteSet(D) /\ D # {}
  <2>1. IsFiniteSet(Locals) /\ D \subseteq Locals /\ D # {}
    BY CoreAssumption DEF TrackersTyped
  <2> QED
    BY <2>1, FS_Subset
<1>3. ASSUME NEW l \in D PROVE f[l] \in Nat /\ f[l] > 0
  <2> DEFINE envs == job_location_tracker[job][l]
  <2>1. envs # {} /\ IsFiniteSet(envs)
    BY <1>1, FS_Subset DEF TrackersTyped
  <2>2. Cardinality(envs) \in Nat /\ Cardinality(envs) # 0
    BY <2>1, FS_CardinalityType, FS_EmptySet
  <2>3. f[l] = Cardinality(envs)
    OBVIOUS
  <2> QED
    BY <2>2, <2>3
<1>4. TotalStages(job) = SumFunctionOnSet(f, D)
  BY TotalIsSum DEF TotalStages
<1> HIDE DEF f, D
<1>5. SumFunctionOnSet(f, D) \in Nat /\ \A l \in D : f[l] <= SumFunctionOnSet(f, D)
  BY <1>2, <1>3, SumOfNaturals
<1> QED
  BY <1>2, <1>3, <1>4, <1>5

LEMMA TrackingHolds == KeysTellNodes => (SafetySpec => []Tracking)
<1> SUFFICES ASSUME KeysTellNodes PROVE SafetySpec => []Tracking
  OBVIOUS
<1>1. Init => Tracking
  BY DEF Init, Tracking, TrackersTyped, SameStages, Informed, InfoTracked, StagesAt, TrackedEnvs
<1>2. Flow /\ Tracking /\ [Next]_vars => Tracking'
  BY TrackingKept
<1> QED
  BY <1>1, <1>2, FlowHolds, PTL DEF SafetySpec

\* While stages come, die and are reported lost, the three trackers describe the
\* same stages and no job stays without stages, if stages with the same key,
\* that is of the same job and with the same process id, run on the same node.
\* Without that they part: stage_info_detailed holds the node of the later stage only.
\* (remove_stage, collect_statistics_result and handle_data_plane_sessions.)
THEOREM TrackersStayTogether ==
    ASSUME KeysTellNodes
    PROVE  SafetySpec => []TrackersAgree
<1>1. Tracking => TrackersAgree
  <2> SUFFICES ASSUME Tracking PROVE TrackersAgree
    OBVIOUS
  <2>1. ASSUME NEW l \in Locals, NEW k \in Keys
        PROVE  k \in StagesAt(l) <=> k[2] \in TrackedEnvs(k[1], l)
    <3>1. PICK s \in Stages : k = <<JobOf[s], EnvOf[s]>>
      BY DEF Keys, Key
    <3>2. JobOf[s] \in Jobs /\ EnvOf[s] \in Envs
      BY CoreAssumption DEF Envs
    <3>3. k = <<k[1], k[2]>> /\ k[1] = JobOf[s] /\ k[2] = EnvOf[s]
      BY <3>1
    <3> QED
      BY <3>1, <3>2, <3>3 DEF Tracking, SameStages
  <2>2. \A job \in DOMAIN job_location_tracker :
            TotalStages(job) > 0 /\ job \in DOMAIN job_previous_rates
    BY StagesCounted DEF Tracking, TrackersTyped
  <2> QED
    BY <2>1, <2>2 DEF TrackersAgree, Tracking, Informed, InfoTracked
<1>2. SafetySpec => []Tracking
  BY TrackingHolds, KeysTellNodes
<1> QED
  BY <1>1, <1>2, PTL
-------------------------------------------------------------------------------
(* Lost stages: an answer that waits to be read names as lost only stages that *)
(* are dead, or that their local controller has forgotten.  The argument is    *)
(* that of STATIC and DYNAMIC_VANILLA: no other request is made before the     *)
(* answers of a collection are in, so no stage is made ready meanwhile.        *)

Excused(s) == stage[s] = "dead" \/ s \notin local[LocalOf[s]].data_sessions

Justified(l, alive) ==
    \A s \in StagesOf(l) :
        DOMAIN alive = {} \/ (Key(s) \in DOMAIN alive /\ ~alive[Key(s)]) => Excused(s)

AnswersJustified ==
    pc = "collect" =>
        \A l \in Locals :
            Answered(l) /\ Answer(l).type = "STATS" => Justified(l, Answer(l).alive)

\* A local controller that is down has no sessions with stages.
DownForgets == \A l \in Locals : ~local[l].up => local[l].data_sessions = {}

\* During a collection the only request of a session is that of the collection.
LEMMA OneRequest ==
    ASSUME Flow, InStep, ~Leftover, pc = "collect", NEW l \in Locals
    PROVE  /\ OutstandingNow(l) \in {0, 1}
           /\ Answered(l) => OutstandingNow(l) = 1 /\ session[l].sending = <<>>
<1> DEFINE due == Due(l, todo)
<1>1. Cardinality(due) \in {0, 1}
  <2>1. due \subseteq {<<l, "stats">>}
    BY DEF Flow, Places, Due
  <2>2. due = {} \/ due = {<<l, "stats">>}
    BY <2>1
  <2> HIDE DEF due
  <2> QED
    BY <2>2, FS_EmptySet, FS_Singleton
<1>2. Later(l) = 0
  BY DEF Flow, RoundsCounted, Later, Collecting
<1>3. OutstandingNow(l) \in {0, 1}
  BY <1>1, <1>2 DEF InStep
<1> DEFINE q == session[l]
<1>4. SessionTyped(l, q) /\ OutstandingNow(l) = Pending(q)
  BY DEF Flow, SessionsTyped, OutstandingNow
<1>5. PICK a, b, c, d : Fields(l, q, a, b, c, d)
  <2> HIDE DEF q
  <2> QED
    BY <1>4, SessionParts
<1>6. Answered(l) <=> c # <<>>
  BY <1>5 DEF Answered, Fields
<1>7. q.sending = b
  BY <1>5 DEF Fields
<1> HIDE DEF q
<1>8. (c # <<>> => Len(c) > 0) /\ (b # <<>> => Len(b) > 0)
  BY <1>5, ListLen DEF Fields
<1>9. Answered(l) => OutstandingNow(l) = 1 /\ b = <<>>
  BY <1>3, <1>4, <1>5, <1>6, <1>8 DEF Fields
<1> QED
  BY <1>3, <1>7, <1>9 DEF q

\* A response becomes the only answer of a session that had none.
LEMMA FirstAnswer ==
    ASSUME SessionsTyped, NEW l \in Locals, NEW i, NEW response, Respond(l, i, response),
           ~Answered(l)
    PROVE  /\ Answer(l)' = response
           /\ \A m \in Locals : m # l => session'[m] = session[m]
<1> DEFINE q == session[l]
           r == WithResponse(q, i, response)
<1>1. session' = [session EXCEPT ![l] = r]
  BY DEF Respond, SessionsTyped, WithResponse
<1>2. SessionTyped(l, q) /\ q.completion = <<>>
  BY DEF SessionsTyped, Answered
<1>3. r.completion = Append(<<>>, response)
  <2> HIDE DEF q
  <2>1. PICK a, b, c, d : Fields(l, q, a, b, c, d)
    BY <1>2, SessionParts
  <2> DEFINE rest == RemoveAt(q.sending, i)
             more == Append(q.completion, response)
  <2>2. r = [q EXCEPT !.sending = rest, !.completion = more]
    BY DEF WithResponse
  <2> HIDE DEF rest, more, r
  <2>3. r.completion = more
    BY <2>1, <2>2 DEF Fields
  <2> QED
    BY <1>2, <2>3 DEF more
<1> HIDE DEF r
<1>4. session'[l] = r /\ \A m \in Locals : m # l => session'[m] = session[m]
  BY <1>1 DEF SessionsTyped
<1>5. Head(Append(<<>>, response)) = response
  OBVIOUS
<1> QED
  BY <1>3, <1>4, <1>5 DEF Answer
\* A local controller gets another stage only by a call of the core.
LEMMA Forgets ==
    ASSUME Flow, DownForgets,
           \/ \E l \in Locals : SessionSend(l) \/ SessionReply(l) \/ LocalStart(l) \/ LocalStop(l)
           \/ \E s \in Stages : StageStart(s) \/ StageStop(s)
           \/ EnqueueRule \/ CountLocal \/ CountDataPlane
           \/ UNCHANGED vars
    PROVE  /\ DownForgets'
           /\ \A l \in Locals : session[l].sending = <<>> =>
                  local'[l].data_sessions \subseteq local[l].data_sessions
           /\ \A s \in Stages : stage[s] = "dead" => stage'[s] = "dead"
<1> DEFINE Forgetting ==
              /\ DownForgets'
              /\ \A l \in Locals : session[l].sending = <<>> =>
                     local'[l].data_sessions \subseteq local[l].data_sessions
           Dying == \A s \in Stages : stage[s] = "dead" => stage'[s] = "dead"
<1>1. UNCHANGED local => Forgetting
  BY DEF DownForgets
<1>2. UNCHANGED stage => Dying
  OBVIOUS
<1>3. ASSUME NEW l \in Locals, NEW p, local' = [local EXCEPT ![l] = p],
             ~p.up => p.data_sessions = {},
             \/ p.data_sessions \subseteq local[l].data_sessions
             \/ session[l].sending # <<>>
      PROVE  Forgetting
  <2>1. local'[l] = p /\ \A m \in Locals : m # l => local'[m] = local[m]
    BY <1>3, Zenon DEF Flow, LocalsTyped
  <2> QED
    BY <1>3, <2>1 DEF DownForgets
<1> HIDE DEF Forgetting, Dying
<1>p. ASSUME NEW l \in Locals
      PROVE  \E a, b, c, d, e :
          local[l] = [up |-> a, starts |-> b, handshaken |-> c, preparing |-> d, data_sessions |-> e]
  <2>1. LocalTyped(l, local[l])
    BY DEF Flow, LocalsTyped
  <2> QED
    BY <2>1, Zenon DEF LocalTyped
<1>s. \A x : [Stopped EXCEPT !.starts = x].data_sessions = {}
  BY DEF Stopped
<1>4. ASSUME NEW l \in Locals, local' = StopLocal(l) PROVE Forgetting
  BY <1>3, <1>4, <1>s, Zenon DEF StopLocal
<1>5. UNCHANGED <<local, stage>> => Forgetting /\ Dying
  BY <1>1, <1>2
<1>6. ASSUME (\E l \in Locals : SessionSend(l)) \/ EnqueueRule \/ CountLocal \/ CountDataPlane \/ UNCHANGED vars
      PROVE  Forgetting /\ Dying
  BY <1>5, <1>6 DEF SessionSend, EnqueueRule, CountLocal, CountDataPlane, vars, environment
<1>7. ASSUME NEW l \in Locals, LocalStop(l) PROVE Forgetting /\ Dying
  BY <1>2, <1>4, <1>7 DEF LocalStop
<1>8. ASSUME NEW l \in Locals, LocalStart(l) PROVE Forgetting /\ Dying
  <2> DEFINE x == local[l].starts + 1
             p == [Stopped EXCEPT !.up = TRUE, !.starts = x]
  <2>1. p.data_sessions = {}
    BY DEF Stopped
  <2>2. local' = [local EXCEPT ![l] = p] /\ UNCHANGED stage
    BY <1>8 DEF LocalStart
  <2> HIDE DEF p
  <2> QED
    BY <1>2, <1>3, <2>1, <2>2, Zenon
<1>9. ASSUME NEW s \in Stages, StageStart(s) PROVE Forgetting /\ Dying
  <2> DEFINE l == LocalOf[s]
             q == local[l]
             p == [q EXCEPT !.preparing = @ \cup {s}]
  <2>1. l \in Locals
    BY CoreAssumption
  <2>2. PICK a, b, c, d, e :
            q = [up |-> a, starts |-> b, handshaken |-> c, preparing |-> d, data_sessions |-> e]
    BY <1>p, <2>1
  <2>3. local' = [local EXCEPT ![l] = p]
    BY <1>9 DEF StageStart, Flow, LocalsTyped
  <2>4. p.data_sessions = q.data_sessions /\ p.up = q.up
    <3> HIDE DEF q
    <3> QED
      BY <2>2
  <2>5. q.up
    BY <1>9 DEF StageStart
  <2>6. Forgetting
    <3> HIDE DEF p, l
    <3> QED
      BY <1>3, <2>1, <2>3, <2>4, <2>5
  <2>7. Dying
    BY <1>9 DEF StageStart, Dying
  <2> QED
    BY <2>6, <2>7
<1>10. ASSUME NEW s \in Stages, StageStop(s) PROVE Forgetting /\ Dying
  <2>1. Dying
    BY <1>10 DEF StageStop, Dying
  <2> QED
    BY <1>1, <1>10, <2>1 DEF StageStop
<1>11. ASSUME NEW l \in Locals, NEW i \in 1..Len(session[l].sending),
              \/ CallFails(l, i)
              \/ HandleLocalHandshake(l, i)
              \/ MarkStageReady(l, i)
              \/ CollectGlobalStatistics(l, i)
              \/ CreateEnforcementRule(l, i)
       PROVE  Forgetting /\ Dying
  <2> DEFINE q == local[l]
  <2>1. PICK a, b, c, d, e :
            q = [up |-> a, starts |-> b, handshaken |-> c, preparing |-> d, data_sessions |-> e]
    BY <1>p
  <2>2. session[l].sending # <<>>
    BY <1>11
  <2>3. ASSUME NEW p, local' = [local EXCEPT ![l] = p], p.up PROVE Forgetting
    BY <1>3, <2>2, <2>3
  <2>4. CASE CallFails(l, i)
    BY <1>5, <2>4 DEF CallFails
  <2>5. CASE HandleLocalHandshake(l, i)
    <3> DEFINE p == [q EXCEPT !.handshaken = TRUE]
    <3>1. p.up = q.up
      <4> HIDE DEF q
      <4> QED
        BY <2>1
    <3>2. local' = [local EXCEPT ![l] = p] /\ q.up /\ UNCHANGED stage
      BY <2>5 DEF HandleLocalHandshake, Flow, LocalsTyped
    <3> HIDE DEF p
    <3> QED
      BY <1>2, <2>3, <3>1, <3>2
  <2>6. CASE MarkStageReady(l, i)
    <3> DEFINE ready == {s \in q.preparing : Key(s) = session[l].sending[i].key}
               p == [q EXCEPT !.preparing = @ \ ready, !.data_sessions = @ \cup ready]
    <3>1. p.up = q.up
      <4> HIDE DEF q, ready
      <4> QED
        BY <2>1
    <3>2. local' = [local EXCEPT ![l] = p] /\ q.up /\ UNCHANGED stage
      BY <2>6 DEF MarkStageReady, Flow, LocalsTyped
    <3> HIDE DEF p
    <3> QED
      BY <1>2, <2>3, <3>1, <3>2
  <2>7. CASE CollectGlobalStatistics(l, i)
    <3> DEFINE alive == {s \in q.data_sessions : stage[s] = "running"}
               p == [q EXCEPT !.data_sessions = alive]
    <3>1. p.up = q.up
      <4> HIDE DEF q, alive
      <4> QED
        BY <2>1
    <3>2. local' = [local EXCEPT ![l] = p] /\ q.up /\ UNCHANGED stage
      BY <2>7 DEF CollectGlobalStatistics, Flow, LocalsTyped
    <3> HIDE DEF p
    <3> QED
      BY <1>2, <2>3, <3>1, <3>2
  <2>8. CASE CreateEnforcementRule(l, i)
    <3>1. UNCHANGED stage /\ (UNCHANGED local \/ local' = StopLocal(l))
      BY <2>8, Zenon DEF CreateEnforcementRule
    <3> QED
      BY <1>1, <1>2, <1>4, <3>1 DEF Forgetting
  <2> QED
    BY <1>11, <2>4, <2>5, <2>6, <2>7, <2>8
<1>12. ASSUME NEW l \in Locals, SessionReply(l) PROVE Forgetting /\ Dying
  BY <1>11, <1>12 DEF SessionReply
<1>13. Forgetting /\ Dying
  BY <1>6, <1>7, <1>8, <1>9, <1>10, <1>12
<1> QED
  BY <1>13 DEF Forgetting, Dying
\* What a local controller answers to a collection is justified when it does.
LEMMA ReplyJustified ==
    ASSUME Flow, DownForgets, NEW l \in Locals, SessionReply(l), ~Answered(l)
    PROVE  Answer(l)'.type = "STATS" => Justified(l, Answer(l).alive)'
<1>1. PICK i \in 1..Len(session[l].sending) :
          \/ CallFails(l, i)
          \/ HandleLocalHandshake(l, i)
          \/ MarkStageReady(l, i)
          \/ CollectGlobalStatistics(l, i)
          \/ CreateEnforcementRule(l, i)
  BY DEF SessionReply
<1>2. ASSUME NEW r, Respond(l, i, r) PROVE Answer(l)' = r
  BY <1>2, FirstAnswer DEF Flow
<1>3. Ack(TRUE).type # "STATS" /\ Ack(FALSE).type # "STATS"
  BY DEF Ack
<1>4. ASSUME Respond(l, i, Ack(TRUE)) \/ Respond(l, i, Ack(FALSE))
      PROVE  Answer(l)'.type # "STATS"
  BY <1>2, <1>3, <1>4
<1>5. CASE HandleLocalHandshake(l, i) \/ MarkStageReady(l, i)
  BY <1>4, <1>5 DEF HandleLocalHandshake, MarkStageReady
<1>6. CASE CreateEnforcementRule(l, i)
  <2>1. Respond(l, i, Ack(TRUE)) \/ Respond(l, i, Ack(FALSE))
    BY <1>6, Zenon DEF CreateEnforcementRule
  <2> QED
    BY <1>4, <2>1
<1>7. CASE CallFails(l, i)
  <2>1. ~local[l].up /\ UNCHANGED local
        /\ (Respond(l, i, Stats(<<>>)) \/ Respond(l, i, Ack(FALSE)))
    BY <1>7 DEF CallFails
  <2>2. \A s \in StagesOf(l) : Excused(s)'
    <3>1. local'[l].data_sessions = {}
      BY <2>1 DEF DownForgets
    <3> QED
      BY <3>1 DEF StagesOf, Excused
  <2> QED
    BY <2>2 DEF Justified
<1>8. CASE CollectGlobalStatistics(l, i)
  <2> DEFINE q == local[l]
             asked == q.data_sessions
             alive == {s \in asked : stage[s] = "running"}
             p == [q EXCEPT !.data_sessions = alive]
             answer == [k \in {Key(s) : s \in asked} |-> \E s \in alive : Key(s) = k]
  <2>1. local' = [local EXCEPT ![l] = p] /\ Respond(l, i, Stats(answer)) /\ UNCHANGED stage
    BY <1>8 DEF CollectGlobalStatistics, Flow, LocalsTyped
  <2>2. p.data_sessions = alive
    <3>1. LocalTyped(l, q)
      BY DEF Flow, LocalsTyped
    <3>2. PICK a, b, c, d, e :
              q = [up |-> a, starts |-> b, handshaken |-> c, preparing |-> d, data_sessions |-> e]
      BY <3>1, Zenon DEF LocalTyped
    <3> HIDE DEF q, alive
    <3> QED
      BY <3>2
  <2>3. local'[l].data_sessions = alive
    <3> HIDE DEF p
    <3> QED
      BY <2>1, <2>2 DEF Flow, LocalsTyped
  <2>4. Answer(l)' = Stats(answer)
    BY <1>2, <2>1
  <2>5. Answer(l)'.alive = answer
    <3> HIDE DEF answer
    <3> QED
      BY <2>4 DEF Stats
  <2>6. ASSUME NEW s \in StagesOf(l),
               DOMAIN answer = {} \/ (Key(s) \in DOMAIN answer /\ ~answer[Key(s)])
        PROVE  s \notin alive
    <3>1. CASE DOMAIN answer = {}
      BY <3>1
    <3>2. CASE Key(s) \in DOMAIN answer /\ ~answer[Key(s)]
      BY <3>2
    <3> QED
      BY <2>6, <3>1, <3>2
  <2>7. \A s \in StagesOf(l) :
            DOMAIN answer = {} \/ (Key(s) \in DOMAIN answer /\ ~answer[Key(s)]) => Excused(s)'
    BY <2>3, <2>6 DEF StagesOf, Excused
  <2> HIDE DEF answer
  <2> QED
    BY <2>5, <2>7 DEF Justified, Answer
<1> QED
  BY <1>1, <1>5, <1>6, <1>7, <1>8

\* Only replies of its local controller add to the answers of a session.
LEMMA AnswersStay ==
    ASSUME Flow, NEW l \in Locals, ~SessionReply(l),
           \/ \E m \in Locals : SessionSend(m) \/ SessionReply(m) \/ LocalStart(m) \/ LocalStop(m)
           \/ \E s \in Stages : StageStart(s) \/ StageStop(s)
           \/ EnqueueRule \/ CountLocal \/ CountDataPlane
           \/ UNCHANGED vars
    PROVE  session'[l].completion = session[l].completion
<1>1. CASE UNCHANGED session
  BY <1>1
<1>2. CASE \/ \E m \in Locals : LocalStart(m) \/ LocalStop(m)
           \/ \E s \in Stages : StageStart(s) \/ StageStop(s)
           \/ EnqueueRule \/ CountLocal \/ CountDataPlane
           \/ UNCHANGED vars
  BY <1>1, <1>2 DEF LocalStart, LocalStop, StageStart, StageStop, EnqueueRule, CountLocal, CountDataPlane, vars
<1>3. ASSUME NEW m \in Locals, SessionSend(m)
      PROVE  session'[l].completion = session[l].completion
  <2> DEFINE q == session[m]
             rest == Tail(q.submission)
             more == Append(q.sending, Head(q.submission))
             r == [q EXCEPT !.submission = rest, !.sending = more]
  <2>1. session' = [session EXCEPT ![m] = r]
    BY <1>3 DEF SessionSend, Flow, SessionsTyped
  <2>2. r.completion = q.completion
    <3>1. SessionTyped(m, q)
      BY DEF Flow, SessionsTyped
    <3> HIDE DEF q, rest, more
    <3>2. PICK a, b, c, d : Fields(m, q, a, b, c, d)
      BY <3>1, SessionParts
    <3> QED
      BY <3>2 DEF Fields
  <2> HIDE DEF r
  <2>3. session'[l] = IF l = m THEN r ELSE session[l]
    BY <2>1 DEF Flow, SessionsTyped
  <2> QED
    BY <2>2, <2>3
<1>4. ASSUME NEW m \in Locals, SessionReply(m), m # l
      PROVE  session'[l].completion = session[l].completion
  <2>1. PICK q : session' = [session EXCEPT ![m] = q]
    <3>1. PICK i, response : Respond(m, i, response)
      BY <1>4, Zenon DEF SessionReply, CallFails, HandleLocalHandshake, MarkStageReady,
                         CollectGlobalStatistics, CreateEnforcementRule
    <3>2. session' = [session EXCEPT ![m] = WithResponse(session[m], i, response)]
      BY <1>4, <3>1 DEF Respond, WithResponse, Flow, SessionsTyped
    <3> QED
      BY <3>2
  <2> QED
    BY <1>4, <2>1 DEF Flow, SessionsTyped
<1> QED
  BY <1>2, <1>3, <1>4
LEMMA AnswersKept ==
    ASSUME Flow, InStep, Flow', InStep', ~Leftover, DownForgets, AnswersJustified, [Next]_vars
    PROVE  DownForgets' /\ AnswersJustified'
<1>1. CASE ~MainLoop
  <2>1. \/ \E l \in Locals : SessionSend(l) \/ SessionReply(l) \/ LocalStart(l) \/ LocalStop(l)
        \/ \E s \in Stages : StageStart(s) \/ StageStop(s)
        \/ EnqueueRule \/ CountLocal \/ CountDataPlane
        \/ UNCHANGED vars
    BY <1>1 DEF Next
  <2>2. /\ DownForgets'
        /\ \A l \in Locals : session[l].sending = <<>> =>
               local'[l].data_sessions \subseteq local[l].data_sessions
        /\ \A s \in Stages : stage[s] = "dead" => stage'[s] = "dead"
    BY <2>1, Forgets
  <2>3. ASSUME pc = "collect", NEW l \in Locals, Answered(l)', Answer(l)'.type = "STATS"
        PROVE  Justified(l, Answer(l).alive)'
    <3>1. CASE Answered(l)
      <4>1. session[l].sending = <<>>
        BY <2>3, <3>1, OneRequest
      <4>2. ~SessionReply(l)
        BY <4>1 DEF SessionReply
      <4>3. session'[l].completion = session[l].completion
        BY <2>1, <4>2, AnswersStay
      <4>4. Answer(l)' = Answer(l)
        BY <4>3 DEF Answer
      <4>5. \A s \in StagesOf(l) : Excused(s) => Excused(s)'
        BY <2>2, <4>1 DEF Excused, StagesOf
      <4>6. Justified(l, Answer(l).alive)
        BY <2>3, <3>1, <4>4 DEF AnswersJustified
      <4> QED
        BY <4>4, <4>5, <4>6 DEF Justified
    <3>2. CASE ~Answered(l)
      <4>1. SessionReply(l)
        BY <2>1, <2>3, <3>2, AnswersStay DEF Answered
      <4> QED
        BY <2>3, <3>2, <4>1, ReplyJustified
    <3> QED
      BY <3>1, <3>2
  <2>4. pc' = pc
    BY <2>1, Environment DEF Outside
  <2> QED
    BY <2>2, <2>3, <2>4 DEF AnswersJustified
<1> SUFFICES ASSUME MainLoop PROVE DownForgets' /\ AnswersJustified'
  BY <1>1
<1>2. UNCHANGED environment => DownForgets'
  BY DEF environment, DownForgets
<1>3. ASSUME UNCHANGED environment, pc' # "collect" PROVE DownForgets' /\ AnswersJustified'
  BY <1>2, <1>3 DEF AnswersJustified
<1>4. CASE WaitForLocal \/ LoopCondition \/ Exit \/ CallLocalHandshake \/ NoMoreLocalControllers
           \/ NoMoreDataPlanes
  BY <1>3, <1>4 DEF WaitForLocal, LoopCondition, Exit, CallLocalHandshake, NoMoreLocalControllers,
                    NoMoreDataPlanes, Goto
<1>5. CASE HandleLocalController \/ HandleDataPlane \/ MarkDataPlaneStageReady
  BY <1>3, <1>5 DEF HandleLocalController, HandleDataPlane, MarkDataPlaneStageReady, Goto, Crash
<1>6. CASE CollectEnforcementRuleResults \/ EndRound \/ WakeUp \/ DisconnectLocals
  BY <1>3, <1>6 DEF CollectEnforcementRuleResults, EndRound, WakeUp, DisconnectLocals, Goto, Crash
<1>7. CASE CollectStatisticsGlobalSend
  BY <1>7 DEF CollectStatisticsGlobalSend, Leftover
<1>8. CASE Computes
  <2>1. /\ pc = "compute" /\ UNCHANGED environment
        /\ \/ NothingToEnforce
           \/ \E new_rates : \E send \in SUBSET DOMAIN job_location_tracker :
                  SendEnforcementRules(send, new_rates)
    BY <1>8, ComputeSteps DEF Flow
  <2>2. pc' \in {"results", "crashed"}
    BY <2>1, Zenon DEF NothingToEnforce, SendEnforcementRules, Goto, Crash
  <2> QED
    BY <1>3, <2>1, <2>2
<1>9. CASE CollectStatisticsGlobal
  <2>1. pc = "control" /\ session' = Request(Overseeing) /\ UNCHANGED environment
    BY <1>9 DEF CollectStatisticsGlobal
  <2>2. ASSUME NEW l \in Locals PROVE ~Answered(l)'
    <3>1. OutstandingNow(l) = 0
      <4>1. todo = {} /\ Later(l) = 0
        BY <2>1 DEF Flow, Places, Waiting, RoundsCounted, Later, Collecting
      <4>2. Cardinality(Due(l, todo)) = 0
        BY <4>1, DueOne
      <4> QED
        BY <4>1, <4>2 DEF InStep
    <3> DEFINE q == session[l]
               asked == [q EXCEPT !.submission = @ \o <<CollectStats>>]
    <3>2. SessionTyped(l, q)
      BY DEF Flow, SessionsTyped
    <3>3. q.completion = <<>>
      BY <3>1, <3>2, PendingType DEF OutstandingNow
    <3>4. asked.completion = q.completion
      <4> DEFINE more == q.submission \o <<CollectStats>>
      <4>1. asked = [q EXCEPT !.submission = more]
        OBVIOUS
      <4> HIDE DEF q, more, asked
      <4>2. PICK a, b, c, d : Fields(l, q, a, b, c, d)
        BY <3>2, SessionParts
      <4> QED
        BY <4>1, <4>2 DEF Fields
    <3>5. session'[l] = q \/ session'[l] = asked
      BY <2>1 DEF Request, Submit, Flow, SessionsTyped
    <3> QED
      BY <3>3, <3>4, <3>5 DEF Answered
  <2> QED
    BY <1>2, <2>1, <2>2 DEF AnswersJustified
<1>10. CASE CollectStatisticsResult
  <2>1. pc = "collect" /\ UNCHANGED environment
    BY <1>10 DEF CollectStatisticsResult
  <2>2. PICK w \in todo : Answered(w[1]) /\ session' = PopAnswer(w[1])
    BY <1>10, Zenon DEF CollectStatisticsResult
  <2> DEFINE l == w[1]
  <2>3. l \in Locals
    BY DEF Flow, Places
  <2>4. /\ SessionsTyped' /\ OutstandingNow(l)' = OutstandingNow(l) - 1
        /\ OutstandingNow(l) = 1
    BY <2>1, <2>2, <2>3, Popped, OneRequest DEF Flow
  <2>5. ~Answered(l)'
    <3>1. SessionTyped(l, session'[l]) /\ Pending(session'[l]) = 0
      BY <2>3, <2>4 DEF SessionsTyped, OutstandingNow
    <3> QED
      BY <3>1, PendingType DEF Answered
  <2>6. ASSUME NEW m \in Locals, m # l PROVE session'[m] = session[m]
    BY <2>2, <2>6 DEF PopAnswer, Flow, SessionsTyped
  <2>7. ASSUME NEW m \in Locals, Answered(m)', Answer(m)'.type = "STATS"
        PROVE  Justified(m, Answer(m).alive)'
    <3>1. m # l
      BY <2>5, <2>7
    <3>2. Answered(m) /\ Answer(m)' = Answer(m)
      BY <2>6, <2>7, <3>1 DEF Answered, Answer
    <3>3. Justified(m, Answer(m).alive)
      BY <2>1, <2>7, <3>2 DEF AnswersJustified
    <3> QED
      BY <2>1, <3>2, <3>3 DEF Justified, Excused, environment
  <2> QED
    BY <1>2, <2>1, <2>7 DEF AnswersJustified
<1> QED
  BY <1>4, <1>5, <1>6, <1>7, <1>8, <1>9, <1>10 DEF MainLoop, Computes

\* A step that drops a stage reads an answer that justifies it.
LEMMA DroppedStage ==
    ASSUME Flow, AnswersJustified, [Next]_vars, NEW s \in Stages,
           Key(s) \in StagesAt(LocalOf[s]), Key(s) \notin StagesAt(LocalOf[s])'
    PROVE  Excused(s)
<1> DEFINE l == LocalOf[s]
<1>1. l \in Locals /\ s \in StagesOf(l)
  BY CoreAssumption DEF StagesOf
<1>2. UNCHANGED local_to_stages => FALSE
  BY DEF StagesAt
<1>3. CASE ~MainLoop
  <2>1. Outside
    BY <1>3, Environment DEF Next
  <2> QED
    BY <1>2, <2>1 DEF Outside, trackers
<1> SUFFICES ASSUME MainLoop PROVE Excused(s)
  BY <1>3
<1>4. CASE WaitForLocal \/ LoopCondition \/ Exit \/ CallLocalHandshake \/ NoMoreLocalControllers
           \/ NoMoreDataPlanes \/ MarkDataPlaneStageReady
  BY <1>2, <1>4 DEF WaitForLocal, LoopCondition, Exit, CallLocalHandshake, NoMoreLocalControllers,
                    NoMoreDataPlanes, MarkDataPlaneStageReady, trackers
<1>5. CASE CollectEnforcementRuleResults \/ EndRound \/ WakeUp \/ DisconnectLocals
           \/ CollectStatisticsGlobal \/ CollectStatisticsGlobalSend
  BY <1>2, <1>5 DEF CollectEnforcementRuleResults, EndRound, WakeUp, DisconnectLocals,
                    CollectStatisticsGlobal, CollectStatisticsGlobalSend, trackers
<1>6. CASE Computes
  BY <1>2, <1>6, ComputeSteps DEF Flow, trackers
<1>7. CASE HandleLocalController
  BY <1>7 DEF HandleLocalController, StagesAt, Emplace, Put
<1>8. CASE HandleDataPlane
  BY <1>8 DEF HandleDataPlane, StagesAt, Put
<1>9. CASE CollectStatisticsResult
  <2>1. pc = "collect"
    BY <1>9 DEF CollectStatisticsResult
  <2>2. PICK w \in todo :
            LET lost == Lost(w[1], Answer(w[1]).alive) IN
            /\ Answered(w[1])
            /\ Answer(w[1]).type = "STATS"
            /\ local_to_stages' =
                 IF Remaining(w[1], lost) # {}
                 THEN [local_to_stages EXCEPT ![w[1]] = Remaining(w[1], lost)]
                 ELSE Restrict(local_to_stages, DOMAIN local_to_stages \ {w[1]})
    BY <1>2, <1>9, Zenon DEF CollectStatisticsResult, trackers
  <2> DEFINE lost == Lost(w[1], Answer(w[1]).alive)
  <2>3. w[1] = l
    BY <2>2 DEF StagesAt, Restrict
  <2>4. Key(s) \in Lost(l, Answer(l).alive)
    BY <2>2, <2>3 DEF StagesAt, Restrict, Remaining
  <2>5. Justified(l, Answer(l).alive)
    BY <1>1, <2>1, <2>2, <2>3 DEF AnswersJustified
  <2> QED
    BY <1>1, <2>4, <2>5 DEF Lost, Justified
<1> QED
  BY <1>4, <1>5, <1>6, <1>7, <1>8, <1>9 DEF MainLoop, Computes

\* However stages and local controllers come and go during a collection, a
\* working stage that its local controller has is never dropped from the
\* trackers, also when the local controller restarts between its answer and the
\* moment in which the core reads it.  DYNAMIC_LEFTOVER, which leaves the answers
\* of a collection in the sessions from one round to a later one, is not covered.
\* (collect_statistics_result and remove_stage; CollectGlobalStatistics of the
\* local controller.)
THEOREM LostStagesOnly ==
    ASSUME ControlType # "DYNAMIC_LEFTOVER"
    PROVE  SafetySpec => OnlyLostStagesDropped
<1> DEFINE Inv == DownForgets /\ AnswersJustified
           Dropped == \A s \in Stages :
              Key(s) \in StagesAt(LocalOf[s]) /\ Key(s) \notin StagesAt(LocalOf[s])'
                  => stage[s] = "dead" \/ s \notin local[LocalOf[s]].data_sessions
<1>1. Init => Inv
  BY DEF Init, DownForgets, AnswersJustified, Stopped
<1>2. ASSUME Flow, InStep, Flow', InStep', Inv, [Next]_vars PROVE Inv'
  BY <1>2, AnswersKept DEF Leftover
<1>3. ASSUME Flow, Inv, [Next]_vars PROVE [Dropped]_vars
  BY <1>3, DroppedStage DEF Excused
<1>4. SafetySpec => []Inv
  BY <1>1, <1>2, FlowHolds, PTL DEF SafetySpec
<1>5. SafetySpec => [][Dropped]_vars
  BY <1>3, <1>4, FlowHolds, PTL DEF SafetySpec
<1> QED
  BY <1>5 DEF OnlyLostStagesDropped

===============================================================================
