---------------------------- MODULE Session_proofs ----------------------------
(* Proofs about Session, for every set of threads and every bound on requests. *)
EXTENDS Session, TLAPS

\* Type correctness: only requests are ever answered, and the empty rule that
\* RemoveSession enqueues never produces an answer.
THEOREM TypeCorrect == SafetySpec => []TypeOK
<1>1. Init => TypeOK
  <2> SUFFICES ASSUME Init PROVE TypeOK
    OBVIOUS
  <2>1. /\ submission_queue_ \in Seq(Request \cup {Poison})
        /\ completion_queue_ \in Seq(Request)
        /\ results \in Seq(Request)
    BY DEF Init
  <2>2. submitted \in 0..MaxRequests
    BY MaxRequestsAssumption DEF Init
  <2>3. rule \in [Threads -> Request \cup {Poison}]
    BY DEF Init
  <2>4. pc \in [Threads -> {"created", "loop", "dequeue", "waiting", "sending", "exited"}]
    BY DEF Init
  <2> QED
    BY <2>1, <2>2, <2>3, <2>4 DEF Init, TypeOK
<1>2. TypeOK /\ [Next]_vars => TypeOK'
  <2> SUFFICES ASSUME TypeOK, [Next]_vars PROVE TypeOK'
    OBVIOUS
  <2> USE DEF TypeOK
  <2>1. ASSUME NotifyOne PROVE pc' \in [Threads -> {"created", "loop", "dequeue", "waiting", "sending", "exited"}]
    BY <2>1 DEF NotifyOne, Waiters
  <2>2. CASE SubmitRule
    <3>1. submitted + 1 \in Request /\ submitted' \in 0..MaxRequests
      BY MaxRequestsAssumption, <2>2 DEF SubmitRule, Request
    <3>2. submission_queue_' \in Seq(Request \cup {Poison})
      BY <2>2, <3>1 DEF SubmitRule, EnqueueRuleInSubmissionQueue
    <3> QED
      BY <2>1, <2>2, <3>1, <3>2 DEF SubmitRule, EnqueueRuleInSubmissionQueue
  <2>3. CASE GetResult
    <3>1. Head(completion_queue_) \in Request /\ Tail(completion_queue_) \in Seq(Request)
      BY <2>3 DEF GetResult
    <3>2. results' \in Seq(Request) /\ completion_queue_' \in Seq(Request)
      BY <2>3, <3>1 DEF GetResult
    <3> QED
      BY <2>3, <3>2 DEF GetResult
  <2>4. CASE RemoveSession
    BY <2>4 DEF RemoveSession
  <2>5. CASE RemoveSessionEnqueue
    BY <2>1, <2>5 DEF RemoveSessionEnqueue, EnqueueRuleInSubmissionQueue
  <2>6. CASE EraseSession
    BY <2>6 DEF EraseSession
  <2>7. ASSUME NEW t \in Threads, StartSession(t) PROVE TypeOK'
    BY <2>7 DEF StartSession
  <2>8. ASSUME NEW t \in Threads, Loop(t) PROVE TypeOK'
    BY <2>8 DEF Loop
  <2>9. ASSUME NEW t \in Threads, DequeueRuleFromSubmissionQueue(t) PROVE TypeOK'
    <3>1. submission_queue_ # <<>> => /\ Head(submission_queue_) \in Request \cup {Poison}
                                      /\ Tail(submission_queue_) \in Seq(Request \cup {Poison})
      OBVIOUS
    <3>2. /\ submission_queue_' \in Seq(Request \cup {Poison})
          /\ rule' \in [Threads -> Request \cup {Poison}]
          /\ pc' \in [Threads -> {"created", "loop", "dequeue", "waiting", "sending", "exited"}]
      BY <2>9, <3>1 DEF DequeueRuleFromSubmissionQueue, TakeRule
    <3> QED
      BY <2>9, <3>2 DEF DequeueRuleFromSubmissionQueue, TakeRule
  <2>10. ASSUME NEW t \in Threads, SendRule(t) PROVE TypeOK'
    <3>1. rule[t] # Poison => rule[t] \in Request
      OBVIOUS
    <3>2. completion_queue_' \in Seq(Request)
      BY <2>10, <3>1 DEF SendRule, EnqueueResponse
    <3>3. pc' \in [Threads -> {"created", "loop", "dequeue", "waiting", "sending", "exited"}]
      BY <2>10 DEF SendRule, EnqueueResponse
    <3> QED
      BY <2>10, <3>2, <3>3 DEF SendRule, EnqueueResponse
  <2>11. ASSUME NEW t \in Threads, SpuriousWakeup(t) PROVE TypeOK'
    BY <2>11 DEF SpuriousWakeup
  <2>12. CASE UNCHANGED vars
    BY <2>12 DEF vars
  <2> QED
    BY <2>2, <2>3, <2>4, <2>5, <2>6, <2>7, <2>8, <2>9, <2>10, <2>11, <2>12
    DEF Next, Thread
<1> QED
  BY <1>1, <1>2, PTL DEF SafetySpec

-------------------------------------------------------------------------------
(* One thread: the pairing of answers with requests.                          *)

\* The requests that have left submission_queue_: handed out, answered, or in
\* the hands of the session's thread t.
Left(t) == Len(results) + Len(completion_queue_) + (IF pc[t] = "sending" THEN 1 ELSE 0)

\* Until the close, the rules in the queue are the next ones in order.
QueueInOrder(t) ==
    /\ \A i \in 1..Len(submission_queue_) : submission_queue_[i] = Left(t) + i
    /\ submitted = Left(t) + Len(submission_queue_)

\* The strengthening of FifoPairing that the steps preserve.  A closed session
\* never dequeues again, since its only thread set working_session_ before the
\* first answer came back: after the close the content of submission_queue_ no
\* longer matters.
FifoInv(t) ==
    /\ FifoPairing
    /\ \A i \in 1..Len(completion_queue_) : completion_queue_[i] = Len(results) + i
    /\ pc[t] = "sending" => rule[t] = Len(results) + Len(completion_queue_) + 1
    /\ client = "running" => QueueInOrder(t)
    /\ Left(t) <= submitted
    /\ client # "running" => ~working_session_
    /\ pc[t] = "created" => client = "running" /\ Left(t) = 0

\* A queue that numbers its entries consecutively from n + 1 still does when the
\* next number is appended ...
LEMMA AppendInOrder ==
    ASSUME NEW S, NEW q \in Seq(S), NEW n \in Nat, NEW e \in S, e = n + Len(q) + 1,
           \A i \in 1..Len(q) : q[i] = n + i
    PROVE  \A i \in 1..Len(Append(q, e)) : Append(q, e)[i] = n + i
<1> SUFFICES ASSUME NEW i \in 1..Len(q) + 1 PROVE Append(q, e)[i] = n + i
  OBVIOUS
<1>1. CASE i \in 1..Len(q)
  BY <1>1
<1>2. CASE i = Len(q) + 1
  BY <1>2
<1> QED
  BY <1>1, <1>2

\* ... and from n + 2 when its head, n + 1, is removed.
LEMMA TailInOrder ==
    ASSUME NEW S, NEW q \in Seq(S), q # <<>>, NEW n \in Nat,
           \A i \in 1..Len(q) : q[i] = n + i
    PROVE  /\ Head(q) = n + 1
           /\ Len(Tail(q)) = Len(q) - 1
           /\ \A i \in 1..Len(Tail(q)) : Tail(q)[i] = n + 1 + i
  OBVIOUS

LEMMA FifoInit == ASSUME NEW t \in Threads, Init PROVE FifoInv(t)
  BY DEF Init, FifoInv, FifoPairing, QueueInOrder, Left

\* Every step of a session with the single thread t preserves FifoInv(t).
LEMMA FifoStep ==
    ASSUME NEW t, Threads = {t}, TypeOK, TypeOK', FifoInv(t), [Next]_vars
    PROVE  FifoInv(t)'
<1> USE DEF TypeOK, FifoInv, FifoPairing, QueueInOrder, Left
<1>1. CASE SubmitRule
  <2>1. pc' = pc \/ (pc[t] = "waiting" /\ pc' = [pc EXCEPT ![t] = "dequeue"])
    BY <1>1 DEF SubmitRule, EnqueueRuleInSubmissionQueue, NotifyOne, Waiters
  <2>2. Left(t)' = Left(t)
    BY <1>1, <2>1 DEF SubmitRule
  <2>3. QueueInOrder(t)'
    <3> HIDE DEF Left, FifoInv
    <3>1. submission_queue_' = Append(submission_queue_, submitted + 1) /\ submitted' = submitted + 1
      BY <1>1 DEF SubmitRule, EnqueueRuleInSubmissionQueue
    <3>2. QueueInOrder(t) /\ Left(t) \in Nat
      BY <1>1 DEF SubmitRule, FifoInv, Left
    <3>3. submission_queue_ \in Seq(Nat)
      BY DEF Request, Poison
    <3>4. \A i \in 1..Len(submission_queue_') : submission_queue_'[i] = Left(t) + i
      BY <3>1, <3>2, <3>3, AppendInOrder
    <3>5. Len(submission_queue_') = Len(submission_queue_) + 1 /\ Len(submission_queue_) \in Nat
      BY <3>1, <3>3
    <3> HIDE DEF TypeOK
    <3>6. submitted' = Left(t) + Len(submission_queue_')
      BY <3>1, <3>2, <3>5
    <3> QED
      BY <2>2, <3>4, <3>6
  <2> QED
    BY <1>1, <2>1, <2>2, <2>3 DEF SubmitRule
<1>2. CASE GetResult
  BY <1>2 DEF GetResult
<1>3. CASE RemoveSession
  BY <1>3 DEF RemoveSession
<1>4. CASE RemoveSessionEnqueue
  <2>1. pc' = pc \/ (pc[t] = "waiting" /\ pc' = [pc EXCEPT ![t] = "dequeue"])
    BY <1>4 DEF RemoveSessionEnqueue, EnqueueRuleInSubmissionQueue, NotifyOne, Waiters
  <2> QED
    BY <1>4, <2>1 DEF RemoveSessionEnqueue
<1>5. CASE EraseSession
  BY <1>5 DEF EraseSession
<1>6. CASE StartSession(t)
  BY <1>6 DEF StartSession
<1>7. CASE Loop(t)
  BY <1>7 DEF Loop
<1>8. CASE DequeueRuleFromSubmissionQueue(t)
  <2>1. CASE pc'[t] # "sending"
    BY <1>8, <2>1 DEF DequeueRuleFromSubmissionQueue, TakeRule
  <2>2. CASE pc'[t] = "sending"
    <3>1. /\ client = "running"
          /\ submission_queue_ # <<>>
          /\ submission_queue_' = Tail(submission_queue_)
          /\ rule'[t] = Head(submission_queue_)
          /\ UNCHANGED <<completion_queue_, results, submitted, client>>
      BY <1>8, <2>2 DEF DequeueRuleFromSubmissionQueue, TakeRule
    <3>2. Left(t)' = Left(t) + 1 /\ Left(t) = Len(results) + Len(completion_queue_)
      BY <1>8, <2>2, <3>1 DEF DequeueRuleFromSubmissionQueue, TakeRule
    <3>3. QueueInOrder(t)'
      <4>1. Left(t) \in Nat /\ QueueInOrder(t)
        BY <3>1
      <4> HIDE DEF Left, FifoInv
      <4>2. /\ Len(submission_queue_') = Len(submission_queue_) - 1
            /\ \A i \in 1..Len(submission_queue_') : submission_queue_'[i] = Left(t) + 1 + i
        BY <3>1, <4>1, TailInOrder
      <4>3. Len(submission_queue_) \in Nat /\ submitted' = Left(t) + 1 + Len(submission_queue_')
        BY <3>1, <4>1, <4>2
      <4> HIDE DEF TypeOK
      <4> QED
        BY <3>2, <4>1, <4>2, <4>3
    <3>4. rule'[t] = Left(t) + 1
      <4>1. Left(t) \in Nat /\ QueueInOrder(t)
        BY <3>1
      <4> HIDE DEF Left, FifoInv
      <4> QED
        BY <3>1, <4>1, TailInOrder
    <3> QED
      BY <1>8, <2>2, <3>1, <3>2, <3>3, <3>4 DEF DequeueRuleFromSubmissionQueue, TakeRule
  <2> QED
    BY <2>1, <2>2
<1>9. CASE SendRule(t)
  <2>1. rule[t] # Poison /\ rule[t] = Len(results) + Len(completion_queue_) + 1
    BY <1>9 DEF SendRule, EnqueueResponse, Poison
  <2>2. completion_queue_' = Append(completion_queue_, rule[t])
    BY <1>9, <2>1 DEF SendRule, EnqueueResponse
  <2>3. \A i \in 1..Len(completion_queue_') : completion_queue_'[i] = Len(results) + i
    <3>1. rule[t] \in Request
      BY <2>1 DEF Poison
    <3>2. results' = results /\ Len(results) \in Nat /\ completion_queue_ \in Seq(Request)
      BY <1>9 DEF SendRule, EnqueueResponse
    <3>3. \A i \in 1..Len(completion_queue_) : completion_queue_[i] = Len(results) + i
      OBVIOUS
    <3> HIDE DEF TypeOK, FifoInv
    <3> QED
      BY <2>1, <2>2, <3>1, <3>2, <3>3, AppendInOrder
  <2>4. Left(t)' = Left(t)
    BY <1>9, <2>2 DEF SendRule, EnqueueResponse
  <2>5. (client = "running" => QueueInOrder(t))'
    <3> HIDE DEF Left
    <3> QED
      BY <1>9, <2>4 DEF SendRule, EnqueueResponse
  <2> QED
    BY <1>9, <2>2, <2>3, <2>4, <2>5 DEF SendRule, EnqueueResponse
<1>10. CASE SpuriousWakeup(t)
  BY <1>10 DEF SpuriousWakeup
<1>11. CASE UNCHANGED vars
  BY <1>11 DEF vars
<1> QED
  BY <1>1, <1>2, <1>3, <1>4, <1>5, <1>6, <1>7, <1>8, <1>9, <1>10, <1>11 DEF Next, Thread

LEMMA FifoInvariant ==
    ASSUME NEW t, Threads = {t}
    PROVE  SafetySpec => [](TypeOK /\ FifoInv(t))
<1>1. Init => FifoInv(t)
  BY FifoInit
<1>2. TypeOK /\ TypeOK' /\ FifoInv(t) /\ [Next]_vars => FifoInv(t)'
  BY FifoStep
<1> QED
  BY <1>1, <1>2, TypeCorrect, PTL DEF SafetySpec

\* With one session thread, the k-th GetResult returns the answer to the k-th
\* SubmitRule, however SubmitRule, GetResult, RemoveSession and the thread
\* interleave.
THEOREM SingleThreadFifo ==
    ASSUME NEW t, Threads = {t}
    PROVE  SafetySpec => []FifoPairing
<1>1. FifoInv(t) => FifoPairing
  BY DEF FifoInv
<1> QED
  BY <1>1, FifoInvariant, PTL

\* With one session thread no wake-up is lost: the thread never sleeps while the
\* queue holds a rule.
THEOREM SingleThreadWakesUp ==
    ASSUME NEW t, Threads = {t}
    PROVE  SafetySpec => []NoLostWakeup
<1> DEFINE Asleep == pc[t] = "waiting" => submission_queue_ = <<>>
<1>1. Init => Asleep
  BY DEF Init
<1>2. TypeOK /\ Asleep /\ [Next]_vars => Asleep'
  <2> SUFFICES ASSUME TypeOK, Asleep, [Next]_vars PROVE Asleep'
    OBVIOUS
  <2>1. CASE SubmitRule \/ RemoveSessionEnqueue
    <3>1. NotifyOne
      BY <2>1 DEF SubmitRule, RemoveSessionEnqueue, EnqueueRuleInSubmissionQueue
    <3>2. pc'[t] # "waiting"
      BY <3>1 DEF NotifyOne, Waiters, TypeOK
    <3> QED
      BY <3>2
  <2>2. CASE GetResult \/ RemoveSession \/ EraseSession
    BY <2>2 DEF GetResult, RemoveSession, EraseSession
  <2>3. CASE StartSession(t) \/ Loop(t) \/ SendRule(t) \/ SpuriousWakeup(t)
    <3>1. pc' = [pc EXCEPT ![t] = pc'[t]] /\ pc'[t] # "waiting"
      BY <2>3 DEF StartSession, Loop, SendRule, SpuriousWakeup, TypeOK
    <3> QED
      BY <3>1
  <2>4. CASE DequeueRuleFromSubmissionQueue(t)
    BY <2>4 DEF DequeueRuleFromSubmissionQueue, TypeOK
  <2>5. CASE UNCHANGED vars
    BY <2>5 DEF vars
  <2> QED
    BY <2>1, <2>2, <2>3, <2>4, <2>5 DEF Next, Thread
<1>3. Asleep => NoLostWakeup
  BY DEF NoLostWakeup, Waiters
<1> QED
  BY <1>1, <1>2, <1>3, TypeCorrect, PTL DEF SafetySpec

\* A step of the session is a step of the request channel, or a stutter.
LEMMA ChannelStep ==
    ASSUME NEW t, Threads = {t}, TypeOK, TypeOK', FifoInv(t), FifoInv(t)', [Next]_vars
    PROVE  [Channel!Next]_(Channel!vars)
<1> USE DEF Channel!Next, Channel!vars, TypeOK
<1>1. CASE SubmitRule
  BY <1>1 DEF SubmitRule, Channel!Submit
<1>2. CASE GetResult
  <2>1. /\ Len(results') = Len(results) + 1
        /\ Len(completion_queue_') = Len(completion_queue_) - 1
        /\ Len(completion_queue_) > 0
        /\ results' # <<>>
        /\ client = "running" /\ client' = client /\ submitted' = submitted
    BY <1>2 DEF GetResult
  <2>2. results'[Len(results')] = Len(results) + 1
    BY <2>1 DEF FifoInv, FifoPairing
  <2> QED
    BY <2>1, <2>2 DEF Channel!Deliver
<1>3. CASE RemoveSession
  BY <1>3 DEF RemoveSession, Channel!Close
<1>4. CASE RemoveSessionEnqueue
  BY <1>4 DEF RemoveSessionEnqueue
<1>5. CASE EraseSession
  BY <1>5 DEF EraseSession
<1>6. CASE StartSession(t) \/ Loop(t) \/ SpuriousWakeup(t)
  BY <1>6 DEF StartSession, Loop, SpuriousWakeup
<1>7. CASE DequeueRuleFromSubmissionQueue(t)
  BY <1>7 DEF DequeueRuleFromSubmissionQueue, TakeRule
<1>8. CASE SendRule(t)
  <2>1. rule[t] # Poison /\ Len(results) + Len(completion_queue_) < submitted
    BY <1>8 DEF SendRule, EnqueueResponse, FifoInv, Left, Poison
  <2>2. Len(completion_queue_') = Len(completion_queue_) + 1
    BY <1>8, <2>1 DEF SendRule, EnqueueResponse
  <2> QED
    BY <1>8, <2>1, <2>2 DEF SendRule, EnqueueResponse, Channel!Serve
<1>9. CASE UNCHANGED vars
  BY <1>9 DEF vars
<1> QED
  BY <1>1, <1>2, <1>3, <1>4, <1>5, <1>6, <1>7, <1>8, <1>9 DEF Next, Thread

\* A session with one thread implements the request channel (its safety part:
\* the fairness of the channel is checked by TLC).
THEOREM SingleThreadImplementsChannel ==
    ASSUME NEW t, Threads = {t}
    PROVE  SafetySpec => ImplementsChannelSafety
<1>1. Init => Channel!Init
  BY DEF Init, Channel!Init
<1>2. TypeOK /\ TypeOK' /\ FifoInv(t) /\ FifoInv(t)' /\ [Next]_vars => [Channel!Next]_(Channel!vars)
  BY ChannelStep
<1> QED
  BY <1>1, <1>2, FifoInvariant, PTL DEF SafetySpec, ImplementsChannelSafety

-------------------------------------------------------------------------------
(* Any number of threads: no rule is lost or answered twice.                  *)

\* The requests that a sequence holds, and those that the threads are sending.
Held(seq) == {seq[i] : i \in DOMAIN seq} \ {Poison}
InHands == {rule[t] : t \in Sending} \ {Poison}

\* No request occurs twice in a sequence.
Distinct(seq) ==
    \A i, j \in DOMAIN seq : seq[i] = seq[j] /\ seq[i] # Poison => i = j

\* The strengthening of ExactlyOnce that the steps preserve: the four places
\* hold disjoint sets of requests, each of them once, and together those that
\* were submitted.
OnceInv ==
    /\ Distinct(submission_queue_) /\ Distinct(completion_queue_) /\ Distinct(results)
    /\ \A t, u \in Sending : rule[t] = rule[u] /\ rule[t] # Poison => t = u
    /\ Held(submission_queue_) \cap InHands = {}
    /\ Held(submission_queue_) \cap Held(completion_queue_) = {}
    /\ Held(submission_queue_) \cap Held(results) = {}
    /\ InHands \cap Held(completion_queue_) = {}
    /\ InHands \cap Held(results) = {}
    /\ Held(completion_queue_) \cap Held(results) = {}
    /\ Held(submission_queue_) \cup InHands \cup Held(completion_queue_) \cup Held(results)
          = 1..submitted

\* An element that is new, or the empty rule, can be appended ...
LEMMA AppendHeld ==
    ASSUME NEW q \in Seq(Nat), NEW e \in Nat, Distinct(q), e = Poison \/ e \notin Held(q)
    PROVE  /\ Distinct(Append(q, e))
           /\ Held(Append(q, e)) = Held(q) \cup ({e} \ {Poison})
<1>1. /\ Len(Append(q, e)) = Len(q) + 1
      /\ DOMAIN Append(q, e) = 1..Len(q) + 1
      /\ DOMAIN q = 1..Len(q)
      /\ Len(q) \in Nat
      /\ \A i \in 1..Len(q) : Append(q, e)[i] = q[i]
      /\ Append(q, e)[Len(q) + 1] = e
  OBVIOUS
<1> DEFINE a == Append(q, e)
<1>2. /\ DOMAIN a = 1..Len(q) + 1
      /\ \A i \in 1..Len(q) : a[i] = q[i]
      /\ a[Len(q) + 1] = e
  BY <1>1
<1> HIDE DEF a
<1>3. Distinct(a)
  BY <1>1, <1>2 DEF Distinct, Held
<1>4. Held(a) = Held(q) \cup ({e} \ {Poison})
  <2>1. ASSUME NEW x \in Held(a) PROVE x \in Held(q) \cup ({e} \ {Poison})
    BY <1>1, <1>2, <2>1 DEF Held
  <2>2. ASSUME NEW x \in Held(q) PROVE x \in Held(a)
    BY <1>1, <1>2, <2>2 DEF Held
  <2>3. Len(q) + 1 \in DOMAIN a
    BY <1>1, <1>2
  <2>4. e # Poison => e \in Held(a)
    BY <1>2, <2>3 DEF Held
  <2> QED
    BY <2>1, <2>2, <2>4
<1> QED
  BY <1>3, <1>4 DEF a

\* ... and the head of a sequence can be removed.
LEMMA TailHeld ==
    ASSUME NEW q \in Seq(Nat), q # <<>>, Distinct(q)
    PROVE  /\ Distinct(Tail(q))
           /\ Held(Tail(q)) = Held(q) \ {Head(q)}
           /\ Head(q) # Poison => Head(q) \in Held(q)
<1> DEFINE b == Tail(q)
<1>1. /\ Len(q) \in Nat \ {0} /\ Head(q) = q[1]
      /\ DOMAIN q = 1..Len(q)
      /\ DOMAIN b = 1..Len(q) - 1
      /\ \A i \in 1..Len(q) - 1 : b[i] = q[i + 1]
  OBVIOUS
<1> HIDE DEF b
<1>2. Distinct(b)
  <2> SUFFICES ASSUME NEW i \in DOMAIN b, NEW j \in DOMAIN b, b[i] = b[j], b[i] # Poison
               PROVE  i = j
    BY DEF Distinct
  <2>1. i + 1 \in DOMAIN q /\ j + 1 \in DOMAIN q /\ q[i + 1] = b[i] /\ q[j + 1] = b[j]
    BY <1>1
  <2>2. i + 1 = j + 1
    BY <2>1 DEF Distinct
  <2> QED
    BY <1>1, <2>2
<1>3. ASSUME NEW x \in Held(b) PROVE x \in Held(q) /\ x # Head(q)
  <2>1. PICK i \in DOMAIN b : x = b[i] /\ x # Poison
    BY <1>3 DEF Held
  <2>2. i + 1 \in DOMAIN q /\ q[i + 1] = x /\ 1 \in DOMAIN q /\ i + 1 # 1
    BY <1>1, <2>1
  <2>3. x \in Held(q)
    BY <2>1, <2>2 DEF Held
  <2>4. q[1] # x
    BY <2>1, <2>2 DEF Distinct
  <2> QED
    BY <1>1, <2>3, <2>4
<1>4. ASSUME NEW x \in Held(q), x # Head(q) PROVE x \in Held(b)
  <2>1. PICK i \in DOMAIN q : x = q[i] /\ x # Poison
    BY <1>4 DEF Held
  <2>2. i - 1 \in DOMAIN b /\ b[i - 1] = x
    BY <1>1, <1>4, <2>1
  <2> QED
    BY <2>1, <2>2 DEF Held
<1>5. 1 \in DOMAIN q
  BY <1>1
<1> QED
  BY <1>1, <1>2, <1>3, <1>4, <1>5 DEF Held, b

\* The queues hold numbers, and the threads' rules are numbers.
LEMMA Numbers ==
    ASSUME TypeOK
    PROVE  /\ submission_queue_ \in Seq(Nat) /\ completion_queue_ \in Seq(Nat)
           /\ results \in Seq(Nat) /\ submitted \in Nat
           /\ \A t \in Threads : rule[t] \in Nat
           /\ Poison \notin {completion_queue_[i] : i \in DOMAIN completion_queue_}
  BY MaxRequestsAssumption DEF TypeOK, Request, Poison

\* What a function gives on a set, when it gets one more element.
LEMMA ImageExtended ==
    ASSUME NEW S, NEW f, NEW g, NEW t, \A u \in S : g[u] = f[u]
    PROVE  {g[u] : u \in S \cup {t}} = {f[u] : u \in S} \cup {g[t]}
  OBVIOUS

\* Every step preserves OnceInv.
LEMMA OnceStep ==
    ASSUME TypeOK, TypeOK', OnceInv, [Next]_vars
    PROVE  OnceInv'
<1> USE Numbers DEF OnceInv
\* Notifying a waiter does not change who is sending, nor what.
<1>1. ASSUME NotifyOne, UNCHANGED rule
      PROVE  Sending' = Sending /\ InHands' = InHands
  BY <1>1 DEF NotifyOne, Waiters, Sending, InHands, TypeOK
<1>2. CASE SubmitRule
  <2>1. Sending' = Sending /\ InHands' = InHands
    BY <1>1, <1>2 DEF SubmitRule, EnqueueRuleInSubmissionQueue
  <2>2. submitted + 1 \notin Held(submission_queue_) /\ submitted + 1 # Poison
    BY DEF Poison
  <2>3. /\ Distinct(submission_queue_')
        /\ Held(submission_queue_') = Held(submission_queue_) \cup {submitted + 1}
    BY <1>2, <2>2, AppendHeld DEF SubmitRule, EnqueueRuleInSubmissionQueue
  <2>4. 1..submitted' = 1..submitted \cup {submitted + 1} /\ submitted + 1 \notin 1..submitted
    BY <1>2 DEF SubmitRule
  <2>5. UNCHANGED <<completion_queue_, results, rule>>
    BY <1>2 DEF SubmitRule
  <2> QED
    BY <2>1, <2>3, <2>4, <2>5
<1>3. CASE GetResult
  <2> DEFINE r == Head(completion_queue_)
  <2>1. Sending' = Sending /\ InHands' = InHands
    BY <1>3 DEF GetResult, Sending, InHands
  <2>2. /\ Distinct(completion_queue_')
        /\ Held(completion_queue_') = Held(completion_queue_) \ {r}
        /\ r \in Nat /\ r # Poison /\ r \in Held(completion_queue_)
    <3>1. completion_queue_ # <<>> /\ completion_queue_' = Tail(completion_queue_)
      BY <1>3 DEF GetResult
    <3>2. r \in Nat /\ r # Poison
      BY <3>1 DEF TypeOK, Request, Poison
    <3> QED
      BY <3>1, <3>2, TailHeld
  <2>3. /\ Distinct(results')
        /\ Held(results') = Held(results) \cup {r}
    <3>1. r \notin Held(results)
      BY <2>2
    <3> QED
      BY <1>3, <2>2, <3>1, AppendHeld DEF GetResult
  <2>4. UNCHANGED <<submission_queue_, rule, submitted>>
    BY <1>3 DEF GetResult
  <2> QED
    BY <2>1, <2>2, <2>3, <2>4
<1>4. CASE RemoveSession \/ EraseSession
  <2>1. UNCHANGED <<pc, submission_queue_, completion_queue_, results, rule, submitted>>
    BY <1>4 DEF RemoveSession, EraseSession
  <2>2. Sending' = Sending /\ InHands' = InHands
    BY <2>1 DEF Sending, InHands
  <2> QED
    BY <2>1, <2>2
<1>5. CASE RemoveSessionEnqueue
  <2>1. Sending' = Sending /\ InHands' = InHands
    BY <1>1, <1>5 DEF RemoveSessionEnqueue, EnqueueRuleInSubmissionQueue
  <2>2. /\ Distinct(submission_queue_')
        /\ Held(submission_queue_') = Held(submission_queue_)
    BY <1>5, AppendHeld DEF RemoveSessionEnqueue, EnqueueRuleInSubmissionQueue, Poison
  <2>3. UNCHANGED <<completion_queue_, results, rule, submitted>>
    BY <1>5 DEF RemoveSessionEnqueue
  <2> QED
    BY <2>1, <2>2, <2>3
<1>6. ASSUME NEW t \in Threads, StartSession(t) \/ Loop(t) \/ SpuriousWakeup(t)
      PROVE  OnceInv'
  <2>1. Sending' = Sending /\ InHands' = InHands
    BY <1>6 DEF StartSession, Loop, SpuriousWakeup, Sending, InHands, TypeOK
  <2>2. UNCHANGED <<submission_queue_, completion_queue_, results, rule, submitted>>
    BY <1>6 DEF StartSession, Loop, SpuriousWakeup
  <2> QED
    BY <2>1, <2>2
<1>7. ASSUME NEW t \in Threads, DequeueRuleFromSubmissionQueue(t) PROVE OnceInv'
  <2>1. CASE pc'[t] # "sending"
    <3>1. UNCHANGED <<submission_queue_, completion_queue_, results, rule, submitted>>
      BY <1>7, <2>1 DEF DequeueRuleFromSubmissionQueue, TypeOK
    <3>2. Sending' = Sending
      BY <1>7, <2>1 DEF DequeueRuleFromSubmissionQueue, Sending, TypeOK
    <3> QED
      BY <3>1, <3>2 DEF InHands
  <2>2. CASE pc'[t] = "sending"
    <3> DEFINE r == Head(submission_queue_)
    <3>1. /\ submission_queue_ # <<>> /\ submission_queue_' = Tail(submission_queue_)
          /\ rule' = [rule EXCEPT ![t] = r]
          /\ UNCHANGED <<completion_queue_, results, submitted>>
      BY <1>7, <2>2 DEF DequeueRuleFromSubmissionQueue, TakeRule, TypeOK
    <3>2. t \notin Sending /\ Sending' = Sending \cup {t}
      BY <1>7, <2>2 DEF DequeueRuleFromSubmissionQueue, Sending, TypeOK
    <3>3. /\ Distinct(submission_queue_')
          /\ Held(submission_queue_') = Held(submission_queue_) \ {r}
          /\ r # Poison => r \in Held(submission_queue_)
      BY <3>1, TailHeld
    <3>4. rule'[t] = r /\ \A u \in Sending : rule'[u] = rule[u]
      BY <3>1, <3>2 DEF TypeOK, Sending
    <3>5. InHands' = InHands \cup ({r} \ {Poison})
      <4>1. {rule'[u] : u \in Sending'} = {rule[u] : u \in Sending} \cup {r}
        BY <3>2, <3>4, ImageExtended
      <4> QED
        BY <4>1 DEF InHands
    <3>6. r # Poison => \A u \in Sending : rule[u] # r
      BY <3>3 DEF InHands
    <3>7. (\A s, u \in Sending : rule[s] = rule[u] /\ rule[s] # Poison => s = u)'
      BY <3>2, <3>4, <3>6
    <3>8. Poison \notin Held(submission_queue_)
      BY DEF Held
    <3> QED
      BY <3>1, <3>3, <3>5, <3>7, <3>8
  <2> QED
    BY <2>1, <2>2
<1>8. ASSUME NEW t \in Threads, SendRule(t) PROVE OnceInv'
  <2> DEFINE r == rule[t]
  <2>1. t \in Sending /\ Sending' = Sending \ {t} /\ rule' = rule
    BY <1>8 DEF SendRule, Sending, TypeOK
  <2>2. InHands' = InHands \ {r}
    BY <2>1 DEF InHands
  <2>3. r # Poison => r \in InHands
    BY <2>1 DEF InHands
  <2>4. /\ Distinct(completion_queue_')
        /\ Held(completion_queue_') = Held(completion_queue_) \cup ({r} \ {Poison})
    <3>1. CASE r = Poison
      BY <1>8, <3>1 DEF SendRule, EnqueueResponse
    <3>2. CASE r # Poison
      BY <1>8, <2>3, <3>2, AppendHeld DEF SendRule, EnqueueResponse
    <3> QED
      BY <3>1, <3>2
  <2>5. UNCHANGED <<submission_queue_, results, submitted>>
    BY <1>8 DEF SendRule
  <2>6. Poison \notin InHands
    BY DEF InHands
  <2>7. (\A s, u \in Sending : rule[s] = rule[u] /\ rule[s] # Poison => s = u)'
    BY <2>1
  <2> QED
    BY <2>2, <2>3, <2>4, <2>5, <2>6, <2>7
<1>9. CASE UNCHANGED vars
  BY <1>9 DEF vars, Sending, InHands
<1> QED
  BY <1>2, <1>3, <1>4, <1>5, <1>6, <1>7, <1>8, <1>9 DEF Next, Thread

\* Every submitted request is in exactly one place, with any number of threads
\* on the session: no race between them loses a rule or answers it twice.
THEOREM EveryThreadExactlyOnce == SafetySpec => []ExactlyOnce
<1>1. Init => OnceInv
  BY DEF Init, OnceInv, Distinct, Held, InHands, Sending
<1>2. TypeOK /\ TypeOK' /\ OnceInv /\ [Next]_vars => OnceInv'
  BY OnceStep
<1>3. TypeOK /\ OnceInv => ExactlyOnce
  <2> SUFFICES ASSUME TypeOK, OnceInv, NEW r \in 1..submitted
               PROVE  \E h \in HeldBy(r) : HeldBy(r) = {h}
    BY DEF ExactlyOnce
  <2> USE DEF OnceInv
  <2>1. r # Poison
    BY Numbers DEF Poison
  \* A sequence that holds r holds it at one position, and one that does not
  \* counts no position of it.
  <2>2. ASSUME NEW q, Distinct(q), r \in Held(q) PROVE \E i : Count(q, r) = {i}
    <3>1. PICK i \in DOMAIN q : q[i] = r
      BY <2>2 DEF Held
    <3>2. Count(q, r) = {i}
      BY <2>1, <2>2, <3>1 DEF Count, Distinct
    <3> QED
      BY <3>2
  <2>3. ASSUME NEW q, r \notin Held(q) PROVE Count(q, r) = {}
    BY <2>1, <2>3 DEF Count, Held
  <2>4. r \in InHands => \E t : {u \in Sending : rule[u] = r} = {t}
    BY <2>1 DEF InHands
  <2>5. r \notin InHands => {u \in Sending : rule[u] = r} = {}
    BY <2>1 DEF InHands
  <2>6. ASSUME NEW place, NEW S, \E i : S = {i} PROVE \E h : {place} \X S = {h}
    <3>1. PICK i : S = {i}
      BY <2>6
    <3>2. \A h : h \in {place} \X {i} <=> h = <<place, i>>
      OBVIOUS
    <3>3. {place} \X S = {<<place, i>>}
      BY <3>1, <3>2, Zenon
    <3> QED
      BY <3>3
  <2> DEFINE A == {"submission"} \X Count(submission_queue_, r)
             B == {"sending"} \X {u \in Sending : rule[u] = r}
             C == {"completion"} \X Count(completion_queue_, r)
             D == {"results"} \X Count(results, r)
  <2>7. \/ r \in Held(submission_queue_) \/ r \in InHands
        \/ r \in Held(completion_queue_) \/ r \in Held(results)
    OBVIOUS
  <2>8. ASSUME NEW place, NEW S, S = {} PROVE {place} \X S = {}
    BY <2>8
  <2>9. ASSUME NEW place, NEW q, Distinct(q)
        PROVE  /\ r \in Held(q) => \E h : {place} \X Count(q, r) = {h}
               /\ r \notin Held(q) => {place} \X Count(q, r) = {}
    <3>1. ASSUME r \in Held(q) PROVE \E h : {place} \X Count(q, r) = {h}
      <4>1. \E i : Count(q, r) = {i}
        BY <2>2, <2>9, <3>1
      <4> QED
        BY <2>6, <4>1
    <3>2. ASSUME r \notin Held(q) PROVE {place} \X Count(q, r) = {}
      BY <2>3, <2>8, <3>2
    <3> QED
      BY <3>1, <3>2
  <2>10. /\ r \in InHands => \E h : B = {h}
         /\ r \notin InHands => B = {}
    BY <2>4, <2>5, <2>6, <2>8
  <2>11. HeldBy(r) = A \cup B \cup C \cup D
    BY DEF HeldBy
  <2>12. /\ r \in Held(submission_queue_) => \E h : A = {h}
         /\ r \notin Held(submission_queue_) => A = {}
         /\ r \in Held(completion_queue_) => \E h : C = {h}
         /\ r \notin Held(completion_queue_) => C = {}
         /\ r \in Held(results) => \E h : D = {h}
         /\ r \notin Held(results) => D = {}
    BY <2>9
  <2> HIDE DEF A, B, C, D
  <2>13. \E h : HeldBy(r) = {h}
    BY <2>7, <2>11, <2>10, <2>12
  <2> QED
    BY <2>13
<1> QED
  BY <1>1, <1>2, <1>3, TypeCorrect, PTL DEF SafetySpec

===============================================================================
