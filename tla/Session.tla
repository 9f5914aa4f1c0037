------------------------------- MODULE Session -------------------------------
(* The queue pair between a control application and a session thread:        *)
(* LocalControllerSession (core side) and DataPlaneSession (local side) have  *)
(* the same code.  The application calls SubmitRule, GetResult and            *)
(* RemoveSession; a detached thread runs StartSession, which pops rules from  *)
(* submission_queue_, sends each to the peer and pushes the peer's answer on  *)
(* completion_queue_.                                                         *)
(*                                                                            *)
(* A rule is its position in the order of SubmitRule calls, an answer is the  *)
(* rule it answers.  Poison is the empty rule that RemoveSession enqueues.    *)
(* The sessions never have more than one thread unless the core controller    *)
(* registers the same local controller twice (see CoreControl), which starts  *)
(* a second StartSession on the same object: hence the set Threads.           *)
EXTENDS Naturals, Sequences

CONSTANTS
    Threads,      \* threads that execute StartSession on this session
    MaxRequests   \* bound on the number of SubmitRule calls

ASSUME ThreadsAssumption == Threads # {}
ASSUME MaxRequestsAssumption == MaxRequests \in Nat

VARIABLES
    submission_queue_,   \* rules not yet taken by a session thread
    completion_queue_,   \* answers not yet taken by GetResult
    working_session_,    \* the session is working
    pc,                  \* where each session thread is
    rule,                \* the rule each session thread last dequeued
    submitted,           \* number of SubmitRule calls
    results,             \* answers returned by GetResult, in order
    client               \* what the application has done with the session

vars == <<submission_queue_, completion_queue_, working_session_, pc, rule,
          submitted, results, client>>

Request == 1..MaxRequests
Poison == 0

\* Rules and answers are requests; the empty rule is never answered.
TypeOK ==
    /\ submission_queue_ \in Seq(Request \cup {Poison})
    /\ completion_queue_ \in Seq(Request)
    /\ working_session_ \in BOOLEAN
    /\ pc \in [Threads -> {"created", "loop", "dequeue", "waiting", "sending",
                           "exited"}]
    /\ rule \in [Threads -> Request \cup {Poison}]
    /\ submitted \in 0..MaxRequests
    /\ results \in Seq(Request)
    /\ client \in {"running", "removing", "removed", "erased"}

\* The constructor: empty queues; the threads are created but not yet scheduled.
Init ==
    /\ submission_queue_ = <<>>
    /\ completion_queue_ = <<>>
    /\ working_session_ = FALSE
    /\ pc = [t \in Threads |-> "created"]
    /\ rule = [t \in Threads |-> Poison]
    /\ submitted = 0
    /\ results = <<>>
    /\ client = "running"

-------------------------------------------------------------------------------
(* The application's side.                                                    *)

Waiters == {t \in Threads : pc[t] = "waiting"}

\* condition_variable::notify_one: one waiter, if there is one, wakes up and
\* re-evaluates the condition of its wait loop.
NotifyOne ==
    \/ /\ Waiters = {}
       /\ UNCHANGED pc
    \/ \E t \in Waiters : pc' = [pc EXCEPT ![t] = "dequeue"]

\* Mutants: nobody is notified; the rule overtakes those before it.
EnqueueRule_NoNotify(r) ==
    /\ submission_queue_' = Append(submission_queue_, r)
    /\ UNCHANGED pc
EnqueueRule_Front(r) ==
    /\ submission_queue_' = <<r>> \o submission_queue_
    /\ NotifyOne

EnqueueRuleInSubmissionQueue(r) ==
    /\ submission_queue_' = Append(submission_queue_, r)
    /\ NotifyOne

SubmitRule ==
    /\ client = "running"
    /\ submitted < MaxRequests
    /\ EnqueueRuleInSubmissionQueue(submitted + 1)
    /\ submitted' = submitted + 1
    /\ UNCHANGED <<completion_queue_, working_session_, rule, results, client>>

\* Blocks until an answer is there.  An application that is done with the
\* session (an error made it give up on the rest) no longer asks for answers.
GetResult ==
    /\ client = "running"
    /\ completion_queue_ # <<>>
    /\ results' = Append(results, Head(completion_queue_))
    /\ completion_queue_' = Tail(completion_queue_)
    /\ UNCHANGED <<submission_queue_, working_session_, pc, rule, submitted, client>>

\* RemoveSession clears working_session_ without holding the queue's lock, then
\* enqueues the empty rule.  Every caller that is reached has taken at least one
\* answer, and may leave others behind.
RemoveSession ==
    /\ client = "running"
    /\ results # <<>>
    /\ working_session_' = FALSE
    /\ client' = "removing"
    /\ UNCHANGED <<submission_queue_, completion_queue_, pc, rule, submitted, results>>

\* Mutant: clearing working_session_ is all that RemoveSession does.
RemoveSessionEnqueue_FlagOnly ==
    /\ client = "removing"
    /\ client' = "removed"
    /\ UNCHANGED <<submission_queue_, pc, completion_queue_, working_session_, rule,
                   submitted, results>>

RemoveSessionEnqueue ==
    /\ client = "removing"
    /\ EnqueueRuleInSubmissionQueue(Poison)
    /\ client' = "removed"
    /\ UNCHANGED <<completion_queue_, working_session_, rule, submitted, results>>

\* The application drops the unique_ptr.  What the threads of an erased session
\* do next is undefined: the model stops them.
EraseSession ==
    /\ client = "removed"
    /\ client' = "erased"
    /\ UNCHANGED <<submission_queue_, completion_queue_, working_session_, pc,
                   rule, submitted, results>>

-------------------------------------------------------------------------------
(* The session threads.                                                       *)

StartSession(t) ==
    /\ client # "erased"
    /\ pc[t] = "created"
    /\ working_session_' = TRUE
    /\ pc' = [pc EXCEPT ![t] = "loop"]
    /\ UNCHANGED <<submission_queue_, completion_queue_, rule, submitted, results, client>>

\* while (working_session_)
Loop(t) ==
    /\ client # "erased"
    /\ pc[t] = "loop"
    /\ pc' = [pc EXCEPT ![t] = IF working_session_ THEN "dequeue" ELSE "exited"]
    /\ UNCHANGED <<submission_queue_, completion_queue_, working_session_, rule,
                   submitted, results, client>>

\* Mutant: the rule is copied from the queue and stays in it.
TakeRule_Copy(t) ==
    /\ rule' = [rule EXCEPT ![t] = Head(submission_queue_)]
    /\ UNCHANGED submission_queue_

TakeRule(t) ==
    /\ rule' = [rule EXCEPT ![t] = Head(submission_queue_)]
    /\ submission_queue_' = Tail(submission_queue_)

\* One evaluation of the wait loop's condition, under the queue's lock.
DequeueRuleFromSubmissionQueue(t) ==
    /\ client # "erased"
    /\ pc[t] = "dequeue"
    /\ \/ /\ ~working_session_
          /\ pc' = [pc EXCEPT ![t] = "loop"]
          /\ UNCHANGED <<submission_queue_, rule>>
       \/ /\ working_session_
          /\ submission_queue_ = <<>>
          /\ pc' = [pc EXCEPT ![t] = "waiting"]
          /\ UNCHANGED <<submission_queue_, rule>>
       \/ /\ working_session_
          /\ submission_queue_ # <<>>
          /\ TakeRule(t)
          /\ pc' = [pc EXCEPT ![t] = "sending"]
    /\ UNCHANGED <<completion_queue_, working_session_, submitted, results, client>>

\* condition_variable::wait may return without a notification.
SpuriousWakeup(t) ==
    /\ client # "erased"
    /\ pc[t] = "waiting"
    /\ pc' = [pc EXCEPT ![t] = "dequeue"]
    /\ UNCHANGED <<submission_queue_, completion_queue_, working_session_, rule,
                   submitted, results, client>>

\* Mutant: the empty rule is answered like any other.
EnqueueResponse_Always(r) == completion_queue_' = Append(completion_queue_, r)

EnqueueResponse(r) ==
    completion_queue_' = IF r = Poison THEN completion_queue_ ELSE Append(completion_queue_, r)

\* The peer answers (or the call fails, which is an answer too); the empty rule
\* is not supported and gets none.
SendRule(t) ==
    /\ client # "erased"
    /\ pc[t] = "sending"
    /\ EnqueueResponse(rule[t])
    /\ pc' = [pc EXCEPT ![t] = "loop"]
    /\ UNCHANGED <<submission_queue_, working_session_, rule, submitted, results, client>>

Thread(t) ==
    \/ StartSession(t)
    \/ Loop(t)
    \/ DequeueRuleFromSubmissionQueue(t)
    \/ SendRule(t)

Next ==
    \/ SubmitRule
    \/ GetResult
    \/ RemoveSession
    \/ RemoveSessionEnqueue
    \/ EraseSession
    \/ \E t \in Threads : Thread(t) \/ SpuriousWakeup(t)

SafetySpec == Init /\ [][Next]_vars

\* The scheduler runs every thread and the peer answers every call; the
\* application asks for every answer and finishes RemoveSession once begun.
Fairness ==
    /\ \A t \in Threads : WF_vars(Thread(t))
    /\ WF_vars(GetResult)
    /\ WF_vars(RemoveSessionEnqueue)

Spec == SafetySpec /\ Fairness

-------------------------------------------------------------------------------
(* Properties.                                                                *)

Sending == {t \in Threads : pc[t] = "sending"}

\* How many times request r is held by a sequence.
Count(seq, r) == {i \in DOMAIN seq : seq[i] = r}

\* Every submitted request is in exactly one place: queued, being sent by one
\* thread, answered, or handed out.  No race between threads loses a rule or
\* answers it twice.
\* (submission_queue_lock_ and completion_queue_lock_ protect both queues.)
HeldBy(r) ==
      ({"submission"} \X Count(submission_queue_, r))
    \cup ({"sending"} \X {t \in Sending : rule[t] = r})
    \cup ({"completion"} \X Count(completion_queue_, r))
    \cup ({"results"} \X Count(results, r))

ExactlyOnce == \A r \in 1..submitted : \E h \in HeldBy(r) : HeldBy(r) = {h}

\* The k-th GetResult returns the answer to the k-th SubmitRule: the pairing
\* that callers such as mark_data_plane_stage_ready and collect_statistics_result
\* rely on when they cast the answer they pop.
FifoPairing == \A k \in 1..Len(results) : results[k] = k

\* A wake-up is never lost: no thread sleeps on a non-empty queue unless a
\* thread that will look at the queue is awake.
NoLostWakeup ==
    submission_queue_ # <<>> /\ Waiters # {}
        => \E t \in Threads : pc[t] \notin {"waiting", "exited"}

\* A removed session's thread terminates, unless the owner erased it first.
RemovalStopsThread ==
    client = "removed" ~> (client = "erased" \/ \A t \in Threads : pc[t] = "exited")

\* Every submitted request is answered to the caller, unless it gives up.
RequestsAnswered ==
    \A r \in 1..MaxRequests :
        submitted >= r ~> (Len(results) >= r \/ client # "running")

\* With one thread a session is a request channel.
Channel == INSTANCE RequestChannel WITH
    served    <- Len(results) + Len(completion_queue_),
    delivered <- Len(results),
    answer    <- IF results = <<>> THEN 0 ELSE results[Len(results)],
    closed    <- client # "running"

ImplementsChannel == Channel!Spec
ImplementsChannelSafety == Channel!Init /\ [][Channel!Next]_(Channel!vars)
===============================================================================
