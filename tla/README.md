# Verification of cheferd's control plane

cheferd is a control plane for storage quality of service.  One **core
controller** divides a limit on the rate of I/O operations among **jobs**; one
**local controller** on each compute node passes the resulting rules on to the
**data plane stages** (PAIO stages, one in each process of a job) on its node.
This directory models the control plane in TLA+, checks the models with TLC and
proves theorems about them with TLAPS.  Paths are relative to the repository;
`CORE` is `src/controller/core_control_application.cpp`, `LOCAL` is
`src/controller/local_control_application.cpp`.

## 1. Inventory

| Part | State it keeps | Operations | What makes it correct |
|---|---|---|---|
| Core control application (`CORE`) | queues of registrations and rules, `local_sessions_`, the trackers `local_to_stages`, `job_location_tracker`, `stage_info_detailed`, per-job `job_demands`, `job_rates`, `job_previous_rates`, `active_op`, `change_in_system`, counters | registration, the feedback loop (handshakes, collection, removal of lost stages, three enforcement strategies) | the trackers agree; every request has one answer and the loop waits for no other; working stages have the limits last computed; the loop makes progress |
| Rate allocation (in `CORE`) | none | DYNAMIC_VANILLA division, DYNAMIC_LEFTOVER division, division among stages | the limit is not exceeded and is used up; no job falls below its share |
| Sessions (`local_controller_session.cpp`, `data_plane_session.cpp`) | a submission and a completion queue, `working_session_` | SubmitRule, GetResult, RemoveSession, the thread of StartSession | first-in first-out answers, no lost wake-up, removal ends the thread |
| Handshake session (`handshake_session.cpp`) | like a session | at most two rules, ends at the first failure | the caller waits for an answer that does not come only when the stage died |
| Local control application (`LOCAL`) | `data_sessions_`, `preparing_data_sessions_`, `pending_data_sessions_`, housekeeping rules, `operation_to_channel_object` | gRPC handlers for the core, its own loop with the stage handshake | stages are taken in order, prepared with every rule, announced and managed once; only dead stages are dropped, and all of them; the counter that decides the exit is right |
| Connection managers (`core_connection_manager.cpp`, `local_connection_manager.cpp`) | server, socket | accept registrations | each registration reaches the queue once |
| Local interface, PAIO interface (`src/networking`) | none | turn rules into RPCs or socket messages and failures into answers | a failed call is an answer |
| System administrator (`system_admin.cpp`) | the policies file | submits rules in the order of the file | order is kept |
| Rules file parser, policy generator, `Controller::RegisterHousekeepingRules` | the tokens of the file, the housekeeping rules as strings | conversion of rules from text to numbers, to text, and to numbers again | what a stage receives is what the file says |
| Configuration, command line, logging, status, start-up | settings | conversion of text | not modelled: no state and no interaction |

How they interact.  The core's main loop is a single thread.  It shares with
the gRPC server's threads the two registration queues, and with the
administrator's thread the queue of rules.  It talks to a local controller only
through that controller's session: `SubmitRule` appends to the submission queue, a
detached thread takes the rule, makes the RPC (without a deadline) and appends
the answer, `GetResult` blocks for the answer.  Answers carry no identity: the
caller casts what it pops.

A stage connects to the local controller's socket; a thread accepts it and queues
a `HandshakeSession`.  The local controller's main loop takes one stage at a
time, performs the handshake, starts a `DataPlaneSession` on a socket of
its own, sends the housekeeping rules through it, announces the stage to the
core and leaves its session in `preparing_data_sessions_`.  When the core marks the stage
ready a handler moves the session to `data_sessions_`, from where on only handlers use it.
The handlers run on gRPC threads.

What is hard: registrations that overtake the loop; an answer taken by the wrong
caller; sessions erased while stages of theirs are queued or their threads
run; local controllers that crash and register again, which adds a second thread to an
existing session; stages that die between any two steps; a flag
(`change_in_system`) that is set, read and cleared in different rounds; rates
that are not sent because they changed too little; integer division; maps, a
vector and a counter that the local controller's main loop and its handlers
change without a lock; writes to sockets whose peer has gone; rules that are
parsed from the same text in three places.
`PROJECT.json` lists these hazards, each at its line.

## 2. Modules

| Module | What it is |
|---|---|
| `RequestChannel` | what a session promises: answers in the order of the requests, at most one for each |
| `Session` | the queue pair with its threads, at the grain of the code's critical sections |
| `MCSession` | its instance for TLC |
| `Session_proofs` | theorems about `Session` |
| `RateAllocation` | the arithmetic of DYNAMIC_VANILLA, of DYNAMIC_LEFTOVER and of the division among stages, as pure operators |
| `AllocationRounds` | a machine that walks through vectors of demands and rounds of DYNAMIC_LEFTOVER, and the properties of the division; extends `RateAllocation` |
| `MCRateAllocation` | its instance |
| `FoldLemmas` | lemmas on folds over sequences, sums over finite sets and induction, used by the three modules below |
| `RateAllocation_proofs`, `AllocationRounds_proofs` | lemmas about the division, theorems about the machine |
| `CoreControl` | the core's feedback loop with registrations, sessions, local controllers, stages, administrator and failures; extends `RateAllocation` |
| `MCCoreControl` | its instances |
| `CoreControl_proofs` | theorems about `CoreControl`: requests and answers, sessions, trackers |
| `CoreRates_proofs` | theorems about `CoreControl`: the rates and limits it sends, and its types |
| `StageRegistry` | what the local controller promises about its stages, without threads and messages |
| `LocalControl` | the local controller with its acceptor, main loop, session threads, handlers, dying stages and a core that may stop |
| `MCLocalControl` | its instance |
| `LocalControl_proofs` | theorems about `LocalControl`, and its refinement of `StageRegistry` |
| `RulesFileParser` | the conversions between names and values of housekeeping rules |
| `Housekeeping` | the way of the housekeeping rules from the file to a stage, and of a rate to the channels they created |
| `MCHousekeeping` | the rules files it is checked with |
| `Housekeeping_proofs` | theorems about `Housekeeping` |

### Session

State: the two queues, `working_session_`, and for each thread where it is
(`pc`) and the rule it holds.  Each critical section of the code is one action:
`SubmitRule`, `GetResult`, the two halves of `RemoveSession` (the flag is cleared
before, and outside, the lock under which the empty rule is enqueued), and for
a thread `StartSession`, the test of the `while` loop, one evaluation of the
wait's condition, a spurious wake-up, and the call with the enqueuing of its
answer.  `notify_one` wakes any one waiter.  A rule is its position in the
order of submission; contents play no role in the queues.  The local
controller's copy of the class has the same code, so there is one model.

`RequestChannel` is the abstract specification.  `ImplementsChannel` is the
refinement `Session => RequestChannel` for a session with one thread.  With two
threads it does not hold (answers overtake each other), which is why
`session_two` checks only that no request is lost or answered twice.

### RateAllocation

`VanillaAllocation` folds `Assign` over the jobs in the order of
`job_location_tracker` (a `std::map`, so the order of names, given as the
sequence `JobOrder`).  Division truncates towards zero, as in C++.

`LeftoverAllocation` does the same for DYNAMIC_LEFTOVER, and `LeftoverEnforced`
adds what follows: which jobs keep their previous rate (`Maintained`) and how
much the others are reduced.  The code computes in `float` and `double`; here
fractions are exact (`demand * 0.95` is compared after multiplying by 100), so
rounding errors of the floating-point unit are not in the model.  Two steps of the
code are undefined: the division by a total usage of 0, and the way of a negative rate
through unsigned numbers.  The operators return whether they happen (`defined`).

`AllocationRounds` is the machine around the operators: rules of the administrator change
one demand at a time, and a round of DYNAMIC_LEFTOVER sees any usage, whatever the
round before saw.  It stops where a round was undefined.  Its jobs, limits, demands
and usages are constants: `AllocationAssumption` says that there is a job, that no
job occurs twice (the keys of a `std::map`), that demands and usages are
natural numbers and that a limit is at least 1 IOPS for each job.

### CoreControl

`pc` names the places of the main loop: a step runs from one place where the
thread can block, or where a registration can make a difference, to the next.

| Action | Code |
|---|---|
| `LocalStart`, `StageStart`, `EnqueueRule` | `register_local_controller_session`, `register_stage_session` up to the end of the lock, `enqueue_rule_in_queue`, with what leads to the call |
| `CountLocal`, `CountDataPlane` | the counter, which the two registrations raise after the lock |
| `WaitForLocal`, `LoopCondition`, `EndRound`, `WakeUp` | `execute_feedback_loop`; its condition reads the counter of stages in a step of its own, after the two of local controllers |
| `Exit` | the log message and `_exit`: registrations go on between the end of the loop and this step |
| `HandleLocalController`, `CallLocalHandshake` | `handle_local_controller_sessions`, `call_local_handshake` before and after the answer |
| `HandleDataPlane`, `MarkDataPlaneStageReady` | `handle_data_plane_sessions`, `mark_data_plane_stage_ready` before and after the answer |
| `CollectStatisticsGlobal`, `CollectStatisticsGlobalSend`, `CollectStatisticsResult`, `DisconnectLocals` | `collect_statistics_global`, `..._send`, `..._collect`, `collect_statistics_result`, `remove_stage` |
| `ComputeAndEnforce...Rules`, `CollectEnforcementRuleResults` | the three strategies with `update_job_demands` and `send_enforcement_rule`; `collect_enforcement_rule_results` |
| `SessionSend`, `SessionReply` | the session's thread; the handlers `LocalHandshake`, `MarkStageReady`, `CollectGlobalStatistics`, `CreateEnforcementRule` of the local controller |
| `StageStop`, `LocalStop` | a stage or a local controller dies, at any time |

Here a session is reduced to its two queues and the calls under way (as many as
the session has threads): `Session` shows that this is what the queue pair does.
`at()` on a missing key, a null session and a failed cast end the process:
the main loop goes to `crashed` with a `fault`.  Erasing a session whose thread
waits on the condition variable inside it is undefined behaviour; the model
allows both what a `pthread` condition variable does (its destructor waits for a
waiter that nobody wakes: `hung`) and that the erasure returns.

Simplifications:

- A local controller's process starts and calls the core in one step, and so does a
  stage that has been prepared: what lies before the call is in `LocalControl`.
- A thread between the entry in a queue and the counting of it is not named: the
  counter is behind the queue by the number of such threads.
- C++ leaves open in which order the three counters of the loop's condition are
  read; the model reads them as they are written.  The main loop alone changes
  `m_active_local_controller_sessions`, so it may be read together with the first.
  The test of `queue.empty ()` outside the lock in the two handling functions is one
  step with what follows it.
- `m_active_data_plane_sessions` of the core is left out: nothing reads it.
- Rules of the administrator are of the kinds `job` and `demand`; each operation
  has one channel, so the limit of a stage is not divided again.
- The order of `unordered_map` iterations is a nondeterministic choice where it
  matters (the order in which answers are read) and left out where it does not.
- A handler of the local controller is one step, at the time it answers.  A
  rule for several stages whose handler gives up at a dead stage installs it in
  any subset of the living ones.
- With debug messages on, an enforcement answer of the wrong kind is a null
  dereference; the model takes this build.
- The rates of DYNAMIC_LEFTOVER come from floating-point arithmetic on measured
  rates; they are any of `LeftoverRates`, a set of integers (section 5 says how
  the computation comes to a negative one), and the code's decision to send is
  kept (margins of 1 % and 5 %).
- The "aggregated" request of DYNAMIC_LEFTOVER reaches the local controller's
  `CollectGlobalStatistics`: `src/networking/local_interface.cpp:282` calls that
  method.  `CollectGlobalStatisticsAggregated` is never called, and not modelled.

### LocalControl

| Action | Code |
|---|---|
| `StageStarts`, `StageDies`, `StageConnects` | the stages: processes that connect, and may die at any time |
| `AcceptStage`, `CountPending` | `LocalConnectionManager::Start` and `register_stage_session`: the queue is changed under a lock, the counter after it |
| `LoopCondition` | the loops of `execute_feedback_loop`, which read the two counters one after the other |
| `TakeStage`, `CreateSession`, `EndHandshake` | `handle_data_plane_sessions` and `call_stage_handshake`, split where they wait for answers |
| `SubmitRules`, `ReadRuleAnswer`, `CheckRules` | `submit_housekeeping_rules` and the comparison with the size of the vector |
| `ReadReadyAnswer`, `AnnounceStage`, `CountActive` | `mark_stage_ready`, `ConnectStageToGlobal`, the counter |
| `HandshakeSend`, `SessionSend` | the threads of `HandshakeSession` and `DataPlaneSession` with the calls of `PAIOInterface` |
| `LocalHandshake` | one rule pushed to the vector for each step |
| `ExtractStage`, `InsertStage` | the two operations on maps of `MarkStageReady` |
| `CallCollectGlobalStatistics`, `CollectAnswer`, `RemoveLost`, `EndCollect` | `CollectGlobalStatistics`: submission, an answer at a time in any order, removal |
| `NextEnforcement`, `LocalPassthru`, `EnforcementAnswer` | `CreateEnforcementRule` for each stage and channel |
| `Call...`, `CoreStops` | what the core can ask, and how what it learns from the answers changes what it asks next |

A write to a dead stage raises SIGPIPE, which ends the process unless
`collect_global_statistics` has run before; or the write still succeeds and the
read fails (`KilledWriting` is one of two choices).  A stage whose handshake
fails makes `CreateSession` wait for the answer of a thread that has ended, as
in the code.  `SubmitRules` either misses the rules that `LocalHandshake` adds while
it runs, or crashes (the vector was reallocated).

`core` is what the core controller knows of this local controller, for every control
type.  Two things about it are easily missed.  The core may know the address from a
process that ran there before (`CoreInit`, `core.former`): it has a session then, goes
on with its control cycle before it has seen the new registration, and keeps the old
stages as long as the answers are not empty (`StillTracked`); a rate for one of them finds no
session (`LocalPassthru`).  And under DYNAMIC_LEFTOVER statistics are asked for in one
round and rates are sent in a later one: a local controller that got its first stage in
between is sent rates in a cycle in which it was never asked (`TurnAfterTaking`,
turn `unasked`), and one that *was* asked and is then told of a new stage takes
part in finding 2 of section 5, which ends the core (`EndsByTakingTurn`).

Simplifications:

- An operation on a `std::unordered_map` is atomic.  Two at once are
  undefined behaviour, which this module does not show to be absent.
- The calls of the core are served one at a time.  They are, except that a session with two
  threads (a restarted local controller) may have two calls open.  Those that the core
  submits without waiting are the rules of one round, which are for different jobs and so
  for different stages, and under DYNAMIC_LEFTOVER a STAGE_READY beside a collection, after
  which the core ends; that the two handlers then use `data_sessions_` at once is the case of the
  point above.
- A stage of the former process whose registration is still queued at the core counts as
  tracked.  A living stage does not connect again under its old name.
- The channels that `LocalHandshake` records are all for one operation, which is the
  one that rates are sent for; names of stages are distinct on a node (the name
  contains the process id); the rules of one call of the core are for a set of
  stages; `signal` and the writes after it are one step.
- `early`, `announced`, `installed` and `core.former` are history for the properties.

`StageRegistry` is the abstract specification: stages wait in order, one is taken at
a time, announced or set aside, managed, given up.  `ImplementsRegistry` is the
refinement: the stages *announced* there are those whose session is in
`preparing_data_sessions_`, or on its way to `data_sessions_`, after the announcement.
It fails as soon as a session is in two places or in none.

### Housekeeping

A line of the file is a sequence of tokens, a string that the controllers exchange
is a sequence of its fields.  `get_create_channel_rules` and
`get_create_object_rules` take one line in each step; `initialize` is the core's
way to its operations; `LocalHandshake` takes one rule in each step, and
`create_housekeeping_rule` sends one to a stage; `CreateEnforcementRule` is a rate
of the core that follows them.  Reading a vector beyond its end is undefined in
the code; the model goes to the phase `"undefined"` and stops there.  Numbers in
the file stay text (`std::stol` of what `std::to_string` printed is the number).

`RulesFileParser` holds the enumerations as sequences (a value is a position)
and the conversions as they are: each switch has its own list of names, and the model
has its own set for those that leave some out (`PrintedPosix`).

## 3. Runs

| Run | Instance | Question |
|---|---|---|
| `session_one` | 1 thread, 4 requests, with fairness | Is the queue pair a FIFO channel, without lost wake-ups, that answers everything and whose removal ends the thread? |
| `session_two` | 2 threads, 3 requests | Do two threads on one session still take every rule exactly once? |
| `allocation` | 3 jobs, VANILLA: 7 values of demand, limits 3 to 31; LEFTOVER: 3 values of demand, 3 of usage, limit 300, 3 rounds | Is the limit used up and not exceeded, does every job get its fair share, whom does the order of the jobs favour; do rates that are kept over rounds exceed the limit, is a job starved below what it uses, when is a round undefined? |
| `core_vanilla` | 2 local controllers, 3 stages, 2 jobs, one change of demand | Do the trackers agree, do stages have the limits last computed, how far can the limits in force exceed `system_limit`, are only lost stages dropped? |
| `core_static` | STATIC, 1 local controller that may start twice, 2 stages of two jobs of which one may die, 2 operations, a rule for each job, with fairness | Are rules enforced whatever came first, which rules do a limit's rate and operation come from, which registered stages are handled and which dead stages forgotten? |
| `core_leftover` | DYNAMIC_LEFTOVER, two stages with the same process id on two nodes, local controllers that start twice, of which one may stop | Do collections that stay open over rounds, and a second thread on a session, keep requests and answers in step, and does the core stop its loop only when it manages nothing? |
| `housekeeping` | one file for each definition of the parser, next to the shapes of the files in `files/`, and incomplete files; 4 rates | Does what the parser read arrive at the stages, do the controllers agree, which files lead out of the defined behaviour? |
| `local` | 2 stages, of which one may refuse rules, or 1 beside a stage of a former process; 2 housekeeping rules; with fairness | Do the acceptor, the main loop and the handlers keep maps, counter and answers right; does the local controller implement the registry; what can block, crash or kill it? |
| `core_no_session` | 1 local controller, 2 stages | violated: a stage's session may be gone |
| `core_bad_cast` | DYNAMIC_LEFTOVER, 1 local controller | violated: an answer is read by the wrong caller |
| `core_static_join` | STATIC, one job on two nodes | violated: a joining stage is not limited |
| `housekeeping_posix` | the files of `housekeeping` | violated: some definitions are lost on the way |

Bounds.  `MaxRequests` bounds SubmitRule calls: the queues are FIFO and rules are
alike, so three or four show every overtaking.  Two local controllers are needed
for a job that is spread and for one answer overtaking another; three stages for
two jobs of which one has two stages; two starts for a second thread, and for
stages that only a former process knew.  `Failing` says in each run which local
controllers and stages may fail: all of them in `core_static_join`, in `core_no_session` and
in `core_bad_cast`; one of two local controllers, which is enough for one to go and for one to
stay, in `core_vanilla` and `core_leftover`; the local controller and one of the two
stages in `core_static`, so that the other stage keeps the answers of a restarted local controller
from being empty.
A stage identity starts and dies once; a process that starts again is a new
stage with a new process id.  `COLLECT_ROUNDS` is 2 (5 in the code): one round in
which a collection is open and nothing is enforced, which is the case that
matters.  `IOPS_THRESHOLD` is 2 or 3 (10) with limits scaled accordingly.  In
`core_vanilla` the exact limit is exceeded (14 against 13), so the
slack in `SystemLimitWithinThreshold` is used and the property is not idle.
In `allocation` the limit of 300 makes margins of 1 % and 5 % several units wide;
demands of 100 and 104 lie within the wide margin and outside of the narrow one;
two rounds are needed for a rate to be kept, three for one that is kept twice, and `LeftoverWithinLimit` speaks of
the rates after each round.  In `local` two stages are enough for one to be
prepared while another is managed, collected and lost; two rules for one that
arrives during the loop over the first; two channels for an answer to be left
behind when the first is refused.  `MaxStages` bounds the stages of the present and the former
process together to two: one stage of the former process is enough for the core to
track, to ask for and to send rates to a stage that is not there, and one new stage for the answers not to be
empty.  The theorems hold for any number of either.  The rules of `housekeeping` are independent of each
other but for their order and for channels of the same operation, so files of four
rules and the one of three channels show every case.

Deadlock checking is off for `Session` (the application may stop), for
`CoreControl` and `LocalControl` (a controller exits, fails, or waits when every
bound is used up), for `Housekeeping` (the rules are there) and for
`MCRateAllocation` (a round was undefined).

Fairness.  Threads are scheduled by the operating system: weak fairness of the
main loop, of each session thread, of a gRPC thread that has entered a registration in its
queue and is to count it, and of the answer to a call under way, since
a handler ends or its process dies, which fails the call.  The calls have no
deadline, so a peer that hangs for ever blocks the core for ever; the
liveness results assume that none does.  Nothing is assumed about starts,
failures and the administrator.  In `Session` also `GetResult` (callers ask for
every answer) and the second half of `RemoveSession`.  The liveness properties
allow for the core's failure, which `core_no_session` shows to be possible.

In `LocalControl` the main loop, the handlers, the acceptor and each session
thread are weakly fair, and so is a living stage that connects to the socket it
was told.  The core calls again and again (weak fairness of `CoreCalls`); it marks a queued stage
ready in any of its control cycles, each of which looks at the queue once: a stage
that is queued just after the look waits for the next cycle, so
`CallMarkStageReady`, which is enabled again and again but not continuously, has
strong fairness.  `HandshakeEnds` excepts the death of the stage that is being
prepared: then the main loop may wait for ever, in `GetResult` or for a
thread in `accept`.

## 4. Proofs

`Session_proofs` proves, for every value of the constants:

- `TypeCorrect`: `SafetySpec => []TypeOK`, for any set of threads and any bound.
- `SingleThreadFifo`: with one thread, `SafetySpec => []FifoPairing`: the k-th
  `GetResult` returns the answer to the k-th `SubmitRule`.
- `SingleThreadImplementsChannel`: with one thread the initial states are
  initial states of `RequestChannel` and each step is one of its steps or a stutter.

They assume only `ThreadsAssumption`, `MaxRequestsAssumption` and, for the last
two, that `Threads` is a singleton.  `FifoPairing` is not inductive: it says
nothing of rules that are not yet answered.  The invariant `FifoInv` says that the
answers handed out, then those in the completion queue, then the rule being sent,
then, while the application has not called `RemoveSession`, those in the
submission queue are the numbers 1, 2, ... without gap.  Each action moves the
boundary between two of these parts by one place.  After `RemoveSession` the
submission queue no longer matters: the invariant also says that
`working_session_` stays false from then on (the only thread has set it before
the first answer came), so nothing is dequeued any more.

- `EveryThreadExactlyOnce`: `SafetySpec => []ExactlyOnce`, for any set of threads.
  `OnceInv` adds to it that everything in the queues, in the threads and among the
  results is a number up to `submitted`, without which a new rule could
  be there already.  A step takes a rule from one place and puts it in another;
  the lemmas say what `Append` and `Tail` do to the places of each rule.
- `SingleThreadWakesUp`: with one thread, `SafetySpec => []NoLostWakeup`.

`Housekeeping_proofs` proves, for every rules file and every set of rates:

- `EveryFileOperationsAgree`: `Spec => []OperationsAgree`.  The property is about the
  moment at which all rules have arrived; the invariant `HandshakeInv` says for each
  moment before it that the local controller has the operations of
  exactly the rules that arrived, and that the core's are those of all strings.  How a string is
  parsed does not matter here (`parse_rule` and `OperationOf` stay unexpanded), only that
  both controllers do the same: the proof is about the loops.
- `EveryRuleArrivesAsRead`: `RulesArriveAsRead`.
- `EveryMissingTokenExplained`: `MissingTokensExplained`.
- `EveryRateSplit`: `RateSplitAmongChannels`.

The last three rest on `RulesInv`.  It follows a rule on its way: every rule of the parser comes from
a line of the file that is long enough, and its string is that rule converted
(`RulesFromFile`); what the local controller keeps is what was sent (`RulesKept`); what the
stage has was made of a string with all its fields (`StageRules`); the channels recorded for an
operation are those of the strings that have come so far (`ChannelsKnown`); no
line with a channel is left out (`ChannelsRead`).  The rest is about the conversions, one lemma for each
definition (`PosixConverts`, `KvsConverts`, ...): what a switch prints is never empty if the
context is known, the value of the printed name is the value that was printed, or the name
is one that is printed as `no_op` or as `delete_`.  So `parse_rule` at the other end drops no
field (`ParsedString`), a rule is taken apart into the fields it was put together from
(`ChannelArrives`, `ObjectArrives`), and a field is missing only if the context was not known
(`LackingFields`).  That the channels to which a rate goes are those of the stage is `ChannelsOfStage`;
the arithmetic of the division is `EqualParts`.

The proofs assume `RatesAssumption` (a rate is an integer and not negative) and `FilesAssumption`: a
file is a finite sequence of lines, each a finite sequence of tokens that are not
empty.  The parser makes no empty token (`src/src/utils/rules_file_parser.cpp:62-71`); with one,
an identifier could be empty and the fields behind it would shift.

### LocalControl

`LocalControl_proofs` proves all eight safety invariants of the run `local`, and
the refinement, for any finite or infinite set of stages, any housekeeping rules
of the present and of the former process, and any stages that refuse rules.  It assumes
`NoStageAssumption`, `OldStagesAssumption`, `RulesAssumption` and `RefusingAssumption`,
which only say what kind of value each constant is and that a stage of the former process is not
a new one.

| Theorem | Property |
|---|---|
| `TypeCorrect` | `TypeOK` |
| `StagesAnnouncedWithRules` | `AnnouncedHasRules` |
| `ActiveCountExact` | `ActiveCounted` |
| `NoSessionShared` | `SessionHandedOver` |
| `NoAnswerLeft` | `AnswersConsumed` |
| `ExitIsLast` | `ExitAbandonsNoStage` |
| `SessionsFound` | `NoNullSession` |
| `OnlyPreparedStagesKill` | `ManagedStageNeverKills` |
| `LocalControlImplementsRegistry` | `ImplementsRegistry` |

None of the properties is inductive by itself; one invariant, `Inv`, carries them
all.  It follows each stage from the socket to the maps: who waits is waiting once and
has no session yet (`WaitingInv`, `FreshInv`), what main knows about the stage it
prepares (`MainInv`), which map a stage is in at each line of a handler
(`CallInv`), and who is using which session: a session that neither main nor a handler
uses is quiet, and one that is used has one request under way or its answer
(`UseInv`).  `RulesInv` counts the housekeeping rules of the stage in preparation:
those read and those still under way make up those submitted, and as long as no answer is
an error the stage has installed as many as were answered.

`SessionsFound` and `OnlyPreparedStagesKill` are about the ways in which the local controller may
end, and say that there are no others.  For the first, `CallInv` keeps what the core
tracks and the maps together: apart from stages of the former process the core tracks
exactly those with a session, and one that is on its way between the maps; so a rate for a
stage without a session is one for a former stage.  For the second, `SigpipeInv` says that once the
core is past a collection that it asked for, SIGPIPE is ignored or no stage is managed
(`Safe`), and that a stage is not marked ready between such a collection and the rates
that follow it; what is left are the cycles without a collection (`core.turn = "unasked"`).

For the refinement the initial states map to initial states.  `AcceptStage` maps to
`Connect`, `TakeStage` to `Take`, `AnnounceStage` to `Announce` or to `SetAside`
(the core is gone), `CheckRules` to `SetAside` when a rule was refused,
`InsertStage` to `Manage`, `RemoveLost` to `GiveUp`; every other step is a stutter.

### RateAllocation

`RateAllocation_proofs` has the lemmas about the operators and
`AllocationRounds_proofs` the theorems about the machine, for any number of jobs, any
limit, demands, usages and any number of rounds, under `AllocationAssumption`.

- `VanillaHandsOutTheLimit`, `VanillaIsFair`, `VanillaFavoursLaterJobs`: the
  three properties of DYNAMIC_VANILLA.  The loop over the jobs is a fold; its invariant is that
  what was handed out and what is left make up the limit, and that the share,
  `TruncDiv` of what is left among the jobs that are left, only grows from one job to the
  next, because no job takes more than its share.  So each job gets at least the
  first share or what it asks for, and a later one no less than an earlier one that
  asks for no more; the last job takes what is left.
- `LeftoverKeepsWhatIsUsed`: the first phase gives each job what it uses, bounded by its
  demand and by its share; the second phase only adds.
- `LeftoverStaysWithinMargin`: the rates in force are at most 101 % of the limit, over
  any number of rounds.  After a round in which the system is busy every rate in force is
  within 1 % of the one computed, and those share the limit; after one in which it is not,
  the rates sent are reduced to what the kept ones leave, unless none is sent and
  everything stays as it was.
- `LeftoverIsDefined`: `UndefinedExplained`, from the same invariant.

`FoldLemmas` supplies what these need: a fold over a sequence is a function on its
prefixes that exists; a property that holds at the start and is kept by every step holds at
the end; a sum over a finite set of jobs is a natural number, is monotone, and splits at
an element.  The library's induction theorems take an operator as a parameter,
which no prover here can instantiate.  `FoldLemmas` takes a *set* of numbers in the operator's place
and derives induction from the least element of a non-empty set of
natural numbers.

### CoreControl

The invariant `Flow` is the frame of every proof about the core.  `Places` says for
each place of the main loop what `todo` holds; `RoundsCounted` that the local
controllers asked in a collection that is open all oversee stages; `Departing` that
those about to be disconnected have none left; `SessionsTyped` and `LocalsTyped` which requests and
answers sessions hold.  On it rest, without any assumption beyond
`CoreAssumption`:

- `AnswersMatchRequests`: `SessionsInStep`.  `InStep` counts for every session: what it has
  under way is what the main loop waits for, and one more if a collection is open.  The hard
  step is the sending of rules: as many requests enter a session's queue as
  `InOrder` lists jobs of the local controller, and as many answers are due as
  there are pairs of the local controller and such a job.
- `TrackedStagesReachable`: `TrackedLocalsHaveSessions`, with `FaultStops`.
- `ExitsWhenIdle`: `ExitOnlyWhenIdle`, with `Counted`: there are no more sessions than
  `active_locals` counts, except between the entry of a session and its count.  It says
  nothing of the queues, in which registrations may be left (section 5): from the reading of
  `m_active_local_controller_sessions` to the exit the main loop alone could add a session,
  and a stage without a session is not tracked.
- `LostStagesOnly`: `OnlyLostStagesDropped`, under STATIC and DYNAMIC_VANILLA (under
  DYNAMIC_LEFTOVER the answer read may be a wrong one, finding 2).
  `AnswersJustified` says that whatever an answer under way reports lost is dead or
  forgotten; it holds because a session has one request during a collection, so
  the answer read first is the one to the question, and because a restarted
  local controller has forgotten all of its stages.

One result about the trackers needs a hypothesis:

- `TrackersStayTogether`: `TrackersAgree`, if stages with the same key run on the same node
  (`KeysTellNodes`).  Without it the property is false (section 5): `stage_info_detailed` has
  one entry for two stages with the same job and process id on two nodes.  No assumption of this kind is in `CoreControl`, and
  `core_leftover` has such stages.

`CoreRates_proofs` is about what is sent:

- `SystemLimitKept` (DYNAMIC_VANILLA, threshold of at least 1, limit of at least
  1 IOPS for each job): `SystemLimitWithinThreshold`.  The rates in force are not those
  computed last, nor those of any one round; the invariant `WithinShares`
  says that there are rates which share the limit and of which each rate in force is
  within the threshold.  A round replaces them by those just computed, a new job enters
  with 0, a job that goes takes its own away.
- `DemandsAreEnforced` (STATIC, threshold of at least 1, `KeysTellNodes`): `DemandsEnforced`.
  `DemandsFollowed` says that a demand which the rate in force does not meet is
  not forgotten: the change that brought it is still marked in `change_in_system`, which
  stays so until the rules of a round are out.
- `LimitsFollowRules` (STATIC, threshold of at least 2): `LimitsComeFromRules`.
  The invariant follows the numbers along their way: a job's demand is the latest rule
  about it, a rate is that demand or one of before; `active_op` is the operation of the latest rule
  of all; a request queued or under way in any session joins a rate and an operation of
  one moment, and so does a limit in a stage.  Each is traced to two rules that were taken from the
  queue, the latest about the job and the latest about anything at that moment, and
  rules that are taken later change nothing about that moment.  The division
  among stages only makes a limit smaller.
- `LimitsFollowRates` (DYNAMIC_VANILLA, rules about one operation, `KeysDistinct`, at most
  one start of each local controller): `LimitsAgree`.  `LimitsFollowed` says, for every
  place of the loop at which no change of the system waits to be acted on, that each
  working stage has its part of its job's rate *or* that the rule which gives it that part is still
  under way in the session of its local controller.  Three invariants keep that rule
  from going astray.  `CallsKnown`: a rule is under way only while the loop waits for its
  answer, so what it says about rate, number of stages and envs is what the trackers
  still say when it arrives.  `Welcomed`: a local controller with a session has the
  housekeeping rules, or the handshake that brings them is under way.
  `SettledStays`: no stage starts to work unless the loop made it ready, which marks a change
  and makes the next round send all rates, those below the threshold too.
  `RuleArrives` is then that the handler neither gives up at a dead stage nor meets
  one without a session, since the stages with which a working stage shares a rule work.
  Each hypothesis is needed: TLC finds a counterexample without it (section 5).
- `CoreTypeCorrect` (threshold of at least 2, and `NoNegativeRates`): `TypeOK`.  Two of its
  conjuncts are not about types alone.  A session has as many threads as registrations of its
  local controller were handled, so threads and registrations still queued are bounded
  by the starts (`StartsCounted`).  A limit is a natural number only if no negative
  rate is computed, which needs 1 IOPS for each job under DYNAMIC_VANILLA and is not
  guaranteed under DYNAMIC_LEFTOVER (section 5).

The hypotheses on the threshold hold in the code, where it is 10
(`src/include/cheferd/controller/core_control_application.hpp:16`).  With a threshold of 1, STATIC would send
−1 to a job without a demand.

### Model-checked only

Liveness (`RequestsAnswered`, `RemovalStopsThread`, `StageHandled`, `LostStageForgotten`,
`HandshakeEnds`, `LostStageDropped`): temporal reasoning under fairness is out of the
prover's reach.  `ImplementsChannel` and `ImplementsRegistry` include no fairness; for
the first, `SingleThreadImplementsChannel` is the same statement step by step.
Every invariant that a passing run checks is also stated by a theorem, under the hypotheses
named above.

## 5. What the runs found

1. **A stage of a forgotten local controller stops the core** (`core_no_session`).
   When the last stage of a local controller is lost, its session is erased.  A
   stage already queued for it, or one that registers later through the same
   process, makes `local_sessions_.at` throw (`CORE:801`).
2. **Answers are mixed up under DYNAMIC_LEFTOVER** (`core_bad_cast`).  While a
   collection is open a stage is handled through the same session: it takes the
   statistics as its acknowledgement, and the collection then dereferences a
   failed cast (`CORE:923`).
3. **Joining stages are missed under STATIC** (`core_static_join`): only the
   job's rate decides whether to send, not the number of stages by which it is divided.
4. **Some definitions are lost on their way** (`housekeeping_posix`): most POSIX
   operations are printed as `no_op`, and the key-value store's delete as
   `delete_`, so channels for them reach the stages without an operation.

Met while modelling, without a run of their own: a rule about one operation makes
the core enforce all jobs' rates for that operation (`active_op` is one value,
`CORE:842`), so `README.md:107`, "Limit app1's getxattr operations to 5000 IOPS", does not hold
when a rule about another job and operation is read before the job's rate is sent: the rate
is then enforced for the other operation, and `getxattr` is not limited
(`LimitsComeFromRules` says what does hold, and `core_static` has two operations for this
reason); a registration that is counted after the loop has read its counter is acknowledged to the
local controller and abandoned by `_exit` (`CORE:58-62`, `80-85`, `124-128`, `198-199`; the
exceptions in `ExitOnlyWhenIdle` and `StageHandled`); a dead stage of a restarted local
controller is kept, with its part of the job's rate, as long as the new process has a
stage that answers, since it is neither named in the answer nor is that empty
(`CORE:923-946`; the exception in `LostStageForgotten`); the first rate for
such a stage dereferences a null session and ends the restarted local controller
(`LOCAL:737`, `NoNullSession`); under DYNAMIC_LEFTOVER a local controller whose first
stage was marked ready while a collection was open is sent rates before its first
collection, so a stage that died since ends it by SIGPIPE (`CORE:164-177`,
`478-484`, `ManagedStageNeverKills`); a local controller
that registers again is counted twice, so the core never exits (`CORE:659`); two
stages of one job with the same process id on two nodes share an entry of
`stage_info_detailed` and removing both throws (`CORE:961`, inside `core_leftover`);
DYNAMIC_VANILLA is order-dependent and hands surplus to jobs that did not ask for
it (`LaterJobNotWorse` says whom it favours); `RemoveSession` is followed at
once by the erasure of the session in which the thread still runs (`LOCAL:428`);
under DYNAMIC_LEFTOVER `change_in_system` is cleared in rounds that enforce
nothing, so `LimitsAgree` does not hold there and a stage that joins in such a
round keeps its first limit (`CORE:184`); a job without a demand, a demand of less than 4 IOPS (a quarter of which is a rate of 0, by
which the code then divides), or jobs that all use less than 1 IOPS, make
DYNAMIC_LEFTOVER undefined (`UndefinedExplained`); a stage that connects
before the core's handshake never gets the housekeeping rules (the exception in
`AnnouncedHasRules`); a stage that dies while it is prepared may end the local
controller by SIGPIPE or block its main loop for ever (`ManagedStageNeverKills`,
`HandshakeEnds`); `mark_stage_ready` succeeds whatever the stage answers (`LOCAL:708`); an
object of 8 or 9 tokens, which the parser accepts, is read beyond its end
(`MissingTokensExplained`).

Met while proving, where a theorem needs a hypothesis:

- *DYNAMIC_LEFTOVER can put a negative rate in force* (`CORE:553-569`).  The rates that jobs
  keep may by themselves exceed the limit, by up to 1 %; what is left to divide is then
  negative, and so is the rate of a job that is sent one.  With a limit of 1000 and
  demands of 1000, 600 and 4, four rounds lead to a rate of −2 for the third job.  The total still
  stays within 101 % of the limit (`LeftoverStaysWithinMargin` covers this case), and
  a negative rate is never kept for another round.  `CoreTypeCorrect` excludes it with
  `NoNegativeRates`.
- *Two stages with the same job and process id on two nodes* share one entry of
  `stage_info_detailed`, so the trackers part (`CORE:768`); hence `KeysTellNodes` in
  `TrackersStayTogether` and `DemandsAreEnforced`.  When the one dies, the other is no longer
  told its rate; hence `KeysDistinct` in `LimitsFollowRates`.
- *A rule is lost when a local controller restarts* (`LOCAL:327`, `CORE:884-905`).  A local controller
  registers, has its handshake, stops and registers again, and a stage of the new process is
  handled before the new process has had its handshake, which is queued for the next
  iteration.  The stage's rule then finds no housekeeping rules, the local controller
  answers with 0 and CANCELLED, the core only logs that, and `change_in_system` is
  cleared: the stage keeps its first limit until its job's rate moves by the
  threshold.  `LimitsAgree` fails in 27 states on `core_vanilla` with `MaxStarts = 2`;
  hence at most one start in `LimitsFollowRates`.
- *Rules about several operations*: the next rule changes `active_op`, and
  DYNAMIC_VANILLA does not send the rates that moved by less than the threshold for the new
  operation (`CORE:842`); hence `OneOperation`.
- *A channel for the key-value store's delete may be taken for another* (`src/src/utils/rules_file_parser.cpp:716`).
  The controllers know the operation as `delete_`.  To the stage that name says nothing, so it
  takes the channel as one for the operation context instead.  With a channel of type
  `delete` and context `get`, the stage has one more channel for `get` than
  those that share the rate of `get`; hence `delete_` is left out of `RateSplitAmongChannels`, and
  `MCHousekeeping` has such files (`DeleteFiles`).
- *A limit of less than 1 IOPS for each job* makes the share of DYNAMIC_VANILLA 0, while
  a job without a demand still gets 1 IOPS, so the limit is exceeded; hence the bound in
  `AllocationAssumption` and in `SystemLimitKept`.

## 6. Not modelled

- `stop_feedback_loop`, `StopController` and `LocalConnectionManager::Stop`: no
  program calls them; the controllers end with `_exit` in their loops.
- `CollectGlobalStatisticsAggregated` and `StageHandshake` of the local controller,
  `RemoveRule` and `collect_statistics` of the sessions: never called.
- What concurrent operations on one `std::unordered_map`, or the use of an erased
  session by its thread, do: undefined behaviour whose outcomes a model cannot
  name, except where a run needs them (the reallocated vector, the erased
  session in `CoreControl`).
- Rounding of `float` in DYNAMIC_LEFTOVER.
- The layout of structures and protocol buffers, the set-up of sockets and
  servers, the back-off after a failed `accept`.
- Configuration, command line, policies file, logging, status codes: conversion
  of text, without state that another part reads later.

## 7. Plan

Composition of `CoreControl` with `LocalControl` for one node, with the rates of
`LeftoverEnforced` in place of the set `LeftoverRates`.
