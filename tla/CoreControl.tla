------------------------------ MODULE CoreControl ------------------------------
(* The core controller's feedback loop (CoreControlApplication) together with *)
(* what it talks to: one session per local controller, the handlers by which *)
(* a local controller answers the core, the data plane stages, the system    *)
(* administrator, and the failures of stages and local controllers.          *)
(*                                                                            *)
(* The main loop is one thread; pc names the place where it is, and a step    *)
(* runs from there to the next place where it can block or be overtaken.      *)
(* Registrations arrive at any time on the gRPC server's threads, each of     *)
(* which changes a queue first and its counter after that.                    *)
EXTENDS RateAllocation, FiniteSets

CONSTANTS
    Locals,            \* local controllers, identified by their address
    Stages,            \* data plane stages
    LocalOf,           \* the local controller on the node of each stage
    JobOf,             \* the job each stage belongs to (its name)
    EnvOf,             \* the env each stage announces: its process id
    JobOrder,          \* the jobs, in the order of job_location_tracker
    Ops,               \* operations that have a channel in the housekeeping rules
    FirstOp,           \* the first element of active_ops
    ControlType,       \* STATIC, DYNAMIC_VANILLA or DYNAMIC_LEFTOVER
    maximum_limit,     \* system_limit of the configuration
    IOPS_THRESHOLD,    \* smallest change of a rate that is enforced
    COLLECT_ROUNDS,    \* rounds per collection of DYNAMIC_LEFTOVER
    LeftoverRates,     \* rates the DYNAMIC_LEFTOVER computation may yield
    Policies,          \* rules of the policies file, in order
    HousekeepingRate,  \* limit that the housekeeping rules give a new stage
    MaxStarts,         \* bound on the starts of each local controller
    Failing            \* the local controllers and stages that may fail

\* A map after map.emplace(key, value), which keeps a value that is there, and
\* after the assignment of every entry of other.
Emplace(map, key, value) == IF key \in DOMAIN map THEN map ELSE Put(map, key, value)
PutAll(map, other) ==
    [k \in DOMAIN map \cup DOMAIN other |-> IF k \in DOMAIN other THEN other[k] ELSE map[k]]

Jobs == ToSet(JobOrder)
Key(s) == <<JobOf[s], EnvOf[s]>>
Keys == {Key(s) : s \in Stages}
Envs == {EnvOf[s] : s \in Stages}

ASSUME CoreAssumption ==
    /\ IsFiniteSet(Locals) /\ IsFiniteSet(Stages)
    /\ JobOrder \in Seq(Jobs)
    /\ \A i, k \in DOMAIN JobOrder : JobOrder[i] = JobOrder[k] => i = k
    /\ LocalOf \in [Stages -> Locals]
    /\ JobOf \in [Stages -> Jobs]
    /\ EnvOf \in [Stages -> Nat]
    /\ FirstOp \in Ops
    /\ ControlType \in {"STATIC", "DYNAMIC_VANILLA", "DYNAMIC_LEFTOVER"}
    /\ maximum_limit \in Nat /\ IOPS_THRESHOLD \in Nat /\ HousekeepingRate \in Nat
    /\ COLLECT_ROUNDS \in Nat \ {0} /\ MaxStarts \in Nat
    /\ LeftoverRates \subseteq Int
    /\ Failing \subseteq Locals \cup Stages
    /\ Policies \in Seq([job : Jobs, op : Ops, limit : Nat])

VARIABLES
    \* The core controller.
    local_queue,            \* local controllers that wait to be handled
    local_to_data_queue_,   \* stages that wait to be handled
    pending_locals,         \* m_pending_local_controller_sessions
    pending_data_planes,    \* m_pending_data_plane_sessions
    pending_rules_queue_,   \* rules of the administrator that wait
    local_sessions_,        \* local controllers with a session
    active_locals,          \* m_active_local_controller_sessions
    local_to_stages,        \* local controller -> keys of its stages
    job_location_tracker,   \* job -> local controller -> envs
    stage_info_detailed,    \* key of a stage -> its local controller
    job_demands,            \* job -> demand, -1 if there is none
    job_rates,              \* job -> rate computed in this round, -1 if kept
    job_previous_rates,     \* job -> rate last sent
    active_op,              \* operation that the next rules are about
    change_in_system,       \* a stage came or went since the last round
    rounds_counter,         \* rounds since the last collection
    sessions_sent,          \* local controllers asked in this collection
    sessions_to_delete,     \* local controllers lost in this collection
    todo,                   \* answers the main loop still waits for
    pc,                     \* where the main loop is
    fault,                  \* what stopped the main loop, if anything did
    \* The sessions, the local controllers, the stages, the administrator.
    session,                \* queues of each LocalControllerSession
    local,                  \* state of each local controller process
    stage,                  \* state of each stage: new, running or dead
    limit,                  \* limit installed in each stage for each operation
    next_rule               \* rules of the policies file submitted so far

counters == <<pending_locals, pending_data_planes>>
queues == <<local_queue, local_to_data_queue_, pending_rules_queue_, counters>>
trackers == <<local_to_stages, job_location_tracker, stage_info_detailed>>
rates == <<job_demands, job_rates, job_previous_rates, active_op>>
sessions == <<local_sessions_, active_locals, sessions_to_delete>>
rounds == <<change_in_system, rounds_counter, sessions_sent>>
control == <<todo, pc, fault>>
environment == <<local, stage, limit, next_rule>>

vars == <<queues, trackers, rates, sessions, rounds, control, session, environment>>

-------------------------------------------------------------------------------
(* Requests and responses of a session.                                       *)

LocalHandshake == [type |-> "LOCAL_HANDSHAKE"]
StageReady(s) == [type |-> "STAGE_READY", key |-> Key(s)]
CollectStats == [type |-> "COLLECT_DETAILED_STATS"]
CreateEnfRule(job, op, envs, rate) ==
    [type |-> "CREATE_ENF_RULE", job |-> job, op |-> op, envs |-> envs, limit |-> rate]

\* A StageResponseACK, and a StageResponseStats that maps keys of stages to
\* whether the stage answered.
Ack(ok) == [type |-> "ACK", ok |-> ok]
Stats(alive) == [type |-> "STATS", alive |-> alive]

Idle == [submission |-> <<>>, sending |-> <<>>, completion |-> <<>>, threads |-> 0]
Stopped == [up |-> FALSE, starts |-> 0, handshaken |-> FALSE,
            preparing |-> {}, data_sessions |-> {}]

\* Requests of a session that the main loop has not got the answer of.
Outstanding(l) ==
    Len(session[l].submission) + Len(session[l].sending) + Len(session[l].completion)

Submit(l, requests) ==
    [session EXCEPT ![l].submission = @ \o requests]

Answered(l) == session[l].completion # <<>>
Answer(l) == Head(session[l].completion)

\* Mutant: the answer is read but stays in the completion queue.
PopAnswer_Peek(l) == session

PopAnswer(l) == [session EXCEPT ![l].completion = Tail(@)]

Init ==
    /\ local_queue = <<>> /\ local_to_data_queue_ = <<>> /\ pending_rules_queue_ = <<>>
    /\ pending_locals = 0 /\ pending_data_planes = 0
    /\ local_sessions_ = {} /\ active_locals = 0 /\ sessions_to_delete = {}
    /\ local_to_stages = <<>> /\ job_location_tracker = <<>> /\ stage_info_detailed = <<>>
    /\ job_demands = <<>> /\ job_rates = <<>> /\ job_previous_rates = <<>>
    /\ active_op = FirstOp
    /\ change_in_system = FALSE /\ rounds_counter = 0 /\ sessions_sent = {}
    /\ todo = {} /\ pc = "wait" /\ fault = "none"
    /\ session = [l \in Locals |-> Idle]
    /\ local = [l \in Locals |-> Stopped]
    /\ stage = [s \in Stages |-> "new"]
    /\ limit = [s \in Stages |-> [op \in Ops |-> HousekeepingRate]]
    /\ next_rule = 0

-------------------------------------------------------------------------------
(* Registration: the core's gRPC server threads, called by the local          *)
(* controllers, and the administrator's thread.                               *)

CoreUp == pc \notin {"exited", "crashed"}

\* A local controller process starts, serves the core's requests and calls
\* register_local_controller_session, which enters it in the queue and counts it
\* (CountLocal) after it has left the lock.  Calls of the core that the previous
\* process left unanswered have failed by the time a new one listens.
LocalStart(l) ==
    /\ CoreUp
    /\ ~local[l].up
    /\ local[l].starts < MaxStarts
    /\ session[l].sending = <<>>
    /\ local' = [local EXCEPT ![l] = [Stopped EXCEPT !.up = TRUE, !.starts = local[l].starts + 1]]
    /\ local_queue' = Append(local_queue, l)
    /\ UNCHANGED <<local_to_data_queue_, pending_rules_queue_, counters, trackers, rates,
                   sessions, rounds, control, session, stage, limit, next_rule>>

\* Threads between the two steps: those that entered what is not counted yet.
CountLocal ==
    /\ CoreUp
    /\ pending_locals < Len(local_queue)
    /\ pending_locals' = pending_locals + 1
    /\ UNCHANGED <<local_queue, local_to_data_queue_, pending_rules_queue_,
                   pending_data_planes, trackers, rates, sessions, rounds, control,
                   session, environment>>

\* A stage has shaken hands with its local controller, which calls
\* register_stage_session: a queue and its counter again.
StageStart(s) ==
    LET l == LocalOf[s] IN
    /\ CoreUp
    /\ stage[s] = "new"
    /\ local[l].up
    /\ stage' = [stage EXCEPT ![s] = "running"]
    /\ local' = [local EXCEPT ![l].preparing = @ \cup {s}]
    /\ local_to_data_queue_' = Append(local_to_data_queue_, s)
    /\ UNCHANGED <<local_queue, pending_rules_queue_, counters, trackers, rates,
                   sessions, rounds, control, session, limit, next_rule>>

CountDataPlane ==
    /\ CoreUp
    /\ pending_data_planes < Len(local_to_data_queue_)
    /\ pending_data_planes' = pending_data_planes + 1
    /\ UNCHANGED <<local_queue, local_to_data_queue_, pending_rules_queue_,
                   pending_locals, trackers, rates, sessions, rounds, control,
                   session, environment>>

\* SystemAdmin submits the next rule of the policies file.
EnqueueRule ==
    /\ CoreUp
    /\ next_rule < Len(Policies)
    /\ next_rule' = next_rule + 1
    /\ pending_rules_queue_' = Append(pending_rules_queue_, Policies[next_rule + 1])
    /\ UNCHANGED <<local_queue, local_to_data_queue_, counters, trackers, rates,
                   sessions, rounds, control, session, local, stage, limit>>

-------------------------------------------------------------------------------
(* Failures.                                                                  *)

StageStop(s) ==
    /\ s \in Failing
    /\ stage[s] = "running"
    /\ stage' = [stage EXCEPT ![s] = "dead"]
    /\ UNCHANGED <<queues, trackers, rates, sessions, rounds, control, session,
                   local, limit, next_rule>>

\* A local controller crashes, or exits because it has no stages.
StopLocal(l) == [local EXCEPT ![l] = [Stopped EXCEPT !.starts = local[l].starts]]

LocalStop(l) ==
    /\ l \in Failing
    /\ local[l].up
    /\ local' = StopLocal(l)
    /\ UNCHANGED <<queues, trackers, rates, sessions, rounds, control, session,
                   stage, limit, next_rule>>

-------------------------------------------------------------------------------
(* The session threads of the core, and the handlers of the local controllers *)
(* that they call.  RPCs have no deadline: a call ends when the handler ends  *)
(* or the local controller's process does.                                    *)

\* A session thread takes the next request from the submission queue.
SessionSend(l) ==
    /\ session[l].submission # <<>>
    /\ Len(session[l].sending) < session[l].threads
    /\ session' = [session EXCEPT ![l].submission = Tail(@),
                                  ![l].sending = Append(@, Head(session[l].submission))]
    /\ UNCHANGED <<queues, trackers, rates, sessions, rounds, control, environment>>

\* The call of the i-th sending thread returns and its response is enqueued.
Respond(l, i, response) ==
    /\ session' = [session EXCEPT ![l].sending = RemoveAt(@, i),
                                  ![l].completion = Append(@, response)]
    /\ UNCHANGED <<queues, trackers, rates, sessions, rounds, control, next_rule>>

\* The local controller is gone: the call fails, which is a response as well.
CallFails(l, i) ==
    /\ ~local[l].up
    /\ Respond(l, i, IF session[l].sending[i] = CollectStats THEN Stats(<<>>) ELSE Ack(FALSE))
    /\ UNCHANGED <<local, stage, limit>>

HandleLocalHandshake(l, i) ==
    /\ local[l].up
    /\ session[l].sending[i].type = "LOCAL_HANDSHAKE"
    /\ local' = [local EXCEPT ![l].handshaken = TRUE]
    /\ Respond(l, i, Ack(TRUE))
    /\ UNCHANGED <<stage, limit>>

\* The session moves from preparing_data_sessions_ to data_sessions_; the
\* answer is positive even if there was none.
MarkStageReady(l, i) ==
    LET ready == {s \in local[l].preparing : Key(s) = session[l].sending[i].key} IN
    /\ local[l].up
    /\ session[l].sending[i].type = "STAGE_READY"
    /\ local' = [local EXCEPT ![l].preparing = @ \ ready,
                              ![l].data_sessions = @ \cup ready]
    /\ Respond(l, i, Ack(TRUE))
    /\ UNCHANGED <<stage, limit>>

\* Stages that do not answer are reported lost, and forgotten.
CollectGlobalStatistics(l, i) ==
    LET asked == local[l].data_sessions
        alive == {s \in asked : stage[s] = "running"}
    IN
    /\ local[l].up
    /\ session[l].sending[i] = CollectStats
    /\ local' = [local EXCEPT ![l].data_sessions = alive]
    /\ Respond(l, i, Stats([k \in {Key(s) : s \in asked} |-> \E s \in alive : Key(s) = k]))
    /\ UNCHANGED <<stage, limit>>

\* The rule is installed in one stage after the other.  The handler gives up,
\* and reports success, at the first stage that does not answer; a stage that
\* has no session is a null pointer.
CreateEnforcementRule(l, i) ==
    LET request  == session[l].sending[i]
        targets  == {s \in local[l].data_sessions :
                        JobOf[s] = request.job /\ EnvOf[s] \in request.envs}
        alive    == {s \in targets : stage[s] = "running"}
        unknown  == request.envs \ {EnvOf[s] : s \in targets}
        Install(some) == limit' = [s \in Stages |->
            IF s \in some THEN [limit[s] EXCEPT ![request.op] = request.limit] ELSE limit[s]]
    IN
    /\ local[l].up
    /\ session[l].sending[i].type = "CREATE_ENF_RULE"
    /\ \/ /\ ~local[l].handshaken
          /\ Respond(l, i, Ack(FALSE))
          /\ UNCHANGED <<local, limit>>
       \/ /\ local[l].handshaken
          /\ alive = targets /\ unknown = {}
          /\ Install(targets)
          /\ Respond(l, i, Ack(TRUE))
          /\ UNCHANGED local
       \/ /\ local[l].handshaken
          /\ alive # targets
          /\ \E some \in SUBSET alive : Install(some)
          /\ Respond(l, i, Ack(TRUE))
          /\ UNCHANGED local
       \/ /\ local[l].handshaken
          /\ unknown # {}
          /\ \E some \in SUBSET alive : Install(some)
          /\ local' = StopLocal(l)
          /\ Respond(l, i, Ack(FALSE))
    /\ UNCHANGED stage

SessionReply(l) ==
    \E i \in 1..Len(session[l].sending) :
        \/ CallFails(l, i)
        \/ HandleLocalHandshake(l, i)
        \/ MarkStageReady(l, i)
        \/ CollectGlobalStatistics(l, i)
        \/ CreateEnforcementRule(l, i)

-------------------------------------------------------------------------------
(* The main loop: sessions with local controllers and stages.                 *)

Goto(place) == pc' = place /\ UNCHANGED fault
Crash(reason) == pc' = "crashed" /\ fault' = reason

\* The loop starts when the first local controller has registered.
WaitForLocal ==
    /\ pc = "wait"
    /\ pending_locals # 0
    /\ Goto("loop")
    /\ UNCHANGED <<queues, trackers, rates, sessions, rounds, todo, session, environment>>

\* Mutant: active local controllers do not keep the loop going.
LocalConnections_PendingOnly == pending_locals

\* The first two counters of the loop's condition; the main loop alone changes
\* the second, so they may be read at once.
LocalConnections == pending_locals + active_locals

\* Mutant: registered stages do not keep the loop going.
StageConnections_Ignored == 0

\* The third counter, which is read after the others.
StageConnections == pending_data_planes

\* The loop goes on while something is pending or active.  What registers behind
\* the reading of its counter is not seen.
LoopCondition ==
    /\ \/ /\ pc = "loop"
          /\ IF LocalConnections > 0 THEN Goto("local_controllers") ELSE Goto("loop_data_planes")
       \/ /\ pc = "loop_data_planes"
          /\ IF StageConnections > 0 THEN Goto("local_controllers") ELSE Goto("exiting")
    /\ UNCHANGED <<queues, trackers, rates, sessions, rounds, todo, session, environment>>

\* The log message, then _exit; the gRPC threads register until then.
Exit ==
    /\ pc = "exiting"
    /\ Goto("exited")
    /\ UNCHANGED <<queues, trackers, rates, sessions, rounds, todo, session, environment>>

\* emplace keeps an existing session, but a thread is started in any case.
HandleLocalController ==
    LET l == Head(local_queue) IN
    /\ pc = "local_controllers"
    /\ pending_locals > 0 /\ local_queue # <<>>
    /\ local_queue' = Tail(local_queue)
    /\ pending_locals' = pending_locals - 1
    /\ local_sessions_' = local_sessions_ \cup {l}
    /\ local_to_stages' = Emplace(local_to_stages, l, {})
    /\ session' = [session EXCEPT ![l].threads = @ + 1,
                                  ![l].submission = Append(@, LocalHandshake)]
    /\ todo' = {<<l, "handshake">>}
    /\ Goto("local_handshake")
    /\ UNCHANGED <<local_to_data_queue_, pending_rules_queue_, pending_data_planes,
                   job_location_tracker, stage_info_detailed, rates, active_locals,
                   sessions_to_delete, rounds, environment>>

\* The local controller counts as active whatever it answered.
CallLocalHandshake ==
    \E w \in todo :
        /\ pc = "local_handshake"
        /\ Answered(w[1])
        /\ session' = PopAnswer(w[1])
        /\ todo' = {}
        /\ active_locals' = active_locals + 1
        /\ Goto("local_controllers")
        /\ UNCHANGED <<queues, trackers, rates, local_sessions_, sessions_to_delete,
                       rounds, environment>>

NoMoreLocalControllers ==
    /\ pc = "local_controllers"
    /\ pending_locals <= 0
    /\ Goto("data_planes")
    /\ UNCHANGED <<queues, trackers, rates, sessions, rounds, todo, session, environment>>

\* The envs of a job at a local controller, none if the job is not there.
TrackedEnvs(job, l) ==
    IF job \in DOMAIN job_location_tracker /\ l \in DOMAIN job_location_tracker[job]
    THEN job_location_tracker[job][l] ELSE {}

StagesAt(l) == IF l \in DOMAIN local_to_stages THEN local_to_stages[l] ELSE {}

\* The stage enters the trackers, then the local controller is told; its
\* session is looked up with at(), which throws if there is none.
HandleDataPlane ==
    LET s    == Head(local_to_data_queue_)
        l    == LocalOf[s]
        job  == JobOf[s]
        locations == IF job \in DOMAIN job_location_tracker
                     THEN job_location_tracker[job] ELSE <<>>
    IN
    /\ pc = "data_planes"
    /\ pending_data_planes > 0 /\ local_to_data_queue_ # <<>>
    /\ local_to_data_queue_' = Tail(local_to_data_queue_)
    /\ pending_data_planes' = pending_data_planes - 1
    /\ change_in_system' = TRUE
    /\ job_location_tracker' =
         Put(job_location_tracker, job, Put(locations, l, TrackedEnvs(job, l) \cup {EnvOf[s]}))
    /\ job_demands' = Emplace(job_demands, job, -1)
    /\ job_previous_rates' = Emplace(job_previous_rates, job, 0)
    /\ job_rates' = Emplace(job_rates, job, -1)
    /\ local_to_stages' = Put(local_to_stages, l, StagesAt(l) \cup {Key(s)})
    /\ \/ /\ l \in local_sessions_
          /\ session' = Submit(l, <<StageReady(s)>>)
          /\ todo' = {<<l, s>>}
          /\ Goto("stage_ready")
       \/ /\ l \notin local_sessions_
          /\ Crash("no_session")
          /\ UNCHANGED <<session, todo>>
    /\ UNCHANGED <<local_queue, pending_rules_queue_, pending_locals, stage_info_detailed,
                   active_op, sessions, rounds_counter, sessions_sent, environment>>

\* Whatever was answered, the stage's information is stored.
MarkDataPlaneStageReady ==
    \E w \in todo :
        /\ pc = "stage_ready"
        /\ Answered(w[1])
        /\ session' = PopAnswer(w[1])
        /\ stage_info_detailed' = Put(stage_info_detailed, Key(w[2]), w[1])
        /\ todo' = {}
        /\ Goto("data_planes")
        /\ UNCHANGED <<queues, local_to_stages, job_location_tracker, rates, sessions,
                       rounds, environment>>

NoMoreDataPlanes ==
    /\ pc = "data_planes"
    /\ pending_data_planes <= 0
    /\ Goto("control")
    /\ UNCHANGED <<queues, trackers, rates, sessions, rounds, todo, session, environment>>

-------------------------------------------------------------------------------
(* The main loop: collection of statistics.                                   *)

\* Local controllers that oversee a stage.
Overseeing == {l \in local_sessions_ : StagesAt(l) # {}}

Request(locals) ==
    [l \in Locals |-> IF l \in locals THEN Submit(l, <<CollectStats>>)[l] ELSE session[l]]

\* STATIC and DYNAMIC_VANILLA: ask, and wait for all answers.
CollectStatisticsGlobal ==
    /\ pc = "control"
    /\ ControlType # "DYNAMIC_LEFTOVER"
    /\ session' = Request(Overseeing)
    /\ todo' = Overseeing \X {"stats"}
    /\ Goto("collect")
    /\ UNCHANGED <<queues, trackers, rates, sessions, rounds, environment>>

\* Mutant: a collection is started in every round.
CollectionStarts_Always == TRUE

CollectionStarts == rounds_counter = 0

\* DYNAMIC_LEFTOVER: ask in the first of COLLECT_ROUNDS rounds, wait for the
\* answers in the last.
CollectStatisticsGlobalSend ==
    /\ pc = "control"
    /\ ControlType = "DYNAMIC_LEFTOVER"
    /\ \/ /\ CollectionStarts
          /\ session' = Request(Overseeing)
          /\ sessions_sent' = Overseeing
       \/ /\ ~CollectionStarts
          /\ UNCHANGED <<session, sessions_sent>>
    /\ rounds_counter' = rounds_counter + 1
    /\ \/ /\ rounds_counter' = COLLECT_ROUNDS
          /\ todo' = (sessions_sent' \cap Overseeing) \X {"stats"}
          /\ Goto("collect")
       \/ /\ rounds_counter' # COLLECT_ROUNDS
          /\ Goto("results")
          /\ UNCHANGED todo
    /\ UNCHANGED <<queues, trackers, rates, sessions, change_in_system, environment>>

\* remove_stage, for a set of stages.  It looks the stage up in
\* stage_info_detailed and its job and local controller in
\* job_location_tracker, with at(): each throws if there is none.
CanRemove(keys) ==
    \A k \in keys :
        /\ k \in DOMAIN stage_info_detailed
        /\ TrackedEnvs(k[1], stage_info_detailed[k]) # {}

\* The envs of a job that stay at a local controller when keys are removed.
EnvsLeft(job, l, keys) ==
    {e \in TrackedEnvs(job, l) :
        ~(<<job, e>> \in keys /\ stage_info_detailed[<<job, e>>] = l)}

\* Mutant: a local controller without envs of the job stays in the job's map.
LocationsLeft_Empty(job, keys) == DOMAIN job_location_tracker[job]

LocationsLeft(job, keys) ==
    {l \in DOMAIN job_location_tracker[job] : EnvsLeft(job, l, keys) # {}}

RemoveStages(keys) ==
    LET Where(job)   == LocationsLeft(job, keys)
        jobs         == {job \in DOMAIN job_location_tracker : Where(job) # {}}
        gone         == DOMAIN job_location_tracker \ jobs
        Keep(f)      == Restrict(f, DOMAIN f \ gone)
    IN
    /\ job_location_tracker' =
         [job \in jobs |-> [l \in Where(job) |-> EnvsLeft(job, l, keys)]]
    /\ job_demands' = Keep(job_demands)
    /\ job_rates' = Keep(job_rates)
    /\ job_previous_rates' = Keep(job_previous_rates)
    /\ stage_info_detailed' = Restrict(stage_info_detailed, DOMAIN stage_info_detailed \ keys)
    /\ change_in_system' = (change_in_system \/ keys # {})

\* Mutants: a lost stage takes the others of its local controller with it; only
\* the answer without any stage is noticed.
Lost_All(l, alive) ==
    IF \A k \in DOMAIN alive : alive[k] THEN {} ELSE StagesAt(l)
Lost_EmptyOnly(l, alive) == IF DOMAIN alive = {} THEN StagesAt(l) ELSE {}

\* The stages lost according to the answer of a local controller.
Lost(l, alive) ==
    IF DOMAIN alive = {} THEN StagesAt(l) ELSE {k \in DOMAIN alive : ~alive[k]}

\* Mutant: lost stages are not erased from local_to_stages.
Remaining_All(l, lost) == StagesAt(l)

Remaining(l, lost) == StagesAt(l) \ lost

\* Mutant: a local controller is disconnected when it loses any stage.
Disconnects_AnyLost(l, lost) == lost # {}

Disconnects(l, lost) == Remaining(l, lost) = {}

\* One local controller's answer: the stages it reports lost are removed, and
\* all its stages if it reports none at all; a local controller left without
\* stages is disconnected.  The answer is cast to statistics unchecked.
CollectStatisticsResult ==
    \E w \in todo :
        LET l      == w[1]
            answer == Answer(l)
            lost   == Lost(l, answer.alive)
        IN
        /\ pc = "collect"
        /\ Answered(l)
        /\ session' = PopAnswer(l)
        /\ todo' = todo \ {w}
        /\ \/ /\ answer.type = "ACK"
              /\ Crash("bad_cast")
              /\ UNCHANGED <<trackers, rates, change_in_system, sessions_to_delete>>
           \/ /\ answer.type = "STATS"
              /\ ~CanRemove(lost)
              /\ Crash("unknown_stage")
              /\ UNCHANGED <<trackers, rates, change_in_system, sessions_to_delete>>
           \/ /\ answer.type = "STATS"
              /\ CanRemove(lost)
              /\ RemoveStages(lost)
              /\ local_to_stages' =
                   IF Remaining(l, lost) # {}
                   THEN [local_to_stages EXCEPT ![l] = Remaining(l, lost)]
                   ELSE Restrict(local_to_stages, DOMAIN local_to_stages \ {l})
              /\ sessions_to_delete' =
                   sessions_to_delete \cup (IF Disconnects(l, lost) THEN {l} ELSE {})
              /\ UNCHANGED <<active_op, pc, fault>>
        /\ UNCHANGED <<queues, local_sessions_, active_locals, rounds_counter,
                       sessions_sent, environment>>

\* The sessions of disconnected local controllers are erased, although their
\* threads still wait on the session's condition variable.  What the erasure
\* does is undefined: the destructor of the condition variable waits for the
\* threads, which nobody wakes up, or the erasure returns.
DisconnectLocals ==
    /\ pc = "collect"
    /\ todo = {}
    /\ local_sessions_' = local_sessions_ \ sessions_to_delete
    /\ active_locals' = active_locals - Cardinality(sessions_to_delete)
    /\ sessions_to_delete' = {}
    /\ session' = [l \in Locals |-> IF l \in sessions_to_delete THEN Idle ELSE session[l]]
    /\ \/ Goto("compute")
       \/ /\ sessions_to_delete # {}
          /\ pc' = "hung" /\ fault' = "erased_session"
    /\ UNCHANGED <<queues, trackers, rates, rounds, todo, environment>>

-------------------------------------------------------------------------------
(* The main loop: computation and enforcement of rates.                       *)

\* Some of the jobs, as a loop over job_location_tracker visits them.
InOrder(some) ==
    LET among[i \in 0..Len(JobOrder)] ==
            IF i = 0 THEN <<>>
            ELSE IF JobOrder[i] \in some THEN Append(among[i - 1], JobOrder[i])
            ELSE among[i - 1]
    IN  among[Len(JobOrder)]

CurrentJobs == InOrder(DOMAIN job_location_tracker)

TotalStages(job) ==
    Total([l \in DOMAIN job_location_tracker[job] |-> Cardinality(job_location_tracker[job][l])])

\* update_job_demands: one rule of the administrator per round.
NewRule == pending_rules_queue_ # <<>>

UpdatedDemands ==
    IF NewRule
    THEN LET rule == Head(pending_rules_queue_) IN Put(job_demands, rule.job, rule.limit)
    ELSE job_demands

\* Mutant: the operation stays the first one.
DequeueRule_KeepsOp ==
    /\ pending_rules_queue_' = IF NewRule THEN Tail(pending_rules_queue_) ELSE <<>>
    /\ UNCHANGED active_op

DequeueRule ==
    /\ pending_rules_queue_' = IF NewRule THEN Tail(pending_rules_queue_) ELSE <<>>
    /\ active_op' = IF NewRule THEN Head(pending_rules_queue_).op ELSE active_op

\* send_enforcement_rule for every job of the set send, in the order of the
\* jobs: one request to each local controller that oversees stages of the job.
SendEnforcementRules(send, new_rates) ==
    LET Rule(l, job) ==
            CreateEnfRule(job, active_op', TrackedEnvs(job, l),
                          LimitPerStage(new_rates[job], TotalStages(job)))
        Sent(l) == InOrder({job \in send : TrackedEnvs(job, l) # {}})
        Rules(l) == [i \in DOMAIN Sent(l) |-> Rule(l, Sent(l)[i])]
        targets == {w \in Locals \X send : TrackedEnvs(w[2], w[1]) # {}}
    IN
    /\ job_previous_rates' = [job \in DOMAIN job_previous_rates |->
            IF job \in send THEN new_rates[job] ELSE job_previous_rates[job]]
    /\ \/ /\ \A w \in targets : w[1] \in local_sessions_
          /\ session' = [l \in Locals |-> Submit(l, Rules(l))[l]]
          /\ todo' = targets
          /\ Goto("results")
       \/ /\ \E w \in targets : w[1] \notin local_sessions_
          /\ Crash("no_session")
          /\ UNCHANGED <<session, todo>>

\* The new rate of a job differs too little from the rate it has.
BelowThreshold(job, new_rates) ==
    Abs(new_rates[job] - job_previous_rates[job]) < IOPS_THRESHOLD

NothingToEnforce ==
    /\ Goto("results")
    /\ UNCHANGED <<job_rates, job_previous_rates, session, todo>>

\* Mutant: a new rule does not count as a change.
ChangeInRound_StagesOnly == change_in_system

\* STATIC: a new rule counts as a change of the system.
ChangeInRound == change_in_system \/ NewRule

\* STATIC: a job's rate is its demand.  Nothing is done in a round in which
\* neither a rule nor a stage came or a stage went.
ComputeAndEnforceStaticRules ==
    LET jobs      == DOMAIN job_location_tracker
        demanded  == {job \in DOMAIN UpdatedDemands : UpdatedDemands[job] # -1}
        new_rates == PutAll(job_rates, Restrict(UpdatedDemands, demanded))
        send      == {job \in jobs : ~BelowThreshold(job, new_rates)}
    IN
    /\ pc = "compute"
    /\ ControlType = "STATIC"
    /\ \/ /\ active_locals = 0
          /\ NothingToEnforce
          /\ UNCHANGED <<pending_rules_queue_, job_demands, active_op, change_in_system>>
       \/ /\ active_locals > 0
          /\ DequeueRule
          /\ job_demands' = UpdatedDemands
          /\ change_in_system' = ChangeInRound
          /\ \/ /\ change_in_system' /\ jobs # {}
                /\ job_rates' = [job \in DOMAIN new_rates |->
                        IF job \in jobs \ send THEN -1 ELSE new_rates[job]]
                /\ SendEnforcementRules(send, new_rates)
             \/ /\ ~change_in_system' \/ jobs = {}
                /\ NothingToEnforce
    /\ UNCHANGED <<local_queue, local_to_data_queue_, counters, trackers, sessions,
                   rounds_counter, sessions_sent, environment>>

\* Mutant: a change of the system does not matter.
VanillaSends_ThresholdOnly(job, new_rates) == ~BelowThreshold(job, new_rates)

VanillaSends(job, new_rates) == change_in_system \/ ~BelowThreshold(job, new_rates)

\* DYNAMIC_VANILLA: the limit is divided anew in every round; a rate is sent if
\* the system changed or the rate moved enough.
ComputeAndEnforceDynamicVanillaRules ==
    LET jobs       == DOMAIN job_location_tracker
        allocation == VanillaAllocation(CurrentJobs, UpdatedDemands, maximum_limit)
        send       == {job \in jobs : VanillaSends(job, allocation.rates)}
    IN
    /\ pc = "compute"
    /\ ControlType = "DYNAMIC_VANILLA"
    /\ DequeueRule
    /\ \/ /\ jobs # {}
          /\ job_demands' = allocation.demands
          /\ job_rates' = PutAll(job_rates,
                  [job \in jobs |-> IF job \in send THEN allocation.rates[job] ELSE -1])
          /\ SendEnforcementRules(send, allocation.rates)
       \/ /\ jobs = {}
          /\ job_demands' = UpdatedDemands
          /\ NothingToEnforce
    /\ UNCHANGED <<local_queue, local_to_data_queue_, counters, trackers, sessions, rounds,
                   environment>>

\* DYNAMIC_LEFTOVER: the rates come out of a floating-point computation on the
\* collected statistics, abstracted to any of LeftoverRates.  Unless the system
\* changed, a job keeps its previous rate if that differs by less than 1 %, or
\* by less than 5 % and the statistics show that the system is not busy.
ComputeAndEnforceDynamicLeftoverRules ==
    LET jobs == DOMAIN job_location_tracker
        Within(percent, job, new_rates) ==
            Abs(new_rates[job] - job_previous_rates[job]) * 100 < percent * new_rates[job]
    IN
    /\ pc = "compute"
    /\ ControlType = "DYNAMIC_LEFTOVER"
    /\ rounds_counter' = 0
    /\ DequeueRule
    /\ job_demands' = UpdatedDemands
    /\ \/ /\ jobs # {}
          /\ \E new_rates \in [jobs -> LeftoverRates], margin \in {1, 5} :
                LET send == {job \in jobs :
                                change_in_system \/ ~Within(margin, job, new_rates)} IN
                /\ job_rates' = PutAll(job_rates, new_rates)
                /\ SendEnforcementRules(send, new_rates)
       \/ /\ jobs = {}
          /\ NothingToEnforce
    /\ UNCHANGED <<local_queue, local_to_data_queue_, counters, trackers, sessions,
                   change_in_system, sessions_sent, environment>>

\* Each answer is cast to an acknowledgement, unchecked, to be logged (with
\* debug messages on).
CollectEnforcementRuleResults ==
    \E w \in todo :
        /\ pc = "results"
        /\ Answered(w[1])
        /\ session' = PopAnswer(w[1])
        /\ todo' = todo \ {w}
        /\ IF Answer(w[1]).type = "ACK" THEN UNCHANGED <<pc, fault>> ELSE Crash("bad_cast")
        /\ UNCHANGED <<queues, trackers, rates, sessions, rounds, environment>>

\* The end of a round; the thread sleeps until the next one.
EndRound ==
    /\ pc = "results"
    /\ todo = {}
    /\ change_in_system' = FALSE
    /\ Goto("sleep")
    /\ UNCHANGED <<queues, trackers, rates, sessions, rounds_counter, sessions_sent,
                   todo, session, environment>>

WakeUp ==
    /\ pc = "sleep"
    /\ Goto("loop")
    /\ UNCHANGED <<queues, trackers, rates, sessions, rounds, todo, session, environment>>

MainLoop ==
    \/ WaitForLocal \/ LoopCondition \/ Exit
    \/ HandleLocalController \/ CallLocalHandshake \/ NoMoreLocalControllers
    \/ HandleDataPlane \/ MarkDataPlaneStageReady \/ NoMoreDataPlanes
    \/ CollectStatisticsGlobal \/ CollectStatisticsGlobalSend
    \/ CollectStatisticsResult \/ DisconnectLocals
    \/ ComputeAndEnforceStaticRules
    \/ ComputeAndEnforceDynamicVanillaRules
    \/ ComputeAndEnforceDynamicLeftoverRules
    \/ CollectEnforcementRuleResults \/ EndRound \/ WakeUp

Next ==
    \/ MainLoop
    \/ \E l \in Locals : SessionSend(l) \/ SessionReply(l) \/ LocalStart(l) \/ LocalStop(l)
    \/ \E s \in Stages : StageStart(s) \/ StageStop(s)
    \/ CountLocal \/ CountDataPlane
    \/ EnqueueRule

SafetySpec == Init /\ [][Next]_vars

\* The operating system runs the main loop, the session threads and the gRPC
\* threads that have begun a registration; local controllers answer the calls
\* they get.  Nothing is assumed of starts, failures and the administrator.
Fairness ==
    /\ WF_vars(MainLoop)
    /\ WF_vars(CountLocal) /\ WF_vars(CountDataPlane)
    /\ \A l \in Locals : WF_vars(SessionSend(l)) /\ WF_vars(SessionReply(l))

Spec == SafetySpec /\ Fairness

-------------------------------------------------------------------------------
(* Properties.                                                                *)

Failed == pc \in {"crashed", "hung"}

TypeOK ==
    /\ ToSet(local_queue) \subseteq Locals /\ ToSet(local_to_data_queue_) \subseteq Stages
    /\ ToSet(pending_rules_queue_) \subseteq ToSet(Policies)
    /\ pending_locals \in 0..Len(local_queue)
    /\ pending_data_planes \in 0..Len(local_to_data_queue_)
    /\ local_sessions_ \subseteq Locals /\ sessions_sent \subseteq Locals
    /\ sessions_to_delete \subseteq local_sessions_
    /\ active_locals \in Nat
    /\ DOMAIN local_to_stages \subseteq Locals
    /\ \A l \in DOMAIN local_to_stages : local_to_stages[l] \subseteq Keys
    /\ DOMAIN job_location_tracker \subseteq Jobs
    /\ \A job \in DOMAIN job_location_tracker :
          /\ DOMAIN job_location_tracker[job] \subseteq Locals
          /\ \A l \in DOMAIN job_location_tracker[job] :
                job_location_tracker[job][l] \in (SUBSET Envs) \ {{}}
    /\ DOMAIN stage_info_detailed \subseteq Keys
    /\ \A k \in DOMAIN stage_info_detailed : stage_info_detailed[k] \in Locals
    /\ \A f \in {job_demands, job_rates, job_previous_rates} :
          DOMAIN f \subseteq Jobs /\ \A job \in DOMAIN f : f[job] \in Nat \cup {-1}
    /\ active_op \in Ops
    /\ change_in_system \in BOOLEAN /\ rounds_counter \in 0..COLLECT_ROUNDS
    /\ todo \subseteq Locals \X ({"handshake", "stats"} \cup Stages \cup Jobs)
    /\ pc \in {"wait", "loop", "loop_data_planes", "exiting", "local_controllers",
               "local_handshake", "data_planes", "stage_ready", "control", "collect",
               "compute", "results", "sleep", "exited", "crashed", "hung"}
    /\ fault \in {"none", "no_session", "bad_cast", "unknown_stage", "erased_session"}
    /\ \A l \in Locals : session[l].threads \in 0..MaxStarts
    /\ local \in [Locals -> [up : BOOLEAN, starts : 0..MaxStarts, handshaken : BOOLEAN,
                            preparing : SUBSET Stages, data_sessions : SUBSET Stages]]
    /\ stage \in [Stages -> {"new", "running", "dead"}]
    /\ limit \in [Stages -> [Ops -> Nat]]
    /\ next_rule \in 0..Len(Policies)

\* Answers that the main loop waits for, and those of a collection that
\* DYNAMIC_LEFTOVER leaves open between rounds.
Expected(l) ==
    Cardinality({w \in todo : w[1] = l})
    + IF rounds_counter \in 1..(COLLECT_ROUNDS - 1) /\ l \in sessions_sent THEN 1 ELSE 0

\* The main loop waits for exactly the answers that are still to come: at no
\* place does it wait for an answer nobody will send, and no answer is left
\* behind for a later GetResult to take.
\* (The SubmitRule and GetResult calls of the feedback loop.)
SessionsInStep == \A l \in Locals : Outstanding(l) = Expected(l)

\* GetResult's contract (local_controller_session.hpp:147-154): the answer read
\* is that of the request submitted, so its dynamic_cast succeeds.
CastsSucceed == fault # "bad_cast"

\* job_location_tracker, local_to_stages and stage_info_detailed describe the
\* same stages; no job is left without stages, whose number divides its rate.
TrackersAgree ==
    /\ \A l \in Locals, k \in Keys : k \in StagesAt(l) <=> k[2] \in TrackedEnvs(k[1], l)
    /\ \A l \in Locals, k \in Keys :
          k \in StagesAt(l) =>
              \/ k \in DOMAIN stage_info_detailed /\ stage_info_detailed[k] = l
              \/ pc = "stage_ready" /\ \E w \in todo : Key(w[2]) = k
              \/ Failed
    /\ \A k \in DOMAIN stage_info_detailed : k \in StagesAt(stage_info_detailed[k])
    /\ \A job \in DOMAIN job_location_tracker :
          TotalStages(job) > 0 /\ job \in DOMAIN job_previous_rates

\* mark_data_plane_stage_ready returns PStatus::Error when it cannot tell the
\* local controller (core_control_application.hpp:129).
SessionFound == fault # "no_session"

\* A tracked stage has a session through which the core can reach it, also
\* while sessions are erased.
TrackedLocalsHaveSessions ==
    fault # "no_session" => \A l \in Locals : StagesAt(l) # {} => l \in local_sessions_

\* The controller exits only when no local controller is connected and no stage
\* tracked, although it counts a restarted local controller twice and reads its
\* counters one after the other.  Those that register behind the reading of their
\* counter are still in the queues, and are abandoned.
\* (The log message "Exiting. No active connections.")
ExitOnlyWhenIdle ==
    pc \in {"exiting", "exited"} =>
        local_sessions_ = {} /\ \A l \in Locals : StagesAt(l) = {}

\* Stage s works, and so do all stages with which it shares a rule: nothing
\* keeps a rule that the core sends from reaching it.
Settled(s) ==
    LET l == LocalOf[s] IN
    /\ Key(s) \in StagesAt(l)
    /\ \A e \in TrackedEnvs(JobOf[s], l) :
          \E t \in local[l].data_sessions :
              JobOf[t] = JobOf[s] /\ EnvOf[t] = e /\ stage[t] = "running"

\* At the end of an enforcement round, every working stage has an equal part of
\* the rate last sent for its job, however stages came and went in between.
\* (change_in_system marks "add/remove ... stage; new rule",
\* core_control_application.hpp:24-25.)
LimitsAgree ==
    pc = "sleep" /\ rounds_counter = 0 =>
        \A s \in Stages : Settled(s) =>
            limit[s][active_op] =
                LimitPerStage(job_previous_rates[JobOf[s]], TotalStages(JobOf[s]))

\* The rates in force never exceed system_limit by as much as IOPS_THRESHOLD for
\* each job, however the rates drift below the threshold.
SystemLimitWithinThreshold ==
    Total(job_previous_rates) <=
        maximum_limit + Cardinality(DOMAIN job_previous_rates) * (IOPS_THRESHOLD - 1)

\* STATIC: after each round, the rate last sent for a job is within IOPS_THRESHOLD
\* of its demand, whether the rule or the job's first stage came first.
\* (change_in_system in compute_and_enforce_static_rules.)
DemandsEnforced ==
    pc = "sleep" =>
        \A job \in DOMAIN job_location_tracker :
            job_demands[job] # -1 => Abs(job_demands[job] - job_previous_rates[job]) < IOPS_THRESHOLD

\* Rules that the core has taken from the administrator.
TakenRules == 1..(next_rule - Len(pending_rules_queue_))
RulesFor(job, op) == {i \in TakenRules : Policies[i].job = job /\ Policies[i].op = op}

\* STATIC: a stage's limit for an operation is its first one, or comes from two
\* rules: the last one about the stage's job that was taken up to some moment gives
\* the rate, and the last one taken up to that moment, about whatever job, gives
\* the operation.  So a rule that limits one job may put another job's rate on
\* its own operation, but never its own rate on another job.
\* (README.md:107, "Limit app1's getxattr operations to 5000 IOPS", does not hold:
\* the rate is enforced for the operation of whichever rule comes later.)
LimitsComeFromRules ==
    \A s \in Stages, op \in Ops :
        \/ limit[s][op] = HousekeepingRate
        \/ \E k \in TakenRules : \E i \in 1..k :
              /\ Policies[i].job = JobOf[s] /\ limit[s][op] <= Policies[i].limit
              /\ \A m \in (i + 1)..k : Policies[m].job # JobOf[s]
              /\ Policies[k].op = op

\* STATIC: once a rule limits a job's operation, no working stage of the job
\* exceeds the job's limit at the end of a round.
\* (README.md:109: "Limit app1's metadata operations to 5000 IOPS".)
RuleLimitsStages ==
    pc = "sleep" =>
        \A s \in Stages, op \in Ops :
            Settled(s) /\ RulesFor(JobOf[s], op) # {}
                => limit[s][op] <= Policies[Max(RulesFor(JobOf[s], op))].limit + IOPS_THRESHOLD

\* A stage is dropped from the trackers only if it died, or its local controller
\* forgot it.
OnlyLostStagesDropped ==
    [][\A s \in Stages :
          Key(s) \in StagesAt(LocalOf[s]) /\ Key(s) \notin StagesAt(LocalOf[s])'
              => stage[s] = "dead" \/ s \notin local[LocalOf[s]].data_sessions]_vars

Queued(s) == s \in ToSet(local_to_data_queue_)
Registered(s) == s \in ToSet(SubSeq(local_to_data_queue_, 1, pending_data_planes))

\* Every registered stage is handled, unless the core fails or exits; and one
\* that is counted before the core found nothing pending is not left behind by
\* its exit.
\* (Those that are counted later are: register_stage_session changes the queue
\* first, and the loop's condition reads the counters one by one.)
StageHandled ==
    \A s \in Stages :
        /\ Queued(s) ~> ~Queued(s) \/ Failed \/ pc = "exited"
        /\ Registered(s) /\ pc \notin {"exiting", "exited"} ~> ~Queued(s) \/ Failed

\* A local controller that was restarted answers for the stages of the new process
\* only: as long as it has one, its answer neither is empty nor names s.
AnswersWithout(s) ==
    LET l == LocalOf[s] IN
    local[l].starts > 1 /\ local[l].data_sessions # {} /\ s \notin local[l].data_sessions

\* The core forgets every stage that died, unless it fails or the stage's local
\* controller was restarted and answers for other stages for ever: then the dead
\* stage keeps its part of its job's rate for ever.
\* (collect_statistics_result removes what is reported lost, or everything.)
LostStageForgotten ==
    \A s \in Stages :
        stage[s] = "dead" /\ Key(s) \in StagesAt(LocalOf[s])
            ~> (Key(s) \notin StagesAt(LocalOf[s]) \/ Failed \/ []AnswersWithout(s))
===============================================================================
