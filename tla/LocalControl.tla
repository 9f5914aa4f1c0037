----------------------------- MODULE LocalControl -----------------------------
(* The local controller of a node: the thread of LocalConnectionManager that  *)
(* accepts data plane stages, the main loop that hands each of them its       *)
(* housekeeping rules and announces it, the session threads that talk to the  *)
(* stages, and the handlers of the core controller's calls.                   *)
(*                                                                            *)
(* A session is what Session shows it to be, a FIFO of requests and answers.  *)
(* An operation of std::unordered_map is one step.  Stages are processes that *)
(* may die at any time; the core controller may stop.                         *)
(*                                                                            *)
(* The core may know the address from a process that ran there before.  Then  *)
(* it has kept the session, tracks the stages of that process, calls before   *)
(* it has seen the new registration, and starts a second session thread.  The *)
(* calls are served one at a time here, although two threads can make two at  *)
(* once (see the README).                                                     *)
EXTENDS Integers, FiniteSets, Sequences, SequencesExt

CONSTANTS
    Stages,     \* the data plane stages (name+env: distinct, env is the pid)
    OldStages,  \* stages that a former process at this address announced
    NoStage,
    Rules,      \* the housekeeping rules that the core sends: their types
    Refusing,   \* the stages that may answer AckCode::error
    MaxStages   \* bound on the stages of both processes

ASSUME NoStageAssumption == NoStage \notin Stages \cup OldStages
ASSUME OldStagesAssumption == OldStages \cap Stages = {}
ASSUME RulesAssumption == Rules \in Seq({"create_channel", "create_object"})
ASSUME RefusingAssumption == Refusing \subseteq Stages

VARIABLES
    stage,                      \* how far each data plane stage has come
    dead,                       \* the stages whose process ended
    pending_data_sessions_,     \* accepted stages, not yet taken
    m_pending,                  \* m_pending_data_plane_sessions
    m_active,                   \* m_active_data_plane_sessions
    preparing_data_sessions_,   \* keys of the map
    data_sessions_,             \* keys of the map
    session,                    \* each stage's DataPlaneSession
    handshake,                  \* the HandshakeSession of the stage being prepared
    rules,                      \* how many rules *housekeeping_rules_ptr_ has
    acceptor,                   \* a stage was queued and is not counted yet
    main,                       \* where the main loop is
    call,                       \* the handler that serves the core's call
    core,                       \* what the core controller knows and will ask
    process,                    \* how the local controller fares
    sigpipe_ignored,            \* collect_global_statistics ignored SIGPIPE
    installed, early, announced   \* history: see the properties

stageVars == <<stage, dead, installed>>
sessionVars == <<preparing_data_sessions_, data_sessions_, session>>
countVars == <<pending_data_sessions_, m_pending, m_active, acceptor>>
endVars == <<process, sigpipe_ignored>>
history == <<early, announced>>
vars == <<stageVars, sessionVars, countVars, endVars, history,
          handshake, rules, main, call, core>>

NoSession == [thread |-> "none", queue |-> <<>>, answers |-> <<>>]
Idle == [name |-> "idle", todo |-> {}, at |-> NoStage, left |-> 0, lost |-> {}]
NoHandshake == [thread |-> "none", rule |-> "none", answer |-> "none"]

AtLoop == [pc |-> "loop", stage |-> NoStage, seen |-> 0, left |-> 0, valid |-> 0]

\* ConnectLocalToGlobal is called by the constructor and may fail.  A core that
\* tracks stages of a former process is anywhere in its control cycle.
CoreInit ==
    \E connected \in BOOLEAN, old \in SUBSET OldStages :
        \E turn \in IF old = {} THEN {"collect"} ELSE {"collect", "enforce", "unasked"} :
            core = [up |-> connected, calls |-> connected, greeted |-> FALSE,
                    turn |-> turn, queue |-> <<>>, tracked |-> old, former |-> old]

Init ==
    /\ stage = [s \in Stages |-> "absent"]
    /\ dead = {}
    /\ pending_data_sessions_ = <<>>
    /\ m_pending = 0
    /\ m_active = 0
    /\ preparing_data_sessions_ = {}
    /\ data_sessions_ = {}
    /\ session = [s \in Stages |-> NoSession]
    /\ handshake = NoHandshake
    /\ rules = 0
    /\ acceptor = "accepting"
    /\ main = [AtLoop EXCEPT !.pc = "first"]
    /\ call = Idle
    /\ CoreInit
    /\ process = "working"
    /\ sigpipe_ignored = FALSE
    /\ installed = [s \in Stages |-> 0]
    /\ early = {}
    /\ announced = {}

Working == process = "working"

-------------------------------------------------------------------------------
(* The data plane stages and the thread that accepts them.                    *)

StageStarts(s) ==
    /\ stage[s] = "absent"
    /\ Cardinality({t \in Stages : stage[t] # "absent"} \cup core.former) < MaxStages
    /\ stage' = [stage EXCEPT ![s] = "connecting"]
    /\ UNCHANGED <<dead, installed, sessionVars, countVars, endVars, history,
                   handshake, rules, main, call, core>>

\* The process of the stage ends, for whatever reason.
StageDies(s) ==
    /\ stage[s] # "absent"
    /\ s \notin dead
    /\ dead' = dead \cup {s}
    /\ UNCHANGED <<stage, installed, sessionVars, countVars, endVars, history,
                   handshake, rules, main, call, core>>

\* The stage connects to the socket that stage_handshake_address named, where
\* StartSession waits in accept, with no timeout.
StageConnects(s) ==
    /\ Working
    /\ stage[s] = "addressed"
    /\ s \notin dead
    /\ session[s].thread = "accepting"
    /\ stage' = [stage EXCEPT ![s] = "connected"]
    /\ session' = [session EXCEPT ![s].thread = "working"]
    /\ UNCHANGED <<dead, installed, preparing_data_sessions_, data_sessions_,
                   countVars, endVars, history, handshake, rules, main, call, core>>

\* Start, AcceptConnections and the first half of register_stage_session.  A
\* stage that died after it connected is accepted all the same.
AcceptStage(s) ==
    /\ Working
    /\ acceptor = "accepting"
    /\ stage[s] = "connecting"
    /\ stage' = [stage EXCEPT ![s] = "accepted"]
    /\ pending_data_sessions_' = Append(pending_data_sessions_, s)
    /\ acceptor' = "counting"
    /\ UNCHANGED <<dead, installed, m_pending, m_active, sessionVars, endVars,
                   history, handshake, rules, main, call, core>>

\* The second half: outside of the lock.
CountPending ==
    /\ Working
    /\ acceptor = "counting"
    /\ m_pending' = m_pending + 1
    /\ acceptor' = "accepting"
    /\ UNCHANGED <<stageVars, pending_data_sessions_, m_active, sessionVars, endVars,
                   history, handshake, rules, main, call, core>>

-------------------------------------------------------------------------------
(* The session threads.                                                       *)

\* Writing to a stage that is gone raises SIGPIPE, which ends the process until
\* collect_global_statistics has ignored it once.  The stage may also go after
\* the write: then the read fails, and so does the call.
KilledWriting(s) ==
    /\ s \in dead
    /\ ~sigpipe_ignored
    /\ process' = "killed"

\* Mutant: the thread ends after the first rule.
FirstRuleSent_Last == [thread |-> "ended", rule |-> "none", answer |-> "ok"]

FirstRuleSent == [thread |-> "working", rule |-> "none", answer |-> "ok"]

\* HandshakeSession: SendRule for STAGE_HANDSHAKE and STAGE_HANDSHAKE_INFO.  The
\* thread ends after the second rule or the first failure.
HandshakeSend ==
    LET s == main.stage IN
    /\ Working
    /\ handshake.thread = "working"
    /\ handshake.rule # "none"
    /\ UNCHANGED <<dead, installed, sessionVars, countVars, sigpipe_ignored,
                   history, rules, main, call, core>>
    /\ \/ /\ KilledWriting(s)
          /\ UNCHANGED <<stage, handshake>>
       \/ /\ s \in dead
          /\ handshake' = [thread |-> "ended", rule |-> "none", answer |-> "error"]
          /\ UNCHANGED <<stage, process>>
       \/ /\ s \notin dead
          /\ handshake.rule = "handshake"
          /\ handshake' = FirstRuleSent
          /\ UNCHANGED <<stage, process>>
       \/ /\ s \notin dead
          /\ handshake.rule = "address"
          /\ handshake' = [thread |-> "ended", rule |-> "none", answer |-> "ok"]
          /\ stage' = [stage EXCEPT ![s] = "addressed"]
          /\ UNCHANGED process

\* What a call of PAIOInterface brings back: an AckCode, or a total rate, which
\* is -1 ("lost") when the call failed.
Answers(s, request) ==
    IF request = "stats" THEN {IF s \in dead THEN "lost" ELSE "rate"}
    ELSE IF s \in dead THEN {"error"}
    ELSE {"ok"} \cup (IF s \in Refusing THEN {"error"} ELSE {})

\* Mutant: SIGPIPE keeps its default action.
IgnoreSigpipe_Not(request) == UNCHANGED sigpipe_ignored

\* collect_global_statistics calls signal (SIGPIPE, SIG_IGN) before it writes.
IgnoreSigpipe(request) == sigpipe_ignored' = (sigpipe_ignored \/ request = "stats")

\* DataPlaneSession: SendRule for CREATE_HSK_RULE, STAGE_READY, CREATE_ENF_RULE
\* and COLLECT_DETAILED_STATS.
SessionSend(s) ==
    LET request == Head(session[s].queue) IN
    /\ Working
    /\ session[s].thread = "working"
    /\ session[s].queue # <<>>
    /\ IgnoreSigpipe(request)
    /\ UNCHANGED <<stage, dead, preparing_data_sessions_, data_sessions_, countVars,
                   history, handshake, rules, main, call, core>>
    /\ \/ /\ request # "stats"
          /\ KilledWriting(s)
          /\ UNCHANGED <<session, installed>>
       \/ \E answer \in Answers(s, request) :
              /\ session' = [session EXCEPT ![s].queue = Tail(@),
                                            ![s].answers = Append(@, answer)]
              /\ installed' = IF request = "rule" /\ answer = "ok"
                              THEN [installed EXCEPT ![s] = @ + 1] ELSE installed
              /\ UNCHANGED process

-------------------------------------------------------------------------------
(* The main loop: execute_feedback_loop and what it calls.                    *)

Submit(s, requests) ==
    session' = [session EXCEPT ![s].queue = @ \o requests]

PopAnswer(s) == session' = [session EXCEPT ![s].answers = Tail(@)]

\* The loops over m_pending_data_plane_sessions and m_active_data_plane_sessions,
\* which are read one after the other.
LoopCondition ==
    /\ Working
    /\ UNCHANGED <<stageVars, sessionVars, countVars, sigpipe_ignored, history,
                   handshake, rules, call, core>>
    /\ \/ /\ main.pc = "first"
          /\ m_pending # 0
          /\ main' = AtLoop
          /\ UNCHANGED process
       \/ /\ main.pc = "loop"
          /\ m_pending <= 0
          /\ main' = [main EXCEPT !.pc = "active"]
          /\ UNCHANGED process
       \/ /\ main.pc = "active"
          /\ m_active > 0
          /\ main' = AtLoop
          /\ UNCHANGED process
       \/ /\ main.pc = "active"
          /\ m_active <= 0
          /\ process' = "exited"
          /\ UNCHANGED main

\* handle_data_plane_sessions takes a session; call_stage_handshake submits
\* STAGE_HANDSHAKE.
TakeStage ==
    /\ Working
    /\ main.pc = "loop"
    /\ m_pending > 0
    /\ pending_data_sessions_ # <<>>
    /\ pending_data_sessions_' = Tail(pending_data_sessions_)
    /\ m_pending' = m_pending - 1
    /\ handshake' = [thread |-> "working", rule |-> "handshake", answer |-> "none"]
    /\ main' = [main EXCEPT !.pc = "handshake", !.stage = Head(pending_data_sessions_)]
    /\ UNCHANGED <<stageVars, m_active, acceptor, sessionVars, endVars, history,
                   rules, call, core>>

\* call_stage_handshake creates the DataPlaneSession and submits
\* STAGE_HANDSHAKE_INFO.  After a failure name and env are empty: a session is
\* created under a key that belongs to no stage.
CreateSession ==
    LET s   == main.stage
        key == IF handshake.answer = "ok" THEN s ELSE NoStage
    IN
    /\ Working
    /\ main.pc = "handshake"
    /\ handshake.answer # "none"
    /\ preparing_data_sessions_' = preparing_data_sessions_ \cup {key}
    /\ session' = IF key = s THEN [session EXCEPT ![s] = [NoSession EXCEPT !.thread = "accepting"]]
                  ELSE session
    /\ handshake' = [handshake EXCEPT !.rule = "address", !.answer = "none"]
    /\ main' = [main EXCEPT !.pc = "address"]
    /\ UNCHANGED <<stageVars, data_sessions_, countVars, endVars, history, rules,
                   call, core>>

\* The answer to STAGE_HANDSHAKE_INFO is dropped, whatever it is, and so is the
\* HandshakeSession.  submit_housekeeping_rules starts its loop over the rules.
EndHandshake ==
    /\ Working
    /\ main.pc = "address"
    /\ handshake.answer # "none"
    /\ handshake' = NoHandshake
    /\ main' = [main EXCEPT !.pc = "submitting", !.seen = rules]
    /\ early' = IF rules < Len(Rules) THEN early \cup {main.stage} ELSE early
    /\ UNCHANGED <<stageVars, sessionVars, countVars, endVars, announced, rules,
                   call, core>>

\* The loop's end iterator was taken at its start: rules that LocalHandshake adds
\* meanwhile are missed, or the vector was reallocated under the loop.
SubmitRules ==
    /\ Working
    /\ main.pc = "submitting"
    /\ UNCHANGED <<stageVars, preparing_data_sessions_, data_sessions_, countVars,
                   sigpipe_ignored, history, handshake, rules, call, core>>
    /\ \/ /\ Submit(main.stage, [i \in 1..main.seen |-> "rule"])
          /\ main' = [main EXCEPT !.pc = "answers", !.left = main.seen]
          /\ UNCHANGED process
       \/ /\ main.seen \notin {0, rules}
          /\ process' = "crashed"
          /\ UNCHANGED <<session, main>>

\* The session of a stage that is set aside: RemoveSession and erase.
Reject(s) ==
    /\ session' = [session EXCEPT ![s] = NoSession]
    /\ preparing_data_sessions_' = preparing_data_sessions_ \ {s}
    /\ main' = AtLoop

\* Mutant: an answer is counted whatever it says.
RuleAnswered_AnyAck(answer) == main' = [main EXCEPT !.left = @ - 1, !.valid = @ + 1]

\* An acknowledged rule is counted; the first error ends the loop with 0.
RuleAnswered(answer) ==
    main' = IF answer = "ok"
            THEN [main EXCEPT !.left = @ - 1, !.valid = @ + 1]
            ELSE [main EXCEPT !.left = 0, !.valid = 0]

\* submit_housekeeping_rules reads one answer.
ReadRuleAnswer ==
    LET s == main.stage IN
    /\ Working
    /\ main.pc = "answers"
    /\ main.left > 0
    /\ session[s].answers # <<>>
    /\ PopAnswer(s)
    /\ RuleAnswered(Head(session[s].answers))
    /\ UNCHANGED <<stageVars, preparing_data_sessions_, data_sessions_, countVars,
                   endVars, history, handshake, rules, call, core>>

\* Mutant: the stage is announced before it has answered.
SubmitStageReady_Announce(s) ==
    /\ Submit(s, <<"ready">>)
    /\ core' = [core EXCEPT !.queue = Append(@, s)]

SubmitStageReady(s) ==
    /\ Submit(s, <<"ready">>)
    /\ UNCHANGED core

\* installed_rules == housekeeping_rules_ptr_->size (); mark_stage_ready submits
\* STAGE_READY.
CheckRules ==
    /\ Working
    /\ main.pc = "answers"
    /\ main.left = 0
    /\ \/ /\ main.valid = rules
          /\ SubmitStageReady(main.stage)
          /\ main' = [main EXCEPT !.pc = "ready"]
          /\ UNCHANGED preparing_data_sessions_
       \/ /\ main.valid # rules
          /\ Reject(main.stage)
          /\ UNCHANGED core
    /\ UNCHANGED <<stageVars, data_sessions_, countVars, endVars, history, handshake,
                   rules, call>>

\* mark_stage_ready: the status stays the one of SubmitRule, OK, whatever the
\* stage answered.
ReadReadyAnswer ==
    /\ Working
    /\ main.pc = "ready"
    /\ session[main.stage].answers # <<>>
    /\ PopAnswer(main.stage)
    /\ main' = [main EXCEPT !.pc = "announcing"]
    /\ UNCHANGED <<stageVars, preparing_data_sessions_, data_sessions_, countVars,
                   endVars, history, handshake, rules, call, core>>

\* Mutant: the status of ConnectStageToGlobal is ignored.
NotAnnounced_Counted == main' = [main EXCEPT !.pc = "counting"]

NotAnnounced == main' = AtLoop

\* ConnectStageToGlobal.  When it fails the stage stays in
\* preparing_data_sessions_, and is not counted.
AnnounceStage ==
    LET s == main.stage IN
    /\ Working
    /\ main.pc = "announcing"
    /\ \/ /\ core.up
          /\ core' = [core EXCEPT !.queue = Append(@, s)]
          /\ announced' = announced \cup {s}
          /\ main' = [main EXCEPT !.pc = "counting"]
       \/ /\ ~core.up
          /\ NotAnnounced
          /\ UNCHANGED <<core, announced>>
    /\ UNCHANGED <<stageVars, sessionVars, countVars, endVars, early, handshake,
                   rules, call>>

\* Mutant: the stage is not counted.
AddActive_Not == UNCHANGED m_active

AddActive == m_active' = m_active + 1

CountActive ==
    /\ Working
    /\ main.pc = "counting"
    /\ AddActive
    /\ main' = AtLoop
    /\ UNCHANGED <<stageVars, pending_data_sessions_, m_pending, acceptor, sessionVars,
                   endVars, history, handshake, rules, call, core>>

Main ==
    \/ LoopCondition \/ TakeStage \/ CreateSession \/ EndHandshake \/ SubmitRules
    \/ ReadRuleAnswer \/ CheckRules \/ ReadReadyAnswer \/ AnnounceStage \/ CountActive

-------------------------------------------------------------------------------
(* The core controller, as far as a local controller can tell, for every      *)
(* control type.  LocalHandshake is the first call of a new session; a stage  *)
(* is tracked and then marked ready; statistics and enforcement alternate.    *)

\* There is a session: a new one, or that of a former process.
HasSession == core.calls /\ (core.greeted \/ core.tracked # {})

\* Between a collection and the enforcement only DYNAMIC_LEFTOVER looks at its
\* queues.  It then takes the statistics for the answer to that call, and ends
\* when it reads the answer for the statistics (CoreControl!CastsSucceed).
EndsByTakingTurn ==
    [core EXCEPT !.up = @ /\ core.turn # "enforce", !.calls = @ /\ core.turn # "enforce"]

CallLocalHandshake ==
    /\ core.calls
    /\ ~core.greeted
    /\ call = Idle
    /\ call' = [Idle EXCEPT !.name = "handshake"]
    /\ core' = EndsByTakingTurn
    /\ UNCHANGED <<stageVars, sessionVars, countVars, endVars, history, handshake,
                   rules, main>>

\* A DYNAMIC_LEFTOVER cycle that began when the local controller had no stage
\* does not ask it for statistics, and may still send it rates at its end.
TurnAfterTaking ==
    IF core.turn = "collect" /\ core.tracked = {} THEN {"collect", "unasked"}
    ELSE {core.turn}

CallMarkStageReady ==
    /\ HasSession
    /\ call = Idle
    /\ core.queue # <<>>
    /\ call' = [Idle EXCEPT !.name = "extract", !.at = Head(core.queue)]
    /\ \E turn \in TurnAfterTaking :
           core' = [EndsByTakingTurn EXCEPT !.queue = Tail(@), !.turn = turn,
                                            !.tracked = @ \cup {Head(core.queue)}]
    /\ UNCHANGED <<stageVars, sessionVars, countVars, endVars, history, handshake,
                   rules, main>>

\* The answer names the stages of data_sessions_.  If it is empty the core stops
\* tracking every stage, else the lost ones only.
StillTracked == IF data_sessions_ = {} THEN {} ELSE core.tracked

\* CollectGlobalStatistics submits its request to every session.
CallCollectGlobalStatistics ==
    /\ Working
    /\ HasSession /\ core.turn = "collect"
    /\ call = Idle
    /\ core.tracked # {}
    /\ call' = [Idle EXCEPT !.name = "collect", !.todo = data_sessions_]
    /\ core' = [core EXCEPT !.turn = "enforce", !.tracked = StillTracked]
    /\ session' = [s \in Stages |->
                      IF s \in data_sessions_
                      THEN [session[s] EXCEPT !.queue = Append(@, "stats")]
                      ELSE session[s]]
    /\ UNCHANGED <<stageVars, preparing_data_sessions_, data_sessions_, countVars,
                   endVars, history, handshake, rules, main>>

EndEnforcement ==
    /\ call' = Idle
    /\ core' = [core EXCEPT !.turn = "collect"]

\* Rates for some of the tracked stages, possibly for none.
CallCreateEnforcementRule ==
    /\ core.calls /\ core.turn # "collect"
    /\ call = Idle
    /\ \/ EndEnforcement
       \/ \E S \in SUBSET core.tracked \ {{}} :
              /\ call' = [Idle EXCEPT !.name = "enforce", !.todo = S]
              /\ UNCHANGED core
    /\ UNCHANGED <<stageVars, sessionVars, countVars, endVars, history, handshake,
                   rules, main>>

\* The core controller ends.  The call it was making is served to the end.
CoreStops ==
    /\ core.up
    /\ core' = [core EXCEPT !.up = FALSE, !.calls = FALSE]
    /\ UNCHANGED <<stageVars, sessionVars, countVars, endVars, history, handshake,
                   rules, main, call>>

-------------------------------------------------------------------------------
(* The handlers of the core controller's calls.                               *)

\* Mutant: one rule too many.
MoreRules_OffByOne == rules <= Len(Rules)

MoreRules == rules < Len(Rules)

\* LocalHandshake, one rule per step.
LocalHandshake ==
    /\ Working
    /\ call.name = "handshake"
    /\ \/ /\ MoreRules
          /\ rules' = rules + 1
          /\ UNCHANGED <<call, core>>
       \/ /\ ~MoreRules
          /\ call' = Idle
          /\ core' = [core EXCEPT !.greeted = TRUE]
          /\ UNCHANGED rules
    /\ UNCHANGED <<stageVars, sessionVars, countVars, endVars, history, handshake, main>>

\* Mutant: the stage is copied, and prepared and managed at once.
TakeNode_Copy(s) == UNCHANGED preparing_data_sessions_

TakeNode(s) == preparing_data_sessions_' = preparing_data_sessions_ \ {s}

\* MarkStageReady: the map's node is taken from preparing_data_sessions_ ...
ExtractStage ==
    /\ Working
    /\ call.name = "extract"
    /\ TakeNode(call.at)
    /\ call' = [call EXCEPT !.name = "insert",
                            !.at = IF @ \in preparing_data_sessions_ THEN @ ELSE NoStage]
    /\ UNCHANGED <<stageVars, data_sessions_, session, countVars, endVars, history,
                   handshake, rules, main, core>>

\* ... and inserted in data_sessions_, unless it is empty.
InsertStage ==
    /\ Working
    /\ call.name = "insert"
    /\ data_sessions_' = data_sessions_ \cup ({call.at} \ {NoStage})
    /\ call' = Idle
    /\ UNCHANGED <<stageVars, preparing_data_sessions_, session, countVars, endVars,
                   history, handshake, rules, main, core>>

\* Mutant: no answer tells of a lost stage.
FoundLost_Never(answer) == FALSE

FoundLost(answer) == answer = "lost"

\* Mutant: the first lost stage ends the collection.
LeftToAnswer_FirstLost(s, answer) == IF FoundLost(answer) THEN {} ELSE call.todo \ {s}

LeftToAnswer(s, answer) == call.todo \ {s}

\* CollectGlobalStatistics reads the answer of one session, in any order (that
\* of the map).  Anything but a StageResponseStat is a null pointer.
CollectAnswer(s) ==
    LET answer == Head(session[s].answers) IN
    /\ Working
    /\ call.name = "collect"
    /\ s \in call.todo
    /\ session[s].answers # <<>>
    /\ PopAnswer(s)
    /\ call' = [call EXCEPT !.todo = LeftToAnswer(s, answer),
                            !.lost = IF FoundLost(answer) THEN @ \cup {s} ELSE @]
    /\ m_active' = IF FoundLost(answer) THEN m_active - 1 ELSE m_active
    /\ process' = IF answer \in {"ok", "error"} THEN "crashed" ELSE process
    /\ UNCHANGED <<stageVars, preparing_data_sessions_, data_sessions_,
                   pending_data_sessions_, m_pending, acceptor, sigpipe_ignored,
                   history, handshake, rules, main, core>>

\* Mutant: the reply does not tell the core of the lost stage.
StopTracking_Not(s) == UNCHANGED core

StopTracking(s) == core' = [core EXCEPT !.tracked = @ \ {s}]

\* ... removes the sessions of sessions_to_delete; the core stops tracking them ...
RemoveLost(s) ==
    /\ Working
    /\ call.name = "collect"
    /\ call.todo = {}
    /\ s \in call.lost
    /\ session' = [session EXCEPT ![s] = NoSession]
    /\ data_sessions_' = data_sessions_ \ {s}
    /\ call' = [call EXCEPT !.lost = @ \ {s}]
    /\ StopTracking(s)
    /\ UNCHANGED <<stageVars, preparing_data_sessions_, countVars, endVars, history,
                   handshake, rules, main>>

\* ... and the core drops a local controller that has no stage left, unless it
\* has yet to see that it registered.
EndCollect ==
    /\ Working
    /\ call.name = "collect"
    /\ call.todo = {}
    /\ call.lost = {}
    /\ call' = Idle
    /\ core' = [core EXCEPT !.calls = @ /\ (core.tracked # {} \/ ~core.greeted)]
    /\ UNCHANGED <<stageVars, sessionVars, countVars, endVars, history, handshake,
                   rules, main>>

\* The channels that LocalHandshake recorded for the operation, all for the same.
Channels == Cardinality({i \in 1..rules : Rules[i] = "create_channel"})

\* CreateEnforcementRule takes the next stage, if there is one.
NextEnforcement ==
    /\ Working
    /\ call.name = "enforce"
    /\ call.left = 0
    /\ \/ /\ call.todo = {}
          /\ EndEnforcement
       \/ \E s \in call.todo :
              /\ call' = [call EXCEPT !.todo = @ \ {s}, !.at = s, !.left = Channels]
              /\ UNCHANGED core
    /\ UNCHANGED <<stageVars, sessionVars, countVars, endVars, history, handshake,
                   rules, main>>

\* LocalPassthru: a stage that is not in data_sessions_ has a null session.
LocalPassthru ==
    LET s == call.at IN
    /\ Working
    /\ call.name = "enforce"
    /\ call.left > 0
    /\ \/ /\ s \in data_sessions_
          /\ Submit(s, <<"enforce">>)
          /\ call' = [call EXCEPT !.name = "enforced"]
          /\ UNCHANGED process
       \/ /\ s \notin data_sessions_
          /\ process' = "crashed"
          /\ UNCHANGED <<session, call>>
    /\ UNCHANGED <<stageVars, preparing_data_sessions_, data_sessions_, countVars,
                   sigpipe_ignored, history, handshake, rules, main, core>>

\* The first bad answer ends CreateEnforcementRule, which replies 1 and OK.
EnforcementAnswer ==
    LET s == call.at
        answer == Head(session[s].answers)
    IN
    /\ Working
    /\ call.name = "enforced"
    /\ session[s].answers # <<>>
    /\ PopAnswer(s)
    /\ \/ /\ answer = "error"
          /\ EndEnforcement
       \/ /\ answer # "error"
          /\ call' = [call EXCEPT !.name = "enforce", !.left = @ - 1]
          /\ UNCHANGED core
    /\ process' = IF answer \in {"rate", "lost"} THEN "crashed" ELSE process
    /\ UNCHANGED <<stageVars, preparing_data_sessions_, data_sessions_, countVars,
                   sigpipe_ignored, history, handshake, rules, main>>

Handler ==
    \/ LocalHandshake \/ ExtractStage \/ InsertStage \/ EndCollect
    \/ NextEnforcement \/ LocalPassthru \/ EnforcementAnswer
    \/ \E s \in Stages : CollectAnswer(s) \/ RemoveLost(s)

CoreCalls ==
    \/ CallLocalHandshake
    \/ CallCollectGlobalStatistics
    \/ CallCreateEnforcementRule

Environment == CoreStops \/ \E s \in Stages : StageStarts(s) \/ StageDies(s)

Next ==
    \/ Environment
    \/ CoreCalls
    \/ CallMarkStageReady
    \/ Main
    \/ Handler
    \/ HandshakeSend
    \/ CountPending
    \/ \E s \in Stages : AcceptStage(s) \/ StageConnects(s) \/ SessionSend(s)

SafetySpec == Init /\ [][Next]_vars

\* Threads are scheduled, a living stage connects and answers, and the core
\* goes through its control cycles.  Each of those takes the queued stages,
\* although a stage may be queued just after it looked: hence the strong
\* fairness.  Nothing makes a stage start or die, or the core stop.
Fairness ==
    /\ WF_vars(Main)
    /\ WF_vars(Handler)
    /\ WF_vars(HandshakeSend)
    /\ WF_vars(CountPending)
    /\ WF_vars(CoreCalls)
    /\ SF_vars(CallMarkStageReady)
    /\ \A s \in Stages : WF_vars(AcceptStage(s)) /\ WF_vars(StageConnects(s))
                         /\ WF_vars(SessionSend(s))

Spec == SafetySpec /\ Fairness

-------------------------------------------------------------------------------
(* Properties.                                                                *)

Requests == {"rule", "ready", "enforce", "stats"}
AnswerCodes == {"ok", "error", "rate", "lost"}

StageType ==
    /\ stage \in [Stages -> {"absent", "connecting", "accepted", "addressed", "connected"}]
    /\ dead \subseteq Stages
    /\ installed \in [Stages -> Nat]
    /\ early \subseteq Stages
    /\ announced \subseteq Stages

CountType ==
    /\ pending_data_sessions_ \in Seq(Stages)
    /\ m_pending \in Int
    /\ m_active \in Int
    /\ acceptor \in {"accepting", "counting"}

SessionType ==
    /\ preparing_data_sessions_ \subseteq Stages \cup {NoStage}
    /\ data_sessions_ \subseteq Stages
    /\ session \in [Stages -> [thread : {"none", "accepting", "working"},
                               queue : Seq(Requests), answers : Seq(AnswerCodes)]]

HandshakeType ==
    handshake \in [thread : {"none", "working", "ended"},
                   rule : {"none", "handshake", "address"},
                   answer : {"none", "ok", "error"}]

MainType ==
    /\ main \in [pc : {"first", "loop", "active", "handshake", "address", "submitting",
                       "answers", "ready", "announcing", "counting"},
                 stage : Stages \cup {NoStage}, seen : Nat, left : Nat, valid : Nat]
    /\ rules \in 0..Len(Rules)

CallType ==
    call \in [name : {"idle", "handshake", "extract", "insert", "collect",
                      "enforce", "enforced"},
              todo : SUBSET (Stages \cup OldStages),
              at : Stages \cup OldStages \cup {NoStage}, left : Nat,
              lost : SUBSET Stages]

CoreType ==
    core \in [up : BOOLEAN, calls : BOOLEAN, greeted : BOOLEAN,
              turn : {"collect", "enforce", "unasked"}, queue : Seq(Stages),
              tracked : SUBSET (Stages \cup OldStages), former : SUBSET OldStages]

EndType ==
    /\ process \in {"working", "exited", "killed", "crashed"}
    /\ sigpipe_ignored \in BOOLEAN

TypeOK ==
    /\ StageType /\ CountType /\ SessionType /\ HandshakeType
    /\ MainType /\ CallType /\ CoreType /\ EndType

\* A stage that the core hears of has acknowledged every housekeeping rule,
\* unless its preparation began before LocalHandshake had brought them all:
\* then it may have none.
\* (submit_housekeeping_rules and the comparison in handle_data_plane_sessions,
\* while LocalHandshake pushes to the same vector.)
AnnouncedHasRules ==
    \A s \in announced : installed[s] = Len(Rules) \/ s \in early

Moving == IF call.name = "insert" THEN {call.at} \ {NoStage} ELSE {}
Present == preparing_data_sessions_ \cup data_sessions_ \cup Moving
Uncounted == IF main.pc = "counting" THEN 1 ELSE 0

\* m_active_data_plane_sessions, on which the exit depends, is the number of
\* announced stages whose session the maps hold and that were not found lost,
\* although the main loop counts up and a handler counts down, and the handler
\* may be faster.
ActiveCounted ==
    m_active + Uncounted = Cardinality((announced \cap Present) \ call.lost)

\* The handlers and the main loop never use the session of the same stage: the
\* main loop is done with a session when the stage is announced.
\* (preparing_data_sessions_ and data_sessions_ are used without a lock.)
SessionHandedOver ==
    main.pc \in {"submitting", "answers", "ready", "announcing"}
        => main.stage \notin data_sessions_ \cup Moving \cup core.tracked \cup ToSet(core.queue)

\* Between two calls no session of a managed stage holds a request or an answer
\* that the next call would take for its own.
\* (GetResult pairs answers with requests only by their order.)
AnswersConsumed ==
    call = Idle => \A s \in data_sessions_ :
                       session[s].queue = <<>> /\ session[s].answers = <<>>

\* The local controller exits only when every stage that the core was told of is
\* gone: lost, with its session or without one.
\* (execute_feedback_loop calls _exit whatever the handlers are doing.)
ExitAbandonsNoStage ==
    process = "exited" => announced \cap Present \subseteq call.lost

\* The local controller crashes in two cases only: LocalHandshake adds a rule
\* under the loop of the main thread, or the core sends a rate for a stage of
\* the process that ran at this address before.  Every other stage that the
\* core sends rates for has a session, whatever was lost or joined meanwhile.
\* (LocalPassthru dereferences the session of any name it is given.)
NoNullSession ==
    process = "crashed" => \/ main.pc = "submitting" /\ main.seen < rules
                           \/ call.name = "enforce" /\ call.at \in core.former

\* A stage that is managed takes the local controller down when it dies only by
\* a rate in a cycle without a collection, which DYNAMIC_LEFTOVER alone has;
\* else only a stage that is being prepared does: what a managed stage is sent
\* first is a collection.
\* (SIGPIPE is not ignored before collect_global_statistics ran once.)
ManagedStageNeverKills ==
    process = "killed" =>
        \/ main.stage \in dead
        \/ core.turn = "unasked" /\ call.name = "enforced" /\ call.at \in dead

\* The main loop gets over every stage it takes, unless the stage dies: then it
\* may wait for its answer for ever.
\* (GetResult and accept have no timeout.)
HandshakeEnds ==
    \A s \in Stages : main.stage = s ~> main.stage # s \/ s \in dead \/ ~Working

\* A managed stage that died is found out by the collections.
LostStageDropped ==
    \A s \in Stages :
        s \in dead /\ s \in data_sessions_ ~> s \notin data_sessions_ \/ ~Working \/ ~core.up

Taken == IF main.pc = "counting" THEN NoStage ELSE main.stage

\* What the local controller promises about the stages, step by step: arrival
\* order, one at a time, announced before managed, given up only once managed.
Registry == INSTANCE StageRegistry WITH
    waiting   <- pending_data_sessions_,
    current   <- Taken,
    announced <- announced \cap (preparing_data_sessions_ \cup Moving),
    managed   <- data_sessions_,
    past      <- {s \in Stages : stage[s] \notin {"absent", "connecting"}}
                     \ (ToSet(pending_data_sessions_) \cup {Taken} \cup data_sessions_
                         \cup (announced \cap (preparing_data_sessions_ \cup Moving)))

ImplementsRegistry == Registry!Spec

===============================================================================
