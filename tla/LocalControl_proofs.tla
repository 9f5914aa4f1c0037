------------------------- MODULE LocalControl_proofs -------------------------
(* Proofs about LocalControl, for every set of stages and all housekeeping    *)
(* rules: the safety invariants that the run local checks, and, step by step, *)
(* the refinement of StageRegistry.                                           *)
EXTENDS LocalControl, FiniteSetTheorems, TLAPS

-------------------------------------------------------------------------------
(* The inductive invariant.  It follows each stage: where it waits, who       *)
(* prepares or manages it, what its session holds.                            *)

\* No element of a sequence occurs twice.
Once(q) == \A i, j \in DOMAIN q : q[i] = q[j] => i = j

InPreparation == {"address", "submitting", "answers", "ready", "announcing"}
WithSession == InPreparation \ {"address"}

\* No session was created for the stage yet.
Fresh(s) ==
    \/ stage[s] \in {"absent", "connecting"}
    \/ s \in ToSet(pending_data_sessions_)
    \/ main.pc = "handshake" /\ s = main.stage

\* The stages that wait are distinct, and main is concerned with another one.
WaitingInv ==
    /\ Once(pending_data_sessions_)
    /\ \A s \in ToSet(pending_data_sessions_) : stage[s] = "accepted"
    /\ main.stage \notin ToSet(pending_data_sessions_)
    /\ main.stage # NoStage => stage[main.stage] \notin {"absent", "connecting"}

FreshInv ==
    \A s \in Stages : Fresh(s) =>
        /\ session[s] = NoSession
        /\ installed[s] = 0
        /\ s \notin preparing_data_sessions_ \cup announced

\* What main knows of the stage that it prepares.
MainInv ==
    /\ main.stage = NoStage <=> main.pc \in {"first", "loop", "active"}
    /\ main.pc \in InPreparation => main.stage \notin announced
    /\ main.pc = "counting" => main.stage \in announced
    /\ main.pc = "handshake" /\ handshake.answer = "error" => handshake.thread = "ended"
    /\ main.pc = "address" =>
          \/ main.stage \in preparing_data_sessions_
          \/ handshake.thread = "ended" /\ handshake.answer = "none"
    /\ main.pc \in WithSession => main.stage \in preparing_data_sessions_

\* Where the core's knowledge and the maps stand in the handler's call.
CallInv ==
    /\ data_sessions_ \subseteq announced
    /\ preparing_data_sessions_ \cap data_sessions_ = {}
    /\ core.tracked \ core.former = data_sessions_
          \cup (IF call.name \in {"extract", "insert"} THEN {call.at} ELSE {})
    /\ Once(core.queue)
    /\ ToSet(core.queue) \subseteq preparing_data_sessions_ \cap announced
    /\ call.name = "extract" =>
          call.at \in (preparing_data_sessions_ \cap announced) \ ToSet(core.queue)
    /\ call.name = "insert" =>
          call.at \in announced \ (preparing_data_sessions_ \cup data_sessions_)
    /\ call.name = "collect" =>
          /\ call.todo \cup call.lost \subseteq data_sessions_
          /\ call.todo \cap call.lost = {}
    /\ call.name # "collect" => call.lost = {}
    /\ call.name \in {"enforce", "enforced"} =>
          /\ call.todo \subseteq data_sessions_ \cup core.former
          /\ call.left > 0 => call.at \in data_sessions_ \cup core.former
    /\ call.name = "enforced" => call.left > 0 /\ call.at \in data_sessions_

\* The stages whose sessions the main loop and the handler are using.
MainUses == IF main.pc \in {"answers", "ready"} THEN {main.stage} ELSE {}
CallUses ==
    IF call.name = "collect" THEN call.todo
    ELSE IF call.name = "enforced" THEN {call.at} ELSE {}

Quiet(s) == session[s].queue = <<>> /\ session[s].answers = <<>>

\* One request is under way, or its answer is there.
OneRequest(s, request, answers) ==
    \/ session[s].queue = <<request>> /\ session[s].answers = <<>>
    \/ session[s].queue = <<>> /\ \E a \in answers : session[s].answers = <<a>>

UseInv ==
    /\ \A s \in Stages \ (MainUses \cup CallUses) : Quiet(s)
    /\ call.name = "collect" =>
          \A s \in call.todo : OneRequest(s, "stats", {"rate", "lost"})
    /\ call.name = "enforced" => OneRequest(call.at, "enforce", {"ok", "error"})
    /\ main.pc = "ready" => OneRequest(main.stage, "ready", {"ok", "error"})

\* The housekeeping rules of the stage that is being prepared: those that are
\* submitted, answered, read and counted.  An error ends the count at 0.
RulesInv ==
    /\ main.seen <= rules
    /\ main.pc \in {"address", "submitting"} => installed[main.stage] = 0
    /\ main.pc \in {"submitting", "answers"} => main.seen = Len(Rules) \/ main.stage \in early
    /\ main.pc \notin {"answers", "ready", "announcing", "counting"} => main.valid = 0
    /\ main.pc = "answers" =>
          LET queue   == session[main.stage].queue
              answers == session[main.stage].answers
          IN  /\ \A i \in DOMAIN queue : queue[i] = "rule"
              /\ \A i \in DOMAIN answers : answers[i] \in {"ok", "error"}
              /\ \/ main.left = 0 /\ main.valid = 0 /\ main.seen > 0
                 \/ /\ main.valid + main.left = main.seen
                    /\ Len(queue) + Len(answers) = main.left
                    /\ (\A i \in DOMAIN answers : answers[i] = "ok")
                          => installed[main.stage] = main.valid + Len(answers)
    /\ main.pc \in {"ready", "announcing"} =>
          installed[main.stage] = Len(Rules) \/ main.stage \in early
    /\ AnnouncedHasRules

\* What the stages that are managed were sent first: a collection, unless their
\* local controller was not asked for one.
Safe == sigpipe_ignored \/ data_sessions_ = {}

SigpipeInv ==
    /\ call.name \in {"enforce", "enforced"} => core.turn = "unasked" \/ Safe
    /\ call.name \in {"extract", "insert"} => ~core.calls \/ core.turn # "enforce"
    /\ core.calls /\ core.turn = "enforce" => call.name = "collect" \/ Safe
    /\ call.name = "collect" =>
          \/ Safe
          \/ call.todo # {} /\ \A s \in call.todo : session[s].answers = <<>>

CountInv == IsFiniteSet(announced) /\ ActiveCounted

EndInv == ExitAbandonsNoStage /\ NoNullSession /\ ManagedStageNeverKills

Inv ==
    /\ TypeOK /\ WaitingInv /\ FreshInv /\ MainInv /\ CallInv
    /\ UseInv /\ RulesInv /\ SigpipeInv /\ CountInv /\ EndInv

-------------------------------------------------------------------------------
(* Sequences.                                                                 *)

LEMMA AppendToSet ==
    ASSUME NEW S, NEW q \in Seq(S), NEW e \in S
    PROVE  ToSet(Append(q, e)) = ToSet(q) \cup {e}
<1> DEFINE a == Append(q, e)
<1>1. /\ DOMAIN a = 1..Len(q) + 1 /\ DOMAIN q = 1..Len(q) /\ Len(q) \in Nat
      /\ \A i \in 1..Len(q) : a[i] = q[i]
      /\ a[Len(q) + 1] = e
  OBVIOUS
<1> HIDE DEF a
<1>2. ASSUME NEW x \in ToSet(q) PROVE x \in ToSet(a)
  BY <1>1, <1>2 DEF ToSet
<1>3. e \in ToSet(a)
  BY <1>1 DEF ToSet
<1>4. ASSUME NEW x \in ToSet(a) PROVE x \in ToSet(q) \cup {e}
  BY <1>1, <1>4 DEF ToSet
<1> QED
  BY <1>2, <1>3, <1>4 DEF a

LEMMA AppendOnce ==
    ASSUME NEW S, NEW q \in Seq(S), NEW e \in S, Once(q), e \notin ToSet(q)
    PROVE  Once(Append(q, e))
<1> DEFINE a == Append(q, e)
<1>1. /\ DOMAIN a = 1..Len(q) + 1 /\ DOMAIN q = 1..Len(q) /\ Len(q) \in Nat
      /\ \A i \in 1..Len(q) : a[i] = q[i]
      /\ a[Len(q) + 1] = e
  OBVIOUS
<1> HIDE DEF a
<1>2. Once(a)
  BY <1>1 DEF Once, ToSet
<1> QED
  BY <1>2 DEF a

LEMMA TailOnce ==
    ASSUME NEW S, NEW q \in Seq(S), q # <<>>, Once(q)
    PROVE  /\ Head(q) \in S /\ Head(q) \in ToSet(q) /\ Tail(q) \in Seq(S)
           /\ ToSet(Tail(q)) = ToSet(q) \ {Head(q)}
           /\ Once(Tail(q))
<1> DEFINE b == Tail(q)
<1>1. /\ Len(q) \in Nat \ {0} /\ Head(q) = q[1]
      /\ DOMAIN q = 1..Len(q)
      /\ DOMAIN b = 1..Len(q) - 1
      /\ \A i \in 1..Len(q) - 1 : b[i] = q[i + 1]
  OBVIOUS
<1> HIDE DEF b
<1>2. Once(b)
  BY <1>1 DEF Once
<1>3. ASSUME NEW x \in ToSet(b) PROVE x \in ToSet(q) \ {Head(q)}
  <2>1. PICK i \in DOMAIN b : x = b[i]
    BY <1>3 DEF ToSet
  <2>2. i + 1 \in DOMAIN q /\ q[i + 1] = x /\ 1 \in DOMAIN q /\ i + 1 # 1
    BY <1>1, <2>1
  <2> QED
    BY <1>1, <2>2 DEF ToSet, Once
<1>4. ASSUME NEW x \in ToSet(q) \ {Head(q)} PROVE x \in ToSet(b)
  <2>1. PICK i \in DOMAIN q : x = q[i]
    BY <1>4 DEF ToSet
  <2>2. i - 1 \in DOMAIN b /\ b[i - 1] = x
    BY <1>1, <1>4, <2>1
  <2> QED
    BY <2>2 DEF ToSet
<1>5. Head(q) \in ToSet(q)
  BY <1>1 DEF ToSet
<1>6. Head(q) \in S /\ Tail(q) \in Seq(S)
  OBVIOUS
<1> QED
  BY <1>2, <1>3, <1>4, <1>5, <1>6 DEF b

-------------------------------------------------------------------------------
(* Type correctness.                                                          *)

LEMMA ChannelsType == rules \in Nat => Channels \in Nat
<1> SUFFICES ASSUME rules \in Nat PROVE Channels \in Nat
  OBVIOUS
<1>1. IsFiniteSet(1..rules)
  BY FS_Interval
<1>2. {i \in 1..rules : Rules[i] = "create_channel"} \in SUBSET (1..rules)
  OBVIOUS
<1> QED
  BY <1>1, <1>2, FS_Subset, FS_CardinalityType DEF Channels

LEMMA TypeInit == Init => TypeOK
<1> SUFFICES ASSUME Init PROVE TypeOK
  OBVIOUS
<1>1. Len(Rules) \in Nat
  BY RulesAssumption
<1>2. SessionType
  BY DEF Init, SessionType, NoSession
<1>3. StageType /\ HandshakeType /\ EndType
  BY DEF Init, StageType, HandshakeType, EndType, NoHandshake
<1>7. CountType
  BY DEF Init, CountType
<1>4. MainType
  BY <1>1 DEF Init, MainType, AtLoop
<1>5. CallType
  BY DEF Init, CallType, Idle
<1>6. CoreType
  BY DEF Init, CoreInit, CoreType
<1> QED
  BY <1>2, <1>3, <1>4, <1>5, <1>6, <1>7 DEF TypeOK

-------------------------------------------------------------------------------
(* A part of the invariant holds on as long as its variables do not change.   *)

LEMMA Frame ==
    Inv =>
    /\ UNCHANGED <<stage, dead, installed, early, announced>> => StageType'
    /\ UNCHANGED <<pending_data_sessions_, m_pending, m_active, acceptor>> => CountType'
    /\ UNCHANGED <<preparing_data_sessions_, data_sessions_, session>> => SessionType'
    /\ UNCHANGED <<handshake>> => HandshakeType'
    /\ UNCHANGED <<main, rules>> => MainType'
    /\ UNCHANGED <<call>> => CallType'
    /\ UNCHANGED <<core>> => CoreType'
    /\ UNCHANGED <<process, sigpipe_ignored>> => EndType'
    /\ UNCHANGED <<pending_data_sessions_, stage, main>> => WaitingInv'
    /\ UNCHANGED <<stage, pending_data_sessions_, main, session, installed, preparing_data_sessions_, announced>> => FreshInv'
    /\ UNCHANGED <<main, announced, handshake, preparing_data_sessions_>> => MainInv'
    /\ UNCHANGED <<data_sessions_, announced, preparing_data_sessions_, core, call>> => CallInv'
    /\ UNCHANGED <<session, main, call>> => UseInv'
    /\ UNCHANGED <<main, rules, installed, early, session, announced>> => RulesInv'
    /\ UNCHANGED <<call, sigpipe_ignored, core, session, data_sessions_>> => SigpipeInv'
    /\ UNCHANGED <<announced, m_active, main, preparing_data_sessions_, data_sessions_, call>> => CountInv'
    /\ UNCHANGED <<process, announced, preparing_data_sessions_, data_sessions_, call, main, rules, dead, core>> => EndInv'
<1> USE DEF Inv, TypeOK
<1>1. Inv /\ UNCHANGED <<stage, dead, installed, early, announced>> => StageType'
  BY DEF StageType
<1>2. Inv /\ UNCHANGED <<pending_data_sessions_, m_pending, m_active, acceptor>> => CountType'
  BY DEF CountType
<1>3. Inv /\ UNCHANGED <<preparing_data_sessions_, data_sessions_, session>> => SessionType'
  BY DEF SessionType
<1>4. Inv /\ UNCHANGED <<handshake>> => HandshakeType'
  BY DEF HandshakeType
<1>5. Inv /\ UNCHANGED <<main, rules>> => MainType'
  BY DEF MainType
<1>6. Inv /\ UNCHANGED <<call>> => CallType'
  BY DEF CallType
<1>7. Inv /\ UNCHANGED <<core>> => CoreType'
  BY DEF CoreType
<1>8. Inv /\ UNCHANGED <<process, sigpipe_ignored>> => EndType'
  BY DEF EndType
<1>9. Inv /\ UNCHANGED <<pending_data_sessions_, stage, main>> => WaitingInv'
  BY DEF WaitingInv, Once
<1>10. Inv /\ UNCHANGED <<stage, pending_data_sessions_, main, session, installed, preparing_data_sessions_, announced>> => FreshInv'
  BY DEF FreshInv, Fresh, NoSession
<1>11. Inv /\ UNCHANGED <<main, announced, handshake, preparing_data_sessions_>> => MainInv'
  BY DEF MainInv, InPreparation, WithSession
<1>12. Inv /\ UNCHANGED <<data_sessions_, announced, preparing_data_sessions_, core, call>> => CallInv'
  BY DEF CallInv, Once
<1>13. Inv /\ UNCHANGED <<session, main, call>> => UseInv'
  BY DEF UseInv, MainUses, CallUses, Quiet, OneRequest
<1>14. Inv /\ UNCHANGED <<main, rules, installed, early, session, announced>> => RulesInv'
  BY DEF RulesInv, AnnouncedHasRules
<1>15. Inv /\ UNCHANGED <<call, sigpipe_ignored, core, session, data_sessions_>> => SigpipeInv'
  BY DEF SigpipeInv, Safe
<1>16. Inv /\ UNCHANGED <<announced, m_active, main, preparing_data_sessions_, data_sessions_, call>> => CountInv'
  BY DEF CountInv, ActiveCounted, Present, Moving, Uncounted
<1>17. Inv /\ UNCHANGED <<process, announced, preparing_data_sessions_, data_sessions_, call, main, rules, dead, core>> => EndInv'
  BY DEF EndInv, ExitAbandonsNoStage, NoNullSession, ManagedStageNeverKills, Present, Moving
<1> QED
  BY <1>1, <1>2, <1>3, <1>4, <1>5, <1>6, <1>7, <1>8, <1>9, <1>10, <1>11, <1>12, <1>13, <1>14, <1>15, <1>16, <1>17

LEMMA Roles ==
    ASSUME Inv
    PROVE  /\ data_sessions_ \subseteq announced /\ announced \subseteq Stages
           /\ CallUses \subseteq data_sessions_
           /\ MainUses \subseteq Stages \cap preparing_data_sessions_
           /\ MainUses \cap announced = {}
           /\ NoStage \notin Stages
           /\ main.stage # NoStage => main.stage \in Stages
           /\ \A s \in Stages : Fresh(s) =>
                 /\ s \notin data_sessions_ \cup MainUses \cup CallUses \cup ToSet(core.queue)
                 /\ s \notin preparing_data_sessions_ \cup announced
                 /\ session[s] = NoSession /\ Quiet(s) /\ installed[s] = 0
<1> USE DEF Inv, TypeOK
<1>1. data_sessions_ \subseteq announced /\ announced \subseteq Stages
  BY DEF CallInv, StageType
<1>2. CallUses \subseteq data_sessions_
  BY DEF CallInv, CallUses, CallType
<1>3. /\ MainUses \subseteq Stages \cap preparing_data_sessions_
      /\ MainUses \cap announced = {}
      /\ main.stage # NoStage => main.stage \in Stages
  BY DEF MainUses, MainInv, MainType, InPreparation, WithSession
<1>4. \A s \in Stages : Fresh(s) =>
         /\ s \notin preparing_data_sessions_ \cup announced
         /\ session[s] = NoSession /\ installed[s] = 0 /\ Quiet(s)
  BY DEF FreshInv, NoSession, Quiet
<1>5. ToSet(core.queue) \subseteq announced
  BY DEF CallInv
<1> QED
  BY <1>1, <1>2, <1>3, <1>4, <1>5, NoStageAssumption

-------------------------------------------------------------------------------
(* What an operation on a session does, and what a step cannot spoil.         *)

SessionRecords == [thread : {"none", "accepting", "working"},
                   queue : Seq(Requests), answers : Seq(AnswerCodes)]

LEMMA SubmitEffect ==
    ASSUME SessionType, NEW s \in Stages, NEW requests \in Seq(Requests), Submit(s, requests)
    PROVE  /\ session' \in [Stages -> SessionRecords]
           /\ session'[s].queue = session[s].queue \o requests
           /\ session'[s].answers = session[s].answers
           /\ \A t \in Stages \ {s} : session'[t] = session[t]
<1> DEFINE new == [session[s] EXCEPT !.queue = session[s].queue \o requests]
<1>1. session' = [session EXCEPT ![s] = new] /\ session \in [Stages -> SessionRecords]
  BY DEF Submit, SessionType, SessionRecords
<1>2. /\ new \in SessionRecords /\ new.queue = session[s].queue \o requests
      /\ new.answers = session[s].answers
  <2>1. session[s].queue \o requests \in Seq(Requests)
    BY <1>1 DEF SessionRecords
  <2> QED
    BY <1>1, <2>1 DEF SessionRecords
<1> HIDE DEF new
<1> QED
  BY <1>1, <1>2

LEMMA PopEffect ==
    ASSUME SessionType, NEW s \in Stages, session[s].answers # <<>>, PopAnswer(s)
    PROVE  /\ session' \in [Stages -> SessionRecords]
           /\ session'[s].queue = session[s].queue
           /\ session'[s].answers = Tail(session[s].answers)
           /\ \A t \in Stages \ {s} : session'[t] = session[t]
<1> DEFINE new == [session[s] EXCEPT !.answers = Tail(session[s].answers)]
<1>1. session' = [session EXCEPT ![s] = new] /\ session \in [Stages -> SessionRecords]
  BY DEF PopAnswer, SessionType, SessionRecords
<1>2. /\ new \in SessionRecords /\ new.queue = session[s].queue
      /\ new.answers = Tail(session[s].answers)
  <2>1. session[s].answers \in Seq(AnswerCodes)
    BY <1>1 DEF SessionRecords
  <2>2. Tail(session[s].answers) \in Seq(AnswerCodes)
    BY <2>1
  <2> QED
    BY <1>1, <2>2 DEF SessionRecords
<1> HIDE DEF new
<1> QED
  BY <1>1, <1>2

LEMMA RemoveEffect ==
    ASSUME SessionType, NEW s \in Stages, session' = [session EXCEPT ![s] = NoSession]
    PROVE  /\ session' \in [Stages -> SessionRecords]
           /\ session'[s] = NoSession /\ Quiet(s)'
           /\ \A t \in Stages \ {s} : session'[t] = session[t]
<1>1. session \in [Stages -> SessionRecords]
  BY DEF SessionType, SessionRecords
<1>2. NoSession \in SessionRecords
  BY DEF NoSession, SessionRecords
<1> QED
  BY <1>1, <1>2 DEF NoSession, Quiet

LEMMA WorksOn ==
    ASSUME Working, UNCHANGED process
    PROVE  EndInv'
  BY DEF Working, EndInv, ExitAbandonsNoStage, NoNullSession, ManagedStageNeverKills

-------------------------------------------------------------------------------
(* Each action keeps the invariant.                                           *)

LEMMA StageStartsKeeps ==
    ASSUME Inv, NEW s \in Stages, StageStarts(s)
    PROVE  Inv'
<1> USE DEF Inv, TypeOK
<1>1. UNCHANGED <<dead, installed, early, announced, pending_data_sessions_, m_pending, m_active, acceptor, preparing_data_sessions_, data_sessions_, session, handshake, main, rules, call, core, process, sigpipe_ignored>>
  BY DEF StageStarts, stageVars, sessionVars, countVars, endVars, history
<1>2. CountType' /\ SessionType' /\ HandshakeType' /\ MainType' /\ CallType' /\ CoreType' /\ EndType' /\ MainInv' /\ CallInv' /\ UseInv' /\ RulesInv' /\ SigpipeInv' /\ CountInv' /\ EndInv'
  BY <1>1, Frame
<1>3. StageType'
  BY <1>1 DEF StageStarts, StageType
<1>4. WaitingInv'
  BY <1>1 DEF StageStarts, WaitingInv, StageType, CountType, MainType
<1>5. FreshInv'
  BY <1>1 DEF StageStarts, FreshInv, Fresh, NoSession, StageType, CountType, SessionType, MainType
<1> QED
  BY <1>2, <1>3, <1>4, <1>5

LEMMA StageDiesKeeps ==
    ASSUME Inv, NEW s \in Stages, StageDies(s)
    PROVE  Inv'
<1> USE DEF Inv, TypeOK
<1>1. UNCHANGED <<stage, installed, early, announced, pending_data_sessions_, m_pending, m_active, acceptor, preparing_data_sessions_, data_sessions_, session, handshake, main, rules, call, core, process, sigpipe_ignored>>
  BY DEF StageDies, stageVars, sessionVars, countVars, endVars, history
<1>2. CountType' /\ SessionType' /\ HandshakeType' /\ MainType' /\ CallType' /\ CoreType' /\ EndType' /\ WaitingInv' /\ FreshInv' /\ MainInv' /\ CallInv' /\ UseInv' /\ RulesInv' /\ SigpipeInv' /\ CountInv'
  BY <1>1, Frame
<1>3. StageType'
  BY <1>1 DEF StageDies, StageType
<1>4. EndInv'
  BY <1>1 DEF StageDies, EndInv, ExitAbandonsNoStage, NoNullSession, ManagedStageNeverKills, Present, Moving, StageType, SessionType, MainType, CallType, EndType
<1> QED
  BY <1>2, <1>3, <1>4

LEMMA CoreStopsKeeps ==
    ASSUME Inv, CoreStops
    PROVE  Inv'
<1> USE DEF Inv, TypeOK
<1>1. UNCHANGED <<stage, dead, installed, early, announced, pending_data_sessions_, m_pending, m_active, acceptor, preparing_data_sessions_, data_sessions_, session, handshake, main, rules, call, process, sigpipe_ignored>>
  BY DEF CoreStops, stageVars, sessionVars, countVars, endVars, history
<1>2. StageType' /\ CountType' /\ SessionType' /\ HandshakeType' /\ MainType' /\ CallType' /\ EndType' /\ WaitingInv' /\ FreshInv' /\ MainInv' /\ UseInv' /\ RulesInv' /\ CountInv'
  BY <1>1, Frame
<1>3. CoreType'
  BY <1>1 DEF CoreStops, CoreType
<1>4. CallInv'
  BY <1>1 DEF CoreStops, CallInv, StageType, SessionType, CallType, CoreType
<1>5. SigpipeInv'
  BY <1>1 DEF CoreStops, SigpipeInv, Safe, SessionType, CallType, CoreType, EndType
<1>6. core'.former = core.former /\ core'.turn = core.turn
  BY DEF CoreStops, CoreType
<1>7. EndInv'
  BY <1>1, <1>6 DEF EndInv, ExitAbandonsNoStage, NoNullSession, ManagedStageNeverKills, Present, Moving
<1> QED
  BY <1>2, <1>3, <1>4, <1>5, <1>7

LEMMA CallLocalHandshakeKeeps ==
    ASSUME Inv, CallLocalHandshake
    PROVE  Inv'
<1> USE DEF Inv, TypeOK
<1>1. UNCHANGED <<stage, dead, installed, early, announced, pending_data_sessions_, m_pending, m_active, acceptor, preparing_data_sessions_, data_sessions_, session, handshake, main, rules, process, sigpipe_ignored>>
  BY DEF CallLocalHandshake, stageVars, sessionVars, countVars, endVars, history, Idle
<1>2. StageType' /\ CountType' /\ SessionType' /\ HandshakeType' /\ MainType' /\ EndType' /\ WaitingInv' /\ FreshInv' /\ MainInv' /\ RulesInv'
  BY <1>1, Frame
<1>a. /\ core' = EndsByTakingTurn /\ call = Idle /\ call' = [Idle EXCEPT !.name = "handshake"]
  BY DEF CallLocalHandshake
<1>b. CoreType' /\ core'.tracked = core.tracked /\ core'.queue = core.queue
      /\ core'.turn = core.turn /\ core'.former = core.former
      /\ (core.turn = "enforce" => ~core'.calls) /\ (core'.calls => core.calls)
  BY <1>a DEF EndsByTakingTurn, CoreType
<1>3. CallType'
  BY <1>1 DEF CallLocalHandshake, Idle, CallType
<1>4. CallInv'
  BY <1>1, <1>a, <1>b DEF Idle, CallInv, Once
<1>5. UseInv'
  BY <1>1 DEF CallLocalHandshake, Idle, UseInv, MainUses, CallUses, Quiet, OneRequest, SessionType, MainType, CallType
<1>6. SigpipeInv'
  BY <1>1, <1>a, <1>b DEF Idle, SigpipeInv, Safe, CoreType
<1>7. CountInv'
  BY <1>1 DEF CallLocalHandshake, Idle, CountInv, ActiveCounted, Present, Moving, Uncounted, StageType, CountType, SessionType, MainType, CallType
<1>8. EndInv'
  BY <1>1, <1>b DEF CallLocalHandshake, Idle, EndInv, ExitAbandonsNoStage, NoNullSession, ManagedStageNeverKills, Present, Moving, StageType, SessionType, MainType, CallType, EndType
<1> QED
  BY <1>2, <1>b, <1>3, <1>4, <1>5, <1>6, <1>7, <1>8

LEMMA CallMarkStageReadyKeeps ==
    ASSUME Inv, CallMarkStageReady
    PROVE  Inv'
<1> USE DEF Inv, TypeOK
<1>1. UNCHANGED <<stage, dead, installed, early, announced, pending_data_sessions_, m_pending, m_active, acceptor, preparing_data_sessions_, data_sessions_, session, handshake, main, rules, process, sigpipe_ignored>>
  BY DEF CallMarkStageReady, stageVars, sessionVars, countVars, endVars, history, Idle
<1>2. StageType' /\ CountType' /\ SessionType' /\ HandshakeType' /\ MainType' /\ EndType' /\ WaitingInv' /\ FreshInv' /\ MainInv' /\ RulesInv'
  BY <1>1, Frame
<1> DEFINE h == Head(core.queue)
<1>a. /\ core.queue \in Seq(Stages) /\ core.queue # <<>> /\ Once(core.queue)
  BY DEF CoreType, CallInv, CallMarkStageReady
<1>b. /\ h \in Stages /\ h \in ToSet(core.queue) /\ Tail(core.queue) \in Seq(Stages)
      /\ ToSet(Tail(core.queue)) = ToSet(core.queue) \ {h} /\ Once(Tail(core.queue))
  BY <1>a, TailOnce
<1>c. /\ call = Idle /\ call' = [Idle EXCEPT !.name = "extract", !.at = h]
      /\ \E turn \in TurnAfterTaking :
            core' = [EndsByTakingTurn EXCEPT !.queue = Tail(@), !.turn = turn,
                                             !.tracked = @ \cup {h}]
  BY DEF CallMarkStageReady
<1>d. PICK turn \in TurnAfterTaking :
         core' = [EndsByTakingTurn EXCEPT !.queue = Tail(@), !.turn = turn, !.tracked = @ \cup {h}]
  BY <1>c
<1>e. turn \in {"collect", "enforce", "unasked"} /\ (turn = "enforce" => core.turn = "enforce")
  BY DEF TurnAfterTaking, CoreType
<1>f. /\ core'.queue = Tail(core.queue) /\ core'.tracked = core.tracked \cup {h}
      /\ core'.turn = turn /\ core'.former = core.former
      /\ core'.up \in BOOLEAN /\ core'.calls \in BOOLEAN
      /\ core.turn = "enforce" => ~core'.calls
  BY <1>d DEF EndsByTakingTurn, CoreType
<1>g. h \notin core.former /\ (core.tracked \cup {h}) \ core.former = (core.tracked \ core.former) \cup {h}
  BY <1>b, OldStagesAssumption DEF CoreType
<1> HIDE DEF h
<1>3. CallType'
  BY <1>b, <1>c DEF CallType, Idle
<1>4. CoreType'
  BY <1>b, <1>d, <1>e DEF CoreType, EndsByTakingTurn
<1>5. CallInv'
  BY <1>1, <1>b, <1>c, <1>f, <1>g DEF CallInv, Idle
<1>6. UseInv'
  BY <1>1 DEF CallMarkStageReady, Idle, UseInv, MainUses, CallUses, Quiet, OneRequest, SessionType, MainType, CallType
<1>7. SigpipeInv'
  BY <1>1, <1>c, <1>e, <1>f DEF Idle, SigpipeInv, Safe
<1>8. CountInv'
  BY <1>1 DEF CallMarkStageReady, Idle, CountInv, ActiveCounted, Present, Moving, Uncounted, StageType, CountType, SessionType, MainType, CallType
<1>9. EndInv'
  BY <1>1 DEF CallMarkStageReady, Idle, EndInv, ExitAbandonsNoStage, NoNullSession, ManagedStageNeverKills, Present, Moving, StageType, SessionType, MainType, CallType, EndType
<1> QED
  BY <1>2, <1>3, <1>4, <1>5, <1>6, <1>7, <1>8, <1>9

LEMMA CallCollectGlobalStatisticsKeeps ==
    ASSUME Inv, CallCollectGlobalStatistics
    PROVE  Inv'
<1> USE DEF Inv, TypeOK
<1>1. UNCHANGED <<stage, dead, installed, early, announced, pending_data_sessions_, m_pending, m_active, acceptor, preparing_data_sessions_, data_sessions_, handshake, main, rules, process, sigpipe_ignored>>
  BY DEF CallCollectGlobalStatistics, stageVars, sessionVars, countVars, endVars, history, Idle
<1>2. StageType' /\ CountType' /\ HandshakeType' /\ MainType' /\ EndType' /\ WaitingInv' /\ MainInv'
  BY <1>1, Frame
<1>a. /\ call = Idle /\ call' = [Idle EXCEPT !.name = "collect", !.todo = data_sessions_]
      /\ core' = [core EXCEPT !.turn = "enforce", !.tracked = StillTracked]
      /\ session' = [s \in Stages |->
                        IF s \in data_sessions_
                        THEN [session[s] EXCEPT !.queue = Append(@, "stats")] ELSE session[s]]
  BY DEF CallCollectGlobalStatistics
\* Nobody uses the sessions of the stages that are managed.
<1>b. \A s \in data_sessions_ : s \in Stages /\ Quiet(s) /\ s \notin MainUses
  BY <1>a DEF UseInv, CallInv, MainInv, MainUses, CallUses, Idle, WithSession, InPreparation, SessionType
<1>c. \A s \in data_sessions_ :
         session'[s].queue = <<"stats">> /\ session'[s].answers = <<>> /\ session'[s].thread = session[s].thread
  <2> SUFFICES ASSUME NEW s \in data_sessions_
               PROVE  /\ session'[s].queue = <<"stats">> /\ session'[s].answers = <<>>
                      /\ session'[s].thread = session[s].thread
    OBVIOUS
  <2>1. session'[s] = [session[s] EXCEPT !.queue = Append(session[s].queue, "stats")]
    BY <1>a, <1>b
  <2>2. /\ session'[s].queue = Append(session[s].queue, "stats")
        /\ session'[s].answers = session[s].answers /\ session'[s].thread = session[s].thread
    BY <1>b, <2>1 DEF SessionType
  <2>3. Append(<<>>, "stats") = <<"stats">>
    OBVIOUS
  <2> QED
    BY <1>b, <2>2, <2>3 DEF Quiet
<1>d. \A s \in Stages \ data_sessions_ : session'[s] = session[s]
  BY <1>a
<1>e. main.pc \in {"answers", "ready"} => session'[main.stage] = session[main.stage]
  BY <1>b, <1>d DEF MainUses, MainType, MainInv
<1>f. /\ core'.tracked = StillTracked /\ core'.queue = core.queue /\ core'.turn = "enforce"
      /\ core'.former = core.former
  BY <1>a DEF CoreType
<1>h. StillTracked \ core.former = core.tracked \ core.former /\ StillTracked \subseteq core.tracked
  BY <1>a DEF StillTracked, CallInv, Idle
<1>g. call'.name = "collect" /\ call'.todo = data_sessions_ /\ call'.lost = {}
  BY <1>a DEF Idle
<1>3. SessionType'
  <2>1. ASSUME NEW s \in data_sessions_
        PROVE  session'[s] \in [thread : {"none", "accepting", "working"},
                               queue : Seq(Requests), answers : Seq(AnswerCodes)]
    <3>1. <<"stats">> \in Seq(Requests)
      BY DEF Requests
    <3>2. session'[s] = [session[s] EXCEPT !.queue = <<"stats">>]
      BY <1>a, <1>b, <1>c DEF SessionType
    <3> QED
      BY <1>b, <3>1, <3>2 DEF SessionType
  <2> QED
    BY <1>1, <1>a, <1>d, <2>1 DEF SessionType
<1>4. CallType'
  BY <1>a DEF CallType, SessionType, Idle
<1>5. CoreType'
  BY <1>a, <1>h DEF CoreType
<1>6. FreshInv'
  BY <1>1, <1>d DEF FreshInv, Fresh, CallInv
<1>7. CallInv'
  BY <1>1, <1>a, <1>f, <1>g, <1>h DEF CallInv, Once, Idle
<1>8. UseInv'
  <2>1. \A s \in data_sessions_ : OneRequest(s, "stats", {"rate", "lost"})'
    BY <1>c DEF OneRequest
  <2>2. \A s \in Stages \ (MainUses \cup data_sessions_) : Quiet(s)'
    BY <1>a, <1>d DEF UseInv, Quiet, CallUses, Idle
  <2>3. main.pc = "ready" => OneRequest(main.stage, "ready", {"ok", "error"})'
    BY <1>1, <1>e DEF UseInv, OneRequest
  <2> QED
    BY <1>1, <1>g, <2>1, <2>2, <2>3 DEF UseInv, MainUses, CallUses
<1>9. RulesInv'
  BY <1>1, <1>e DEF RulesInv, AnnouncedHasRules
<1>10. SigpipeInv'
  BY <1>1, <1>a, <1>c, <1>f, <1>g DEF SigpipeInv, Safe, CallInv, Idle
<1>11. CountInv'
  BY <1>1 DEF CallCollectGlobalStatistics, Idle, CountInv, ActiveCounted, Present, Moving, Uncounted, StageType, CountType, SessionType, MainType, CallType
<1>12. EndInv'
  BY <1>1 DEF CallCollectGlobalStatistics, Idle, EndInv, ExitAbandonsNoStage, NoNullSession, ManagedStageNeverKills, Present, Moving, StageType, SessionType, MainType, CallType, EndType
<1> QED
  BY <1>2, <1>3, <1>4, <1>5, <1>6, <1>7, <1>8, <1>9, <1>10, <1>11, <1>12

\* What an enforcement leaves of the core controller.
CoreKept ==
    /\ CoreType' /\ core'.tracked = core.tracked /\ core'.queue = core.queue
    /\ core'.former = core.former /\ core'.calls = core.calls

LEMMA CoreUnchanged ==
    ASSUME Inv, UNCHANGED core
    PROVE  CoreKept /\ core'.turn = core.turn
BY DEF CoreKept, Inv, TypeOK, CoreType

\* What the end of an enforcement leaves of the core and the call.
LEMMA EndEnforcementEffect ==
    ASSUME Inv, EndEnforcement
    PROVE  /\ call' = Idle /\ call'.name = "idle" /\ call'.lost = {}
           /\ CallType' /\ CoreKept /\ core'.turn = "collect"
<1>1. CoreType /\ call' = Idle /\ core' = [core EXCEPT !.turn = "collect"]
  BY DEF Inv, TypeOK, EndEnforcement
<1> QED
  BY <1>1 DEF CoreKept, CoreType, CallType, Idle

LEMMA CallCreateEnforcementRuleKeeps ==
    ASSUME Inv, CallCreateEnforcementRule
    PROVE  Inv'
<1> USE DEF Inv, TypeOK
<1>1. UNCHANGED <<stage, dead, installed, early, announced, pending_data_sessions_, m_pending, m_active, acceptor, preparing_data_sessions_, data_sessions_, session, handshake, main, rules, process, sigpipe_ignored>>
  BY DEF CallCreateEnforcementRule, stageVars, sessionVars, countVars, endVars, history, Idle
<1>2. StageType' /\ CountType' /\ SessionType' /\ HandshakeType' /\ MainType' /\ EndType' /\ WaitingInv' /\ FreshInv' /\ MainInv' /\ RulesInv'
  BY <1>1, Frame
<1>a. /\ core.calls /\ core.turn # "collect" /\ call = Idle
      /\ \/ EndEnforcement
         \/ \E S \in SUBSET core.tracked \ {{}} :
                call' = [Idle EXCEPT !.name = "enforce", !.todo = S] /\ UNCHANGED core
  BY DEF CallCreateEnforcementRule
<1>b. PICK S \in SUBSET core.tracked :
         \/ EndEnforcement
         \/ call' = [Idle EXCEPT !.name = "enforce", !.todo = S] /\ UNCHANGED core
  BY <1>a
<1>c. CoreKept /\ (core'.turn = core.turn \/ (core'.turn = "collect" /\ call' = Idle))
  <2>1. CASE UNCHANGED core
    BY <2>1, CoreUnchanged
  <2>2. CASE EndEnforcement
    BY <2>2, EndEnforcementEffect
  <2> QED
    BY <1>b, <2>1, <2>2
<1>d. S \subseteq data_sessions_ \cup core.former /\ core.tracked \ core.former = data_sessions_
  BY <1>a DEF CallInv, Idle
<1>e. /\ call'.lost = {} /\ call.lost = {} /\ call.name = "idle"
      /\ \/ call'.name = "idle"
         \/ call'.name = "enforce" /\ call'.todo = S /\ call'.left = 0
  <2>1. CASE EndEnforcement
    BY <1>a, <2>1, EndEnforcementEffect DEF Idle
  <2>2. CASE call' = [Idle EXCEPT !.name = "enforce", !.todo = S]
    BY <1>a, <2>2 DEF Idle
  <2> QED
    BY <1>b, <2>1, <2>2
<1>3. CallType'
  <2>1. S \in SUBSET (Stages \cup OldStages)
        /\ (call' = Idle \/ call' = [Idle EXCEPT !.name = "enforce", !.todo = S])
    BY <1>b, EndEnforcementEffect DEF CoreType
  <2>2. CASE call' = Idle
    BY <2>2 DEF CallType, Idle
  <2>3. CASE call' = [Idle EXCEPT !.name = "enforce", !.todo = S]
    <3>1. call' = [name |-> "enforce", todo |-> S, at |-> NoStage, left |-> 0, lost |-> {}]
      BY <2>3 DEF Idle
    <3> QED
      BY <2>1, <3>1 DEF CallType
  <2> QED
    BY <2>1, <2>2, <2>3
<1>4. CoreType'
  BY <1>c DEF CoreKept
<1>5. CallInv'
  BY <1>1, <1>c, <1>d, <1>e DEF CallInv, CoreKept
<1>6. UseInv'
  BY <1>1, <1>a, <1>e DEF UseInv, MainUses, CallUses, Quiet, OneRequest
<1>7. SigpipeInv'
  BY <1>1, <1>a, <1>c, <1>e DEF SigpipeInv, Safe, CoreType, CoreKept
<1>8. CountInv'
  BY <1>1, <1>a, <1>e DEF CountInv, ActiveCounted, Present, Moving, Uncounted, StageType, CountType, SessionType, MainType, CallType
<1>9. EndInv'
  BY <1>1, <1>a, <1>c, <1>e DEF EndInv, ExitAbandonsNoStage, NoNullSession, ManagedStageNeverKills, CoreKept, Present, Moving, StageType, SessionType, MainType, CallType, EndType
<1> QED
  BY <1>2, <1>3, <1>4, <1>5, <1>6, <1>7, <1>8, <1>9

LEMMA LoopConditionKeeps ==
    ASSUME Inv, LoopCondition
    PROVE  Inv'
<1> USE DEF Inv, TypeOK
<1>1. UNCHANGED <<stage, dead, installed, early, announced, pending_data_sessions_, m_pending, m_active, acceptor, preparing_data_sessions_, data_sessions_, session, handshake, rules, call, core, sigpipe_ignored>>
  BY DEF LoopCondition, stageVars, sessionVars, countVars, endVars, history, AtLoop
<1>2. StageType' /\ CountType' /\ SessionType' /\ HandshakeType' /\ CallType' /\ CoreType' /\ CallInv' /\ SigpipeInv'
  BY <1>1, Frame
<1>a. main.pc \in {"first", "loop", "active"} /\ main.stage = NoStage
  BY DEF LoopCondition, MainInv
<1>b. /\ main'.pc \in {"first", "loop", "active"} /\ main'.stage = NoStage
      /\ main'.seen <= main.seen /\ main'.valid = 0
  BY <1>a DEF LoopCondition, AtLoop, MainType, RulesInv
<1>3. MainType'
  BY <1>1 DEF LoopCondition, AtLoop, MainType
<1>4. EndType'
  BY <1>1 DEF LoopCondition, AtLoop, EndType
<1>5. WaitingInv'
  BY <1>1, <1>a, <1>b DEF WaitingInv
<1>6. FreshInv'
  BY <1>1 DEF LoopCondition, AtLoop, FreshInv, Fresh, NoSession, StageType, CountType, SessionType, MainType
<1>7. MainInv'
  BY <1>1 DEF LoopCondition, AtLoop, MainInv, InPreparation, WithSession, StageType, SessionType, HandshakeType, MainType
<1>8. UseInv'
  BY <1>1 DEF LoopCondition, AtLoop, UseInv, MainUses, CallUses, Quiet, OneRequest, SessionType, MainType, CallType
<1>9. RulesInv'
  <2>1. main'.seen \in Nat /\ main.seen \in Nat /\ rules' = rules /\ rules \in Nat
    BY <1>1, <1>3, RulesAssumption DEF MainType
  <2>2. main'.seen <= rules'
    BY <1>b, <2>1 DEF RulesInv
  <2>3. AnnouncedHasRules'
    BY <1>1 DEF RulesInv, AnnouncedHasRules
  <2> QED
    BY <1>b, <2>2, <2>3 DEF RulesInv
<1>10. CountInv'
  BY <1>1 DEF LoopCondition, AtLoop, CountInv, ActiveCounted, Present, Moving, Uncounted, StageType, CountType, SessionType, MainType, CallType
<1>11. EndInv'
  <2>1. CASE UNCHANGED process
    BY <1>1, <2>1 DEF EndInv, ExitAbandonsNoStage, NoNullSession, ManagedStageNeverKills, Present, Moving, LoopCondition, Working
  <2>2. CASE main.pc = "active" /\ m_active <= 0 /\ process' = "exited" /\ UNCHANGED main
    <3> DEFINE X == (announced \cap Present) \ call.lost
    <3>1. IsFiniteSet(announced)
      BY DEF CountInv
    <3>2. X \in SUBSET announced
      OBVIOUS
    <3>3. IsFiniteSet(X)
      BY <3>1, <3>2, FS_Subset
    <3>4. Cardinality(X) = m_active
      BY <2>2 DEF CountInv, ActiveCounted, Uncounted, CountType
    <3>5. Cardinality(X) = 0
      BY <2>2, <3>3, <3>4, FS_CardinalityType
    <3>6. X = {}
      BY <3>3, <3>5, FS_EmptySet
    <3> QED
      BY <1>1, <2>2, <3>6 DEF EndInv, ExitAbandonsNoStage, NoNullSession, ManagedStageNeverKills, Present, Moving
  <2> QED
    BY <2>1, <2>2 DEF LoopCondition
<1> QED
  BY <1>2, <1>3, <1>4, <1>5, <1>6, <1>7, <1>8, <1>9, <1>10, <1>11

LEMMA TakeStageKeeps ==
    ASSUME Inv, TakeStage
    PROVE  Inv'
<1> USE DEF Inv, TypeOK
<1>1. UNCHANGED <<stage, dead, installed, early, announced, m_active, acceptor, preparing_data_sessions_, data_sessions_, session, rules, call, core, process, sigpipe_ignored>>
  BY DEF TakeStage, stageVars, sessionVars, countVars, endVars, history
<1>2. StageType' /\ SessionType' /\ CallType' /\ CoreType' /\ EndType' /\ CallInv' /\ SigpipeInv'
  BY <1>1, Frame
<1> DEFINE h == Head(pending_data_sessions_)
<1>a. /\ pending_data_sessions_ \in Seq(Stages) /\ pending_data_sessions_ # <<>>
      /\ Once(pending_data_sessions_) /\ main.pc = "loop"
      /\ pending_data_sessions_' = Tail(pending_data_sessions_)
      /\ handshake' = [thread |-> "working", rule |-> "handshake", answer |-> "none"]
      /\ main' = [main EXCEPT !.pc = "handshake", !.stage = h]
      /\ m_pending' = m_pending - 1
  BY DEF CountType, WaitingInv, TakeStage
<1>b. /\ h \in Stages /\ h \in ToSet(pending_data_sessions_)
      /\ pending_data_sessions_' \in Seq(Stages) /\ Once(pending_data_sessions_')
      /\ ToSet(pending_data_sessions_') = ToSet(pending_data_sessions_) \ {h}
  BY <1>a, TailOnce
<1> HIDE DEF h
<1>c. main'.pc = "handshake" /\ main'.stage = h /\ main'.seen = main.seen /\ main'.valid = main.valid
  BY <1>a DEF MainType
<1>d. Fresh(h) /\ stage[h] = "accepted" /\ h # NoStage
  BY <1>b, NoStageAssumption DEF Fresh, WaitingInv
<1>3. CountType'
  BY <1>1, <1>a, <1>b DEF CountType
<1>4. HandshakeType'
  BY <1>a DEF HandshakeType
<1>5. MainType'
  BY <1>1, <1>a, <1>b DEF MainType
<1>6. WaitingInv'
  BY <1>1, <1>b, <1>c, <1>d DEF WaitingInv
<1>7. FreshInv'
  BY <1>1, <1>a, <1>b, <1>c, <1>d DEF FreshInv, Fresh
<1>8. MainInv'
  BY <1>1, <1>a, <1>c, <1>d DEF MainInv, InPreparation, WithSession
<1>9. UseInv'
  BY <1>1, <1>a, <1>c DEF UseInv, MainUses, CallUses, Quiet, OneRequest
<1>10. RulesInv'
  BY <1>1, <1>a, <1>c DEF RulesInv, AnnouncedHasRules
<1>11. CountInv'
  BY <1>1, <1>a, <1>c DEF CountInv, ActiveCounted, Present, Moving, Uncounted
<1>12. EndInv'
  BY <1>1, WorksOn DEF TakeStage
<1> QED
  BY <1>2, <1>3, <1>4, <1>5, <1>6, <1>7, <1>8, <1>9, <1>10, <1>11, <1>12

LEMMA CreateSessionKeeps ==
    ASSUME Inv, CreateSession
    PROVE  Inv'
<1> USE DEF Inv, TypeOK
<1>1. UNCHANGED <<stage, dead, installed, early, announced, pending_data_sessions_, m_pending, m_active, acceptor, data_sessions_, rules, call, core, process, sigpipe_ignored>>
  BY DEF CreateSession, stageVars, sessionVars, countVars, endVars, history, NoSession
<1>2. StageType' /\ CountType' /\ CallType' /\ CoreType' /\ EndType'
  BY <1>1, Frame
<1> DEFINE m == main.stage
<1>a. /\ main.pc = "handshake" /\ m \in Stages /\ m # NoStage /\ Fresh(m)
      /\ main' = [main EXCEPT !.pc = "address"]
      /\ handshake' = [handshake EXCEPT !.rule = "address", !.answer = "none"]
  BY Roles DEF CreateSession, MainInv, Fresh
<1>b. /\ main'.pc = "address" /\ main'.stage = m /\ main'.seen = main.seen
      /\ main'.valid = main.valid
  BY <1>a DEF MainType
<1>c. \/ /\ preparing_data_sessions_' = preparing_data_sessions_ \cup {m}
         /\ session' = [session EXCEPT ![m] = [NoSession EXCEPT !.thread = "accepting"]]
      \/ /\ preparing_data_sessions_' = preparing_data_sessions_ \cup {NoStage}
         /\ session' = session
         /\ handshake'.thread = "ended" /\ handshake'.answer = "none"
  BY <1>a DEF CreateSession, MainInv, HandshakeType
<1>d. /\ session' \in [Stages -> SessionRecords]
      /\ session'[m].queue = <<>> /\ session'[m].answers = <<>>
      /\ session[m].queue = <<>> /\ session[m].answers = <<>>
      /\ \A t \in Stages \ {m} : session'[t] = session[t]
  <2>1. session \in [Stages -> SessionRecords] /\ session[m] = NoSession
    BY <1>a, Roles DEF SessionType, SessionRecords
  <2>2. [NoSession EXCEPT !.thread = "accepting"] = [thread |-> "accepting", queue |-> <<>>, answers |-> <<>>]
    BY DEF NoSession
  <2>3. [thread |-> "accepting", queue |-> <<>>, answers |-> <<>>] \in SessionRecords
    BY DEF SessionRecords
  <2> QED
    BY <1>a, <1>c, <2>1, <2>2, <2>3 DEF NoSession
<1>e. \A t \in Stages : /\ session'[t].queue = session[t].queue
                        /\ session'[t].answers = session[t].answers
  BY <1>a, <1>d
<1>f. /\ m \notin data_sessions_ \cup announced \cup MainUses \cup CallUses
      /\ NoStage \notin data_sessions_ \cup announced \cup MainUses \cup CallUses
  BY <1>a, Roles
<1>g. main.pc \notin {"address", "submitting", "answers", "ready", "announcing", "counting"}
  BY <1>a
<1> HIDE DEF m
<1>3. SessionType'
  BY <1>1, <1>a, <1>c, <1>d DEF SessionType, SessionRecords
<1>4. HandshakeType'
  BY <1>1 DEF CreateSession, NoSession, HandshakeType
<1>5. MainType'
  BY <1>1 DEF CreateSession, NoSession, MainType
<1>6. WaitingInv'
  BY <1>1 DEF CreateSession, NoSession, WaitingInv, StageType, CountType, MainType
<1>7. FreshInv'
  <2>1. \A t \in Stages : Fresh(t)' => Fresh(t) /\ t # m
    BY <1>1, <1>a, <1>b DEF Fresh, WaitingInv, m
  <2> QED
    BY <1>1, <1>c, <1>d, <2>1, Roles DEF FreshInv
<1>8. MainInv'
  BY <1>1, <1>a, <1>b, <1>c, <1>f DEF MainInv, InPreparation, WithSession
<1>9. CallInv'
  <2>1. call.name = "extract" => call.at # m
    BY <1>f DEF CallInv
  <2>2. call.name = "insert" => call.at \notin {m, NoStage}
    BY <1>f DEF CallInv
  <2> QED
    BY <1>1, <1>c, <1>f, <2>1, <2>2 DEF CallInv
<1>10. UseInv'
  BY <1>1, <1>b, <1>e, <1>f, <1>g, Roles DEF UseInv, MainUses, CallUses, Quiet, OneRequest
<1>11. RulesInv'
  BY <1>1, <1>a, <1>b, Roles DEF RulesInv, AnnouncedHasRules, MainType, m
<1>12. SigpipeInv'
  BY <1>1 DEF CreateSession, NoSession, SigpipeInv, Safe, SessionType, CallType, CoreType, EndType
<1>13. CountInv'
  <2>1. (announced \cap Present)' = announced \cap Present
    BY <1>1, <1>c, <1>f DEF Present, Moving
  <2> QED
    BY <1>1, <1>a, <1>b, <2>1 DEF CountInv, ActiveCounted, Uncounted
<1>14. EndInv'
  BY <1>1, WorksOn DEF CreateSession
<1> QED
  BY <1>2, <1>3, <1>4, <1>5, <1>6, <1>7, <1>8, <1>9, <1>10, <1>11, <1>12, <1>13, <1>14

LEMMA EndHandshakeKeeps ==
    ASSUME Inv, EndHandshake
    PROVE  Inv'
<1> USE DEF Inv, TypeOK
<1>1. UNCHANGED <<stage, dead, installed, announced, pending_data_sessions_, m_pending, m_active, acceptor, preparing_data_sessions_, data_sessions_, session, rules, call, core, process, sigpipe_ignored>>
  BY DEF EndHandshake, stageVars, sessionVars, countVars, endVars, history, NoHandshake
<1>2. CountType' /\ SessionType' /\ CallType' /\ CoreType' /\ EndType' /\ CallInv' /\ SigpipeInv'
  BY <1>1, Frame
<1>a. /\ main.pc = "address" /\ main.stage \in Stages /\ handshake' = NoHandshake
      /\ main' = [main EXCEPT !.pc = "submitting", !.seen = rules]
      /\ early' = IF rules < Len(Rules) THEN early \cup {main.stage} ELSE early
  BY Roles DEF EndHandshake, MainInv
<1>b. /\ main'.pc = "submitting" /\ main'.stage = main.stage /\ main'.seen = rules
      /\ main'.valid = main.valid
  BY <1>a DEF MainType
<1>c. rules \in Nat /\ rules <= Len(Rules) /\ Len(Rules) \in Nat /\ rules \in 0..Len(Rules)
  BY RulesAssumption DEF MainType
<1>3. StageType'
  BY <1>1, <1>a DEF StageType
<1>4. HandshakeType'
  BY <1>a DEF HandshakeType, NoHandshake
<1>5. MainType'
  BY <1>1, <1>a, <1>c DEF MainType
<1>6. WaitingInv'
  BY <1>1, <1>a, <1>b DEF WaitingInv
<1>7. FreshInv'
  BY <1>1, <1>a, <1>b DEF FreshInv, Fresh
<1>8. MainInv'
  <2>1. main.stage \in preparing_data_sessions_
    BY <1>a DEF EndHandshake, MainInv
  <2> QED
    BY <1>1, <1>a, <1>b, <2>1, NoStageAssumption DEF MainInv, InPreparation, WithSession, NoHandshake
<1>9. UseInv'
  BY <1>1, <1>a, <1>b DEF UseInv, MainUses, CallUses, Quiet, OneRequest
<1>10. RulesInv'
  <2>1. AnnouncedHasRules'
    BY <1>1, <1>a DEF RulesInv, AnnouncedHasRules
  <2>2. main'.seen = Len(Rules) \/ main.stage \in early'
    BY <1>a, <1>b, <1>c
  <2> QED
    BY <1>1, <1>a, <1>b, <1>c, <2>1, <2>2 DEF RulesInv
<1>11. CountInv'
  BY <1>1, <1>a, <1>b DEF CountInv, ActiveCounted, Present, Moving, Uncounted
<1>12. EndInv'
  BY <1>1, WorksOn DEF EndHandshake
<1> QED
  BY <1>2, <1>3, <1>4, <1>5, <1>6, <1>7, <1>8, <1>9, <1>10, <1>11, <1>12

LEMMA SubmitRulesKeeps ==
    ASSUME Inv, SubmitRules
    PROVE  Inv'
<1> USE DEF Inv, TypeOK
<1>1. UNCHANGED <<stage, dead, installed, early, announced, pending_data_sessions_, m_pending, m_active, acceptor, preparing_data_sessions_, data_sessions_, handshake, rules, call, core, sigpipe_ignored>>
  BY DEF SubmitRules, stageVars, sessionVars, countVars, endVars, history, Submit
<1>2. StageType' /\ CountType' /\ HandshakeType' /\ CallType' /\ CoreType' /\ CallInv'
  BY <1>1, Frame
<1> DEFINE m == main.stage
           sent == [i \in 1..main.seen |-> "rule"]
<1>3. /\ main.pc = "submitting" /\ m \in Stages /\ m \notin announced /\ m # NoStage
      /\ main.seen \in Nat /\ m \in preparing_data_sessions_ /\ m \notin MainUses \cup CallUses
  BY Roles DEF SubmitRules, MainInv, MainType, InPreparation, WithSession, MainUses
<1>4. session[m].queue = <<>> /\ session[m].answers = <<>>
  BY <1>3 DEF UseInv, Quiet
<1>5. installed[m] = 0 /\ main.valid = 0 /\ (main.seen = Len(Rules) \/ m \in early)
  BY <1>3 DEF RulesInv
<1>6. CASE /\ Submit(m, sent) /\ UNCHANGED process
           /\ main' = [main EXCEPT !.pc = "answers", !.left = main.seen]
  <2>1. /\ main'.pc = "answers" /\ main'.stage = m /\ main'.seen = main.seen
        /\ main'.valid = 0 /\ main'.left = main.seen
    BY <1>5, <1>6 DEF MainType
  <2>2. /\ sent \in Seq(Requests) /\ Len(sent) = main.seen
        /\ <<>> \o sent = sent /\ \A i \in DOMAIN sent : sent[i] = "rule"
    BY <1>3 DEF Requests
  <2> HIDE DEF sent, m
  <2>3. /\ session' \in [Stages -> SessionRecords]
        /\ session'[m].queue = sent /\ session'[m].answers = <<>>
        /\ \A t \in Stages \ {m} : session'[t] = session[t]
    BY <1>3, <1>4, <1>6, <2>2, SubmitEffect
  <2>4. SessionType'
    BY <1>1, <2>3 DEF SessionType, SessionRecords
  <2>5. MainType'
    BY <1>1, <1>3, <1>6 DEF MainType
  <2>6. EndType' /\ EndInv'
    BY <1>1, <1>6, WorksOn DEF SubmitRules, EndType
  <2>7. WaitingInv'
    BY <1>1, <2>1 DEF WaitingInv, m
  <2>8. FreshInv'
    <3>1. \A t \in Stages : Fresh(t)' => Fresh(t) /\ t # m
      BY <1>1, <1>3, <2>1 DEF Fresh, FreshInv
    <3> QED
      BY <1>1, <2>3, <3>1 DEF FreshInv
  <2>9. MainInv'
    BY <1>1, <1>3, <2>1 DEF MainInv, InPreparation, WithSession
  <2>10. UseInv'
    <3>1. \A t \in CallUses : t \in Stages \ {m}
      BY <1>3, Roles
    <3>2. \A t \in Stages \ {m} : session'[t] = session[t]
      BY <2>3
    <3>3. CallUses' = CallUses /\ MainUses' = {m} /\ MainUses = {}
      BY <1>1, <1>3, <2>1 DEF CallUses, MainUses
    <3> QED
      BY <1>1, <2>1, <3>1, <3>2, <3>3 DEF UseInv, CallUses, Quiet, OneRequest
  <2>11. RulesInv'
    <3>1. Len(<<>>) = 0 /\ DOMAIN (<<>>) = {}
      OBVIOUS
    <3>2. AnnouncedHasRules'
      BY <1>1 DEF RulesInv, AnnouncedHasRules
    <3>3. main.seen <= rules /\ main.seen + 0 = main.seen /\ 0 + main.seen = main.seen
      BY <1>3 DEF RulesInv
    <3> QED
      BY <1>1, <1>3, <1>5, <2>1, <2>2, <2>3, <3>1, <3>2, <3>3 DEF RulesInv
  <2>12. SigpipeInv'
    <3>1. call.name = "collect" => \A t \in call.todo : t \in Stages \ {m}
      BY <1>3, Roles DEF CallUses
    <3> QED
      BY <1>1, <2>3, <3>1 DEF SigpipeInv, Safe
  <2>13. CountInv'
    BY <1>1, <1>3, <2>1 DEF CountInv, ActiveCounted, Present, Moving, Uncounted
  <2> QED
    BY <1>2, <2>4, <2>5, <2>6, <2>7, <2>8, <2>9, <2>10, <2>11, <2>12, <2>13
<1>7. CASE main.seen \notin {0, rules} /\ process' = "crashed" /\ UNCHANGED <<session, main>>
  <2>1. main.seen < rules
    BY <1>3, <1>7, RulesAssumption DEF RulesInv, MainType
  <2>2. EndType' /\ EndInv'
    BY <1>1, <1>3, <1>7, <2>1 DEF EndType, EndInv, ExitAbandonsNoStage, NoNullSession, ManagedStageNeverKills
  <2> QED
    BY <1>1, <1>2, <1>7, <2>2, Frame
<1> QED
  BY <1>6, <1>7 DEF SubmitRules

LEMMA ReadRuleAnswerKeeps ==
    ASSUME Inv, ReadRuleAnswer
    PROVE  Inv'
<1> USE DEF Inv, TypeOK
<1>1. UNCHANGED <<stage, dead, installed, early, announced, pending_data_sessions_, m_pending, m_active, acceptor, preparing_data_sessions_, data_sessions_, handshake, rules, call, core, process, sigpipe_ignored>>
  BY DEF ReadRuleAnswer, stageVars, sessionVars, countVars, endVars, history, PopAnswer, RuleAnswered
<1>2. StageType' /\ CountType' /\ HandshakeType' /\ CallType' /\ CoreType' /\ EndType' /\ CallInv'
  BY <1>1, Frame
<1> DEFINE m == main.stage
           a == session[m].answers
<1>3. /\ main.pc = "answers" /\ m \in Stages /\ m \notin announced /\ m # NoStage
      /\ m \in preparing_data_sessions_ /\ m \notin CallUses /\ MainUses = {m}
      /\ main.left > 0 /\ a # <<>> /\ PopAnswer(m) /\ RuleAnswered(Head(a))
  BY Roles DEF ReadRuleAnswer, MainInv, MainType, InPreparation, WithSession, MainUses
<1>4. /\ session \in [Stages -> SessionRecords] /\ a \in Seq(AnswerCodes)
      /\ main.seen \in Nat /\ main.left \in Nat /\ main.valid \in Nat
      /\ session[m].queue \in Seq(Requests) /\ Len(session[m].queue) \in Nat
  BY <1>3 DEF SessionType, SessionRecords, MainType
<1>5. /\ Len(a) \in Nat \ {0} /\ Head(a) = a[1] /\ Len(Tail(a)) = Len(a) - 1
      /\ DOMAIN a = 1..Len(a) /\ DOMAIN Tail(a) = 1..Len(a) - 1
      /\ \A i \in 1..Len(a) - 1 : Tail(a)[i] = a[i + 1]
  BY <1>3, <1>4
<1>6. /\ session' \in [Stages -> SessionRecords] /\ session'[m].queue = session[m].queue
      /\ session'[m].answers = Tail(a) /\ \A t \in Stages \ {m} : session'[t] = session[t]
  BY <1>3, PopEffect
<1>7. /\ main'.stage = m /\ main'.pc = "answers" /\ main'.seen = main.seen
      /\ \/ Head(a) = "ok" /\ main'.left = main.left - 1 /\ main'.valid = main.valid + 1
         \/ Head(a) # "ok" /\ main'.left = 0 /\ main'.valid = 0
  BY <1>3 DEF RuleAnswered, MainType
<1>8. /\ \A i \in DOMAIN session[m].queue : session[m].queue[i] = "rule"
      /\ \A i \in DOMAIN a : a[i] \in {"ok", "error"}
      /\ main.valid + main.left = main.seen
      /\ Len(session[m].queue) + Len(a) = main.left
      /\ (\A i \in DOMAIN a : a[i] = "ok") => installed[m] = main.valid + Len(a)
  <2>1. main.left # 0
    BY <1>3, <1>4
  <2> QED
    BY <1>3, <2>1 DEF RulesInv
<1> HIDE DEF m, a
<1>9. SessionType'
  BY <1>1, <1>6 DEF SessionType, SessionRecords
<1>10. MainType'
  <2>1. CASE Head(a) = "ok"
    <3>1. main' = [main EXCEPT !.left = main.left - 1, !.valid = main.valid + 1]
      BY <1>3, <2>1 DEF RuleAnswered
    <3>2. main.left - 1 \in Nat /\ main.valid + 1 \in Nat
      BY <1>3, <1>4
    <3> QED
      BY <1>1, <3>1, <3>2 DEF MainType
  <2>2. CASE Head(a) # "ok"
    <3>1. main' = [main EXCEPT !.left = 0, !.valid = 0]
      BY <1>3, <2>2 DEF RuleAnswered
    <3> QED
      BY <1>1, <3>1 DEF MainType
  <2> QED
    BY <2>1, <2>2
<1>11. WaitingInv'
  BY <1>1, <1>7 DEF WaitingInv, m
<1>12. FreshInv'
  <2>1. \A t \in Stages : Fresh(t)' => Fresh(t) /\ t # m
    BY <1>1, <1>3, <1>7 DEF Fresh, FreshInv
  <2> QED
    BY <1>1, <1>6, <2>1 DEF FreshInv
<1>13. MainInv'
  BY <1>1, <1>3, <1>7 DEF MainInv, InPreparation, WithSession
<1>14. UseInv'
  <2>1. \A t \in CallUses : t \in Stages \ {m}
    BY <1>3, Roles
  <2>2. CallUses' = CallUses /\ MainUses' = {m} /\ MainUses = {m} /\ main'.pc = "answers"
    BY <1>1, <1>3, <1>7 DEF CallUses, MainUses
  <2>3. \A t \in Stages \ {m} : session'[t] = session[t]
    BY <1>6
  <2> QED
    BY <1>1, <2>1, <2>2, <2>3 DEF UseInv, CallUses, Quiet, OneRequest
<1>15. RulesInv'
  <2>1. AnnouncedHasRules'
    BY <1>1 DEF RulesInv, AnnouncedHasRules
  <2>2. main.seen <= rules /\ (main.seen = Len(Rules) \/ m \in early)
    BY <1>3 DEF RulesInv, m
  <2>3. \A i \in DOMAIN Tail(a) : Tail(a)[i] \in {"ok", "error"}
    BY <1>5, <1>8
  <2>4. /\ main'.stage = m /\ main'.pc = "answers" /\ main'.seen = main.seen
        /\ session'[m].queue = session[m].queue /\ session'[m].answers = Tail(a)
        /\ \A i \in DOMAIN session[m].queue : session[m].queue[i] = "rule"
        /\ rules' = rules /\ early' = early
    BY <1>1, <1>6, <1>7, <1>8
  <2>5. CASE Head(a) # "ok"
    <3>1. main.seen > 0
      BY <1>3, <1>4, <1>8
    <3> QED
      BY <1>7, <2>1, <2>2, <2>3, <2>4, <2>5, <3>1 DEF RulesInv
  <2>6. CASE Head(a) = "ok"
    <3>1. main'.valid + main'.left = main'.seen
      BY <1>4, <1>7, <1>8, <2>6
    <3>2. Len(session'[m].queue) + Len(session'[m].answers) = main'.left
      BY <1>4, <1>5, <1>6, <1>7, <1>8, <2>6
    <3>3. ASSUME \A i \in DOMAIN Tail(a) : Tail(a)[i] = "ok"
          PROVE  installed'[m] = main'.valid + Len(Tail(a))
      <4>1. ASSUME NEW i \in DOMAIN a PROVE a[i] = "ok"
        <5>1. CASE i = 1
          BY <1>5, <2>6, <5>1
        <5>2. CASE i # 1
          <6>1. i - 1 \in DOMAIN Tail(a) /\ Tail(a)[i - 1] = a[i]
            BY <1>5, <4>1, <5>2
          <6> QED
            BY <3>3, <6>1
        <5> QED
          BY <5>1, <5>2
      <4> QED
        BY <1>1, <1>4, <1>5, <1>7, <1>8, <2>6, <4>1
    <3> QED
      BY <2>1, <2>2, <2>3, <2>4, <3>1, <3>2, <3>3 DEF RulesInv
  <2> QED
    BY <2>5, <2>6
<1>16. SigpipeInv'
  <2>1. call.name = "collect" => \A t \in call.todo : t \in Stages \ {m}
    BY <1>3, Roles DEF CallUses
  <2> QED
    BY <1>1, <1>6, <2>1 DEF SigpipeInv, Safe
<1>17. CountInv'
  BY <1>1, <1>3, <1>7 DEF CountInv, ActiveCounted, Present, Moving, Uncounted
<1>18. EndInv'
  BY <1>1, WorksOn DEF ReadRuleAnswer
<1> QED
  BY <1>2, <1>9, <1>10, <1>11, <1>12, <1>13, <1>14, <1>15, <1>16, <1>17, <1>18

LEMMA CheckRulesKeeps ==
    ASSUME Inv, CheckRules
    PROVE  Inv'
<1> USE DEF Inv, TypeOK
<1>1. UNCHANGED <<stage, dead, installed, early, announced, pending_data_sessions_, m_pending, m_active, acceptor, data_sessions_, handshake, rules, call, core, process, sigpipe_ignored>>
  BY DEF CheckRules, stageVars, countVars, endVars, history, SubmitStageReady
<1>2. StageType' /\ CountType' /\ HandshakeType' /\ CallType' /\ CoreType' /\ EndType'
  BY <1>1, Frame
<1> DEFINE m == main.stage
<1>3. /\ main.pc = "answers" /\ m \in Stages /\ m \notin announced /\ m # NoStage
      /\ m \in preparing_data_sessions_ /\ m \notin CallUses /\ MainUses = {m}
      /\ main.left = 0 /\ CallUses' = CallUses /\ \A t \in CallUses : t \in Stages \ {m}
  BY <1>1, Roles DEF CheckRules, MainInv, InPreparation, WithSession, MainUses, CallUses
<1>4. /\ session \in [Stages -> SessionRecords] /\ session[m].answers \in Seq(AnswerCodes)
      /\ main.seen \in Nat /\ main.valid \in Nat /\ rules \in Nat
      /\ session[m].queue \in Seq(Requests)
  BY <1>3, RulesAssumption DEF SessionType, SessionRecords, MainType
<1>5. EndInv'
  BY <1>1, WorksOn DEF CheckRules
<1>6. AnnouncedHasRules'
  BY <1>1 DEF RulesInv, AnnouncedHasRules
<1>7. CASE /\ main.valid = rules /\ Submit(m, <<"ready">>)
           /\ main' = [main EXCEPT !.pc = "ready"] /\ UNCHANGED preparing_data_sessions_
  <2>1. /\ main'.pc = "ready" /\ main'.stage = m /\ main'.seen = main.seen
    BY <1>7 DEF MainType
  \* The answers are all read: an error would have left 0, which is not rules.
  <2>2. ~(main.valid = 0 /\ main.seen > 0)
    BY <1>4, <1>7 DEF RulesInv
  <2>3. /\ main.valid + 0 = main.seen /\ Len(session[m].queue) + Len(session[m].answers) = 0
        /\ (\A i \in DOMAIN session[m].answers : session[m].answers[i] = "ok")
              => installed[m] = main.valid + Len(session[m].answers)
    BY <1>3, <2>2 DEF RulesInv
  <2>4. session[m].queue = <<>> /\ session[m].answers = <<>>
    <3>1. Len(session[m].queue) \in Nat /\ Len(session[m].answers) \in Nat
      BY <1>4
    <3>2. Len(session[m].queue) = 0 /\ Len(session[m].answers) = 0
      <4>1. \A i, j \in Nat : i + j = 0 => i = 0 /\ j = 0
        OBVIOUS
      <4>2. Len(session[m].queue) + Len(session[m].answers) = 0
        BY <2>3
      <4> QED
        BY <3>1, <4>1, <4>2
    <3> QED
      BY <1>4, <3>2
  <2>5. installed[m] = rules /\ main.seen = rules
    <3>1. Len(<<>>) = 0 /\ DOMAIN (<<>>) = {}
      OBVIOUS
    <3> QED
      BY <1>4, <1>7, <2>3, <2>4, <3>1
  <2>6. <<"ready">> \in Seq(Requests) /\ <<>> \o <<"ready">> = <<"ready">>
    BY DEF Requests
  <2> HIDE DEF m
  <2>7. /\ session' \in [Stages -> SessionRecords]
        /\ session'[m].queue = <<"ready">> /\ session'[m].answers = <<>>
        /\ \A t \in Stages \ {m} : session'[t] = session[t]
    <3>1. Submit(m, <<"ready">>) /\ m \in Stages /\ SessionType
      BY <1>3, <1>7
    <3> QED
      BY <2>4, <2>6, <3>1, SubmitEffect
  <2>8. SessionType'
    BY <1>1, <1>7, <2>7 DEF SessionType, SessionRecords
  <2>9. MainType'
    BY <1>1, <1>7 DEF MainType
  <2>10. WaitingInv'
    BY <1>1, <2>1 DEF WaitingInv, m
  <2>11. FreshInv'
    <3>1. \A t \in Stages : Fresh(t)' => Fresh(t) /\ t # m
      BY <1>1, <1>3, <2>1 DEF Fresh, FreshInv
    <3> QED
      BY <1>1, <1>7, <2>7, <3>1 DEF FreshInv
  <2>12. MainInv'
    BY <1>1, <1>3, <1>7, <2>1 DEF MainInv, InPreparation, WithSession
  <2>13. CallInv'
    BY <1>1, <1>7 DEF CallInv
  <2>14. UseInv'
    <3>1. MainUses' = {m} /\ MainUses = {m} /\ CallUses' = CallUses
      BY <1>3, <2>1 DEF MainUses
    <3>2. OneRequest(main.stage, "ready", {"ok", "error"})'
      BY <2>1, <2>7 DEF OneRequest
    <3>3. (\A t \in Stages \ {m} : session'[t] = session[t]) /\ \A t \in CallUses : t \in Stages \ {m}
      BY <1>3, <2>7
    <3> QED
      BY <1>1, <3>1, <3>2, <3>3 DEF UseInv, CallUses, Quiet, OneRequest
  <2>15. RulesInv'
    <3>1. main.seen <= rules /\ (main.seen = Len(Rules) \/ m \in early)
      BY <1>3 DEF RulesInv, m
    <3> QED
      BY <1>1, <1>6, <2>1, <2>5, <3>1 DEF RulesInv
  <2>16. SigpipeInv'
    BY <1>1, <1>3, <2>7 DEF SigpipeInv, Safe, CallUses
  <2>17. CountInv'
    BY <1>1, <1>3, <1>7, <2>1 DEF CountInv, ActiveCounted, Present, Moving, Uncounted
  <2> QED
    BY <1>2, <1>5, <2>8, <2>9, <2>10, <2>11, <2>12, <2>13, <2>14, <2>15, <2>16, <2>17
<1>8. CASE Reject(m)
  <2>1. /\ main' = AtLoop /\ main'.pc = "loop" /\ main'.stage = NoStage /\ main'.seen = 0
        /\ main'.valid = 0 /\ preparing_data_sessions_' = preparing_data_sessions_ \ {m}
        /\ session' = [session EXCEPT ![m] = NoSession]
    BY <1>8 DEF Reject, AtLoop
  <2> HIDE DEF m
  <2>2. /\ session' \in [Stages -> SessionRecords] /\ session'[m] = NoSession
        /\ \A t \in Stages \ {m} : session'[t] = session[t]
    BY <1>3, <2>1, RemoveEffect
  <2>3. SessionType'
    BY <1>1, <2>1, <2>2 DEF SessionType, SessionRecords
  <2>4. MainType'
    BY <1>1, <2>1 DEF MainType, AtLoop
  <2>5. WaitingInv'
    <3>1. NoStage \notin ToSet(pending_data_sessions_)
      BY NoStageAssumption DEF CountType, ToSet
    <3> QED
      BY <1>1, <2>1, <3>1 DEF WaitingInv
  <2>6. FreshInv'
    <3>1. \A t \in Stages : Fresh(t)' => Fresh(t) /\ t # m
      BY <1>1, <1>3, <2>1 DEF Fresh, FreshInv
    <3> QED
      BY <1>1, <2>1, <2>2, <3>1 DEF FreshInv
  <2>7. MainInv'
    BY <1>1, <2>1 DEF MainInv, InPreparation, WithSession
  <2>8. CallInv'
    BY <1>1, <1>3, <2>1 DEF CallInv
  <2>9. UseInv'
    <3>1. MainUses' = {} /\ MainUses = {m} /\ CallUses' = CallUses /\ main'.pc # "ready"
      BY <1>3, <2>1 DEF MainUses
    <3>2. session'[m].queue = <<>> /\ session'[m].answers = <<>>
      BY <2>2 DEF NoSession
    <3>3. (\A t \in Stages \ {m} : session'[t] = session[t]) /\ \A t \in CallUses : t \in Stages \ {m}
      BY <1>3, <2>2
    <3> QED
      BY <1>1, <3>1, <3>2, <3>3 DEF UseInv, CallUses, Quiet, OneRequest
  <2>10. RulesInv'
    BY <1>1, <1>4, <1>6, <2>1 DEF RulesInv
  <2>11. SigpipeInv'
    BY <1>1, <1>3, <2>2 DEF SigpipeInv, Safe, CallUses
  <2>12. CountInv'
    <3>1. (announced \cap Present)' = announced \cap Present
      BY <1>1, <1>3, <2>1 DEF Present, Moving
    <3> QED
      BY <1>1, <1>3, <2>1, <3>1 DEF CountInv, ActiveCounted, Uncounted
  <2> QED
    BY <1>2, <1>5, <2>3, <2>4, <2>5, <2>6, <2>7, <2>8, <2>9, <2>10, <2>11, <2>12
<1> QED
  BY <1>7, <1>8 DEF CheckRules, SubmitStageReady

LEMMA ReadReadyAnswerKeeps ==
    ASSUME Inv, ReadReadyAnswer
    PROVE  Inv'
<1> USE DEF Inv, TypeOK
<1>1. UNCHANGED <<stage, dead, installed, early, announced, pending_data_sessions_, m_pending, m_active, acceptor, preparing_data_sessions_, data_sessions_, handshake, rules, call, core, process, sigpipe_ignored>>
  BY DEF ReadReadyAnswer, stageVars, sessionVars, countVars, endVars, history, PopAnswer
<1>2. StageType' /\ CountType' /\ HandshakeType' /\ CallType' /\ CoreType' /\ EndType' /\ CallInv'
  BY <1>1, Frame
<1> DEFINE m == main.stage
<1>3. /\ main.pc = "ready" /\ m \in Stages /\ m \notin announced /\ m # NoStage
      /\ m \in preparing_data_sessions_ /\ session[m].answers # <<>> /\ PopAnswer(m)
      /\ main' = [main EXCEPT !.pc = "announcing"]
  BY Roles DEF ReadReadyAnswer, MainInv, InPreparation, WithSession
<1>4. /\ MainUses = {m} /\ CallUses' = CallUses /\ \A t \in CallUses : t \in Stages \ {m}
  BY <1>1, <1>3, Roles DEF MainUses, CallUses
<1>5. /\ main'.pc = "announcing" /\ main'.stage = m /\ main'.seen = main.seen
      /\ MainUses' = {}
  BY <1>3 DEF MainType, MainUses
<1>6. session[m].queue = <<>> /\ Tail(session[m].answers) = <<>>
  <2>1. session[m].queue = <<>> /\ \E a \in {"ok", "error"} : session[m].answers = <<a>>
    BY <1>3 DEF UseInv, OneRequest
  <2>2. \A a \in {"ok", "error"} : Tail(<<a>>) = <<>>
    OBVIOUS
  <2> QED
    BY <2>1, <2>2
<1>7. /\ session' \in [Stages -> SessionRecords]
      /\ session'[m].queue = <<>> /\ session'[m].answers = <<>>
      /\ \A t \in Stages \ {m} : session'[t] = session[t]
  <2> HIDE DEF m
  <2> QED
    BY <1>3, <1>6, PopEffect
<1> HIDE DEF m
<1>8. SessionType'
  BY <1>1, <1>7 DEF SessionType, SessionRecords
<1>9. MainType'
  BY <1>1, <1>3 DEF MainType
<1>10. WaitingInv'
  BY <1>1, <1>5 DEF WaitingInv, m
<1>11. FreshInv'
  <2>1. \A t \in Stages : Fresh(t)' => Fresh(t) /\ t # m
    BY <1>1, <1>3, <1>5 DEF Fresh, FreshInv
  <2> QED
    BY <1>1, <1>7, <2>1 DEF FreshInv
<1>12. MainInv'
  BY <1>1, <1>3, <1>5 DEF MainInv, InPreparation, WithSession
<1>13. UseInv'
  <2>1. main'.pc # "ready" /\ MainUses' = {}
    BY <1>5
  <2>2. (\A t \in Stages \ {m} : session'[t] = session[t]) /\ \A t \in CallUses : t \in Stages \ {m}
    BY <1>4, <1>7
  <2> QED
    BY <1>1, <1>4, <1>7, <2>1, <2>2 DEF UseInv, CallUses, Quiet, OneRequest
<1>14. RulesInv'
  BY <1>1, <1>3, <1>5 DEF RulesInv, AnnouncedHasRules, m
<1>15. SigpipeInv'
  BY <1>1, <1>4, <1>7 DEF SigpipeInv, Safe, CallUses
<1>16. CountInv'
  BY <1>1, <1>3, <1>5 DEF CountInv, ActiveCounted, Present, Moving, Uncounted
<1>17. EndInv'
  BY <1>1, WorksOn DEF ReadReadyAnswer
<1> QED
  BY <1>2, <1>8, <1>9, <1>10, <1>11, <1>12, <1>13, <1>14, <1>15, <1>16, <1>17

LEMMA AnnounceStageKeeps ==
    ASSUME Inv, AnnounceStage
    PROVE  Inv'
<1> USE DEF Inv, TypeOK
<1>1. UNCHANGED <<stage, dead, installed, early, pending_data_sessions_, m_pending, m_active, acceptor, preparing_data_sessions_, data_sessions_, session, handshake, rules, call, process, sigpipe_ignored>>
  BY DEF AnnounceStage, stageVars, sessionVars, countVars, endVars, history, NotAnnounced, AtLoop
<1>2. CountType' /\ SessionType' /\ HandshakeType' /\ CallType' /\ EndType'
  BY <1>1, Frame
<1> DEFINE m == main.stage
<1>3. /\ main.pc = "announcing" /\ m \in Stages /\ m \notin announced /\ m # NoStage
      /\ m \in preparing_data_sessions_ /\ m \notin data_sessions_ \cup ToSet(core.queue)
      /\ MainUses = {} /\ main.seen \in Nat /\ main.seen <= rules
  BY Roles DEF AnnounceStage, MainInv, MainType, InPreparation, WithSession, MainUses, CallInv, RulesInv
<1>4. NoStage \notin ToSet(pending_data_sessions_)
  BY NoStageAssumption DEF CountType, ToSet
<1>5. EndInv'
  BY <1>1, WorksOn DEF AnnounceStage
<1>6. CASE /\ core' = [core EXCEPT !.queue = Append(core.queue, m)]
           /\ announced' = announced \cup {m}
           /\ main' = [main EXCEPT !.pc = "counting"]
  <2>1. /\ main'.pc = "counting" /\ main'.stage = m /\ main'.seen = main.seen
        /\ MainUses' = {}
    BY <1>6 DEF MainType, MainUses
  <2>2. /\ core'.queue = Append(core.queue, m) /\ core'.tracked = core.tracked
        /\ core'.turn = core.turn /\ core'.former = core.former
        /\ core'.calls = core.calls /\ core.queue \in Seq(Stages)
    BY <1>6 DEF CoreType
  <2> HIDE DEF m
  <2>3. /\ ToSet(core'.queue) = ToSet(core.queue) \cup {m} /\ Once(core'.queue)
        /\ core'.queue \in Seq(Stages)
    BY <1>3, <2>2, AppendToSet, AppendOnce DEF CallInv
  <2>4. StageType'
    BY <1>1, <1>3, <1>6 DEF StageType
  <2>5. MainType'
    BY <1>1, <1>6 DEF MainType
  <2>6. CoreType'
    BY <1>3, <1>6, <2>2, <2>3 DEF CoreType
  <2>7. WaitingInv'
    BY <1>1, <2>1 DEF WaitingInv, m
  <2>8. FreshInv'
    <3>1. \A t \in Stages : Fresh(t)' => Fresh(t) /\ t # m
      BY <1>1, <1>3, <2>1 DEF Fresh, FreshInv, WaitingInv, m
    <3> QED
      BY <1>1, <1>6, <3>1 DEF FreshInv
  <2>9. MainInv'
    BY <1>1, <1>3, <1>6, <2>1 DEF MainInv, InPreparation, WithSession
  <2>10. CallInv'
    BY <1>1, <1>3, <1>6, <2>2, <2>3 DEF CallInv
  <2>11. UseInv'
    BY <1>1, <1>3, <2>1 DEF UseInv, CallUses, Quiet, OneRequest
  <2>12. RulesInv'
    <3>1. installed[m] = Len(Rules) \/ m \in early
      BY <1>3 DEF RulesInv, m
    <3>2. AnnouncedHasRules'
      BY <1>1, <1>6, <3>1 DEF RulesInv, AnnouncedHasRules
    <3> QED
      BY <1>1, <1>3, <2>1, <3>2 DEF RulesInv
  <2>13. SigpipeInv'
    BY <1>1, <2>2 DEF SigpipeInv, Safe
  <2>14. CountInv'
    <3> DEFINE X == (announced \cap Present) \ call.lost
               Y == ((announced \cup {m}) \cap Present) \ call.lost
    <3>1. IsFiniteSet(announced) /\ X \in SUBSET announced /\ m_active + Uncounted = Cardinality(X)
      BY DEF CountInv, ActiveCounted
    <3>2. call.lost \subseteq data_sessions_
      BY DEF CallInv
    <3>3. Y = X \cup {m} /\ m \notin X
      BY <1>3, <3>2 DEF Present
    <3>4. Uncounted = 0 /\ Uncounted' = 1
      BY <1>3, <2>1 DEF Uncounted
    <3>5. Y = ((announced \cap Present) \ call.lost)'
      BY <1>1, <1>6 DEF Present, Moving
    <3>6. IsFiniteSet(announced')
      BY <1>6, <3>1, FS_AddElement
    <3> HIDE DEF X, Y
    <3>7. IsFiniteSet(X)
      BY <3>1, FS_Subset
    <3>8. Cardinality(Y) = Cardinality(X) + 1 /\ Cardinality(X) \in Nat
      BY <3>3, <3>7, FS_AddElement, FS_CardinalityType
    <3>9. m_active \in Int /\ m_active' = m_active
      BY <1>1 DEF CountType
    <3>10. m_active' + Uncounted' = Cardinality(Y)
      BY <3>1, <3>4, <3>8, <3>9
    <3> QED
      BY <3>5, <3>6, <3>10 DEF CountInv, ActiveCounted
  <2> QED
    BY <1>2, <1>5, <2>4, <2>5, <2>6, <2>7, <2>8, <2>9, <2>10, <2>11, <2>12, <2>13, <2>14
<1>7. CASE main' = AtLoop /\ UNCHANGED <<core, announced>>
  <2>1. /\ main'.pc = "loop" /\ main'.stage = NoStage /\ main'.seen = 0 /\ main'.valid = 0
        /\ MainUses' = {}
    BY <1>7 DEF AtLoop, MainUses
  <2>2. StageType' /\ CoreType' /\ CallInv' /\ SigpipeInv'
    BY <1>1, <1>7, Frame
  <2>3. MainType'
    BY <1>1, <1>7 DEF MainType, AtLoop
  <2>4. WaitingInv'
    BY <1>1, <1>4, <2>1 DEF WaitingInv
  <2>5. FreshInv'
    BY <1>1, <1>7, <2>1 DEF FreshInv, Fresh
  <2>6. MainInv'
    BY <1>1, <2>1 DEF MainInv, InPreparation, WithSession
  <2>7. UseInv'
    BY <1>1, <1>3, <2>1 DEF UseInv, CallUses, Quiet, OneRequest
  <2>8. RulesInv'
    <3>1. 0 <= rules /\ main'.seen <= rules'
      BY <1>1, <2>1, RulesAssumption DEF MainType
    <3>2. AnnouncedHasRules'
      BY <1>1, <1>7 DEF RulesInv, AnnouncedHasRules
    <3> QED
      BY <2>1, <3>1, <3>2 DEF RulesInv
  <2>9. CountInv'
    BY <1>1, <1>3, <1>7, <2>1 DEF CountInv, ActiveCounted, Present, Moving, Uncounted
  <2> QED
    BY <1>2, <1>5, <2>2, <2>3, <2>4, <2>5, <2>6, <2>7, <2>8, <2>9
<1> QED
  BY <1>6, <1>7 DEF AnnounceStage, NotAnnounced

LEMMA CountActiveKeeps ==
    ASSUME Inv, CountActive
    PROVE  Inv'
<1> USE DEF Inv, TypeOK
<1>1. UNCHANGED <<stage, dead, installed, early, announced, pending_data_sessions_, m_pending, acceptor, preparing_data_sessions_, data_sessions_, session, handshake, rules, call, core, process, sigpipe_ignored>>
  BY DEF CountActive, stageVars, sessionVars, countVars, endVars, history, AddActive, AtLoop
<1>2. StageType' /\ SessionType' /\ HandshakeType' /\ CallType' /\ CoreType' /\ EndType' /\ CallInv' /\ SigpipeInv'
  BY <1>1, Frame
<1>a. NoStage \notin ToSet(pending_data_sessions_)
  BY NoStageAssumption DEF CountType, ToSet
<1>b. main'.stage = NoStage /\ main' = AtLoop
  BY DEF CountActive, AtLoop
<1>3. CountType'
  BY <1>1 DEF CountActive, AddActive, AtLoop, CountType
<1>4. MainType'
  BY <1>1 DEF CountActive, AddActive, AtLoop, MainType
<1>5. WaitingInv'
  BY <1>1, <1>a, <1>b DEF WaitingInv
<1>6. FreshInv'
  BY <1>1 DEF CountActive, AddActive, AtLoop, FreshInv, Fresh, NoSession, StageType, CountType, SessionType, MainType
<1>7. MainInv'
  BY <1>1 DEF CountActive, AddActive, AtLoop, MainInv, InPreparation, WithSession, StageType, SessionType, HandshakeType, MainType
<1>8. UseInv'
  BY <1>1 DEF CountActive, AddActive, AtLoop, UseInv, MainUses, CallUses, Quiet, OneRequest, SessionType, MainType, CallType
<1>9. RulesInv'
  BY <1>1 DEF CountActive, AddActive, AtLoop, RulesInv, AnnouncedHasRules, StageType, SessionType, MainType
<1>10. CountInv'
  BY <1>1 DEF CountActive, AddActive, AtLoop, CountInv, ActiveCounted, Present, Moving, Uncounted, StageType, CountType, SessionType, MainType, CallType
<1>11. EndInv'
  BY <1>1, WorksOn DEF CountActive
<1> QED
  BY <1>2, <1>3, <1>4, <1>5, <1>6, <1>7, <1>8, <1>9, <1>10, <1>11

LEMMA LocalHandshakeKeeps ==
    ASSUME Inv, LocalHandshake
    PROVE  Inv'
<1> USE DEF Inv, TypeOK
<1>1. UNCHANGED <<stage, dead, installed, early, announced, pending_data_sessions_, m_pending, m_active, acceptor, preparing_data_sessions_, data_sessions_, session, handshake, main, process, sigpipe_ignored>>
  BY DEF LocalHandshake, stageVars, sessionVars, countVars, endVars, history, MoreRules, Idle
<1>2. StageType' /\ CountType' /\ SessionType' /\ HandshakeType' /\ EndType' /\ WaitingInv' /\ FreshInv' /\ MainInv'
  BY <1>1, Frame
<1>a. /\ call.name = "handshake" /\ rules \in Nat /\ Len(Rules) \in Nat
      /\ \/ rules' = rules + 1 /\ UNCHANGED <<call, core>>
         \/ rules' = rules /\ call' = Idle /\ core' = [core EXCEPT !.greeted = TRUE]
  BY RulesAssumption DEF LocalHandshake, MainType
<1>b. /\ core'.former = core.former /\ core'.calls = core.calls
      /\ core'.queue = core.queue /\ core'.tracked = core.tracked /\ core'.turn = core.turn
      /\ call'.name \in {"handshake", "idle"} /\ call'.lost = {} /\ call.lost = {}
  BY <1>a DEF CoreType, CallInv, Idle
<1>3. MainType'
  BY <1>1 DEF LocalHandshake, Idle, MoreRules, MainType
<1>4. CallType'
  BY <1>1 DEF LocalHandshake, Idle, MoreRules, CallType
<1>5. CoreType'
  BY <1>1 DEF LocalHandshake, Idle, MoreRules, CoreType
<1>6. CallInv'
  BY <1>1, <1>a, <1>b DEF CallInv
<1>7. UseInv'
  BY <1>1 DEF LocalHandshake, Idle, MoreRules, UseInv, MainUses, CallUses, Quiet, OneRequest, SessionType, MainType, CallType
<1>8. RulesInv'
  <2>1. main.seen <= rules'
    BY <1>a DEF RulesInv, MainType
  <2> QED
    BY <1>1, <2>1 DEF RulesInv, AnnouncedHasRules
<1>9. SigpipeInv'
  BY <1>1, <1>a, <1>b DEF SigpipeInv, Safe
<1>10. CountInv'
  BY <1>1, <1>a, <1>b DEF CountInv, ActiveCounted, Present, Moving, Uncounted
<1>11. EndInv'
  BY <1>1, WorksOn DEF LocalHandshake
<1> QED
  BY <1>2, <1>3, <1>4, <1>5, <1>6, <1>7, <1>8, <1>9, <1>10, <1>11

LEMMA ExtractStageKeeps ==
    ASSUME Inv, ExtractStage
    PROVE  Inv'
<1> USE DEF Inv, TypeOK
<1>1. UNCHANGED <<stage, dead, installed, early, announced, pending_data_sessions_, m_pending, m_active, acceptor, data_sessions_, session, handshake, main, rules, core, process, sigpipe_ignored>>
  BY DEF ExtractStage, stageVars, sessionVars, countVars, endVars, history, TakeNode
<1>2. StageType' /\ CountType' /\ HandshakeType' /\ MainType' /\ CoreType' /\ EndType' /\ WaitingInv' /\ RulesInv'
  BY <1>1, Frame
<1>a. /\ call.name = "extract" /\ call.at \in Stages /\ call.at \in announced
      /\ call.at \in preparing_data_sessions_ /\ call.lost = {}
      /\ call.at \notin ToSet(core.queue)
      /\ preparing_data_sessions_' = preparing_data_sessions_ \ {call.at}
      /\ call'.name = "insert" /\ call'.at = call.at /\ call'.lost = {}
  BY Roles DEF ExtractStage, TakeNode, CallInv, CallType
<1>b. call.at # NoStage
  BY <1>a, NoStageAssumption
<1>3. SessionType'
  BY <1>1 DEF ExtractStage, TakeNode, SessionType
<1>4. CallType'
  BY <1>1 DEF ExtractStage, TakeNode, CallType
<1>5. FreshInv'
  BY <1>1 DEF ExtractStage, TakeNode, FreshInv, Fresh, NoSession, StageType, CountType, SessionType, MainType
<1>6. MainInv'
  <2>1. main.pc \in InPreparation => main.stage # call.at
    BY <1>a DEF MainInv
  <2> QED
    BY <1>1, <1>a, <2>1 DEF MainInv, InPreparation, WithSession
<1>7. CallInv'
  BY <1>1 DEF ExtractStage, TakeNode, CallInv, StageType, SessionType, CallType, CoreType
<1>8. UseInv'
  BY <1>1 DEF ExtractStage, TakeNode, UseInv, MainUses, CallUses, Quiet, OneRequest, SessionType, MainType, CallType
<1>9. SigpipeInv'
  BY <1>1 DEF ExtractStage, TakeNode, SigpipeInv, Safe, SessionType, CallType, CoreType, EndType
<1>10. CountInv'
  <2>1. Present' = Present
    BY <1>1, <1>a, <1>b DEF Present, Moving
  <2> QED
    BY <1>1, <1>a, <2>1 DEF CountInv, ActiveCounted, Uncounted
<1>11. EndInv'
  BY <1>1 DEF ExtractStage, TakeNode, EndInv, ExitAbandonsNoStage, NoNullSession, ManagedStageNeverKills, Present, Moving, StageType, SessionType, MainType, CallType, EndType
<1> QED
  BY <1>2, <1>3, <1>4, <1>5, <1>6, <1>7, <1>8, <1>9, <1>10, <1>11

LEMMA InsertStageKeeps ==
    ASSUME Inv, InsertStage
    PROVE  Inv'
<1> USE DEF Inv, TypeOK
<1>1. UNCHANGED <<stage, dead, installed, early, announced, pending_data_sessions_, m_pending, m_active, acceptor, preparing_data_sessions_, session, handshake, main, rules, core, process, sigpipe_ignored>>
  BY DEF InsertStage, stageVars, sessionVars, countVars, endVars, history, Idle
<1>2. StageType' /\ CountType' /\ HandshakeType' /\ MainType' /\ CoreType' /\ EndType' /\ WaitingInv' /\ FreshInv' /\ MainInv' /\ RulesInv'
  BY <1>1, Frame
<1>a. /\ call.name = "insert" /\ call.at \in Stages /\ call.at \in announced
      /\ call.at \notin preparing_data_sessions_ \cup data_sessions_ /\ call.lost = {}
      /\ call.at # NoStage /\ call' = Idle
      /\ call'.name = "idle" /\ call'.lost = {}
  BY Roles, NoStageAssumption DEF InsertStage, CallInv, CallType, Idle
<1>b. data_sessions_' = data_sessions_ \cup {call.at}
  BY <1>a DEF InsertStage
<1>3. SessionType'
  BY <1>1, <1>a, <1>b DEF SessionType
<1>4. CallType'
  BY <1>1 DEF InsertStage, Idle, CallType
<1>5. CallInv'
  <2>1. ToSet(core.queue) \subseteq preparing_data_sessions_ \cap announced /\ Once(core.queue)
    BY DEF CallInv
  <2>2. core.tracked \ core.former = data_sessions_ \cup {call.at}
    BY <1>a DEF CallInv
  <2> QED
    BY <1>1, <1>a, <1>b, <2>1, <2>2 DEF CallInv
<1>6. UseInv'
  BY <1>1 DEF InsertStage, Idle, UseInv, MainUses, CallUses, Quiet, OneRequest, SessionType, MainType, CallType
<1>7. SigpipeInv'
  BY <1>1 DEF InsertStage, Idle, SigpipeInv, Safe, SessionType, CallType, CoreType, EndType
<1>8. CountInv'
  <2>1. Present' = Present
    BY <1>1, <1>a, <1>b DEF Present, Moving
  <2> QED
    BY <1>1, <1>a, <2>1 DEF CountInv, ActiveCounted, Uncounted
<1>9. EndInv'
  BY <1>1, WorksOn DEF InsertStage
<1> QED
  BY <1>2, <1>3, <1>4, <1>5, <1>6, <1>7, <1>8, <1>9

LEMMA EndCollectKeeps ==
    ASSUME Inv, EndCollect
    PROVE  Inv'
<1> USE DEF Inv, TypeOK
<1>1. UNCHANGED <<stage, dead, installed, early, announced, pending_data_sessions_, m_pending, m_active, acceptor, preparing_data_sessions_, data_sessions_, session, handshake, main, rules, process, sigpipe_ignored>>
  BY DEF EndCollect, stageVars, sessionVars, countVars, endVars, history, Idle
<1>2. StageType' /\ CountType' /\ SessionType' /\ HandshakeType' /\ MainType' /\ EndType' /\ WaitingInv' /\ FreshInv' /\ MainInv' /\ RulesInv'
  BY <1>1, Frame
<1>3. CallType'
  BY <1>1 DEF EndCollect, Idle, CallType
<1>4. CoreType'
  BY <1>1 DEF EndCollect, Idle, CoreType
<1>5. CallInv'
  BY <1>1 DEF EndCollect, Idle, CallInv, StageType, SessionType, CallType, CoreType
<1>6. UseInv'
  BY <1>1 DEF EndCollect, Idle, UseInv, MainUses, CallUses, Quiet, OneRequest, SessionType, MainType, CallType
<1>7. SigpipeInv'
  BY <1>1 DEF EndCollect, Idle, SigpipeInv, Safe, SessionType, CallType, CoreType, EndType
<1>8. CountInv'
  BY <1>1 DEF EndCollect, Idle, CountInv, ActiveCounted, Present, Moving, Uncounted, StageType, CountType, SessionType, MainType, CallType
<1>9. EndInv'
  BY <1>1 DEF EndCollect, Idle, EndInv, ExitAbandonsNoStage, NoNullSession, ManagedStageNeverKills, Present, Moving, StageType, SessionType, MainType, CallType, EndType
<1> QED
  BY <1>2, <1>3, <1>4, <1>5, <1>6, <1>7, <1>8, <1>9

LEMMA NextEnforcementKeeps ==
    ASSUME Inv, NextEnforcement
    PROVE  Inv'
<1> USE DEF Inv, TypeOK
<1>1. UNCHANGED <<stage, dead, installed, early, announced, pending_data_sessions_, m_pending, m_active, acceptor, preparing_data_sessions_, data_sessions_, session, handshake, main, rules, process, sigpipe_ignored>>
  BY DEF NextEnforcement, stageVars, sessionVars, countVars, endVars, history, Idle
<1>2. StageType' /\ CountType' /\ SessionType' /\ HandshakeType' /\ MainType' /\ EndType' /\ WaitingInv' /\ FreshInv' /\ MainInv' /\ RulesInv'
  BY <1>1, Frame
<1>a. /\ call.name = "enforce" /\ call.left = 0 /\ call.lost = {} /\ Channels \in Nat
      /\ call.todo \subseteq data_sessions_ \cup core.former
      /\ call \in [name : {"idle", "handshake", "extract", "insert", "collect", "enforce", "enforced"},
              todo : SUBSET (Stages \cup OldStages),
              at : Stages \cup OldStages \cup {NoStage}, left : Nat, lost : SUBSET Stages]
  <2>1. call.name = "enforce" /\ call.left = 0
    BY DEF NextEnforcement
  <2>2. call.lost = {} /\ call.todo \subseteq data_sessions_ \cup core.former
    BY <2>1 DEF CallInv
  <2>3. Channels \in Nat
    BY ChannelsType, RulesAssumption DEF MainType
  <2> QED
    BY <2>1, <2>2, <2>3 DEF CallType
<1>b. \/ EndEnforcement
      \/ /\ \E s \in call.todo : call' = [call EXCEPT !.todo = call.todo \ {s}, !.at = s, !.left = Channels]
         /\ UNCHANGED core
  BY DEF NextEnforcement
<1>e. CoreKept /\ (core'.turn = core.turn \/ (call'.name = "idle" /\ core'.turn = "collect"))
  <2>1. CASE UNCHANGED core
    BY <2>1, CoreUnchanged
  <2>2. CASE EndEnforcement
    BY <2>2, EndEnforcementEffect
  <2> QED
    BY <1>b, <2>1, <2>2
<1>c. \/ call' = Idle /\ call'.name = "idle" /\ call'.lost = {}
      \/ \E s \in call.todo : /\ call'.name = "enforce" /\ call'.todo = call.todo \ {s}
                              /\ call'.at = s /\ call'.lost = {}
  <2>1. CASE EndEnforcement
    BY <2>1, EndEnforcementEffect
  <2>2. ASSUME NEW s \in call.todo, call' = [call EXCEPT !.todo = call.todo \ {s}, !.at = s, !.left = Channels]
        PROVE  /\ call'.name = "enforce" /\ call'.todo = call.todo \ {s}
               /\ call'.at = s /\ call'.lost = {}
    BY <1>a, <2>2
  <2> QED
    BY <1>b, <2>1, <2>2
<1>3. CallType'
  <2>1. CASE EndEnforcement
    BY <2>1, EndEnforcementEffect
  <2>2. ASSUME NEW s \in call.todo, call' = [call EXCEPT !.todo = call.todo \ {s}, !.at = s, !.left = Channels]
        PROVE  CallType'
    <3>1. call.todo \ {s} \in SUBSET (Stages \cup OldStages) /\ s \in Stages \cup OldStages
      BY <1>a
    <3> QED
      BY <1>a, <2>2, <3>1 DEF CallType
  <2> QED
    BY <1>b, <2>1, <2>2
<1>4. CallInv'
  BY <1>1, <1>a, <1>c, <1>e DEF CallInv, CoreKept
<1>5. UseInv'
  <2>1. CallUses = {} /\ CallUses' = {} /\ call'.name \notin {"collect", "enforced"}
    BY <1>a, <1>c DEF CallUses
  <2> QED
    BY <1>1, <2>1 DEF UseInv, MainUses, Quiet, OneRequest
<1>6. SigpipeInv'
  BY <1>1, <1>a, <1>c, <1>e DEF SigpipeInv, Safe, CoreKept, Idle
<1>7. CountInv'
  <2>1. Present' = Present /\ call'.lost = call.lost
    BY <1>1, <1>a, <1>c DEF Present, Moving
  <2> QED
    BY <1>1, <2>1 DEF CountInv, ActiveCounted, Uncounted
<1>8. EndInv'
  BY <1>1, WorksOn DEF NextEnforcement
<1>9. CoreType'
  BY <1>e DEF CoreKept
<1> QED
  BY <1>2, <1>9, <1>3, <1>4, <1>5, <1>6, <1>7, <1>8

LEMMA LocalPassthruKeeps ==
    ASSUME Inv, LocalPassthru
    PROVE  Inv'
<1> USE DEF Inv, TypeOK
\* A stage of the former process: the handler has no session.
<1>0. CASE call.at \notin data_sessions_
  <2>1. /\ UNCHANGED <<stage, dead, installed, early, announced, pending_data_sessions_, m_pending, m_active, acceptor, preparing_data_sessions_, data_sessions_, session, handshake, main, rules, call, core, sigpipe_ignored>>
        /\ process' = "crashed" /\ call.name = "enforce" /\ call.left > 0
    BY <1>0 DEF LocalPassthru, stageVars, sessionVars, countVars, endVars, history
  <2>2. call.at \in core.former
    BY <1>0, <2>1 DEF CallInv
  <2>3. StageType' /\ CountType' /\ SessionType' /\ HandshakeType' /\ MainType' /\ CallType' /\ CoreType' /\ WaitingInv' /\ FreshInv' /\ MainInv' /\ CallInv' /\ UseInv' /\ RulesInv' /\ SigpipeInv' /\ CountInv'
    BY <2>1, Frame
  <2>4. EndType'
    BY <2>1 DEF EndType
  <2>5. EndInv'
    BY <2>1, <2>2 DEF EndInv, ExitAbandonsNoStage, NoNullSession, ManagedStageNeverKills
  <2> QED
    BY <2>3, <2>4, <2>5
<1> SUFFICES ASSUME call.at \in data_sessions_ PROVE Inv'
  BY <1>0
<1>1. UNCHANGED <<stage, dead, installed, early, announced, pending_data_sessions_, m_pending, m_active, acceptor, preparing_data_sessions_, data_sessions_, handshake, main, rules, core, sigpipe_ignored>>
  BY DEF LocalPassthru, stageVars, sessionVars, countVars, endVars, history, Submit
<1>2. StageType' /\ CountType' /\ HandshakeType' /\ MainType' /\ CoreType' /\ WaitingInv' /\ MainInv'
  BY <1>1, Frame
<1> DEFINE c == call.at
<1>a. /\ call.name = "enforce" /\ call.left > 0 /\ c \in data_sessions_ /\ c \in Stages
      /\ Submit(c, <<"enforce">>) /\ call' = [call EXCEPT !.name = "enforced"]
      /\ UNCHANGED process
  BY Roles DEF LocalPassthru, CallInv
<1>b. /\ c \notin MainUses /\ CallUses = {} /\ ~Fresh(c)
      /\ session[c].queue = <<>> /\ session[c].answers = <<>>
  BY <1>a, Roles DEF CallUses, UseInv, Quiet
<1>c. /\ call'.name = "enforced" /\ call'.at = c /\ call'.left = call.left
      /\ call'.todo = call.todo /\ call'.lost = call.lost /\ CallUses' = {c}
  BY <1>a DEF CallType, CallUses
<1>d. <<"enforce">> \in Seq(Requests) /\ <<>> \o <<"enforce">> = <<"enforce">>
  BY DEF Requests
<1> HIDE DEF c
<1>e. /\ session' \in [Stages -> SessionRecords]
      /\ session'[c].queue = <<"enforce">> /\ session'[c].answers = <<>>
      /\ \A t \in Stages \ {c} : session'[t] = session[t]
  BY <1>a, <1>b, <1>d, SubmitEffect
<1>f. main.pc \in {"answers", "ready"} => main.stage \in Stages \ {c}
  BY <1>b, Roles DEF MainUses
<1>3. SessionType'
  BY <1>1, <1>e DEF SessionType, SessionRecords
<1>4. CallType'
  BY <1>1 DEF LocalPassthru, Submit, CallType
<1>5. EndType'
  BY <1>1 DEF LocalPassthru, Submit, EndType
<1>6. FreshInv'
  <2>1. \A t \in Stages : Fresh(t)' => Fresh(t) /\ t # c
    BY <1>1, <1>b DEF Fresh
  <2> QED
    BY <1>1, <1>e, <2>1 DEF FreshInv
<1>7. CallInv'
  BY <1>1 DEF LocalPassthru, Submit, CallInv, StageType, SessionType, CallType, CoreType
<1>8. UseInv'
  <2>1. OneRequest(call.at, "enforce", {"ok", "error"})'
    BY <1>c, <1>e DEF OneRequest
  <2>2. MainUses' = MainUses /\ \A t \in Stages \ {c} : session'[t] = session[t]
    BY <1>1, <1>e DEF MainUses
  <2> QED
    BY <1>1, <1>b, <1>c, <1>f, <2>1, <2>2 DEF UseInv, Quiet, OneRequest
<1>9. RulesInv'
  BY <1>1, <1>e, <1>f DEF RulesInv, AnnouncedHasRules
<1>10. SigpipeInv'
  BY <1>1 DEF LocalPassthru, Submit, SigpipeInv, Safe, SessionType, CallType, CoreType, EndType
<1>11. CountInv'
  BY <1>1 DEF LocalPassthru, Submit, CountInv, ActiveCounted, Present, Moving, Uncounted, StageType, CountType, SessionType, MainType, CallType
<1>12. EndInv'
  BY <1>1, <1>a, WorksOn DEF LocalPassthru
<1> QED
  BY <1>2, <1>3, <1>4, <1>5, <1>6, <1>7, <1>8, <1>9, <1>10, <1>11, <1>12

LEMMA EnforcementAnswerKeeps ==
    ASSUME Inv, EnforcementAnswer
    PROVE  Inv'
<1> USE DEF Inv, TypeOK
<1>1. UNCHANGED <<stage, dead, installed, early, announced, pending_data_sessions_, m_pending, m_active, acceptor, preparing_data_sessions_, data_sessions_, handshake, main, rules, sigpipe_ignored>>
  BY DEF EnforcementAnswer, stageVars, sessionVars, countVars, endVars, history, PopAnswer, Idle
<1>2. StageType' /\ CountType' /\ HandshakeType' /\ MainType' /\ WaitingInv' /\ MainInv'
  BY <1>1, Frame
<1> DEFINE c == call.at
           answer == Head(session[c].answers)
<1>a. /\ call.name = "enforced" /\ call.left > 0 /\ c \in data_sessions_ /\ c \in Stages
      /\ session[c].answers # <<>> /\ PopAnswer(c) /\ call.todo \subseteq data_sessions_ \cup core.former
      /\ call.lost = {}
      /\ \/ answer = "error" /\ EndEnforcement
         \/ /\ answer # "error" /\ UNCHANGED core
            /\ call' = [call EXCEPT !.name = "enforce", !.left = call.left - 1]
      /\ process' = IF answer \in {"rate", "lost"} THEN "crashed" ELSE process
  BY Roles DEF EnforcementAnswer, CallInv
<1>b. /\ session[c].queue = <<>> /\ answer \in {"ok", "error"}
      /\ Tail(session[c].answers) = <<>>
  <2>1. session[c].queue = <<>> /\ \E a \in {"ok", "error"} : session[c].answers = <<a>>
    BY <1>a DEF UseInv, OneRequest
  <2>2. \A a \in {"ok", "error"} : Tail(<<a>>) = <<>> /\ Head(<<a>>) = a
    OBVIOUS
  <2> QED
    BY <2>1, <2>2
<1>c. /\ call'.lost = {} /\ call'.name \in {"idle", "enforce"}
      /\ call'.name = "enforce" => /\ call'.todo = call.todo /\ call'.at = c
                                   /\ call'.left = call.left - 1
  <2>1. CASE EndEnforcement
    BY <2>1, EndEnforcementEffect
  <2>2. CASE call' = [call EXCEPT !.name = "enforce", !.left = call.left - 1]
    BY <1>a, <2>2 DEF CallType
  <2> QED
    BY <1>a, <2>1, <2>2
<1>d. /\ c \notin MainUses /\ CallUses = {c} /\ CallUses' = {} /\ ~Fresh(c)
      /\ UNCHANGED process
  BY <1>a, <1>b, <1>c, Roles DEF CallUses
<1>g. CoreKept /\ (core'.turn = core.turn \/ (call'.name = "idle" /\ core'.turn = "collect"))
  <2>1. CASE UNCHANGED core
    BY <2>1, CoreUnchanged
  <2>2. CASE EndEnforcement
    BY <2>2, EndEnforcementEffect
  <2> QED
    BY <1>a, <2>1, <2>2
<1> HIDE DEF c, answer
<1>e. /\ session' \in [Stages -> SessionRecords]
      /\ session'[c].queue = <<>> /\ session'[c].answers = <<>>
      /\ \A t \in Stages \ {c} : session'[t] = session[t]
  BY <1>a, <1>b, PopEffect
<1>f. main.pc \in {"answers", "ready"} => main.stage \in Stages \ {c}
  BY <1>d, Roles DEF MainUses
<1>3. SessionType'
  BY <1>1, <1>e DEF SessionType, SessionRecords
<1>4. CallType'
  <2>1. CASE answer = "error"
    BY <1>a, <2>1, EndEnforcementEffect
  <2>2. CASE answer # "error"
    <3>1. call.left - 1 \in Nat
      BY <1>a DEF CallType
    <3> QED
      BY <1>a, <2>2, <3>1 DEF CallType
  <2> QED
    BY <2>1, <2>2
<1>5. EndType'
  BY <1>1, <1>d DEF EndType
<1>6. FreshInv'
  <2>1. \A t \in Stages : Fresh(t)' => Fresh(t) /\ t # c
    BY <1>1, <1>d DEF Fresh
  <2> QED
    BY <1>1, <1>e, <2>1 DEF FreshInv
<1>7. CallInv'
  BY <1>1, <1>a, <1>c, <1>g DEF CallInv, CoreKept
<1>8. UseInv'
  <2>1. MainUses' = MainUses /\ \A t \in Stages \ {c} : session'[t] = session[t]
    BY <1>1, <1>e DEF MainUses
  <2>2. call'.name \notin {"collect", "enforced"}
    BY <1>c
  <2> QED
    BY <1>1, <1>d, <1>e, <1>f, <2>1, <2>2 DEF UseInv, Quiet, OneRequest
<1>9. RulesInv'
  BY <1>1, <1>e, <1>f DEF RulesInv, AnnouncedHasRules
<1>10. SigpipeInv'
  BY <1>1, <1>a, <1>c, <1>g DEF SigpipeInv, Safe, CoreKept
<1>11. CountInv'
  <2>1. Present' = Present
    BY <1>1, <1>a, <1>c DEF Present, Moving
  <2> QED
    BY <1>1, <1>a, <1>c, <2>1 DEF CountInv, ActiveCounted, Uncounted
<1>12. EndInv'
  BY <1>1, <1>d, WorksOn DEF EnforcementAnswer
<1>13. CoreType'
  BY <1>g DEF CoreKept
<1> QED
  BY <1>2, <1>13, <1>3, <1>4, <1>5, <1>6, <1>7, <1>8, <1>9, <1>10, <1>11, <1>12

LEMMA CollectAnswerKeeps ==
    ASSUME Inv, NEW s \in Stages, CollectAnswer(s)
    PROVE  Inv'
<1> USE DEF Inv, TypeOK
<1>1. UNCHANGED <<stage, dead, installed, early, announced, pending_data_sessions_, m_pending, acceptor, preparing_data_sessions_, data_sessions_, handshake, main, rules, core, sigpipe_ignored>>
  BY DEF CollectAnswer, stageVars, sessionVars, countVars, endVars, history, PopAnswer, LeftToAnswer, FoundLost
<1>2. StageType' /\ HandshakeType' /\ MainType' /\ CoreType' /\ WaitingInv' /\ MainInv'
  BY <1>1, Frame
<1> DEFINE answer == Head(session[s].answers)
<1>a. /\ call.name = "collect" /\ s \in call.todo /\ s \in data_sessions_
      /\ session[s].answers # <<>> /\ PopAnswer(s)
      /\ call.todo \subseteq data_sessions_ /\ call.lost \subseteq data_sessions_
      /\ call.todo \cap call.lost = {}
      /\ call' = [call EXCEPT !.todo = call.todo \ {s},
                              !.lost = IF answer = "lost" THEN call.lost \cup {s} ELSE call.lost]
      /\ m_active' = IF answer = "lost" THEN m_active - 1 ELSE m_active
      /\ process' = IF answer \in {"ok", "error"} THEN "crashed" ELSE process
  BY DEF CollectAnswer, CallInv, FoundLost, LeftToAnswer
<1>b. /\ session[s].queue = <<>> /\ answer \in {"rate", "lost"}
      /\ Tail(session[s].answers) = <<>>
  <2>1. session[s].queue = <<>> /\ \E a \in {"rate", "lost"} : session[s].answers = <<a>>
    BY <1>a DEF UseInv, OneRequest
  <2>2. \A a \in {"rate", "lost"} : Tail(<<a>>) = <<>> /\ Head(<<a>>) = a
    OBVIOUS
  <2> QED
    BY <2>1, <2>2
<1>c. /\ call'.name = "collect" /\ call'.todo = call.todo \ {s}
      /\ call'.lost = IF answer = "lost" THEN call.lost \cup {s} ELSE call.lost
      /\ CallUses = call.todo /\ CallUses' = call.todo \ {s} /\ UNCHANGED process
  BY <1>a, <1>b DEF CallType, CallUses
<1>d. /\ s \notin MainUses /\ ~Fresh(s) /\ s \in announced /\ call.todo \subseteq Stages
  BY <1>a, Roles
<1> HIDE DEF answer
<1>e. /\ session' \in [Stages -> SessionRecords]
      /\ session'[s].queue = <<>> /\ session'[s].answers = <<>>
      /\ \A t \in Stages \ {s} : session'[t] = session[t]
  BY <1>a, <1>b, PopEffect
<1>f. main.pc \in {"answers", "ready"} => main.stage \in Stages \ {s}
  BY <1>d, Roles DEF MainUses
\* An answer is there, so a request was sent, which had SIGPIPE ignored.
<1>g. sigpipe_ignored
  BY <1>a DEF SigpipeInv, Safe
<1>3. CountType'
  BY <1>1, <1>a DEF CountType
<1>4. SessionType'
  BY <1>1, <1>e DEF SessionType, SessionRecords
<1>5. CallType'
  BY <1>a DEF CallType
<1>6. EndType'
  BY <1>1, <1>c DEF EndType
<1>7. FreshInv'
  <2>1. \A t \in Stages : Fresh(t)' => Fresh(t) /\ t # s
    BY <1>1, <1>d DEF Fresh
  <2> QED
    BY <1>1, <1>e, <2>1 DEF FreshInv
<1>8. CallInv'
  BY <1>1, <1>a, <1>c DEF CallInv
<1>9. UseInv'
  <2>1. MainUses' = MainUses /\ \A t \in Stages \ {s} : session'[t] = session[t]
    BY <1>1, <1>e DEF MainUses
  <2>2. \A t \in Stages \ (MainUses' \cup CallUses') : Quiet(t)'
    BY <1>c, <1>d, <1>e, <2>1 DEF UseInv, Quiet
  <2>3. \A t \in call'.todo : OneRequest(t, "stats", {"rate", "lost"})'
    BY <1>a, <1>c, <1>d, <2>1 DEF UseInv, OneRequest
  <2>4. main'.pc = "ready" => OneRequest(main.stage, "ready", {"ok", "error"})'
    BY <1>1, <1>f, <2>1 DEF UseInv, OneRequest
  <2> QED
    BY <1>c, <2>2, <2>3, <2>4 DEF UseInv
<1>10. RulesInv'
  BY <1>1, <1>e, <1>f DEF RulesInv, AnnouncedHasRules
<1>11. SigpipeInv'
  BY <1>1, <1>a, <1>c, <1>g DEF SigpipeInv, Safe
<1>12. CountInv'
  <2> DEFINE X == (announced \cap Present) \ call.lost
             Y == (announced \cap Present) \ (call.lost \cup {s})
  <2>1. IsFiniteSet(announced) /\ X \in SUBSET announced /\ m_active + Uncounted = Cardinality(X)
    BY DEF CountInv, ActiveCounted
  <2>2. Present' = Present /\ UNCHANGED <<announced, Uncounted>> /\ s \in X
    BY <1>1, <1>a, <1>c, <1>d DEF Present, Moving, Uncounted
  <2>3. CASE answer # "lost"
    BY <1>a, <1>c, <2>1, <2>2, <2>3 DEF CountInv, ActiveCounted
  <2>4. CASE answer = "lost"
    <3>1. Y = X \ {s}
      OBVIOUS
    <3>2. Y = ((announced \cap Present) \ call.lost)'
      BY <1>c, <2>2, <2>4
    <3> HIDE DEF X, Y
    <3>3. IsFiniteSet(X)
      BY <2>1, FS_Subset
    <3>4. Cardinality(Y) = Cardinality(X) - 1 /\ Cardinality(X) \in Nat
      BY <2>2, <3>1, <3>3, FS_RemoveElement, FS_CardinalityType
    <3>5. m_active \in Int /\ Uncounted \in Int /\ m_active' = m_active - 1
      BY <1>a, <2>4 DEF CountType, Uncounted
    <3>6. m_active' + Uncounted = Cardinality(Y)
      BY <2>1, <3>4, <3>5
    <3> QED
      BY <2>1, <2>2, <3>2, <3>6 DEF CountInv, ActiveCounted
  <2> QED
    BY <2>3, <2>4
<1>13. EndInv'
  BY <1>1, <1>c, WorksOn DEF CollectAnswer
<1> QED
  BY <1>2, <1>3, <1>4, <1>5, <1>6, <1>7, <1>8, <1>9, <1>10, <1>11, <1>12, <1>13

LEMMA RemoveLostKeeps ==
    ASSUME Inv, NEW s \in Stages, RemoveLost(s)
    PROVE  Inv'
<1> USE DEF Inv, TypeOK
<1>1. UNCHANGED <<stage, dead, installed, early, announced, pending_data_sessions_, m_pending, m_active, acceptor, preparing_data_sessions_, handshake, main, rules, process, sigpipe_ignored>>
  BY DEF RemoveLost, stageVars, sessionVars, countVars, endVars, history, NoSession, StopTracking
<1>2. StageType' /\ CountType' /\ HandshakeType' /\ MainType' /\ EndType' /\ WaitingInv' /\ MainInv'
  BY <1>1, Frame
<1>a. /\ call.name = "collect" /\ call.todo = {} /\ s \in call.lost
      /\ call.lost \subseteq data_sessions_
      /\ session' = [session EXCEPT ![s] = NoSession]
      /\ data_sessions_' = data_sessions_ \ {s}
      /\ call' = [call EXCEPT !.lost = call.lost \ {s}]
      /\ core' = [core EXCEPT !.tracked = core.tracked \ {s}]
  BY DEF RemoveLost, StopTracking, CallInv
<1>b. /\ call'.name = "collect" /\ call'.todo = {} /\ call'.lost = call.lost \ {s}
      /\ core'.tracked = core.tracked \ {s} /\ core'.queue = core.queue /\ core'.turn = core.turn
      /\ core'.former = core.former /\ core'.calls = core.calls
      /\ CallUses = {} /\ CallUses' = {}
  BY <1>a DEF CallType, CoreType, CallUses
<1>c. /\ s \notin MainUses /\ ~Fresh(s) /\ s \in announced /\ s \notin preparing_data_sessions_
      /\ NoStage \notin Stages
  BY <1>a, Roles DEF CallInv
<1>d. /\ session' \in [Stages -> SessionRecords] /\ session'[s] = NoSession
      /\ \A t \in Stages \ {s} : session'[t] = session[t]
  BY <1>a, RemoveEffect
<1>e. main.pc \in {"answers", "ready"} => main.stage \in Stages \ {s}
  BY <1>c, Roles DEF MainUses
<1>f. sigpipe_ignored
  BY <1>a DEF SigpipeInv, Safe
<1>3. SessionType'
  BY <1>1, <1>a, <1>d DEF SessionType, SessionRecords
<1>4. CallType'
  BY <1>a DEF CallType
<1>5. CoreType'
  BY <1>a DEF CoreType
<1>6. FreshInv'
  <2>1. \A t \in Stages : Fresh(t)' => Fresh(t) /\ t # s
    BY <1>1, <1>c DEF Fresh
  <2> QED
    BY <1>1, <1>d, <2>1 DEF FreshInv
<1>7. CallInv'
  BY <1>1, <1>a, <1>b, <1>c DEF CallInv
<1>8. UseInv'
  <2>1. MainUses' = MainUses /\ \A t \in Stages \ {s} : session'[t] = session[t]
    BY <1>1, <1>d DEF MainUses
  <2>2. Quiet(s)'
    BY <1>d DEF Quiet, NoSession
  <2>3. \A t \in Stages \ (MainUses' \cup CallUses') : Quiet(t)'
    BY <1>b, <2>1, <2>2 DEF UseInv, Quiet
  <2>4. main'.pc = "ready" => OneRequest(main.stage, "ready", {"ok", "error"})'
    BY <1>1, <1>e, <2>1 DEF UseInv, OneRequest
  <2> QED
    BY <1>b, <2>3, <2>4 DEF UseInv
<1>9. RulesInv'
  BY <1>1, <1>d, <1>e DEF RulesInv, AnnouncedHasRules
<1>10. SigpipeInv'
  BY <1>1, <1>b, <1>f DEF SigpipeInv, Safe
<1>11. CountInv'
  <2>1. (announced \cap Present)' = (announced \cap Present) \ {s}
    BY <1>1, <1>a, <1>b, <1>c DEF Present, Moving
  <2>2. ((announced \cap Present) \ call.lost)' = (announced \cap Present) \ call.lost
    BY <1>a, <1>b, <2>1
  <2> QED
    BY <1>1, <2>2 DEF CountInv, ActiveCounted, Uncounted
<1>12. EndInv'
  BY <1>1, WorksOn DEF RemoveLost
<1> QED
  BY <1>2, <1>3, <1>4, <1>5, <1>6, <1>7, <1>8, <1>9, <1>10, <1>11, <1>12

LEMMA HandshakeSendKeeps ==
    ASSUME Inv, HandshakeSend
    PROVE  Inv'
<1> USE DEF Inv, TypeOK
<1>1. UNCHANGED <<dead, installed, early, announced, pending_data_sessions_, m_pending, m_active, acceptor, preparing_data_sessions_, data_sessions_, session, main, rules, call, core, sigpipe_ignored>>
  BY DEF HandshakeSend, stageVars, sessionVars, countVars, endVars, history, KilledWriting, FirstRuleSent
<1>2. CountType' /\ SessionType' /\ MainType' /\ CallType' /\ CoreType' /\ CallInv' /\ UseInv' /\ RulesInv' /\ SigpipeInv' /\ CountInv'
  BY <1>1, Frame
<1>a. UNCHANGED stage \/ stage' = [stage EXCEPT ![main.stage] = "addressed"]
  BY DEF HandshakeSend, StageType
<1>3. StageType'
  BY <1>1 DEF HandshakeSend, FirstRuleSent, KilledWriting, StageType
<1>4. HandshakeType'
  BY <1>1 DEF HandshakeSend, FirstRuleSent, KilledWriting, HandshakeType
<1>5. EndType'
  BY <1>1 DEF HandshakeSend, FirstRuleSent, KilledWriting, EndType
<1>6. WaitingInv'
  <2>1. \A t \in ToSet(pending_data_sessions_) : t \in Stages /\ t # main.stage
    BY DEF ToSet, WaitingInv, CountType
  <2>2. \A t \in Stages \ {main.stage} : stage'[t] = stage[t]
    BY <1>a DEF StageType
  <2>3. main.stage \in Stages => stage'[main.stage] \in {stage[main.stage], "addressed"}
    BY <1>a DEF StageType
  <2> QED
    BY <1>1, <2>1, <2>2, <2>3, Roles DEF WaitingInv
<1>7. FreshInv'
  BY <1>1 DEF HandshakeSend, FirstRuleSent, KilledWriting, FreshInv, Fresh, NoSession, StageType, CountType, SessionType, MainType
<1>8. MainInv'
  BY <1>1 DEF HandshakeSend, FirstRuleSent, KilledWriting, MainInv, InPreparation, WithSession, StageType, SessionType, HandshakeType, MainType
<1>9. EndInv'
  BY <1>1 DEF HandshakeSend, FirstRuleSent, KilledWriting, EndInv, ExitAbandonsNoStage, NoNullSession, ManagedStageNeverKills, Present, Moving, StageType, SessionType, MainType, CallType, EndType
<1> QED
  BY <1>2, <1>3, <1>4, <1>5, <1>6, <1>7, <1>8, <1>9

LEMMA CountPendingKeeps ==
    ASSUME Inv, CountPending
    PROVE  Inv'
<1> USE DEF Inv, TypeOK
<1>1. UNCHANGED <<stage, dead, installed, early, announced, pending_data_sessions_, m_active, preparing_data_sessions_, data_sessions_, session, handshake, main, rules, call, core, process, sigpipe_ignored>>
  BY DEF CountPending, stageVars, sessionVars, countVars, endVars, history
<1>2. StageType' /\ SessionType' /\ HandshakeType' /\ MainType' /\ CallType' /\ CoreType' /\ EndType' /\ WaitingInv' /\ FreshInv' /\ MainInv' /\ CallInv' /\ UseInv' /\ RulesInv' /\ SigpipeInv' /\ CountInv' /\ EndInv'
  BY <1>1, Frame
<1>3. CountType'
  BY <1>1 DEF CountPending, CountType
<1> QED
  BY <1>2, <1>3

LEMMA AcceptStageKeeps ==
    ASSUME Inv, NEW s \in Stages, AcceptStage(s)
    PROVE  Inv'
<1> USE DEF Inv, TypeOK
<1>1. UNCHANGED <<dead, installed, early, announced, m_pending, m_active, preparing_data_sessions_, data_sessions_, session, handshake, main, rules, call, core, process, sigpipe_ignored>>
  BY DEF AcceptStage, stageVars, sessionVars, countVars, endVars, history
<1>2. SessionType' /\ HandshakeType' /\ MainType' /\ CallType' /\ CoreType' /\ EndType' /\ MainInv' /\ CallInv' /\ UseInv' /\ RulesInv' /\ SigpipeInv' /\ CountInv' /\ EndInv'
  BY <1>1, Frame
<1>a. /\ stage[s] = "connecting" /\ stage' = [stage EXCEPT ![s] = "accepted"]
      /\ pending_data_sessions_' = Append(pending_data_sessions_, s)
      /\ pending_data_sessions_ \in Seq(Stages) /\ stage \in [Stages -> {"absent", "connecting", "accepted", "addressed", "connected"}]
  BY DEF AcceptStage, CountType, StageType
<1>b. s \notin ToSet(pending_data_sessions_) /\ s # main.stage
  BY <1>a, NoStageAssumption DEF WaitingInv
<1>c. /\ ToSet(pending_data_sessions_') = ToSet(pending_data_sessions_) \cup {s}
      /\ Once(pending_data_sessions_') /\ pending_data_sessions_' \in Seq(Stages)
  BY <1>a, <1>b, AppendToSet, AppendOnce DEF WaitingInv
<1>d. stage'[s] = "accepted" /\ \A t \in Stages \ {s} : stage'[t] = stage[t]
  BY <1>a
<1>3. StageType'
  BY <1>1, <1>a DEF StageType
<1>4. CountType'
  BY <1>1 DEF AcceptStage, CountType
<1>5. WaitingInv'
  <2>1. \A t \in ToSet(pending_data_sessions_) : t \in Stages \ {s}
    BY <1>a, <1>b DEF ToSet
  <2>2. main.stage # NoStage => main.stage \in Stages \ {s}
    BY <1>b, Roles
  <2> QED
    BY <1>1, <1>b, <1>c, <1>d, <2>1, <2>2 DEF WaitingInv
<1>6. FreshInv'
  <2>1. \A t \in Stages : Fresh(t)' => Fresh(t)
    BY <1>1, <1>a, <1>c, <1>d DEF Fresh
  <2> QED
    BY <1>1, <2>1 DEF FreshInv
<1> QED
  BY <1>2, <1>3, <1>4, <1>5, <1>6

LEMMA StageConnectsKeeps ==
    ASSUME Inv, NEW s \in Stages, StageConnects(s)
    PROVE  Inv'
<1> USE DEF Inv, TypeOK
<1>1. UNCHANGED <<dead, installed, early, announced, pending_data_sessions_, m_pending, m_active, acceptor, preparing_data_sessions_, data_sessions_, handshake, main, rules, call, core, process, sigpipe_ignored>>
  BY DEF StageConnects, stageVars, sessionVars, countVars, endVars, history
<1>2. CountType' /\ HandshakeType' /\ MainType' /\ CallType' /\ CoreType' /\ EndType' /\ MainInv' /\ CallInv' /\ CountInv' /\ EndInv'
  BY <1>1, Frame
<1>a. /\ \A t \in Stages : /\ session'[t].queue = session[t].queue
                           /\ session'[t].answers = session[t].answers
  <2>1. session' = [session EXCEPT ![s] = [session[s] EXCEPT !.thread = "working"]]
    BY DEF StageConnects
  <2> QED
    BY <2>1 DEF SessionType
<1>b. /\ \A t \in CallUses \cup MainUses : t \in Stages
      /\ main.pc \in {"answers", "ready"} => main.stage \in Stages
  BY Roles DEF MainUses
<1>3. StageType'
  BY <1>1 DEF StageConnects, StageType
<1>4. SessionType'
  BY <1>1 DEF StageConnects, SessionType
<1>5. WaitingInv'
  BY <1>1 DEF StageConnects, WaitingInv, StageType, CountType, MainType
<1>6. FreshInv'
  BY <1>1 DEF StageConnects, FreshInv, Fresh, NoSession, StageType, CountType, SessionType, MainType
<1>7. UseInv'
  <2>1. CallUses' = CallUses /\ MainUses' = MainUses
    BY <1>1 DEF CallUses, MainUses
  <2> QED
    BY <1>1, <1>a, <1>b, <2>1 DEF UseInv, CallUses, Quiet, OneRequest
<1>8. RulesInv'
  BY <1>1, <1>a, <1>b DEF RulesInv, AnnouncedHasRules
<1>9. SigpipeInv'
  BY <1>1, <1>a, <1>b DEF SigpipeInv, Safe, CallUses
<1> QED
  BY <1>2, <1>3, <1>4, <1>5, <1>6, <1>7, <1>8, <1>9

LEMMA SessionSendKeeps ==
    ASSUME Inv, NEW s \in Stages, SessionSend(s)
    PROVE  Inv'
<1> USE DEF Inv, TypeOK
<1>1. UNCHANGED <<stage, dead, early, announced, pending_data_sessions_, m_pending, m_active, acceptor, preparing_data_sessions_, data_sessions_, handshake, main, rules, call, core>>
  BY DEF SessionSend, stageVars, countVars, history
<1>2. CountType' /\ HandshakeType' /\ MainType' /\ CallType' /\ CoreType' /\ WaitingInv' /\ MainInv' /\ CallInv' /\ CountInv'
  BY <1>1, Frame
<1> DEFINE q == session[s].queue
           a == session[s].answers
           request == Head(q)
<1>3. /\ q # <<>> /\ sigpipe_ignored' = (sigpipe_ignored \/ request = "stats") /\ Working
      /\ q \in Seq(Requests) /\ a \in Seq(AnswerCodes) /\ session \in [Stages -> SessionRecords]
  BY DEF SessionSend, IgnoreSigpipe, SessionType, SessionRecords
<1>4. s \in MainUses \cup CallUses
  BY <1>3 DEF UseInv, Quiet
\* What the handler sends is one request; of the main loop's the rules are many.
<1>5. s \in CallUses =>
         /\ q = <<IF call.name = "collect" THEN "stats" ELSE "enforce">> /\ a = <<>>
         /\ s \notin MainUses /\ call.name \in {"collect", "enforced"}
         /\ call.name = "enforced" => s = call.at /\ (sigpipe_ignored \/ core.turn = "unasked")
  <2>1. s \in CallUses => s \notin MainUses
    BY Roles
  <2> QED
    BY <1>3, <2>1 DEF UseInv, OneRequest, CallUses, CallInv, SigpipeInv, Safe
<1>6. s \in MainUses =>
         /\ s = main.stage /\ main.pc \in {"answers", "ready"}
         /\ s \notin announced /\ s \notin CallUses
  BY Roles DEF MainUses
<1>7. main.pc = "ready" /\ s \in MainUses => q = <<"ready">> /\ a = <<>>
  BY <1>3, <1>6 DEF UseInv, OneRequest
<1>8. main.pc = "answers" /\ s \in MainUses => request = "rule"
  <2>1. 1 \in DOMAIN q /\ request = q[1]
    BY <1>3
  <2> QED
    BY <1>6, <2>1 DEF RulesInv
<1>9. \A r \in Requests : Head(<<r>>) = r /\ Tail(<<r>>) = <<>>
  OBVIOUS
<1>10. CASE request # "stats" /\ KilledWriting(s) /\ UNCHANGED <<session, installed>>
  <2>1. s \in dead /\ (s = main.stage \/ (s = call.at /\ call.name = "enforced" /\ core.turn = "unasked"))
    <3>1. s \in dead /\ ~sigpipe_ignored /\ request # "stats"
      BY <1>10 DEF KilledWriting
    <3>2. CASE s \in MainUses
      BY <1>6, <3>1, <3>2 DEF MainUses
    <3>3. CASE s \in CallUses
      <4>1. call.name # "collect"
        BY <1>5, <1>9, <3>1, <3>3 DEF Requests
      <4> QED
        BY <1>5, <3>1, <3>3, <4>1
    <3> QED
      BY <1>4, <3>2, <3>3
  <2>2. EndInv' /\ EndType'
    BY <1>1, <1>3, <1>10, <2>1 DEF KilledWriting, EndInv, ExitAbandonsNoStage, NoNullSession, ManagedStageNeverKills, EndType
  <2>3. UNCHANGED sigpipe_ignored
    BY <1>3, <1>10 DEF EndType
  <2> QED
    BY <1>1, <1>2, <1>10, <2>2, <2>3, Frame
<1>11. ASSUME NEW answer \in Answers(s, request), UNCHANGED process,
              session' = [session EXCEPT ![s].queue = Tail(@), ![s].answers = Append(@, answer)],
              installed' = IF request = "rule" /\ answer = "ok"
                           THEN [installed EXCEPT ![s] = @ + 1] ELSE installed
       PROVE  Inv'
  <2>1. /\ answer \in AnswerCodes
        /\ request = "stats" => answer \in {"rate", "lost"}
        /\ request # "stats" => answer \in {"ok", "error"}
    BY DEF Answers, AnswerCodes
  <2>2. /\ session' \in [Stages -> SessionRecords]
        /\ session'[s].queue = Tail(q) /\ session'[s].answers = Append(a, answer)
        /\ \A t \in Stages \ {s} : session'[t] = session[t]
    <3> DEFINE new == [session[s] EXCEPT !.queue = Tail(q), !.answers = Append(a, answer)]
    <3>1. session' = [session EXCEPT ![s] = new]
      BY <1>11
    <3>2. Tail(q) \in Seq(Requests) /\ Append(a, answer) \in Seq(AnswerCodes)
      BY <1>3, <2>1
    <3>3. new \in SessionRecords /\ new.queue = Tail(q) /\ new.answers = Append(a, answer)
      BY <1>3, <3>2 DEF SessionRecords
    <3> HIDE DEF new
    <3> QED
      BY <1>3, <3>1, <3>3
  <2>3. /\ request = "rule" => s \in MainUses /\ s \notin announced /\ main.pc = "answers"
        /\ \A t \in Stages \ {s} : installed'[t] = installed[t]
        /\ request # "rule" => installed' = installed
        /\ installed' \in [Stages -> Nat]
    BY <1>4, <1>5, <1>6, <1>7, <1>9, <1>11 DEF Requests, StageType
  <2>4. Append(<<>>, answer) = <<answer>>
    OBVIOUS
  <2>5. CallUses \subseteq Stages /\ MainUses \subseteq Stages
    BY Roles
  <2>6. StageType'
    BY <1>1, <2>3 DEF StageType
  <2>7. SessionType'
    BY <1>1, <2>2 DEF SessionType, SessionRecords
  <2>8. EndType' /\ EndInv'
    BY <1>3, <1>11, WorksOn DEF EndType
  <2>9. FreshInv'
    <3>1. \A t \in Stages : Fresh(t)' => Fresh(t) /\ t # s
      BY <1>1, <1>4, Roles DEF Fresh
    <3> QED
      BY <1>1, <2>2, <2>3, <3>1 DEF FreshInv
  <2>10. UseInv'
    <3>1. CallUses' = CallUses /\ MainUses' = MainUses
      BY <1>1 DEF CallUses, MainUses
    <3>2. \A t \in Stages \ {s} : session'[t] = session[t]
      BY <2>2
    <3>3. \A t \in Stages \ (MainUses \cup CallUses) : Quiet(t)'
      BY <1>4, <3>2 DEF UseInv, Quiet
    <3>4. call.name = "collect" => \A t \in call.todo : OneRequest(t, "stats", {"rate", "lost"})'
      <4>1. ASSUME call.name = "collect", NEW t \in call.todo, t = s
            PROVE  OneRequest(t, "stats", {"rate", "lost"})'
        BY <1>5, <1>9, <2>1, <2>2, <2>4, <4>1 DEF OneRequest, CallUses, Requests
      <4>2. ASSUME call.name = "collect", NEW t \in call.todo, t # s
            PROVE  OneRequest(t, "stats", {"rate", "lost"})'
        BY <2>5, <3>2, <4>2 DEF UseInv, OneRequest, CallUses
      <4> QED
        BY <4>1, <4>2
    <3>5. call.name = "enforced" => OneRequest(call.at, "enforce", {"ok", "error"})'
      <4>1. CASE call.name = "enforced" /\ s = call.at
        BY <1>1, <1>5, <1>9, <2>1, <2>2, <2>4, <4>1 DEF OneRequest, CallUses, Requests
      <4>2. CASE call.name = "enforced" /\ s # call.at
        BY <1>1, <2>5, <3>2, <4>2 DEF UseInv, OneRequest, CallUses
      <4> QED
        BY <4>1, <4>2
    <3>6. main.pc = "ready" => OneRequest(main.stage, "ready", {"ok", "error"})'
      <4>1. CASE main.pc = "ready" /\ s = main.stage
        BY <1>1, <1>7, <1>9, <2>1, <2>2, <2>4, <4>1 DEF OneRequest, MainUses, Requests
      <4>2. CASE main.pc = "ready" /\ s # main.stage
        BY <1>1, <2>5, <3>2, <4>2 DEF UseInv, OneRequest, MainUses
      <4> QED
        BY <4>1, <4>2
    <3> QED
      BY <1>1, <3>1, <3>3, <3>4, <3>5, <3>6 DEF UseInv
  <2>11. RulesInv'
    <3>1. AnnouncedHasRules'
      BY <1>1, <2>3 DEF RulesInv, AnnouncedHasRules, StageType
    <3>2. CASE main.pc = "answers" /\ s = main.stage
      <4>1. /\ request = "rule" /\ \A i \in DOMAIN q : q[i] = "rule"
            /\ \A i \in DOMAIN a : a[i] \in {"ok", "error"}
            /\ \/ main.left = 0 /\ main.valid = 0 /\ main.seen > 0
               \/ /\ main.valid + main.left = main.seen
                  /\ Len(q) + Len(a) = main.left
                  /\ (\A i \in DOMAIN a : a[i] = "ok") => installed[s] = main.valid + Len(a)
        BY <1>8, <3>2 DEF RulesInv, MainUses
      <4> DEFINE b == Append(a, answer)
                 r == Tail(q)
      <4>2. /\ DOMAIN a = 1..Len(a) /\ DOMAIN b = 1..Len(a) + 1 /\ Len(b) = Len(a) + 1
            /\ Len(a) \in Nat /\ \A i \in 1..Len(a) : b[i] = a[i]
            /\ b[Len(a) + 1] = answer
        BY <1>3, <2>1
      <4>3. /\ Len(q) \in Nat \ {0} /\ DOMAIN q = 1..Len(q) /\ DOMAIN r = 1..Len(q) - 1
            /\ Len(r) = Len(q) - 1 /\ \A i \in 1..Len(q) - 1 : r[i] = q[i + 1]
        BY <1>3
      <4> HIDE DEF b, r, q, a, request
      <4>4. \A i \in DOMAIN r : r[i] = "rule"
        BY <4>1, <4>3
      <4>5. \A i \in DOMAIN b : b[i] \in {"ok", "error"}
        BY <2>1, <4>1, <4>2
      <4>6. Len(r) + Len(b) = Len(q) + Len(a)
        BY <4>2, <4>3
      <4>7. ASSUME \A i \in DOMAIN b : b[i] = "ok",
                   (\A i \in DOMAIN a : a[i] = "ok") => installed[s] = main.valid + Len(a)
            PROVE  installed'[s] = main.valid + Len(b)
        <5>1. answer = "ok" /\ \A i \in DOMAIN a : a[i] = "ok"
          BY <4>2, <4>7
        <5>2. installed'[s] = installed[s] + 1 /\ main.valid \in Nat
          BY <1>11, <4>1, <5>1 DEF StageType, MainType
        <5> QED
          BY <4>2, <4>7, <5>1, <5>2
      <4>8. session'[s].queue = r /\ session'[s].answers = b
        BY <2>2 DEF r, b
      <4>9. main.seen <= rules /\ (main.seen = Len(Rules) \/ main.stage \in early)
        BY <3>2 DEF RulesInv
      <4> QED
        BY <1>1, <3>1, <3>2, <4>1, <4>4, <4>5, <4>6, <4>7, <4>8, <4>9 DEF RulesInv
    <3>3. CASE ~(main.pc = "answers" /\ s = main.stage)
      <4>1. request # "rule" \/ s # main.stage
        BY <1>6, <2>3, <3>3
      <4>2. main.stage \in Stages => installed'[main.stage] = installed[main.stage]
        BY <2>3, <4>1
      <4>3. main.pc = "answers" => session'[main.stage] = session[main.stage]
        BY <2>2, <2>5, <3>3 DEF MainUses
      <4>4. main.pc \in InPreparation => main.stage \in Stages
        BY Roles DEF MainInv, InPreparation
      <4> QED
        BY <1>1, <3>1, <4>2, <4>3, <4>4 DEF RulesInv, InPreparation
    <3> QED
      BY <3>2, <3>3
  <2>12. SigpipeInv'
    <3>1. call.name = "collect" /\ s \in call.todo => sigpipe_ignored'
      BY <1>3, <1>5, <1>9 DEF CallUses, Requests
    <3>2. call.name = "collect" /\ s \notin call.todo => \A t \in call.todo : session'[t] = session[t]
      BY <2>2, <2>5 DEF CallUses
    <3> QED
      BY <1>1, <1>3, <3>1, <3>2 DEF SigpipeInv, Safe
  <2> QED
    BY <1>2, <2>6, <2>7, <2>8, <2>9, <2>10, <2>11, <2>12
<1> QED
  BY <1>10, <1>11 DEF SessionSend

-------------------------------------------------------------------------------
(* The invariant holds.                                                       *)

LEMMA InvInit == Init => Inv
<1> SUFFICES ASSUME Init PROVE Inv
  OBVIOUS
<1>1. TypeOK
  BY TypeInit
<1>2. /\ pending_data_sessions_ = <<>> /\ ToSet(<<>>) = {} /\ DOMAIN (<<>>) = {}
      /\ main.pc = "first" /\ main.stage = NoStage /\ main.seen = 0 /\ main.valid = 0
      /\ call = Idle /\ call.name = "idle" /\ call.at = NoStage /\ call.lost = {}
      /\ core.tracked = core.former /\ core.queue = <<>>
      /\ data_sessions_ = {} /\ preparing_data_sessions_ = {} /\ announced = {}
  BY DEF Init, CoreInit, AtLoop, Idle, ToSet
<1>3. \A s \in Stages : session[s] = NoSession /\ installed[s] = 0 /\ Quiet(s)
  BY DEF Init, NoSession, Quiet
<1>4. WaitingInv /\ FreshInv
  BY <1>2, <1>3 DEF WaitingInv, FreshInv, Once
<1>5. MainInv /\ CallInv
  BY <1>2 DEF MainInv, CallInv, InPreparation, WithSession, Once
<1>6. UseInv /\ SigpipeInv
  BY <1>2, <1>3 DEF UseInv, SigpipeInv, Safe
<1>7. RulesInv
  BY <1>2 DEF Init, RulesInv, AnnouncedHasRules
<1>8. CountInv
  <2>1. IsFiniteSet({}) /\ Cardinality({}) = 0
    BY FS_EmptySet
  <2>2. (announced \cap Present) \ call.lost = {} /\ m_active + Uncounted = 0
    BY <1>2 DEF Init, Uncounted, AtLoop
  <2> QED
    BY <1>2, <2>1, <2>2 DEF CountInv, ActiveCounted
<1>9. EndInv
  BY WorksOn DEF Init, EndInv, ExitAbandonsNoStage, NoNullSession, ManagedStageNeverKills
<1> QED
  BY <1>1, <1>4, <1>5, <1>6, <1>7, <1>8, <1>9 DEF Inv

LEMMA InvNext == Inv /\ [Next]_vars => Inv'
<1> SUFFICES ASSUME Inv, [Next]_vars PROVE Inv'
  OBVIOUS
<1>1. CASE Environment
  BY <1>1, CoreStopsKeeps, StageStartsKeeps, StageDiesKeeps DEF Environment
<1>2. CASE CoreCalls \/ CallMarkStageReady
  BY <1>2, CallLocalHandshakeKeeps, CallCollectGlobalStatisticsKeeps,
     CallCreateEnforcementRuleKeeps, CallMarkStageReadyKeeps DEF CoreCalls
<1>3. CASE Main
  BY <1>3, LoopConditionKeeps, TakeStageKeeps, CreateSessionKeeps, EndHandshakeKeeps,
     SubmitRulesKeeps, ReadRuleAnswerKeeps, CheckRulesKeeps, ReadReadyAnswerKeeps,
     AnnounceStageKeeps, CountActiveKeeps DEF Main
<1>4. CASE Handler
  BY <1>4, LocalHandshakeKeeps, ExtractStageKeeps, InsertStageKeeps, EndCollectKeeps,
     NextEnforcementKeeps, LocalPassthruKeeps, EnforcementAnswerKeeps,
     CollectAnswerKeeps, RemoveLostKeeps DEF Handler
<1>5. CASE HandshakeSend \/ CountPending
  BY <1>5, HandshakeSendKeeps, CountPendingKeeps
<1>6. CASE \E s \in Stages : AcceptStage(s) \/ StageConnects(s) \/ SessionSend(s)
  BY <1>6, AcceptStageKeeps, StageConnectsKeeps, SessionSendKeeps
<1>7. CASE UNCHANGED vars
  BY <1>7, Frame DEF Inv, TypeOK, vars, stageVars, sessionVars, countVars, endVars, history
<1> QED
  BY <1>1, <1>2, <1>3, <1>4, <1>5, <1>6, <1>7 DEF Next

LEMMA Invariant == SafetySpec => []Inv
BY InvInit, InvNext, PTL DEF SafetySpec

-------------------------------------------------------------------------------
(* What follows from it: the properties that the run local checks.            *)

\* Every variable keeps its type: the requests in the queues and the answers are
\* among those that the PAIOInterface knows, whatever sessions and threads do.
THEOREM TypeCorrect == SafetySpec => []TypeOK
BY Invariant, PTL DEF Inv

\* A stage that the core hears of has acknowledged every housekeeping rule, or
\* its preparation began before LocalHandshake had brought them all, although
\* the answers are only counted and are matched with the rules by their order.
THEOREM StagesAnnouncedWithRules == SafetySpec => []AnnouncedHasRules
<1>1. Inv => AnnouncedHasRules
  BY DEF Inv, RulesInv
<1> QED
  BY <1>1, Invariant, PTL

\* m_active_data_plane_sessions never drifts: the main loop adds one for each
\* stage it announced and CollectGlobalStatistics takes one off for each it lost.
THEOREM ActiveCountExact == SafetySpec => []ActiveCounted
<1>1. Inv => ActiveCounted
  BY DEF Inv, CountInv
<1> QED
  BY <1>1, Invariant, PTL

\* handle_data_plane_sessions and the handlers never hold the session of the
\* same stage, although the maps that hand it over are used without a lock.
THEOREM NoSessionShared == SafetySpec => []SessionHandedOver
<1>1. Inv => SessionHandedOver
  <2> SUFFICES ASSUME Inv, main.pc \in {"submitting", "answers", "ready", "announcing"}
               PROVE  main.stage \notin data_sessions_ \cup Moving \cup core.tracked \cup ToSet(core.queue)
    BY DEF SessionHandedOver
  <2>1. main.stage \notin announced
    BY DEF Inv, MainInv, InPreparation
  <2>2. /\ data_sessions_ \subseteq announced /\ ToSet(core.queue) \subseteq announced
        /\ call.name \in {"extract", "insert"} => call.at \in announced
        /\ core.tracked \ core.former = data_sessions_
              \cup (IF call.name \in {"extract", "insert"} THEN {call.at} ELSE {})
    BY DEF Inv, CallInv
  <2>3. Moving \subseteq announced
    BY <2>2 DEF Moving
  <2>4. main.stage \in Stages
    BY Roles DEF Inv, MainInv
  <2>5. main.stage \notin core.former
    BY <2>4, OldStagesAssumption DEF Inv, TypeOK, CoreType
  <2> QED
    BY <2>1, <2>2, <2>3, <2>5
<1> QED
  BY <1>1, Invariant, PTL

\* Every answer of a session is taken by the call that asked for it: none is left
\* to be taken for the answer of the next call.
THEOREM NoAnswerLeft == SafetySpec => []AnswersConsumed
<1>1. Inv => AnswersConsumed
  <2> SUFFICES ASSUME Inv, call = Idle, NEW s \in data_sessions_ PROVE Quiet(s)
    BY DEF AnswersConsumed, Quiet
  <2>1. CallUses = {}
    BY DEF CallUses, Idle
  <2>2. s \in Stages /\ s \notin MainUses
    BY Roles
  <2> QED
    BY <2>1, <2>2 DEF Inv, UseInv
<1> QED
  BY <1>1, Invariant, PTL

\* execute_feedback_loop calls _exit only when every stage that was announced is
\* found lost or has no session.
THEOREM ExitIsLast == SafetySpec => []ExitAbandonsNoStage
<1>1. Inv => ExitAbandonsNoStage
  BY DEF Inv, EndInv
<1> QED
  BY <1>1, Invariant, PTL

\* No answer is cast to a type it has not, and LocalPassthru finds a session for
\* every stage that this process announced: the process crashes only over the
\* vector of rules, or when it is sent a rate for a stage of the process that ran
\* at its address before.
THEOREM SessionsFound == SafetySpec => []NoNullSession
<1>1. Inv => NoNullSession
  BY DEF Inv, EndInv
<1> QED
  BY <1>1, Invariant, PTL

\* A write to a managed stage that is gone raises SIGPIPE only under the control
\* type DYNAMIC_LEFTOVER, at the end of a cycle that asked this local controller
\* for no statistics: otherwise the first request that a managed stage gets is a
\* collection, which ignores the signal.
THEOREM OnlyPreparedStagesKill == SafetySpec => []ManagedStageNeverKills
<1>1. Inv => ManagedStageNeverKills
  BY DEF Inv, EndInv
<1> QED
  BY <1>1, Invariant, PTL

-------------------------------------------------------------------------------
(* The refinement of StageRegistry.                                           *)

Arrived == {s \in Stages : stage[s] \notin {"absent", "connecting"}}
NotYetManaged == announced \cap (preparing_data_sessions_ \cup Moving)
Past == Arrived \ (ToSet(pending_data_sessions_) \cup {Taken} \cup data_sessions_ \cup NotYetManaged)

LEMMA RegistryKnown ==
    Registry!Known = ToSet(pending_data_sessions_) \cup {Taken} \cup NotYetManaged
                        \cup data_sessions_ \cup Past
<1>1. Registry!ToSet(pending_data_sessions_) = ToSet(pending_data_sessions_)
  BY DEF Registry!ToSet, ToSet
<1> QED
  BY <1>1 DEF Registry!Known, NotYetManaged, Past, Arrived

\* Where a stage is, for the registry: in one place only.
LEMMA Places ==
    ASSUME Inv
    PROVE  /\ NoStage \notin Stages /\ announced \subseteq Arrived
           /\ data_sessions_ \subseteq announced \ preparing_data_sessions_
           /\ ToSet(pending_data_sessions_) \subseteq Arrived \ announced
           /\ Taken # NoStage => /\ Taken \in Arrived /\ Taken \notin announced
                                 /\ Taken \notin ToSet(pending_data_sessions_)
           /\ Taken = NoStage <=> main.pc \in {"first", "loop", "active", "counting"}
           /\ main.pc # "counting" => Taken = main.stage
<1> USE DEF Inv, TypeOK
<1>1. announced \subseteq Arrived
  BY DEF FreshInv, Fresh, Arrived, StageType
<1>2. data_sessions_ \subseteq announced \ preparing_data_sessions_
  BY DEF CallInv
<1>3. ToSet(pending_data_sessions_) \subseteq Arrived \ announced
  <2>1. ToSet(pending_data_sessions_) \subseteq Stages
    BY DEF ToSet, CountType
  <2> QED
    BY <2>1 DEF WaitingInv, Arrived, FreshInv, Fresh
<1>4. /\ Taken = NoStage <=> main.pc \in {"first", "loop", "active", "counting"}
      /\ main.pc # "counting" => Taken = main.stage
  BY DEF Taken, MainInv
<1>5. Taken # NoStage => /\ Taken \in Arrived /\ Taken \notin announced
                         /\ Taken \notin ToSet(pending_data_sessions_)
  <2> SUFFICES ASSUME Taken # NoStage
               PROVE  /\ Taken \in Arrived /\ Taken \notin announced
                      /\ Taken \notin ToSet(pending_data_sessions_)
    OBVIOUS
  <2>1. Taken = main.stage /\ main.stage \in Stages
    BY <1>4, Roles
  <2>2. main.pc = "handshake" \/ main.pc \in InPreparation
    BY <1>4 DEF MainType, InPreparation
  <2> QED
    BY <2>1, <2>2, Roles DEF WaitingInv, Arrived, MainInv, FreshInv, Fresh
<1> QED
  BY <1>1, <1>2, <1>3, <1>4, <1>5, NoStageAssumption

\* A step that does not touch what the registry sees.
LEMMA Stutter ==
    ASSUME UNCHANGED <<pending_data_sessions_, Taken, NotYetManaged, data_sessions_, Arrived>>
    PROVE  UNCHANGED Registry!vars
<1>1. UNCHANGED Past
  BY DEF Past
<1> QED
  BY <1>1 DEF Registry!vars, NotYetManaged, Past, Arrived

\* The stage that is being prepared leaves, for the core controller or for good.
LEMMA StageLeaves ==
    ASSUME Inv, Taken # NoStage, Taken' = NoStage,
           UNCHANGED <<pending_data_sessions_, data_sessions_, Arrived>>,
           \/ NotYetManaged' = NotYetManaged \cup {Taken}
           \/ UNCHANGED NotYetManaged
    PROVE  Registry!Announce \/ Registry!SetAside
<1> DEFINE rest == ToSet(pending_data_sessions_) \cup data_sessions_ \cup NotYetManaged
<1>1. Taken \in Arrived /\ Taken \notin rest /\ NoStage \notin Arrived
  BY Places DEF NotYetManaged, Arrived
<1>2. CASE NotYetManaged' = NotYetManaged \cup {Taken}
  <2>1. Past' = Past
    BY <1>1, <1>2 DEF Past
  <2> QED
    BY <1>2, <2>1 DEF Registry!Announce, NotYetManaged, Past, Arrived
<1>3. CASE UNCHANGED NotYetManaged
  <2>1. Past' = Past \cup {Taken}
    BY <1>1, <1>3 DEF Past
  <2> QED
    BY <1>3, <2>1 DEF Registry!SetAside, NotYetManaged, Past, Arrived
<1> QED
  BY <1>2, <1>3

LEMMA EnvironmentRefines ==
    ASSUME Inv, Environment \/ CoreCalls \/ CallMarkStageReady
    PROVE  UNCHANGED Registry!vars
<1>1. UNCHANGED <<pending_data_sessions_, main, announced, preparing_data_sessions_, data_sessions_>>
  BY DEF Environment, CoreStops, StageStarts, StageDies, CoreCalls, CallLocalHandshake,
         CallCollectGlobalStatistics, CallCreateEnforcementRule, CallMarkStageReady,
         stageVars, sessionVars, countVars, history
<1>2. UNCHANGED Moving
  <2>1. \/ UNCHANGED call
        \/ call = Idle /\ call'.name \in {"idle", "handshake", "collect", "enforce", "extract"}
    BY DEF Environment, CoreStops, StageStarts, StageDies, CoreCalls, CallLocalHandshake,
           CallCollectGlobalStatistics, CallCreateEnforcementRule, EndEnforcement,
           CallMarkStageReady, Idle
  <2> QED
    BY <2>1 DEF Moving, Idle
<1>3. UNCHANGED Arrived
  <2>1. UNCHANGED stage \/ \E s \in Stages : stage[s] = "absent" /\ stage' = [stage EXCEPT ![s] = "connecting"]
    BY DEF Environment, CoreStops, StageStarts, StageDies, CoreCalls, CallLocalHandshake,
           CallCollectGlobalStatistics, CallCreateEnforcementRule, CallMarkStageReady,
           stageVars
  <2> QED
    BY <2>1 DEF Arrived, Inv, TypeOK, StageType
<1> QED
  BY <1>1, <1>2, <1>3, Stutter DEF Taken, NotYetManaged

LEMMA MainRefines ==
    ASSUME Inv, Main
    PROVE  Registry!Take \/ Registry!Announce \/ Registry!SetAside \/ UNCHANGED Registry!vars
<1>1. UNCHANGED <<data_sessions_, call, stage>>
  BY DEF Main, LoopCondition, TakeStage, CreateSession, EndHandshake, SubmitRules,
         ReadRuleAnswer, CheckRules, ReadReadyAnswer, AnnounceStage, CountActive,
         stageVars, sessionVars
<1>2. UNCHANGED <<Moving, Arrived>>
  BY <1>1 DEF Moving, Arrived
<1>3. CASE TakeStage
  <2>1. /\ Taken = NoStage /\ pending_data_sessions_ # <<>>
        /\ pending_data_sessions_' = Tail(pending_data_sessions_)
        /\ Taken' = Head(pending_data_sessions_)
        /\ UNCHANGED <<announced, preparing_data_sessions_>>
    BY <1>3, Places DEF TakeStage, Taken, Inv, TypeOK, MainType, history, sessionVars
  <2>2. /\ pending_data_sessions_ \in Seq(Stages) /\ Once(pending_data_sessions_)
    BY DEF Inv, TypeOK, CountType, WaitingInv
  <2>3. /\ Taken' \in ToSet(pending_data_sessions_)
        /\ ToSet(pending_data_sessions_') = ToSet(pending_data_sessions_) \ {Taken'}
    BY <2>1, <2>2, TailOnce
  <2>4. UNCHANGED NotYetManaged
    BY <1>2, <2>1 DEF NotYetManaged
  <2>5. UNCHANGED Past
    <3>1. NoStage \notin Arrived
      BY NoStageAssumption DEF Arrived
    <3> QED
      BY <1>1, <1>2, <2>1, <2>3, <2>4, <3>1 DEF Past
  <2> QED
    BY <1>1, <2>1, <2>4, <2>5 DEF Registry!Take, NotYetManaged, Past, Arrived
<1>4. CASE CreateSession
  <2>1. UNCHANGED <<pending_data_sessions_, announced, Taken>> /\ main.pc = "handshake"
    BY <1>4 DEF CreateSession, Taken, Inv, TypeOK, MainType, countVars, history
  <2>2. main.stage \notin announced /\ NoStage \notin announced
    BY <2>1, Places, Roles
  <2>3. UNCHANGED NotYetManaged
    BY <1>2, <1>4, <2>1, <2>2 DEF NotYetManaged, CreateSession
  <2> QED
    BY <1>1, <1>2, <2>1, <2>3, Stutter
<1>5. CASE LoopCondition \/ EndHandshake \/ SubmitRules \/ ReadRuleAnswer \/ ReadReadyAnswer \/ CountActive
  <2>1. UNCHANGED <<pending_data_sessions_, announced, preparing_data_sessions_>>
    BY <1>5 DEF LoopCondition, EndHandshake, SubmitRules, ReadRuleAnswer, ReadReadyAnswer,
           CountActive, countVars, history, sessionVars
  <2>2. main' = main \/ main' = AtLoop \/ (main'.stage = main.stage /\ main'.pc # "counting" /\ main.pc # "counting")
    BY <1>5 DEF LoopCondition, EndHandshake, SubmitRules, ReadRuleAnswer, RuleAnswered,
           ReadReadyAnswer, CountActive, Inv, TypeOK, MainType
  <2>3. main' = main \/ main'.pc # "loop" \/ Taken = NoStage
    <3>1. CASE LoopCondition \/ CountActive
      BY <3>1, Places DEF LoopCondition, CountActive
    <3>2. CASE EndHandshake \/ SubmitRules \/ ReadRuleAnswer \/ ReadReadyAnswer
      BY <3>2 DEF EndHandshake, SubmitRules, ReadRuleAnswer, RuleAnswered,
             ReadReadyAnswer, Inv, TypeOK, MainType
    <3> QED
      BY <1>5, <3>1, <3>2
  <2>4. UNCHANGED Taken
    BY <2>2, <2>3 DEF Taken, AtLoop
  <2> QED
    BY <1>1, <1>2, <2>1, <2>4, Stutter DEF NotYetManaged
<1>6. CASE CheckRules
  <2>1. /\ UNCHANGED <<pending_data_sessions_, announced>> /\ main.pc = "answers"
        /\ Taken = main.stage /\ Taken # NoStage
    BY <1>6, Places DEF CheckRules, countVars, history
  <2>2. CASE SubmitStageReady(main.stage) /\ main' = [main EXCEPT !.pc = "ready"] /\ UNCHANGED preparing_data_sessions_
    <3>1. UNCHANGED Taken
      BY <2>1, <2>2 DEF Taken, Inv, TypeOK, MainType
    <3> QED
      BY <1>1, <1>2, <2>1, <2>2, <3>1, Stutter DEF NotYetManaged
  <2>3. CASE Reject(main.stage)
    <3>1. Taken' = NoStage /\ preparing_data_sessions_' = preparing_data_sessions_ \ {Taken}
      BY <2>1, <2>3 DEF Reject, Taken, AtLoop
    <3>2. UNCHANGED NotYetManaged
      BY <1>2, <2>1, <3>1, Places DEF NotYetManaged
    <3> QED
      BY <1>1, <1>2, <2>1, <3>1, <3>2, StageLeaves
  <2> QED
    BY <1>6, <2>2, <2>3 DEF CheckRules
<1>7. CASE AnnounceStage
  <2>1. /\ UNCHANGED <<pending_data_sessions_, preparing_data_sessions_>> /\ main.pc = "announcing"
        /\ Taken = main.stage /\ Taken # NoStage /\ Taken \in preparing_data_sessions_
    BY <1>7, Places DEF AnnounceStage, countVars, sessionVars, Inv, MainInv, WithSession, InPreparation
  <2>2. Taken' = NoStage
    BY <1>7 DEF AnnounceStage, NotAnnounced, AtLoop, Taken, Inv, TypeOK, MainType
  <2>3. announced' = announced \cup {Taken} \/ UNCHANGED announced
    BY <1>7, <2>1 DEF AnnounceStage
  <2>4. NotYetManaged' = NotYetManaged \cup {Taken} \/ UNCHANGED NotYetManaged
    BY <1>2, <2>1, <2>3 DEF NotYetManaged
  <2> QED
    BY <1>1, <1>2, <2>1, <2>2, <2>4, StageLeaves
<1> QED
  BY <1>3, <1>4, <1>5, <1>6, <1>7 DEF Main

LEMMA HandlerRefines ==
    ASSUME Inv, Handler
    PROVE  (\E s \in Stages : Registry!Manage(s) \/ Registry!GiveUp(s)) \/ UNCHANGED Registry!vars
<1>1. UNCHANGED <<pending_data_sessions_, main, announced, stage>>
  BY DEF Handler, LocalHandshake, ExtractStage, InsertStage, EndCollect, NextEnforcement,
         LocalPassthru, EnforcementAnswer, CollectAnswer, RemoveLost, stageVars, countVars, history
<1>2. UNCHANGED <<Taken, Arrived>>
  BY <1>1 DEF Taken, Arrived
<1>3. CASE InsertStage
  <2> DEFINE c == call.at
  <2>1. /\ call.name = "insert" /\ c \in announced /\ c \in Stages /\ c # NoStage
        /\ c \notin preparing_data_sessions_ /\ call' = Idle
        /\ data_sessions_' = data_sessions_ \cup {c} /\ UNCHANGED preparing_data_sessions_
    BY <1>3, Places, Roles DEF InsertStage, Inv, CallInv
  <2>2. Moving = {c} /\ Moving' = {}
    BY <2>1 DEF Moving, Idle
  <2> HIDE DEF c
  <2>3. c \in NotYetManaged /\ NotYetManaged' = NotYetManaged \ {c}
    BY <1>1, <2>1, <2>2 DEF NotYetManaged
  <2>4. UNCHANGED Past
    BY <1>1, <1>2, <2>1, <2>3 DEF Past
  <2>5. Registry!Manage(c)
    BY <1>1, <1>2, <2>1, <2>3, <2>4 DEF Registry!Manage, NotYetManaged, Past, Arrived
  <2> QED
    BY <2>1, <2>5
<1>4. ASSUME NEW s \in Stages, RemoveLost(s)
      PROVE  Registry!GiveUp(s)
  <2>1. /\ call.name = "collect" /\ s \in data_sessions_ /\ call'.name = "collect"
        /\ data_sessions_' = data_sessions_ \ {s} /\ UNCHANGED preparing_data_sessions_
    BY <1>4 DEF RemoveLost, Inv, CallInv, TypeOK, CallType
  <2>2. Moving = {} /\ Moving' = {}
    BY <2>1 DEF Moving
  <2>3. UNCHANGED NotYetManaged
    BY <1>1, <2>1, <2>2 DEF NotYetManaged
  <2>4. /\ s \in Arrived /\ s \notin ToSet(pending_data_sessions_) /\ s \notin NotYetManaged
        /\ s # Taken
    BY <2>1, <2>2, Places, NoStageAssumption DEF NotYetManaged
  <2>5. Past' = Past \cup {s}
    BY <1>1, <1>2, <2>1, <2>3, <2>4 DEF Past
  <2> QED
    BY <1>1, <1>2, <2>1, <2>3, <2>5 DEF Registry!GiveUp, NotYetManaged, Past, Arrived
<1>5. CASE ExtractStage
  <2>1. /\ call.name = "extract" /\ call.at \in announced \cap preparing_data_sessions_
        /\ call'.name = "insert" /\ call'.at = call.at /\ call.at \in Stages
        /\ preparing_data_sessions_' = preparing_data_sessions_ \ {call.at}
        /\ UNCHANGED data_sessions_
    BY <1>5, Roles DEF ExtractStage, TakeNode, Inv, CallInv, TypeOK, CallType
  <2>2. Moving = {} /\ Moving' = {call.at}
    BY <2>1, NoStageAssumption DEF Moving
  <2>3. UNCHANGED NotYetManaged
    BY <1>1, <2>1, <2>2 DEF NotYetManaged
  <2> QED
    BY <1>1, <1>2, <2>1, <2>3, Stutter
<1>6. CASE \/ LocalHandshake \/ EndCollect \/ NextEnforcement \/ LocalPassthru
           \/ EnforcementAnswer \/ \E s \in Stages : CollectAnswer(s)
  <2>1. UNCHANGED <<data_sessions_, preparing_data_sessions_>>
    BY <1>6 DEF LocalHandshake, EndCollect, NextEnforcement, LocalPassthru,
           EnforcementAnswer, CollectAnswer, sessionVars
  <2>2. call.name # "insert"
    BY <1>6 DEF LocalHandshake, EndCollect, NextEnforcement, LocalPassthru,
           EnforcementAnswer, CollectAnswer
  <2>3. call'.name # "insert"
    <3>1. CASE LocalHandshake \/ EndCollect
      BY <2>2, <3>1 DEF LocalHandshake, EndCollect, Idle
    <3>2. CASE NextEnforcement
      <4>1. CASE call' = Idle
        BY <4>1 DEF Idle
      <4>2. ASSUME NEW s \in call.todo,
                   call' = [call EXCEPT !.todo = @ \ {s}, !.at = s, !.left = Channels]
            PROVE  call'.name # "insert"
        <5>1. call'.name = call.name
          BY <4>2 DEF Inv, TypeOK, CallType
        <5> QED
          BY <2>2, <5>1
      <4> QED
        BY <3>2, <4>1, <4>2 DEF NextEnforcement, EndEnforcement
    <3>3. CASE LocalPassthru
      BY <2>2, <3>3 DEF LocalPassthru, Inv, TypeOK, CallType
    <3>4. CASE EnforcementAnswer
      <4>1. CASE call' = Idle
        BY <4>1 DEF Idle
      <4>2. CASE call' = [call EXCEPT !.name = "enforce", !.left = @ - 1]
        BY <4>2 DEF Inv, TypeOK, CallType
      <4> QED
        BY <3>4, <4>1, <4>2 DEF EnforcementAnswer, EndEnforcement
    <3>5. CASE \E s \in Stages : CollectAnswer(s)
      BY <2>2, <3>5 DEF CollectAnswer, Inv, TypeOK, CallType
    <3> QED
      BY <1>6, <3>1, <3>2, <3>3, <3>4, <3>5
  <2>4. UNCHANGED NotYetManaged
    BY <1>1, <2>1, <2>2, <2>3 DEF NotYetManaged, Moving
  <2> QED
    BY <1>1, <1>2, <2>1, <2>4, Stutter
<1> QED
  BY <1>3, <1>4, <1>5, <1>6 DEF Handler

LEMMA ThreadsRefine ==
    ASSUME Inv, \/ HandshakeSend \/ CountPending
                \/ \E s \in Stages : AcceptStage(s) \/ StageConnects(s) \/ SessionSend(s)
    PROVE  (\E s \in Stages : Registry!Connect(s)) \/ UNCHANGED Registry!vars
<1>1. UNCHANGED <<main, announced, preparing_data_sessions_, data_sessions_, call>>
  BY DEF HandshakeSend, CountPending, AcceptStage, StageConnects, SessionSend,
         sessionVars, countVars, history
<1>2. UNCHANGED <<Taken, NotYetManaged>>
  BY <1>1 DEF Taken, NotYetManaged, Moving
<1>3. CASE HandshakeSend \/ CountPending \/ \E s \in Stages : StageConnects(s) \/ SessionSend(s)
  <2>1. /\ UNCHANGED pending_data_sessions_
        /\ \/ UNCHANGED stage
           \/ stage' = [stage EXCEPT ![main.stage] = "addressed"]
           \/ \E s \in Stages : stage[s] = "addressed" /\ stage' = [stage EXCEPT ![s] = "connected"]
    BY <1>3 DEF HandshakeSend, CountPending, StageConnects, SessionSend, stageVars, countVars
  <2>2. UNCHANGED Arrived
    <3>1. main.stage \in Stages => main.stage \in Arrived
      BY NoStageAssumption DEF Inv, WaitingInv, Arrived
    <3> QED
      BY <2>1, <3>1 DEF Arrived, Inv, TypeOK, StageType
  <2> QED
    BY <1>1, <1>2, <2>1, <2>2, Stutter
<1>4. ASSUME NEW s \in Stages, AcceptStage(s)
      PROVE  Registry!Connect(s)
  <2>1. /\ s \notin Arrived /\ Arrived' = Arrived \cup {s}
        /\ pending_data_sessions_' = Append(pending_data_sessions_, s)
        /\ pending_data_sessions_ \in Seq(Stages)
    BY <1>4 DEF AcceptStage, Arrived, Inv, TypeOK, StageType, CountType
  <2>2. ToSet(pending_data_sessions_') = ToSet(pending_data_sessions_) \cup {s}
    BY <2>1, AppendToSet
  <2>3. s \notin Registry!Known
    <3>1. s # Taken /\ s \notin announced \cup data_sessions_ \cup ToSet(pending_data_sessions_)
      BY <2>1, Places, NoStageAssumption
    <3> QED
      BY <2>1, <3>1, RegistryKnown DEF NotYetManaged, Past
  <2>4. UNCHANGED Past
    BY <1>1, <1>2, <2>1, <2>2 DEF Past
  <2> QED
    BY <1>1, <1>2, <2>1, <2>3, <2>4 DEF Registry!Connect, NotYetManaged, Past, Arrived
<1> QED
  BY <1>3, <1>4

\* The threads, the handlers and the main loop together keep the promises of
\* StageRegistry: stages are taken in the order in which they connected, each is
\* announced or set aside, managed only after the core said so, and given up only
\* once it is managed and lost.
THEOREM LocalControlImplementsRegistry == SafetySpec => ImplementsRegistry
<1>1. Init => Registry!Init
  <2> SUFFICES ASSUME Init PROVE Registry!Init
    OBVIOUS
  <2>1. /\ pending_data_sessions_ = <<>> /\ data_sessions_ = {} /\ NotYetManaged = {}
        /\ Taken = NoStage
    BY DEF Init, NotYetManaged, Taken, AtLoop
  <2>2. Past = {}
    BY DEF Init, Past, Arrived
  <2> QED
    BY <2>1, <2>2 DEF Registry!Init, NotYetManaged, Past, Arrived
<1>2. Inv /\ [Next]_vars => [Registry!Next]_(Registry!vars)
  <2> SUFFICES ASSUME Inv, [Next]_vars PROVE Registry!Next \/ UNCHANGED Registry!vars
    OBVIOUS
  <2>1. CASE Environment \/ CoreCalls \/ CallMarkStageReady
    BY <2>1, EnvironmentRefines
  <2>2. CASE Main
    BY <2>2, MainRefines DEF Registry!Next
  <2>3. CASE Handler
    BY <2>3, HandlerRefines DEF Registry!Next
  <2>4. CASE \/ HandshakeSend \/ CountPending
             \/ \E s \in Stages : AcceptStage(s) \/ StageConnects(s) \/ SessionSend(s)
    BY <2>4, ThreadsRefine DEF Registry!Next
  <2>5. CASE UNCHANGED vars
    <3>1. UNCHANGED <<Taken, NotYetManaged, Arrived, pending_data_sessions_, data_sessions_>>
      BY <2>5 DEF vars, stageVars, sessionVars, countVars, history, Taken, NotYetManaged,
             Moving, Arrived
    <3> QED
      BY <3>1, Stutter
  <2> QED
    BY <2>1, <2>2, <2>3, <2>4, <2>5 DEF Next
<1> QED
  BY <1>1, <1>2, Invariant, PTL DEF SafetySpec, ImplementsRegistry, Registry!Spec

===============================================================================
