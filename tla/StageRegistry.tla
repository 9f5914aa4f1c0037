---------------------------- MODULE StageRegistry ----------------------------
(* What the local controller promises about the data plane stages of its     *)
(* node, without threads, sessions or messages: stages are taken in the order *)
(* in which they connected, one at a time; each is announced to the core      *)
(* controller or set aside; an announced stage is managed once the core says  *)
(* so, and a managed stage is only given up when it is lost.                  *)
EXTENDS FiniteSets, Sequences, SequencesExt

CONSTANTS
    Stages,     \* the data plane stages
    NoStage     \* no stage is being prepared; not one of Stages

VARIABLES
    waiting,    \* stages that connected and were not taken yet, in order
    current,    \* the stage that is being prepared
    announced,  \* stages announced to the core controller, not yet managed
    managed,    \* stages that take part in the core's control cycles
    past        \* stages that were set aside or given up

vars == <<waiting, current, announced, managed, past>>

Known == ToSet(waiting) \cup {current} \cup announced \cup managed \cup past

Init ==
    /\ waiting = <<>>
    /\ current = NoStage
    /\ announced = {}
    /\ managed = {}
    /\ past = {}

Connect(s) ==
    /\ s \notin Known
    /\ waiting' = Append(waiting, s)
    /\ UNCHANGED <<current, announced, managed, past>>

Take ==
    /\ current = NoStage
    /\ waiting # <<>>
    /\ current' = Head(waiting)
    /\ waiting' = Tail(waiting)
    /\ UNCHANGED <<announced, managed, past>>

Announce ==
    /\ current # NoStage
    /\ announced' = announced \cup {current}
    /\ current' = NoStage
    /\ UNCHANGED <<waiting, managed, past>>

SetAside ==
    /\ current # NoStage
    /\ past' = past \cup {current}
    /\ current' = NoStage
    /\ UNCHANGED <<waiting, announced, managed>>

Manage(s) ==
    /\ s \in announced
    /\ announced' = announced \ {s}
    /\ managed' = managed \cup {s}
    /\ UNCHANGED <<waiting, current, past>>

GiveUp(s) ==
    /\ s \in managed
    /\ managed' = managed \ {s}
    /\ past' = past \cup {s}
    /\ UNCHANGED <<waiting, current, announced>>

Next ==
    \/ Take
    \/ Announce
    \/ SetAside
    \/ \E s \in Stages : Connect(s) \/ Manage(s) \/ GiveUp(s)

Spec == Init /\ [][Next]_vars
===============================================================================
