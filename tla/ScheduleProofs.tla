--------------------------- MODULE ScheduleProofs ---------------------------
(***************************************************************************)
(* Proofs about Schedule, for every schedule, any length of a wait and any *)
(* number of snapshots the GUI thread may be behind.                       *)
(***************************************************************************)
EXTENDS Schedule, ControllerProofs, SequenceTheorems

-----------------------------------------------------------------------------
(* Types                                                                    *)

Snapshots ==
  [state : States, target : Int, reading : Reading \cup {None}, reduced : BOOLEAN]

\* A tick begins only with room for its snapshot, and leaves one behind when it ends.
InboxHasRoom ==
  /\ inbox \in Seq(Snapshots)
  /\ Len(inbox) <= MaxInbox
  /\ pc # "idle" => Len(inbox) < MaxInbox

\* A running schedule is at one of its steps.
RunnerTyped ==
  /\ status \in Statuses
  /\ index \in 1..Len(Steps) + 1
  /\ status = "RUNNING" => index \in 1..Len(Steps)
  /\ issued \in BOOLEAN
  /\ waited \in 0..WaitTicks - 1

ScheduleTyped == TypeInv /\ InboxHasRoom /\ RunnerTyped

\* What a snapshot takes from the controller.
LEMMA SnapshotType == TypeInv => Snapshot \in Snapshots
BY DEF TypeInv, TypeOK, IntentTypeOK, TickTypeOK, Snapshot, Snapshots

\* A tick goes from one place to the next until it ends.
LEMMA PlaceMoves ==
  Next => \/ pc' = pc
          \/ BeginTick
          \/ pc # "idle" /\ (Locked' \/ pc' = "idle")
<1>. SUFFICES ASSUME Next, ~BeginTick, pc' # pc PROVE pc # "idle" /\ (Locked' \/ pc' = "idle")
  OBVIOUS
<1>1. CASE Evaluate
  BY <1>1 DEF Evaluate, Locked
<1>2. CASE Decides
  BY <1>2, DecidesEffect DEF Locked
<1>3. CASE WriteSetpoint \/ WriteUnanswered
  BY <1>3, WriteEffect DEF Locked
<1>4. CASE ReconcileStop \/ ReconcileResume \/ WriteMode
  BY <1>4, ReconcileEffect DEF Locked
<1>5. CASE Operator
  BY <1>5 DEF Operator, Pause, Abort, Quit, EmergencyStop, AbandonStep, Resume, Reset,
              SetUserTarget, Configure, ConfirmStop, operator, tick
<1>6. CASE Environment
  BY <1>6 DEF Environment, tick
<1>. QED
  BY <1>1, <1>2, <1>3, <1>4, <1>5, <1>6, NextCases

\* The target of the step the schedule is at.
LEMMA CurrentTarget ==
  ASSUME RunnerTyped, status = "RUNNING", Current.kind = "set" PROVE Current.target \in Int
<1>1. Current \in Step
  BY ScheduleAssumption, ElementOfSeq DEF ScheduleAssumption, RunnerTyped, Current
<1>. QED
  BY <1>1 DEF Step

\* The schedule's set_target() is typed like the operator's.
LEMMA TypeIssue ==
  ASSUME TypeInv, RunnerTyped, NEW snap, IssueTarget(snap) PROVE TypeInv'
<1>. DEFINE t == Current.target
<1>1. t \in Int
  BY CurrentTarget DEF IssueTarget, Active
<1>2. /\ userTarget' = t
      /\ LowerTarget(t) \/ MoveTarget(t)
      /\ UNCHANGED <<device, ceiling, priorState, sensed, resumeGrace, tick, quitting, started>>
  BY DEF IssueTarget
<1>. HIDE DEF t
<1>3. DeviceTypeOK' /\ SafetyTypeOK'
  BY <1>2, DeviceUntouched, SafetyUntouched, SupervisorType
     DEF TypeInv, TypeOK, LowerTarget, MoveTarget
<1>4. IntentTypeOK'
  <2>1. CASE LowerTarget(t)
    <3>1. state' \in States
      BY <2>1 DEF LowerTarget, TypeInv, TypeOK, IntentTypeOK, States
    <3>2. resumeFloor' \in Int
      BY <2>1 DEF LowerTarget, Larger, TypeInv, TypeOK, IntentTypeOK
    <3>. QED
      BY <1>1, <1>2, <2>1, <3>1, <3>2
         DEF LowerTarget, Abandon, AbandonMotion, EndRateHold, TypeInv, TypeOK, IntentTypeOK
  <2>2. CASE MoveTarget(t)
    BY <1>1, <1>2, <2>2 DEF MoveTarget, TypeInv, TypeOK, IntentTypeOK, motion
  <2>. QED
    BY <1>2, <2>1, <2>2
<1>5. op' \in OpPlaces
  BY <1>2 DEF LowerTarget, MoveTarget, TypeInv, TypeOK, TickTypeOK, OpPlaces
<1>6. TickTypeOK' /\ CarriesOver'
  BY <1>2, <1>5 DEF TypeInv, TypeOK, TickTypeOK, CarriesOver, sensed, tick, InControl,
                    Connected, ShowsMode
<1>. QED
  BY <1>3, <1>4, <1>6 DEF TypeInv, TypeOK

\* A snapshot is taken from the head of the queue, in one of the ways of on_tick().
LEMMA Received ==
  OnTick => LET snap == Head(inbox)
            IN  /\ inbox # <<>> /\ inbox' = Tail(inbox)
                /\ \/ Ignore(snap) \/ Aborts(snap) \/ Freezes(snap) \/ Errs(snap)
                   \/ IssueTarget(snap) \/ AwaitTarget(snap) \/ Wait(snap)
BY DEF OnTick, Receive

\* All that on_tick() can do to the controller is to set the target.
LEMMA OnTickEffect ==
  OnTick => /\ inbox # <<>> /\ inbox' = Tail(inbox)
            /\ UNCHANGED vars \/ IssueTarget(Head(inbox))
<1>. SUFFICES ASSUME OnTick PROVE UNCHANGED vars \/ IssueTarget(Head(inbox))
  BY Received
<1>. DEFINE snap == Head(inbox)
<1>1. CASE Ignore(snap) \/ Aborts(snap) \/ Freezes(snap) \/ Errs(snap)
  BY <1>1 DEF Ignore, Aborts, Freezes, Errs
<1>2. CASE AwaitTarget(snap) \/ Wait(snap)
  BY <1>2 DEF AwaitTarget, Wait, Advance
<1>. QED
  BY <1>1, <1>2, Received

\* The controller's part of the types.
LEMMA ControllerTypeStep == ScheduleTyped /\ [ScheduleNext]_svars => TypeInv'
<1>. SUFFICES ASSUME ScheduleTyped, [ScheduleNext]_svars PROVE TypeInv'
  OBVIOUS
<1>1. CASE Next \/ UNCHANGED vars
  BY <1>1, TypeStep DEF ScheduleTyped
<1>2. CASE \E snap : IssueTarget(snap)
  BY <1>2, TypeIssue DEF ScheduleTyped
<1>3. CASE OnTick
  BY <1>1, <1>2, <1>3, OnTickEffect
<1>. QED
  BY <1>1, <1>3 DEF ScheduleNext, ControllerStep, StartSchedule, StopSchedule, svars

\* The set_target() of a schedule finds no tick in progress, and starts none.
LEMMA OnTickPlace == OnTick => UNCHANGED pc
BY OnTickEffect DEF IssueTarget, vars, tick

\* A tick in progress is the one the free place in the queue is for.
LEMMA InboxStep == ScheduleTyped /\ [ScheduleNext]_svars => InboxHasRoom'
<1>. SUFFICES ASSUME ScheduleTyped, [ScheduleNext]_svars PROVE InboxHasRoom'
  OBVIOUS
<1>. USE DEF ScheduleTyped, InboxHasRoom
<1>0. Len(inbox) \in Nat /\ MaxInbox \in Nat
  BY ScheduleAssumption, LenProperties DEF ScheduleAssumption
<1>1. CASE UNCHANGED <<inbox, pc>>
  BY <1>1
<1>2. CASE ControllerStep /\ TickEnds
  <2>1. Snapshot' \in Snapshots
    <3>1. TypeInv'
      BY ControllerTypeStep
    <3>. QED
      BY <3>1 DEF TypeInv, TypeOK, IntentTypeOK, TickTypeOK, Snapshot, Snapshots
  <2>2. inbox' = Append(inbox, Snapshot')
    BY <1>2 DEF ControllerStep
  <2>3. inbox' \in Seq(Snapshots) /\ Len(inbox') = Len(inbox) + 1
    BY <2>1, <2>2, AppendProperties
  <2>4. pc # "idle" /\ pc' = "idle"
    BY <1>2, PlaceMoves DEF ControllerStep, TickEnds, Locked, BeginTick
  <2>. QED
    BY <1>0, <2>3, <2>4
<1>3. CASE ControllerStep /\ ~TickEnds
  <2>1. inbox' = inbox
    BY <1>3 DEF ControllerStep
  <2>2. pc' # "idle" => Len(inbox) < MaxInbox
    BY <1>3, PlaceMoves DEF ControllerStep
  <2>. QED
    BY <2>1, <2>2
<1>4. CASE OnTick
  <2>1. inbox # <<>> /\ inbox' = Tail(inbox) /\ pc' = pc
    BY <1>4, OnTickEffect, OnTickPlace
  <2>2. inbox' \in Seq(Snapshots) /\ Len(inbox') = Len(inbox) - 1
    BY <2>1, HeadTailProperties
  <2>. QED
    BY <1>0, <2>1, <2>2
<1>5. CASE StartSchedule \/ StopSchedule \/ UNCHANGED svars
  BY <1>1, <1>5 DEF StartSchedule, StopSchedule, svars, vars, tick
<1>. QED
  BY <1>2, <1>3, <1>4, <1>5 DEF ScheduleNext

\* _advance() ends a running schedule at its last step.
LEMMA AdvanceType ==
  ASSUME RunnerTyped, status = "RUNNING", Advance PROVE RunnerTyped'
<1>1. Len(Steps) \in Nat /\ WaitTicks \in Nat \ {0}
  BY ScheduleAssumption, LenProperties DEF ScheduleAssumption
<1>2. status' \in Statuses /\ issued' \in BOOLEAN
  BY DEF Advance, RunnerTyped, Statuses
<1>3. index' \in 1..Len(Steps) + 1 /\ (status' = "RUNNING" => index' \in 1..Len(Steps))
  BY <1>1 DEF Advance, RunnerTyped
<1>4. waited' \in 0..WaitTicks - 1
  BY <1>1 DEF Advance
<1>. QED
  BY <1>2, <1>3, <1>4 DEF RunnerTyped

LEMMA RunnerStep == ScheduleTyped /\ [ScheduleNext]_svars => RunnerTyped'
<1>. SUFFICES ASSUME RunnerTyped, [ScheduleNext]_svars PROVE RunnerTyped'
  BY DEF ScheduleTyped
<1>0. Len(Steps) \in Nat \ {0} /\ WaitTicks \in Nat \ {0}
  BY ScheduleAssumption, EmptySeq DEF ScheduleAssumption
<1>1. CASE UNCHANGED runner
  BY <1>1 DEF RunnerTyped, runner
<1>2. CASE StartSchedule
  <2>1. 1 \in 1..Len(Steps) + 1 /\ 1 \in 1..Len(Steps) /\ 0 \in 0..WaitTicks - 1
    BY <1>0
  <2>. QED
    BY <1>2, <2>1 DEF StartSchedule, RunnerTyped, Statuses
<1>3. CASE StopSchedule
  BY <1>3 DEF StopSchedule, RunnerTyped, Statuses
<1>4. CASE OnTick
  <2>. DEFINE snap == Head(inbox)
  <2>1. CASE Ignore(snap) \/ Freezes(snap)
    BY <1>1, <2>1 DEF Ignore, Freezes
  <2>2. CASE Aborts(snap) \/ Errs(snap)
    BY <2>2 DEF Aborts, Errs, RunnerTyped, Statuses
  <2>3. CASE IssueTarget(snap)
    BY <2>3 DEF IssueTarget, RunnerTyped
  <2>4. CASE AwaitTarget(snap)
    BY <1>1, <2>4, AdvanceType DEF AwaitTarget, Active
  <2>5. CASE Wait(snap) /\ waited + 1 = WaitTicks
    BY <2>5, AdvanceType DEF Wait, Active
  <2>6. CASE Wait(snap) /\ waited + 1 # WaitTicks
    <3>1. waited' = waited + 1 /\ UNCHANGED <<status, index, issued>>
      BY <2>6 DEF Wait
    <3>2. waited + 1 \in 0..WaitTicks - 1
      BY <1>0, <2>6 DEF RunnerTyped
    <3>. QED
      BY <3>1, <3>2 DEF RunnerTyped
  <2>. QED
    BY <1>4, <2>1, <2>2, <2>3, <2>4, <2>5, <2>6, Received
<1>. QED
  BY <1>1, <1>2, <1>3, <1>4 DEF ScheduleNext, ControllerStep, svars

LEMMA ScheduleTypedInit == ScheduleInit => ScheduleTyped
<1>. SUFFICES ASSUME ScheduleInit PROVE ScheduleTyped
  OBVIOUS
<1>0. /\ Len(Steps) \in Nat \ {0} /\ WaitTicks \in Nat \ {0}
      /\ MaxInbox \in Nat \ {0}
  BY ScheduleAssumption, EmptySeq DEF ScheduleAssumption
<1>1. TypeInv
  BY TypeInit DEF ScheduleInit
<1>2. InboxHasRoom
  <2>1. <<>> \in Seq(Snapshots) /\ Len(<<>>) = 0
    BY EmptySeq
  <2>. QED
    BY <1>0, <2>1 DEF ScheduleInit, InboxHasRoom, Init
<1>3. RunnerTyped
  <2>1. 1 \in 1..Len(Steps) + 1 /\ 1 \in 1..Len(Steps) /\ 0 \in 0..WaitTicks - 1
    BY <1>0
  <2>. QED
    BY <2>1 DEF ScheduleInit, RunnerTyped, Statuses
<1>. QED
  BY <1>1, <1>2, <1>3 DEF ScheduleTyped

LEMMA ScheduleTypedStep == ScheduleTyped /\ [ScheduleNext]_svars => ScheduleTyped'
BY ControllerTypeStep, InboxStep, RunnerStep DEF ScheduleTyped

\* A schedule never leaves its list, however it is stopped and restarted, a wait is never
\* counted past its end, and the ticks never run further ahead of the GUI thread than the
\* queue has room for.
THEOREM ScheduleTypes == ScheduleSpec => []ScheduleTypeOK
<1>1. ScheduleTyped => ScheduleTypeOK
  BY DEF ScheduleTyped, InboxHasRoom, RunnerTyped, ScheduleTypeOK
<1>. QED
  BY <1>1, ScheduleTypedInit, ScheduleTypedStep, PTL DEF ScheduleSpec

-----------------------------------------------------------------------------
(* A step is passed only at its target                                      *)

\* Every read of the sample is accepted and the parameters stay as they are: a HOLD is
\* judged from the sample of its own tick, against the ceiling its target was set under.
WellRead == "ruby" \notin Faults /\ "configure" \notin Commands

\* The reading r is at the target t: inside the re-approach margin, or predicted to come
\* inside the reach margin.
AtTarget(r, t) ==
  /\ r # None
  /\ \/ r.filtered >= t - Reapproach
     \/ Larger(r.filtered + r.rise, Larger(r.filtered, r.raw)) >= t - Reach

\* The first sample that can be used begins everything: before it there is no step to
\* hold back and no HOLD.
NothingUnread ==
  /\ usable => estimate # None
  /\ ~usable => /\ state # "HOLD"
                /\ priorState = None \/ priorState # "HOLD"
                /\ ~targetReductionHold /\ pendingStep = None /\ stagedRearm = None
  /\ pc = "write" => usable \/ plan.kind = "hold"

\* From its decision to its end a tick that holds has the sample at the target.
HoldTrue ==
  pc \in {"write", "reconcile", "disable", "enable"} /\ state = "HOLD" /\ ~targetReductionHold
    => AtTarget(estimate, userTarget)

HoldInv == userTarget <= ceiling /\ NothingUnread /\ HoldTrue

\* The effective target is the user's while it is not above the ceiling.
LEMMA EffectiveIsUser ==
  ASSUME TypeInv, userTarget <= ceiling PROVE EffectiveTarget = userTarget /\ userTarget \in Int
BY DEF TypeInv, TypeOK, IntentTypeOK, EffectiveTarget, Smaller

\* Once a sample is usable, every later one is.
LEMMA HoldEvaluate == ASSUME WellRead, TypeInv, HoldInv, Evaluate PROVE HoldInv'
<1>1. PICK o \in Outcomes :
        /\ estimate' = o.is
        /\ usable' \in UsableIn(o.kind, o.is # None, usable /\ estimate # None, Faults)
  BY DEF Evaluate
<1>2. o.kind = "sample" /\ o.is \in Readings
  BY DEF WellRead, Outcomes
<1>3. o.is # None
  BY <1>2, ControllerAssumption DEF ControllerAssumption
<1>4. usable => usable'
  BY <1>1, <1>2, <1>3 DEF WellRead, UsableIn, HoldInv, NothingUnread
<1>5. pc' = "apply" /\ UNCHANGED <<state, motion, target, ratePause>>
  BY DEF Evaluate
<1>6. userTarget' <= ceiling' /\ HoldTrue'
  BY <1>5 DEF HoldInv, HoldTrue, target
<1>7. NothingUnread'
  <2>1. usable' => estimate' # None
    BY <1>1, <1>3
  <2>2. ~usable' => ~usable
    BY <1>4 DEF TypeInv, TypeOK, TickTypeOK
  <2>. QED
    BY <1>5, <2>1, <2>2 DEF HoldInv, NothingUnread, target, motion, ratePause
<1>. QED
  BY <1>6, <1>7 DEF HoldInv

\* A decision that goes on, holds or waits has the usable sample of its tick.
LEMMA HoldDecides == ASSUME TypeInv, HoldInv, Decides PROVE HoldInv'
<1>0. pc = "apply" /\ UNCHANGED <<userTarget, ceiling, targetReductionHold, estimate, usable>>
  BY DEF Decides, QuietTick, ApplyAbort, ApplyPause, KeepRateHold, ConfirmRateHold,
         StartRatePause, StageRateHold, EnterPause, ApplyNoSample, ApplyHold, ApplyStayHold,
         ConfirmStaged, DiscardStaged, AwaitReadBack, AwaitSettle, AwaitOutput, NoCommand,
         PauseForSupply, DecideStep, Sizes, Advancing, SafeTick, target, sensed
<1>. USE DEF HoldInv, NothingUnread
<1>1. CASE ApplyAbort
  BY <1>0, <1>1 DEF ApplyAbort, AbandonMotion, HoldTrue
<1>2. CASE ApplyPause \/ KeepRateHold \/ ConfirmRateHold \/ StartRatePause \/ StageRateHold
  <2>1. state' = "PAUSE" /\ priorState' \in {state, priorState}
    BY <1>2 DEF ApplyPause, KeepRateHold, ConfirmRateHold, StartRatePause, StageRateHold,
                EnterPause
  <2>2. pc' = "reconcile" \/ (pc' = "write" /\ plan'.kind = "hold")
    <3>1. CASE StageRateHold
      BY <3>1 DEF StageRateHold
    <3>2. CASE ~StageRateHold
      BY <1>2, <3>2 DEF ApplyPause, KeepRateHold, ConfirmRateHold, StartRatePause
    <3>. QED
      BY <3>1, <3>2
  <2>3. UNCHANGED motion \/ (pendingStep' = None /\ stagedRearm' = None)
    <3>1. CASE KeepRateHold
      BY <3>1 DEF KeepRateHold
    <3>2. CASE ~KeepRateHold
      BY <1>2, <3>2 DEF ApplyPause, ConfirmRateHold, StartRatePause, StageRateHold,
                        AbandonMotion
    <3>. QED
      BY <3>1, <3>2
  <2>. QED
    BY <1>0, <2>1, <2>2, <2>3 DEF HoldTrue, motion
<1>3. CASE ApplyNoSample
  <2>1. ~usable /\ state' = Resumed /\ priorState' \in {None, priorState} /\ UNCHANGED motion
    BY <1>3 DEF ApplyNoSample, SafeTick
  <2>3. state' # "HOLD"
    BY <2>1 DEF Resumed
  <2>4. priorState' = None \/ priorState' # "HOLD"
    BY <2>1
  <2>5. pc' = "reconcile"
    BY <1>3 DEF ApplyNoSample
  <2>. QED
    BY <1>0, <2>1, <2>3, <2>4, <2>5 DEF HoldTrue, motion
<1>4. CASE usable /\ ~ApplyHold /\ ~ApplyStayHold /\ (QuietTick \/ DecideStep)
  <2>1. state' # "HOLD"
    BY <1>4 DEF QuietTick, ApplyNoSample, ConfirmStaged, DiscardStaged, AwaitReadBack,
                AwaitSettle, AwaitOutput, NoCommand, PauseForSupply, DecideStep, StaysInHold,
                Approaching
  <2>. QED
    BY <1>0, <1>4, <2>1 DEF HoldTrue
<1>5. CASE ApplyHold
  <2>1. usable /\ state' = "HOLD" /\ pc' = "reconcile" /\ MustHold
    BY <1>5 DEF ApplyHold
  <2>2. estimate \in Reading /\ estimate # None
    BY <1>0, <2>1 DEF TypeInv, CarriesOver
  <2>3. MustHold /\ ~targetReductionHold => AtTarget(estimate, userTarget)
    <3>. SUFFICES ASSUME AboveTarget \/ ReachesTarget PROVE AtTarget(estimate, userTarget)
      BY DEF MustHold
    <3>1. EffectiveTarget = userTarget /\ userTarget \in Int
      BY EffectiveIsUser
    <3>2. Overshoot \in Nat /\ Reach \in Nat
      BY ControllerAssumption DEF ControllerAssumption
    <3>3. Predicted >= userTarget - Reach
      BY <2>2, <3>1, <3>2
         DEF AboveTarget, ReachesTarget, Predicted, Sizing, Larger, Reading
    <3>. QED
      BY <2>2, <3>3 DEF AtTarget, Predicted, Sizing
  <2>. QED
    BY <1>0, <2>1, <2>2, <2>3 DEF HoldTrue
<1>6. CASE ApplyStayHold
  <2>1. usable /\ state' = "HOLD" /\ pc' = "reconcile" /\ ~BelowReapproach
    BY <1>6 DEF ApplyStayHold, Advancing, StaysInHold
  <2>2. estimate \in Reading /\ estimate # None
    BY <1>0, <2>1 DEF TypeInv, CarriesOver
  <2>3. AtTarget(estimate, userTarget)
    <3>1. EffectiveTarget = userTarget /\ userTarget \in Int /\ Reapproach \in Nat
      BY EffectiveIsUser, ControllerAssumption DEF ControllerAssumption
    <3>. QED
      BY <2>1, <2>2, <3>1 DEF BelowReapproach, AtTarget, Reading
  <2>. QED
    BY <1>0, <2>1, <2>2, <2>3 DEF HoldTrue
<1>7. QuietTick \/ DecideStep => usable \/ ApplyNoSample
  BY DEF QuietTick, ApplyHold, ApplyStayHold, ConfirmStaged, DiscardStaged, AwaitReadBack,
         AwaitSettle, AwaitOutput, NoCommand, PauseForSupply, DecideStep, Sizes, Advancing
<1>. QED
  BY <1>1, <1>2, <1>3, <1>4, <1>5, <1>6, <1>7 DEF Decides

\* The write and the reconciliation of a tick keep its HOLD, or begin a step.
LEMMA HoldWrites ==
  ASSUME TypeInv, HoldInv,
         WriteSetpoint \/ WriteUnanswered \/ ReconcileStop \/ ReconcileResume \/ WriteMode
  PROVE  HoldInv'
<1>. USE DEF HoldInv, NothingUnread
<1>1. CASE WriteSetpoint \/ WriteUnanswered
  <2>1. PICK ack \in BOOLEAN : pc = "write" /\ pc' = "reconcile" /\ Book(ack)
    BY <1>1, WriteEffect
  <2>2. UNCHANGED <<userTarget, ceiling, targetReductionHold, priorState, estimate, usable>>
    BY <2>1 DEF Book, target
  <2>3. CASE plan.kind = "hold"
    BY <2>1, <2>2, <2>3 DEF Book, motion, HoldTrue
  <2>4. CASE plan.kind # "hold"
    BY <2>1, <2>2, <2>4 DEF Book, HoldTrue
  <2>. QED
    BY <2>3, <2>4
<1>2. CASE ReconcileStop \/ ReconcileResume \/ WriteMode
  <2>1. /\ pc \in {"reconcile", "enable", "disable"} /\ pc' \in {"idle", "enable", "disable"}
        /\ UNCHANGED <<state, motion, target, priorState, estimate, usable>>
    BY <1>2, ReconcileEffect
       DEF ReconcileStop, ReconcileResume, WriteMode, ratePause, sensed
  <2>. QED
    BY <2>1 DEF HoldTrue, motion, target
<1>. QED
  BY <1>1, <1>2

\* set_target() waits for the tick, and lowers under a step only what a sample has begun.
LEMMA HoldSet ==
  ASSUME HoldInv, NEW t \in Int, t <= ceiling, ~Locked,
         userTarget' = t, LowerTarget(t) \/ MoveTarget(t),
         UNCHANGED <<ceiling, priorState, sensed, tick>>
  PROVE  HoldInv'
<1>. USE DEF HoldInv, NothingUnread
<1>1. pc' \notin {"write", "reconcile", "disable", "enable"}
  BY DEF Locked, tick
<1>2. CASE LowerTarget(t)
  <2>1. usable
    BY <1>2 DEF LowerTarget, LowersInFlight
  <2>. QED
    BY <1>1, <2>1 DEF HoldTrue, sensed
<1>3. CASE MoveTarget(t)
  BY <1>1, <1>3 DEF MoveTarget, HoldTrue, sensed, motion
<1>. QED
  BY <1>2, <1>3

LEMMA HoldOperator == ASSUME WellRead, TypeInv, HoldInv, Operator PROVE HoldInv'
<1>1. CASE Pause \/ Abort \/ Quit \/ EmergencyStop \/ Resume \/ ConfirmStop
  <2>1. UNCHANGED <<state, motion, target, ratePause, sensed, tick>>
    BY <1>1 DEF Pause, Abort, Quit, EmergencyStop, Resume, ConfirmStop
  <2>. QED
    BY <2>1 DEF HoldInv, NothingUnread, HoldTrue, motion, target, ratePause, sensed, tick
<1>2. CASE AbandonStep
  BY <1>2 DEF AbandonStep, Abandon, AbandonMotion, HoldInv, NothingUnread, HoldTrue, target,
              sensed, tick
<1>3. CASE Reset
  <2>1. state' = "APPROACH" /\ priorState' = None /\ pendingStep' = None /\ stagedRearm' = None
    BY <1>3 DEF Reset, Abandon, AbandonMotion
  <2>2. UNCHANGED <<target, sensed, tick>>
    BY <1>3 DEF Reset
  <2>. QED
    BY <2>1, <2>2 DEF HoldInv, NothingUnread, HoldTrue, target, sensed, tick
<1>4. CASE SetUserTarget
  <2>1. PICK t \in Targets : /\ t <= ceiling /\ userTarget' = t
                             /\ LowerTarget(t) \/ MoveTarget(t)
    BY <1>4 DEF SetUserTarget
  <2>2. t \in Int
    BY <2>1, ControllerAssumption DEF ControllerAssumption
  <2>3. ~Locked /\ UNCHANGED <<ceiling, priorState, sensed, tick>>
    BY <1>4 DEF SetUserTarget
  <2>. QED
    BY <2>1, <2>2, <2>3, HoldSet
<1>5. ~Configure
  BY DEF WellRead, Configure, OperatorMay
<1>. QED
  BY <1>1, <1>2, <1>3, <1>4, <1>5 DEF Operator

LEMMA HoldStep ==
  ASSUME WellRead, ScheduleTyped, HoldInv, [ScheduleNext]_svars PROVE HoldInv'
<1>. USE DEF HoldInv, NothingUnread, HoldTrue
<1>1. CASE UNCHANGED vars
  BY <1>1 DEF vars, motion, target, ratePause, sensed, tick
<1>2. CASE BeginTick \/ Environment
  <2>1. /\ UNCHANGED <<state, motion, target, ratePause, estimate, usable>>
        /\ pc' = "evaluate" \/ UNCHANGED <<pc, plan>>
    BY <1>2 DEF BeginTick, Environment, sensed, tick
  <2>. QED
    BY <2>1 DEF motion, target, ratePause
<1>3. CASE Next
  BY <1>2, <1>3, HoldEvaluate, HoldDecides, HoldWrites, HoldOperator, NextCases
     DEF ScheduleTyped
<1>4. CASE OnTick
  <2>. DEFINE snap == Head(inbox)
  <2>1. CASE IssueTarget(snap)
    <3>1. Current.target \in Int /\ ceiling \in Int
      BY <2>1, CurrentTarget
         DEF IssueTarget, Active, ScheduleTyped, TypeInv, TypeOK, IntentTypeOK
    <3>2. /\ Current.target <= ceiling /\ ~Locked /\ userTarget' = Current.target
          /\ LowerTarget(Current.target) \/ MoveTarget(Current.target)
          /\ UNCHANGED <<ceiling, priorState, sensed, tick>>
      BY <2>1, <3>1 DEF IssueTarget
    <3>. QED
      BY <3>1, <3>2, HoldSet
  <2>. QED
    BY <1>1, <1>4, <2>1, OnTickEffect
<1>. QED
  BY <1>1, <1>3, <1>4
     DEF ScheduleNext, ControllerStep, StartSchedule, StopSchedule, svars

\* Every queued HOLD was made with the sample at its target.
InboxTrue ==
  \A i \in 1..Len(inbox) :
    inbox[i].state = "HOLD" /\ ~inbox[i].reduced
      => AtTarget(inbox[i].reading, inbox[i].target)

\* A snapshot is queued at the end of the tick that judged it, under the lock, and is
\* never changed afterwards.
LEMMA InboxTrueStep ==
  ScheduleTyped /\ HoldInv /\ InboxTrue /\ [ScheduleNext]_svars => InboxTrue'
<1>. SUFFICES ASSUME ScheduleTyped, HoldInv, InboxTrue, [ScheduleNext]_svars
              PROVE InboxTrue'
  OBVIOUS
<1>0. inbox \in Seq(Snapshots) /\ Len(inbox) \in Nat
  BY LenProperties DEF ScheduleTyped, InboxHasRoom
<1>1. CASE UNCHANGED inbox
  BY <1>1 DEF InboxTrue
<1>2. CASE ControllerStep /\ TickEnds
  <2>1. inbox' = Append(inbox, Snapshot')
    BY <1>2 DEF ControllerStep
  <2>2. Snapshot' \in Snapshots
    <3>1. TypeInv'
      BY ControllerTypeStep
    <3>. QED
      BY <3>1 DEF TypeInv, TypeOK, IntentTypeOK, TickTypeOK, Snapshot, Snapshots
  <2>3. /\ Len(inbox') = Len(inbox) + 1
        /\ \A i \in 1..Len(inbox) : inbox'[i] = inbox[i]
        /\ inbox'[Len(inbox) + 1] = Snapshot'
    BY <1>0, <2>1, <2>2, AppendProperties
  <2>4. state' = "HOLD" /\ ~targetReductionHold' => AtTarget(estimate', userTarget')
    <3>1. Next /\ pc \notin {"idle", "evaluate"} /\ pc' = "idle"
      BY <1>2, PlaceMoves DEF ControllerStep, TickEnds, Locked, BeginTick
    <3>2. ReconcileStop \/ ReconcileResume \/ WriteMode
      BY <3>1, NextCases, DecidesEffect, WriteEffect
         DEF BeginTick, Evaluate, Operator, Pause, Abort, Quit, EmergencyStop, AbandonStep,
             Resume, Reset, SetUserTarget, Configure, ConfirmStop, Environment, tick
    <3>3. /\ pc \in {"reconcile", "enable", "disable"}
          /\ UNCHANGED <<state, target, estimate>>
      BY <3>2 DEF ReconcileStop, ReconcileResume, WriteMode, sensed
    <3>. QED
      BY <3>3 DEF HoldInv, HoldTrue, target
  <2>. QED
    BY <1>0, <2>3, <2>4 DEF InboxTrue, Snapshot
<1>3. CASE OnTick
  <2>1. inbox # <<>> /\ inbox' = Tail(inbox)
    BY <1>3, OnTickEffect
  <2>2. /\ Len(inbox') = Len(inbox) - 1
        /\ \A i \in 1..Len(inbox') : inbox'[i] = inbox[i + 1]
    BY <1>0, <2>1, HeadTailProperties
  <2>3. \A i \in 1..Len(inbox') : i + 1 \in 1..Len(inbox)
    BY <1>0, <2>2
  <2>. QED
    BY <2>2, <2>3 DEF InboxTrue
<1>. QED
  BY <1>1, <1>2, <1>3
     DEF ScheduleNext, ControllerStep, StartSchedule, StopSchedule, svars

\* Of on_tick()'s ways only the awaited HOLD ends a set-pressure step.
LEMMA StepReachedBy == ASSUME ScheduleTyped, StepReached PROVE Reached(Head(inbox))
<1>. DEFINE snap == Head(inbox)
<1>1. OnTick /\ Current.kind = "set" /\ index' = index + 1 /\ index \in Int
  BY DEF StepReached, ScheduleTyped, RunnerTyped
<1>2. index' # index
  BY <1>1
<1>3. AwaitTarget(snap) \/ Wait(snap)
  BY <1>1, <1>2, Received DEF Ignore, Aborts, Freezes, Errs, IssueTarget, runner
<1>4. ~Wait(snap)
  BY <1>1 DEF Wait, Active
<1>. QED
  BY <1>2, <1>3, <1>4 DEF AwaitTarget, runner

LEMMA ReachedStep ==
  ASSUME ScheduleTyped, InboxTrue, StepReached, ~Head(inbox).reduced
  PROVE  AtTarget(Head(inbox).reading, Current.target)
<1>1. Reached(Head(inbox)) /\ inbox # <<>>
  BY StepReachedBy, OnTickEffect DEF StepReached
<1>2. 1 \in 1..Len(inbox) /\ Head(inbox) = inbox[1]
  BY <1>1, LenProperties, EmptySeq DEF ScheduleTyped, InboxHasRoom
<1>. QED
  BY <1>1, <1>2 DEF InboxTrue, Reached

ReachedInv == ScheduleTyped /\ HoldInv /\ InboxTrue

\* A set-pressure step is passed only on a snapshot whose own reading is at that step's
\* target, however late the snapshots reach the schedule and whatever the operator, the
\* link and the device do, as long as each tick reads the sample and the parameters stay:
\* a tick without a reading repeats the HOLD of the target before.
THEOREM StepsPassAtTarget == ASSUME WellRead PROVE ScheduleSpec => ReachedAtTarget
<1>1. ScheduleInit => ReachedInv
  <2>. SUFFICES ASSUME ScheduleInit PROVE ReachedInv
    OBVIOUS
  <2>1. ScheduleTyped
    BY ScheduleTypedInit
  <2>2. HoldInv
    BY DEF ScheduleInit, Init, HoldInv, NothingUnread, HoldTrue
  <2>3. InboxTrue
    BY EmptySeq DEF ScheduleInit, InboxTrue
  <2>. QED
    BY <2>1, <2>2, <2>3 DEF ReachedInv
<1>2. ReachedInv /\ [ScheduleNext]_svars => ReachedInv'
  BY ScheduleTypedStep, HoldStep, InboxTrueStep DEF ReachedInv
<1>3. ReachedInv /\ StepReached /\ ~Head(inbox).reduced =>
        LET r == Head(inbox).reading
            sizing == Larger(r.filtered, r.raw)
        IN  /\ r # None
            /\ \/ r.filtered >= Current.target - Reapproach
               \/ Larger(r.filtered + r.rise, sizing) >= Current.target - Reach
  BY ReachedStep DEF ReachedInv, AtTarget
<1>4. ScheduleSpec => []ReachedInv
  BY <1>1, <1>2, PTL DEF ScheduleSpec
<1>. QED
  BY <1>3, <1>4, PTL DEF ReachedAtTarget

-----------------------------------------------------------------------------
(* A schedule is one more operator                                          *)

\* Whatever holds of the controller under every operator who may set the schedule's own
\* targets holds of the controller a schedule drives.
THEOREM DrivenController ==
  ASSUME "target" \in Commands,
         \A i \in 1..Len(Steps) : Steps[i].kind = "set" => Steps[i].target \in Targets
  PROVE  ScheduleSpec => Spec
<1>1. ScheduleInit => Init
  BY DEF ScheduleInit
<1>2. ScheduleTyped /\ [ScheduleNext]_svars => [Next]_vars
  <2>. SUFFICES ASSUME ScheduleTyped, [ScheduleNext]_svars PROVE [Next]_vars
    OBVIOUS
  <2>1. CASE OnTick
    <3>. DEFINE snap == Head(inbox)
                t == Current.target
    <3>1. CASE IssueTarget(snap)
      <4>1. t \in Targets /\ t \in Int /\ ceiling \in Int /\ userTarget \in Int
        BY <3>1, CurrentTarget
           DEF IssueTarget, Active, ScheduleTyped, RunnerTyped, TypeInv, TypeOK,
               IntentTypeOK, Current
      <4>2. op = "none"
        BY <2>1 DEF OnTick, Receive
      <4>3. /\ t <= ceiling /\ ~Locked /\ userTarget' = t
            /\ LowerTarget(t) \/ MoveTarget(t)
            /\ UNCHANGED <<device, ceiling, priorState, sensed, resumeGrace, tick, quitting,
                           started>>
        BY <3>1, <4>1 DEF IssueTarget
      <4>. HIDE DEF t
      <4>4. CASE t # userTarget
        BY <4>1, <4>2, <4>3, <4>4 DEF SetUserTarget, OperatorMay, Operator, Next
      <4>5. CASE t = userTarget
        <5>1. MoveTarget(t) /\ ~(t > userTarget)
          <6>1. ~(t < userTarget) /\ ~(t > userTarget)
            BY <4>1, <4>5
          <6>2. ~LowerTarget(t)
            BY <6>1 DEF LowerTarget, LowersInFlight
          <6>. QED
            BY <4>3, <6>1, <6>2
        <5>2. targetReductionHold' = targetReductionHold /\ resumeFloor' = resumeFloor
          BY <5>1 DEF MoveTarget, ScheduleTyped, TypeInv, TypeOK, IntentTypeOK
        <5>3. UNCHANGED <<safety, motion, ratePauseEligible, ratePauseHolding,
                          ratePauseSetpoint, state, op>>
          BY <5>1 DEF MoveTarget
        <5>. QED
          BY <4>3, <4>5, <5>2, <5>3 DEF vars, target, ratePause, operator
      <4>. QED
        BY <4>4, <4>5
    <3>. QED
      BY <2>1, <3>1, OnTickEffect
  <2>. QED
    BY <2>1 DEF ScheduleNext, ControllerStep, StartSchedule, StopSchedule, svars
<1>3. ScheduleSpec => []ScheduleTyped
  BY ScheduleTypedInit, ScheduleTypedStep, PTL DEF ScheduleSpec
<1>. QED
  BY <1>1, <1>2, <1>3, PTL DEF ScheduleSpec, Spec

=============================================================================
