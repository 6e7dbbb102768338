----------------------- MODULE ControllerSafetyProofs -----------------------
(***************************************************************************)
(* Proofs of what Controller's runs check of its writes, its stops and the *)
(* way it drives the gas, for every value of the constants.  Each theorem  *)
(* names the disturbances it excludes; the others may all happen.          *)
(***************************************************************************)
EXTENDS ControllerProofs

\* The status shows the output as it is, the gas does not fall, does not rise, by
\* itself in Measure.
NoLag == "lag" \notin Faults
NoLeak == "leak" \notin Faults
NoDrift == "drift" \notin Faults

-----------------------------------------------------------------------------
(* The decision behind a write still holds when the write is sent.  Nobody   *)
(* types on the front panel.                                                 *)

\* A verdict that lets the membrane be driven has compared its setpoint.
VerdictCompared ==
  pc = "apply" /\ verdict \in {"ok", "rate"} => ~SetpointMismatch(membraneStatus, youngCmd)

\* What is about to be written was decided on a fresh status, on a sample short of the
\* target, and from the pressure or the setpoint in that status.
WriteVetted ==
  pc = "write" =>
    /\ poll = "fresh" /\ Connected(membraneStatus)
    /\ ~SetpointMismatch(membraneStatus, youngCmd)
    /\ estimate \in Reading /\ ~ReachesTarget
    /\ plan.kind # "hold" => ~targetReductionHold

PlanVetted ==
  pc = "write" =>
    /\ plan.kind = "hold" => plan.after = membraneStatus.act
    /\ plan.kind = "stage" => /\ plan.step \in 1..MaxStep
                              /\ plan.after = membraneStatus.act + plan.step
    /\ plan.kind = "issue" =>
         plan.after \in membraneStatus.tgt + 1 .. membraneStatus.tgt + MaxStep
    /\ plan.kind # "issue" =>
         /\ InMeasure(membraneStatus) /\ stopIntended
         /\ stagedRearm = None /\ ratePauseSetpoint = None /\ ~ratePauseHolding

WriteInv == TypeInv /\ ReadBackTrue /\ VerdictCompared /\ WriteVetted /\ PlanVetted

LEMMA VerdictComparedStep ==
  ASSUME OwnSetpoint, WriteInv, Next
  PROVE  VerdictCompared'
<1> USE DEF WriteInv, VerdictCompared
<1>1. CASE Evaluate
  <2>1. ASSUME verdict' \in {"ok", "rate"} PROVE ~SetpointMismatch(membraneStatus, youngCmd')
    BY <1>1, <2>1, VerdictSees
  <2>2. UNCHANGED <<membraneStatus, lastCmd>>
    BY <1>1 DEF Evaluate
  <2> QED
    BY <2>1, <2>2 DEF SetpointMismatch, Connected, Close, ShowsTarget
<1>2. CASE Operator
  BY <1>2, OperatorStaysOutside
     DEF OperatorOutside, TypeInv, Locked, SetpointMismatch, Connected, Close, ShowsTarget
<1>3. CASE Environment
  BY <1>3, EnvironmentEffect DEF SetpointMismatch, Connected, Close, ShowsTarget
<1>4. CASE BeginTick \/ Decides \/ WriteSetpoint \/ WriteUnanswered \/ ReconcileStop
             \/ ReconcileResume \/ WriteMode
  BY <1>4, DecidesEffect, WriteEffect, ReconcileEffect DEF BeginTick
<1> QED
  BY <1>1, <1>2, <1>3, <1>4, NextCases

\* A target or a sample is only looked at, and not changed, by a decision.
LEMMA DecidesOnSample ==
  Decides => UNCHANGED <<estimate, usable, userTarget, ceiling, targetReductionHold, act, mode, shown>>
BY QuietTickShape
   DEF Decides, ApplyAbort, ApplyPause, KeepRateHold, ConfirmRateHold, StartRatePause,
       StageRateHold, EnterPause, DecideStep, Sizes, Advancing, SafeTick, device, target,
       sensed

LEMMA WriteVettedStep ==
  ASSUME OwnSetpoint, WriteInv, Next
  PROVE  WriteVetted'
<1> USE DEF WriteInv, WriteVetted
<1>1. CASE Decides
  <2>1. UNCHANGED <<estimate, usable, userTarget, ceiling, targetReductionHold, poll,
                    membraneStatus, verdict, lastCmd, youngCmd>>
    BY <1>1, DecidesEffect, DecidesOnSample
  <2>2. CASE StageRateHold
    <3>1. /\ poll = "fresh" /\ InMeasure(membraneStatus) /\ estimate # None
          /\ ~ReachesTarget /\ verdict = "rate"
      BY <2>2 DEF StageRateHold, EnterPause, RateOnlySoFar, CanHoldHere
    <3>2. pc = "apply" /\ plan'.kind = "hold"
      BY <2>2 DEF StageRateHold, EnterPause
    <3> QED
      BY <2>1, <3>1, <3>2
         DEF VerdictCompared, SetpointMismatch, InMeasure, Connected, Close, TypeInv,
             TypeOK, TickTypeOK, ReachesTarget, Predicted, Sizing, EffectiveTarget,
             Smaller, ShowsMode, ShowsTarget
  <2>3. CASE DecideStep
    <3>1. /\ pc = "apply" /\ verdict = "ok" /\ poll = "fresh" /\ usable
          /\ ~ReachesTarget /\ ~targetReductionHold /\ Connected(membraneStatus)
      BY <2>3 DEF DecideStep, Sizes, Advancing, SafeTick, MustHold, GateOpen,
                  ReadyToStage, ReadyToIssue, InMeasure, InControl, ShowsMode
    <3> QED
      BY <2>1, <3>1
         DEF VerdictCompared, SetpointMismatch, Connected, Close, TypeInv, CarriesOver,
             ReachesTarget, Predicted, Sizing, EffectiveTarget, Smaller, ShowsTarget
  <2>4. CASE pc' = "reconcile"
    BY <2>4
  <2> QED
    BY <1>1, <2>2, <2>3, <2>4, QuietTickShape
       DEF Decides, ApplyAbort, ApplyPause, KeepRateHold, ConfirmRateHold, StartRatePause
<1>2. CASE Operator
  BY <1>2, OperatorStaysOutside
     DEF OperatorOutside, TypeInv, Locked, target, SetpointMismatch, Connected, Close,
         ReachesTarget, Predicted, Sizing, EffectiveTarget, Smaller, ShowsTarget
<1>3. CASE Environment
  BY <1>3, EnvironmentEffect
     DEF Environment, target, sensed, SetpointMismatch, Connected, Close,
         ReachesTarget, Predicted, Sizing, EffectiveTarget, Smaller, ShowsTarget
<1>4. CASE BeginTick \/ Evaluate \/ WriteSetpoint \/ WriteUnanswered \/ ReconcileStop
             \/ ReconcileResume \/ WriteMode
  BY <1>4, WriteEffect, ReconcileEffect DEF BeginTick, Evaluate
<1> QED
  BY <1>1, <1>2, <1>3, <1>4, NextCases

\* A step is at most the largest one, above where it starts.
LEMMA NextSetpointsReach ==
  ASSUME TypeOK, membraneStatus \in StatusRecord, NEW p \in NextSetpoints
  PROVE  p \in Base + 1 .. Base + MaxStep /\ Base \in Int
<1>1. Base \in Int
  BY DEF Base, StatusRecord
<1>2. PICK n \in 1..MaxStep : p = Smaller(Base + n, MaxM)
  BY DEF NextSetpoints
<1> QED
  BY <1>1, <1>2, SupervisorAssumption, ControllerAssumption DEF NextSetpoints, Smaller

LEMMA PlanVettedStep ==
  ASSUME OwnSetpoint, WriteInv, Next
  PROVE  PlanVetted'
<1> USE DEF WriteInv, PlanVetted
<1>1. CASE Decides
  <2>1. UNCHANGED <<membraneStatus>>
    BY <1>1, DecidesEffect
  <2>2. CASE StageRateHold
    BY <2>1, <2>2
       DEF StageRateHold, EnterPause, CanHoldHere, AbandonMotion, StopIntended, InMeasure,
           Connected, ShowsMode
  <2>3. CASE DecideStep
    <3>1. PICK left \in SettleOutcomes, p \in NextSetpoints :
            /\ Sizes(left)
            /\ plan' = [kind |-> IF stopIntended THEN "stage" ELSE "issue",
                        after |-> p, step |-> p - Base]
            /\ UNCHANGED safety
      BY <2>3 DEF DecideStep
    <3>2. membraneStatus \in StatusRecord
      BY <3>1, ConnectedStatus
         DEF Sizes, ReadyToStage, ReadyToIssue, InMeasure, InControl, TypeInv, ShowsMode
    <3>3. p \in Base + 1 .. Base + MaxStep /\ Base \in Int
      BY <3>2, NextSetpointsReach DEF TypeInv
    <3>4. membraneStatus.act \in Int /\ membraneStatus.tgt \in Int /\ MaxStep \in Nat
      BY <3>2, ControllerAssumption DEF StatusRecord
    <3>5. CASE stopIntended
      <4>1. /\ plan'.kind = "stage" /\ plan'.after = p /\ plan'.step = p - membraneStatus.act
            /\ Base = membraneStatus.act
        BY <3>1, <3>5 DEF Base
      <4>2. /\ InMeasure(membraneStatus) /\ stopIntended' /\ stagedRearm' = None
            /\ ratePauseSetpoint' = None /\ ~ratePauseHolding'
        BY <3>1, <3>5
           DEF Sizes, ReadyToStage, ReadyToIssue, Advancing, SafeTick, EndRateHold, safety
      <4> QED
        BY <2>1, <3>3, <3>4, <4>1, <4>2 DEF InMeasure, Connected, ShowsMode
    <3>6. CASE ~stopIntended
      <4>1. ShowsTarget(membraneStatus)
        BY <3>1, <3>2, TargetShown
           DEF Sizes, ReadyToStage, ReadyToIssue, InMeasure, InControl, ShowsMode
      <4>2. plan'.kind = "issue" /\ plan'.after = p /\ Base = membraneStatus.tgt
        BY <3>1, <3>6, <4>1 DEF Base
      <4> QED
        BY <2>1, <3>3, <3>4, <4>2
    <3> QED
      BY <3>5, <3>6
  <2>4. CASE pc' = "reconcile"
    BY <2>4
  <2> QED
    BY <1>1, <2>2, <2>3, <2>4, QuietTickShape
       DEF Decides, ApplyAbort, ApplyPause, KeepRateHold, ConfirmRateHold, StartRatePause
<1>2. CASE Operator
  BY <1>2, OperatorStaysOutside
     DEF OperatorOutside, TypeInv, Locked, motion, InMeasure, Connected, ShowsMode
<1>3. CASE Environment
  BY <1>3, EnvironmentEffect DEF Environment, ratePause, InMeasure, Connected, ShowsMode
<1>4. CASE BeginTick \/ Evaluate \/ WriteSetpoint \/ WriteUnanswered \/ ReconcileStop
             \/ ReconcileResume \/ WriteMode
  BY <1>4, WriteEffect, ReconcileEffect DEF BeginTick, Evaluate
<1> QED
  BY <1>1, <1>2, <1>3, <1>4, NextCases

LEMMA WriteInvInit == Init => WriteInv
BY TypeInit DEF Init, WriteInv, ReadBackTrue, VerdictCompared, WriteVetted, PlanVetted

LEMMA WriteInvStep == OwnSetpoint /\ WriteInv /\ [Next]_vars => WriteInv'
<1> SUFFICES ASSUME OwnSetpoint, WriteInv, [Next]_vars PROVE WriteInv'
  OBVIOUS
<1>1. TypeInv'
  BY TypeStep DEF WriteInv
<1>2. CASE Next
  <2>1. ReadBackTrue'
    BY <1>2, ReadBackStep DEF WriteInv
  <2> QED
    BY <1>1, <1>2, <2>1, VerdictComparedStep, WriteVettedStep, PlanVettedStep
       DEF WriteInv
<1>3. CASE UNCHANGED vars
  <2>1. ReadBackTrue' /\ VerdictCompared'
    BY <1>3 DEF WriteInv, vars, device, safety, sensed, tick, ReadBackTrue,
                VerdictCompared, SetpointMismatch, Connected, Close, ShowsTarget
  <2>2. WriteVetted'
    BY <1>3 DEF WriteInv, vars, safety, target, sensed, tick, WriteVetted,
                SetpointMismatch, Connected, Close, ReachesTarget, Predicted, Sizing,
                EffectiveTarget, Smaller, ShowsTarget
  <2>3. PlanVetted'
    BY <1>3 DEF WriteInv, vars, safety, motion, ratePause, sensed, tick, PlanVetted,
                InMeasure, Connected, ShowsMode
  <2> QED
    BY <1>1, <2>1, <2>2, <2>3 DEF WriteInv
<1> QED
  BY <1>2, <1>3

LEMMA WriteInvHolds == OwnSetpoint => (Spec => []WriteInv)
<1> SUFFICES ASSUME OwnSetpoint PROVE Spec => []WriteInv
  OBVIOUS
<1>1. WriteInv /\ [Next]_vars => WriteInv'
  BY WriteInvStep
<1> QED
  BY WriteInvInit, <1>1, PTL DEF Spec

\* The setpoint of the device moves only by a write, and then to the one planned.
LEMMA OnlyWritesMove ==
  ASSUME OwnSetpoint, WriteInv, [Next]_vars, tgt' # tgt
  PROVE  pc = "write" /\ tgt' = plan.after /\ membraneStatus.tgt = tgt
<1>1. WriteSetpoint \/ WriteUnanswered
  <2>1. Next
    BY DEF vars, device
  <2>2. ~(BeginTick \/ Evaluate)
    BY DEF BeginTick, Evaluate, device
  <2>3. ~Operator
    BY OperatorStaysOutside DEF OperatorOutside, WriteInv, TypeInv
  <2> QED
    BY <2>1, <2>2, <2>3, NextCases, DecidesEffect, ReconcileEffect, EnvironmentEffect
<1> QED
  BY <1>1, WriteEffect DEF WriteInv, WriteVetted, ReadBackTrue

\* However answers are lost, a setpoint is sent only to a device that holds the last one
\* commanded, so a write whose answer was lost is reconciled before the next; only while
\* the last command is within its grace may the next follow unseen.
THEOREM LostWritesAreReconciled == OwnSetpoint => (Spec => LostWriteReconciled)
<1> SUFFICES ASSUME OwnSetpoint PROVE Spec => LostWriteReconciled
  OBVIOUS
<1>1. WriteInv /\ [Next]_vars =>
        [tgt' # tgt => lastCmd = None \/ Close(tgt, lastCmd) \/ youngCmd]_vars
  <2> SUFFICES ASSUME WriteInv, [Next]_vars, tgt' # tgt, lastCmd # None, ~youngCmd
               PROVE  Close(tgt, lastCmd)
    OBVIOUS
  <2>1. pc = "write" /\ membraneStatus.tgt = tgt
    BY OnlyWritesMove
  <2>2. ~SetpointMismatch(membraneStatus, youngCmd) /\ Connected(membraneStatus)
    BY <2>1 DEF WriteInv, WriteVetted
  <2>3. ShowsTarget(membraneStatus)
    BY <2>2, ConnectedStatus, TargetShown DEF WriteInv, TypeInv
  <2> QED
    BY <2>1, <2>2, <2>3 DEF SetpointMismatch
<1> QED
  BY WriteInvHolds, <1>1, PTL DEF Spec, LostWriteReconciled

\* Whatever the operator does between a decision and its write, the sample is pushed on
\* only while it is predicted to stay short of the target and of the ceiling.
THEOREM PushesStayBelowTarget == OwnSetpoint => (Spec => PushesOnlyBelowTarget)
<1> DEFINE Short ==
      /\ estimate # None
      /\ \A limit \in {userTarget, ceiling} :
           /\ estimate.raw < limit - Reach
           /\ estimate.filtered + estimate.rise < limit - Reach
<1> SUFFICES ASSUME OwnSetpoint PROVE Spec => PushesOnlyBelowTarget
  OBVIOUS
<1>1. WriteInv /\ [Next]_vars => [tgt' > tgt => Short]_vars
  <2> SUFFICES ASSUME WriteInv, [Next]_vars, tgt' > tgt PROVE Short
    OBVIOUS
  <2>1. tgt \in Int /\ tgt' \in Int
    BY TypeStep DEF WriteInv, TypeInv, TypeOK, DeviceTypeOK
  <2>2. estimate \in Reading /\ ~ReachesTarget
    BY <2>1, OnlyWritesMove DEF WriteInv, WriteVetted
  <2>3. userTarget \in Int /\ ceiling \in Int /\ Reach \in Nat
    BY ControllerAssumption DEF WriteInv, TypeInv, TypeOK, IntentTypeOK
  <2>4. /\ estimate.raw \in Int /\ estimate.filtered \in Int /\ estimate.rise \in Nat
        /\ estimate # None
    BY <2>2, ControllerAssumption DEF Reading
  <2> QED
    BY <2>2, <2>3, <2>4
       DEF ReachesTarget, Predicted, Sizing, EffectiveTarget, Smaller, Larger
<1> QED
  BY WriteInvHolds, <1>1, PTL DEF Spec, PushesOnlyBelowTarget

-----------------------------------------------------------------------------
(* What the status of this tick says of the output is still true when the    *)
(* tick acts on it, once an enabled output is reported without delay.        *)

Seen ==
  poll = "fresh" /\ pc \in {"evaluate", "apply", "write"} /\ Connected(membraneStatus)

OutputSeen ==
  /\ shown = mode
  /\ Seen /\ ~membraneStatus.mode => ~mode

\* The pressure moves only by itself: in Control toward the setpoint, in Measure by a
\* leak or a drift.
GasMoves ==
  \/ act' = act
  \/ /\ tgt' = tgt /\ mode' = mode
     /\ \/ mode /\ act < tgt /\ act' = act + 1
        \/ mode /\ act > tgt /\ act' = act - 1
        \/ ~mode /\ ~NoLeak /\ act' = act - 1
        \/ ~mode /\ ~NoDrift /\ act' = act + 1

LEMMA EnvironmentMoves ==
  OwnSetpoint /\ TypeOK /\ Environment => GasMoves /\ UNCHANGED <<mode, tgt>>
<1> SUFFICES ASSUME OwnSetpoint, TypeOK, Environment
             PROVE  GasMoves /\ UNCHANGED <<mode, tgt>>
  OBVIOUS
<1> USE DEF GasMoves, NoLeak, NoDrift, TypeOK, DeviceTypeOK
<1>1. CASE Ramp
  BY <1>1 DEF Ramp
<1>2. CASE CatchUp \/ SupplyChange
  BY <1>2 DEF CatchUp, SupplyChange
<1>3. CASE Leak \/ Drift(MaxM + 1)
  BY <1>3 DEF Leak, Drift
<1> QED
  BY <1>1, <1>2, <1>3 DEF Environment, DeviceStep, OwnSetpoint, PanelMode, PanelTarget

\* The writes of the polling thread leave the pressure where it is.
LEMMA ThreadMovesNoGas ==
  BeginTick \/ Evaluate \/ Decides \/ WriteSetpoint \/ WriteUnanswered \/ ReconcileStop
    \/ ReconcileResume \/ WriteMode
  => act' = act
<1>1. BeginTick \/ Evaluate \/ ReconcileStop \/ ReconcileResume => act' = act
  BY DEF BeginTick, Evaluate, ReconcileStop, ReconcileResume, device
<1>2. WriteSetpoint \/ WriteUnanswered \/ WriteMode => act' = act
  BY DEF WriteSetpoint, WriteUnanswered, WriteMode, SetTarget, AttemptMode, SetMode,
         device
<1> QED
  BY <1>1, <1>2, DecidesOnSample

\* Only WriteMode switches to Control; a stop may come from either thread.
LEMMA ModeMoves ==
  ASSUME OwnSetpoint, TypeInv, Next, mode' # mode
  PROVE  \/ mode' = FALSE /\ (Operator \/ WriteMode)
         \/ mode' = TRUE /\ pc = "enable" /\ WriteMode
<1>1. CASE WriteMode
  BY <1>1 DEF WriteMode, AttemptMode, SetMode, device
<1>2. CASE Operator
  BY <1>2, OperatorStaysOutside DEF OperatorOutside, TypeInv
<1>3. CASE Environment
  BY <1>3, EnvironmentMoves DEF TypeInv
<1>4. CASE BeginTick \/ Evaluate \/ ReconcileStop \/ ReconcileResume \/ Decides
             \/ WriteSetpoint \/ WriteUnanswered
  BY <1>4, DecidesOnSample
     DEF BeginTick, Evaluate, ReconcileStop, ReconcileResume, WriteSetpoint,
         WriteUnanswered, SetTarget, device
<1> QED
  BY <1>1, <1>2, <1>3, <1>4, NextCases

LEMMA GasStep == OwnSetpoint /\ TypeInv /\ Next => GasMoves
<1> SUFFICES ASSUME OwnSetpoint, TypeInv, Next PROVE GasMoves
  OBVIOUS
<1>1. CASE Environment
  BY <1>1, EnvironmentMoves DEF TypeInv
<1>2. CASE Operator
  BY <1>2, OperatorStaysOutside DEF OperatorOutside, TypeInv, GasMoves
<1> QED
  BY <1>1, <1>2, ThreadMovesNoGas, NextCases DEF GasMoves

\* Every write to the output shows at once.
LEMMA ShownStep ==
  ASSUME OwnSetpoint, NoLag, shown = mode, Next
  PROVE  shown' = mode'
<1>1. ASSUME NEW b \in BOOLEAN, AttemptMode(b) PROVE shown' = mode'
  BY <1>1 DEF AttemptMode, SetMode, NoLag, device
<1>2. CASE WriteMode \/ EmergencyStop
  BY <1>1, <1>2 DEF WriteMode, EmergencyStop
<1>3. CASE Environment
  BY <1>3 DEF Environment, DeviceStep, Ramp, CatchUp, Leak, Drift, SupplyChange,
              PanelMode, PanelTarget, OwnSetpoint
<1>4. CASE Operator /\ ~EmergencyStop
  BY <1>4 DEF Operator, Pause, Abort, Quit, AbandonStep, Resume, Reset, SetUserTarget,
              Configure, ConfirmStop, device
<1>5. CASE BeginTick \/ Evaluate \/ ReconcileStop \/ ReconcileResume \/ Decides
             \/ WriteSetpoint \/ WriteUnanswered
  BY <1>5, DecidesOnSample
     DEF BeginTick, Evaluate, ReconcileStop, ReconcileResume, WriteSetpoint,
         WriteUnanswered, SetTarget, device
<1> QED
  BY <1>2, <1>3, <1>4, <1>5, NextCases

LEMMA OutputSeenStep ==
  ASSUME OwnSetpoint, NoLag, TypeInv, OutputSeen, Next
  PROVE  OutputSeen'
<1>1. shown' = mode'
  BY ShownStep DEF OutputSeen
<1>2. Seen' /\ ~membraneStatus'.mode => ~mode'
  <2> SUFFICES ASSUME Seen', ~membraneStatus'.mode PROVE ~mode'
    OBVIOUS
  <2>1. CASE BeginTick
    BY <2>1, ShownStep DEF BeginTick, Seen, OutputSeen, Status, Connected, device
  <2>2. CASE Evaluate \/ Decides
    BY <2>2, DecidesEffect, DecidesOnSample DEF Evaluate, Seen, OutputSeen, Connected, device
  <2>3. CASE Operator
    BY <2>3, OperatorStaysOutside DEF OperatorOutside, TypeInv, Seen, OutputSeen, Connected
  <2>4. CASE Environment
    BY <2>4, EnvironmentEffect, EnvironmentMoves DEF TypeInv, Seen, OutputSeen, Connected
  <2>5. CASE WriteSetpoint \/ WriteUnanswered \/ ReconcileStop \/ ReconcileResume \/ WriteMode
    BY <2>5, WriteEffect, ReconcileEffect DEF Seen
  <2> QED
    BY <2>1, <2>2, <2>3, <2>4, <2>5, NextCases
<1> QED
  BY <1>1, <1>2 DEF OutputSeen

LEMMA OutputSeenHolds == OwnSetpoint /\ NoLag => (Spec => []OutputSeen)
<1> SUFFICES ASSUME OwnSetpoint, NoLag PROVE Spec => []OutputSeen
  OBVIOUS
<1>1. Init => OutputSeen
  BY DEF Init, DeviceInit, OutputSeen, Seen
<1>2. TypeInv /\ OutputSeen /\ [Next]_vars => OutputSeen'
  <2> SUFFICES ASSUME TypeInv, OutputSeen, UNCHANGED vars PROVE OutputSeen'
    BY OutputSeenStep
  <2> QED
    BY DEF vars, device, sensed, tick, OutputSeen, Seen, Connected
<1>3. WriteInv => TypeInv
  BY DEF WriteInv
<1> QED
  BY WriteInvHolds, <1>1, <1>2, <1>3, PTL DEF Spec

\* The setpoint of the device is lowered only with its output in Measure: a step in
\* Control raises it, and a staged or held setpoint waits for Measure.
THEOREM LoweredInMeasure == OwnSetpoint /\ NoLag => (Spec => LoweredOnlyInMeasure)
<1> SUFFICES ASSUME OwnSetpoint, NoLag PROVE Spec => LoweredOnlyInMeasure
  OBVIOUS
<1>1. WriteInv /\ OutputSeen /\ [Next]_vars => [tgt' < tgt => ~mode]_vars
  <2> SUFFICES ASSUME WriteInv, OutputSeen, [Next]_vars, tgt' < tgt PROVE ~mode
    OBVIOUS
  <2>1. tgt \in Int /\ tgt' \in Int
    BY TypeStep DEF WriteInv, TypeInv, TypeOK, DeviceTypeOK
  <2>2. pc = "write" /\ tgt' = plan.after /\ membraneStatus.tgt = tgt
    BY <2>1, OnlyWritesMove
  <2>3. plan.kind # "issue"
    BY <2>1, <2>2, ControllerAssumption DEF WriteInv, PlanVetted
  <2> QED
    BY <2>2, <2>3 DEF WriteInv, WriteVetted, PlanVetted, InMeasure, OutputSeen, Seen, ShowsMode
<1> QED
  BY WriteInvHolds, OutputSeenHolds, <1>1, PTL DEF Spec, LoweredOnlyInMeasure

\* In Measure the pressure has not fallen below the one in the status.
PressureSeen == Seen /\ ~membraneStatus.mode => membraneStatus.act <= act

LEMMA PressureSeenStep ==
  ASSUME OwnSetpoint, NoLag, NoLeak, TypeInv, OutputSeen, PressureSeen, Next
  PROVE  PressureSeen'
<1> USE DEF PressureSeen, Seen
<1>1. act \in Int /\ act' \in Int /\ mode \in BOOLEAN
  BY TypeStep DEF TypeInv, TypeOK, DeviceTypeOK
<1>2. CASE BeginTick
  BY <1>1, <1>2 DEF BeginTick, Status, Connected, device
<1>3. CASE Evaluate \/ Decides
  BY <1>3, DecidesEffect, ThreadMovesNoGas DEF Evaluate, Connected
<1>4. CASE Operator
  BY <1>4, OperatorStaysOutside DEF OperatorOutside, TypeInv, Connected
<1>5. CASE Environment
  <2> SUFFICES ASSUME Seen', ~membraneStatus'.mode
               PROVE  membraneStatus'.act <= act'
    OBVIOUS
  <2>1. UNCHANGED <<membraneStatus, poll, pc>> /\ GasMoves
    BY <1>5, EnvironmentEffect, EnvironmentMoves DEF TypeInv
  <2>2. ~mode /\ membraneStatus.act <= act /\ membraneStatus \in StatusRecord
    BY <2>1, ConnectedStatus DEF OutputSeen, TypeInv, Connected
  <2> QED
    BY <1>1, <2>1, <2>2 DEF GasMoves, StatusRecord
<1>6. CASE WriteSetpoint \/ WriteUnanswered \/ ReconcileStop \/ ReconcileResume \/ WriteMode
  BY <1>6, WriteEffect, ReconcileEffect
<1> QED
  BY <1>2, <1>3, <1>4, <1>5, <1>6, NextCases

LEMMA PressureSeenHolds == OwnSetpoint /\ NoLag /\ NoLeak => (Spec => []PressureSeen)
<1> SUFFICES ASSUME OwnSetpoint, NoLag, NoLeak PROVE Spec => []PressureSeen
  OBVIOUS
<1>1. Init => PressureSeen
  BY DEF Init, PressureSeen, Seen
<1>2. WriteInv /\ OutputSeen /\ PressureSeen /\ [Next]_vars => PressureSeen'
  <2> SUFFICES ASSUME PressureSeen, UNCHANGED vars PROVE PressureSeen'
    BY PressureSeenStep DEF WriteInv
  <2> QED
    BY DEF vars, device, sensed, tick, PressureSeen, Seen, Connected
<1> QED
  BY WriteInvHolds, OutputSeenHolds, <1>1, <1>2, PTL DEF Spec

\* While a lowered target holds the controller, whenever it was lowered, no setpoint is
\* written above the pressure.
THEOREM NoPushUnderReduction ==
  OwnSetpoint /\ NoLag /\ NoLeak => (Spec => NoPushWhileReduced)
<1> SUFFICES ASSUME OwnSetpoint, NoLag, NoLeak PROVE Spec => NoPushWhileReduced
  OBVIOUS
<1>1. WriteInv /\ PressureSeen /\ [Next]_vars =>
        [targetReductionHold /\ tgt' # tgt => tgt' <= act]_vars
  <2> SUFFICES ASSUME WriteInv, PressureSeen, [Next]_vars, targetReductionHold, tgt' # tgt
               PROVE  tgt' <= act
    OBVIOUS
  <2>1. pc = "write" /\ tgt' = plan.after
    BY OnlyWritesMove
  <2>2. plan.kind = "hold"
    BY <2>1 DEF WriteInv, WriteVetted
  <2> QED
    BY <2>1, <2>2 DEF WriteInv, WriteVetted, PlanVetted, InMeasure, PressureSeen, Seen, ShowsMode
<1> QED
  BY WriteInvHolds, PressureSeenHolds, <1>1, PTL DEF Spec, NoPushWhileReduced

-----------------------------------------------------------------------------
(* The stop of stop_and_confirm().                                           *)

\* Once the operator thread has got the lock after its abort, no tick can drive the
\* output any more: one that is under way finds the abort.
QuitTaken ==
  /\ quitting => aborted /\ op \in OpPlaces \ {"none", "stop"}
  /\ op \in {"confirm", "retry", "exited", "gaveUp"} =>
       /\ quitting
       /\ pc \in {"idle", "evaluate", "apply", "reconcile", "disable"}
       /\ pc = "apply" => verdict = "abort"
       /\ pc = "reconcile" => stopIntended

QuitInv == QuitTaken /\ ConfirmedStopHolds

LEMMA QuitInit == Init => QuitInv
BY DEF Init, QuitInv, QuitTaken, ConfirmedStopHolds

\* What the polling thread does leaves the operator where it is, and an abort latched.
LEMMA ThreadKeepsAbort ==
  ASSUME TypeInv, PollingThread
  PROVE  UNCHANGED <<op, quitting>> /\ (aborted => aborted')
<1>1. CASE Evaluate
  <2>1. UNCHANGED operator /\ aborted' = (aborted \/ verdict' = "abort")
    BY <1>1 DEF Evaluate
  <2> QED
    BY <2>1 DEF operator
<1>5. CASE BeginTick
  BY <1>5 DEF BeginTick, operator, safety
<1>2. CASE Decides
  BY <1>2, QuietTickShape
     DEF Decides, ApplyAbort, ApplyPause, KeepRateHold, ConfirmRateHold, StartRatePause,
         StageRateHold, EnterPause, QuietTick, ApplyNoSample, ApplyHold, ApplyStayHold,
         ConfirmStaged, DiscardStaged, AwaitReadBack, AwaitSettle, AwaitOutput, NoCommand,
         PauseForSupply, DecideStep, Sizes, Advancing, SafeTick, StopIntended, LatchPause,
         operator, safety
<1>3. CASE WriteSetpoint \/ WriteUnanswered
  BY <1>3 DEF WriteSetpoint, WriteUnanswered, Book, CommandIssued, operator
<1>4. CASE ReconcileStop \/ ReconcileResume \/ WriteMode
  <2>1. UNCHANGED <<operator, safety>>
    BY <1>4 DEF ReconcileStop, ReconcileResume, WriteMode
  <2> QED
    BY <2>1 DEF operator, safety
<1> QED
  BY <1>1, <1>2, <1>3, <1>4, <1>5 DEF PollingThread, Decides, QuietTick

LEMMA QuitStep ==
  ASSUME OwnSetpoint, TypeInv, OutputSeen, QuitInv, Next
  PROVE  QuitInv'
<1> USE DEF QuitInv, QuitTaken, ConfirmedStopHolds
<1>1. CASE PollingThread
  <2>1. UNCHANGED <<op, quitting>> /\ (aborted => aborted')
    BY <1>1, ThreadKeepsAbort
  <2>2. op = "exited" => ~mode'
    BY <1>1, ModeMoves
  <2>3. ASSUME op \in {"confirm", "retry", "exited", "gaveUp"}
        PROVE  /\ pc' \in {"idle", "evaluate", "apply", "reconcile", "disable"}
               /\ pc' = "apply" => verdict' = "abort"
               /\ pc' = "reconcile" => stopIntended'
    <3>0. quitting /\ aborted
      BY <2>3
    <3>1. CASE pc \in {"idle", "evaluate"}
      <4>1. ASSUME Evaluate PROVE verdict' = "abort" /\ pc' = "apply"
        BY <3>0, <4>1 DEF Evaluate, Verdict
      <4>2. ~BeginTick
        BY <3>0 DEF BeginTick
      <4> QED
        BY <1>1, <3>1, <4>1, <4>2, DecidesEffect, WriteEffect, ReconcileEffect
           DEF PollingThread, Decides, QuietTick
    <3>2. CASE pc = "apply"
      <4>1. verdict = "abort"
        BY <2>3, <3>2
      <4>2. ApplyAbort
        BY <1>1, <3>2, <4>1, QuietTickShape, WriteEffect, ReconcileEffect
           DEF PollingThread, BeginTick, Evaluate, QuietTick, SafeTick, ApplyPause,
               KeepRateHold, ConfirmRateHold, StartRatePause, StageRateHold, EnterPause,
               DecideStep, Sizes, Advancing
      <4> QED
        BY <4>2 DEF ApplyAbort, StopIntended
    <3>3. CASE pc \in {"reconcile", "disable"}
      BY <1>1, <2>3, <3>3, DecidesEffect, WriteEffect
         DEF PollingThread, Decides, QuietTick, BeginTick, Evaluate, ReconcileStop,
             ReconcileResume, WriteMode
    <3> QED
      BY <2>3, <3>1, <3>2, <3>3
  <2> QED
    BY <2>1, <2>2, <2>3
<1>2. CASE Operator
  <2>1. /\ UNCHANGED <<verdict, pc>> /\ mode' \in {FALSE, mode}
        /\ stopIntended => stopIntended'
    BY <1>2, OperatorStaysOutside DEF OperatorOutside, TypeInv
  <2>2. CASE Quit
    BY <2>1, <2>2 DEF Quit, OperatorMay, LatchAbort, OpPlaces
  <2>3. CASE EmergencyStop
    BY <2>1, <2>3 DEF EmergencyStop, OpPlaces, safety
  <2>4. CASE AbandonStep
    BY <2>1, <2>4 DEF AbandonStep, OpPlaces, Locked, safety, TypeInv, TypeOK, TickTypeOK,
                      Places
  <2>5. CASE ConfirmStop
    BY <2>1, <2>5 DEF ConfirmStop, OpPlaces, OutputSeen, safety, device
  <2>6. CASE Pause \/ Abort \/ Resume \/ Reset \/ SetUserTarget \/ Configure
    <3>1. op = "none" /\ ~quitting /\ op' \in {"none", "halt", "stop"} /\ quitting' = quitting
      BY <2>6 DEF Pause, Abort, Resume, Reset, SetUserTarget, LowerTarget, MoveTarget,
                  Configure, OperatorMay, operator, TypeInv, TypeOK, TickTypeOK
    <3> QED
      BY <3>1
  <2> QED
    BY <1>2, <2>2, <2>3, <2>4, <2>5, <2>6 DEF Operator
<1>3. CASE Environment
  <2>1. UNCHANGED <<mode, op, quitting, aborted, stopIntended, verdict, pc>>
    BY <1>3, EnvironmentMoves DEF Environment, safety, operator, tick, TypeInv
  <2> QED
    BY <2>1
<1> QED
  BY <1>1, <1>2, <1>3 DEF Next

\* When stop_and_confirm() has seen the output off, the output stays off, whatever tick
\* was under way and whatever answers are lost.
THEOREM ConfirmedStopStands == OwnSetpoint /\ NoLag => (Spec => []ConfirmedStopHolds)
<1> SUFFICES ASSUME OwnSetpoint, NoLag PROVE Spec => []ConfirmedStopHolds
  OBVIOUS
<1>1. WriteInv /\ OutputSeen /\ QuitInv /\ [Next]_vars => QuitInv'
  <2> SUFFICES ASSUME QuitInv, UNCHANGED vars PROVE QuitInv'
    BY QuitStep DEF WriteInv
  <2> QED
    BY DEF vars, device, safety, tick, operator, QuitInv, QuitTaken, ConfirmedStopHolds
<1>2. QuitInv => ConfirmedStopHolds
  BY DEF QuitInv
<1> QED
  BY WriteInvHolds, OutputSeenHolds, QuitInit, <1>1, <1>2, PTL DEF Spec

-----------------------------------------------------------------------------
(* Control is enabled only by the verdict of this tick.                      *)

\* A drive that survives a decision has this tick's verdict behind it.
DriveJudged ==
  /\ ratePauseHolding => ratePauseSetpoint # None /\ Close(tgt, ratePauseSetpoint)
  /\ pc = "write" /\ plan.kind = "issue" => verdict = "ok"
  /\ pc = "reconcile" /\ ~stopIntended =>
       \/ verdict = "ok"
       \/ verdict = "rate" /\ ratePauseHolding /\ Close(tgt, ratePauseSetpoint)

JudgedInv == DriveJudged /\ EnableMatchesVerdict

LEMMA JudgedInit == Init => JudgedInv
BY DEF Init, SafetyInit, JudgedInv, DriveJudged, EnableMatchesVerdict

\* A hold that stays armed through a rate pause is still the last setpoint commanded.
LEMMA DecideJudged ==
  ASSUME OwnSetpoint, IInv, JudgedInv, Decides
  PROVE  DriveJudged'
<1> USE DEF DriveJudged, JudgedInv
<1>1. /\ pc = "apply" /\ pc' \in {"reconcile", "write"}
      /\ UNCHANGED <<tgt, lastCmd, verdict>>
  BY DecidesEffect
<1>2. CASE ApplyAbort \/ ApplyPause \/ StartRatePause \/ StageRateHold
  BY <1>1, <1>2
     DEF ApplyAbort, ApplyPause, StartRatePause, StageRateHold, EnterPause, EndRateHold,
         StopIntended
<1>3. CASE KeepRateHold
  <2>1. /\ verdict = "rate" /\ ratePauseHolding /\ stopIntended' = stopIntended
        /\ UNCHANGED <<ratePauseHolding, ratePauseSetpoint>> /\ pc' = "reconcile"
    BY <1>3 DEF KeepRateHold, EnterPause, RateOnlySoFar, safety
  <2> QED
    BY <1>1, <2>1 DEF Close
<1>4. CASE ConfirmRateHold
  <2>1. /\ verdict = "rate" /\ ratePauseHolding' /\ ratePauseSetpoint' = ratePauseSetpoint
        /\ ratePauseSetpoint # None /\ pc' = "reconcile"
        /\ poll = "fresh" /\ Connected(membraneStatus)
        /\ Close(membraneStatus.tgt, ratePauseSetpoint)
    BY <1>4 DEF ConfirmRateHold, EnterPause, RateOnlySoFar, HoldReadBack, ShowsTarget
  <2>2. membraneStatus.tgt = tgt
    BY <1>1, <2>1 DEF IInv, ReadBackTrue
  <2> QED
    BY <1>1, <2>1, <2>2 DEF Close
<1>5. CASE QuietTick \/ DecideStep
  <2>1. SafeTick
    BY <1>5, QuietTickShape DEF DecideStep, Sizes, Advancing
  <2> QED
    BY <1>1, <2>1 DEF SafeTick, EndRateHold
<1> QED
  BY <1>2, <1>3, <1>4, <1>5 DEF Decides

LEMMA JudgedStep ==
  ASSUME Undisturbed, IInv, JudgedInv, Next
  PROVE  JudgedInv'
<1> USE DEF JudgedInv, DriveJudged, EnableMatchesVerdict
<1>0. OwnSetpoint /\ TypeInv
  BY DEF Undisturbed, IInv
<1>1. CASE Decides
  BY <1>0, <1>1, DecideJudged, DecidesEffect
<1>2. CASE WriteSetpoint \/ WriteUnanswered
  <2> PICK ack \in BOOLEAN : pc = "write" /\ pc' = "reconcile" /\ Book(ack)
    BY <1>2, WriteEffect
  <2>1. UNCHANGED <<verdict, ratePauseHolding, stopIntended>>
    BY DEF Book, CommandIssued
  <2>2. ~stopIntended => plan.kind = "issue"
    BY DEF IInv, WritesAlone
  <2>3. ~ratePauseHolding'
    BY <2>1 DEF IInv, WritesAlone
  <2> QED
    BY <2>1, <2>2, <2>3
<1>3. CASE ReconcileStop \/ ReconcileResume
  BY <1>3 DEF ReconcileStop, ReconcileResume, device, safety, ratePause, Close
<1>4. CASE BeginTick \/ Evaluate \/ WriteMode
  <2>1. UNCHANGED <<tgt, ratePause>> /\ pc' \in {"idle", "evaluate", "apply"}
    BY <1>4, ReconcileEffect DEF BeginTick, Evaluate, WriteMode, device
  <2> QED
    BY <2>1 DEF ratePause, Close
<1>5. CASE Operator
  <2>1. /\ UNCHANGED <<tgt, verdict, plan, pc>> /\ (stopIntended => stopIntended')
        /\ Locked => UNCHANGED <<ratePauseHolding, ratePauseSetpoint>>
    BY <1>0, <1>5, OperatorStaysOutside DEF OperatorOutside, TypeInv
  <2>2. ratePauseHolding' =>
          ratePauseHolding /\ ratePauseSetpoint' = ratePauseSetpoint
    BY <1>5
       DEF Operator, Pause, Abort, Quit, EmergencyStop, AbandonStep, Resume, Reset,
           SetUserTarget, LowerTarget, MoveTarget, Configure, ConfirmStop, Abandon,
           EndRateHold, ratePause
  <2> QED
    BY <2>1, <2>2 DEF Locked, Close
<1>6. CASE Environment
  BY <1>0, <1>6, EnvironmentEffect DEF Environment, ratePause, Close
<1> QED
  BY <1>1, <1>2, <1>3, <1>4, <1>5, <1>6, NextCases

\* Control is enabled only by a tick found safe, or for the confirmed hold of a pause
\* that has been nothing but the rate, on that hold's own setpoint.
THEOREM EnabledByVerdict == Undisturbed => (Spec => []EnableMatchesVerdict)
<1> SUFFICES ASSUME Undisturbed PROVE Spec => []EnableMatchesVerdict
  OBVIOUS
<1>1. IInv /\ JudgedInv /\ [Next]_vars => JudgedInv'
  <2> SUFFICES ASSUME JudgedInv, UNCHANGED vars PROVE JudgedInv'
    BY JudgedStep
  <2> QED
    BY DEF vars, device, safety, ratePause, tick, JudgedInv, DriveJudged,
           EnableMatchesVerdict, Close
<1>2. JudgedInv => EnableMatchesVerdict
  BY DEF JudgedInv
<1> QED
  BY InvHolds, JudgedInit, <1>1, <1>2, PTL DEF Spec

=============================================================================
