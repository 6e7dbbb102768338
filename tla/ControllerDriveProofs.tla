------------------------ MODULE ControllerDriveProofs ------------------------
(***************************************************************************)
(* Proofs of how Controller's runs say it drives the gas: the membrane is  *)
(* armed on top of the pressure, never driven down and never more than one *)
(* step ahead of it, for every value of the constants and of the           *)
(* tolerances.                                                             *)
(***************************************************************************)
EXTENDS ControllerSafetyProofs

-----------------------------------------------------------------------------
(* Arming Control: the hold of a rate pause, and the staged setpoint.        *)

\* A hold that waits for its read-back was taken at the pressure, in Measure, and
\* the pressure has only fallen since.
HoldStaged ==
  ratePauseSetpoint # None /\ ~ratePauseHolding =>
    /\ stopIntended /\ ~mode /\ pc # "enable"
    /\ ratePauseSetpoint \in Int /\ act <= ratePauseSetpoint
    /\ Seen => membraneStatus.act <= ratePauseSetpoint

\* In Measure the pressure has not risen above the one in the status.
NotRisen == Seen /\ ~membraneStatus.mode => act <= membraneStatus.act

LEMMA NotRisenStep ==
  ASSUME OwnSetpoint, NoLag, NoDrift, TypeInv, OutputSeen, NotRisen, Next
  PROVE  NotRisen'
<1> USE DEF NotRisen, Seen
<1>1. act \in Int /\ act' \in Int /\ mode \in BOOLEAN
  BY TypeStep DEF TypeInv, TypeOK, DeviceTypeOK
<1>2. CASE BeginTick
  BY <1>1, <1>2 DEF BeginTick, Status, Connected, device
<1>3. CASE Evaluate \/ Decides
  BY <1>3, DecidesEffect, ThreadMovesNoGas DEF Evaluate, Connected
<1>4. CASE Operator
  BY <1>4, OperatorStaysOutside DEF OperatorOutside, TypeInv, Connected
<1>5. CASE Environment
  <2> SUFFICES ASSUME Seen', ~membraneStatus'.mode
               PROVE  act' <= membraneStatus'.act
    OBVIOUS
  <2>1. UNCHANGED <<membraneStatus, poll, pc>> /\ GasMoves
    BY <1>5, EnvironmentEffect, EnvironmentMoves DEF TypeInv
  <2>2. ~mode /\ act <= membraneStatus.act /\ membraneStatus \in StatusRecord
    BY <2>1, ConnectedStatus DEF OutputSeen, TypeInv, Connected
  <2> QED
    BY <1>1, <2>1, <2>2 DEF GasMoves, StatusRecord
<1>6. CASE WriteSetpoint \/ WriteUnanswered \/ ReconcileStop \/ ReconcileResume \/ WriteMode
  BY <1>6, WriteEffect, ReconcileEffect
<1> QED
  BY <1>2, <1>3, <1>4, <1>5, <1>6, NextCases

\* An operator's call ends a hold or leaves it alone.
LEMMA OperatorEndsHold ==
  Operator =>
    \/ UNCHANGED <<ratePauseHolding, ratePauseSetpoint>>
    \/ ~ratePauseHolding' /\ ratePauseSetpoint' = None
BY DEF Operator, Pause, Abort, Quit, EmergencyStop, AbandonStep, Resume, Reset,
       SetUserTarget, LowerTarget, MoveTarget, Configure, ConfirmStop, Abandon,
       EndRateHold, ratePause

\* So does a decision, which else confirms it.
LEMMA DecideKeepsHold ==
  ASSUME Decides
  PROVE  \/ UNCHANGED <<ratePauseHolding, ratePauseSetpoint>>
         \/ ~ratePauseHolding' /\ ratePauseSetpoint' = None
         \/ ratePauseHolding' /\ ratePauseSetpoint' = ratePauseSetpoint
<1>1. CASE QuietTick \/ DecideStep
  <2>1. SafeTick
    BY <1>1, QuietTickShape DEF DecideStep, Sizes, Advancing
  <2> QED
    BY <2>1 DEF SafeTick, EndRateHold
<1> QED
  BY <1>1 DEF Decides, ApplyAbort, ApplyPause, KeepRateHold, ConfirmRateHold,
              StartRatePause, StageRateHold, EndRateHold

\* Only ConfirmRateHold and ConfirmStaged lift a stop.
LEMMA LiftedByRateHold ==
  ASSUME Decides, stopIntended, ~stopIntended'
  PROVE  ConfirmRateHold \/ ConfirmStaged
<1>1. ~(ApplyAbort \/ ApplyPause \/ KeepRateHold \/ StartRatePause \/ StageRateHold)
  BY DEF ApplyAbort, ApplyPause, KeepRateHold, StartRatePause, StageRateHold,
         StopIntended, safety
<1>2. ~DecideStep
  BY DEF DecideStep, safety
<1>3. QuietTick => ConfirmStaged
  BY DEF QuietTick, ApplyNoSample, ApplyHold, ApplyStayHold, DiscardStaged,
         AwaitReadBack, AwaitSettle, AwaitOutput, NoCommand, PauseForSupply,
         StopIntended, LatchPause, safety
<1> QED
  BY <1>1, <1>2, <1>3 DEF Decides

LEMMA HoldStagedStep ==
  ASSUME OwnSetpoint, NoLag, NoDrift, WriteInv, OutputSeen, NotRisen, HoldStaged, Next
  PROVE  HoldStaged'
<1> SUFFICES ASSUME ratePauseSetpoint' # None, ~ratePauseHolding'
             PROVE  /\ stopIntended' /\ ~mode' /\ pc' # "enable"
                    /\ ratePauseSetpoint' \in Int /\ act' <= ratePauseSetpoint'
                    /\ Seen' => membraneStatus'.act <= ratePauseSetpoint'
  BY DEF HoldStaged
<1>0. TypeInv /\ act \in Int /\ act' \in Int /\ mode \in BOOLEAN
  BY TypeStep DEF WriteInv, TypeInv, TypeOK, DeviceTypeOK
<1>1. CASE BeginTick
  BY <1>0, <1>1 DEF BeginTick, HoldStaged, Status, Seen, Connected, device, safety, ratePause
<1>2. CASE Evaluate
  BY <1>2 DEF Evaluate, HoldStaged, Seen, Connected, device, ratePause
<1>3. CASE Decides
  <2>1. UNCHANGED <<ratePauseHolding, ratePauseSetpoint>>
    BY <1>3, DecideKeepsHold
  <2>2. stopIntended /\ ~ConfirmRateHold
    BY <2>1 DEF HoldStaged, ConfirmRateHold
  <2>3. ~ConfirmStaged
    BY DEF ConfirmStaged, Advancing, SafeTick, EndRateHold
  <2>4. stopIntended'
    BY <1>3, <2>2, <2>3, LiftedByRateHold
  <2> QED
    BY <1>3, <2>1, <2>4, DecidesEffect, DecidesOnSample
       DEF HoldStaged, Seen, Connected
<1>4. CASE WriteSetpoint \/ WriteUnanswered
  <2> PICK ack \in BOOLEAN : pc = "write" /\ pc' = "reconcile" /\ Book(ack)
    BY <1>4, WriteEffect
  <2>1. UNCHANGED <<act, mode, stopIntended, ratePauseHolding>> /\ ~Seen'
    BY <1>4 DEF WriteSetpoint, WriteUnanswered, SetTarget, device, Book, CommandIssued,
                Seen
  <2>2. CASE plan.kind = "hold"
    <3>1. InMeasure(membraneStatus) /\ stopIntended /\ plan.after = membraneStatus.act
      BY <2>2 DEF WriteInv, PlanVetted
    <3>2. Seen
      BY DEF WriteInv, WriteVetted, Seen
    <3>3. membraneStatus.act \in Int
      BY <1>0, <3>1, ConnectedStatus DEF InMeasure, StatusRecord, TypeInv, ShowsMode
    <3>4. ratePauseSetpoint' = plan.after
      BY <2>2 DEF Book
    <3> QED
      BY <2>1, <3>1, <3>2, <3>3, <3>4 DEF NotRisen, OutputSeen, InMeasure, ShowsMode
  <2>3. CASE plan.kind # "hold"
    <3>1. UNCHANGED ratePauseSetpoint
      BY <2>3 DEF Book
    <3> QED
      BY <2>1, <3>1 DEF HoldStaged
  <2> QED
    BY <2>2, <2>3
<1>5. CASE ReconcileStop \/ ReconcileResume \/ WriteMode
  <2>1. UNCHANGED <<ratePauseHolding, ratePauseSetpoint, stopIntended>> /\ act' = act
    BY <1>5, ThreadMovesNoGas
       DEF ReconcileStop, ReconcileResume, WriteMode, ratePause, safety
  <2>2. stopIntended /\ ~mode /\ pc # "enable"
    BY <2>1 DEF HoldStaged
  <2>3. pc' # "enable" /\ ~Seen'
    BY <1>5, <2>2 DEF ReconcileStop, ReconcileResume, WriteMode, InMeasure, Seen, ShowsMode
  <2>4. ~mode'
    BY <1>0, <2>2, <1>5, ModeMoves
  <2> QED
    BY <2>1, <2>2, <2>3, <2>4 DEF HoldStaged
<1>6. CASE Operator
  <2>1. UNCHANGED <<ratePauseHolding, ratePauseSetpoint>>
    BY <1>6, OperatorEndsHold
  <2>2. /\ UNCHANGED <<tgt, act, membraneStatus, poll, pc>> /\ mode' \in {FALSE, mode}
        /\ stopIntended => stopIntended'
    BY <1>0, <1>6, OperatorStaysOutside DEF OperatorOutside, TypeInv
  <2>3. /\ stopIntended /\ ~mode /\ pc # "enable"
        /\ ratePauseSetpoint \in Int /\ act <= ratePauseSetpoint
        /\ Seen => membraneStatus.act <= ratePauseSetpoint
    BY <2>1 DEF HoldStaged
  <2>4. Seen' = Seen
    BY <2>2 DEF Seen, Connected
  <2>5. stopIntended'
    BY <2>2, <2>3, Zenon
  <2>6. ~mode'
    BY <1>0, <2>2, <2>3
  <2> QED
    BY <2>1, <2>2, <2>3, <2>4, <2>5, <2>6
<1>7. CASE Environment
  <2>1. /\ UNCHANGED <<ratePauseHolding, ratePauseSetpoint, stopIntended, membraneStatus,
                       poll, pc, mode>>
        /\ GasMoves
    BY <1>0, <1>7, EnvironmentMoves
       DEF Environment, safety, ratePause, sensed, tick, TypeInv
  <2>2. act' <= act
    BY <1>0, <2>1 DEF GasMoves, HoldStaged
  <2> QED
    BY <1>0, <2>1, <2>2 DEF HoldStaged, Seen, Connected
<1> QED
  BY <1>1, <1>2, <1>3, <1>4, <1>5, <1>6, <1>7, NextCases

HoldInv == NotRisen /\ HoldStaged

LEMMA HoldInvHolds == OwnSetpoint /\ NoLag /\ NoDrift => (Spec => []HoldInv)
<1> SUFFICES ASSUME OwnSetpoint, NoLag, NoDrift PROVE Spec => []HoldInv
  OBVIOUS
<1>1. Init => HoldInv
  BY DEF Init, HoldInv, NotRisen, HoldStaged, Seen
<1>2. WriteInv /\ OutputSeen /\ HoldInv /\ [Next]_vars => HoldInv'
  <2> SUFFICES ASSUME HoldInv, UNCHANGED vars PROVE HoldInv'
    BY NotRisenStep, HoldStagedStep DEF HoldInv, WriteInv
  <2> QED
    BY DEF vars, device, safety, ratePause, sensed, tick, HoldInv, NotRisen, HoldStaged,
           Seen, Connected
<1> QED
  BY WriteInvHolds, OutputSeenHolds, <1>1, <1>2, PTL DEF Spec

-----------------------------------------------------------------------------
(* Armed above the actual pressure.                                          *)

\* No sample ever rises too fast: there is no pause for the rate, and no hold of one.
NeverRushed == \A r \in Readings : ~r.fast

Calm ==
  /\ estimate # None => ~estimate.fast
  /\ verdict # "rate"

LEMMA CalmEvaluate ==
  ASSUME NeverRushed, TypeInv, Calm, Evaluate
  PROVE  Calm'
<1> PICK o \in Outcomes :
       /\ estimate' = o.is
       /\ \E disturbed, overLimit :
            verdict' = Verdict(membraneStatus, youngCmd', overLimit,
                               o.is # None /\ o.is.fast, disturbed,
                               resumeGrace' = "running", errRecent')
  BY DEF Evaluate
<1>1. o.is # None => ~o.is.fast
  <2>1. \A r \in Rejected : r # None => ~r.fast
    BY DEF Rejected, Calm, TypeInv, TypeOK, TickTypeOK, Reading
  <2> QED
    BY <2>1 DEF Outcomes, NeverRushed, Calm
<1> QED
  BY <1>1 DEF Calm, Verdict

LEMMA CalmStep == NeverRushed /\ TypeInv /\ Calm /\ Next => Calm'
<1> SUFFICES ASSUME NeverRushed, TypeInv, Calm, Next PROVE Calm'
  OBVIOUS
<1>1. CASE Operator
  <2>1. verdict' = verdict /\ (estimate' = estimate \/ estimate' = None)
    BY <1>1 DEF Operator, Pause, Abort, Quit, EmergencyStop, AbandonStep, Resume, Reset,
                SetUserTarget, Configure, ConfirmStop, sensed, tick
  <2> QED
    BY <2>1 DEF Calm
<1>2. CASE BeginTick \/ ReconcileStop \/ ReconcileResume \/ WriteMode \/ Environment
  BY <1>2 DEF BeginTick, ReconcileStop, ReconcileResume, WriteMode, Environment, Calm,
              sensed, tick
<1>3. CASE WriteSetpoint \/ WriteUnanswered
  BY <1>3 DEF WriteSetpoint, WriteUnanswered, Book, Calm
<1> QED
  BY <1>1, <1>2, <1>3, CalmEvaluate, NextCases, DecidesEffect, DecidesOnSample DEF Calm

\* What is armed is not below the pressure it was armed at.
LEMMA ArmedAbove ==
  ASSUME WriteInv, HoldStaged \/ Calm, Next, stopIntended, ~stopIntended'
  PROVE  membraneStatus.tgt >= membraneStatus.act - Larger(ArrivalTol, Tol)
<1>0. TypeInv /\ {ArrivalTol, Tol} \subseteq Nat
  BY SupervisorAssumption, ControllerAssumption DEF WriteInv
<1>1. ConfirmRateHold \/ ConfirmStaged
  <2>1. ~(BeginTick \/ Evaluate \/ Environment)
    BY DEF BeginTick, Evaluate, Environment, safety
  <2>2. ~(WriteSetpoint \/ WriteUnanswered)
    BY DEF WriteSetpoint, WriteUnanswered, Book, CommandIssued
  <2>3. ~Operator
    BY <1>0, OperatorStaysOutside DEF OperatorOutside, TypeInv
  <2> QED
    BY <2>1, <2>2, <2>3, NextCases, ReconcileEffect, LiftedByRateHold
<1>2. CASE ConfirmStaged
  <2>1. membraneStatus \in StatusRecord /\ ~StagedGapWrong
    BY <1>0, <1>2, ConnectedStatus DEF ConfirmStaged, StagedReadBack, ShowsTarget, TypeInv
  <2>2. membraneStatus.tgt - membraneStatus.act >= -ArrivalTol
    BY <1>0, <2>1 DEF StagedGapWrong, StatusRecord
  <2> QED
    BY <1>0, <2>1, <2>2 DEF StatusRecord, Larger
<1>3. CASE ConfirmRateHold
  <2>1. /\ pc = "apply" /\ verdict = "rate" /\ poll = "fresh" /\ Connected(membraneStatus)
        /\ ~ratePauseHolding /\ ratePauseSetpoint # None
        /\ Close(membraneStatus.tgt, ratePauseSetpoint)
    BY <1>3 DEF ConfirmRateHold, EnterPause, RateOnlySoFar, HoldReadBack, ShowsTarget
  <2>2. membraneStatus.act <= ratePauseSetpoint /\ ratePauseSetpoint \in Int
    BY <2>1 DEF HoldStaged, Calm, Seen
  <2>3. membraneStatus \in StatusRecord
    BY <1>0, <2>1, ConnectedStatus DEF TypeInv
  <2> QED
    BY <1>0, <2>1, <2>2, <2>3 DEF Close, Distance, Larger, StatusRecord
<1> QED
  BY <1>1, <1>2, <1>3

\* Whenever the stop is lifted, the setpoint read back is at the pressure read back or
\* above.  A staged setpoint is compared with the pressure again, the hold of a rate
\* pause is not: if there are such pauses, the gas must not creep up on the hold.
THEOREM ArmedAbovePressure ==
  OwnSetpoint /\ ((NoLag /\ NoDrift) \/ NeverRushed) => (Spec => ArmedAboveActual)
<1> SUFFICES ASSUME OwnSetpoint, (NoLag /\ NoDrift) \/ NeverRushed
             PROVE  Spec => ArmedAboveActual
  OBVIOUS
<1> DEFINE Above == stopIntended /\ ~stopIntended' =>
             membraneStatus.tgt >= membraneStatus.act - Larger(ArrivalTol, Tol)
<1>1. WriteInv /\ (HoldStaged \/ Calm) /\ [Next]_vars => [Above]_vars
  BY ArmedAbove
<1>2. CASE NoLag /\ NoDrift
  <2>1. HoldInv => HoldStaged
    BY DEF HoldInv
  <2> QED
    BY <1>1, <1>2, <2>1, WriteInvHolds, HoldInvHolds, PTL DEF Spec, ArmedAboveActual
<1>3. CASE NeverRushed
  <2>1. Init => Calm
    BY DEF Init, Calm
  <2>2. WriteInv /\ Calm /\ [Next]_vars => Calm'
    <3> SUFFICES ASSUME WriteInv, Calm, UNCHANGED vars PROVE Calm'
      BY <1>3, CalmStep DEF WriteInv
    <3> QED
      BY DEF vars, sensed, tick, Calm
  <2> QED
    BY <1>1, <2>1, <2>2, WriteInvHolds, PTL DEF Spec, ArmedAboveActual
<1> QED
  BY <1>2, <1>3

-----------------------------------------------------------------------------
(* Never driven down.                                                        *)

\* A staged setpoint was sized above the pressure, in Measure, where the pressure has
\* only fallen since.
StagedSteady ==
  stagedRearm # None =>
    /\ ~mode /\ pc # "enable"
    /\ stagedRearm.after \in Int /\ act < stagedRearm.after
    /\ stagedRearm.step <= MaxStep
    /\ Seen => ~membraneStatus.mode

\* Control is on, wanted or being switched on.
Driving == lastCmd # None /\ (mode \/ ~stopIntended \/ pc = "enable")

DrivenUp == Driving => act <= tgt + Tol

\* A step is issued only on top of an earlier command.
IssueCommanded == pc = "write" /\ plan.kind = "issue" => lastCmd # None

DriveInv == StagedSteady /\ DrivenUp /\ IssueCommanded

\* All that holds while the gas moves in Measure, if at all, by a leak.
GasInv == IInv /\ WriteInv /\ OutputSeen /\ HoldInv

\* What is left in flight once a decision has been taken and Control is wanted.
LEMMA DecideMotion ==
  ASSUME TypeInv, Decides, ~stopIntended'
  PROVE  \/ ConfirmStaged
         \/ ConfirmRateHold
         \/ ~stopIntended /\ pendingStep' \in SettleOutcomes
<1>0. pendingStep \in SettleOutcomes
  BY DEF SettleOutcomes
<1>1. CASE stopIntended
  BY <1>1, LiftedByRateHold
<1>2. CASE ApplyAbort \/ ApplyPause \/ StartRatePause \/ StageRateHold
  BY <1>2 DEF ApplyAbort, ApplyPause, StartRatePause, StageRateHold, StopIntended
<1>3. CASE ~stopIntended /\ KeepRateHold
  BY <1>0, <1>3 DEF KeepRateHold, motion
<1>4. CASE ~stopIntended /\ QuietTick
  BY <1>0, <1>4
     DEF QuietTick, ApplyNoSample, ApplyHold, ApplyStayHold, DiscardStaged,
         AwaitReadBack, AwaitSettle, AwaitOutput, NoCommand, PauseForSupply, Sizes,
         Advancing, StopIntended, LatchPause, motion
<1>5. CASE ~stopIntended /\ DecideStep
  BY <1>5 DEF DecideStep, Sizes, Advancing
<1> QED
  BY <1>1, <1>2, <1>3, <1>4, <1>5 DEF Decides

\* A decision stages nothing by itself.
LEMMA DecideStages == Decides => stagedRearm' \in {stagedRearm, None}
BY DEF Decides, ApplyAbort, ApplyPause, KeepRateHold, ConfirmRateHold, StartRatePause,
       StageRateHold, QuietTick, ApplyNoSample, ApplyHold, ApplyStayHold, ConfirmStaged,
       DiscardStaged, AwaitReadBack, AwaitSettle, AwaitOutput, NoCommand, PauseForSupply,
       DecideStep, Sizes, AbandonMotion, motion

\* What the read-back of a confirmed setpoint says of the device.
LEMMA ConfirmedStaged ==
  ASSUME GasInv, DriveInv, ConfirmStaged
  PROVE  /\ Seen /\ pc = "apply" /\ membraneStatus.tgt = tgt
         /\ membraneStatus \in StatusRecord /\ ~membraneStatus.mode
         /\ stagedRearm \in Staged /\ act < stagedRearm.after
         /\ stagedRearm.step <= MaxStep /\ Close(tgt, stagedRearm.after)
         /\ pendingStep' = stagedRearm.after
         /\ tgt - membraneStatus.act <= stagedRearm.step + ArrivalTol
<1>1. /\ pc = "apply" /\ poll = "fresh" /\ Connected(membraneStatus)
      /\ stagedRearm # None /\ Close(membraneStatus.tgt, stagedRearm.after)
      /\ ~StagedGapWrong /\ pendingStep' = stagedRearm.after
  BY DEF ConfirmStaged, Advancing, SafeTick, StagedReadBack, ShowsTarget
<1>2. Seen /\ membraneStatus.tgt = tgt /\ membraneStatus \in StatusRecord
  BY <1>1, ConnectedStatus DEF Seen, GasInv, IInv, TypeInv, ReadBackTrue
<1>3. stagedRearm \in Staged
  BY <1>1 DEF GasInv, IInv, TypeInv, TypeOK, IntentTypeOK
<1>4. membraneStatus.tgt - membraneStatus.act <= stagedRearm.step + ArrivalTol
  BY <1>1, <1>2, <1>3, ControllerAssumption DEF StagedGapWrong, StatusRecord, Staged
<1> QED
  BY <1>1, <1>2, <1>3, <1>4 DEF DriveInv, StagedSteady

LEMMA ConfirmedHold ==
  ASSUME GasInv, ConfirmRateHold
  PROVE  /\ Seen /\ pc = "apply" /\ membraneStatus.tgt = tgt
         /\ membraneStatus \in StatusRecord
         /\ ratePauseSetpoint \in Int /\ act <= ratePauseSetpoint
         /\ membraneStatus.act <= ratePauseSetpoint /\ Close(tgt, ratePauseSetpoint)
         /\ ~ratePauseHolding /\ ratePauseSetpoint # None /\ pendingStep' = None
<1>1. /\ pc = "apply" /\ poll = "fresh" /\ Connected(membraneStatus)
      /\ ~ratePauseHolding /\ ratePauseSetpoint # None
      /\ Close(membraneStatus.tgt, ratePauseSetpoint) /\ pendingStep' = None
  BY DEF ConfirmRateHold, EnterPause, HoldReadBack, ShowsTarget, AbandonMotion
<1>2. Seen /\ membraneStatus.tgt = tgt /\ membraneStatus \in StatusRecord
  BY <1>1, ConnectedStatus DEF Seen, GasInv, IInv, TypeInv, ReadBackTrue
<1> QED
  BY <1>1, <1>2 DEF GasInv, HoldInv, HoldStaged

\* A bound with a slack survives what can only help it.
LEMMA BoundKept ==
  ASSUME NEW a \in Int, NEW b \in Int, NEW c \in Int, NEW d \in Int, NEW slack \in Int,
         a <= b + slack, c <= a, b <= d
  PROVE  c <= d + slack
OBVIOUS

\* Close, as arithmetic.
LEMMA CloseBounds ==
  ASSUME NEW a \in Int, NEW b \in Int, Close(a, b)
  PROVE  a <= b + Tol /\ b <= a + Tol
BY SupervisorAssumption DEF Close, Distance

LEMMA GasTypes ==
  ASSUME GasInv, [Next]_vars
  PROVE  /\ TypeInv /\ TypeInv' /\ tgt \in Int /\ tgt' \in Int /\ act \in Int /\ act' \in Int
         /\ mode \in BOOLEAN /\ Tol \in Nat /\ ArrivalTol \in Nat /\ MaxStep \in Nat
         /\ stopIntended \in BOOLEAN /\ mode' \in BOOLEAN /\ stopIntended' \in BOOLEAN
BY TypeStep, SupervisorAssumption, ControllerAssumption
   DEF GasInv, IInv, TypeInv, TypeOK, DeviceTypeOK, SafetyTypeOK

\* In Measure the gas only falls, in Control it nears the setpoint.
LEMMA GasFallsOrRamps ==
  ASSUME OwnSetpoint, NoDrift, GasInv, Next
  PROVE  \/ act' = act
         \/ tgt' = tgt /\ mode' = mode /\ act' = act - 1 /\ (mode => act > tgt)
         \/ tgt' = tgt /\ mode' = mode /\ act' = act + 1 /\ mode /\ act < tgt
BY GasTypes, GasStep DEF GasMoves

LEMMA StagedSteadyStep ==
  ASSUME Undisturbed, NoLag, NoDrift, GasInv, DriveInv, Next
  PROVE  StagedSteady'
<1> SUFFICES ASSUME stagedRearm' # None
             PROVE  /\ ~mode' /\ pc' # "enable"
                    /\ stagedRearm'.after \in Int /\ act' < stagedRearm'.after
                    /\ stagedRearm'.step <= MaxStep
                    /\ Seen' => ~membraneStatus'.mode
  BY DEF StagedSteady
<1>0. OwnSetpoint /\ TypeInv /\ act \in Int /\ act' \in Int /\ mode \in BOOLEAN
  BY GasTypes DEF Undisturbed
<1>1. CASE WriteSetpoint \/ WriteUnanswered
  <2> PICK ack \in BOOLEAN : pc = "write" /\ pc' = "reconcile" /\ Book(ack)
    BY <1>1, WriteEffect
  <2>1. stagedRearm = None
    BY DEF GasInv, IInv, WritesAlone
  <2>2. plan.kind = "stage" /\ stagedRearm' = [after |-> plan.after, step |-> plan.step]
    BY <2>1 DEF Book, motion
  <2>3. /\ plan.step \in 1..MaxStep /\ plan.after = membraneStatus.act + plan.step
        /\ InMeasure(membraneStatus) /\ plan \in Plan
    BY <2>2 DEF GasInv, WriteInv, PlanVetted, TypeInv, CarriesOver
  <2>4. Seen /\ membraneStatus.act \in Int
    BY <1>0, <2>3, ConnectedStatus
       DEF GasInv, WriteInv, WriteVetted, Seen, InMeasure, StatusRecord, TypeInv, ShowsMode
  <2>5. ~mode /\ act <= membraneStatus.act
    BY <2>3, <2>4 DEF GasInv, OutputSeen, HoldInv, NotRisen, InMeasure, ShowsMode
  <2>6. act' = act /\ mode' = mode /\ ~Seen'
    BY <1>1 DEF WriteSetpoint, WriteUnanswered, SetTarget, device, Book, Seen
  <2> QED
    BY <1>0, <2>2, <2>3, <2>4, <2>5, <2>6, ControllerAssumption DEF Plan
<1>2. CASE ~(WriteSetpoint \/ WriteUnanswered)
  <2>1. stagedRearm' = stagedRearm
    <3>1. stagedRearm' \in {stagedRearm, None}
      BY <1>0, <1>2, NextCases, DecideStages, ReconcileEffect, OperatorEffect,
         EnvironmentEffect
         DEF BeginTick, Evaluate, motion, OperatorKeeps, TypeInv
    <3> QED
      BY <3>1
  <2>2. /\ ~mode /\ pc # "enable" /\ stagedRearm.after \in Int
        /\ act < stagedRearm.after /\ stagedRearm.step <= MaxStep
        /\ Seen => ~membraneStatus.mode
    BY <2>1 DEF DriveInv, StagedSteady
  <2>3. ~mode'
    BY <1>0, <2>2, ModeMoves
  <2>4. act' <= act
    BY <1>0, <2>2, GasFallsOrRamps
  <2>5. pc' # "enable"
    <3>1. stopIntended
      BY <2>1 DEF GasInv, IInv, WaitsForLastCommand
    <3>2. ~ReconcileResume
      BY <3>1 DEF ReconcileResume
    <3>3. CASE ReconcileStop \/ WriteMode \/ BeginTick \/ Evaluate
      BY <3>3 DEF ReconcileStop, WriteMode, BeginTick, Evaluate
    <3> QED
      BY <1>0, <1>2, <2>2, <3>2, <3>3, NextCases, DecidesEffect, OperatorStaysOutside,
         EnvironmentEffect
         DEF OperatorOutside, TypeInv
  <2>6. Seen' => ~membraneStatus'.mode
    <3>1. CASE BeginTick
      BY <2>2, <3>1 DEF BeginTick, GasInv, OutputSeen, Seen, Status, Connected
    <3>2. CASE Evaluate \/ Decides
      BY <2>2, <3>2, DecidesEffect DEF Evaluate, Seen, Connected
    <3>3. CASE ReconcileStop \/ ReconcileResume \/ WriteMode
      BY <3>3, ReconcileEffect DEF Seen
    <3>4. CASE Operator \/ Environment
      BY <1>0, <2>2, <3>4, OperatorStaysOutside, EnvironmentEffect
         DEF OperatorOutside, TypeInv, Seen, Connected
    <3> QED
      BY <1>2, <3>1, <3>2, <3>3, <3>4, NextCases
  <2> QED
    BY <1>0, <2>1, <2>2, <2>3, <2>4, <2>5, <2>6
<1> QED
  BY <1>1, <1>2

LEMMA IssueCommandedStep ==
  ASSUME Undisturbed, GasInv, DriveInv, Next
  PROVE  IssueCommanded'
<1> USE DEF IssueCommanded
<1>0. OwnSetpoint /\ TypeInv
  BY DEF Undisturbed, GasInv, IInv
<1>1. CASE Decides
  <2>1. CASE DecideStep
    <3>1. /\ UNCHANGED <<lastCmd, stopIntended>>
          /\ plan'.kind = "issue" => ~stopIntended
      BY <2>1 DEF DecideStep, safety
    <3> QED
      BY <3>1 DEF GasInv, IInv, DriveVetted
  <2>2. CASE StageRateHold
    BY <2>2 DEF StageRateHold
  <2>3. CASE pc' = "reconcile"
    BY <2>3
  <2> QED
    BY <1>1, <2>1, <2>2, <2>3, QuietTickShape
       DEF Decides, ApplyAbort, ApplyPause, KeepRateHold, ConfirmRateHold, StartRatePause
<1>2. CASE Operator
  BY <1>0, <1>2, OperatorStaysOutside DEF OperatorOutside, TypeInv, Locked, DriveInv
<1>3. CASE Environment
  BY <1>0, <1>3, EnvironmentEffect DEF DriveInv
<1>4. CASE BeginTick \/ Evaluate \/ WriteSetpoint \/ WriteUnanswered \/ ReconcileStop
             \/ ReconcileResume \/ WriteMode
  BY <1>4, WriteEffect, ReconcileEffect DEF BeginTick, Evaluate
<1> QED
  BY <1>1, <1>2, <1>3, <1>4, NextCases

\* How the drive of the gas begins, and goes on: confirmed, or raised by a step, or as
\* it was with the setpoint where it was.
DriveGoesOn ==
  \/ ConfirmStaged
  \/ ConfirmRateHold
  \/ Driving /\ tgt' = tgt
  \/ /\ Driving /\ pc = "write" /\ plan.kind = "issue" /\ membraneStatus.tgt = tgt
     /\ tgt' \in {tgt, plan.after} /\ plan.after \in tgt + 1 .. tgt + MaxStep
     /\ act' = act

LEMMA DriveContinues ==
  ASSUME Undisturbed, GasInv, DriveInv, Next, Driving'
  PROVE  DriveGoesOn
<1> USE DEF DriveGoesOn, Driving
<1>0. /\ OwnSetpoint /\ TypeInv /\ mode \in BOOLEAN /\ stopIntended \in BOOLEAN
      /\ mode' \in BOOLEAN /\ stopIntended' \in BOOLEAN
  BY GasTypes DEF Undisturbed
<1>1. CASE BeginTick \/ Evaluate
  <2>1. UNCHANGED <<mode, tgt, stopIntended, lastCmd>> /\ pc' # "enable"
    BY <1>1 DEF BeginTick, Evaluate, device, safety
  <2> QED
    BY <2>1
<1>2. CASE Decides
  <2>1. UNCHANGED <<mode, tgt, lastCmd>> /\ pc' # "enable"
    BY <1>2, DecidesEffect, DecidesOnSample
  <2>2. ~stopIntended' => ConfirmStaged \/ ConfirmRateHold \/ ~stopIntended
    BY <1>0, <1>2, DecideMotion
  <2> QED
    BY <2>1, <2>2
<1>3. CASE WriteSetpoint \/ WriteUnanswered
  <2> PICK ack \in BOOLEAN : /\ pc = "write" /\ pc' = "reconcile" /\ Book(ack)
                             /\ tgt' = plan.after \/ (~ack /\ tgt' = tgt)
    BY <1>3, WriteEffect
  <2>1. UNCHANGED <<mode, stopIntended>> /\ act' = act
    BY <1>3 DEF WriteSetpoint, WriteUnanswered, SetTarget, device, Book, CommandIssued
  <2>2. plan.kind = "issue"
    <3>1. Seen
      BY DEF GasInv, WriteInv, WriteVetted, Seen
    <3>2. CASE plan.kind # "issue"
      <4>1. InMeasure(membraneStatus) /\ stopIntended
        BY <3>2 DEF GasInv, WriteInv, PlanVetted
      <4> QED
        BY <2>1, <3>1, <4>1 DEF GasInv, OutputSeen, InMeasure, ShowsMode
    <3> QED
      BY <3>2
  <2>3. lastCmd # None
    BY <2>2 DEF DriveInv, IssueCommanded
  <2>4. membraneStatus.tgt = tgt
    BY DEF GasInv, WriteInv, WriteVetted, ReadBackTrue
  <2>5. plan.after \in tgt + 1 .. tgt + MaxStep
    BY <2>2, <2>4 DEF GasInv, WriteInv, PlanVetted
  <2> QED
    BY <2>1, <2>2, <2>3, <2>4, <2>5
<1>4. CASE ReconcileStop \/ ReconcileResume \/ WriteMode
  <2>1. UNCHANGED <<tgt, stopIntended, lastCmd>>
    BY <1>4, ReconcileEffect
  <2>2. CASE ReconcileStop \/ ReconcileResume
    BY <2>1, <2>2 DEF ReconcileStop, ReconcileResume, device
  <2>3. CASE WriteMode
    <3>1. pc' = "idle"
      BY <2>3 DEF WriteMode
    <3> QED
      BY <1>0, <2>1, <3>1, ModeMoves
  <2> QED
    BY <1>4, <2>2, <2>3
<1>5. CASE Operator
  <2>1. /\ UNCHANGED <<tgt, pc>> /\ mode' \in {FALSE, mode}
        /\ stopIntended => stopIntended'
        /\ lastCmd' = lastCmd \/ (stopIntended' /\ ~Locked /\ lastCmd' \in {lastCmd, None})
    <3>1. lastCmd' \in {lastCmd, None}
      BY <1>5 DEF Operator, Pause, Abort, Quit, EmergencyStop, AbandonStep, Resume, Reset,
                  SetUserTarget, LowerTarget, MoveTarget, Configure, ConfirmStop,
                  LatchPause, LatchAbort, ClearPause, ForceReset, StopIntended, safety
    <3> QED
      BY <1>0, <1>5, <3>1, OperatorEffect, OperatorStaysOutside
         DEF OperatorKeeps, OperatorOutside, TypeInv
  <2>2. lastCmd' = lastCmd
    BY <2>1
  <2>3. ~mode => ~mode'
    BY <1>0, <2>1
  <2>4. Driving
    BY <1>0, <2>1, <2>2, <2>3, Zenon
  <2> QED
    BY <2>1, <2>4
<1>6. CASE Environment
  <2>1. UNCHANGED <<tgt, mode, stopIntended, lastCmd, pc>>
    BY <1>0, <1>6, EnvironmentEffect, EnvironmentMoves DEF TypeInv
  <2> QED
    BY <2>1
<1> QED
  BY <1>1, <1>2, <1>3, <1>4, <1>5, <1>6, NextCases

LEMMA DrivenUpStep ==
  ASSUME Undisturbed, NoLag, NoDrift, GasInv, DriveInv, Next
  PROVE  DrivenUp'
<1> SUFFICES ASSUME Driving' PROVE act' <= tgt' + Tol
  BY DEF DrivenUp
<1>0. /\ OwnSetpoint /\ tgt \in Int /\ tgt' \in Int /\ act \in Int /\ act' \in Int
      /\ Tol \in Nat /\ MaxStep \in Nat
  BY GasTypes DEF Undisturbed
<1>1. CASE ConfirmStaged
  <2>1. /\ act < stagedRearm.after /\ stagedRearm.after \in Int
        /\ Close(tgt, stagedRearm.after)
    BY <1>1, ConfirmedStaged DEF Staged
  <2>2. act' = act /\ tgt' = tgt
    BY <1>1 DEF ConfirmStaged, Advancing, SafeTick, device
  <2> QED
    BY <1>0, <2>1, <2>2, CloseBounds
<1>2. CASE ConfirmRateHold
  <2>1. /\ act <= ratePauseSetpoint /\ ratePauseSetpoint \in Int
        /\ Close(tgt, ratePauseSetpoint)
    BY <1>2, ConfirmedHold
  <2>2. act' = act /\ tgt' = tgt
    BY <1>2 DEF ConfirmRateHold, EnterPause, device
  <2> QED
    BY <1>0, <2>1, <2>2, CloseBounds
<1>3. CASE Driving /\ tgt' = tgt
  <2>1. act <= tgt + Tol
    BY <1>3 DEF DriveInv, DrivenUp
  <2>2. act' = act \/ act' <= act - 1 \/ (act' = act + 1 /\ act < tgt)
    BY <1>0, GasFallsOrRamps
  <2>3. tgt' = tgt
    BY <1>3
  <2> QED
    BY <1>0, <2>1, <2>2, <2>3
<1>4. CASE /\ Driving /\ tgt' \in {tgt, plan.after}
           /\ plan.after \in tgt + 1 .. tgt + MaxStep /\ act' = act
  <2>1. act <= tgt + Tol
    BY <1>4 DEF DriveInv, DrivenUp
  <2>2. tgt <= tgt' /\ act' <= act /\ Tol \in Int
    BY <1>0, <1>4
  <2> QED
    BY <1>0, <2>1, <2>2, BoundKept
<1> QED
  BY <1>1, <1>2, <1>3, <1>4, DriveContinues DEF DriveGoesOn

LEMMA GasInvHolds == Undisturbed /\ NoLag /\ NoDrift => (Spec => []GasInv)
<1> SUFFICES ASSUME Undisturbed, NoLag, NoDrift PROVE Spec => []GasInv
  OBVIOUS
<1>1. OwnSetpoint
  BY DEF Undisturbed
<1>2. IInv /\ WriteInv /\ OutputSeen /\ HoldInv => GasInv
  BY DEF GasInv
<1> QED
  BY <1>1, <1>2, InvHolds, WriteInvHolds, OutputSeenHolds, HoldInvHolds, PTL

LEMMA DriveInvHolds == Undisturbed /\ NoLag /\ NoDrift => (Spec => []DriveInv)
<1> SUFFICES ASSUME Undisturbed, NoLag, NoDrift PROVE Spec => []DriveInv
  OBVIOUS
<1>1. Init => DriveInv
  BY DEF Init, SafetyInit, DriveInv, StagedSteady, DrivenUp, Driving, IssueCommanded
<1>2. GasInv /\ DriveInv /\ [Next]_vars => DriveInv'
  <2> SUFFICES ASSUME DriveInv, UNCHANGED vars PROVE DriveInv'
    BY StagedSteadyStep, DrivenUpStep, IssueCommandedStep DEF DriveInv
  <2> QED
    BY DEF vars, device, safety, motion, sensed, tick, DriveInv, StagedSteady, DrivenUp,
           Driving, IssueCommanded, Seen, Connected
<1> QED
  BY GasInvHolds, <1>1, <1>2, PTL DEF Spec

\* In Control the membrane is never given a setpoint below its pressure, but for the
\* tolerance of a read-back: whatever answers are lost, however a rate pause, an abort,
\* a reset or a lowered target cuts into a step, and whatever leaks.
THEOREM DrivenUpward == Undisturbed /\ NoLag /\ NoDrift => (Spec => []NeverDrivenDown)
<1> SUFFICES ASSUME Undisturbed, NoLag, NoDrift PROVE Spec => []NeverDrivenDown
  OBVIOUS
<1>1. TypeInv /\ DriveInv => NeverDrivenDown
  BY SupervisorAssumption
     DEF TypeInv, TypeOK, DeviceTypeOK, DriveInv, DrivenUp, Driving, NeverDrivenDown
<1>2. GasInv => TypeInv
  BY DEF GasInv, IInv
<1> QED
  BY GasInvHolds, DriveInvHolds, <1>1, <1>2, PTL

-----------------------------------------------------------------------------
(* No step on a step that has not arrived.  The gas does not move in Measure, *)
(* and nobody resumes: a pause and a resume within one tick forget the step   *)
(* in flight and leave Control on.                                            *)

NoResume == "resume" \notin Commands

Slack == ArrivalTol + Tol

\* The gas has not left the pressure a hold was taken at.
HoldFilled ==
  ratePauseSetpoint # None /\ ~ratePauseHolding => ratePauseSetpoint <= act

\* No status, however old, shows the gas ahead of the setpoint or of itself.
StatusBehind ==
  ~stopIntended /\ Connected(membraneStatus) =>
    membraneStatus.act <= tgt + Tol /\ membraneStatus.act <= act + Tol

\* The step in flight is the setpoint of the device, or above it when its write was
\* lost; it is below it only by a tolerance, and then the gas rises to both.
PendingCovers ==
  ~stopIntended /\ pendingStep # None =>
    \/ tgt <= pendingStep
    \/ /\ tgt <= pendingStep + Tol
       /\ act <= tgt
       /\ Connected(membraneStatus) => membraneStatus.act <= act

\* With nothing in flight the gas has arrived.
Arrived ==
  ~stopIntended /\ FlagsAllow /\ pendingStep = None => tgt <= act + Slack

IssueArrived == pc = "write" /\ plan.kind = "issue" => tgt <= act + Slack

OneAhead == Driving => tgt <= act + (MaxStep + Slack)

\* A step is forgotten between two ticks only under a flag that the next tick sees.
AbandonFlagged == op \in {"halt", "abandon"} => ~FlagsAllow

StackInv ==
  HoldFilled /\ StatusBehind /\ PendingCovers /\ Arrived /\ IssueArrived /\ OneAhead
    /\ AbandonFlagged

\* All that holds while the gas moves in Control only.
StillInv == GasInv /\ DriveInv /\ PressureSeen

LEMMA StillTypes ==
  ASSUME StillInv, [Next]_vars
  PROVE  /\ TypeInv /\ TypeInv' /\ tgt \in Int /\ tgt' \in Int /\ act \in Int /\ act' \in Int
         /\ Tol \in Nat /\ ArrivalTol \in Nat /\ MaxStep \in Nat /\ Slack \in Nat
         /\ Tol \in Int /\ ArrivalTol \in Int /\ MaxStep \in Int /\ Slack \in Int
         /\ mode \in BOOLEAN
BY GasTypes DEF StillInv, Slack

LEMMA GasRamps ==
  ASSUME OwnSetpoint, NoLeak, NoDrift, StillInv, Next
  PROVE  \/ act' = act
         \/ tgt' = tgt /\ mode /\ act' <= act /\ tgt <= act'
         \/ tgt' = tgt /\ mode /\ act <= act' /\ act' <= tgt
BY StillTypes, GasStep DEF GasMoves

\* The gas stays as near to a setpoint that does not move.
LEMMA AheadKept ==
  ASSUME OwnSetpoint, NoLeak, NoDrift, StillInv, Next, tgt' = tgt,
         NEW s \in Nat, tgt <= act + s
  PROVE  tgt' <= act' + s
<1>0. tgt \in Int /\ tgt' \in Int /\ act \in Int /\ act' \in Int /\ s \in Int /\ tgt' <= tgt
  BY StillTypes
<1>1. \A t, a \in Int : t <= a => t <= a + s
  OBVIOUS
<1>2. CASE act <= act'
  BY <1>0, <1>2, BoundKept
<1>3. CASE tgt <= act'
  BY <1>0, <1>1, <1>3
<1> QED
  BY <1>0, <1>2, <1>3, GasRamps

LEMMA HoldFilledStep ==
  ASSUME OwnSetpoint, NoLeak, NoDrift, StillInv, HoldFilled, Next
  PROVE  HoldFilled'
<1> SUFFICES ASSUME ratePauseSetpoint' # None, ~ratePauseHolding'
             PROVE  ratePauseSetpoint' <= act'
  BY DEF HoldFilled
<1>0. TypeInv /\ act \in Int /\ act' \in Int
  BY StillTypes
<1>1. CASE (WriteSetpoint \/ WriteUnanswered) /\ plan.kind = "hold"
  <2>1. /\ pc = "write" /\ ratePauseSetpoint' = membraneStatus.act
        /\ InMeasure(membraneStatus)
    BY <1>1 DEF WriteSetpoint, WriteUnanswered, Book, StillInv, GasInv, WriteInv,
                PlanVetted
  <2>2. Seen
    BY <2>1 DEF StillInv, GasInv, WriteInv, WriteVetted, Seen
  <2> QED
    BY <1>0, <1>1, <2>1, <2>2, ThreadMovesNoGas DEF StillInv, PressureSeen, InMeasure, ShowsMode
<1>2. CASE UNCHANGED <<ratePauseHolding, ratePauseSetpoint>>
  <2>1. ratePauseSetpoint <= act /\ ~mode
    BY <1>2 DEF HoldFilled, StillInv, GasInv, HoldInv, HoldStaged
  <2>2. act' = act
    BY <2>1, GasRamps, GasStep, <1>0 DEF GasMoves
  <2> QED
    BY <1>2, <2>1, <2>2
<1>3. CASE (WriteSetpoint \/ WriteUnanswered) /\ plan.kind # "hold"
  <2>1. UNCHANGED <<ratePauseHolding, ratePauseSetpoint>>
    BY <1>3 DEF WriteSetpoint, WriteUnanswered, Book
  <2> QED
    BY <1>2, <2>1
<1>4. CASE BeginTick \/ Evaluate \/ ReconcileStop \/ ReconcileResume \/ WriteMode
             \/ Environment
  <2>1. UNCHANGED ratePause
    BY <1>4 DEF BeginTick, Evaluate, ReconcileStop, ReconcileResume, WriteMode, Environment
  <2> QED
    BY <1>2, <2>1 DEF ratePause
<1> QED
  BY <1>1, <1>2, <1>3, <1>4, NextCases, DecideKeepsHold, OperatorEndsHold

\* A decision that leaves Control wanted, with what it says of the gas.
LEMMA DecideStill ==
  ASSUME StillInv, HoldFilled, Decides, ~stopIntended'
  PROVE  /\ UNCHANGED <<tgt, act, membraneStatus>>
         /\ \/ ConfirmStaged
            \/ ConfirmRateHold /\ pendingStep' = None /\ tgt <= act + Tol
                 /\ membraneStatus.act <= tgt + Tol /\ membraneStatus.act <= act
            \/ ~stopIntended /\ pendingStep' \in SettleOutcomes
<1>0. /\ TypeInv /\ tgt \in Int /\ act \in Int /\ Tol \in Int
  BY SupervisorAssumption
     DEF StillInv, GasInv, IInv, TypeInv, TypeOK, DeviceTypeOK
<1>1. UNCHANGED <<tgt, act, membraneStatus>>
  BY DecidesEffect, DecidesOnSample
<1>2. ASSUME ConfirmRateHold
      PROVE  /\ pendingStep' = None /\ tgt <= act + Tol
             /\ membraneStatus.act <= tgt + Tol /\ membraneStatus.act <= act
  <2>1. /\ membraneStatus.act \in Int /\ ratePauseSetpoint \in Int /\ pendingStep' = None
        /\ membraneStatus.act <= ratePauseSetpoint /\ Close(tgt, ratePauseSetpoint)
        /\ ratePauseSetpoint <= act
    BY <1>2, ConfirmedHold DEF StillInv, HoldFilled, StatusRecord
  <2>2. tgt <= ratePauseSetpoint + Tol /\ ratePauseSetpoint <= tgt + Tol
    BY <1>0, <2>1, CloseBounds
  <2> QED
    BY <1>0, <2>1, <2>2, BoundKept
<1> QED
  BY <1>0, <1>1, <1>2, DecideMotion

LEMMA StagedStill ==
  ASSUME StillInv, ConfirmStaged
  PROVE  /\ membraneStatus.act <= act /\ membraneStatus.act <= tgt + Tol
         /\ pendingStep' \in Int /\ act < pendingStep'
         /\ tgt <= pendingStep' + Tol
         /\ tgt <= act + (MaxStep + Slack)
<1>0. /\ tgt \in Int /\ act \in Int /\ Tol \in Nat /\ ArrivalTol \in Nat /\ MaxStep \in Nat
      /\ Tol \in Int
  BY SupervisorAssumption, ControllerAssumption
     DEF StillInv, GasInv, IInv, TypeInv, TypeOK, DeviceTypeOK
<1>1. /\ membraneStatus \in StatusRecord /\ Seen /\ ~membraneStatus.mode
      /\ stagedRearm \in Staged /\ act < stagedRearm.after /\ stagedRearm.step <= MaxStep
      /\ Close(tgt, stagedRearm.after) /\ pendingStep' = stagedRearm.after
      /\ tgt - membraneStatus.act <= stagedRearm.step + ArrivalTol
  BY ConfirmedStaged DEF StillInv
<1>2. /\ membraneStatus.act \in Int /\ stagedRearm.after \in Int /\ stagedRearm.step \in Int
      /\ membraneStatus.act <= act
  BY <1>1 DEF StillInv, PressureSeen, StatusRecord, Staged
<1>3. tgt <= stagedRearm.after + Tol /\ stagedRearm.after <= tgt + Tol
  BY <1>0, <1>1, <1>2, CloseBounds
<1>4. membraneStatus.act <= stagedRearm.after
  BY <1>0, <1>1, <1>2
<1>5. membraneStatus.act <= tgt + Tol
  BY <1>0, <1>2, <1>3, <1>4, BoundKept
<1>6. tgt <= act + (MaxStep + Slack)
  BY <1>0, <1>1, <1>2 DEF Slack
<1> QED
  BY <1>1, <1>2, <1>3, <1>5, <1>6

\* A write that leaves Control wanted is a step, at the setpoint of the device or above.
LEMMA WriteStill ==
  ASSUME StillInv, WriteSetpoint \/ WriteUnanswered, ~stopIntended'
  PROVE  /\ pc' = "reconcile" /\ act' = act /\ ~stopIntended
         /\ tgt <= tgt' /\ tgt' <= pendingStep' /\ pendingStep' \in Int
         /\ Connected(membraneStatus) /\ membraneStatus'.act = membraneStatus.act
<1> PICK ack \in BOOLEAN : /\ pc = "write" /\ pc' = "reconcile" /\ Book(ack)
                           /\ tgt' = plan.after \/ (~ack /\ tgt' = tgt)
  BY WriteEffect
<1>0. tgt \in Int /\ MaxStep \in Nat
  BY ControllerAssumption DEF StillInv, GasInv, IInv, TypeInv, TypeOK, DeviceTypeOK
<1>1. ~stopIntended
  BY DEF Book, CommandIssued
<1>2. plan.kind = "issue"
  BY <1>1 DEF StillInv, GasInv, WriteInv, PlanVetted
<1>3. Connected(membraneStatus) /\ membraneStatus.tgt = tgt
  BY DEF StillInv, GasInv, WriteInv, WriteVetted, ReadBackTrue
<1>4. plan.after \in tgt + 1 .. tgt + MaxStep
  BY <1>2, <1>3 DEF StillInv, GasInv, WriteInv, PlanVetted
<1>5. membraneStatus \in StatusRecord
  BY <1>3, ConnectedStatus DEF StillInv, GasInv, IInv, TypeInv
<1>6. membraneStatus'.act = membraneStatus.act /\ pendingStep' = plan.after
  BY <1>2, <1>5 DEF Book, StatusRecord
<1>7. tgt <= tgt' /\ tgt' <= plan.after /\ plan.after \in Int
  BY <1>0, <1>4
<1> QED
  BY <1>1, <1>3, <1>6, <1>7, ThreadMovesNoGas

\* The rest of the polling thread does not touch what a drive is judged by.
LEMMA RestStill ==
  ASSUME Evaluate \/ ReconcileStop \/ ReconcileResume \/ WriteMode
  PROVE  UNCHANGED <<tgt, act, stopIntended, manualPause, membraneStatus, pendingStep, op>>
<1>1. UNCHANGED <<tgt, stopIntended, membraneStatus>>
  BY ReconcileEffect DEF Evaluate, device
<1>2. UNCHANGED <<manualPause, pendingStep, op>>
  BY DEF Evaluate, ReconcileStop, ReconcileResume, WriteMode, safety, motion, operator
<1> QED
  BY <1>1, <1>2, ThreadMovesNoGas

LEMMA BeginStill ==
  ASSUME BeginTick
  PROVE  /\ UNCHANGED <<tgt, act, stopIntended, aborted, manualPause, pendingStep, op>>
         /\ \/ membraneStatus' = membraneStatus
            \/ membraneStatus'.act = act
            \/ ~Connected(membraneStatus')
  BY DEF BeginTick, Status, Connected, device, safety, motion, operator

LEMMA EnvironmentStill ==
  OwnSetpoint /\ Environment =>
    UNCHANGED <<tgt, stopIntended, aborted, manualPause, membraneStatus, pendingStep, op>>
BY EnvironmentEffect DEF Environment, safety, motion, operator

LEMMA OperatorStill ==
  ASSUME StillInv, Operator, ~stopIntended'
  PROVE  /\ UNCHANGED <<tgt, act, membraneStatus>> /\ ~stopIntended
         /\ pendingStep' \in {pendingStep, None}
<1>1. UNCHANGED <<tgt, act, membraneStatus>> /\ ~stopIntended
  BY OperatorStaysOutside
     DEF OperatorOutside, StillInv, GasInv, IInv, TypeInv
<1>2. pendingStep' \in {pendingStep, None}
  BY DEF Operator, Pause, Abort, Quit, EmergencyStop, AbandonStep, Resume, Reset,
         SetUserTarget, LowerTarget, MoveTarget, Configure, ConfirmStop, Abandon,
         AbandonMotion, motion
<1> QED
  BY <1>1, <1>2

LEMMA StatusBehindStep ==
  ASSUME OwnSetpoint, NoLeak, NoDrift, StillInv, StackInv, Next
  PROVE  StatusBehind'
<1> SUFFICES ASSUME ~stopIntended', Connected(membraneStatus')
             PROVE  /\ membraneStatus'.act <= tgt' + Tol
                    /\ membraneStatus'.act <= act' + Tol
  BY DEF StatusBehind
<1> USE DEF StackInv, StatusBehind
<1>0. /\ TypeInv /\ TypeInv' /\ tgt \in Int /\ tgt' \in Int /\ act \in Int /\ act' \in Int
      /\ Tol \in Nat /\ Tol \in Int
  BY StillTypes
<1>a. membraneStatus' \in StatusRecord /\ membraneStatus'.act \in Int
  BY <1>0 DEF TypeInv, TypeOK, TickTypeOK, Connected, StatusRecord
<1>b. \A x, y \in Int : x <= y => x <= y + Tol
  BY <1>0
<1>1. CASE BeginTick
  <2>1. lastCmd # None /\ ~stopIntended
    BY <1>1, BeginStill DEF StillInv, GasInv, IInv, DriveVetted
  <2>2. act <= tgt + Tol
    BY <2>1 DEF StillInv, DriveInv, DrivenUp, Driving
  <2>3. act <= act + Tol
    BY <1>0, <1>b
  <2> QED
    BY <1>1, <2>1, <2>2, <2>3, BeginStill
<1>2. CASE Evaluate \/ ReconcileStop \/ ReconcileResume \/ WriteMode
  BY <1>2, RestStill
<1>3. CASE Decides
  <2>1. CASE ConfirmStaged
    <3>1. membraneStatus.act <= tgt + Tol /\ membraneStatus.act <= act
      BY <2>1, StagedStill
    <3> QED
      BY <1>0, <1>3, <1>a, <1>b, <3>1, DecideStill
  <2>2. CASE ConfirmRateHold /\ membraneStatus.act <= tgt + Tol /\ membraneStatus.act <= act
    BY <1>0, <1>3, <1>a, <1>b, <2>2, DecideStill
  <2>3. CASE ~stopIntended
    BY <1>3, <2>3, DecideStill
  <2> QED
    BY <1>3, <2>1, <2>2, <2>3, DecideStill
<1>4. CASE WriteSetpoint \/ WriteUnanswered
  <2>1. /\ act' = act /\ ~stopIntended /\ tgt <= tgt' /\ Connected(membraneStatus)
        /\ membraneStatus'.act = membraneStatus.act
    BY <1>4, WriteStill
  <2>2. membraneStatus.act <= tgt + Tol /\ membraneStatus.act <= act + Tol
    BY <2>1
  <2>3. membraneStatus'.act <= membraneStatus.act /\ membraneStatus.act \in Int
    BY <1>a, <2>1
  <2> QED
    BY <1>0, <1>a, <2>1, <2>2, <2>3, BoundKept
<1>5. CASE Operator
  BY <1>5, OperatorStill
<1>6. CASE Environment
  <2>1. /\ tgt' = tgt /\ membraneStatus' = membraneStatus
        /\ membraneStatus.act <= tgt + Tol /\ membraneStatus.act <= act + Tol
    BY <1>6, EnvironmentStill
  <2>2. tgt <= act' \/ act <= act'
    BY <1>0, GasRamps
  <2>3. membraneStatus.act \in Int /\ membraneStatus.act <= membraneStatus.act
    BY <1>a, <2>1
  <2>4. membraneStatus.act <= act' + Tol
    BY <1>0, <2>1, <2>2, <2>3, BoundKept
  <2> QED
    BY <2>1, <2>4
<1> QED
  BY <1>1, <1>2, <1>3, <1>4, <1>5, <1>6, NextCases

LEMMA PendingCoversStep ==
  ASSUME OwnSetpoint, NoLeak, NoDrift, StillInv, StackInv, Next
  PROVE  PendingCovers'
<1> SUFFICES ASSUME ~stopIntended', pendingStep' # None
             PROVE  \/ tgt' <= pendingStep'
                    \/ /\ tgt' <= pendingStep' + Tol
                       /\ act' <= tgt'
                       /\ Connected(membraneStatus') => membraneStatus'.act <= act'
  BY DEF PendingCovers
<1> USE DEF StackInv, PendingCovers
<1>0. /\ TypeInv /\ TypeInv' /\ tgt \in Int /\ tgt' \in Int /\ act \in Int /\ act' \in Int
      /\ Tol \in Int /\ pendingStep' \in Int
  BY StillTypes DEF TypeInv, TypeOK, IntentTypeOK
<1>1. CASE BeginTick
  BY <1>0, <1>1, BeginStill
<1>2. CASE Evaluate \/ ReconcileStop \/ ReconcileResume \/ WriteMode
  BY <1>2, RestStill DEF Connected
<1>3. CASE Decides
  <2>1. CASE ConfirmStaged
    <3>1. /\ tgt <= pendingStep' + Tol /\ act < pendingStep' /\ membraneStatus.act <= act
          /\ UNCHANGED <<tgt, act, membraneStatus>>
      BY <1>3, <2>1, StagedStill, DecideStill
    <3>2. tgt <= pendingStep' \/ act <= tgt
      BY <1>0, <3>1
    <3> QED
      BY <3>1, <3>2 DEF Connected
  <2>2. CASE ~stopIntended /\ pendingStep' \in SettleOutcomes
    <3>1. pendingStep' = pendingStep
      BY <2>2 DEF SettleOutcomes
    <3> QED
      BY <1>3, <2>2, <3>1, DecideStill DEF Connected
  <2> QED
    BY <1>3, <2>1, <2>2, DecideStill
<1>4. CASE WriteSetpoint \/ WriteUnanswered
  BY <1>4, WriteStill
<1>5. CASE Operator
  BY <1>5, OperatorStill DEF Connected
<1>6. CASE Environment
  <2>1. /\ UNCHANGED <<tgt, stopIntended, membraneStatus, pendingStep>>
    BY <1>6, EnvironmentStill
  <2>2. CASE act <= tgt /\ (Connected(membraneStatus) => membraneStatus.act <= act)
             /\ tgt <= pendingStep + Tol
    <3>1. act <= act' /\ act' <= tgt
      BY <1>0, <2>2, GasRamps
    <3>2. Connected(membraneStatus) => membraneStatus.act \in Int
      BY <1>0 DEF TypeInv, TypeOK, TickTypeOK, Connected, StatusRecord
    <3>3. Connected(membraneStatus) => membraneStatus.act <= act'
      BY <1>0, <2>2, <3>1, <3>2
    <3> QED
      BY <2>1, <2>2, <3>1, <3>3 DEF Connected
  <2> QED
    BY <2>1, <2>2
<1> QED
  BY <1>1, <1>2, <1>3, <1>4, <1>5, <1>6, NextCases

\* A step counts as settled only once the gas has arrived at it.
LEMMA SettledArrived ==
  ASSUME StillInv, StackInv, ~stopIntended, FlagsAllow, None \in SettleOutcomes
  PROVE  tgt <= act + Slack
<1>0. /\ tgt \in Int /\ act \in Int /\ Tol \in Int /\ ArrivalTol \in Int /\ TypeInv
  BY SupervisorAssumption, ControllerAssumption
     DEF StillInv, GasInv, IInv, TypeInv, TypeOK, DeviceTypeOK
<1>1. CASE pendingStep = None
  BY <1>1 DEF StackInv, Arrived
<1>2. CASE pendingStep # None
  <2>1. Connected(membraneStatus) /\ membraneStatus.act >= pendingStep - ArrivalTol
    BY <1>2 DEF SettleOutcomes
  <2>2. membraneStatus.act \in Int /\ pendingStep \in Int
    BY <1>0, <1>2, <2>1, ConnectedStatus DEF TypeInv, TypeOK, IntentTypeOK, StatusRecord
  <2>3. pendingStep <= membraneStatus.act + ArrivalTol
    BY <1>0, <2>1, <2>2
  <2>4. membraneStatus.act <= act + Tol
    BY <2>1 DEF StackInv, StatusBehind
  <2>5. CASE tgt <= pendingStep
    BY <1>0, <2>2, <2>3, <2>4, <2>5 DEF Slack
  <2>6. CASE tgt <= pendingStep + Tol /\ membraneStatus.act <= act
    BY <1>0, <2>2, <2>3, <2>6 DEF Slack
  <2> QED
    BY <1>2, <2>1, <2>5, <2>6 DEF StackInv, PendingCovers
<1> QED
  BY <1>1, <1>2

\* What the operator forgets, with Control left on, is forgotten under a flag.
LEMMA OperatorForgets ==
  ASSUME Undisturbed, NoResume, StillInv, StackInv, Operator, ~stopIntended', FlagsAllow'
  PROVE  FlagsAllow /\ pendingStep' = pendingStep
<1>1. ~(Pause \/ Abort \/ Quit \/ Reset \/ Resume \/ Configure)
  BY DEF Pause, Abort, Quit, Reset, Resume, Configure, OperatorMay, LatchPause,
         LatchAbort, ForceReset, Undisturbed, NoResume
<1>2. CASE EmergencyStop \/ ConfirmStop
  <2>1. UNCHANGED <<safety, motion>>
    BY <1>2 DEF EmergencyStop, ConfirmStop
  <2> QED
    BY <2>1 DEF FlagsAllow, safety, motion
<1>3. CASE AbandonStep
  BY <1>3 DEF AbandonStep, StackInv, AbandonFlagged, FlagsAllow, safety
<1>4. CASE SetUserTarget
  BY <1>4 DEF SetUserTarget, LowerTarget, MoveTarget, StopIntended, FlagsAllow, safety,
              motion
<1> QED
  BY <1>1, <1>2, <1>3, <1>4 DEF Operator

\* No step of the polling thread clears a flag.
LEMMA ThreadKeepsFlags ==
  ASSUME TypeInv, PollingThread, FlagsAllow'
  PROVE  FlagsAllow
<1>1. ~aborted
  BY ThreadKeepsAbort DEF FlagsAllow
<1>2. manualPause' \/ manualPause' = manualPause
  <2>1. CASE BeginTick \/ Evaluate \/ ReconcileStop \/ ReconcileResume \/ WriteMode
    BY <2>1 DEF BeginTick, Evaluate, ReconcileStop, ReconcileResume, WriteMode, safety
  <2>2. CASE WriteSetpoint \/ WriteUnanswered
    BY <2>2 DEF WriteSetpoint, WriteUnanswered, Book, CommandIssued
  <2>3. CASE Decides
    BY <2>3
       DEF Decides, ApplyAbort, ApplyPause, KeepRateHold, ConfirmRateHold,
           StartRatePause, StageRateHold, QuietTick, ApplyNoSample, ApplyHold,
           ApplyStayHold, ConfirmStaged, DiscardStaged, AwaitReadBack, AwaitSettle,
           AwaitOutput, NoCommand, PauseForSupply, DecideStep, StopIntended, LatchPause,
           safety
  <2> QED
    BY <2>1, <2>2, <2>3 DEF PollingThread, Decides, QuietTick
<1> QED
  BY <1>1, <1>2 DEF FlagsAllow

LEMMA ArrivedStep ==
  ASSUME Undisturbed, NoResume, NoLeak, NoDrift, StillInv, StackInv, Next
  PROVE  Arrived'
<1> SUFFICES ASSUME ~stopIntended', FlagsAllow', pendingStep' = None
             PROVE  tgt' <= act' + Slack
  BY DEF Arrived
<1> USE DEF StackInv, Arrived
<1>0. /\ OwnSetpoint /\ TypeInv /\ tgt \in Int /\ tgt' \in Int /\ act \in Int /\ act' \in Int
      /\ Tol \in Nat /\ Tol \in Int /\ ArrivalTol \in Nat /\ Slack \in Nat
  BY StillTypes DEF Undisturbed
<1>1. CASE BeginTick \/ Evaluate \/ ReconcileStop \/ ReconcileResume \/ WriteMode
  <2>1. FlagsAllow
    BY <1>0, <1>1, ThreadKeepsFlags DEF PollingThread
  <2>2. UNCHANGED <<tgt, act, stopIntended, pendingStep>>
    BY <1>1, BeginStill, RestStill
  <2> QED
    BY <2>1, <2>2
<1>2. CASE Decides
  <2>1. FlagsAllow
    BY <1>0, <1>2, ThreadKeepsFlags DEF PollingThread, Decides, QuietTick
  <2>2. ~ConfirmStaged
    BY StagedStill, SupervisorAssumption
  <2>3. CASE tgt <= act + Tol
    <3>1. tgt <= act + Slack
      BY <1>0, <2>3 DEF Slack
    <3> QED
      BY <1>2, <3>1, DecideStill
  <2>4. CASE ~stopIntended /\ pendingStep' \in SettleOutcomes
    BY <1>2, <2>1, <2>4, SettledArrived, DecideStill
  <2> QED
    BY <1>2, <2>2, <2>3, <2>4, DecideStill
<1>3. CASE WriteSetpoint \/ WriteUnanswered
  BY <1>3, WriteStill, SupervisorAssumption
<1>4. CASE Operator
  BY <1>4, OperatorStill, OperatorForgets
<1>5. CASE Environment
  <2>1. tgt' = tgt /\ tgt <= act + Slack
    BY <1>0, <1>5, EnvironmentStill DEF FlagsAllow
  <2> QED
    BY <1>0, <2>1, AheadKept
<1> QED
  BY <1>1, <1>2, <1>3, <1>4, <1>5, NextCases

LEMMA IssueArrivedStep ==
  ASSUME Undisturbed, NoResume, NoLeak, NoDrift, StillInv, StackInv, Arrived', Next
  PROVE  IssueArrived'
<1> USE DEF StackInv, IssueArrived
<1>0. OwnSetpoint /\ TypeInv /\ Slack \in Nat
  BY StillTypes DEF Undisturbed
<1>1. CASE Decides
  <2>1. CASE DecideStep
    <3> SUFFICES ASSUME plan'.kind = "issue" PROVE tgt' <= act' + Slack
      OBVIOUS
    <3>1. ~stopIntended /\ UNCHANGED safety /\ FlagsAllow
      BY <2>1 DEF DecideStep, GateOpen
    <3>2. pendingStep' = None
      BY <2>1, <3>1 DEF DecideStep, Sizes, ReadyToStage, ReadyToIssue
    <3>3. ~stopIntended' /\ FlagsAllow'
      BY <3>1 DEF safety, FlagsAllow
    <3> QED
      BY <3>2, <3>3 DEF Arrived
  <2>2. CASE StageRateHold
    BY <2>2 DEF StageRateHold
  <2>3. CASE pc' = "reconcile"
    BY <2>3
  <2> QED
    BY <1>1, <2>1, <2>2, <2>3, QuietTickShape
       DEF Decides, ApplyAbort, ApplyPause, KeepRateHold, ConfirmRateHold, StartRatePause
<1>2. CASE Operator
  BY <1>0, <1>2, OperatorStaysOutside DEF OperatorOutside, TypeInv
<1>3. CASE Environment
  BY <1>0, <1>3, EnvironmentEffect, AheadKept
<1>4. CASE BeginTick \/ Evaluate \/ WriteSetpoint \/ WriteUnanswered \/ ReconcileStop
             \/ ReconcileResume \/ WriteMode
  BY <1>4, WriteEffect, ReconcileEffect DEF BeginTick, Evaluate
<1> QED
  BY <1>1, <1>2, <1>3, <1>4, NextCases

LEMMA OneAheadStep ==
  ASSUME Undisturbed, NoLeak, NoDrift, StillInv, StackInv, Next
  PROVE  OneAhead'
<1> SUFFICES ASSUME Driving' PROVE tgt' <= act' + (MaxStep + Slack)
  BY DEF OneAhead
<1>0. /\ OwnSetpoint /\ tgt \in Int /\ tgt' \in Int /\ act \in Int /\ act' \in Int
      /\ Tol \in Nat /\ ArrivalTol \in Nat /\ MaxStep \in Nat /\ Slack \in Nat
      /\ MaxStep + Slack \in Nat
  BY StillTypes DEF Undisturbed
<1>1. CASE ConfirmStaged
  <2>1. tgt <= act + (MaxStep + Slack)
    BY <1>1, StagedStill
  <2>2. act' = act /\ tgt' = tgt
    BY <1>1 DEF ConfirmStaged, Advancing, SafeTick, device
  <2> QED
    BY <2>1, <2>2
<1>2. CASE ConfirmRateHold
  <2>1. ~stopIntended' /\ Decides
    BY <1>2 DEF ConfirmRateHold, StopIntended, Decides
  <2>2. UNCHANGED <<tgt, act>> /\ tgt <= act + Tol
    <3>1. ~ConfirmStaged
      BY <1>2 DEF ConfirmStaged, Advancing, SafeTick, ConfirmRateHold, EnterPause
    <3>2. ratePauseSetpoint \in Int /\ ratePauseSetpoint <= act /\ Close(tgt, ratePauseSetpoint)
      BY <1>2, ConfirmedHold DEF StillInv, StackInv, HoldFilled
    <3>3. tgt <= ratePauseSetpoint + Tol
      BY <1>0, <3>2, CloseBounds
    <3>4. Tol \in Int /\ tgt <= tgt
      BY <1>0
    <3> QED
      BY <1>0, <2>1, <3>2, <3>3, <3>4, BoundKept, DecidesEffect, DecidesOnSample
  <2>3. tgt <= act + (MaxStep + Slack)
    BY <1>0, <2>2 DEF Slack
  <2> QED
    BY <2>2, <2>3
<1>3. CASE Driving /\ tgt' = tgt
  BY <1>0, <1>3, AheadKept DEF StackInv, OneAhead
<1>4. CASE /\ pc = "write" /\ plan.kind = "issue"
           /\ tgt' \in {tgt, plan.after} /\ plan.after \in tgt + 1 .. tgt + MaxStep
           /\ act' = act
  <2>1. tgt <= act + Slack
    BY <1>4 DEF StackInv, IssueArrived
  <2>2. tgt' <= tgt + MaxStep
    BY <1>0, <1>4
  <2>3. \A t, u, a \in Int : t <= a + Slack /\ u <= t + MaxStep => u <= a + (MaxStep + Slack)
    BY <1>0
  <2>4. tgt' <= act + (MaxStep + Slack)
    BY <1>0, <2>1, <2>2, <2>3
  <2> QED
    BY <1>4, <2>4
<1> QED
  BY <1>1, <1>2, <1>3, <1>4, DriveContinues DEF DriveGoesOn, StillInv

LEMMA AbandonFlaggedStep ==
  ASSUME Undisturbed, StillInv, AbandonFlagged, Next
  PROVE  AbandonFlagged'
<1> USE DEF AbandonFlagged
<1>0. OwnSetpoint /\ TypeInv
  BY DEF Undisturbed, StillInv, GasInv, IInv
<1>1. CASE PollingThread
  BY <1>0, <1>1, ThreadKeepsAbort, ThreadKeepsFlags
<1>2. CASE Environment
  BY <1>0, <1>2, EnvironmentStill DEF FlagsAllow
<1>3. CASE Pause \/ Abort \/ Quit
  BY <1>3 DEF Pause, Abort, Quit, LatchPause, LatchAbort, FlagsAllow
<1>4. CASE EmergencyStop
  BY <1>4 DEF EmergencyStop, FlagsAllow, safety
<1>5. CASE AbandonStep \/ ConfirmStop
  BY <1>5 DEF AbandonStep, ConfirmStop
<1>6. CASE Resume \/ Reset \/ SetUserTarget \/ Configure
  BY <1>6 DEF Resume, Reset, SetUserTarget, LowerTarget, MoveTarget, Configure, OperatorMay,
              operator
<1> QED
  BY <1>1, <1>2, <1>3, <1>4, <1>5, <1>6 DEF Next, Operator

LEMMA StackInvHolds ==
  Undisturbed /\ NoResume /\ NoLag /\ NoLeak /\ NoDrift => (Spec => []StackInv)
<1> SUFFICES ASSUME Undisturbed, NoResume, NoLag, NoLeak, NoDrift
             PROVE  Spec => []StackInv
  OBVIOUS
<1>1. Init => StackInv
  BY DEF Init, SafetyInit, StackInv, HoldFilled, StatusBehind, PendingCovers, Arrived,
         IssueArrived, OneAhead, Driving, AbandonFlagged
<1>2. StillInv /\ StackInv /\ [Next]_vars => StackInv'
  <2>1. ASSUME StillInv, StackInv, Next PROVE StackInv'
    <3>1. OwnSetpoint
      BY DEF Undisturbed
    <3>2. HoldFilled' /\ AbandonFlagged'
      BY <2>1, <3>1, HoldFilledStep, AbandonFlaggedStep DEF StackInv
    <3> QED
      BY <2>1, <3>1, <3>2, StatusBehindStep, PendingCoversStep, ArrivedStep,
         IssueArrivedStep, OneAheadStep
         DEF StackInv
  <2>2. ASSUME StackInv, UNCHANGED vars PROVE StackInv'
    BY <2>2
       DEF vars, device, safety, motion, ratePause, sensed, tick, operator, StackInv,
           HoldFilled, StatusBehind, PendingCovers, Arrived, IssueArrived, OneAhead,
           Driving, AbandonFlagged, FlagsAllow, Connected
  <2> QED
    BY <2>1, <2>2
<1>3. GasInv /\ DriveInv /\ PressureSeen => StillInv
  BY DEF StillInv
<1>4. OwnSetpoint
  BY DEF Undisturbed
<1> QED
  BY <1>1, <1>2, <1>3, <1>4, GasInvHolds, DriveInvHolds, PressureSeenHolds, PTL DEF Spec

\* In Control the setpoint is never further above the pressure than one step and the two
\* tolerances: whatever writes are lost, however a rate pause, an abort, a reset or a
\* lowered target cuts into a step, no step is put on top of one that has not arrived.
THEOREM NoStepOnStep ==
  Undisturbed /\ NoResume /\ NoLag /\ NoLeak /\ NoDrift => (Spec => []StepsNotStacked)
<1> SUFFICES ASSUME Undisturbed, NoResume, NoLag, NoLeak, NoDrift
             PROVE  Spec => []StepsNotStacked
  OBVIOUS
<1>1. TypeInv /\ StackInv => StepsNotStacked
  BY SupervisorAssumption, ControllerAssumption
     DEF TypeInv, TypeOK, DeviceTypeOK, StackInv, OneAhead, Driving, Slack, StepsNotStacked
<1>2. GasInv => TypeInv
  BY DEF GasInv, IInv
<1> QED
  BY GasInvHolds, StackInvHolds, <1>1, <1>2, PTL

-----------------------------------------------------------------------------
(* The controller implements OneSidedDrive, under the same assumptions.      *)

\* What is known of a setpoint when it is sent.
LEMMA SendsVetted ==
  ASSUME OwnSetpoint, StillInv, StackInv, pc = "write"
  PROVE  /\ lastCmd = None \/ Drive!Reconciled
         /\ plan.kind # "issue" => ~mode /\ plan.after \in act .. act + MaxStep
         /\ plan.kind = "issue" =>
              Drive!Reconciled /\ Drive!Arrived /\ plan.after \in tgt + 1 .. tgt + MaxStep
<1>1. TypeOK /\ tgt \in Int /\ act \in Int /\ lastCmd \in Int \cup {None}
  BY DEF StillInv, GasInv, IInv, TypeInv, TypeOK, DeviceTypeOK, SafetyTypeOK
<1>2. /\ Seen /\ membraneStatus.tgt = tgt /\ membraneStatus \in StatusRecord
      /\ ~SetpointMismatch(membraneStatus, youngCmd) /\ plan \in Plan
  BY <1>1, ConnectedStatus
     DEF StillInv, GasInv, WriteInv, WriteVetted, ReadBackTrue, Seen, TypeInv, CarriesOver
<1>3. lastCmd = None \/ Drive!Reconciled
  <2> SUFFICES ASSUME lastCmd # None, ~youngCmd PROVE Drive!Held
    BY DEF Drive!Reconciled
  <2>1. lastCmd \in Int /\ Close(tgt, lastCmd)
    BY <1>1, <1>2, TargetShown DEF SetpointMismatch, Seen
  <2>2. tgt <= lastCmd + Tol /\ lastCmd <= tgt + Tol
    BY <1>1, <2>1, CloseBounds
  <2> QED
    BY <1>1, <2>1, <2>2, SupervisorAssumption DEF Drive!Held
<1>4. ASSUME plan.kind # "issue"
      PROVE  ~mode /\ plan.after \in act .. act + MaxStep
  <2>1. ~membraneStatus.mode
    BY <1>4 DEF StillInv, GasInv, WriteInv, PlanVetted, InMeasure, ShowsMode
  <2>2. ~mode /\ membraneStatus.act = act
    BY <1>1, <1>2, <2>1
       DEF StillInv, GasInv, OutputSeen, HoldInv, NotRisen, PressureSeen, StatusRecord
  <2>3. plan.kind \in {"hold", "stage"}
    BY <1>2, <1>4 DEF Plan
  <2>4. plan.after = act \/ (plan.step \in 1..MaxStep /\ plan.after = act + plan.step)
    BY <2>2, <2>3 DEF StillInv, GasInv, WriteInv, PlanVetted
  <2> QED
    BY <1>1, <2>2, <2>4, ControllerAssumption
<1>5. ASSUME plan.kind = "issue"
      PROVE  /\ Drive!Reconciled /\ Drive!Arrived
             /\ plan.after \in tgt + 1 .. tgt + MaxStep
  <2>1. Drive!Reconciled
    BY <1>3, <1>5 DEF StillInv, DriveInv, IssueCommanded
  <2>2. tgt <= act + Slack
    BY <1>5 DEF StackInv, IssueArrived
  <2>3. plan.after \in tgt + 1 .. tgt + MaxStep
    BY <1>2, <1>5 DEF StillInv, GasInv, WriteInv, PlanVetted
  <2> QED
    BY <1>1, <2>1, <2>2, <2>3, SupervisorAssumption, ControllerAssumption
       DEF Slack, Drive!Arrived
<1> QED
  BY <1>3, <1>4, <1>5

\* What is known of the setpoint when Control is switched on.
LEMMA EnablesVetted ==
  ASSUME StillInv, StackInv, pc = "enable"
  PROVE  Drive!Held /\ act <= tgt + Tol /\ Drive!OneStepAhead
<1>1. /\ tgt \in Int /\ act \in Int /\ lastCmd \in Int /\ lastCmd # None
      /\ Close(tgt, lastCmd)
  BY DEF StillInv, GasInv, IInv, TypeInv, TypeOK, DeviceTypeOK, SafetyTypeOK, EnableVetted
<1>2. act <= tgt + Tol /\ tgt <= act + (MaxStep + Slack)
  BY <1>1 DEF StillInv, DriveInv, DrivenUp, StackInv, OneAhead, Driving
<1>3. tgt <= lastCmd + Tol /\ lastCmd <= tgt + Tol
  BY <1>1, CloseBounds
<1> QED
  BY <1>1, <1>2, <1>3, SupervisorAssumption, ControllerAssumption
     DEF Slack, Drive!Held, Drive!OneStepAhead

LEMMA OperatorDrives ==
  ASSUME Undisturbed, TypeOK, Operator
  PROVE  Drive!Disable \/ Drive!Forget \/ UNCHANGED <<mode, tgt, act, lastCmd, youngCmd>>
<1>1. CASE EmergencyStop
  BY <1>1
     DEF EmergencyStop, AttemptMode, SetMode, device, safety, Drive!Disable
<1>2. CASE Reset
  BY <1>2 DEF Reset, ForceReset, device, Drive!Forget
<1>3. CASE Pause \/ Abort \/ Quit \/ Resume
  BY <1>3 DEF Pause, Abort, Quit, Resume, LatchPause, LatchAbort, ClearPause, device
<1>4. CASE AbandonStep \/ SetUserTarget \/ ConfirmStop
  BY <1>4
     DEF AbandonStep, SetUserTarget, LowerTarget, MoveTarget, StopIntended, ConfirmStop,
         device, safety
<1>5. ~Configure
  BY DEF Undisturbed, Configure, OperatorMay
<1> QED
  BY <1>1, <1>2, <1>3, <1>4, <1>5 DEF Operator

LEMMA StepDrives ==
  ASSUME Undisturbed, NoLeak, NoDrift, StillInv, StackInv, [Next]_vars
  PROVE  Drive!DriveNext \/ UNCHANGED <<mode, tgt, act, lastCmd, youngCmd>>
<1> USE DEF Drive!DriveNext
<1>0. OwnSetpoint /\ TypeOK /\ TypeInv
  BY DEF Undisturbed, StillInv, GasInv, IInv, TypeInv
<1>1. CASE BeginTick \/ Decides \/ ReconcileStop \/ ReconcileResume
  <2>1. UNCHANGED <<tgt, lastCmd, youngCmd>>
    BY <1>1, DecidesEffect, ReconcileEffect DEF BeginTick, device, safety
  <2>2. UNCHANGED <<mode, act>>
    BY <1>1, DecidesOnSample DEF BeginTick, ReconcileStop, ReconcileResume, device
  <2> QED
    BY <2>1, <2>2
<1>6. CASE Evaluate
  <2>1. UNCHANGED <<mode, tgt, act, lastCmd>> /\ youngCmd' \in {FALSE, youngCmd}
    BY <1>6 DEF Evaluate, CommandAges, device
  <2> QED
    BY <2>1 DEF Drive!Age
<1>2. CASE WriteSetpoint \/ WriteUnanswered
  <2>1. /\ pc = "write" /\ lastCmd' = plan.after /\ youngCmd' = CommandGrace
        /\ tgt' \in {plan.after, tgt} /\ UNCHANGED <<mode, act>>
    BY <1>2
       DEF WriteSetpoint, WriteUnanswered, Book, CommandIssued, SetTarget, device
  <2>2. Drive!Send
    BY <2>1 DEF Drive!Send
  <2> QED
    BY <1>0, <2>1, <2>2, SendsVetted DEF Drive!Stage, Drive!Advance
<1>3. CASE WriteMode
  <2>1. /\ UNCHANGED <<tgt, act, lastCmd, youngCmd>>
        /\ \/ pc = "disable" /\ mode' \in {FALSE, mode}
           \/ pc = "enable" /\ mode' \in {TRUE, mode}
    BY <1>3 DEF WriteMode, AttemptMode, SetMode, device, safety
  <2> QED
    BY <2>1, EnablesVetted DEF Drive!Enable, Drive!Disable
<1>4. CASE Operator
  BY <1>0, <1>4, OperatorDrives
<1>5. CASE Environment
  <2>1. GasMoves /\ UNCHANGED <<mode, tgt, lastCmd, youngCmd>>
    BY <1>0, <1>5, EnvironmentMoves, EnvironmentEffect
  <2>2. tgt \in Int /\ act \in Int
    BY <1>0 DEF TypeOK, DeviceTypeOK
  <2> QED
    BY <2>1, <2>2 DEF GasMoves, Drive!GasMoves
<1> QED
  BY <1>1, <1>2, <1>3, <1>4, <1>5, <1>6, NextCases DEF vars, device, safety

\* The controller implements OneSidedDrive: through lost writes and outputs, stale and
\* failed polls, rate pauses, aborts, resets and lowered targets, all it ever does to the
\* device is to stage from the pressure, to advance from a setpoint that was reached, to
\* enable what the device holds, to disable and to forget.
THEOREM ControllerImplementsDrive ==
  Undisturbed /\ NoResume /\ NoLag /\ NoLeak /\ NoDrift => (Spec => ImplementsDrive)
<1> SUFFICES ASSUME Undisturbed, NoResume, NoLag, NoLeak, NoDrift
             PROVE  Spec => ImplementsDrive
  OBVIOUS
<1>1. Init => Drive!DriveInit
  BY DeviceAssumption DEF Init, DeviceInit, SafetyInit, Drive!DriveInit
<1>2. StillInv /\ StackInv /\ [Next]_vars => [Drive!DriveNext]_(Drive!drive)
  BY StepDrives DEF Drive!drive
<1>3. GasInv /\ DriveInv /\ PressureSeen => StillInv
  BY DEF StillInv
<1>4. OwnSetpoint
  BY DEF Undisturbed
<1> QED
  BY <1>1, <1>2, <1>3, <1>4, GasInvHolds, DriveInvHolds, PressureSeenHolds, StackInvHolds,
     PTL DEF Spec, ImplementsDrive, Drive!DriveSpec
=============================================================================
