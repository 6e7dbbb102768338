-------------------------- MODULE ControllerProofs --------------------------
(***************************************************************************)
(* Proofs about Controller, for every value of its constants.              *)
(***************************************************************************)
EXTENDS Controller, TLAPS

-----------------------------------------------------------------------------
(* The inductive invariant, in named parts.                                 *)

\* What the polling thread carries from one of its places to the next.
CarriesOver ==
  /\ pc = "apply" /\ usable => estimate \in Reading
  /\ pc = "write" => plan \in Plan
  /\ pc = "write" /\ plan.kind = "issue" => InControl(membraneStatus)

TypeInv == TypeOK /\ CarriesOver

\* A connected status read in this tick still tells the setpoint of the device.
ReadBackTrue ==
  poll = "fresh" /\ pc \in {"evaluate", "apply", "write"} /\ Connected(membraneStatus)
    => membraneStatus.tgt = tgt

\* Whatever waits for a read-back is the last setpoint commanded.
WaitsForLastCommand ==
  /\ stagedRearm # None => stopIntended /\ lastCmd = stagedRearm.after
  /\ ratePauseSetpoint # None => lastCmd = ratePauseSetpoint

\* A setpoint is on its way with nothing else waiting for a read-back, and in
\* Control only on top of a fresh one.
WritesAlone ==
  pc = "write" =>
    /\ stagedRearm = None /\ ratePauseSetpoint = None
    /\ plan.kind = "issue" => poll = "fresh"
    /\ plan.kind # "issue" => stopIntended

Holds == Close(tgt, lastCmd)

\* The status shows Control, with a setpoint that is not the one last commanded.
ShownLost == InControl(membraneStatus) /\ ~Close(membraneStatus.tgt, lastCmd)

\* While Control is wanted, the device holds the setpoint last commanded, or a status
\* says it does not, and says that the output is in Control; the next verdict sees the
\* one or, while the command is young, at least the other.
DriveVetted ==
  ~stopIntended =>
    /\ lastCmd # None
    /\ pc = "idle" => Holds \/ (ShownLost /\ resumeGrace = "none")
    /\ pc = "evaluate" =>
         \/ Holds
         \/ /\ resumeGrace = "none"
            /\ \/ membraneStatus = Offline
               \/ Connected(membraneStatus) /\ ~Close(membraneStatus.tgt, lastCmd)
    /\ pc = "apply" /\ verdict \in {"ok", "rate"} => Holds \/ ShownLost
    /\ pc = "reconcile" => Holds \/ ShownLost
    /\ pc # "disable"

IInv ==
  TypeInv /\ ReadBackTrue /\ WaitsForLastCommand /\ WritesAlone /\ DriveVetted
    /\ EnableVetted

-----------------------------------------------------------------------------
(* Type correctness.                                                        *)

LEMMA TypeInit == Init => TypeInv
BY DeviceAssumption, SupervisorAssumption, ControllerAssumption
   DEF Init, DeviceInit, SafetyInit, TypeInv, TypeOK, CarriesOver, DeviceTypeOK,
       SafetyTypeOK, IntentTypeOK, TickTypeOK, States, Verdicts, Polls, Graces,
       Places, OpPlaces

\* Only statuses, never the two markers, are connected.
LEMMA ConnectedStatus ==
  ASSUME TypeOK, Connected(membraneStatus)
  PROVE  membraneStatus \in StatusRecord
BY DEF TypeOK, TickTypeOK, Connected

\* The parts of the state a step leaves alone keep their types.
LEMMA DeviceUntouched == DeviceTypeOK /\ UNCHANGED device => DeviceTypeOK'
BY DEF DeviceTypeOK, device

LEMMA SafetyUntouched == SafetyTypeOK /\ UNCHANGED safety => SafetyTypeOK'
BY DEF SafetyTypeOK, safety

LEMMA IntentUntouched ==
  IntentTypeOK /\ UNCHANGED <<state, motion, target, ratePause>> => IntentTypeOK'
BY DEF IntentTypeOK, motion, target, ratePause

\* The supervisor's entry points keep its state well typed.
LEMMA SupervisorType ==
  ASSUME SafetyTypeOK,
         \/ LatchAbort \/ LatchPause \/ ClearPause \/ ForceReset
         \/ \E b \in BOOLEAN : StopIntended(b)
         \/ \E p \in Int : CommandIssued(p)
  PROVE  SafetyTypeOK'
BY SupervisorAssumption
   DEF SafetyTypeOK, LatchAbort, LatchPause, ClearPause, ForceReset, StopIntended,
       CommandIssued

\* So do the requests the device answers or loses.
LEMMA RequestType ==
  ASSUME DeviceTypeOK, \E b \in BOOLEAN : AttemptMode(b)
  PROVE  DeviceTypeOK'
BY DEF DeviceTypeOK, AttemptMode, SetMode, device

\* The steps of the polling thread up to the verdict.
LEMMA TypeBeginTick == TypeInv /\ BeginTick => TypeInv'
<1> SUFFICES ASSUME TypeInv, BeginTick PROVE TypeInv'
  OBVIOUS
<1>1. DeviceTypeOK' /\ SafetyTypeOK' /\ IntentTypeOK'
  BY DeviceUntouched, SafetyUntouched, IntentUntouched DEF BeginTick, TypeInv, TypeOK
<1>2. membraneStatus' \in StatusRecord \cup {None, Offline} /\ poll' \in Polls
  BY DEF BeginTick, TypeInv, TypeOK, TickTypeOK, DeviceTypeOK, Status, StatusRecord, Polls,
         Reports
<1> QED
  BY <1>1, <1>2
     DEF BeginTick, TypeInv, TypeOK, CarriesOver, TickTypeOK, Places, operator

LEMMA TypeEvaluate == TypeInv /\ Evaluate => TypeInv'
<1> SUFFICES ASSUME TypeInv, Evaluate PROVE TypeInv'
  OBVIOUS
<1> PICK o \in Outcomes :
       /\ estimate' = o.is
       /\ usable' \in UsableIn(o.kind, o.is # None, usable /\ estimate # None, Faults)
       /\ errRecent' \in ErrRecentIn(o.kind = "error" \/ poll = "error", errRecent)
       /\ CommandAges
       /\ \E disturbed \in DisturbedIn(o.kind, poll, Faults),
             overLimit \in OverLimitIn(o) \cup MayAbort(membraneStatus) :
            verdict' = Verdict(membraneStatus, youngCmd', overLimit,
                               o.is # None /\ o.is.fast, disturbed,
                               resumeGrace' = "running", errRecent')
       /\ aborted' = (aborted \/ verdict' = "abort")
  BY DEF Evaluate
<1>0. estimate' \in Reading \cup {None}
  <2>1. Rejected \subseteq Reading \cup {None}
    BY ControllerAssumption DEF Rejected, Reading, TypeInv, TypeOK, TickTypeOK
  <2> QED
    BY <2>1, ControllerAssumption DEF Outcomes, TypeInv, TypeOK, TickTypeOK
<1>1. estimate' \in Reading \cup {None} /\ (usable' => estimate' \in Reading)
  BY <1>0 DEF UsableIn
<1>2. usable' \in BOOLEAN
  BY DEF UsableIn
<1>3. errRecent' \in BOOLEAN /\ resumeGrace' \in Graces
  BY DEF ErrRecentIn, Evaluate, TypeInv, TypeOK, SafetyTypeOK, TickTypeOK, Graces
<1>4. verdict' \in Verdicts /\ aborted' \in BOOLEAN /\ youngCmd' \in BOOLEAN
  BY DEF Evaluate, CommandAges, Verdict, Verdicts, TypeInv, TypeOK, SafetyTypeOK
<1>5. DeviceTypeOK' /\ SafetyTypeOK' /\ IntentTypeOK'
  BY <1>3, <1>4, DeviceUntouched, IntentUntouched
     DEF Evaluate, TypeInv, TypeOK, SafetyTypeOK
<1> QED
  BY <1>1, <1>2, <1>3, <1>4, <1>5
     DEF Evaluate, TypeInv, TypeOK, CarriesOver, TickTypeOK, Places, operator

\* The verdicts that stop or hold the membrane.
LEMMA TypePaused ==
  ASSUME TypeInv,
         ApplyAbort \/ ApplyPause \/ KeepRateHold \/ ConfirmRateHold
           \/ StartRatePause \/ StageRateHold
  PROVE  TypeInv'
<1>1. DeviceTypeOK'
  BY DeviceUntouched
     DEF TypeInv, TypeOK, ApplyAbort, ApplyPause, KeepRateHold, ConfirmRateHold,
         StartRatePause, StageRateHold, EnterPause
<1>2. SafetyTypeOK'
  BY SafetyUntouched, SupervisorType
     DEF TypeInv, TypeOK, ApplyAbort, ApplyPause, KeepRateHold, ConfirmRateHold,
         StartRatePause, StageRateHold
<1>3. IntentTypeOK'
  BY DEF TypeInv, TypeOK, IntentTypeOK, States, ApplyAbort, ApplyPause, KeepRateHold,
         ConfirmRateHold, StartRatePause, StageRateHold, EnterPause, RateOnlySoFar,
         AbandonMotion, EndRateHold, motion, target
<1>4. TickTypeOK' /\ CarriesOver'
  <2>1. CASE pc' = "reconcile" /\ UNCHANGED plan
    BY <2>1 DEF TypeInv, TypeOK, TickTypeOK, CarriesOver, Places, ApplyAbort, ApplyPause,
                KeepRateHold, ConfirmRateHold, StartRatePause, StageRateHold, EnterPause,
                sensed, operator
  <2>2. CASE StageRateHold
    <3>1. membraneStatus.act \in Int
      BY <2>2, ConnectedStatus
         DEF StageRateHold, CanHoldHere, InMeasure, StatusRecord, TypeInv, ShowsMode
    <3> QED
      BY <2>2, <3>1 DEF StageRateHold, EnterPause, TypeInv, TypeOK, TickTypeOK,
                        CarriesOver, Places, Plan, sensed, operator
  <2> QED
    BY <2>1, <2>2 DEF ApplyAbort, ApplyPause, KeepRateHold, ConfirmRateHold,
                      StartRatePause
<1> QED
  BY <1>1, <1>2, <1>3, <1>4 DEF TypeInv, TypeOK

\* The state a safe tick goes on from is never PAUSE without a prior state.
LEMMA ResumedState == IntentTypeOK => Resumed \in States /\ Approaching \in States
BY DEF IntentTypeOK, Resumed, Approaching, States

LEMMA SettleType == IntentTypeOK => SettleOutcomes \subseteq Int \cup {None}
BY DEF IntentTypeOK, SettleOutcomes

\* A safe tick that sends nothing.
QuietTick ==
  ApplyNoSample \/ ApplyHold \/ ApplyStayHold \/ ConfirmStaged \/ DiscardStaged
    \/ AwaitReadBack \/ AwaitSettle \/ AwaitOutput \/ NoCommand \/ PauseForSupply

LEMMA QuietTickShape ==
  QuietTick => SafeTick /\ pc' = "reconcile" /\ UNCHANGED plan
BY DEF QuietTick, ApplyNoSample, ApplyHold, ApplyStayHold, ConfirmStaged, DiscardStaged,
       AwaitReadBack, AwaitSettle, AwaitOutput, NoCommand, PauseForSupply, Sizes,
       Advancing

LEMMA TypeQuietTick == TypeInv /\ QuietTick => TypeInv'
<1> SUFFICES ASSUME TypeInv, QuietTick PROVE TypeInv'
  OBVIOUS
<1>1. DeviceTypeOK'
  BY DeviceUntouched, QuietTickShape DEF TypeInv, TypeOK, SafeTick
<1>2. SafetyTypeOK'
  BY SafetyUntouched, SupervisorType
     DEF TypeInv, TypeOK, QuietTick, ApplyNoSample, ApplyHold, ApplyStayHold,
         ConfirmStaged, DiscardStaged, AwaitReadBack, AwaitSettle, AwaitOutput,
         NoCommand, PauseForSupply
<1>3. state' \in States
  BY ResumedState
     DEF TypeInv, TypeOK, States, QuietTick, ApplyNoSample, ApplyHold, ApplyStayHold,
         ConfirmStaged, DiscardStaged, AwaitReadBack, AwaitSettle, AwaitOutput,
         NoCommand, PauseForSupply
<1>4. pendingStep' \in Int \cup {None} /\ stagedRearm' \in Staged \cup {None}
  BY SettleType
     DEF TypeInv, TypeOK, IntentTypeOK, QuietTick, ApplyNoSample, ApplyHold,
         ApplyStayHold, ConfirmStaged, DiscardStaged, AwaitReadBack, AwaitSettle,
         AwaitOutput, NoCommand, PauseForSupply, Sizes, AbandonMotion, motion, Staged
<1>5. IntentTypeOK'
  BY <1>3, <1>4, QuietTickShape
     DEF TypeInv, TypeOK, IntentTypeOK, SafeTick, EndRateHold, target
<1>6. TickTypeOK' /\ CarriesOver'
  BY QuietTickShape
     DEF TypeInv, TypeOK, TickTypeOK, CarriesOver, Places, SafeTick, sensed, operator
<1> QED
  BY <1>1, <1>2, <1>5, <1>6 DEF TypeInv, TypeOK

\* The sizing yields integers above an integer base.
LEMMA NextSetpointsType ==
  ASSUME TypeOK, membraneStatus \in StatusRecord
  PROVE  Base \in Int /\ NextSetpoints \subseteq Int
<1>1. Base \in Int
  BY DEF Base, StatusRecord
<1>2. \A n \in 1..MaxStep : Smaller(Base + n, MaxM) \in Int
  BY <1>1, SupervisorAssumption, ControllerAssumption DEF Smaller
<1> QED
  BY <1>1, <1>2 DEF NextSetpoints

LEMMA TypeDecideStep == TypeInv /\ DecideStep => TypeInv'
<1> SUFFICES ASSUME TypeInv, DecideStep PROVE TypeInv'
  OBVIOUS
<1> PICK left \in SettleOutcomes :
       /\ Sizes(left) /\ GateOpen
       /\ \E p \in NextSetpoints :
            /\ SourceAllows(p, membraneStatus)
            /\ plan' = [kind |-> IF stopIntended THEN "stage" ELSE "issue",
                        after |-> p, step |-> p - Base]
       /\ state' = Approaching
       /\ pc' = "write"
       /\ UNCHANGED safety
  BY DEF DecideStep
<1>1. left \in Int \cup {None}
  BY SettleType DEF TypeInv, TypeOK
<1>2. membraneStatus \in StatusRecord
  BY ConnectedStatus DEF Sizes, ReadyToStage, ReadyToIssue, InMeasure, InControl, TypeInv, ShowsMode
<1>3. plan' \in Plan /\ (plan'.kind = "issue" => InControl(membraneStatus))
  <2>1. PICK p \in NextSetpoints :
          plan' = [kind |-> IF stopIntended THEN "stage" ELSE "issue",
                   after |-> p, step |-> p - Base]
    OBVIOUS
  <2>2. p \in Int /\ p - Base \in Int
    BY <1>2, NextSetpointsType DEF TypeInv
  <2> QED
    BY <2>1, <2>2 DEF Plan, Sizes, ReadyToStage, ReadyToIssue
<1>4. DeviceTypeOK' /\ SafetyTypeOK'
  BY DeviceUntouched, SafetyUntouched
     DEF TypeInv, TypeOK, Sizes, Advancing, SafeTick
<1>5. IntentTypeOK'
  BY <1>1, ResumedState
     DEF TypeInv, TypeOK, IntentTypeOK, Sizes, Advancing, SafeTick, EndRateHold, target
<1> QED
  BY <1>3, <1>4, <1>5
     DEF TypeInv, TypeOK, TickTypeOK, CarriesOver, Places, Sizes, Advancing, SafeTick,
         sensed, operator, InControl, Connected, ShowsMode

\* The write and its bookkeeping.
LEMMA TypeWrite == TypeInv /\ (WriteSetpoint \/ WriteUnanswered) => TypeInv'
<1> SUFFICES ASSUME TypeInv, NEW ack \in BOOLEAN, pc = "write", Book(ack),
                    SetTarget(plan.after) \/ UNCHANGED device
             PROVE  TypeInv'
  BY DEF WriteSetpoint, WriteUnanswered
<1>1. plan \in Plan /\ (plan.kind = "issue" => membraneStatus \in StatusRecord)
  BY ConnectedStatus DEF TypeInv, CarriesOver, InControl, ShowsMode
<1>2. plan.after \in Int /\ plan.step \in Int /\ plan.kind \in {"hold", "stage", "issue"}
  BY <1>1 DEF Plan
<1>3. DeviceTypeOK' /\ SafetyTypeOK'
  BY <1>2, DeviceUntouched, SupervisorType
     DEF TypeInv, TypeOK, DeviceTypeOK, SetTarget, Book
<1>4. IntentTypeOK'
  <2>1. CASE plan.kind = "hold"
    BY <1>2, <2>1 DEF TypeInv, TypeOK, IntentTypeOK, Book, motion, target
  <2>2. CASE plan.kind = "stage"
    BY <1>2, <2>2 DEF TypeInv, TypeOK, IntentTypeOK, Book, Staged, States, target
  <2>3. CASE plan.kind = "issue"
    BY <1>2, <2>3 DEF TypeInv, TypeOK, IntentTypeOK, Book, States, target
  <2> QED
    BY <1>2, <2>1, <2>2, <2>3
<1>5. membraneStatus' \in StatusRecord \cup {None, Offline}
  BY <1>1, <1>2 DEF TypeInv, TypeOK, TickTypeOK, Book, StatusRecord, Reports
<1> QED
  BY <1>3, <1>4, <1>5
     DEF TypeInv, TypeOK, TickTypeOK, CarriesOver, Places, Book, operator

\* The reconciliation and the output write.
LEMMA TypeReconcile ==
  TypeInv /\ (ReconcileStop \/ ReconcileResume \/ WriteMode) => TypeInv'
<1> SUFFICES ASSUME TypeInv, ReconcileStop \/ ReconcileResume \/ WriteMode PROVE TypeInv'
  OBVIOUS
<1>1. DeviceTypeOK' /\ SafetyTypeOK' /\ IntentTypeOK'
  BY DeviceUntouched, RequestType, SafetyUntouched, IntentUntouched
     DEF TypeInv, TypeOK, ReconcileStop, ReconcileResume, WriteMode
<1> QED
  BY <1>1 DEF TypeInv, TypeOK, TickTypeOK, CarriesOver, Places, Graces, ReconcileStop,
              ReconcileResume, WriteMode, sensed, operator

\* The operator's calls.
LEMMA TypeOperator == TypeInv /\ Operator => TypeInv'
<1> SUFFICES ASSUME TypeInv, Operator PROVE TypeInv'
  OBVIOUS
<1>1. DeviceTypeOK'
  BY DeviceUntouched, RequestType
     DEF TypeInv, TypeOK, Operator, Pause, Abort, Quit, EmergencyStop, AbandonStep, Resume,
         Reset, SetUserTarget, Configure, ConfirmStop
<1>2. SafetyTypeOK'
  BY SafetyUntouched, SupervisorType
     DEF TypeInv, TypeOK, Operator, Pause, Abort, Quit, EmergencyStop, AbandonStep, Resume,
         Reset, SetUserTarget, LowerTarget, MoveTarget, Configure, ConfirmStop
<1>3. IntentTypeOK'
  <2>1. CASE SetUserTarget
    <3>1. PICK t \in Targets : userTarget' = t /\ (LowerTarget(t) \/ MoveTarget(t))
      BY <2>1 DEF SetUserTarget
    <3>2. t \in Int
      BY ControllerAssumption
    <3> QED
      BY <2>1, <3>1, <3>2
         DEF SetUserTarget, LowerTarget, MoveTarget, Larger, Abandon, AbandonMotion,
             EndRateHold, TypeInv, TypeOK, IntentTypeOK, States, motion
  <2>2. CASE Reset \/ AbandonStep
    BY <2>2 DEF Reset, AbandonStep, Abandon, AbandonMotion, EndRateHold, TypeInv, TypeOK,
                IntentTypeOK, States, target
  <2>3. CASE Configure
    BY <2>3, ControllerAssumption
       DEF Configure, TypeInv, TypeOK, IntentTypeOK, motion, ratePause
  <2> QED
    BY <2>1, <2>2, <2>3, IntentUntouched
       DEF TypeInv, TypeOK, Operator, Pause, Abort, Quit, EmergencyStop, Resume, ConfirmStop
<1>4. op' \in OpPlaces /\ quitting' \in BOOLEAN /\ started' \in BOOLEAN
  BY DEF TypeInv, TypeOK, TickTypeOK, OpPlaces, Operator, Pause, Abort, Quit,
         EmergencyStop, AbandonStep, Resume, Reset, SetUserTarget, LowerTarget, MoveTarget,
         Configure, ConfirmStop, operator
<1>5. /\ UNCHANGED <<membraneStatus, poll, usable, resumeGrace, tick>>
      /\ UNCHANGED estimate \/ (pc \notin {"apply", "write"} /\ estimate' = None)
  BY DEF Operator, Pause, Abort, Quit, EmergencyStop, AbandonStep, Resume, Reset,
         SetUserTarget, Configure, ConfirmStop, Locked, sensed, tick,
         TypeInv, TypeOK, TickTypeOK, Places
<1> QED
  BY <1>1, <1>2, <1>3, <1>4, <1>5
     DEF TypeInv, TypeOK, TickTypeOK, CarriesOver, tick, InControl, Connected, ShowsMode

\* What the device does by itself.
LEMMA TypeEnvironment == TypeInv /\ Environment => TypeInv'
<1> SUFFICES ASSUME TypeInv, Environment PROVE TypeInv'
  OBVIOUS
<1>1. DeviceTypeOK'
  <2>1. CASE Ramp \/ Leak \/ Drift(MaxM + 1)
    BY <2>1 DEF Ramp, Leak, Drift, TypeInv, TypeOK, DeviceTypeOK
  <2>2. CASE CatchUp \/ PanelMode
    BY <2>2 DEF CatchUp, PanelMode, TypeInv, TypeOK, DeviceTypeOK
  <2>3. CASE SupplyChange \/ PanelTarget
    BY <2>3, DeviceAssumption
       DEF SupplyChange, PanelTarget, TypeInv, TypeOK, DeviceTypeOK
  <2> QED
    BY <2>1, <2>2, <2>3 DEF Environment, DeviceStep
<1>2. SafetyTypeOK' /\ IntentTypeOK'
  BY SafetyUntouched, IntentUntouched DEF TypeInv, TypeOK, Environment
<1> QED
  BY <1>1, <1>2
     DEF TypeInv, TypeOK, TickTypeOK, CarriesOver, Environment, sensed, tick, operator,
         InControl, Connected, ShowsMode

LEMMA TypeUntouched == TypeInv /\ UNCHANGED vars => TypeInv'
<1> SUFFICES ASSUME TypeInv, UNCHANGED vars PROVE TypeInv'
  OBVIOUS
<1>1. DeviceTypeOK' /\ SafetyTypeOK' /\ IntentTypeOK'
  BY DeviceUntouched, SafetyUntouched, IntentUntouched DEF TypeInv, TypeOK, vars
<1> QED
  BY <1>1 DEF TypeInv, TypeOK, TickTypeOK, CarriesOver, vars, sensed, tick, operator,
              InControl, Connected, ShowsMode

LEMMA TypeStep == TypeInv /\ [Next]_vars => TypeInv'
BY TypeBeginTick, TypeEvaluate, TypePaused, TypeQuietTick, TypeDecideStep, TypeWrite,
   TypeReconcile, TypeOperator, TypeEnvironment, TypeUntouched
   DEF Next, PollingThread, QuietTick

\* Every variable of the controller, the supervisor and the device keeps its type,
\* through every verdict, lost answer and operator call.
THEOREM TypeCorrect == Spec => []TypeOK
<1>1. TypeInv => TypeOK
  BY DEF TypeInv
<1> QED
  BY TypeInit, TypeStep, <1>1, PTL DEF Spec

-----------------------------------------------------------------------------
(* Control is enabled only on the last commanded setpoint.  Nobody types on  *)
(* the front panel and no configuration is swapped in: the runs show that    *)
(* either breaks it.  Every connected status shows its setpoint: without it  *)
(* nothing is compared.                                                      *)

OwnSetpoint == "panel" \notin Faults /\ "noTarget" \notin Faults
Undisturbed == OwnSetpoint /\ "configure" \notin Commands

\* The decisions taken from a verdict.
Decides ==
  \/ ApplyAbort \/ ApplyPause \/ KeepRateHold \/ ConfirmRateHold \/ StartRatePause
  \/ StageRateHold \/ QuietTick \/ DecideStep

LEMMA DecidesEffect ==
  Decides => /\ pc = "apply" /\ pc' \in {"reconcile", "write"}
             /\ UNCHANGED <<tgt, membraneStatus, poll, verdict, lastCmd, youngCmd,
                            resumeGrace>>
BY QuietTickShape
   DEF Decides, ApplyAbort, ApplyPause, KeepRateHold, ConfirmRateHold, StartRatePause,
       StageRateHold, EnterPause, QuietTick, ApplyNoSample, ApplyHold, ApplyStayHold,
       ConfirmStaged, DiscardStaged, AwaitReadBack, AwaitSettle, AwaitOutput, NoCommand,
       PauseForSupply, DecideStep, Sizes, Advancing, SafeTick, StopIntended, LatchPause,
       device, sensed, safety

\* An operator's call never lifts a stop, and forgets the last command only together
\* with everything that waits for it, between two ticks.
OperatorKeeps ==
  /\ UNCHANGED <<tgt, membraneStatus, poll, verdict, plan, pc, resumeGrace>>
  /\ stopIntended => stopIntended'
  /\ stagedRearm' \in {stagedRearm, None}
  /\ ratePauseSetpoint' \in {ratePauseSetpoint, None}
  /\ \/ lastCmd' = lastCmd
     \/ /\ stopIntended' /\ ~Locked
        /\ stagedRearm' = None /\ ratePauseSetpoint' = None

LEMMA OperatorEffect == Undisturbed /\ TypeOK /\ Operator => OperatorKeeps
<1> SUFFICES ASSUME Undisturbed, TypeOK, Operator PROVE OperatorKeeps
  OBVIOUS
<1> USE DEF OperatorKeeps, device, safety, motion, target, ratePause, sensed, tick
<1>1. CASE Pause \/ Abort \/ Quit
  BY <1>1 DEF Pause, Abort, Quit, LatchPause, LatchAbort
<1>2. CASE EmergencyStop
  BY <1>2 DEF EmergencyStop, AttemptMode, SetMode
<1>3. CASE AbandonStep
  BY <1>3 DEF AbandonStep, Abandon, AbandonMotion, EndRateHold
<1>4. CASE Resume \/ ConfirmStop
  BY <1>4 DEF Resume, ConfirmStop, ClearPause
<1>5. CASE Reset
  BY <1>5 DEF Reset, ForceReset, Abandon, AbandonMotion, EndRateHold, Locked
<1>6. CASE SetUserTarget
  <2> PICK t \in Targets : LowerTarget(t) \/ MoveTarget(t)
    BY <1>6 DEF SetUserTarget
  <2> QED
    BY <1>6 DEF SetUserTarget, LowerTarget, MoveTarget, StopIntended, Abandon,
                AbandonMotion, EndRateHold
<1>7. ~Configure
  BY DEF Undisturbed, Configure, OperatorMay
<1> QED
  BY <1>1, <1>2, <1>3, <1>4, <1>5, <1>6, <1>7 DEF Operator

\* While a tick holds the lock, no call touches what its decisions were taken from; at
\* any time a call leaves the polling thread where it is.
OperatorOutside ==
  /\ UNCHANGED <<tgt, act, membraneStatus, poll, verdict, plan, pc>>
  /\ mode' \in {FALSE, mode}
  /\ stopIntended => stopIntended'
  /\ Locked => UNCHANGED <<lastCmd, youngCmd, target, motion, estimate,
                          ratePauseHolding, ratePauseSetpoint>>

LEMMA OperatorStaysOutside == TypeOK /\ Operator => OperatorOutside
<1> SUFFICES ASSUME TypeOK, Operator PROVE OperatorOutside
  OBVIOUS
<1> USE DEF OperatorOutside, device, safety, motion, target, ratePause, sensed, tick
<1>1. CASE Pause \/ Abort \/ Quit
  BY <1>1 DEF Pause, Abort, Quit, LatchPause, LatchAbort
<1>2. CASE EmergencyStop
  <2>1. AttemptMode(FALSE)
    BY <1>2 DEF EmergencyStop
  <2>2. UNCHANGED <<tgt, act>> /\ mode' \in {FALSE, mode}
    BY <2>1 DEF AttemptMode, SetMode
  <2> QED
    BY <1>2, <2>2 DEF EmergencyStop
<1>3. CASE AbandonStep
  BY <1>3 DEF AbandonStep, Locked
<1>4. CASE Resume
  BY <1>4 DEF Resume, ClearPause, operator
<1>7. CASE ConfirmStop
  BY <1>7 DEF ConfirmStop
<1>5. CASE Reset \/ Configure
  BY <1>5 DEF Reset, Configure, ForceReset, Locked
<1>6. CASE SetUserTarget
  BY <1>6 DEF SetUserTarget, LowerTarget, MoveTarget, StopIntended, Locked
<1> QED
  BY <1>1, <1>2, <1>3, <1>4, <1>5, <1>6, <1>7 DEF Operator

\* The device moves its pressure, its output and its supply, never its setpoint.
LEMMA EnvironmentEffect ==
  OwnSetpoint /\ Environment =>
    UNCHANGED <<tgt, stopIntended, lastCmd, youngCmd, stagedRearm, ratePauseSetpoint,
                membraneStatus, poll, resumeGrace, verdict, plan, pc>>
BY DEF OwnSetpoint, Environment, DeviceStep, Ramp, CatchUp, Leak, Drift, SupplyChange,
       PanelMode, PanelTarget, safety, motion, ratePause, sensed, tick

\* So do the reconciliation and the output write.
LEMMA ReconcileEffect ==
  ReconcileStop \/ ReconcileResume \/ WriteMode =>
    /\ pc \in {"reconcile", "enable", "disable"} /\ pc' \in {"idle", "enable", "disable"}
    /\ UNCHANGED <<tgt, stopIntended, lastCmd, youngCmd, stagedRearm, ratePauseSetpoint,
                   membraneStatus, poll, verdict, plan>>
BY DEF ReconcileStop, ReconcileResume, WriteMode, AttemptMode, SetMode, device, safety,
       motion, ratePause, sensed

LEMMA WriteEffect ==
  WriteSetpoint \/ WriteUnanswered =>
    \E ack \in BOOLEAN : /\ pc = "write" /\ pc' = "reconcile" /\ Book(ack)
                         /\ tgt' = plan.after \/ (~ack /\ tgt' = tgt)
BY DEF WriteSetpoint, WriteUnanswered, Book, SetTarget, device

LEMMA NextCases ==
  Next <=> \/ BeginTick \/ Evaluate \/ Decides \/ WriteSetpoint \/ WriteUnanswered
           \/ ReconcileStop \/ ReconcileResume \/ WriteMode \/ Operator \/ Environment
BY DEF Next, PollingThread, Decides, QuietTick

\* A fresh status is read from the device, whose setpoint no one else moves before
\* the tick writes its own.
LEMMA ReadBackStep ==
  ASSUME OwnSetpoint, TypeInv, ReadBackTrue, Next
  PROVE  ReadBackTrue'
<1> USE DEF ReadBackTrue
<1>1. CASE BeginTick
  BY <1>1 DEF BeginTick, Status, Connected, device
<1>2. CASE Evaluate
  BY <1>2 DEF Evaluate, Connected, device
<1>3. CASE Decides
  BY <1>3, DecidesEffect DEF Connected
<1>4. CASE WriteSetpoint \/ WriteUnanswered
  BY <1>4, WriteEffect
<1>5. CASE ReconcileStop \/ ReconcileResume \/ WriteMode
  BY <1>5, ReconcileEffect
<1>6. CASE Operator
  BY <1>6, OperatorStaysOutside DEF OperatorOutside, TypeInv, Connected
<1>7. CASE Environment
  BY <1>7, EnvironmentEffect DEF Connected
<1> QED
  BY <1>1, <1>2, <1>3, <1>4, <1>5, <1>6, <1>7, NextCases

\* What is kept waiting for a read-back is forgotten whenever another setpoint may be
\* commanded.
LEMMA WaitsStep ==
  ASSUME Undisturbed, IInv, Next
  PROVE  WaitsForLastCommand'
<1> USE DEF IInv, WaitsForLastCommand
<1>1. CASE BeginTick
  BY <1>1 DEF BeginTick, safety, motion, ratePause
<1>2. CASE Evaluate
  BY <1>2 DEF Evaluate, motion, ratePause
<1>3. CASE Decides
  <2>1. UNCHANGED lastCmd
    BY <1>3, DecidesEffect
  <2>2. CASE ApplyAbort \/ ApplyPause \/ KeepRateHold \/ ConfirmRateHold
               \/ StartRatePause \/ StageRateHold
    BY <2>1, <2>2
       DEF ApplyAbort, ApplyPause, KeepRateHold, ConfirmRateHold, StartRatePause,
           StageRateHold, EnterPause, AbandonMotion, EndRateHold, safety, motion
  <2>3. CASE QuietTick
    BY <2>1, <2>3
       DEF QuietTick, ApplyNoSample, ApplyHold, ApplyStayHold, ConfirmStaged,
           DiscardStaged, AwaitReadBack, AwaitSettle, AwaitOutput, NoCommand,
           PauseForSupply, Sizes, Advancing, SafeTick, AbandonMotion, EndRateHold,
           StopIntended, LatchPause, safety, motion
  <2>4. CASE DecideStep
    BY <2>1, <2>4
       DEF DecideStep, Sizes, Advancing, SafeTick, EndRateHold, safety
  <2> QED
    BY <1>3, <2>2, <2>3, <2>4 DEF Decides
<1>4. CASE WriteSetpoint \/ WriteUnanswered
  <2> PICK ack \in BOOLEAN : pc = "write" /\ Book(ack)
    BY <1>4, WriteEffect
  <2>1. stagedRearm = None /\ ratePauseSetpoint = None /\ UNCHANGED stopIntended
    BY DEF WritesAlone, Book, CommandIssued
  <2>2. CASE plan.kind = "hold"
    BY <2>1, <2>2 DEF Book, CommandIssued, motion
  <2>3. CASE plan.kind = "stage"
    BY <2>1, <2>3 DEF Book, CommandIssued, WritesAlone
  <2>4. CASE plan.kind = "issue"
    BY <2>1, <2>4 DEF Book
  <2> QED
    BY <2>2, <2>3, <2>4 DEF Book
<1>5. CASE ReconcileStop \/ ReconcileResume \/ WriteMode
  BY <1>5, ReconcileEffect
<1>6. CASE Operator
  BY <1>6, OperatorEffect DEF OperatorKeeps, TypeInv
<1>7. CASE Environment
  BY <1>7, EnvironmentEffect DEF Undisturbed
<1> QED
  BY <1>1, <1>2, <1>3, <1>4, <1>5, <1>6, <1>7, NextCases

\* A write begins with nothing waiting, and only a stop may come in between.
LEMMA WritesAloneStep ==
  ASSUME Undisturbed, IInv, Next
  PROVE  WritesAlone'
<1> USE DEF IInv, WritesAlone
<1>1. CASE BeginTick \/ Evaluate
  BY <1>1 DEF BeginTick, Evaluate
<1>2. CASE Decides
  <2>1. CASE StageRateHold
    BY <2>1 DEF StageRateHold, EnterPause, AbandonMotion, StopIntended, CanHoldHere
  <2>2. CASE DecideStep
    BY <2>2 DEF DecideStep, Sizes, ReadyToStage, ReadyToIssue, Advancing, SafeTick,
                EndRateHold, GateOpen, WaitsForLastCommand, safety, sensed
  <2>3. CASE pc' = "reconcile"
    BY <2>3
  <2> QED
    BY <1>2, <2>1, <2>2, <2>3, QuietTickShape
       DEF Decides, ApplyAbort, ApplyPause, KeepRateHold, ConfirmRateHold, StartRatePause
<1>3. CASE WriteSetpoint \/ WriteUnanswered
  BY <1>3, WriteEffect
<1>4. CASE ReconcileStop \/ ReconcileResume \/ WriteMode
  BY <1>4, ReconcileEffect
<1>5. CASE Operator
  BY <1>5, OperatorEffect DEF OperatorKeeps, TypeInv
<1>6. CASE Environment
  BY <1>6, EnvironmentEffect DEF Undisturbed
<1> QED
  BY <1>1, <1>2, <1>3, <1>4, <1>5, <1>6, NextCases

\* A setpoint just written is the one commanded.
LEMMA CloseToItself == \A p \in Int : Close(p, p)
BY SupervisorAssumption DEF Close, Distance

\* A status that is connected shows its setpoint.
LEMMA TargetShown ==
  ASSUME OwnSetpoint, NEW s \in StatusRecord
  PROVE  Connected(s) => ShowsTarget(s)
BY DEF OwnSetpoint, StatusRecord, Reports, ShowsTarget

\* A verdict that lets Control run has compared the status with the last command,
\* unless that was young, and has found Control on if it is wanted.
LEMMA VerdictSees ==
  ASSUME Evaluate, verdict' \in {"ok", "rate"}
  PROVE  /\ membraneStatus # Offline /\ ~SetpointMismatch(membraneStatus, youngCmd')
         /\ Connected(membraneStatus) /\ resumeGrace' # "running" /\ ~stopIntended
              => InControl(membraneStatus)
<1>1. PICK overLimit, fast, disturbed :
        verdict' = Verdict(membraneStatus, youngCmd', overLimit, fast, disturbed,
                           resumeGrace' = "running", errRecent')
  BY DEF Evaluate
<1> QED
  BY <1>1 DEF Verdict, Incomplete, ControlLost, ShowsMode, InControl

\* Lifting the stop needs a read-back of what was last commanded.
LEMMA DecideArms ==
  ASSUME IInv, Decides, ~stopIntended'
  PROVE  \/ ~stopIntended /\ verdict \in {"ok", "rate"}
         \/ lastCmd # None /\ Holds
<1> USE DEF IInv
<1>1. CASE ConfirmRateHold
  BY <1>1 DEF ConfirmRateHold, EnterPause, HoldReadBack, ShowsTarget, ReadBackTrue,
              Holds, WaitsForLastCommand
<1>2. CASE ConfirmStaged
  <2>1. stagedRearm.after \in Int /\ lastCmd = stagedRearm.after
    BY <1>2 DEF ConfirmStaged, WaitsForLastCommand, TypeInv, TypeOK, IntentTypeOK, Staged
  <2>2. membraneStatus.tgt = tgt
    BY <1>2 DEF ConfirmStaged, Advancing, SafeTick, StagedReadBack, ShowsTarget,
                ReadBackTrue
  <2> QED
    BY <1>2, <2>1, <2>2, SupervisorAssumption
       DEF ConfirmStaged, StagedReadBack, Holds
<1>3. CASE ApplyAbort \/ ApplyPause \/ StartRatePause \/ StageRateHold
  BY <1>3 DEF ApplyAbort, ApplyPause, StartRatePause, StageRateHold, StopIntended
<1>4. CASE KeepRateHold
  BY <1>4 DEF KeepRateHold, EnterPause, RateOnlySoFar, safety
<1>5. CASE QuietTick
  <2>1. verdict = "ok"
    BY <1>5, QuietTickShape DEF SafeTick
  <2>2. CASE ApplyHold \/ PauseForSupply
    BY <2>2 DEF ApplyHold, PauseForSupply, StopIntended, LatchPause
  <2> QED
    BY <1>2, <1>5, <2>1, <2>2
       DEF QuietTick, ApplyNoSample, ApplyStayHold, DiscardStaged, AwaitReadBack,
           AwaitSettle, AwaitOutput, NoCommand, safety
<1>6. CASE DecideStep
  BY <1>6 DEF DecideStep, Sizes, Advancing, SafeTick, safety
<1> QED
  BY <1>1, <1>3, <1>4, <1>5, <1>6 DEF Decides

\* Control stays wanted only on the last commanded setpoint, or with a status at hand
\* that will stop it.
LEMMA DriveStep ==
  ASSUME Undisturbed, IInv, Next
  PROVE  DriveVetted'
<1> SUFFICES ASSUME ~stopIntended' PROVE DriveVetted'
  BY DEF DriveVetted
<1> USE DEF IInv
<1> USE DEF DriveVetted
<1>1. CASE BeginTick
  <2>1. /\ ~stopIntended /\ lastCmd' = lastCmd /\ tgt' = tgt /\ pc = "idle"
        /\ pc' = "evaluate" /\ resumeGrace' = resumeGrace
    BY <1>1 DEF BeginTick, safety, device
  <2>2. CASE UNCHANGED membraneStatus
    BY <2>1, <2>2 DEF Holds, ShownLost, InControl, ShowsMode, Connected, Close
  <2>3. ASSUME NEW g \in Reports, membraneStatus' = Status(g) PROVE DriveVetted'
    <3>1. Status(g) \in StatusRecord /\ Status(g).tgt = tgt
      BY DEF Status, StatusRecord, TypeInv, TypeOK, DeviceTypeOK
    <3>2. Status(g) # None /\ Status(g) # Offline
      BY <3>1, ControllerAssumption
    <3> QED
      BY <2>1, <2>3, <3>1, <3>2 DEF Holds, ShownLost, Connected, Close
  <2>4. CASE membraneStatus' = Offline
    BY <2>1, <2>4 DEF Holds, ShownLost, Close
  <2> QED
    BY <1>1, <2>2, <2>3, <2>4 DEF BeginTick
<1>2. CASE Evaluate
  <2>1. /\ ~stopIntended /\ pc = "evaluate" /\ pc' = "apply"
        /\ UNCHANGED <<lastCmd, tgt, membraneStatus>>
        /\ resumeGrace = "none" => resumeGrace' # "running"
    BY <1>2 DEF Evaluate, device
  <2>2. ASSUME verdict' \in {"ok", "rate"}, resumeGrace = "none", Connected(membraneStatus)
        PROVE  InControl(membraneStatus)
    BY <1>2, <2>1, <2>2, VerdictSees
  <2>3. ASSUME verdict' \in {"ok", "rate"} PROVE membraneStatus # Offline
    BY <1>2, <2>3, VerdictSees
  <2> QED
    BY <2>1, <2>2, <2>3 DEF Holds, ShownLost, InControl, ShowsMode, Connected, Close
<1>3. CASE Decides
  <2>1. /\ pc = "apply" /\ pc' \in {"reconcile", "write"}
        /\ UNCHANGED <<tgt, lastCmd, membraneStatus>>
    BY <1>3, DecidesEffect
  <2>2. lastCmd # None /\ (Holds \/ ShownLost)
    BY <1>3, <2>1, DecideArms
  <2> QED
    BY <2>1, <2>2 DEF Holds, ShownLost, InControl, ShowsMode, Connected, Close
<1>4. CASE WriteSetpoint \/ WriteUnanswered
  <2> PICK ack \in BOOLEAN : /\ pc = "write" /\ pc' = "reconcile" /\ Book(ack)
                             /\ tgt' = plan.after \/ (~ack /\ tgt' = tgt)
    BY <1>4, WriteEffect
  <2>1. lastCmd' = plan.after /\ plan.after \in Int /\ lastCmd' # None
    BY SupervisorAssumption DEF Book, CommandIssued, TypeInv, CarriesOver, Plan
  <2>2. CASE tgt' = plan.after
    BY <2>1, <2>2, CloseToItself DEF Holds, Close
  <2>3. CASE ~ack /\ tgt' = tgt
    <3>1. plan.kind = "issue"
      BY DEF WritesAlone, Book, CommandIssued
    <3>2. InControl(membraneStatus) /\ membraneStatus.tgt = tgt
      BY <3>1 DEF TypeInv, CarriesOver, WritesAlone, ReadBackTrue, InControl, ShowsMode
    <3>3. membraneStatus' = membraneStatus
      BY <2>3, <3>1 DEF Book
    <3> QED
      BY <2>1, <2>3, <3>2, <3>3 DEF Holds, ShownLost, InControl, ShowsMode, Connected, Close
  <2> QED
    BY <2>2, <2>3
<1>5. CASE ReconcileStop
  BY <1>5 DEF ReconcileStop, safety
<1>6. CASE ReconcileResume \/ WriteMode
  <2>1. /\ ~stopIntended /\ pc \in {"reconcile", "enable", "disable"}
        /\ UNCHANGED <<tgt, lastCmd, membraneStatus>>
    BY <1>6, ReconcileEffect
  <2>2. CASE ReconcileResume
    BY <2>1, <2>2 DEF ReconcileResume, Holds, ShownLost, InControl, ShowsMode, Connected,
                      Close
  <2>3. CASE WriteMode
    BY <2>1, <2>3 DEF WriteMode, EnableVetted, Holds, Close
  <2> QED
    BY <1>6, <2>2, <2>3
<1>7. CASE Operator
  <2>1. /\ UNCHANGED <<tgt, membraneStatus, verdict, pc, resumeGrace>>
        /\ ~stopIntended /\ lastCmd' = lastCmd
    BY <1>7, OperatorEffect DEF OperatorKeeps, TypeInv
  <2> QED
    BY <2>1 DEF Holds, ShownLost, InControl, ShowsMode, Connected, Close
<1>8. CASE Environment
  <2>1. UNCHANGED <<tgt, stopIntended, membraneStatus, verdict, lastCmd, pc, resumeGrace>>
    BY <1>8, EnvironmentEffect DEF Undisturbed
  <2> QED
    BY <2>1 DEF Holds, ShownLost, InControl, ShowsMode, Connected, Close
<1> QED
  BY <1>1, <1>2, <1>3, <1>4, <1>5, <1>6, <1>7, <1>8, NextCases

\* Only the reconciliation begins to enable, and nothing moves the setpoint under it.
LEMMA EnableStep ==
  ASSUME Undisturbed, IInv, Next
  PROVE  EnableVetted'
<1> USE DEF IInv, EnableVetted
<1>1. CASE BeginTick \/ Evaluate \/ WriteMode \/ ReconcileStop
  BY <1>1 DEF BeginTick, Evaluate, WriteMode, ReconcileStop
<1>2. CASE Decides
  BY <1>2, DecidesEffect
<1>3. CASE WriteSetpoint \/ WriteUnanswered
  BY <1>3, WriteEffect
<1>4. CASE ReconcileResume
  BY <1>4, ReconcileEffect DEF ReconcileResume, DriveVetted, Holds, ShownLost, Close
<1>5. CASE Operator
  BY <1>5, OperatorEffect DEF OperatorKeeps, TypeInv, Locked, Close
<1>6. CASE Environment
  BY <1>6, EnvironmentEffect DEF Undisturbed, Close
<1> QED
  BY <1>1, <1>2, <1>3, <1>4, <1>5, <1>6, NextCases

LEMMA InvInit == Init => IInv
<1> SUFFICES ASSUME Init PROVE IInv
  OBVIOUS
<1>1. TypeInv
  BY TypeInit
<1>2. ReadBackTrue /\ WaitsForLastCommand /\ WritesAlone /\ DriveVetted /\ EnableVetted
  BY DEF Init, SafetyInit, ReadBackTrue, WaitsForLastCommand, WritesAlone, DriveVetted,
         EnableVetted
<1> QED
  BY <1>1, <1>2 DEF IInv

LEMMA InvUntouched == IInv /\ UNCHANGED vars => IInv'
<1> SUFFICES ASSUME IInv, UNCHANGED vars PROVE IInv'
  OBVIOUS
<1>1. TypeInv'
  BY TypeUntouched DEF IInv
<1>2. /\ ReadBackTrue' /\ WaitsForLastCommand' /\ WritesAlone' /\ DriveVetted'
      /\ EnableVetted'
  BY DEF IInv, vars, device, safety, motion, ratePause, sensed, tick, ReadBackTrue,
         WaitsForLastCommand, WritesAlone, DriveVetted, EnableVetted, Holds, ShownLost,
         Close,
         InControl, Connected, ShowsMode
<1> QED
  BY <1>1, <1>2 DEF IInv

LEMMA InvHolds == Undisturbed => (Spec => []IInv)
<1> SUFFICES ASSUME Undisturbed PROVE Spec => []IInv
  OBVIOUS
<1>1. IInv /\ [Next]_vars => IInv'
  <2>1. ASSUME IInv, Next PROVE IInv'
    <3>1. TypeInv'
      BY <2>1, TypeStep DEF IInv
    <3>2. ReadBackTrue'
      BY <2>1, ReadBackStep DEF IInv, Undisturbed
    <3> QED
      BY <2>1, <3>1, <3>2, WaitsStep, WritesAloneStep, DriveStep, EnableStep DEF IInv
  <2> QED
    BY <2>1, InvUntouched
<1> QED
  BY InvInit, <1>1, PTL DEF Spec

\* However answers are lost and whenever the operator pauses, aborts, resets or moves
\* the target, the output is switched to Control only with the device on the setpoint
\* last commanded in this run.
THEOREM ControlVetted == Undisturbed => (Spec => []EnableVetted)
<1> SUFFICES ASSUME Undisturbed PROVE Spec => []EnableVetted
  OBVIOUS
<1>1. IInv => EnableVetted
  BY DEF IInv
<1> QED
  BY InvHolds, <1>1, PTL

=============================================================================
