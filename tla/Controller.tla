----------------------------- MODULE Controller -----------------------------
(***************************************************************************)
(* controller.py: the one-sided pressure controller, between a polling     *)
(* thread that runs step() and an operator thread that calls set_target,   *)
(* pause, resume, abort, reset, apply_config_update and stop_and_confirm,  *)
(* with the PACE5000 ramping by itself next to both.                       *)
(*                                                                         *)
(* A tick is cut where another actor can come in between: at the device    *)
(* reads (before the lock), at the verdict, at the decision taken from it, *)
(* at the pressure write, at the reconciliation of the output and at the   *)
(* output write.  The lock is held from the verdict to the end of the      *)
(* tick; the operator's flags are set without it.                          *)
(***************************************************************************)
EXTENDS Pace5000, SafetySupervisor, SensorChoices

CONSTANTS
  Commands,        \* what the operator may do
  Targets,         \* targets the operator may set
  Ceilings,        \* values of max_sample_pressure_gpa
  Readings,        \* what the estimator may report after a sample
  MaxStep,         \* the largest membrane step the sizing yields
  ArrivalTol,      \* membrane_arrival_tolerance_mpa
  Overshoot,       \* overshoot_margin_gpa
  Reach,           \* reach_margin_gpa
  Reapproach,      \* reapproach_margin_gpa
  ApproachMargin,  \* approach_margin_gpa
  AutoArm          \* ensure_control_mode_enabled

CommandKinds ==
  {"target", "pause", "resume", "abort", "reset", "configure", "quit"}

\* A reading is the filtered pressure, the latest raw sample, the rise predicted
\* over the horizon, and whether the slope exceeds the compression-rate cap.
Reading == [filtered : Int, raw : Int, rise : Nat, fast : BOOLEAN]

ASSUME ControllerAssumption ==
  /\ Commands \subseteq CommandKinds
  /\ Targets \subseteq Int
  /\ Ceilings \subseteq Int
  /\ Readings \subseteq Reading
  /\ MaxStep \in Nat
  /\ {ArrivalTol, Overshoot, Reach, Reapproach, ApproachMargin} \subseteq Nat
  /\ Reach <= Reapproach
  /\ AutoArm \in BOOLEAN
  /\ {None, Offline} \cap StatusRecord = {} /\ None \notin Reading

VARIABLES
  state,                \* ControlState
  userTarget,           \* user_target_gpa
  ceiling,              \* safety.max_sample_pressure_gpa
  pendingStep,          \* setpoint of _pending_step
  stagedRearm,          \* _staged_rearm_step: its setpoint and its size
  targetReductionHold,  \* _target_reduction_hold
  resumeFloor,          \* _target_reduction_resume_floor_gpa
  priorState,           \* _prior_state_before_pause
  ratePauseEligible,    \* _rate_pause_eligible
  ratePauseHolding,     \* _rate_pause_holding
  ratePauseSetpoint,    \* _rate_pause_hold_setpoint
  membraneStatus,       \* _membrane_status
  poll,                 \* how this tick's status poll went
  estimate,             \* what the estimator reports
  usable,               \* this tick has a sample to compute a command from
  resumeGrace,          \* _control_mode_resume_grace_until
  verdict,              \* this tick's verdict
  plan,                 \* the set_pressure about to be sent
  pc,                   \* where the polling thread is
  op,                   \* where the operator thread is
  quitting,             \* stop_event set: no further tick begins
  started               \* the operator wants control (GUI: Start pressed last)

motion == <<pendingStep, stagedRearm>>
target == <<userTarget, ceiling, targetReductionHold, resumeFloor>>
ratePause == <<priorState, ratePauseEligible, ratePauseHolding, ratePauseSetpoint>>
sensed == <<membraneStatus, poll, estimate, usable>>
tick == <<verdict, plan, pc>>
operator == <<op, quitting, started>>

vars == <<device, safety, state, motion, target, ratePause, sensed, resumeGrace,
          tick, operator>>

States == {"APPROACH", "SETTLE", "HOLD", "PAUSE", "ABORT"}
Verdicts == {"ok", "rate", "pause", "abort"}
Graces == {"none", "running", "over"}
Places == {"idle", "evaluate", "apply", "write", "reconcile", "disable", "enable"}
OpPlaces == {"none", "halt", "abandon", "stop", "confirm", "retry", "exited", "gaveUp"}

Staged == [after : Int, step : Int]
Plan == [kind : {"hold", "stage", "issue"}, after : Int, step : Int]

IntentTypeOK ==
  /\ state \in States
  /\ userTarget \in Int
  /\ ceiling \in Int
  /\ pendingStep \in Int \cup {None}
  /\ stagedRearm \in Staged \cup {None}
  /\ targetReductionHold \in BOOLEAN
  /\ resumeFloor \in Int \cup {None}
  /\ priorState \in States \cup {None}
  /\ ratePauseEligible \in BOOLEAN
  /\ ratePauseHolding \in BOOLEAN
  /\ ratePauseSetpoint \in Int \cup {None}

TickTypeOK ==
  /\ membraneStatus \in StatusRecord \cup {None, Offline}
  /\ poll \in Polls
  /\ estimate \in Reading \cup {None}
  /\ usable \in BOOLEAN
  /\ resumeGrace \in Graces
  /\ verdict \in Verdicts
  /\ plan \in Plan \cup {None}
  /\ pc \in Places
  /\ op \in OpPlaces
  /\ quitting \in BOOLEAN
  /\ started \in BOOLEAN

TypeOK == DeviceTypeOK /\ SafetyTypeOK /\ IntentTypeOK /\ TickTypeOK

\* OneSidedPressureController.__init__: nothing left in the PACE5000 is trusted.
Init ==
  /\ DeviceInit
  /\ SafetyInit
  /\ state = "APPROACH"
  /\ userTarget \in Targets
  /\ ceiling \in Ceilings
  /\ userTarget <= ceiling
  /\ pendingStep = None /\ stagedRearm = None
  /\ targetReductionHold = FALSE /\ resumeFloor = None
  /\ priorState = None
  /\ ratePauseEligible = FALSE /\ ratePauseHolding = FALSE
  /\ ratePauseSetpoint = None
  /\ membraneStatus = None /\ poll = "first"
  /\ estimate = None /\ usable = FALSE
  /\ resumeGrace = "none"
  /\ verdict = "ok" /\ plan = None /\ pc = "idle"
  /\ op = "none" /\ quitting = FALSE /\ started = TRUE

-----------------------------------------------------------------------------
(* Helpers.                                                                 *)

Larger(a, b) == IF a < b THEN b ELSE a
Smaller(a, b) == IF a < b THEN a ELSE b

\* The tick holds self._lock.
Locked == pc \notin {"idle", "evaluate"}

\* read-back of the output, as the code compares it with True and with False
InControl(s) == ShowsMode(s) /\ s.mode
InMeasure(s) == ShowsMode(s) /\ ~s.mode

\* Mutant: the ceiling is looked at only when the target is set.
EffectiveTarget_User == userTarget

\* _effective_target_gpa, _conservative_sample_pressure, predicted
EffectiveTarget == Smaller(userTarget, ceiling)
Sizing == Larger(estimate.filtered, estimate.raw)
Predicted == Larger(estimate.filtered + estimate.rise, Sizing)

AboveTarget == Sizing > EffectiveTarget + Overshoot
ReachesTarget == Predicted >= EffectiveTarget - Reach
BelowReapproach == estimate.filtered < EffectiveTarget - Reapproach

\* _abandon_motion: forget the step in flight and the staged one.
AbandonMotion == pendingStep' = None /\ stagedRearm' = None

\* The end of a rate-pause hold, as every interruption writes it.
EndRateHold ==
  /\ ratePauseHolding' = FALSE
  /\ ratePauseSetpoint' = None

-----------------------------------------------------------------------------
(* The polling thread: step().                                              *)

\* The reads, before the lock: the status poll may not be due, may fail, and may
\* answer that the device is not connected, or with some of its fields missing.
BeginTick ==
  /\ pc = "idle" /\ ~quitting
  /\ \/ /\ "slowPoll" \in Faults /\ poll # "first"
        /\ poll' = "notDue"
        /\ UNCHANGED membraneStatus
     \/ /\ "statusRead" \in Faults
        /\ poll' = "error"
        /\ UNCHANGED membraneStatus
     \/ /\ poll' = "fresh"
        /\ membraneStatus' \in
             {Status(g) : g \in Reports}
               \cup (IF "offline" \in Faults THEN {Offline} ELSE {})
  /\ pc' = "evaluate"
  /\ UNCHANGED <<device, safety, state, motion, target, ratePause, estimate,
                 usable, resumeGrace, verdict, plan, operator>>

\* A rejected sample leaves the filter as it was, yet its own pressure, if it has one,
\* is the latest raw value.
Rejected ==
  IF estimate = None THEN {None}
  ELSE {[estimate EXCEPT !.raw = p] : p \in {estimate.filtered} \cup {r.raw : r \in Readings}}

\* What the ruby source gave this tick: an accepted sample, a rejected one or an error.
Outcomes ==
  [kind : {"sample"}, is : Readings]
    \cup (IF "ruby" \in Faults
          THEN [kind : {"invalid"}, is : Rejected] \cup [kind : {"error"}, is : {estimate}]
          ELSE {})

\* The raw value is compared with the ceiling even before any sample was accepted.
OverLimitIn(o) ==
  IF o.is # None THEN {o.is.raw > ceiling}
  ELSE {FALSE} \cup {r.raw > ceiling : r \in Readings}

\* The lock is taken, the sample is fed to the estimator and the supervisor gives
\* its verdict.
Evaluate ==
  /\ pc = "evaluate"
  /\ \E o \in Outcomes :
       /\ estimate' = o.is
       /\ usable' \in UsableIn(o.kind, o.is # None, usable /\ estimate # None, Faults)
       /\ errRecent' \in ErrRecentIn(o.kind = "error" \/ poll = "error", errRecent)
       /\ resumeGrace' \in IF resumeGrace = "running" THEN {"running", "over"}
                           ELSE {resumeGrace}
       /\ CommandAges
       /\ \E disturbed \in DisturbedIn(o.kind, poll, Faults),
             overLimit \in OverLimitIn(o) \cup MayAbort(membraneStatus) :
            verdict' = Verdict(membraneStatus, youngCmd', overLimit,
                               o.is # None /\ o.is.fast, disturbed,
                               resumeGrace' = "running", errRecent')
       /\ aborted' = (aborted \/ verdict' = "abort")
  /\ pc' = "apply"
  /\ UNCHANGED <<device, manualPause, stopIntended, lastCmd, state, motion, target,
                 ratePause, membraneStatus, poll, plan, operator>>

-----------------------------------------------------------------------------
(* _apply_verdict, first two branches.                                      *)

ApplyAbort ==
  /\ pc = "apply" /\ verdict = "abort"
  /\ StopIntended(TRUE)
  /\ AbandonMotion
  /\ EndRateHold
  /\ state' = "ABORT"
  /\ pc' = "reconcile"
  /\ UNCHANGED <<device, target, priorState, ratePauseEligible, sensed, resumeGrace,
                 verdict, plan, operator>>

\* This PAUSE episode has been nothing but compression_rate_exceeded so far.
RateOnlySoFar == (state # "PAUSE" \/ ratePauseEligible) /\ verdict = "rate"

\* Common to every paused tick.
EnterPause ==
  /\ pc = "apply" /\ verdict \in {"pause", "rate"}
  /\ priorState' = IF state # "PAUSE" THEN state ELSE priorState
  /\ ratePauseEligible' = RateOnlySoFar
  /\ state' = "PAUSE"
  /\ UNCHANGED <<device, target, sensed, resumeGrace, verdict, operator>>

\* Mutant: a pause abandons the step but leaves the drive intended.
ApplyPause_KeepsDrive ==
  /\ EnterPause
  /\ ~RateOnlySoFar
  /\ AbandonMotion
  /\ EndRateHold
  /\ pc' = "reconcile"
  /\ UNCHANGED <<safety, plan>>

\* Any other cause ends a rate-pause hold and stops the device.
ApplyPause ==
  /\ EnterPause
  /\ ~RateOnlySoFar
  /\ StopIntended(TRUE)
  /\ AbandonMotion
  /\ EndRateHold
  /\ pc' = "reconcile"
  /\ UNCHANGED plan

\* A confirmed hold stays armed while the rate is above its cap.
KeepRateHold ==
  /\ EnterPause
  /\ RateOnlySoFar /\ ratePauseHolding
  /\ pc' = "reconcile"
  /\ UNCHANGED <<safety, motion, ratePauseHolding, ratePauseSetpoint, plan>>

\* _confirm_rate_pause_hold: the read-back shows the hold setpoint.
HoldReadBack ==
  /\ ratePauseSetpoint # None
  /\ poll = "fresh" /\ ShowsTarget(membraneStatus)
  /\ Close(membraneStatus.tgt, ratePauseSetpoint)
  /\ SourceAllows(ratePauseSetpoint, membraneStatus)
  /\ AutoArm \/ membraneStatus.mode

ConfirmRateHold ==
  /\ EnterPause
  /\ RateOnlySoFar /\ ~ratePauseHolding
  /\ HoldReadBack
  /\ ratePauseHolding' = TRUE
  /\ StopIntended(FALSE)
  /\ AbandonMotion
  /\ pc' = "reconcile"
  /\ UNCHANGED <<ratePauseSetpoint, plan>>

\* Otherwise the device is stopped, and no hold can be staged or confirmed yet.
StartRatePause ==
  /\ EnterPause
  /\ RateOnlySoFar /\ ~ratePauseHolding
  /\ ~HoldReadBack
  /\ StopIntended(TRUE)
  /\ AbandonMotion
  /\ pc' = "reconcile"
  /\ UNCHANGED <<ratePauseHolding, ratePauseSetpoint, plan>>

\* Mutant: the hold does not wait for Measure.
CanHoldHere_AnyMode ==
  /\ ratePauseSetpoint = None
  /\ Connected(membraneStatus) /\ poll = "fresh"
  /\ estimate # None
  /\ ~AboveTarget /\ ~ReachesTarget
  /\ FlagsAllow
  /\ SourceAllows(membraneStatus.act, membraneStatus)

\* _try_hold_at_current_pressure: hold at the fresh actual pressure, once Measure
\* is confirmed and HOLD would not apply.  (The settle blackout may still delay
\* it, which is StartRatePause.)
CanHoldHere ==
  /\ ratePauseSetpoint = None
  /\ InMeasure(membraneStatus) /\ poll = "fresh"
  /\ estimate # None
  /\ ~AboveTarget /\ ~ReachesTarget
  /\ FlagsAllow
  /\ SourceAllows(membraneStatus.act, membraneStatus)

StageRateHold ==
  /\ EnterPause
  /\ RateOnlySoFar /\ ~ratePauseHolding
  /\ CanHoldHere
  /\ StopIntended(TRUE)
  /\ AbandonMotion
  /\ plan' = [kind |-> "hold", after |-> membraneStatus.act, step |-> 0]
  /\ pc' = "write"
  /\ UNCHANGED <<ratePauseHolding, ratePauseSetpoint>>

-----------------------------------------------------------------------------
(* _apply_verdict, third branch: leave PAUSE, then _advance().              *)

\* Mutant: the default for a PAUSE without a prior state is forgotten.
Resumed_NoDefault ==
  IF state # "PAUSE" THEN state
  ELSE IF priorState = "SETTLE" THEN "APPROACH"
  ELSE priorState

\* The state a safe tick starts from: a PAUSE gives way to what it interrupted.
Resumed ==
  IF state # "PAUSE" THEN state
  ELSE IF priorState \in {None, "SETTLE"} THEN "APPROACH"
  ELSE priorState

SafeTick ==
  /\ pc = "apply" /\ verdict = "ok"
  /\ EndRateHold
  /\ priorState' = IF state = "PAUSE" THEN None ELSE priorState
  /\ UNCHANGED <<device, target, ratePauseEligible, sensed, resumeGrace, verdict,
                 operator>>

\* The read failed, or the filter is not valid: nothing is computed.
ApplyNoSample ==
  /\ SafeTick
  /\ ~usable
  /\ state' = Resumed
  /\ pc' = "reconcile"
  /\ UNCHANGED <<safety, motion, plan>>

\* Mutant: a lowered target is only compared with the sample.
MustHold_NoReduction == AboveTarget \/ ReachesTarget

\* The target was lowered, overshot or is about to be reached: HOLD, in Measure.
MustHold == targetReductionHold \/ AboveTarget \/ ReachesTarget

ApplyHold ==
  /\ SafeTick
  /\ usable /\ MustHold
  /\ StopIntended(TRUE)
  /\ AbandonMotion
  /\ state' = "HOLD"
  /\ pc' = "reconcile"
  /\ UNCHANGED plan

\* Mutant: a flat slope alone counts as settled.
SettleOutcomes_NoArrival ==
  IF pendingStep # None /\ ~stopIntended THEN {pendingStep, None} ELSE {pendingStep}

\* _update_pending_step: the step in flight may count as settled once the gas has
\* arrived at its setpoint (the timers may still say no).
SettleOutcomes ==
  IF /\ pendingStep # None /\ ~stopIntended
     /\ Connected(membraneStatus)
     /\ membraneStatus.act >= pendingStep - ArrivalTol
  THEN {pendingStep, None} ELSE {pendingStep}

\* A tick that goes on toward the target, with what is left in flight.
Advancing(left) ==
  /\ SafeTick
  /\ usable /\ ~MustHold
  /\ left \in SettleOutcomes

\* HOLD is left only below the re-approach margin.
StaysInHold == Resumed = "HOLD" /\ ~BelowReapproach
Approaching == IF Resumed = "HOLD" THEN "APPROACH" ELSE Resumed

ApplyStayHold ==
  \E left \in SettleOutcomes :
    /\ Advancing(left)
    /\ StaysInHold
    /\ pendingStep' = left
    /\ state' = "HOLD"
    /\ pc' = "reconcile"
    /\ UNCHANGED <<safety, stagedRearm, plan>>

\* _confirm_staged_rearm runs: Measure, or an operator who armed Control by hand.
MayConfirm ==
  \/ InMeasure(membraneStatus)
  \/ ~AutoArm /\ InControl(membraneStatus)

\* A later status shows the staged setpoint, below the supply.
StagedReadBack ==
  /\ poll = "fresh" /\ ShowsTarget(membraneStatus)
  /\ Close(membraneStatus.tgt, stagedRearm.after)
  /\ SourceAllows(membraneStatus.tgt, membraneStatus)

\* The actual pressure moved: the staged setpoint would lower it, or is now a
\* larger jump than the one that was sized.
StagedGapWrong ==
  LET gap == membraneStatus.tgt - membraneStatus.act
  IN  gap < -ArrivalTol \/ gap > stagedRearm.step + ArrivalTol

ConfirmStaged ==
  /\ Advancing(pendingStep)
  /\ ~StaysInHold
  /\ stopIntended /\ stagedRearm # None /\ MayConfirm
  /\ StagedReadBack /\ ~StagedGapWrong
  /\ AutoArm \/ membraneStatus.mode
  /\ pendingStep' = stagedRearm.after
  /\ stagedRearm' = None
  /\ StopIntended(FALSE)
  /\ state' = "SETTLE"
  /\ pc' = "reconcile"
  /\ UNCHANGED plan

DiscardStaged ==
  /\ Advancing(pendingStep)
  /\ ~StaysInHold
  /\ stopIntended /\ stagedRearm # None /\ MayConfirm
  /\ StagedReadBack /\ StagedGapWrong
  /\ stagedRearm' = None
  /\ state' = Approaching
  /\ pc' = "reconcile"
  /\ UNCHANGED <<safety, pendingStep, plan>>

\* The staged setpoint waits for its read-back, or for the operator to arm.
AwaitReadBack ==
  /\ Advancing(pendingStep)
  /\ ~StaysInHold
  /\ stopIntended /\ stagedRearm # None
  /\ \/ ~MayConfirm
     \/ ~StagedReadBack
     \/ ~StagedGapWrong /\ ~AutoArm /\ ~membraneStatus.mode
  /\ state' = Approaching
  /\ pc' = "reconcile"
  /\ UNCHANGED <<safety, motion, plan>>

\* A step is in flight.
AwaitSettle ==
  /\ Advancing(pendingStep)
  /\ ~StaysInHold
  /\ ~stopIntended /\ pendingStep # None
  /\ state' = "SETTLE"
  /\ pc' = "reconcile"
  /\ UNCHANGED <<safety, motion, plan>>

\* Mutant: a setpoint is staged without waiting for Measure.
ReadyToStage_AnyMode(left) ==
  left = pendingStep /\ stopIntended /\ stagedRearm = None /\ Connected(membraneStatus)

\* _maybe_issue_step is reached either in Measure, to stage a setpoint sized from
\* the actual pressure, or in Control, to move the setpoint itself; `left` is what
\* is still in flight and `base` what the step is added to.
ReadyToStage(left) ==
  left = pendingStep /\ stopIntended /\ stagedRearm = None /\ InMeasure(membraneStatus)

ReadyToIssue(left) ==
  left = None /\ ~stopIntended /\ InControl(membraneStatus)

\* Mutant: a staged setpoint starts from the one before, too.
Base_Setpoint == membraneStatus.tgt

\* _current_membrane_setpoint falls back on the pressure when no setpoint is shown.
Base ==
  IF stopIntended \/ ~ShowsTarget(membraneStatus) THEN membraneStatus.act
  ELSE membraneStatus.tgt

\* The setpoints the sizing may yield above base, and whether it gets that far.
NextSetpoints == {p \in {Smaller(Base + n, MaxM) : n \in 1..MaxStep} : p > Base}

HasError == EffectiveTarget - ApproachMargin - Predicted > 0

\* The output is not yet in the state a command needs: the reconciliation is
\* working on it.
AwaitOutput ==
  \E left \in SettleOutcomes :
    /\ Advancing(left)
    /\ ~StaysInHold
    /\ \/ stopIntended /\ stagedRearm = None /\ ~InMeasure(membraneStatus)
       \/ ~stopIntended /\ left = None /\ ~InControl(membraneStatus)
    /\ pendingStep' = left
    /\ state' = Approaching
    /\ pc' = "reconcile"
    /\ UNCHANGED <<safety, stagedRearm, plan>>

Sizes(left) ==
  /\ Advancing(left)
  /\ ~StaysInHold
  /\ ReadyToStage(left) \/ ReadyToIssue(left)
  /\ pendingStep' = left
  /\ UNCHANGED stagedRearm

\* Mutant: check_command is called without allow_while_stopped.
GateOpen_NotStopped == poll = "fresh" /\ HasError /\ FlagsAllow /\ ~stopIntended

\* What stands between the sizing and check_command's view of the supply.
GateOpen == poll = "fresh" /\ HasError /\ FlagsAllow

\* No command: stale status, nothing left to go, the operator's flags as
\* check_command finds them, or no step worth sending.
NoCommand ==
  \E left \in SettleOutcomes :
    /\ Sizes(left)
    /\ ~GateOpen \/ NextSetpoints = {} \/ "noStep" \in Faults
    /\ state' = Approaching
    /\ pc' = "reconcile"
    /\ UNCHANGED <<safety, plan>>

\* The supply is too low for the step: the code pauses itself, and only the
\* operator can clear that.
PauseForSupply ==
  \E left \in SettleOutcomes :
    /\ Sizes(left)
    /\ GateOpen
    /\ \E p \in NextSetpoints : ~SourceAllows(p, membraneStatus)
    /\ LatchPause
    /\ state' = "PAUSE"
    /\ pc' = "reconcile"
    /\ UNCHANGED plan

DecideStep ==
  \E left \in SettleOutcomes :
    /\ Sizes(left)
    /\ GateOpen
    /\ \E p \in NextSetpoints :
         /\ SourceAllows(p, membraneStatus)
         /\ plan' = [kind |-> IF stopIntended THEN "stage" ELSE "issue",
                     after |-> p, step |-> p - Base]
    /\ state' = Approaching
    /\ pc' = "write"
    /\ UNCHANGED safety

-----------------------------------------------------------------------------
(* The pressure write and the bookkeeping after it (_commit_step, and the end *)
(* of _try_hold_at_current_pressure).                                        *)

\* A lost response is booked like a success: the write may have applied.
Book(acknowledged) ==
  /\ CommandIssued(plan.after)
  /\ plan' = None
  /\ pc' = "reconcile"
  /\ \/ /\ plan.kind = "hold"
        /\ ratePauseSetpoint' = plan.after
        /\ UNCHANGED <<motion, state, membraneStatus>>
     \/ /\ plan.kind = "stage"
        /\ stagedRearm' = [after |-> plan.after, step |-> plan.step]
        /\ state' = "APPROACH"
        /\ UNCHANGED <<pendingStep, ratePauseSetpoint, membraneStatus>>
     \/ /\ plan.kind = "issue"
        /\ pendingStep' = plan.after
        /\ state' = "SETTLE"
        /\ membraneStatus' = IF acknowledged
                             THEN [membraneStatus EXCEPT !.tgt = plan.after, !.gives = "all"]
                             ELSE membraneStatus
        /\ UNCHANGED <<stagedRearm, ratePauseSetpoint>>
  /\ UNCHANGED <<target, priorState, ratePauseEligible, ratePauseHolding, poll,
                 estimate, usable, resumeGrace, verdict, operator>>

WriteSetpoint ==
  /\ pc = "write"
  /\ SetTarget(plan.after)
  /\ Book(TRUE)

WriteUnanswered ==
  /\ pc = "write"
  /\ "write" \in Faults
  /\ SetTarget(plan.after) \/ UNCHANGED device
  /\ Book(FALSE)

-----------------------------------------------------------------------------
(* _reconcile_membrane_drive, then _stop_membrane or _resume_membrane_drive.  *)

\* Mutant: the operator's own attempt is the only one.
ReconcileStop_OneShot ==
  /\ pc = "reconcile" /\ stopIntended
  /\ resumeGrace' = "none"
  /\ pc' = "idle"
  /\ UNCHANGED <<device, safety, state, motion, target, ratePause, sensed, verdict,
                 plan, operator>>

\* A stop is wanted: written again on every tick until Measure is read back.
ReconcileStop ==
  /\ pc = "reconcile" /\ stopIntended
  /\ resumeGrace' = "none"
  /\ pc' = IF InMeasure(membraneStatus) THEN "idle" ELSE "disable"
  /\ UNCHANGED <<device, safety, state, motion, target, ratePause, sensed, verdict,
                 plan, operator>>

\* Control is wanted: the grace begins with the first tick that still waits for it.
ReconcileResume ==
  /\ pc = "reconcile" /\ ~stopIntended
  /\ resumeGrace' = IF InControl(membraneStatus) THEN "none"
                    ELSE IF resumeGrace = "none" THEN "running"
                    ELSE resumeGrace
  /\ pc' = IF InControl(membraneStatus) \/ ~AutoArm THEN "idle" ELSE "enable"
  /\ UNCHANGED <<device, safety, state, motion, target, ratePause, sensed, verdict,
                 plan, operator>>

\* The output write itself; the flag it was decided from may have changed since.
WriteMode ==
  /\ \/ pc = "disable" /\ AttemptMode(FALSE)
     \/ pc = "enable" /\ AttemptMode(TRUE)
  /\ pc' = "idle"
  /\ UNCHANGED <<safety, state, motion, target, ratePause, sensed, resumeGrace,
                 verdict, plan, operator>>

-----------------------------------------------------------------------------
(* The operator thread.                                                     *)

Abandon == AbandonMotion /\ EndRateHold

OperatorMay(c) == op = "none" /\ c \in Commands

\* pause(), abort() and the start of stop_and_confirm(): the flags are set without
\* the lock, then the output is switched off, then the step is forgotten.
Pause ==
  /\ OperatorMay("pause")
  /\ LatchPause
  /\ op' = "halt"
  /\ UNCHANGED <<device, state, motion, target, ratePause, sensed, resumeGrace, tick,
                 quitting, started>>

Abort ==
  /\ OperatorMay("abort")
  /\ LatchAbort
  /\ op' = "halt"
  /\ started' = FALSE
  /\ UNCHANGED <<device, state, motion, target, ratePause, sensed, resumeGrace, tick,
                 quitting>>

Quit ==
  /\ OperatorMay("quit")
  /\ LatchAbort
  /\ op' = "halt"
  /\ quitting' = TRUE
  /\ started' = FALSE
  /\ UNCHANGED <<device, state, motion, target, ratePause, sensed, resumeGrace, tick>>

\* _emergency_stop_attempt, its error swallowed.
EmergencyStop ==
  /\ op \in {"halt", "stop", "retry"}
  /\ AttemptMode(FALSE)
  /\ op' = CASE op = "halt" -> "abandon" [] op = "stop" -> "none" [] op = "retry" -> "confirm"
  /\ UNCHANGED <<safety, state, motion, target, ratePause, sensed, resumeGrace, tick,
                 quitting, started>>

\* Mutant: the step is forgotten without taking the lock.
AbandonStep_Unlocked ==
  /\ op = "abandon"
  /\ Abandon
  /\ op' = IF quitting THEN "confirm" ELSE "none"
  /\ UNCHANGED <<device, safety, state, target, priorState, ratePauseEligible, sensed,
                 resumeGrace, tick, quitting, started>>

\* The locked part of pause() and abort().
AbandonStep ==
  /\ op = "abandon" /\ ~Locked
  /\ Abandon
  /\ op' = IF quitting THEN "confirm" ELSE "none"
  /\ UNCHANGED <<device, safety, state, target, priorState, ratePauseEligible, sensed,
                 resumeGrace, tick, quitting, started>>

Resume ==
  /\ OperatorMay("resume")
  /\ manualPause
  /\ ClearPause
  /\ UNCHANGED <<device, state, motion, target, ratePause, sensed, resumeGrace, tick,
                 operator>>

\* reset(): the only way out of ABORT, itself ending in Measure.
Reset ==
  /\ OperatorMay("reset") /\ ~Locked
  /\ ForceReset
  /\ Abandon
  /\ state' = "APPROACH"
  /\ priorState' = None
  /\ op' = "stop"
  /\ started' = TRUE
  /\ UNCHANGED <<device, target, ratePauseEligible, sensed, resumeGrace, tick, quitting>>

\* set_target(t), lowered under a step or under an earlier reduction: stop where we
\* are and stay there until at least the old target is restored.
LowersInFlight(t) ==
  /\ t < userTarget
  /\ pendingStep # None \/ stagedRearm # None \/ targetReductionHold

LowerTarget(t) ==
  /\ LowersInFlight(t)
  /\ targetReductionHold' = TRUE
  /\ resumeFloor' = IF resumeFloor = None THEN userTarget
                    ELSE Larger(resumeFloor, userTarget)
  /\ StopIntended(TRUE)
  /\ Abandon
  /\ ratePauseEligible' = FALSE
  /\ state' = IF state \in {"PAUSE", "ABORT"} THEN state ELSE "HOLD"
  /\ op' = "stop"

\* Any other target; one at or above the floor ends the reduction hold.
MoveTarget(t) ==
  /\ ~LowersInFlight(t)
  /\ LET restored == t > userTarget /\ resumeFloor # None /\ t >= resumeFloor
     IN  /\ targetReductionHold' = (targetReductionHold /\ ~restored)
         /\ resumeFloor' = IF restored THEN None ELSE resumeFloor
  /\ UNCHANGED <<safety, motion, ratePauseEligible, ratePauseHolding,
                 ratePauseSetpoint, state, op>>

SetUserTarget ==
  /\ OperatorMay("target") /\ ~Locked
  /\ \E t \in Targets \ {userTarget} :
       /\ t <= ceiling
       /\ userTarget' = t
       /\ LowerTarget(t) \/ MoveTarget(t)
  /\ UNCHANGED <<device, ceiling, priorState, sensed, resumeGrace, tick, quitting,
                 started>>

\* apply_config_update(): estimator and supervisor start afresh, under a possibly
\* different ceiling.  The dialog is enabled while control is stopped.
Configure ==
  /\ OperatorMay("configure") /\ ~started /\ ~Locked
  /\ ForceReset
  /\ ceiling' \in Ceilings
  /\ estimate' = None
  /\ UNCHANGED <<device, state, motion, userTarget, targetReductionHold, resumeFloor,
                 ratePause, membraneStatus, poll, usable, resumeGrace, tick, operator>>

\* The loop of stop_and_confirm(): leave when Measure is read back or the deadline
\* passes, otherwise try to stop the output again.
ConfirmStop ==
  /\ op = "confirm"
  /\ \/ ~shown /\ op' = "exited"
     \/ /\ shown \/ Faults \cap {"statusRead", "offline", "noMode"} # {}
        /\ op' \in {"retry", "gaveUp"}
  /\ UNCHANGED <<device, safety, state, motion, target, ratePause, sensed, resumeGrace,
                 tick, quitting, started>>

-----------------------------------------------------------------------------

Environment ==
  /\ DeviceStep(MaxM + 1)
  /\ UNCHANGED <<safety, state, motion, target, ratePause, sensed, resumeGrace, tick,
                 operator>>

PollingThread ==
  \/ BeginTick \/ Evaluate
  \/ ApplyAbort
  \/ ApplyPause \/ KeepRateHold \/ ConfirmRateHold \/ StartRatePause \/ StageRateHold
  \/ ApplyNoSample \/ ApplyHold \/ ApplyStayHold
  \/ ConfirmStaged \/ DiscardStaged \/ AwaitReadBack \/ AwaitSettle \/ AwaitOutput
  \/ NoCommand \/ PauseForSupply \/ DecideStep
  \/ WriteSetpoint \/ WriteUnanswered
  \/ ReconcileStop \/ ReconcileResume \/ WriteMode

Operator ==
  \/ Pause \/ Abort \/ Quit \/ EmergencyStop \/ AbandonStep
  \/ Resume \/ Reset \/ SetUserTarget \/ Configure \/ ConfirmStop

Next == PollingThread \/ Operator \/ Environment

Spec == Init /\ [][Next]_vars

\* The polling thread keeps polling, and an operator call that waits for the lock
\* gets it (the thread sleeps between ticks).  The link is not dead for ever: a whole
\* status is read, and an output write arrives, again and again.
FreshPoll == BeginTick /\ poll' = "fresh" /\ membraneStatus' = Status("all")
OutputWritten == WriteMode /\ mode' = (pc = "enable")

Fairness ==
  /\ WF_vars(PollingThread)
  /\ WF_vars(EmergencyStop)
  /\ SF_vars(AbandonStep)
  /\ SF_vars(FreshPoll)
  /\ SF_vars(OutputWritten)
  /\ WF_vars(CatchUp /\ Environment)

FairSpec == Spec /\ Fairness

-----------------------------------------------------------------------------
(* Safety properties.                                                       *)

\* Control is about to be enabled only on a setpoint that was commanded since the
\* last start or reset and that the device really holds.
EnableVetted == pc = "enable" => lastCmd # None /\ Close(tgt, lastCmd)

\* Control is enabled only by a tick found safe, or for the hold of a rate-only
\* pause, on that hold's own setpoint.
EnableMatchesVerdict ==
  pc = "enable" => \/ verdict = "ok"
                   \/ verdict = "rate" /\ ratePauseHolding /\ Close(tgt, ratePauseSetpoint)

\* In Control the device never has a setpoint below the pressure, but for the
\* tolerance a read-back is compared with: one-sided control raises the membrane
\* pressure and never lowers it.
NeverDrivenDown == mode /\ lastCmd # None => tgt >= act - Tol

\* In Control the device is never more than one step ahead of the pressure, but for
\* the two tolerances: no step is stacked on one that has not arrived.
StepsNotStacked == mode /\ lastCmd # None => tgt <= act + MaxStep + ArrivalTol + Tol

\* A setpoint is lowered only while the output is in Measure.
LoweredOnlyInMeasure == [][tgt' < tgt => ~mode]_vars

\* A new setpoint is sent only when the device holds the last one commanded, so a
\* write whose answer was lost is reconciled first; but for a command that was younger
\* than setpoint_mismatch_grace_s when this tick compared it.
LostWriteReconciled ==
  [][tgt' # tgt => lastCmd = None \/ Close(tgt, lastCmd) \/ youngCmd]_vars

\* While a lowered target holds the controller, no setpoint is written above the
\* pressure: the sample is not pushed on.
NoPushWhileReduced == [][targetReductionHold /\ tgt' # tgt => tgt' <= act]_vars

\* When the stop is lifted to arm Control, the read-back setpoint is not below the
\* read-back pressure, although the gas may have moved in Measure since it was sent
\* (each way of arming has its own tolerance).
ArmedAboveActual ==
  [][stopIntended /\ ~stopIntended' =>
       membraneStatus.tgt >= membraneStatus.act - Larger(ArrivalTol, Tol)]_vars

\* Once stop_and_confirm() has seen the output off it stays off, whatever the
\* polling thread was in the middle of.
ConfirmedStopHolds == op = "exited" => ~mode

\* The sample is pushed on only while it is predicted to stay short of the user's
\* target and of the ceiling, as both are when the setpoint is sent: a target lowered
\* or a ceiling reconfigured in between is never overtaken by an older decision.
PushesOnlyBelowTarget ==
  [][tgt' > tgt => /\ estimate # None
                   /\ \A limit \in {userTarget, ceiling} :
                        /\ estimate.raw < limit - Reach
                        /\ estimate.filtered + estimate.rise < limit - Reach]_vars

Drive == INSTANCE OneSidedDrive WITH command <- lastCmd, young <- youngCmd

\* Through all its ticks, lost answers and operator calls the controller drives the
\* device by the few steps of OneSidedDrive: stage from the pressure, advance from a
\* setpoint that was reached, enable what is held, disable, forget.  Only a command
\* within its grace may be followed by the next unseen; it is never enabled unseen.
ImplementsDrive == Drive!DriveSpec

-----------------------------------------------------------------------------
(* What the documentation says and the code does not always do.             *)

\* "Any pause/abort condition blocks new pressurization" (README, Safety).
FlagsBlockEnable == [][~mode /\ mode' => FlagsAllow]_vars

\* "abort is sticky until force_reset() (exposed via controller.reset(), an explicit
\* operator action)" (README, Safety): no tick is found safe between the GUI's Stop
\* Control, which aborts, and Start Control, which resets.
SafeOnlyWhenStarted == [][Evaluate /\ verdict' = "ok" => started]_vars

-----------------------------------------------------------------------------
(* Liveness.                                                                *)

\* However the link misbehaves for a while, an abort ends with the output off, also
\* when somebody re-enabled it at the front panel, once they stop doing that.
AbortLeadsToMeasure == <>[]aborted /\ <>[][~PanelMode]_vars => <>[]~mode

\* The sample is below the re-approach margin, nothing is held against it, whole
\* statuses arrive and there is room left below the pressure limit.  A write that was lost for
\* good is excluded: its mismatch pauses until an operator's reset, by design.
WantsPressure ==
  /\ usable /\ BelowReapproach /\ ~estimate.fast
  /\ poll = "fresh" /\ Connected(membraneStatus) /\ membraneStatus.gives = "all"
  /\ FlagsAllow /\ op = "none" /\ ~targetReductionHold
  /\ act < MaxM
  /\ lastCmd = None \/ Close(tgt, lastCmd)

\* As long as more pressure is wanted, the output is armed again and again: a HOLD, a
\* stop or a staged setpoint that outlives its reason does not strand the controller.
Reapproaches == <>[]WantsPressure => []<>mode
=============================================================================
