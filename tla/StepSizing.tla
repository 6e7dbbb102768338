----------------------------- MODULE StepSizing -----------------------------
(***************************************************************************)
(* controller.py and gain.py, adaptive_local: how large a membrane step is, *)
(* how fast it is driven, when it counts as settled, what is learned from  *)
(* it, and what remains of it after an interruption.                       *)
(*                                                                         *)
(* A tick is atomic here: the operator's interleavings with it, the stop   *)
(* and re-arm handshakes and the faults of the link are Controller's.      *)
(* Of a handshake remain that Control comes on late, that a staged target  *)
(* is read back before it is driven, and that a write may be lost.  The    *)
(* verdict is free, but compression_rate_exceeded is a slope above Cap.    *)
(* Requested sample steps and safe gains are any: a step may come out      *)
(* smaller than its limit for them, and slower.                            *)
(***************************************************************************)
EXTENDS Integers, FiniteSetsExt

CONSTANTS
  None,
  Samples,      \* sample pressures, adjacent integers
  Slopes,       \* sample-pressure slopes, absolute values
  Cap,          \* max_compression_rate
  Loose,        \* settled_slope_threshold
  Tight,        \* the same, scaled near the target
  NearAt,       \* sample pressure that is near the target
  NearExtra,    \* near_target_extra_settle_time_s
  MinSettle,    \* adaptive_minimum_settle_time_s
  RampMargin,   \* ramp_time_margin_s
  Wait,         \* adaptive_no_response_wait_s
  LowWait,      \* low_pressure_probe_no_response_wait_s
  LowCeiling,   \* low_pressure_probe_membrane_ceiling_mpa
  Grace,        \* control_mode_resume_grace_s
  MaxGas,       \* max_membrane_pressure_mpa
  MinStep,      \* min_membrane_step_mpa
  Initial,      \* initial_probe_step_mpa
  MaxProbe,     \* max_probe_step_mpa
  MaxStep,      \* adaptive_max_membrane_step_mpa
  Hard,         \* max_membrane_step_mpa_hard
  Growth,       \* probe_growth_factor
  StepGrowth,   \* max_step_growth_factor
  Backoff,      \* 1 / rate_exceeded_step_backoff_factor
  Budget,       \* max_cumulative_step_mpa
  Window,       \* cumulative_window_s
  Periods,      \* times per unit of gas an operator may choose: 1 / membrane_rate
  ProbePeriod,  \* 1 / probe_rate_mpa_per_min
  MaxPeriod     \* bound: the slowest rate told apart

AtMost(a, b) == IF a < b THEN a ELSE b
AtLeast(a, b) == IF a < b THEN b ELSE a

\* The validators of Configuration, and the fields' own bounds.
ASSUME StepSizingAssumption ==
  /\ Samples \subseteq Nat /\ Slopes \subseteq Nat /\ None \notin Nat
  /\ {Cap, MinStep, Growth, StepGrowth, Backoff, Window, MaxPeriod, Loose} \subseteq Nat \ {0}
  /\ {NearAt, NearExtra, MinSettle, RampMargin, Wait, LowWait, LowCeiling, Grace, MaxGas}
       \subseteq Nat
  /\ Tight \in 1..Loose
  /\ Initial \in 1..MaxProbe /\ MaxProbe \in Nat /\ MaxProbe <= MaxStep
  /\ MaxStep \in Nat /\ MaxStep <= Hard /\ Hard \in Nat
  /\ Budget \in Nat /\ Budget > Hard
  /\ Periods \subseteq 1..MaxPeriod /\ ProbePeriod \in 1..MaxPeriod
  /\ None \notin Nat

VARIABLES
  act,         \* gas pressure behind the membrane
  devTarget,   \* setpoint in the PACE5000
  armed,       \* ~membrane_stop_intended
  lag,         \* time since Control was asked for, as long as it is off
  onFor,       \* how long Control has been on, None when off
  sample,      \* _conservative_sample_pressure
  step,        \* _pending_step or _staged_rearm_step
  driveAge,    \* now - (t_drive_started or t_command)
  settledFor,  \* now - _settled_since
  sizing,      \* the next probe, the last step, force_probe, where the gain is known
  period,      \* 1 / membrane_rate_mpa_per_min
  paused,      \* state = PAUSE
  eligible,    \* _rate_pause_eligible, which is not read before the next pause sets it
  obs,         \* _interrupted_step_observation
  learned,     \* _interrupted_rate_observations: the largest of each pressure
  recent,      \* _recent_steps, by age
  quiet,       \* ghost: time since a slope that is not flat, or trouble, was seen
  commanded,   \* ghost: every step commanded, by age
  report,      \* ghost: what a step that settled in this tick had done
  reduced,     \* ghost: the most a step may be after a rate pause, until one settles
  fair         \* ghost: what clean rate pauses have shown

gas == <<act, devTarget, armed, lag, onFor>>
pause == <<paused, eligible, obs, learned>>
ghosts == <<quiet, commanded, report, reduced, fair>>
vars == <<gas, sample, step, driveAge, settledFor, sizing, period, pause, recent, ghosts>>

Longest == Hard * MaxPeriod + RampMargin + AtLeast(Wait, LowWait)
Ages == 0..Longest
Gas == 0..MaxGas
Midpoints == {a + b : a \in Samples, b \in Samples}
Slowness == [Samples -> 0..MaxPeriod]
NoRate == [s \in Samples |-> 0]
NoSteps == [a \in 0..Window |-> 0]

StepRecord ==
  [phase : {"staged", "driven"}, before : Gas, after : Gas, period : 1..MaxPeriod,
   acked : BOOLEAN, at : Samples, sampleBefore : Samples, actBefore : Gas]
Observation ==
  [at : Samples, period : 1..MaxPeriod, peak : Slopes, eligible : BOOLEAN, clean : BOOLEAN]

StepSizingTypeOK ==
  /\ act \in Gas /\ devTarget \in Gas
  /\ armed \in BOOLEAN /\ lag \in 0..Grace + 1 /\ onFor \in Ages \cup {None}
  /\ sample \in Samples
  /\ step \in StepRecord \cup {None}
  /\ driveAge \in Ages /\ settledFor \in (0..MinSettle + NearExtra) \cup {None}
  /\ sizing \in [next : 1..AtLeast(MaxProbe, MinStep), last : (1..MaxStep) \cup {None},
                 force : BOOLEAN, known : SUBSET Midpoints]
  /\ period \in Periods
  /\ paused \in BOOLEAN /\ eligible \in BOOLEAN
  /\ obs \in Observation \cup {None}
  /\ learned \in Slowness /\ fair \in Slowness
  /\ recent \in [0..Window -> 0..Hard] /\ commanded \in [0..Window -> 0..Hard]
  /\ quiet \in 0..MinSettle
  /\ reduced \in (1..AtLeast(MaxGas, MinStep)) \cup {None}

FreshSizing == [next |-> Initial, last |-> None, force |-> FALSE, known |-> {}]

Init ==
  /\ act = 0 /\ devTarget = 0 /\ armed = FALSE /\ lag = 0 /\ onFor = None
  /\ sample \in Samples
  /\ step = None /\ driveAge = 0 /\ settledFor = None
  /\ sizing = FreshSizing /\ period \in Periods
  /\ paused = FALSE /\ eligible = FALSE /\ obs = None
  /\ learned = NoRate /\ recent = NoSteps
  /\ quiet = 0 /\ commanded = NoSteps /\ report = None /\ reduced = None /\ fair = NoRate

-----------------------------------------------------------------------------
(* Sizes and rates.                                                         *)

SumOf(steps) ==
  LET upTo[a \in 0..Window] == IF a = 0 THEN steps[0] ELSE upTo[a - 1] + steps[a]
  IN  upTo[Window]

\* A queue of steps by age after one unit of time, with size x commanded now.
Aged(steps, x) == [a \in 0..Window |-> IF a = 0 THEN x ELSE steps[a - 1]]

\* A gain has been observed near this pressure.
Known(sz) == \E m \in sz.known : m - 2 * sample' \in -1..1

Probing(sz) == sz.force \/ ~Known(sz)

\* The most the next step may be.
Limit(sz) ==
  IF Probing(sz) THEN AtMost(sz.next, MaxStep)
  ELSE IF sz.last = None THEN MaxStep
  ELSE AtMost(MaxStep, sz.last * StepGrowth)

\* Learned at this pressure or, propagated upward, below it.
LearnedPeriod(l) == Max({l[s] : s \in {x \in Samples : x <= sample'}})

\* The rate a step is commanded with, at the fastest.
Fastest(sz, l) ==
  Max({period, LearnedPeriod(l)} \cup IF Probing(sz) THEN {ProbePeriod} ELSE {})

\* check_command, of a step that is neither vetoed nor beyond the supply.
WithinBudget(x) == SumOf(Aged(recent, x)) <= Budget

\* Mutant: a step that was not acknowledged is not charged.
Charged_IfAcked(x, acked) == IF acked THEN Aged(recent, x) ELSE Aged(recent, 0)

\* on_command_issued, also of a step whose write failed.
Charged(x, acked) == Aged(recent, x)

\* A rate interruption shows how slowly the gas has to be driven.
SlowerThan(o) == AtMost(MaxPeriod, (o.peak * o.period + Cap - 1) \div Cap)
Learn(l, o) == [l EXCEPT ![o.at] = AtLeast(@, SlowerThan(o))]

-----------------------------------------------------------------------------
(* Settling.                                                                *)

\* now - (t_drive_started or t_command), in this tick.
DriveAge == AtMost(driveAge + 1, Longest)

Near == sample' >= NearAt
SettleTime == MinSettle + (IF Near THEN NearExtra ELSE 0)
Settled == IF Near THEN Tight ELSE Loose

Size(s) == s.after - s.before
RampTime(s) == Size(s) * s.period + RampMargin
NoResponseWait(s) == IF s.actBefore < LowCeiling THEN AtMost(Wait, LowWait) ELSE Wait
Responded(s) == sample' > s.sampleBefore

\* _settled_since after an evaluated slope.
SettledSince(slope) ==
  IF slope >= Settled THEN None
  ELSE IF settledFor = None THEN 0 ELSE AtMost(settledFor + 1, MinSettle + NearExtra)

\* Mutant: a flat trace counts before the gas has arrived.
Settles_Early(s, since) ==
  /\ since # None /\ since >= SettleTime
  /\ DriveAge >= SettleTime
  /\ Responded(s) \/ DriveAge >= NoResponseWait(s)

\* _update_pending_step.
Settles(s, since) ==
  /\ since # None /\ since >= SettleTime
  /\ DriveAge >= AtLeast(SettleTime, RampTime(s))
  /\ act' >= s.after
  /\ Responded(s) \/ DriveAge >= RampTime(s) + NoResponseWait(s)

\* record_step and _update_adaptive_probe_after_settle.
AfterSettle(sz, s) ==
  LET moved == act' - s.actBefore IN
  IF Responded(s)
  THEN [sz EXCEPT !.next = Initial, !.force = FALSE,
                  !.known = IF moved > 0 THEN @ \cup {s.sampleBefore + sample'} ELSE @]
  ELSE IF moved > 0
  THEN [sz EXCEPT !.next = AtMost(AtLeast(Initial, moved * Growth), MaxProbe)]
  ELSE sz

\* Mutant: the back-off only happens if the observation may be learned from.
AfterInterruption_IfClean(sz, s, valid) ==
  IF s.phase = "driven" /\ s.acked /\ valid
  THEN [sz EXCEPT !.next = AtLeast(MinStep, AtMost(Initial, AtLeast(0, act' - s.actBefore) \div Backoff)),
                  !.force = TRUE]
  ELSE sz

\* Mutant: a step interrupted before it has moved backs off to nothing.
AfterInterruption_NoFloor(sz, s, valid) ==
  [sz EXCEPT !.next = AtMost(Initial, AtLeast(0, act' - s.actBefore) \div Backoff), !.force = TRUE]

\* The back-off of _abandon_motion after a rate-only pause.
AfterInterruption(sz, s, valid) ==
  [sz EXCEPT !.next = AtLeast(MinStep, AtMost(Initial, AtLeast(0, act' - s.actBefore) \div Backoff)),
             !.force = TRUE]

-----------------------------------------------------------------------------
(* Parts of a tick.  A tick takes one unit of time.                         *)

\* The gas follows the setpoint while Control is on; in Measure it may leak.
GasMoves ==
  act' \in IF onFor # None THEN act .. AtLeast(act, AtMost(act + 1, devTarget))
          ELSE AtLeast(0, act - 1) .. act

SampleMoves == sample' \in {x \in Samples : x - sample \in -1..1}

\* Control comes on some time after it was asked for.
Reconciled ==
  IF ~armed' THEN onFor' = None /\ lag' = 0
  ELSE IF onFor # None THEN onFor' = AtMost(onFor + 1, Longest) /\ lag' = 0
  ELSE \/ onFor' = 0 /\ lag' = 0
       \/ onFor' = None /\ lag' = AtMost(lag + 1, Grace + 1)

NothingCommanded ==
  recent' = Aged(recent, 0) /\ commanded' = Aged(commanded, 0) /\ UNCHANGED devTarget

\* _observe_interrupted_step: the steepest slope while the pause lasts.  A step has no
\* steeper one behind it than the slope that interrupts it.
Observed(slope) == IF obs = None THEN None ELSE [obs EXCEPT !.peak = AtLeast(@, slope)]

\* Mutant: what an interruption has shown is kept whatever else happened since.
Disqualified_Not(o) == o

\* _disqualify_interrupted_rate_learning
Disqualified(o) == [o EXCEPT !.eligible = FALSE]

\* An observation to which something else happened.
Spoiled(o) == IF o = None THEN None ELSE [Disqualified(o) EXCEPT !.clean = FALSE]

\* _finalize_interrupted_step of the observation o: what it has shown stays.
Finalized(o) ==
  /\ obs' = None
  /\ learned' = IF o # None /\ o.eligible THEN Learn(learned, o) ELSE learned
  /\ fair' = IF o # None /\ o.clean THEN Learn(fair, o) ELSE fair

\* Stopped, and nothing is left of the step but its charge.
Stopped ==
  /\ armed' = FALSE
  /\ step' = None /\ driveAge' = 0 /\ settledFor' = None

\* How long the slopes have been flat, after this one.
Quiet(slope) == IF slope >= Loose THEN 0 ELSE AtMost(quiet + 1, MinSettle)

(* Ticks by their verdict.                                                  *)

\* PAUSE for anything else than the rate, or for the rate soon after an error, and
\* ABORT, which also ends the observation.
TroubleTick ==
  /\ Stopped /\ NothingCommanded
  /\ eligible' = FALSE
  /\ \/ paused' = TRUE /\ obs' = Spoiled(obs) /\ UNCHANGED <<learned, fair>>
     \/ paused' = FALSE /\ Finalized(Spoiled(obs))
  /\ quiet' = 0 /\ report' = None
  /\ UNCHANGED <<sizing, reduced>>

\* What a rate-only pause makes of the step it interrupts.
Interrupted(slope, valid) ==
  LET clean == step.phase = "driven" /\ step.acked /\ valid
  IN  /\ sizing' = AfterInterruption(sizing, step, valid)
      /\ obs' = [at |-> step.at, period |-> step.period, peak |-> slope,
                 eligible |-> clean, clean |-> clean]
      /\ reduced' = AtLeast(MinStep, AtLeast(0, act' - step.actBefore) \div Backoff)

\* _try_hold_at_current_pressure, from its write to the confirmation.
HoldAtCurrent ==
  /\ ~armed /\ step = None
  /\ armed' = TRUE /\ devTarget' = act'

\* PAUSE for the rate alone, in an episode that has been nothing else.
RateTick(slope, valid) ==
  /\ slope > Cap /\ lag <= Grace
  /\ paused => eligible
  /\ paused' = TRUE /\ eligible' = TRUE
  /\ \/ step # None /\ Interrupted(slope, valid)
     \/ /\ step = None
        /\ obs' = Observed(slope)
        /\ UNCHANGED <<sizing, reduced>>
  /\ \/ paused /\ armed /\ UNCHANGED <<armed, devTarget>>
     \/ ~(paused /\ armed) /\ armed' = FALSE /\ UNCHANGED devTarget
     \/ valid /\ paused /\ HoldAtCurrent
  /\ step' = None /\ driveAge' = 0 /\ settledFor' = None
  /\ recent' = Aged(recent, 0) /\ commanded' = Aged(commanded, 0)
  /\ quiet' = Quiet(slope) /\ report' = None
  /\ UNCHANGED <<learned, fair>>

\* The step s stays in flight, or staged, and nothing new is commanded.
Waits(s, since) ==
  /\ step' = s
  /\ driveAge' = IF s = None THEN 0 ELSE DriveAge
  /\ settledFor' = IF s = None THEN None ELSE since
  /\ NothingCommanded
  /\ UNCHANGED armed

\* A clock starts for the step that is there now, if any.
Begins == driveAge' = 0 /\ settledFor' = None

\* _confirm_staged_rearm, once the setpoint has been read back and the supply is above it.
Confirm(s) ==
  /\ devTarget = s.after
  /\ IF act' \in s.before .. s.after
     THEN /\ armed' = TRUE
          /\ step' = [s EXCEPT !.phase = "driven", !.sampleBefore = sample', !.actBefore = act']
     ELSE step' = None /\ UNCHANGED armed
  /\ Begins /\ NothingCommanded

\* _maybe_issue_step from the setpoint `base`, and _commit_step.
Issue(sz, base, phase) ==
  \E size \in MinStep..Limit(sz), rate \in Fastest(sz, learned)..MaxPeriod, acked \in BOOLEAN :
    LET after == AtMost(base + size, MaxGas)
        x == after - base
    IN  /\ ~Known(sz) => rate = Fastest(sz, learned)
        /\ x >= MinStep /\ x <= Hard
        /\ WithinBudget(x)
        /\ step' = [phase |-> phase, before |-> base, after |-> after, period |-> rate,
                    acked |-> acked, at |-> sample', sampleBefore |-> sample',
                    actBefore |-> act']
        /\ sizing' = [sz EXCEPT !.last = x]
        /\ recent' = Charged(x, acked) /\ commanded' = Aged(commanded, x)
        /\ devTarget' \in IF acked THEN {after} ELSE {devTarget, after}
  /\ Begins
  /\ UNCHANGED armed

\* The rest of _advance, once the step in flight has been looked at.
Approach(s, since, sz) ==
  \/ Waits(s, since) /\ sizing' = sz
  \/ Stopped /\ NothingCommanded /\ sizing' = sz    \* HOLD
  \/ s # None /\ ~armed /\ Confirm(s) /\ sizing' = sz
  \/ s = None /\ ~armed /\ Issue(sz, act', "staged")
  \/ s = None /\ armed /\ onFor # None /\ Issue(sz, devTarget, "driven")

Report(s) ==
  [after |-> s.after, act |-> act', moved |-> act' - s.actBefore, responded |-> Responded(s),
   ramp |-> RampTime(s), wait |-> NoResponseWait(s),
   driven |-> IF onFor = None THEN 0 ELSE AtMost(onFor + 1, DriveAge)]

\* A tick whose sample is not usable only lets a pause end.
BlindTick ==
  /\ Waits(step, IF settledFor = None THEN None
                  ELSE AtMost(settledFor + 1, MinSettle + NearExtra))
  /\ quiet' = AtMost(quiet + 1, MinSettle) /\ report' = None
  /\ UNCHANGED <<sizing, reduced>>

\* _advance, of a tick with a usable sample.
Advance(slope) ==
  LET driving == step # None /\ step.phase = "driven"
      since == IF driving THEN SettledSince(slope) ELSE None
  IN  /\ \/ /\ driving /\ Settles(step, since)
            /\ Approach(None, None, AfterSettle(sizing, step))
            /\ report' = Report(step) /\ reduced' = None
         \/ /\ ~(driving /\ Settles(step, since))
            /\ Approach(step, since, sizing)
            /\ report' = None /\ UNCHANGED reduced
      /\ quiet' = Quiet(slope)

\* Nothing wrong: a pause clears.
SafeTick ==
  /\ lag <= Grace
  /\ paused' = FALSE /\ eligible' = FALSE
  /\ Finalized(obs)
  /\ BlindTick \/ \E slope \in Slopes : slope <= Cap /\ Advance(slope)

Tick ==
  /\ GasMoves /\ SampleMoves
  /\ \/ TroubleTick
     \/ \E slope \in Slopes, valid \in BOOLEAN : RateTick(slope, valid)
     \/ SafeTick
  /\ Reconciled
  /\ UNCHANGED period

-----------------------------------------------------------------------------
(* The operator.                                                            *)

\* force_reset keeps the physical motion charged.
RecentAfterReset == recent

Untimed == UNCHANGED <<act, devTarget, sample, sizing, period, quiet, commanded, reduced>>

\* pause, abort, or a target lowered while there is a step.
Interrupt ==
  /\ Stopped /\ onFor' = None /\ lag' = 0
  /\ Finalized(Spoiled(obs))
  /\ eligible' \in {eligible, FALSE}
  /\ report' = None
  /\ Untimed /\ UNCHANGED <<paused, recent>>

Reset ==
  /\ Stopped /\ onFor' = None /\ lag' = 0
  /\ Finalized(Spoiled(obs))
  /\ paused' = FALSE /\ eligible' = FALSE
  /\ recent' = RecentAfterReset
  /\ report' = None
  /\ Untimed

\* set_membrane_rate_mpa_per_min
SetRate ==
  /\ period' \in Periods
  /\ report' = None
  /\ UNCHANGED <<gas, sample, step, driveAge, settledFor, sizing, pause, recent, quiet,
                 commanded, reduced, fair>>

Next == Tick \/ Interrupt \/ Reset \/ SetRate

Spec == Init /\ [][Next]_vars

-----------------------------------------------------------------------------

\* However steps are interrupted, discarded, reset or lost on the way, no more gas is
\* commanded within any window than max_cumulative_step_mpa.
BudgetHolds == SumOf(commanded) <= Budget

\* A step that settles has arrived, with Control on for its whole ramp (but the time
\* Control may come on late), after a slope that stayed flat; and a trace that stayed
\* flat was watched for the dead time after the ramp before the probe may grow.
SettledIsReal ==
  report # None =>
    /\ report.act >= report.after
    /\ quiet >= MinSettle
    /\ report.driven + Grace >= AtLeast(MinSettle, report.ramp)
    /\ ~report.responded => report.driven + Grace >= report.ramp + report.wait

\* What is learned of the rate is what clean interruptions have shown: steps that were
\* acknowledged and driven, in a pause that had no other cause, until it cleared.
LearnedIsClean == learned = fair

\* After a rate pause the first step that is commanded, however often it is tried, stays
\* below what the interrupted one had moved, until a step has settled.
SmallerAfterRatePause ==
  commanded[0] # 0 /\ reduced # None => commanded[0] <= reduced
=============================================================================
