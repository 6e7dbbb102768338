-------------------------- MODULE SafetySupervisor --------------------------
(***************************************************************************)
(* safety.py: the supervisor that vetoes or allows what the controller     *)
(* wants to do.  It keeps the operator's flags and the last command, gives *)
(* a verdict on each tick, and is the last gate before a pressure write.   *)
(*                                                                         *)
(* The timers and streak counters of the code (stale samples, consecutive  *)
(* errors, jump streaks) are abstracted to one nondeterministic choice,    *)
(* `disturbed`: on a tick that saw such trouble they may or may not have   *)
(* reached their limit.                                                    *)
(***************************************************************************)
EXTENDS Integers

CONSTANTS
  None,      \* "no value"
  Offline,   \* a status with connected=False
  MaxM,      \* max_membrane_pressure_mpa
  Tol,       \* setpoint_mismatch_tol_mpa
  GapMax,    \* max_setpoint_actual_gap_mpa
  Headroom,  \* minimum_source_pressure_headroom_mpa
  CommandGrace   \* setpoint_mismatch_grace_s is not zero, its default

ASSUME SupervisorAssumption ==
  /\ MaxM \in Nat
  /\ Tol \in Nat
  /\ GapMax \in Nat
  /\ Headroom \in Nat
  /\ CommandGrace \in BOOLEAN
  /\ None \notin Int
  /\ Offline # None

VARIABLES
  aborted,       \* _aborted, the sticky latch
  manualPause,   \* _manual_pause
  stopIntended,  \* _membrane_stop_intended
  lastCmd,       \* _last_commanded_setpoint_mpa
  youngCmd,      \* now - _last_command_t < setpoint_mismatch_grace_s
  errRecent      \* comm_errors_recent(now, slope_window_s)

safety == <<aborted, manualPause, stopIntended, lastCmd, youngCmd, errRecent>>

\* SafetySupervisor.__init__, followed by the set_membrane_stop_intended(True)
\* that ends the controller's own __init__.
SafetyInit ==
  /\ aborted = FALSE
  /\ manualPause = FALSE
  /\ stopIntended = TRUE
  /\ lastCmd = None
  /\ youngCmd = FALSE
  /\ errRecent = FALSE

SafetyTypeOK ==
  /\ aborted \in BOOLEAN
  /\ manualPause \in BOOLEAN
  /\ stopIntended \in BOOLEAN
  /\ lastCmd \in Int \cup {None}
  /\ youngCmd \in BOOLEAN
  /\ errRecent \in BOOLEAN

Distance(a, b) == IF a < b THEN b - a ELSE a - b

Close(a, b) == Distance(a, b) <= Tol

\* Only a status of a connected device carries readings, and it may lack some.
Connected(s) == s # None /\ s # Offline

ShowsTarget(s) == Connected(s) /\ s.gives # "noTarget"
ShowsMode(s) == Connected(s) /\ s.gives # "noMode"

\* A pressure, the supply or the output state is missing.
Incomplete(s) == Connected(s) /\ s.gives \in {"noMode", "noReading"}

-----------------------------------------------------------------------------
(* evaluate()                                                               *)

\* Conditions on the device that latch an abort.  A field that is not finite aborts
\* as well: it is one of the choices of MayAbort.
DeviceOverLimit(s) ==
  \/ Connected(s) /\ s.gives # "noReading" /\ s.act > MaxM
  \/ ShowsTarget(s) /\ s.tgt > MaxM

MayAbort(s) == IF Connected(s) /\ s.gives = "noReading" THEN {TRUE} ELSE {}

\* Mutant: the mismatch is looked for in Control only.
SetpointMismatch_InControl(s, young) ==
  ShowsTarget(s) /\ s.mode /\ lastCmd # None /\ ~young /\ ~Close(s.tgt, lastCmd)

\* The reported setpoint is not the one last commanded, and that command is not too
\* young to be compared.  The code compares with whatever status it has, also one
\* read before the command.
SetpointMismatch(s, young) ==
  ShowsTarget(s) /\ lastCmd # None /\ ~young /\ ~Close(s.tgt, lastCmd)

\* The command may have grown old enough by the next tick.
CommandAges == youngCmd' \in {FALSE, youngCmd}

\* While in Control: the setpoint is too far from the pressure, or too close to
\* the supply.
GapTooLarge(s) == ShowsTarget(s) /\ s.mode /\ Distance(s.tgt, s.act) > GapMax
SourceTooLow(s) == ShowsTarget(s) /\ s.mode /\ s.src <= s.tgt + Headroom

\* Control is off although nobody here asked for it.
ControlLost(s, inGrace) == ShowsMode(s) /\ ~s.mode /\ ~stopIntended /\ ~inGrace

\* The verdict's level; "rate" is a pause whose only event is
\* compression_rate_exceeded, with no communication error in the slope window.
Verdict(s, young, overLimit, fast, disturbed, inGrace, errors) ==
  IF aborted \/ overLimit \/ DeviceOverLimit(s) THEN "abort"
  ELSE IF \/ manualPause
          \/ disturbed
          \/ s = Offline
          \/ Incomplete(s)
          \/ SetpointMismatch(s, young)
          \/ GapTooLarge(s)
          \/ SourceTooLow(s)
          \/ ControlLost(s, inGrace)
       THEN "pause"
  ELSE IF fast THEN (IF errors THEN "pause" ELSE "rate")
  ELSE "ok"

\* check_command(): the operator's flags once more, then the supply pressure.
\* The step and ceiling limits hold by the way the controller sizes a step.
FlagsAllow == ~aborted /\ ~manualPause
SourceAllows(p, s) == s.src > p + Headroom

-----------------------------------------------------------------------------
(* The other entry points.                                                  *)

\* request_manual_abort / request_manual_pause, each followed by
\* set_membrane_stop_intended(True) in the controller; no controller lock.
LatchAbort ==
  /\ aborted' = TRUE
  /\ stopIntended' = TRUE
  /\ UNCHANGED <<manualPause, lastCmd, youngCmd, errRecent>>

LatchPause ==
  /\ manualPause' = TRUE
  /\ stopIntended' = TRUE
  /\ UNCHANGED <<aborted, lastCmd, youngCmd, errRecent>>

\* clear_manual_pause
ClearPause ==
  /\ manualPause' = FALSE
  /\ UNCHANGED <<aborted, stopIntended, lastCmd, youngCmd, errRecent>>

\* Mutant: the controller forgets to restore the stop after a reset.
ForceReset_KeepsDrive ==
  /\ aborted' = FALSE
  /\ manualPause' = FALSE
  /\ lastCmd' = None
  /\ youngCmd' = FALSE
  /\ errRecent' = FALSE
  /\ UNCHANGED stopIntended

\* force_reset, and update_config (a fresh __init__); in both the controller then
\* sets stopIntended before it lets go of its lock.
ForceReset ==
  /\ aborted' = FALSE
  /\ manualPause' = FALSE
  /\ stopIntended' = TRUE
  /\ lastCmd' = None
  /\ youngCmd' = FALSE
  /\ errRecent' = FALSE

\* on_command_issued
CommandIssued(p) ==
  /\ lastCmd' = p
  /\ youngCmd' = CommandGrace
  /\ UNCHANGED <<aborted, manualPause, stopIntended, errRecent>>

\* set_membrane_stop_intended(b)
StopIntended(b) ==
  /\ stopIntended' = b
  /\ UNCHANGED <<aborted, manualPause, lastCmd, youngCmd, errRecent>>

=============================================================================
