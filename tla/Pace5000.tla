------------------------------ MODULE Pace5000 ------------------------------
(***************************************************************************)
(* The PACE5000 pressure controller and the gas it drives, as the program  *)
(* sees them through clients/pace5000_client.py (one POST per command, one *)
(* GET per status) and as sim/simulator.py reproduces them.                *)
(*                                                                         *)
(* The device is a second actor: it ramps on its own toward its setpoint   *)
(* whenever its output is in Control, whoever last wrote that setpoint.    *)
(* Pressures are integers in units of the smallest distinguishable step.   *)
(***************************************************************************)
EXTENDS Integers

CONSTANTS
  StartTargets,  \* setpoints the device may hold when the program starts
  StartActuals,  \* membrane pressures it may be at when the program starts
  Sources,       \* positive supply pressures it may report
  Faults         \* which of the external misbehaviours below are possible

\* "write"       a set_pressure response is lost: applied or not, unknown
\* "modeWrite"   the same for set_control_mode
\* "statusRead"  GET /status fails            "offline" it answers connected=False
\* "noMode"/"noTarget"/"noReading"  the status of a connected device lacks its output
\*               state, its setpoint, or a pressure (or has one that is not finite)
\* "slowPoll"    ticks run more often than status_poll_interval_s
\* "lag"         the status shows an enabled output late (config.py, lines 104-111)
\* "leak"/"drift"  the gas pressure moves by itself while in Measure
\* "source"      the supply pressure changes  "panel" somebody uses the front panel
\* "ruby"        the fluorescence reading fails or is invalid   "jump" it jumps
\* "noStep"      the step computed is below min_membrane_step or over a budget
FaultKinds == {"write", "modeWrite", "statusRead", "offline", "slowPoll", "lag",
               "leak", "drift", "source", "panel", "ruby", "jump", "noStep",
               "noMode", "noTarget", "noReading"}

ASSUME DeviceAssumption ==
  /\ StartTargets \subseteq Int
  /\ StartActuals \subseteq Int
  /\ Sources \subseteq Int
  /\ Faults \subseteq FaultKinds

VARIABLES
  mode,    \* output state: TRUE in Control, FALSE in Measure
  shown,   \* the output state the status endpoint reports
  tgt,     \* the setpoint held by the device
  act,     \* the membrane pressure
  src      \* the positive supply pressure

device == <<mode, shown, tgt, act, src>>

DeviceInit ==
  /\ mode \in BOOLEAN
  /\ shown = mode
  /\ tgt \in StartTargets
  /\ act \in StartActuals
  /\ src \in Sources

DeviceTypeOK ==
  /\ mode \in BOOLEAN
  /\ shown \in BOOLEAN
  /\ tgt \in Int
  /\ act \in Int
  /\ src \in Int

-----------------------------------------------------------------------------
(* Requests.  A request either reaches the device or is lost, and the       *)
(* caller learns nothing from a failed one about which of the two it was.   *)

\* set_pressure(p): a new setpoint for the ramp.
SetTarget(p) ==
  /\ tgt' = p
  /\ UNCHANGED <<mode, shown, act, src>>

\* set_control_mode(b), applied: the output follows at once, the reported state
\* possibly later when an output is being enabled.
SetMode(b) ==
  /\ mode' = b
  /\ shown' \in {b} \cup (IF "lag" \in Faults /\ b THEN {shown} ELSE {})
  /\ UNCHANGED <<tgt, act, src>>

\* set_control_mode(b) as a caller meets it: applied, or lost on the way.
AttemptMode(b) == SetMode(b) \/ ("modeWrite" \in Faults /\ UNCHANGED device)

\* How much of itself a connected device reports.
Reports == {"all"} \cup (Faults \cap {"noMode", "noTarget", "noReading"})

\* What a successful read_status() returns; the fields that `gives` says are missing
\* are not looked at.
Status(gives) ==
  [mode |-> shown, tgt |-> tgt, act |-> act, src |-> src, gives |-> gives]

StatusRecord == [mode : BOOLEAN, tgt : Int, act : Int, src : Int, gives : Reports]

-----------------------------------------------------------------------------
(* What the device does by itself.                                          *)

\* In Control the pressure moves toward the setpoint.
Ramp ==
  /\ mode
  /\ act # tgt
  /\ act' = IF act < tgt THEN act + 1 ELSE act - 1
  /\ UNCHANGED <<mode, shown, tgt, src>>

\* The reported state catches up with the output.
CatchUp ==
  /\ shown # mode
  /\ shown' = mode
  /\ UNCHANGED <<mode, tgt, act, src>>

\* In Measure nothing regulates the gas: it may leak down or creep up.
Leak ==
  /\ "leak" \in Faults /\ ~mode /\ act > 0
  /\ act' = act - 1
  /\ UNCHANGED <<mode, shown, tgt, src>>

Drift(top) ==
  /\ "drift" \in Faults /\ ~mode /\ act < top
  /\ act' = act + 1
  /\ UNCHANGED <<mode, shown, tgt, src>>

SupplyChange ==
  /\ "source" \in Faults
  /\ src' \in Sources \ {src}
  /\ UNCHANGED <<mode, shown, tgt, act>>

\* Somebody switches the output, or types a setpoint, at the front panel.
PanelMode ==
  /\ "panel" \in Faults
  /\ mode' = ~mode
  /\ shown' = ~mode
  /\ UNCHANGED <<tgt, act, src>>

PanelTarget ==
  /\ "panel" \in Faults
  /\ tgt' \in StartTargets \ {tgt}
  /\ UNCHANGED <<mode, shown, act, src>>

DeviceStep(top) ==
  \/ Ramp
  \/ CatchUp
  \/ Leak
  \/ Drift(top)
  \/ SupplyChange
  \/ PanelMode
  \/ PanelTarget

=============================================================================
