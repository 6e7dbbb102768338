--------------------------- MODULE OneSidedDrive ---------------------------
(***************************************************************************)
(* What controller.py promises of the device it drives: setpoints go up in *)
(* steps, one step after the gas has arrived at the last, each sent only   *)
(* when the device holds the one before or may not yet be asked for it,    *)
(* and Control is switched on only on a setpoint of this run that the      *)
(* device holds and the gas can rise to.                                   *)
(*                                                                         *)
(* The program, its link and its operator are gone: what is left is the    *)
(* device, and the last setpoint the program means it to hold.             *)
(***************************************************************************)
EXTENDS Integers

CONSTANTS
  None,         \* no setpoint commanded since the start or the last reset
  Tol,          \* how far apart two equal setpoints may read
  ArrivalTol,   \* how far from its setpoint the gas has arrived
  MaxStep,      \* the largest step
  CommandGrace  \* whether a command is given time before it is looked for

VARIABLES
  mode,     \* the output: TRUE in Control
  tgt,      \* the setpoint the device holds
  act,      \* the gas pressure
  command,  \* the setpoint last commanded
  young     \* that command is still within its grace

drive == <<mode, tgt, act, command, young>>

DriveInit ==
  /\ mode \in BOOLEAN
  /\ tgt \in Int /\ act \in Int
  /\ command = None /\ young = FALSE

\* The device holds the setpoint last commanded; when it has to.
Held == command # None /\ tgt - Tol <= command /\ command <= tgt + Tol
Reconciled == Held \/ young

\* The gas is where the setpoint is, or above it; with one more step it may be below.
Arrived == tgt <= act + ArrivalTol + Tol
OneStepAhead == tgt <= act + MaxStep + ArrivalTol + Tol

\* A setpoint is sent, and may be lost.
Send ==
  /\ tgt' \in {command', tgt}
  /\ young' = CommandGrace
  /\ UNCHANGED <<mode, act>>

\* In Measure the next setpoint starts from the pressure, whatever the device held
\* before this run.
Stage ==
  /\ ~mode
  /\ command = None \/ Reconciled
  /\ command' \in act .. act + MaxStep
  /\ Send

\* In Control it starts from the setpoint the gas has arrived at.
Advance ==
  /\ Reconciled /\ Arrived
  /\ command' \in tgt + 1 .. tgt + MaxStep
  /\ Send

\* The grace of a command ends.
Age ==
  /\ young' = FALSE
  /\ UNCHANGED <<mode, tgt, act, command>>

\* Control: never on a setpoint the device does not hold, nor on one below the
\* pressure or too far above it.
Enable ==
  /\ Held /\ act <= tgt + Tol /\ OneStepAhead
  /\ mode' = TRUE
  /\ UNCHANGED <<tgt, act, command, young>>

Disable ==
  /\ mode' = FALSE
  /\ UNCHANGED <<tgt, act, command, young>>

\* A reset: what the device holds is no longer trusted.
Forget ==
  /\ command' = None /\ young' = FALSE
  /\ UNCHANGED <<mode, tgt, act>>

\* In Control the gas moves toward the setpoint, and not beyond it.
GasMoves ==
  /\ mode
  /\ act' \in act .. tgt \cup tgt .. act
  /\ UNCHANGED <<mode, tgt, command, young>>

DriveNext ==
  Stage \/ Advance \/ Age \/ Enable \/ Disable \/ Forget \/ GasMoves

DriveSpec == DriveInit /\ [][DriveNext]_drive
=============================================================================
