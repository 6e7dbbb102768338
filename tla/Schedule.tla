------------------------------ MODULE Schedule ------------------------------
(***************************************************************************)
(* scheduler.py with gui/worker.py and gui/tab_schedule.py: a list of      *)
(* set-pressure and wait steps that drives the controller from the         *)
(* snapshots its ticks produce.                                            *)
(*                                                                         *)
(* The worker thread queues a snapshot to the GUI thread at the end of     *)
(* each tick (a Qt signal); the GUI thread, which is also the operator's,  *)
(* hands it to the schedule later, when other operator calls may have      *)
(* been made since.                                                        *)
(***************************************************************************)
EXTENDS Controller, Sequences, Functions

CONSTANTS
  Steps,      \* the schedule: a sequence of set-pressure and wait steps
  WaitTicks,  \* how many ticks a wait lasts
  MaxInbox    \* how many snapshots the GUI thread may be behind

Step == [kind : {"set"}, target : Int] \cup [kind : {"wait"}]

ASSUME ScheduleAssumption ==
  /\ Steps \in Seq(Step) /\ Steps # <<>>
  /\ WaitTicks \in Nat \ {0}
  /\ MaxInbox \in Nat \ {0}

VARIABLES
  inbox,    \* the snapshots on their way to the GUI thread
  status,   \* ScheduleRunStatus
  index,    \* _index, from 1
  issued,   \* _target_issued_for_current_step
  waited    \* _active_elapsed_s, in ticks

runner == <<status, index, issued, waited>>
svars == <<vars, inbox, runner>>

Statuses == {"IDLE", "RUNNING", "COMPLETED", "ABORTED", "STOPPED", "ERROR"}

\* What the schedule reads of a ControllerSnapshot, and what only the properties look at:
\* the reading it was made from and whether a lowered target was being held.
Snapshot == [state |-> state, target |-> userTarget, reading |-> estimate,
             reduced |-> targetReductionHold]

ScheduleTypeOK ==
  /\ Len(inbox) <= MaxInbox
  /\ status \in Statuses
  /\ index \in 1..Len(Steps) + 1
  /\ issued \in BOOLEAN
  /\ waited \in 0..WaitTicks - 1

ScheduleInit ==
  /\ Init
  /\ inbox = <<>>
  /\ status = "IDLE" /\ index = 1 /\ issued = FALSE /\ waited = 0

Current == Steps[index]

-----------------------------------------------------------------------------
(* The controller, with its snapshots.                                      *)

\* A tick ends, unlocked and with its snapshot queued.
TickEnds == Locked /\ ~Locked'

\* A running schedule locks the tab with the operator's own target.  MaxInbox bounds
\* how far the ticks may run ahead of the GUI thread.
ControllerStep ==
  /\ Next
  /\ BeginTick => Len(inbox) < MaxInbox
  /\ status = "RUNNING" => userTarget' = userTarget
  /\ inbox' = IF TickEnds THEN Append(inbox, Snapshot') ELSE inbox
  /\ UNCHANGED runner

-----------------------------------------------------------------------------
(* The operator's buttons.                                                  *)

StartSchedule ==
  /\ op = "none" /\ status # "RUNNING"
  /\ status' = "RUNNING" /\ index' = 1 /\ issued' = FALSE /\ waited' = 0
  /\ UNCHANGED <<vars, inbox>>

StopSchedule ==
  /\ op = "none" /\ status = "RUNNING"
  /\ status' = "STOPPED"
  /\ UNCHANGED <<vars, inbox, index, issued, waited>>

-----------------------------------------------------------------------------
(* on_tick()                                                                *)

\* The oldest queued snapshot reaches the schedule, while the GUI thread is in no
\* other call.
Receive(snap) ==
  /\ op = "none"
  /\ inbox # <<>> /\ snap = Head(inbox)
  /\ inbox' = Tail(inbox)

\* A snapshot of a schedule that is not running changes nothing.
Ignore(snap) ==
  /\ status # "RUNNING"
  /\ UNCHANGED <<vars, runner>>

\* The controller's abort ends the schedule for good.
Aborts(snap) ==
  /\ status = "RUNNING" /\ snap.state = "ABORT"
  /\ status' = "ABORTED"
  /\ UNCHANGED <<vars, index, issued, waited>>

\* A PAUSE freezes it.
Freezes(snap) ==
  /\ status = "RUNNING" /\ snap.state = "PAUSE"
  /\ UNCHANGED <<vars, runner>>

Active(snap, kind) ==
  /\ status = "RUNNING" /\ snap.state \notin {"ABORT", "PAUSE"}
  /\ Current.kind = kind

\* A schedule does not lower the target, and cannot exceed the ceiling.
Errs(snap) ==
  /\ Active(snap, "set") /\ ~issued
  /\ Current.target < snap.target \/ Current.target > ceiling
  /\ status' = "ERROR"
  /\ UNCHANGED <<vars, index, issued, waited>>

\* set_target(), which takes the controller's lock.
IssueTarget(snap) ==
  /\ Active(snap, "set") /\ ~issued
  /\ ~(Current.target < snap.target \/ Current.target > ceiling)
  /\ ~Locked
  /\ userTarget' = Current.target
  /\ LowerTarget(Current.target) \/ MoveTarget(Current.target)
  /\ issued' = TRUE
  /\ UNCHANGED <<device, ceiling, priorState, sensed, resumeGrace, tick, quitting,
                 started, status, index, waited>>

\* Mutant: the flag of the step before is kept.
Advance_KeepsIssued ==
  /\ index' = index + 1
  /\ waited' = 0
  /\ status' = IF index = Len(Steps) THEN "COMPLETED" ELSE status
  /\ UNCHANGED <<vars, issued>>

\* _advance()
Advance ==
  /\ index' = index + 1
  /\ issued' = FALSE
  /\ waited' = 0
  /\ status' = IF index = Len(Steps) THEN "COMPLETED" ELSE status
  /\ UNCHANGED vars

\* Mutant: any HOLD will do.
Reached_AnyTarget(snap) == snap.state = "HOLD"

\* Held at the target of this step.
Reached(snap) == snap.state = "HOLD" /\ snap.target = Current.target

AwaitTarget(snap) ==
  /\ Active(snap, "set") /\ issued
  /\ IF Reached(snap) THEN Advance ELSE UNCHANGED <<vars, runner>>

\* Mutant: the wait is over only when its time is exceeded.
Wait_Exceeded(snap) ==
  /\ Active(snap, "wait")
  /\ IF waited = WaitTicks
     THEN Advance
     ELSE waited' = waited + 1 /\ UNCHANGED <<vars, status, index, issued>>

\* A wait step counts the ticks that are not paused.
Wait(snap) ==
  /\ Active(snap, "wait")
  /\ IF waited + 1 = WaitTicks
     THEN Advance
     ELSE waited' = waited + 1 /\ UNCHANGED <<vars, status, index, issued>>

OnTick ==
  \E snap \in Range(inbox) :
    /\ Receive(snap)
    /\ \/ Ignore(snap) \/ Aborts(snap) \/ Freezes(snap)
       \/ Errs(snap) \/ IssueTarget(snap) \/ AwaitTarget(snap) \/ Wait(snap)

ScheduleNext == ControllerStep \/ StartSchedule \/ StopSchedule \/ OnTick

ScheduleSpec == ScheduleInit /\ [][ScheduleNext]_svars

\* The GUI thread handles its events, next to what the controller's fairness says.
FairSchedule == ScheduleSpec /\ Fairness /\ WF_svars(OnTick)

-----------------------------------------------------------------------------

\* A set-pressure step is over.
StepReached ==
  status = "RUNNING" /\ OnTick /\ Current.kind = "set" /\ index' = index + 1

\* A set-pressure step is passed only on a snapshot whose own reading is at that
\* target: inside the re-approach margin, or predicted to come inside the reach margin.
\* (The HOLD of a lowered target, which is no such reading, is left aside.)
ReachedAtTarget ==
  [][StepReached /\ ~Head(inbox).reduced =>
       LET r == Head(inbox).reading
           sizing == Larger(r.filtered, r.raw)
       IN  /\ r # None
           /\ \/ r.filtered >= Current.target - Reapproach
              \/ Larger(r.filtered + r.rise, sizing) >= Current.target - Reach]_svars

\* The sample is at the highest target and nothing pauses the controller.
Highest == \A s \in Range(Steps) : s.kind = "set" => estimate.filtered >= s.target - Reach
AtTheTop == usable /\ Highest /\ state # "PAUSE"

\* With the sample steadily at its highest target a running schedule comes to an end:
\* it never waits for a HOLD or for a time that does not come.
ScheduleFinishes == <>[]AtTheTop => []<>(status # "RUNNING")

=============================================================================
