------------------------------ MODULE Session ------------------------------
(***************************************************************************)
(* One PressureKeeper process from build_app() to its end: the main thread *)
(* (the GUI's event loop or the command line), the thread that calls       *)
(* controller.step(), the crash handler around it, the endpoint the client *)
(* points at, the lock files of the endpoints, and the run's manifest.     *)
(*                                                                         *)
(* A tick is reduced to what the life cycle depends on: the status it read *)
(* and from which device, the verdict it took under the controller's lock, *)
(* and the one request it then sends.  Controller has the rest.            *)
(***************************************************************************)
EXTENDS Integers, RunLog

CONSTANTS
  Endpoints,  \* PACE5000 base URLs
  Fronts,     \* which front ends run: "gui", "cli"
  Updates,    \* whether Configure Parameters is used after Stop Control
  MaxTries    \* reads of the status before stop_and_confirm() gives up

ASSUME SessionAssumption ==
  /\ None \notin Endpoints
  /\ Fronts \subseteq {"gui", "cli"}
  /\ Updates \in BOOLEAN
  /\ MaxTries \in Nat

VARIABLES
  front,      \* the front end of this process
  main,       \* where the main thread is
  worker,     \* where the polling thread is
  crashed,    \* its step() has raised
  button,     \* Start Control: "never" pressed, "running" or "stopped"
  leaving,    \* _stop_requested / stop_event is set
  latch,      \* the manual abort latch
  stop,       \* membrane_stop_intended
  staged,     \* the endpoint the setpoint of the current approach was written to
  read,       \* the status this tick got, or None
  known,      \* _membrane_status: the last status got
  verdict,    \* what the tick under the lock has found
  req,        \* the tick's request on its way, or None
  at,         \* the client's base_url
  owner,      \* who holds the lock file of each endpoint
  mode,       \* the output of each device: TRUE in Control
  tries,      \* status reads left to stop_and_confirm()
  confirmed,  \* its result
  closed      \* what AppContext.close() has closed

controller == <<latch, stop, staged>>
tick == <<read, known, verdict, req>>
place == <<at, owner, mode>>
exit == <<tries, confirmed, closed>>
vars == <<front, main, worker, crashed, button, leaving, controller, tick, place, exit,
          runLog>>

MainPlaces ==
  {"launch", "marking", "marked", "idle", "checking", "resetting", "aborting", "clearing",
   "switching", "switched", "quitting", "settling", "confirm", "retry", "joining",
   "ending", "ended", "closing", "releasing", "exited"}
WorkerPlaces ==
  {"off", "rest", "read", "locked", "send", "mark", "marking", "marked", "abort",
   "clear", "last", "dead"}
StatusFrom == [at : Endpoints, mode : BOOLEAN]
Requests == [kind : {"stop", "enable", "setpoint"}, at : Endpoints]

SessionTypeOK ==
  /\ front \in Fronts
  /\ main \in MainPlaces /\ worker \in WorkerPlaces
  /\ crashed \in BOOLEAN /\ leaving \in BOOLEAN
  /\ button \in {"never", "running", "stopped"}
  /\ latch \in BOOLEAN /\ stop \in BOOLEAN
  /\ staged \in Endpoints \cup {None}
  /\ read \in StatusFrom \cup {None} /\ known \in StatusFrom \cup {None}
  /\ verdict \in {"ok", "pause", "abort"}
  /\ req \in Requests \cup {None}
  /\ at \in Endpoints
  /\ owner \in [Endpoints -> {"free", "us", "them"}]
  /\ mode \in [Endpoints -> BOOLEAN]
  /\ tries \in 0..MaxTries
  /\ confirmed \in BOOLEAN
  /\ closed \subseteq {"log", "devices", "lock"}
  /\ RunLogTypeOK

\* build_app() holds the lock of its endpoint; the command line starts its thread at
\* once, the GUI when Start Control is pressed.
Init ==
  /\ front \in Fronts
  /\ main = IF front = "cli" THEN "launch" ELSE "idle"
  /\ worker = "off" /\ crashed = FALSE
  /\ button = "never" /\ leaving = FALSE
  /\ latch = FALSE /\ stop = TRUE /\ staged = None
  /\ read = None /\ known = None /\ verdict = "ok" /\ req = None
  /\ at \in Endpoints
  /\ owner \in [Endpoints -> {"free", "us", "them"}]
  /\ \A e \in Endpoints : owner[e] = "us" <=> e = at
  /\ mode \in [Endpoints -> BOOLEAN]
  /\ tries = MaxTries /\ confirmed = FALSE /\ closed = {}
  /\ RunLogInit

-----------------------------------------------------------------------------
(* The polling thread: one tick                                             *)

\* The controller's lock, held while a tick decides and sends.
Locked == worker \in {"locked", "send"}

\* Mutant: the loop does not look at the stop request.
BeginTick_Forever ==
  /\ worker = "rest"
  /\ \E answer \in {None, [at |-> at, mode |-> mode[at]]} : read' = answer
  /\ worker' = "read"
  /\ UNCHANGED <<front, main, crashed, button, leaving, controller, known, verdict, req,
                 place, exit, runLog>>

\* step() up to the lock; the status may not be due, or the read may fail.
BeginTick ==
  /\ \/ worker = "rest" /\ ~leaving
     \/ worker = "last"
  /\ \E answer \in {None, [at |-> at, mode |-> mode[at]]} : read' = answer
  /\ worker' = "read"
  /\ UNCHANGED <<front, main, crashed, button, leaving, controller, known, verdict, req,
                 place, exit, runLog>>

EndLoop ==
  /\ worker = "rest" /\ leaving
  /\ worker' = "dead"
  /\ UNCHANGED <<front, main, crashed, button, leaving, controller, tick, place, exit,
                 runLog>>

\* evaluate(), and what _apply_verdict does at once about a pause or an abort.
Evaluate ==
  /\ worker = "read"
  /\ worker' = "locked"
  /\ known' = IF read # None THEN read ELSE known
  /\ verdict' \in IF latch THEN {"abort"} ELSE {"ok", "pause"}
  /\ IF verdict' = "ok"
     THEN UNCHANGED <<stop, staged>>
     ELSE stop' = TRUE /\ staged' = None
  /\ UNCHANGED <<front, main, crashed, button, leaving, latch, read, req, place, exit,
                 runLog>>

Send(kind) == req' = [kind |-> kind, at |-> at] /\ worker' = "send"

SawMeasure == known # None /\ ~known.mode
SawControl == known # None /\ known.mode

\* A new setpoint is written in Measure, past check_command()'s look at the flags.
Stage ==
  /\ ~latch
  /\ staged = None /\ SawMeasure
  /\ staged' = at
  /\ Send("setpoint")
  /\ UNCHANGED stop

\* A further setpoint is written in Control.
Issue ==
  /\ ~latch
  /\ staged # None /\ ~stop /\ SawControl
  /\ Send("setpoint")
  /\ UNCHANGED <<stop, staged>>

NoRequest == req' = None /\ worker' = "send"

\* The staged setpoint is confirmed by a status of this tick, and Control enabled.
Confirm ==
  /\ staged # None /\ read # None
  /\ stop' = FALSE
  /\ IF SawControl THEN NoRequest ELSE Send("enable")
  /\ UNCHANGED staged

\* The target is reached: the output is to be stopped.
Hold ==
  /\ stop' = TRUE /\ staged' = None
  /\ IF SawMeasure THEN NoRequest ELSE Send("stop")

\* Nothing to decide: _reconcile_membrane_drive repeats what was asked for.
Reconcile ==
  /\ UNCHANGED <<stop, staged>>
  /\ CASE stop /\ ~SawMeasure  -> Send("stop")
       [] ~stop /\ ~SawControl -> Send("enable")
       [] OTHER                -> NoRequest

Decide ==
  /\ worker = "locked"
  /\ Reconcile \/ (verdict = "ok" /\ (Stage \/ Issue \/ Confirm \/ Hold))
  /\ UNCHANGED <<front, main, crashed, button, leaving, latch, read, known, verdict, place,
                 exit, runLog>>

\* The request reaches its device or is lost; then the tick ends and frees the lock.  The
\* tick of the crash handler is the last one, and the command line's thread then asks
\* its main thread to leave.
Land ==
  /\ worker = "send"
  /\ \/ req # None /\ mode' = [mode EXCEPT ![req.at] = IF req.kind = "setpoint" THEN @
                                                       ELSE req.kind = "enable"]
     \/ UNCHANGED mode
  /\ req' = None
  /\ worker' = IF crashed THEN "dead" ELSE "rest"
  /\ leaving' = (leaving \/ (crashed /\ front = "cli"))
  /\ UNCHANGED <<front, main, crashed, button, controller, read, known, verdict, at, owner,
                 exit, runLog>>

-----------------------------------------------------------------------------
(* The polling thread: the crash handler                                    *)

\* step() raises anywhere; in the handler's own tick the exception is swallowed.
Crash ==
  /\ worker \in {"read", "locked", "send"}
  /\ req' = None
  /\ crashed' = TRUE
  /\ worker' = IF crashed THEN "dead" ELSE "mark"
  /\ leaving' = (leaving \/ (crashed /\ front = "cli"))
  /\ UNCHANGED <<front, main, button, controller, read, known, verdict, place, exit, runLog>>

WorkerAt(from, to) ==
  /\ worker = from
  /\ worker' = to
  /\ UNCHANGED <<front, main, crashed, button, leaving, tick, at, owner, exit>>

\* mark_end("crashed"), whose own failure is swallowed.
CrashMark ==
  /\ WorkerAt("mark", "marking")
  /\ MarkEnd("worker", "crashed")
  /\ UNCHANGED <<controller, mode>>

CrashWrite ==
  /\ WorkerAt("marking", "marked")
  /\ IF draft["worker"] # None THEN WriteTmp("worker") ELSE UNCHANGED runLog
  /\ UNCHANGED <<controller, mode>>

CrashReplace ==
  /\ WorkerAt("marked", "abort")
  /\ IF draft["worker"] # None THEN Replace("worker") ELSE UNCHANGED runLog
  /\ UNCHANGED <<controller, mode>>

\* abort(): the latch and the STOP without the lock, then the rest under it.
CrashAbort ==
  /\ WorkerAt("abort", "clear")
  /\ latch' = TRUE /\ stop' = TRUE
  /\ mode' \in {mode, [mode EXCEPT ![at] = FALSE]}
  /\ UNCHANGED <<staged, runLog>>

CrashClear ==
  /\ WorkerAt("clear", "last")
  /\ staged' = None
  /\ UNCHANGED <<latch, stop, mode, runLog>>

CrashHandler == CrashMark \/ CrashWrite \/ CrashReplace \/ CrashAbort \/ CrashClear

-----------------------------------------------------------------------------
(* The main thread: Start, Stop, Reset                                      *)

MainAt(from, to) ==
  /\ main \in from
  /\ main' = to
  /\ UNCHANGED <<front, crashed, tick>>

\* The GUI waits for the next event; the command line has handled one line and first
\* looks whether it is to leave.
Handled == IF front = "cli" THEN "checking" ELSE "idle"

NextLine ==
  /\ MainAt({"checking"}, "idle")
  /\ ~leaving /\ ~crashed
  /\ UNCHANGED <<worker, button, leaving, controller, place, exit, runLog>>

\* The command line starts the thread before it marks the run as started...
Launch ==
  /\ MainAt({"launch"}, "marking")
  /\ worker' = "rest" /\ button' = "running"
  /\ MarkStarted("main")
  /\ UNCHANGED <<leaving, controller, place, exit>>

\* Mutant: the GUI starts its thread first, too.
FirstStart_ThreadFirst ==
  /\ front = "gui" /\ button = "never"
  /\ MainAt({"idle"}, "marking")
  /\ worker' = "rest" /\ button' = "running"
  /\ MarkStarted("main")
  /\ UNCHANGED <<leaving, controller, place, exit>>

\* ...the GUI marks it first, and then starts the thread.
FirstStart ==
  /\ front = "gui" /\ button = "never"
  /\ MainAt({"idle"}, "marking")
  /\ button' = "running"
  /\ MarkStarted("main")
  /\ UNCHANGED <<worker, leaving, controller, place, exit>>

MarkWrite ==
  /\ MainAt({"marking"}, "marked")
  /\ WriteTmp("main")
  /\ UNCHANGED <<worker, button, leaving, controller, place, exit>>

MarkReplace ==
  /\ MainAt({"marked"}, "idle")
  /\ tmp # None
  /\ Replace("main")
  /\ worker' = IF worker = "off" THEN "rest" ELSE worker
  /\ UNCHANGED <<button, leaving, controller, place, exit>>

\* Start Control after Stop Control, and the reset command.
Reset ==
  /\ front = "gui" => button = "stopped"
  /\ ~Locked
  /\ MainAt({"idle"}, "resetting")
  /\ latch' = FALSE /\ stop' = TRUE /\ staged' = None
  /\ button' = "running"
  /\ UNCHANGED <<worker, leaving, place, exit, runLog>>

\* _emergency_stop_attempt, which does not wait for the lock.
EmergencyStop ==
  /\ \/ MainAt({"resetting"}, Handled)
     \/ MainAt({"aborting"}, "clearing")
     \/ MainAt({"quitting"}, "settling")
     \/ MainAt({"retry"}, "confirm")
  /\ mode' \in {mode, [mode EXCEPT ![at] = FALSE]}
  /\ UNCHANGED <<worker, button, leaving, controller, at, owner, exit, runLog>>

\* abort() up to its STOP: Stop Control, the abort command.
Stop ==
  /\ front = "gui" => button = "running"
  /\ MainAt({"idle"}, "aborting")
  /\ latch' = TRUE /\ stop' = TRUE
  /\ button' = "stopped"
  /\ UNCHANGED <<worker, leaving, staged, place, exit, runLog>>

\* Mutant: the rest of abort() does not wait for the tick in progress.
Clear_NoLock ==
  /\ MainAt({"clearing", "settling"}, IF main = "settling" THEN "confirm" ELSE Handled)
  /\ staged' = None
  /\ UNCHANGED <<worker, button, leaving, latch, stop, place, exit, runLog>>

\* The rest of abort(), under the lock.
Clear ==
  /\ ~Locked
  /\ MainAt({"clearing", "settling"}, IF main = "settling" THEN "confirm" ELSE Handled)
  /\ staged' = None
  /\ UNCHANGED <<worker, button, leaving, latch, stop, place, exit, runLog>>

-----------------------------------------------------------------------------
(* The main thread: Configure Parameters and Configure API                  *)

\* Save & Apply: a fresh SafetySupervisor, so the abort latch is gone.
ApplyUpdate ==
  /\ front = "gui" /\ button # "running"
  /\ button = "stopped" => Updates
  /\ ~Locked
  /\ MainAt({"idle"}, "idle")
  /\ latch' = FALSE /\ stop' = TRUE
  /\ UNCHANGED <<worker, button, leaving, staged, place, exit, runLog>>

\* Mutant: the endpoint may be changed while Control is running.
AcquireNew_Anytime ==
  /\ front = "gui"
  /\ MainAt({"idle"}, "switching")
  /\ \E e \in Endpoints : owner[e] = "free" /\ owner' = [owner EXCEPT ![e] = "us"]
  /\ UNCHANGED <<worker, button, leaving, controller, at, mode, exit, runLog>>

\* The lock of the new endpoint is taken first; one that somebody holds is refused
\* and nothing changes.
AcquireNew ==
  /\ front = "gui" /\ button # "running"
  /\ MainAt({"idle"}, "switching")
  /\ \E e \in Endpoints : owner[e] = "free" /\ owner' = [owner EXCEPT ![e] = "us"]
  /\ UNCHANGED <<worker, button, leaving, controller, at, mode, exit, runLog>>

SwitchEndpoint ==
  /\ MainAt({"switching"}, "switched")
  /\ \E e \in Endpoints \ {at} : owner[e] = "us" /\ at' = e
  /\ UNCHANGED <<worker, button, leaving, controller, owner, mode, exit, runLog>>

ReleaseOld ==
  /\ MainAt({"switched"}, "idle")
  /\ owner' = [e \in Endpoints |-> IF owner[e] = "us" /\ e # at THEN "free" ELSE owner[e]]
  /\ UNCHANGED <<worker, button, leaving, controller, at, mode, exit, runLog>>

-----------------------------------------------------------------------------
(* The main thread: the end of the process                                  *)

\* The stop request, then abort().
LeaveFrom(places) ==
  /\ MainAt(places, "quitting")
  /\ leaving' = TRUE
  /\ latch' = TRUE /\ stop' = TRUE
  /\ UNCHANGED <<worker, button, staged, place, exit, runLog>>

\* closeEvent; quit, end of input, or Ctrl-C anywhere in the loop.
Leave ==
  LeaveFrom({"idle"} \cup
            IF front = "cli" THEN {"checking", "resetting", "aborting", "clearing"} ELSE {})

\* The command line's loop sees the stop request or the crash.
LeaveLoop == front = "cli" /\ (leaving \/ crashed) /\ LeaveFrom({"idle", "checking"})

\* Mutant: the reads are counted down past the timeout.
ConfirmStop_NoDeadline ==
  /\ main = "confirm"
  /\ \/ ~mode[at] /\ confirmed' = TRUE /\ main' = "joining" /\ UNCHANGED tries
     \/ UNCHANGED confirmed /\ main' = "retry" /\ tries' = tries - 1
  /\ UNCHANGED <<front, crashed, tick, worker, button, leaving, controller, place, closed,
                 runLog>>

\* stop_and_confirm(): a read-back of Measure, or the end of the timeout.
ConfirmStop ==
  /\ main = "confirm"
  /\ \/ ~mode[at] /\ confirmed' = TRUE /\ main' = "joining" /\ UNCHANGED tries
     \/ /\ UNCHANGED confirmed
        /\ IF tries = 0 THEN main' = "joining" /\ UNCHANGED tries
                        ELSE main' = "retry" /\ tries' = tries - 1
  /\ UNCHANGED <<front, crashed, tick, worker, button, leaving, controller, place, closed,
                 runLog>>

\* Mutant: the process does not wait for its polling thread.
Join_NoWait ==
  /\ MainAt({"joining"}, "ending")
  /\ MarkEnd("main", DefaultEnd)
  /\ UNCHANGED <<worker, button, leaving, controller, place, exit>>

\* worker.wait() / runner.join(), then AppContext.close() and DataLogger.close().
Join ==
  /\ worker \in {"off", "dead"}
  /\ MainAt({"joining"}, "ending")
  /\ MarkEnd("main", DefaultEnd)
  /\ UNCHANGED <<worker, button, leaving, controller, place, exit>>

EndWrite ==
  /\ MainAt({"ending"}, "ended")
  /\ IF draft["main"] # None THEN WriteTmp("main") ELSE UNCHANGED runLog
  /\ UNCHANGED <<worker, button, leaving, controller, place, exit>>

CloseLog ==
  /\ MainAt({"ended"}, "closing")
  /\ IF draft["main"] # None THEN Replace("main") ELSE UNCHANGED runLog
  /\ closed' = closed \cup {"log"}
  /\ UNCHANGED <<worker, button, leaving, controller, place, tries, confirmed>>

CloseDevices ==
  /\ MainAt({"closing"}, "releasing")
  /\ closed' = closed \cup {"devices"}
  /\ UNCHANGED <<worker, button, leaving, controller, place, tries, confirmed, runLog>>

ReleaseLock ==
  /\ MainAt({"releasing"}, "exited")
  /\ closed' = closed \cup {"lock"}
  /\ owner' = [owner EXCEPT ![at] = "free"]
  /\ UNCHANGED <<worker, button, leaving, controller, at, mode, tries, confirmed, runLog>>

\* The command line ends without the sequence above.  The daemon thread dies with it and
\* the lock file names a dead process.
Die ==
  /\ front = "cli"
  /\ main' = "exited" /\ worker' = "dead" /\ req' = None
  /\ owner' = [owner EXCEPT ![at] = "free"]
  /\ UNCHANGED <<front, crashed, button, leaving, controller, read, known, verdict, at,
                 mode, exit, runLog>>

\* The rename of mark_control_started() finds that the crash handler's has taken the file.
RenameFails == main = "marked" /\ tmp = None /\ Die

\* Ctrl-C outside the loop that expects it.
Interrupted ==
  /\ main \in {"marking", "marked", "quitting", "settling", "confirm", "retry", "joining",
              "ending", "ended", "closing", "releasing"}
  /\ Die

-----------------------------------------------------------------------------

\* Another process takes, drives and gives up the endpoints this one does not hold.
Others ==
  /\ \E e \in Endpoints :
       /\ owner[e] # "us"
       /\ owner' \in {[owner EXCEPT ![e] = o] : o \in {"free", "them"}}
       /\ mode' \in {mode} \cup IF owner[e] = "them" THEN {[mode EXCEPT ![e] = ~@]} ELSE {}
  /\ UNCHANGED <<front, main, worker, crashed, button, leaving, controller, tick, at, exit,
                 runLog>>

PollingThread ==
  BeginTick \/ EndLoop \/ Evaluate \/ Decide \/ Land \/ CrashHandler

\* What the main thread does without being asked.
MainGoesOn ==
  \/ Launch \/ MarkWrite \/ MarkReplace \/ NextLine \/ EmergencyStop \/ Clear
  \/ SwitchEndpoint \/ ReleaseOld
  \/ ConfirmStop \/ Join \/ EndWrite \/ CloseLog \/ CloseDevices \/ ReleaseLock
  \/ LeaveLoop \/ RenameFails

Operator == FirstStart \/ Reset \/ Stop \/ ApplyUpdate \/ AcquireNew \/ Leave \/ Interrupted

Next == PollingThread \/ Crash \/ MainGoesOn \/ Operator \/ Others

\* The threads run; the main thread's waits (the lock, the polling thread) end when what
\* they wait for does.
Spec == Init /\ [][Next]_vars /\ WF_vars(PollingThread) /\ WF_vars(MainGoesOn)

-----------------------------------------------------------------------------

\* "No lock was ever held against the new one" (main_window.py, lines 232-235) must not
\* come back: whatever the order of Start, Stop, a tick in progress and an endpoint
\* change, a request that moves a setpoint or enables an output is on its way only to an
\* endpoint whose lock this process holds.
DrivesOnlyOwned ==
  req # None /\ req.kind # "stop" => owner[req.at] = "us"

\* A tick that began before Stop, an endpoint change and Start may still act after
\* them; Control is enabled only on the device the approach's setpoint was written to.
EnabledWhereStaged ==
  req # None /\ req.kind = "enable" => req.at = staged

\* Nothing is closed under a tick: once the log, the sessions or the lock file are given
\* up, the polling thread has ended (main_window.py, lines 378-380).
NothingAfterClose ==
  closed # {} => worker \in {"off", "dead"} /\ req = None

\* stop_and_confirm() returned True: no tick in progress, and no crash handler, turns
\* the output on again before the lock is released.
ConfirmedStopStays ==
  confirmed /\ owner[at] = "us" => ~mode[at]

\* The GUI's manifest ends with the truth: crashed, never started or completed.
EndReasonTrue ==
  front = "gui" /\ main = "exited" =>
    /\ disk.started = (button # "never")
    /\ disk.end = IF crashed THEN "crashed"
                  ELSE IF button = "never" THEN "not_started" ELSE "completed"

\* No wait is for ever: a process asked to leave, or whose command-line loop crashed,
\* ends, whatever its polling thread is doing.
LeaveEnds == (leaving \/ (crashed /\ front = "cli")) ~> (main = "exited")
=============================================================================
