--------------------------- MODULE SessionProofs ---------------------------
(***************************************************************************)
(* Proofs about Session.tla, for any set of endpoints, both front ends and *)
(* any number of status reads at the end.                                  *)
(***************************************************************************)
EXTENDS Session, TLAPS

\* The steps that write the manifest.
LogStep ==
  \/ MarkStarted("main") \/ MarkEnd("worker", "crashed") \/ MarkEnd("main", DefaultEnd)
  \/ \E t \in Threads : WriteTmp(t) \/ Replace(t)

\* Whatever a step does, the manifest takes one of its own steps or none.
LEMMA LogMoves == [Next]_vars => LogStep \/ UNCHANGED runLog
<1>. USE DEF LogStep, Threads
<1>1. CASE UNCHANGED vars
  BY <1>1 DEF vars
<1>2. CASE BeginTick \/ EndLoop \/ Evaluate \/ Decide \/ Land \/ Crash \/ Others
  BY <1>2 DEF BeginTick, EndLoop, Evaluate, Decide, Land, Crash, Others
<1>3. CASE CrashHandler
  BY <1>3 DEF CrashHandler, CrashMark, CrashWrite, CrashReplace, CrashAbort, CrashClear
<1>4. CASE Launch \/ MarkWrite \/ MarkReplace \/ NextLine \/ EmergencyStop \/ Clear
  BY <1>4 DEF Launch, MarkWrite, MarkReplace, NextLine, EmergencyStop, Clear
<1>5. CASE SwitchEndpoint \/ ReleaseOld \/ ConfirmStop \/ Join \/ EndWrite \/ CloseLog
           \/ CloseDevices \/ ReleaseLock
  BY <1>5 DEF SwitchEndpoint, ReleaseOld, ConfirmStop, Join, EndWrite, CloseLog,
              CloseDevices, ReleaseLock
<1>6. CASE LeaveLoop \/ RenameFails
  BY <1>6 DEF LeaveLoop, LeaveFrom, RenameFails, Die
<1>7. CASE Operator
  BY <1>7 DEF Operator, FirstStart, Reset, Stop, ApplyUpdate, AcquireNew, Leave, LeaveFrom,
              Interrupted, Die
<1>. QED
  BY <1>1, <1>2, <1>3, <1>4, <1>5, <1>6, <1>7 DEF Next, PollingThread, MainGoesOn

\* The manifest's own steps keep its types.
LEMMA LogTypeStep == RunLogTypeOK /\ [Next]_vars => RunLogTypeOK'
<1>. SUFFICES ASSUME RunLogTypeOK, LogStep \/ UNCHANGED runLog PROVE RunLogTypeOK'
  BY LogMoves
<1>. USE DEF RunLogTypeOK, Manifest, EndReasons, Threads, runLog
<1>1. CASE UNCHANGED runLog
  BY <1>1
<1>2. ASSUME NEW t \in Threads, NEW record \in Manifest, Dump(t, record) PROVE RunLogTypeOK'
  BY <1>2 DEF Dump
<1>3. CASE MarkStarted("main")
  BY <1>2, <1>3 DEF MarkStarted
<1>4. ASSUME NEW t \in Threads, NEW reason \in EndReasons, MarkEnd(t, reason)
      PROVE RunLogTypeOK'
  BY <1>1, <1>2, <1>4 DEF MarkEnd
<1>5. ASSUME NEW t \in Threads, WriteTmp(t) \/ Replace(t) PROVE RunLogTypeOK'
  BY <1>5 DEF WriteTmp, Replace
<1>. QED
  BY <1>1, <1>3, <1>4, <1>5 DEF LogStep, DefaultEnd

-----------------------------------------------------------------------------
(* Types                                                                    *)

\* The type invariant in four parts: the threads and flags, the tick, the endpoints and
\* their devices, the end.
ThreadsTyped ==
  /\ front \in Fronts
  /\ main \in MainPlaces /\ worker \in WorkerPlaces
  /\ crashed \in BOOLEAN /\ leaving \in BOOLEAN
  /\ button \in {"never", "running", "stopped"}
  /\ latch \in BOOLEAN /\ stop \in BOOLEAN

TickTyped ==
  /\ staged \in Endpoints \cup {None}
  /\ read \in StatusFrom \cup {None} /\ known \in StatusFrom \cup {None}
  /\ verdict \in {"ok", "pause", "abort"}
  /\ req \in Requests \cup {None}

PlaceTyped ==
  /\ at \in Endpoints
  /\ owner \in [Endpoints -> {"free", "us", "them"}]
  /\ mode \in [Endpoints -> BOOLEAN]

ExitTyped ==
  /\ tries \in 0..MaxTries
  /\ confirmed \in BOOLEAN
  /\ closed \subseteq {"log", "devices", "lock"}

LEMMA SessionTypeParts ==
  SessionTypeOK <=> ThreadsTyped /\ TickTyped /\ PlaceTyped /\ ExitTyped /\ RunLogTypeOK
BY DEF SessionTypeOK, ThreadsTyped, TickTyped, PlaceTyped, ExitTyped

\* Nothing is on its way and nothing is written at the start.
LEMMA SessionTypeInit == Init => SessionTypeOK
<1>. SUFFICES ASSUME Init PROVE SessionTypeOK
  OBVIOUS
<1>1. RunLogTypeOK
  BY DEF Init, RunLogInit, RunLogTypeOK, Manifest, EndReasons, Threads
<1>2. ExitTyped
  <2>1. tries = MaxTries /\ confirmed = FALSE /\ closed = {}
    BY DEF Init
  <2>2. MaxTries \in 0..MaxTries
    BY SessionAssumption DEF SessionAssumption
  <2>. QED
    BY <2>1, <2>2 DEF ExitTyped
<1>3. ThreadsTyped
  BY DEF Init, ThreadsTyped, MainPlaces, WorkerPlaces
<1>4. TickTyped /\ PlaceTyped
  BY DEF Init, TickTyped, PlaceTyped
<1>. QED
  BY <1>1, <1>2, <1>3, <1>4, SessionTypeParts

LEMMA ThreadsTypeStep == ThreadsTyped /\ [Next]_vars => ThreadsTyped'
<1>. SUFFICES ASSUME ThreadsTyped, [Next]_vars PROVE ThreadsTyped'
  OBVIOUS
<1>. USE DEF ThreadsTyped, MainPlaces, WorkerPlaces, controller
<1>1. CASE UNCHANGED vars
  BY <1>1 DEF vars
<1>2. CASE BeginTick \/ EndLoop \/ Evaluate
  BY <1>2 DEF BeginTick, EndLoop, Evaluate
<1>3. CASE Decide
  <2>1. CASE Reconcile
    BY <1>3, <2>1 DEF Decide, Reconcile, Send, NoRequest
  <2>2. CASE Stage \/ Issue
    BY <1>3, <2>2 DEF Decide, Stage, Issue, Send
  <2>3. CASE Confirm \/ Hold
    BY <1>3, <2>3 DEF Decide, Confirm, Hold, Send, NoRequest
  <2>. QED
    BY <1>3, <2>1, <2>2, <2>3 DEF Decide
<1>4. CASE Land
  <2>1. leaving' \in BOOLEAN
    BY <1>4, Zenon DEF Land
  <2>. QED
    BY <1>4, <2>1 DEF Land
<1>5. CASE Crash
  <2>1. leaving' \in BOOLEAN
    BY <1>5, Zenon DEF Crash
  <2>. QED
    BY <1>5, <2>1 DEF Crash
<1>6. CASE Others
  BY <1>6 DEF Others
<1>7. CASE CrashHandler
  BY <1>7 DEF CrashHandler, CrashMark, CrashWrite, CrashReplace, CrashAbort, CrashClear,
              WorkerAt
<1>8. CASE Launch \/ MarkWrite \/ MarkReplace \/ NextLine
  BY <1>8 DEF Launch, MarkWrite, MarkReplace, NextLine, MainAt
<1>9. CASE EmergencyStop \/ Clear
  BY <1>9 DEF EmergencyStop, Clear, MainAt, Handled
<1>10. CASE SwitchEndpoint \/ ReleaseOld \/ ConfirmStop
  BY <1>10 DEF SwitchEndpoint, ReleaseOld, ConfirmStop, MainAt
<1>11. CASE Join \/ EndWrite \/ CloseLog \/ CloseDevices \/ ReleaseLock
  BY <1>11 DEF Join, EndWrite, CloseLog, CloseDevices, ReleaseLock, MainAt
<1>12. CASE LeaveLoop \/ Leave
  BY <1>12 DEF LeaveLoop, Leave, LeaveFrom, MainAt
<1>13. CASE RenameFails \/ Interrupted
  BY <1>13 DEF RenameFails, Interrupted, Die
<1>14. CASE FirstStart \/ Reset \/ Stop \/ ApplyUpdate \/ AcquireNew
  BY <1>14 DEF FirstStart, Reset, Stop, ApplyUpdate, AcquireNew, MainAt
<1>. QED
  BY <1>1, <1>2, <1>3, <1>4, <1>5, <1>6, <1>7, <1>8, <1>9, <1>10, <1>11, <1>12, <1>13, <1>14
     DEF Next, PollingThread, MainGoesOn, Operator

LEMMA TickTypeStep == TickTyped /\ PlaceTyped /\ [Next]_vars => TickTyped'
<1>. SUFFICES ASSUME TickTyped, PlaceTyped, [Next]_vars PROVE TickTyped'
  OBVIOUS
<1>. USE DEF TickTyped, controller, tick
<1>1. CASE UNCHANGED vars
  BY <1>1 DEF vars
<1>2. CASE BeginTick
  BY <1>2 DEF BeginTick, PlaceTyped, StatusFrom
<1>3. CASE EndLoop
  BY <1>3 DEF EndLoop
<1>4. CASE Evaluate
  BY <1>4 DEF Evaluate
<1>5. CASE Decide
  <2>1. \A kind \in {"stop", "enable", "setpoint"} : Send(kind) => req' \in Requests
    BY DEF Send, Requests, PlaceTyped
  <2>2. CASE Reconcile
    BY <1>5, <2>1, <2>2 DEF Decide, Reconcile, NoRequest
  <2>3. CASE Stage \/ Issue
    BY <1>5, <2>1, <2>3 DEF Decide, Stage, Issue, PlaceTyped
  <2>4. CASE Confirm \/ Hold
    BY <1>5, <2>1, <2>4 DEF Decide, Confirm, Hold, NoRequest
  <2>. QED
    BY <1>5, <2>2, <2>3, <2>4 DEF Decide
<1>6. CASE Land \/ Crash \/ Others
  BY <1>6 DEF Land, Crash, Others
<1>7. CASE CrashHandler
  BY <1>7 DEF CrashHandler, CrashMark, CrashWrite, CrashReplace, CrashAbort, CrashClear,
              WorkerAt
<1>8. CASE Launch \/ MarkWrite \/ MarkReplace \/ NextLine \/ EmergencyStop \/ Clear
  BY <1>8 DEF Launch, MarkWrite, MarkReplace, NextLine, EmergencyStop, Clear, MainAt
<1>9. CASE SwitchEndpoint \/ ReleaseOld \/ ConfirmStop
  BY <1>9 DEF SwitchEndpoint, ReleaseOld, ConfirmStop, MainAt
<1>10. CASE Join \/ EndWrite \/ CloseLog \/ CloseDevices \/ ReleaseLock
  BY <1>10 DEF Join, EndWrite, CloseLog, CloseDevices, ReleaseLock, MainAt
<1>11. CASE LeaveLoop \/ Leave
  BY <1>11 DEF LeaveLoop, Leave, LeaveFrom, MainAt
<1>12. CASE RenameFails \/ Interrupted
  BY <1>12 DEF RenameFails, Interrupted, Die
<1>13. CASE FirstStart \/ Reset \/ Stop \/ ApplyUpdate \/ AcquireNew
  BY <1>13 DEF FirstStart, Reset, Stop, ApplyUpdate, AcquireNew, MainAt
<1>. QED
  BY <1>1, <1>2, <1>3, <1>4, <1>5, <1>6, <1>7, <1>8, <1>9, <1>10, <1>11, <1>12, <1>13
     DEF Next, PollingThread, MainGoesOn, Operator

LEMMA PlaceTypeStep == PlaceTyped /\ [Next]_vars => PlaceTyped'
<1>. SUFFICES ASSUME PlaceTyped, [Next]_vars PROVE PlaceTyped'
  OBVIOUS
<1>. USE DEF PlaceTyped, place
<1>1. CASE UNCHANGED vars
  BY <1>1 DEF vars
<1>2. CASE BeginTick \/ EndLoop \/ Evaluate \/ Decide \/ Crash
  BY <1>2 DEF BeginTick, EndLoop, Evaluate, Decide, Crash
<1>3. CASE Land
  BY <1>3 DEF Land
<1>4. CASE Others
  BY <1>4 DEF Others
<1>5. CASE CrashHandler
  BY <1>5 DEF CrashHandler, CrashMark, CrashWrite, CrashReplace, CrashAbort, CrashClear,
              WorkerAt
<1>6. CASE Launch \/ MarkWrite \/ MarkReplace \/ NextLine \/ EmergencyStop \/ Clear
  BY <1>6 DEF Launch, MarkWrite, MarkReplace, NextLine, EmergencyStop, Clear, MainAt
<1>7. CASE SwitchEndpoint \/ ReleaseOld \/ ConfirmStop
  BY <1>7 DEF SwitchEndpoint, ReleaseOld, ConfirmStop, MainAt
<1>8. CASE Join \/ EndWrite \/ CloseLog \/ CloseDevices \/ ReleaseLock
  BY <1>8 DEF Join, EndWrite, CloseLog, CloseDevices, ReleaseLock, MainAt
<1>9. CASE LeaveLoop \/ Leave
  BY <1>9 DEF LeaveLoop, Leave, LeaveFrom, MainAt
<1>10. CASE RenameFails \/ Interrupted
  BY <1>10 DEF RenameFails, Interrupted, Die
<1>11. CASE FirstStart \/ Reset \/ Stop \/ ApplyUpdate \/ AcquireNew
  BY <1>11 DEF FirstStart, Reset, Stop, ApplyUpdate, AcquireNew, MainAt
<1>. QED
  BY <1>1, <1>2, <1>3, <1>4, <1>5, <1>6, <1>7, <1>8, <1>9, <1>10, <1>11
     DEF Next, PollingThread, MainGoesOn, Operator

LEMMA ExitTypeStep == ExitTyped /\ [Next]_vars => ExitTyped'
<1>. SUFFICES ASSUME ExitTyped, [Next]_vars PROVE ExitTyped'
  OBVIOUS
<1>. USE DEF ExitTyped, exit
<1>1. CASE UNCHANGED vars
  BY <1>1 DEF vars
<1>2. CASE BeginTick \/ EndLoop \/ Evaluate \/ Decide \/ Land \/ Crash \/ Others
  BY <1>2 DEF BeginTick, EndLoop, Evaluate, Decide, Land, Crash, Others
<1>3. CASE CrashHandler
  BY <1>3 DEF CrashHandler, CrashMark, CrashWrite, CrashReplace, CrashAbort, CrashClear,
              WorkerAt
<1>4. CASE Launch \/ MarkWrite \/ MarkReplace \/ NextLine \/ EmergencyStop \/ Clear
  BY <1>4 DEF Launch, MarkWrite, MarkReplace, NextLine, EmergencyStop, Clear
<1>5. CASE ConfirmStop
  <2>1. MaxTries \in Nat
    BY SessionAssumption DEF SessionAssumption
  <2>2. tries' \in 0..MaxTries
    BY <1>5, <2>1 DEF ConfirmStop
  <2>3. confirmed' \in BOOLEAN /\ closed' = closed
    BY <1>5 DEF ConfirmStop
  <2>. QED
    BY <2>2, <2>3
<1>6. CASE SwitchEndpoint \/ ReleaseOld \/ Join \/ EndWrite \/ CloseLog \/ CloseDevices
           \/ ReleaseLock
  BY <1>6 DEF SwitchEndpoint, ReleaseOld, Join, EndWrite, CloseLog, CloseDevices, ReleaseLock
<1>7. CASE LeaveLoop \/ Leave \/ RenameFails \/ Interrupted
  BY <1>7 DEF LeaveLoop, Leave, LeaveFrom, RenameFails, Interrupted, Die
<1>8. CASE FirstStart \/ Reset \/ Stop \/ ApplyUpdate \/ AcquireNew
  BY <1>8 DEF FirstStart, Reset, Stop, ApplyUpdate, AcquireNew
<1>. QED
  BY <1>1, <1>2, <1>3, <1>4, <1>5, <1>6, <1>7, <1>8
     DEF Next, PollingThread, MainGoesOn, Operator

LEMMA SessionTypeStep == SessionTypeOK /\ [Next]_vars => SessionTypeOK'
<1>. SUFFICES ASSUME SessionTypeOK, [Next]_vars PROVE SessionTypeOK'
  OBVIOUS
<1>1. ThreadsTyped /\ TickTyped /\ PlaceTyped /\ ExitTyped /\ RunLogTypeOK
  BY SessionTypeParts
<1>2. ThreadsTyped' /\ TickTyped' /\ PlaceTyped' /\ ExitTyped' /\ RunLogTypeOK'
  BY <1>1, LogTypeStep, ThreadsTypeStep, TickTypeStep, PlaceTypeStep, ExitTypeStep
<1>. QED
  BY <1>2 DEF SessionTypeOK, ThreadsTyped, TickTyped, PlaceTyped, ExitTyped

\* Every variable of the life cycle keeps its type: the tick always has a status, a
\* verdict and a request it can use, the reads at the end are counted to zero and no
\* further, and the manifest holds a record after every interleaving of its two writers.
THEOREM SessionTypeCorrect == Spec => []SessionTypeOK
BY SessionTypeInit, SessionTypeStep, PTL DEF Spec

-----------------------------------------------------------------------------
(* Nothing is closed under a tick                                           *)

\* Once the polling thread has been waited for it does not come back.
Joined == main \in {"ending", "ended", "closing", "releasing", "exited"}

ClosedInv ==
  /\ Joined => worker \in {"off", "dead"}
  /\ closed # {} => Joined
  /\ req # None => worker = "send"
  /\ main = "launch" => worker = "off"

\* The polling thread is started only by the main thread, from places it leaves for good.
LEMMA ClosedStep == ClosedInv /\ [Next]_vars => ClosedInv'
<1>. SUFFICES ASSUME ClosedInv, [Next]_vars PROVE ClosedInv'
  OBVIOUS
<1>. USE DEF ClosedInv, Joined, tick, exit
<1>1. CASE UNCHANGED vars
  BY <1>1 DEF vars
<1>2. CASE BeginTick \/ EndLoop \/ Evaluate
  BY <1>2 DEF BeginTick, EndLoop, Evaluate
<1>3. CASE Decide
  <2>1. worker' = "send"
    BY <1>3 DEF Decide, Reconcile, Stage, Issue, Confirm, Hold, Send, NoRequest
  <2>. QED
    BY <1>3, <2>1 DEF Decide
<1>4. CASE Land \/ Crash \/ Others
  BY <1>4 DEF Land, Crash, Others
<1>5. CASE CrashHandler
  BY <1>5 DEF CrashHandler, CrashMark, CrashWrite, CrashReplace, CrashAbort, CrashClear,
              WorkerAt
<1>6. CASE Launch
  BY <1>6 DEF Launch, MainAt
<1>7. CASE MarkWrite \/ NextLine
  BY <1>7 DEF MarkWrite, NextLine, MainAt
<1>8. CASE MarkReplace
  <2>1. closed = {} /\ closed' = closed /\ req' = req /\ main' = "idle"
    BY <1>8 DEF MarkReplace, MainAt
  <2>2. worker = "send" => worker' = "send"
    BY <1>8 DEF MarkReplace
  <2>. QED
    BY <2>1, <2>2
<1>9. CASE EmergencyStop \/ Clear
  BY <1>9 DEF EmergencyStop, Clear, MainAt, Handled
<1>10. CASE SwitchEndpoint \/ ReleaseOld \/ ConfirmStop
  BY <1>10 DEF SwitchEndpoint, ReleaseOld, ConfirmStop, MainAt
<1>11. CASE Join \/ EndWrite \/ CloseLog \/ CloseDevices \/ ReleaseLock
  BY <1>11 DEF Join, EndWrite, CloseLog, CloseDevices, ReleaseLock, MainAt
<1>12. CASE LeaveLoop \/ Leave
  BY <1>12 DEF LeaveLoop, Leave, LeaveFrom, MainAt
<1>13. CASE RenameFails \/ Interrupted
  BY <1>13 DEF RenameFails, Interrupted, Die
<1>14. CASE FirstStart \/ Reset \/ Stop \/ ApplyUpdate \/ AcquireNew
  BY <1>14 DEF FirstStart, Reset, Stop, ApplyUpdate, AcquireNew, MainAt
<1>. QED
  BY <1>1, <1>2, <1>3, <1>4, <1>5, <1>6, <1>7, <1>8, <1>9, <1>10, <1>11, <1>12, <1>13,
     <1>14
     DEF Next, PollingThread, MainGoesOn, Operator

\* The log, the sessions and the lock file are given up only after the polling thread has
\* ended, however the process is left and wherever its loop is.
THEOREM NothingClosedUnderTick == Spec => []NothingAfterClose
<1>1. Init => ClosedInv
  BY DEF Init, ClosedInv, Joined
<1>2. ClosedInv => NothingAfterClose
  BY DEF ClosedInv, Joined, NothingAfterClose
<1>. QED
  BY <1>1, <1>2, ClosedStep, PTL DEF Spec

-----------------------------------------------------------------------------
(* The GUI's manifest ends with the truth                                   *)

\* What the record in memory says of the end: the crash handler's reason once it has
\* written one, or else what close() has filled in.
EndSoFar ==
  IF crashed /\ worker # "mark" THEN "crashed" ELSE IF Joined THEN DefaultEnd ELSE None

\* Where each thread has dumped a record and not yet renamed it into place.
MainWrites == main \in {"marking", "marked"} \/ (main \in {"ending", "ended"} /\ ~crashed)
MainWrote == main = "marked" \/ (main = "ended" /\ ~crashed)
WorkerWrites == worker \in {"marking", "marked"}

\* The GUI marks Control as started before it starts the polling thread, and ends the run
\* after that thread has ended: its two writers never meet.
OneWriter ==
  /\ main \in {"marking", "marked"} => worker = "off" /\ button # "never"
  /\ button = "never" => worker = "off"
  /\ worker \in {"mark", "marking", "marked", "abort", "clear", "last"} => crashed
  /\ main # "launch" /\ main # "checking"

\* The record in memory is the truth, and every file holds it as soon as it is written.
Truthful ==
  /\ memory.started = (button # "never")
  /\ memory.end = EndSoFar
  /\ draft["main"] = IF MainWrites THEN memory ELSE None
  /\ draft["worker"] = IF WorkerWrites THEN memory ELSE None
  /\ MainWrote \/ worker = "marked" => tmp = memory
  /\ ~MainWrites /\ ~WorkerWrites => disk = memory

GuiLogInv ==
  /\ RunLogTypeOK /\ ClosedInv
  /\ front = "gui" => OneWriter /\ Truthful

\* Start Control is pressed once for the first time, and the thread it starts is waited for.
LEMMA OneWriterStep ==
  ClosedInv /\ front = "gui" /\ OneWriter /\ [Next]_vars => front' = "gui" /\ OneWriter'
<1>. SUFFICES ASSUME ClosedInv, front = "gui", OneWriter, [Next]_vars
              PROVE front' = "gui" /\ OneWriter'
  OBVIOUS
<1>. USE DEF OneWriter, tick, exit, place, controller
<1>1. CASE UNCHANGED vars
  BY <1>1 DEF vars
<1>2. CASE BeginTick \/ EndLoop \/ Evaluate
  BY <1>2 DEF BeginTick, EndLoop, Evaluate
<1>3. CASE Decide
  <2>1. worker = "locked" /\ worker' = "send" /\ UNCHANGED <<front, main, crashed, button>>
    BY <1>3 DEF Decide, Reconcile, Stage, Issue, Confirm, Hold, Send, NoRequest
  <2>. QED
    BY <2>1
<1>4. CASE Land \/ Crash \/ Others
  BY <1>4 DEF Land, Crash, Others
<1>5. CASE CrashHandler
  BY <1>5 DEF CrashHandler, CrashMark, CrashWrite, CrashReplace, CrashAbort, CrashClear,
              WorkerAt
<1>6. CASE FirstStart
  BY <1>6 DEF FirstStart, MainAt
<1>7. CASE Launch \/ MarkWrite \/ MarkReplace \/ NextLine
  BY <1>7 DEF Launch, MarkWrite, MarkReplace, NextLine, MainAt
<1>8. CASE EmergencyStop \/ Clear
  BY <1>8 DEF EmergencyStop, Clear, MainAt, Handled
<1>9. CASE SwitchEndpoint \/ ReleaseOld \/ ConfirmStop
  BY <1>9 DEF SwitchEndpoint, ReleaseOld, ConfirmStop, MainAt
<1>10. CASE Join \/ EndWrite \/ CloseLog \/ CloseDevices \/ ReleaseLock
  BY <1>10 DEF Join, EndWrite, CloseLog, CloseDevices, ReleaseLock, MainAt
<1>11. CASE LeaveLoop \/ Leave
  BY <1>11 DEF LeaveLoop, Leave, LeaveFrom, MainAt
<1>12. CASE RenameFails \/ Interrupted
  BY <1>12 DEF RenameFails, Interrupted, Die
<1>13. CASE Reset \/ Stop \/ ApplyUpdate \/ AcquireNew
  BY <1>13 DEF Reset, Stop, ApplyUpdate, AcquireNew, MainAt
<1>. QED
  BY <1>1, <1>2, <1>3, <1>4, <1>5, <1>6, <1>7, <1>8, <1>9, <1>10, <1>11, <1>12, <1>13
     DEF Next, PollingThread, MainGoesOn, Operator

\* What Truthful speaks of besides the manifest itself; a step that leaves all of it alone
\* and writes nothing keeps it.
LEMMA TruthfulKept ==
  ASSUME Truthful, UNCHANGED <<runLog, crashed>>, (button' = "never") = (button = "never"),
         EndSoFar' = EndSoFar, MainWrites' = MainWrites, MainWrote' => MainWrote,
         WorkerWrites' = WorkerWrites, worker' = "marked" => worker = "marked"
  PROVE  Truthful'
BY DEF Truthful, runLog

\* The step to a record in memory, to the temporary file, and to its place.
LEMMA TruthfulStep ==
  ASSUME RunLogTypeOK, ClosedInv, front = "gui", OneWriter, Truthful, [Next]_vars
  PROVE  Truthful'
<1>. USE DEF tick, exit, place, controller
<1>1. CASE UNCHANGED vars
  BY <1>1 DEF Truthful, EndSoFar, Joined, DefaultEnd, MainWrites, MainWrote, WorkerWrites,
              vars, runLog
<1>2. CASE BeginTick \/ EndLoop \/ Evaluate \/ Land
  <2>1. UNCHANGED <<runLog, main, crashed, button>>
    BY <1>2 DEF BeginTick, EndLoop, Evaluate, Land
  <2>2. worker \notin {"mark", "marking", "marked"} /\ worker' \notin {"mark", "marking", "marked"}
    BY <1>2 DEF BeginTick, EndLoop, Evaluate, Land
  <2>. QED
    BY <2>1, <2>2, TruthfulKept
       DEF EndSoFar, Joined, DefaultEnd, MainWrites, MainWrote, WorkerWrites, runLog
<1>3. CASE Decide
  <2>1. worker = "locked" /\ worker' = "send" /\ UNCHANGED <<runLog, main, crashed, button>>
    BY <1>3 DEF Decide, Reconcile, Stage, Issue, Confirm, Hold, Send, NoRequest
  <2>. QED
    BY <2>1, TruthfulKept
       DEF EndSoFar, Joined, DefaultEnd, MainWrites, MainWrote, WorkerWrites, runLog
<1>4. CASE Crash
  <2>1. UNCHANGED <<runLog, main, button>> /\ crashed' = TRUE
    BY <1>4 DEF Crash
  <2>2. ~Joined
    BY <1>4 DEF ClosedInv, Crash
  <2>3. worker \notin {"mark", "marking", "marked"} /\ worker' \notin {"marking", "marked"}
    BY <1>4 DEF Crash
  <2>4. worker' = "mark" <=> ~crashed
    BY <1>4 DEF Crash
  <2>. QED
    BY <2>1, <2>2, <2>3, <2>4
       DEF Truthful, EndSoFar, Joined, DefaultEnd, MainWrites, MainWrote, WorkerWrites, runLog
<1>5. CASE Others
  BY <1>5 DEF Truthful, EndSoFar, Joined, DefaultEnd, MainWrites, MainWrote, WorkerWrites,
              Others, runLog
<1>6. CASE CrashMark
  <2>1. UNCHANGED <<main, crashed, button>> /\ worker = "mark" /\ worker' = "marking"
    BY <1>6 DEF CrashMark, WorkerAt
  <2>2. crashed /\ ~Joined /\ ~MainWrites
    BY <2>1 DEF ClosedInv, OneWriter, MainWrites, Joined
  <2>3. memory.end = None
    BY <2>1, <2>2 DEF Truthful, EndSoFar
  <2>4. Dump("worker", [memory EXCEPT !.end = "crashed"])
    BY <1>6, <2>3 DEF CrashMark, MarkEnd
  <2>5. memory'.started = memory.started /\ memory'.end = "crashed"
    BY <2>4 DEF Dump, RunLogTypeOK, Manifest
  <2>6. draft'["worker"] = memory' /\ draft'["main"] = draft["main"]
    BY <2>4 DEF Dump, RunLogTypeOK, Threads
  <2>7. ~MainWrites' /\ ~MainWrote' /\ WorkerWrites' /\ worker' # "marked"
    BY <2>1, <2>2 DEF MainWrites, MainWrote, WorkerWrites
  <2>8. EndSoFar' = "crashed"
    BY <2>1, <2>2 DEF EndSoFar
  <2>. QED
    BY <2>1, <2>2, <2>5, <2>6, <2>7, <2>8 DEF Truthful
<1>7. CASE CrashWrite
  <2>1. UNCHANGED <<main, crashed, button>> /\ worker = "marking" /\ worker' = "marked"
    BY <1>7 DEF CrashWrite, WorkerAt
  <2>2. ~MainWrites /\ draft["worker"] = memory /\ memory # None
    BY <2>1, RunLogAssumption
       DEF ClosedInv, OneWriter, MainWrites, Joined, Truthful, WorkerWrites, RunLogTypeOK,
           RunLogAssumption
  <2>3. WriteTmp("worker")
    BY <1>7, <2>2 DEF CrashWrite
  <2>4. tmp' = memory /\ UNCHANGED <<memory, draft, disk>>
    BY <2>2, <2>3 DEF WriteTmp
  <2>. QED
    BY <2>1, <2>2, <2>4
       DEF Truthful, EndSoFar, Joined, DefaultEnd, MainWrites, MainWrote, WorkerWrites
<1>8. CASE CrashReplace
  <2>1. UNCHANGED <<main, crashed, button>> /\ worker = "marked" /\ worker' = "abort"
    BY <1>8 DEF CrashReplace, WorkerAt
  <2>2. ~MainWrites /\ draft["worker"] = memory /\ memory # None /\ tmp = memory
    BY <2>1, RunLogAssumption
       DEF ClosedInv, OneWriter, MainWrites, Joined, Truthful, WorkerWrites, RunLogTypeOK,
           RunLogAssumption
  <2>3. Replace("worker")
    BY <1>8, <2>2 DEF CrashReplace
  <2>4. disk' = memory /\ UNCHANGED memory
    BY <2>2, <2>3 DEF Replace
  <2>5. draft'["worker"] = None /\ draft'["main"] = draft["main"]
    BY <2>3 DEF Replace, RunLogTypeOK, Threads
  <2>. QED
    BY <2>1, <2>2, <2>4, <2>5
       DEF Truthful, EndSoFar, Joined, DefaultEnd, MainWrites, MainWrote, WorkerWrites
<1>9. CASE CrashAbort \/ CrashClear
  <2>1. UNCHANGED <<runLog, main, crashed, button>>
    BY <1>9 DEF CrashAbort, CrashClear, WorkerAt
  <2>2. worker \notin {"mark", "marking", "marked"} /\ worker' \notin {"mark", "marking", "marked"}
    BY <1>9 DEF CrashAbort, CrashClear, WorkerAt
  <2>. QED
    BY <2>1, <2>2, TruthfulKept
       DEF EndSoFar, Joined, DefaultEnd, MainWrites, MainWrote, WorkerWrites, runLog
<1>10. CASE Launch \/ NextLine
  <2>1. main # "launch" /\ main # "checking"
    BY DEF OneWriter
  <2>. QED
    BY <1>10, <2>1 DEF Launch, NextLine, MainAt
<1>11. CASE FirstStart
  <2>1. UNCHANGED <<worker, crashed>> /\ button = "never" /\ button' = "running"
    BY <1>11 DEF FirstStart, MainAt
  <2>2. main = "idle" /\ main' = "marking" /\ worker = "off"
    BY <1>11, <2>1 DEF FirstStart, MainAt, OneWriter
  <2>3. Dump("main", [memory EXCEPT !.started = TRUE])
    BY <1>11 DEF FirstStart, MarkStarted
  <2>4. memory'.started = TRUE /\ memory'.end = memory.end
    BY <2>3 DEF Dump, RunLogTypeOK, Manifest
  <2>5. draft'["main"] = memory' /\ draft'["worker"] = draft["worker"]
    BY <2>3 DEF Dump, RunLogTypeOK, Threads
  <2>. QED
    BY <2>1, <2>2, <2>4, <2>5
       DEF Truthful, EndSoFar, Joined, MainWrites, MainWrote, WorkerWrites
<1>12. CASE MarkWrite
  <2>1. UNCHANGED <<worker, crashed, button>> /\ main = "marking" /\ main' = "marked"
    BY <1>12 DEF MarkWrite, MainAt
  <2>2. worker = "off" /\ draft["main"] = memory
    BY <2>1 DEF OneWriter, Truthful, MainWrites
  <2>3. tmp' = memory /\ UNCHANGED <<memory, draft, disk>>
    BY <1>12, <2>2 DEF MarkWrite, WriteTmp
  <2>. QED
    BY <2>1, <2>2, <2>3
       DEF Truthful, EndSoFar, Joined, DefaultEnd, MainWrites, MainWrote, WorkerWrites
<1>13. CASE MarkReplace
  <2>1. UNCHANGED <<crashed, button>> /\ main = "marked" /\ main' = "idle"
    BY <1>13 DEF MarkReplace, MainAt
  <2>2. worker = "off" /\ worker' = "rest" /\ tmp = memory
    BY <1>13, <2>1 DEF MarkReplace, OneWriter, Truthful, MainWrote
  <2>3. disk' = memory /\ UNCHANGED memory
    BY <1>13, <2>2 DEF MarkReplace, Replace
  <2>4. draft'["main"] = None /\ draft'["worker"] = draft["worker"]
    BY <1>13 DEF MarkReplace, Replace, RunLogTypeOK, Threads
  <2>. QED
    BY <2>1, <2>2, <2>3, <2>4
       DEF Truthful, EndSoFar, Joined, DefaultEnd, MainWrites, MainWrote, WorkerWrites
<1>14. CASE EmergencyStop \/ Clear \/ SwitchEndpoint \/ ReleaseOld \/ Reset \/ Stop \/
            ApplyUpdate \/ AcquireNew \/ LeaveLoop \/ Leave
  <2>1. UNCHANGED <<runLog, worker, crashed>>
    BY <1>14 DEF EmergencyStop, Clear, SwitchEndpoint, ReleaseOld, Reset, Stop, ApplyUpdate,
                 AcquireNew, LeaveLoop, Leave, LeaveFrom, MainAt
  <2>2. (button' = "never") = (button = "never")
    BY <1>14 DEF EmergencyStop, Clear, SwitchEndpoint, ReleaseOld, Reset, Stop, ApplyUpdate,
                 AcquireNew, LeaveLoop, Leave, LeaveFrom, MainAt
  <2>3. main \notin {"marking", "marked"} /\ main' \notin {"marking", "marked"}
    BY <1>14 DEF EmergencyStop, Clear, SwitchEndpoint, ReleaseOld, Reset, Stop, ApplyUpdate,
                 AcquireNew, LeaveLoop, Leave, LeaveFrom, MainAt, Handled
  <2>4. ~Joined /\ ~Joined'
    BY <1>14 DEF EmergencyStop, Clear, SwitchEndpoint, ReleaseOld, Reset, Stop, ApplyUpdate,
                 AcquireNew, LeaveLoop, Leave, LeaveFrom, MainAt, Handled, Joined
  <2>. QED
    BY <2>1, <2>2, <2>3, <2>4, TruthfulKept
       DEF EndSoFar, Joined, MainWrites, MainWrote, WorkerWrites
<1>15. CASE ConfirmStop
  BY <1>15, TruthfulKept
     DEF ConfirmStop, EndSoFar, Joined, MainWrites, MainWrote, WorkerWrites
<1>16. CASE Join
  <2>1. UNCHANGED <<worker, crashed, button>> /\ main = "joining" /\ main' = "ending"
    BY <1>16 DEF Join, MainAt
  <2>2. worker \in {"off", "dead"} /\ ~Joined /\ ~MainWrites /\ ~WorkerWrites
    BY <1>16, <2>1 DEF Join, Joined, MainWrites, WorkerWrites
  <2>3. CASE crashed
    <3>1. memory.end = "crashed"
      BY <2>2, <2>3 DEF Truthful, EndSoFar
    <3>2. memory.end # None
      BY <3>1, RunLogAssumption DEF RunLogAssumption, EndReasons
    <3>3. UNCHANGED runLog
      BY <1>16, <3>2 DEF Join, MarkEnd
    <3>. QED
      BY <2>1, <2>2, <2>3, <3>3, TruthfulKept
         DEF EndSoFar, MainWrites, MainWrote, WorkerWrites
  <2>4. CASE ~crashed
    <3>1. memory.end = None
      BY <2>2, <2>4 DEF Truthful, EndSoFar
    <3>2. Dump("main", [memory EXCEPT !.end = DefaultEnd])
      BY <1>16, <3>1 DEF Join, MarkEnd
    <3>3. memory'.started = memory.started /\ memory'.end = DefaultEnd
      BY <3>2 DEF Dump, RunLogTypeOK, Manifest
    <3>4. draft'["main"] = memory' /\ draft'["worker"] = draft["worker"]
      BY <3>2 DEF Dump, RunLogTypeOK, Threads
    <3>5. EndSoFar' = DefaultEnd
      BY <2>1, <2>4, <3>3 DEF EndSoFar, Joined, DefaultEnd
    <3>6. MainWrites' /\ ~WorkerWrites' /\ ~MainWrote' /\ worker' # "marked"
      BY <2>1, <2>2, <2>4 DEF MainWrites, MainWrote, WorkerWrites
    <3>. QED
      BY <2>1, <2>2, <3>3, <3>4, <3>5, <3>6 DEF Truthful
  <2>. QED
    BY <2>3, <2>4 DEF OneWriter
<1>17. CASE EndWrite
  <2>1. UNCHANGED <<worker, crashed, button>> /\ main = "ending" /\ main' = "ended"
    BY <1>17 DEF EndWrite, MainAt
  <2>2. worker \in {"off", "dead"}
    BY <2>1 DEF ClosedInv, Joined
  <2>3. draft["main"] = IF crashed THEN None ELSE memory
    BY <2>1 DEF Truthful, MainWrites
  <2>4. memory # None
    BY RunLogAssumption DEF RunLogAssumption, RunLogTypeOK
  <2>5. UNCHANGED <<memory, draft, disk>> /\ (~crashed => tmp' = memory)
    BY <1>17, <2>3, <2>4 DEF EndWrite, WriteTmp, runLog
  <2>. QED
    BY <2>1, <2>2, <2>5
       DEF Truthful, EndSoFar, Joined, DefaultEnd, MainWrites, MainWrote, WorkerWrites
<1>18. CASE CloseLog
  <2>1. UNCHANGED <<worker, crashed, button>> /\ main = "ended" /\ main' = "closing"
    BY <1>18 DEF CloseLog, MainAt
  <2>2. worker \in {"off", "dead"}
    BY <2>1 DEF ClosedInv, Joined
  <2>3. draft["main"] = (IF crashed THEN None ELSE memory) /\ (~crashed => tmp = memory)
    BY <2>1 DEF Truthful, MainWrites, MainWrote
  <2>4. memory # None
    BY RunLogAssumption DEF RunLogAssumption, RunLogTypeOK
  <2>5. CASE crashed
    BY <1>18, <2>1, <2>2, <2>3, <2>5
       DEF CloseLog, Truthful, EndSoFar, Joined, DefaultEnd, MainWrites, MainWrote,
           WorkerWrites, runLog
  <2>6. CASE ~crashed
    <3>1. Replace("main")
      BY <1>18, <2>3, <2>4, <2>6 DEF CloseLog
    <3>2. disk' = memory /\ UNCHANGED memory
      BY <2>3, <2>4, <2>6, <3>1 DEF Replace
    <3>3. draft'["main"] = None /\ draft'["worker"] = draft["worker"]
      BY <3>1 DEF Replace, RunLogTypeOK, Threads
    <3>. QED
      BY <2>1, <2>2, <2>6, <3>2, <3>3
         DEF Truthful, EndSoFar, Joined, DefaultEnd, MainWrites, MainWrote, WorkerWrites
  <2>. QED
    BY <2>5, <2>6
<1>19. CASE CloseDevices \/ ReleaseLock
  <2>1. UNCHANGED <<runLog, worker, crashed, button>>
    BY <1>19 DEF CloseDevices, ReleaseLock, MainAt
  <2>2. main \in {"closing", "releasing"} /\ main' \in {"releasing", "exited"}
    BY <1>19 DEF CloseDevices, ReleaseLock, MainAt
  <2>. QED
    BY <2>1, <2>2, TruthfulKept
       DEF EndSoFar, Joined, DefaultEnd, MainWrites, MainWrote, WorkerWrites, runLog
<1>20. CASE RenameFails \/ Interrupted
  BY <1>20 DEF RenameFails, Interrupted, Die
<1>. QED
  BY <1>1, <1>2, <1>3, <1>4, <1>5, <1>6, <1>7, <1>8, <1>9, <1>10, <1>11, <1>12, <1>13,
     <1>14, <1>15, <1>16, <1>17, <1>18, <1>19, <1>20
     DEF Next, PollingThread, MainGoesOn, Operator, CrashHandler

\* Nothing is started and the first manifest says so.
LEMMA GuiLogInit == Init => GuiLogInv
<1>. SUFFICES ASSUME Init PROVE GuiLogInv
  OBVIOUS
<1>1. RunLogTypeOK
  BY SessionTypeInit DEF SessionTypeOK
<1>2. ClosedInv
  BY DEF Init, ClosedInv, Joined
<1>3. front = "gui" => OneWriter
  BY DEF Init, OneWriter
<1>4. front = "gui" => Truthful
  BY DEF Init, RunLogInit, Truthful, EndSoFar, Joined, MainWrites, MainWrote, WorkerWrites,
         Threads
<1>. QED
  BY <1>1, <1>2, <1>3, <1>4 DEF GuiLogInv

\* The front end is chosen once.
LEMMA FrontKept == [Next]_vars => front' = front
<1>1. CASE UNCHANGED vars
  BY <1>1 DEF vars
<1>2. CASE PollingThread \/ Crash \/ Others
  BY <1>2 DEF PollingThread, BeginTick, EndLoop, Evaluate, Decide, Land, CrashHandler,
              CrashMark, CrashWrite, CrashReplace, CrashAbort, CrashClear, WorkerAt, Crash,
              Others
<1>3. CASE MainGoesOn
  BY <1>3 DEF MainGoesOn, Launch, MarkWrite, MarkReplace, NextLine, EmergencyStop, Clear,
              SwitchEndpoint, ReleaseOld, ConfirmStop, Join, EndWrite, CloseLog,
              CloseDevices, ReleaseLock, LeaveLoop, LeaveFrom, RenameFails, Die, MainAt
<1>4. CASE Operator
  BY <1>4 DEF Operator, FirstStart, Reset, Stop, ApplyUpdate, AcquireNew, Leave, LeaveFrom,
              Interrupted, Die, MainAt
<1>. QED
  BY <1>1, <1>2, <1>3, <1>4 DEF Next

LEMMA GuiLogStep == GuiLogInv /\ [Next]_vars => GuiLogInv'
<1>. SUFFICES ASSUME GuiLogInv, [Next]_vars PROVE GuiLogInv'
  OBVIOUS
<1>1. RunLogTypeOK' /\ ClosedInv'
  BY LogTypeStep, ClosedStep DEF GuiLogInv
<1>2. front' = "gui" => OneWriter' /\ Truthful'
  BY FrontKept, OneWriterStep, TruthfulStep DEF GuiLogInv
<1>. QED
  BY <1>1, <1>2 DEF GuiLogInv

\* The manifest of a run in the GUI ends with the truth (crashed, completed or never
\* started), however Start, a crash of step() and the close of the window interleave,
\* although the two threads write one temporary file without a lock.
THEOREM EndReasonIsTrue == Spec => []EndReasonTrue
<1>1. GuiLogInv => EndReasonTrue
  <2>. SUFFICES ASSUME GuiLogInv, front = "gui", main = "exited"
                PROVE  /\ disk.started = (button # "never")
                       /\ disk.end = IF crashed THEN "crashed"
                                     ELSE IF button = "never" THEN "not_started"
                                                              ELSE "completed"
    BY DEF EndReasonTrue
  <2>1. worker \in {"off", "dead"} /\ Joined
    BY DEF GuiLogInv, ClosedInv, Joined
  <2>2. disk = memory
    BY <2>1 DEF GuiLogInv, Truthful, MainWrites, WorkerWrites
  <2>. QED
    BY <2>1, <2>2 DEF GuiLogInv, Truthful, EndSoFar, DefaultEnd
<1>. QED
  BY <1>1, GuiLogInit, GuiLogStep, PTL DEF Spec

-----------------------------------------------------------------------------
(***************************************************************************)
(* One process drives only the endpoint whose lock it holds,   *)
(* that Control is enabled only where the setpoint was staged and that a   *)
(* confirmed STOP lasts, whatever the order of Start, Stop, endpoint       *)
(* changes, ticks, crashes and the end of the process, for any endpoints   *)
(* and any number of reads.  They assume Updates = FALSE: Save & Apply     *)
(* after Stop Control clears the latch the argument rests on.              *)
(*                                                                         *)
(* The argument.  Whenever the client's endpoint changes, or the STOP of   *)
(* the end is confirmed, the process is Silent: the tick in progress, if   *)
(* there is one, can send nothing but a STOP.  abort() makes it so: its    *)
(* latch turns the verdict of every later tick to "abort", and its wait    *)
(* for the controller's lock lets an earlier tick end first.               *)
(***************************************************************************)


Driving == req # None /\ req.kind # "stop"
Silent == (Locked => verdict # "ok") /\ ~Driving

\* Where the main thread may change the endpoint, and what follows stop_and_confirm().
Changing ==
  \/ main \in {"switching", "switched"}
  \/ main = "idle" /\ front = "gui" /\ button # "running"
Ending == main \in {"confirm", "retry", "joining", "ending", "ended", "closing", "releasing"}

\* The order of the main thread's places, and of the polling thread's start and end.
Order ==
  /\ front = "gui" /\ button = "never" => worker = "off"
  /\ main \in {"marking", "marked", "resetting"} => button = "running"
  /\ main = "checking" => front = "cli"

\* The process holds the lock of the endpoint its client points at until it exits.
Held == main # "exited" <=> owner[at] = "us"

\* abort() has set the latch and nothing has cleared it.
Latched == Ending \/ main \in {"aborting", "clearing", "quitting", "settling"} => latch

\* What the flags say while a tick decides: without an "ok" verdict it can only stop, and
\* a tick that finds the output wanted has an approach staged.
Stopping ==
  /\ Locked /\ verdict # "ok" => stop
  /\ Locked /\ ~stop => staged # None
  /\ worker = "clear" => stop
  /\ ~stop /\ staged = None => latch

\* What is staged and what is on its way belong to the client's endpoint.
Ours ==
  /\ staged # None => staged = at
  /\ Driving => req.at = at
  /\ Driving /\ req.kind = "enable" => staged # None

Quiet ==
  /\ Ending => Silent
  /\ Changing => Silent /\ staged = None /\ (latch \/ worker = "off")

\* After a read-back of Measure the output stays off while the endpoint is ours.
Confirmed ==
  /\ confirmed => Ending \/ main = "exited"
  /\ confirmed /\ owner[at] = "us" => ~mode[at]

SafeInv ==
  /\ SessionTypeOK /\ ClosedInv
  /\ Order /\ Held /\ Latched /\ Stopping /\ Ours /\ Quiet /\ Confirmed

-----------------------------------------------------------------------------

\* The GUI starts its polling thread only after Start Control, for good.
LEMMA OrderStep == SafeInv /\ [Next]_vars => Order'
<1>. SUFFICES ASSUME SafeInv, [Next]_vars PROVE Order'
  OBVIOUS
<1>. USE DEF SafeInv, Order, tick, exit, place, controller
<1>1. CASE UNCHANGED vars
  BY <1>1 DEF vars, Locked
<1>2. CASE Launch \/ MarkReplace
  BY <1>2 DEF Launch, MainAt, MarkReplace
<1>3. CASE Reset \/ Stop \/ FirstStart
  BY <1>3 DEF Reset, MainAt, Stop, FirstStart
<1>4. CASE EmergencyStop \/ Clear
  BY <1>4 DEF EmergencyStop, Handled, MainAt, Clear
<1>5. CASE BeginTick \/ EndLoop \/ Evaluate \/ Decide \/ Land \/ Crash \/ Others \/
           CrashHandler
  BY <1>5 DEF BeginTick, EndLoop, Evaluate, Decide, Reconcile, Stage, Issue, Confirm, Hold,
              Send, NoRequest, Land, Crash, Others, CrashHandler, CrashMark, CrashWrite,
              CrashReplace, CrashAbort, CrashClear, WorkerAt
<1>6. CASE MarkWrite \/ NextLine \/ SwitchEndpoint \/ ReleaseOld \/ ConfirmStop \/ Join \/
           EndWrite
  BY <1>6 DEF MarkWrite, MainAt, NextLine, SwitchEndpoint, ReleaseOld, ConfirmStop, Join,
              EndWrite
<1>7. CASE CloseLog \/ CloseDevices \/ ReleaseLock \/ LeaveLoop \/ Leave \/ RenameFails \/
           Interrupted
  BY <1>7 DEF CloseLog, MainAt, CloseDevices, ReleaseLock, LeaveLoop, LeaveFrom, Leave,
              RenameFails, Die, Interrupted
<1>8. CASE ApplyUpdate \/ AcquireNew
  BY <1>8 DEF ApplyUpdate, MainAt, AcquireNew
<1>. QED
  BY <1>1, <1>2, <1>3, <1>4, <1>5, <1>6, <1>7, <1>8
     DEF Next, PollingThread, MainGoesOn, Operator

\* Only ReleaseLock and the end of the process give up the endpoint pointed at: the new lock
\* is taken before the client is repointed, and the old one released after.
LEMMA HeldStep == SafeInv /\ [Next]_vars => Held'
<1>. SUFFICES ASSUME SafeInv, [Next]_vars PROVE Held'
  OBVIOUS
<1>. USE DEF SafeInv, Held, tick, exit, place, controller, SessionTypeOK
<1>1. CASE UNCHANGED vars
  BY <1>1 DEF vars, Locked
<1>2. CASE AcquireNew
  BY <1>2 DEF AcquireNew, MainAt
<1>3. CASE SwitchEndpoint
  BY <1>3 DEF SwitchEndpoint, MainAt
<1>4. CASE ReleaseOld
  BY <1>4 DEF ReleaseOld, MainAt
<1>5. CASE ReleaseLock
  BY <1>5 DEF ReleaseLock, MainAt
<1>6. CASE Others
  BY <1>6 DEF Others
<1>7. CASE RenameFails \/ Interrupted
  BY <1>7 DEF RenameFails, Die, Interrupted
<1>8. CASE BeginTick \/ EndLoop \/ Evaluate \/ Decide \/ Land \/ Crash \/ CrashHandler
  BY <1>8 DEF BeginTick, EndLoop, Evaluate, Decide, Reconcile, Stage, Issue, Confirm, Hold,
              Send, NoRequest, Land, Crash, CrashHandler, CrashMark, CrashWrite,
              CrashReplace, CrashAbort, CrashClear, WorkerAt
<1>9. CASE Launch \/ MarkWrite \/ NextLine \/ MarkReplace \/ EmergencyStop \/ Clear \/
           ConfirmStop
  BY <1>9 DEF Launch, MainAt, MarkWrite, NextLine, MarkReplace, EmergencyStop, Handled,
              Clear, ConfirmStop
<1>10. CASE Join \/ EndWrite \/ CloseLog \/ CloseDevices \/ LeaveLoop \/ Leave \/ FirstStart
  BY <1>10 DEF Join, MainAt, EndWrite, CloseLog, CloseDevices, LeaveLoop, LeaveFrom, Leave,
               FirstStart
<1>11. CASE Reset \/ Stop \/ ApplyUpdate
  BY <1>11 DEF Reset, MainAt, Stop, ApplyUpdate
<1>. QED
  BY <1>1, <1>2, <1>3, <1>4, <1>5, <1>6, <1>7, <1>8, <1>9, <1>10, <1>11
     DEF Next, PollingThread, MainGoesOn, Operator

\* The latch is cleared only by Reset and ApplyUpdate, which the main thread runs at rest.
LEMMA LatchedStep == SafeInv /\ [Next]_vars => Latched'
<1>. SUFFICES ASSUME SafeInv, [Next]_vars PROVE Latched'
  OBVIOUS
<1>. USE DEF SafeInv, Latched, tick, exit, place, controller, Ending
<1>1. CASE UNCHANGED vars
  BY <1>1 DEF vars, Locked
<1>2. CASE Stop \/ LeaveLoop \/ Leave
  BY <1>2 DEF Stop, MainAt, LeaveLoop, LeaveFrom, Leave
<1>3. CASE ApplyUpdate \/ Reset
  BY <1>3 DEF ApplyUpdate, MainAt, Reset
<1>4. CASE CrashHandler
  BY <1>4 DEF CrashHandler, CrashMark, CrashWrite, CrashReplace, CrashAbort, CrashClear,
              WorkerAt
<1>5. CASE BeginTick \/ EndLoop \/ Evaluate \/ Decide \/ Land \/ Crash \/ Others
  BY <1>5 DEF BeginTick, EndLoop, Evaluate, Decide, Reconcile, Stage, Issue, Confirm, Hold,
              Send, NoRequest, Land, Crash, Others
<1>6. CASE Launch \/ MarkWrite \/ NextLine \/ MarkReplace \/ EmergencyStop \/ Clear \/
           SwitchEndpoint
  BY <1>6 DEF Launch, MainAt, MarkWrite, NextLine, MarkReplace, EmergencyStop, Handled,
              Clear, SwitchEndpoint
<1>7. CASE ReleaseOld \/ ConfirmStop \/ Join \/ EndWrite \/ CloseLog \/ CloseDevices \/
           ReleaseLock
  BY <1>7 DEF ReleaseOld, MainAt, ConfirmStop, Join, EndWrite, CloseLog, CloseDevices,
              ReleaseLock
<1>8. CASE RenameFails \/ Interrupted \/ FirstStart \/ AcquireNew
  BY <1>8 DEF RenameFails, Die, Interrupted, FirstStart, MainAt, AcquireNew
<1>. QED
  BY <1>1, <1>2, <1>3, <1>4, <1>5, <1>6, <1>7, <1>8
     DEF Next, PollingThread, MainGoesOn, Operator

\* Only a tick with an "ok" verdict takes membrane_stop_intended back, and only for a staged
\* setpoint; what drops the staged setpoint sets the flag or runs under the latch.
LEMMA StoppingStep == SafeInv /\ [Next]_vars => Stopping'
<1>. SUFFICES ASSUME SafeInv, [Next]_vars PROVE Stopping'
  OBVIOUS
<1>. USE DEF SafeInv, Stopping, tick, exit, place, controller, Locked, Latched
<1>1. CASE UNCHANGED vars
  BY <1>1 DEF vars, Locked
<1>2. CASE Evaluate
  BY <1>2 DEF Evaluate
<1>3. CASE Decide
  BY <1>3 DEF Decide, Reconcile, Stage, Issue, Confirm, Hold, Send, NoRequest
<1>4. CASE CrashHandler
  BY <1>4 DEF CrashHandler, CrashMark, CrashWrite, CrashReplace, CrashAbort, CrashClear,
              WorkerAt
<1>5. CASE Clear
  BY <1>5 DEF Clear, Handled, MainAt
<1>6. CASE Reset \/ ApplyUpdate
  BY <1>6 DEF Reset, MainAt, ApplyUpdate
<1>7. CASE Stop
  BY <1>7 DEF Stop, MainAt
<1>8. CASE BeginTick \/ EndLoop \/ Land \/ Crash \/ Others
  BY <1>8 DEF BeginTick, EndLoop, Land, Crash, Others
<1>9. CASE Launch \/ MarkWrite \/ NextLine \/ MarkReplace \/ EmergencyStop \/ SwitchEndpoint
           \/ ReleaseOld
  BY <1>9 DEF Launch, MainAt, MarkWrite, NextLine, MarkReplace, EmergencyStop, Handled,
              SwitchEndpoint, ReleaseOld
<1>10. CASE ConfirmStop \/ Join \/ EndWrite \/ CloseLog \/ CloseDevices \/ ReleaseLock \/
            LeaveLoop
  BY <1>10 DEF ConfirmStop, Join, MainAt, EndWrite, CloseLog, CloseDevices, ReleaseLock,
               LeaveLoop, LeaveFrom
<1>11. CASE Leave \/ RenameFails \/ Interrupted \/ FirstStart \/ AcquireNew
  BY <1>11 DEF Leave, LeaveFrom, MainAt, RenameFails, Die, Interrupted, FirstStart,
               AcquireNew
<1>. QED
  BY <1>1, <1>2, <1>3, <1>4, <1>5, <1>6, <1>7, <1>8, <1>9, <1>10, <1>11
     DEF Next, PollingThread, MainGoesOn, Operator

\* The endpoint changes only while nothing is staged and nothing but a STOP is on its way.
LEMMA OursStep == SafeInv /\ [Next]_vars => Ours'
<1>. SUFFICES ASSUME SafeInv, [Next]_vars PROVE Ours'
  OBVIOUS
<1>. USE DEF SafeInv, Ours, tick, exit, place, controller, Driving, Stopping, Locked,
         ClosedInv, Quiet, Changing, Silent, Requests
<1>1. CASE UNCHANGED vars
  BY <1>1 DEF vars, Locked
<1>2. CASE Evaluate
  BY <1>2 DEF Evaluate
<1>3. CASE Decide
  BY <1>3 DEF Decide, Reconcile, Stage, Issue, Confirm, Hold, Send, NoRequest
<1>4. CASE Land \/ Crash
  BY <1>4 DEF Land, Crash
<1>5. CASE CrashHandler
  BY <1>5 DEF CrashHandler, CrashMark, CrashWrite, CrashReplace, CrashAbort, CrashClear,
              WorkerAt
<1>6. CASE Clear
  BY <1>6 DEF Clear, Handled, MainAt
<1>7. CASE SwitchEndpoint
  BY <1>7 DEF SwitchEndpoint, MainAt
<1>8. CASE Reset \/ ApplyUpdate
  BY <1>8 DEF Reset, MainAt, ApplyUpdate
<1>9. CASE BeginTick \/ EndLoop \/ Others
  BY <1>9 DEF BeginTick, EndLoop, Others
<1>10. CASE Launch \/ MarkWrite \/ NextLine \/ MarkReplace \/ EmergencyStop \/ ReleaseOld \/
            ConfirmStop
  BY <1>10 DEF Launch, MainAt, MarkWrite, NextLine, MarkReplace, EmergencyStop, Handled,
               ReleaseOld, ConfirmStop
<1>11. CASE Join \/ EndWrite \/ CloseLog \/ CloseDevices \/ ReleaseLock \/ LeaveLoop \/
            Leave
  BY <1>11 DEF Join, MainAt, EndWrite, CloseLog, CloseDevices, ReleaseLock, LeaveLoop,
               LeaveFrom, Leave
<1>12. CASE RenameFails \/ Interrupted \/ FirstStart \/ Stop \/ AcquireNew
  BY <1>12 DEF RenameFails, Die, Interrupted, FirstStart, MainAt, Stop, AcquireNew
<1>. QED
  BY <1>1, <1>2, <1>3, <1>4, <1>5, <1>6, <1>7, <1>8, <1>9, <1>10, <1>11, <1>12
     DEF Next, PollingThread, MainGoesOn, Operator

\* Once abort() has had the lock, every tick finds the latch and can only stop; Reset,
\* which clears it, ends the time in which the endpoint may change.
LEMMA QuietStep == ASSUME Updates = FALSE PROVE SafeInv /\ [Next]_vars => Quiet'
<1>. SUFFICES ASSUME Updates = FALSE, SafeInv, [Next]_vars PROVE Quiet'
  OBVIOUS
<1>. USE DEF SafeInv, Quiet, tick, exit, place, controller, Ending, Changing, Silent,
         Driving, Stopping, Locked, ClosedInv, Order, Latched
<1>1. CASE UNCHANGED vars
  BY <1>1 DEF vars, Locked
<1>2. CASE BeginTick
  BY <1>2 DEF BeginTick
<1>3. CASE Evaluate
  BY <1>3 DEF Evaluate
<1>4. CASE Decide
  BY <1>4 DEF Decide, Reconcile, Stage, Issue, Confirm, Hold, Send, NoRequest
<1>5. CASE Land \/ Crash
  BY <1>5 DEF Land, Crash
<1>6. CASE CrashHandler
  BY <1>6 DEF CrashHandler, CrashMark, CrashWrite, CrashReplace, CrashAbort, CrashClear,
              WorkerAt
<1>7. CASE Launch
  BY <1>7 DEF Launch, MainAt
<1>8. CASE MarkReplace
  BY <1>8 DEF MarkReplace, MainAt
<1>9. CASE MarkWrite \/ NextLine
  BY <1>9 DEF MarkWrite, MainAt, NextLine
<1>10. CASE EmergencyStop
  BY <1>10 DEF EmergencyStop, Handled, MainAt
<1>11. CASE Clear
  BY <1>11 DEF Clear, Handled, MainAt
<1>12. CASE SwitchEndpoint \/ ReleaseOld
  BY <1>12 DEF SwitchEndpoint, MainAt, ReleaseOld
<1>13. CASE ConfirmStop
  BY <1>13 DEF ConfirmStop
<1>14. CASE Reset
  BY <1>14 DEF Reset, MainAt
<1>15. CASE ApplyUpdate
  <2>1. button = "never" /\ worker = "off"
    BY <1>15 DEF ApplyUpdate, SessionTypeOK
  <2>. QED
    BY <1>15, <2>1 DEF ApplyUpdate, MainAt
<1>16. CASE AcquireNew
  BY <1>16 DEF AcquireNew, MainAt
<1>17. CASE EndLoop \/ Others
  BY <1>17 DEF EndLoop, Others
<1>18. CASE Join \/ EndWrite \/ CloseLog \/ CloseDevices \/ ReleaseLock \/ LeaveLoop \/
            Leave
  BY <1>18 DEF Join, MainAt, EndWrite, CloseLog, CloseDevices, ReleaseLock, LeaveLoop,
               LeaveFrom, Leave
<1>19. CASE RenameFails \/ Interrupted \/ FirstStart \/ Stop
  BY <1>19 DEF RenameFails, Die, Interrupted, FirstStart, MainAt, Stop
<1>. QED
  BY <1>1, <1>2, <1>3, <1>4, <1>5, <1>6, <1>7, <1>8, <1>9, <1>10, <1>11, <1>12, <1>13,
     <1>14, <1>15, <1>16, <1>17, <1>18, <1>19
     DEF Next, PollingThread, MainGoesOn, Operator

\* A STOP cannot turn the output on, and nobody else drives an endpoint that is ours.
LEMMA ConfirmedStep == SafeInv /\ [Next]_vars => Confirmed'
<1>. SUFFICES ASSUME SafeInv, [Next]_vars PROVE Confirmed'
  OBVIOUS
<1>. USE DEF SafeInv, Confirmed, tick, exit, place, controller, Ending, Driving, Silent,
         Quiet, ClosedInv, Held, SessionTypeOK, Requests
<1>1. CASE UNCHANGED vars
  BY <1>1 DEF vars, Locked
<1>2. CASE Land
  BY <1>2 DEF Land
<1>3. CASE Others
  BY <1>3 DEF Others
<1>4. CASE CrashHandler
  BY <1>4 DEF CrashHandler, CrashMark, CrashWrite, CrashReplace, CrashAbort, CrashClear,
              WorkerAt
<1>5. CASE EmergencyStop
  BY <1>5 DEF EmergencyStop, Handled, MainAt
<1>6. CASE ConfirmStop
  BY <1>6 DEF ConfirmStop
<1>7. CASE ReleaseLock
  BY <1>7 DEF ReleaseLock, MainAt
<1>8. CASE RenameFails \/ Interrupted
  BY <1>8 DEF RenameFails, Die, Interrupted
<1>9. CASE BeginTick \/ EndLoop \/ Evaluate \/ Decide \/ Crash
  BY <1>9 DEF BeginTick, EndLoop, Evaluate, Decide, Reconcile, Stage, Issue, Confirm, Hold,
              Send, NoRequest, Crash
<1>10. CASE Launch \/ MarkWrite \/ NextLine \/ MarkReplace \/ Clear \/ SwitchEndpoint \/
            ReleaseOld
  BY <1>10 DEF Launch, MainAt, MarkWrite, NextLine, MarkReplace, Clear, Handled,
               SwitchEndpoint, ReleaseOld
<1>11. CASE Join \/ EndWrite \/ CloseLog \/ CloseDevices \/ LeaveLoop \/ Leave \/ FirstStart
  BY <1>11 DEF Join, MainAt, EndWrite, CloseLog, CloseDevices, LeaveLoop, LeaveFrom, Leave,
               FirstStart
<1>12. CASE Reset \/ Stop \/ ApplyUpdate \/ AcquireNew
  BY <1>12 DEF Reset, MainAt, Stop, ApplyUpdate, AcquireNew
<1>. QED
  BY <1>1, <1>2, <1>3, <1>4, <1>5, <1>6, <1>7, <1>8, <1>9, <1>10, <1>11, <1>12
     DEF Next, PollingThread, MainGoesOn, Operator

\* Nothing runs and nothing is staged when build_app() returns.
LEMMA SafeInit == Init => SafeInv
<1>. SUFFICES ASSUME Init PROVE SafeInv
  OBVIOUS
<1>1. SessionTypeOK
  BY SessionTypeInit
<1>2. ClosedInv /\ Order
  BY DEF Init, ClosedInv, Joined, Order
<1>3. Held /\ Latched /\ Stopping
  BY DEF Init, Held, Latched, Stopping, Ending, Locked
<1>4. Ours /\ Quiet /\ Confirmed
  BY DEF Init, Ours, Quiet, Confirmed, Ending, Changing, Silent, Driving, Locked
<1>. QED
  BY <1>1, <1>2, <1>3, <1>4 DEF SafeInv

\* The invariant is inductive when the parameters are not applied after Stop Control.
LEMMA SafeStep == ASSUME Updates = FALSE PROVE SafeInv /\ [Next]_vars => SafeInv'
<1>. SUFFICES ASSUME Updates = FALSE, SafeInv, [Next]_vars PROVE SafeInv'
  OBVIOUS
<1>1. SessionTypeOK' /\ ClosedInv'
  BY SessionTypeStep, ClosedStep DEF SafeInv
<1>. QED
  BY <1>1, OrderStep, HeldStep, LatchedStep, StoppingStep, OursStep, QuietStep, ConfirmedStep
     DEF SafeInv

\* What the invariant says of the three properties.
LEMMA SafeImplies ==
  SafeInv => DrivesOnlyOwned /\ EnabledWhereStaged /\ ConfirmedStopStays
<1>. SUFFICES ASSUME SafeInv PROVE DrivesOnlyOwned /\ EnabledWhereStaged /\ ConfirmedStopStays
  OBVIOUS
<1>. USE DEF SafeInv
<1>1. DrivesOnlyOwned
  BY DEF DrivesOnlyOwned, Ours, Driving, Held, ClosedInv, Joined
<1>2. EnabledWhereStaged
  BY DEF EnabledWhereStaged, Ours, Driving
<1>3. ConfirmedStopStays
  BY DEF ConfirmedStopStays, Confirmed
<1>. QED
  BY <1>1, <1>2, <1>3

\* So it holds in every state of the process.
LEMMA SafeAlways == ASSUME Updates = FALSE PROVE Spec => []SafeInv
<1>1. SafeInv /\ [Next]_vars => SafeInv'
  BY SafeStep
<1>. QED
  BY <1>1, SafeInit, PTL DEF Spec

\* A setpoint or an enable is on its way only to an endpoint whose lock this process holds,
\* for any set of endpoints and any other processes.
THEOREM DrivesOnlyOwnedAlways ==
  ASSUME Updates = FALSE PROVE Spec => []DrivesOnlyOwned
BY SafeAlways, SafeImplies, PTL

\* Control is enabled only on the device the approach's setpoint was staged on, however a
\* tick is overtaken by Stop, an endpoint change and Start.
THEOREM EnabledWhereStagedAlways ==
  ASSUME Updates = FALSE PROVE Spec => []EnabledWhereStaged
BY SafeAlways, SafeImplies, PTL

\* Once stop_and_confirm() has read Measure back, the output stays off until the lock is
\* released: no tick in progress, no crash handler and no other process turns it on.
THEOREM ConfirmedStopLasts ==
  ASSUME Updates = FALSE PROVE Spec => []ConfirmedStopStays
BY SafeAlways, SafeImplies, PTL
=============================================================================
