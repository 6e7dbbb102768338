---------------------------- MODULE InstanceLock ----------------------------
(***************************************************************************)
(* instance_lock.py: SingleInstanceLock, the file that keeps two processes *)
(* on one machine from driving the same PACE5000.                          *)
(*                                                                         *)
(* Every system call on the file is a step of its own, because any other   *)
(* process may act between two of them, and a process may be killed there. *)
(* A process is its pid; a pid that died may be given to a later process.  *)
(***************************************************************************)
CONSTANTS
  Procs,       \* the pids PressureKeeper processes get
  Missing,     \* the lock file does not exist
  Empty,       \* it exists and has no content yet
  Junk,        \* its content does not parse, or names a pid nobody has
  StartFiles,  \* what the first process may find
  Kinds,       \* what processes may do besides acquiring: see LifeKinds
  Overlap,     \* whether two processes may be inside acquire() at once
  Prompt       \* a payload write lands within a reader's retries (100 ms)

LifeKinds == {"release", "kill", "unlinkFails"}

ASSUME LockAssumption ==
  /\ {Missing, Empty, Junk} \cap Procs = {}
  /\ Missing # Empty /\ Empty # Junk /\ Junk # Missing
  /\ StartFiles \subseteq Procs \cup {Missing, Empty, Junk}
  /\ Kinds \subseteq LifeKinds
  /\ Overlap \in BOOLEAN /\ Prompt \in BOOLEAN

VARIABLES
  file,   \* the lock file's content
  pc,     \* where each process is
  seen    \* what each process last read from the file

vars == <<file, pc, seen>>

Contents == Procs \cup {Missing, Empty, Junk}

\* acquire(): create, then payload, or read, judge, truncate and rewrite; "orphan" is
\* a pending write whose file lost its name meanwhile.
Acquiring == {"create", "payload", "read", "judge", "truncate", "rewrite", "orphan"}
Writing == {"payload", "rewrite"}
Places == Acquiring \cup {"dead", "holding", "unlink", "leaving"}

TypeOK ==
  /\ file \in Contents
  /\ pc \in [Procs -> Places]
  /\ seen \in [Procs -> Contents]

Init ==
  /\ file \in StartFiles
  /\ pc = [p \in Procs |-> "dead"]
  /\ seen = [p \in Procs |-> Missing]

At(p, place) == pc[p] = place
Goto(p, place) == pc' = [pc EXCEPT ![p] = place]

\* _pid_alive
PidAlive(q) == q \in Procs /\ pc[q] # "dead"

-----------------------------------------------------------------------------
(* acquire()                                                                *)

\* build_app() in a new process.
Start(p) ==
  /\ At(p, "dead")
  /\ Overlap \/ \A q \in Procs : pc[q] \notin Acquiring
  /\ Goto(p, "create")
  /\ UNCHANGED <<file, seen>>

\* Mutant: the file is opened without O_EXCL.
Create_Shared(p) ==
  /\ At(p, "create")
  /\ file' = IF file = Missing THEN Empty ELSE file
  /\ Goto(p, "payload")
  /\ UNCHANGED seen

\* os.open(O_CREAT | O_EXCL): only one process creates the file.
Create(p) ==
  /\ At(p, "create")
  /\ IF file = Missing
     THEN file' = Empty /\ Goto(p, "payload")
     ELSE UNCHANGED file /\ Goto(p, "read")
  /\ UNCHANGED seen

\* os.write, also the end of write_bytes: the pid lands in the opened file, which may
\* have been unlinked by then.
WritePayload(p) ==
  /\ \/ pc[p] \in Writing /\ file' = p
     \/ At(p, "orphan") /\ UNCHANGED file
  /\ Goto(p, "holding")
  /\ UNCHANGED seen

\* _read_settled: an empty file is read again until its content lands, and given up
\* on when none does; a missing file reads as an empty one.
WriterBusy == \E q \in Procs : pc[q] \in Writing

ReadSettled(p) ==
  /\ At(p, "read")
  /\ file = Empty => ~(Prompt /\ WriterBusy)
  /\ seen' = [seen EXCEPT ![p] = file]
  /\ Goto(p, "judge")
  /\ UNCHANGED file

\* Mutant: an empty file counts as a lock.
ForeignLock_Empty(p) == (seen[p] # p /\ PidAlive(seen[p])) \/ seen[p] = Empty

\* The file names a live process that is not this one.
ForeignLock(p) == seen[p] # p /\ PidAlive(seen[p])

\* InstanceAlreadyRunning: the process gives up and ends.
Refuse(p) ==
  /\ At(p, "judge") /\ ForeignLock(p)
  /\ Goto(p, "leaving")
  /\ UNCHANGED <<file, seen>>

TakeOver(p) ==
  /\ At(p, "judge") /\ ~ForeignLock(p)
  /\ Goto(p, "truncate")
  /\ UNCHANGED <<file, seen>>

\* write_bytes opens with truncation, creating the file if it is gone.
Truncate(p) ==
  /\ At(p, "truncate")
  /\ file' = Empty
  /\ Goto(p, "rewrite")
  /\ UNCHANGED seen

-----------------------------------------------------------------------------
(* release() and the end of a process                                       *)

\* The file is read; only one's own lock is removed.
ReadOwn(p) ==
  /\ "release" \in Kinds
  /\ At(p, "holding")
  /\ Goto(p, IF file = p THEN "unlink" ELSE "leaving")
  /\ UNCHANGED <<file, seen>>

\* unlink(missing_ok=True), its OSError swallowed.
Unlink(p) ==
  /\ At(p, "unlink")
  /\ \/ /\ file' = Missing
        /\ pc' = [q \in Procs |-> IF q = p THEN "leaving"
                                 ELSE IF pc[q] \in Writing THEN "orphan"
                                 ELSE pc[q]]
     \/ /\ "unlinkFails" \in Kinds
        /\ UNCHANGED file
        /\ Goto(p, "leaving")
  /\ UNCHANGED seen

Exit(p) ==
  /\ At(p, "leaving")
  /\ Goto(p, "dead")
  /\ UNCHANGED <<file, seen>>

Kill(p) ==
  /\ "kill" \in Kinds
  /\ pc[p] # "dead"
  /\ Goto(p, "dead")
  /\ UNCHANGED <<file, seen>>

Acquire(p) ==
  \/ Create(p) \/ WritePayload(p)
  \/ ReadSettled(p) \/ Refuse(p) \/ TakeOver(p) \/ Truncate(p)

Next ==
  \E p \in Procs :
    Start(p) \/ Acquire(p) \/ ReadOwn(p) \/ Unlink(p) \/ Exit(p) \/ Kill(p)

Spec == Init /\ [][Next]_vars

-----------------------------------------------------------------------------

\* The processes that came back from acquire() and have not begun to release.
Holders == {p \in Procs : pc[p] = "holding"}

\* At most one live process drives the endpoint: instance_lock.py's whole promise.
MutualExclusion == \A p, q \in Holders : p = q

\* Whatever file an earlier process died with, or a failed unlink left behind, a
\* process is turned away only while another one still owns the endpoint or has not
\* yet ended: nobody is locked out by the dead.
NeverLockedOut ==
  [][\A p \in Procs :
       At(p, "judge") /\ At(p, "leaving")'
         => \E q \in Procs \ {p} : pc[q] \in {"holding", "unlink", "leaving"}]_vars

\* "only a genuinely dead/foreign/corrupt lock reaches here" (instance_lock.py): a
\* process never overwrites the lock that another process took and still holds.
OverwritesOnlyStale ==
  [][\A p \in Procs : Truncate(p) => ~\E q \in Holders \ {p} : file = q]_vars
=============================================================================
