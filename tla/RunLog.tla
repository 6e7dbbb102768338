------------------------------- MODULE RunLog -------------------------------
(***************************************************************************)
(* logging_sink.py: the manifest.json of a run, the record of whether      *)
(* Control was ever started and of how the run ended.  Two threads write   *)
(* it, each by dumping the record kept in memory to one temporary file     *)
(* that it then renames; no lock orders the two.                           *)
(***************************************************************************)
CONSTANT None

Threads == {"main", "worker"}
EndReasons == {"crashed", "completed", "not_started"}

VARIABLES
  memory,  \* _manifest: the record every write dumps
  draft,   \* what each thread has dumped and not yet renamed into place, or None
  tmp,     \* manifest.json.tmp, or None
  disk     \* manifest.json

runLog == <<memory, draft, tmp, disk>>

Manifest == [started : BOOLEAN, end : EndReasons \cup {None}]

ASSUME RunLogAssumption == None \notin EndReasons /\ None \notin Manifest

RunLogTypeOK ==
  /\ memory \in Manifest
  /\ draft \in [Threads -> Manifest \cup {None}]
  /\ tmp \in Manifest \cup {None}
  /\ disk \in Manifest

\* DataLogger.__init__ writes the first manifest before any thread is started.
RunLogInit ==
  /\ memory = [started |-> FALSE, end |-> None]
  /\ draft = [t \in Threads |-> None]
  /\ tmp = None
  /\ disk = memory

\* The record is changed, then dumped.
Dump(t, record) ==
  /\ memory' = record
  /\ draft' = [draft EXCEPT ![t] = record]
  /\ UNCHANGED <<tmp, disk>>

MarkStarted(t) == Dump(t, [memory EXCEPT !.started = TRUE])

\* The first reason wins; a later call neither changes nor writes anything.
MarkEnd(t, reason) ==
  IF memory.end # None
  THEN UNCHANGED runLog
  ELSE Dump(t, [memory EXCEPT !.end = reason])

WriteTmp(t) ==
  /\ tmp' = draft[t]
  /\ UNCHANGED <<memory, draft, disk>>

\* replace() raises FileNotFoundError when the other thread has renamed the file away.
Replace(t) ==
  /\ IF tmp # None THEN disk' = tmp /\ tmp' = None ELSE UNCHANGED <<tmp, disk>>
  /\ draft' = [draft EXCEPT ![t] = None]
  /\ UNCHANGED memory

\* close(): a run nobody gave a reason for was completed, or never started.
DefaultEnd == IF memory.started THEN "completed" ELSE "not_started"
=============================================================================
