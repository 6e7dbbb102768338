--------------------------- MODULE MCInstanceLock ---------------------------
(* Values for model-checking InstanceLock on a few processes, and the two   *)
(* situations in which it keeps the endpoint to one owner.                  *)
EXTENDS InstanceLock

CONSTANTS P1, P2, P3

Three == {P1, P2, P3}
AnyFile == Three \cup {Missing, Empty, Junk}

VARIABLE scenario  \* "race" or "life", fixed

\* "race": any interleaving of acquire() from an absent file, by processes that then
\* keep the lock.  "life": any file, releases, failed unlinks and kills anywhere, but
\* one process at a time inside acquire().
MCInit ==
  /\ Init
  /\ scenario \in {"race", "life"}
  /\ scenario = "race" => file = Missing

KeepsRunning(p) ==
  /\ At(p, "holding") => At(p, "holding")'
  /\ pc[p] \in Acquiring => pc'[p] # "dead"

MCNext ==
  /\ Next
  /\ UNCHANGED scenario
  /\ scenario = "race" => \A p \in Procs : KeepsRunning(p)
  /\ scenario = "life" =>
       \A p, q \in Procs : {pc'[p], pc'[q]} \subseteq Acquiring => p = q

MCSpec == MCInit /\ [][MCNext]_<<vars, scenario>>
=============================================================================
