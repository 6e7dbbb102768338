--------------------------- MODULE SensorChoices ---------------------------
(***************************************************************************)
(* What one tick's sensing may tell the controller, as far as the control  *)
(* flow distinguishes it.  Controller takes these sets as choices; Sensing *)
(* computes the same answers from windows, streaks and ages, and shows     *)
(* that they never fall outside.                                           *)
(*                                                                         *)
(* kind: how the ruby read went ("sample" accepted, "invalid" rejected,    *)
(* "error" failed).  poll: how the status poll went.  faults: which        *)
(* disturbances exist at all.                                              *)
(***************************************************************************)

OutcomeKinds == {"sample", "invalid", "error"}
Polls == {"first", "notDue", "error", "fresh"}

\* Trouble whose streak or age may have reached its limit on this tick: an accepted
\* sample and an answered poll end every streak but that of the jumps.
DisturbedIn(kind, poll, faults) ==
  IF \/ kind # "sample"
     \/ poll = "error"
     \/ poll = "notDue" /\ "statusRead" \in faults
     \/ "jump" \in faults
  THEN BOOLEAN ELSE {FALSE}

\* Whether the tick has a pressure to compute a command from: never after a failed
\* read, never before the first accepted sample; a rejected sample leaves the filter
\* valid for a while; after an accepted one it can still lack points, at the start
\* and after an outage.
UsableIn(kind, known, wasUsable, faults) ==
  IF ~known \/ kind = "error" THEN {FALSE}
  ELSE IF kind = "sample" /\ wasUsable /\ "ruby" \notin faults THEN {TRUE}
  ELSE BOOLEAN

\* A failed read is recent until the slope window has passed it.
ErrRecentIn(failed, was) == IF failed THEN {TRUE} ELSE {was, FALSE}
=============================================================================
