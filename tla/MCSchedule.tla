----------------------------- MODULE MCSchedule -----------------------------
(* Values for model-checking Schedule on a short schedule.                 *)
EXTENDS Schedule

Far == [filtered |-> 1, raw |-> 1, rise |-> 0, fast |-> FALSE]
At4 == [filtered |-> 3, raw |-> 4, rise |-> 0, fast |-> FALSE]
At6 == [filtered |-> 5, raw |-> 6, rise |-> 0, fast |-> FALSE]

FarOr4 == {Far, At4}
Rising == {Far, At4, At6}

Climb == << [kind |-> "set", target |-> 4], [kind |-> "wait"],
            [kind |-> "set", target |-> 6] >>
Pair == << [kind |-> "set", target |-> 4], [kind |-> "set", target |-> 6] >>
=============================================================================
