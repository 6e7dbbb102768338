---------------------------- MODULE MCController ----------------------------
(* Values for model-checking Controller on small instances.                *)
EXTENDS Controller

\* Sample pressures as the estimator reports them, around targets 4 and 6 with the
\* margins of the cfgs: far below, inside the hysteresis band, at target 4, and a raw
\* spike beyond the ceiling.
Far == [filtered |-> 1, raw |-> 1, rise |-> 0, fast |-> FALSE]
FarFast == [filtered |-> 1, raw |-> 1, rise |-> 1, fast |-> TRUE]
Band == [filtered |-> 2, raw |-> 2, rise |-> 0, fast |-> FALSE]
At4 == [filtered |-> 3, raw |-> 4, rise |-> 0, fast |-> FALSE]
Spike == [filtered |-> 1, raw |-> 9, rise |-> 0, fast |-> FALSE]

Near == {Far, At4}
Steady == {Far, Band, At4}
Rushed == {Far, FarFast, At4}
WithSpike == {Far, FarFast, At4, Spike}
=============================================================================
