------------------------------ MODULE Sensing ------------------------------
(***************************************************************************)
(* estimator.py, the trackers and time limits of safety.py, and the two    *)
(* reads of controller.step(): what a tick knows about the sample and the  *)
(* link, computed from windows of samples, error streaks and their ages.   *)
(*                                                                         *)
(* No absolute time is kept: an age is measured from now, or from the      *)
(* newest accepted sample, and stops counting once it is past the limits   *)
(* it is compared with; "never" is an age past them.  Medians are doubled, *)
(* so that the median of an even window is whole.  The check for samples   *)
(* older than the last one is left out: the receipt stamps of one polling  *)
(* thread are ordered.                                                     *)
(***************************************************************************)
EXTENDS Integers, Sequences, FiniteSets, SensorChoices

CONSTANTS
  None,
  Values,         \* sample pressures
  Idles,          \* time between two ticks
  IoTimes,        \* time the two reads of a tick take together
  Window,         \* outlier_median_window
  Smoothing,      \* smoothing_window_s
  SlopeWindow,    \* slope_window_s
  MinPoints,      \* min_points_for_valid
  MaxAge,         \* max_sample_age_s
  MaxJump,        \* max_jump_gpa
  HardJump,       \* sample_jump_hard_gpa
  RateCap,        \* max_compression_rate, per unit of time
  MaxStale,       \* max_stale_sample_s
  MaxInvalid,     \* max_consecutive_invalid
  MaxJumps,       \* max_consecutive_jump_flags
  MaxErrors,      \* max_consecutive_comm_errors
  RubyAfter,      \* ruby_error_pause_after_s
  MembraneAfter,  \* membrane_error_pause_after_s
  PollEvery       \* status_poll_interval_s

AtMost(a, b) == IF a < b THEN a ELSE b
AtLeast(a, b) == IF a < b THEN b ELSE a
Highest(S) == CHOOSE x \in S : \A y \in S : y <= x
Lowest(S) == CHOOSE x \in S : \A y \in S : x <= y

Counts == {Smoothing, SlopeWindow, MaxInvalid, MaxJumps, MaxErrors}
Limits == {MaxAge, MaxJump, HardJump, RateCap, MaxStale, RubyAfter, MembraneAfter, PollEvery}

ASSUME SensingAssumption ==
  /\ Values \subseteq Nat /\ None \notin Nat
  /\ Idles \subseteq Nat \ {0} /\ IoTimes \subseteq Nat
  /\ Window \in Nat /\ Window >= 3
  /\ MinPoints \in Nat /\ MinPoints >= 2
  /\ Counts \subseteq Nat \ {0}
  /\ Limits \subseteq Nat /\ PollEvery > 0
  /\ \E x \in Idles : \A y \in Idles : y <= x        \* nothing takes forever
  /\ \E x \in IoTimes : \A y \in IoTimes : y <= x

VARIABLES
  raw,        \* _raw_window: the last accepted values
  medians,    \* _median_history: doubled medians and their ages before the newest
  validAge,   \* now - _last_valid_t
  invalid,    \* _consecutive_invalid
  jumped,     \* _last_jump_flagged
  fast,       \* pressure_slope() is above the compression-rate cap
  jumps,      \* _consecutive_jump_flags
  ruby,       \* errors of the ruby source: how many in a row, since when, the last
  membrane,   \* the same of the PACE5000
  startAge,   \* now - _start_t
  pollAge,    \* now - _last_membrane_poll_t
  read,       \* how the reads of the last tick went; "first" again after a reset
  good,       \* ghost: samples accepted in a row, up to MinPoints
  blind,      \* ghost: time without an accepted sample, or since a fresh start
  deaf        \* ghost: time without a status, or since a fresh start or a reset

estimator == <<raw, medians, validAge, invalid, jumped, fast>>
vars == <<estimator, jumps, ruby, membrane, startAge, pollAge, read, good, blind, deaf>>

\* max(smoothing_window_s, slope_window_s)
Horizon == AtLeast(Smoothing, SlopeWindow)
OldSample == 1 + AtLeast(Horizon, AtLeast(MaxAge, MaxStale))

Point == [age : 0..Horizon, m : Nat]
Streak(after) ==
  [n : 0..MaxErrors, first : (0..after) \cup {None}, last : 0..SlopeWindow]
NoStreak == [n |-> 0, first |-> None, last |-> SlopeWindow]

\* The longest silence of the device a safe tick may come after: a status, the time to
\* the next poll, which begins late by at most a tick, and the grace.
Deafest == PollEvery + Highest(Idles) + 2 * Highest(IoTimes) + MembraneAfter - 2

\* The windows and counters keep their bounds.
SensingTypeOK ==
  /\ raw \in Seq(Values) /\ Len(raw) <= Window
  /\ medians \in Seq(Point)
  /\ validAge \in (0..OldSample) \cup {None}
  /\ invalid \in 0..MaxInvalid /\ jumps \in 0..MaxJumps
  /\ jumped \in BOOLEAN /\ fast \in BOOLEAN
  /\ ruby \in Streak(RubyAfter) /\ membrane \in Streak(MembraneAfter)
  /\ startAge \in 0..MaxStale + 1 /\ pollAge \in 0..PollEvery
  /\ read \in [kind : OutcomeKinds, poll : Polls, hard : BOOLEAN]
  /\ good \in 0..MinPoints /\ blind \in 0..MaxStale + 1 /\ deaf \in 0..Deafest + 1

Init ==
  /\ raw = <<>> /\ medians = <<>> /\ validAge = None
  /\ invalid = 0 /\ jumped = FALSE /\ fast = FALSE
  /\ jumps = 0 /\ ruby = NoStreak /\ membrane = NoStreak
  /\ startAge = 0 /\ pollAge = PollEvery
  /\ read = [kind |-> "error", poll |-> "first", hard |-> FALSE]
  /\ good = 0 /\ blind = 0 /\ deaf = 0

-----------------------------------------------------------------------------
(* estimator.py                                                             *)

\* The k-th smallest value of a sequence.
Ranked(s, k) ==
  Lowest({v \in {s[i] : i \in DOMAIN s} : Cardinality({i \in DOMAIN s : s[i] <= v}) >= k})

\* Twice the median of a sequence of values.
DoubledMedian(s) == Ranked(s, (Len(s) + 1) \div 2) + Ranked(s, Len(s) \div 2 + 1)

\* _points_within: what is young enough is the end of a history.
Within(h, w) ==
  SubSeq(h, Lowest({i \in DOMAIN h : h[i].age <= w} \cup {Len(h) + 1}), Len(h))

\* The sum of a sequence of integers.
Total(s) ==
  LET upTo[i \in 0..Len(s)] == IF i = 0 THEN 0 ELSE upTo[i - 1] + s[i]
  IN  upTo[Len(s)]

\* Whether v is farther than d from the mean of a history, which is the filtered value.
FarFromMean(v, h, d) ==
  LET gap == 2 * Len(h) * v - Total([i \in DOMAIN h |-> h[i].m])
  IN  h # <<>> /\ AtLeast(gap, -gap) > 2 * Len(h) * d

\* pressure_slope() > cap, by least squares and without dividing.
SlopeAbove(h, cap) ==
  LET n == Len(h)
      t == Total([i \in 1..n |-> -h[i].age])
      p == Total([i \in 1..n |-> h[i].m])
      tp == Total([i \in 1..n |-> -h[i].age * h[i].m])
      tt == Total([i \in 1..n |-> h[i].age * h[i].age])
      den == n * tt - t * t
  IN  den > 0 /\ n * tp - t * p > 2 * cap * den

\* The history once time has passed.
Older(h, gap) == [i \in DOMAIN h |-> [h[i] EXCEPT !.age = @ + gap]]

\* Mutant: the history is not pruned.
Pruned_Never(h) == h

\* _prune_history
Pruned(h) == Within(h, Horizon)

\* Mutant: a value flagged as a jump is not let into the window.
Pushed_NoJumps(v) == IF jumped' THEN raw ELSE Append(raw, v)

\* A flagged value enters the window like any other.
Pushed(v) == Append(raw, v)

\* Mutant: an accepted sample does not end a streak of rejected ones.
InvalidAfter_Keeps(accepted) ==
  IF accepted THEN invalid ELSE AtMost(invalid + 1, MaxInvalid)

InvalidAfter(accepted) == IF accepted THEN 0 ELSE AtMost(invalid + 1, MaxInvalid)

\* update() of a sample that passes the quality gate and was received `late` ago.
Accept(v, d, late) ==
  LET gap == IF validAge = None THEN 0 ELSE validAge + d - late
      n == Len(medians)
      jump == IF n = 0 THEN 0 ELSE 2 * v - medians[n].m
  IN  /\ validAge' = AtMost(late, OldSample)
      /\ invalid' = InvalidAfter(TRUE)
      /\ jumped' = (AtLeast(jump, -jump) > 2 * MaxJump)
      /\ raw' = LET w == Pushed(v) IN IF Len(w) > Window THEN Tail(w) ELSE w
      /\ medians' = Append(Pruned(Older(medians, gap)),
                           [age |-> 0, m |-> DoubledMedian(raw')])
      /\ fast' = SlopeAbove(Within(medians', SlopeWindow), RateCap)

\* No sample enters the windows: they only get older.
NothingAccepted(d) ==
  /\ validAge' = IF validAge = None THEN None ELSE AtMost(validAge + d, OldSample)
  /\ UNCHANGED <<raw, medians, fast>>

\* is_valid
IsValid ==
  /\ validAge # None /\ validAge <= MaxAge
  /\ Len(medians) >= MinPoints

-----------------------------------------------------------------------------
(* The error streaks of safety.py; `after` is the age that makes one too long. *)

Later(s, d, after) ==
  [n |-> s.n,
   first |-> IF s.first = None THEN None ELSE AtMost(s.first + d, after),
   last |-> AtMost(s.last + d, SlopeWindow)]

\* on_ruby_sample, on_membrane_status: the streak ends, its last error is remembered.
Answered(s, d, after) == [n |-> 0, first |-> None, last |-> Later(s, d, after).last]

\* Mutant: every error restarts the clock of its streak.
Failed_Restarts(s, d, after) ==
  [n |-> AtMost(s.n + 1, MaxErrors), first |-> 0, last |-> 0]

\* on_ruby_error, on_membrane_error: timed from the first error of the streak.
Failed(s, d, after) ==
  [n |-> AtMost(s.n + 1, MaxErrors),
   first |-> IF s.first = None THEN 0 ELSE Later(s, d, after).first,
   last |-> 0]

Unreachable(s, after) == s.n >= MaxErrors \/ (s.first # None /\ s.first >= after)

\* What evaluate() finds disturbed.
Stale == IF validAge = None THEN startAge > MaxStale ELSE validAge > MaxStale

Disturbed ==
  \/ read.hard \/ Stale
  \/ invalid >= MaxInvalid \/ jumps >= MaxJumps
  \/ Unreachable(ruby, RubyAfter) \/ Unreachable(membrane, MembraneAfter)

\* comm_errors_recent(now, slope_window_s)
ErrRecent == ruby.last < SlopeWindow \/ membrane.last < SlopeWindow

\* What _advance asks before it computes anything.
Usable == read.kind # "error" /\ IsValid

-----------------------------------------------------------------------------
(* One tick of step(), up to the verdict.                                   *)

Sample(v, d, late) ==
  /\ ruby' = Answered(ruby, d, RubyAfter)
  /\ good' = AtMost(good + 1, MinPoints)
  /\ blind' = AtMost(late, MaxStale + 1)
  /\ Accept(v, d, late)

\* A sample that fails the quality gate.
Rejected(d) ==
  /\ NothingAccepted(d)
  /\ jumped' = FALSE
  /\ invalid' = InvalidAfter(FALSE)
  /\ ruby' = Answered(ruby, d, RubyAfter)
  /\ good' = 0 /\ blind' = AtMost(blind + d, MaxStale + 1)

RubyError(d) ==
  /\ NothingAccepted(d)
  /\ UNCHANGED <<invalid, jumped>>
  /\ ruby' = Failed(ruby, d, RubyAfter)
  /\ good' = 0 /\ blind' = AtMost(blind + d, MaxStale + 1)

\* The status poll; whether it is due was decided when the tick began.
PollDue(idle) == pollAge + idle >= PollEvery

StatusRead(poll, d) ==
  CASE poll = "notDue" ->
         /\ membrane' = Later(membrane, d, MembraneAfter)
         /\ pollAge' = AtMost(pollAge + d, PollEvery)
         /\ deaf' = AtMost(deaf + d, Deafest + 1)
    [] poll = "fresh" ->
         /\ membrane' = Answered(membrane, d, MembraneAfter)
         /\ pollAge' = 0 /\ deaf' = 0
    [] poll = "error" ->
         /\ membrane' = Failed(membrane, d, MembraneAfter)
         /\ pollAge' = 0
         /\ deaf' = AtMost(deaf + d, Deafest + 1)

\* hard_sample_jump, of any value that came with the read, from the filtered pressure
\* before this tick.
HardJumped(v) == FarFromMean(v, Within(medians, Smoothing), HardJump)

Tick ==
  \E idle \in Idles, io \in IoTimes :
    LET d == idle + io IN
    /\ startAge' = AtMost(startAge + d, MaxStale + 1)
    /\ \E poll \in IF PollDue(idle) THEN {"fresh", "error"} ELSE {"notDue"} :
         /\ StatusRead(poll, d)
         /\ \/ /\ RubyError(d)
               /\ read' = [kind |-> "error", poll |-> poll, hard |-> FALSE]
            \/ /\ Rejected(d)
               /\ \E hard \in {FALSE} \cup {HardJumped(v) : v \in Values} :
                    read' = [kind |-> "invalid", poll |-> poll, hard |-> hard]
            \/ \E v \in Values, late \in {0, io} :
                 /\ Sample(v, d, late)
                 /\ read' = [kind |-> "sample", poll |-> poll, hard |-> HardJumped(v)]
    /\ jumps' = IF jumped' THEN AtMost(jumps + 1, MaxJumps) ELSE 0

NoReadSince == read' = [kind |-> read.kind, poll |-> "first", hard |-> FALSE]

\* force_reset(): the streaks and their last errors are forgotten, the samples stay.
Reset ==
  /\ ruby' = NoStreak /\ membrane' = NoStreak /\ jumps' = 0
  /\ deaf' = 0
  /\ NoReadSince
  /\ UNCHANGED <<estimator, startAge, pollAge, good, blind>>

\* apply_config_update(): a fresh estimator and a fresh supervisor.
Configure ==
  /\ raw' = <<>> /\ medians' = <<>> /\ validAge' = None
  /\ invalid' = 0 /\ jumped' = FALSE /\ fast' = FALSE
  /\ jumps' = 0 /\ ruby' = NoStreak /\ membrane' = NoStreak /\ startAge' = 0
  /\ good' = 0 /\ blind' = 0 /\ deaf' = 0
  /\ NoReadSince
  /\ UNCHANGED pollAge

Next == Tick \/ Reset \/ Configure

Spec == Init /\ [][Next]_vars

\* The worker polls again and again: WF_vars(Tick), since a tick is always enabled and
\* only a tick reads, in the form that is cheapest to check.
FairSpec == Spec /\ []<><<read'.poll # "first">>_vars

-----------------------------------------------------------------------------

\* A tick found safe has had a sample accepted within max_stale_sample_s, and a status
\* within the poll interval, one late tick and the grace, whatever mixture of rejected
\* samples, failed reads and slow ticks came since.  Only a restart or a reset begins a
\* new silence.
SilenceBounded == ~Disturbed => blind <= MaxStale /\ deaf <= Deafest

\* The jumps this tick saw, as Controller's fault.
JumpSeen == IF jumped \/ read.hard THEN {"jump"} ELSE {}

\* The counters stay within the choices that Controller makes: an accepted, steady
\* sample and an answered poll leave no trouble of an earlier tick behind, nothing is
\* usable after a failed read, the min_points_for_valid-th sample accepted in a row keeps
\* a usable filter usable however the ticks were spaced, and an error becomes recent only
\* by happening.
WithinChoices ==
  [][read'.poll # "first" =>
       /\ Disturbed' \in DisturbedIn(read'.kind, read'.poll, JumpSeen' \cup {"statusRead"})
       /\ Usable' \in UsableIn(read'.kind, validAge' # None, Usable,
                               IF good >= MinPoints - 1 THEN {} ELSE {"ruby"})
       /\ ErrRecent' \in ErrRecentIn("error" \in {read'.kind, read'.poll}, ErrRecent)]_vars

\* Every read is answered and shows the same pressure, and nobody resets anything.
Calm(v) ==
  /\ read.kind = "sample" /\ raw # <<>> /\ raw[Len(raw)] = v
  /\ read.poll \in {"fresh", "notDue"}

\* A new pressure level that persists is accepted in the end, however far it is from
\* the old one: jump flags, streaks and the measured rate all die out, and commands are
\* possible again without an operator.
GoodReadsClear ==
  (\E v \in Values : <>[]Calm(v)) => <>[](~Disturbed /\ Usable /\ ~ErrRecent /\ ~fast)
=============================================================================
