------------------------------- MODULE Metric -------------------------------
(***************************************************************************)
(* metrics::GaugeMetric and metrics::CounterMetric                         *)
(* (src/core/metrics/system_metrics.hpp, .cpp): the current value, and the *)
(* values by the time of system_clock at which they were recorded, of      *)
(* which the latest Kept are kept.  A collector's thread updates; main's   *)
(* tasks, the alerts and the API read.  Each operation holds the metric's  *)
(* mutex_ and is one action.  The two classes differ in increment.         *)
(*                                                                         *)
(* system_clock may show one time for two updates and may be set back.     *)
(***************************************************************************)
EXTENDS Integers, Sequences, FiniteSets, FiniteSetsExt

CONSTANTS
    Values,        \* what update is given
    Kept,          \* 1000 in the code
    NoTime,        \* no value at a time: std::nullopt
    MaxTime,       \* bound: the times of the clock
    MaxUpdates     \* bound: updates and increments in a behaviour

ASSUME ValuesAreNumbers == Values \subseteq Int
ASSUME KeptIsPositive == Kept \in Nat \ {0}

VARIABLES
    metric_type,         \* type_: "gauge" or "counter"
    current_value,       \* current_value_
    historical_values,   \* historical_values_: a function on the times it holds
    clock,               \* system_clock
    updates,             \* history: the values recorded, [time, value]
    set_back             \* history: the clock has been set back

metricVars == <<metric_type, current_value, historical_values, clock, updates, set_back>>

MetricInit ==
    /\ metric_type \in {"gauge", "counter"}
    /\ current_value = 0
    /\ historical_values = <<>>
    /\ clock = 1
    /\ updates = <<>>
    /\ set_back = FALSE

\* Mutant of Trimmed: the newest goes.
TrimmedNewest(h) ==
    IF Cardinality(DOMAIN h) <= Kept THEN h
    ELSE [t \in DOMAIN h \ {Max(DOMAIN h)} |-> h[t]]

\* The oldest entries go.  One was added, so that one at most is too many.
Trimmed(h) ==
    IF Cardinality(DOMAIN h) <= Kept THEN h
    ELSE [t \in DOMAIN h \ {Min(DOMAIN h)} |-> h[t]]

\* What update and increment have in common.
Recorded(v) ==
    /\ Len(updates) < MaxUpdates
    /\ current_value' = v
    /\ historical_values' =
          Trimmed([t \in DOMAIN historical_values \cup {clock} |->
                      IF t = clock THEN v ELSE historical_values[t]])
    /\ updates' = Append(updates, [time |-> clock, value |-> v])
    /\ UNCHANGED <<metric_type, clock, set_back>>

update(v) == Recorded(v)

\* Of a counter.  Amounts are 1, the default, or more.
increment(amount) ==
    /\ metric_type = "counter"
    /\ Recorded(current_value + amount)

\* Mutant of getValueAt: the first entry after the time.
ValueAfter(t) ==
    LET after == {s \in DOMAIN historical_values : s > t}
    IN  IF historical_values = <<>> THEN NoTime
        ELSE historical_values[IF after # {} THEN Min(after)
                               ELSE Max(DOMAIN historical_values)]

\* The first entry at the time or after it, or else the last one.
getValueAt(t) ==
    LET from == {s \in DOMAIN historical_values : s >= t}
    IN  IF historical_values = <<>> THEN NoTime
        ELSE historical_values[IF from # {} THEN Min(from)
                               ELSE Max(DOMAIN historical_values)]

Tick ==
    /\ clock < MaxTime
    /\ clock' = clock + 1
    /\ UNCHANGED <<metric_type, current_value, historical_values, updates, set_back>>

SetBack ==
    /\ clock' \in 1 .. (clock - 1)
    /\ set_back' = TRUE
    /\ UNCHANGED <<metric_type, current_value, historical_values, updates>>

MetricNext ==
    \/ \E v \in Values : update(v)
    \/ increment(1)
    \/ Tick \/ SetBack

MetricSpec == MetricInit /\ [][MetricNext]_metricVars

-----------------------------------------------------------------------------
(* Properties *)

Times == {updates[i].time : i \in DOMAIN updates}

\* The value recorded last at time t.
LastAt(t) == updates[Max({i \in DOMAIN updates : updates[i].time = t})].value

\* The history is the latest times that were ever recorded, each with the value
\* recorded last at it, even if the clock is set back and updates come in between
\* or behind the entries there are: an update that is older than all that a full
\* history holds is dropped at once (system_metrics.cpp 12-21 and 45-65).
HistoryIsLatest ==
    historical_values =
        [t \in {t \in Times : Cardinality({s \in Times : s > t}) < Kept} |-> LastAt(t)]

\* Unless the clock was set back, asking for now gives the current value, and
\* asking for a time at which one of the kept values was recorded gives that
\* value; test/test_metrics.cpp 20-28 asks so (system_metrics.cpp 28-40).
AskedAtItsTime ==
    ~set_back /\ updates # <<>> =>
        /\ getValueAt(clock) = current_value
        /\ \A t \in DOMAIN historical_values : getValueAt(t) = LastAt(t)
        /\ \A t \in 1 .. clock : (\A s \in Times : s < t) => getValueAt(t) = current_value

=============================================================================
