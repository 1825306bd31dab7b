------------------------------ MODULE Discovery ------------------------------
(***************************************************************************)
(* What the discovery engine (core/internal/discovery/engine.go) makes of    *)
(* Active Directory authentication events: an account's behavioural profile, *)
(* its classification as a service account, the baseline built then, and     *)
(* which events deviate from a baseline.                                     *)
(*                                                                          *)
(* An event is [AccountSID, Day, Hour, Values]; Values gives it a value, or  *)
(* Absent, per attribute.  Scores are in thousandths.                        *)
(***************************************************************************)
EXTENDS Integers, FiniteSets, FiniteSetsExt

CONSTANTS
    AttributeValues,         \* values an event's attributes can have
    Hours,                   \* hours of the day
    minObservationDays,      \* 7
    minAuthCount,            \* 10
    classifyThreshold,       \* 750
    baselineMinPercent,      \* 5
    temporalRegularity(_)    \* of the hours counted: 1 - entropy / log2(24)

ASSUME ThresholdsAssumption ==
    {minObservationDays, minAuthCount} \subseteq Int /\ baselineMinPercent \in Nat \ {0}

Attributes == {"SourceIP", "TargetSPN", "LogonType", "AuthPackage"}
Absent == "absent"
\* A value that an event has is not empty.
ASSUME AbsentAssumption == Absent \notin AttributeValues
Values == AttributeValues \cup {Absent}
NoBaseline == [Built |-> FALSE]

newProfile(now) ==
    [TotalAuthCount |-> 0, ObservationStart |-> now, ObservationEnd |-> now,
     TimeOfDay |-> [h \in Hours |-> 0],
     Counts |-> [a \in Attributes |-> [v \in AttributeValues |-> 0]],
     Classified |-> FALSE, Baseline |-> NoBaseline]

Counters == {"TotalAuthCount", "TimeOfDay"} \cup Attributes

\* The counters that changed since the profile was old.
Changed(old, p) ==
    {c \in Counters : CASE c = "TotalAuthCount" -> old.TotalAuthCount # p.TotalAuthCount
                        [] c = "TimeOfDay" -> old.TimeOfDay # p.TimeOfDay
                        [] OTHER -> old.Counts[c] # p.Counts[c]}

\* updateProfile increments counters that other goroutines may increment at the same
\* time: an increment of a counter in stale adds to what the counter was in old.  Events
\* have a timestamp, as the DC agent's parser sets one; for those of another sender without
\* one the code takes the current time.
updateProfile(p, old, stale, ev) ==
    LET From(c) == IF c \in stale THEN old ELSE p
    IN  [p EXCEPT
           !.TotalAuthCount = From("TotalAuthCount").TotalAuthCount + 1,
           !.ObservationStart = Min({@, ev.Day}),
           !.ObservationEnd = Max({@, ev.Day}),
           !.TimeOfDay[ev.Hour] = From("TimeOfDay").TimeOfDay[ev.Hour] + 1,
           !.Counts = [a \in Attributes |-> [v \in AttributeValues |->
               IF ev.Values[a] = v THEN From(a).Counts[a][v] + 1 ELSE p.Counts[a][v]]]]

\* A window that is met by enough events of one day.
observationWindowMetAny(p) ==
    \/ p.ObservationEnd - p.ObservationStart >= minObservationDays
    \/ p.TotalAuthCount >= minAuthCount

observationWindowMet(p) ==
    /\ p.ObservationEnd - p.ObservationStart >= minObservationDays
    /\ p.TotalAuthCount >= minAuthCount

Seen(p, a) == {v \in AttributeValues : p.Counts[a][v] > 0}

\* 1/n of n different values, 1 for target names when there are none.
sourceConsistency(p) ==
    LET n == Cardinality(Seen(p, "SourceIP")) IN IF n = 0 THEN 0 ELSE 1000 \div n
targetConsistency(p) ==
    LET n == Cardinality(Seen(p, "TargetSPN")) IN IF n = 0 THEN 1000 ELSE 1000 \div n

\* logonTypePurity and protocolPurity: the share of the most frequent value.
Purity(p, a) ==
    LET total == MapThenSumSet(LAMBDA v : p.Counts[a][v], AttributeValues)
    IN  IF total = 0
        THEN 0
        ELSE (1000 * Max({p.Counts[a][v] : v \in AttributeValues})) \div total

classify(p) ==
    (25 * temporalRegularity(p.TimeOfDay) + 20 * sourceConsistency(p)
       + 20 * targetConsistency(p) + 15 * Purity(p, "LogonType")
       + 10 * Purity(p, "AuthPackage")) \div 100

\* What occurred in baselineMinPercent of the authentications, rounded up, is allowed.
buildBaseline(p) ==
    LET threshold == (p.TotalAuthCount * baselineMinPercent + 99) \div 100
    IN  [Built |-> TRUE,
         Allowed |-> [a \in Attributes |-> {v \in AttributeValues : p.Counts[a][v] >= threshold}],
         AllowedTimeWindows |-> {h \in Hours : p.TimeOfDay[h] >= threshold}]

\* Time windows that begin an hour late.
deviatesHourLate(b, ev) ==
    \/ \E a \in Attributes : /\ ev.Values[a] # Absent
                             /\ b.Allowed[a] # {} /\ ev.Values[a] \notin b.Allowed[a]
    \/ b.AllowedTimeWindows # {} /\ ev.Hour \notin {h \in Hours : h - 1 \in b.AllowedTimeWindows}

\* An attribute with no allowed value at all is not compared.
deviates(b, ev) ==
    \/ \E a \in Attributes : /\ ev.Values[a] # Absent
                             /\ b.Allowed[a] # {} /\ ev.Values[a] \notin b.Allowed[a]
    \/ b.AllowedTimeWindows # {} /\ ev.Hour \notin b.AllowedTimeWindows
=============================================================================
