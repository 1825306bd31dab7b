-------------------------- MODULE ADPipelineProofs --------------------------
(***************************************************************************)
(* What the profiles can be relied on for, whatever batches get lost and      *)
(* however handlers race on a profile, for any number of agents, handlers,    *)
(* accounts and events.  An event is in one place at a time on its way from   *)
(* the controller to the profile, and a profile, or an old copy of a counter  *)
(* of it, never says more than the events ingested so far.                    *)
(***************************************************************************)
EXTENDS ADPipeline, TLAPS

\* Zenon does the logic; the steps that need arithmetic or records call for SMT.
USE ZenonT(20)

-----------------------------------------------------------------------------
(* Where an event is.                                                       *)

Elements(s) == {s[i] : i \in DOMAIN s}
Once(s) == \A i, j \in DOMAIN s : s[i] = s[j] => i = j

\* The events that an agent has yet to send: a batch that waits for its answer was sent.
Unsent(a) == Elements(channel[a]) \cup (IF agent[a] = "wait" THEN {} ELSE Elements(batch[a]))

\* The events that a handler has yet to ingest.
Turn(h) == IF pc[h] \in {"get", "update"} THEN req[h].i ELSE req[h].i + 1
Ahead(h) == {req[h].Events[j] : j \in Turn(h)..Len(req[h].Events)}
Held(h) == Elements(req[h].Events)

Parsed == {ParseEventXML(log, d) : log \in Logged, d \in Nat}
AgentStates == {"run", "flush", "wait", "stopped"}
Working == {"update", "classify", "baseline", "upsert"}
Labels == {"idle", "get", "audit"} \cup Working

BaselineType ==
    [Built : {TRUE}, Allowed : [Attributes -> SUBSET AttributeValues],
     AllowedTimeWindows : SUBSET Hours]
ProfileType ==
    [TotalAuthCount : Nat, ObservationStart : Nat, ObservationEnd : Nat,
     TimeOfDay : [Hours -> Nat], Counts : [Attributes -> [AttributeValues -> Nat]],
     Classified : BOOLEAN, Baseline : {NoBaseline} \cup BaselineType]
RequestType ==
    [From : Agents \cup {NoAgent}, Events : Seq(Events), i : Nat \ {0}, Profile : 0..MaxEvents,
     Old : ProfileType, Decisions : SUBSET Events]

Shapes ==
    /\ today \in Nat
    /\ occurred \in Seq(Parsed) /\ Len(occurred) <= MaxEvents
    /\ \A e \in DOMAIN occurred : occurred[e].Day <= today
    /\ channel \in [Agents -> Seq(Events)] /\ batch \in [Agents -> Seq(Events)]
    /\ agent \in [Agents -> AgentStates]
    /\ pc \in [Handlers -> Labels] /\ req \in [Handlers -> RequestType]
    /\ ingested \in [Events -> Nat]
    /\ audited \in [Events -> [event : Nat, deviation : Nat]]

\* An event that an agent has: it is neither ingested nor audited, and there once.
AgentOK(a) ==
    /\ Once(channel[a])
    /\ agent[a] = "flush" => batch[a] # <<>>
    /\ agent[a] # "wait" => Once(batch[a]) /\ Elements(channel[a]) \cap Elements(batch[a]) = {}
    /\ \A e \in Unsent(a) : e \in DOMAIN occurred /\ ingested[e] = 0 /\ audited[e].event = 0

\* An event of a handler's request is not audited, and ingested only if its turn was.
HandlerHolds(h) ==
    /\ Once(req[h].Events)
    /\ pc[h] \in {"get"} \cup Working => req[h].i \in 1..Len(req[h].Events)
    /\ \A e \in Held(h) : e \in DOMAIN occurred /\ audited[e].event = 0
    /\ \A e \in Ahead(h) : ingested[e] = 0

Apart ==
    /\ \A a, b \in Agents : a # b => Unsent(a) \cap Unsent(b) = {}
    /\ \A a \in Agents, h \in Handlers : Unsent(a) \cap Held(h) = {}
    /\ \A g, h \in Handlers : g # h => Held(g) \cap Held(h) = {}

Counted ==
    \A e \in Events : /\ ingested[e] <= 1 /\ audited[e].event <= 1
                      /\ e \notin DOMAIN occurred => ingested[e] = 0 /\ audited[e].event = 0

DeliveryInv ==
    /\ Shapes /\ Apart /\ Counted
    /\ \A a \in Agents : AgentOK(a)
    /\ \A h \in Handlers : HandlerHolds(h)

-----------------------------------------------------------------------------
(* What a profile says.                                                     *)

Owner(e) == occurred[e].AccountSID
IngestedAt(s, hr) == {e \in Ingested(s) : occurred[e].Hour = hr}
Showed(s, a, v) == \E e \in Ingested(s) : occurred[e].Values[a] = v

\* The counters of q, a profile of account s or an older version of one.
CountsOK(q, s) ==
    /\ q.TotalAuthCount <= Cardinality(Ingested(s))
    /\ \A hr \in Hours : q.TimeOfDay[hr] <= Cardinality(IngestedAt(s, hr))
    /\ \A a \in Attributes, v \in AttributeValues : q.Counts[a][v] > 0 => Showed(s, a, v)

Observed(s) ==
    /\ Cardinality(Ingested(s)) >= minAuthCount
    /\ \E e \in Ingested(s) : occurred[e].Day + minObservationDays <= today

\* What a baseline allows was seen.
BaselineOK(b, s) ==
    /\ \A a \in Attributes : \A v \in b.Allowed[a] : Showed(s, a, v)
    /\ \A hr \in b.AllowedTimeWindows : IngestedAt(s, hr) # {}

Sound(q, s) ==
    /\ CountsOK(q, s) /\ q.ObservationEnd <= today
    /\ q.Classified => Observed(s)
    /\ q.Baseline.Built => BaselineOK(q.Baseline, s)

\* Profile p was updated, and its window does not begin before an event of its account.
Live(p) ==
    /\ ingested[p] > 0 /\ profiles[p].TotalAuthCount > 0
    /\ \E e \in Ingested(Owner(p)) : occurred[e].Day <= profiles[p].ObservationStart

Contrast(e) ==
    \E f \in Ingested(occurred[e].AccountSID) :
        \/ occurred[f].Hour # occurred[e].Hour
        \/ \E a \in Attributes :
              /\ occurred[e].Values[a] \notin {Absent, occurred[f].Values[a]}
              /\ occurred[f].Values[a] # Absent

\* What a handler at work on an event has at hand: a profile of the event's account, its
\* own if the event is the first one, and an old version of it before the update.
HandlerOK(h) ==
    /\ pc[h] \in Working =>
          /\ Owner(Event(h)) # Absent
          /\ req[h].Profile \in DOMAIN occurred /\ Owner(req[h].Profile) = Owner(Event(h))
    /\ pc[h] = "update" =>
          /\ CountsOK(req[h].Old, Owner(Event(h)))
          /\ \/ Live(req[h].Profile)
             \/ /\ req[h].Profile = Event(h)
                /\ occurred[Event(h)].Day <= profiles[Event(h)].ObservationStart
    /\ pc[h] \in Working \ {"update"} => Live(req[h].Profile)
    /\ \A e \in req[h].Decisions : e \in DOMAIN occurred /\ Contrast(e)

StoredOK(s) ==
    stored[s] # None =>
        stored[s] \in DOMAIN occurred /\ Owner(stored[s]) = s /\ Live(stored[s])

ProfileOK(p) ==
    IF p \in DOMAIN occurred THEN Sound(profiles[p], Owner(p)) ELSE profiles[p] = newProfile(0)

ProfilesInv ==
    /\ profiles \in [Events -> ProfileType] /\ stored \in [SIDs -> 0..MaxEvents]
    /\ \A p \in Events : ProfileOK(p)
    /\ \A s \in SIDs : StoredOK(s)
    /\ \A h \in Handlers : HandlerOK(h)

IInv == DeliveryInv /\ ProfilesInv

-----------------------------------------------------------------------------
(* Sequences of events.                                                     *)

\* An event that is added is there once, if it was not there before.
LEMMA AppendElements ==
    ASSUME NEW S, NEW s \in Seq(S), NEW x \in S
    PROVE  /\ Append(s, x) \in Seq(S) /\ Append(s, x) # <<>>
           /\ Elements(Append(s, x)) = Elements(s) \cup {x}
           /\ Once(s) /\ x \notin Elements(s) => Once(Append(s, x))
<1> DEFINE t == Append(s, x)
<1>1. /\ t \in Seq(S) /\ t # <<>> /\ Len(s) + 1 \in DOMAIN t /\ Len(s) + 1 \notin DOMAIN s
      /\ t[Len(s) + 1] = x
    BY SMTT(30)
<1>a. \A i \in DOMAIN s : i \in DOMAIN t /\ t[i] = s[i]
    BY SMTT(30)
<1>b. \A i \in DOMAIN t : i \in DOMAIN s \/ i = Len(s) + 1
    BY SMTT(30)
<1> HIDE DEF t
<1>2. Elements(t) = Elements(s) \cup {x}
    BY <1>1, <1>a, <1>b DEF Elements
<1>3. Once(s) /\ x \notin Elements(s) => Once(t)
    BY <1>1, <1>a, <1>b DEF Once, Elements
<1> QED
    BY <1>1, <1>2, <1>3 DEF t

\* An event that is taken out is not there any more.
LEMMA TailElements ==
    ASSUME NEW S, NEW s \in Seq(S), s # <<>>, Once(s)
    PROVE  /\ Tail(s) \in Seq(S) /\ Head(s) \in S
           /\ Head(s) \in Elements(s) /\ Once(Tail(s))
           /\ Elements(Tail(s)) = Elements(s) \ {Head(s)}
<1> DEFINE t == Tail(s)
<1>1. t \in Seq(S) /\ Head(s) \in S /\ 1 \in DOMAIN s /\ s[1] = Head(s)
    BY SMTT(30)
<1>a. \A i \in DOMAIN t : i + 1 \in DOMAIN s /\ t[i] = s[i + 1] /\ i + 1 # 1 /\ i \in Int
    BY SMTT(30)
<1>b. \A i \in DOMAIN s : i # 1 => i - 1 \in DOMAIN t /\ t[i - 1] = s[i]
    BY SMTT(30)
<1>2. \A i, j \in Int : i + 1 = j + 1 => i = j
    BY SMTT(30)
<1> HIDE DEF t
<1>3. Once(t)
    BY <1>1, <1>2, <1>a DEF Once
<1>4. Head(s) \in Elements(s)
    BY <1>1 DEF Elements
<1>5. ASSUME NEW e \in Elements(t) PROVE e \in Elements(s) /\ e # Head(s)
    <2>1. PICK i \in DOMAIN t : e = t[i]
        BY DEF Elements
    <2> QED
        BY <1>1, <1>a, <2>1 DEF Elements, Once
<1>6. ASSUME NEW e \in Elements(s), e # Head(s) PROVE e \in Elements(t)
    <2>1. PICK i \in DOMAIN s : e = s[i]
        BY DEF Elements
    <2> QED
        BY <1>1, <1>6, <1>b, <2>1 DEF Elements
<1> QED
    BY <1>1, <1>3, <1>4, <1>5, <1>6 DEF t

LEMMA NothingHeld == Elements(<<>>) = {} /\ Once(<<>>)
    BY SMTT(30) DEF Elements, Once

-----------------------------------------------------------------------------
(* DeliveryInv is preserved.                                                *)

\* What an agent and a handler may do without an event coming to them.
AgentShrinks(a) ==
    /\ channel'[a] \in {channel[a], <<>>}
    /\ \/ batch'[a] = batch[a] /\ (agent'[a] = "wait" <=> agent[a] = "wait")
       \/ batch'[a] = <<>>
    /\ agent'[a] = "flush" => batch'[a] # <<>>
HandlerShrinks(h) ==
    \/ req'[h].Events = <<>> /\ pc'[h] \notin {"get"} \cup Working
    \/ /\ req'[h].Events = req[h].Events /\ Ahead(h)' \subseteq Ahead(h)
       /\ pc'[h] \in {"get"} \cup Working => req'[h].i \in 1..Len(req'[h].Events)

LEMMA AgentShrunk ==
    ASSUME NEW a \in Agents, AgentOK(a), AgentShrinks(a)
    PROVE  /\ Unsent(a)' \subseteq Unsent(a) /\ Once(channel'[a])
           /\ agent'[a] = "flush" => batch'[a] # <<>>
           /\ agent'[a] # "wait" =>
                 Once(batch'[a]) /\ Elements(channel'[a]) \cap Elements(batch'[a]) = {}
    BY NothingHeld DEF AgentOK, AgentShrinks, Unsent

\* What a handler has yet to ingest is part of its request.
LEMMA AheadHeld ==
    ASSUME NEW h \in Handlers, req[h].Events \in Seq(Events), req[h].i \in Nat \ {0}
    PROVE  Ahead(h) \subseteq Held(h)
<1>1. \A j \in Turn(h)..Len(req[h].Events) : j \in DOMAIN req[h].Events
    BY SMTT(30) DEF Turn
<1> QED
    BY <1>1 DEF Ahead, Held, Elements

LEMMA HandlerShrunk ==
    ASSUME NEW h \in Handlers, HandlerHolds(h), HandlerShrinks(h), req'[h] \in RequestType
    PROVE  /\ Held(h)' \subseteq Held(h) /\ Ahead(h)' \subseteq Ahead(h)
           /\ Once(req'[h].Events)
           /\ pc'[h] \in {"get"} \cup Working => req'[h].i \in 1..Len(req'[h].Events)
<1>1. CASE req'[h].Events = <<>> /\ pc'[h] \notin {"get"} \cup Working
    <2>1. Ahead(h)' = {}
        BY SMTT(30), <1>1 DEF Ahead, Turn, RequestType
    <2> QED
        BY <1>1, <2>1, NothingHeld DEF Held
<1>2. CASE req'[h].Events = req[h].Events /\ Ahead(h)' \subseteq Ahead(h)
    BY <1>2 DEF Held, HandlerHolds, HandlerShrinks, Working
<1> QED
    BY <1>1, <1>2 DEF HandlerShrinks

\* Where no event moves to, agents and handlers stay apart.
LEMMA ApartKept ==
    ASSUME Apart, \A a \in Agents : Unsent(a)' \subseteq Unsent(a),
           \A h \in Handlers : Held(h)' \subseteq Held(h)
    PROVE  Apart'
    BY DEF Apart

\* Batches and requests are dropped or worked off, and of the events that are left in them
\* none is ingested or audited.
LEMMA DeliveryStep ==
    ASSUME DeliveryInv, Shapes', Counted', occurred' = occurred,
           \A a \in Agents : AgentShrinks(a), \A h \in Handlers : HandlerShrinks(h),
           \A a \in Agents : \A e \in Unsent(a)' :
               ingested'[e] = ingested[e] /\ audited'[e].event = audited[e].event,
           \A h \in Handlers : \A e \in Held(h)' : audited'[e].event = audited[e].event,
           \A h \in Handlers : \A e \in Ahead(h)' : ingested'[e] = ingested[e]
    PROVE  DeliveryInv'
<1>1. ASSUME NEW a \in Agents PROVE AgentOK(a)' /\ Unsent(a)' \subseteq Unsent(a)
    BY AgentShrunk DEF AgentOK, DeliveryInv
<1>2. ASSUME NEW h \in Handlers PROVE HandlerHolds(h)' /\ Held(h)' \subseteq Held(h)
    <2>1. HandlerHolds(h) /\ req'[h] \in RequestType
        BY DEF DeliveryInv, Shapes
    <2>2. /\ Held(h)' \subseteq Held(h) /\ Ahead(h)' \subseteq Ahead(h)
          /\ Once(req'[h].Events)
          /\ pc'[h] \in {"get"} \cup Working => req'[h].i \in 1..Len(req'[h].Events)
        BY <2>1, HandlerShrunk
    <2> QED
        BY <2>1, <2>2 DEF HandlerHolds
<1>3. Apart'
    BY <1>1, <1>2, ApartKept DEF DeliveryInv
<1> QED
    BY <1>1, <1>2, <1>3 DEF DeliveryInv

LEMMA DeliveryKept ==
    ASSUME DeliveryInv, Shapes', occurred' = occurred, ingested' = ingested, audited' = audited,
           \A a \in Agents : AgentShrinks(a), \A h \in Handlers : HandlerShrinks(h)
    PROVE  DeliveryInv'
<1>1. Counted'
    BY DEF Counted, DeliveryInv
<1> QED
    BY <1>1, DeliveryStep

-----------------------------------------------------------------------------
(* What the actions do to requests.                                         *)

\* The request without its sender.
Like(q, r) ==
    /\ q.Events = r.Events /\ q.i = r.i /\ q.Profile = r.Profile
    /\ q.Old = r.Old /\ q.Decisions = r.Decisions

LEMMA NewProfileType ==
    ASSUME NEW n, n \in Nat
    PROVE  newProfile(n) \in ProfileType
    BY SMTT(30) DEF newProfile, ProfileType

\* A handler whose agent gave up goes on with the same request.
LEMMA OrphanedRequests ==
    ASSUME Shapes, NEW a \in Agents, req' = Orphaned(a)
    PROVE  /\ req' \in [Handlers -> RequestType]
           /\ \A h \in Handlers : Like(req'[h], req[h])
<1>1. ASSUME NEW q \in RequestType
      PROVE  [q EXCEPT !.From = NoAgent] \in RequestType /\ Like([q EXCEPT !.From = NoAgent], q)
    BY SMTT(30) DEF RequestType, Like
<1>2. \A h \in Handlers : req[h] \in RequestType /\ Like(req[h], req[h])
    BY DEF Shapes, Like
<1> QED
    BY <1>1, <1>2 DEF Orphaned

LEMMA NoRequestType == NoRequest \in RequestType /\ NoRequest.Events = <<>> /\ NoRequest.Decisions = {}
<1>1. newProfile(0) \in ProfileType /\ 0 \in 0..MaxEvents
    BY SMTT(30), NewProfileType, BoundsAssumption
<1>2. ASSUME NEW p \in ProfileType
      PROVE  LET q == [From |-> NoAgent, Events |-> <<>>, i |-> 1, Profile |-> 0, Old |-> p,
                       Decisions |-> {}]
             IN  q \in RequestType /\ q.Events = <<>> /\ q.Decisions = {}
    BY SMTT(30), <1>1 DEF RequestType
<1> QED
    BY <1>1, <1>2 DEF NoRequest, None

\* The fields of a request, written one at a time.
SentBy(q, v) == [q EXCEPT !.From = v]
WithEvents(q, v) == [q EXCEPT !.Events = v]
At(q, v) == [q EXCEPT !.i = v]
WithProfile(q, v) == [q EXCEPT !.Profile = v]
WithOld(q, v) == [q EXCEPT !.Old = v]
WithDecisions(q, v) == [q EXCEPT !.Decisions = v]

LEMMA SentByWrites ==
    ASSUME NEW q \in RequestType, NEW v \in Agents \cup {NoAgent}, NEW r, r = SentBy(q, v)
    PROVE  /\ r \in RequestType /\ r.From = v
           /\ r.Events = q.Events /\ r.i = q.i /\ r.Profile = q.Profile
           /\ r.Old = q.Old /\ r.Decisions = q.Decisions
    BY SMTT(30) DEF RequestType, SentBy
LEMMA WithEventsWrites ==
    ASSUME NEW q \in RequestType, NEW v \in Seq(Events), NEW r, r = WithEvents(q, v)
    PROVE  /\ r \in RequestType /\ r.Events = v
           /\ r.i = q.i /\ r.Profile = q.Profile /\ r.Old = q.Old
           /\ r.Decisions = q.Decisions
    BY SMTT(30) DEF RequestType, WithEvents
LEMMA AtWrites ==
    ASSUME NEW q \in RequestType, NEW v, v \in Nat \ {0}, NEW r, r = At(q, v)
    PROVE  /\ r \in RequestType /\ r.i = v
           /\ r.Events = q.Events /\ r.Profile = q.Profile /\ r.Old = q.Old
           /\ r.Decisions = q.Decisions
    BY SMTT(30) DEF RequestType, At
LEMMA WithProfileWrites ==
    ASSUME NEW q \in RequestType, NEW v, v \in 0..MaxEvents, NEW r, r = WithProfile(q, v)
    PROVE  /\ r \in RequestType /\ r.Profile = v
           /\ r.Events = q.Events /\ r.i = q.i /\ r.Old = q.Old
           /\ r.Decisions = q.Decisions
    BY SMTT(30) DEF RequestType, WithProfile
LEMMA WithOldWrites ==
    ASSUME NEW q \in RequestType, NEW v, v \in ProfileType, NEW r, r = WithOld(q, v)
    PROVE  /\ r \in RequestType /\ r.Old = v
           /\ r.Events = q.Events /\ r.i = q.i /\ r.Profile = q.Profile
           /\ r.Decisions = q.Decisions
    BY SMTT(30) DEF RequestType, WithOld
LEMMA WithDecisionsWrites ==
    ASSUME NEW q \in RequestType, NEW v, v \in SUBSET Events, NEW r, r = WithDecisions(q, v)
    PROVE  /\ r \in RequestType /\ r.Decisions = v
           /\ r.Events = q.Events /\ r.i = q.i /\ r.Profile = q.Profile
           /\ r.Old = q.Old
    BY SMTT(30) DEF RequestType, WithDecisions

\* A batch becomes a request (handleADEvents decodes the body).
Sent(a, s) == [NoRequest EXCEPT !.From = a, !.Events = s]
LEMMA SentRequest ==
    ASSUME NEW a \in Agents, NEW s \in Seq(Events), NEW r, r = Sent(a, s)
    PROVE  r \in RequestType /\ r.Events = s /\ r.i = 1 /\ r.Decisions = {}
<1>1. NoRequest \in RequestType /\ NoRequest.i = 1 /\ NoRequest.Decisions = {}
    BY SMTT(30), NoRequestType DEF NoRequest
<1>2. PICK x : x = SentBy(NoRequest, a)
    OBVIOUS
<1>3. r = WithEvents(x, s)
    BY SMTT(30), <1>2 DEF Sent, SentBy, WithEvents
<1>4. x \in RequestType /\ x.i = NoRequest.i /\ x.Decisions = NoRequest.Decisions
    BY SMTT(30), <1>1, <1>2, SentByWrites
<1>5. r \in RequestType /\ r.Events = s /\ r.i = x.i /\ r.Decisions = x.Decisions
    BY SMTT(30), <1>3, <1>4, WithEventsWrites
<1> QED
    BY <1>1, <1>4, <1>5

\* The profile at hand and what it was (GetProfile, or a new one).
Got(q, p, o) == [q EXCEPT !.Profile = p, !.Old = o]
LEMMA GotRequest ==
    ASSUME NEW q \in RequestType, NEW p, p \in 0..MaxEvents, NEW o \in ProfileType,
           NEW r, r = Got(q, p, o)
    PROVE  /\ r \in RequestType /\ r.Profile = p /\ r.Old = o
           /\ r.Events = q.Events /\ r.i = q.i /\ r.Decisions = q.Decisions
<1>1. PICK x : x = WithProfile(q, p)
    OBVIOUS
<1>2. r = WithOld(x, o)
    BY SMTT(30), <1>1 DEF Got, WithProfile, WithOld
<1>3. /\ x \in RequestType /\ x.Profile = p
      /\ x.Events = q.Events /\ x.i = q.i /\ x.Decisions = q.Decisions
    BY SMTT(30), <1>1, WithProfileWrites
<1>4. x \in RequestType
    BY <1>3
<1>5. /\ r \in RequestType /\ r.Old = o /\ r.Profile = x.Profile
      /\ r.Events = x.Events /\ r.i = x.i /\ r.Decisions = x.Decisions
    BY SMTT(30), <1>2, <1>4, WithOldWrites
<1> QED
    BY <1>3, <1>5

\* On to the next event, with the decisions so far.
Onward(q, d) == [q EXCEPT !.i = q.i + 1, !.Profile = None, !.Decisions = d]
LEMMA OnwardRequest ==
    ASSUME NEW q \in RequestType, NEW d \in SUBSET Events, NEW r, r = Onward(q, d)
    PROVE  /\ r \in RequestType /\ r.i = q.i + 1 /\ r.Decisions = d /\ r.Events = q.Events
<1>1. PICK n : n = q.i + 1
    OBVIOUS
<1>2. n \in Nat \ {0}
    BY SMTT(30), <1>1 DEF RequestType
<1>3. PICK z : z = None
    OBVIOUS
<1>4. z \in 0..MaxEvents
    BY SMTT(30), <1>3, BoundsAssumption DEF None
<1>5. PICK x : x = At(q, n)
    OBVIOUS
<1>6. PICK y : y = WithProfile(x, z)
    OBVIOUS
<1>7. r = WithDecisions(y, d)
    BY SMTT(30), <1>1, <1>3, <1>5, <1>6 DEF Onward, At, WithProfile, WithDecisions
<1>8. x \in RequestType /\ x.i = n /\ x.Events = q.Events
    BY SMTT(30), <1>2, <1>5, AtWrites
<1>9. x \in RequestType
    BY <1>8
<1>10. y \in RequestType /\ y.i = x.i /\ y.Events = x.Events
    BY SMTT(30), <1>4, <1>6, <1>9, WithProfileWrites
<1>11. y \in RequestType
    BY <1>10
<1>12. r \in RequestType /\ r.Decisions = d /\ r.i = y.i /\ r.Events = y.Events
    BY SMTT(30), <1>7, <1>11, WithDecisionsWrites
<1> QED
    BY <1>1, <1>8, <1>10, <1>12

\* A step of handler h: it has label l and request r afterwards.
Becomes(h, l, r) ==
    /\ pc' \in [Handlers -> Labels] /\ req' \in [Handlers -> RequestType]
    /\ pc'[h] = l /\ req'[h] = r
    /\ \A g \in Handlers : g # h => pc'[g] = pc[g] /\ req'[g] = req[g]

LEMMA HandlerBecomes ==
    ASSUME Shapes, NEW h \in Handlers, NEW l \in Labels, NEW r \in RequestType,
           pc' = [pc EXCEPT ![h] = l], req' = [req EXCEPT ![h] = r]
    PROVE  Becomes(h, l, r)
    BY DEF Shapes, Becomes

LEMMA LogEvents ==
    ASSUME NEW o \in Seq(Parsed), Len(o) <= MaxEvents
    PROVE  DOMAIN o \subseteq Events
<1>1. MaxEvents \in Nat
    BY BoundsAssumption
<1> QED
    BY SMTT(30), <1>1 DEF Events

LEMMA OccurredEvents ==
    ASSUME Shapes
    PROVE  DOMAIN occurred \subseteq Events
    BY LogEvents DEF Shapes

LEMMA ParsedFields ==
    ASSUME NEW ev \in Parsed
    PROVE  ev.Day \in Nat /\ ev.AccountSID \in SIDs \cup {Absent}
<1>1. PICK log \in Logged, d \in Nat : ev = ParseEventXML(log, d)
    BY SMTT(30) DEF Parsed
<1>2. ev.Day = d /\ ev.AccountSID = IF NamesAccount(log.EventID) THEN log.TargetSid ELSE Absent
    BY SMTT(30), <1>1 DEF ParseEventXML
<1> QED
    BY <1>1, <1>2, LoggedAssumption

\* The event at hand has occurred, and is one of the request's.
LEMMA EventAtHand ==
    ASSUME Shapes, NEW h \in Handlers, HandlerHolds(h), pc[h] \in {"get"} \cup Working
    PROVE  /\ req[h] \in RequestType /\ req[h].i \in 1..Len(req[h].Events)
           /\ Event(h) \in Held(h) /\ Event(h) \in DOMAIN occurred /\ Event(h) \in Events
           /\ Record(h) \in Parsed /\ Record(h).Day <= today
           /\ Record(h).Day \in Nat /\ Record(h).AccountSID \in SIDs \cup {Absent}
<1>1. req[h] \in RequestType /\ req[h].i \in 1..Len(req[h].Events)
    BY DEF Shapes, HandlerHolds
<1>2. req[h].i \in DOMAIN req[h].Events /\ Event(h) \in Events
    BY SMTT(30), <1>1 DEF RequestType, Event
<1>3. Event(h) \in Held(h)
    BY <1>2 DEF Held, Elements, Event
<1>4. Event(h) \in DOMAIN occurred
    BY <1>3 DEF HandlerHolds
<1>5. Record(h) \in Parsed
    BY SMTT(30), <1>4 DEF Record, Shapes
<1> QED
    BY <1>1, <1>2, <1>3, <1>4, <1>5, ParsedFields DEF Shapes, Record

Server == profiles \in [Events -> ProfileType] /\ stored \in [SIDs -> 0..MaxEvents]

LEMMA LabelAfter ==
    ASSUME NEW h \in Handlers
    PROVE  Next_i(h) \in {"get", "audit"} /\ Next_i(h) \in Labels
    BY DEF Next_i, Labels

\* What GetProfile makes of the event at hand.
LEMMA GetEffect ==
    ASSUME Shapes, Server, NEW h \in Handlers, HandlerHolds(h), Get(h)
    PROVE  \/ /\ Owner(Event(h)) = Absent /\ profiles' = profiles
              /\ \E r \in RequestType :
                    Becomes(h, Next_i(h), r) /\ r = At(req[h], req[h].i + 1)
           \/ /\ Owner(Event(h)) \in SIDs /\ Owner(Event(h)) # Absent
              /\ stored[Owner(Event(h))] = None
              /\ profiles' = [profiles EXCEPT ![Event(h)] = newProfile(today)]
              /\ \E r \in RequestType :
                    /\ Becomes(h, "update", r)
                    /\ r = Got(req[h], Event(h), newProfile(today))
           \/ /\ Owner(Event(h)) \in SIDs /\ Owner(Event(h)) # Absent
              /\ stored[Owner(Event(h))] \in Events
              /\ profiles' = profiles
              /\ \E r \in RequestType :
                    /\ Becomes(h, "update", r)
                    /\ r = Got(req[h], stored[Owner(Event(h))], profiles[stored[Owner(Event(h))]])
<1>1. pc[h] \in {"get"} \cup Working
    BY DEF Get
<1>2. /\ req[h] \in RequestType /\ Event(h) \in Events /\ today \in Nat
      /\ Record(h).AccountSID \in SIDs \cup {Absent} /\ Owner(Event(h)) = Record(h).AccountSID
    BY <1>1, EventAtHand DEF Shapes, Owner, Record
<1>3. CASE Record(h).AccountSID = Absent
    <2>1. PICK r : r = At(req[h], req[h].i + 1)
        OBVIOUS
    <2>2. /\ pc' = [pc EXCEPT ![h] = Next_i(h)] /\ req' = [req EXCEPT ![h] = r]
          /\ profiles' = profiles
        BY <1>3, <2>1 DEF Get, At
    <2>3. req[h].i + 1 \in Nat \ {0}
        BY SMTT(30), <1>2 DEF RequestType
    <2>4. r \in RequestType
        BY SMTT(30), <1>2, <2>1, <2>3, AtWrites
    <2> QED
        BY <1>2, <1>3, <2>1, <2>2, <2>4, HandlerBecomes, LabelAfter
<1>4. CASE Record(h).AccountSID # Absent /\ stored[Record(h).AccountSID] = None
    <2>1. PICK r : r = Got(req[h], Event(h), newProfile(today))
        OBVIOUS
    <2>2. /\ pc' = [pc EXCEPT ![h] = "update"] /\ req' = [req EXCEPT ![h] = r]
          /\ profiles' = [profiles EXCEPT ![Event(h)] = newProfile(today)]
        BY <1>4, <2>1 DEF Get, Got
    <2>3. Event(h) \in 0..MaxEvents /\ newProfile(today) \in ProfileType
        BY SMTT(30), <1>2, NewProfileType DEF Events
    <2>4. r \in RequestType
        BY <1>2, <2>1, <2>3, GotRequest
    <2> QED
        BY <1>2, <1>4, <2>1, <2>2, <2>4, HandlerBecomes DEF Labels, Working
<1>5. CASE Record(h).AccountSID # Absent /\ stored[Record(h).AccountSID] # None
    <2> DEFINE p == stored[Record(h).AccountSID]
    <2>1. PICK r : r = Got(req[h], p, profiles[p])
        OBVIOUS
    <2>2. /\ pc' = [pc EXCEPT ![h] = "update"] /\ req' = [req EXCEPT ![h] = r]
          /\ profiles' = profiles
        BY <1>5, <2>1 DEF Get, Got
    <2>3. p \in 0..MaxEvents
        BY <1>2, <1>5 DEF Server
    <2>4. p \in Events
        BY SMTT(30), <1>5, <2>3 DEF Events, None
    <2>5. profiles[p] \in ProfileType
        BY <2>4 DEF Server
    <2> HIDE DEF p
    <2>6. r \in RequestType
        BY <1>2, <2>1, <2>3, <2>5, GotRequest
    <2> QED
        BY <1>2, <1>5, <2>1, <2>2, <2>4, <2>6, HandlerBecomes DEF Labels, Working, p
<1> QED
    BY <1>3, <1>4, <1>5

LEMMA UpdateEffect ==
    ASSUME Shapes, NEW h \in Handlers, Update(h)
    PROVE  \E r \in RequestType :
              Becomes(h, "classify", r) /\ r = WithOld(req[h], newProfile(0))
<1>1. PICK r : r = WithOld(req[h], newProfile(0))
    OBVIOUS
<1>2. pc' = [pc EXCEPT ![h] = "classify"] /\ req' = [req EXCEPT ![h] = r]
    BY <1>1 DEF Update, WithOld
<1>3. req[h] \in RequestType /\ newProfile(0) \in ProfileType
    <2>1. 0 \in Nat
        BY SMTT(30)
    <2> QED
        BY <2>1, NewProfileType DEF Shapes
<1>4. r \in RequestType
    BY SMTT(30), <1>1, <1>3, WithOldWrites
<1> QED
    BY <1>1, <1>2, <1>4, HandlerBecomes DEF Labels, Working

LEMMA ClassifyEffect ==
    ASSUME Shapes, NEW h \in Handlers, Classify(h) \/ Baseline(h)
    PROVE  \E l \in {"baseline", "upsert"} : Becomes(h, l, req[h])
<1>1. PICK l \in {"baseline", "upsert"} : pc' = [pc EXCEPT ![h] = l]
    BY DEF Classify, Baseline
<1>2. req' = [req EXCEPT ![h] = req[h]] /\ req[h] \in RequestType
    BY DEF Shapes, Classify, Baseline
<1> QED
    BY <1>1, <1>2, HandlerBecomes DEF Labels, Working

Denied(h) ==
    Profile(h).Classified /\ Profile(h).Baseline.Built /\ deviates(Profile(h).Baseline, Record(h))

LEMMA UpsertEffect ==
    ASSUME Shapes, NEW h \in Handlers, HandlerHolds(h), Upsert(h)
    PROVE  \E r \in RequestType, d \in SUBSET Events :
              /\ Becomes(h, Next_i(h), r) /\ r = Onward(req[h], d)
              /\ d = IF Denied(h) THEN req[h].Decisions \cup {Event(h)} ELSE req[h].Decisions
<1>1. PICK d : d = IF Denied(h) THEN req[h].Decisions \cup {Event(h)} ELSE req[h].Decisions
    OBVIOUS
<1>2. PICK r : r = Onward(req[h], d)
    OBVIOUS
<1>3. pc' = [pc EXCEPT ![h] = Next_i(h)] /\ req' = [req EXCEPT ![h] = r]
    BY <1>1, <1>2 DEF Upsert, Onward, Denied
<1>4. req[h] \in RequestType /\ Event(h) \in Events
    BY EventAtHand DEF Upsert, Working
<1>5. req[h].Decisions \in SUBSET Events
    BY SMTT(30), <1>4 DEF RequestType
<1>6. d \in SUBSET Events
    BY <1>1, <1>4, <1>5
<1>7. r \in RequestType
    BY <1>2, <1>4, <1>6, OnwardRequest
<1> QED
    BY <1>1, <1>2, <1>3, <1>6, <1>7, HandlerBecomes, LabelAfter

LEMMA AuditEffect ==
    ASSUME Shapes, NEW h \in Handlers, Audit(h)
    PROVE  Becomes(h, "idle", NoRequest)
<1>1. PICK r \in RequestType : r = NoRequest
    BY NoRequestType
<1>2. pc' = [pc EXCEPT ![h] = "idle"] /\ req' = [req EXCEPT ![h] = r]
    BY <1>1 DEF Audit
<1>3. Becomes(h, "idle", r)
    BY <1>2, HandlerBecomes DEF Labels
<1> QED
    BY <1>1, <1>3

LEMMA SendEffect ==
    ASSUME Shapes, NEW a \in Agents, NEW h \in Handlers, Send(a, h)
    PROVE  \E r \in RequestType : /\ Becomes(h, "get", r)
                                  /\ r.Events = batch[a] /\ r.i = 1 /\ r.Decisions = {}
<1>1. PICK r : r = Sent(a, batch[a])
    OBVIOUS
<1>2. pc' = [pc EXCEPT ![h] = "get"] /\ req' = [req EXCEPT ![h] = r]
    BY <1>1 DEF Send, Sent
<1>3. batch[a] \in Seq(Events)
    BY DEF Shapes
<1>4. r \in RequestType /\ r.Events = batch[a] /\ r.i = 1 /\ r.Decisions = {}
    BY SMTT(30), <1>1, <1>3, SentRequest
<1> QED
    BY <1>2, <1>4, HandlerBecomes DEF Labels

\* What is ahead after a step that leaves the request's events as they are.
LEMMA AheadAfter ==
    ASSUME NEW h \in Handlers, req[h] \in RequestType, req'[h] \in RequestType,
           req'[h].Events = req[h].Events, Turn(h)' >= Turn(h)
    PROVE  Ahead(h)' \subseteq Ahead(h)
<1>1. Turn(h) \in Int /\ Turn(h)' \in Int /\ Len(req[h].Events) \in Int
    BY SMTT(30) DEF RequestType, Turn
<1>2. \A j \in (Turn(h)..Len(req[h].Events))' : j \in Turn(h)..Len(req[h].Events)
    BY SMTT(30), <1>1
<1> QED
    BY <1>2 DEF Ahead

\* A handler's own step on its way through the events of its request.
LEMMA HandlerMoves ==
    ASSUME DeliveryInv, NEW h \in Handlers, NEW l \in Labels, NEW r \in RequestType,
           Becomes(h, l, r), r.Events = req[h].Events, Turn(h)' >= Turn(h),
           l \in {"get"} \cup Working => r.i \in 1..Len(r.Events)
    PROVE  \A g \in Handlers : HandlerShrinks(g)
<1>1. /\ \A g \in Handlers : g # h => pc'[g] = pc[g] /\ req'[g] = req[g]
      /\ \A g \in Handlers : req[g] \in RequestType
      /\ req'[h] = r /\ pc'[h] = l
    BY DEF Becomes, DeliveryInv, Shapes
<1>2. HandlerShrinks(h)
    <2>1. req[h] \in RequestType /\ req'[h] \in RequestType /\ req'[h].Events = req[h].Events
        BY <1>1
    <2>2. Ahead(h)' \subseteq Ahead(h)
        BY <2>1, AheadAfter
    <2> QED
        BY <1>1, <2>1, <2>2 DEF HandlerShrinks
<1>3. ASSUME NEW g \in Handlers, g # h PROVE HandlerShrinks(g)
    <2>1. pc'[g] = pc[g] /\ req'[g] = req[g] /\ HandlerHolds(g)
        BY <1>1, <1>3 DEF DeliveryInv
    <2>2. Ahead(g)' = Ahead(g)
        BY <2>1 DEF Ahead, Turn
    <2> QED
        BY <2>1, <2>2 DEF HandlerShrinks, HandlerHolds
<1> QED
    BY <1>2, <1>3

LEMMA AgentsStay ==
    ASSUME DeliveryInv, UNCHANGED <<channel, batch, agent>>
    PROVE  \A a \in Agents : AgentShrinks(a)
    BY DEF DeliveryInv, AgentOK, AgentShrinks

\* The labels at which the event at hand is still to be ingested come first.
LEMMA TurnAt ==
    ASSUME NEW h \in Handlers, NEW l, NEW r, Becomes(h, l, r)
    PROVE  /\ Turn(h)' = IF l \in {"get", "update"} THEN r.i ELSE r.i + 1
           /\ pc'[h] = l /\ req'[h] = r
    BY DEF Becomes, Turn

\* An event is passed over, or its profile is looked up.
LEMMA GetDelivery ==
    ASSUME DeliveryInv, Server, NEW h \in Handlers, Get(h)
    PROVE  DeliveryInv'
<1>1. Shapes /\ HandlerHolds(h) /\ pc[h] = "get"
    BY DEF DeliveryInv, Get
<1>2. req[h] \in RequestType /\ req[h].i \in 1..Len(req[h].Events) /\ Turn(h) = req[h].i
    BY <1>1, EventAtHand DEF Turn
<1>3. PICK l \in Labels, r \in RequestType :
         /\ Becomes(h, l, r) /\ r.Events = req[h].Events
         /\ \/ l = "update" /\ r.i = req[h].i
            \/ l = Next_i(h) /\ r.i = req[h].i + 1
    <2>1. CASE \E r \in RequestType :
                  Becomes(h, Next_i(h), r) /\ r = At(req[h], req[h].i + 1)
        <3>1. PICK r \in RequestType : Becomes(h, Next_i(h), r) /\ r = At(req[h], req[h].i + 1)
            BY <2>1
        <3>2. PICK n : n = req[h].i + 1
            OBVIOUS
        <3>3. n \in Nat \ {0}
            BY SMTT(30), <1>2, <3>2 DEF RequestType
        <3>4. r.Events = req[h].Events /\ r.i = n
            BY SMTT(30), <1>2, <3>1, <3>2, <3>3, AtWrites
        <3> QED
            BY <3>1, <3>2, <3>4, LabelAfter
    <2>2. CASE \E r \in RequestType, p \in Events, o \in ProfileType :
                  Becomes(h, "update", r) /\ r = Got(req[h], p, o)
        <3>1. PICK r \in RequestType, p \in Events, o \in ProfileType :
                 Becomes(h, "update", r) /\ r = Got(req[h], p, o)
            BY <2>2
        <3>2. p \in 0..MaxEvents
            BY SMTT(30) DEF Events
        <3>3. r.Events = req[h].Events /\ r.i = req[h].i
            BY SMTT(30), <1>2, <3>1, <3>2, GotRequest
        <3> QED
            BY <3>1, <3>3 DEF Labels, Working
    <2>3. Event(h) \in Events /\ newProfile(today) \in ProfileType
        BY <1>1, EventAtHand, NewProfileType DEF Shapes
    <2>4. \A p \in Events : profiles[p] \in ProfileType
        BY DEF Server
    <2> QED
        BY <1>1, <2>1, <2>2, <2>3, <2>4, GetEffect
<1>4. Turn(h)' >= Turn(h) /\ (l \in {"get"} \cup Working => r.i \in 1..Len(r.Events))
    <2>1. Turn(h)' = IF l \in {"get", "update"} THEN r.i ELSE r.i + 1
        BY <1>3, TurnAt
    <2>2. l = Next_i(h) => l \in {"get", "audit"} /\ (l = "get" => req[h].i < Len(req[h].Events))
        BY SMTT(30) DEF Next_i
    <2> QED
        BY SMTT(30), <1>2, <1>3, <2>1, <2>2 DEF RequestType, Working
<1>5. /\ occurred' = occurred /\ ingested' = ingested /\ audited' = audited
      /\ UNCHANGED <<channel, batch, agent, today>>
    BY DEF Get, agentVars
<1>6. Shapes'
    BY <1>1, <1>3, <1>5 DEF Shapes, Becomes
<1> QED
    BY <1>3, <1>4, <1>5, <1>6, AgentsStay, HandlerMoves, DeliveryKept

LEMMA ClassifyDelivery ==
    ASSUME DeliveryInv, NEW h \in Handlers, Classify(h) \/ Baseline(h)
    PROVE  DeliveryInv'
<1>1. Shapes /\ HandlerHolds(h) /\ pc[h] \in {"classify", "baseline"}
    BY DEF DeliveryInv, Classify, Baseline
<1>2. PICK l \in {"baseline", "upsert"} : Becomes(h, l, req[h])
    BY <1>1, ClassifyEffect
<1>3. /\ req[h] \in RequestType /\ req[h].i \in 1..Len(req[h].Events)
      /\ Turn(h) = req[h].i + 1 /\ Turn(h)' = req[h].i + 1 /\ l \in Labels
    BY <1>1, <1>2, EventAtHand, TurnAt DEF Turn, Working, Labels
<1>4. Turn(h)' >= Turn(h)
    BY SMTT(30), <1>3
<1>5. /\ occurred' = occurred /\ ingested' = ingested /\ audited' = audited
      /\ UNCHANGED <<channel, batch, agent, today>>
    BY DEF Classify, Baseline, agentVars
<1>6. Shapes'
    BY <1>1, <1>2, <1>5 DEF Shapes, Becomes
<1> QED
    BY <1>2, <1>3, <1>4, <1>5, <1>6, AgentsStay, HandlerMoves, DeliveryKept

LEMMA UpsertDelivery ==
    ASSUME DeliveryInv, NEW h \in Handlers, Upsert(h)
    PROVE  DeliveryInv'
<1>1. Shapes /\ HandlerHolds(h) /\ pc[h] = "upsert"
    BY DEF DeliveryInv, Upsert
<1>2. PICK r \in RequestType, d \in SUBSET Events :
         Becomes(h, Next_i(h), r) /\ r = Onward(req[h], d)
    BY <1>1, UpsertEffect
<1>3. /\ req[h] \in RequestType /\ req[h].i \in 1..Len(req[h].Events)
      /\ Turn(h) = req[h].i + 1
    BY <1>1, EventAtHand DEF Turn, Working
<1>4. r.i = req[h].i + 1 /\ r.Events = req[h].Events
    BY <1>2, <1>3, OnwardRequest
<1>5. Next_i(h) \in {"get", "audit"} /\ Next_i(h) \in Labels
    BY LabelAfter
<1>6. /\ Turn(h)' >= Turn(h)
      /\ Next_i(h) \in {"get"} \cup Working => r.i \in 1..Len(r.Events)
    <2>1. Turn(h)' = IF Next_i(h) \in {"get", "update"} THEN r.i ELSE r.i + 1
        BY <1>2, TurnAt
    <2>2. Next_i(h) = "get" => req[h].i < Len(req[h].Events)
        BY SMTT(30) DEF Next_i
    <2> QED
        BY SMTT(30), <1>3, <1>4, <1>5, <2>1, <2>2 DEF RequestType, Working
<1>7. /\ occurred' = occurred /\ ingested' = ingested /\ audited' = audited
      /\ UNCHANGED <<channel, batch, agent, today>>
    BY DEF Upsert, agentVars
<1>8. Shapes'
    BY <1>1, <1>2, <1>7 DEF Shapes, Becomes
<1> QED
    BY <1>2, <1>4, <1>5, <1>6, <1>7, <1>8, AgentsStay, HandlerMoves, DeliveryKept

\* The event at hand is ahead of nobody once it is ingested.
LEMMA UpdateDelivery ==
    ASSUME DeliveryInv, NEW h \in Handlers, Update(h)
    PROVE  DeliveryInv' /\ ingested[Event(h)] = 0 /\ ingested'[Event(h)] = 1
<1>1. Shapes /\ HandlerHolds(h) /\ pc[h] = "update" /\ Apart /\ Counted
    BY DEF DeliveryInv, Update
<1>2. PICK r \in RequestType : Becomes(h, "classify", r) /\ r = WithOld(req[h], newProfile(0))
    BY <1>1, UpdateEffect
<1>3. /\ req[h] \in RequestType /\ req[h].i \in 1..Len(req[h].Events)
      /\ Turn(h) = req[h].i /\ Event(h) \in Events /\ Event(h) \in Held(h)
      /\ Event(h) \in DOMAIN occurred
    BY <1>1, EventAtHand DEF Turn, Working
<1>4. r.i = req[h].i /\ r.Events = req[h].Events
    BY SMTT(30), <1>2, <1>3, NewProfileType, WithOldWrites
<1>5. Turn(h)' = req[h].i + 1 /\ pc'[h] = "classify" /\ req'[h] = r
    <2>1. Turn(h)' = r.i + 1 /\ pc'[h] = "classify" /\ req'[h] = r
        BY <1>2, TurnAt
    <2> QED
        BY <1>4, <2>1
<1>6. Turn(h)' >= Turn(h) /\ r.i \in 1..Len(r.Events)
    BY SMTT(30), <1>3, <1>4, <1>5
<1>7. /\ occurred' = occurred /\ audited' = audited
      /\ UNCHANGED <<channel, batch, agent, today>>
      /\ ingested' = [ingested EXCEPT ![Event(h)] = @ + 1]
    BY DEF Update, agentVars
<1>8. Event(h) \in Ahead(h)
    <2>1. req[h].i \in Turn(h)..Len(req[h].Events)
        BY SMTT(30), <1>3
    <2> QED
        BY <2>1 DEF Ahead, Event
<1>9. ingested[Event(h)] = 0
    BY <1>1, <1>8 DEF HandlerHolds
<1>10. /\ ingested' \in [Events -> Nat] /\ ingested'[Event(h)] = 1
       /\ \A e \in Events : e # Event(h) => ingested'[e] = ingested[e]
    BY SMTT(30), <1>1, <1>3, <1>7, <1>9 DEF Shapes
<1>11. Shapes'
    BY <1>1, <1>2, <1>7, <1>10 DEF Shapes, Becomes
<1>12. Counted'
    <2>1. 1 <= 1
        BY SMTT(30)
    <2> QED
        BY <1>1, <1>3, <1>7, <1>10, <2>1 DEF Counted
<1>13. ASSUME NEW a \in Agents, NEW e \in Unsent(a)' PROVE ingested'[e] = ingested[e]
    <2>1. e \in Unsent(a) /\ e \notin Held(h) /\ e \in DOMAIN occurred
        BY <1>1, <1>7 DEF Unsent, Apart, DeliveryInv, AgentOK
    <2>2. e \in Events
        BY <1>1, <2>1, OccurredEvents
    <2> QED
        BY <1>3, <1>10, <2>1, <2>2
<1>14. \A g \in Handlers : HandlerShrinks(g)
    BY <1>2, <1>4, <1>6, HandlerMoves DEF Labels, Working
<1>15. ASSUME NEW g \in Handlers, NEW e \in Ahead(g)' PROVE ingested'[e] = ingested[e]
    <2>1. CASE g = h
        <3>1. PICK j \in (Turn(h)..Len(req[h].Events))' : e = req'[h].Events[j]
            BY <2>1 DEF Ahead
        <3>2. j \in DOMAIN req[h].Events /\ req[h].i \in DOMAIN req[h].Events /\ j # req[h].i
            BY SMTT(30), <1>3, <1>4, <1>5, <3>1 DEF RequestType
        <3>3. e = req[h].Events[j] /\ e # Event(h)
            BY <1>1, <1>4, <1>5, <3>1, <3>2 DEF HandlerHolds, Once, Event
        <3>4. e \in Events
            BY SMTT(30), <1>3, <3>2, <3>3 DEF RequestType
        <3> QED
            BY <1>10, <3>3, <3>4
    <2>2. CASE g # h
        <3>1. Ahead(g)' = Ahead(g) /\ req[g] \in RequestType
            BY <1>1, <1>2, <2>2 DEF Becomes, Ahead, Turn, Shapes
        <3>2. req[g].Events \in Seq(Events) /\ req[g].i \in Nat \ {0}
            BY SMTT(30), <3>1 DEF RequestType
        <3>3. e \in Held(g)
            BY <3>1, <3>2, AheadHeld
        <3>4. e # Event(h)
            BY <1>1, <1>3, <2>2, <3>3 DEF Apart
        <3>5. e \in Events
            BY SMTT(30), <3>2, <3>3 DEF Held, Elements
        <3> QED
            BY <1>10, <3>4, <3>5
    <2> QED
        BY <2>1, <2>2
<1>16. \A a \in Agents : AgentShrinks(a)
    BY <1>7, AgentsStay
<1>17. DeliveryInv'
    BY <1>7, <1>11, <1>12, <1>13, <1>14, <1>15, <1>16, DeliveryStep
<1> QED
    BY <1>9, <1>10, <1>17

\* The agents whose requests end with the answer, or without one.
LEMMA AnsweredAgents ==
    ASSUME DeliveryInv, NEW as, Answered(as), channel' = channel
    PROVE  /\ \A a \in Agents : AgentShrinks(a)
           /\ agent' \in [Agents -> AgentStates] /\ batch' \in [Agents -> Seq(Events)]
<1>1. ASSUME NEW a \in Agents
      PROVE  /\ AgentShrinks(a) /\ agent'[a] \in AgentStates
             /\ batch'[a] = <<>> \/ batch'[a] = batch[a]
    BY DEF DeliveryInv, AgentOK, AgentShrinks, Answered, Shapes, AgentStates
<1>2. \A a \in Agents : batch'[a] \in Seq(Events)
    <2>1. <<>> \in Seq(Events)
        BY SMTT(30)
    <2> QED
        BY <1>1, <2>1 DEF DeliveryInv, Shapes
<1>3. agent' = [a \in Agents |-> agent'[a]] /\ batch' = [a \in Agents |-> batch'[a]]
    BY DEF Answered
<1> QED
    BY <1>1, <1>2, <1>3

\* A handler that ends leaves nothing behind, and those that go on are not concerned.
LEMMA HandlerEnds ==
    ASSUME DeliveryInv, NEW h \in Handlers, NEW r \in RequestType, Becomes(h, "idle", r),
           r.Events = <<>>
    PROVE  \A g \in Handlers : HandlerShrinks(g)
<1>1. HandlerShrinks(h)
    BY DEF Becomes, HandlerShrinks, Working
<1>2. ASSUME NEW g \in Handlers, g # h PROVE HandlerShrinks(g)
    <2>1. pc'[g] = pc[g] /\ req'[g] = req[g] /\ HandlerHolds(g)
        BY <1>2 DEF DeliveryInv, Becomes
    <2>2. Ahead(g)' = Ahead(g)
        BY <2>1 DEF Ahead, Turn
    <2> QED
        BY <2>1, <2>2 DEF HandlerShrinks, HandlerHolds
<1> QED
    BY <1>1, <1>2

\* The events of the request are audited once, as they are in no other place.
LEMMA AuditDelivery ==
    ASSUME DeliveryInv, NEW h \in Handlers, Audit(h)
    PROVE  DeliveryInv'
<1>1. Shapes /\ HandlerHolds(h) /\ Apart /\ Counted
    BY DEF DeliveryInv
<1>2. PICK r \in RequestType : r = NoRequest /\ Becomes(h, "idle", r)
    BY <1>1, AuditEffect, NoRequestType
<1>3. /\ occurred' = occurred /\ ingested' = ingested /\ channel' = channel /\ today' = today
      /\ Answered({req[h].From})
    BY DEF Audit
<1>4. \A g \in Handlers : HandlerShrinks(g)
    BY <1>2, NoRequestType, HandlerEnds
<1>5. /\ \A a \in Agents : AgentShrinks(a)
      /\ agent' \in [Agents -> AgentStates] /\ batch' \in [Agents -> Seq(Events)]
    BY <1>3, AnsweredAgents
<1>6. \A e \in Events : audited[e].event \in Nat /\ audited[e].deviation \in Nat
    BY SMTT(30), <1>1 DEF Shapes
<1>7. /\ audited' = [e \in Events |-> audited'[e]]
      /\ \A e \in Events : audited'[e] =
            [event |-> audited[e].event + (IF e \in Held(h) THEN 1 ELSE 0),
             deviation |-> audited[e].deviation + (IF e \in req[h].Decisions THEN 1 ELSE 0)]
    BY DEF Audit, Held, Elements
<1>8. ASSUME NEW e \in Events
      PROVE  /\ audited'[e] \in [event : Nat, deviation : Nat]
             /\ audited'[e].event = IF e \in Held(h) THEN audited[e].event + 1 ELSE audited[e].event
    <2>1. CASE e \in Held(h)
        BY SMTT(30), <1>6, <1>7, <2>1
    <2>2. CASE e \notin Held(h)
        BY SMTT(30), <1>6, <1>7, <2>2
    <2> QED
        BY <2>1, <2>2
<1>9. audited' \in [Events -> [event : Nat, deviation : Nat]]
    BY <1>7, <1>8
<1>10. Shapes'
    BY <1>1, <1>2, <1>3, <1>5, <1>9 DEF Shapes, Becomes
<1>11. ASSUME NEW e \in Held(h) PROVE audited[e].event = 0 /\ e \in DOMAIN occurred /\ e \in Events
    BY <1>1, OccurredEvents DEF HandlerHolds
<1>12. Counted'
    <2>1. \A e \in Held(h) : audited'[e].event <= 1
        BY SMTT(30), <1>8, <1>11
    <2> QED
        BY <1>1, <1>3, <1>8, <1>11, <2>1 DEF Counted
<1>13. ASSUME NEW e \in Events, e \notin Held(h) PROVE audited'[e].event = audited[e].event
    BY <1>8, <1>13
<1>14. ASSUME NEW a \in Agents, NEW e \in Unsent(a)'
       PROVE  ingested'[e] = ingested[e] /\ audited'[e].event = audited[e].event
    <2>1. Unsent(a)' \subseteq Unsent(a) /\ AgentOK(a)
        BY <1>5, AgentShrunk DEF DeliveryInv
    <2>2. e \notin Held(h) /\ e \in Events
        BY <1>1, <2>1, OccurredEvents DEF Apart, AgentOK
    <2> QED
        BY <1>3, <1>13, <2>2
<1>15. ASSUME NEW g \in Handlers, NEW e \in Held(g)' PROVE audited'[e].event = audited[e].event
    <2>1. g # h
        BY <1>2, NoRequestType, NothingHeld DEF Becomes, Held
    <2>2. e \in Held(g)
        BY <1>2, <2>1 DEF Becomes, Held
    <2>3. e \notin Held(h) /\ e \in Events
        BY <1>1, <2>1, <2>2, OccurredEvents DEF Apart, DeliveryInv, HandlerHolds
    <2> QED
        BY <1>13, <2>3
<1> QED
    BY <1>3, <1>4, <1>5, <1>10, <1>12, <1>14, <1>15, DeliveryStep

\* A crash of the server ends every request.
LEMMA FatalDelivery ==
    ASSUME DeliveryInv, NEW h \in Handlers, FatalMapAccess(h)
    PROVE  DeliveryInv'
<1>1. /\ occurred' = occurred /\ ingested' = ingested /\ audited' = audited
      /\ channel' = channel /\ today' = today
      /\ Answered({a \in Agents : agent[a] = "wait"})
      /\ pc' = [g \in Handlers |-> "idle"] /\ req' = [g \in Handlers |-> NoRequest]
    BY DEF FatalMapAccess
<1>2. \A g \in Handlers : HandlerShrinks(g)
    BY <1>1, NoRequestType DEF HandlerShrinks, Working
<1>3. /\ \A a \in Agents : AgentShrinks(a)
      /\ agent' \in [Agents -> AgentStates] /\ batch' \in [Agents -> Seq(Events)]
    BY <1>1, AnsweredAgents
<1>4. pc' \in [Handlers -> Labels] /\ req' \in [Handlers -> RequestType]
    BY <1>1, NoRequestType DEF Labels
<1>5. Shapes'
    BY <1>1, <1>3, <1>4 DEF Shapes, DeliveryInv
<1> QED
    BY <1>1, <1>2, <1>3, <1>5, DeliveryKept

\* Requests that only lose their sender.
LEMMA HandlersStay ==
    ASSUME DeliveryInv, pc' = pc, \A h \in Handlers : Like(req'[h], req[h])
    PROVE  \A h \in Handlers : HandlerShrinks(h)
<1>1. ASSUME NEW h \in Handlers PROVE HandlerShrinks(h)
    <2>1. pc'[h] = pc[h] /\ req'[h].Events = req[h].Events /\ req'[h].i = req[h].i
        BY DEF Like
    <2>2. Ahead(h)' = Ahead(h)
        BY <2>1 DEF Ahead, Turn
    <2> QED
        BY <2>1, <2>2 DEF HandlerShrinks, HandlerHolds, DeliveryInv
<1> QED
    BY <1>1

\* What an agent drops, it does not have any more.
LEMMA FlushFailsDelivery ==
    ASSUME DeliveryInv, NEW a \in Agents, FlushFails(a) \/ Stop(a)
    PROVE  DeliveryInv'
<1>1. /\ occurred' = occurred /\ ingested' = ingested /\ audited' = audited
      /\ today' = today /\ pc' = pc /\ req' = Orphaned(a)
    BY DEF FlushFails, Stop
<1>2. Shapes /\ req' \in [Handlers -> RequestType] /\ \A h \in Handlers : Like(req'[h], req[h])
    BY <1>1, OrphanedRequests DEF DeliveryInv
<1>3. <<>> \in Seq(Events)
    BY SMTT(30)
<1>4. /\ agent' \in [Agents -> AgentStates]
      /\ batch' \in [Agents -> Seq(Events)] /\ channel' \in [Agents -> Seq(Events)]
    BY <1>2, <1>3 DEF FlushFails, Stop, Shapes, AgentStates
<1>5. ASSUME NEW b \in Agents PROVE AgentShrinks(b)
    <2>1. b # a => channel'[b] = channel[b] /\ batch'[b] = batch[b] /\ agent'[b] = agent[b]
        BY <1>2 DEF FlushFails, Stop, Shapes
    <2>2. channel'[a] \in {channel[a], <<>>} /\ batch'[a] = <<>> /\ agent'[a] \in {"run", "stopped"}
        BY <1>2 DEF FlushFails, Stop, Shapes
    <2>3. CASE b = a
        BY <2>2, <2>3 DEF AgentShrinks
    <2>4. CASE b # a
        BY <2>1, <2>4 DEF AgentShrinks, AgentOK, DeliveryInv
    <2> QED
        BY <2>3, <2>4
<1>6. Shapes'
    BY <1>1, <1>2, <1>4 DEF Shapes
<1> QED
    BY <1>1, <1>2, <1>5, <1>6, HandlersStay, DeliveryKept

\* The agent's other steps on its own.
LEMMA TickDelivery ==
    ASSUME DeliveryInv, NEW a \in Agents, Tick(a) \/ Start(a)
    PROVE  DeliveryInv'
<1>1. /\ occurred' = occurred /\ ingested' = ingested /\ audited' = audited
      /\ today' = today /\ pc' = pc /\ req' = req /\ channel' = channel /\ batch' = batch
    BY DEF Tick, Start, serverVars
<1>2. Shapes
    BY DEF DeliveryInv
<1>3. agent' \in [Agents -> AgentStates] /\ \A b \in Agents : b # a => agent'[b] = agent[b]
    BY <1>2 DEF Tick, Start, Shapes, AgentStates
<1>4. ASSUME NEW b \in Agents PROVE AgentShrinks(b)
    <2>1. CASE b = a
        <3>1. /\ agent[a] # "wait" /\ agent'[a] # "wait"
              /\ agent'[a] = "flush" => batch[a] # <<>>
            BY <1>2 DEF Tick, Start, Shapes
        <3> QED
            BY <1>1, <2>1, <3>1 DEF AgentShrinks
    <2>2. CASE b # a
        BY <1>1, <1>3, <2>2 DEF AgentShrinks, AgentOK, DeliveryInv
    <2> QED
        BY <2>1, <2>2
<1>5. Shapes'
    BY <1>1, <1>2, <1>3 DEF Shapes
<1>6. \A h \in Handlers : Like(req'[h], req[h])
    BY <1>1 DEF Like
<1> QED
    BY <1>1, <1>4, <1>5, <1>6, HandlersStay, DeliveryKept

LEMMA PassDayDelivery ==
    ASSUME DeliveryInv, PassDay \/ Quiet \/ UNCHANGED vars
    PROVE  DeliveryInv'
<1>1. /\ occurred' = occurred /\ ingested' = ingested /\ audited' = audited
      /\ pc' = pc /\ req' = req /\ UNCHANGED <<channel, batch, agent>>
      /\ today' = today + 1 \/ today' = today
    BY DEF PassDay, Quiet, vars, serverVars, agentVars
<1>2. Shapes
    BY DEF DeliveryInv
<1>3. today' \in Nat /\ \A d \in Nat : d <= today => d <= today'
    BY SMTT(30), <1>1, <1>2 DEF Shapes
<1>4. \A e \in DOMAIN occurred : occurred[e].Day \in Nat /\ occurred[e].Day <= today
    <2>1. \A e \in DOMAIN occurred : occurred[e] \in Parsed
        BY SMTT(30), <1>2 DEF Shapes
    <2> QED
        BY <1>2, <2>1, ParsedFields DEF Shapes
<1>5. Shapes'
    BY <1>1, <1>2, <1>3, <1>4 DEF Shapes
<1>6. \A h \in Handlers : Like(req'[h], req[h])
    BY <1>1 DEF Like
<1> QED
    BY <1>1, <1>5, <1>6, AgentsStay, HandlersStay, DeliveryKept

\* The log grows by an event that was nowhere before.
LEMMA OccurredGrows ==
    ASSUME Shapes, Len(occurred) < MaxEvents, NEW ev \in Parsed, ev.Day <= today,
           occurred' = Append(occurred, ev), today' = today
    PROVE  LET n == Len(occurred) + 1
           IN  /\ n \in Events /\ n \notin DOMAIN occurred /\ n \in DOMAIN occurred'
               /\ occurred' \in Seq(Parsed) /\ Len(occurred') <= MaxEvents /\ occurred'[n] = ev
               /\ \A e \in DOMAIN occurred : e \in DOMAIN occurred' /\ occurred'[e] = occurred[e]
               /\ \A e \in DOMAIN occurred' : e \in DOMAIN occurred \/ e = n
               /\ \A e \in DOMAIN occurred' : occurred'[e].Day <= today'
<1>1. PICK n : n = Len(occurred) + 1
    OBVIOUS
<1>2. occurred \in Seq(Parsed) /\ MaxEvents \in Nat
    BY BoundsAssumption DEF Shapes
<1>3. /\ n \in Events /\ n \notin DOMAIN occurred /\ n \in DOMAIN occurred'
      /\ occurred' \in Seq(Parsed) /\ Len(occurred') <= MaxEvents /\ occurred'[n] = ev
    BY SMTT(30), <1>1, <1>2 DEF Events
<1>4. \A e \in DOMAIN occurred : e \in DOMAIN occurred' /\ occurred'[e] = occurred[e]
    BY SMTT(30), <1>2
<1>5. \A e \in DOMAIN occurred' : e \in DOMAIN occurred \/ e = n
    BY SMTT(30), <1>1, <1>2
<1>6. \A e \in DOMAIN occurred' : occurred'[e].Day <= today'
    BY <1>3, <1>4, <1>5 DEF Shapes
<1> QED
    BY <1>1, <1>3, <1>4, <1>5, <1>6

LEMMA LoggedParsed ==
    ASSUME Shapes, NEW log \in Logged
    PROVE  ParseEventXML(log, today) \in Parsed /\ ParseEventXML(log, today).Day <= today
<1>1. today \in Nat
    BY DEF Shapes
<1>2. ParseEventXML(log, today) \in Parsed
    BY SMTT(30), <1>1 DEF Parsed
<1>3. ParseEventXML(log, today).Day = today
    BY SMTT(30) DEF ParseEventXML
<1>4. today <= today
    BY SMTT(30), <1>1
<1> QED
    BY <1>2, <1>3, <1>4

\* A new event comes to one agent.
LEMMA SubscribeDelivery ==
    ASSUME DeliveryInv, NEW a \in Agents, NEW log \in Logged, Subscribe(a, log)
    PROVE  DeliveryInv'
<1>1. Shapes /\ Apart /\ Counted /\ AgentOK(a)
    BY DEF DeliveryInv
<1>2. PICK ev \in Parsed : ev = ParseEventXML(log, today) /\ ev.Day <= today
    BY <1>1, LoggedParsed
<1>3. PICK n : n = Len(occurred) + 1
    OBVIOUS
<1>4. /\ occurred' = Append(occurred, ev) /\ Len(occurred) < MaxEvents
      /\ channel' = [channel EXCEPT ![a] = Append(channel[a], n)]
      /\ UNCHANGED <<today, batch, agent, pc, req, ingested, audited>>
    BY <1>2, <1>3 DEF Subscribe, serverVars
<1>5. /\ n \in Events /\ n \notin DOMAIN occurred /\ n \in DOMAIN occurred'
      /\ occurred' \in Seq(Parsed) /\ Len(occurred') <= MaxEvents
      /\ \A e \in DOMAIN occurred : e \in DOMAIN occurred'
      /\ \A e \in DOMAIN occurred' : e \in DOMAIN occurred \/ e = n
      /\ \A e \in DOMAIN occurred' : occurred'[e].Day <= today'
    BY <1>1, <1>2, <1>3, <1>4, OccurredGrows
<1>6. \A b \in Agents : Unsent(b) \subseteq DOMAIN occurred
    BY DEF DeliveryInv, AgentOK
<1>7. channel[a] \in Seq(Events) /\ n \notin Elements(channel[a]) /\ Once(channel[a])
    BY <1>1, <1>5, <1>6 DEF Shapes, Unsent, AgentOK
<1>8. /\ Append(channel[a], n) \in Seq(Events)
      /\ Elements(Append(channel[a], n)) = Elements(channel[a]) \cup {n}
      /\ Once(Append(channel[a], n))
    BY SMTT(30), <1>5, <1>7, AppendElements
<1>9. /\ channel' \in [Agents -> Seq(Events)] /\ channel'[a] = Append(channel[a], n)
      /\ \A b \in Agents : b # a => channel'[b] = channel[b]
    BY <1>1, <1>4, <1>8 DEF Shapes
<1>10. Shapes'
    BY <1>1, <1>4, <1>5, <1>9 DEF Shapes
<1>11. /\ Unsent(a)' = Unsent(a) \cup {n}
       /\ \A b \in Agents : b # a => Unsent(b)' = Unsent(b)
    BY <1>4, <1>8, <1>9 DEF Unsent
<1>12. ingested[n] = 0 /\ audited[n].event = 0
    BY <1>1, <1>5 DEF Counted
<1>13. AgentOK(a)'
    <2>1. agent[a] # "wait" => n \notin Elements(batch[a])
        BY <1>5, <1>6 DEF Unsent
    <2>2. \A e \in Unsent(a)' : e \in DOMAIN occurred' /\ ingested'[e] = 0 /\ audited'[e].event = 0
        BY <1>1, <1>4, <1>5, <1>11, <1>12 DEF AgentOK
    <2>3. /\ Once(channel'[a]) /\ (agent'[a] = "flush" => batch'[a] # <<>>)
          /\ agent'[a] # "wait" =>
                Once(batch'[a]) /\ Elements(channel'[a]) \cap Elements(batch'[a]) = {}
        BY <1>1, <1>4, <1>8, <1>9, <2>1 DEF AgentOK
    <2> QED
        BY <2>2, <2>3 DEF AgentOK
<1>14. ASSUME NEW b \in Agents, b # a PROVE AgentOK(b)'
    <2>1. AgentOK(b) /\ channel'[b] = channel[b] /\ Unsent(b)' = Unsent(b)
        BY <1>9, <1>11, <1>14 DEF DeliveryInv
    <2> QED
        BY <1>4, <1>5, <2>1 DEF AgentOK
<1>15. ASSUME NEW h \in Handlers
       PROVE  /\ HandlerHolds(h)' /\ n \notin Held(h)
              /\ Held(h)' = Held(h)
    <2>1. HandlerHolds(h) /\ Held(h)' = Held(h) /\ Ahead(h)' = Ahead(h)
        BY <1>4 DEF DeliveryInv, Held, Ahead, Turn
    <2> QED
        BY <1>4, <1>5, <2>1 DEF HandlerHolds
<1>16. Apart'
    <2>1. ASSUME NEW b \in Agents, NEW c \in Agents, b # c PROVE (Unsent(b) \cap Unsent(c))' = {}
        <3>1. Unsent(b) \cap Unsent(c) = {} /\ n \notin Unsent(b) /\ n \notin Unsent(c)
            BY <1>1, <1>5, <1>6, <2>1 DEF Apart
        <3>2. /\ Unsent(b)' = Unsent(b) \/ (b = a /\ Unsent(b)' = Unsent(b) \cup {n})
              /\ Unsent(c)' = Unsent(c) \/ (c = a /\ Unsent(c)' = Unsent(c) \cup {n})
            BY <1>11
        <3> QED
            BY <2>1, <3>1, <3>2
    <2>2. ASSUME NEW b \in Agents, NEW h \in Handlers PROVE (Unsent(b) \cap Held(h))' = {}
        <3>1. Unsent(b) \cap Held(h) = {} /\ n \notin Held(h) /\ Held(h)' = Held(h)
            BY <1>1, <1>15 DEF Apart
        <3>2. Unsent(b)' = Unsent(b) \/ Unsent(b)' = Unsent(b) \cup {n}
            BY <1>11
        <3> QED
            BY <3>1, <3>2
    <2>3. \A g, h \in Handlers : g # h => (Held(g) \cap Held(h))' = {}
        BY <1>1, <1>15 DEF Apart
    <2> QED
        BY <2>1, <2>2, <2>3 DEF Apart
<1>17. Counted'
    BY <1>1, <1>4, <1>5 DEF Counted
<1> QED
    BY <1>10, <1>13, <1>14, <1>15, <1>16, <1>17 DEF DeliveryInv

\* An event goes from the channel into the batch.
LEMMA ReceiveDelivery ==
    ASSUME DeliveryInv, NEW a \in Agents, Receive(a)
    PROVE  DeliveryInv'
<1>1. Shapes /\ Apart /\ AgentOK(a) /\ agent[a] = "run" /\ channel[a] # <<>>
    BY DEF DeliveryInv, Receive
<1>2. PICK n : n = Head(channel[a])
    OBVIOUS
<1>3. /\ UNCHANGED <<today, occurred, pc, req, ingested, audited>>
      /\ channel' = [channel EXCEPT ![a] = Tail(channel[a])]
      /\ batch' = [batch EXCEPT ![a] = Append(batch[a], n)]
      /\ \E l \in {"flush", "run"} : agent' = [agent EXCEPT ![a] = l]
    BY <1>2 DEF Receive, serverVars
<1>4. /\ channel[a] \in Seq(Events) /\ batch[a] \in Seq(Events)
      /\ Once(channel[a]) /\ Once(batch[a]) /\ Elements(channel[a]) \cap Elements(batch[a]) = {}
    BY <1>1 DEF Shapes, AgentOK
<1>5. /\ Tail(channel[a]) \in Seq(Events) /\ n \in Events
      /\ n \in Elements(channel[a]) /\ Once(Tail(channel[a]))
      /\ Elements(Tail(channel[a])) = Elements(channel[a]) \ {n}
    BY SMTT(30), <1>1, <1>2, <1>4, TailElements
<1>6. n \notin Elements(batch[a])
    BY <1>4, <1>5
<1>7. /\ Append(batch[a], n) \in Seq(Events) /\ Append(batch[a], n) # <<>>
      /\ Elements(Append(batch[a], n)) = Elements(batch[a]) \cup {n}
      /\ Once(Append(batch[a], n))
    BY SMTT(30), <1>4, <1>5, <1>6, AppendElements
<1>8. /\ channel' \in [Agents -> Seq(Events)] /\ channel'[a] = Tail(channel[a])
      /\ batch' \in [Agents -> Seq(Events)] /\ batch'[a] = Append(batch[a], n)
      /\ agent' \in [Agents -> AgentStates] /\ agent'[a] \in {"flush", "run"}
      /\ \A b \in Agents : b # a =>
            channel'[b] = channel[b] /\ batch'[b] = batch[b] /\ agent'[b] = agent[b]
    BY <1>1, <1>3, <1>5, <1>7 DEF Shapes, AgentStates
<1>9. Shapes'
    BY <1>1, <1>3, <1>8 DEF Shapes
<1>10. \A b \in Agents : Unsent(b)' = Unsent(b)
    <2>1. Unsent(a)' = Unsent(a)
        <3>1. agent[a] # "wait" /\ agent'[a] # "wait"
            BY <1>1, <1>8
        <3>2. /\ Unsent(a) = Elements(channel[a]) \cup Elements(batch[a])
              /\ Unsent(a)' = (Elements(channel[a]) \ {n}) \cup (Elements(batch[a]) \cup {n})
            BY <1>5, <1>7, <1>8, <3>1 DEF Unsent
        <3> QED
            BY <1>5, <3>2
    <2> QED
        BY <1>8, <2>1 DEF Unsent
<1>11. AgentOK(a)'
    <2>1. Elements(channel'[a]) \cap Elements(batch'[a]) = {}
        BY <1>4, <1>5, <1>7, <1>8
    <2>2. Once(channel'[a]) /\ Once(batch'[a]) /\ batch'[a] # <<>>
        BY <1>5, <1>7, <1>8
    <2>3. \A e \in Unsent(a)' : e \in DOMAIN occurred' /\ ingested'[e] = 0 /\ audited'[e].event = 0
        BY <1>1, <1>3, <1>10 DEF AgentOK
    <2> QED
        BY <2>1, <2>2, <2>3 DEF AgentOK
<1>12. ASSUME NEW b \in Agents, b # a PROVE AgentOK(b)'
    <2>1. AgentOK(b) /\ Unsent(b)' = Unsent(b)
        BY <1>10 DEF DeliveryInv
    <2> QED
        BY <1>3, <1>8, <1>12, <2>1 DEF AgentOK
<1>13. ASSUME NEW h \in Handlers PROVE HandlerHolds(h)' /\ Held(h)' = Held(h)
    <2>1. HandlerHolds(h) /\ Held(h)' = Held(h) /\ Ahead(h)' = Ahead(h)
        BY <1>3 DEF DeliveryInv, Held, Ahead, Turn
    <2> QED
        BY <1>3, <2>1 DEF HandlerHolds
<1>14. Apart'
    BY <1>1, <1>10, <1>13, ApartKept
<1>15. Counted'
    BY <1>3 DEF Counted, DeliveryInv
<1> QED
    BY <1>9, <1>11, <1>12, <1>13, <1>14, <1>15 DEF DeliveryInv

\* A batch goes from the agent to one handler.
LEMMA SendDelivery ==
    ASSUME DeliveryInv, NEW a \in Agents, NEW h \in Handlers, Send(a, h)
    PROVE  DeliveryInv'
<1>1. Shapes /\ Apart /\ AgentOK(a) /\ agent[a] = "flush" /\ batch[a] # <<>>
    BY DEF DeliveryInv, Send, AgentOK
<1>2. PICK r \in RequestType : Becomes(h, "get", r) /\ r.Events = batch[a] /\ r.i = 1
    BY <1>1, SendEffect
<1>3. /\ UNCHANGED <<today, occurred, channel, batch, ingested, audited>>
      /\ agent' = [agent EXCEPT ![a] = "wait"]
    BY DEF Send
<1>4. /\ agent' \in [Agents -> AgentStates] /\ agent'[a] = "wait"
      /\ \A b \in Agents : b # a => agent'[b] = agent[b]
    BY <1>1, <1>3 DEF Shapes, AgentStates
<1>5. Shapes'
    BY <1>1, <1>2, <1>3, <1>4 DEF Shapes, Becomes
<1>6. /\ Unsent(a) = Elements(channel[a]) \cup Elements(batch[a])
      /\ Unsent(a)' = Elements(channel[a])
      /\ \A b \in Agents : b # a => Unsent(b)' = Unsent(b)
    BY <1>1, <1>3, <1>4 DEF Unsent
<1>7. /\ Held(h)' = Elements(batch[a]) /\ req'[h] = r /\ pc'[h] = "get"
      /\ \A g \in Handlers : g # h => Held(g)' = Held(g) /\ Ahead(g)' = Ahead(g)
    BY <1>2 DEF Held, Becomes, Ahead, Turn
<1>8. ASSUME NEW b \in Agents PROVE AgentOK(b)' /\ Unsent(b)' \subseteq Unsent(b)
    <2>1. AgentOK(b) /\ Unsent(b)' \subseteq Unsent(b)
        BY <1>6 DEF DeliveryInv
    <2> QED
        BY <1>3, <1>4, <2>1 DEF AgentOK
<1>9. HandlerHolds(h)'
    <2>1. Once(batch[a])
        BY <1>1 DEF AgentOK
    <2>2. 1 \in 1..Len(batch[a])
        BY SMTT(30), <1>1 DEF Shapes
    <2>3. \A e \in Elements(batch[a]) : e \in DOMAIN occurred /\ ingested[e] = 0 /\ audited[e].event = 0
        BY <1>1, <1>6 DEF AgentOK
    <2>4. Ahead(h)' \subseteq Held(h)'
        <3>1. Turn(h)' = 1 /\ (\A j \in 1..Len(batch[a]) : j \in DOMAIN batch[a])
            BY SMTT(30), <1>1, <1>2, <1>7 DEF Turn, Shapes
        <3> QED
            BY <1>2, <1>7, <3>1 DEF Ahead, Elements
    <2> QED
        BY <1>2, <1>3, <1>7, <2>1, <2>2, <2>3, <2>4 DEF HandlerHolds
<1>10. ASSUME NEW g \in Handlers, g # h PROVE HandlerHolds(g)'
    <2>1. HandlerHolds(g) /\ pc'[g] = pc[g] /\ req'[g] = req[g]
        BY <1>2, <1>10 DEF DeliveryInv, Becomes
    <2> QED
        BY <1>3, <1>7, <1>10, <2>1 DEF HandlerHolds
<1>11. Apart'
    <2>1. \A b, c \in Agents : b # c => (Unsent(b) \cap Unsent(c))' = {}
        BY <1>1, <1>8 DEF Apart
    <2>2. ASSUME NEW b \in Agents PROVE (Unsent(b) \cap Held(h))' = {}
        <3>1. CASE b = a
            BY <1>1, <1>6, <1>7, <3>1 DEF AgentOK
        <3>2. CASE b # a
            <4>1. Unsent(b) \cap Unsent(a) = {} /\ Unsent(b)' = Unsent(b)
                BY <1>1, <1>6, <3>2 DEF Apart
            <4> QED
                BY <1>6, <1>7, <4>1
        <3> QED
            BY <3>1, <3>2
    <2>3. ASSUME NEW b \in Agents, NEW g \in Handlers, g # h PROVE (Unsent(b) \cap Held(g))' = {}
        <3>1. Unsent(b) \cap Held(g) = {} /\ Held(g)' = Held(g) /\ Unsent(b)' \subseteq Unsent(b)
            BY <1>1, <1>7, <1>8, <2>3 DEF Apart
        <3> QED
            BY <3>1
    <2>4. ASSUME NEW g \in Handlers, g # h PROVE (Held(g) \cap Held(h))' = {}
        <3>1. Unsent(a) \cap Held(g) = {} /\ Held(g)' = Held(g)
            BY <1>1, <1>7, <2>4 DEF Apart
        <3> QED
            BY <1>6, <1>7, <3>1
    <2>5. \A f, g \in Handlers : f # h /\ g # h /\ f # g => (Held(f) \cap Held(g))' = {}
        BY <1>1, <1>7 DEF Apart
    <2> QED
        BY <2>1, <2>2, <2>3, <2>4, <2>5 DEF Apart
<1>12. Counted'
    BY <1>3 DEF Counted, DeliveryInv
<1> QED
    BY <1>5, <1>8, <1>9, <1>10, <1>11, <1>12 DEF DeliveryInv

\* An event is in one place at a time.
LEMMA NextDelivery ==
    ASSUME DeliveryInv, Server, [Next]_vars
    PROVE  DeliveryInv'
    BY PassDayDelivery, SubscribeDelivery, ReceiveDelivery, TickDelivery, SendDelivery,
       FlushFailsDelivery, GetDelivery, UpdateDelivery, ClassifyDelivery, UpsertDelivery,
       AuditDelivery, FatalDelivery
       DEF Next

-----------------------------------------------------------------------------
(* What was ingested stays so.                                              *)

\* What the proofs need to know of the sizes of sets of events.  CountingHolds proves it; as an
\* assumption until then, it keeps the library of finite sets out of every obligation.
Counting ==
    /\ Cardinality({}) = 0
    /\ \A S, T \in SUBSET Events : S \subseteq T =>
          /\ Cardinality(S) \in Nat /\ Cardinality(T) \in Nat
          /\ Cardinality(S) <= Cardinality(T)
          /\ S # T => Cardinality(S) + 1 <= Cardinality(T)

Grows ==
    /\ today <= today'
    /\ \A e \in DOMAIN occurred :
          /\ e \in DOMAIN occurred' /\ occurred'[e] = occurred[e]
          /\ ingested[e] > 0 => ingested'[e] > 0

LEMMA OccurredFields ==
    ASSUME Shapes, NEW e \in DOMAIN occurred
    PROVE  /\ e \in Events /\ occurred[e] \in Parsed /\ Owner(e) \in SIDs \cup {Absent}
           /\ occurred[e].Day \in Nat /\ occurred[e].Day <= today
<1>1. occurred[e] \in Parsed
    BY SMTT(30) DEF Shapes
<1> QED
    BY <1>1, ParsedFields, OccurredEvents DEF Shapes, Owner

LEMMA IngestedEvents ==
    ASSUME Shapes, NEW s
    PROVE  /\ Ingested(s) \in SUBSET Events /\ Ingested(s) \subseteq DOMAIN occurred
           /\ \A hr : IngestedAt(s, hr) \in SUBSET Events
    BY OccurredEvents DEF Ingested, OfAccount, IngestedAt

LEMMA IngestedLater ==
    ASSUME Shapes', NEW s
    PROVE  /\ Ingested(s)' \in SUBSET Events /\ Ingested(s)' \subseteq DOMAIN occurred'
           /\ \A hr : IngestedAt(s, hr)' \in SUBSET Events
<1>1. DOMAIN occurred' \subseteq Events
    BY LogEvents DEF Shapes
<1> QED
    BY <1>1 DEF Ingested, OfAccount, IngestedAt

LEMMA IngestedGrows ==
    ASSUME Shapes, Grows, NEW s
    PROVE  /\ Ingested(s) \subseteq Ingested(s)'
           /\ \A hr : IngestedAt(s, hr) \subseteq IngestedAt(s, hr)'
           /\ \A e \in Ingested(s) : occurred'[e] = occurred[e]
<1>1. \A e \in Ingested(s) : e \in Ingested(s)' /\ occurred'[e] = occurred[e]
    BY DEF Ingested, OfAccount, Grows
<1> QED
    BY <1>1 DEF IngestedAt

\* No more than what is ingested is no more than what is ingested later.
LEMMA CountsKept ==
    ASSUME Counting, Shapes, Shapes', Grows, NEW q \in ProfileType, NEW s, CountsOK(q, s)
    PROVE  CountsOK(q, s)'
<1>1. /\ Ingested(s) \in SUBSET Events /\ Ingested(s)' \in SUBSET Events
      /\ \A hr : IngestedAt(s, hr) \in SUBSET Events /\ IngestedAt(s, hr)' \in SUBSET Events
    BY IngestedEvents, IngestedLater
<1>2. /\ Ingested(s) \subseteq Ingested(s)'
      /\ \A hr : IngestedAt(s, hr) \subseteq IngestedAt(s, hr)'
      /\ \A e \in Ingested(s) : occurred'[e] = occurred[e]
    BY IngestedGrows
<1>3. ASSUME NEW n \in Nat, NEW S \in SUBSET Events, NEW T \in SUBSET Events, S \subseteq T,
             n <= Cardinality(S)
      PROVE  n <= Cardinality(T)
    <2>1. Cardinality(S) \in Nat /\ Cardinality(T) \in Nat /\ Cardinality(S) <= Cardinality(T)
        BY <1>3 DEF Counting
    <2> QED
        BY SMTT(30), <1>3, <2>1
<1>4. q.TotalAuthCount \in Nat /\ \A hr \in Hours : q.TimeOfDay[hr] \in Nat
    BY SMTT(30) DEF ProfileType
<1>5. q.TotalAuthCount <= Cardinality(Ingested(s)')
    BY <1>1, <1>2, <1>3, <1>4 DEF CountsOK
<1>6. \A hr \in Hours : q.TimeOfDay[hr] <= Cardinality(IngestedAt(s, hr)')
    BY <1>1, <1>2, <1>3, <1>4 DEF CountsOK
<1>7. \A a \in Attributes, v \in AttributeValues : q.Counts[a][v] > 0 => Showed(s, a, v)'
    <2>1. ASSUME NEW a \in Attributes, NEW v \in AttributeValues, Showed(s, a, v)
          PROVE  Showed(s, a, v)'
        BY <1>2, <2>1 DEF Showed
    <2> QED
        BY <2>1 DEF CountsOK
<1> QED
    BY <1>5, <1>6, <1>7 DEF CountsOK

LEMMA ObservedKept ==
    ASSUME Counting, Shapes, Shapes', Grows, NEW s, Observed(s)
    PROVE  Observed(s)'
<1>1. Ingested(s) \in SUBSET Events /\ Ingested(s)' \in SUBSET Events
    BY IngestedEvents, IngestedLater
<1>2. Ingested(s) \subseteq Ingested(s)' /\ \A e \in Ingested(s) : occurred'[e] = occurred[e]
    BY IngestedGrows
<1>3. /\ Cardinality(Ingested(s)) \in Nat /\ Cardinality(Ingested(s)') \in Nat
      /\ Cardinality(Ingested(s)) <= Cardinality(Ingested(s)')
    BY <1>1, <1>2 DEF Counting
<1>4. minAuthCount \in Int /\ minObservationDays \in Int
    BY ThresholdsAssumption
<1>5. Cardinality(Ingested(s)') >= minAuthCount
    BY SMTT(30), <1>3, <1>4 DEF Observed
<1>6. PICK e \in Ingested(s) : occurred[e].Day + minObservationDays <= today
    BY DEF Observed
<1>7. occurred[e].Day \in Nat /\ today \in Nat /\ today' \in Nat
    BY IngestedEvents, OccurredFields DEF Shapes
<1>8. occurred[e].Day + minObservationDays <= today'
    BY SMTT(30), <1>4, <1>6, <1>7 DEF Grows
<1> QED
    BY <1>2, <1>5, <1>6, <1>8 DEF Observed

\* A profile that nobody writes stays sound.
LEMMA SoundKept ==
    ASSUME Counting, Shapes, Shapes', Grows, NEW q \in ProfileType, NEW s, Sound(q, s)
    PROVE  Sound(q, s)'
<1>1. CountsOK(q, s)'
    BY CountsKept DEF Sound
<1>2. q.ObservationEnd <= today'
    <2>1. q.ObservationEnd \in Nat
        BY SMTT(30) DEF ProfileType
    <2> QED
        BY SMTT(30), <2>1 DEF Sound, Shapes, Grows
<1>3. q.Classified => Observed(s)'
    BY ObservedKept DEF Sound
<1>4. q.Baseline.Built => BaselineOK(q.Baseline, s)'
    <2>1. /\ Ingested(s) \subseteq Ingested(s)'
          /\ \A hr : IngestedAt(s, hr) \subseteq IngestedAt(s, hr)'
          /\ \A e \in Ingested(s) : occurred'[e] = occurred[e]
        BY IngestedGrows
    <2>2. ASSUME NEW a, NEW v, Showed(s, a, v) PROVE Showed(s, a, v)'
        BY <2>1, <2>2 DEF Showed
    <2>3. \A hr : IngestedAt(s, hr) # {} => IngestedAt(s, hr)' # {}
        BY <2>1
    <2> QED
        BY <2>2, <2>3 DEF Sound, BaselineOK
<1> QED
    BY <1>1, <1>2, <1>3, <1>4 DEF Sound

LEMMA ContrastKept ==
    ASSUME Shapes, Grows, NEW e \in DOMAIN occurred, Contrast(e)
    PROVE  Contrast(e)'
<1>1. occurred'[e] = occurred[e]
    BY DEF Grows
<1> QED
    BY <1>1, IngestedGrows DEF Contrast

LEMMA LiveKept ==
    ASSUME Shapes, Grows, NEW p \in DOMAIN occurred, Live(p), profiles'[p] = profiles[p]
    PROVE  Live(p)'
<1>1. Owner(p)' = Owner(p) /\ ingested'[p] > 0
    BY DEF Grows, Live, Owner
<1>2. PICK s : s = Owner(p)
    OBVIOUS
<1> QED
    BY <1>1, <1>2, IngestedGrows DEF Live

-----------------------------------------------------------------------------
(* ProfilesInv is preserved: what a step does not write.                    *)

\* A new profile says nothing.
LEMMA NewProfileFields ==
    ASSUME NEW n, NEW q, q = newProfile(n)
    PROVE  /\ q.TotalAuthCount = 0 /\ q.ObservationStart = n /\ q.ObservationEnd = n
           /\ \A hr \in Hours : q.TimeOfDay[hr] = 0
           /\ \A a \in Attributes, v \in AttributeValues : q.Counts[a][v] = 0
           /\ ~q.Classified /\ ~q.Baseline.Built
    BY SMTT(30) DEF newProfile, NoBaseline

LEMMA NewSound ==
    ASSUME Counting, Shapes', NEW s, NEW n, NEW q, q = newProfile(n), n <= today'
    PROVE  Sound(q, s)' /\ CountsOK(q, s)'
<1>1. /\ Cardinality(Ingested(s)') \in Nat
      /\ \A hr : Cardinality(IngestedAt(s, hr)') \in Nat
    <2>1. \A S \in SUBSET Events : S \subseteq S /\ Cardinality(S) \in Nat
        BY DEF Counting
    <2> QED
        BY <2>1, IngestedLater
<1>2. ~(0 > 0) /\ \A m \in Nat : 0 <= m
    BY SMTT(30)
<1>3. CountsOK(q, s)'
    <2>1. /\ q.TotalAuthCount = 0 /\ \A hr \in Hours : q.TimeOfDay[hr] = 0
          /\ \A a \in Attributes, v \in AttributeValues : q.Counts[a][v] = 0
        BY SMTT(30), NewProfileFields
    <2>2. q.TotalAuthCount <= Cardinality(Ingested(s)')
        BY <1>1, <1>2, <2>1
    <2>3. \A hr \in Hours : q.TimeOfDay[hr] <= Cardinality(IngestedAt(s, hr)')
        BY <1>1, <1>2, <2>1
    <2>4. \A a \in Attributes, v \in AttributeValues : ~(q.Counts[a][v] > 0)
        BY <1>2, <2>1
    <2> QED
        BY <2>2, <2>3, <2>4 DEF CountsOK
<1> QED
    BY <1>3, NewProfileFields DEF Sound

LEMMA HandlerKept ==
    ASSUME Counting, Shapes, Shapes', Grows, NEW h \in Handlers, HandlerHolds(h), HandlerOK(h),
           pc'[h] = pc[h], Like(req'[h], req[h]),
           \A p \in DOMAIN occurred : Live(p) => Live(p)',
           pc[h] = "update" /\ ~Live(req[h].Profile) => profiles'[Event(h)] = profiles[Event(h)]
    PROVE  HandlerOK(h)'
<1>1. /\ Event(h)' = Event(h) /\ req'[h].Profile = req[h].Profile /\ req'[h].Old = req[h].Old
      /\ req'[h].Decisions = req[h].Decisions
    BY DEF Like, Event
<1>2. ASSUME NEW e \in DOMAIN occurred
      PROVE  Owner(e)' = Owner(e) /\ e \in DOMAIN occurred' /\ occurred'[e] = occurred[e]
    BY DEF Grows, Owner
<1>3. \A e \in req[h].Decisions : e \in DOMAIN occurred' /\ Contrast(e)'
    BY <1>2, ContrastKept DEF HandlerOK
<1>4. CASE pc[h] \in Working
    <2>1. /\ Event(h) \in DOMAIN occurred /\ req[h] \in RequestType
          /\ req[h].Profile \in DOMAIN occurred
        BY <1>4, EventAtHand DEF HandlerOK
    <2>2. PICK o, s, e : o = req[h].Old /\ s = Owner(Event(h)) /\ e = Event(h)
        OBVIOUS
    <2>3. o \in ProfileType
        BY SMTT(30), <2>1, <2>2 DEF RequestType
    <2>4. Owner(Event(h))' = s /\ Owner(req[h].Profile)' = Owner(req[h].Profile)
        BY <1>1, <1>2, <2>1, <2>2 DEF Owner
    <2>5. pc[h] = "update" => CountsOK(req[h].Old, Owner(Event(h)))'
        BY <1>1, <2>2, <2>3, <2>4, CountsKept DEF HandlerOK
    <2>6. pc[h] = "update" /\ ~Live(req[h].Profile) =>
             /\ req'[h].Profile = Event(h)'
             /\ (occurred[Event(h)].Day <= profiles[Event(h)].ObservationStart)'
        BY <1>1, <1>2, <1>4, <2>1 DEF HandlerOK
    <2>7. Live(req[h].Profile) => Live(req[h].Profile)'
        BY <1>1, <2>1
    <2> QED
        BY <1>1, <1>2, <1>3, <1>4, <2>1, <2>2, <2>4, <2>5, <2>6, <2>7 DEF HandlerOK
<1>5. CASE pc[h] \notin Working
    BY <1>1, <1>3, <1>5 DEF HandlerOK, Working
<1> QED
    BY <1>4, <1>5

\* A handler with nothing at hand.
LEMMA HandlerFree ==
    ASSUME Shapes, Grows, NEW h \in Handlers, HandlerOK(h),
           pc'[h] \notin Working, req'[h].Decisions \subseteq req[h].Decisions
    PROVE  HandlerOK(h)'
<1>1. \A e \in req'[h].Decisions : e \in DOMAIN occurred' /\ Contrast(e)'
    BY ContrastKept DEF HandlerOK, Grows
<1> QED
    BY <1>1 DEF HandlerOK, Working

LEMMA StoredKept ==
    ASSUME Shapes, Grows, NEW s \in SIDs, StoredOK(s), stored'[s] = stored[s],
           \A p \in DOMAIN occurred : Live(p) => Live(p)'
    PROVE  StoredOK(s)'
<1>1. CASE stored[s] = None
    BY <1>1 DEF StoredOK
<1>2. CASE stored[s] # None
    <2>1. PICK p : p = stored[s]
        OBVIOUS
    <2>2. p \in DOMAIN occurred /\ Owner(p) = s /\ Live(p)'
        BY <1>2, <2>1 DEF StoredOK
    <2>3. p \in DOMAIN occurred' /\ Owner(p)' = s
        BY <2>2 DEF Grows, Owner
    <2> QED
        BY <2>1, <2>2, <2>3 DEF StoredOK
<1> QED
    BY <1>1, <1>2

LEMMA ProfileKept ==
    ASSUME Counting, Shapes, Shapes', Grows, Server, NEW p \in Events, ProfileOK(p),
           profiles'[p] = profiles[p]
    PROVE  ProfileOK(p)'
<1>1. PICK q : q = profiles[p]
    OBVIOUS
<1>2. q \in ProfileType
    BY <1>1 DEF Server
<1>3. CASE p \in DOMAIN occurred
    <2>1. PICK s : s = Owner(p)
        OBVIOUS
    <2>2. Owner(p)' = s /\ p \in DOMAIN occurred'
        BY <1>3, <2>1 DEF Grows, Owner
    <2>3. Sound(q, s)'
        BY <1>1, <1>2, <1>3, <2>1, SoundKept DEF ProfileOK
    <2> QED
        BY <1>1, <2>2, <2>3 DEF ProfileOK
<1>4. CASE p \notin DOMAIN occurred
    <2>1. q = newProfile(0) /\ 0 <= today'
        BY SMTT(30), <1>1, <1>4 DEF ProfileOK, Shapes
    <2>2. PICK s : s = Owner(p)'
        OBVIOUS
    <2>3. Sound(q, s)'
        BY <2>1, NewSound
    <2> QED
        BY <1>1, <2>1, <2>2, <2>3 DEF ProfileOK
<1> QED
    BY <1>3, <1>4

\* Where no profile is written and no request gets anywhere.
LEMMA ProfilesKept ==
    ASSUME Counting, IInv, Shapes', Grows, profiles' = profiles, stored' = stored,
           \A h \in Handlers : \/ pc'[h] = pc[h] /\ Like(req'[h], req[h])
                               \/ /\ pc'[h] \notin Working
                                  /\ req'[h].Decisions \subseteq req[h].Decisions
    PROVE  ProfilesInv'
<1>1. Shapes /\ Server
    BY DEF IInv, DeliveryInv, ProfilesInv, Server
<1>2. \A p \in DOMAIN occurred : Live(p) => Live(p)'
    BY <1>1, LiveKept
<1>3. \A p \in Events : ProfileOK(p)'
    BY <1>1, ProfileKept DEF IInv, ProfilesInv
<1>4. \A s \in SIDs : StoredOK(s)'
    BY <1>1, <1>2, StoredKept DEF IInv, ProfilesInv
<1>5. ASSUME NEW h \in Handlers PROVE HandlerOK(h)'
    <2>1. HandlerHolds(h) /\ HandlerOK(h)
        BY DEF IInv, DeliveryInv, ProfilesInv
    <2> QED
        BY <1>1, <1>2, <2>1, HandlerKept, HandlerFree
<1> QED
    BY <1>1, <1>3, <1>4, <1>5 DEF ProfilesInv, Server

LEMMA GrowsSame ==
    ASSUME Shapes, occurred' = occurred, ingested' = ingested, today' = today
    PROVE  Grows
<1>1. today <= today
    BY SMTT(30) DEF Shapes
<1> QED
    BY <1>1 DEF Grows

\* The agents, the clock and the end of a request leave the profiles alone.
LEMMA AgentProfiles ==
    ASSUME Counting, IInv, Shapes', NEW a \in Agents,
           \/ Receive(a) \/ Tick(a) \/ Start(a) \/ FlushFails(a) \/ Stop(a)
    PROVE  ProfilesInv'
<1>1. /\ occurred' = occurred /\ ingested' = ingested /\ today' = today /\ profiles' = profiles
      /\ stored' = stored /\ pc' = pc /\ (req' = req \/ req' = Orphaned(a))
    BY DEF Receive, Tick, Start, FlushFails, Stop, serverVars
<1>2. Shapes
    BY DEF IInv, DeliveryInv
<1>3. \A h \in Handlers : Like(req'[h], req[h])
    BY <1>1, <1>2, OrphanedRequests DEF Like
<1> QED
    BY <1>1, <1>2, <1>3, GrowsSame, ProfilesKept

LEMMA ClockProfiles ==
    ASSUME Counting, IInv, Shapes', PassDay \/ Quiet \/ UNCHANGED vars
    PROVE  ProfilesInv'
<1>1. /\ occurred' = occurred /\ ingested' = ingested /\ profiles' = profiles
      /\ stored' = stored /\ pc' = pc /\ req' = req /\ (today' = today + 1 \/ today' = today)
    BY DEF PassDay, Quiet, vars, serverVars, agentVars
<1>2. today <= today'
    BY SMTT(30), <1>1 DEF IInv, DeliveryInv, Shapes
<1>3. Grows
    BY <1>1, <1>2 DEF Grows
<1>4. \A h \in Handlers : Like(req'[h], req[h])
    BY <1>1 DEF Like
<1> QED
    BY <1>1, <1>3, <1>4, ProfilesKept

LEMMA SubscribeProfiles ==
    ASSUME Counting, IInv, Shapes', NEW a \in Agents, NEW log \in Logged, Subscribe(a, log)
    PROVE  ProfilesInv'
<1>1. Shapes
    BY DEF IInv, DeliveryInv
<1>2. PICK ev \in Parsed : ev = ParseEventXML(log, today) /\ ev.Day <= today
    BY <1>1, LoggedParsed
<1>3. /\ occurred' = Append(occurred, ev) /\ Len(occurred) < MaxEvents
      /\ UNCHANGED <<today, pc, req, ingested, profiles, stored>>
    BY <1>2 DEF Subscribe, serverVars
<1>4. \A e \in DOMAIN occurred : e \in DOMAIN occurred' /\ occurred'[e] = occurred[e]
    BY <1>1, <1>2, <1>3, OccurredGrows
<1>5. today <= today'
    BY SMTT(30), <1>1, <1>3 DEF Shapes
<1>6. Grows
    BY <1>3, <1>4, <1>5 DEF Grows
<1>7. \A h \in Handlers : Like(req'[h], req[h])
    BY <1>3 DEF Like
<1> QED
    BY <1>3, <1>6, <1>7, ProfilesKept

LEMMA RequestProfiles ==
    ASSUME Counting, IInv, Shapes', NEW h \in Handlers,
           Audit(h) \/ \E a \in Agents : Send(a, h)
    PROVE  ProfilesInv'
<1>1. Shapes
    BY DEF IInv, DeliveryInv
<1>2. /\ occurred' = occurred /\ ingested' = ingested /\ today' = today
      /\ profiles' = profiles /\ stored' = stored
    BY DEF Audit, Send
<1>3. PICK l \in {"idle", "get"}, r \in RequestType : Becomes(h, l, r) /\ r.Decisions = {}
    BY <1>1, AuditEffect, SendEffect, NoRequestType
<1>4. ASSUME NEW g \in Handlers
      PROVE  \/ pc'[g] = pc[g] /\ Like(req'[g], req[g])
             \/ pc'[g] \notin Working /\ req'[g].Decisions \subseteq req[g].Decisions
    <2>1. CASE g = h
        BY <1>3, <2>1 DEF Becomes, Working
    <2>2. CASE g # h
        BY <1>3, <2>2 DEF Becomes, Like
    <2> QED
        BY <2>1, <2>2
<1> QED
    BY <1>1, <1>2, <1>4, GrowsSame, ProfilesKept

-----------------------------------------------------------------------------
(* ProfilesInv is preserved: the steps of a handler on a profile.           *)

\* Handler h writes profile w, and nobody who relies on the first version of w.
LEMMA ProfilesStep ==
    ASSUME Counting, IInv, Shapes', Grows, Server',
           NEW h \in Handlers, NEW l, NEW r, Becomes(h, l, r), HandlerOK(h)',
           NEW w, \A p \in Events : p # w => profiles'[p] = profiles[p], ProfileOK(w)',
           \A p \in DOMAIN occurred : Live(p) => Live(p)',
           \A g \in Handlers :
               g # h /\ pc[g] = "update" /\ ~Live(req[g].Profile) => Event(g) # w,
           \A s \in SIDs : stored'[s] = stored[s] \/ StoredOK(s)'
    PROVE  ProfilesInv'
<1>1. Shapes /\ Server
    BY DEF IInv, DeliveryInv, ProfilesInv, Server
<1>2. ASSUME NEW p \in Events PROVE ProfileOK(p)'
    <2>1. CASE p = w
        BY <2>1
    <2>2. CASE p # w
        BY <1>1, <2>2, ProfileKept DEF IInv, ProfilesInv
    <2> QED
        BY <2>1, <2>2
<1>3. \A s \in SIDs : StoredOK(s)'
    BY <1>1, StoredKept DEF IInv, ProfilesInv
<1>4. ASSUME NEW g \in Handlers, g # h PROVE HandlerOK(g)'
    <2>1. HandlerHolds(g) /\ HandlerOK(g) /\ pc'[g] = pc[g] /\ Like(req'[g], req[g])
        BY <1>4 DEF IInv, DeliveryInv, ProfilesInv, Becomes, Like
    <2>2. pc[g] = "update" /\ ~Live(req[g].Profile) => profiles'[Event(g)] = profiles[Event(g)]
        <3>1. pc[g] = "update" => Event(g) \in Events
            BY <1>1, <2>1, EventAtHand DEF Working
        <3> QED
            BY <1>4, <3>1
    <2> QED
        BY <1>1, <2>1, <2>2, HandlerKept
<1> QED
    BY <1>2, <1>3, <1>4 DEF ProfilesInv, Server

\* Two handlers are never at the same event.
LEMMA OtherEvents ==
    ASSUME DeliveryInv, NEW g \in Handlers, NEW h \in Handlers, g # h,
           pc[g] \in {"get"} \cup Working, pc[h] \in {"get"} \cup Working
    PROVE  Event(g) # Event(h)
<1>1. Event(g) \in Held(g) /\ Event(h) \in Held(h)
    BY EventAtHand DEF DeliveryInv
<1> QED
    BY <1>1 DEF DeliveryInv, Apart

\* The event at hand is not ingested before the update.
LEMMA NotIngestedYet ==
    ASSUME DeliveryInv, NEW h \in Handlers, pc[h] \in {"get", "update"}
    PROVE  ingested[Event(h)] = 0
<1>1. Shapes /\ HandlerHolds(h) /\ Turn(h) = req[h].i
    BY DEF DeliveryInv, Turn
<1>2. req[h] \in RequestType /\ req[h].i \in 1..Len(req[h].Events)
    BY <1>1, EventAtHand DEF Working
<1>3. req[h].i \in Turn(h)..Len(req[h].Events)
    BY SMTT(30), <1>1, <1>2
<1> QED
    BY <1>1, <1>3 DEF Ahead, Event, HandlerHolds

LEMMA LiveIngested ==
    ASSUME Shapes, NEW p \in Events, Live(p)
    PROVE  ingested[p] # 0
<1>1. ~(0 > 0)
    BY SMTT(30)
<1> QED
    BY <1>1 DEF Live

\* A profile is looked up, or made for the first event of an account.
LEMMA GetProfiles ==
    ASSUME Counting, IInv, Shapes', NEW h \in Handlers, Get(h)
    PROVE  ProfilesInv'
<1>1. Shapes /\ Server /\ HandlerHolds(h) /\ HandlerOK(h) /\ pc[h] = "get" /\ DeliveryInv
    BY DEF IInv, DeliveryInv, ProfilesInv, Server, Get
<1>2. /\ occurred' = occurred /\ ingested' = ingested /\ today' = today /\ stored' = stored
    BY DEF Get, agentVars
<1>3. Grows
    BY <1>1, <1>2, GrowsSame
<1>4. PICK e : e = Event(h)
    OBVIOUS
<1>5. /\ req[h] \in RequestType /\ e \in DOMAIN occurred /\ e \in Events
      /\ occurred[e].Day <= today /\ today \in Nat
    BY <1>1, <1>4, EventAtHand DEF Record, Shapes
<1>6. \A g \in Handlers : g # h /\ pc[g] = "update" => Event(g) # e
    BY <1>1, <1>4, OtherEvents DEF Working
<1>7. CASE /\ profiles' = profiles
           /\ \E r \in RequestType :
                 Becomes(h, Next_i(h), r) /\ r = At(req[h], req[h].i + 1)
    <2>1. PICK r \in RequestType : Becomes(h, Next_i(h), r) /\ r = At(req[h], req[h].i + 1)
        BY <1>7
    <2>2. PICK n : n = req[h].i + 1
        OBVIOUS
    <2>3. n \in Nat \ {0}
        BY SMTT(30), <1>5, <2>2 DEF RequestType
    <2>4. r.Decisions = req[h].Decisions
        BY SMTT(30), <1>5, <2>1, <2>2, <2>3, AtWrites
    <2>5. ASSUME NEW g \in Handlers
          PROVE  \/ pc'[g] = pc[g] /\ Like(req'[g], req[g])
                 \/ pc'[g] \notin Working /\ req'[g].Decisions \subseteq req[g].Decisions
        <3>1. CASE g = h
            BY <2>1, <2>4, <3>1, LabelAfter DEF Becomes, Working
        <3>2. CASE g # h
            BY <2>1, <3>2 DEF Becomes, Like
        <3> QED
            BY <3>1, <3>2
    <2> QED
        BY <1>2, <1>3, <1>7, <2>5, ProfilesKept
<1>8. CASE /\ Owner(e) # Absent /\ profiles' = [profiles EXCEPT ![e] = newProfile(today)]
           /\ \E r \in RequestType :
                 Becomes(h, "update", r) /\ r = Got(req[h], e, newProfile(today))
    <2>1. PICK r \in RequestType : Becomes(h, "update", r) /\ r = Got(req[h], e, newProfile(today))
        BY <1>8
    <2>2. PICK q \in ProfileType, n \in Nat : q = newProfile(n) /\ n = today
        BY <1>5, NewProfileType
    <2>3. e \in 0..MaxEvents
        BY SMTT(30), <1>5 DEF Events
    <2>4. /\ r.Events = req[h].Events /\ r.i = req[h].i /\ r.Decisions = req[h].Decisions
          /\ r.Profile = e /\ r.Old = q
        BY SMTT(30), <1>5, <2>1, <2>2, <2>3, GotRequest
    <2>5. /\ Server' /\ profiles'[e] = q
          /\ \A p \in Events : p # e => profiles'[p] = profiles[p]
        BY <1>1, <1>2, <1>5, <1>8, <2>2 DEF Server
    <2>6. PICK s : s = Owner(e)
        OBVIOUS
    <2>7. n <= today' /\ Owner(e)' = s /\ e \in DOMAIN occurred'
        <3>1. today <= today
            BY SMTT(30), <1>5
        <3> QED
            BY <1>2, <1>5, <2>2, <2>6, <3>1 DEF Owner
    <2>8. Sound(q, s)' /\ CountsOK(q, s)'
        BY <2>2, <2>7, NewSound
    <2>9. ProfileOK(e)'
        BY <2>5, <2>7, <2>8 DEF ProfileOK
    <2>10. ASSUME NEW p \in DOMAIN occurred, Live(p) PROVE Live(p)'
        <3>1. p # e /\ p \in Events
            BY <1>1, <1>4, <2>10, NotIngestedYet, LiveIngested, OccurredEvents
        <3> QED
            BY <1>1, <1>3, <2>5, <2>10, <3>1, LiveKept
    <2>11. /\ Event(h)' = e /\ pc'[h] = "update" /\ req'[h] = r
        BY <1>4, <2>1, <2>4 DEF Event, Becomes
    <2>12. \A d \in r.Decisions : d \in DOMAIN occurred' /\ Contrast(d)'
        BY <1>1, <1>2, <1>3, <2>4, ContrastKept DEF HandlerOK
    <2>13. occurred'[e].Day <= profiles'[e].ObservationStart
        <3>1. q.ObservationStart = n
            BY SMTT(30), <2>2, NewProfileFields
        <3> QED
            BY <1>2, <1>5, <2>2, <2>5, <3>1
    <2>14. HandlerOK(h)'
        BY <1>2, <1>8, <2>4, <2>6, <2>7, <2>8, <2>11, <2>12, <2>13 DEF HandlerOK, Working, Owner
    <2> QED
        BY <1>2, <1>3, <1>6, <2>1, <2>5, <2>9, <2>10, <2>14, ProfilesStep
<1>9. CASE /\ Owner(e) \in SIDs /\ Owner(e) # Absent /\ stored[Owner(e)] \in Events
           /\ profiles' = profiles
           /\ \E r \in RequestType :
                 /\ Becomes(h, "update", r)
                 /\ r = Got(req[h], stored[Owner(e)], profiles[stored[Owner(e)]])
    <2>1. PICK s \in SIDs : s = Owner(e)
        BY <1>9
    <2>2. PICK p \in Events : p = stored[s]
        BY <1>9, <2>1
    <2>3. PICK q \in ProfileType : q = profiles[p]
        BY <1>1 DEF Server
    <2>4. PICK r \in RequestType : Becomes(h, "update", r) /\ r = Got(req[h], p, q)
        BY <1>9, <2>1, <2>2, <2>3
    <2>5. p \in 0..MaxEvents /\ p # None
        BY SMTT(30) DEF Events, None
    <2>6. /\ r.Events = req[h].Events /\ r.i = req[h].i /\ r.Decisions = req[h].Decisions
          /\ r.Profile = p /\ r.Old = q
        BY SMTT(30), <1>5, <2>4, <2>5, GotRequest
    <2>7. p \in DOMAIN occurred /\ Owner(p) = s /\ Live(p)
        BY <2>2, <2>5 DEF IInv, ProfilesInv, StoredOK
    <2>8. \A x \in DOMAIN occurred : Live(x) => Live(x)'
        BY <1>1, <1>3, <1>9, LiveKept
    <2>9. CountsOK(q, s)'
        <3>1. CountsOK(q, s)
            BY <2>3, <2>7 DEF IInv, ProfilesInv, ProfileOK, Sound
        <3> QED
            BY <1>1, <1>3, <3>1, CountsKept
    <2>10. Event(h)' = e /\ pc'[h] = "update" /\ req'[h] = r
        BY <1>4, <2>4, <2>6 DEF Event, Becomes
    <2>11. \A d \in r.Decisions : d \in DOMAIN occurred' /\ Contrast(d)'
        BY <1>1, <1>2, <1>3, <2>6, ContrastKept DEF HandlerOK
    <2>12. Owner(e)' = s /\ Owner(p)' = s /\ p \in DOMAIN occurred'
        BY <1>2, <2>1, <2>7 DEF Owner
    <2>13. HandlerOK(h)'
        BY <1>9, <2>1, <2>6, <2>7, <2>8, <2>9, <2>10, <2>11, <2>12 DEF HandlerOK, Working
    <2>14. ProfileOK(e)'
        BY <1>1, <1>3, <1>5, <1>9, ProfileKept DEF IInv, ProfilesInv
    <2>15. Server' /\ \A x \in Events : x # e => profiles'[x] = profiles[x]
        BY <1>1, <1>2, <1>9 DEF Server
    <2> QED
        BY <1>2, <1>3, <1>6, <2>4, <2>8, <2>13, <2>14, <2>15, ProfilesStep
<1> QED
    BY <1>1, <1>4, <1>7, <1>8, <1>9, GetEffect

\* The profile at hand after the update.
LEMMA ProfileAtHand ==
    ASSUME IInv, NEW h \in Handlers, pc[h] \in Working \ {"update"}
    PROVE  /\ req[h].Profile \in DOMAIN occurred /\ req[h].Profile \in Events
           /\ Live(req[h].Profile) /\ Profile(h) \in ProfileType
           /\ Owner(req[h].Profile) = Owner(Event(h)) /\ Sound(Profile(h), Owner(Event(h)))
           /\ Owner(Event(h)) \in SIDs /\ Event(h) \in DOMAIN occurred
<1>1. Shapes /\ HandlerHolds(h) /\ HandlerOK(h) /\ Server
    BY DEF IInv, DeliveryInv, ProfilesInv, Server
<1>2. /\ req[h].Profile \in DOMAIN occurred /\ req[h].Profile \in Events
      /\ Live(req[h].Profile) /\ Owner(req[h].Profile) = Owner(Event(h))
      /\ Owner(Event(h)) # Absent
    BY <1>1, OccurredEvents DEF HandlerOK
<1>3. Owner(Event(h)) \in SIDs /\ Event(h) \in DOMAIN occurred
    BY <1>1, <1>2, EventAtHand DEF Owner, Record
<1>4. Profile(h) \in ProfileType /\ ProfileOK(req[h].Profile)
    BY <1>1, <1>2 DEF Profile, Server, IInv, ProfilesInv
<1> QED
    BY <1>2, <1>3, <1>4 DEF ProfileOK, Profile

\* A profile that is classified or gets its baseline.
LEMMA ProfileAmended ==
    ASSUME Counting, IInv, Shapes', NEW h \in Handlers, pc[h] \in Working \ {"update"},
           NEW l \in {"baseline", "upsert"}, Becomes(h, l, req[h]),
           UNCHANGED <<occurred, ingested, today, stored>>,
           NEW n \in ProfileType, profiles' = [profiles EXCEPT ![req[h].Profile] = n],
           n.TotalAuthCount = Profile(h).TotalAuthCount,
           n.ObservationStart = Profile(h).ObservationStart,
           Sound(n, Owner(Event(h)))
    PROVE  ProfilesInv'
<1>1. Shapes /\ Server /\ HandlerOK(h) /\ DeliveryInv
    BY DEF IInv, DeliveryInv, ProfilesInv, Server
<1>2. Grows
    BY <1>1, GrowsSame
<1>3. PICK w, s : w = req[h].Profile /\ s = Owner(Event(h))
    OBVIOUS
<1>4. /\ w \in DOMAIN occurred /\ w \in Events /\ Live(w) /\ Owner(w) = s
      /\ Event(h) \in DOMAIN occurred
    BY <1>3, ProfileAtHand
<1>5. /\ Server' /\ profiles'[w] = n
      /\ \A p \in Events : p # w => profiles'[p] = profiles[p]
    BY <1>1, <1>3, <1>4 DEF Server
<1>6. /\ Event(h)' = Event(h) /\ Owner(w)' = s /\ Owner(Event(h))' = s /\ w \in DOMAIN occurred'
      /\ req'[h] = req[h] /\ pc'[h] = l
    BY <1>3, <1>4 DEF Event, Owner, Becomes
<1>7. ProfileOK(w)'
    <2>1. Sound(n, s)'
        BY <1>1, <1>2, <1>3, SoundKept
    <2> QED
        BY <1>5, <1>6, <2>1 DEF ProfileOK
<1>8. Live(w)'
    <2>1. Ingested(s)' = Ingested(s)
        BY DEF Ingested, OfAccount
    <2> QED
        BY <1>3, <1>4, <1>5, <1>6, <2>1 DEF Live, Profile
<1>9. \A p \in DOMAIN occurred : Live(p) => Live(p)'
    BY <1>1, <1>2, <1>5, <1>8, LiveKept, OccurredEvents
<1>10. HandlerOK(h)'
    <2>1. \A d \in req[h].Decisions : d \in DOMAIN occurred' /\ Contrast(d)'
        BY <1>1, <1>2, ContrastKept DEF HandlerOK
    <2>2. Owner(Event(h)) # Absent
        BY <1>1 DEF HandlerOK
    <2> QED
        BY <1>3, <1>6, <1>8, <2>1, <2>2 DEF HandlerOK
<1>11. ASSUME NEW g \in Handlers, pc[g] = "update", ~Live(req[g].Profile) PROVE Event(g) # w
    BY <1>4, <1>11 DEF IInv, ProfilesInv, HandlerOK
<1> QED
    BY <1>2, <1>5, <1>7, <1>9, <1>10, <1>11, ProfilesStep

LEMMA ClassifyProfiles ==
    ASSUME Counting, IInv, Shapes', NEW h \in Handlers, Classify(h)
    PROVE  ProfilesInv'
<1>1. Shapes /\ Server /\ pc[h] \in Working \ {"update"}
    BY DEF IInv, DeliveryInv, ProfilesInv, Server, Classify, Working
<1>2. PICK l \in {"baseline", "upsert"} : Becomes(h, l, req[h])
    BY <1>1, ClassifyEffect
<1>3. UNCHANGED <<occurred, ingested, today, stored>>
    BY DEF Classify, agentVars
<1>4. PICK s, q, w : s = Owner(Event(h)) /\ q = Profile(h) /\ w = req[h].Profile
    OBVIOUS
<1>5. /\ q \in ProfileType /\ Sound(q, s) /\ Live(w) /\ Owner(w) = s /\ w \in Events
      /\ q = profiles[w]
    BY <1>1, <1>4, ProfileAtHand DEF Profile
<1>6. CASE profiles' = profiles
    <2>1. profiles' = [profiles EXCEPT ![req[h].Profile] = q]
        BY <1>1, <1>4, <1>5, <1>6 DEF Server
    <2> QED
        BY <1>1, <1>2, <1>3, <1>4, <1>5, <2>1, ProfileAmended
<1>7. CASE /\ profiles' = [profiles EXCEPT ![req[h].Profile].Classified = TRUE]
           /\ observationWindowMet(q)
    <2>1. PICK n : n = [q EXCEPT !.Classified = TRUE]
        OBVIOUS
    <2>2. profiles' = [profiles EXCEPT ![req[h].Profile] = n]
        BY <1>4, <1>5, <1>7, <2>1
    <2>3. /\ n \in ProfileType
          /\ n.TotalAuthCount = q.TotalAuthCount /\ n.ObservationStart = q.ObservationStart
          /\ n.ObservationEnd = q.ObservationEnd
          /\ n.TimeOfDay = q.TimeOfDay /\ n.Counts = q.Counts /\ n.Baseline = q.Baseline
        <3>1. ASSUME NEW v \in BOOLEAN, n = [q EXCEPT !.Classified = v]
              PROVE  /\ n \in ProfileType
                     /\ n.TotalAuthCount = q.TotalAuthCount
                     /\ n.ObservationStart = q.ObservationStart
                     /\ n.ObservationEnd = q.ObservationEnd
                     /\ n.TimeOfDay = q.TimeOfDay /\ n.Counts = q.Counts
                     /\ n.Baseline = q.Baseline
            BY SMTT(30), <1>5, <3>1 DEF ProfileType
        <3> QED
            BY <2>1, <3>1
    <2>4. Observed(s)
        <3>1. PICK e \in Ingested(s) : occurred[e].Day <= q.ObservationStart
            BY <1>5 DEF Live
        <3>2. Ingested(s) \in SUBSET Events /\ e \in DOMAIN occurred
            BY <1>1, IngestedEvents
        <3>3. occurred[e].Day \in Nat /\ today \in Nat
            BY <1>1, <3>2, OccurredFields DEF Shapes
        <3>4. Cardinality(Ingested(s)) \in Nat
            BY <3>2 DEF Counting
        <3>5. minAuthCount \in Int /\ minObservationDays \in Int
            BY ThresholdsAssumption
        <3>6. /\ q.TotalAuthCount \in Nat /\ q.ObservationStart \in Nat /\ q.ObservationEnd \in Nat
            BY SMTT(30), <1>5 DEF ProfileType
        <3>7. q.TotalAuthCount <= Cardinality(Ingested(s)) /\ q.ObservationEnd <= today
            BY <1>5 DEF Sound, CountsOK
        <3>8. Cardinality(Ingested(s)) >= minAuthCount
            BY SMTT(30), <1>7, <3>4, <3>5, <3>6, <3>7 DEF observationWindowMet
        <3>9. occurred[e].Day + minObservationDays <= today
            BY SMTT(30), <1>7, <3>1, <3>3, <3>5, <3>6, <3>7 DEF observationWindowMet
        <3> QED
            BY <3>8, <3>9 DEF Observed
    <2>5. Sound(n, s)
        BY <1>5, <2>3, <2>4 DEF Sound, CountsOK
    <2> QED
        BY <1>1, <1>2, <1>3, <1>4, <2>2, <2>3, <2>5, ProfileAmended
<1> QED
    BY <1>4, <1>6, <1>7 DEF Classify

\* What is counted in baselineMinPercent of one authentication or more is counted at all.
LEMMA BaselineProfiles ==
    ASSUME Counting, IInv, Shapes', NEW h \in Handlers, Baseline(h)
    PROVE  ProfilesInv'
<1>1. Shapes /\ Server /\ pc[h] \in Working \ {"update"}
    BY DEF IInv, DeliveryInv, ProfilesInv, Server, Baseline, Working
<1>2. PICK l \in {"baseline", "upsert"} : Becomes(h, l, req[h])
    BY <1>1, ClassifyEffect
<1>3. UNCHANGED <<occurred, ingested, today, stored>>
    BY DEF Baseline, agentVars
<1>4. PICK s, q, w : s = Owner(Event(h)) /\ q = Profile(h) /\ w = req[h].Profile
    OBVIOUS
<1>5. /\ q \in ProfileType /\ Sound(q, s) /\ Live(w) /\ w \in Events /\ q = profiles[w]
    BY <1>1, <1>4, ProfileAtHand DEF Profile
<1>6. PICK t : t = (q.TotalAuthCount * baselineMinPercent + 99) \div 100
    OBVIOUS
<1>7. t \in Nat /\ t >= 1
    <2>1. q.TotalAuthCount \in Nat
        BY SMTT(30), <1>5 DEF ProfileType
    <2>2. q.TotalAuthCount > 0
        BY <1>5 DEF Live
    <2>3. baselineMinPercent \in Nat \ {0}
        BY ThresholdsAssumption
    <2>4. ASSUME NEW x \in Nat, x > 0, NEW y \in Nat, y # 0 PROVE x * y \in Nat /\ x * y >= 1
        BY SMTT(30), <2>4
    <2>5. PICK z \in Nat : z = q.TotalAuthCount * baselineMinPercent /\ z >= 1
        BY <2>1, <2>2, <2>3, <2>4
    <2>6. t = (z + 99) \div 100
        BY <1>6, <2>5
    <2> QED
        BY SMTT(30), <2>5, <2>6
<1>8. PICK b : b = buildBaseline(q)
    OBVIOUS
<1>9. /\ b \in BaselineType
      /\ \A a \in Attributes : \A v \in b.Allowed[a] : v \in AttributeValues /\ q.Counts[a][v] >= t
      /\ \A hr \in b.AllowedTimeWindows : hr \in Hours /\ q.TimeOfDay[hr] >= t
    BY SMTT(30), <1>6, <1>8 DEF buildBaseline, BaselineType
<1>10. PICK n : n = [q EXCEPT !.Baseline = b]
    OBVIOUS
<1>11. profiles' = [profiles EXCEPT ![req[h].Profile] = n]
    BY <1>4, <1>5, <1>8, <1>10 DEF Baseline
<1>12. /\ n \in ProfileType
       /\ n.TotalAuthCount = q.TotalAuthCount /\ n.ObservationStart = q.ObservationStart
       /\ n.ObservationEnd = q.ObservationEnd
       /\ n.TimeOfDay = q.TimeOfDay /\ n.Counts = q.Counts /\ n.Baseline = b
       /\ n.Classified = q.Classified
    BY SMTT(30), <1>5, <1>9, <1>10 DEF ProfileType
<1>13. BaselineOK(b, s)
    <2>1. ASSUME NEW a \in Attributes, NEW v \in b.Allowed[a] PROVE Showed(s, a, v)
        <3>1. v \in AttributeValues /\ q.Counts[a][v] >= t
            BY <1>9
        <3>2. q.Counts[a][v] \in Nat
            BY SMTT(30), <1>5, <3>1 DEF ProfileType
        <3>3. q.Counts[a][v] > 0
            BY SMTT(30), <1>7, <3>1, <3>2
        <3> QED
            BY <1>5, <3>1, <3>3 DEF Sound, CountsOK
    <2>2. ASSUME NEW hr \in b.AllowedTimeWindows PROVE IngestedAt(s, hr) # {}
        <3>1. hr \in Hours /\ q.TimeOfDay[hr] >= t
            BY <1>9
        <3>2. q.TimeOfDay[hr] \in Nat
            BY SMTT(30), <1>5, <3>1 DEF ProfileType
        <3>3. q.TimeOfDay[hr] <= Cardinality(IngestedAt(s, hr)) /\ Cardinality({}) = 0
            BY <1>5, <3>1 DEF Sound, CountsOK, Counting
        <3>4. ~(q.TimeOfDay[hr] <= 0)
            BY SMTT(30), <1>7, <3>1, <3>2
        <3> QED
            BY <3>3, <3>4
    <2> QED
        BY <2>1, <2>2 DEF BaselineOK
<1>14. Sound(n, s)
    BY <1>5, <1>12, <1>13 DEF Sound, CountsOK
<1> QED
    BY <1>1, <1>2, <1>3, <1>4, <1>11, <1>12, <1>14, ProfileAmended

\* What deviates from what was seen is in contrast to it.
LEMMA DeviationContrast ==
    ASSUME NEW e, NEW s, s = occurred[e].AccountSID, NEW b \in BaselineType, BaselineOK(b, s),
           deviates(b, occurred[e])
    PROVE  Contrast(e)
<1>1. CASE \E a \in Attributes : /\ occurred[e].Values[a] # Absent
                                 /\ b.Allowed[a] # {} /\ occurred[e].Values[a] \notin b.Allowed[a]
    <2>1. PICK a \in Attributes : /\ occurred[e].Values[a] # Absent /\ b.Allowed[a] # {}
                                  /\ occurred[e].Values[a] \notin b.Allowed[a]
        BY <1>1
    <2>2. PICK v : v \in b.Allowed[a]
        BY <2>1
    <2>3. v \in AttributeValues
        BY SMTT(30), <2>2 DEF BaselineType
    <2>4. PICK f \in Ingested(s) : occurred[f].Values[a] = v
        BY <2>2 DEF BaselineOK, Showed
    <2>5. v # Absent
        BY <2>3, AbsentAssumption
    <2> QED
        BY <2>1, <2>2, <2>4, <2>5 DEF Contrast
<1>2. CASE b.AllowedTimeWindows # {} /\ occurred[e].Hour \notin b.AllowedTimeWindows
    <2>1. PICK hr : hr \in b.AllowedTimeWindows
        BY <1>2
    <2>2. PICK f \in Ingested(s) : occurred[f].Hour = hr
        BY <2>1 DEF BaselineOK, IngestedAt
    <2> QED
        BY <1>2, <2>1, <2>2 DEF Contrast
<1> QED
    BY <1>1, <1>2 DEF deviates

\* The profile goes to the store, and the event is compared with its baseline.
LEMMA UpsertProfiles ==
    ASSUME Counting, IInv, Shapes', NEW h \in Handlers, Upsert(h)
    PROVE  ProfilesInv'
<1>1. /\ Shapes /\ Server /\ HandlerHolds(h) /\ HandlerOK(h) /\ pc[h] \in Working \ {"update"}
      /\ req[h] \in RequestType
    BY DEF IInv, DeliveryInv, ProfilesInv, Server, Upsert, Working, Shapes
<1>2. PICK r \in RequestType, d \in SUBSET Events :
         /\ Becomes(h, Next_i(h), r) /\ r = Onward(req[h], d)
         /\ d = IF Denied(h) THEN req[h].Decisions \cup {Event(h)} ELSE req[h].Decisions
    BY <1>1, UpsertEffect
<1>3. PICK s, q, w, e : s = Owner(Event(h)) /\ q = Profile(h) /\ w = req[h].Profile /\ e = Event(h)
    OBVIOUS
<1>4. /\ q \in ProfileType /\ Sound(q, s) /\ Live(w) /\ Owner(w) = s /\ w \in DOMAIN occurred
      /\ w \in Events /\ s \in SIDs /\ e \in DOMAIN occurred
    BY <1>1, <1>3, ProfileAtHand
<1>5. /\ occurred' = occurred /\ ingested' = ingested /\ today' = today /\ profiles' = profiles
      /\ stored' = [stored EXCEPT ![s] = w]
    BY <1>3 DEF Upsert, agentVars, Owner, Record
<1>6. Grows
    BY <1>1, <1>5, GrowsSame
<1>7. \A p \in DOMAIN occurred : Live(p) => Live(p)'
    BY <1>1, <1>5, <1>6, LiveKept
<1>8. w \in 0..MaxEvents
    BY SMTT(30), <1>4 DEF Events
<1>9. /\ Server' /\ stored'[s] = w /\ \A t \in SIDs : t # s => stored'[t] = stored[t]
    BY <1>1, <1>4, <1>5, <1>8 DEF Server
<1>10. StoredOK(s)'
    <2>1. w \in DOMAIN occurred' /\ Owner(w)' = s /\ Live(w)'
        BY <1>4, <1>5, <1>7 DEF Owner
    <2> QED
        BY <1>9, <2>1 DEF StoredOK
<1>11. Denied(h) => Contrast(e)
    <2>1. SUFFICES ASSUME Denied(h) PROVE Contrast(e)
        OBVIOUS
    <2>2. PICK b : b = q.Baseline
        OBVIOUS
    <2>3. b.Built /\ deviates(b, occurred[e]) /\ BaselineOK(b, s)
        BY <1>3, <1>4, <2>1, <2>2 DEF Denied, Record, Sound
    <2>4. b \in BaselineType
        <3>1. b = NoBaseline \/ b \in BaselineType
            BY SMTT(30), <1>4, <2>2 DEF ProfileType
        <3>2. ~NoBaseline.Built
            BY SMTT(30) DEF NoBaseline
        <3> QED
            BY <2>3, <3>1, <3>2
    <2> QED
        BY <1>3, <2>3, <2>4, DeviationContrast DEF Owner
<1>12. r.Decisions = d /\ pc'[h] \notin Working /\ req'[h] = r
    <2>1. r.Decisions = d
        <3>1. r = Onward(req[h], d) /\ req[h] \in RequestType
            BY <1>1, <1>2
        <3> QED
            BY <3>1, OnwardRequest
    <2>2. Next_i(h) \notin Working
        BY LabelAfter DEF Working
    <2> QED
        BY <1>2, <2>1, <2>2 DEF Becomes
<1>13. \A x \in d : x \in DOMAIN occurred /\ Contrast(x)
    BY <1>1, <1>2, <1>3, <1>4, <1>11 DEF HandlerOK
<1>14. HandlerOK(h)'
    <2>1. \A x \in d : x \in DOMAIN occurred' /\ Contrast(x)'
        BY <1>1, <1>5, <1>6, <1>13, ContrastKept
    <2> QED
        BY <1>12, <2>1 DEF HandlerOK, Working
<1>15. ProfileOK(w)'
    BY <1>1, <1>4, <1>5, <1>6, ProfileKept DEF IInv, ProfilesInv
<1>16. ASSUME NEW g \in Handlers, pc[g] = "update", ~Live(req[g].Profile) PROVE Event(g) # w
    BY <1>4, <1>16 DEF IInv, ProfilesInv, HandlerOK
<1> QED
    BY <1>2, <1>5, <1>6, <1>7, <1>9, <1>10, <1>14, <1>15, <1>16, ProfilesStep

\* A crash of the server leaves nothing but new profiles.
LEMMA FatalProfiles ==
    ASSUME Counting, IInv, Shapes', NEW h \in Handlers, FatalMapAccess(h)
    PROVE  ProfilesInv'
<1>1. /\ profiles' = [e \in Events |-> newProfile(0)] /\ stored' = [s \in SIDs |-> None]
      /\ \A g \in Handlers : pc'[g] = "idle" /\ req'[g] = NoRequest
    BY DEF FatalMapAccess
<1>2. None \in 0..MaxEvents /\ 0 \in Nat /\ 0 <= today'
    BY SMTT(30), BoundsAssumption DEF None, Shapes
<1>3. Server'
    BY <1>1, <1>2, NewProfileType DEF Server
<1>4. ASSUME NEW p \in Events PROVE ProfileOK(p)'
    <2>1. PICK q, s : q = newProfile(0) /\ s = Owner(p)'
        OBVIOUS
    <2>2. Sound(q, s)'
        BY <1>2, <2>1, NewSound
    <2>3. profiles'[p] = q
        BY <1>1, <2>1
    <2> QED
        BY <2>1, <2>2, <2>3 DEF ProfileOK
<1>5. \A s \in SIDs : StoredOK(s)'
    BY <1>1 DEF StoredOK
<1>6. \A g \in Handlers : HandlerOK(g)'
    BY <1>1, NoRequestType DEF HandlerOK, Working
<1> QED
    BY <1>3, <1>4, <1>5, <1>6 DEF ProfilesInv, Server

-----------------------------------------------------------------------------
(* ProfilesInv is preserved: the update.                                    *)

\* The fields of a profile, written one at a time.
Totalled(p, v) == [p EXCEPT !.TotalAuthCount = v]
Begun(p, v) == [p EXCEPT !.ObservationStart = v]
Ended(p, v) == [p EXCEPT !.ObservationEnd = v]
Timed(p, hr, v) == [p EXCEPT !.TimeOfDay[hr] = v]
Tallied(p, v) == [p EXCEPT !.Counts = v]

LEMMA TotalledWrites ==
    ASSUME NEW p \in ProfileType, NEW v, v \in Nat, NEW q, q = Totalled(p, v)
    PROVE  /\ q \in ProfileType /\ q.TotalAuthCount = v
           /\ q.ObservationStart = p.ObservationStart /\ q.ObservationEnd = p.ObservationEnd
           /\ q.TimeOfDay = p.TimeOfDay /\ q.Counts = p.Counts
           /\ q.Classified = p.Classified /\ q.Baseline = p.Baseline
    BY SMTT(30) DEF ProfileType, Totalled
LEMMA BegunWrites ==
    ASSUME NEW p \in ProfileType, NEW v, v \in Nat, NEW q, q = Begun(p, v)
    PROVE  /\ q \in ProfileType /\ q.ObservationStart = v
           /\ q.TotalAuthCount = p.TotalAuthCount /\ q.ObservationEnd = p.ObservationEnd
           /\ q.TimeOfDay = p.TimeOfDay /\ q.Counts = p.Counts
           /\ q.Classified = p.Classified /\ q.Baseline = p.Baseline
    BY SMTT(30) DEF ProfileType, Begun
LEMMA EndedWrites ==
    ASSUME NEW p \in ProfileType, NEW v, v \in Nat, NEW q, q = Ended(p, v)
    PROVE  /\ q \in ProfileType /\ q.ObservationEnd = v
           /\ q.TotalAuthCount = p.TotalAuthCount /\ q.ObservationStart = p.ObservationStart
           /\ q.TimeOfDay = p.TimeOfDay /\ q.Counts = p.Counts
           /\ q.Classified = p.Classified /\ q.Baseline = p.Baseline
    BY SMTT(30) DEF ProfileType, Ended
LEMMA TimedWrites ==
    ASSUME NEW p \in ProfileType, NEW hr, NEW v, hr \in Hours => v \in Nat,
           NEW q, q = Timed(p, hr, v)
    PROVE  /\ q \in ProfileType
           /\ \A x \in Hours : q.TimeOfDay[x] = IF x = hr THEN v ELSE p.TimeOfDay[x]
           /\ q.TotalAuthCount = p.TotalAuthCount /\ q.ObservationStart = p.ObservationStart
           /\ q.ObservationEnd = p.ObservationEnd /\ q.Counts = p.Counts
           /\ q.Classified = p.Classified /\ q.Baseline = p.Baseline
<1>1. PICK t : t = [p.TimeOfDay EXCEPT ![hr] = v]
    OBVIOUS
<1>2. q = [p EXCEPT !.TimeOfDay = t]
    BY <1>1 DEF Timed
<1>3. p.TimeOfDay \in [Hours -> Nat]
    BY SMTT(30) DEF ProfileType
<1>4. t \in [Hours -> Nat] /\ \A x \in Hours : t[x] = IF x = hr THEN v ELSE p.TimeOfDay[x]
    BY <1>1, <1>3
<1>5. /\ q \in ProfileType /\ q.TimeOfDay = t
      /\ q.TotalAuthCount = p.TotalAuthCount /\ q.ObservationStart = p.ObservationStart
      /\ q.ObservationEnd = p.ObservationEnd /\ q.Counts = p.Counts
      /\ q.Classified = p.Classified /\ q.Baseline = p.Baseline
    BY SMTT(30), <1>2, <1>4 DEF ProfileType
<1> QED
    BY <1>4, <1>5
LEMMA TalliedWrites ==
    ASSUME NEW p \in ProfileType, NEW v, v \in [Attributes -> [AttributeValues -> Nat]],
           NEW q, q = Tallied(p, v)
    PROVE  /\ q \in ProfileType /\ q.Counts = v
           /\ q.TotalAuthCount = p.TotalAuthCount /\ q.ObservationStart = p.ObservationStart
           /\ q.ObservationEnd = p.ObservationEnd /\ q.TimeOfDay = p.TimeOfDay
           /\ q.Classified = p.Classified /\ q.Baseline = p.Baseline
    BY SMTT(30) DEF ProfileType, Tallied

\* The observation window is widened to the event.
LEMMA Widened ==
    ASSUME NEW x \in Nat, NEW y \in Nat
    PROVE  Min({x, y}) \in {x, y} /\ Max({x, y}) \in {x, y}
<1>1. (\A z \in {x, y} : x <= z) \/ (\A z \in {x, y} : y <= z)
    BY SMTT(30)
<1>2. (\A z \in {x, y} : x >= z) \/ (\A z \in {x, y} : y >= z)
    BY SMTT(30)
<1> QED
    BY <1>1, <1>2 DEF Min, Max

\* A counter goes to one more than it is, or than it was.
LEMMA UpdateFields ==
    ASSUME NEW p \in ProfileType, NEW o \in ProfileType, NEW stale, NEW ev, ev.Day \in Nat,
           NEW n, n = updateProfile(p, o, stale, ev)
    PROVE  /\ n \in ProfileType
           /\ n.TotalAuthCount \in {p.TotalAuthCount + 1, o.TotalAuthCount + 1}
           /\ n.ObservationStart \in {p.ObservationStart, ev.Day}
           /\ n.ObservationEnd \in {p.ObservationEnd, ev.Day}
           /\ \A hr \in Hours :
                 \/ n.TimeOfDay[hr] = p.TimeOfDay[hr]
                 \/ hr = ev.Hour /\ n.TimeOfDay[hr] \in {p.TimeOfDay[hr] + 1, o.TimeOfDay[hr] + 1}
           /\ \A a \in Attributes, v \in AttributeValues :
                 n.Counts[a][v] = p.Counts[a][v] \/ ev.Values[a] = v
           /\ n.Classified = p.Classified /\ n.Baseline = p.Baseline
<1> DEFINE From(c) == IF c \in stale THEN o ELSE p
<1>1. PICK c : c = From("TotalAuthCount").TotalAuthCount + 1
    OBVIOUS
<1>2. PICK b, e : b = Min({p.ObservationStart, ev.Day}) /\ e = Max({p.ObservationEnd, ev.Day})
    OBVIOUS
<1>3. PICK t : t = From("TimeOfDay").TimeOfDay[ev.Hour] + 1
    OBVIOUS
<1>4. PICK k : k = [a \in Attributes |-> [v \in AttributeValues |->
                      IF ev.Values[a] = v THEN From(a).Counts[a][v] + 1 ELSE p.Counts[a][v]]]
    OBVIOUS
<1>5. \A x : From(x) \in {o, p} /\ From(x) \in ProfileType
    OBVIOUS
<1>6. n = [p EXCEPT !.TotalAuthCount = c, !.ObservationStart = Min({@, ev.Day}),
                    !.ObservationEnd = Max({@, ev.Day}), !.TimeOfDay[ev.Hour] = t, !.Counts = k]
    BY <1>1, <1>3, <1>4 DEF updateProfile
<1> HIDE DEF From
<1>7. c \in Nat /\ c \in {p.TotalAuthCount + 1, o.TotalAuthCount + 1}
    <2>1. \A x \in ProfileType : x.TotalAuthCount + 1 \in Nat
        BY SMTT(30) DEF ProfileType
    <2> QED
        BY <1>1, <1>5, <2>1
<1>8. b \in Nat /\ b \in {p.ObservationStart, ev.Day} /\ e \in Nat /\ e \in {p.ObservationEnd, ev.Day}
    <2>1. p.ObservationStart \in Nat /\ p.ObservationEnd \in Nat
        BY SMTT(30) DEF ProfileType
    <2> QED
        BY <1>2, <2>1, Widened
<1>9. ev.Hour \in Hours => t \in Nat /\ t \in {p.TimeOfDay[ev.Hour] + 1, o.TimeOfDay[ev.Hour] + 1}
    <2>1. \A x \in ProfileType, hr \in Hours : x.TimeOfDay[hr] + 1 \in Nat
        BY SMTT(30) DEF ProfileType
    <2> QED
        BY <1>3, <1>5, <2>1
<1>10. /\ k \in [Attributes -> [AttributeValues -> Nat]]
       /\ \A a \in Attributes, v \in AttributeValues :
             k[a][v] = p.Counts[a][v] \/ ev.Values[a] = v
    <2>1. \A x \in ProfileType, a \in Attributes, v \in AttributeValues :
             x.Counts[a][v] \in Nat /\ x.Counts[a][v] + 1 \in Nat
        BY SMTT(30) DEF ProfileType
    <2>2. \A a \in Attributes, v \in AttributeValues :
             (IF ev.Values[a] = v THEN From(a).Counts[a][v] + 1 ELSE p.Counts[a][v]) \in Nat
        BY <1>5, <2>1
    <2> QED
        BY <1>4, <2>2
<1>11. PICK p1 : p1 = Totalled(p, c)
    OBVIOUS
<1>12. PICK p2 : p2 = Begun(p1, b)
    OBVIOUS
<1>13. PICK p3 : p3 = Ended(p2, e)
    OBVIOUS
<1>14. PICK p4 : p4 = Timed(p3, ev.Hour, t)
    OBVIOUS
<1>15. n = Tallied(p4, k)
    BY <1>2, <1>6, <1>11, <1>12, <1>13, <1>14 DEF Totalled, Begun, Ended, Timed, Tallied
<1>16. /\ p1 \in ProfileType /\ p1.TotalAuthCount = c
       /\ p1.ObservationStart = p.ObservationStart /\ p1.ObservationEnd = p.ObservationEnd
       /\ p1.TimeOfDay = p.TimeOfDay /\ p1.Classified = p.Classified /\ p1.Baseline = p.Baseline
    BY SMTT(30), <1>7, <1>11, TotalledWrites
<1>17. /\ p2 \in ProfileType /\ p2.ObservationStart = b
       /\ p2.TotalAuthCount = p1.TotalAuthCount /\ p2.ObservationEnd = p1.ObservationEnd
       /\ p2.TimeOfDay = p1.TimeOfDay /\ p2.Classified = p1.Classified
       /\ p2.Baseline = p1.Baseline
    BY SMTT(30), <1>8, <1>12, <1>16, BegunWrites
<1>18. /\ p3 \in ProfileType /\ p3.ObservationEnd = e
       /\ p3.TotalAuthCount = p2.TotalAuthCount /\ p3.ObservationStart = p2.ObservationStart
       /\ p3.TimeOfDay = p2.TimeOfDay /\ p3.Classified = p2.Classified
       /\ p3.Baseline = p2.Baseline
    BY SMTT(30), <1>8, <1>13, <1>17, EndedWrites
<1>19. /\ p4 \in ProfileType
       /\ \A x \in Hours : p4.TimeOfDay[x] = IF x = ev.Hour THEN t ELSE p3.TimeOfDay[x]
       /\ p4.TotalAuthCount = p3.TotalAuthCount /\ p4.ObservationStart = p3.ObservationStart
       /\ p4.ObservationEnd = p3.ObservationEnd
       /\ p4.Classified = p3.Classified /\ p4.Baseline = p3.Baseline
    <2>1. p3 \in ProfileType /\ (ev.Hour \in Hours => t \in Nat)
        BY <1>9, <1>18
    <2> QED
        BY SMTT(30), <1>14, <2>1, TimedWrites
<1>20. /\ n \in ProfileType /\ n.Counts = k
       /\ n.TotalAuthCount = p4.TotalAuthCount /\ n.ObservationStart = p4.ObservationStart
       /\ n.ObservationEnd = p4.ObservationEnd /\ n.TimeOfDay = p4.TimeOfDay
       /\ n.Classified = p4.Classified /\ n.Baseline = p4.Baseline
    <2>1. p4 \in ProfileType /\ k \in [Attributes -> [AttributeValues -> Nat]]
        BY <1>10, <1>19
    <2> QED
        BY SMTT(30), <1>15, <2>1, TalliedWrites
<1>21. \A hr \in Hours :
          \/ n.TimeOfDay[hr] = p.TimeOfDay[hr]
          \/ hr = ev.Hour /\ n.TimeOfDay[hr] \in {p.TimeOfDay[hr] + 1, o.TimeOfDay[hr] + 1}
    <2>1. \A hr \in Hours : n.TimeOfDay[hr] = IF hr = ev.Hour THEN t ELSE p.TimeOfDay[hr]
        <3>1. n.TimeOfDay = p4.TimeOfDay /\ p3.TimeOfDay = p.TimeOfDay
            BY <1>16, <1>17, <1>18, <1>20
        <3>2. \A hr \in Hours : p4.TimeOfDay[hr] = IF hr = ev.Hour THEN t ELSE p3.TimeOfDay[hr]
            BY <1>19
        <3> QED
            BY <3>1, <3>2
    <2> QED
        BY <1>9, <2>1
<1> QED
    BY <1>7, <1>8, <1>10, <1>16, <1>17, <1>18, <1>19, <1>20, <1>21

\* An event makes room for one more in its account's counters.
LEMMA UpdateCounts ==
    ASSUME Counting, Shapes, Shapes', Grows, NEW e \in DOMAIN occurred, occurred' = occurred,
           ingested[e] = 0, ingested'[e] = 1, NEW s, s = Owner(e),
           NEW p \in ProfileType, NEW o \in ProfileType, CountsOK(p, s), CountsOK(o, s),
           NEW n \in ProfileType,
           n.TotalAuthCount \in {p.TotalAuthCount + 1, o.TotalAuthCount + 1},
           \A hr \in Hours :
              \/ n.TimeOfDay[hr] = p.TimeOfDay[hr]
              \/ /\ hr = occurred[e].Hour
                 /\ n.TimeOfDay[hr] \in {p.TimeOfDay[hr] + 1, o.TimeOfDay[hr] + 1},
           \A a \in Attributes, v \in AttributeValues :
              n.Counts[a][v] = p.Counts[a][v] \/ occurred[e].Values[a] = v
    PROVE  CountsOK(n, s)'
<1>1. /\ Ingested(s) \in SUBSET Events /\ Ingested(s)' \in SUBSET Events
      /\ \A hr : IngestedAt(s, hr) \in SUBSET Events /\ IngestedAt(s, hr)' \in SUBSET Events
    BY IngestedEvents, IngestedLater
<1>2. /\ Ingested(s) \subseteq Ingested(s)'
      /\ \A hr : IngestedAt(s, hr) \subseteq IngestedAt(s, hr)'
    BY IngestedGrows
<1>3. e \in Ingested(s)' /\ e \notin Ingested(s)
    <2>1. ~(0 > 0) /\ 1 > 0
        BY SMTT(30)
    <2> QED
        BY <2>1 DEF Ingested, OfAccount, Owner
<1>4. ASSUME NEW x \in Nat, NEW S \in SUBSET Events, NEW T \in SUBSET Events, S \subseteq T,
             e \in T, e \notin S, x <= Cardinality(S)
      PROVE  x + 1 <= Cardinality(T)
    <2>1. /\ Cardinality(S) \in Nat /\ Cardinality(T) \in Nat
          /\ Cardinality(S) + 1 <= Cardinality(T)
        BY <1>4 DEF Counting
    <2> QED
        BY SMTT(30), <1>4, <2>1
<1>5. /\ p.TotalAuthCount \in Nat /\ o.TotalAuthCount \in Nat
      /\ \A hr \in Hours : p.TimeOfDay[hr] \in Nat /\ o.TimeOfDay[hr] \in Nat
    BY SMTT(30) DEF ProfileType
<1>6. n.TotalAuthCount <= Cardinality(Ingested(s)')
    <2>1. p.TotalAuthCount + 1 <= Cardinality(Ingested(s)')
        BY <1>1, <1>2, <1>3, <1>4, <1>5 DEF CountsOK
    <2>2. o.TotalAuthCount + 1 <= Cardinality(Ingested(s)')
        BY <1>1, <1>2, <1>3, <1>4, <1>5 DEF CountsOK
    <2> QED
        BY <2>1, <2>2
<1>7. CountsOK(p, s)'
    BY CountsKept
<1>8. ASSUME NEW hr \in Hours PROVE n.TimeOfDay[hr] <= Cardinality(IngestedAt(s, hr)')
    <2>1. CASE n.TimeOfDay[hr] = p.TimeOfDay[hr]
        BY <1>7, <2>1 DEF CountsOK
    <2>2. CASE /\ hr = occurred[e].Hour
               /\ n.TimeOfDay[hr] \in {p.TimeOfDay[hr] + 1, o.TimeOfDay[hr] + 1}
        <3>1. e \in IngestedAt(s, hr)' /\ e \notin IngestedAt(s, hr)
            BY <1>3, <2>2 DEF IngestedAt
        <3>2. p.TimeOfDay[hr] + 1 <= Cardinality(IngestedAt(s, hr)')
            BY <1>1, <1>2, <1>4, <1>5, <3>1 DEF CountsOK
        <3>3. o.TimeOfDay[hr] + 1 <= Cardinality(IngestedAt(s, hr)')
            BY <1>1, <1>2, <1>4, <1>5, <3>1 DEF CountsOK
        <3> QED
            BY <2>2, <3>2, <3>3
    <2> QED
        BY <2>1, <2>2
<1>9. ASSUME NEW a \in Attributes, NEW v \in AttributeValues, n.Counts[a][v] > 0
      PROVE  Showed(s, a, v)'
    <2>1. CASE n.Counts[a][v] = p.Counts[a][v]
        BY <1>7, <1>9, <2>1 DEF CountsOK
    <2>2. CASE occurred[e].Values[a] = v
        BY <1>3, <2>2 DEF Showed
    <2> QED
        BY <2>1, <2>2
<1> QED
    BY <1>6, <1>8, <1>9 DEF CountsOK

\* The update of one handler, with whatever the others wrote since it got the profile.
LEMMA UpdateProfiles ==
    ASSUME Counting, IInv, NEW h \in Handlers, Update(h)
    PROVE  ProfilesInv'
<1>1. /\ Shapes /\ Server /\ HandlerHolds(h) /\ HandlerOK(h) /\ DeliveryInv /\ pc[h] = "update"
    BY DEF IInv, DeliveryInv, ProfilesInv, Server, Update
<1>2. Shapes' /\ ingested[Event(h)] = 0 /\ ingested'[Event(h)] = 1
    BY <1>1, UpdateDelivery DEF DeliveryInv
<1>3. PICK r \in RequestType : Becomes(h, "classify", r) /\ r = WithOld(req[h], newProfile(0))
    BY <1>1, UpdateEffect
<1>4. PICK e, w, s, p, o : /\ e = Event(h) /\ w = req[h].Profile /\ s = Owner(Event(h))
                           /\ p = profiles[w] /\ o = req[h].Old
    OBVIOUS
<1>5. /\ req[h] \in RequestType /\ e \in DOMAIN occurred /\ e \in Events
      /\ occurred[e].Day \in Nat /\ occurred[e].Day <= today
    BY <1>1, <1>4, EventAtHand DEF Record, Working
<1>6. /\ w \in DOMAIN occurred /\ Owner(w) = s /\ Owner(e) = s /\ s # Absent
      /\ Owner(Event(h)) # Absent /\ CountsOK(o, s)
      /\ Live(w) \/ (w = e /\ occurred[e].Day <= p.ObservationStart)
    BY <1>1, <1>4 DEF HandlerOK, Working
<1>7. w \in Events /\ p \in ProfileType /\ Sound(p, s)
    <2>1. w \in Events
        BY <1>1, <1>6, OccurredEvents
    <2> QED
        BY <1>1, <1>4, <1>6, <2>1 DEF Server, IInv, ProfilesInv, ProfileOK
<1>8. o \in ProfileType
    BY SMTT(30), <1>4, <1>5 DEF RequestType
<1>9. PICK stale : profiles' = [profiles EXCEPT ![w] = updateProfile(p, o, stale, occurred[e])]
    BY <1>4 DEF Update, Record
<1>10. PICK n : n = updateProfile(p, o, stale, occurred[e])
    OBVIOUS
<1>11. /\ occurred' = occurred /\ today' = today /\ stored' = stored
       /\ ingested' = [ingested EXCEPT ![Event(h)] = @ + 1]
    BY DEF Update, agentVars
<1>12. Grows
    <2>1. today <= today' /\ 1 > 0
        BY SMTT(30), <1>1, <1>11 DEF Shapes
    <2>2. \A x \in DOMAIN occurred : x # e => ingested'[x] = ingested[x]
        BY <1>1, <1>4, <1>11, OccurredEvents DEF Shapes
    <2> QED
        BY <1>2, <1>4, <1>11, <2>1, <2>2 DEF Grows
<1>13. /\ n \in ProfileType
       /\ n.TotalAuthCount \in {p.TotalAuthCount + 1, o.TotalAuthCount + 1}
       /\ n.ObservationStart \in {p.ObservationStart, occurred[e].Day}
       /\ n.ObservationEnd \in {p.ObservationEnd, occurred[e].Day}
       /\ \A hr \in Hours :
             \/ n.TimeOfDay[hr] = p.TimeOfDay[hr]
             \/ /\ hr = occurred[e].Hour
                /\ n.TimeOfDay[hr] \in {p.TimeOfDay[hr] + 1, o.TimeOfDay[hr] + 1}
       /\ \A a \in Attributes, v \in AttributeValues :
             n.Counts[a][v] = p.Counts[a][v] \/ occurred[e].Values[a] = v
       /\ n.Classified = p.Classified /\ n.Baseline = p.Baseline
    <2>1. PICK ev : ev = occurred[e]
        OBVIOUS
    <2>2. ev.Day \in Nat /\ n = updateProfile(p, o, stale, ev)
        BY <1>5, <1>10, <2>1
    <2>3. p \in ProfileType /\ o \in ProfileType
        BY <1>7, <1>8
    <2> QED
        BY SMTT(30), <2>1, <2>2, <2>3, UpdateFields
<1>14. /\ Server' /\ profiles'[w] = n
       /\ \A x \in Events : x # w => profiles'[x] = profiles[x]
    BY <1>1, <1>7, <1>9, <1>10, <1>11, <1>13 DEF Server
<1>15. Sound(n, s)'
    <2>1. CountsOK(p, s) /\ p.ObservationEnd <= today
        BY <1>7 DEF Sound
    <2>2. CountsOK(n, s)'
        <3>1. /\ Shapes /\ Shapes' /\ e \in DOMAIN occurred /\ occurred' = occurred
              /\ ingested[e] = 0 /\ ingested'[e] = 1 /\ s = Owner(e)
            BY <1>1, <1>2, <1>4, <1>5, <1>11
        <3>2. p \in ProfileType /\ o \in ProfileType /\ CountsOK(o, s)
            BY <1>6, <1>7, <1>8
        <3> QED
            BY <1>12, <1>13, <2>1, <3>1, <3>2, UpdateCounts
    <2>3. n.ObservationEnd <= today'
        BY <1>5, <1>11, <1>13, <2>1
    <2>4. Sound(p, s)'
        BY <1>1, <1>2, <1>7, <1>12, SoundKept
    <2> QED
        BY <1>13, <2>2, <2>3, <2>4 DEF Sound
<1>16. ProfileOK(w)'
    BY <1>6, <1>11, <1>14, <1>15 DEF ProfileOK, Owner
<1>17. Live(w)'
    <2>1. ingested'[w] > 0
        <3>1. 1 > 0
            BY SMTT(30)
        <3> QED
            BY <1>2, <1>4, <1>6, <1>12, <3>1 DEF Live, Grows
    <2>2. n.TotalAuthCount > 0
        <3>1. p.TotalAuthCount + 1 > 0 /\ o.TotalAuthCount + 1 > 0
            BY SMTT(30), <1>7, <1>8 DEF ProfileType
        <3> QED
            BY <1>13, <3>1
    <2>3. e \in Ingested(s)' /\ Ingested(s) \subseteq Ingested(s)'
        <3>1. 1 > 0
            BY SMTT(30)
        <3>2. e \in Ingested(s)'
            BY <1>2, <1>4, <1>5, <1>6, <1>11, <3>1 DEF Ingested, OfAccount, Owner
        <3> QED
            BY <1>1, <1>12, <3>2, IngestedGrows
    <2>4. occurred[e].Day <= occurred[e].Day
        BY SMTT(30), <1>5
    <2>5. \E f \in Ingested(s)' : occurred[f].Day <= n.ObservationStart
        <3>1. CASE n.ObservationStart = occurred[e].Day
            BY <2>3, <2>4, <3>1
        <3>2. CASE n.ObservationStart = p.ObservationStart
            BY <1>4, <1>6, <2>3, <3>2 DEF Live
        <3> QED
            BY <1>13, <3>1, <3>2
    <2> QED
        BY <1>6, <1>11, <1>14, <2>1, <2>2, <2>5 DEF Live, Owner
<1>18. \A x \in DOMAIN occurred : Live(x) => Live(x)'
    BY <1>1, <1>12, <1>14, <1>17, LiveKept, OccurredEvents
<1>19. HandlerOK(h)'
    <2>1. /\ r.Events = req[h].Events /\ r.i = req[h].i /\ r.Profile = w
          /\ r.Decisions = req[h].Decisions
        <3>1. newProfile(0) \in ProfileType
            BY SMTT(30), NewProfileType
        <3> QED
            BY SMTT(30), <1>3, <1>4, <1>5, <3>1, WithOldWrites
    <2>2. /\ Event(h)' = e /\ req'[h].Profile = w /\ pc'[h] = "classify"
          /\ req'[h].Decisions = req[h].Decisions
        BY <1>3, <1>4, <2>1 DEF Event, Becomes
    <2>3. \A d \in req[h].Decisions : d \in DOMAIN occurred' /\ Contrast(d)'
        BY <1>1, <1>11, <1>12, ContrastKept DEF HandlerOK
    <2>4. Owner(e)' = s /\ Owner(w)' = s /\ w \in DOMAIN occurred'
        BY <1>6, <1>11 DEF Owner
    <2> QED
        BY <1>6, <1>17, <2>2, <2>3, <2>4 DEF HandlerOK
<1>20. ASSUME NEW g \in Handlers, g # h, pc[g] = "update", ~Live(req[g].Profile)
       PROVE  Event(g) # w
    <2>1. req[g].Profile = Event(g)
        BY <1>20 DEF IInv, ProfilesInv, HandlerOK
    <2>2. Event(g) # e
        BY <1>1, <1>4, <1>20, OtherEvents DEF Working
    <2> QED
        BY <1>6, <1>20, <2>1, <2>2
<1> QED
    BY <1>2, <1>3, <1>11, <1>12, <1>14, <1>16, <1>18, <1>19, <1>20, ProfilesStep

-----------------------------------------------------------------------------
(* What is proved.  Events are counted with the facts about finite sets.    *)

INSTANCE FiniteSetTheorems

LEMMA CountingHolds == Counting
<1>1. IsFiniteSet(Events)
    <2>1. 1 \in Int /\ MaxEvents \in Int
        BY SMTT(30), BoundsAssumption
    <2> QED
        BY <2>1, FS_Interval DEF Events
<1>2. ASSUME NEW S \in SUBSET Events, NEW T \in SUBSET Events, S \subseteq T
      PROVE  /\ Cardinality(S) \in Nat /\ Cardinality(T) \in Nat
             /\ Cardinality(S) <= Cardinality(T)
             /\ S # T => Cardinality(S) + 1 <= Cardinality(T)
    <2>1. IsFiniteSet(S) /\ IsFiniteSet(T)
        BY <1>1, FS_Subset
    <2>2. Cardinality(S) \in Nat /\ Cardinality(T) \in Nat
        BY <2>1, FS_CardinalityType
    <2>3. Cardinality(S) <= Cardinality(T) /\ (S # T => Cardinality(T) # Cardinality(S))
        BY <1>2, <2>1, FS_Subset
    <2> QED
        BY SMTT(30), <2>2, <2>3
<1>3. Cardinality({}) = 0
    BY FS_EmptySet
<1> QED
    BY <1>2, <1>3 DEF Counting

LEMMA InitIInv ==
    ASSUME Init
    PROVE  IInv
<1>1. /\ 0 \in Nat /\ 0 <= 0 /\ 0 <= MaxEvents /\ None \in 0..MaxEvents
      /\ \A m \in Nat : 0 <= m
    BY SMTT(30), BoundsAssumption DEF None
<1>2. 0 <= 1
    BY SMTT(30)
<1>3. <<>> \in Seq(Parsed) /\ Len(<<>>) = 0 /\ <<>> \in Seq(Events) /\ DOMAIN <<>> = {}
    BY SMTT(30)
<1>4. audited \in [Events -> [event : Nat, deviation : Nat]] /\ \A e \in Events : audited[e].event = 0
    <2>1. PICK z : z = [event |-> 0, deviation |-> 0]
        OBVIOUS
    <2>2. z \in [event : Nat, deviation : Nat] /\ z.event = 0
        BY SMTT(30), <2>1
    <2>3. audited = [e \in Events |-> z]
        BY <2>1 DEF Init
    <2> QED
        BY <2>2, <2>3
<1>5. Shapes
    BY <1>1, <1>3, <1>4, NoRequestType DEF Init, Shapes, AgentStates, Labels
<1>6. /\ \A a \in Agents : Unsent(a) = {} /\ channel[a] = <<>> /\ batch[a] = <<>> /\ agent[a] = "run"
      /\ \A h \in Handlers : Held(h) = {} /\ pc[h] = "idle" /\ req[h] = NoRequest
    BY NothingHeld, NoRequestType DEF Init, Unsent, Held
<1>7. \A h \in Handlers : Ahead(h) = {}
    <2>1. ASSUME NEW h \in Handlers PROVE Ahead(h) \subseteq Held(h)
        <3>1. req[h] \in RequestType
            BY <1>5 DEF Shapes
        <3>2. req[h].Events \in Seq(Events) /\ req[h].i \in Nat \ {0}
            BY SMTT(30), <3>1 DEF RequestType
        <3> QED
            BY <3>2, AheadHeld
    <2> QED
        BY <1>6, <2>1
<1>8. Apart
    BY <1>6 DEF Apart
<1>9. Counted
    BY <1>1, <1>2, <1>4 DEF Counted, Init
<1>10. \A a \in Agents : AgentOK(a)
    BY <1>6, NothingHeld DEF AgentOK
<1>11. \A h \in Handlers : HandlerHolds(h)
    BY <1>6, <1>7, NothingHeld, NoRequestType DEF HandlerHolds, Working
<1>12. Server
    BY <1>1, NewProfileType DEF Init, Server
<1>13. \A p \in Events : ProfileOK(p)
    BY <1>3 DEF Init, ProfileOK
<1>14. \A s \in SIDs : StoredOK(s)
    BY DEF Init, StoredOK
<1>15. \A h \in Handlers : HandlerOK(h)
    BY <1>6, NoRequestType DEF HandlerOK, Working
<1> QED
    BY <1>5, <1>8, <1>9, <1>10, <1>11, <1>12, <1>13, <1>14, <1>15
       DEF IInv, DeliveryInv, ProfilesInv, Server

LEMMA NextIInv ==
    ASSUME Counting, IInv, [Next]_vars
    PROVE  IInv'
<1>1. DeliveryInv' /\ Shapes'
    <2>1. DeliveryInv /\ Server
        BY DEF IInv, ProfilesInv, Server
    <2> QED
        BY <2>1, NextDelivery DEF DeliveryInv
<1>2. ProfilesInv'
    BY <1>1, ClockProfiles, SubscribeProfiles, AgentProfiles, RequestProfiles, GetProfiles,
       UpdateProfiles, ClassifyProfiles, BaselineProfiles, UpsertProfiles, FatalProfiles
       DEF Next
<1> QED
    BY <1>1, <1>2 DEF IInv

\* Every reachable state satisfies the invariant: an event on its way is in one place, and
\* no profile, old copy of a profile or baseline says more than the events ingested so far.
THEOREM Invariant == Spec => []IInv
<1>1. Init => IInv
    BY InitIInv
<1>2. IInv /\ [Next]_vars => IInv'
    BY CountingHolds, NextIInv
<1> QED
    BY <1>1, <1>2, PTL DEF Spec

\* Whatever batches are lost, whichever handlers race on a profile and whenever the server
\* crashes, no event is ingested or audited twice, and a stored profile never counts more
\* authentications than its account made (updateProfile, engine.go).
THEOREM CountsNeverExceed == Spec => []CountsSound
<1>1. ASSUME IInv PROVE CountsSound
    <2>1. ASSUME NEW s \in SIDs, stored[s] # None PROVE CountsOK(profiles[stored[s]], s)
        <3>1. PICK p : p = stored[s]
            OBVIOUS
        <3>2. p \in DOMAIN occurred /\ Owner(p) = s
            BY <1>1, <2>1, <3>1 DEF IInv, ProfilesInv, StoredOK
        <3>3. p \in Events
            BY <1>1, <3>2, OccurredEvents DEF IInv, DeliveryInv
        <3>4. Sound(profiles[p], s)
            BY <1>1, <3>2, <3>3 DEF IInv, ProfilesInv, ProfileOK
        <3> QED
            BY <3>1, <3>4 DEF Sound
    <2>2. \A e \in Events : ingested[e] <= 1 /\ audited[e].event <= 1
        BY <1>1 DEF IInv, DeliveryInv, Counted
    <2> QED
        BY <2>1, <2>2 DEF CountsSound, CountsOK, IngestedAt
<1> QED
    BY <1>1, Invariant, PTL

\* However updates race, an account is classified as a service account only after
\* minAuthCount of its events, over minObservationDays (observationWindowMet, engine.go).
THEOREM ClassificationObserved == Spec => []ClassifiedAfterObservation
<1>1. ASSUME IInv PROVE ClassifiedAfterObservation
    <2>1. ASSUME NEW s \in SIDs, stored[s] # None, profiles[stored[s]].Classified PROVE Observed(s)
        <3>1. PICK p : p = stored[s]
            OBVIOUS
        <3>2. p \in DOMAIN occurred /\ Owner(p) = s
            BY <1>1, <2>1, <3>1 DEF IInv, ProfilesInv, StoredOK
        <3>3. p \in Events
            BY <1>1, <3>2, OccurredEvents DEF IInv, DeliveryInv
        <3>4. Sound(profiles[p], s)
            BY <1>1, <3>2, <3>3 DEF IInv, ProfilesInv, ProfileOK
        <3> QED
            BY <2>1, <3>1, <3>4 DEF Sound
    <2> QED
        BY <2>1 DEF ClassifiedAfterObservation, Observed
<1> QED
    BY <1>1, Invariant, PTL

\* An event is denied as a baseline deviation only in contrast to another event of its
\* account, whatever increments were lost (deviates, engine.go).
THEOREM DenialsContrast == Spec => []DenialHasContrast
<1>1. IInv => DenialHasContrast
    BY DEF IInv, ProfilesInv, HandlerOK, Contrast, DenialHasContrast
<1> QED
    BY <1>1, Invariant, PTL
=============================================================================
