----------------------------- MODULE ADPipeline -----------------------------
(***************************************************************************)
(* From the domain controllers to the discovery engine: each DC agent        *)
(* (adapters/dc-agent) buffers the authentication events of its controller   *)
(* and flushes them in batches to POST /v1/ad/events, whose handlers ingest   *)
(* them into the profiles.                                                  *)
(*                                                                          *)
(* Profiles are shared records that handlers update with no lock held, so a  *)
(* handler takes a step per access.  They contain maps: two goroutines that  *)
(* use one map at once end the server process, and its memory with it.       *)
(***************************************************************************)
EXTENDS Discovery, Sequences

CONSTANTS
    Agents, Handlers,
    SIDs,          \* the accounts
    Logged,        \* what a controller may log: [EventID, TargetSid, Hour, Data]
    BatchSize,
    MaxEvents,     \* bound on the events that occur
    MaxDays,       \* bound on the days that pass
    MaxFaults      \* bound on lost calls, timeouts, agent stops and server crashes

ASSUME BoundsAssumption ==
    BatchSize \in Nat \ {0} /\ {MaxEvents, MaxDays, MaxFaults} \subseteq Nat

VARIABLES
    today,
    occurred,   \* the events that reached an agent, in order; an event is its index here
    channel,    \* per agent: the channel from Subscribe to the main loop
    batch,      \* per agent
    agent,      \* per agent: "run", "flush", "wait" (for the answer) or "stopped"
    profiles,   \* the heap of profiles, by the event they were created for
    stored,     \* per account: the profile in the store, 0 for none
    pc,         \* per handler
    req,        \* per handler: the request it serves
    faults,
    ingested,   \* history: how often updateProfile was called for each event
    audited     \* history: how often each event, and a deviation of it, was audited

agentVars == <<occurred, channel, batch, agent>>
serverVars == <<profiles, stored, pc, req, ingested, audited>>
vars == <<today, agentVars, serverVars, faults>>

Events == 1..MaxEvents
None == 0
NoAgent == "none"
\* The events still to ingest are Events[i], Events[i+1], ...; Profile is the profile
\* at hand and Old what it was when the handler got it.
NoRequest == [From |-> NoAgent, Events |-> <<>>, i |-> 1, Profile |-> None,
              Old |-> newProfile(0), Decisions |-> {}]

Init ==
    /\ today = 0 /\ occurred = <<>> /\ faults = 0
    /\ channel = [a \in Agents |-> <<>>] /\ batch = [a \in Agents |-> <<>>]
    /\ agent = [a \in Agents |-> "run"]
    /\ profiles = [e \in Events |-> newProfile(0)] /\ stored = [s \in SIDs |-> None]
    /\ pc = [h \in Handlers |-> "idle"] /\ req = [h \in Handlers |-> NoRequest]
    /\ ingested = [e \in Events |-> 0]
    /\ audited = [e \in Events |-> [event |-> 0, deviation |-> 0]]

Fault == faults < MaxFaults /\ faults' = faults + 1

\* Days pass between requests, not within one.
PassDay ==
    /\ today < MaxDays /\ \A h \in Handlers : pc[h] = "idle"
    /\ today' = today + 1
    /\ UNCHANGED <<agentVars, serverVars, faults>>

-----------------------------------------------------------------------------
(* The agent: Subscribe fills the channel, the main loop of runService empties it. *)

\* The fields of the event log record that ParseEventXML keeps, by EventID.
Carried(id) ==
    CASE id \in {4624, 4625} -> {"SourceIP", "LogonType", "AuthPackage"}
      [] id = 4769           -> {"SourceIP", "TargetSPN"}
      [] id \in {4648, 4768, 4771, 4776, 2887, 2889} -> {"SourceIP"}
      [] OTHER               -> {}

\* The authentication package is implied by the EventID where it is not carried.
Implied(id) ==
    CASE id \in {4768, 4769, 4771} -> "kerberos"
      [] id \in {4776, 2887, 2889} -> "NTLM"
      [] OTHER                     -> Absent

NamesAccount(id) == id \in {4624, 4625, 4648, 4672, 4768, 4769, 4771}

\* A record that names an account names one of SIDs, or leaves the name empty.
ASSUME LoggedAssumption ==
    \A log \in Logged : NamesAccount(log.EventID) => log.TargetSid \in SIDs \cup {Absent}

ParseEventXML(log, now) ==
    [AccountSID |-> IF NamesAccount(log.EventID) THEN log.TargetSid ELSE Absent,
     Day |-> now, Hour |-> log.Hour,
     Values |-> [a \in Attributes |->
         IF a \in Carried(log.EventID) THEN log.Data[a]
         ELSE IF a = "AuthPackage" THEN Implied(log.EventID) ELSE Absent]]

Subscribe(a, log) ==
    /\ agent[a] # "stopped" /\ Len(occurred) < MaxEvents
    /\ Len(channel[a]) < 2 * BatchSize
    /\ occurred' = Append(occurred, ParseEventXML(log, today))
    /\ channel' = [channel EXCEPT ![a] = Append(@, Len(occurred) + 1)]
    /\ UNCHANGED <<today, batch, agent, serverVars, faults>>

Receive(a) ==
    /\ agent[a] = "run" /\ channel[a] # <<>>
    /\ channel' = [channel EXCEPT ![a] = Tail(@)]
    /\ batch' = [batch EXCEPT ![a] = Append(@, Head(channel[a]))]
    /\ agent' = [agent EXCEPT ![a] = IF Len(batch[a]) + 1 >= BatchSize THEN "flush" ELSE "run"]
    /\ UNCHANGED <<today, occurred, serverVars, faults>>

Tick(a) ==
    /\ agent[a] = "run" /\ batch[a] # <<>>
    /\ agent' = [agent EXCEPT ![a] = "flush"]
    /\ UNCHANGED <<today, occurred, channel, batch, serverVars, faults>>

Send(a, h) ==
    /\ agent[a] = "flush" /\ pc[h] = "idle"
    /\ agent' = [agent EXCEPT ![a] = "wait"]
    /\ pc' = [pc EXCEPT ![h] = "get"]
    /\ req' = [req EXCEPT ![h] = [NoRequest EXCEPT !.From = a, !.Events = batch[a]]]
    /\ UNCHANGED <<today, occurred, channel, batch, profiles, stored, faults, ingested, audited>>

Orphaned(a) ==
    [h \in Handlers |-> IF req[h].From = a THEN [req[h] EXCEPT !.From = NoAgent] ELSE req[h]]

\* A failed batch stays, to go out again with the next flush.
FlushFailsKept(a) ==
    /\ agent[a] \in {"flush", "wait"} /\ Fault
    /\ agent' = [agent EXCEPT ![a] = "run"]
    /\ req' = Orphaned(a)
    /\ UNCHANGED <<today, occurred, channel, batch, profiles, stored, pc, ingested, audited>>

\* The request is lost, refused or times out: the batch is dropped all the same, and a
\* handler that has begun goes on.
FlushFails(a) ==
    /\ agent[a] \in {"flush", "wait"} /\ Fault
    /\ agent' = [agent EXCEPT ![a] = "run"]
    /\ batch' = [batch EXCEPT ![a] = <<>>]
    /\ req' = Orphaned(a)
    /\ UNCHANGED <<today, occurred, channel, profiles, stored, pc, ingested, audited>>

\* The context is cancelled: the last flush uses it, and fails at once.
Stop(a) ==
    /\ agent[a] # "stopped" /\ Fault
    /\ agent' = [agent EXCEPT ![a] = "stopped"]
    /\ batch' = [batch EXCEPT ![a] = <<>>]
    /\ channel' = [channel EXCEPT ![a] = <<>>]
    /\ req' = Orphaned(a)
    /\ UNCHANGED <<today, occurred, profiles, stored, pc, ingested, audited>>

\* The agents whose requests were answered, or lost with the server, go on; their
\* decisions are only logged.
Answered(as) ==
    /\ agent' = [a \in Agents |-> IF a \in as THEN "run" ELSE agent[a]]
    /\ batch' = [a \in Agents |-> IF a \in as THEN <<>> ELSE batch[a]]

Start(a) ==
    /\ agent[a] = "stopped"
    /\ agent' = [agent EXCEPT ![a] = "run"]
    /\ UNCHANGED <<today, occurred, channel, batch, serverVars, faults>>

-----------------------------------------------------------------------------
(* The server: handleADEvents, and in it the loop of Ingest over the events. *)

Event(h) == req[h].Events[req[h].i]
Record(h) == occurred[Event(h)]
Profile(h) == profiles[req[h].Profile]

\* What follows event i: the next one, or the audit when it was the last.
Next_i(h) == IF req[h].i < Len(req[h].Events) THEN "get" ELSE "audit"

Get(h) ==
    /\ pc[h] = "get"
    /\ LET ev == Record(h)
           new == newProfile(today)
       IN  IF ev.AccountSID = Absent
           THEN /\ pc' = [pc EXCEPT ![h] = Next_i(h)]
                /\ req' = [req EXCEPT ![h].i = @ + 1]
                /\ UNCHANGED profiles
           ELSE /\ pc' = [pc EXCEPT ![h] = "update"]
                /\ IF stored[ev.AccountSID] = None
                   THEN /\ profiles' = [profiles EXCEPT ![Event(h)] = new]
                        /\ req' = [req EXCEPT ![h].Profile = Event(h), ![h].Old = new]
                   ELSE /\ req' = [req EXCEPT ![h].Profile = stored[ev.AccountSID],
                                              ![h].Old = profiles[stored[ev.AccountSID]]]
                        /\ UNCHANGED profiles
    /\ UNCHANGED <<today, agentVars, stored, faults, ingested, audited>>

Update(h) ==
    /\ pc[h] = "update"
    /\ \E stale \in SUBSET Changed(req[h].Old, Profile(h)) :
          profiles' = [profiles EXCEPT ![req[h].Profile] = updateProfile(@, req[h].Old, stale, Record(h))]
    /\ ingested' = [ingested EXCEPT ![Event(h)] = @ + 1]
    /\ pc' = [pc EXCEPT ![h] = "classify"]
    /\ req' = [req EXCEPT ![h].Old = newProfile(0)]
    /\ UNCHANGED <<today, agentVars, stored, faults, audited>>

Classify(h) ==
    /\ pc[h] = "classify"
    /\ IF /\ ~Profile(h).Classified
          /\ observationWindowMet(Profile(h))
          /\ classify(Profile(h)) >= classifyThreshold
       THEN /\ profiles' = [profiles EXCEPT ![req[h].Profile].Classified = TRUE]
            /\ pc' = [pc EXCEPT ![h] = "baseline"]
       ELSE /\ pc' = [pc EXCEPT ![h] = "upsert"]
            /\ UNCHANGED profiles
    /\ UNCHANGED <<today, agentVars, stored, req, faults, ingested, audited>>

Baseline(h) ==
    /\ pc[h] = "baseline"
    /\ profiles' = [profiles EXCEPT ![req[h].Profile].Baseline = buildBaseline(Profile(h))]
    /\ pc' = [pc EXCEPT ![h] = "upsert"]
    /\ UNCHANGED <<today, agentVars, stored, req, faults, ingested, audited>>

Upsert(h) ==
    /\ pc[h] = "upsert"
    /\ stored' = [stored EXCEPT ![Record(h).AccountSID] = req[h].Profile]
    /\ LET p == Profile(h)
           denied == p.Classified /\ p.Baseline.Built /\ deviates(p.Baseline, Record(h))
       IN  req' = [req EXCEPT ![h].i = @ + 1, ![h].Profile = None,
                              ![h].Decisions = IF denied THEN @ \cup {Event(h)} ELSE @]
    /\ pc' = [pc EXCEPT ![h] = Next_i(h)]
    /\ UNCHANGED <<today, agentVars, profiles, faults, ingested, audited>>

\* Every event of the batch is audited, then every decision, and the answer is sent.
Audit(h) ==
    /\ pc[h] = "audit"
    /\ audited' = [e \in Events |->
          [event |-> audited[e].event
                       + (IF \E i \in DOMAIN req[h].Events : req[h].Events[i] = e THEN 1 ELSE 0),
           deviation |-> audited[e].deviation + (IF e \in req[h].Decisions THEN 1 ELSE 0)]]
    /\ Answered({req[h].From})
    /\ pc' = [pc EXCEPT ![h] = "idle"]
    /\ req' = [req EXCEPT ![h] = NoRequest]
    /\ UNCHANGED <<today, occurred, channel, profiles, stored, faults, ingested>>

\* A goroutine that writes the maps of a stored profile and one that writes or reads
\* them (Update, Classify and Baseline of another handler, or handleADProfiles, which
\* encodes every stored profile) may meet: the runtime then ends the process.  The
\* store restarts empty, and the requests in service fail.
FatalMapAccess(h) ==
    /\ pc[h] = "update" /\ req[h].Profile \in {stored[s] : s \in SIDs}
    /\ Fault
    /\ stored' = [s \in SIDs |-> None]
    /\ profiles' = [e \in Events |-> newProfile(0)]
    /\ pc' = [g \in Handlers |-> "idle"] /\ req' = [g \in Handlers |-> NoRequest]
    /\ Answered({a \in Agents : agent[a] = "wait"})
    /\ UNCHANGED <<today, occurred, channel, ingested, audited>>

Quiet ==
    /\ Len(occurred) = MaxEvents /\ today = MaxDays
    /\ \A a \in Agents : agent[a] = "run" /\ batch[a] = <<>> /\ channel[a] = <<>>
    /\ \A h \in Handlers : pc[h] = "idle"
    /\ UNCHANGED vars

Next ==
    \/ PassDay
    \/ \E a \in Agents : \/ \E log \in Logged : Subscribe(a, log)
                         \/ Receive(a) \/ Tick(a)
                         \/ \E h \in Handlers : Send(a, h)
                         \/ FlushFails(a) \/ Stop(a) \/ Start(a)
    \/ \E h \in Handlers : \/ Get(h) \/ Update(h) \/ Classify(h) \/ Baseline(h)
                           \/ Upsert(h) \/ Audit(h) \/ FatalMapAccess(h)
    \/ Quiet

Spec == Init /\ [][Next]_vars

-----------------------------------------------------------------------------

OfAccount(s) == {e \in DOMAIN occurred : occurred[e].AccountSID = s}
Ingested(s) == {e \in OfAccount(s) : ingested[e] > 0}

\* Batches are dropped, never sent twice, and racing increments are lost, never made
\* up: no event is ingested or audited twice, and a stored profile never counts more
\* authentications than its account made, in total or at an hour of the day.
CountsSound ==
    /\ \A e \in Events : ingested[e] <= 1 /\ audited[e].event <= 1
    /\ \A s \in SIDs : stored[s] # None =>
          LET p == profiles[stored[s]]
          IN  /\ p.TotalAuthCount <= Cardinality(Ingested(s))
              /\ \A hr \in Hours :
                    p.TimeOfDay[hr] <= Cardinality({e \in Ingested(s) : occurred[e].Hour = hr})

\* Whatever races there were, an account is classified as a service account only after
\* minAuthCount of its events were ingested, the first of them minObservationDays or
\* more before the day of the last one's ingestion.
ClassifiedAfterObservation ==
    \A s \in SIDs :
        stored[s] # None /\ profiles[stored[s]].Classified =>
            /\ Cardinality(Ingested(s)) >= minAuthCount
            /\ \E e \in Ingested(s) : occurred[e].Day + minObservationDays <= today

\* An event is denied as a baseline deviation only in contrast to another event of its
\* account: one at another hour, or with another value of some attribute.  An account
\* that always authenticates in the same way is never denied, whatever was lost.
DenialHasContrast ==
    \A h \in Handlers : \A e \in req[h].Decisions :
        \E f \in Ingested(occurred[e].AccountSID) :
            \/ occurred[f].Hour # occurred[e].Hour
            \/ \E a \in Attributes :
                  /\ occurred[e].Values[a] \notin {Absent, occurred[f].Values[a]}
                  /\ occurred[f].Values[a] # Absent
=============================================================================
