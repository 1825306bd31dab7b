----------------------------- MODULE OktaPoller -----------------------------
(***************************************************************************)
(* The Okta adapter's poll cycle (adapters/okta): fetch the events after the  *)
(* cursor, raise and deliver the signals of each, commit it to the detection  *)
(* memory, advance the cursor, and save the state after the cycle.  Okta may  *)
(* fail any request for a page, the core may not answer, the state file may   *)
(* not be writable, the process may stop or die.                             *)
(*                                                                          *)
(* Time counts milliseconds.                                                *)
(***************************************************************************)
EXTENDS OktaSignals, OktaClient, FiniteSets

CONSTANTS
    Log,                  \* the System Log, its events oldest first
    Live,                 \* TRUE for liveSource, FALSE for fixtureSource
    maxRecentUUIDs,
    maxTrackedIdentities,
    MaxFaults             \* bound on failed attempts, deliveries and saves, and on the ends of
                          \* a process in mid-cycle

UUIDs == 1..Len(Log)      \* an event's UUID is its place in Log
NoLogin == "no login"

ASSUME LogAssumption ==
    /\ \A k \in UUIDs : Log[k].Published \in Nat \ {0}
    /\ \A j, k \in UUIDs : j < k => Log[j].Published <= Log[k].Published
    /\ maxRecentUUIDs \in Nat /\ maxTrackedIdentities \in Nat

VARIABLES
    published,  \* how much of Log Okta has published
    st,         \* the State in memory
    disk,       \* the State in the file
    pc,         \* "idle", "fetch", "detect", "emit", "commit" or "save"
    batch,      \* the events of the cycle that are left
    signals,    \* the requests for the signals of the first of them that are left to deliver
    raised,     \* history: per event, what each Detect of it gave the core to decide
    received,   \* history: per event and signal, how often the core received it
    faults      \* number of faults so far

cycleVars == <<published, st, disk, pc, batch, signals, raised, received, faults>>
vars == <<cycleVars, clientVars>>

Signals == {"impossible_travel", "new_geo", "new_device", "legacy_auth", "mfa_deny",
            "mfa_fail", "mfa_fatigue", "admin_action", "auth_failure"}

\* Cursor is 0 before the first event.  Identities gives the tracked logins their
\* detection memory.  Committed (history) counts how often each event went into it.
NewState ==
    [Cursor |-> 0, RecentUUIDs |-> <<>>, Identities |-> <<>>,
     Committed |-> [k \in UUIDs |-> 0]]

Init ==
    /\ published = IF Live THEN 0 ELSE Len(Log)
    /\ st = NewState /\ disk = NewState /\ ClientInit
    /\ pc = "idle" /\ batch = <<>> /\ signals = <<>>
    /\ raised = [k \in UUIDs |-> {}]
    /\ received = [k \in UUIDs |-> [sig \in Signals |-> 0]]
    /\ faults = 0

Fault == faults < MaxFaults /\ faults' = faults + 1

\* Okta publishes the next event.
Publish ==
    /\ published < Len(Log)
    /\ published' = published + 1
    /\ UNCHANGED <<st, disk, pc, batch, signals, raised, received, faults, clientVars>>

-----------------------------------------------------------------------------
(* State.                                                                   *)

AlreadyProcessed(s, k) == \E i \in DOMAIN s.RecentUUIDs : s.RecentUUIDs[i] = k

\* The bounded dedupe window drops its oldest entries.
MarkProcessed(s, k) ==
    LET uuids == Append(s.RecentUUIDs, k)
    IN  IF AlreadyProcessed(s, k)
        THEN s.RecentUUIDs
        ELSE IF Len(uuids) > maxRecentUUIDs THEN Tail(uuids) ELSE uuids

\* evictIdentities drops the entry seen least recently, any of them among equals.
evictIdentities(ids) ==
    IF Cardinality(DOMAIN ids) <= maxTrackedIdentities
    THEN {ids}
    ELSE {[l \in DOMAIN ids \ {o} |-> ids[l]] :
             o \in {m \in DOMAIN ids : \A l \in DOMAIN ids : ids[m].LastSeen <= ids[l].LastSeen}}

\* Identity(login) returns the memory of the login, a new one where there is none, ...
Memory(ids, login) == IF login \in DOMAIN ids THEN ids[login] ELSE NewIdentity

\* ... which it adds to the map, possibly to evict it again.
Identity(ids, login) ==
    IF login \in DOMAIN ids
    THEN {ids}
    ELSE evictIdentities([l \in DOMAIN ids \cup {login} |-> Memory(ids, l)])

-----------------------------------------------------------------------------
(* A poll cycle.                                                            *)

\* The sources return the events after this time: the live one steps back from the
\* cursor by a millisecond, the fixture does not.
SinceExclusive(s) == s.Cursor

Since(s) == IF Live /\ s.Cursor # 0 THEN s.Cursor - 1 ELSE s.Cursor

After(time) == SelectSeq([k \in 1..published |-> k], LAMBDA k : Log[k].Published > time)

\* fixtureSource.Fetch reads a file, all of it.
FetchFixture ==
    /\ batch' = After(Since(st))
    /\ pc' = "detect"
    /\ UNCHANGED clientVars

\* liveSource.Fetch asks for the events since the cursor.
FetchLogs ==
    /\ FetchBegins(Since(st))
    /\ pc' = "fetch"
    /\ UNCHANGED batch

Fetch ==
    /\ pc = "idle"
    /\ IF Live THEN FetchLogs ELSE FetchFixture
    /\ UNCHANGED <<published, st, disk, signals, raised, received, faults>>

\* What Okta has for the next page: the link goes on after the page before.
Rest ==
    IF fetch.out = <<>>
    THEN After(fetch.since)
    ELSE SubSeq([k \in 1..published |-> k], fetch.out[Len(fetch.out)] + 1, published)

\* fetchPage backs off before it asks for the page again.
FetchBackoff ==
    /\ pc = "fetch"
    /\ Backoff
    /\ UNCHANGED cycleVars

\* Okta answers with a page and, where there is more, with a link to it (a link may also
\* lead to an empty page).  The page cap is partial success.
FetchPage ==
    /\ pc = "fetch" /\ ~Backs
    /\ \E linked \in BOOLEAN :
          /\ Len(Rest) > Limit => linked
          /\ PageRead(Rest, linked)
          /\ IF LastPage(linked) THEN batch' = Read(Rest) /\ pc' = "detect" ELSE UNCHANGED <<batch, pc>>
    /\ UNCHANGED <<published, st, disk, signals, raised, received, faults>>

\* A Fetch that fails ends the cycle, and the pages it had read are dropped.
FetchPageFails ==
    /\ pc = "fetch" /\ ~Backs
    /\ Fault
    /\ (\E asked \in retryAfter : AttemptFails(asked)) \/ FetchRefused \/ NextURLRefused
    /\ pc' = IF fetch' = NoFetch THEN "idle" ELSE pc
    /\ UNCHANGED <<published, st, disk, batch, signals, raised, received>>

\* The loop passes an event it has processed, and ends when none is left.
Pass ==
    /\ pc = "detect"
    /\ IF batch = <<>>
       THEN pc' = "save" /\ UNCHANGED batch
       ELSE /\ AlreadyProcessed(st, Head(batch))
            /\ batch' = Tail(batch) /\ UNCHANGED pc
    /\ UNCHANGED <<published, st, disk, signals, raised, received, faults, clientVars>>

\* Detect's signals, each as the request that Emit makes of it; nothing changes the
\* memory between the two.
Raised(k, sigs, ids) ==
    LET requests == [n \in DOMAIN sigs |->
                        signalToAccessRequest(sigs[n], Log[k], Memory(ids, Log[k].Login))]
    IN  signals' = requests /\ raised' = [raised EXCEPT ![k] = @ \cup {requests}]

\* Detection that remembers the event at once, delivered or not.
DetectEventCommitting ==
    /\ pc = "detect" /\ batch # <<>> /\ ~AlreadyProcessed(st, Head(batch))
    /\ LET ev == Log[Head(batch)]
           id == Memory(st.Identities, ev.Login)
       IN  IF ev.Login = NoLogin
           THEN Raised(Head(batch), <<>>, <<>>) /\ UNCHANGED st
           ELSE /\ \E ids \in Identity(st.Identities, ev.Login) :
                      st' = [st EXCEPT !.Identities =
                                [l \in DOMAIN ids |-> IF l = ev.Login THEN Commit(ev, id) ELSE ids[l]]]
                /\ Raised(Head(batch), Detect(ev, id), st'.Identities)
    /\ pc' = "emit"
    /\ UNCHANGED <<published, disk, batch, received, faults, clientVars>>

\* Detect looks the identity up and so tracks it; an event without a login raises none.
DetectEvent ==
    /\ pc = "detect" /\ batch # <<>> /\ ~AlreadyProcessed(st, Head(batch))
    /\ LET ev == Log[Head(batch)]
       IN  IF ev.Login = NoLogin
           THEN Raised(Head(batch), <<>>, <<>>) /\ UNCHANGED st
           ELSE \E ids \in Identity(st.Identities, ev.Login) :
                   /\ Raised(Head(batch), Detect(ev, Memory(st.Identities, ev.Login)), ids)
                   /\ st' = [st EXCEPT !.Identities = ids]
    /\ pc' = "emit"
    /\ UNCHANGED <<published, disk, batch, received, faults, clientVars>>

Deliver == received' = [received EXCEPT ![Head(batch)][Head(signals).type] = @ + 1]

\* sink.Emit for the next signal, or the end of the inner loop.
Emit ==
    /\ pc = "emit"
    /\ IF signals # <<>>
       THEN Deliver /\ signals' = Tail(signals) /\ UNCHANGED pc
       ELSE pc' = "commit" /\ UNCHANGED <<received, signals>>
    /\ UNCHANGED <<published, st, disk, batch, raised, faults, clientVars>>

\* A failed delivery that does not stop the batch.
EmitFailsIgnored ==
    /\ pc = "emit" /\ signals # <<>>
    /\ Fault
    /\ pc' = "commit" /\ signals' = <<>>
    /\ UNCHANGED <<published, st, disk, batch, raised, received, clientVars>>

\* sink.Emit fails, with the request received or not: the batch is left there.
EmitFails ==
    /\ pc = "emit" /\ signals # <<>>
    /\ Fault
    /\ Deliver \/ UNCHANGED received
    /\ batch' = <<>> /\ signals' = <<>>
    /\ pc' = "save"
    /\ UNCHANGED <<published, st, disk, raised, clientVars>>

\* A commit that does not record the event as processed.
CommitUnmarked ==
    LET k == Head(batch)
    IN  /\ pc = "commit"
        /\ st' = [st EXCEPT !.Cursor = Log[k].Published, !.Committed[k] = @ + 1]
        /\ batch' = Tail(batch)
        /\ pc' = "detect"
        /\ UNCHANGED <<published, disk, signals, raised, received, faults, clientVars>>

\* Commit, MarkProcessed and the cursor.
CommitEvent ==
    LET k == Head(batch)
        ev == Log[k]
    IN  /\ pc = "commit"
        /\ \E ids \in IF ev.Login = NoLogin THEN {st.Identities} ELSE Identity(st.Identities, ev.Login) :
              st' = [Cursor |-> IF ev.Published > st.Cursor THEN ev.Published ELSE st.Cursor,
                     RecentUUIDs |-> MarkProcessed(st, k),
                     Identities |-> [l \in DOMAIN ids |->
                         IF l = ev.Login THEN Commit(ev, ids[l]) ELSE ids[l]],
                     Committed |-> [st.Committed EXCEPT ![k] = @ + 1]]
        /\ batch' = Tail(batch)
        /\ pc' = "detect"
        /\ UNCHANGED <<published, disk, signals, raised, received, faults, clientVars>>

\* A save that writes the cursor and forgets the dedupe window.
SaveCursorOnly ==
    /\ pc = "save"
    /\ disk' = [st EXCEPT !.RecentUUIDs = <<>>]
    /\ pc' = "idle"
    /\ UNCHANGED <<published, st, batch, signals, raised, received, faults, clientVars>>

\* State.Save replaces the file atomically.
Save ==
    /\ pc = "save"
    /\ disk' = st
    /\ pc' = "idle"
    /\ UNCHANGED <<published, st, batch, signals, raised, received, faults, clientVars>>

\* It fails, and the cycle ends with an error.
SaveFails ==
    /\ pc = "save"
    /\ Fault
    /\ pc' = "idle"
    /\ UNCHANGED <<published, st, disk, batch, signals, raised, received, clientVars>>

\* The process is stopped, or gives up on ErrAuth: run saves once more, and the next
\* process loads what it saved.
Stop ==
    /\ pc \in {"idle", "fetch"}
    /\ IF pc = "fetch" THEN Fault ELSE UNCHANGED faults
    /\ disk' = st
    /\ pc' = "idle"
    /\ FetchEnds /\ lastRetryAfter' = 0
    /\ UNCHANGED <<published, st, batch, signals, raised, received>>

\* The process dies and is started again: LoadState.
Crash ==
    /\ Fault
    /\ st' = disk
    /\ pc' = "idle" /\ batch' = <<>> /\ signals' = <<>>
    /\ FetchEnds /\ lastRetryAfter' = 0
    /\ UNCHANGED <<published, disk, raised, received>>

-----------------------------------------------------------------------------
Cycle == Fetch \/ FetchBackoff \/ FetchPage \/ Pass \/ DetectEvent \/ Emit \/ CommitEvent \/ Save
Next == Publish \/ Cycle \/ FetchPageFails \/ EmitFails \/ SaveFails \/ Stop \/ Crash

\* Run polls for ever, at every tick, and events keep coming; faults are not fair.
Fairness == WF_vars(Cycle) /\ WF_vars(Publish)

Spec == Init /\ [][Next]_vars /\ Fairness

-----------------------------------------------------------------------------
(* Properties.                                                              *)

\* The core has received every signal of event k.
Delivered(k) ==
    raised[k] # {} /\ \A sigs \in raised[k] : \A n \in DOMAIN sigs : received[k][sigs[n].type] > 0

\* However often an event is processed, after failed deliveries, failed saves and
\* crashes, it raises the same signals and asks the core about them in the same words:
\* Detect "does not mutate state" (signals.go line 90), and memory and cursor are saved
\* together.
ReplayedAlike == \A k \in UUIDs : Cardinality(raised[k]) <= 1

\* A login is reported for MFA fatigue only for as many failed MFA events of its own
\* within the window: a replay counts no failure twice.
FatigueGrounded ==
    \A k \in UUIDs : \A sigs \in raised[k] : \A n \in DOMAIN sigs :
        sigs[n].type = "mfa_fatigue" =>
            Cardinality({j \in 1..published : /\ MFAFailed(Log[j]) /\ Log[j].Login = Log[k].Login
                                              /\ Log[j].Published \in
                                                    (Log[k].Published - FatigueWindow)..Log[k].Published})
                >= FatigueThreshold

\* The request for a new location names another location as the usual one, "so the
\* engine's geo_mismatch rule fires" (sink.go lines 83-84): at every delivery the memory
\* still is the one from before the event.
NewGeoMismatch ==
    \A k \in UUIDs : \A sigs \in raised[k] : \A n \in DOMAIN sigs :
        sigs[n].type = "new_geo" =>
            sigs[n].geo # Absent /\ sigs[n].usual_geo \notin {Absent, sigs[n].geo}

\* A fetch from state s misses no event with undelivered signals, except those at hand.
Covers(s, atHand) ==
    \A k \in (1..published) \ atHand : Log[k].Published <= Since(s) => Delivered(k)

\* No fetch, from the state in memory or from the one on disk, can miss an event whose
\* signals the core has not received, whatever failed and wherever the process died:
\* "re-runs neither duplicate nor gap even when multiple events share a timestamp"
\* (state.go lines 24-25).
NoGap == Covers(st, {batch[i] : i \in DOMAIN batch}) /\ Covers(disk, {})

\* Every extra delivery of a signal is accounted for by a fault.
DuplicatesBounded ==
    \A k \in UUIDs : \A sig \in Signals : received[k][sig] <= 1 + faults

\* In the end every published event has been delivered and committed, once and for all
\* ("it just retries on the next interval", poller.go line 99).
EventuallyDelivered ==
    <>[](published = Len(Log) /\ \A k \in UUIDs : Delivered(k) /\ st.Committed[k] > 0)
=============================================================================
