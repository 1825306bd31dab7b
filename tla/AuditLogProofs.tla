--------------------------- MODULE AuditLogProofs ---------------------------
(***************************************************************************)
(* Proofs about AuditLog for any number of goroutines and events and for    *)
(* every hash function: only tamper detection uses that hashes differ.       *)
(***************************************************************************)
EXTENDS AuditLog, TLAPS

\* Zenon does the logic; the steps that need arithmetic or records call for SMT.
USE ZenonT(20)

\* What ChainIntact says, link by link, without the scan Verify does.
Linked ==
    /\ \A i \in DOMAIN auditEvents :
          /\ auditEvents[i].Hash
                = computeAuditHash(PrevHash(auditEvents, i), HashedFields(auditEvents[i]))
          /\ auditEvents[i].PreviousHash = PrevHash(auditEvents, i)
    /\ auditLastHash = PrevHash(auditEvents, Len(auditEvents) + 1)

\* The events being built have IDs of their own, all issued and none logged.
PendingFresh ==
    /\ \A p \in Procs : pc[p] = "append" =>
          event[p].ID < nextID /\ event[p].ID \notin Logged
    /\ \A p, q \in Procs : pc[p] = "append" /\ pc[q] = "append" /\ p # q =>
          event[p].ID # event[q].ID

\* History only names events that are logged, and an unissued ID has none.
HistoryLogged ==
    /\ \A n \in IDs : returnedBefore[n] \subseteq Logged
    /\ \A i \in DOMAIN auditEvents : auditEvents[i].ID < nextID

\* The inductive invariant behind the safety properties of AuditLog.
IInv ==
    /\ TypeOK
    /\ Linked
    /\ LoggedOnce
    /\ PendingFresh
    /\ HistoryLogged
    /\ RealTimeOrder

-----------------------------------------------------------------------------
\* Verify accepts a chain whose every link is right, and counts all of it.
LEMMA LinkedVerifies == Linked => ChainIntact
<1> SUFFICES ASSUME Linked PROVE ChainIntact
  OBVIOUS
<1>1. Mismatches(auditEvents) = {}
  BY DEF Linked, Mismatches
<1>2. Verify(auditEvents) = <<TRUE, Len(auditEvents)>>
  BY <1>1 DEF Verify
<1> QED
  BY <1>2 DEF Linked, ChainIntact

\* The placeholder of an idle goroutine is not an event.
LEMMA NoEventNotEvent == NoEvent \notin Event /\ NoEvent.ID \notin IDs
BY SMTT(30), BoundAssumption DEF NoEvent, Event, IDs

\* Stored events have IDs.
LEMMA StoredIDs == TypeOK => \A i \in DOMAIN auditEvents : auditEvents[i].ID \in IDs
<1> SUFFICES ASSUME TypeOK, NEW i \in DOMAIN auditEvents PROVE auditEvents[i].ID \in IDs
  OBVIOUS
<1>1. auditEvents[i] \in Event
  BY SMTT(30) DEF TypeOK
<1> QED
  BY <1>1 DEF Event

\* Building an event has the effect EmitBuild states, with everything typed.
LEMMA EmitBuildTyped ==
    ASSUME TypeOK, NEW p \in Procs, NEW c \in Contents, EmitBuild(p, c)
    PROVE  TypeOK' /\ event'[p].ID = nextID /\ event'[p] \in Event
<1>1. event'[p] \in Event /\ event'[p].ID = nextID
  BY HashAssumption DEF TypeOK, EmitBuild, Build, Event, Hashed
<1>2. event' \in [Procs -> Event \cup {NoEvent}]
  BY <1>1 DEF TypeOK, EmitBuild, Build
<1>3. \A q \in Procs : pc'[q] = "append" <=> event'[q] # NoEvent
  BY <1>1, NoEventNotEvent DEF TypeOK, EmitBuild, Build
<1>4. Logged \in SUBSET IDs
  BY StoredIDs DEF Logged
<1>5. returnedBefore' \in [IDs -> SUBSET IDs]
  BY <1>4 DEF TypeOK, EmitBuild, Build
<1>6. nextID' \in 1..(MaxEvents + 1)
  BY SMTT(30), BoundAssumption DEF TypeOK, EmitBuild, Build, IDs
<1>7. /\ auditEvents' \in Seq(Event)
      /\ auditLastHash' \in Hashes
      /\ pc' \in [Procs -> {"idle", "append"}]
  BY DEF TypeOK, EmitBuild, Build
<1> QED
  BY <1>1, <1>2, <1>3, <1>5, <1>6, <1>7 DEF TypeOK

\* Appending adds one typed event, linked to the head, at the end of the log.
LEMMA EmitAppendEffect ==
    ASSUME TypeOK, NEW p \in Procs, EmitAppend(p)
    PROVE  /\ TypeOK'
           /\ event[p] \in Event
           /\ Len(auditEvents') = Len(auditEvents) + 1
           /\ \A i \in DOMAIN auditEvents : auditEvents'[i] = auditEvents[i]
           /\ auditEvents'[Len(auditEvents) + 1].ID = event[p].ID
           /\ auditEvents'[Len(auditEvents) + 1].PreviousHash = auditLastHash
           /\ auditEvents'[Len(auditEvents) + 1].Hash = auditLastHash'
           /\ auditLastHash' =
                 computeAuditHash(auditLastHash, HashedFields(auditEvents'[Len(auditEvents) + 1]))
<1> DEFINE hash   == computeAuditHash(auditLastHash, HashedFields(event[p]))
           linked == [event[p] EXCEPT !.PreviousHash = auditLastHash, !.Hash = hash]
<1>1. event[p] \in Event
  BY DEF TypeOK, EmitAppend, StoreEvents
<1>2. HashedFields(event[p]) \in Hashed
  BY <1>1 DEF HashedFields, Hashed, Event
<1>3. hash \in Hashes
  BY <1>2, HashAssumption DEF TypeOK
<1>4. linked \in Event
  BY <1>1, <1>3 DEF Event, TypeOK
<1>5. linked.ID = event[p].ID /\ linked.PreviousHash = auditLastHash /\ linked.Hash = hash
  BY <1>1 DEF Event
<1>6. HashedFields(linked) = HashedFields(event[p])
  BY <1>1 DEF HashedFields, Event
<1>7. auditEvents' = Append(auditEvents, linked) /\ auditLastHash' = hash
  BY DEF EmitAppend, StoreEvents
<1> HIDE DEF hash, linked
<1>8. /\ auditEvents' \in Seq(Event)
      /\ Len(auditEvents') = Len(auditEvents) + 1
      /\ \A i \in DOMAIN auditEvents : auditEvents'[i] = auditEvents[i]
      /\ auditEvents'[Len(auditEvents) + 1] = linked
  BY SMTT(30), <1>4, <1>7 DEF TypeOK
<1>9. TypeOK'
  BY <1>3, <1>7, <1>8 DEF TypeOK, EmitAppend, StoreEvents
<1> QED
  BY <1>1, <1>5, <1>6, <1>7, <1>8, <1>9 DEF hash

-----------------------------------------------------------------------------
\* The initial state, an empty log with nothing pending, satisfies the invariant.
LEMMA InitIInv == Init => IInv
<1> SUFFICES ASSUME Init PROVE IInv
  OBVIOUS
<1>1. TypeOK
  BY SMTT(30), BoundAssumption, HashAssumption DEF Init, TypeOK
<1>2. DOMAIN auditEvents = {} /\ Len(auditEvents) = 0 /\ Logged = {}
  BY SMTT(30) DEF Init, Logged
<1>3. Linked /\ RealTimeOrder
  BY SMTT(30), <1>2 DEF Linked, RealTimeOrder, PrevHash, Init
<1>4. LoggedOnce
  BY SMTT(30), <1>2, BoundAssumption DEF LoggedOnce, Init, IDs
<1>5. PendingFresh /\ HistoryLogged
  BY <1>2 DEF PendingFresh, HistoryLogged, Init
<1> QED
  BY <1>1, <1>3, <1>4, <1>5 DEF IInv

\* Building an event touches no stored one, and the ID it takes is fresh.
LEMMA EmitBuildIInv ==
    ASSUME IInv, NEW p \in Procs, NEW c \in Contents, EmitBuild(p, c)
    PROVE  IInv'
<1> USE DEF IInv
<1>1. TypeOK' /\ event'[p].ID = nextID /\ event'[p] \in Event
  BY EmitBuildTyped
<1>2. UNCHANGED <<auditEvents, auditLastHash>> /\ Logged' = Logged
  BY DEF EmitBuild, Build, Logged
<1>3. Linked'
  BY <1>2 DEF Linked, PrevHash
<1>4. \A q \in Procs : q # p => event'[q] = event[q] /\ pc'[q] = pc[q]
  BY DEF EmitBuild, Build, TypeOK
<1>5. \A i \in DOMAIN auditEvents : auditEvents[i].ID \in IDs /\ auditEvents[i].ID < nextID
  BY StoredIDs DEF HistoryLogged
<1>6. nextID \notin Logged
  BY SMTT(30), <1>5 DEF Logged, TypeOK
<1>7. event[p].ID \notin IDs
  BY NoEventNotEvent DEF EmitBuild, Build, TypeOK
<1>8. LoggedOnce'
  <2>2. ASSUME NEW n \in IDs
        PROVE  (n < nextID' /\ \A q \in Procs : n # event'[q].ID)
                  <=> (n < nextID /\ \A q \in Procs : n # event[q].ID)
    <3>1. CASE n = nextID
      BY SMTT(30), <1>1, <3>1 DEF TypeOK
    <3>2. CASE n # nextID
      <4>1. n < nextID' <=> n < nextID
        BY SMTT(30), <3>2 DEF EmitBuild, Build, TypeOK, IDs
      <4>2. \A q \in Procs : n # event'[q].ID <=> n # event[q].ID
        BY <1>1, <1>4, <1>7, <3>2
      <4> QED
        BY <4>1, <4>2
    <3> QED
      BY <3>1, <3>2
  <2>3. {n \in IDs : n < nextID'} \ {event'[q].ID : q \in Procs}
          = {n \in IDs : n < nextID} \ {event[q].ID : q \in Procs}
    BY SMTT(30), <2>2
  <2> QED
    BY <1>2, <2>3 DEF LoggedOnce
<1>9. PendingFresh'
  <2>1. nextID' = nextID + 1 /\ nextID \in Int
    BY SMTT(30) DEF EmitBuild, Build, TypeOK
  <2>2. \A q \in Procs : q # p /\ pc'[q] = "append" =>
           event'[q].ID < nextID /\ event'[q].ID \in Int /\ event'[q].ID \notin Logged
    BY SMTT(30), <1>4 DEF PendingFresh, TypeOK, Event, IDs
  <2> QED
    BY SMTT(30), <1>1, <1>2, <1>4, <1>6, <2>1, <2>2 DEF PendingFresh
<1>10. HistoryLogged'
  <2>1. \A i \in DOMAIN auditEvents : auditEvents[i].ID < nextID'
    BY SMTT(30), <1>5 DEF EmitBuild, Build, TypeOK, IDs
  <2>2. \A n \in IDs : returnedBefore'[n] \subseteq Logged
    BY DEF HistoryLogged, EmitBuild, Build, TypeOK
  <2> QED
    BY <1>2, <2>1, <2>2 DEF HistoryLogged
<1>11. RealTimeOrder'
  <2> SUFFICES ASSUME NEW i \in DOMAIN auditEvents, NEW j \in DOMAIN auditEvents,
                      auditEvents[i].ID \in returnedBefore'[auditEvents[j].ID]
               PROVE  i < j
    BY <1>2 DEF RealTimeOrder
  <2>1. auditEvents[j].ID # nextID
    BY SMTT(30), <1>5 DEF TypeOK
  <2>2. returnedBefore'[auditEvents[j].ID] = returnedBefore[auditEvents[j].ID]
    BY SMTT(30), <2>1 DEF EmitBuild, Build, TypeOK, Event
  <2> QED
    BY <2>2 DEF RealTimeOrder
<1> QED
  BY <1>1, <1>3, <1>8, <1>9, <1>10, <1>11

\* Appending extends the chain by one link and logs exactly the pending ID.
LEMMA EmitAppendIInv ==
    ASSUME IInv, NEW p \in Procs, EmitAppend(p)
    PROVE  IInv'
<1> USE DEF IInv
<1> DEFINE n == Len(auditEvents)
<1>1. /\ TypeOK'
      /\ event[p] \in Event
      /\ Len(auditEvents') = n + 1
      /\ \A i \in DOMAIN auditEvents : auditEvents'[i] = auditEvents[i]
      /\ auditEvents'[n + 1].ID = event[p].ID
      /\ auditEvents'[n + 1].PreviousHash = auditLastHash
      /\ auditEvents'[n + 1].Hash = auditLastHash'
      /\ auditLastHash' = computeAuditHash(auditLastHash, HashedFields(auditEvents'[n + 1]))
  BY EmitAppendEffect
<1>2. n \in Nat /\ DOMAIN auditEvents = 1..n /\ DOMAIN auditEvents' = 1..(n + 1)
  BY SMTT(30), <1>1 DEF TypeOK
<1>3. \A i \in 1..(n + 1) : PrevHash(auditEvents', i) = PrevHash(auditEvents, i)
  BY SMTT(30), <1>1, <1>2 DEF PrevHash
<1>4. PrevHash(auditEvents', n + 2) = auditLastHash'
  BY SMTT(30), <1>1, <1>2 DEF PrevHash
<1>5. Linked'
  <2>1. \A i \in 1..n :
          /\ auditEvents'[i].Hash
               = computeAuditHash(PrevHash(auditEvents', i), HashedFields(auditEvents'[i]))
          /\ auditEvents'[i].PreviousHash = PrevHash(auditEvents', i)
    BY SMTT(30), <1>1, <1>2, <1>3 DEF Linked
  <2>2. auditLastHash = PrevHash(auditEvents', n + 1)
    BY SMTT(30), <1>2, <1>3 DEF Linked
  <2>3. \A i \in 1..(n + 1) : i \in 1..n \/ i = n + 1
    BY SMTT(30), <1>2
  <2>4. \A i \in 1..(n + 1) :
          /\ auditEvents'[i].Hash
               = computeAuditHash(PrevHash(auditEvents', i), HashedFields(auditEvents'[i]))
          /\ auditEvents'[i].PreviousHash = PrevHash(auditEvents', i)
    BY <1>1, <2>1, <2>2, <2>3
  <2> QED
    BY SMTT(30), <1>1, <1>2, <1>4, <2>4 DEF Linked
<1>6. Logged' = Logged \cup {event[p].ID}
  BY SMTT(30), <1>1, <1>2 DEF Logged
<1>7. pc[p] = "append" /\ event[p].ID \notin Logged /\ event[p].ID < nextID
  BY DEF PendingFresh, EmitAppend, StoreEvents
<1>8. /\ \A q \in Procs : q # p => event'[q] = event[q] /\ pc'[q] = pc[q]
      /\ pc'[p] = "idle" /\ event'[p] = NoEvent
      /\ UNCHANGED <<nextID, returnedBefore>>
  BY DEF EmitAppend, StoreEvents, TypeOK
<1>9. LoggedOnce'
  <2>1. \A i, j \in DOMAIN auditEvents' : auditEvents'[i].ID = auditEvents'[j].ID => i = j
    <3>1. \A i \in 1..n : auditEvents'[i].ID \in Logged
      BY <1>1, <1>2 DEF Logged
    <3>2. \A i, j \in 1..n : auditEvents'[i].ID = auditEvents'[j].ID => i = j
      BY <1>1, <1>2 DEF LoggedOnce
    <3> QED
      BY SMTT(30), <1>1, <1>2, <1>7, <3>1, <3>2
  <2>2. \A q \in Procs : q # p => event[q].ID # event[p].ID
    <3> SUFFICES ASSUME NEW q \in Procs, q # p PROVE event[q].ID # event[p].ID
      OBVIOUS
    <3>1. CASE pc[q] = "append"
      BY <3>1, <1>7 DEF PendingFresh
    <3>2. CASE pc[q] # "append"
      BY <3>2, <1>1, NoEventNotEvent DEF TypeOK, Event
    <3> QED
      BY <3>1, <3>2
  <2>3. event[p].ID \in IDs /\ event'[p].ID \notin IDs
    BY <1>1, <1>8, NoEventNotEvent DEF Event
  <2>4. {m \in IDs : m < nextID} \ {event'[q].ID : q \in Procs}
          = ({m \in IDs : m < nextID} \ {event[q].ID : q \in Procs}) \cup {event[p].ID}
    BY SMTT(30), <1>7, <1>8, <2>2, <2>3
  <2> QED
    BY <1>6, <1>8, <2>1, <2>4 DEF LoggedOnce
<1>10. PendingFresh'
  <2>1. \A q \in Procs : pc'[q] = "append" =>
           q # p /\ pc[q] = "append" /\ event'[q] = event[q] /\ event[q].ID # event[p].ID
    BY <1>7, <1>8 DEF PendingFresh
  <2> QED
    BY SMTT(30), <1>6, <1>8, <2>1 DEF PendingFresh
<1>11. HistoryLogged'
  BY SMTT(30), <1>1, <1>2, <1>6, <1>7, <1>8 DEF HistoryLogged
<1>12. RealTimeOrder'
  <2> SUFFICES ASSUME NEW i \in 1..(n + 1), NEW j \in 1..(n + 1),
                      auditEvents'[i].ID \in returnedBefore[auditEvents'[j].ID]
               PROVE  i < j
    BY <1>2, <1>8 DEF RealTimeOrder
  <2>1. auditEvents'[j].ID \in IDs
    <3>1. auditEvents'[j] \in Event
      BY SMTT(30), <1>1, <1>2 DEF TypeOK
    <3> QED
      BY <3>1 DEF Event
  <2>2. auditEvents'[i].ID \in Logged
    BY <2>1 DEF HistoryLogged
  <2>3. i \in 1..n
    BY SMTT(30), <1>1, <1>2, <1>7, <2>2
  <2>4. CASE j = n + 1
    BY SMTT(30), <1>2, <2>3, <2>4
  <2>5. CASE j \in 1..n
    BY <1>1, <1>2, <2>3, <2>5 DEF RealTimeOrder
  <2> QED
    BY SMTT(30), <1>2, <2>4, <2>5
<1> QED
  BY <1>1, <1>5, <1>9, <1>10, <1>11, <1>12

\* Every step of every handler, and stuttering, preserves the invariant.
LEMMA NextIInv == IInv /\ [Next]_vars => IInv'
<1> SUFFICES ASSUME IInv, [Next]_vars PROVE IInv'
  OBVIOUS
<1>1. ASSUME NEW p \in Procs, NEW c \in Contents, EmitBuild(p, c) PROVE IInv'
  BY <1>1, EmitBuildIInv
<1>2. ASSUME NEW p \in Procs, EmitAppend(p) PROVE IInv'
  BY <1>2, EmitAppendIInv
<1>3. CASE UNCHANGED vars
  BY SMTT(30), <1>3 DEF vars, IInv, TypeOK, Linked, PrevHash, LoggedOnce, Logged, PendingFresh,
              HistoryLogged, RealTimeOrder
<1> QED
  BY <1>1, <1>2, <1>3 DEF Next, Quiet

-----------------------------------------------------------------------------
\* The safety properties of the log hold in every reachable state, for every
\* number of goroutines, every bound and every hash function: types, the intact
\* chain GET /v1/audit/verify reports, real-time order, and no event lost or
\* stored twice.
THEOREM AuditLogSafe == Spec => [](TypeOK /\ ChainIntact /\ RealTimeOrder /\ LoggedOnce)
<1>1. IInv => TypeOK /\ ChainIntact /\ RealTimeOrder /\ LoggedOnce
  BY LinkedVerifies DEF IInv
<1> QED
  BY InitIInv, NextIInv, <1>1, PTL DEF Spec

\* In particular, an event whose Emit had returned before another Emit began is stored
\* before it, whatever other handlers emit meanwhile (audit.go Emit: the event is
\* built before the store's lock is taken).
THEOREM AuditLogRealTime == Spec => []RealTimeOrder
<1> QED
  BY AuditLogSafe, PTL

\* No step changes or drops a stored event (memory.go Append).
THEOREM AuditLogAppendOnly == Spec => AppendOnly
<1>1. IInv /\ [Next]_vars =>
        [/\ Len(auditEvents) <= Len(auditEvents')
         /\ \A i \in DOMAIN auditEvents : auditEvents'[i] = auditEvents[i]]_vars
  <2> SUFFICES ASSUME IInv, Next
               PROVE  /\ Len(auditEvents) <= Len(auditEvents')
                      /\ \A i \in DOMAIN auditEvents : auditEvents'[i] = auditEvents[i]
    OBVIOUS
  <2>1. TypeOK /\ Len(auditEvents) \in Nat
    BY SMTT(30) DEF IInv, TypeOK
  <2>2. CASE UNCHANGED auditEvents
    BY SMTT(30), <2>1, <2>2
  <2>3. ASSUME NEW p \in Procs, EmitAppend(p)
        PROVE  /\ Len(auditEvents) <= Len(auditEvents')
               /\ \A i \in DOMAIN auditEvents : auditEvents'[i] = auditEvents[i]
    BY SMTT(30), <2>1, <2>3, EmitAppendEffect
  <2> QED
    BY <2>2, <2>3 DEF Next, EmitBuild, Build, Quiet, vars
<1> QED
  BY InitIInv, NextIInv, <1>1, PTL DEF Spec, AppendOnly

-----------------------------------------------------------------------------
\* Verify stops at a replaced event whose hash does not fit: the events before it
\* are untouched, so they still fit.
LEMMA MisfitDetected ==
    ASSUME TypeOK, Linked, NEW i \in DOMAIN auditEvents, NEW altered \in Event,
           altered.Hash # computeAuditHash(PrevHash(auditEvents, i), HashedFields(altered))
    PROVE  DetectedAt(i, altered)
<1> DEFINE es == [auditEvents EXCEPT ![i] = altered]
<1>1. auditEvents \in Seq(Event) /\ DOMAIN auditEvents = 1..Len(auditEvents)
      /\ Len(auditEvents) \in Nat
  BY SMTT(30) DEF TypeOK
<1>2. DOMAIN es = DOMAIN auditEvents /\ es[i] = altered
  OBVIOUS
<1>3. \A j \in DOMAIN auditEvents : j < i => es[j] = auditEvents[j]
  BY SMTT(30), <1>1
<1>4. \A j \in DOMAIN auditEvents : j <= i => PrevHash(es, j) = PrevHash(auditEvents, j)
  BY SMTT(30), <1>1 DEF PrevHash
<1> HIDE DEF es
<1>5. i \in Mismatches(es)
  BY SMTT(30), <1>1, <1>2, <1>4 DEF Mismatches
<1>6. \A j \in Mismatches(es) : i <= j
  <2> SUFFICES ASSUME NEW j \in DOMAIN auditEvents, j < i PROVE j \notin Mismatches(es)
    BY SMTT(30), <1>1, <1>2 DEF Mismatches
  <2>1. es[j].Hash = computeAuditHash(PrevHash(es, j), HashedFields(es[j]))
    BY SMTT(30), <1>1, <1>3, <1>4 DEF Linked
  <2> QED
    BY <2>1 DEF Mismatches
<1>7. Mismatches(es) \subseteq Int
  BY SMTT(30), <1>1, <1>2 DEF Mismatches
<1>8. (CHOOSE k \in Mismatches(es) : \A j \in Mismatches(es) : k <= j) = i
  BY SMTT(30), <1>5, <1>6, <1>7
<1> QED
  BY <1>5, <1>8 DEF Verify, DetectedAt, es

\* In every reachable state, changing the content or the hash of one stored event is
\* reported by Verify at its index, for every log and every hash function under which
\* events that differ have different hashes (docs/security/audit-logging.md line 13).
THEOREM AuditLogTamperEvident == Spec => []AlterationDetected
<1>1. ASSUME IInv PROVE AlterationDetected
  <2> SUFFICES ASSUME NEW i \in DOMAIN auditEvents, NEW field \in {"Content", "Hash"},
                      NEW altered \in Alterations(auditEvents[i], field)
               PROVE  DetectedAt(i, altered)
    BY DEF AlterationDetected
  <2> DEFINE e    == auditEvents[i]
             prev == PrevHash(auditEvents, i)
  <2>1. TypeOK /\ Linked
    BY <1>1 DEF IInv
  <2>2. e \in Event
    BY SMTT(30), <2>1 DEF TypeOK
  <2>3. e.Hash = computeAuditHash(prev, HashedFields(e)) /\ prev \in Hashes
    <3>1. e.Hash = computeAuditHash(prev, HashedFields(e))
      BY <2>1 DEF Linked
    <3>2. CASE i = 1
      BY <3>1, <3>2, HashAssumption DEF PrevHash
    <3>3. CASE i # 1
      <4>1. i - 1 \in DOMAIN auditEvents
        BY SMTT(30), <2>1, <3>3 DEF TypeOK
      <4>2. auditEvents[i - 1] \in Event
        BY SMTT(30), <2>1, <4>1 DEF TypeOK
      <4> QED
        BY <3>1, <3>3, <4>2 DEF PrevHash, Event
    <3> QED
      BY <3>2, <3>3
  <2>4. PICK v \in (IF field = "Content" THEN Contents ELSE Hashes) :
            v # e[field] /\ altered = [e EXCEPT ![field] = v]
    BY DEF Alterations
  <2>5. altered \in Event
    BY <2>2, <2>4 DEF Event
  <2>6. HashedFields(e) \in Hashed /\ HashedFields(altered) \in Hashed
    BY <2>2, <2>5 DEF HashedFields, Hashed, Event
  <2> HIDE DEF prev
  <2>7. CASE field = "Content"
    <3>1. altered.Hash = e.Hash /\ altered.Content # e.Content
      BY <2>2, <2>4, <2>7 DEF Event
    <3>2. HashedFields(altered) # HashedFields(e)
      BY <3>1 DEF HashedFields
    <3>3. altered.Hash # computeAuditHash(prev, HashedFields(altered))
      BY <2>3, <2>6, <3>1, <3>2, CollisionAssumption
    <3> QED
      BY <2>1, <2>5, <3>3, MisfitDetected DEF prev
  <2>8. CASE field = "Hash"
    <3>1. altered.Hash # e.Hash /\ HashedFields(altered) = HashedFields(e)
      BY <2>2, <2>4, <2>8 DEF Event, HashedFields
    <3>2. altered.Hash # computeAuditHash(prev, HashedFields(altered))
      BY <2>3, <3>1
    <3> QED
      BY <2>1, <2>5, <3>2, MisfitDetected DEF prev
  <2> QED
    BY <2>7, <2>8
<1> QED
  BY InitIInv, NextIInv, <1>1, PTL DEF Spec
=============================================================================
