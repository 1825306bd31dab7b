------------------------------ MODULE AuditLog ------------------------------
(***************************************************************************)
(* The hash-chained audit log: audit.Service.Emit, which every request      *)
(* handler calls, over the audit part of the memory store.                  *)
(*                                                                          *)
(* Emit runs in two steps.  It reads the last hash under the read lock and   *)
(* builds the event (its timestamp included) with no lock held; Append then  *)
(* takes the write lock and appends.  Any number of other appends can happen *)
(* in between, so the hash Emit read is stale when Append runs.              *)
(***************************************************************************)
EXTENDS Integers, Sequences

CONSTANTS
    Procs,                   \* the goroutines that call Emit
    Contents,                \* the caller's part of an event: type, actor, target, ...
    Hashes,                  \* the hash values; the empty string is one of them
    EmptyHash,
    computeAuditHash(_, _),  \* the hash of <<previous hash, hashed fields of the event>>
    MaxEvents                \* bound on the number of Emit calls

VARIABLES
    auditEvents,     \* m.auditEvents
    auditLastHash,   \* m.auditLastHash
    nextID,          \* types.NewID and the clock: the next unused ID, also the time
    pc,              \* where each goroutine is in Emit: "idle" or "append"
    event,           \* the event a goroutine has built and not yet appended
    returnedBefore   \* history: the IDs whose Emit had returned when an Emit began

vars == <<auditEvents, auditLastHash, nextID, pc, event, returnedBefore>>

IDs == 1..MaxEvents

\* The fields computeAuditHash covers, the previous hash apart.
Hashed == [ID : IDs, Content : Contents]

Event == [ID : IDs, Content : Contents, PreviousHash : Hashes, Hash : Hashes]

ASSUME BoundAssumption == MaxEvents \in Nat
ASSUME HashAssumption ==
    /\ EmptyHash \in Hashes
    /\ \A h \in Hashes, c \in Hashed : computeAuditHash(h, c) \in Hashes
\* What is asked of SHA-256: events with different hashed fields have different hashes
\* on top of the same head.
ASSUME CollisionAssumption ==
    \A h \in Hashes, c, d \in Hashed :
        computeAuditHash(h, c) = computeAuditHash(h, d) => c = d

\* A hash that leaves out the caller's part of the event.
HashedFieldsIDOnly(e) == [ID |-> e.ID]

HashedFields(e) == [ID |-> e.ID, Content |-> e.Content]

NoEvent == [ID |-> 0]

-----------------------------------------------------------------------------
Init ==
    /\ auditEvents = <<>>
    /\ auditLastHash = EmptyHash
    /\ nextID = 1
    /\ pc = [p \in Procs |-> "idle"]
    /\ event = [p \in Procs |-> NoEvent]
    /\ returnedBefore = [i \in IDs |-> {}]

Logged == {auditEvents[i].ID : i \in DOMAIN auditEvents}

\* The event is built from the head read under the read lock; next is the ID counter
\* afterwards.
Build(p, content, next) ==
    /\ pc[p] = "idle"
    /\ nextID \in IDs
    /\ LET built == [ID |-> nextID, Content |-> content]
       IN  event' = [event EXCEPT ![p] =
               [ID |-> nextID, Content |-> content, PreviousHash |-> auditLastHash,
                Hash |-> computeAuditHash(auditLastHash, built)]]
    /\ nextID' = next
    /\ pc' = [pc EXCEPT ![p] = "append"]
    /\ returnedBefore' = [returnedBefore EXCEPT ![nextID] = Logged]
    /\ UNCHANGED <<auditEvents, auditLastHash>>

\* audit.go Emit up to the call of Append.
EmitBuild(p, content) == Build(p, content, nextID + 1)

\* The end of Append, and the return of Emit.
StoreEvents(p, events, head) ==
    /\ pc[p] = "append"
    /\ auditEvents' = events
    /\ auditLastHash' = head
    /\ pc' = [pc EXCEPT ![p] = "idle"]
    /\ event' = [event EXCEPT ![p] = NoEvent]
    /\ UNCHANGED <<nextID, returnedBefore>>

\* A store that trusts the link Emit computed before the lock was taken.
EmitAppendStaleLink(p) == StoreEvents(p, Append(auditEvents, event[p]), event[p].Hash)

\* A store that keeps the newest event first.
EmitAppendFirst(p) == StoreEvents(p, <<event[p]>> \o auditEvents, event[p].Hash)

\* A store that inserts by timestamp.
EmitAppendSorted(p) ==
    LET older == SelectSeq(auditEvents, LAMBDA e : e.ID < event[p].ID)
        newer == SelectSeq(auditEvents, LAMBDA e : e.ID > event[p].ID)
    IN  StoreEvents(p, older \o <<event[p]>> \o newer, event[p].Hash)

\* memory.go Append: the link is computed again under the lock.
EmitAppend(p) ==
    LET hash   == computeAuditHash(auditLastHash, HashedFields(event[p]))
        linked == [event[p] EXCEPT !.PreviousHash = auditLastHash, !.Hash = hash]
    IN  StoreEvents(p, Append(auditEvents, linked), hash)

\* No request is being served.
Quiet == (\A p \in Procs : pc[p] = "idle") /\ UNCHANGED vars

Next ==
    \/ \E p \in Procs, c \in Contents : EmitBuild(p, c)
    \/ \E p \in Procs : EmitAppend(p)
    \/ Quiet

\* Nothing blocks between building an event and appending it, so the Go
\* scheduler runs every goroutine that has an event to append.
Fairness == \A p \in Procs : WF_vars(EmitAppend(p))

Spec == Init /\ [][Next]_vars /\ Fairness

-----------------------------------------------------------------------------
(* Reading the log: both readers hold the read lock throughout.             *)

\* The hash Verify carries when it reaches the i-th event.
PrevHash(es, i) == IF i = 1 THEN EmptyHash ELSE es[i - 1].Hash

Mismatches(es) ==
    {i \in DOMAIN es : es[i].Hash # computeAuditHash(PrevHash(es, i), HashedFields(es[i]))}

\* memory.go Verify: <<valid, count>>, or the 0-based index of the first mismatch.
Verify(es) ==
    IF Mismatches(es) = {}
    THEN <<TRUE, Len(es)>>
    ELSE <<FALSE, (CHOOSE i \in Mismatches(es) : \A j \in Mismatches(es) : i <= j) - 1>>

-----------------------------------------------------------------------------
(* Properties.                                                              *)

\* Every variable has its type, and a goroutine about to append holds an event.
TypeOK ==
    /\ auditEvents \in Seq(Event)
    /\ auditLastHash \in Hashes
    /\ nextID \in 1..(MaxEvents + 1)
    /\ pc \in [Procs -> {"idle", "append"}]
    /\ event \in [Procs -> Event \cup {NoEvent}]
    /\ \A p \in Procs : pc[p] = "append" <=> event[p] # NoEvent
    /\ returnedBefore \in [IDs -> SUBSET IDs]

\* However the two halves of concurrent Emit calls interleave, the stored chain
\* is intact: GET /v1/audit/verify answers valid with the full count (memory.go
\* Verify), every event's previous_hash is the hash of the event stored before
\* it, and the head the next event will be linked to is the last one stored.
ChainIntact ==
    /\ Verify(auditEvents) = <<TRUE, Len(auditEvents)>>
    /\ \A i \in DOMAIN auditEvents : auditEvents[i].PreviousHash = PrevHash(auditEvents, i)
    /\ auditLastHash = PrevHash(auditEvents, Len(auditEvents) + 1)

\* The log is consistent with real time although timestamps are taken before the
\* lock (audit.go line 33) and so may be out of order in it: an event whose Emit
\* had returned before another Emit began is stored before that one's event.
RealTimeOrder ==
    \A i, j \in DOMAIN auditEvents :
        auditEvents[i].ID \in returnedBefore[auditEvents[j].ID] => i < j

\* Every Emit that is past Append is in the log exactly once, every other one
\* not at all: no interleaving loses or duplicates an event.
LoggedOnce ==
    /\ \A i, j \in DOMAIN auditEvents : auditEvents[i].ID = auditEvents[j].ID => i = j
    /\ Logged = {n \in IDs : n < nextID} \ {event[p].ID : p \in Procs}

\* The log is append-only: no step of any handler changes or drops a stored
\* event, or moves the stored head back (memory.go lines 416-424).
AppendOnly ==
    [][/\ Len(auditEvents) <= Len(auditEvents')
       /\ \A i \in DOMAIN auditEvents : auditEvents'[i] = auditEvents[i]]_vars

\* A stored event with one field changed to another value of its type.
Alterations(e, field) ==
    {[e EXCEPT ![field] = v] :
        v \in (IF field = "Content" THEN Contents ELSE Hashes) \ {e[field]}}

DetectedAt(i, altered) == Verify([auditEvents EXCEPT ![i] = altered]) = <<FALSE, i - 1>>

\* Whatever was emitted and in whichever order, changing the content or the hash of
\* one stored event makes Verify report the chain broken exactly there: "altering any
\* event breaks the chain from that point forward" (docs/security/audit-logging.md
\* lines 13-14) and verify returns "the index of the first mismatch" (line 20).
AlterationDetected ==
    \A i \in DOMAIN auditEvents, field \in {"Content", "Hash"} :
        \A altered \in Alterations(auditEvents[i], field) : DetectedAt(i, altered)
=============================================================================
