-------------------------------- MODULE Bus ---------------------------------
(***************************************************************************)
(* The integration event bus (core/internal/bus): Emit links an event into   *)
(* the hash chain under the emitter's mutex and then, with no lock held,      *)
(* POSTs it to one subscriber after the other.  Delivery is best-effort: a    *)
(* POST may fail, or time out while the request is still on its way.          *)
(***************************************************************************)
EXTENDS Naturals, Sequences

CONSTANTS
    Procs,           \* the goroutines that call Emit
    NumSubscribers,  \* len(e.urls)
    Healthy,         \* the subscribers that answer every POST
    Hashes,
    genesis,
    Digest(_, _),    \* the hash of <<prev_hash, id>>; the id stands for the other fields
    MaxEvents        \* bound on the number of Emit calls

Subscribers == 1..NumSubscribers
IDs == 1..MaxEvents
Event == [id : IDs, prev_hash : Hashes, hash : Hashes]
NoEvent == [id |-> 0]

ASSUME SubscribersAssumption ==
    NumSubscribers \in Nat \ {0} /\ MaxEvents \in Nat /\ Healthy \subseteq Subscribers
\* What is asked of SHA-256: events with different IDs have different hashes, and no
\* event has the genesis hash.
ASSUME DigestAssumption ==
    /\ genesis \in Hashes
    /\ \A g \in Hashes, m \in IDs : Digest(g, m) \in Hashes \ {genesis}
    /\ \A g, h \in Hashes, m, n \in IDs : Digest(g, m) = Digest(h, n) => m = n

VARIABLES
    prev,            \* e.prev
    emitted,         \* history: the events linked so far, in the order of the chain
    ev,              \* the event each goroutine is delivering, or NoEvent
    url,             \* the subscriber it POSTs to next; 0 when it is not in Emit
    inflight,        \* <<subscriber, event>>: requests that outlived their timeout
    received,        \* the events each subscriber has received, in order
    returnedBefore   \* history: the IDs whose Emit had returned when an Emit began

vars == <<prev, emitted, ev, url, inflight, received, returnedBefore>>

Init ==
    /\ prev = genesis
    /\ emitted = <<>>
    /\ ev = [p \in Procs |-> NoEvent]
    /\ url = [p \in Procs |-> 0]
    /\ inflight = {}
    /\ received = [u \in Subscribers |-> <<>>]
    /\ returnedBefore = [i \in IDs |-> {}]

Returned == {n \in 1..Len(emitted) : \A p \in Procs : ev[p].id # n}

-----------------------------------------------------------------------------
\* An Emit that does not advance the head.
EmitLinkHeadKept(p) ==
    LET n == Len(emitted) + 1
        linked == [id |-> n, prev_hash |-> prev, hash |-> Digest(prev, n)]
    IN  /\ url[p] = 0 /\ n \in IDs
        /\ emitted' = Append(emitted, linked)
        /\ ev' = [ev EXCEPT ![p] = linked]
        /\ url' = [url EXCEPT ![p] = 1]
        /\ returnedBefore' = [returnedBefore EXCEPT ![n] = Returned]
        /\ UNCHANGED <<prev, inflight, received>>

\* Emit up to e.mu.Unlock().
EmitLink(p) ==
    LET n == Len(emitted) + 1
        linked == [id |-> n, prev_hash |-> prev, hash |-> Digest(prev, n)]
    IN  /\ url[p] = 0 /\ n \in IDs
        /\ prev' = linked.hash
        /\ emitted' = Append(emitted, linked)
        /\ ev' = [ev EXCEPT ![p] = linked]
        /\ url' = [url EXCEPT ![p] = 1]
        /\ returnedBefore' = [returnedBefore EXCEPT ![n] = Returned]
        /\ UNCHANGED <<inflight, received>>

\* How a POST of event e to subscriber u ends: it is received, it fails, or it times
\* out and may still be received.
Received(u, e) ==
    received' = [received EXCEPT ![u] = Append(@, e)] /\ UNCHANGED inflight
Failed(u) == u \notin Healthy /\ UNCHANGED <<received, inflight>>
TimedOut(u, e) ==
    u \notin Healthy /\ inflight' = inflight \cup {<<u, e>>} /\ UNCHANGED received

\* Return from Emit.
Return(p) == url' = [url EXCEPT ![p] = 0] /\ ev' = [ev EXCEPT ![p] = NoEvent]

\* The loop goes on, or ends after the last subscriber.
NextURL(p) ==
    IF url[p] < NumSubscribers
    THEN url' = [url EXCEPT ![p] = @ + 1] /\ UNCHANGED ev
    ELSE Return(p)

\* An Emit that gives up at the first subscriber that does not answer.
PostGivesUp(p) ==
    /\ url[p] # 0
    /\ \/ Received(url[p], ev[p]) /\ NextURL(p)
       \/ (Failed(url[p]) \/ TimedOut(url[p], ev[p])) /\ Return(p)
    /\ UNCHANGED <<prev, emitted, returnedBefore>>

\* A client without a timeout: a POST to a subscriber that is down never ends.
PostNoTimeout(p) ==
    /\ url[p] \in Healthy
    /\ Received(url[p], ev[p])
    /\ NextURL(p)
    /\ UNCHANGED <<prev, emitted, returnedBefore>>

\* An Emit that leaves the delivery to the background.
PostAsync(p) ==
    /\ url[p] # 0
    /\ inflight' = inflight \cup {<<url[p], ev[p]>>}
    /\ NextURL(p)
    /\ UNCHANGED <<prev, emitted, received, returnedBefore>>

\* One turn of the loop over e.urls: an error is swallowed.
Post(p) ==
    /\ url[p] # 0
    /\ Received(url[p], ev[p]) \/ Failed(url[p]) \/ TimedOut(url[p], ev[p])
    /\ NextURL(p)
    /\ UNCHANGED <<prev, emitted, returnedBefore>>

\* A request that outlived its timeout is received late.
Late(u, e) ==
    /\ <<u, e>> \in inflight
    /\ inflight' = inflight \ {<<u, e>>}
    /\ received' = [received EXCEPT ![u] = Append(@, e)]
    /\ UNCHANGED <<prev, emitted, ev, url, returnedBefore>>

Quiet == (\A p \in Procs : url[p] = 0) /\ UNCHANGED vars

Next ==
    \/ \E p \in Procs : EmitLink(p) \/ Post(p)
    \/ \E m \in inflight : Late(m[1], m[2])
    \/ Quiet

\* The HTTP client gives up on a POST after ten seconds, so no turn of the loop
\* lasts for ever; nothing says that a late request is ever received.
Fairness == \A p \in Procs : WF_vars(Post(p))

Spec == Init /\ [][Next]_vars /\ Fairness

-----------------------------------------------------------------------------
(* Properties.                                                              *)

\* Whatever is lost, late or reordered on the way, no subscriber ever sees the chain
\* fork or an event twice: events with the same prev_hash are the same delivery.
\* (bus.go lines 69-84 link under the mutex, lines 90-99 send each event once.)
NoFork ==
    \A u \in Subscribers : \A i, j \in DOMAIN received[u] :
        received[u][i].prev_hash = received[u][j].prev_hash => i = j

\* Other subscribers' failures do not touch a healthy one ("best-effort: a missing or
\* failing subscriber ...", bus.go lines 12-15): when no Emit is running it has the
\* whole chain, from genesis to the head, with no event missing.
HealthyHasChain ==
    (\A p \in Procs : url[p] = 0) =>
        \A u \in Healthy :
            LET got == {received[u][i] : i \in DOMAIN received[u]}
            IN  /\ {e.hash : e \in got} \cup {genesis} = {e.prev_hash : e \in got} \cup {prev}
                /\ Len(received[u]) = Len(emitted)

\* Events overtake each other between the mutex and the POST, but not against real
\* time: a healthy subscriber receives an event whose Emit had returned before the
\* Emit of another began before that other event.
DeliveryOrder ==
    \A u \in Healthy : \A i, j \in DOMAIN received[u] :
        received[u][i].id \in returnedBefore[received[u][j].id] => i < j

\* "A down subscriber cannot break the decision path" (bus.go lines 14-15): every
\* Emit returns to the handler that called it.
EmitReturns == \A p \in Procs : (url[p] # 0) ~> (url[p] = 0)
=============================================================================
