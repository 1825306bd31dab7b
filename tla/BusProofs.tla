----------------------------- MODULE BusProofs ------------------------------
(***************************************************************************)
(* What subscribers see of the hash chain, for any number of goroutines,     *)
(* subscribers and events: however POSTs fail, time out or arrive late.       *)
(***************************************************************************)
EXTENDS Bus, FiniteSetTheorems, TLAPS

\* Zenon does the logic; the steps that need arithmetic or records call for SMT.
USE ZenonT(20)

TypeOK ==
    /\ emitted \in Seq(Event) /\ Len(emitted) <= MaxEvents
    /\ prev \in Hashes
    /\ ev \in [Procs -> Event \cup {NoEvent}]
    /\ url \in [Procs -> 0..NumSubscribers]
    /\ inflight \subseteq Subscribers \X Event
    /\ received \in [Subscribers -> Seq(Event)]
    /\ returnedBefore \in [IDs -> SUBSET IDs]

\* The head that the n-th event is linked to.
HeadBefore(n) == IF n = 1 THEN genesis ELSE emitted[n - 1].hash

\* The emitted events are one chain, numbered in its order.
Chain ==
    /\ \A n \in DOMAIN emitted :
          /\ emitted[n].id = n
          /\ emitted[n].prev_hash = HeadBefore(n)
          /\ emitted[n].hash = Digest(HeadBefore(n), n)
    /\ prev = HeadBefore(Len(emitted) + 1)

\* Wherever an event is, it is the one that was emitted.
Genuine(e) == e.id \in DOMAIN emitted /\ e = emitted[e.id]

\* An Emit delivers an event that no other Emit delivers.
Held ==
    /\ \A p \in Procs : IF url[p] = 0 THEN ev[p] = NoEvent ELSE Genuine(ev[p])
    /\ \A p, q \in Procs : url[p] # 0 /\ url[q] # 0 /\ ev[p].id = ev[q].id => p = q

Has(u, n) == \E i \in DOMAIN received[u] : received[u][i].id = n
OnItsWay(u, n) == \E m \in inflight : m[1] = u /\ m[2].id = n

\* No event goes to a subscriber twice: what it has received is not on its way, and an
\* event that is still to be sent to it is neither.
SentOnce ==
    /\ \A u \in Subscribers : \A i \in DOMAIN received[u] : Genuine(received[u][i])
    /\ \A u \in Subscribers : \A i, j \in DOMAIN received[u] :
          received[u][i].id = received[u][j].id => i = j
    /\ \A m \in inflight : m[1] \notin Healthy /\ Genuine(m[2]) /\ ~Has(m[1], m[2].id)
    /\ \A p \in Procs, u \in Subscribers : url[p] # 0 /\ url[p] <= u =>
          ~Has(u, ev[p].id) /\ ~OnItsWay(u, ev[p].id)

\* A healthy subscriber lacks only events that some Emit will still send to it.
Complete ==
    \A u \in Healthy, n \in DOMAIN emitted :
        Has(u, n) \/ \E p \in Procs : url[p] # 0 /\ url[p] <= u /\ ev[p].id = n

\* An event whose Emit had returned is older, and no Emit delivers it any more.
ReturnedOlder ==
    \A n \in IDs : \A m \in returnedBefore[n] :
        m < n /\ m \in DOMAIN emitted /\ \A p \in Procs : ev[p].id # m

\* The inductive invariant.
IInv == TypeOK /\ Chain /\ Held /\ SentOnce /\ Complete /\ ReturnedOlder /\ DeliveryOrder

-----------------------------------------------------------------------------
\* The initial state, an empty chain with nothing sent, satisfies the invariant.
LEMMA InitIInv == Init => IInv
<1> SUFFICES ASSUME Init PROVE IInv
  OBVIOUS
<1> USE SubscribersAssumption, DigestAssumption DEF Init
<1>1. TypeOK
  BY SMTT(30) DEF TypeOK, Subscribers
<1>2. Chain
  BY SMTT(30) DEF Chain, HeadBefore
<1>3. Held /\ ReturnedOlder
  BY DEF Held, ReturnedOlder
<1>4. SentOnce
  BY SMTT(30) DEF SentOnce, Has, OnItsWay
<1>5. Complete /\ DeliveryOrder
  BY SMTT(30) DEF Complete, DeliveryOrder, Subscribers
<1> QED
  BY <1>1, <1>2, <1>3, <1>4, <1>5 DEF IInv

\* What an Emit does to the chain.
LEMMA EmitLinkEffect ==
    ASSUME IInv, NEW p \in Procs, EmitLink(p),
           NEW n, n = Len(emitted) + 1
    PROVE  /\ n \in IDs /\ emitted'[n] \in Event
           /\ DOMAIN emitted = 1..(n - 1) /\ DOMAIN emitted' = 1..n
           /\ emitted' \in Seq(Event) /\ Len(emitted') = n
           /\ \A i \in 1..(n - 1) : emitted'[i] = emitted[i]
           /\ emitted'[n].id = n /\ emitted'[n].prev_hash = prev
           /\ emitted'[n].hash = Digest(prev, n) /\ prev' = Digest(prev, n)
           /\ url[p] = 0 /\ url'[p] = 1 /\ ev'[p] = emitted'[n]
           /\ \A q \in Procs : q # p => url'[q] = url[q] /\ ev'[q] = ev[q]
           /\ UNCHANGED <<received, inflight>>
<1> DEFINE linked == [id |-> n, prev_hash |-> prev, hash |-> Digest(prev, n)]
<1>1. n \in IDs /\ n \in Nat /\ Len(emitted) = n - 1 /\ DOMAIN emitted = 1..(n - 1)
  BY SMTT(30), SubscribersAssumption DEF IInv, TypeOK, EmitLink, IDs
<1>2. linked \in Event
  BY <1>1, DigestAssumption DEF IInv, TypeOK, Event
<1>3. /\ emitted' = Append(emitted, linked) /\ prev' = linked.hash
      /\ ev' = [ev EXCEPT ![p] = linked] /\ url' = [url EXCEPT ![p] = 1] /\ url[p] = 0
      /\ UNCHANGED <<received, inflight>>
  BY DEF EmitLink
<1>4. linked.id = n /\ linked.prev_hash = prev /\ linked.hash = Digest(prev, n)
  OBVIOUS
<1> HIDE DEF linked
<1>5. /\ emitted' \in Seq(Event) /\ Len(emitted') = n /\ DOMAIN emitted' = 1..n
      /\ emitted'[n] = linked
      /\ \A i \in 1..(n - 1) : emitted'[i] = emitted[i]
  BY SMTT(30), <1>1, <1>2, <1>3 DEF IInv, TypeOK
<1>6. /\ ev'[p] = linked /\ url'[p] = 1
      /\ \A q \in Procs : q # p => url'[q] = url[q] /\ ev'[q] = ev[q]
  BY <1>3 DEF IInv, TypeOK
<1> QED
  BY <1>1, <1>2, <1>3, <1>4, <1>5, <1>6

\* Linking an event extends the chain by one event that no subscriber has seen.
LEMMA EmitLinkIInv ==
    ASSUME IInv, NEW p \in Procs, EmitLink(p)
    PROVE  IInv'
<1>0. PICK n : n = Len(emitted) + 1
  OBVIOUS
<1>1. /\ n \in IDs /\ emitted'[n] \in Event
      /\ DOMAIN emitted = 1..(n - 1) /\ DOMAIN emitted' = 1..n
      /\ emitted' \in Seq(Event) /\ Len(emitted') = n
      /\ \A i \in 1..(n - 1) : emitted'[i] = emitted[i]
      /\ emitted'[n].id = n /\ emitted'[n].prev_hash = prev
      /\ emitted'[n].hash = Digest(prev, n) /\ prev' = Digest(prev, n)
      /\ url[p] = 0 /\ url'[p] = 1 /\ ev'[p] = emitted'[n]
      /\ \A q \in Procs : q # p => url'[q] = url[q] /\ ev'[q] = ev[q]
      /\ UNCHANGED <<received, inflight>>
  BY <1>0, EmitLinkEffect
<1>2. n \in Nat \ {0} /\ n <= MaxEvents /\ n - 1 = Len(emitted)
  BY SMTT(30), <1>0, <1>1, SubscribersAssumption DEF IDs, IInv, TypeOK
<1>3. n \notin DOMAIN emitted /\ \A i \in 1..n : i \in 1..(n - 1) \/ i = n
  BY SMTT(30), <1>1, <1>2
<1>4. returnedBefore' = [returnedBefore EXCEPT ![n] = Returned]
  BY <1>0 DEF EmitLink
<1>5. Returned \subseteq 1..(n - 1)
  BY <1>2 DEF Returned
<1>6. TypeOK'
  <2>1. ev' \in [Procs -> Event \cup {NoEvent}] /\ url' \in [Procs -> 0..NumSubscribers]
    BY SMTT(30), <1>1, SubscribersAssumption DEF IInv, TypeOK, EmitLink
  <2>2. returnedBefore' \in [IDs -> SUBSET IDs]
    BY SMTT(30), <1>2, <1>4, <1>5, SubscribersAssumption DEF IInv, TypeOK, IDs
  <2>3. prev' \in Hashes
    BY <1>1, DigestAssumption DEF IInv, TypeOK
  <2> QED
    BY <1>1, <1>2, <2>1, <2>2, <2>3 DEF IInv, TypeOK
<1>7. \A e : Genuine(e) => Genuine(e)'
  BY SMTT(30), <1>1, <1>3 DEF Genuine
<1>8. Chain'
  <2>1. \A i \in 1..n : HeadBefore(i)' = HeadBefore(i)
    BY SMTT(30), <1>1, <1>2 DEF HeadBefore
  <2>2. HeadBefore(n) = prev
    BY <1>0 DEF IInv, Chain
  <2>3. HeadBefore(n + 1)' = prev'
    BY SMTT(30), <1>1, <1>2 DEF HeadBefore
  <2> QED
    BY SMTT(30), <1>1, <1>2, <1>3, <2>1, <2>2, <2>3 DEF IInv, Chain
<1>9. Held'
  <2>1. Genuine(ev[p])'
    BY SMTT(30), <1>1, <1>2 DEF Genuine
  <2>2. \A q \in Procs : q # p /\ url[q] # 0 => Genuine(ev[q])' /\ ev'[q].id # ev'[p].id
    BY SMTT(30), <1>1, <1>3, <1>7 DEF IInv, Held, Genuine
  <2> QED
    BY SMTT(30), <1>1, <2>1, <2>2 DEF IInv, Held
<1>10. \A u : \A m : (Has(u, m) <=> Has(u, m)') /\ (OnItsWay(u, m) <=> OnItsWay(u, m)')
  BY <1>1 DEF Has, OnItsWay
<1>11. \A u \in Subscribers : ~Has(u, n) /\ ~OnItsWay(u, n)
  BY SMTT(30), <1>3 DEF IInv, SentOnce, Has, OnItsWay, Genuine
<1>12. SentOnce'
  <2>1. \A u \in Subscribers : \A i \in DOMAIN received[u] : Genuine(received[u][i])'
    BY <1>1, <1>7 DEF IInv, SentOnce
  <2>2. \A m \in inflight : Genuine(m[2])'
    BY <1>7 DEF IInv, SentOnce
  <2> QED
    BY SMTT(30), <1>1, <1>10, <1>11, <2>1, <2>2 DEF IInv, SentOnce
<1>13. Complete'
  <2>0. \A u \in Healthy : 1 # 0 /\ 1 <= u
    BY SMTT(30), SubscribersAssumption DEF Subscribers
  <2>1. \A u \in Healthy : url'[p] # 0 /\ url'[p] <= u /\ ev'[p].id = n
    BY <1>1, <2>0
  <2>2. ASSUME NEW u \in Healthy, NEW i \in DOMAIN emitted,
               NEW q \in Procs, url[q] # 0, url[q] <= u, ev[q].id = i
        PROVE  url'[q] # 0 /\ url'[q] <= u /\ ev'[q].id = i
    BY <1>1, <2>2
  <2>3. \A i \in DOMAIN emitted' : i \in DOMAIN emitted \/ i = n
    BY <1>1, <1>3
  <2> QED
    <3> SUFFICES ASSUME NEW u \in Healthy, NEW i \in DOMAIN emitted'
                 PROVE  \/ Has(u, i)'
                        \/ \E q \in Procs : url'[q] # 0 /\ url'[q] <= u /\ ev'[q].id = i
      BY DEF Complete
    <3>1. CASE i = n
      BY <2>1, <3>1
    <3>2. CASE i \in DOMAIN emitted
      <4>1. Has(u, i) \/ \E q \in Procs : url[q] # 0 /\ url[q] <= u /\ ev[q].id = i
        BY <3>2 DEF IInv, Complete
      <4> QED
        BY <1>10, <2>2, <3>2, <4>1
    <3> QED
      BY <2>3, <3>1, <3>2
<1>14. ReturnedOlder'
  <2>1. \A m \in returnedBefore'[n] : m < n /\ m \in 1..n /\ \A q \in Procs : ev'[q].id # m
    <3>1. returnedBefore'[n] = Returned
      BY <1>1, <1>4 DEF IInv, TypeOK
    <3>2. \A m \in Returned : m < n /\ m \in 1..n
      BY SMTT(30), <1>2, <1>5
    <3>3. \A m \in Returned, q \in Procs : ev[q].id # m
      BY DEF Returned
    <3> QED
      BY SMTT(30), <1>1, <1>2, <3>1, <3>2, <3>3
  <2>2. \A k \in IDs : k # n => returnedBefore'[k] = returnedBefore[k]
    BY <1>4 DEF IInv, TypeOK
  <2>3. \A k \in IDs : \A m \in returnedBefore[k] :
            m < k /\ m \in 1..n /\ \A q \in Procs : ev'[q].id # m
    BY SMTT(30), <1>1, <1>2, <1>3 DEF IInv, ReturnedOlder
  <2> QED
    BY SMTT(30), <1>1, <2>1, <2>2, <2>3 DEF ReturnedOlder
<1>15. DeliveryOrder'
  BY SMTT(30), <1>1, <1>2, <1>3, <1>4, <1>5, SubscribersAssumption
  DEF IInv, DeliveryOrder, TypeOK, SentOnce, Genuine
<1> QED
  BY <1>6, <1>8, <1>9, <1>12, <1>13, <1>14, <1>15 DEF IInv

\* How a turn of the loop leaves its goroutine: at the next subscriber, or returned.
LEMMA NextURLEffect ==
    ASSUME TypeOK, NEW p \in Procs, url[p] # 0, NextURL(p)
    PROVE  /\ ev' \in [Procs -> Event \cup {NoEvent}] /\ url' \in [Procs -> 0..NumSubscribers]
           /\ \A q \in Procs : q # p => url'[q] = url[q] /\ ev'[q] = ev[q]
           /\ \/ url'[p] = url[p] + 1 /\ ev'[p] = ev[p]
              \/ url[p] = NumSubscribers /\ url'[p] = 0 /\ ev'[p] = NoEvent
<1>1. url[p] \in 1..NumSubscribers
  BY SMTT(30), SubscribersAssumption DEF TypeOK
<1>2. CASE url[p] < NumSubscribers
  <2>1. url' = [url EXCEPT ![p] = url[p] + 1] /\ ev' = ev
    BY <1>2 DEF NextURL
  <2>2. url[p] + 1 \in 0..NumSubscribers
    BY SMTT(30), <1>1, <1>2, SubscribersAssumption
  <2> QED
    BY <2>1, <2>2 DEF TypeOK
<1>3. CASE ~(url[p] < NumSubscribers)
  <2>1. url' = [url EXCEPT ![p] = 0] /\ ev' = [ev EXCEPT ![p] = NoEvent]
    BY <1>3 DEF NextURL, Return
  <2>2. url[p] = NumSubscribers /\ 0 \in 0..NumSubscribers
    BY SMTT(30), <1>1, <1>3, SubscribersAssumption
  <2> QED
    BY <2>1, <2>2 DEF TypeOK
<1> QED
  BY <1>2, <1>3

\* A subscriber receives an event that it has not received and that is not on its way.
LEMMA ReceivedKeeps ==
    ASSUME IInv, NEW u \in Subscribers, NEW e \in Event, Genuine(e), ~Has(u, e.id),
           received' = [received EXCEPT ![u] = Append(@, e)],
           UNCHANGED <<emitted, returnedBefore>>,
           u \in Healthy => \A n \in IDs : e.id \notin returnedBefore[n]
    PROVE  /\ received' \in [Subscribers -> Seq(Event)]
           /\ \A v \in Subscribers : \A i \in DOMAIN received'[v] : Genuine(received'[v][i])
           /\ \A v \in Subscribers : \A i, j \in DOMAIN received'[v] :
                 received'[v][i].id = received'[v][j].id => i = j
           /\ \A v \in Subscribers : \A n : Has(v, n)' <=> Has(v, n) \/ (v = u /\ n = e.id)
           /\ DeliveryOrder'
<1> DEFINE s == received[u]
<1>1. s \in Seq(Event) /\ Len(s) \in Nat /\ DOMAIN s = 1..Len(s)
  BY SMTT(30) DEF IInv, TypeOK
<1>2. received'[u] = Append(s, e) /\ \A v \in Subscribers : v # u => received'[v] = received[v]
  BY DEF IInv, TypeOK
<1>3. /\ DOMAIN received'[u] = 1..(Len(s) + 1) /\ received'[u][Len(s) + 1] = e
      /\ \A i \in DOMAIN s : received'[u][i] = s[i]
      /\ \A i \in 1..(Len(s) + 1) : i \in DOMAIN s \/ i = Len(s) + 1
      /\ DOMAIN s \subseteq 1..(Len(s) + 1) /\ Len(s) + 1 \in 1..(Len(s) + 1)
      /\ \A i \in DOMAIN s : i < Len(s) + 1
  BY SMTT(30), <1>1, <1>2
<1>4. \A i \in DOMAIN s : s[i].id # e.id /\ Genuine(s[i])
  BY DEF IInv, SentOnce, Has
<1> HIDE DEF s
<1>5. received' \in [Subscribers -> Seq(Event)]
  BY SMTT(30) DEF IInv, TypeOK
<1>6. \A v \in Subscribers : \A i \in DOMAIN received'[v] : Genuine(received'[v][i])
  BY <1>2, <1>3, <1>4 DEF IInv, SentOnce
<1>7. \A v \in Subscribers : \A i, j \in DOMAIN received'[v] :
          received'[v][i].id = received'[v][j].id => i = j
  BY SMTT(30), <1>2, <1>3, <1>4 DEF IInv, SentOnce, s
<1>8. \A v \in Subscribers : \A n : Has(v, n)' <=> Has(v, n) \/ (v = u /\ n = e.id)
  BY SMTT(30), <1>2, <1>3 DEF Has, s
<1>9. DeliveryOrder'
  <2> SUFFICES ASSUME NEW v \in Healthy, NEW i \in DOMAIN received'[v], NEW j \in DOMAIN received'[v],
                      received'[v][i].id \in returnedBefore[received'[v][j].id]
               PROVE  i < j
    BY DEF DeliveryOrder
  <2>1. v \in Subscribers
    BY SubscribersAssumption
  <2>2. CASE v # u
    BY <1>2, <2>1, <2>2 DEF IInv, DeliveryOrder
  <2>3. CASE v = u
    <3>1. received'[v][j].id \in IDs
      BY SMTT(30), <1>6, <2>1, SubscribersAssumption DEF Genuine, IInv, TypeOK, IDs
    <3>2. i \in DOMAIN s
      BY <1>3, <2>3, <3>1
    <3>3. CASE j \in DOMAIN s
      BY <1>3, <2>3, <3>2, <3>3 DEF IInv, DeliveryOrder, s
    <3>4. CASE j = Len(s) + 1
      BY <1>3, <3>2, <3>4
    <3> QED
      BY <1>3, <2>3, <3>3, <3>4
  <2> QED
    BY <2>2, <2>3
<1> QED
  BY <1>5, <1>6, <1>7, <1>8, <1>9

\* One turn of Emit's loop delivers its event, loses it or leaves it on its way, to a
\* subscriber that has not seen it.
LEMMA PostIInv ==
    ASSUME IInv, NEW p \in Procs, Post(p)
    PROVE  IInv'
<1>0. PICK u, e : u = url[p] /\ e = ev[p]
  OBVIOUS
<1>1. u # 0 /\ u \in Subscribers /\ e \in Event /\ e.id \in IDs
  BY SMTT(30), <1>0, SubscribersAssumption DEF IInv, TypeOK, Post, Held, Genuine, Subscribers, IDs
<1>2. UNCHANGED <<prev, emitted, returnedBefore>>
  BY DEF Post
<1>3. /\ ev' \in [Procs -> Event \cup {NoEvent}] /\ url' \in [Procs -> 0..NumSubscribers]
      /\ \A q \in Procs : q # p => url'[q] = url[q] /\ ev'[q] = ev[q]
      /\ \/ url'[p] = u + 1 /\ ev'[p] = e
         \/ u = NumSubscribers /\ url'[p] = 0 /\ ev'[p] = NoEvent
  BY <1>0, <1>1, NextURLEffect DEF IInv, Post
<1>4. Genuine(e) /\ ~Has(u, e.id) /\ ~OnItsWay(u, e.id)
  BY SMTT(30), <1>0, <1>1, SubscribersAssumption DEF IInv, Held, SentOnce, Subscribers
<1>5. \A n \in IDs : e.id \notin returnedBefore[n]
  BY <1>0 DEF IInv, ReturnedOlder
<1>6. Received(u, e) \/ Failed(u) \/ TimedOut(u, e)
  BY <1>0 DEF Post
<1>7. Held'
  <2>1. \A q \in Procs : url[q] # 0 => Genuine(ev[q])
    BY DEF IInv, Held
  <2>2. \A x : Genuine(x) <=> x.id \in DOMAIN emitted' /\ x = emitted'[x.id]
    BY <1>2 DEF Genuine
  <2>3. \A q \in Procs : IF url'[q] = 0 THEN ev'[q] = NoEvent ELSE Genuine(ev'[q])
    BY SMTT(30), <1>0, <1>1, <1>3, <1>4, SubscribersAssumption DEF IInv, Held, Subscribers
  <2>4. \A q \in Procs : url'[q] # 0 => url[q] # 0 /\ ev'[q] = ev[q]
    BY <1>0, <1>1, <1>3
  <2> QED
    BY SMTT(30), <2>2, <2>3, <2>4 DEF IInv, Held, Genuine
<1>8. ReturnedOlder'
  <2>1. \A m \in IDs : NoEvent.id # m
    BY SMTT(30) DEF NoEvent, IDs
  <2>2. \A q \in Procs : ev'[q] = ev[q] \/ ev'[q] = NoEvent
    BY <1>0, <1>3
  <2>3. \A n \in IDs : \A m \in returnedBefore[n] : m \in IDs
    BY DEF IInv, TypeOK
  <2> QED
    BY <1>2, <2>1, <2>2, <2>3 DEF IInv, ReturnedOlder
<1>9. /\ received' \in [Subscribers -> Seq(Event)]
      /\ \A v \in Subscribers : \A i \in DOMAIN received'[v] : Genuine(received'[v][i])
      /\ \A v \in Subscribers : \A i, j \in DOMAIN received'[v] :
            received'[v][i].id = received'[v][j].id => i = j
      /\ DeliveryOrder'
      /\ \A v \in Subscribers : \A n :
            /\ Has(v, n) => Has(v, n)'
            /\ Has(v, n)' => Has(v, n) \/ (v = u /\ n = e.id)
  <2>1. CASE Received(u, e)
    BY <1>1, <1>2, <1>4, <1>5, <2>1, ReceivedKeeps DEF Received
  <2>2. CASE UNCHANGED received
    BY <1>2, <2>2 DEF IInv, TypeOK, SentOnce, DeliveryOrder, Has
  <2> QED
    BY <1>6, <2>1, <2>2 DEF Failed, TimedOut
<1>10. /\ inflight' \subseteq Subscribers \X Event
       /\ \A m \in inflight' : m[1] \notin Healthy /\ Genuine(m[2]) /\ ~Has(m[1], m[2].id)'
       /\ \A v, n : OnItsWay(v, n)' => OnItsWay(v, n) \/ (v = u /\ n = e.id)
  <2>1. \A m \in inflight : m[1] \in Subscribers /\ m[1] \notin Healthy /\ Genuine(m[2])
                            /\ ~Has(m[1], m[2].id)
    BY DEF IInv, SentOnce, TypeOK
  <2>2. CASE Received(u, e)
    <3>1. \A m \in inflight : ~(m[1] = u /\ m[2].id = e.id)
      BY <1>4 DEF OnItsWay
    <3> QED
      BY <1>9, <2>1, <2>2, <3>1 DEF IInv, TypeOK, Received, OnItsWay
  <2>3. CASE Failed(u)
    BY <2>1, <2>3 DEF IInv, TypeOK, Failed, OnItsWay, Has
  <2>4. CASE TimedOut(u, e)
    <3>1. \A m \in inflight' : m \in inflight \/ (m = <<u, e>> /\ m[1] = u /\ m[2] = e)
      BY SMTT(30), <2>4 DEF TimedOut
    <3>2. \A v, n : Has(v, n)' <=> Has(v, n)
      BY <2>4 DEF TimedOut, Has
    <3>3. inflight' \subseteq Subscribers \X Event
      BY SMTT(30), <1>1, <2>4 DEF IInv, TypeOK, TimedOut
    <3>4. u \notin Healthy
      BY <2>4 DEF TimedOut
    <3> QED
      BY <1>4, <2>1, <3>1, <3>2, <3>3, <3>4 DEF OnItsWay
  <2> QED
    BY <1>6, <2>2, <2>3, <2>4
<1>11. TypeOK'
  BY <1>2, <1>3, <1>9, <1>10 DEF IInv, TypeOK
<1>12. Chain'
  BY <1>2 DEF IInv, Chain, HeadBefore
<1>13. SentOnce'
  <2>1. ASSUME NEW q \in Procs, NEW v \in Subscribers, url'[q] # 0, url'[q] <= v
        PROVE  ~Has(v, ev[q].id)' /\ ~OnItsWay(v, ev[q].id)'
    <3>0. PICK k : k = ev'[q].id
      OBVIOUS
    <3>00. SUFFICES ~Has(v, k)' /\ ~OnItsWay(v, k)'
      BY <3>0 DEF Has, OnItsWay
    <3>1. CASE q = p
      <4>1. url'[p] = u + 1 /\ ev'[p] = e /\ u <= v /\ v # u
        BY SMTT(30), <1>1, <1>3, <2>1, <3>1 DEF Subscribers
      <4>2. ~Has(v, e.id) /\ ~OnItsWay(v, e.id)
        BY <1>0, <1>1, <4>1 DEF IInv, SentOnce
      <4>3. ~Has(v, e.id)' /\ ~OnItsWay(v, e.id)'
        BY <1>9, <1>10, <4>1, <4>2
      <4> QED
        BY <3>0, <3>1, <4>1, <4>3
    <3>2. CASE q # p
      <4>1. url'[q] = url[q] /\ ev'[q] = ev[q] /\ ev[q].id # e.id
        BY <1>0, <1>1, <1>3, <2>1, <3>2 DEF IInv, Held
      <4>2. ~Has(v, ev[q].id) /\ ~OnItsWay(v, ev[q].id)
        BY <2>1, <4>1 DEF IInv, SentOnce
      <4> QED
        BY <1>9, <1>10, <3>0, <4>1, <4>2
    <3> QED
      BY <3>1, <3>2
  <2>2. \A x : Genuine(x) <=> x.id \in DOMAIN emitted' /\ x = emitted'[x.id]
    BY <1>2 DEF Genuine
  <2>3. \A v \in Subscribers : \A i \in DOMAIN received'[v] : Genuine(received[v][i])'
    BY <1>9, <2>2 DEF Genuine
  <2>4. \A m \in inflight' : m[1] \notin Healthy /\ Genuine(m[2])' /\ ~Has(m[1], m[2].id)'
    BY <1>10, <2>2 DEF Genuine
  <2> QED
    BY <1>9, <2>1, <2>3, <2>4 DEF SentOnce
<1>14. Complete'
  <2> SUFFICES ASSUME NEW v \in Healthy, NEW n \in DOMAIN emitted, ~Has(v, n)'
               PROVE  \E q \in Procs : url'[q] # 0 /\ url'[q] <= v /\ ev'[q].id = n
    BY <1>2 DEF Complete
  <2>1. v \in Subscribers /\ ~Has(v, n)
    BY <1>9, SubscribersAssumption
  <2>2. PICK q \in Procs : url[q] # 0 /\ url[q] <= v /\ ev[q].id = n
    BY <2>1 DEF IInv, Complete
  <2>3. CASE q # p
    BY <1>3, <2>2, <2>3
  <2>4. CASE q = p
    <3>1. v # u
      <4> SUFFICES ASSUME v = u PROVE FALSE
        OBVIOUS
      <4>1. Received(u, e)
        BY <1>6 DEF Failed, TimedOut
      <4>2. Has(u, e.id)'
        BY <1>1, <1>2, <1>4, <1>5, <4>1, ReceivedKeeps DEF Received
      <4> QED
        BY <1>0, <2>2, <2>4, <4>2
    <3>2. url'[p] = u + 1 /\ ev'[p] = e /\ u + 1 <= v /\ u + 1 # 0
      BY SMTT(30), <1>0, <1>1, <1>3, <2>1, <2>2, <2>4, <3>1, SubscribersAssumption DEF Subscribers
    <3> QED
      BY <1>0, <2>2, <2>4, <3>2
  <2> QED
    BY <2>3, <2>4
<1> QED
  BY <1>7, <1>8, <1>9, <1>11, <1>12, <1>13, <1>14 DEF IInv

\* A late request is received by a subscriber that had not received it.
LEMMA LateIInv ==
    ASSUME IInv, NEW u, NEW e, Late(u, e)
    PROVE  IInv'
<1>1. /\ u \in Subscribers /\ e \in Event
      /\ u \notin Healthy /\ Genuine(e) /\ ~Has(u, e.id)
  <2>1. <<u, e>> \in inflight
    BY DEF Late
  <2>2. u \in Subscribers /\ e \in Event
    BY <2>1 DEF IInv, TypeOK
  <2>3. <<u, e>>[1] = u /\ <<u, e>>[2] = e
    OBVIOUS
  <2> QED
    BY <2>1, <2>2, <2>3 DEF IInv, SentOnce
<1>2. UNCHANGED <<prev, emitted, ev, url, returnedBefore>>
  BY DEF Late
<1>3. /\ received' \in [Subscribers -> Seq(Event)]
      /\ \A v \in Subscribers : \A i \in DOMAIN received'[v] : Genuine(received'[v][i])
      /\ \A v \in Subscribers : \A i, j \in DOMAIN received'[v] :
            received'[v][i].id = received'[v][j].id => i = j
      /\ \A v \in Subscribers : \A n : Has(v, n)' <=> Has(v, n) \/ (v = u /\ n = e.id)
      /\ DeliveryOrder'
  BY <1>1, ReceivedKeeps DEF Late
<1>4. \A m \in inflight' :
         /\ m \in inflight /\ m[1] \in Subscribers /\ m[2] \in Event
         /\ ~(m[1] = u /\ m[2].id = e.id)
  <2>1. \A m \in inflight' : m \in inflight /\ m # <<u, e>>
    BY DEF Late
  <2>2. \A m \in inflight : m = <<m[1], m[2]>> /\ m[1] \in Subscribers /\ m[2] \in Event
    BY SMTT(30) DEF IInv, TypeOK
  <2>3. \A m \in inflight : m[2].id = e.id => m[2] = e
    BY <1>1 DEF IInv, SentOnce, Genuine
  <2> QED
    BY <2>1, <2>2, <2>3
<1>5. TypeOK'
  BY <1>2, <1>3, <1>4 DEF IInv, TypeOK, Late
<1>6. Chain' /\ Held' /\ ReturnedOlder'
  BY <1>2 DEF IInv, Chain, HeadBefore, Held, Genuine, ReturnedOlder
<1>7. SentOnce'
  <2>1. \A x : Genuine(x) <=> Genuine(x)'
    BY <1>2 DEF Genuine
  <2>2. \A v \in Subscribers : \A i \in DOMAIN received'[v] : Genuine(received[v][i])'
    BY <1>2, <1>3 DEF Genuine
  <2>3. \A m \in inflight' : m[1] \notin Healthy /\ Genuine(m[2])' /\ ~Has(m[1], m[2].id)'
    BY <1>3, <1>4, <2>1 DEF IInv, SentOnce
  <2>4. ASSUME NEW p \in Procs, NEW v \in Subscribers, url'[p] # 0, url'[p] <= v
        PROVE  ~Has(v, ev[p].id)' /\ ~OnItsWay(v, ev[p].id)'
    <3>1. PICK k : k = ev[p].id
      OBVIOUS
    <3>2. ~Has(v, k) /\ ~OnItsWay(v, k)
      BY <1>2, <2>4, <3>1 DEF IInv, SentOnce
    <3>3. ~(v = u /\ k = e.id)
      <4>1. <<u, e>> \in inflight /\ <<u, e>>[1] = u /\ <<u, e>>[2] = e
        BY DEF Late
      <4> QED
        BY <3>2, <4>1 DEF OnItsWay
    <3>4. ~Has(v, k)' /\ ~OnItsWay(v, k)'
      BY <1>3, <1>4, <3>2, <3>3 DEF OnItsWay
    <3> QED
      BY <1>2, <3>1, <3>4
  <2> QED
    BY <1>3, <2>2, <2>3, <2>4 DEF SentOnce
<1>8. Complete'
  BY SMTT(30), <1>2, <1>3, SubscribersAssumption DEF IInv, Complete
<1> QED
  BY <1>3, <1>5, <1>6, <1>7, <1>8 DEF IInv

\* Every step of every handler and of the network preserves the invariant.
LEMMA NextIInv ==
    ASSUME IInv, [Next]_vars
    PROVE  IInv'
<1>1. CASE \E p \in Procs : EmitLink(p)
  BY <1>1, EmitLinkIInv
<1>2. CASE \E p \in Procs : Post(p)
  BY <1>2, PostIInv
<1>3. CASE \E m \in inflight : Late(m[1], m[2])
  BY <1>3, LateIInv
<1>4. CASE UNCHANGED vars
  BY SMTT(30), <1>4 DEF vars, IInv, TypeOK, Chain, HeadBefore, Held, Genuine, SentOnce, Has, OnItsWay,
              Complete, ReturnedOlder, DeliveryOrder
<1> QED
  BY <1>1, <1>2, <1>3, <1>4 DEF Next, Quiet

\* The inductive invariant holds in every reachable state.
LEMMA Invariant == Spec => []IInv
<1>1. Init => IInv
  BY InitIInv
<1>2. IInv /\ [Next]_vars => IInv'
  BY NextIInv
<1> QED
  BY <1>1, <1>2, PTL DEF Spec

-----------------------------------------------------------------------------
\* The head an event is linked to determines the event.
LEMMA HeadsDiffer ==
    ASSUME IInv, NEW m \in DOMAIN emitted, NEW n \in DOMAIN emitted,
           HeadBefore(m) = HeadBefore(n)
    PROVE  m = n
<1>1. DOMAIN emitted = 1..Len(emitted) /\ Len(emitted) \in Nat
  BY SMTT(30) DEF IInv, TypeOK
<1>2. \A k \in DOMAIN emitted : k # 1 =>
         /\ k - 1 \in DOMAIN emitted
         /\ HeadBefore(k) = Digest(HeadBefore(k - 1), k - 1)
         /\ HeadBefore(k - 1) \in Hashes /\ k - 1 \in IDs
  <2>1. ASSUME NEW k \in DOMAIN emitted
        PROVE  HeadBefore(k) \in Hashes /\ k \in IDs
    <3>1. emitted[k] \in Event /\ emitted[k].prev_hash = HeadBefore(k) /\ emitted[k].id = k
      BY SMTT(30) DEF IInv, TypeOK, Chain
    <3> QED
      BY <3>1 DEF Event
  <2>2. ASSUME NEW k \in DOMAIN emitted, k # 1
        PROVE  k - 1 \in DOMAIN emitted /\ HeadBefore(k) = emitted[k - 1].hash
    BY SMTT(30), <1>1, <2>2 DEF HeadBefore
  <2> QED
    BY <2>1, <2>2 DEF IInv, Chain
<1>3. HeadBefore(1) = genesis
  BY DEF HeadBefore
<1>4. (m = 1) <=> (n = 1)
  BY <1>2, <1>3, DigestAssumption
<1>5. CASE m # 1
  <2>1. m - 1 = n - 1
    BY <1>2, <1>4, <1>5, DigestAssumption
  <2> QED
    BY SMTT(30), <1>1, <2>1
<1> QED
  BY <1>4, <1>5

\* For every number of handlers, subscribers and events: no subscriber sees the chain
\* fork or an event twice, whatever happens to the POSTs of Emit's loop (bus.go 69-99).
THEOREM NoForkSafe == Spec => []NoFork
<1>1. IInv => NoFork
  <2> SUFFICES ASSUME IInv, NEW u \in Subscribers,
                      NEW i \in DOMAIN received[u], NEW j \in DOMAIN received[u],
                      received[u][i].prev_hash = received[u][j].prev_hash
               PROVE  i = j
    BY DEF NoFork
  <2>1. Genuine(received[u][i]) /\ Genuine(received[u][j])
    BY DEF IInv, SentOnce
  <2>2. HeadBefore(received[u][i].id) = HeadBefore(received[u][j].id)
    BY SMTT(30), <2>1 DEF IInv, Chain, Genuine
  <2>3. received[u][i].id = received[u][j].id
    BY <2>1, <2>2, HeadsDiffer DEF Genuine
  <2> QED
    BY <2>3 DEF IInv, SentOnce
<1> QED
  BY <1>1, Invariant, PTL

\* A healthy subscriber receives the events of the Emits in real-time order (bus.go
\* 90-99: Emit returns after its last POST).
THEOREM DeliveryOrderSafe == Spec => []DeliveryOrder
<1>1. IInv => DeliveryOrder
  BY DEF IInv
<1> QED
  BY <1>1, Invariant, PTL

\* When no Emit is running, a healthy subscriber has every event once, and they are the
\* whole chain from genesis to the head, whatever the other subscribers do (bus.go 12-15
\* and 90-99).
THEOREM HealthyHasChainSafe == Spec => []HealthyHasChain
<1>1. IInv => HealthyHasChain
  <2> SUFFICES ASSUME IInv, \A p \in Procs : url[p] = 0, NEW u \in Healthy
               PROVE  LET got == {received[u][i] : i \in DOMAIN received[u]}
                      IN  /\ {e.hash : e \in got} \cup {genesis}
                                = {e.prev_hash : e \in got} \cup {prev}
                          /\ Len(received[u]) = Len(emitted)
    BY DEF HealthyHasChain
  <2> DEFINE got == {received[u][i] : i \in DOMAIN received[u]}
             N == Len(emitted)
             ID == [i \in DOMAIN received[u] |-> received[u][i].id]
  <2>0. u \in Subscribers
    BY SubscribersAssumption
  <2>1. /\ N \in Nat /\ DOMAIN emitted = 1..N
        /\ DOMAIN received[u] = 1..Len(received[u]) /\ Len(received[u]) \in Nat
    BY SMTT(30), <2>0 DEF IInv, TypeOK
  <2>2. \A n \in 1..N : \E i \in DOMAIN received[u] : received[u][i].id = n
    BY <2>1 DEF IInv, Complete, Has
  <2>3. \A i \in DOMAIN received[u] :
           received[u][i].id \in 1..N /\ received[u][i] = emitted[received[u][i].id]
    BY <2>0, <2>1 DEF IInv, SentOnce, Genuine
  <2>4. got = {emitted[n] : n \in 1..N}
    BY SMTT(30), <2>2, <2>3
  <2>5. Len(received[u]) = N
    <3>1. ID \in [DOMAIN received[u] -> 1..N]
      BY <2>3
    <3>2. \A i, j \in DOMAIN received[u] : ID[i] = ID[j] => i = j
      BY <2>0 DEF IInv, SentOnce
    <3>3. \A n \in 1..N : \E i \in DOMAIN received[u] : ID[i] = n
      BY <2>2
    <3>4. ID \in Bijection(DOMAIN received[u], 1..N)
      BY <3>1, <3>2, <3>3 DEF Bijection, Injection, Surjection, IsInjective
    <3>5. ExistsBijection(1..Len(received[u]), 1..N)
      BY <2>1, <3>4 DEF ExistsBijection
    <3> HIDE DEF N
    <3>6. Cardinality(1..N) = Len(received[u])
      BY <2>1, <3>5, FS_CountingElements
    <3>7. Cardinality(1..N) = IF 1 > N THEN 0 ELSE N - 1 + 1
      BY SMTT(30), <2>1, FS_Interval
    <3> QED
      BY SMTT(30), <2>1, <3>6, <3>7
  <2>6. {e.hash : e \in got} = {emitted[n].hash : n \in 1..N}
    <3> HIDE DEF got, N
    <3> QED
      BY <2>4
  <2>7. {e.prev_hash : e \in got} = {HeadBefore(n) : n \in 1..N}
    <3>1. \A n \in 1..N : emitted[n].prev_hash = HeadBefore(n)
      BY <2>1 DEF IInv, Chain
    <3> HIDE DEF got, N
    <3>2. {e.prev_hash : e \in got} = {emitted[n].prev_hash : n \in 1..N}
      BY <2>4
    <3>3. {emitted[n].prev_hash : n \in 1..N} = {HeadBefore(n) : n \in 1..N}
      BY <3>1
    <3> QED
      BY <3>2, <3>3
  <2>8. {emitted[n].hash : n \in 1..N} = {HeadBefore(n + 1) : n \in 1..N}
    BY SMTT(30), <2>1 DEF HeadBefore
  <2>9. prev = HeadBefore(N + 1) /\ genesis = HeadBefore(1)
    BY DEF IInv, Chain, HeadBefore
  <2>10. {HeadBefore(n + 1) : n \in 1..N} \cup {HeadBefore(1)}
            = {HeadBefore(n) : n \in 1..N} \cup {HeadBefore(N + 1)}
    <3> DEFINE A == {HeadBefore(n) : n \in 1..(N + 1)}
    <3> HIDE DEF N
    <3>1. {HeadBefore(n + 1) : n \in 1..N} \cup {HeadBefore(1)} = A
      <4>1. \A n \in 1..(N + 1) : n = 1 \/ (n - 1 \in 1..N /\ n = (n - 1) + 1)
        BY SMTT(30), <2>1
      <4>2. \A n \in 1..N : n + 1 \in 1..(N + 1)
        BY SMTT(30), <2>1
      <4>3. 1 \in 1..(N + 1)
        BY SMTT(30), <2>1
      <4> QED
        BY <4>1, <4>2, <4>3
    <3>2. {HeadBefore(n) : n \in 1..N} \cup {HeadBefore(N + 1)} = A
      BY SMTT(30), <2>1
    <3> QED
      BY <3>1, <3>2
  <2> QED
    BY <2>5, <2>6, <2>7, <2>8, <2>9, <2>10
<1> QED
  BY <1>1, Invariant, PTL
=============================================================================
