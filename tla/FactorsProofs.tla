---------------------------- MODULE FactorsProofs ----------------------------
(***************************************************************************)
(* What the factor services guarantee for any number of handlers, identities, *)
(* factors, devices and ceremonies: no identity is vouched for by a factor it *)
(* never showed to hold, nothing that is over verifies, and the stored sign    *)
(* counters only grow where nothing overlapped.                               *)
(***************************************************************************)
EXTENDS Factors, TLAPS

\* Zenon does the logic; the steps that need arithmetic or records call for SMT.
USE ZenonT(20)

FactorStatuses == {"pending_activation", "active"}
Totps ==
    [IdentityID : Identities, Method : {"totp"}, Status : FactorStatuses, Secret : FactorIDs]
Keys ==
    [IdentityID : Identities, Method : {"webauthn"}, Status : FactorStatuses,
     Secret : {NoSecret}, Credentials : [Session : Ceremonies] \cup Credentials]

\* The requests as the steps of their handlers find them.
Activations ==
    [kind : {"activate"}, Identity : Identities, Factor : FactorIDs,
     Code : [Secret : FactorIDs \cup {NoSecret}, Age : Ages]]
Approvals == [kind : {"approve"}, Device : Devices, InWindow : BOOLEAN]
Registrations ==
    [kind : {"register"}, Identity : Identities, Factor : FactorIDs, Ceremony : Ceremonies]
Assertions ==
    [kind : {"assert"}, Identity : Identities, Ceremony : Ceremonies, Credential : Ceremonies,
     Count : 0..MaxCount, Session : 0..MaxCeremonies]
Serving(requests) == [request : requests, stale : BOOLEAN]

Requests ==
    {NoRequest} \cup Serving(Activations) \cup Serving(Approvals)
                \cup Serving(Registrations) \cup Serving(Assertions)
Labels ==
    {"idle", "activate", "activated", "approve", "register", "decode", "credentials",
     "status", "take", "login", "persist"}

Shapes ==
    /\ factors \in [FactorIDs -> {NoFactor} \cup Totps \cup Keys]
    /\ devices \in [Devices -> {"none", "registered", "deleted"}]
    /\ ceremonies \in Seq([Identity : Identities, Kind : Kinds])
    /\ Len(ceremonies) <= MaxCeremonies
    /\ sessions \in [Identities -> 0..Len(ceremonies)]
    /\ expired \subseteq DOMAIN ceremonies
    /\ pc \in [Handlers -> Labels]
    /\ req \in [Handlers -> Requests]
    /\ updated \in [Handlers -> Credentials \cup {NoCredential}]
    /\ arrived \in 0..MaxRequests
    /\ taken \in [Ceremonies -> Nat]

\* Key f is the one that ceremony k created or is creating.
Of(f, k) ==
    /\ factors[f] \in Keys
    /\ \/ factors[f].Credentials = Session(k)
       \/ factors[f].Credentials \in Credentials /\ factors[f].Credentials.ID = k
Stored(f) == factors[f] \in Keys /\ factors[f].Credentials \in Credentials

\* A factor is active only for an identity that showed it, and a key belongs to the one
\* ceremony that was begun for it, whose answer gave it the credential it holds.
FactorOK(f) ==
    /\ factors[f] \in Totps =>
          /\ factors[f].Secret = f
          /\ factors[f].Status = "active" => ShowedTOTP(factors[f].IdentityID, f)
    /\ factors[f] \in Keys =>
          /\ factors[f].Status = "active" => Stored(f) \/ ShowedTOTP(factors[f].IdentityID, f)
          /\ \E k \in DOMAIN ceremonies :
                /\ Of(f, k)
                /\ ceremonies[k] = [Identity |-> factors[f].IdentityID, Kind |-> "registration"]
                /\ Stored(f) => ShowedKey(factors[f].IdentityID, k)
OneKeyEach == \A f, g \in FactorIDs, k \in Ceremonies : Of(f, k) /\ Of(g, k) => f = g

\* The session of an identity is that of a ceremony of its own, never taken before.
Parked ==
    /\ \A i \in Identities : sessions[i] # 0 =>
          ceremonies[sessions[i]].Identity = i /\ taken[sessions[i]] = 0
    /\ \A k \in Ceremonies : taken[k] <= 1 /\ (k \notin DOMAIN ceremonies => taken[k] = 0)

\* The credential to be stored is no older than the one in the store.
UpToDate(old, new) == old.SignCount <= new.SignCount /\ (old.CloneWarning => new.CloneWarning)

\* What each step has left true for the next step of its handler to rely on, however
\* many steps of others come between.
HandlerOK(h) ==
    LET r == req[h].request
        f == factors[r.Factor]
    IN  /\ pc[h] \in {"activate", "activated"} =>
              req[h] \in Serving(Activations) /\ ~req[h].stale /\ f # NoFactor
        /\ pc[h] = "activated" => f.IdentityID = r.Identity
        /\ pc[h] = "approve" =>
              req[h] \in Serving(Approvals) /\ (req[h].stale => devices[r.Device] = "deleted")
        /\ pc[h] \in {"register", "decode", "credentials", "status"} =>
              req[h] \in Serving(Registrations) /\ f # NoFactor
        /\ pc[h] = "register" /\ req[h].stale => r.Ceremony \in expired \/ f.Status = "active"
        /\ pc[h] \in {"decode", "credentials", "status"} => f \in Keys /\ f.IdentityID = r.Identity
        /\ pc[h] = "decode" /\ req[h].stale => Stored(r.Factor) \/ ~Of(r.Factor, r.Ceremony)
        /\ pc[h] \in {"credentials", "status"} =>
              /\ ~req[h].stale /\ Of(r.Factor, r.Ceremony)
              /\ updated[h] = Credential(r.Ceremony)
        /\ pc[h] = "credentials" => ~Stored(r.Factor) \/ h \in overlapped
        /\ pc[h] = "status" => Stored(r.Factor)
        /\ pc[h] \in {"take", "login", "persist"} => req[h] \in Serving(Assertions)
        /\ pc[h] = "take" =>
              /\ r.Ceremony \in DOMAIN ceremonies
              /\ req[h].stale => sessions[r.Identity] # r.Ceremony \/ r.Ceremony \in expired
        /\ pc[h] = "login" /\ req[h].stale => r.Session # r.Ceremony
        /\ pc[h] = "persist" =>
              /\ ~req[h].stale /\ updated[h] \in Credentials /\ updated[h].ID = r.Credential
              /\ ShowedKey(r.Identity, r.Credential)
              /\ \E g \in FactorIDs :
                    /\ Of(g, r.Credential) /\ Stored(g) /\ factors[g].Status = "active"
                    /\ h \in overlapped \/ UpToDate(factors[g].Credentials, updated[h])

\* The inductive invariant.
IInv ==
    /\ Shapes /\ Parked /\ OneKeyEach
    /\ \A f \in FactorIDs : FactorOK(f)
    /\ \A h \in Handlers : HandlerOK(h)
    /\ EnrolledFirst /\ \A v \in answers : ~v.stale
-----------------------------------------------------------------------------
(* What a step may do to what other handlers rely on.                       *)

\* A factor keeps its identity and its secret, an active one stays active, and a key
\* keeps the ceremony it is of.
Outlives(f) ==
    /\ factors[f] \in Totps => factors'[f] \in Totps /\ factors'[f].Secret = factors[f].Secret
    /\ factors[f] \in Keys =>
          /\ factors'[f] \in Keys
          /\ \A k \in Ceremonies : Of(f, k)' <=> Of(f, k)
          /\ Stored(f) => Stored(f)'
    /\ factors[f] # NoFactor =>
          /\ factors'[f] # NoFactor /\ factors'[f].IdentityID = factors[f].IdentityID
          /\ factors[f].Status = "active" => factors'[f].Status = "active"

Grows ==
    /\ \A f \in FactorIDs : Outlives(f)
    /\ \A d \in Devices : devices[d] = "deleted" => devices'[d] = "deleted"
    /\ expired \subseteq expired'
    /\ \A k \in DOMAIN ceremonies : k \in DOMAIN ceremonies' /\ ceremonies'[k] = ceremonies[k]
    /\ \A i \in Identities : sessions'[i] \in DOMAIN ceremonies => sessions'[i] = sessions[i]
    /\ answers \subseteq answers' /\ Accepted \subseteq Accepted'

\* A handler that takes no step, and is marked if a step stores credentials it has read.
Unmoved(g) ==
    /\ pc'[g] = pc[g] /\ req'[g] = req[g] /\ updated'[g] = updated[g]
    /\ g \in overlapped => g \in overlapped'
    /\ pc[g] \in {"credentials", "persist"} =>
          \/ g \in overlapped'
          \/ \A f \in FactorIDs : factors[f] \in Keys =>
                factors'[f].Credentials = factors[f].Credentials

\* What EnrolledFirst asks of one answer.
EnrolledFor(v) ==
    /\ v.request.kind = "totp" => ShowedTOTP(v.request.Identity, v.request.Code.Secret)
    /\ v.request.kind = "assert" => ShowedKey(v.request.Identity, v.request.Credential)

\* A registration that was accepted stays so: it goes on or succeeds.
LEMMA AcceptedGrows ==
    ASSUME answers \subseteq answers',
           \A g \in Handlers : pc[g] = "status" =>
              (pc'[g] = "status" /\ req'[g] = req[g]) \/ req[g] \in answers'
    PROVE  Accepted \subseteq Accepted'
BY DEF Accepted

\* The two kinds of factors, and the absent factor, tell themselves apart.
LEMMA FactorShapes ==
    /\ NoFactor \notin Totps /\ NoFactor \notin Keys /\ NoFactor.Status = "none"
    /\ \A x \in Totps : /\ x \notin Keys /\ x.Method = "totp" /\ x.Status \in FactorStatuses
                        /\ x.IdentityID \in Identities /\ x.Secret \in FactorIDs
    /\ \A x \in Keys : /\ x.Method = "webauthn" /\ x.Status \in FactorStatuses
                       /\ x.IdentityID \in Identities /\ x.Secret = NoSecret
                       /\ x.Credentials \in [Session : Ceremonies] \cup Credentials
<1>1. NoFactor \notin Totps /\ NoFactor \notin Keys /\ NoFactor.Status = "none"
  BY SMTT(30) DEF NoFactor, Totps, Keys, FactorStatuses
<1>2. \A x \in Totps : /\ x.Method = "totp" /\ x.Status \in FactorStatuses
                       /\ x.IdentityID \in Identities /\ x.Secret \in FactorIDs
  BY SMTT(30) DEF Totps
<1>3. \A x \in Keys : /\ x.Method = "webauthn" /\ x.Status \in FactorStatuses
                      /\ x.IdentityID \in Identities /\ x.Secret = NoSecret
                      /\ x.Credentials \in [Session : Ceremonies] \cup Credentials
  BY SMTT(30) DEF Keys
<1>4. "totp" # "webauthn"
  BY SMTT(30)
<1> QED
  BY <1>1, <1>2, <1>3, <1>4

\* A credential and the session it comes from tell themselves apart.
LEMMA CredentialShapes ==
    /\ \A k \in Ceremonies : /\ Session(k) \in [Session : Ceremonies]
                             /\ IsSession(Session(k)) /\ Session(k).Session = k
                             /\ Credential(k) \in Credentials /\ Credential(k).ID = k
    /\ \A s \in [Session : Ceremonies] : s \notin Credentials /\ s = Session(s.Session)
                                         /\ s.Session \in Ceremonies
    /\ \A c \in Credentials : ~IsSession(c) /\ c.ID \in Ceremonies
    /\ NoCredential.ID \notin Ceremonies
<1>1. \A k \in Ceremonies : /\ Session(k) \in [Session : Ceremonies]
                            /\ IsSession(Session(k)) /\ Session(k).Session = k
  BY SMTT(30) DEF Session, IsSession
<1>2. \A k \in Ceremonies : Credential(k) \in Credentials /\ Credential(k).ID = k
  <2>1. 0 \in 0..MaxCount
    <3>1. MaxCount \in Nat
      BY BoundsAssumption
    <3> QED
      BY SMTT(30), <3>1
  <2>2. NoCredential \in [ID : {0}, SignCount : 0..MaxCount, CloneWarning : BOOLEAN]
    BY SMTT(30), <2>1 DEF NoCredential
  <2> QED
    BY SMTT(30), <2>2 DEF Credential, Credentials
<1>3. \A s \in [Session : Ceremonies] : s = Session(s.Session) /\ s.Session \in Ceremonies
  BY SMTT(30) DEF Session
<1>4. \A c \in Credentials : ~IsSession(c) /\ c.ID \in Ceremonies
  BY SMTT(30) DEF Credentials, IsSession
<1>5. NoCredential.ID \notin Ceremonies
  <2>1. NoCredential.ID = 0
    BY SMTT(30) DEF NoCredential
  <2> QED
    BY SMTT(30), <2>1 DEF Ceremonies
<1> QED
  BY <1>1, <1>2, <1>3, <1>4, <1>5

\* A key is of one ceremony, and pending until its credential is stored.
LEMMA KeyOf ==
    ASSUME NEW f, factors[f] \in Keys
    PROVE  /\ \E k \in Ceremonies : Of(f, k)
           /\ \A k, m \in Ceremonies : Of(f, k) /\ Of(f, m) => k = m
           /\ Stored(f) <=> ~IsSession(factors[f].Credentials)
<1>1. PICK c : c = factors[f].Credentials
  OBVIOUS
<1>2. c \in [Session : Ceremonies] \cup Credentials
  BY <1>1, FactorShapes
<1>3. /\ \A k : Of(f, k) <=> c = Session(k) \/ (c \in Credentials /\ c.ID = k)
      /\ Stored(f) <=> c \in Credentials
  BY <1>1 DEF Of, Stored
<1>4. CASE c \in Credentials
  <2>1. ~IsSession(c) /\ c.ID \in Ceremonies
    BY <1>4, CredentialShapes
  <2>2. \A k \in Ceremonies : c # Session(k)
    BY <2>1, CredentialShapes
  <2>3. Of(f, c.ID) /\ \A k \in Ceremonies : Of(f, k) => k = c.ID
    BY <1>3, <1>4, <2>2
  <2> QED
    BY <1>1, <1>3, <1>4, <2>1, <2>3
<1>5. CASE c \in [Session : Ceremonies]
  <2>1. c \notin Credentials /\ c.Session \in Ceremonies /\ c = Session(c.Session)
    BY <1>5, CredentialShapes
  <2>2. \A k \in Ceremonies : c = Session(k) => IsSession(c) /\ k = c.Session
    BY CredentialShapes
  <2> QED
    BY <1>1, <1>3, <2>1, <2>2
<1> QED
  BY <1>2, <1>4, <1>5

\* A factor that does not change is kept by a step under which the store grows.
LEMMA FactorKept ==
    ASSUME Grows, NEW f \in FactorIDs, FactorOK(f), factors'[f] = factors[f]
    PROVE  FactorOK(f)'
<1>1. \A i, k : /\ ShowedTOTP(i, f) => ShowedTOTP(i, f)'
                /\ ShowedKey(i, k) => ShowedKey(i, k)'
  BY DEF Grows, ShowedTOTP, ShowedKey
<1>2. /\ \A k : Of(f, k)' <=> Of(f, k)
      /\ Stored(f)' <=> Stored(f)
  BY DEF Of, Stored
<1> QED
  BY <1>1, <1>2 DEF FactorOK, Grows

\* A handler that takes no step keeps what it relies on.
LEMMA HandlerKept ==
    ASSUME Shapes, Grows, NEW g \in Handlers, HandlerOK(g), Unmoved(g)
    PROVE  HandlerOK(g)'
<1>1. PICK r : r = req[g].request
  OBVIOUS
<1>2. pc'[g] = pc[g] /\ req'[g] = req[g] /\ req'[g].request = r /\ updated'[g] = updated[g]
  BY <1>1 DEF Unmoved
<1>3. \A i, k : ShowedKey(i, k) => ShowedKey(i, k)'
  BY DEF Grows, ShowedKey
<1>4. ASSUME pc[g] \in {"activate", "activated"}
      PROVE  /\ req'[g] \in Serving(Activations) /\ ~req'[g].stale
             /\ factors'[r.Factor] # NoFactor
             /\ pc[g] = "activated" => factors'[r.Factor].IdentityID = r.Identity
  <2>1. req[g] \in Serving(Activations) /\ ~req[g].stale /\ factors[r.Factor] # NoFactor
    BY <1>1, <1>4 DEF HandlerOK
  <2>2. r.Factor \in FactorIDs
    BY SMTT(30), <1>1, <2>1 DEF Serving, Activations
  <2>3. pc[g] = "activated" => factors[r.Factor].IdentityID = r.Identity
    BY <1>1 DEF HandlerOK
  <2> QED
    BY <1>2, <2>1, <2>2, <2>3 DEF Grows, Outlives
<1>5. ASSUME pc[g] = "approve"
      PROVE  /\ req'[g] \in Serving(Approvals)
             /\ req'[g].stale => devices'[r.Device] = "deleted"
  <2>1. req[g] \in Serving(Approvals) /\ (req[g].stale => devices[r.Device] = "deleted")
    BY <1>1, <1>5 DEF HandlerOK
  <2>2. r.Device \in Devices
    BY SMTT(30), <1>1, <2>1 DEF Serving, Approvals
  <2> QED
    BY <1>2, <2>1, <2>2 DEF Grows
<1>6. ASSUME pc[g] \in {"register", "decode", "credentials", "status"}
      PROVE  /\ req'[g] \in Serving(Registrations) /\ factors'[r.Factor] # NoFactor
             /\ pc[g] = "register" /\ req'[g].stale =>
                   r.Ceremony \in expired' \/ factors'[r.Factor].Status = "active"
             /\ pc[g] \in {"decode", "credentials", "status"} =>
                   factors'[r.Factor] \in Keys /\ factors'[r.Factor].IdentityID = r.Identity
             /\ pc[g] = "decode" /\ req'[g].stale =>
                   Stored(r.Factor)' \/ ~Of(r.Factor, r.Ceremony)'
             /\ pc[g] \in {"credentials", "status"} =>
                   /\ ~req'[g].stale /\ Of(r.Factor, r.Ceremony)'
                   /\ updated'[g] = Credential(r.Ceremony)
             /\ pc[g] = "credentials" => ~Stored(r.Factor)' \/ g \in overlapped'
             /\ pc[g] = "status" => Stored(r.Factor)'
  <2>1. req[g] \in Serving(Registrations) /\ factors[r.Factor] # NoFactor
    BY <1>1, <1>6 DEF HandlerOK
  <2>2. r.Factor \in FactorIDs /\ r.Ceremony \in Ceremonies
    BY SMTT(30), <1>1, <2>1 DEF Serving, Registrations
  <2>3. Outlives(r.Factor) /\ expired \subseteq expired'
    BY <2>2 DEF Grows
  <2>4. /\ pc[g] = "register" /\ req[g].stale =>
              r.Ceremony \in expired \/ factors[r.Factor].Status = "active"
        /\ pc[g] \in {"decode", "credentials", "status"} =>
              factors[r.Factor] \in Keys /\ factors[r.Factor].IdentityID = r.Identity
        /\ pc[g] = "decode" /\ req[g].stale => Stored(r.Factor) \/ ~Of(r.Factor, r.Ceremony)
        /\ pc[g] \in {"credentials", "status"} =>
              /\ ~req[g].stale /\ Of(r.Factor, r.Ceremony)
              /\ updated[g] = Credential(r.Ceremony)
        /\ pc[g] = "credentials" => ~Stored(r.Factor) \/ g \in overlapped
        /\ pc[g] = "status" => Stored(r.Factor)
    BY <1>1 DEF HandlerOK
  <2>5. ASSUME pc[g] = "credentials"
        PROVE  ~Stored(r.Factor)' \/ g \in overlapped'
    <3>1. factors[r.Factor] \in Keys
      BY <2>4, <2>5
    <3>2. g \in overlapped' \/ factors'[r.Factor].Credentials = factors[r.Factor].Credentials
      BY <2>2, <2>5, <3>1 DEF Unmoved
    <3>3. g \in overlapped => g \in overlapped'
      BY DEF Unmoved
    <3> QED
      BY <2>4, <2>5, <3>1, <3>2, <3>3 DEF Stored
  <2> QED
    BY <1>2, <2>1, <2>2, <2>3, <2>4, <2>5 DEF Outlives
<1>7. ASSUME pc[g] \in {"take", "login"}
      PROVE  /\ req'[g] \in Serving(Assertions)
             /\ pc[g] = "take" =>
                   /\ r.Ceremony \in DOMAIN ceremonies'
                   /\ req'[g].stale => \/ sessions'[r.Identity] # r.Ceremony
                                       \/ r.Ceremony \in expired'
             /\ pc[g] = "login" /\ req'[g].stale => r.Session # r.Ceremony
  <2>1. /\ req[g] \in Serving(Assertions)
        /\ pc[g] = "take" =>
              /\ r.Ceremony \in DOMAIN ceremonies
              /\ req[g].stale => sessions[r.Identity] # r.Ceremony \/ r.Ceremony \in expired
        /\ pc[g] = "login" /\ req[g].stale => r.Session # r.Ceremony
    BY <1>1, <1>7 DEF HandlerOK
  <2>2. r.Identity \in Identities
    BY SMTT(30), <1>1, <2>1 DEF Serving, Assertions
  <2> QED
    BY <1>2, <2>1, <2>2 DEF Grows
<1>8. ASSUME pc[g] = "persist"
      PROVE  /\ req'[g] \in Serving(Assertions)
             /\ ~req'[g].stale /\ updated'[g] \in Credentials /\ updated'[g].ID = r.Credential
             /\ ShowedKey(r.Identity, r.Credential)'
             /\ \E f \in FactorIDs :
                   /\ Of(f, r.Credential)' /\ Stored(f)' /\ factors'[f].Status = "active"
                   /\ g \in overlapped' \/ UpToDate(factors'[f].Credentials, updated'[g])
  <2>1. /\ req[g] \in Serving(Assertions)
        /\ ~req[g].stale /\ updated[g] \in Credentials /\ updated[g].ID = r.Credential
        /\ ShowedKey(r.Identity, r.Credential)
    BY <1>1, <1>8 DEF HandlerOK
  <2>2. PICK f \in FactorIDs :
              /\ Of(f, r.Credential) /\ Stored(f) /\ factors[f].Status = "active"
              /\ g \in overlapped \/ UpToDate(factors[f].Credentials, updated[g])
    BY <1>1, <1>8 DEF HandlerOK
  <2>3. r.Credential \in Ceremonies
    BY <2>1, CredentialShapes
  <2>4. factors[f] \in Keys /\ Outlives(f) /\ factors[f] # NoFactor
    BY <2>2, FactorShapes DEF Grows, Of
  <2>5. Of(f, r.Credential)' /\ Stored(f)' /\ factors'[f].Status = "active"
    BY <2>2, <2>3, <2>4 DEF Outlives
  <2>6. g \in overlapped' \/ factors'[f].Credentials = factors[f].Credentials
    BY <1>8, <2>4 DEF Unmoved
  <2>7. g \in overlapped => g \in overlapped'
    BY DEF Unmoved
  <2> QED
    BY <1>2, <1>3, <2>1, <2>2, <2>5, <2>6, <2>7
<1> QED
  BY <1>2, <1>4, <1>5, <1>6, <1>7, <1>8 DEF HandlerOK

\* A step keeps the invariant if the store grows and what it touches is right.
LEMMA StepKeeps ==
    ASSUME IInv, Shapes', Parked', Grows, OneKeyEach',
           \A f \in FactorIDs : factors'[f] = factors[f] \/ FactorOK(f)',
           \A g \in Handlers : Unmoved(g) \/ HandlerOK(g)',
           \A v \in answers' : v \in answers \/ (~v.stale /\ EnrolledFor(v)')
    PROVE  IInv'
<1>1. \A f \in FactorIDs : FactorOK(f)'
  BY FactorKept DEF IInv
<1>2. \A g \in Handlers : HandlerOK(g)'
  BY HandlerKept DEF IInv
<1>3. \A v \in answers' : ~v.stale
  BY DEF IInv
<1>4. \A i, k : (ShowedTOTP(i, k) => ShowedTOTP(i, k)') /\ (ShowedKey(i, k) => ShowedKey(i, k)')
  BY DEF Grows, ShowedTOTP, ShowedKey
<1>5. \A v \in answers : EnrolledFor(v)
  BY DEF IInv, EnrolledFirst, EnrolledFor
<1>6. \A v \in answers' : EnrolledFor(v)'
  BY <1>4, <1>5 DEF EnrolledFor
<1>7. EnrolledFirst'
  BY <1>6 DEF EnrolledFirst, EnrolledFor
<1> QED
  BY <1>1, <1>2, <1>3, <1>7 DEF IInv

-----------------------------------------------------------------------------
(* What the pieces of the actions do.                                       *)

\* A step within one handler's request: the handler goes on, the others stay.
LEMMA GotoEffect ==
    ASSUME Shapes, NEW h \in Handlers, NEW label \in Labels, Goto(h, label)
    PROVE  /\ pc' \in [Handlers -> Labels] /\ pc'[h] = label
           /\ req' = req /\ updated' = updated
           /\ \A g \in Handlers : g # h => pc'[g] = pc[g]
BY DEF Goto, Shapes

\* The request is over, and the handler relies on nothing.
LEMMA ReturnEffect ==
    ASSUME Shapes, NEW h \in Handlers, Return(h)
    PROVE  /\ pc' \in [Handlers -> Labels] /\ pc'[h] = "idle"
           /\ req' \in [Handlers -> Requests]
           /\ updated' \in [Handlers -> Credentials \cup {NoCredential}]
           /\ \A g \in Handlers : g # h =>
                 pc'[g] = pc[g] /\ req'[g] = req[g] /\ updated'[g] = updated[g]
           /\ HandlerOK(h)'
<1>1. "idle" \in Labels /\ NoRequest \in Requests
  BY DEF Labels, Requests
<1>2. pc'[h] = "idle"
  BY DEF Return, Shapes
<1>3. HandlerOK(h)'
  BY <1>2 DEF HandlerOK
<1> QED
  BY <1>1, <1>2, <1>3 DEF Return, Shapes

\* A request arrives at a handler that was idle.
LEMMA ArriveEffect ==
    ASSUME Shapes, NEW h \in Handlers, NEW label \in Labels, NEW r, NEW stale,
           [request |-> r, stale |-> stale] \in Requests, Arrive(h, label, r, stale)
    PROVE  /\ pc' \in [Handlers -> Labels] /\ pc'[h] = label
           /\ req' \in [Handlers -> Requests]
           /\ req'[h] = [request |-> r, stale |-> stale]
           /\ req'[h].request = r /\ req'[h].stale = stale
           /\ arrived' \in 0..MaxRequests
           /\ UNCHANGED <<Store, updated, history>>
           /\ \A g \in Handlers : g # h => pc'[g] = pc[g] /\ req'[g] = req[g]
<1>1. req'[h] = [request |-> r, stale |-> stale]
  BY DEF Arrive, Shapes
<1>2. req'[h].request = r /\ req'[h].stale = stale
  BY SMTT(30), <1>1
<1>3. arrived' \in 0..MaxRequests
  <2>1. arrived \in 0..MaxRequests /\ arrived < MaxRequests /\ arrived' = arrived + 1
    BY DEF Arrive, Shapes
  <2>2. MaxRequests \in Nat
    BY BoundsAssumption
  <2> QED
    BY SMTT(30), <2>1, <2>2
<1> QED
  BY <1>1, <1>2, <1>3 DEF Arrive, Shapes

\* A factor that goes active changes in nothing else.
LEMMA StatusEffect ==
    ASSUME Shapes, NEW f \in FactorIDs, factors[f] # NoFactor, SetField(f, "Status", "active")
    PROVE  /\ factors' \in [FactorIDs -> {NoFactor} \cup Totps \cup Keys]
           /\ \A g \in FactorIDs : g # f => factors'[g] = factors[g]
           /\ factors'[f].Status = "active" /\ factors'[f].IdentityID = factors[f].IdentityID
           /\ factors[f] \in Totps =>
                 factors'[f] \in Totps /\ factors'[f].Secret = factors[f].Secret
           /\ factors[f] \in Keys =>
                 factors'[f] \in Keys /\ factors'[f].Credentials = factors[f].Credentials
<1>1. PICK x : x = factors[f]
  OBVIOUS
<1>2. PICK y : y = [x EXCEPT !.Status = "active"]
  OBVIOUS
<1>3. factors' = [factors EXCEPT ![f] = y]
  BY <1>1, <1>2 DEF SetField
<1>4. x \in Totps => /\ y \in Totps /\ y.Status = "active"
                     /\ y.IdentityID = x.IdentityID /\ y.Secret = x.Secret
  BY SMTT(30), <1>2 DEF Totps, FactorStatuses
<1>5. x \in Keys => /\ y \in Keys /\ y.Status = "active"
                    /\ y.IdentityID = x.IdentityID /\ y.Credentials = x.Credentials
  BY SMTT(30), <1>2 DEF Keys, FactorStatuses
<1>6. x \in Totps \cup Keys
  BY <1>1 DEF Shapes
<1>7. factors'[f] = y /\ \A g \in FactorIDs : g # f => factors'[g] = factors[g]
  BY <1>3 DEF Shapes
<1>8. factors' \in [FactorIDs -> {NoFactor} \cup Totps \cup Keys]
  BY <1>3, <1>4, <1>5, <1>6 DEF Shapes
<1> QED
  BY <1>1, <1>4, <1>5, <1>6, <1>7, <1>8

\* Storing a credential of the ceremony a key is of changes nothing else of the key.
LEMMA CredentialsEffect ==
    ASSUME Shapes, NEW f \in FactorIDs, NEW c \in Credentials, Of(f, c.ID),
           SetField(f, "Credentials", c)
    PROVE  /\ factors' \in [FactorIDs -> {NoFactor} \cup Totps \cup Keys]
           /\ \A g \in FactorIDs : g # f => factors'[g] = factors[g]
           /\ factors[f] \in Keys /\ factors'[f] \in Keys /\ factors'[f].Credentials = c
           /\ factors'[f].IdentityID = factors[f].IdentityID
           /\ factors'[f].Status = factors[f].Status
<1>1. PICK x : x = factors[f]
  OBVIOUS
<1>2. PICK y : y = [x EXCEPT !.Credentials = c]
  OBVIOUS
<1>3. factors' = [factors EXCEPT ![f] = y]
  BY <1>1, <1>2 DEF SetField
<1>4. x \in Keys
  BY <1>1 DEF Of
<1>5. /\ y \in Keys /\ y.Credentials = c
      /\ y.IdentityID = x.IdentityID /\ y.Status = x.Status
  BY SMTT(30), <1>2, <1>4 DEF Keys
<1>6. factors'[f] = y /\ \A g \in FactorIDs : g # f => factors'[g] = factors[g]
  BY <1>3 DEF Shapes
<1>7. factors' \in [FactorIDs -> {NoFactor} \cup Totps \cup Keys]
  BY <1>3, <1>5 DEF Shapes
<1> QED
  BY <1>1, <1>4, <1>5, <1>6, <1>7

\* A ceremony that begins has a number of its own.
LEMMA BeginEffect ==
    ASSUME Shapes, NEW k, NEW i \in Identities, NEW kind \in Kinds, Begin(k, i, kind)
    PROVE  /\ k \in Ceremonies /\ k \notin DOMAIN ceremonies /\ k # 0
           /\ ceremonies' \in Seq([Identity : Identities, Kind : Kinds])
           /\ Len(ceremonies') <= MaxCeremonies /\ Len(ceremonies') = k
           /\ DOMAIN ceremonies' = DOMAIN ceremonies \cup {k}
           /\ 0..Len(ceremonies) \subseteq 0..Len(ceremonies')
           /\ \A m \in DOMAIN ceremonies : ceremonies'[m] = ceremonies[m]
           /\ ceremonies'[k] = [Identity |-> i, Kind |-> kind]
<1>1. PICK e : e = [Identity |-> i, Kind |-> kind]
  OBVIOUS
<1>2. e \in [Identity : Identities, Kind : Kinds]
  BY <1>1
<1>3. /\ k = Len(ceremonies) + 1 /\ k \in 1..MaxCeremonies
      /\ ceremonies' = Append(ceremonies, e)
      /\ ceremonies \in Seq([Identity : Identities, Kind : Kinds])
  BY <1>1 DEF Begin, Shapes, Ceremonies
<1>4. MaxCeremonies \in Nat
  BY BoundsAssumption
<1>5. /\ k \in 1..MaxCeremonies /\ k \notin DOMAIN ceremonies /\ k # 0
      /\ ceremonies' \in Seq([Identity : Identities, Kind : Kinds])
      /\ Len(ceremonies') <= MaxCeremonies /\ Len(ceremonies') = k
      /\ DOMAIN ceremonies' = DOMAIN ceremonies \cup {k}
  BY SMTT(30), <1>2, <1>3, <1>4
<1>6. 0..Len(ceremonies) \subseteq 0..Len(ceremonies')
  BY SMTT(30), <1>3, <1>5
<1>7. /\ \A m \in DOMAIN ceremonies : ceremonies'[m] = ceremonies[m]
      /\ ceremonies'[k] = e
  BY SMTT(30), <1>2, <1>3
<1> QED
  BY <1>1, <1>5, <1>6, <1>7 DEF Ceremonies

\* Ceremonies are numbered within the bound.
LEMMA CeremonyNumbers == Shapes => DOMAIN ceremonies \subseteq Ceremonies
<1>1. MaxCeremonies \in Nat
  BY BoundsAssumption
<1> SUFFICES ASSUME Shapes PROVE DOMAIN ceremonies \subseteq Ceremonies
  OBVIOUS
<1>2. ceremonies \in Seq([Identity : Identities, Kind : Kinds]) /\ Len(ceremonies) <= MaxCeremonies
  BY DEF Shapes
<1> QED
  BY SMTT(30), <1>1, <1>2 DEF Ceremonies

\* A session that is parked is that of a ceremony begun.
LEMMA SessionNumbers ==
    Shapes => /\ \A j \in Identities : sessions[j] # 0 => sessions[j] \in DOMAIN ceremonies
              /\ 0 \notin DOMAIN ceremonies
<1> SUFFICES ASSUME Shapes
             PROVE  /\ \A j \in Identities : sessions[j] # 0 => sessions[j] \in DOMAIN ceremonies
                    /\ 0 \notin DOMAIN ceremonies
  OBVIOUS
<1>1. /\ ceremonies \in Seq([Identity : Identities, Kind : Kinds])
      /\ \A j \in Identities : sessions[j] \in 0..Len(ceremonies)
  BY DEF Shapes
<1> QED
  BY SMTT(30), <1>1

\* Where no factor changes, every factor lives on.
LEMMA SameFactors ==
    ASSUME factors' = factors
    PROVE  /\ \A f \in FactorIDs : Outlives(f)
           /\ OneKeyEach => OneKeyEach'
<1>1. \A f, k : (Of(f, k)' <=> Of(f, k)) /\ (Stored(f)' <=> Stored(f))
  BY DEF Of, Stored
<1> QED
  BY <1>1 DEF Outlives, OneKeyEach

\* A step that only moves its handler on, and may answer, keeps the invariant.
LEMMA LocalStep ==
    ASSUME IInv, NEW h \in Handlers, pc[h] # "status", UNCHANGED <<Store, taken>>, arrived' \in 0..MaxRequests,
           pc' \in [Handlers -> Labels], req' \in [Handlers -> Requests],
           updated' \in [Handlers -> Credentials \cup {NoCredential}],
           \A g \in Handlers : g # h =>
              pc'[g] = pc[g] /\ req'[g] = req[g] /\ updated'[g] = updated[g],
           overlapped \ {h} \subseteq overlapped',
           HandlerOK(h)', answers \subseteq answers',
           \A v \in answers' : v \in answers \/ (~v.stale /\ EnrolledFor(v)')
    PROVE  IInv'
<1>1. UNCHANGED <<factors, devices, sessions, ceremonies, expired, taken>>
  BY DEF Store
<1>2. Shapes' /\ Parked'
  BY <1>1 DEF IInv, Shapes, Parked
<1>3. (\A f \in FactorIDs : Outlives(f)) /\ OneKeyEach'
  BY <1>1, SameFactors DEF IInv
<1>4. Grows
  <2>1. Accepted \subseteq Accepted'
    BY AcceptedGrows
  <2> QED
    BY <1>1, <1>3, <2>1 DEF Grows
<1>5. \A g \in Handlers : Unmoved(g) \/ HandlerOK(g)'
  BY <1>1 DEF Unmoved
<1>6. \A f \in FactorIDs : factors'[f] = factors[f]
  BY <1>1
<1> QED
  BY <1>2, <1>3, <1>4, <1>5, <1>6, StepKeeps

-----------------------------------------------------------------------------
(* Requests arrive.                                                         *)

\* A request that arrives at an idle handler keeps the invariant if the handler may
\* rely on what it says.
LEMMA ArriveIInv ==
    ASSUME IInv, NEW h \in Handlers, NEW label \in Labels, NEW r, NEW stale,
           [request |-> r, stale |-> stale] \in Requests, Arrive(h, label, r, stale),
           HandlerOK(h)'
    PROVE  IInv'
<1>1. Shapes
  BY DEF IInv
<1>2. /\ pc' \in [Handlers -> Labels] /\ req' \in [Handlers -> Requests]
      /\ arrived' \in 0..MaxRequests
      /\ UNCHANGED <<Store, updated, history>>
      /\ \A g \in Handlers : g # h => pc'[g] = pc[g] /\ req'[g] = req[g]
  BY <1>1, ArriveEffect
<1>3. UNCHANGED <<updated, taken, overlapped, answers>>
  BY <1>2 DEF history
<1>4. updated' \in [Handlers -> Credentials \cup {NoCredential}]
  BY <1>1, <1>3 DEF Shapes
<1>5. pc[h] # "status"
  BY DEF Arrive
<1> QED
  BY <1>2, <1>3, <1>4, <1>5, LocalStep

\* A code to activate a factor with.
LEMMA ArriveActivateIInv ==
    ASSUME IInv, NEW h \in Handlers, NEW i \in Identities, NEW f \in Existing, NEW code \in Codes,
           handleTOTPActivate(h, i, f, code)
    PROVE  IInv'
<1>1. PICK r : r = [kind |-> "activate", Identity |-> i, Factor |-> f, Code |-> code]
  OBVIOUS
<1>2. PICK q : q = [request |-> r, stale |-> FALSE]
  OBVIOUS
<1>3. f \in FactorIDs /\ factors[f] # NoFactor
  BY DEF Existing
<1>4. q \in Serving(Activations) /\ r.Factor = f
  <2>1. \A g \in Existing : factors[g].Secret \in FactorIDs \cup {NoSecret}
    BY FactorShapes DEF IInv, Shapes, Existing
  <2>2. code \in [Secret : FactorIDs \cup {NoSecret}, Age : Ages]
    BY SMTT(30), <2>1 DEF Codes
  <2> QED
    BY SMTT(30), <1>1, <1>2, <1>3, <2>2 DEF Serving, Activations
<1>5. "activate" \in Labels /\ q \in Requests
  BY <1>4 DEF Labels, Requests
<1>6. Arrive(h, "activate", r, FALSE)
  BY <1>1 DEF handleTOTPActivate
<1>7. /\ pc'[h] = "activate" /\ req'[h] = q /\ req'[h].request = r /\ req'[h].stale = FALSE
      /\ factors' = factors
  BY <1>2, <1>5, <1>6, ArriveEffect DEF IInv, Store
<1>8. HandlerOK(h)'
  BY <1>3, <1>4, <1>7 DEF HandlerOK
<1> QED
  BY <1>2, <1>5, <1>6, <1>8, ArriveIInv

\* An approval, stale if its device was deleted by then.
LEMMA ArriveApprovalIInv ==
    ASSUME IInv, NEW h \in Handlers, NEW d \in Devices, NEW inWindow \in BOOLEAN,
           ArriveApproval(h, d, inWindow)
    PROVE  IInv'
<1>1. PICK r : r = [kind |-> "approve", Device |-> d, InWindow |-> inWindow]
  OBVIOUS
<1>2. PICK stale : stale = (devices[d] = "deleted")
  OBVIOUS
<1>3. PICK q : q = [request |-> r, stale |-> stale]
  OBVIOUS
<1>4. q \in Serving(Approvals) /\ r.Device = d
  BY SMTT(30), <1>1, <1>2, <1>3 DEF Serving, Approvals
<1>5. "approve" \in Labels /\ q \in Requests
  BY <1>4 DEF Labels, Requests
<1>6. Arrive(h, "approve", r, stale)
  BY <1>1, <1>2 DEF ArriveApproval
<1>7. /\ pc'[h] = "approve" /\ req'[h] = q /\ req'[h].request = r /\ req'[h].stale = stale
      /\ devices' = devices
  <2>1. Shapes
    BY DEF IInv
  <2>2. /\ pc'[h] = "approve" /\ req'[h] = [request |-> r, stale |-> stale]
        /\ UNCHANGED <<Store, updated, history>>
    BY <1>6, <2>1 DEF Arrive, Shapes
  <2>3. req'[h].request = r /\ req'[h].stale = stale
    BY SMTT(30), <2>2
  <2> QED
    BY <1>3, <2>2, <2>3 DEF Store
<1>8. HandlerOK(h)'
  BY <1>2, <1>4, <1>7 DEF HandlerOK
<1> QED
  BY <1>3, <1>5, <1>6, <1>8, ArriveIInv

\* The answer to a registration, stale if its ceremony had expired or its factor was
\* active by then.
LEMMA ArriveRegistrationIInv ==
    ASSUME IInv, NEW h \in Handlers, NEW i \in Identities, NEW f \in Existing, NEW k \in Ceremonies,
           handleWebAuthnFinishRegistration(h, i, f, k)
    PROVE  IInv'
<1>1. PICK r : r = [kind |-> "register", Identity |-> i, Factor |-> f, Ceremony |-> k]
  OBVIOUS
<1>2. PICK stale : stale = (k \in expired \/ factors[f].Status = "active")
  OBVIOUS
<1>3. PICK q : q = [request |-> r, stale |-> stale]
  OBVIOUS
<1>4. f \in FactorIDs /\ factors[f] # NoFactor
  BY DEF Existing
<1>5. q \in Serving(Registrations) /\ r.Factor = f /\ r.Ceremony = k
  BY SMTT(30), <1>1, <1>2, <1>3, <1>4 DEF Serving, Registrations
<1>6. "register" \in Labels /\ q \in Requests
  BY <1>5 DEF Labels, Requests
<1>7. Arrive(h, "register", r, stale)
  BY <1>1, <1>2 DEF handleWebAuthnFinishRegistration
<1>8. /\ pc'[h] = "register" /\ req'[h] = q /\ req'[h].request = r /\ req'[h].stale = stale
      /\ factors' = factors /\ expired' = expired
  <2>1. Shapes
    BY DEF IInv
  <2>2. /\ pc'[h] = "register" /\ req'[h] = [request |-> r, stale |-> stale]
        /\ UNCHANGED <<Store, updated, history>>
    BY <1>7, <2>1 DEF Arrive, Shapes
  <2>3. req'[h].request = r /\ req'[h].stale = stale
    BY SMTT(30), <2>2
  <2> QED
    BY <1>3, <2>2, <2>3 DEF Store
<1>9. HandlerOK(h)'
  BY <1>2, <1>4, <1>5, <1>8 DEF HandlerOK
<1> QED
  BY <1>3, <1>6, <1>7, <1>9, ArriveIInv

\* An assertion, stale if its ceremony is not the identity's or had expired by then.
LEMMA ArriveAssertionIInv ==
    ASSUME IInv, NEW h \in Handlers, NEW i \in Identities,
           NEW k \in DOMAIN ceremonies, NEW c \in DOMAIN ceremonies, NEW count \in 0..MaxCount,
           ArriveAssertion(h, i, k, c, count)
    PROVE  IInv'
<1> DEFINE answer(session) == [kind |-> "assert", Identity |-> i, Ceremony |-> k,
                               Credential |-> c, Count |-> count, Session |-> session]
<1>1. DOMAIN ceremonies \subseteq Ceremonies /\ 0 \in 0..MaxCeremonies
  <2>1. MaxCeremonies \in Nat
    BY BoundsAssumption
  <2>2. /\ ceremonies \in Seq([Identity : Identities, Kind : Kinds])
        /\ Len(ceremonies) <= MaxCeremonies
    BY DEF IInv, Shapes
  <2> QED
    BY SMTT(30), <2>1, <2>2 DEF Ceremonies
<1>2. ASSUME NEW stale \in BOOLEAN, NEW session \in {0, k}
      PROVE  /\ [request |-> answer(session), stale |-> stale] \in Serving(Assertions)
             /\ answer(session).Identity = i /\ answer(session).Ceremony = k
             /\ answer(session).Session = session
  <2>1. k \in Ceremonies /\ c \in Ceremonies /\ session \in 0..MaxCeremonies
    <3>1. k \in Ceremonies /\ c \in Ceremonies
      BY <1>1
    <3> QED
      BY SMTT(30), <1>1, <3>1 DEF Ceremonies
  <2> QED
    BY SMTT(30), <2>1 DEF Serving, Assertions
<1> HIDE DEF answer
<1>3. CASE ceremonies[k].Kind = "identity"
  <2>1. PICK stale : stale = (sessions[i] # k \/ k \in expired)
    OBVIOUS
  <2>2. Arrive(h, "take", answer(0), stale)
    BY <1>3, <2>1 DEF ArriveAssertion, answer
  <2>3. /\ "take" \in Labels /\ stale \in BOOLEAN
        /\ [request |-> answer(0), stale |-> stale] \in Serving(Assertions)
        /\ [request |-> answer(0), stale |-> stale] \in Requests
    BY <1>2, <2>1 DEF Labels, Requests
  <2>4. /\ pc'[h] = "take" /\ req'[h] = [request |-> answer(0), stale |-> stale]
        /\ req'[h].request = answer(0) /\ req'[h].stale = stale
        /\ UNCHANGED <<ceremonies, sessions, expired>>
    <3>1. Shapes
      BY DEF IInv
    <3>2. /\ pc'[h] = "take" /\ req'[h] = [request |-> answer(0), stale |-> stale]
          /\ UNCHANGED <<Store, updated, history>>
      BY <2>2, <3>1 DEF Arrive, Shapes
    <3>3. req'[h].request = answer(0) /\ req'[h].stale = stale
      BY SMTT(30), <3>2
    <3> QED
      BY <3>2, <3>3 DEF Store
  <2>5. HandlerOK(h)'
    BY <1>2, <2>1, <2>4 DEF HandlerOK
  <2> QED
    BY <2>2, <2>3, <2>5, ArriveIInv
<1>4. CASE ceremonies[k].Kind = "challenge"
  <2>1. Arrive(h, "login", answer(k), FALSE)
    BY <1>4 DEF ArriveAssertion, answer
  <2>2. "login" \in Labels /\ [request |-> answer(k), stale |-> FALSE] \in Requests
    BY <1>2 DEF Labels, Requests
  <2>3. /\ pc'[h] = "login" /\ req'[h] = [request |-> answer(k), stale |-> FALSE]
        /\ req'[h].stale = FALSE
    BY <2>1, <2>2, ArriveEffect DEF IInv, Store
  <2>4. HandlerOK(h)'
    BY <1>2, <2>3 DEF HandlerOK
  <2> QED
    BY <2>1, <2>2, <2>4, ArriveIInv
<1> QED
  BY <1>3, <1>4 DEF ArriveAssertion

-----------------------------------------------------------------------------
(* Steps that read the store.                                               *)

\* A request that is turned down changes nothing but its handler.
LEMMA ReturnIInv ==
    ASSUME IInv, NEW h \in Handlers, pc[h] # "status", Return(h),
           UNCHANGED <<Store, arrived, taken, overlapped, answers>>
    PROVE  IInv'
<1>1. Shapes
  BY DEF IInv
<1>2. arrived' \in 0..MaxRequests
  BY <1>1 DEF Shapes
<1> QED
  BY <1>1, <1>2, ReturnEffect, LocalStep

\* A request whose gates are open goes on to its next step.
LEMMA GotoIInv ==
    ASSUME IInv, NEW h \in Handlers, pc[h] # "status", NEW label \in Labels, Goto(h, label),
           UNCHANGED <<Store, arrived, history>>, HandlerOK(h)'
    PROVE  IInv'
<1>1. Shapes
  BY DEF IInv
<1>2. arrived' \in 0..MaxRequests /\ UNCHANGED <<taken, overlapped, answers>>
  BY <1>1 DEF Shapes, history
<1>3. /\ pc' \in [Handlers -> Labels] /\ req' = req /\ updated' = updated
      /\ \A g \in Handlers : g # h => pc'[g] = pc[g]
  BY <1>1, GotoEffect
<1>4. req' \in [Handlers -> Requests] /\ updated' \in [Handlers -> Credentials \cup {NoCredential}]
  BY <1>1, <1>3 DEF Shapes
<1> QED
  BY <1>2, <1>3, <1>4, LocalStep

\* Activate goes on only with a factor of the identity.
LEMMA ActivateIInv ==
    ASSUME IInv, NEW h \in Handlers, Activate(h)
    PROVE  IInv'
<1>0. /\ Shapes /\ HandlerOK(h) /\ pc[h] = "activate" /\ pc[h] # "status"
      /\ UNCHANGED <<Store, arrived, history>>
  BY DEF IInv, Activate
<1>1. PICK r : r = req[h].request
  OBVIOUS
<1>2. PICK f : f = factors[r.Factor]
  OBVIOUS
<1>3. CASE Return(h)
  BY <1>0, <1>3, ReturnIInv DEF history
<1>4. CASE /\ f # NoFactor /\ f.IdentityID = r.Identity /\ f.Status = "pending_activation"
           /\ Validate(r.Code, f.Secret, 0)
           /\ Goto(h, "activated")
  <2>1. req[h] \in Serving(Activations) /\ ~req[h].stale
    BY <1>0 DEF HandlerOK
  <2>5. "activated" \in Labels
    BY DEF Labels
  <2>6. pc'[h] = "activated" /\ req' = req
    BY <1>0, <1>4, <2>5, GotoEffect
  <2>7. factors' = factors
    BY <1>0 DEF Store
  <2>8. HandlerOK(h)'
    BY <1>1, <1>2, <1>4, <2>1, <2>6, <2>7 DEF HandlerOK
  <2> QED
    BY <1>0, <1>4, <2>5, <2>8, GotoIInv
<1> QED
  BY <1>1, <1>2, <1>3, <1>4 DEF Activate

\* An approval succeeds only if its device had not been deleted when it arrived.
LEMMA VerifyApprovalIInv ==
    ASSUME IInv, NEW h \in Handlers, VerifyApproval(h)
    PROVE  IInv'
<1>1. /\ Shapes /\ HandlerOK(h) /\ pc[h] = "approve" /\ pc[h] # "status"
      /\ UNCHANGED <<Store, arrived, taken, overlapped>>
  BY DEF IInv, VerifyApproval
<1>2. CASE Return(h) /\ UNCHANGED answers
  BY <1>1, <1>2, ReturnIInv
<1>3. CASE Succeed(h) /\ devices[req[h].request.Device] = "registered"
  <2>1. req[h] \in Serving(Approvals) /\ ~req[h].stale
    BY <1>1, <1>3 DEF HandlerOK
  <2>2. req[h].request.kind = "approve"
    BY SMTT(30), <2>1 DEF Serving, Approvals
  <2>3. PICK q : q = req[h]
    OBVIOUS
  <2>4. answers' = answers \cup {q} /\ Return(h) /\ arrived' \in 0..MaxRequests
    BY <1>1, <1>3, <2>3 DEF Succeed, Shapes
  <2>5. \A v \in answers' : v \in answers \/ (~v.stale /\ EnrolledFor(v)')
    BY <2>1, <2>2, <2>3, <2>4 DEF EnrolledFor
  <2> QED
    BY <1>1, <2>4, <2>5, ReturnEffect, LocalStep
<1> QED
  BY <1>2, <1>3 DEF VerifyApproval

\* FinishRegistration lets through only what had not expired and was not active.
LEMMA FinishRegistrationIInv ==
    ASSUME IInv, NEW h \in Handlers, FinishRegistration(h)
    PROVE  IInv'
<1>0. /\ Shapes /\ HandlerOK(h) /\ pc[h] = "register" /\ pc[h] # "status"
      /\ UNCHANGED <<Store, arrived, history>>
  BY DEF IInv, FinishRegistration
<1>1. PICK r : r = req[h].request
  OBVIOUS
<1>2. PICK f : f = factors[r.Factor]
  OBVIOUS
<1>3. CASE Return(h)
  BY <1>0, <1>3, ReturnIInv DEF history
<1>4. CASE /\ f # NoFactor /\ f.IdentityID = r.Identity /\ f.Method = "webauthn"
           /\ f.Status = "pending_activation"
           /\ ~\E k \in expired : f.Credentials = Session(k)
           /\ Goto(h, "decode")
  <2>1. /\ req[h] \in Serving(Registrations)
        /\ req[h].stale => r.Ceremony \in expired \/ f.Status = "active"
    BY <1>0, <1>1, <1>2 DEF HandlerOK
  <2>2. r.Factor \in FactorIDs
    BY SMTT(30), <1>1, <2>1 DEF Serving, Registrations
  <2>3. f \in Keys
    <3>1. f \in Totps \cup Keys
      BY <1>2, <1>4, <2>2 DEF IInv, Shapes
    <3>2. "totp" # "webauthn"
      BY SMTT(30)
    <3> QED
      BY <1>4, <3>1, <3>2, FactorShapes
  <2>4. "decode" \in Labels /\ "pending_activation" # "active"
    BY DEF Labels
  <2>5. pc'[h] = "decode" /\ req' = req
    BY <1>0, <1>4, <2>4, GotoEffect
  <2>6. factors' = factors
    BY <1>0 DEF Store
  <2>7. req[h].stale => Stored(r.Factor) \/ ~Of(r.Factor, r.Ceremony)
    BY <1>2, <1>4, <2>1, <2>4 DEF Of, Stored
  <2>8. req'[h].stale => Stored(r.Factor)' \/ ~Of(r.Factor, r.Ceremony)'
    BY <2>5, <2>6, <2>7 DEF Of, Stored
  <2>9. HandlerOK(h)'
    BY <1>1, <1>2, <1>4, <2>1, <2>3, <2>5, <2>6, <2>8 DEF HandlerOK
  <2> QED
    BY <1>0, <1>4, <2>4, <2>9, GotoIInv
<1> QED
  BY <1>1, <1>2, <1>3, <1>4 DEF FinishRegistration

\* DecodeSession goes on only with the session of the ceremony that the answer is to.
LEMMA DecodeSessionIInv ==
    ASSUME IInv, NEW h \in Handlers, DecodeSession(h)
    PROVE  IInv'
<1>0. /\ Shapes /\ HandlerOK(h) /\ pc[h] = "decode" /\ pc[h] # "status"
      /\ UNCHANGED <<Store, arrived, taken, answers>>
  BY DEF IInv, DecodeSession
<1>1. PICK r : r = req[h].request
  OBVIOUS
<1>2. CASE Return(h) /\ UNCHANGED overlapped
  BY <1>0, <1>2, ReturnIInv
<1>3. CASE /\ factors[r.Factor].Credentials = Session(r.Ceremony)
           /\ updated' = [updated EXCEPT ![h] = Credential(r.Ceremony)]
           /\ pc' = [pc EXCEPT ![h] = "credentials"]
           /\ overlapped' = overlapped \ {h}
           /\ UNCHANGED req
  <2>1. /\ req[h] \in Serving(Registrations) /\ factors[r.Factor] \in Keys
        /\ factors[r.Factor].IdentityID = r.Identity /\ factors[r.Factor] # NoFactor
        /\ req[h].stale => Stored(r.Factor) \/ ~Of(r.Factor, r.Ceremony)
    BY <1>0, <1>1 DEF HandlerOK
  <2>2. r.Factor \in FactorIDs /\ r.Ceremony \in Ceremonies
    BY SMTT(30), <1>1, <2>1 DEF Serving, Registrations
  <2>3. Of(r.Factor, r.Ceremony) /\ ~Stored(r.Factor)
    <3>1. Session(r.Ceremony) \notin Credentials
      BY <2>2, CredentialShapes
    <3> QED
      BY <1>3, <2>1, <3>1 DEF Of, Stored
  <2>4. Credential(r.Ceremony) \in Credentials
    BY <2>2, CredentialShapes
  <2>5. factors' = factors
    BY <1>0 DEF Store
  <2>6. pc'[h] = "credentials" /\ updated'[h] = Credential(r.Ceremony) /\ req'[h] = req[h]
    BY <1>0, <1>3 DEF Shapes
  <2>7. Of(r.Factor, r.Ceremony)' /\ ~Stored(r.Factor)'
    BY <2>3, <2>5 DEF Of, Stored
  <2>8. HandlerOK(h)'
    BY <1>1, <2>1, <2>3, <2>5, <2>6, <2>7 DEF HandlerOK
  <2>9. /\ pc' \in [Handlers -> Labels] /\ req' \in [Handlers -> Requests]
        /\ updated' \in [Handlers -> Credentials \cup {NoCredential}]
        /\ arrived' \in 0..MaxRequests
        /\ \A g \in Handlers : g # h =>
              pc'[g] = pc[g] /\ req'[g] = req[g] /\ updated'[g] = updated[g]
    <3>1. "credentials" \in Labels
      BY DEF Labels
    <3> QED
      BY <1>0, <1>3, <2>4, <3>1 DEF Shapes
  <2> QED
    BY <1>0, <1>3, <2>8, <2>9, LocalStep
<1> QED
  BY <1>1, <1>2, <1>3 DEF DecodeSession

\* Updating a counter never takes the stored credential back.
LEMMA UpdateCounterUp ==
    ASSUME NEW c \in Credentials, NEW count \in 0..MaxCount
    PROVE  /\ UpdateCounter(c, count) \in Credentials /\ UpdateCounter(c, count).ID = c.ID
           /\ UpToDate(c, UpdateCounter(c, count))
<1>1. MaxCount \in Nat
  BY BoundsAssumption
<1>2. CASE count <= c.SignCount /\ ~(count = 0 /\ c.SignCount = 0)
  <2>0. PICK warning : warning \in BOOLEAN /\ warning = TRUE
    OBVIOUS
  <2>1. PICK u : u = [c EXCEPT !.CloneWarning = warning]
    OBVIOUS
  <2>2. /\ u \in Credentials /\ u.ID = c.ID /\ u.SignCount = c.SignCount
        /\ c.SignCount \in Nat
    <3>1. warning \in BOOLEAN
      BY <2>0
    <3>2. u.ID = c.ID /\ u.SignCount = c.SignCount /\ c.SignCount \in Nat
      BY SMTT(30), <1>1, <2>1 DEF Credentials
    <3>3. u \in Credentials
      BY SMTT(30), <2>1, <3>1 DEF Credentials
    <3> QED
      BY <3>2, <3>3
  <2>3. u.CloneWarning
    BY <2>0, <2>1 DEF Credentials
  <2>4. c.SignCount <= u.SignCount
    BY SMTT(30), <2>2
  <2> QED
    BY <1>2, <2>0, <2>1, <2>2, <2>3, <2>4 DEF UpdateCounter, UpToDate
<1>3. CASE ~(count <= c.SignCount /\ ~(count = 0 /\ c.SignCount = 0))
  <2>1. PICK u : u = [c EXCEPT !.SignCount = count]
    OBVIOUS
  <2>2. /\ u \in Credentials /\ u.ID = c.ID /\ u.SignCount = count
        /\ u.CloneWarning = c.CloneWarning /\ c.SignCount \in Nat
    BY SMTT(30), <1>1, <2>1 DEF Credentials
  <2>3. UpToDate(c, u)
    BY SMTT(30), <1>3, <2>2 DEF UpToDate
  <2> QED
    BY <1>3, <2>1, <2>2, <2>3 DEF UpdateCounter
<1> QED
  BY <1>2, <1>3

\* An active key that is known by an ID holds a credential that its identity registered.
LEMMA ActiveKey ==
    ASSUME IInv, NEW i, NEW f \in Active(i, "webauthn"),
           Decoded(factors[f].Credentials).ID \in Ceremonies
    PROVE  /\ f \in FactorIDs /\ factors[f] \in Keys /\ factors[f] # NoFactor
           /\ factors[f].Status = "active" /\ factors[f].IdentityID = i
           /\ factors[f].Credentials \in Credentials /\ Stored(f)
           /\ Decoded(factors[f].Credentials) = factors[f].Credentials
           /\ Of(f, factors[f].Credentials.ID)
           /\ ShowedKey(i, factors[f].Credentials.ID)
<1>1. f \in FactorIDs /\ factors[f].Status = "active" /\ factors[f].IdentityID = i
      /\ factors[f].Method = "webauthn"
  BY DEF Active
<1>2. "none" # "active" /\ "totp" # "webauthn"
  BY SMTT(30)
<1>3. factors[f] \in Keys /\ factors[f] # NoFactor
  BY <1>1, <1>2, FactorShapes DEF IInv, Shapes
<1>4. FactorOK(f)
  BY <1>1 DEF IInv
<1>5. ~IsSession(factors[f].Credentials)
  BY CredentialShapes DEF Decoded
<1>6. Decoded(factors[f].Credentials) = factors[f].Credentials
  BY <1>5 DEF Decoded
<1>7. Stored(f) /\ factors[f].Credentials \in Credentials
  BY <1>3, <1>5, KeyOf DEF Stored
<1>8. Of(f, factors[f].Credentials.ID)
  BY <1>3, <1>7 DEF Of
<1>9. PICK k \in DOMAIN ceremonies : Of(f, k) /\ ShowedKey(i, k)
  BY <1>1, <1>3, <1>4, <1>7 DEF FactorOK
<1>10. k = factors[f].Credentials.ID
  <2>1. k \in Ceremonies
    BY CeremonyNumbers DEF IInv
  <2>2. factors[f].Credentials.ID \in Ceremonies
    BY <1>7, CredentialShapes
  <2> QED
    BY <1>3, <1>8, <1>9, <2>1, <2>2, KeyOf
<1> QED
  BY <1>1, <1>3, <1>6, <1>7, <1>8, <1>9, <1>10

\* FinishVerification goes on only with a credential that the identity registered.
LEMMA FinishVerificationIInv ==
    ASSUME IInv, NEW h \in Handlers, FinishVerification(h)
    PROVE  IInv'
<1>0. /\ Shapes /\ HandlerOK(h) /\ pc[h] = "login" /\ pc[h] # "status"
      /\ UNCHANGED <<Store, arrived, taken, answers>>
  BY DEF IInv, FinishVerification
<1>1. PICK r : r = req[h].request
  OBVIOUS
<1>2. CASE Return(h) /\ UNCHANGED overlapped
  BY <1>0, <1>2, ReturnIInv
<1>3. ASSUME NEW c \in user(r.Identity), c.ID = r.Credential, r.Session = r.Ceremony,
             updated' = [updated EXCEPT ![h] = UpdateCounter(c, r.Count)],
             pc' = [pc EXCEPT ![h] = "persist"],
             overlapped' = overlapped \ {h}, req' = req
      PROVE  IInv'
  <2>1. req[h] \in Serving(Assertions) /\ ~req[h].stale
    BY <1>0, <1>1, <1>3 DEF HandlerOK
  <2>2. r.Count \in 0..MaxCount /\ r.Credential \in Ceremonies
    BY SMTT(30), <1>1, <2>1 DEF Serving, Assertions
  <2>3. PICK f \in Active(r.Identity, "webauthn") : Decoded(factors[f].Credentials) = c
    BY <1>3 DEF user
  <2>4. /\ f \in FactorIDs /\ factors[f].Status = "active" /\ c \in Credentials
        /\ factors[f].Credentials = c /\ Stored(f)
        /\ Of(f, r.Credential) /\ ShowedKey(r.Identity, r.Credential)
    BY <1>3, <2>2, <2>3, ActiveKey
  <2>5. PICK u : u = UpdateCounter(c, r.Count)
    OBVIOUS
  <2>6. u \in Credentials /\ u.ID = r.Credential /\ UpToDate(c, u)
    BY <1>3, <2>2, <2>4, <2>5, UpdateCounterUp
  <2>7. factors' = factors /\ answers' = answers
    BY <1>0 DEF Store
  <2>8. pc'[h] = "persist" /\ updated'[h] = u /\ req'[h] = req[h]
    BY <1>0, <1>3, <2>5 DEF Shapes
  <2>9. Of(f, r.Credential)' /\ Stored(f)' /\ ShowedKey(r.Identity, r.Credential)'
    <3>1. Accepted \subseteq Accepted'
      BY <1>0, <1>3, <2>7, AcceptedGrows DEF Shapes
    <3> QED
      BY <2>4, <2>7, <3>1 DEF Of, Stored, ShowedKey
  <2>10. HandlerOK(h)'
    <3>1. UpToDate(factors'[f].Credentials, updated'[h]) /\ factors'[f].Status = "active"
      BY <2>4, <2>6, <2>7, <2>8
    <3> QED
      BY <1>1, <2>1, <2>4, <2>6, <2>8, <2>9, <3>1 DEF HandlerOK
  <2>11. /\ pc' \in [Handlers -> Labels] /\ req' \in [Handlers -> Requests]
         /\ updated' \in [Handlers -> Credentials \cup {NoCredential}]
         /\ arrived' \in 0..MaxRequests
         /\ \A g \in Handlers : g # h =>
               pc'[g] = pc[g] /\ req'[g] = req[g] /\ updated'[g] = updated[g]
    <3>1. "persist" \in Labels
      BY DEF Labels
    <3> QED
      BY <1>0, <1>3, <2>5, <2>6, <3>1 DEF Shapes
  <2> QED
    BY <1>0, <1>3, <2>10, <2>11, LocalStep
<1> QED
  BY <1>1, <1>2, <1>3 DEF FinishVerification

\* A code that Verify accepts is one for a factor that its identity activated.
LEMMA HandleVerifyTOTPIInv ==
    ASSUME IInv, NEW i \in Identities, NEW code \in Codes, HandleVerifyTOTP(i, code)
    PROVE  IInv'
<1>1. UNCHANGED <<factors, devices, sessions, ceremonies, expired, pc, req, updated,
                  taken, overlapped>>
  BY DEF HandleVerifyTOTP, Store, handlerVars
<1>2. Shapes' /\ Parked'
  <2>1. arrived' \in 0..MaxRequests
    <3>1. arrived \in 0..MaxRequests /\ arrived < MaxRequests /\ arrived' = arrived + 1
      BY DEF HandleVerifyTOTP, IInv, Shapes
    <3>2. MaxRequests \in Nat
      BY BoundsAssumption
    <3> QED
      BY SMTT(30), <3>1, <3>2
  <2> QED
    BY <1>1, <2>1 DEF IInv, Shapes, Parked
<1>3. (\A f \in FactorIDs : Outlives(f)) /\ OneKeyEach'
  BY <1>1, SameFactors DEF IInv
<1>4. PICK v : v = [request |-> [kind |-> "totp", Identity |-> i, Code |-> code], stale |-> FALSE]
  OBVIOUS
<1>5. answers' = IF VerifyTOTP(i, code) THEN answers \cup {v} ELSE answers
  BY <1>4 DEF HandleVerifyTOTP
<1>6. Grows
  <2>1. answers \subseteq answers'
    BY <1>5
  <2>2. Accepted \subseteq Accepted'
    BY <1>1, <2>1, AcceptedGrows
  <2> QED
    BY <1>1, <1>3, <2>1, <2>2 DEF Grows
<1>7. ASSUME VerifyTOTP(i, code)
      PROVE  ~v.stale /\ EnrolledFor(v)'
  <2>1. PICK f \in Active(i, "totp") : code.Secret = factors[f].Secret
    BY <1>7 DEF VerifyTOTP, Validate
  <2>2. /\ f \in FactorIDs /\ factors[f].Status = "active" /\ factors[f].IdentityID = i
        /\ factors[f].Method = "totp"
    BY DEF Active
  <2>3. factors[f] \in Totps
    <3>1. "none" # "active" /\ "totp" # "webauthn"
      BY SMTT(30)
    <3> QED
      BY <2>2, <3>1, FactorShapes DEF IInv, Shapes
  <2>4. ShowedTOTP(i, code.Secret)
    BY <2>1, <2>2, <2>3 DEF IInv, FactorOK
  <2>5. ShowedTOTP(i, code.Secret)'
    BY <1>6, <2>4 DEF ShowedTOTP, Grows
  <2>6. /\ v.stale = FALSE /\ v.request.kind = "totp" /\ v.request.Identity = i
        /\ v.request.Code = code
    BY SMTT(30), <1>4
  <2> QED
    BY <2>5, <2>6 DEF EnrolledFor
<1>8. /\ \A g \in Handlers : Unmoved(g)
      /\ \A f \in FactorIDs : factors'[f] = factors[f]
  BY <1>1 DEF Unmoved
<1>9. \A w \in answers' : w \in answers \/ (~w.stale /\ EnrolledFor(w)')
  BY <1>5, <1>7
<1> QED
  BY <1>2, <1>3, <1>6, <1>8, <1>9, StepKeeps

-----------------------------------------------------------------------------
(* Requests that touch the store once, and time.                            *)

\* A new TOTP factor is pending and has a secret of its own.
LEMMA EnrollIInv ==
    ASSUME IInv, NEW f \in FactorIDs, NEW i \in Identities, Enroll(f, i)
    PROVE  IInv'
<1>1. /\ UNCHANGED <<devices, sessions, ceremonies, expired, pc, req, updated, arrived,
                     taken, overlapped, answers>>
      /\ factors[f] = NoFactor
  BY DEF Enroll, handlerVars, history
<1>2. PICK x : x = [IdentityID |-> i, Method |-> "totp", Status |-> "pending_activation",
                    Secret |-> f]
  OBVIOUS
<1>3. x \in Totps /\ x.Secret = f /\ x.Status # "active"
  BY SMTT(30), <1>2 DEF Totps, FactorStatuses
<1>4. factors' = [factors EXCEPT ![f] = x]
  BY <1>2 DEF Enroll
<1>5. factors'[f] = x /\ \A g \in FactorIDs : g # f => factors'[g] = factors[g]
  BY <1>4 DEF IInv, Shapes
<1>6. Shapes' /\ Parked'
  BY <1>1, <1>3, <1>4 DEF IInv, Shapes, Parked
<1>7. x \notin Keys /\ NoFactor \notin Keys /\ NoFactor \notin Totps
  BY <1>3, FactorShapes
<1>8. \A g \in FactorIDs : \A k : (Of(g, k)' <=> Of(g, k)) /\ (Stored(g)' <=> Stored(g))
  BY <1>1, <1>5, <1>7 DEF Of, Stored
<1>9. \A g \in FactorIDs : Outlives(g)
  BY <1>1, <1>5, <1>7, <1>8 DEF Outlives
<1>10. Grows /\ OneKeyEach'
  <2>1. Accepted \subseteq Accepted'
    BY <1>1, AcceptedGrows
  <2> QED
    BY <1>1, <1>8, <1>9, <2>1 DEF Grows, IInv, OneKeyEach
<1>11. FactorOK(f)'
  BY <1>3, <1>5, <1>7 DEF FactorOK
<1>12. \A g \in Handlers : Unmoved(g)
  BY <1>1, <1>5, <1>7 DEF Unmoved
<1> QED
  BY <1>1, <1>5, <1>6, <1>10, <1>11, <1>12, StepKeeps

\* A step that changes neither factors nor handlers nor answers.
LEMMA RestKeeps ==
    ASSUME IInv, Shapes', Parked',
           UNCHANGED <<factors, pc, req, updated, overlapped, answers>>,
           \A d \in Devices : devices[d] = "deleted" => devices'[d] = "deleted",
           expired \subseteq expired',
           \A k \in DOMAIN ceremonies : k \in DOMAIN ceremonies' /\ ceremonies'[k] = ceremonies[k],
           \A i \in Identities : sessions'[i] \in DOMAIN ceremonies => sessions'[i] = sessions[i]
    PROVE  IInv'
<1>1. (\A f \in FactorIDs : Outlives(f)) /\ OneKeyEach'
  BY SameFactors DEF IInv
<1>2. Grows
  <2>1. Accepted \subseteq Accepted'
    BY AcceptedGrows
  <2> QED
    BY <1>1, <2>1 DEF Grows
<1>3. \A g \in Handlers : Unmoved(g)
  BY DEF Unmoved
<1> QED
  BY <1>1, <1>2, <1>3, StepKeeps

\* Devices come and go, and one that was deleted stays deleted.
LEMMA DeviceIInv ==
    ASSUME IInv, NEW d \in Devices, RegisterDevice(d) \/ handleDeleteDevice(d)
    PROVE  IInv'
<1>1. /\ UNCHANGED <<factors, sessions, ceremonies, expired, pc, req, updated,
                     taken, overlapped, answers>>
      /\ arrived < MaxRequests /\ arrived' = arrived + 1 /\ devices[d] # "deleted"
      /\ \/ devices' = [devices EXCEPT ![d] = "registered"]
         \/ devices' = [devices EXCEPT ![d] = "deleted"]
  BY DEF RegisterDevice, handleDeleteDevice, handlerVars, history
<1>2. arrived' \in 0..MaxRequests
  <2>1. arrived \in 0..MaxRequests
    BY DEF IInv, Shapes
  <2>2. MaxRequests \in Nat
    BY BoundsAssumption
  <2> QED
    BY SMTT(30), <1>1, <2>1, <2>2
<1>3. /\ devices' \in [Devices -> {"none", "registered", "deleted"}]
      /\ \A e \in Devices : devices[e] = "deleted" => devices'[e] = "deleted"
  BY <1>1 DEF IInv, Shapes
<1>4. Shapes' /\ Parked'
  BY <1>1, <1>2, <1>3 DEF IInv, Shapes, Parked
<1> QED
  BY <1>1, <1>3, <1>4, RestKeeps

\* Time passes for a ceremony.
LEMMA ExpireIInv ==
    ASSUME IInv, NEW k \in Ceremonies, Expire(k)
    PROVE  IInv'
<1>1. /\ UNCHANGED <<factors, devices, sessions, ceremonies, pc, req, updated, arrived,
                     taken, overlapped, answers>>
      /\ expired' = expired \cup {k} /\ k \in DOMAIN ceremonies
  BY DEF Expire, handlerVars, history
<1>2. Shapes' /\ Parked'
  BY <1>1 DEF IInv, Shapes, Parked
<1> QED
  BY <1>1, <1>2, RestKeeps

\* A ceremony for a challenge begins; no identity's session changes.
LEMMA BeginVerificationIInv ==
    ASSUME IInv, NEW i \in Identities, NEW k \in Ceremonies, BeginVerification(i, k)
    PROVE  IInv'
<1>1. /\ Begin(k, i, "challenge")
      /\ UNCHANGED <<factors, devices, sessions, expired, pc, req, updated, arrived,
                     taken, overlapped, answers>>
  BY DEF BeginVerification, handlerVars, history
<1>2. Shapes /\ "challenge" \in Kinds
  BY DEF IInv, Kinds
<1>3. /\ k \in Ceremonies /\ k \notin DOMAIN ceremonies /\ k # 0
      /\ ceremonies' \in Seq([Identity : Identities, Kind : Kinds])
      /\ Len(ceremonies') <= MaxCeremonies
      /\ DOMAIN ceremonies' = DOMAIN ceremonies \cup {k}
      /\ 0..Len(ceremonies) \subseteq 0..Len(ceremonies')
      /\ \A m \in DOMAIN ceremonies : ceremonies'[m] = ceremonies[m]
  BY <1>1, <1>2, BeginEffect
<1>4. Shapes'
  BY <1>1, <1>2, <1>3 DEF Shapes
<1>5. Parked'
  <2>1. \A j \in Identities : sessions[j] # 0 => sessions[j] \in DOMAIN ceremonies
    BY <1>2, SessionNumbers
  <2> QED
    BY <1>1, <1>3, <2>1 DEF IInv, Parked
<1> QED
  BY <1>1, <1>3, <1>4, <1>5, RestKeeps

\* An identity's own ceremony begins; its session replaces any, and expired ones go.
LEMMA BeginIdentityVerificationIInv ==
    ASSUME IInv, NEW i \in Identities, NEW k \in Ceremonies, BeginIdentityVerification(i, k)
    PROVE  IInv'
<1>1. /\ Begin(k, i, "identity")
      /\ UNCHANGED <<factors, devices, expired, pc, req, updated, arrived,
                     taken, overlapped, answers>>
      /\ sessions' = [j \in Identities |->
             IF j = i THEN k ELSE IF sessions[j] \in expired THEN 0 ELSE sessions[j]]
  BY DEF BeginIdentityVerification, handlerVars, history
<1>2. Shapes /\ "identity" \in Kinds
  BY DEF IInv, Kinds
<1>3. /\ k \in Ceremonies /\ k \notin DOMAIN ceremonies /\ k # 0
      /\ ceremonies' \in Seq([Identity : Identities, Kind : Kinds])
      /\ Len(ceremonies') <= MaxCeremonies /\ Len(ceremonies') = k
      /\ DOMAIN ceremonies' = DOMAIN ceremonies \cup {k}
      /\ 0..Len(ceremonies) \subseteq 0..Len(ceremonies')
      /\ \A m \in DOMAIN ceremonies : ceremonies'[m] = ceremonies[m]
      /\ ceremonies'[k] = [Identity |-> i, Kind |-> "identity"]
  BY <1>1, <1>2, BeginEffect
<1>4. ceremonies'[k].Identity = i
  BY SMTT(30), <1>3
<1>5. /\ sessions'[i] = k
      /\ \A j \in Identities : j # i => sessions'[j] = 0 \/ sessions'[j] = sessions[j]
  BY <1>1
<1>6. 0 \in 0..Len(ceremonies') /\ k \in 0..Len(ceremonies') /\ 0 \notin DOMAIN ceremonies
  <2>1. k \in Nat
    BY SMTT(30) DEF Ceremonies
  <2>2. ceremonies \in Seq([Identity : Identities, Kind : Kinds])
    BY <1>2 DEF Shapes
  <2> QED
    BY SMTT(30), <1>3, <2>1, <2>2
<1>7. Shapes'
  <2>1. sessions' \in [Identities -> 0..Len(ceremonies')]
    BY <1>1, <1>2, <1>3, <1>6 DEF Shapes
  <2> QED
    BY <1>1, <1>2, <1>3, <2>1 DEF Shapes
<1>8. Parked'
  <2>1. \A j \in Identities : sessions[j] # 0 => sessions[j] \in DOMAIN ceremonies
    BY <1>2, SessionNumbers
  <2>2. taken[k] = 0
    BY <1>3 DEF IInv, Parked
  <2> QED
    BY <1>1, <1>3, <1>4, <1>5, <2>1, <2>2 DEF IInv, Parked
<1>9. \A j \in Identities : sessions'[j] \in DOMAIN ceremonies => sessions'[j] = sessions[j]
  BY <1>3, <1>5, <1>6
<1> QED
  BY <1>1, <1>3, <1>7, <1>8, <1>9, RestKeeps

\* A registration begins with a new key, of a ceremony that no other key is of.
LEMMA BeginRegistrationIInv ==
    ASSUME IInv, NEW f \in FactorIDs, NEW i \in Identities, NEW k \in Ceremonies,
           BeginRegistration(f, i, k)
    PROVE  IInv'
<1>1. /\ Begin(k, i, "registration") /\ factors[f] = NoFactor
      /\ UNCHANGED <<devices, sessions, expired, pc, req, updated, arrived,
                     taken, overlapped, answers>>
  BY DEF BeginRegistration, handlerVars, history
<1>2. Shapes /\ "registration" \in Kinds
  BY DEF IInv, Kinds
<1>3. /\ k \in Ceremonies /\ k \notin DOMAIN ceremonies /\ k # 0
      /\ ceremonies' \in Seq([Identity : Identities, Kind : Kinds])
      /\ Len(ceremonies') <= MaxCeremonies
      /\ DOMAIN ceremonies' = DOMAIN ceremonies \cup {k}
      /\ 0..Len(ceremonies) \subseteq 0..Len(ceremonies')
      /\ \A m \in DOMAIN ceremonies : ceremonies'[m] = ceremonies[m]
      /\ ceremonies'[k] = [Identity |-> i, Kind |-> "registration"]
  BY <1>1, <1>2, BeginEffect
<1>4. PICK x : x = [IdentityID |-> i, Method |-> "webauthn", Status |-> "pending_activation",
                    Secret |-> NoSecret, Credentials |-> Session(k)]
  OBVIOUS
<1>5. Session(k) \in [Session : Ceremonies]
  BY CredentialShapes
<1>6. /\ x \in Keys /\ x.Credentials = Session(k) /\ x.IdentityID = i
      /\ x.Status # "active"
  BY SMTT(30), <1>4, <1>5 DEF Keys, FactorStatuses
<1>7. factors' = [factors EXCEPT ![f] = x]
  BY <1>4 DEF BeginRegistration
<1>8. factors'[f] = x /\ \A g \in FactorIDs : g # f => factors'[g] = factors[g]
  BY <1>2, <1>7 DEF Shapes
<1>9. Shapes'
  BY <1>1, <1>2, <1>3, <1>6, <1>7 DEF Shapes
<1>10. Parked'
  <2>1. \A j \in Identities : sessions[j] # 0 => sessions[j] \in DOMAIN ceremonies
    BY <1>2, SessionNumbers
  <2> QED
    BY <1>1, <1>3, <2>1 DEF IInv, Parked
<1>11. \A g \in FactorIDs : \A m : g # f => (Of(g, m)' <=> Of(g, m)) /\ (Stored(g)' <=> Stored(g))
  BY <1>8 DEF Of, Stored
<1>12. \A g \in FactorIDs : Outlives(g)
  BY <1>1, <1>8, <1>11, FactorShapes DEF Outlives
<1>13. Grows
  <2>1. Accepted \subseteq Accepted'
    BY <1>1, AcceptedGrows
  <2> QED
    BY <1>1, <1>3, <1>12, <2>1 DEF Grows
<1>14. Of(f, k)' /\ \A m \in Ceremonies : Of(f, m)' => m = k
  <2>1. Of(f, k)'
    BY <1>6, <1>8 DEF Of
  <2>2. \A m \in Ceremonies : Session(k) = Session(m) => m = k
    BY CredentialShapes
  <2>3. Session(k) \notin Credentials
    BY <1>5, CredentialShapes
  <2> QED
    BY <1>6, <1>8, <2>1, <2>2, <2>3 DEF Of
<1>15. \A g \in FactorIDs : ~Of(g, k)
  <2> SUFFICES ASSUME NEW g \in FactorIDs, Of(g, k) PROVE FALSE
    OBVIOUS
  <2>1. factors[g] \in Keys
    BY DEF Of
  <2>2. PICK m \in DOMAIN ceremonies : Of(g, m)
    BY <2>1 DEF IInv, FactorOK
  <2>3. m \in Ceremonies
    BY <1>2, CeremonyNumbers
  <2> QED
    BY <1>3, <2>1, <2>2, <2>3, KeyOf
<1>16. OneKeyEach'
  BY <1>11, <1>14, <1>15 DEF IInv, OneKeyEach
<1>17. FactorOK(f)'
  <2>1. x \notin Totps
    BY <1>6, FactorShapes
  <2>2. ~Stored(f)'
    <3>1. Session(k) \notin Credentials
      BY <1>5, CredentialShapes
    <3> QED
      BY <1>6, <1>8, <3>1 DEF Stored
  <2> QED
    BY <1>3, <1>6, <1>8, <1>14, <2>1, <2>2 DEF FactorOK
<1>18. \A g \in Handlers : Unmoved(g)
  <2>1. \A g \in FactorIDs : factors[g] \in Keys => factors'[g].Credentials = factors[g].Credentials
    BY <1>1, <1>8, FactorShapes
  <2> QED
    BY <1>1, <2>1 DEF Unmoved
<1> QED
  BY <1>1, <1>8, <1>9, <1>10, <1>13, <1>16, <1>17, <1>18, StepKeeps

-----------------------------------------------------------------------------
(* Steps that write a factor or take a session.                             *)

\* Going active takes nothing from a factor that others rely on.
LEMMA StatusOutlives ==
    ASSUME IInv, NEW f \in FactorIDs, factors[f] # NoFactor, SetField(f, "Status", "active")
    PROVE  /\ \A g \in FactorIDs : Outlives(g)
           /\ OneKeyEach'
           /\ \A g \in FactorIDs : \A k : (Of(g, k)' <=> Of(g, k)) /\ (Stored(g)' <=> Stored(g))
           /\ \A g \in FactorIDs : factors[g] \in Keys =>
                 factors'[g].Credentials = factors[g].Credentials
<1>0. factors[f] \in Totps \cup Keys /\ Shapes
  BY DEF IInv, Shapes
<1>1. /\ \A g \in FactorIDs : g # f => factors'[g] = factors[g]
      /\ factors'[f].Status = "active" /\ factors'[f].IdentityID = factors[f].IdentityID
      /\ factors[f] \in Totps =>
            factors'[f] \in Totps /\ factors'[f].Secret = factors[f].Secret
      /\ factors[f] \in Keys =>
            factors'[f] \in Keys /\ factors'[f].Credentials = factors[f].Credentials
  BY <1>0, StatusEffect
<1>2. factors[f] \in Keys <=> factors'[f] \in Keys
  BY <1>0, <1>1, FactorShapes
<1>3. \A g \in FactorIDs : /\ factors[g] \in Keys <=> factors'[g] \in Keys
                           /\ factors[g] \in Keys =>
                                 factors'[g].Credentials = factors[g].Credentials
  BY <1>1, <1>2
<1>4. \A g \in FactorIDs : \A k : (Of(g, k)' <=> Of(g, k)) /\ (Stored(g)' <=> Stored(g))
  BY <1>3 DEF Of, Stored
<1>5. OneKeyEach'
  BY <1>4 DEF IInv, OneKeyEach
<1>6. \A g \in FactorIDs : g # f => Outlives(g)
  BY <1>1, <1>4 DEF Outlives
<1>7. Outlives(f)
  <2>1. factors'[f] # NoFactor
    BY <1>0, <1>1, FactorShapes
  <2> QED
    BY <1>1, <1>4, <2>1 DEF Outlives
<1> QED
  BY <1>3, <1>4, <1>5, <1>6, <1>7

\* Neither does storing a credential of its own ceremony.
LEMMA CredentialsOutlive ==
    ASSUME IInv, NEW f \in FactorIDs, NEW c \in Credentials, Of(f, c.ID),
           SetField(f, "Credentials", c)
    PROVE  /\ \A g \in FactorIDs : Outlives(g)
           /\ OneKeyEach'
           /\ \A k \in Ceremonies : Of(f, k)' <=> Of(f, k)
           /\ Stored(f)'
<1>1. /\ \A g \in FactorIDs : g # f => factors'[g] = factors[g]
      /\ factors[f] \in Keys /\ factors'[f] \in Keys /\ factors'[f].Credentials = c
      /\ factors'[f].IdentityID = factors[f].IdentityID
      /\ factors'[f].Status = factors[f].Status
  BY CredentialsEffect DEF IInv
<1>2. c.ID \in Ceremonies /\ \A k \in Ceremonies : c # Session(k)
  BY CredentialShapes
<1>3. Stored(f)' /\ \A k \in Ceremonies : Of(f, k)' <=> k = c.ID
  BY <1>1, <1>2 DEF Of, Stored
<1>4. \A k \in Ceremonies : Of(f, k) <=> k = c.ID
  BY <1>1, <1>2, KeyOf
<1>5. \A k \in Ceremonies : Of(f, k)' <=> Of(f, k)
  BY <1>3, <1>4
<1>6. \A g \in FactorIDs : g # f => \A k : (Of(g, k)' <=> Of(g, k)) /\ (Stored(g)' <=> Stored(g))
  BY <1>1 DEF Of, Stored
<1>7. OneKeyEach'
  BY <1>5, <1>6 DEF IInv, OneKeyEach
<1>8. \A g \in FactorIDs : g # f => Outlives(g)
  BY <1>1, <1>6 DEF Outlives
<1>9. Outlives(f)
  BY <1>1, <1>3, <1>5, FactorShapes DEF Outlives
<1> QED
  BY <1>3, <1>5, <1>7, <1>8, <1>9

\* The write of Activate makes active a factor that its identity has shown.
LEMMA WriteActivatedIInv ==
    ASSUME IInv, NEW h \in Handlers, WriteActivated(h)
    PROVE  IInv'
<1>0. /\ Shapes /\ HandlerOK(h) /\ pc[h] = "activated"
      /\ UNCHANGED <<devices, sessions, ceremonies, expired, arrived, taken, overlapped>>
  BY DEF IInv, WriteActivated
<1>1. PICK q : q = req[h]
  OBVIOUS
<1>2. PICK f : f = q.request.Factor
  OBVIOUS
<1>3. /\ q \in Serving(Activations) /\ ~q.stale /\ factors[f] # NoFactor
      /\ factors[f].IdentityID = q.request.Identity
  BY <1>0, <1>1, <1>2 DEF HandlerOK
<1>4. f \in FactorIDs /\ q.request.kind = "activate"
  BY SMTT(30), <1>2, <1>3 DEF Serving, Activations
<1>5. SetField(f, "Status", "active") /\ Return(h) /\ answers' = answers \cup {q}
  BY <1>1, <1>2 DEF WriteActivated, Succeed
<1>6. factors[f] \in Totps \cup Keys /\ FactorOK(f)
  BY <1>3, <1>4 DEF IInv, Shapes
<1>7. /\ factors' \in [FactorIDs -> {NoFactor} \cup Totps \cup Keys]
      /\ \A g \in FactorIDs : g # f => factors'[g] = factors[g]
      /\ factors'[f].IdentityID = factors[f].IdentityID
      /\ factors[f] \in Totps =>
            factors'[f] \in Totps /\ factors'[f].Secret = factors[f].Secret
      /\ factors[f] \in Keys => factors'[f] \in Keys
  BY <1>0, <1>3, <1>4, <1>5, StatusEffect
<1>8. /\ \A g \in FactorIDs : Outlives(g)
      /\ OneKeyEach'
      /\ \A g \in FactorIDs : \A k : (Of(g, k)' <=> Of(g, k)) /\ (Stored(g)' <=> Stored(g))
      /\ \A g \in FactorIDs : factors[g] \in Keys =>
            factors'[g].Credentials = factors[g].Credentials
  BY <1>3, <1>4, <1>5, StatusOutlives
<1>9. Grows
  <2>1. /\ answers \subseteq answers' /\ pc[h] # "status"
        /\ \A g \in Handlers : g # h => pc'[g] = pc[g] /\ req'[g] = req[g]
    BY <1>0, <1>5, ReturnEffect
  <2>2. Accepted \subseteq Accepted'
    BY <2>1, AcceptedGrows
  <2> QED
    BY <1>0, <1>8, <2>1, <2>2 DEF Grows
<1>10. FactorOK(f)'
  <2>1. PICK i : i = factors[f].IdentityID
    OBVIOUS
  <2>2. ShowedTOTP(i, f)' /\ factors'[f].IdentityID = i
    BY <1>2, <1>3, <1>4, <1>5, <1>7, <2>1 DEF ShowedTOTP
  <2>3. CASE factors[f] \in Totps
    <3>1. factors[f].Secret = f
      BY <1>6, <2>3 DEF FactorOK
    <3>2. factors'[f] \notin Keys
      BY <1>7, <2>3, FactorShapes
    <3> QED
      BY <1>7, <2>2, <2>3, <3>1, <3>2 DEF FactorOK
  <2>4. CASE factors[f] \in Keys
    <3>1. PICK k \in DOMAIN ceremonies :
             /\ Of(f, k) /\ ceremonies[k] = [Identity |-> i, Kind |-> "registration"]
             /\ Stored(f) => ShowedKey(i, k)
      BY <1>6, <2>1, <2>4 DEF FactorOK
    <3>2. Of(f, k)' /\ (Stored(f)' => ShowedKey(i, k)')
      BY <1>4, <1>8, <1>9, <3>1 DEF Grows, ShowedKey
    <3>3. factors'[f] \notin Totps
      BY <1>7, <2>4, FactorShapes
    <3> QED
      BY <1>0, <2>2, <3>1, <3>2, <3>3 DEF FactorOK
  <2> QED
    BY <1>6, <2>3, <2>4
<1>11. /\ pc' \in [Handlers -> Labels] /\ req' \in [Handlers -> Requests]
       /\ updated' \in [Handlers -> Credentials \cup {NoCredential}]
       /\ \A g \in Handlers : g # h =>
             pc'[g] = pc[g] /\ req'[g] = req[g] /\ updated'[g] = updated[g]
       /\ HandlerOK(h)'
  BY <1>0, <1>5, ReturnEffect
<1>12. Shapes' /\ Parked'
  BY <1>0, <1>7, <1>11 DEF Shapes, IInv, Parked
<1>13. \A g \in Handlers : Unmoved(g) \/ HandlerOK(g)'
  BY <1>0, <1>8, <1>11 DEF Unmoved
<1>14. \A v \in answers' : v \in answers \/ (~v.stale /\ EnrolledFor(v)')
  BY <1>3, <1>4, <1>5 DEF EnrolledFor
<1>15. \A g \in FactorIDs : factors'[g] = factors[g] \/ FactorOK(g)'
  BY <1>7, <1>10
<1> QED
  BY <1>8, <1>9, <1>12, <1>13, <1>14, <1>15, StepKeeps

\* The last write of FinishRegistration makes active a key with its credential stored.
LEMMA RegisterStatusIInv ==
    ASSUME IInv, NEW h \in Handlers, RegisterStatus(h)
    PROVE  IInv'
<1>0. /\ Shapes /\ HandlerOK(h) /\ pc[h] = "status"
      /\ UNCHANGED <<devices, sessions, ceremonies, expired, arrived, taken, overlapped>>
  BY DEF IInv, RegisterStatus
<1>1. PICK q : q = req[h]
  OBVIOUS
<1>2. PICK f : f = q.request.Factor
  OBVIOUS
<1>3. /\ q \in Serving(Registrations) /\ ~q.stale /\ factors[f] # NoFactor
      /\ factors[f] \in Keys /\ factors[f].IdentityID = q.request.Identity
      /\ Of(f, q.request.Ceremony) /\ Stored(f)
  BY <1>0, <1>1, <1>2 DEF HandlerOK
<1>4. f \in FactorIDs /\ q.request.kind = "register" /\ q.request.Ceremony \in Ceremonies
  BY SMTT(30), <1>2, <1>3 DEF Serving, Registrations
<1>5. SetField(f, "Status", "active") /\ Return(h) /\ answers' = answers \cup {q}
  BY <1>1, <1>2 DEF RegisterStatus, Succeed
<1>6. /\ factors' \in [FactorIDs -> {NoFactor} \cup Totps \cup Keys]
      /\ \A g \in FactorIDs : g # f => factors'[g] = factors[g]
      /\ factors'[f].IdentityID = factors[f].IdentityID
      /\ factors'[f] \in Keys
  BY <1>0, <1>3, <1>4, <1>5, StatusEffect
<1>7. /\ \A g \in FactorIDs : Outlives(g)
      /\ OneKeyEach'
      /\ \A g \in FactorIDs : \A k : (Of(g, k)' <=> Of(g, k)) /\ (Stored(g)' <=> Stored(g))
      /\ \A g \in FactorIDs : factors[g] \in Keys =>
            factors'[g].Credentials = factors[g].Credentials
  BY <1>3, <1>4, <1>5, StatusOutlives
<1>8. Grows
  <2>1. /\ answers \subseteq answers' /\ req[h] \in answers'
        /\ \A g \in Handlers : g # h => pc'[g] = pc[g] /\ req'[g] = req[g]
    BY <1>0, <1>1, <1>5, ReturnEffect
  <2>2. Accepted \subseteq Accepted'
    BY <2>1, AcceptedGrows
  <2> QED
    BY <1>0, <1>7, <2>1, <2>2 DEF Grows
<1>9. FactorOK(f)'
  <2>1. PICK i : i = factors[f].IdentityID
    OBVIOUS
  <2>2. PICK k \in DOMAIN ceremonies :
           Of(f, k) /\ ceremonies[k] = [Identity |-> i, Kind |-> "registration"]
    BY <1>3, <1>4, <2>1 DEF IInv, FactorOK
  <2>3. k = q.request.Ceremony
    <3>1. k \in Ceremonies
      BY <1>0, CeremonyNumbers
    <3> QED
      BY <1>3, <1>4, <2>2, <3>1, KeyOf
  <2>4. ShowedKey(i, k)'
    BY <1>3, <1>4, <1>5, <2>1, <2>3 DEF ShowedKey, Accepted
  <2>5. factors'[f] \notin Totps /\ Stored(f)' /\ Of(f, k)'
    BY <1>3, <1>4, <1>6, <1>7, <2>2, FactorShapes
  <2>6. factors'[f].IdentityID = i /\ ceremonies'[k] = ceremonies[k] /\ k \in DOMAIN ceremonies'
    BY <1>0, <1>6, <2>1
  <2> QED
    BY <2>2, <2>4, <2>5, <2>6 DEF FactorOK
<1>10. /\ pc' \in [Handlers -> Labels] /\ req' \in [Handlers -> Requests]
       /\ updated' \in [Handlers -> Credentials \cup {NoCredential}]
       /\ \A g \in Handlers : g # h =>
             pc'[g] = pc[g] /\ req'[g] = req[g] /\ updated'[g] = updated[g]
       /\ HandlerOK(h)'
  BY <1>0, <1>5, ReturnEffect
<1>11. Shapes' /\ Parked'
  BY <1>0, <1>6, <1>10 DEF Shapes, IInv, Parked
<1>12. \A g \in Handlers : Unmoved(g) \/ HandlerOK(g)'
  BY <1>0, <1>7, <1>10 DEF Unmoved
<1>13. \A v \in answers' : v \in answers \/ (~v.stale /\ EnrolledFor(v)')
  BY <1>3, <1>4, <1>5 DEF EnrolledFor
<1>14. \A g \in FactorIDs : factors'[g] = factors[g] \/ FactorOK(g)'
  BY <1>6, <1>9
<1> QED
  BY <1>7, <1>8, <1>11, <1>12, <1>13, <1>14, StepKeeps

\* Storing a credential keeps its key right and marks the handlers that are now behind.
LEMMA WriteCredentialsKeeps ==
    ASSUME IInv, NEW h \in Handlers, NEW f \in FactorIDs, NEW c \in Credentials, Of(f, c.ID),
           Stored(f) \/ ShowedKey(factors[f].IdentityID, c.ID)', pc[h] # "status",
           WriteCredentials(h, f, c), answers \subseteq answers',
           pc' \in [Handlers -> Labels], req' \in [Handlers -> Requests],
           updated' \in [Handlers -> Credentials \cup {NoCredential}],
           \A g \in Handlers : g # h =>
              pc'[g] = pc[g] /\ req'[g] = req[g] /\ updated'[g] = updated[g],
           HandlerOK(h)',
           \A v \in answers' : v \in answers \/ (~v.stale /\ EnrolledFor(v)')
    PROVE  IInv'
<1>1. /\ SetField(f, "Credentials", c)
      /\ overlapped' = overlapped \cup
             {g \in Handlers \ {h} : pc[g] \in {"credentials", "persist"}}
      /\ UNCHANGED <<devices, sessions, ceremonies, expired, arrived, taken>>
  BY DEF WriteCredentials
<1>2. /\ factors' \in [FactorIDs -> {NoFactor} \cup Totps \cup Keys]
      /\ \A g \in FactorIDs : g # f => factors'[g] = factors[g]
      /\ factors[f] \in Keys /\ factors'[f] \in Keys
      /\ factors'[f].IdentityID = factors[f].IdentityID
      /\ factors'[f].Status = factors[f].Status
  BY <1>1, CredentialsEffect DEF IInv
<1>3. /\ \A g \in FactorIDs : Outlives(g)
      /\ OneKeyEach'
      /\ \A k \in Ceremonies : Of(f, k)' <=> Of(f, k)
      /\ Stored(f)'
  BY <1>1, CredentialsOutlive
<1>4. Shapes' /\ Parked'
  BY <1>1, <1>2 DEF IInv, Shapes, Parked
<1>5. Grows
  <2>1. Accepted \subseteq Accepted'
    BY AcceptedGrows
  <2> QED
    BY <1>1, <1>3, <2>1 DEF Grows
<1>6. FactorOK(f)'
  <2>1. PICK i : i = factors[f].IdentityID
    OBVIOUS
  <2>2. PICK k \in DOMAIN ceremonies :
           /\ Of(f, k) /\ ceremonies[k] = [Identity |-> i, Kind |-> "registration"]
           /\ Stored(f) => ShowedKey(i, k)
    BY <1>2, <2>1 DEF IInv, FactorOK
  <2>3. k \in Ceremonies /\ c.ID \in Ceremonies
    BY CeremonyNumbers, CredentialShapes DEF IInv
  <2>4. k = c.ID
    BY <1>2, <2>2, <2>3, KeyOf
  <2>5. factors'[f] \notin Totps /\ factors'[f].IdentityID = i
    BY <1>2, <2>1, FactorShapes
  <2>6. ShowedKey(i, k)'
    <3>1. CASE Stored(f)
      BY <1>5, <2>2, <3>1 DEF ShowedKey, Grows
    <3>2. CASE ShowedKey(factors[f].IdentityID, c.ID)'
      BY <2>4, <2>5, <3>2 DEF ShowedKey
    <3> QED
      BY <3>1, <3>2
  <2> QED
    BY <1>1, <1>3, <2>2, <2>3, <2>5, <2>6 DEF FactorOK
<1>7. \A g \in Handlers : Unmoved(g) \/ HandlerOK(g)'
  BY <1>1 DEF Unmoved
<1>8. \A g \in FactorIDs : factors'[g] = factors[g] \/ FactorOK(g)'
  BY <1>2, <1>6
<1> QED
  BY <1>3, <1>4, <1>5, <1>7, <1>8, StepKeeps

\* FinishRegistration stores the credential that its ceremony made.
LEMMA RegisterCredentialsIInv ==
    ASSUME IInv, NEW h \in Handlers, RegisterCredentials(h)
    PROVE  IInv'
<1>0. Shapes /\ HandlerOK(h) /\ pc[h] = "credentials" /\ Goto(h, "status") /\ answers' = answers
  BY DEF IInv, RegisterCredentials
<1>1. PICK r : r = req[h].request
  OBVIOUS
<1>2. PICK f : f = r.Factor
  OBVIOUS
<1>3. PICK c : c = updated[h]
  OBVIOUS
<1>4. /\ req[h] \in Serving(Registrations) /\ ~req[h].stale /\ factors[f] # NoFactor
      /\ factors[f] \in Keys /\ factors[f].IdentityID = r.Identity
      /\ Of(f, r.Ceremony) /\ c = Credential(r.Ceremony)
  BY <1>0, <1>1, <1>2, <1>3 DEF HandlerOK
<1>5. f \in FactorIDs /\ r.Ceremony \in Ceremonies
  BY SMTT(30), <1>1, <1>2, <1>4 DEF Serving, Registrations
<1>6. c \in Credentials /\ c.ID = r.Ceremony
  BY <1>4, <1>5, CredentialShapes
<1>7. WriteCredentials(h, f, c)
  BY <1>1, <1>2, <1>3 DEF RegisterCredentials
<1>8. SetField(f, "Credentials", c)
  BY <1>7 DEF WriteCredentials
<1>9. /\ factors'[f] \in Keys /\ factors'[f].IdentityID = factors[f].IdentityID
      /\ Of(f, r.Ceremony)' /\ Stored(f)'
  <2>1. factors'[f] \in Keys /\ factors'[f].IdentityID = factors[f].IdentityID
    BY <1>0, <1>4, <1>5, <1>6, <1>8, CredentialsEffect
  <2>2. Of(f, r.Ceremony)' /\ Stored(f)'
    BY <1>4, <1>5, <1>6, <1>8, CredentialsOutlive
  <2> QED
    BY <2>1, <2>2
<1>10. /\ pc' \in [Handlers -> Labels] /\ pc'[h] = "status" /\ req' = req /\ updated' = updated
       /\ \A g \in Handlers : g # h => pc'[g] = pc[g]
  <2>1. "status" \in Labels
    BY DEF Labels
  <2> QED
    BY <1>0, <2>1, GotoEffect
<1>11. /\ req' \in [Handlers -> Requests]
       /\ updated' \in [Handlers -> Credentials \cup {NoCredential}]
  BY <1>0, <1>10 DEF Shapes
<1>12. HandlerOK(h)'
  <2>1. factors'[f] # NoFactor
    BY <1>9, FactorShapes
  <2> QED
    BY <1>1, <1>2, <1>3, <1>4, <1>9, <1>10, <2>1 DEF HandlerOK
<1>13. ShowedKey(factors[f].IdentityID, c.ID)' /\ pc[h] # "status"
  <2>1. req[h].request.kind = "register"
    BY SMTT(30), <1>4 DEF Serving, Registrations
  <2>2. req[h] \in Accepted'
    BY <1>10 DEF Accepted
  <2>3. factors'[f].IdentityID = r.Identity
    BY <1>4, <1>9
  <2> QED
    BY <1>0, <1>1, <1>6, <2>1, <2>2, <2>3 DEF ShowedKey
<1> QED
  BY <1>0, <1>4, <1>5, <1>6, <1>7, <1>10, <1>11, <1>12, <1>13, WriteCredentialsKeeps

\* persistCounter stores what it holds for the very credential that was verified.
LEMMA PersistCounterIInv ==
    ASSUME IInv, NEW h \in Handlers, persistCounter(h)
    PROVE  IInv'
<1>0. Shapes /\ HandlerOK(h) /\ pc[h] = "persist" /\ Succeed(h)
  BY DEF IInv, persistCounter
<1>1. PICK q : q = req[h]
  OBVIOUS
<1>2. PICK c : c = updated[h]
  OBVIOUS
<1>3. /\ q \in Serving(Assertions) /\ ~q.stale /\ c \in Credentials
      /\ c.ID = q.request.Credential /\ ShowedKey(q.request.Identity, q.request.Credential)
  BY <1>0, <1>1, <1>2 DEF HandlerOK
<1>4. PICK f \in Active(q.request.Identity, "webauthn") :
           Decoded(factors[f].Credentials).ID = c.ID /\ WriteCredentials(h, f, c)
  BY <1>1, <1>2 DEF persistCounter
<1>5. f \in FactorIDs /\ Of(f, c.ID) /\ Stored(f) /\ pc[h] # "status"
  <2>1. c.ID \in Ceremonies
    BY <1>3, CredentialShapes
  <2>2. /\ f \in FactorIDs /\ Stored(f) /\ Of(f, factors[f].Credentials.ID)
        /\ Decoded(factors[f].Credentials) = factors[f].Credentials
    BY <1>4, <2>1, ActiveKey
  <2> QED
    BY <1>0, <1>4, <2>2
<1>6. answers' = answers \cup {q} /\ Return(h)
  BY <1>0, <1>1 DEF Succeed
<1>7. q.request.kind = "assert"
  BY SMTT(30), <1>3 DEF Serving, Assertions
<1>8. ShowedKey(q.request.Identity, q.request.Credential)'
  <2>1. /\ answers \subseteq answers'
        /\ \A g \in Handlers : g # h => pc'[g] = pc[g] /\ req'[g] = req[g]
    BY <1>0, <1>6, ReturnEffect
  <2>2. Accepted \subseteq Accepted'
    BY <1>5, <2>1, AcceptedGrows
  <2> QED
    BY <1>3, <2>2 DEF ShowedKey
<1>9. \A v \in answers' : v \in answers \/ (~v.stale /\ EnrolledFor(v)')
  BY <1>3, <1>6, <1>7, <1>8 DEF EnrolledFor
<1> QED
  BY <1>0, <1>3, <1>4, <1>5, <1>6, <1>9, ReturnEffect, WriteCredentialsKeeps

\* A session is taken once, and only one that has not expired is used.
LEMMA FinishIdentityVerificationIInv ==
    ASSUME IInv, NEW h \in Handlers, FinishIdentityVerification(h)
    PROVE  IInv'
<1>0. /\ Shapes /\ HandlerOK(h) /\ pc[h] = "take"
      /\ UNCHANGED <<factors, devices, ceremonies, expired, arrived, overlapped, answers>>
  BY DEF IInv, FinishIdentityVerification, TakeSession
<1>1. PICK r : r = req[h].request
  OBVIOUS
<1>2. PICK i : i = r.Identity
  OBVIOUS
<1>3. PICK k : k = sessions[i]
  OBVIOUS
<1>4. /\ req[h] \in Serving(Assertions) /\ r.Ceremony \in DOMAIN ceremonies
      /\ req[h].stale => k # r.Ceremony \/ r.Ceremony \in expired
  BY <1>0, <1>1, <1>2, <1>3 DEF HandlerOK
<1>5. i \in Identities
  BY SMTT(30), <1>1, <1>2, <1>4 DEF Serving, Assertions
<1>6. /\ taken' = IF k = 0 THEN taken ELSE [taken EXCEPT ![k] = @ + 1]
      /\ sessions' = [sessions EXCEPT ![i] = 0]
      /\ \/ Return(h)
         \/ /\ k \notin expired \cup {0}
            /\ req' = [req EXCEPT ![h].request.Session = k]
            /\ pc' = [pc EXCEPT ![h] = "login"]
            /\ UNCHANGED updated
  BY <1>1, <1>2, <1>3 DEF FinishIdentityVerification, TakeSession
<1>7. k # 0 => /\ k \in DOMAIN ceremonies /\ k \in Ceremonies /\ taken[k] = 0
               /\ ceremonies[k].Identity = i
  BY <1>0, <1>3, <1>5, SessionNumbers, CeremonyNumbers DEF IInv, Parked
<1>8. /\ sessions' \in [Identities -> 0..Len(ceremonies)]
      /\ sessions'[i] = 0 /\ \A j \in Identities : j # i => sessions'[j] = sessions[j]
  <2>1. 0 \in 0..Len(ceremonies)
    <3>1. ceremonies \in Seq([Identity : Identities, Kind : Kinds])
      BY <1>0 DEF Shapes
    <3> QED
      BY SMTT(30), <3>1
  <2> QED
    BY <1>0, <1>5, <1>6, <2>1 DEF Shapes
<1>9. /\ taken' \in [Ceremonies -> Nat]
      /\ k # 0 => taken'[k] = 1
      /\ \A m \in Ceremonies : m # k => taken'[m] = taken[m]
  <2>1. taken \in [Ceremonies -> Nat]
    BY <1>0 DEF Shapes
  <2>2. CASE k = 0
    <3>1. taken' = taken /\ 0 \notin Ceremonies
      BY SMTT(30), <1>6, <2>2 DEF Ceremonies
    <3> QED
      BY <2>1, <2>2, <3>1
  <2>3. CASE k # 0
    <3>1. taken' = [taken EXCEPT ![k] = taken[k] + 1] /\ taken[k] = 0 /\ k \in Ceremonies
      BY <1>6, <1>7, <2>3
    <3> QED
      BY SMTT(30), <2>1, <3>1
  <2> QED
    BY <2>2, <2>3
<1>10. Parked'
  <2>1. \A j \in Identities : sessions'[j] # 0 =>
           ceremonies'[sessions'[j]].Identity = j /\ taken'[sessions'[j]] = 0
    <3> SUFFICES ASSUME NEW j \in Identities, sessions'[j] # 0
                 PROVE  ceremonies'[sessions'[j]].Identity = j /\ taken'[sessions'[j]] = 0
      OBVIOUS
    <3>1. j # i /\ sessions'[j] = sessions[j] /\ sessions[j] # 0
      BY <1>8
    <3>2. /\ sessions[j] \in Ceremonies /\ taken[sessions[j]] = 0
          /\ ceremonies[sessions[j]].Identity = j
      BY <1>0, <3>1, SessionNumbers, CeremonyNumbers DEF IInv, Parked
    <3>3. sessions[j] # k
      BY <1>7, <3>1, <3>2
    <3> QED
      BY <1>0, <1>9, <3>1, <3>2, <3>3
  <2>2. ASSUME NEW m \in Ceremonies
        PROVE  taken'[m] <= 1 /\ (m \notin DOMAIN ceremonies' => taken'[m] = 0)
    <3>1. taken[m] <= 1 /\ (m \notin DOMAIN ceremonies => taken[m] = 0)
      BY DEF IInv, Parked
    <3>2. CASE m = k
      <4>1. m # 0
        BY SMTT(30) DEF Ceremonies
      <4>2. taken'[m] = 1 /\ m \in DOMAIN ceremonies'
        BY <1>0, <1>7, <1>9, <3>2, <4>1
      <4>3. 1 <= 1
        BY SMTT(30)
      <4> QED
        BY <4>2, <4>3
    <3>3. CASE m # k
      BY <1>0, <1>9, <3>1, <3>3
    <3> QED
      BY <3>2, <3>3
  <2> QED
    BY <2>1, <2>2 DEF Parked
<1>11. (\A f \in FactorIDs : Outlives(f)) /\ OneKeyEach'
  BY <1>0, SameFactors DEF IInv
<1>12. /\ pc' \in [Handlers -> Labels] /\ req' \in [Handlers -> Requests]
       /\ updated' \in [Handlers -> Credentials \cup {NoCredential}]
       /\ \A g \in Handlers : g # h =>
             pc'[g] = pc[g] /\ req'[g] = req[g] /\ updated'[g] = updated[g]
       /\ HandlerOK(h)'
  <2>1. CASE Return(h)
    BY <1>0, <2>1, ReturnEffect
  <2>2. CASE /\ k \notin expired \cup {0}
             /\ req' = [req EXCEPT ![h].request.Session = k]
             /\ pc' = [pc EXCEPT ![h] = "login"]
             /\ UNCHANGED updated
    <3>1. PICK q : q = req[h]
      OBVIOUS
    <3>2. PICK s : s = [r EXCEPT !.Session = k]
      OBVIOUS
    <3>3. PICK p : p = [q EXCEPT !.request = s]
      OBVIOUS
    <3>4. req' = [req EXCEPT ![h] = p]
      BY <1>1, <2>2, <3>1, <3>2, <3>3
    <3>5. k \in 0..MaxCeremonies
      <4>1. k \in Ceremonies
        BY <1>7, <2>2
      <4> QED
        BY SMTT(30), <4>1 DEF Ceremonies
    <3>6. r \in Assertions /\ q.stale \in BOOLEAN
      BY SMTT(30), <1>1, <1>4, <3>1 DEF Serving
    <3>7. s \in Assertions /\ s.Session = k /\ s.Ceremony = r.Ceremony
      BY SMTT(30), <3>2, <3>5, <3>6 DEF Assertions
    <3>8. p \in Serving(Assertions) /\ p.request = s /\ p.stale = q.stale
      BY SMTT(30), <1>4, <3>1, <3>3, <3>7 DEF Serving
    <3>9. "login" \in Labels /\ p \in Requests
      BY <3>8 DEF Labels, Requests
    <3>10. pc'[h] = "login" /\ req'[h] = p
      BY <1>0, <2>2, <3>4 DEF Shapes
    <3>11. q.stale => s.Session # s.Ceremony
      BY <1>4, <2>2, <3>1, <3>7
    <3>12. HandlerOK(h)'
      BY <3>8, <3>10, <3>11 DEF HandlerOK
    <3> QED
      BY <1>0, <2>2, <3>4, <3>9, <3>12 DEF Shapes
  <2> QED
    BY <1>6, <2>1, <2>2
<1>13. Grows
  <2>1. 0 \notin DOMAIN ceremonies
    BY <1>0, SessionNumbers
  <2>2. Accepted \subseteq Accepted'
    BY <1>0, <1>12, AcceptedGrows
  <2> QED
    BY <1>0, <1>8, <1>11, <2>1, <2>2 DEF Grows
<1>14. Shapes'
  BY <1>0, <1>8, <1>9, <1>12 DEF Shapes
<1>15. \A g \in Handlers : Unmoved(g) \/ HandlerOK(g)'
  BY <1>0, <1>12 DEF Unmoved
<1> QED
  BY <1>0, <1>10, <1>11, <1>13, <1>14, <1>15, StepKeeps

-----------------------------------------------------------------------------
(* The theorems.                                                            *)

\* The services start with no factors, no sessions and no requests.
LEMMA InitIInv == Init => IInv
<1> SUFFICES ASSUME Init PROVE IInv
  OBVIOUS
<1>0. ceremonies = <<>> /\ {MaxCount, MaxRequests, MaxCeremonies} \subseteq Nat
  BY BoundsAssumption DEF Init
<1>1. /\ ceremonies \in Seq([Identity : Identities, Kind : Kinds])
      /\ Len(ceremonies) <= MaxCeremonies /\ 0 \in 0..Len(ceremonies) /\ 0 \in 0..MaxRequests
      /\ 0 \in Nat /\ 0 <= 1
  <2>1. MaxRequests \in Nat /\ MaxCeremonies \in Nat
    BY <1>0
  <2> QED
    BY SMTT(30), <1>0, <2>1
<1>2. Shapes
  <2>1. "idle" \in Labels /\ NoRequest \in Requests
    BY DEF Labels, Requests
  <2> QED
    BY <1>1, <2>1 DEF Init, Shapes
<1>3. Parked
  BY <1>1 DEF Init, Parked
<1>4. \A f \in FactorIDs : factors[f] \notin Keys /\ factors[f] \notin Totps
  BY FactorShapes DEF Init
<1>5. OneKeyEach /\ \A f \in FactorIDs : FactorOK(f)
  BY <1>4 DEF OneKeyEach, Of, FactorOK
<1>6. \A h \in Handlers : HandlerOK(h)
  <2>1. \A h \in Handlers : pc[h] = "idle"
    BY DEF Init
  <2> QED
    BY <2>1 DEF HandlerOK
<1>7. EnrolledFirst /\ \A v \in answers : ~v.stale
  BY DEF Init, EnrolledFirst
<1> QED
  BY <1>2, <1>3, <1>5, <1>6, <1>7 DEF IInv

\* Every step of every handler keeps the invariant.
LEMMA NextIInv == IInv /\ [Next]_vars => IInv'
<1> SUFFICES ASSUME IInv, [Next]_vars PROVE IInv'
  OBVIOUS
<1>1. CASE AtOnce
  <2>1. ASSUME NEW i \in Identities, NEW k \in Ceremonies,
               BeginVerification(i, k) \/ BeginIdentityVerification(i, k)
        PROVE  IInv'
    BY <2>1, BeginVerificationIInv, BeginIdentityVerificationIInv
  <2> QED
    BY <1>1, <2>1, EnrollIInv, HandleVerifyTOTPIInv, DeviceIInv, BeginRegistrationIInv, ExpireIInv
    DEF AtOnce
<1>2. ASSUME NEW h \in Handlers, Request(h)
      PROVE  IInv'
  BY <1>2, ArriveActivateIInv, ArriveApprovalIInv, ArriveRegistrationIInv, ArriveAssertionIInv
  DEF Request
<1>3. ASSUME NEW h \in Handlers, Step(h)
      PROVE  IInv'
  BY <1>3, ActivateIInv, WriteActivatedIInv, VerifyApprovalIInv, FinishRegistrationIInv,
     DecodeSessionIInv, RegisterCredentialsIInv, RegisterStatusIInv,
     FinishIdentityVerificationIInv, FinishVerificationIInv, PersistCounterIInv DEF Step
<1>4. CASE UNCHANGED vars
  <2>1. UNCHANGED <<factors, devices, sessions, ceremonies, expired, pc, req, updated, arrived,
                    taken, overlapped, answers>>
    BY <1>4 DEF vars, handlerVars, history
  <2>2. Shapes' /\ Parked'
    BY <2>1 DEF IInv, Shapes, Parked
  <2> QED
    BY <2>1, <2>2, RestKeeps
<1> QED
  BY <1>1, <1>2, <1>3, <1>4 DEF Next, Quiet

\* The invariant holds in every state.
LEMMA Inductive == Spec => []IInv
  BY InitIInv, NextIInv, PTL DEF Spec

\* A WebAuthn factor holds the session, and then a credential, of a registration that was
\* begun for its own identity; it is active with the session only where an Activate
\* accepted a code for it (webauthn.go lines 124-205, totp.go lines 54-73).
THEOREM FactorsKeepShape == Spec => []TypeOK
<1>1. ASSUME IInv, NEW f \in FactorIDs, factors[f] \in Keys, NEW c, c = factors[f].Credentials,
             NEW i, i = factors[f].IdentityID
      PROVE  /\ c \in Credentials \/ (IsSession(c) /\ (factors[f].Status = "active" => ShowedTOTP(i, f)))
             /\ ceremonies[IF IsSession(c) THEN c.Session ELSE c.ID] =
                    [Identity |-> i, Kind |-> "registration"]
  <2>1. FactorOK(f) /\ c \in [Session : Ceremonies] \cup Credentials
    BY <1>1, FactorShapes DEF IInv
  <2>2. (Stored(f) <=> ~IsSession(c)) /\ (Stored(f) <=> c \in Credentials)
    BY <1>1, KeyOf DEF Stored
  <2>3. c \in Credentials \/ (IsSession(c) /\ (factors[f].Status = "active" => ShowedTOTP(i, f)))
    BY <1>1, <2>1, <2>2 DEF FactorOK
  <2>4. PICK k \in DOMAIN ceremonies :
           Of(f, k) /\ ceremonies[k] = [Identity |-> i, Kind |-> "registration"]
    BY <1>1, <2>1 DEF FactorOK
  <2>5. k \in Ceremonies
    BY <1>1, CeremonyNumbers DEF IInv
  <2>6. CASE IsSession(c)
    <3>1. c = Session(k)
      BY <1>1, <2>2, <2>4, <2>6 DEF Of
    <3>2. c.Session = k
      BY <2>5, <3>1, CredentialShapes
    <3> QED
      BY <2>3, <2>4, <2>6, <3>2
  <2>7. CASE ~IsSession(c)
    <3>1. c.ID = k
      BY <1>1, <2>4, <2>5, <2>7, CredentialShapes DEF Of
    <3> QED
      BY <2>3, <2>4, <2>7, <3>1
  <2> QED
    BY <2>6, <2>7
<1>2. ASSUME IInv, NEW f \in FactorIDs, factors[f] \in Totps \cup Keys
      PROVE  /\ factors[f].Status \in {"pending_activation", "active"}
             /\ factors[f].IdentityID \in Identities
             /\ factors[f] \in Totps => factors[f].Method = "totp"
             /\ factors[f] \in Keys => factors[f].Method = "webauthn"
  BY <1>2, FactorShapes DEF FactorStatuses
<1>3. ASSUME IInv, NEW f \in FactorIDs
      PROVE  factors[f] = NoFactor \/ factors[f] \in Totps \/ factors[f] \in Keys
  BY <1>3 DEF IInv, Shapes
<1>4. IInv => TypeOK
  BY <1>1, <1>2, <1>3 DEF TypeOK, IInv, Shapes
<1> QED
  BY <1>4, Inductive, PTL

\* No code and no assertion vouches for an identity that did not show the factor first: no
\* interleaving of Activate, FinishRegistration and Verify makes a factor active on another
\* identity's behalf (totp.go lines 54-97, webauthn.go lines 159-205).
THEOREM OnlyEnrolledVerify == Spec => []EnrolledFirst
<1>1. IInv => EnrolledFirst
  BY DEF IInv
<1> QED
  BY <1>1, Inductive, PTL

\* Nothing that is over verifies, and a parked session is used by one handler at most,
\* however many race for it (webauthn.go lines 264-283, push.go lines 65-82).
THEOREM NothingStaleVerifies == Spec => []StaleNeverVerifies
<1>1. IInv => StaleNeverVerifies
  BY DEF IInv, StaleNeverVerifies, Parked
<1> QED
  BY <1>1, Inductive, PTL

\* What a step does to the credential of an active key.
CounterKept ==
    \A f \in FactorIDs :
        (/\ factors[f].Status = "active" /\ factors[f].Method = "webauthn"
         /\ ~IsSession(factors[f].Credentials)
         /\ factors'[f].Credentials # factors[f].Credentials) =>
        \/ UpToDate(factors[f].Credentials, factors'[f].Credentials)
        \/ \E h \in overlapped : pc[h] # pc'[h]

\* Of all steps only the two that store credentials touch one of an active key, and each
\* either overlapped or does not take it back.
LEMMA NextCounterKept == IInv /\ [Next]_vars => CounterKept
<1> SUFFICES ASSUME IInv, [Next]_vars, NEW f \in FactorIDs,
                    factors[f].Status = "active", factors[f].Method = "webauthn",
                    ~IsSession(factors[f].Credentials),
                    factors'[f].Credentials # factors[f].Credentials
             PROVE  \/ UpToDate(factors[f].Credentials, factors'[f].Credentials)
                    \/ \E h \in overlapped : pc[h] # pc'[h]
  BY DEF CounterKept
<1>0. factors' # factors /\ factors'[f] # factors[f]
  OBVIOUS
<1>1. Shapes /\ factors[f] \in Keys /\ factors[f] # NoFactor
  <2>1. "none" # "active" /\ "totp" # "webauthn"
    BY SMTT(30)
  <2> QED
    BY <2>1, FactorShapes DEF IInv, Shapes
<1>2. /\ Shapes /\ factors[f] \in Keys /\ factors[f] # NoFactor
      /\ factors[f].Credentials \in Credentials
  BY <1>1, KeyOf DEF Stored
<1>3. ASSUME NEW h \in Handlers, RegisterCredentials(h)
      PROVE  \E g \in overlapped : pc[g] # pc'[g]
  <2>0. HandlerOK(h) /\ pc[h] = "credentials" /\ Goto(h, "status")
    BY <1>3 DEF IInv, RegisterCredentials
  <2>1. PICK g : g = req[h].request.Factor
    OBVIOUS
  <2>2. SetField(g, "Credentials", updated[h])
    BY <1>3, <2>1 DEF RegisterCredentials, WriteCredentials
  <2>3. f = g
    BY <1>0, <1>2, <2>2 DEF SetField, Shapes
  <2>4. h \in overlapped
    BY <1>2, <2>0, <2>1, <2>3 DEF HandlerOK, Stored
  <2>5. pc'[h] = "status"
    BY <1>2, <2>0 DEF Goto, Shapes
  <2>6. "credentials" # "status"
    BY SMTT(30)
  <2> QED
    BY <2>0, <2>4, <2>5, <2>6
<1>4. ASSUME NEW h \in Handlers, persistCounter(h)
      PROVE  \/ UpToDate(factors[f].Credentials, factors'[f].Credentials)
             \/ \E g \in overlapped : pc[g] # pc'[g]
  <2>0. HandlerOK(h) /\ pc[h] = "persist" /\ Return(h)
    BY <1>4 DEF IInv, persistCounter, Succeed
  <2>1. PICK r : r = req[h].request
    OBVIOUS
  <2>2. PICK c : c = updated[h]
    OBVIOUS
  <2>3. PICK g \in Active(r.Identity, "webauthn") :
             Decoded(factors[g].Credentials).ID = c.ID /\ SetField(g, "Credentials", c)
    BY <1>4, <2>1, <2>2 DEF persistCounter, WriteCredentials
  <2>4. f = g
    BY <1>0, <1>2, <2>3 DEF SetField, Shapes
  <2>5. c \in Credentials /\ c.ID = r.Credential
    BY <2>0, <2>1, <2>2 DEF HandlerOK
  <2>6. PICK e \in FactorIDs :
             Of(e, r.Credential) /\ (h \in overlapped \/ UpToDate(factors[e].Credentials, c))
    BY <2>0, <2>1, <2>2 DEF HandlerOK
  <2>7. Of(f, c.ID) /\ c.ID \in Ceremonies
    <3>1. Of(f, factors[f].Credentials.ID)
      BY <1>2 DEF Of
    <3>2. c.ID \in Ceremonies
      BY <2>5, CredentialShapes
    <3>3. Decoded(factors[f].Credentials) = factors[f].Credentials
      BY DEF Decoded
    <3> QED
      BY <2>3, <2>4, <3>1, <3>2, <3>3
  <2>8. e = f
    BY <2>5, <2>6, <2>7 DEF IInv, OneKeyEach
  <2>9. factors'[f].Credentials = c
    BY <1>2, <2>3, <2>4, <2>5, <2>7, CredentialsEffect
  <2>10. pc'[h] # pc[h]
    <3>1. pc'[h] = "idle"
      BY <1>2, <2>0 DEF Return, Shapes
    <3>2. "idle" # "persist"
      BY SMTT(30)
    <3> QED
      BY <2>0, <3>1, <3>2
  <2> QED
    BY <2>6, <2>8, <2>9, <2>10
<1>5. ASSUME NEW h \in Handlers, WriteActivated(h) \/ RegisterStatus(h)
      PROVE  FALSE
  <2>1. PICK g : g = req[h].request.Factor
    OBVIOUS
  <2>2. SetField(g, "Status", "active")
    BY <1>5, <2>1 DEF WriteActivated, RegisterStatus
  <2>3. f = g
    BY <1>0, <1>2, <2>2 DEF SetField, Shapes
  <2> QED
    BY <1>2, <2>2, <2>3, StatusEffect
<1>6. ASSUME NEW g \in FactorIDs, NEW x, factors[g] = NoFactor, factors' = [factors EXCEPT ![g] = x]
      PROVE  FALSE
  BY <1>0, <1>2, <1>6 DEF Shapes
<1>7. CASE AtOnce
  <2>1. PICK g \in FactorIDs, i \in Identities :
             Enroll(g, i) \/ \E k \in Ceremonies : BeginRegistration(g, i, k)
    BY <1>0, <1>7 DEF AtOnce, HandleVerifyTOTP, Store, RegisterDevice, handleDeleteDevice,
       BeginVerification, BeginIdentityVerification, Expire
  <2> QED
    BY <1>6, <2>1 DEF Enroll, BeginRegistration
<1>8. ASSUME NEW h \in Handlers, Request(h)
      PROVE  FALSE
  BY <1>0, <1>8 DEF Request, handleTOTPActivate, ArriveApproval, ArriveAssertion,
     handleWebAuthnFinishRegistration, Arrive, Store
<1>9. ASSUME NEW h \in Handlers, Step(h)
      PROVE  RegisterCredentials(h) \/ persistCounter(h) \/ WriteActivated(h) \/ RegisterStatus(h)
  BY <1>0, <1>9 DEF Step, Activate, VerifyApproval, FinishRegistration, DecodeSession, Store,
     FinishIdentityVerification, TakeSession, FinishVerification
<1>10. ~UNCHANGED vars
  BY <1>0 DEF vars
<1> QED
  BY <1>3, <1>4, <1>5, <1>7, <1>8, <1>9, <1>10 DEF Next, Quiet

\* Clone detection can rely on the stored counter: it never falls, and a stored warning is
\* never withdrawn, but for a handler that overlapped another write (webauthn.go
\* lines 289-345).
THEOREM CountersOnlyGrow == Spec => CounterMonotone
<1>1. CounterKept => \A f \in FactorIDs :
           LET old == factors[f].Credentials
               new == factors'[f].Credentials
           IN  (/\ factors[f].Status = "active" /\ factors[f].Method = "webauthn"
                /\ ~IsSession(old) /\ new # old) =>
                   \/ old.SignCount <= new.SignCount /\ (old.CloneWarning => new.CloneWarning)
                   \/ \E h \in overlapped : pc[h] # pc'[h]
  BY DEF CounterKept, UpToDate
<1> QED
  BY <1>1, Inductive, NextCounterKept, PTL DEF Spec, CounterMonotone
=============================================================================
