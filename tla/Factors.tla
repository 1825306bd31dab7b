------------------------------- MODULE Factors -------------------------------
(***************************************************************************)
(* The MFA factor services (core/internal/mfa: TOTPService, PushService and  *)
(* WebAuthnService) as concurrent handlers call them over the memory store.  *)
(*                                                                          *)
(* As in ChallengeService, a Factor is one shared record that handlers read  *)
(* and write with no lock held, so a handler that does both takes steps; one *)
(* that touches the store once is a single action.  Walking the factors of   *)
(* an identity is one step.  The mutex of WebAuthnService protects its       *)
(* session map and nothing else.                                            *)
(*                                                                          *)
(* A TOTP secret is the ID of its factor, a WebAuthn credential's ID the     *)
(* number of the ceremony it was registered in.  The secret of a WebAuthn    *)
(* factor is empty, and a code may be computed from the empty secret too.    *)
(***************************************************************************)
EXTENDS Integers, Sequences, FiniteSets

CONSTANTS
    Handlers, Identities, FactorIDs, Devices,
    Ages,           \* how many periods ago the period of a TOTP code was
    MaxCount,       \* bound on the sign counters authenticators report
    MaxRequests,    \* bound on the requests that arrive, ceremonies begun and enrolments apart
    MaxCeremonies   \* bound on the WebAuthn ceremonies begun

ASSUME BoundsAssumption ==
    Ages \subseteq Int /\ {MaxCount, MaxRequests, MaxCeremonies} \subseteq Nat

VARIABLES
    factors,      \* the shared Factor records
    devices,      \* per device: "none", "registered" or "deleted"
    sessions,     \* WebAuthnService.sessions: per identity a ceremony, 0 for none
    ceremonies,   \* the ceremonies begun, in order: [Identity, Kind]
    expired,      \* ceremonies whose TTL has passed
    pc,           \* the next step of each handler
    req,          \* the request each handler serves
    updated,      \* handler's credential: from the library, then to be stored
    arrived,      \* number of requests so far
    taken,        \* history: how often a ceremony's session left the map
    overlapped,   \* history: handlers during whose verification another one stored
    answers       \* history: the requests that succeeded

handlerVars == <<pc, req, updated>>
history == <<taken, overlapped, answers>>
vars == <<factors, devices, sessions, ceremonies, expired, handlerVars, arrived, history>>

Ceremonies == 1..MaxCeremonies
Kinds == {"registration", "identity", "challenge"}

NoFactor == [Status |-> "none"]
NoSecret == "no secret"
NoRequest == [kind |-> "none"]
NoCredential == [ID |-> 0, SignCount |-> 0, CloneWarning |-> FALSE]
Credential(k) == [NoCredential EXCEPT !.ID = k]

\* Factor.Credentials is a ceremony's session until FinishRegistration replaces it.  It
\* decodes to a credential with no ID, which no answer of an authenticator has.
Session(k) == [Session |-> k]
IsSession(c) == "Session" \in DOMAIN c
Decoded(c) == IF IsSession(c) THEN NoCredential ELSE c

Init ==
    /\ factors = [f \in FactorIDs |-> NoFactor]
    /\ devices = [d \in Devices |-> "none"]
    /\ sessions = [i \in Identities |-> 0]
    /\ ceremonies = <<>> /\ expired = {}
    /\ pc = [h \in Handlers |-> "idle"]
    /\ req = [h \in Handlers |-> NoRequest]
    /\ updated = [h \in Handlers |-> NoCredential]
    /\ arrived = 0
    /\ taken = [k \in Ceremonies |-> 0] /\ overlapped = {} /\ answers = {}

-----------------------------------------------------------------------------
(* Control.                                                                 *)

Goto(h, label) == pc' = [pc EXCEPT ![h] = label] /\ UNCHANGED <<req, updated>>

Return(h) ==
    /\ pc' = [pc EXCEPT ![h] = "idle"]
    /\ req' = [req EXCEPT ![h] = NoRequest]
    /\ updated' = [updated EXCEPT ![h] = NoCredential]

Succeed(h) == answers' = answers \cup {req[h]} /\ Return(h)

SetField(f, field, v) == factors' = [factors EXCEPT ![f][field] = v]

Store == <<factors, devices, sessions, ceremonies, expired>>

\* Factors still pending count.
ActiveOrPending(i, method) ==
    {f \in FactorIDs : /\ factors[f] # NoFactor
                       /\ factors[f].IdentityID = i /\ factors[f].Method = method}

\* The factors of an identity with a method that are active, as both services list them.
Active(i, method) ==
    {f \in FactorIDs : /\ factors[f].Status = "active"
                       /\ factors[f].IdentityID = i /\ factors[f].Method = method}

Begin(k, i, kind) ==
    /\ k = Len(ceremonies) + 1 /\ k \in Ceremonies
    /\ ceremonies' = Append(ceremonies, [Identity |-> i, Kind |-> kind])

\* A request arrives.  stale: it answers a ceremony that had expired, was replaced or
\* was used, or comes from a device that had been deleted.
Arrive(h, label, r, stale) ==
    /\ pc[h] = "idle" /\ arrived < MaxRequests
    /\ arrived' = arrived + 1
    /\ req' = [req EXCEPT ![h] = [request |-> r, stale |-> stale]]
    /\ pc' = [pc EXCEPT ![h] = label]
    /\ UNCHANGED <<Store, updated, history>>

\* The sessionTTL of a ceremony passes.  A challenge's ceremony lasts as long as the
\* challenge, which is not this module's to judge.
Expire(k) ==
    /\ k \in DOMAIN ceremonies \ expired /\ ceremonies[k].Kind # "challenge"
    /\ expired' = expired \cup {k}
    /\ UNCHANGED <<factors, devices, sessions, ceremonies, handlerVars, arrived, history>>

-----------------------------------------------------------------------------
(* TOTP.                                                                    *)

Enroll(f, i) ==
    /\ factors[f] = NoFactor
    /\ factors' = [factors EXCEPT ![f] =
           [IdentityID |-> i, Method |-> "totp", Status |-> "pending_activation", Secret |-> f]]
    /\ UNCHANGED <<devices, sessions, ceremonies, expired, handlerVars, arrived, history>>

\* totp.Validate looks one period to either side of the time it is given, the present
\* or so many periods back.
Validate(code, secret, back) == code.Secret = secret /\ code.Age \in (back - 1)..(back + 1)

handleTOTPActivate(h, i, f, code) ==
    Arrive(h, "activate", [kind |-> "activate", Identity |-> i, Factor |-> f, Code |-> code], FALSE)

\* Whatever the method of the factor.
Activate(h) ==
    /\ pc[h] = "activate"
    /\ LET r == req[h].request
           f == factors[r.Factor]
       IN  IF /\ f # NoFactor /\ f.IdentityID = r.Identity /\ f.Status = "pending_activation"
              /\ Validate(r.Code, f.Secret, 0)
           THEN Goto(h, "activated")
           ELSE Return(h)
    /\ UNCHANGED <<Store, arrived, history>>

WriteActivated(h) ==
    /\ pc[h] = "activated"
    /\ SetField(req[h].request.Factor, "Status", "active")
    /\ Succeed(h)
    /\ UNCHANGED <<devices, sessions, ceremonies, expired, arrived, taken, overlapped>>

\* The second look accepts codes that are up to two periods old.
VerifyTOTP(i, code) ==
    \E f \in Active(i, "totp") :
        Validate(code, factors[f].Secret, 0) \/ Validate(code, factors[f].Secret, 1)

\* What the challenge orchestrator is told of a code.
HandleVerifyTOTP(i, code) ==
    /\ arrived < MaxRequests
    /\ arrived' = arrived + 1
    /\ answers' = IF VerifyTOTP(i, code)
                  THEN answers \cup {[request |-> [kind |-> "totp", Identity |-> i, Code |-> code],
                                      stale |-> FALSE]}
                  ELSE answers
    /\ UNCHANGED <<Store, handlerVars, taken, overlapped>>

-----------------------------------------------------------------------------
(* Push devices.                                                            *)

RegisterDevice(d) ==
    /\ devices[d] = "none" /\ arrived < MaxRequests
    /\ arrived' = arrived + 1
    /\ devices' = [devices EXCEPT ![d] = "registered"]
    /\ UNCHANGED <<factors, sessions, ceremonies, expired, handlerVars, history>>

handleDeleteDevice(d) ==
    /\ devices[d] = "registered" /\ arrived < MaxRequests
    /\ arrived' = arrived + 1
    /\ devices' = [devices EXCEPT ![d] = "deleted"]
    /\ UNCHANGED <<factors, sessions, ceremonies, expired, handlerVars, history>>

\* An approval for a challenge, signed by the device and within the skew window or not.
ArriveApproval(h, d, inWindow) ==
    Arrive(h, "approve", [kind |-> "approve", Device |-> d, InWindow |-> inWindow],
           devices[d] = "deleted")

VerifyApproval(h) ==
    /\ pc[h] = "approve"
    /\ LET r == req[h].request
       IN  IF r.InWindow /\ devices[r.Device] = "registered"
           THEN Succeed(h)
           ELSE Return(h) /\ UNCHANGED answers
    /\ UNCHANGED <<Store, arrived, taken, overlapped>>

-----------------------------------------------------------------------------
(* WebAuthn registration.                                                   *)

BeginRegistration(f, i, k) ==
    /\ factors[f] = NoFactor
    /\ Begin(k, i, "registration")
    /\ factors' = [factors EXCEPT ![f] =
           [IdentityID |-> i, Method |-> "webauthn", Status |-> "pending_activation",
            Secret |-> NoSecret, Credentials |-> Session(k)]]
    /\ UNCHANGED <<devices, sessions, expired, handlerVars, arrived, history>>

\* The browser's answer to the creation options of ceremony k is sent for factor f.
handleWebAuthnFinishRegistration(h, i, f, k) ==
    /\ k \in DOMAIN ceremonies
    /\ Arrive(h, "register", [kind |-> "register", Identity |-> i, Factor |-> f, Ceremony |-> k],
              k \in expired \/ factors[f].Status = "active")

\* Lines 160-177: the gates.
FinishRegistration(h) ==
    /\ pc[h] = "register"
    /\ LET r == req[h].request
           f == factors[r.Factor]
       IN  IF /\ f # NoFactor /\ f.IdentityID = r.Identity /\ f.Method = "webauthn"
              /\ f.Status = "pending_activation"
              /\ ~\E k \in expired : f.Credentials = Session(k)
           THEN Goto(h, "decode")
           ELSE Return(h)
    /\ UNCHANGED <<Store, arrived, history>>

\* The session is decoded and the library verifies the answer against it.  A
\* credential record decodes to a session that no answer fits.
DecodeSession(h) ==
    /\ pc[h] = "decode"
    /\ LET r == req[h].request
       IN  IF factors[r.Factor].Credentials = Session(r.Ceremony)
           THEN /\ updated' = [updated EXCEPT ![h] = Credential(r.Ceremony)]
                /\ pc' = [pc EXCEPT ![h] = "credentials"]
                /\ overlapped' = overlapped \ {h}
                /\ UNCHANGED req
           ELSE Return(h) /\ UNCHANGED overlapped
    /\ UNCHANGED <<Store, arrived, taken, answers>>

\* Storing Credentials: every other handler that holds what it read before is now behind.
WriteCredentials(h, f, c) ==
    /\ SetField(f, "Credentials", c)
    /\ overlapped' = overlapped \cup
           {g \in Handlers \ {h} : pc[g] \in {"credentials", "persist"}}
    /\ UNCHANGED <<devices, sessions, ceremonies, expired, arrived, taken>>

\* The factor goes active with the session still in place of the credential.
RegisterCredentialsLater(h) ==
    /\ pc[h] = "credentials"
    /\ SetField(req[h].request.Factor, "Status", "active")
    /\ Goto(h, "status")
    /\ UNCHANGED <<devices, sessions, ceremonies, expired, arrived, history>>

RegisterCredentials(h) ==
    /\ pc[h] = "credentials"
    /\ WriteCredentials(h, req[h].request.Factor, updated[h])
    /\ Goto(h, "status")
    /\ UNCHANGED answers

RegisterStatus(h) ==
    /\ pc[h] = "status"
    /\ SetField(req[h].request.Factor, "Status", "active")
    /\ Succeed(h)
    /\ UNCHANGED <<devices, sessions, ceremonies, expired, arrived, taken, overlapped>>

-----------------------------------------------------------------------------
(* WebAuthn verification.                                                   *)

\* user: the credentials of an identity's active factors.
user(i) == {Decoded(factors[f].Credentials) : f \in Active(i, "webauthn")}

\* For a challenge; the orchestrator keeps the session (see ChallengeService).
BeginVerification(i, k) ==
    /\ user(i) # {}
    /\ Begin(k, i, "challenge")
    /\ UNCHANGED <<factors, devices, sessions, expired, handlerVars, arrived, history>>

\* For the identity alone: expired sessions are pruned, and the new one replaces any.
BeginIdentityVerification(i, k) ==
    /\ user(i) # {}
    /\ Begin(k, i, "identity")
    /\ sessions' = [j \in Identities |->
           IF j = i THEN k ELSE IF sessions[j] \in expired THEN 0 ELSE sessions[j]]
    /\ UNCHANGED <<factors, devices, expired, handlerVars, arrived, history>>

\* The answer of credential c to ceremony k reaches one of the two finish endpoints.
\* Only the identity's own one has to look for its session.
ArriveAssertion(h, i, k, c, count) ==
    /\ k \in DOMAIN ceremonies
    /\ LET answer(session) == [kind |-> "assert", Identity |-> i, Ceremony |-> k,
                               Credential |-> c, Count |-> count, Session |-> session]
       IN  CASE ceremonies[k].Kind = "identity" ->
                    Arrive(h, "take", answer(0), sessions[i] # k \/ k \in expired)
             [] ceremonies[k].Kind = "challenge" -> Arrive(h, "login", answer(k), FALSE)
             [] OTHER -> FALSE

\* The identity's session is taken, leaving the map as given, and used unless it is dead.
TakeSession(h, left, dead) ==
    /\ pc[h] = "take"
    /\ LET k == sessions[req[h].request.Identity]
       IN  /\ taken' = IF k = 0 THEN taken ELSE [taken EXCEPT ![k] = @ + 1]
           /\ IF k \in dead \cup {0}
              THEN Return(h)
              ELSE /\ req' = [req EXCEPT ![h].request.Session = k]
                   /\ pc' = [pc EXCEPT ![h] = "login"]
                   /\ UNCHANGED updated
    /\ sessions' = left
    /\ UNCHANGED <<factors, devices, ceremonies, expired, arrived, overlapped, answers>>

\* Expiry is left to the pruning of the next begin.
FinishIdentityVerificationLate(h) ==
    TakeSession(h, [sessions EXCEPT ![req[h].request.Identity] = 0], {})

\* The session leaves the map whatever becomes of the request.
FinishIdentityVerification(h) ==
    TakeSession(h, [sessions EXCEPT ![req[h].request.Identity] = 0], expired)

\* What the library makes of the counter an authenticator reports: one that has not
\* grown is the sign of a clone and is not stored.
UpdateCounter(c, count) ==
    IF count <= c.SignCount /\ ~(count = 0 /\ c.SignCount = 0)
    THEN [c EXCEPT !.CloneWarning = TRUE]
    ELSE [c EXCEPT !.SignCount = count]

\* The library accepts an answer to the session's own ceremony, for its identity, by
\* one of the credentials read.
FinishVerification(h) ==
    /\ pc[h] = "login"
    /\ LET r == req[h].request
           known == {c \in user(r.Identity) : c.ID = r.Credential}
       IN  IF /\ r.Session = r.Ceremony /\ ceremonies[r.Session].Identity = r.Identity
              /\ known # {}
           THEN /\ \E c \in known :
                       updated' = [updated EXCEPT ![h] = UpdateCounter(c, r.Count)]
                /\ pc' = [pc EXCEPT ![h] = "persist"]
                /\ overlapped' = overlapped \ {h}
                /\ UNCHANGED req
           ELSE Return(h) /\ UNCHANGED overlapped
    /\ UNCHANGED <<Store, arrived, taken, answers>>

\* The counter the authenticator reported is stored, not the one the library kept.
persistCounterReported(h) ==
    /\ pc[h] = "persist"
    /\ \E f \in Active(req[h].request.Identity, "webauthn") :
           /\ Decoded(factors[f].Credentials).ID = updated[h].ID
           /\ WriteCredentials(h, f, [updated[h] EXCEPT !.SignCount = req[h].request.Count])
    /\ Succeed(h)

\* Of the record read again only the ID survives.
persistCounter(h) ==
    /\ pc[h] = "persist"
    /\ \E f \in Active(req[h].request.Identity, "webauthn") :
           /\ Decoded(factors[f].Credentials).ID = updated[h].ID
           /\ WriteCredentials(h, f, updated[h])
    /\ Succeed(h)

-----------------------------------------------------------------------------
\* Clients name factors and ceremonies that exist, and compute codes from their secrets.
Existing == {f \in FactorIDs : factors[f] # NoFactor}
Codes == [Secret : {factors[f].Secret : f \in Existing}, Age : Ages]

Request(h) ==
    \/ \E i \in Identities, f \in Existing, code \in Codes : handleTOTPActivate(h, i, f, code)
    \/ \E d \in Devices, inWindow \in BOOLEAN :
           devices[d] # "none" /\ ArriveApproval(h, d, inWindow)
    \/ \E i \in Identities, f \in Existing, k \in Ceremonies :
           handleWebAuthnFinishRegistration(h, i, f, k)
    \/ \E i \in Identities, k, c \in DOMAIN ceremonies, count \in 0..MaxCount :
           ArriveAssertion(h, i, k, c, count)

Step(h) ==
    \/ Activate(h) \/ WriteActivated(h) \/ VerifyApproval(h)
    \/ FinishRegistration(h) \/ DecodeSession(h)
    \/ RegisterCredentials(h) \/ RegisterStatus(h)
    \/ FinishIdentityVerification(h) \/ FinishVerification(h) \/ persistCounter(h)

\* Requests that touch the store once, and the passing of time.
AtOnce ==
    \/ \E f \in FactorIDs, i \in Identities : Enroll(f, i)
    \/ \E i \in Identities, code \in Codes : HandleVerifyTOTP(i, code)
    \/ \E d \in Devices : RegisterDevice(d) \/ handleDeleteDevice(d)
    \/ \E f \in FactorIDs, i \in Identities, k \in Ceremonies : BeginRegistration(f, i, k)
    \/ \E i \in Identities, k \in Ceremonies :
           BeginVerification(i, k) \/ BeginIdentityVerification(i, k)
    \/ \E k \in Ceremonies : Expire(k)

\* The server is idle.
Quiet == (\A h \in Handlers : pc[h] = "idle") /\ UNCHANGED vars

Next == AtOnce \/ (\E h \in Handlers : Request(h) \/ Step(h)) \/ Quiet

Spec == Init /\ [][Next]_vars

-----------------------------------------------------------------------------
(* Properties.                                                              *)

Credentials == [ID : Ceremonies, SignCount : 0..MaxCount, CloneWarning : BOOLEAN]

\* What an identity has shown so far: a code of factor f, the answer to ceremony k.  A
\* FinishRegistration that has stored its credential goes on to succeed.
Accepted == answers \cup {req[h] : h \in {g \in Handlers : pc[g] = "status"}}
ShowedTOTP(i, f) ==
    \E a \in answers : /\ a.request.kind = "activate"
                      /\ a.request.Identity = i /\ a.request.Factor = f
ShowedKey(i, k) ==
    \E a \in Accepted : /\ a.request.kind = "register"
                       /\ a.request.Identity = i /\ a.request.Ceremony = k

\* Every record keeps its shape; a WebAuthn factor holds the session, and then a
\* credential, of a registration that was begun for its own identity, and is active
\* with the session only where TOTPService.Activate, which does not ask for the method
\* (totp.go lines 54-73), accepted a code for it.
TypeOK ==
    /\ \A f \in FactorIDs : \/ factors[f] = NoFactor
                             \/ /\ factors[f].Method = "totp"
                                /\ factors[f].IdentityID \in Identities
                                /\ factors[f].Status \in {"pending_activation", "active"}
                             \/ /\ factors[f].Method = "webauthn"
                                /\ factors[f].Status \in {"pending_activation", "active"}
                                /\ LET c == factors[f].Credentials
                                       i == factors[f].IdentityID
                                   IN  /\ \/ c \in Credentials
                                          \/ /\ IsSession(c)
                                             /\ factors[f].Status = "active" => ShowedTOTP(i, f)
                                       /\ ceremonies[IF IsSession(c) THEN c.Session ELSE c.ID] =
                                              [Identity |-> i, Kind |-> "registration"]
    /\ devices \in [Devices -> {"none", "registered", "deleted"}]
    /\ sessions \in [Identities -> 0..Len(ceremonies)]
    /\ expired \subseteq DOMAIN ceremonies
    /\ updated \in [Handlers -> Credentials \cup {NoCredential}]
    /\ arrived \in 0..MaxRequests

\* A factor proves who its identity is only after that identity showed that it holds
\* the factor: a code that Verify accepts has a secret an Activate accepted earlier,
\* an assertion a credential a FinishRegistration accepted, for the same identity.
EnrolledFirst ==
    \A v \in answers :
        LET r == v.request
        IN  /\ r.kind = "totp" => ShowedTOTP(r.Identity, r.Code.Secret)
            /\ r.kind = "assert" => ShowedKey(r.Identity, r.Credential)

\* What is over stays over: an answer to a ceremony that had expired, was replaced or
\* was finished when it arrived, and an approval of a device deleted before it
\* arrived ("Deleting a device revokes its ability to approve challenges"), does not
\* succeed, whatever other handlers do meanwhile; and "the parked session is consumed
\* single-use" (webauthn.go line 262), by one of two handlers that race for it.
StaleNeverVerifies ==
    /\ \A v \in answers : ~v.stale
    /\ \A k \in Ceremonies : taken[k] <= 1

\* The clone detection that persistCounter serves: a stored counter never falls, and a
\* stored warning is never withdrawn, unless another handler stored the same identity's
\* credential between the read in FinishVerification or FinishRegistration and the
\* write (nothing orders the two).
CounterMonotone ==
    [][\A f \in FactorIDs :
           LET old == factors[f].Credentials
               new == factors'[f].Credentials
           IN  (/\ factors[f].Status = "active" /\ factors[f].Method = "webauthn"
                /\ ~IsSession(old) /\ new # old) =>
                   \/ old.SignCount <= new.SignCount /\ (old.CloneWarning => new.CloneWarning)
                   \/ \E h \in overlapped : pc[h] # pc'[h]]_vars
=============================================================================
