-------------------------- MODULE ChallengeService --------------------------
(***************************************************************************)
(* The MFA challenge orchestrator (core/internal/challenge) as concurrent    *)
(* HTTP handlers run it over the memory store.                               *)
(*                                                                          *)
(* The store's lock protects its maps only.  Get returns a pointer to the    *)
(* one Challenge record, handlers read and write its fields with no lock     *)
(* held, and Update stores the same pointer back, which changes nothing.     *)
(* Every read and every write of a field is therefore a step of its own, and *)
(* Attempts++ is a load and a store.  A step of a handler is named for the   *)
(* statement it runs; Arrive and Create start one.                           *)
(*                                                                          *)
(* Appending to the audit log is one step (AuditLog shows that concurrent    *)
(* Emit calls are atomic appends).  What a factor answers is an input.       *)
(***************************************************************************)
EXTENDS Naturals, Sequences, FiniteSets

CONSTANTS
    Handlers,       \* goroutines serving requests; each serves one at a time
    Challenges,     \* challenge IDs
    MethodSets,     \* the sets of methods policies ask for
    MaxAttempts,    \* the orchestrator's maxAttempts
    MaxRequests,    \* bound on the requests that arrive
    MaxCeremonies   \* bound on the WebAuthn ceremonies that are started

ASSUME ConstantsAssumption ==
    /\ MaxAttempts \in Nat \ {0}
    /\ MaxRequests \in Nat
    /\ MaxCeremonies \in Nat
    /\ IsFiniteSet(Handlers)

VARIABLES
    challenges,   \* the shared Challenge records
    expired,      \* challenges whose ExpiresAt has passed
    pc,           \* the next statement of each handler
    req,          \* the request each handler serves
    attempts,     \* handler's register for Attempts++
    session,      \* handler's local session, a ceremony number or 0
    arrived,      \* number of requests so far
    started,      \* the challenges ceremonies were started for, in order
    delivered,    \* ceremonies whose options a client has received
    checks,       \* history: the factor checks made on each challenge, as requests
    checked,      \* history: their number, by outcome
    consumed,     \* history: how often a ceremony's session was checked
    logged,       \* audit events per challenge and type
    announced     \* the statuses challenge.verified bus events carried, per challenge

local == <<pc, req, attempts, session>>
input == <<arrived, started, delivered>>
history == <<checks, checked, consumed>>
output == <<logged, announced>>
vars == <<challenges, expired, local, input, history, output>>

Resolved == {"approved", "failed", "expired"}
Pushes == {"push", "approve"}   \* by either of the two endpoints that take them
Kinds == {"totp", "begin", "finish"} \cup Pushes
\* How a factor check ends: approval, rejection, or the push rejections that return
\* without an audit event.
Outcomes == {"approved", "rejected", "unaudited"}
EventTypes == {"challenge.created", "challenge.verified", "challenge.failed"}

\* proof: what the factor will say.  "mismatch" is a push with a wrong number; for
\* begin, "good" says that the identity has an active credential.  ceremony: whose
\* options a finish answers.  late, stale: the challenge had expired, or was
\* resolved, when the request arrived.
Request ==
    [kind : Kinds, c : Challenges, proof : {"good", "bad", "mismatch"},
     ceremony : 0..MaxCeremonies, late : BOOLEAN, stale : BOOLEAN]

NoRequest == [kind |-> "none"]

NoChallenge ==
    [Status |-> "none", Methods |-> {}, Attempts |-> 0, WebAuthnSession |-> 0,
     ResolvedAt |-> FALSE]

Init ==
    /\ challenges = [c \in Challenges |-> NoChallenge]
    /\ expired = {}
    /\ pc = [h \in Handlers |-> "idle"]
    /\ req = [h \in Handlers |-> NoRequest]
    /\ attempts = [h \in Handlers |-> 0]
    /\ session = [h \in Handlers |-> 0]
    /\ arrived = 0 /\ started = <<>> /\ delivered = {}
    /\ checks = [c \in Challenges |-> {}]
    /\ checked = [c \in Challenges |-> [o \in Outcomes |-> 0]]
    /\ consumed = [k \in 1..MaxCeremonies |-> 0]
    /\ logged = [c \in Challenges |-> [t \in EventTypes |-> 0]]
    /\ announced = [c \in Challenges |-> {}]

-----------------------------------------------------------------------------
(* Control.  Returning forgets the request and the locals.                  *)

Ch(h) == challenges[req[h].c]

Goto(h, label) == pc' = [pc EXCEPT ![h] = label] /\ UNCHANGED <<req, attempts, session>>

Return(h) ==
    /\ pc' = [pc EXCEPT ![h] = "idle"]
    /\ req' = [req EXCEPT ![h] = NoRequest]
    /\ attempts' = [attempts EXCEPT ![h] = 0]
    /\ session' = [session EXCEPT ![h] = 0]

SetField(h, field, v) == challenges' = [challenges EXCEPT ![req[h].c][field] = v]

Log(h, type) == logged' = [logged EXCEPT ![req[h].c][type] = @ + 1]

\* A step that only reads.
Reads == UNCHANGED <<challenges, expired, input, history, output>>
\* A step that writes a field of the record.
Writes == UNCHANGED <<expired, input, history, output>>

-----------------------------------------------------------------------------
(* Requests and time.                                                       *)

\* Create, called by access evaluation.  The methods are the policy's.
Create(h, c, methods) ==
    /\ pc[h] = "idle"
    /\ challenges[c].Status = "none"
    /\ challenges' = [challenges EXCEPT ![c] =
           [NoChallenge EXCEPT !.Status = "pending", !.Methods = methods]]
    /\ pc' = [pc EXCEPT ![h] = "auditCreated"]
    /\ req' = [req EXCEPT ![h] = [kind |-> "create", c |-> c]]
    /\ UNCHANGED <<expired, attempts, session, input, history, output>>

AuditCreated(h) ==
    /\ pc[h] = "auditCreated"
    /\ Log(h, "challenge.created")
    /\ Return(h)
    /\ UNCHANGED <<challenges, expired, input, history, announced>>

\* A request for an existing challenge reaches preVerify, or the same status check of
\* BeginWebAuthn.
Arrive(h, kind, c, proof, ceremony) ==
    /\ pc[h] = "idle"
    /\ arrived < MaxRequests
    /\ challenges[c].Status # "none"
    /\ arrived' = arrived + 1
    /\ req' = [req EXCEPT ![h] =
           [kind |-> kind, c |-> c, proof |-> proof, ceremony |-> ceremony,
            late |-> c \in expired, stale |-> challenges[c].Status \in Resolved]]
    /\ pc' = [pc EXCEPT ![h] = "status"]
    /\ UNCHANGED <<challenges, expired, attempts, session, started, delivered, history, output>>

handleChallengeVerify(h, c) ==
    \/ \E proof \in {"good", "bad"} : Arrive(h, "totp", c, proof, 0)
    \/ \E proof \in {"good", "bad", "mismatch"} : Arrive(h, "push", c, proof, 0)

handleApproveChallenge(h, c) ==
    \E proof \in {"good", "bad", "mismatch"} : Arrive(h, "approve", c, proof, 0)

handleChallengeWebAuthnBegin(h, c) ==
    /\ Len(started) + Cardinality({g \in Handlers : req[g].kind = "begin"}) < MaxCeremonies
    /\ \E proof \in {"good", "bad"} : Arrive(h, "begin", c, proof, 0)

\* A good assertion answers the options of some ceremony.
handleChallengeWebAuthnFinish(h, c) ==
    \/ Arrive(h, "finish", c, "bad", 0)
    \/ \E ceremony \in delivered : Arrive(h, "finish", c, "good", ceremony)

\* ExpiresAt passes.
Expire(c) ==
    /\ challenges[c].Status # "none" /\ c \notin expired
    /\ expired' = expired \cup {c}
    /\ UNCHANGED <<challenges, local, input, history, output>>
-----------------------------------------------------------------------------
(* preVerify, lines 252-264, and the same gates of BeginWebAuthn.            *)

\* A gate that forgets that a resolved challenge takes no more requests.
CheckStatusDropped(h) == pc[h] = "status" /\ Goto(h, "expiry") /\ Reads

CheckStatus(h) ==
    /\ pc[h] = "status"
    /\ IF Ch(h).Status = "pending" THEN Goto(h, "expiry") ELSE Return(h)
    /\ Reads

\* A gate that forgets the TTL.
CheckExpiryDropped(h) ==
    /\ pc[h] = "expiry"
    /\ Goto(h, IF req[h].kind = "begin" THEN "ceremony" ELSE "attempts")
    /\ Reads

CheckExpiry(h) ==
    /\ pc[h] = "expiry"
    /\ Goto(h, IF req[h].c \in expired THEN "expire"
               ELSE IF req[h].kind = "begin" THEN "ceremony" ELSE "attempts")
    /\ Reads

WriteExpired(h) ==
    /\ pc[h] = "expire"
    /\ SetField(h, "Status", "expired")
    /\ Return(h)
    /\ Writes

\* A limit that is off by one.
CheckAttemptsOffByOne(h) ==
    /\ pc[h] = "attempts"
    /\ Goto(h, IF Ch(h).Attempts > MaxAttempts THEN "exhaust"
               ELSE IF req[h].kind = "finish" THEN "session" ELSE "load")
    /\ Reads

CheckAttempts(h) ==
    /\ pc[h] = "attempts"
    /\ Goto(h, IF Ch(h).Attempts >= MaxAttempts THEN "exhaust"
               ELSE IF req[h].kind = "finish" THEN "session" ELSE "load")
    /\ Reads

WriteExhausted(h) ==
    /\ pc[h] = "exhaust"
    /\ SetField(h, "Status", "failed")
    /\ Return(h)
    /\ Writes

-----------------------------------------------------------------------------
(* VerifyTOTP, VerifyPush and FinishWebAuthn after preVerify.                *)

allowsMethod(h, method) == method \in Ch(h).Methods

\* FinishWebAuthn, lines 205-210.
CheckSession(h) ==
    /\ pc[h] = "session"
    /\ IF allowsMethod(h, "webauthn") /\ Ch(h).WebAuthnSession # 0
       THEN Goto(h, "load")
       ELSE Return(h)
    /\ Reads

\* ch.Attempts++
LoadAttempts(h) ==
    /\ pc[h] = "load"
    /\ attempts' = [attempts EXCEPT ![h] = Ch(h).Attempts]
    /\ pc' = [pc EXCEPT ![h] = "store"]
    /\ UNCHANGED <<req, session>>
    /\ Reads

StoreAttempts(h) ==
    /\ pc[h] = "store"
    /\ SetField(h, "Attempts", attempts[h] + 1)
    /\ Goto(h, IF req[h].kind = "finish" THEN "take" ELSE "check")
    /\ Writes

TakeSession(h) ==
    /\ pc[h] = "take"
    /\ session' = [session EXCEPT ![h] = Ch(h).WebAuthnSession]
    /\ pc' = [pc EXCEPT ![h] = "clear"]
    /\ UNCHANGED <<req, attempts>>
    /\ Reads

ClearSession(h) ==
    /\ pc[h] = "clear"
    /\ SetField(h, "WebAuthnSession", 0)
    /\ Goto(h, "check")
    /\ Writes

\* A finish that accepts any assertion, whichever ceremony it answers.
ValidUnbound(h) == req[h].proof = "good"

\* What totp.Verify, the number match with push.VerifyApproval, or
\* webauthn.FinishVerification on the session taken, say of the request.
Valid(h) ==
    /\ req[h].proof = "good"
    /\ req[h].kind = "finish" => req[h].ceremony = session[h]

Outcome(h) ==
    IF Valid(h) THEN "approved" ELSE IF req[h].kind \in Pushes THEN "unaudited" ELSE "rejected"

CheckFactor(h) ==
    /\ pc[h] = "check"
    /\ checks' = [checks EXCEPT ![req[h].c] =
           @ \cup {[request |-> req[h], outcome |-> Outcome(h)]}]
    /\ checked' = [checked EXCEPT ![req[h].c][Outcome(h)] = @ + 1]
    /\ consumed' = [k \in DOMAIN consumed |->
           consumed[k] + (IF req[h].kind = "finish" /\ session[h] = k THEN 1 ELSE 0)]
    /\ IF Valid(h) THEN Goto(h, "approve")
       ELSE IF req[h].proof = "mismatch" THEN Return(h) ELSE Goto(h, "limit")
    /\ UNCHANGED <<challenges, expired, input, output>>

WriteApproved(h) ==
    /\ pc[h] = "approve"
    /\ SetField(h, "Status", "approved")
    /\ Goto(h, "resolve")
    /\ Writes

WriteResolvedAt(h) ==
    /\ pc[h] = "resolve"
    /\ SetField(h, "ResolvedAt", TRUE)
    /\ Goto(h, "auditVerified")
    /\ Writes

\* A failed TOTP or WebAuthn check is audited, a failed push is not.
AfterRejection(h) == IF req[h].kind \in Pushes THEN Return(h) ELSE Goto(h, "auditFailed")

\* A limit that counts the attempt that was just made a second time.
CheckLimitEarly(h) ==
    /\ pc[h] = "limit"
    /\ IF Ch(h).Attempts + 1 >= MaxAttempts THEN Goto(h, "fail") ELSE AfterRejection(h)
    /\ Reads

CheckLimit(h) ==
    /\ pc[h] = "limit"
    /\ IF Ch(h).Attempts >= MaxAttempts THEN Goto(h, "fail") ELSE AfterRejection(h)
    /\ Reads

WriteFailed(h) ==
    /\ pc[h] = "fail"
    /\ SetField(h, "Status", "failed")
    /\ AfterRejection(h)
    /\ Writes

\* An audit step that reports the status it finds instead of the one it wrote.
AuditLiveStatus(h) ==
    /\ pc[h] \in {"auditVerified", "auditFailed"}
    /\ Log(h, IF Ch(h).Status = "approved" THEN "challenge.verified" ELSE "challenge.failed")
    /\ Return(h)
    /\ UNCHANGED <<challenges, expired, input, history, announced>>

Audit(h) ==
    /\ \/ pc[h] = "auditVerified" /\ Log(h, "challenge.verified") /\ Goto(h, "announce")
       \/ pc[h] = "auditFailed" /\ Log(h, "challenge.failed") /\ Return(h)
    /\ UNCHANGED <<challenges, expired, input, history, announced>>

\* The handler announces the verification on the bus, with the status it finds on
\* the shared record (the bus is configured); handleApproveChallenge does not.
Announce(h) ==
    /\ pc[h] = "announce"
    /\ announced' = IF req[h].kind = "approve"
                    THEN announced
                    ELSE [announced EXCEPT ![req[h].c] = @ \cup {Ch(h).Status}]
    /\ Return(h)
    /\ UNCHANGED <<challenges, expired, input, history, logged>>

-----------------------------------------------------------------------------
(* BeginWebAuthn after its gates.                                           *)

BeginCeremony(h) ==
    /\ pc[h] = "ceremony"
    /\ IF allowsMethod(h, "webauthn") /\ req[h].proof = "good"
       THEN /\ started' = Append(started, req[h].c)
            /\ session' = [session EXCEPT ![h] = Len(started')]
            /\ pc' = [pc EXCEPT ![h] = "storeSession"]
            /\ UNCHANGED <<req, attempts>>
       ELSE Return(h) /\ UNCHANGED started
    /\ UNCHANGED <<challenges, expired, arrived, delivered, history, output>>

\* The session is stored and the options are sent to the client.
StoreSession(h) ==
    /\ pc[h] = "storeSession"
    /\ SetField(h, "WebAuthnSession", session[h])
    /\ delivered' = delivered \cup {session[h]}
    /\ Return(h)
    /\ UNCHANGED <<expired, arrived, started, history, output>>

-----------------------------------------------------------------------------
Step(h) ==
    \/ AuditCreated(h)
    \/ CheckStatus(h) \/ CheckExpiry(h) \/ WriteExpired(h)
    \/ CheckAttempts(h) \/ WriteExhausted(h)
    \/ CheckSession(h) \/ LoadAttempts(h) \/ StoreAttempts(h)
    \/ TakeSession(h) \/ ClearSession(h)
    \/ CheckFactor(h) \/ WriteApproved(h) \/ WriteResolvedAt(h)
    \/ CheckLimit(h) \/ WriteFailed(h) \/ Audit(h) \/ Announce(h)
    \/ BeginCeremony(h) \/ StoreSession(h)

\* No request is being served.
Quiet == (\A h \in Handlers : pc[h] = "idle") /\ UNCHANGED vars

Next ==
    \/ \E h \in Handlers, c \in Challenges, methods \in MethodSets : Create(h, c, methods)
    \/ \E h \in Handlers, c \in Challenges :
          \/ handleChallengeVerify(h, c) \/ handleApproveChallenge(h, c)
          \/ handleChallengeWebAuthnBegin(h, c) \/ handleChallengeWebAuthnFinish(h, c)
    \/ \E h \in Handlers : Step(h)
    \/ \E c \in Challenges : Expire(c)
    \/ Quiet

Spec == Init /\ [][Next]_vars

-----------------------------------------------------------------------------
(* Properties of every interleaving.                                        *)

\* Handlers race past the gates of preVerify, but a request that arrives after the
\* challenge expired or was resolved never gets its factor checked, and a challenge
\* is approved only after such an open request presented a valid factor.
ApprovalWasOpen ==
    \A c \in Challenges :
        /\ \A k \in checks[c] : ~k.request.late /\ ~k.request.stale
        /\ challenges[c].Status = "approved" => \E k \in checks[c] : k.outcome = "approved"

\* The audit log accounts for the verifications whatever else writes the record:
\* one challenge.verified per factor check that succeeded and one challenge.failed
\* per TOTP or WebAuthn check that did not, handlers still on their way apart; and the
\* bus hears of no verification that is not in the log yet.
AuditAccounts ==
    \A c \in Challenges :
        LET at(labels, kinds) ==
                Cardinality({h \in Handlers :
                    pc[h] \in labels /\ req[h].c = c /\ req[h].kind \in kinds})
        IN  /\ checked[c]["approved"] = logged[c]["challenge.verified"]
                   + at({"approve", "resolve", "auditVerified"}, Kinds)
            /\ checked[c]["rejected"] = logged[c]["challenge.failed"]
                   + at({"limit", "fail", "auditFailed"}, {"totp", "finish"})
            /\ announced[c] # {} => logged[c]["challenge.verified"] > 0

\* Attempts++ loses increments when handlers race, so the counter can lag behind the
\* attempts that are made (checked, or about to be), but it never runs ahead of them:
\* whatever the interleaving, no challenge is marked failed before MaxAttempts attempts
\* were made on it.
Made(c) ==
    checked[c]["approved"] + checked[c]["rejected"] + checked[c]["unaudited"]
        + Cardinality({h \in Handlers : pc[h] \in {"take", "clear", "check"} /\ req[h].c = c})
FailsAfterAttempts ==
    \A c \in Challenges :
        /\ challenges[c].Attempts <= Made(c)
        /\ challenges[c].Status = "failed" => Made(c) >= MaxAttempts

-----------------------------------------------------------------------------
(* Properties of requests served one after the other.                       *)

\* A challenge has its factor checked at most MaxAttempts times: "each challenge
\* allows a bounded number of attempts" (docs/security/mfa-security.md line 9).
AttemptsBounded ==
    \A c \in Challenges :
        checked[c]["approved"] + checked[c]["rejected"] + checked[c]["unaudited"] <= MaxAttempts

\* A challenge holds only sessions of its own ceremonies, no assertion made for one
\* challenge's ceremony approves another challenge, and no session is checked twice:
\* clearing it "makes in-progress ceremonies single-use" (core/internal/types/types.go
\* lines 221-225).
CeremonyBound ==
    /\ \A k \in DOMAIN consumed : consumed[k] <= 1
    /\ \A c \in Challenges :
          /\ challenges[c].WebAuthnSession # 0 => started[challenges[c].WebAuthnSession] = c
          /\ \A k \in checks[c] : k.request.kind = "finish" /\ k.outcome = "approved"
                                     => started[k.request.ceremony] = c

Lifecycle ==
    INSTANCE ChallengeLifecycle WITH
        status <- [c \in Challenges |-> challenges[c].Status],
        used <- [c \in Challenges |-> challenges[c].Attempts]

\* The orchestrator implements the lifecycle the docs describe.
ImplementsLifecycle == Lifecycle!Spec
=============================================================================
