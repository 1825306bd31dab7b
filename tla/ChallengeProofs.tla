-------------------------- MODULE ChallengeProofs ---------------------------
(***************************************************************************)
(* What is proved of the challenge orchestrator, for any number of handlers,  *)
(* challenges and requests: what survives the races of handlers on a          *)
(* challenge, and what requests that are served one after the other can rely  *)
(* on (the limit on attempts, the single use of WebAuthn ceremonies and the    *)
(* documented lifecycle).                                                   *)
(***************************************************************************)
EXTENDS ChallengeService, TLAPS

\* Zenon does the logic; the steps that need arithmetic or records call for SMT.
USE ZenonT(20)

-----------------------------------------------------------------------------
(* The invariants of every interleaving.                                    *)

\* The labels of a request that has passed the status check and the expiry check: those
\* of a verification and those of BeginWebAuthn.
Verifying ==
    {"attempts", "exhaust", "session", "load", "store", "take", "clear", "check", "approve",
     "resolve", "auditVerified", "announce", "limit", "fail", "auditFailed"}
Beginning == {"ceremony", "storeSession"}
Serving == Verifying \cup Beginning \cup {"status", "expiry", "expire"}
Labels == Serving \cup {"idle", "auditCreated"}

ChallengeType ==
    [Status : {"none", "pending"} \cup Resolved, Methods : MethodSets \cup {{}}, Attempts : Nat,
     WebAuthnSession : Nat, ResolvedAt : BOOLEAN]

\* Request, without the bound on ceremonies.
RequestType ==
    [kind : Kinds, c : Challenges, proof : {"good", "bad", "mismatch"}, ceremony : Nat,
     late : BOOLEAN, stale : BOOLEAN]

ReqTyped(h) ==
    /\ pc[h] = "idle" => req[h] = NoRequest
    /\ pc[h] = "auditCreated" => req[h].c \in Challenges
    /\ pc[h] \in Serving => req[h] \in RequestType

LocalTyped ==
    /\ pc \in [Handlers -> Labels]
    /\ req = [h \in Handlers |-> req[h]] /\ \A h \in Handlers : ReqTyped(h)
    /\ attempts \in [Handlers -> Nat] /\ session \in [Handlers -> Nat]

SharedTyped ==
    /\ challenges \in [Challenges -> ChallengeType]
    /\ started \in Seq(Challenges) /\ delivered \subseteq Nat
    /\ checks \in [Challenges -> SUBSET [request : RequestType, outcome : Outcomes]]
    /\ checked \in [Challenges -> [Outcomes -> Nat]]
    /\ consumed \in [1..MaxCeremonies -> Nat]
    /\ logged \in [Challenges -> [EventTypes -> Nat]]
    /\ announced = [c \in Challenges |-> announced[c]]

TypeOK == LocalTyped /\ SharedTyped

\* Which requests reach which labels.
KindOK(h) ==
    pc[h] \in Serving =>
        /\ req[h].proof = "mismatch" => req[h].kind \in Pushes
        /\ pc[h] \in Verifying => req[h].kind # "begin"
        /\ pc[h] \in Beginning => req[h].kind = "begin"
        /\ pc[h] \in {"session", "take", "clear"} => req[h].kind = "finish"
        /\ pc[h] = "auditFailed" => req[h].kind \notin Pushes

ApprovedCheck(c) == \E k \in checks[c] : k.outcome = "approved"

\* What a handler that has passed the gates knows of its request.
OpenFor(h) ==
    pc[h] \in Serving =>
        /\ challenges[req[h].c].Status # "none"
        /\ req[h].stale => challenges[req[h].c].Status \in Resolved
        /\ req[h].late => req[h].c \in expired
        /\ pc[h] # "status" => ~req[h].stale
        /\ pc[h] \in Verifying \cup Beginning => ~req[h].late
        /\ pc[h] = "approve" => ApprovedCheck(req[h].c)

Open == ApprovalWasOpen /\ \A h \in Handlers : KindOK(h) /\ OpenFor(h)

\* The handlers whose success, or failure, is not in the audit log yet.
Verifies(h, c) ==
    pc[h] \in {"approve", "resolve", "auditVerified"} /\ req[h].c = c /\ req[h].kind \in Kinds
Fails(h, c) ==
    pc[h] \in {"limit", "fail", "auditFailed"} /\ req[h].c = c /\ req[h].kind \in {"totp", "finish"}
\* The handlers about to check a factor.
Attempts(h, c) == pc[h] \in {"take", "clear", "check"} /\ req[h].c = c

VSet(c) == {h \in Handlers : Verifies(h, c)}
FSet(c) == {h \in Handlers : Fails(h, c)}
ASet(c) == {h \in Handlers : Attempts(h, c)}

Accounts ==
    /\ \A c \in Challenges :
          /\ checked[c]["approved"] = logged[c]["challenge.verified"] + Cardinality(VSet(c))
          /\ checked[c]["rejected"] = logged[c]["challenge.failed"] + Cardinality(FSet(c))
          /\ announced[c] # {} => logged[c]["challenge.verified"] > 0
    /\ \A h \in Handlers : pc[h] = "announce" => logged[req[h].c]["challenge.verified"] > 0

\* No value that is, or is about to become, the counter is ahead of the attempts made.
CountsOnlyMade ==
    /\ FailsAfterAttempts
    /\ \A h \in Handlers :
          /\ pc[h] = "store" => attempts[h] <= Made(req[h].c)
          /\ pc[h] \in {"exhaust", "fail"} => Made(req[h].c) >= MaxAttempts

\* The inductive invariant of every interleaving.
IInv == TypeOK /\ Open /\ Accounts /\ CountsOnlyMade

-----------------------------------------------------------------------------
(* What the control operators do to the handlers.                           *)

\* The other handlers are where they were.
Frame(h) ==
    \A g \in Handlers : g # h =>
        pc'[g] = pc[g] /\ req'[g] = req[g] /\ attempts'[g] = attempts[g] /\ session'[g] = session[g]

To(h, label) == Frame(h) /\ pc'[h] = label /\ req'[h] = req[h]
Gone(h) == Frame(h) /\ pc'[h] = "idle" /\ req'[h] = NoRequest

\* Goto moves the handler's program counter and nothing else of the handlers.
LEMMA GotoEffect ==
    ASSUME LocalTyped, NEW h \in Handlers, pc[h] \in Serving, NEW label \in Serving,
           Goto(h, label)
    PROVE  LocalTyped' /\ To(h, label) /\ attempts' = attempts /\ session' = session
<1>1. pc' \in [Handlers -> Labels] /\ pc'[h] = label /\ \A g \in Handlers : g # h => pc'[g] = pc[g]
    BY DEF LocalTyped, Goto, Labels
<1>2. req' = req /\ attempts' = attempts /\ session' = session
    BY DEF Goto
<1>3. ASSUME NEW g \in Handlers
      PROVE  ReqTyped(g)'
    BY <1>1, <1>2, <1>3 DEF LocalTyped, ReqTyped, Serving, Verifying, Beginning
<1> QED
    BY <1>1, <1>2, <1>3 DEF LocalTyped, To, Frame

\* A move of one handler that also changes a register keeps the types.
LEMMA MoveTyped ==
    ASSUME LocalTyped, NEW h \in Handlers, pc[h] \in Serving, NEW label \in Serving,
           pc' = [pc EXCEPT ![h] = label], req' = req,
           attempts' \in [Handlers -> Nat], session' \in [Handlers -> Nat]
    PROVE  LocalTyped'
<1>1. pc' \in [Handlers -> Labels] /\ pc'[h] = label /\ \A g \in Handlers : g # h => pc'[g] = pc[g]
    BY DEF LocalTyped, Labels
<1>3. ASSUME NEW g \in Handlers
      PROVE  ReqTyped(g)'
    BY <1>1, <1>3 DEF LocalTyped, ReqTyped, Serving, Verifying, Beginning
<1> QED
    BY <1>1, <1>3 DEF LocalTyped

\* Return makes the handler idle and forgets its request.
LEMMA ReturnEffect ==
    ASSUME LocalTyped, NEW h \in Handlers, Return(h)
    PROVE  LocalTyped' /\ Gone(h)
<1>1. /\ pc' \in [Handlers -> Labels] /\ pc'[h] = "idle"
      /\ \A g \in Handlers : g # h => pc'[g] = pc[g]
    BY DEF LocalTyped, Return, Labels
<1>2. /\ req' = [g \in Handlers |-> req'[g]] /\ req'[h] = NoRequest
      /\ \A g \in Handlers : g # h => req'[g] = req[g]
    BY DEF LocalTyped, Return
<1>3. /\ attempts' \in [Handlers -> Nat] /\ session' \in [Handlers -> Nat]
      /\ \A g \in Handlers : g # h => attempts'[g] = attempts[g] /\ session'[g] = session[g]
    BY DEF LocalTyped, Return
<1>4. ASSUME NEW g \in Handlers
      PROVE  ReqTyped(g)'
    <2>1. CASE g = h
        BY <1>1, <1>2, <2>1 DEF ReqTyped, Serving, Verifying, Beginning
    <2>2. CASE g # h
        BY <1>1, <1>2, <1>4, <2>2 DEF LocalTyped, ReqTyped
    <2> QED
        BY <2>1, <2>2
<1> QED
    BY <1>1, <1>2, <1>3, <1>4 DEF LocalTyped, Gone, Frame

\* An idle handler takes up a request.
LEMMA TakeUpEffect ==
    ASSUME LocalTyped, NEW h \in Handlers, NEW label, NEW r,
           \/ label = "status" /\ r \in RequestType
           \/ label = "auditCreated" /\ r.c \in Challenges,
           pc' = [pc EXCEPT ![h] = label], req' = [req EXCEPT ![h] = r],
           UNCHANGED <<attempts, session>>
    PROVE  LocalTyped' /\ Frame(h) /\ pc'[h] = label /\ req'[h] = r
<1>1. /\ pc' \in [Handlers -> Labels] /\ pc'[h] = label
      /\ \A g \in Handlers : g # h => pc'[g] = pc[g]
    BY DEF LocalTyped, Labels, Serving
<1>2. /\ req' = [g \in Handlers |-> req'[g]] /\ req'[h] = r
      /\ \A g \in Handlers : g # h => req'[g] = req[g]
    BY DEF LocalTyped
<1>4. ASSUME NEW g \in Handlers
      PROVE  ReqTyped(g)'
    <2>1. CASE g = h
        BY <1>1, <1>2, <2>1 DEF ReqTyped, Serving, Verifying, Beginning
    <2>2. CASE g # h
        BY <1>1, <1>2, <1>4, <2>2 DEF LocalTyped, ReqTyped
    <2> QED
        BY <2>1, <2>2
<1> QED
    BY <1>1, <1>2, <1>4 DEF LocalTyped, Frame

-----------------------------------------------------------------------------
(* What the writes do to the record.                                        *)

OtherRecords(h) ==
    /\ challenges' \in [Challenges -> ChallengeType]
    /\ \A d \in Challenges : d # req[h].c => challenges'[d] = challenges[d]

SetsStatus(h, v) ==
    /\ OtherRecords(h) /\ challenges'[req[h].c].Status = v
    /\ \A d \in Challenges : /\ challenges'[d].Attempts = challenges[d].Attempts
                             /\ challenges'[d].WebAuthnSession = challenges[d].WebAuthnSession
SetsAttempts(h, v) ==
    /\ OtherRecords(h) /\ challenges'[req[h].c].Attempts = v
    /\ \A d \in Challenges : /\ challenges'[d].Status = challenges[d].Status
                             /\ challenges'[d].WebAuthnSession = challenges[d].WebAuthnSession
SetsSession(h, v) ==
    /\ OtherRecords(h) /\ challenges'[req[h].c].WebAuthnSession = v
    /\ \A d \in Challenges : /\ challenges'[d].Attempts = challenges[d].Attempts
                             /\ challenges'[d].Status = challenges[d].Status
SetsResolvedAt ==
    /\ challenges' \in [Challenges -> ChallengeType]
    /\ \A d \in Challenges : /\ challenges'[d].Attempts = challenges[d].Attempts
                             /\ challenges'[d].Status = challenges[d].Status
                             /\ challenges'[d].WebAuthnSession = challenges[d].WebAuthnSession

\* A write of Status changes that field of one record.
LEMMA StatusEffect ==
    ASSUME SharedTyped, NEW h \in Handlers, req[h].c \in Challenges, NEW v \in Resolved,
           SetField(h, "Status", v)
    PROVE  SetsStatus(h, v)
<1> DEFINE r == challenges[req[h].c]
<1>1. r \in ChallengeType /\ v \in {"none", "pending"} \cup Resolved
    BY DEF SharedTyped
<1>2. PICK s : s = [r EXCEPT !.Status = v]
    OBVIOUS
<1>3. s \in ChallengeType
    BY <1>1, <1>2 DEF ChallengeType
<1>4. s.Attempts = r.Attempts /\ s.WebAuthnSession = r.WebAuthnSession /\ s.Status = v
    BY <1>1, <1>2 DEF ChallengeType
<1>5. challenges' = [challenges EXCEPT ![req[h].c] = s]
    BY <1>2 DEF SetField
<1>6. /\ challenges' \in [Challenges -> ChallengeType] /\ challenges'[req[h].c] = s
      /\ \A d \in Challenges : d # req[h].c => challenges'[d] = challenges[d]
    BY <1>3, <1>5 DEF SharedTyped
<1> QED
    BY <1>4, <1>6 DEF SetsStatus, OtherRecords

\* A write of Attempts changes that field of one record.
LEMMA AttemptsEffect ==
    ASSUME SharedTyped, NEW h \in Handlers, req[h].c \in Challenges, NEW v \in Nat,
           SetField(h, "Attempts", v)
    PROVE  SetsAttempts(h, v)
<1> DEFINE r == challenges[req[h].c]
<1>1. r \in ChallengeType
    BY DEF SharedTyped
<1>2. PICK s : s = [r EXCEPT !.Attempts = v]
    OBVIOUS
<1>3. s \in ChallengeType
    BY <1>1, <1>2 DEF ChallengeType
<1>4. s.Status = r.Status /\ s.WebAuthnSession = r.WebAuthnSession /\ s.Attempts = v
    BY <1>1, <1>2 DEF ChallengeType
<1>5. challenges' = [challenges EXCEPT ![req[h].c] = s]
    BY <1>2 DEF SetField
<1>6. /\ challenges' \in [Challenges -> ChallengeType] /\ challenges'[req[h].c] = s
      /\ \A d \in Challenges : d # req[h].c => challenges'[d] = challenges[d]
    BY <1>3, <1>5 DEF SharedTyped
<1> QED
    BY <1>4, <1>6 DEF SetsAttempts, OtherRecords

\* A write of WebAuthnSession changes that field of one record.
LEMMA SessionEffect ==
    ASSUME SharedTyped, NEW h \in Handlers, req[h].c \in Challenges, NEW v \in Nat,
           SetField(h, "WebAuthnSession", v)
    PROVE  SetsSession(h, v)
<1> DEFINE r == challenges[req[h].c]
<1>1. r \in ChallengeType
    BY DEF SharedTyped
<1>2. PICK s : s = [r EXCEPT !.WebAuthnSession = v]
    OBVIOUS
<1>3. s \in ChallengeType
    BY <1>1, <1>2 DEF ChallengeType
<1>4. s.Attempts = r.Attempts /\ s.Status = r.Status /\ s.WebAuthnSession = v
    BY <1>1, <1>2 DEF ChallengeType
<1>5. challenges' = [challenges EXCEPT ![req[h].c] = s]
    BY <1>2 DEF SetField
<1>6. /\ challenges' \in [Challenges -> ChallengeType] /\ challenges'[req[h].c] = s
      /\ \A d \in Challenges : d # req[h].c => challenges'[d] = challenges[d]
    BY <1>3, <1>5 DEF SharedTyped
<1> QED
    BY <1>4, <1>6 DEF SetsSession, OtherRecords

\* A write of ResolvedAt leaves the fields the properties speak of.
LEMMA ResolvedAtEffect ==
    ASSUME SharedTyped, NEW h \in Handlers, req[h].c \in Challenges,
           SetField(h, "ResolvedAt", TRUE)
    PROVE  SetsResolvedAt
<1> DEFINE r == challenges[req[h].c]
<1>1. r \in ChallengeType
    BY DEF SharedTyped
<1>2. PICK s : s = [r EXCEPT !.ResolvedAt = TRUE]
    OBVIOUS
<1>3. s \in ChallengeType
    BY <1>1, <1>2 DEF ChallengeType
<1>4. s.Attempts = r.Attempts /\ s.Status = r.Status /\ s.WebAuthnSession = r.WebAuthnSession
    BY <1>1, <1>2 DEF ChallengeType
<1>5. challenges' = [challenges EXCEPT ![req[h].c] = s]
    BY <1>2 DEF SetField
<1>6. /\ challenges' \in [Challenges -> ChallengeType] /\ challenges'[req[h].c] = s
      /\ \A d \in Challenges : d # req[h].c => challenges'[d] = challenges[d]
    BY <1>3, <1>5 DEF SharedTyped
<1> QED
    BY <1>4, <1>6 DEF SetsResolvedAt

-----------------------------------------------------------------------------
(* What the steps do, one lemma each, with the types they keep.               *)

\* A step that writes nothing but records keeps the types of the shared state.
LEMMA SharedKept ==
    ASSUME SharedTyped, challenges' \in [Challenges -> ChallengeType],
           UNCHANGED <<started, delivered, history, output>>
    PROVE  SharedTyped'
BY DEF SharedTyped, history, output

\* The request of a handler that is serving names a challenge.
LEMMA ServingRequest ==
    ASSUME LocalTyped, NEW h \in Handlers, pc[h] \in Serving
    PROVE  req[h] \in RequestType /\ req[h].c \in Challenges
<1>1. req[h] \in RequestType
    BY DEF LocalTyped, ReqTyped
<1> QED
    BY <1>1 DEF RequestType

SharedKeeps ==
    UNCHANGED <<expired, started, delivered, checks, checked, consumed, logged, announced>>

\* CheckStatus lets the request of a pending challenge through.
LEMMA CheckStatusEffect ==
    ASSUME TypeOK, NEW h \in Handlers, CheckStatus(h)
    PROVE  /\ TypeOK' /\ pc[h] = "status" /\ challenges' = challenges /\ SharedKeeps
           /\ \/ Ch(h).Status = "pending" /\ To(h, "expiry")
              \/ TRUE /\ Gone(h)
<1>1. pc[h] = "status" /\ pc[h] \in Serving /\ Reads
    BY DEF CheckStatus, Serving, Verifying, Beginning
<1>2. Goto(h, "expiry") => LocalTyped' /\ To(h, "expiry")
    BY <1>1, GotoEffect DEF TypeOK, Serving, Verifying, Beginning
<1>3. Return(h) => LocalTyped' /\ Gone(h)
    BY ReturnEffect DEF TypeOK
<1>8. SharedTyped' /\ SharedKeeps
    BY <1>1, SharedKept DEF TypeOK, SharedTyped, Reads, SharedKeeps, input, history, output
<1> QED
    BY <1>1, <1>2, <1>3, <1>8 DEF TypeOK, CheckStatus, Reads

\* CheckExpiry sends the request of an expired challenge to the write of its status.
LEMMA CheckExpiryEffect ==
    ASSUME TypeOK, NEW h \in Handlers, CheckExpiry(h)
    PROVE  /\ TypeOK' /\ pc[h] = "expiry" /\ challenges' = challenges /\ SharedKeeps
           /\ \/ req[h].c \in expired /\ To(h, "expire")
              \/ req[h].c \notin expired /\ req[h].kind = "begin" /\ To(h, "ceremony")
              \/ req[h].c \notin expired /\ req[h].kind # "begin" /\ To(h, "attempts")
<1>1. pc[h] = "expiry" /\ pc[h] \in Serving /\ Reads
    BY DEF CheckExpiry, Serving, Verifying, Beginning
<1>2. Goto(h, "expire") => LocalTyped' /\ To(h, "expire")
    BY <1>1, GotoEffect DEF TypeOK, Serving, Verifying, Beginning
<1>3. Goto(h, "ceremony") => LocalTyped' /\ To(h, "ceremony")
    BY <1>1, GotoEffect DEF TypeOK, Serving, Verifying, Beginning
<1>4. Goto(h, "attempts") => LocalTyped' /\ To(h, "attempts")
    BY <1>1, GotoEffect DEF TypeOK, Serving, Verifying, Beginning
<1>7. \/ req[h].c \in expired /\ Goto(h, "expire")
      \/ req[h].c \notin expired /\ req[h].kind = "begin" /\ Goto(h, "ceremony")
      \/ req[h].c \notin expired /\ req[h].kind # "begin" /\ Goto(h, "attempts")
    <2> DEFINE label == IF req[h].c \in expired THEN "expire"
                          ELSE IF req[h].kind = "begin" THEN "ceremony" ELSE "attempts"
    <2>1. Goto(h, label)
        BY DEF CheckExpiry
    <2> HIDE DEF label
    <2>2. req[h].c \in expired => label = "expire"
        BY DEF label
    <2>3. req[h].c \notin expired /\ req[h].kind = "begin" => label = "ceremony"
        BY DEF label
    <2>4. req[h].c \notin expired /\ req[h].kind # "begin" => label = "attempts"
        BY DEF label
    <2> QED
        BY <2>1, <2>2, <2>3, <2>4
<1>8. SharedTyped' /\ SharedKeeps
    BY <1>1, SharedKept DEF TypeOK, SharedTyped, Reads, SharedKeeps, input, history, output
<1> QED
    BY <1>1, <1>2, <1>3, <1>4, <1>7, <1>8 DEF TypeOK, Reads

\* CheckAttempts lets a request through while attempts are left.
LEMMA CheckAttemptsEffect ==
    ASSUME TypeOK, NEW h \in Handlers, CheckAttempts(h)
    PROVE  /\ TypeOK' /\ pc[h] = "attempts" /\ challenges' = challenges /\ SharedKeeps
           /\ \/ Ch(h).Attempts >= MaxAttempts /\ To(h, "exhaust")
              \/ ~(Ch(h).Attempts >= MaxAttempts) /\ req[h].kind = "finish" /\ To(h, "session")
              \/ ~(Ch(h).Attempts >= MaxAttempts) /\ req[h].kind # "finish" /\ To(h, "load")
<1>1. pc[h] = "attempts" /\ pc[h] \in Serving /\ Reads
    BY DEF CheckAttempts, Serving, Verifying, Beginning
<1>2. Goto(h, "exhaust") => LocalTyped' /\ To(h, "exhaust")
    BY <1>1, GotoEffect DEF TypeOK, Serving, Verifying, Beginning
<1>3. Goto(h, "session") => LocalTyped' /\ To(h, "session")
    BY <1>1, GotoEffect DEF TypeOK, Serving, Verifying, Beginning
<1>4. Goto(h, "load") => LocalTyped' /\ To(h, "load")
    BY <1>1, GotoEffect DEF TypeOK, Serving, Verifying, Beginning
<1>7. \/ Ch(h).Attempts >= MaxAttempts /\ Goto(h, "exhaust")
      \/ ~(Ch(h).Attempts >= MaxAttempts) /\ req[h].kind = "finish" /\ Goto(h, "session")
      \/ ~(Ch(h).Attempts >= MaxAttempts) /\ req[h].kind # "finish" /\ Goto(h, "load")
    <2> DEFINE label == IF Ch(h).Attempts >= MaxAttempts THEN "exhaust"
                          ELSE IF req[h].kind = "finish" THEN "session" ELSE "load"
    <2>1. Goto(h, label)
        BY DEF CheckAttempts
    <2> HIDE DEF label
    <2>2. Ch(h).Attempts >= MaxAttempts => label = "exhaust"
        BY DEF label
    <2>3. ~(Ch(h).Attempts >= MaxAttempts) /\ req[h].kind = "finish" => label = "session"
        BY DEF label
    <2>4. ~(Ch(h).Attempts >= MaxAttempts) /\ req[h].kind # "finish" => label = "load"
        BY DEF label
    <2> QED
        BY <2>1, <2>2, <2>3, <2>4
<1>8. SharedTyped' /\ SharedKeeps
    BY <1>1, SharedKept DEF TypeOK, SharedTyped, Reads, SharedKeeps, input, history, output
<1> QED
    BY <1>1, <1>2, <1>3, <1>4, <1>7, <1>8 DEF TypeOK, Reads

\* CheckSession lets a finish through when a ceremony is under way.
LEMMA CheckSessionEffect ==
    ASSUME TypeOK, NEW h \in Handlers, CheckSession(h)
    PROVE  /\ TypeOK' /\ pc[h] = "session" /\ challenges' = challenges /\ SharedKeeps
           /\ \/ Ch(h).WebAuthnSession # 0 /\ To(h, "load")
              \/ TRUE /\ Gone(h)
<1>1. pc[h] = "session" /\ pc[h] \in Serving /\ Reads
    BY DEF CheckSession, Serving, Verifying, Beginning
<1>2. Goto(h, "load") => LocalTyped' /\ To(h, "load")
    BY <1>1, GotoEffect DEF TypeOK, Serving, Verifying, Beginning
<1>3. Return(h) => LocalTyped' /\ Gone(h)
    BY ReturnEffect DEF TypeOK
<1>8. SharedTyped' /\ SharedKeeps
    BY <1>1, SharedKept DEF TypeOK, SharedTyped, Reads, SharedKeeps, input, history, output
<1> QED
    BY <1>1, <1>2, <1>3, <1>8 DEF TypeOK, CheckSession, Reads

\* CheckLimit goes on to fail the challenge, to the audit, or back.
LEMMA CheckLimitEffect ==
    ASSUME TypeOK, NEW h \in Handlers, CheckLimit(h)
    PROVE  /\ TypeOK' /\ pc[h] = "limit" /\ challenges' = challenges /\ SharedKeeps
           /\ \/ Ch(h).Attempts >= MaxAttempts /\ To(h, "fail")
              \/ req[h].kind \in Pushes /\ Gone(h)
              \/ req[h].kind \notin Pushes /\ To(h, "auditFailed")
<1>1. pc[h] = "limit" /\ pc[h] \in Serving /\ Reads
    BY DEF CheckLimit, Serving, Verifying, Beginning
<1>2. Goto(h, "fail") => LocalTyped' /\ To(h, "fail")
    BY <1>1, GotoEffect DEF TypeOK, Serving, Verifying, Beginning
<1>3. Return(h) => LocalTyped' /\ Gone(h)
    BY ReturnEffect DEF TypeOK
<1>4. Goto(h, "auditFailed") => LocalTyped' /\ To(h, "auditFailed")
    BY <1>1, GotoEffect DEF TypeOK, Serving, Verifying, Beginning
<1>8. SharedTyped' /\ SharedKeeps
    BY <1>1, SharedKept DEF TypeOK, SharedTyped, Reads, SharedKeeps, input, history, output
<1> QED
    BY <1>1, <1>2, <1>3, <1>4, <1>8 DEF TypeOK, CheckLimit, Reads, AfterRejection

\* WriteExpired marks the challenge expired.
LEMMA WriteExpiredEffect ==
    ASSUME TypeOK, NEW h \in Handlers, WriteExpired(h)
    PROVE  /\ TypeOK' /\ pc[h] = "expire" /\ SetsStatus(h, "expired") /\ SharedKeeps
           /\ Gone(h)
<1>1. pc[h] = "expire" /\ pc[h] \in Serving /\ Writes
    BY DEF WriteExpired, Serving, Verifying, Beginning
<1>2. SetsStatus(h, "expired") /\ challenges' \in [Challenges -> ChallengeType]
    <2>1. req[h].c \in Challenges /\ "expired" \in Resolved
        BY <1>1, ServingRequest DEF TypeOK, LocalTyped, Resolved
    <2>2. SetsStatus(h, "expired")
        BY <2>1, StatusEffect DEF TypeOK, WriteExpired
    <2> QED
        BY <2>2 DEF SetsStatus, OtherRecords
<1>3. Return(h) => LocalTyped' /\ Gone(h)
    BY ReturnEffect DEF TypeOK
<1>8. SharedTyped' /\ SharedKeeps
    BY <1>1, <1>2, SharedKept DEF TypeOK, Writes, SharedKeeps, input, history, output
<1> QED
    BY <1>1, <1>2, <1>3, <1>8 DEF TypeOK, WriteExpired

\* WriteExhausted marks the challenge failed.
LEMMA WriteExhaustedEffect ==
    ASSUME TypeOK, NEW h \in Handlers, WriteExhausted(h)
    PROVE  /\ TypeOK' /\ pc[h] = "exhaust" /\ SetsStatus(h, "failed") /\ SharedKeeps
           /\ Gone(h)
<1>1. pc[h] = "exhaust" /\ pc[h] \in Serving /\ Writes
    BY DEF WriteExhausted, Serving, Verifying, Beginning
<1>2. SetsStatus(h, "failed") /\ challenges' \in [Challenges -> ChallengeType]
    <2>1. req[h].c \in Challenges /\ "failed" \in Resolved
        BY <1>1, ServingRequest DEF TypeOK, LocalTyped, Resolved
    <2>2. SetsStatus(h, "failed")
        BY <2>1, StatusEffect DEF TypeOK, WriteExhausted
    <2> QED
        BY <2>2 DEF SetsStatus, OtherRecords
<1>3. Return(h) => LocalTyped' /\ Gone(h)
    BY ReturnEffect DEF TypeOK
<1>8. SharedTyped' /\ SharedKeeps
    BY <1>1, <1>2, SharedKept DEF TypeOK, Writes, SharedKeeps, input, history, output
<1> QED
    BY <1>1, <1>2, <1>3, <1>8 DEF TypeOK, WriteExhausted

\* WriteApproved marks the challenge approved.
LEMMA WriteApprovedEffect ==
    ASSUME TypeOK, NEW h \in Handlers, WriteApproved(h)
    PROVE  /\ TypeOK' /\ pc[h] = "approve" /\ SetsStatus(h, "approved") /\ SharedKeeps
           /\ To(h, "resolve") /\ attempts' = attempts /\ session' = session
<1>1. pc[h] = "approve" /\ pc[h] \in Serving /\ Writes
    BY DEF WriteApproved, Serving, Verifying, Beginning
<1>2. SetsStatus(h, "approved") /\ challenges' \in [Challenges -> ChallengeType]
    <2>1. req[h].c \in Challenges /\ "approved" \in Resolved
        BY <1>1, ServingRequest DEF TypeOK, LocalTyped, Resolved
    <2>2. SetsStatus(h, "approved")
        BY <2>1, StatusEffect DEF TypeOK, WriteApproved
    <2> QED
        BY <2>2 DEF SetsStatus, OtherRecords
<1>3. Goto(h, "resolve") =>
          LocalTyped' /\ To(h, "resolve") /\ attempts' = attempts /\ session' = session
    BY <1>1, GotoEffect DEF TypeOK, Serving, Verifying, Beginning
<1>8. SharedTyped' /\ SharedKeeps
    BY <1>1, <1>2, SharedKept DEF TypeOK, Writes, SharedKeeps, input, history, output
<1> QED
    BY <1>1, <1>2, <1>3, <1>8 DEF TypeOK, WriteApproved

\* WriteResolvedAt stamps the record.
LEMMA WriteResolvedAtEffect ==
    ASSUME TypeOK, NEW h \in Handlers, WriteResolvedAt(h)
    PROVE  /\ TypeOK' /\ pc[h] = "resolve" /\ SetsResolvedAt /\ SharedKeeps
           /\ To(h, "auditVerified") /\ attempts' = attempts /\ session' = session
<1>1. pc[h] = "resolve" /\ pc[h] \in Serving /\ Writes
    BY DEF WriteResolvedAt, Serving, Verifying, Beginning
<1>2. SetsResolvedAt /\ challenges' \in [Challenges -> ChallengeType]
    <2>1. req[h].c \in Challenges /\ TRUE
        BY <1>1, ServingRequest DEF TypeOK, LocalTyped, Resolved
    <2>2. SetsResolvedAt
        BY <2>1, ResolvedAtEffect DEF TypeOK, WriteResolvedAt
    <2> QED
        BY <2>2 DEF SetsResolvedAt, OtherRecords
<1>3. Goto(h, "auditVerified") =>
          LocalTyped' /\ To(h, "auditVerified") /\ attempts' = attempts /\ session' = session
    BY <1>1, GotoEffect DEF TypeOK, Serving, Verifying, Beginning
<1>8. SharedTyped' /\ SharedKeeps
    BY <1>1, <1>2, SharedKept DEF TypeOK, Writes, SharedKeeps, input, history, output
<1> QED
    BY <1>1, <1>2, <1>3, <1>8 DEF TypeOK, WriteResolvedAt

\* WriteFailed marks the challenge failed.
LEMMA WriteFailedEffect ==
    ASSUME TypeOK, NEW h \in Handlers, WriteFailed(h)
    PROVE  /\ TypeOK' /\ pc[h] = "fail" /\ SetsStatus(h, "failed") /\ SharedKeeps
           /\ \/ req[h].kind \in Pushes /\ Gone(h)
              \/ req[h].kind \notin Pushes /\ To(h, "auditFailed")
<1>1. pc[h] = "fail" /\ pc[h] \in Serving /\ Writes
    BY DEF WriteFailed, Serving, Verifying, Beginning
<1>2. SetsStatus(h, "failed") /\ challenges' \in [Challenges -> ChallengeType]
    <2>1. req[h].c \in Challenges /\ "failed" \in Resolved
        BY <1>1, ServingRequest DEF TypeOK, LocalTyped, Resolved
    <2>2. SetsStatus(h, "failed")
        BY <2>1, StatusEffect DEF TypeOK, WriteFailed
    <2> QED
        BY <2>2 DEF SetsStatus, OtherRecords
<1>3. Return(h) => LocalTyped' /\ Gone(h)
    BY ReturnEffect DEF TypeOK
<1>4. Goto(h, "auditFailed") =>
          LocalTyped' /\ To(h, "auditFailed") /\ attempts' = attempts /\ session' = session
    BY <1>1, GotoEffect DEF TypeOK, Serving, Verifying, Beginning
<1>8. SharedTyped' /\ SharedKeeps
    BY <1>1, <1>2, SharedKept DEF TypeOK, Writes, SharedKeeps, input, history, output
<1> QED
    BY <1>1, <1>2, <1>3, <1>4, <1>8 DEF TypeOK, WriteFailed, AfterRejection

\* ClearSession forgets the ceremony.
LEMMA ClearSessionEffect ==
    ASSUME TypeOK, NEW h \in Handlers, ClearSession(h)
    PROVE  /\ TypeOK' /\ pc[h] = "clear" /\ SetsSession(h, 0) /\ SharedKeeps
           /\ To(h, "check") /\ attempts' = attempts /\ session' = session
<1>1. pc[h] = "clear" /\ pc[h] \in Serving /\ Writes
    BY DEF ClearSession, Serving, Verifying, Beginning
<1>2. SetsSession(h, 0) /\ challenges' \in [Challenges -> ChallengeType]
    <2>1. req[h].c \in Challenges /\ 0 \in Nat
        BY <1>1, ServingRequest DEF TypeOK, LocalTyped, Resolved
    <2>2. SetsSession(h, 0)
        BY <2>1, SessionEffect DEF TypeOK, ClearSession
    <2> QED
        BY <2>2 DEF SetsSession, OtherRecords
<1>3. Goto(h, "check") =>
          LocalTyped' /\ To(h, "check") /\ attempts' = attempts /\ session' = session
    BY <1>1, GotoEffect DEF TypeOK, Serving, Verifying, Beginning
<1>8. SharedTyped' /\ SharedKeeps
    BY <1>1, <1>2, SharedKept DEF TypeOK, Writes, SharedKeeps, input, history, output
<1> QED
    BY <1>1, <1>2, <1>3, <1>8 DEF TypeOK, ClearSession

\* StoreAttempts stores one more than what the handler loaded.
LEMMA StoreAttemptsEffect ==
    ASSUME TypeOK, NEW h \in Handlers, StoreAttempts(h)
    PROVE  /\ TypeOK' /\ pc[h] = "store" /\ SetsAttempts(h, attempts[h] + 1) /\ SharedKeeps
           /\ \/ req[h].kind = "finish" /\ To(h, "take")
              \/ req[h].kind # "finish" /\ To(h, "check")
<1>1. pc[h] = "store" /\ pc[h] \in Serving /\ Writes
    BY DEF StoreAttempts, Serving, Verifying, Beginning
<1>2. SetsAttempts(h, attempts[h] + 1) /\ challenges' \in [Challenges -> ChallengeType]
    <2>1. req[h].c \in Challenges /\ attempts[h] + 1 \in Nat
        BY SMTT(30), <1>1, ServingRequest DEF TypeOK, LocalTyped, Resolved
    <2>2. SetsAttempts(h, attempts[h] + 1)
        BY <2>1, AttemptsEffect DEF TypeOK, StoreAttempts
    <2> QED
        BY <2>2 DEF SetsAttempts, OtherRecords
<1>3. Goto(h, "take") =>
          LocalTyped' /\ To(h, "take") /\ attempts' = attempts /\ session' = session
    BY <1>1, GotoEffect DEF TypeOK, Serving, Verifying, Beginning
<1>4. Goto(h, "check") =>
          LocalTyped' /\ To(h, "check") /\ attempts' = attempts /\ session' = session
    BY <1>1, GotoEffect DEF TypeOK, Serving, Verifying, Beginning
<1>8. SharedTyped' /\ SharedKeeps
    BY <1>1, <1>2, SharedKept DEF TypeOK, Writes, SharedKeeps, input, history, output
<1> QED
    BY <1>1, <1>2, <1>3, <1>4, <1>8 DEF TypeOK, StoreAttempts

\* LoadAttempts reads the counter into the handler's register.
LEMMA LoadAttemptsEffect ==
    ASSUME TypeOK, NEW h \in Handlers, LoadAttempts(h)
    PROVE  /\ TypeOK' /\ pc[h] = "load" /\ challenges' = challenges /\ SharedKeeps
           /\ To(h, "store") /\ attempts'[h] = Ch(h).Attempts
<1>1. pc[h] = "load" /\ pc[h] \in Serving /\ Reads /\ "store" \in Serving
    BY DEF LoadAttempts, Serving, Verifying, Beginning
<1>2. Ch(h).Attempts \in Nat
    BY <1>1, ServingRequest DEF TypeOK, SharedTyped, ChallengeType, Ch
<1>3. /\ attempts' \in [Handlers -> Nat] /\ attempts'[h] = Ch(h).Attempts
      /\ \A g \in Handlers : g # h => attempts'[g] = attempts[g]
    BY <1>2 DEF LoadAttempts, TypeOK, LocalTyped
<1>4. /\ pc' = [pc EXCEPT ![h] = "store"] /\ req' = req /\ session' = session
      /\ session \in [Handlers -> Nat]
    BY DEF LoadAttempts, TypeOK, LocalTyped
<1>5. LocalTyped'
    BY <1>1, <1>3, <1>4, MoveTyped DEF TypeOK
<1>6. To(h, "store")
    BY <1>3, <1>4 DEF TypeOK, LocalTyped, To, Frame
<1>8. SharedTyped' /\ SharedKeeps
    BY <1>1, SharedKept DEF TypeOK, SharedTyped, Reads, SharedKeeps, input, history, output
<1> QED
    BY <1>1, <1>3, <1>5, <1>6, <1>8 DEF TypeOK, Reads

\* TakeSession reads the ceremony into the handler's local variable.
LEMMA TakeSessionEffect ==
    ASSUME TypeOK, NEW h \in Handlers, TakeSession(h)
    PROVE  /\ TypeOK' /\ pc[h] = "take" /\ challenges' = challenges /\ SharedKeeps
           /\ To(h, "clear") /\ session'[h] = Ch(h).WebAuthnSession
<1>1. pc[h] = "take" /\ pc[h] \in Serving /\ Reads /\ "clear" \in Serving
    BY DEF TakeSession, Serving, Verifying, Beginning
<1>2. Ch(h).WebAuthnSession \in Nat
    BY <1>1, ServingRequest DEF TypeOK, SharedTyped, ChallengeType, Ch
<1>3. /\ session' \in [Handlers -> Nat] /\ session'[h] = Ch(h).WebAuthnSession
      /\ \A g \in Handlers : g # h => session'[g] = session[g]
    BY <1>2 DEF TakeSession, TypeOK, LocalTyped
<1>4. /\ pc' = [pc EXCEPT ![h] = "clear"] /\ req' = req /\ attempts' = attempts
      /\ attempts \in [Handlers -> Nat]
    BY DEF TakeSession, TypeOK, LocalTyped
<1>5. LocalTyped'
    BY <1>1, <1>3, <1>4, MoveTyped DEF TypeOK
<1>6. To(h, "clear")
    BY <1>3, <1>4 DEF TypeOK, LocalTyped, To, Frame
<1>8. SharedTyped' /\ SharedKeeps
    BY <1>1, SharedKept DEF TypeOK, SharedTyped, Reads, SharedKeeps, input, history, output
<1> QED
    BY <1>1, <1>3, <1>5, <1>6, <1>8 DEF TypeOK, Reads

\* A factor check with outcome o is recorded once.
Records(h, o) ==
    /\ checks'[req[h].c] = checks[req[h].c] \cup {[request |-> req[h], outcome |-> o]}
    /\ checked'[req[h].c][o] = checked[req[h].c][o] + 1
    /\ \A p \in Outcomes : p # o => checked'[req[h].c][p] = checked[req[h].c][p]
    /\ \A d \in Challenges : d # req[h].c => checks'[d] = checks[d] /\ checked'[d] = checked[d]

\* CheckFactor records the check; a valid factor leads to the approval.
LEMMA CheckFactorEffect ==
    ASSUME TypeOK, NEW h \in Handlers, KindOK(h), CheckFactor(h)
    PROVE  /\ TypeOK' /\ pc[h] = "check" /\ challenges' = challenges
           /\ UNCHANGED <<expired, started, delivered, logged, announced>>
           /\ \A k \in 1..MaxCeremonies : consumed'[k] =
                 consumed[k] + (IF req[h].kind = "finish" /\ session[h] = k THEN 1 ELSE 0)
           /\ \/ Valid(h) /\ Records(h, "approved") /\ To(h, "approve")
              \/ req[h].kind \in Pushes /\ Records(h, "unaudited") /\ (Gone(h) \/ To(h, "limit"))
              \/ req[h].kind \notin Pushes /\ Records(h, "rejected") /\ To(h, "limit")
<1>1. pc[h] = "check" /\ pc[h] \in Serving
    BY DEF CheckFactor, Serving, Verifying, Beginning
<1>2. req[h] \in RequestType /\ req[h].c \in Challenges
    BY <1>1, ServingRequest DEF TypeOK
<1>3. Outcome(h) \in Outcomes
    BY DEF Outcome, Outcomes
<1>4. PICK o \in Outcomes : o = Outcome(h)
    BY <1>3
<1>5. PICK k : k = [request |-> req[h], outcome |-> o]
    OBVIOUS
<1>6. k \in [request : RequestType, outcome : Outcomes]
    BY <1>2, <1>5
<1>7. checks' = [checks EXCEPT ![req[h].c] = @ \cup {k}]
    BY <1>4, <1>5 DEF CheckFactor
<1>8. checked' = [checked EXCEPT ![req[h].c][o] = @ + 1]
    BY <1>4 DEF CheckFactor
<1>9. Records(h, o)
    BY <1>2, <1>5, <1>7, <1>8 DEF Records, TypeOK, SharedTyped
<1>10. \A d \in 1..MaxCeremonies : consumed'[d] =
          consumed[d] + (IF req[h].kind = "finish" /\ session[h] = d THEN 1 ELSE 0)
    BY DEF CheckFactor, TypeOK, SharedTyped
<1>11. SharedTyped'
    <2>1. checks' \in [Challenges -> SUBSET [request : RequestType, outcome : Outcomes]]
        BY <1>2, <1>6, <1>7 DEF TypeOK, SharedTyped
    <2>2. checked' \in [Challenges -> [Outcomes -> Nat]]
        BY SMTT(30), <1>2, <1>8 DEF TypeOK, SharedTyped
    <2>3. consumed' \in [1..MaxCeremonies -> Nat]
        <3>1. consumed' = [d \in 1..MaxCeremonies |->
                 consumed[d] + (IF req[h].kind = "finish" /\ session[h] = d THEN 1 ELSE 0)]
            BY DEF CheckFactor, TypeOK, SharedTyped
        <3> QED
            BY SMTT(30), <3>1 DEF TypeOK, SharedTyped
    <2> QED
        BY <2>1, <2>2, <2>3 DEF TypeOK, SharedTyped, CheckFactor, input, output
<1>12. Goto(h, "approve") => LocalTyped' /\ To(h, "approve")
    BY <1>1, GotoEffect DEF TypeOK, Serving, Verifying, Beginning
<1>13. Goto(h, "limit") => LocalTyped' /\ To(h, "limit")
    BY <1>1, GotoEffect DEF TypeOK, Serving, Verifying, Beginning
<1>14. Return(h) => LocalTyped' /\ Gone(h)
    BY ReturnEffect DEF TypeOK
<1>15. /\ challenges' = challenges /\ UNCHANGED <<expired, started, delivered, logged, announced>>
       /\ IF Valid(h) THEN Goto(h, "approve")
          ELSE IF req[h].proof = "mismatch" THEN Return(h) ELSE Goto(h, "limit")
    BY DEF CheckFactor, input, output
<1>16. \/ Valid(h) /\ o = "approved"
       \/ ~Valid(h) /\ req[h].kind \in Pushes /\ o = "unaudited"
       \/ ~Valid(h) /\ req[h].kind \notin Pushes /\ o = "rejected"
    BY <1>4 DEF Outcome
<1>17. req[h].proof = "mismatch" => req[h].kind \in Pushes
    BY <1>1 DEF KindOK
<1> QED
    BY <1>1, <1>9, <1>10, <1>11, <1>12, <1>13, <1>14, <1>15, <1>16, <1>17 DEF TypeOK

\* An event of type t is in the log once more.
Logs(h, t) ==
    /\ logged' \in [Challenges -> [EventTypes -> Nat]]
    /\ logged'[req[h].c][t] = logged[req[h].c][t] + 1
    /\ \A s \in EventTypes : s # t => logged'[req[h].c][s] = logged[req[h].c][s]
    /\ \A d \in Challenges : d # req[h].c => logged'[d] = logged[d]

HistoryKeeps == UNCHANGED <<challenges, expired, started, delivered, checks, checked, consumed>>

\* Log counts one event for the challenge of the request.
LEMMA LogEffect ==
    ASSUME SharedTyped, NEW h \in Handlers, req[h].c \in Challenges, NEW t \in EventTypes,
           Log(h, t)
    PROVE  Logs(h, t)
BY SMTT(30) DEF SharedTyped, Log, Logs

\* AuditCreated logs the creation and returns.
LEMMA AuditCreatedEffect ==
    ASSUME TypeOK, NEW h \in Handlers, AuditCreated(h)
    PROVE  /\ TypeOK' /\ pc[h] = "auditCreated" /\ HistoryKeeps /\ announced' = announced
           /\ Logs(h, "challenge.created") /\ req[h].c \in Challenges /\ Gone(h)
<1>1. pc[h] = "auditCreated" /\ req[h].c \in Challenges
    BY DEF AuditCreated, TypeOK, LocalTyped, ReqTyped
<1>2. Logs(h, "challenge.created")
    BY <1>1, LogEffect DEF AuditCreated, TypeOK, EventTypes
<1>3. LocalTyped' /\ Gone(h)
    BY ReturnEffect DEF AuditCreated, TypeOK
<1>4. HistoryKeeps /\ announced' = announced
    BY DEF AuditCreated, HistoryKeeps, input, history
<1>5. SharedTyped'
    BY <1>2, <1>4 DEF TypeOK, SharedTyped, HistoryKeeps, Logs
<1> QED
    BY <1>1, <1>2, <1>3, <1>4, <1>5 DEF TypeOK

\* Audit logs what the handler found.
LEMMA AuditEffect ==
    ASSUME TypeOK, NEW h \in Handlers, Audit(h)
    PROVE  /\ TypeOK' /\ HistoryKeeps /\ announced' = announced
           /\ \/ /\ pc[h] = "auditVerified" /\ Logs(h, "challenge.verified")
                 /\ To(h, "announce")
              \/ pc[h] = "auditFailed" /\ Logs(h, "challenge.failed") /\ Gone(h)
<1>1. pc[h] \in Serving
    BY DEF Audit, Serving, Verifying, Beginning
<1>2. req[h].c \in Challenges
    BY <1>1, ServingRequest DEF TypeOK
<1>3. HistoryKeeps /\ announced' = announced
    BY DEF Audit, HistoryKeeps, input, history
<1>4. \/ pc[h] = "auditVerified" /\ Log(h, "challenge.verified") /\ Goto(h, "announce")
      \/ pc[h] = "auditFailed" /\ Log(h, "challenge.failed") /\ Return(h)
    BY DEF Audit
<1>5. Goto(h, "announce") => LocalTyped' /\ To(h, "announce")
    BY <1>1, GotoEffect DEF TypeOK, Serving, Verifying, Beginning
<1>6. Return(h) => LocalTyped' /\ Gone(h)
    BY ReturnEffect DEF TypeOK
<1>7. \A t \in EventTypes : Log(h, t) => Logs(h, t)
    BY <1>2, LogEffect DEF TypeOK
<1>8. /\ Log(h, "challenge.verified") => Logs(h, "challenge.verified")
      /\ Log(h, "challenge.failed") => Logs(h, "challenge.failed")
    BY <1>7 DEF EventTypes
<1>9. logged' \in [Challenges -> [EventTypes -> Nat]]
    BY <1>4, <1>8 DEF Logs
<1>10. SharedTyped'
    BY <1>3, <1>9 DEF TypeOK, SharedTyped, HistoryKeeps
<1> QED
    BY <1>3, <1>4, <1>5, <1>6, <1>8, <1>10 DEF TypeOK

\* Announce adds a status to what the bus has heard of the challenge.
LEMMA AnnounceEffect ==
    ASSUME TypeOK, NEW h \in Handlers, Announce(h)
    PROVE  /\ TypeOK' /\ pc[h] = "announce" /\ HistoryKeeps /\ logged' = logged /\ Gone(h)
           /\ \A d \in Challenges : d # req[h].c => announced'[d] = announced[d]
<1>1. pc[h] = "announce" /\ pc[h] \in Serving
    BY DEF Announce, Serving, Verifying, Beginning
<1>2. req[h].c \in Challenges
    BY <1>1, ServingRequest DEF TypeOK
<1>3. LocalTyped' /\ Gone(h)
    BY ReturnEffect DEF Announce, TypeOK
<1>4. HistoryKeeps /\ logged' = logged
    BY DEF Announce, HistoryKeeps, input, history
<1>5. /\ announced' = [d \in Challenges |-> announced'[d]]
      /\ \A d \in Challenges : d # req[h].c => announced'[d] = announced[d]
    BY <1>2 DEF Announce, TypeOK, SharedTyped
<1>6. SharedTyped'
    BY <1>4, <1>5 DEF TypeOK, SharedTyped, HistoryKeeps
<1> QED
    BY <1>1, <1>3, <1>4, <1>5, <1>6 DEF TypeOK

\* BeginCeremony starts a ceremony for the challenge, or returns.
LEMMA BeginCeremonyEffect ==
    ASSUME TypeOK, NEW h \in Handlers, BeginCeremony(h)
    PROVE  /\ TypeOK' /\ pc[h] = "ceremony" /\ challenges' = challenges
           /\ UNCHANGED <<expired, delivered, checks, checked, consumed, logged, announced>>
           /\ \/ /\ started' = Append(started, req[h].c) /\ session'[h] = Len(started) + 1
                 /\ To(h, "storeSession")
              \/ started' = started /\ Gone(h)
<1>1. pc[h] = "ceremony" /\ pc[h] \in Serving /\ "storeSession" \in Serving
    BY DEF BeginCeremony, Serving, Verifying, Beginning
<1>2. req[h].c \in Challenges
    BY <1>1, ServingRequest DEF TypeOK
<1>3. /\ challenges' = challenges
      /\ UNCHANGED <<expired, delivered, checks, checked, consumed, logged, announced>>
    BY DEF BeginCeremony, history, output
<1>4. CASE allowsMethod(h, "webauthn") /\ req[h].proof = "good"
    <2>1. started' = Append(started, req[h].c) /\ session' = [session EXCEPT ![h] = Len(started')]
        BY <1>4 DEF BeginCeremony
    <2>2. /\ pc' = [pc EXCEPT ![h] = "storeSession"] /\ req' = req /\ attempts' = attempts
          /\ attempts \in [Handlers -> Nat]
        BY <1>4 DEF BeginCeremony, TypeOK, LocalTyped
    <2>3. started' \in Seq(Challenges) /\ Len(started') = Len(started) + 1 /\ Len(started') \in Nat
        BY SMTT(30), <1>2, <2>1 DEF TypeOK, SharedTyped
    <2>4. /\ session' \in [Handlers -> Nat] /\ session'[h] = Len(started) + 1
          /\ \A g \in Handlers : g # h => session'[g] = session[g]
        BY <2>1, <2>3 DEF TypeOK, LocalTyped
    <2>5. LocalTyped'
        BY <1>1, <2>2, <2>4, MoveTyped DEF TypeOK
    <2>6. To(h, "storeSession")
        BY <2>2, <2>4 DEF TypeOK, LocalTyped, To, Frame
    <2>7. SharedTyped'
        BY <1>3, <2>3 DEF TypeOK, SharedTyped
    <2> QED
        BY <1>1, <1>3, <2>1, <2>4, <2>5, <2>6, <2>7 DEF TypeOK
<1>5. CASE ~(allowsMethod(h, "webauthn") /\ req[h].proof = "good")
    <2>1. Return(h) /\ started' = started
        BY <1>5 DEF BeginCeremony
    <2>2. LocalTyped' /\ Gone(h)
        BY <2>1, ReturnEffect DEF TypeOK
    <2>3. SharedTyped'
        BY <1>3, <2>1 DEF TypeOK, SharedTyped
    <2> QED
        BY <1>1, <1>3, <2>1, <2>2, <2>3 DEF TypeOK
<1> QED
    BY <1>4, <1>5

\* StoreSession puts the handler's ceremony into the record.
LEMMA StoreSessionEffect ==
    ASSUME TypeOK, NEW h \in Handlers, StoreSession(h)
    PROVE  /\ TypeOK' /\ pc[h] = "storeSession" /\ SetsSession(h, session[h]) /\ Gone(h)
           /\ UNCHANGED <<expired, started, checks, checked, consumed, logged, announced>>
           /\ delivered' = delivered \cup {session[h]}
<1>1. pc[h] = "storeSession" /\ pc[h] \in Serving
    BY DEF StoreSession, Serving, Verifying, Beginning
<1>2. req[h].c \in Challenges /\ session[h] \in Nat
    BY <1>1, ServingRequest DEF TypeOK, LocalTyped
<1>3. LocalTyped' /\ Gone(h)
    BY ReturnEffect DEF StoreSession, TypeOK
<1>4. SetsSession(h, session[h])
    BY <1>2, SessionEffect DEF StoreSession, TypeOK
<1>5. /\ UNCHANGED <<expired, started, checks, checked, consumed, logged, announced>>
      /\ delivered' = delivered \cup {session[h]}
    BY DEF StoreSession, history, output
<1>6. SharedTyped'
    BY <1>2, <1>4, <1>5 DEF TypeOK, SharedTyped, SetsSession, OtherRecords
<1> QED
    BY <1>1, <1>3, <1>4, <1>5, <1>6 DEF TypeOK

\* Create makes a pending record and leaves the handler before its audit event.
LEMMA CreateEffect ==
    ASSUME TypeOK, NEW h \in Handlers, NEW c \in Challenges, NEW methods \in MethodSets,
           Create(h, c, methods)
    PROVE  /\ TypeOK' /\ pc[h] = "idle" /\ challenges[c].Status = "none"
           /\ challenges'[c].Status = "pending" /\ challenges'[c].Attempts = 0
           /\ challenges'[c].WebAuthnSession = 0
           /\ \A d \in Challenges : d # c => challenges'[d] = challenges[d]
           /\ SharedKeeps /\ Frame(h) /\ pc'[h] = "auditCreated"
<1>1. pc[h] = "idle" /\ challenges[c].Status = "none" /\ SharedKeeps
    BY DEF Create, SharedKeeps, input, history, output
<1>2. PICK r : r = [NoChallenge EXCEPT !.Status = "pending", !.Methods = methods]
    OBVIOUS
<1>3. r = [Status |-> "pending", Methods |-> methods, Attempts |-> 0, WebAuthnSession |-> 0,
           ResolvedAt |-> FALSE]
    BY <1>2 DEF NoChallenge
<1>4. r \in ChallengeType /\ r.Status = "pending" /\ r.Attempts = 0 /\ r.WebAuthnSession = 0
    BY <1>3 DEF ChallengeType
<1>5. challenges' = [challenges EXCEPT ![c] = r]
    BY <1>2 DEF Create
<1>6. /\ challenges' \in [Challenges -> ChallengeType] /\ challenges'[c] = r
      /\ \A d \in Challenges : d # c => challenges'[d] = challenges[d]
    BY <1>4, <1>5 DEF TypeOK, SharedTyped
<1>7. LocalTyped' /\ Frame(h) /\ pc'[h] = "auditCreated"
    <2>1. PICK q : q = [kind |-> "create", c |-> c]
        OBVIOUS
    <2>2. q.c \in Challenges
        BY <2>1
    <2>3. /\ pc' = [pc EXCEPT ![h] = "auditCreated"] /\ req' = [req EXCEPT ![h] = q]
          /\ UNCHANGED <<attempts, session>>
        BY <2>1 DEF Create
    <2> QED
        BY <2>2, <2>3, TakeUpEffect DEF TypeOK
<1>8. SharedTyped'
    BY <1>6, SharedKept DEF TypeOK, Create, input
<1> QED
    BY <1>1, <1>4, <1>6, <1>7, <1>8 DEF TypeOK

\* The request of Arrive.
Arriving(kind, c, proof, ceremony) ==
    [kind |-> kind, c |-> c, proof |-> proof, ceremony |-> ceremony,
     late |-> c \in expired, stale |-> challenges[c].Status \in Resolved]

\* Arrive hands the request to an idle handler.
LEMMA ArriveEffect ==
    ASSUME TypeOK, NEW h \in Handlers, NEW kind \in Kinds, NEW c \in Challenges,
           NEW proof \in {"good", "bad", "mismatch"}, NEW ceremony \in Nat,
           Arrive(h, kind, c, proof, ceremony)
    PROVE  /\ TypeOK' /\ pc[h] = "idle" /\ challenges[c].Status # "none"
           /\ challenges' = challenges /\ SharedKeeps
           /\ Frame(h) /\ pc'[h] = "status" /\ req'[h] = Arriving(kind, c, proof, ceremony)
<1>1. pc[h] = "idle" /\ challenges[c].Status # "none" /\ challenges' = challenges /\ SharedKeeps
    BY DEF Arrive, SharedKeeps, history, output
<1>2. PICK r : r = Arriving(kind, c, proof, ceremony)
    OBVIOUS
<1>3. r \in RequestType
    <2>1. (c \in expired) \in BOOLEAN /\ (challenges[c].Status \in Resolved) \in BOOLEAN
        BY SMTT(30)
    <2> QED
        BY <1>2, <2>1 DEF Arriving, RequestType
<1>4. /\ pc' = [pc EXCEPT ![h] = "status"] /\ req' = [req EXCEPT ![h] = r]
      /\ UNCHANGED <<attempts, session>>
    BY <1>2 DEF Arrive, Arriving
<1>5. LocalTyped' /\ Frame(h) /\ pc'[h] = "status" /\ req'[h] = r
    BY <1>3, <1>4, TakeUpEffect DEF TypeOK
<1>6. SharedTyped'
    BY <1>1, SharedKept DEF TypeOK, SharedTyped, SharedKeeps, history, output
<1> QED
    BY <1>1, <1>2, <1>5, <1>6 DEF TypeOK

\* The requests of the four endpoints.
Arrives(h) ==
    \E kind \in Kinds, c \in Challenges, proof \in {"good", "bad", "mismatch"}, ceremony \in Nat :
        /\ proof = "mismatch" => kind \in Pushes
        /\ kind = "finish" /\ proof = "good" => ceremony \in delivered
        /\ Arrive(h, kind, c, proof, ceremony)

\* Whichever endpoint a request comes to, it arrives as one of these.
LEMMA EndpointsArrive ==
    ASSUME TypeOK, NEW h \in Handlers, NEW c \in Challenges,
           \/ handleChallengeVerify(h, c) \/ handleApproveChallenge(h, c)
           \/ handleChallengeWebAuthnBegin(h, c) \/ handleChallengeWebAuthnFinish(h, c)
    PROVE  Arrives(h)
<1>1. /\ "totp" \in Kinds /\ "push" \in Kinds /\ "approve" \in Kinds /\ "begin" \in Kinds
      /\ "finish" \in Kinds /\ 0 \in Nat /\ "push" \in Pushes /\ "approve" \in Pushes
    BY DEF Kinds, Pushes
<1>2. CASE handleChallengeVerify(h, c)
    BY <1>1, <1>2 DEF handleChallengeVerify, Arrives
<1>3. CASE handleApproveChallenge(h, c)
    BY <1>1, <1>3 DEF handleApproveChallenge, Arrives
<1>4. CASE handleChallengeWebAuthnBegin(h, c)
    BY <1>1, <1>4 DEF handleChallengeWebAuthnBegin, Arrives
<1>5. CASE handleChallengeWebAuthnFinish(h, c)
    <2>1. CASE Arrive(h, "finish", c, "bad", 0)
        BY <1>1, <2>1 DEF Arrives
    <2>2. CASE \E ceremony \in delivered : Arrive(h, "finish", c, "good", ceremony)
        <3>1. PICK ceremony \in delivered : Arrive(h, "finish", c, "good", ceremony)
            BY <2>2
        <3>2. ceremony \in Nat
            BY <3>1 DEF TypeOK, SharedTyped
        <3> QED
            BY <1>1, <3>1, <3>2 DEF Arrives
    <2> QED
        BY <1>5, <2>1, <2>2 DEF handleChallengeWebAuthnFinish
<1> QED
    BY <1>2, <1>3, <1>4, <1>5

-----------------------------------------------------------------------------
(* The gates: Open is preserved.                                            *)

\* A status never becomes "none" again, and a resolved one stays resolved.
StatusMoves ==
    \A c \in Challenges :
        /\ challenges[c].Status # "none" => challenges'[c].Status # "none"
        /\ challenges[c].Status \in Resolved => challenges'[c].Status \in Resolved

ChecksGrow == \A c \in Challenges : checks[c] \subseteq checks'[c]

\* A step of h keeps Open when it keeps it for h, and moves status and history forward.
LEMMA OpenKept ==
    ASSUME TypeOK, Open, NEW h \in Handlers, Frame(h), StatusMoves, expired \subseteq expired',
           ChecksGrow, ApprovalWasOpen', KindOK(h)', OpenFor(h)'
    PROVE  Open'
<1>1. SUFFICES ASSUME NEW g \in Handlers, g # h
               PROVE  KindOK(g)' /\ OpenFor(g)'
    BY <1>1 DEF Open
<1>2. pc'[g] = pc[g] /\ req'[g] = req[g] /\ KindOK(g) /\ OpenFor(g)
    BY <1>1 DEF Frame, Open
<1>3. pc[g] \in Serving => req[g].c \in Challenges
    BY ServingRequest DEF TypeOK
<1>4. KindOK(g)'
    BY <1>2 DEF KindOK
<1>5. OpenFor(g)'
    BY <1>2, <1>3 DEF OpenFor, StatusMoves, ChecksGrow, ApprovedCheck
<1> QED
    BY <1>4, <1>5

\* An idle handler knows nothing.
LEMMA IdleOpen ==
    ASSUME NEW h \in Handlers, pc'[h] \notin Serving
    PROVE  KindOK(h)' /\ OpenFor(h)'
BY DEF KindOK, OpenFor

\* What a handler knows when it moves on from one label to another.
LEMMA ToOpen ==
    ASSUME TypeOK, Open, NEW h \in Handlers, pc[h] \in Serving, NEW label \in Serving, To(h, label),
           StatusMoves, expired' = expired, ChecksGrow,
           pc[h] = "status" => ~req[h].stale,
           label \in Verifying => pc[h] \in Verifying \/ (req[h].kind # "begin" /\ ~req[h].late),
           label \in Beginning => pc[h] \in Beginning \/ (req[h].kind = "begin" /\ ~req[h].late),
           label \in {"session", "take", "clear"} =>
               pc[h] \in {"session", "take", "clear"} \/ req[h].kind = "finish",
           label = "auditFailed" => req[h].kind \notin Pushes,
           label = "approve" => ApprovedCheck(req[h].c)'
    PROVE  KindOK(h)' /\ OpenFor(h)'
<1>1. pc'[h] = label /\ req'[h] = req[h] /\ KindOK(h) /\ OpenFor(h)
    BY DEF To, Open
<1>2. req[h].c \in Challenges
    BY ServingRequest DEF TypeOK
<1>3. KindOK(h)'
    BY SMTT(30), <1>1 DEF KindOK
<1>4. OpenFor(h)'
    <2>1. ~req[h].stale /\ (req[h].late => req[h].c \in expired')
        BY <1>1 DEF OpenFor
    <2>2. challenges'[req[h].c].Status # "none"
        BY <1>1, <1>2 DEF OpenFor, StatusMoves
    <2>3. pc'[h] \in Verifying \cup Beginning => ~req[h].late
        BY <1>1 DEF OpenFor
    <2>4. pc'[h] = "approve" => ApprovedCheck(req[h].c)'
        BY <1>1
    <2> QED
        BY <1>1, <2>1, <2>2, <2>3, <2>4 DEF OpenFor, ApprovedCheck
<1> QED
    BY <1>3, <1>4

\* No check and no approval is new.
LEMMA ApprovalKept ==
    ASSUME TypeOK, Open, checks' = checks,
           \A c \in Challenges :
               challenges'[c].Status = "approved" => challenges[c].Status = "approved"
    PROVE  ApprovalWasOpen'
BY DEF Open, ApprovalWasOpen

\* Reads and writes of other fields than Status move nothing.
LEMMA StatusKept ==
    ASSUME \A c \in Challenges : challenges'[c].Status = challenges[c].Status, checks' = checks
    PROVE  /\ StatusMoves /\ ChecksGrow
           /\ \A c \in Challenges :
                 challenges'[c].Status = "approved" => challenges[c].Status = "approved"
BY DEF StatusMoves, ChecksGrow

\* A write of Status resolves the challenge.
LEMMA StatusSet ==
    ASSUME TypeOK, NEW h \in Handlers, pc[h] \in Serving, NEW v \in Resolved, SetsStatus(h, v),
           checks' = checks
    PROVE  /\ StatusMoves /\ ChecksGrow
           /\ \A c \in Challenges :
                 challenges'[c].Status = "approved" =>
                     challenges[c].Status = "approved" \/ (c = req[h].c /\ v = "approved")
<1>1. req[h].c \in Challenges
    BY ServingRequest DEF TypeOK
<1>2. \A c \in Challenges :
          \/ c # req[h].c /\ challenges'[c].Status = challenges[c].Status
          \/ c = req[h].c /\ challenges'[c].Status = v
    BY <1>1 DEF SetsStatus, OtherRecords
<1> QED
    BY <1>2 DEF StatusMoves, ChecksGrow, Resolved

\* Every step of a handler keeps Open.
LEMMA StepOpen ==
    ASSUME TypeOK, Open, NEW h \in Handlers, Step(h)
    PROVE  TypeOK' /\ Open'
<1>1. KindOK(h) /\ OpenFor(h)
    BY DEF Open
<1>2. CASE AuditCreated(h)
    <2>1. TypeOK' /\ HistoryKeeps /\ Gone(h)
        BY <1>2, AuditCreatedEffect
    <2>2. StatusMoves /\ ChecksGrow /\ ApprovalWasOpen'
        BY <2>1, StatusKept, ApprovalKept DEF HistoryKeeps
    <2> QED
        BY <2>1, <2>2, OpenKept, IdleOpen DEF Gone, HistoryKeeps, Serving, Verifying, Beginning
<1>3. CASE CheckStatus(h)
    <2>1. /\ TypeOK' /\ pc[h] = "status" /\ challenges' = challenges /\ SharedKeeps
          /\ (Ch(h).Status = "pending" /\ To(h, "expiry")) \/ Gone(h)
        BY <1>3, CheckStatusEffect
    <2>2. StatusMoves /\ ChecksGrow /\ ApprovalWasOpen' /\ expired' = expired
        BY <2>1, StatusKept, ApprovalKept DEF SharedKeeps
    <2>3. CASE Gone(h)
        BY <2>1, <2>2, <2>3, OpenKept, IdleOpen DEF Gone, Serving, Verifying, Beginning
    <2>4. CASE Ch(h).Status = "pending" /\ To(h, "expiry")
        <3>1. ~req[h].stale
            BY <1>1, <2>1, <2>4 DEF OpenFor, Ch, Resolved, Serving
        <3>2. KindOK(h)' /\ OpenFor(h)'
            BY <2>1, <2>2, <2>4, <3>1, ToOpen DEF Serving, Verifying, Beginning
        <3> QED
            BY <2>1, <2>2, <2>4, <3>2, OpenKept DEF To
    <2> QED
        BY <2>1, <2>3, <2>4
<1>4. CASE CheckExpiry(h)
    <2>1. /\ TypeOK' /\ pc[h] = "expiry" /\ challenges' = challenges /\ SharedKeeps
          /\ \/ To(h, "expire")
             \/ req[h].c \notin expired /\ req[h].kind = "begin" /\ To(h, "ceremony")
             \/ req[h].c \notin expired /\ req[h].kind # "begin" /\ To(h, "attempts")
        BY <1>4, CheckExpiryEffect
    <2>2. StatusMoves /\ ChecksGrow /\ ApprovalWasOpen' /\ expired' = expired
        BY <2>1, StatusKept, ApprovalKept DEF SharedKeeps
    <2>3. req[h].c \notin expired => ~req[h].late
        BY <1>1, <2>1 DEF OpenFor, Serving
    <2>4. KindOK(h)' /\ OpenFor(h)'
        <3>1. CASE To(h, "expire")
            BY <2>1, <2>2, <3>1, ToOpen DEF Serving, Verifying, Beginning
        <3>2. CASE req[h].c \notin expired /\ req[h].kind = "begin" /\ To(h, "ceremony")
            BY <2>1, <2>2, <2>3, <3>2, ToOpen DEF Serving, Verifying, Beginning
        <3>3. CASE req[h].c \notin expired /\ req[h].kind # "begin" /\ To(h, "attempts")
            BY <2>1, <2>2, <2>3, <3>3, ToOpen DEF Serving, Verifying, Beginning
        <3> QED
            BY <2>1, <3>1, <3>2, <3>3
    <2> QED
        BY <2>1, <2>2, <2>4, OpenKept DEF To
<1>5. CASE WriteExpired(h)
    <2>1. TypeOK' /\ pc[h] = "expire" /\ SetsStatus(h, "expired") /\ SharedKeeps /\ Gone(h)
        BY <1>5, WriteExpiredEffect
    <2>2. StatusMoves /\ ChecksGrow /\ ApprovalWasOpen' /\ expired' = expired
        <3>1. pc[h] \in Serving /\ "expired" \in Resolved /\ checks' = checks /\ expired' = expired
            BY <2>1 DEF Serving, Resolved, SharedKeeps
        <3> QED
            BY <2>1, <3>1, StatusSet, ApprovalKept
    <2> QED
        BY <2>1, <2>2, OpenKept, IdleOpen DEF Gone, Serving, Verifying, Beginning
<1>6. CASE CheckAttempts(h)
    <2>1. /\ TypeOK' /\ pc[h] = "attempts" /\ challenges' = challenges /\ SharedKeeps
          /\ \/ To(h, "exhaust")
             \/ req[h].kind = "finish" /\ To(h, "session")
             \/ To(h, "load")
        BY <1>6, CheckAttemptsEffect
    <2>2. StatusMoves /\ ChecksGrow /\ ApprovalWasOpen' /\ expired' = expired
        BY <2>1, StatusKept, ApprovalKept DEF SharedKeeps
    <2>4. KindOK(h)' /\ OpenFor(h)'
        <3>1. CASE To(h, "exhaust")
            BY <2>1, <2>2, <3>1, ToOpen DEF Serving, Verifying, Beginning
        <3>2. CASE req[h].kind = "finish" /\ To(h, "session")
            BY <2>1, <2>2, <3>2, ToOpen DEF Serving, Verifying, Beginning
        <3>3. CASE To(h, "load")
            BY <2>1, <2>2, <3>3, ToOpen DEF Serving, Verifying, Beginning
        <3> QED
            BY <2>1, <3>1, <3>2, <3>3
    <2> QED
        BY <2>1, <2>2, <2>4, OpenKept DEF To
<1>7. CASE WriteExhausted(h)
    <2>1. TypeOK' /\ pc[h] = "exhaust" /\ SetsStatus(h, "failed") /\ SharedKeeps /\ Gone(h)
        BY <1>7, WriteExhaustedEffect
    <2>2. StatusMoves /\ ChecksGrow /\ ApprovalWasOpen' /\ expired' = expired
        <3>1. /\ pc[h] \in Serving /\ "failed" \in Resolved /\ checks' = checks
              /\ expired' = expired
            BY <2>1 DEF Serving, Verifying, Resolved, SharedKeeps
        <3> QED
            BY <2>1, <3>1, StatusSet, ApprovalKept
    <2> QED
        BY <2>1, <2>2, OpenKept, IdleOpen DEF Gone, Serving, Verifying, Beginning
<1>8. CASE CheckSession(h)
    <2>1. /\ TypeOK' /\ pc[h] = "session" /\ challenges' = challenges /\ SharedKeeps
          /\ To(h, "load") \/ Gone(h)
        BY <1>8, CheckSessionEffect
    <2>2. StatusMoves /\ ChecksGrow /\ ApprovalWasOpen' /\ expired' = expired
        BY <2>1, StatusKept, ApprovalKept DEF SharedKeeps
    <2>3. CASE Gone(h)
        BY <2>1, <2>2, <2>3, OpenKept, IdleOpen DEF Gone, Serving, Verifying, Beginning
    <2>4. CASE To(h, "load")
        <3>2. KindOK(h)' /\ OpenFor(h)'
            BY <2>1, <2>2, <2>4, ToOpen DEF Serving, Verifying, Beginning
        <3> QED
            BY <2>1, <2>2, <2>4, <3>2, OpenKept DEF To
    <2> QED
        BY <2>1, <2>3, <2>4
<1>9. CASE LoadAttempts(h)
    <2>1. /\ TypeOK' /\ pc[h] = "load" /\ challenges' = challenges /\ SharedKeeps
          /\ To(h, "store")
        BY <1>9, LoadAttemptsEffect
    <2>2. StatusMoves /\ ChecksGrow /\ ApprovalWasOpen' /\ expired' = expired
        BY <2>1, StatusKept, ApprovalKept DEF SharedKeeps
    <2>3. KindOK(h)' /\ OpenFor(h)'
        BY <2>1, <2>2, ToOpen DEF Serving, Verifying, Beginning
    <2> QED
        BY <2>1, <2>2, <2>3, OpenKept DEF To
<1>10. CASE StoreAttempts(h)
    <2>1. /\ TypeOK' /\ pc[h] = "store" /\ SetsAttempts(h, attempts[h] + 1) /\ SharedKeeps
          /\ (req[h].kind = "finish" /\ To(h, "take")) \/ To(h, "check")
        BY <1>10, StoreAttemptsEffect
    <2>2. StatusMoves /\ ChecksGrow /\ ApprovalWasOpen' /\ expired' = expired
        BY <2>1, StatusKept, ApprovalKept DEF SharedKeeps, SetsAttempts
    <2>3. KindOK(h)' /\ OpenFor(h)'
        <3>1. CASE req[h].kind = "finish" /\ To(h, "take")
            BY <2>1, <2>2, <3>1, ToOpen DEF Serving, Verifying, Beginning
        <3>2. CASE To(h, "check")
            BY <2>1, <2>2, <3>2, ToOpen DEF Serving, Verifying, Beginning
        <3> QED
            BY <2>1, <3>1, <3>2
    <2> QED
        BY <2>1, <2>2, <2>3, OpenKept DEF To
<1>11. CASE TakeSession(h)
    <2>1. /\ TypeOK' /\ pc[h] = "take" /\ challenges' = challenges /\ SharedKeeps
          /\ To(h, "clear")
        BY <1>11, TakeSessionEffect
    <2>2. StatusMoves /\ ChecksGrow /\ ApprovalWasOpen' /\ expired' = expired
        BY <2>1, StatusKept, ApprovalKept DEF SharedKeeps
    <2>3. KindOK(h)' /\ OpenFor(h)'
        BY <2>1, <2>2, ToOpen DEF Serving, Verifying, Beginning
    <2> QED
        BY <2>1, <2>2, <2>3, OpenKept DEF To
<1>12. CASE ClearSession(h)
    <2>1. TypeOK' /\ pc[h] = "clear" /\ SetsSession(h, 0) /\ SharedKeeps /\ To(h, "check")
        BY <1>12, ClearSessionEffect
    <2>2. StatusMoves /\ ChecksGrow /\ ApprovalWasOpen' /\ expired' = expired
        BY <2>1, StatusKept, ApprovalKept DEF SharedKeeps, SetsSession
    <2>3. KindOK(h)' /\ OpenFor(h)'
        BY <2>1, <2>2, ToOpen DEF Serving, Verifying, Beginning
    <2> QED
        BY <2>1, <2>2, <2>3, OpenKept DEF To
<1>13. CASE CheckFactor(h)
    <2>1. /\ TypeOK' /\ pc[h] = "check" /\ challenges' = challenges /\ expired' = expired
          /\ \/ Records(h, "approved") /\ To(h, "approve")
             \/ Records(h, "unaudited") /\ (Gone(h) \/ To(h, "limit"))
             \/ Records(h, "rejected") /\ To(h, "limit")
        BY <1>1, <1>13, CheckFactorEffect
    <2>2. PICK o : Records(h, o) /\ (To(h, "approve") => o = "approved" \/ pc'[h] = "limit")
        BY <2>1 DEF To, Gone
    <2>3. PICK k : k = [request |-> req[h], outcome |-> o]
        OBVIOUS
    <2>4. pc[h] \in Serving /\ req[h].c \in Challenges /\ ~req[h].late /\ ~req[h].stale
        BY <1>1, <2>1, ServingRequest DEF OpenFor, TypeOK, Serving, Verifying
    <2>5. \A c \in Challenges : \/ checks'[c] = checks[c]
                                \/ c = req[h].c /\ checks'[c] = checks[c] \cup {k}
        BY <2>2, <2>3 DEF Records
    <2>6. k \in checks'[req[h].c] /\ k.outcome = o /\ ~k.request.late /\ ~k.request.stale
        BY <2>2, <2>3, <2>4 DEF Records
    <2>7. StatusMoves /\ ChecksGrow
        BY <2>1, <2>5 DEF StatusMoves, ChecksGrow
    <2>8. ApprovalWasOpen'
        BY <2>1, <2>5, <2>6 DEF Open, ApprovalWasOpen
    <2>9. CASE Gone(h)
        BY <2>1, <2>7, <2>8, <2>9, OpenKept, IdleOpen DEF Gone, Serving, Verifying, Beginning
    <2>10. CASE To(h, "limit")
        <3>1. KindOK(h)' /\ OpenFor(h)'
            BY <2>1, <2>7, <2>10, ToOpen DEF Serving, Verifying, Beginning
        <3> QED
            BY <2>1, <2>7, <2>8, <2>10, <3>1, OpenKept DEF To
    <2>11. CASE To(h, "approve")
        <3>1. ApprovedCheck(req[h].c)'
            <4>1. o = "approved"
                BY <2>2, <2>11 DEF To
            <4>2. req'[h] = req[h]
                BY <2>11 DEF To
            <4> QED
                BY <2>6, <4>1, <4>2 DEF ApprovedCheck
        <3>2. KindOK(h)' /\ OpenFor(h)'
            BY <2>1, <2>7, <2>11, <3>1, ToOpen DEF Serving, Verifying, Beginning
        <3> QED
            BY <2>1, <2>7, <2>8, <2>11, <3>2, OpenKept DEF To
    <2> QED
        BY <2>1, <2>9, <2>10, <2>11
<1>14. CASE WriteApproved(h)
    <2>1. /\ TypeOK' /\ pc[h] = "approve" /\ SetsStatus(h, "approved") /\ SharedKeeps
          /\ To(h, "resolve")
        BY <1>14, WriteApprovedEffect
    <2>2. pc[h] \in Serving /\ "approved" \in Resolved /\ checks' = checks /\ expired' = expired
        BY <2>1 DEF Serving, Verifying, Resolved, SharedKeeps
    <2>3. /\ StatusMoves /\ ChecksGrow
          /\ \A c \in Challenges : challenges'[c].Status = "approved" =>
                 challenges[c].Status = "approved" \/ c = req[h].c
        BY <2>1, <2>2, StatusSet
    <2>4. ApprovedCheck(req[h].c)
        BY <1>1, <2>1, <2>2 DEF OpenFor
    <2>5. ApprovalWasOpen'
        BY <2>2, <2>3, <2>4 DEF Open, ApprovalWasOpen, ApprovedCheck
    <2>6. KindOK(h)' /\ OpenFor(h)'
        BY <2>1, <2>2, <2>3, ToOpen DEF Serving, Verifying, Beginning
    <2> QED
        BY <2>1, <2>2, <2>3, <2>5, <2>6, OpenKept DEF To
<1>15. CASE WriteResolvedAt(h)
    <2>1. TypeOK' /\ pc[h] = "resolve" /\ SetsResolvedAt /\ SharedKeeps /\ To(h, "auditVerified")
        BY <1>15, WriteResolvedAtEffect
    <2>2. StatusMoves /\ ChecksGrow /\ ApprovalWasOpen' /\ expired' = expired
        BY <2>1, StatusKept, ApprovalKept DEF SharedKeeps, SetsResolvedAt
    <2>3. KindOK(h)' /\ OpenFor(h)'
        BY <2>1, <2>2, ToOpen DEF Serving, Verifying, Beginning
    <2> QED
        BY <2>1, <2>2, <2>3, OpenKept DEF To
<1>16. CASE CheckLimit(h)
    <2>1. /\ TypeOK' /\ pc[h] = "limit" /\ challenges' = challenges /\ SharedKeeps
          /\ To(h, "fail") \/ Gone(h) \/ (req[h].kind \notin Pushes /\ To(h, "auditFailed"))
        BY <1>16, CheckLimitEffect
    <2>2. StatusMoves /\ ChecksGrow /\ ApprovalWasOpen' /\ expired' = expired
        BY <2>1, StatusKept, ApprovalKept DEF SharedKeeps
    <2>3. KindOK(h)' /\ OpenFor(h)' /\ Frame(h)
        <3>1. CASE To(h, "fail")
            BY <2>1, <2>2, <3>1, ToOpen DEF Serving, Verifying, Beginning, To
        <3>2. CASE Gone(h)
            BY <3>2, IdleOpen DEF Gone, Serving, Verifying, Beginning
        <3>3. CASE req[h].kind \notin Pushes /\ To(h, "auditFailed")
            BY <2>1, <2>2, <3>3, ToOpen DEF Serving, Verifying, Beginning, To
        <3> QED
            BY <2>1, <3>1, <3>2, <3>3
    <2> QED
        BY <2>1, <2>2, <2>3, OpenKept
<1>17. CASE WriteFailed(h)
    <2>1. /\ TypeOK' /\ pc[h] = "fail" /\ SetsStatus(h, "failed") /\ SharedKeeps
          /\ Gone(h) \/ (req[h].kind \notin Pushes /\ To(h, "auditFailed"))
        BY <1>17, WriteFailedEffect
    <2>2. pc[h] \in Serving /\ "failed" \in Resolved /\ checks' = checks /\ expired' = expired
        BY <2>1 DEF Serving, Verifying, Resolved, SharedKeeps
    <2>3. StatusMoves /\ ChecksGrow /\ ApprovalWasOpen'
        BY <2>1, <2>2, StatusSet, ApprovalKept
    <2>4. KindOK(h)' /\ OpenFor(h)' /\ Frame(h)
        <3>2. CASE Gone(h)
            BY <3>2, IdleOpen DEF Gone, Serving, Verifying, Beginning
        <3>3. CASE req[h].kind \notin Pushes /\ To(h, "auditFailed")
            BY <2>1, <2>2, <2>3, <3>3, ToOpen DEF Serving, Verifying, Beginning, To
        <3> QED
            BY <2>1, <3>2, <3>3
    <2> QED
        BY <2>1, <2>2, <2>3, <2>4, OpenKept
<1>18. CASE Audit(h)
    <2>1. /\ TypeOK' /\ HistoryKeeps
          /\ (pc[h] = "auditVerified" /\ To(h, "announce")) \/ Gone(h)
        BY <1>18, AuditEffect
    <2>2. StatusMoves /\ ChecksGrow /\ ApprovalWasOpen' /\ expired' = expired
        BY <2>1, StatusKept, ApprovalKept DEF HistoryKeeps
    <2>3. KindOK(h)' /\ OpenFor(h)' /\ Frame(h)
        <3>1. CASE pc[h] = "auditVerified" /\ To(h, "announce")
            BY <2>1, <2>2, <3>1, ToOpen DEF Serving, Verifying, Beginning, To
        <3>2. CASE Gone(h)
            BY <3>2, IdleOpen DEF Gone, Serving, Verifying, Beginning
        <3> QED
            BY <2>1, <3>1, <3>2
    <2> QED
        BY <2>1, <2>2, <2>3, OpenKept
<1>19. CASE Announce(h)
    <2>1. TypeOK' /\ HistoryKeeps /\ Gone(h)
        BY <1>19, AnnounceEffect
    <2>2. StatusMoves /\ ChecksGrow /\ ApprovalWasOpen' /\ expired' = expired
        BY <2>1, StatusKept, ApprovalKept DEF HistoryKeeps
    <2> QED
        BY <2>1, <2>2, OpenKept, IdleOpen DEF Gone, Serving, Verifying, Beginning
<1>20. CASE BeginCeremony(h)
    <2>1. /\ TypeOK' /\ pc[h] = "ceremony" /\ challenges' = challenges /\ checks' = checks
          /\ expired' = expired /\ (To(h, "storeSession") \/ Gone(h))
        BY <1>20, BeginCeremonyEffect
    <2>2. StatusMoves /\ ChecksGrow /\ ApprovalWasOpen'
        BY <2>1, StatusKept, ApprovalKept
    <2>3. KindOK(h)' /\ OpenFor(h)' /\ Frame(h)
        <3>1. CASE To(h, "storeSession")
            BY <2>1, <2>2, <3>1, ToOpen DEF Serving, Verifying, Beginning, To
        <3>2. CASE Gone(h)
            BY <3>2, IdleOpen DEF Gone, Serving, Verifying, Beginning
        <3> QED
            BY <2>1, <3>1, <3>2
    <2> QED
        BY <2>1, <2>2, <2>3, OpenKept
<1>21. CASE StoreSession(h)
    <2>1. /\ TypeOK' /\ SetsSession(h, session[h]) /\ Gone(h)
          /\ checks' = checks /\ expired' = expired
        BY <1>21, StoreSessionEffect
    <2>2. StatusMoves /\ ChecksGrow /\ ApprovalWasOpen'
        BY <2>1, StatusKept, ApprovalKept DEF SetsSession
    <2> QED
        BY <2>1, <2>2, OpenKept, IdleOpen DEF Gone, Serving, Verifying, Beginning
<1> QED
    BY <1>2, <1>3, <1>4, <1>5, <1>6, <1>7, <1>8, <1>9, <1>10, <1>11, <1>12, <1>13, <1>14, <1>15,
       <1>16, <1>17, <1>18, <1>19, <1>20, <1>21 DEF Step

-----------------------------------------------------------------------------
(* Counting handlers.                                                       *)

\* What the proofs need to know of the sizes of finite sets: how the number of handlers in
\* a set changes when only h may enter or leave it.  CountingHolds proves it; as an
\* assumption here, it keeps the library of finite sets out of every obligation.
Counting ==
    /\ Cardinality({}) = 0
    /\ \A S, T \in SUBSET Handlers, h \in Handlers :
          (\A g \in Handlers : g # h => (g \in S <=> g \in T)) =>
              /\ Cardinality(S) \in Nat /\ Cardinality(T) \in Nat
              /\ (h \in S <=> h \in T) => Cardinality(T) = Cardinality(S)
              /\ (h \notin S /\ h \in T) => Cardinality(T) = Cardinality(S) + 1
              /\ (h \in S /\ h \notin T) => Cardinality(S) = Cardinality(T) + 1

\* The handlers with an unlogged success on c.
LEMMA VMoves ==
    ASSUME Counting, NEW h \in Handlers, Frame(h), NEW c \in Challenges
    PROVE  /\ Cardinality(VSet(c)) \in Nat /\ Cardinality(VSet(c))' \in Nat
           /\ (Verifies(h, c) <=> Verifies(h, c)') => Cardinality(VSet(c))' = Cardinality(VSet(c))
           /\ (~Verifies(h, c) /\ Verifies(h, c)') =>
                  Cardinality(VSet(c))' = Cardinality(VSet(c)) + 1
           /\ (Verifies(h, c) /\ ~Verifies(h, c)') =>
                  Cardinality(VSet(c)) = Cardinality(VSet(c))' + 1
<1>1. PICK S, T : S = VSet(c) /\ T = VSet(c)'
    OBVIOUS
<1>2. \A g \in Handlers : (g \in S <=> Verifies(g, c)) /\ (g \in T <=> Verifies(g, c)')
    BY <1>1 DEF VSet
<1>3. \A g \in Handlers : g # h => (Verifies(g, c) <=> Verifies(g, c)')
    BY DEF Frame, Verifies
<1>4. S \in SUBSET Handlers /\ T \in SUBSET Handlers
    BY <1>1 DEF VSet
<1>5. \A g \in Handlers : g # h => (g \in S <=> g \in T)
    BY <1>2, <1>3
<1>6. /\ Cardinality(S) \in Nat /\ Cardinality(T) \in Nat
      /\ (h \in S <=> h \in T) => Cardinality(T) = Cardinality(S)
      /\ (h \notin S /\ h \in T) => Cardinality(T) = Cardinality(S) + 1
      /\ (h \in S /\ h \notin T) => Cardinality(S) = Cardinality(T) + 1
    BY <1>4, <1>5 DEF Counting
<1> QED
    BY <1>1, <1>2, <1>6

\* The handlers with an unlogged failure on c.
LEMMA FMoves ==
    ASSUME Counting, NEW h \in Handlers, Frame(h), NEW c \in Challenges
    PROVE  /\ Cardinality(FSet(c)) \in Nat /\ Cardinality(FSet(c))' \in Nat
           /\ (Fails(h, c) <=> Fails(h, c)') => Cardinality(FSet(c))' = Cardinality(FSet(c))
           /\ (~Fails(h, c) /\ Fails(h, c)') =>
                  Cardinality(FSet(c))' = Cardinality(FSet(c)) + 1
           /\ (Fails(h, c) /\ ~Fails(h, c)') =>
                  Cardinality(FSet(c)) = Cardinality(FSet(c))' + 1
<1>1. PICK S, T : S = FSet(c) /\ T = FSet(c)'
    OBVIOUS
<1>2. \A g \in Handlers : (g \in S <=> Fails(g, c)) /\ (g \in T <=> Fails(g, c)')
    BY <1>1 DEF FSet
<1>3. \A g \in Handlers : g # h => (Fails(g, c) <=> Fails(g, c)')
    BY DEF Frame, Fails
<1>4. S \in SUBSET Handlers /\ T \in SUBSET Handlers
    BY <1>1 DEF FSet
<1>5. \A g \in Handlers : g # h => (g \in S <=> g \in T)
    BY <1>2, <1>3
<1>6. /\ Cardinality(S) \in Nat /\ Cardinality(T) \in Nat
      /\ (h \in S <=> h \in T) => Cardinality(T) = Cardinality(S)
      /\ (h \notin S /\ h \in T) => Cardinality(T) = Cardinality(S) + 1
      /\ (h \in S /\ h \notin T) => Cardinality(S) = Cardinality(T) + 1
    BY <1>4, <1>5 DEF Counting
<1> QED
    BY <1>1, <1>2, <1>6

\* The handlers about to check a factor of c.
LEMMA AMoves ==
    ASSUME Counting, NEW h \in Handlers, Frame(h), NEW c \in Challenges
    PROVE  /\ Cardinality(ASet(c)) \in Nat /\ Cardinality(ASet(c))' \in Nat
           /\ (Attempts(h, c) <=> Attempts(h, c)') => Cardinality(ASet(c))' = Cardinality(ASet(c))
           /\ (~Attempts(h, c) /\ Attempts(h, c)') =>
                  Cardinality(ASet(c))' = Cardinality(ASet(c)) + 1
           /\ (Attempts(h, c) /\ ~Attempts(h, c)') =>
                  Cardinality(ASet(c)) = Cardinality(ASet(c))' + 1
<1>1. PICK S, T : S = ASet(c) /\ T = ASet(c)'
    OBVIOUS
<1>2. \A g \in Handlers : (g \in S <=> Attempts(g, c)) /\ (g \in T <=> Attempts(g, c)')
    BY <1>1 DEF ASet
<1>3. \A g \in Handlers : g # h => (Attempts(g, c) <=> Attempts(g, c)')
    BY DEF Frame, Attempts
<1>4. S \in SUBSET Handlers /\ T \in SUBSET Handlers
    BY <1>1 DEF ASet
<1>5. \A g \in Handlers : g # h => (g \in S <=> g \in T)
    BY <1>2, <1>3
<1>6. /\ Cardinality(S) \in Nat /\ Cardinality(T) \in Nat
      /\ (h \in S <=> h \in T) => Cardinality(T) = Cardinality(S)
      /\ (h \notin S /\ h \in T) => Cardinality(T) = Cardinality(S) + 1
      /\ (h \in S /\ h \notin T) => Cardinality(S) = Cardinality(T) + 1
    BY <1>4, <1>5 DEF Counting
<1> QED
    BY <1>1, <1>2, <1>6

\* Made, with the handlers in ASet.
LEMMA MadeIs ==
    ASSUME NEW c \in Challenges
    PROVE  Made(c) = checked[c]["approved"] + checked[c]["rejected"] + checked[c]["unaudited"]
                         + Cardinality(ASet(c))
<1>1. ASet(c) = {h \in Handlers : pc[h] \in {"take", "clear", "check"} /\ req[h].c = c}
    BY DEF ASet, Attempts
<1> QED
    BY <1>1 DEF Made

\* Made after a step, with the handlers in ASet.
LEMMA MadeIsNext ==
    ASSUME NEW c \in Challenges
    PROVE  Made(c)' = checked'[c]["approved"] + checked'[c]["rejected"] + checked'[c]["unaudited"]
                          + Cardinality(ASet(c))'
<1>1. ASet(c)' = {h \in Handlers : pc'[h] \in {"take", "clear", "check"} /\ req'[h].c = c}
    BY DEF ASet, Attempts
<1> QED
    BY <1>1 DEF Made

\* What counters and types say of a challenge.
LEMMA CountersNat ==
    ASSUME SharedTyped, NEW c \in Challenges
    PROVE  /\ checked[c]["approved"] \in Nat /\ checked[c]["rejected"] \in Nat
           /\ checked[c]["unaudited"] \in Nat
           /\ logged[c]["challenge.verified"] \in Nat /\ logged[c]["challenge.failed"] \in Nat
           /\ challenges[c].Attempts \in Nat /\ challenges[c].WebAuthnSession \in Nat
           /\ challenges[c].Status \in {"none", "pending"} \cup Resolved
<1>1. checked[c] \in [Outcomes -> Nat] /\ logged[c] \in [EventTypes -> Nat]
    BY DEF SharedTyped
<1>2. challenges[c] \in ChallengeType
    BY DEF SharedTyped
<1>3. /\ challenges[c].Attempts \in Nat /\ challenges[c].WebAuthnSession \in Nat
      /\ challenges[c].Status \in {"none", "pending"} \cup Resolved
    BY <1>2 DEF ChallengeType
<1> QED
    BY <1>1, <1>3 DEF Outcomes, EventTypes

\* A step without a factor check makes an attempt only by entering ASet.
LEMMA MadeMoves ==
    ASSUME Counting, SharedTyped, NEW h \in Handlers, Frame(h), NEW c \in Challenges,
           checked' = checked
    PROVE  /\ Made(c) \in Nat /\ Made(c)' \in Nat
           /\ (Attempts(h, c) <=> Attempts(h, c)') => Made(c)' = Made(c)
           /\ (~Attempts(h, c) /\ Attempts(h, c)') => Made(c)' = Made(c) + 1
<1>1. PICK n \in Nat : n = checked[c]["approved"] + checked[c]["rejected"] + checked[c]["unaudited"]
    BY SMTT(30), CountersNat
<1>2. PICK i, j : i = Cardinality(ASet(c)) /\ j = Cardinality(ASet(c))'
    OBVIOUS
<1>3. /\ i \in Nat /\ j \in Nat
      /\ (Attempts(h, c) <=> Attempts(h, c)') => j = i
      /\ (~Attempts(h, c) /\ Attempts(h, c)') => j = i + 1
    BY <1>2, AMoves
<1>4. Made(c) = n + i /\ Made(c)' = n + j
    BY <1>1, <1>2, MadeIs, MadeIsNext
<1> QED
    BY SMTT(30), <1>3, <1>4

\* A factor check is the attempt that was about to be made.
LEMMA MadeChecked ==
    ASSUME Counting, SharedTyped, NEW h \in Handlers, Frame(h), NEW c \in Challenges,
           NEW o \in Outcomes,
           pc[h] = "check", pc'[h] \notin {"take", "clear", "check"}, Records(h, o)
    PROVE  Made(c) \in Nat /\ Made(c)' = Made(c)
<1>1. CASE c = req[h].c
    <2>1. Cardinality(ASet(c)) = Cardinality(ASet(c))' + 1 /\ Cardinality(ASet(c))' \in Nat
        <3>1. Attempts(h, c) /\ ~Attempts(h, c)'
            BY <1>1 DEF Attempts
        <3> QED
            BY <3>1, AMoves
    <2>2. checked'[c]["approved"] + checked'[c]["rejected"] + checked'[c]["unaudited"] =
          checked[c]["approved"] + checked[c]["rejected"] + checked[c]["unaudited"] + 1
        <3>1. /\ checked'[c][o] = checked[c][o] + 1
              /\ \A p \in Outcomes : p # o => checked'[c][p] = checked[c][p]
            BY <1>1 DEF Records
        <3>2. CASE o = "approved"
            BY SMTT(30), <3>1, <3>2, CountersNat DEF Outcomes
        <3>3. CASE o = "rejected"
            BY SMTT(30), <3>1, <3>3, CountersNat DEF Outcomes
        <3>4. CASE o = "unaudited"
            BY SMTT(30), <3>1, <3>4, CountersNat DEF Outcomes
        <3> QED
            BY <3>2, <3>3, <3>4 DEF Outcomes
    <2> QED
        BY SMTT(30), <2>1, <2>2, MadeIs, MadeIsNext, CountersNat
<1>2. CASE c # req[h].c
    <2>1. ~Attempts(h, c) /\ ~Attempts(h, c)'
        BY <1>2 DEF Attempts
    <2>2. Cardinality(ASet(c))' = Cardinality(ASet(c)) /\ Cardinality(ASet(c)) \in Nat
        BY <2>1, AMoves
    <2>3. checked'[c] = checked[c]
        BY <1>2 DEF Records
    <2> QED
        BY SMTT(30), <2>2, <2>3, MadeIs, MadeIsNext, CountersNat
<1> QED
    BY <1>1, <1>2

\* A step of h keeps CountsOnlyMade when Made does not fall and h obeys it.
LEMMA CountsKept ==
    ASSUME TypeOK, CountsOnlyMade, NEW h \in Handlers, Frame(h),
           \A c \in Challenges : /\ Made(c) \in Nat /\ Made(c)' \in Nat /\ Made(c)' >= Made(c)
                                 /\ challenges'[c].Attempts <= Made(c)'
                                 /\ challenges'[c].Status = "failed" =>
                                        challenges[c].Status = "failed" \/ Made(c)' >= MaxAttempts,
           pc'[h] = "store" => \E c \in Challenges : req'[h].c = c /\ attempts'[h] <= Made(c)',
           pc'[h] \in {"exhaust", "fail"} =>
               \E c \in Challenges : req'[h].c = c /\ Made(c)' >= MaxAttempts
    PROVE  CountsOnlyMade'
<1>0. MaxAttempts \in Nat
    BY ConstantsAssumption
<1>1. FailsAfterAttempts'
    BY SMTT(30), <1>0 DEF CountsOnlyMade, FailsAfterAttempts
<1>2. ASSUME NEW g \in Handlers, pc'[g] = "store"
      PROVE  (attempts[g] <= Made(req[g].c))'
    <2>1. CASE g = h
        BY <1>2, <2>1
    <2>2. CASE g # h
        <3>1. pc[g] = "store" /\ req'[g] = req[g] /\ attempts'[g] = attempts[g]
            BY <1>2, <2>2 DEF Frame
        <3>2. PICK c \in Challenges : c = req[g].c
            BY <3>1, ServingRequest DEF TypeOK, Serving, Verifying
        <3>3. attempts[g] <= Made(c) /\ attempts[g] \in Nat
            BY <3>1, <3>2 DEF CountsOnlyMade, TypeOK, LocalTyped
        <3>4. attempts'[g] <= Made(c)' /\ c = req'[g].c
            BY SMTT(30), <3>1, <3>2, <3>3
        <3> QED
            BY <3>4
    <2> QED
        BY <2>1, <2>2
<1>3. ASSUME NEW g \in Handlers, pc'[g] \in {"exhaust", "fail"}
      PROVE  (Made(req[g].c) >= MaxAttempts)'
    <2>1. CASE g = h
        BY <1>3, <2>1
    <2>2. CASE g # h
        <3>1. pc[g] \in {"exhaust", "fail"} /\ req'[g] = req[g]
            BY <1>3, <2>2 DEF Frame
        <3>2. PICK c \in Challenges : c = req[g].c
            BY <3>1, ServingRequest DEF TypeOK, Serving, Verifying
        <3>3. Made(c) >= MaxAttempts
            BY <3>1, <3>2 DEF CountsOnlyMade
        <3>4. Made(c)' >= MaxAttempts /\ c = req'[g].c
            BY SMTT(30), <1>0, <3>1, <3>2, <3>3
        <3> QED
            BY <3>4
    <2> QED
        BY <2>1, <2>2
<1> QED
    BY <1>1, <1>2, <1>3 DEF CountsOnlyMade

-----------------------------------------------------------------------------
(* The accounts: Accounts and CountsOnlyMade are preserved.                  *)

\* Which of the three sets a handler at the label may be in.
Group(label) ==
    IF label \in {"approve", "resolve", "auditVerified"} THEN "verifies"
    ELSE IF label \in {"limit", "fail", "auditFailed"} THEN "fails"
    ELSE IF label \in {"take", "clear", "check"} THEN "attempts" ELSE "none"

\* h enters and leaves none of the sets.
Unmoved(h) ==
    \A c \in Challenges : /\ Verifies(h, c) <=> Verifies(h, c)'
                          /\ Fails(h, c) <=> Fails(h, c)'
                          /\ Attempts(h, c) <=> Attempts(h, c)'

\* A move within a group.
LEMMA UnmovedTo ==
    ASSUME NEW h \in Handlers, NEW label, To(h, label), Group(pc[h]) = Group(label)
    PROVE  Unmoved(h) /\ Frame(h)
BY DEF To, Unmoved, Group, Verifies, Fails, Attempts

\* A return from outside the groups, or of a rejected push.
LEMMA UnmovedGone ==
    ASSUME NEW h \in Handlers, Gone(h),
           \/ Group(pc[h]) = "none"
           \/ Group(pc[h]) = "fails" /\ req[h].kind \in Pushes
    PROVE  Unmoved(h) /\ Frame(h)
BY DEF Gone, Unmoved, Group, Verifies, Fails, Attempts, Pushes

\* The accounts after a step of h.
LEMMA AccountsKept ==
    ASSUME TypeOK, SharedTyped', Accounts, NEW h \in Handlers, Frame(h),
           \A c \in Challenges :
               /\ checked'[c]["approved"] = logged'[c]["challenge.verified"] + Cardinality(VSet(c))'
               /\ checked'[c]["rejected"] = logged'[c]["challenge.failed"] + Cardinality(FSet(c))'
               /\ logged'[c]["challenge.verified"] >= logged[c]["challenge.verified"]
               /\ announced'[c] # {} => announced[c] # {} \/ logged'[c]["challenge.verified"] > 0,
           pc'[h] = "announce" =>
               \E c \in Challenges : req'[h].c = c /\ logged'[c]["challenge.verified"] > 0
    PROVE  Accounts'
<1>1. \A c \in Challenges :
          /\ logged[c]["challenge.verified"] \in Nat /\ logged'[c]["challenge.verified"] \in Nat
          /\ announced[c] # {} => logged[c]["challenge.verified"] > 0
    BY DEF TypeOK, SharedTyped, EventTypes, Accounts
<1>2. \A c \in Challenges : announced'[c] # {} => logged'[c]["challenge.verified"] > 0
    BY SMTT(30), <1>1
<1>3. ASSUME NEW g \in Handlers, pc'[g] = "announce"
      PROVE  logged'[req'[g].c]["challenge.verified"] > 0
    <2>1. CASE g = h
        BY <1>3, <2>1
    <2>2. CASE g # h
        <3>1. pc[g] = "announce" /\ req'[g] = req[g]
            BY <1>3, <2>2 DEF Frame
        <3>2. PICK c \in Challenges : c = req[g].c
            BY <3>1, ServingRequest DEF TypeOK, Serving, Verifying
        <3>3. logged[c]["challenge.verified"] > 0
            BY <3>1, <3>2 DEF Accounts
        <3> QED
            BY SMTT(30), <1>1, <3>1, <3>2, <3>3
    <2> QED
        BY <2>1, <2>2
<1> QED
    BY <1>2, <1>3 DEF Accounts

\* A step that checks nothing, logs nothing and announces nothing.
LEMMA AccountsSame ==
    ASSUME Counting, TypeOK, SharedTyped', Accounts, NEW h \in Handlers, Frame(h), Unmoved(h),
           checked' = checked, logged' = logged, announced' = announced, pc'[h] # "announce"
    PROVE  Accounts'
<1>1. \A c \in Challenges : /\ Cardinality(VSet(c))' = Cardinality(VSet(c))
                            /\ Cardinality(FSet(c))' = Cardinality(FSet(c))
    BY VMoves, FMoves DEF Unmoved
<1>2. \A c \in Challenges : logged[c]["challenge.verified"] \in Nat
    BY DEF TypeOK, SharedTyped, EventTypes
<1>3. \A c \in Challenges :
          /\ checked'[c]["approved"] = logged'[c]["challenge.verified"] + Cardinality(VSet(c))'
          /\ checked'[c]["rejected"] = logged'[c]["challenge.failed"] + Cardinality(FSet(c))'
          /\ logged'[c]["challenge.verified"] >= logged[c]["challenge.verified"]
    BY SMTT(30), <1>1, <1>2 DEF Accounts
<1> QED
    BY <1>3, AccountsKept

\* The step leaves the counters, and marks a challenge failed only where h is about to.
CounterKept(h) ==
    \A c \in Challenges :
        /\ challenges'[c].Attempts = challenges[c].Attempts
        /\ challenges'[c].Status = "failed" =>
               \/ challenges[c].Status = "failed"
               \/ c = req[h].c /\ pc[h] \in {"exhaust", "fail"}

\* A step that makes no attempt, and marks a challenge failed only from the two labels.
LEMMA CountsSame ==
    ASSUME Counting, TypeOK, CountsOnlyMade, NEW h \in Handlers, Frame(h), Unmoved(h),
           checked' = checked,
           CounterKept(h), pc'[h] \notin {"store", "exhaust", "fail"}
    PROVE  CountsOnlyMade'
<1>1. \A c \in Challenges : Made(c) \in Nat /\ Made(c)' = Made(c)
    BY MadeMoves DEF Unmoved, TypeOK
<1>2. \A c \in Challenges : challenges'[c].Attempts <= Made(c)'
    BY <1>1 DEF CountsOnlyMade, FailsAfterAttempts, CounterKept
<1>3. \A c \in Challenges : challenges'[c].Status = "failed" =>
          challenges[c].Status = "failed" \/ Made(c)' >= MaxAttempts
    BY <1>1 DEF CountsOnlyMade, CounterKept
<1> QED
    BY SMTT(30), <1>1, <1>2, <1>3, CountsKept

\* Every step of a handler keeps the accounts.
LEMMA StepAccounts ==
    ASSUME Counting, IInv, NEW h \in Handlers, Step(h)
    PROVE  Accounts' /\ CountsOnlyMade'
<1>0. TypeOK /\ Open /\ Accounts /\ CountsOnlyMade /\ KindOK(h) /\ MaxAttempts \in Nat
    BY ConstantsAssumption DEF IInv, Open
<1>1. \A c \in Challenges : challenges[c].Attempts <= Made(c)
    BY <1>0 DEF CountsOnlyMade, FailsAfterAttempts
<1>2. CASE CheckStatus(h)
    <2>1. TypeOK' /\ pc[h] = "status" /\ challenges' = challenges /\ SharedKeeps
          /\ (To(h, "expiry") \/ Gone(h))
        BY <1>0, <1>2, CheckStatusEffect
    <2>2. Unmoved(h) /\ Frame(h) /\ pc'[h] \notin {"announce", "store", "exhaust", "fail"}
        BY <2>1, UnmovedTo, UnmovedGone DEF Group, To, Gone
    <2>3. checked' = checked /\ logged' = logged /\ announced' = announced
        BY <2>1 DEF SharedKeeps
    <2>4. CounterKept(h)
        BY <2>1 DEF CounterKept
    <2>5. Accounts'
        BY <1>0, <2>1, <2>2, <2>3, AccountsSame DEF TypeOK
    <2> QED
        BY <1>0, <2>2, <2>3, <2>4, <2>5, CountsSame
<1>3. CASE CheckExpiry(h)
    <2>1. TypeOK' /\ pc[h] = "expiry" /\ challenges' = challenges /\ SharedKeeps
          /\ (To(h, "expire") \/ To(h, "ceremony") \/ To(h, "attempts"))
        BY <1>0, <1>3, CheckExpiryEffect
    <2>2. Unmoved(h) /\ Frame(h) /\ pc'[h] \notin {"announce", "store", "exhaust", "fail"}
        BY <2>1, UnmovedTo, UnmovedGone DEF Group, To, Gone
    <2>3. checked' = checked /\ logged' = logged /\ announced' = announced
        BY <2>1 DEF SharedKeeps
    <2>4. CounterKept(h)
        BY <2>1 DEF CounterKept
    <2>5. Accounts'
        BY <1>0, <2>1, <2>2, <2>3, AccountsSame DEF TypeOK
    <2> QED
        BY <1>0, <2>2, <2>3, <2>4, <2>5, CountsSame
<1>4. CASE WriteExpired(h)
    <2>1. TypeOK' /\ pc[h] = "expire" /\ SetsStatus(h, "expired") /\ SharedKeeps
          /\ Gone(h)
        BY <1>0, <1>4, WriteExpiredEffect
    <2>2. Unmoved(h) /\ Frame(h) /\ pc'[h] \notin {"announce", "store", "exhaust", "fail"}
        BY <2>1, UnmovedTo, UnmovedGone DEF Group, To, Gone
    <2>3. checked' = checked /\ logged' = logged /\ announced' = announced
        BY <2>1 DEF SharedKeeps
    <2>4. CounterKept(h)
        BY <2>1 DEF CounterKept, SetsStatus, OtherRecords
    <2>5. Accounts'
        BY <1>0, <2>1, <2>2, <2>3, AccountsSame DEF TypeOK
    <2> QED
        BY <1>0, <2>2, <2>3, <2>4, <2>5, CountsSame
<1>5. CASE WriteExhausted(h)
    <2>1. TypeOK' /\ pc[h] = "exhaust" /\ SetsStatus(h, "failed") /\ SharedKeeps
          /\ Gone(h)
        BY <1>0, <1>5, WriteExhaustedEffect
    <2>2. Unmoved(h) /\ Frame(h) /\ pc'[h] \notin {"announce", "store", "exhaust", "fail"}
        BY <2>1, UnmovedTo, UnmovedGone DEF Group, To, Gone
    <2>3. checked' = checked /\ logged' = logged /\ announced' = announced
        BY <2>1 DEF SharedKeeps
    <2>4. CounterKept(h)
        BY <2>1 DEF CounterKept, SetsStatus, OtherRecords
    <2>5. Accounts'
        BY <1>0, <2>1, <2>2, <2>3, AccountsSame DEF TypeOK
    <2> QED
        BY <1>0, <2>2, <2>3, <2>4, <2>5, CountsSame
<1>6. CASE CheckSession(h)
    <2>1. TypeOK' /\ pc[h] = "session" /\ challenges' = challenges /\ SharedKeeps
          /\ (To(h, "load") \/ Gone(h))
        BY <1>0, <1>6, CheckSessionEffect
    <2>2. Unmoved(h) /\ Frame(h) /\ pc'[h] \notin {"announce", "store", "exhaust", "fail"}
        BY <2>1, UnmovedTo, UnmovedGone DEF Group, To, Gone
    <2>3. checked' = checked /\ logged' = logged /\ announced' = announced
        BY <2>1 DEF SharedKeeps
    <2>4. CounterKept(h)
        BY <2>1 DEF CounterKept
    <2>5. Accounts'
        BY <1>0, <2>1, <2>2, <2>3, AccountsSame DEF TypeOK
    <2> QED
        BY <1>0, <2>2, <2>3, <2>4, <2>5, CountsSame
<1>7. CASE TakeSession(h)
    <2>1. TypeOK' /\ pc[h] = "take" /\ challenges' = challenges /\ SharedKeeps
          /\ To(h, "clear")
        BY <1>0, <1>7, TakeSessionEffect
    <2>2. Unmoved(h) /\ Frame(h) /\ pc'[h] \notin {"announce", "store", "exhaust", "fail"}
        BY <2>1, UnmovedTo, UnmovedGone DEF Group, To, Gone
    <2>3. checked' = checked /\ logged' = logged /\ announced' = announced
        BY <2>1 DEF SharedKeeps
    <2>4. CounterKept(h)
        BY <2>1 DEF CounterKept
    <2>5. Accounts'
        BY <1>0, <2>1, <2>2, <2>3, AccountsSame DEF TypeOK
    <2> QED
        BY <1>0, <2>2, <2>3, <2>4, <2>5, CountsSame
<1>8. CASE ClearSession(h)
    <2>1. TypeOK' /\ pc[h] = "clear" /\ SetsSession(h, 0) /\ SharedKeeps
          /\ To(h, "check")
        BY <1>0, <1>8, ClearSessionEffect
    <2>2. Unmoved(h) /\ Frame(h) /\ pc'[h] \notin {"announce", "store", "exhaust", "fail"}
        BY <2>1, UnmovedTo, UnmovedGone DEF Group, To, Gone
    <2>3. checked' = checked /\ logged' = logged /\ announced' = announced
        BY <2>1 DEF SharedKeeps
    <2>4. CounterKept(h)
        BY <2>1 DEF CounterKept, SetsSession
    <2>5. Accounts'
        BY <1>0, <2>1, <2>2, <2>3, AccountsSame DEF TypeOK
    <2> QED
        BY <1>0, <2>2, <2>3, <2>4, <2>5, CountsSame
<1>9. CASE WriteApproved(h)
    <2>1. TypeOK' /\ pc[h] = "approve" /\ SetsStatus(h, "approved") /\ SharedKeeps
          /\ To(h, "resolve")
        BY <1>0, <1>9, WriteApprovedEffect
    <2>2. Unmoved(h) /\ Frame(h) /\ pc'[h] \notin {"announce", "store", "exhaust", "fail"}
        BY <2>1, UnmovedTo, UnmovedGone DEF Group, To, Gone
    <2>3. checked' = checked /\ logged' = logged /\ announced' = announced
        BY <2>1 DEF SharedKeeps
    <2>4. CounterKept(h)
        BY <2>1 DEF CounterKept, SetsStatus, OtherRecords
    <2>5. Accounts'
        BY <1>0, <2>1, <2>2, <2>3, AccountsSame DEF TypeOK
    <2> QED
        BY <1>0, <2>2, <2>3, <2>4, <2>5, CountsSame
<1>10. CASE WriteResolvedAt(h)
    <2>1. TypeOK' /\ pc[h] = "resolve" /\ SetsResolvedAt /\ SharedKeeps
          /\ To(h, "auditVerified")
        BY <1>0, <1>10, WriteResolvedAtEffect
    <2>2. Unmoved(h) /\ Frame(h) /\ pc'[h] \notin {"announce", "store", "exhaust", "fail"}
        BY <2>1, UnmovedTo, UnmovedGone DEF Group, To, Gone
    <2>3. checked' = checked /\ logged' = logged /\ announced' = announced
        BY <2>1 DEF SharedKeeps
    <2>4. CounterKept(h)
        BY <2>1 DEF CounterKept, SetsResolvedAt
    <2>5. Accounts'
        BY <1>0, <2>1, <2>2, <2>3, AccountsSame DEF TypeOK
    <2> QED
        BY <1>0, <2>2, <2>3, <2>4, <2>5, CountsSame
<1>11. CASE WriteFailed(h)
    <2>1. TypeOK' /\ pc[h] = "fail" /\ SetsStatus(h, "failed") /\ SharedKeeps
          /\ ((req[h].kind \in Pushes /\ Gone(h)) \/ To(h, "auditFailed"))
        BY <1>0, <1>11, WriteFailedEffect
    <2>2. Unmoved(h) /\ Frame(h) /\ pc'[h] \notin {"announce", "store", "exhaust", "fail"}
        BY <2>1, UnmovedTo, UnmovedGone DEF Group, To, Gone
    <2>3. checked' = checked /\ logged' = logged /\ announced' = announced
        BY <2>1 DEF SharedKeeps
    <2>4. CounterKept(h)
        BY <2>1 DEF CounterKept, SetsStatus, OtherRecords
    <2>5. Accounts'
        BY <1>0, <2>1, <2>2, <2>3, AccountsSame DEF TypeOK
    <2> QED
        BY <1>0, <2>2, <2>3, <2>4, <2>5, CountsSame
<1>12. CASE BeginCeremony(h)
    <2>1. /\ TypeOK' /\ pc[h] = "ceremony" /\ challenges' = challenges
          /\ checked' = checked /\ logged' = logged /\ announced' = announced
          /\ To(h, "storeSession") \/ Gone(h)
        BY <1>0, <1>12, BeginCeremonyEffect
    <2>2. Unmoved(h) /\ Frame(h) /\ pc'[h] \notin {"announce", "store", "exhaust", "fail"}
        BY <2>1, UnmovedTo, UnmovedGone DEF Group, To, Gone
    <2>3. Accounts'
        BY <1>0, <2>1, <2>2, AccountsSame DEF TypeOK
    <2> QED
        BY <1>0, <2>1, <2>2, <2>3, CountsSame DEF CounterKept
<1>13. CASE StoreSession(h)
    <2>1. /\ TypeOK' /\ pc[h] = "storeSession" /\ SetsSession(h, session[h]) /\ Gone(h)
          /\ checked' = checked /\ logged' = logged /\ announced' = announced
        BY <1>0, <1>13, StoreSessionEffect
    <2>2. Unmoved(h) /\ Frame(h) /\ pc'[h] \notin {"announce", "store", "exhaust", "fail"}
        BY <2>1, UnmovedGone DEF Group, Gone
    <2>3. Accounts'
        BY <1>0, <2>1, <2>2, AccountsSame DEF TypeOK
    <2> QED
        BY <1>0, <2>1, <2>2, <2>3, CountsSame DEF CounterKept, SetsSession
<1>14. CASE AuditCreated(h)
    <2>1. /\ TypeOK' /\ pc[h] = "auditCreated" /\ HistoryKeeps /\ announced' = announced
          /\ Logs(h, "challenge.created") /\ req[h].c \in Challenges /\ Gone(h)
        BY <1>0, <1>14, AuditCreatedEffect
    <2>2. Unmoved(h) /\ Frame(h) /\ pc'[h] \notin {"announce", "store", "exhaust", "fail"}
        BY <2>1, UnmovedGone DEF Group, Gone
    <2>3. \A c \in Challenges :
              /\ logged'[c]["challenge.verified"] = logged[c]["challenge.verified"]
              /\ logged'[c]["challenge.failed"] = logged[c]["challenge.failed"]
        BY <2>1 DEF Logs, EventTypes
    <2>4. \A c \in Challenges : /\ Cardinality(VSet(c))' = Cardinality(VSet(c))
                                /\ Cardinality(FSet(c))' = Cardinality(FSet(c))
        BY <2>2, VMoves, FMoves DEF Unmoved
    <2>5. \A c \in Challenges :
              /\ checked'[c]["approved"] = logged'[c]["challenge.verified"] + Cardinality(VSet(c))'
              /\ checked'[c]["rejected"] = logged'[c]["challenge.failed"] + Cardinality(FSet(c))'
        BY <1>0, <2>1, <2>3, <2>4 DEF Accounts, HistoryKeeps
    <2>6. \A c \in Challenges :
              logged'[c]["challenge.verified"] >= logged[c]["challenge.verified"]
        BY SMTT(30), <1>0, <2>3, CountersNat DEF TypeOK
    <2>7. Accounts'
        BY <1>0, <2>1, <2>2, <2>5, <2>6, AccountsKept DEF TypeOK
    <2> QED
        BY <1>0, <2>1, <2>2, <2>7, CountsSame DEF CounterKept, HistoryKeeps
<1>15. CASE Announce(h)
    <2>1. /\ TypeOK' /\ pc[h] = "announce" /\ HistoryKeeps /\ logged' = logged /\ Gone(h)
          /\ \A d \in Challenges : d # req[h].c => announced'[d] = announced[d]
        BY <1>0, <1>15, AnnounceEffect
    <2>2. Unmoved(h) /\ Frame(h) /\ pc'[h] \notin {"announce", "store", "exhaust", "fail"}
        BY <2>1, UnmovedGone DEF Group, Gone
    <2>3. logged[req[h].c]["challenge.verified"] > 0
        BY <1>0, <2>1 DEF Accounts
    <2>4. \A c \in Challenges : /\ Cardinality(VSet(c))' = Cardinality(VSet(c))
                                /\ Cardinality(FSet(c))' = Cardinality(FSet(c))
        BY <2>2, VMoves, FMoves DEF Unmoved
    <2>5. \A c \in Challenges :
              /\ checked'[c]["approved"] = logged'[c]["challenge.verified"] + Cardinality(VSet(c))'
              /\ checked'[c]["rejected"] = logged'[c]["challenge.failed"] + Cardinality(FSet(c))'
        BY <1>0, <2>1, <2>4 DEF Accounts, HistoryKeeps
    <2>6. \A c \in Challenges :
              /\ logged'[c]["challenge.verified"] >= logged[c]["challenge.verified"]
              /\ announced'[c] # {} => announced[c] # {} \/ logged'[c]["challenge.verified"] > 0
        BY SMTT(30), <1>0, <2>1, <2>3, CountersNat DEF TypeOK
    <2>7. Accounts'
        BY <1>0, <2>1, <2>2, <2>5, <2>6, AccountsKept DEF TypeOK
    <2> QED
        BY <1>0, <2>1, <2>2, <2>7, CountsSame DEF CounterKept, HistoryKeeps
<1>16. CASE LoadAttempts(h)
    <2>1. /\ TypeOK' /\ pc[h] = "load" /\ challenges' = challenges /\ SharedKeeps
          /\ To(h, "store") /\ attempts'[h] = Ch(h).Attempts
        BY <1>0, <1>16, LoadAttemptsEffect
    <2>2. Unmoved(h) /\ Frame(h) /\ pc'[h] = "store" /\ req'[h] = req[h]
        BY <2>1, UnmovedTo DEF Group, To
    <2>3. checked' = checked /\ logged' = logged /\ announced' = announced
        BY <2>1 DEF SharedKeeps
    <2>4. Accounts'
        BY <1>0, <2>1, <2>2, <2>3, AccountsSame DEF TypeOK
    <2>5. \A c \in Challenges : Made(c) \in Nat /\ Made(c)' = Made(c)
        BY <1>0, <2>2, <2>3, MadeMoves DEF Unmoved, TypeOK
    <2>6. req[h].c \in Challenges
        BY <1>0, <2>1, ServingRequest DEF TypeOK, Serving, Verifying
    <2>7. \E c \in Challenges : req'[h].c = c /\ attempts'[h] <= Made(c)'
        BY <1>1, <2>1, <2>2, <2>5, <2>6 DEF Ch
    <2> QED
        BY SMTT(30), <1>0, <1>1, <2>1, <2>2, <2>4, <2>5, <2>7, CountsKept
<1>17. CASE CheckAttempts(h)
    <2>1. /\ TypeOK' /\ pc[h] = "attempts" /\ challenges' = challenges /\ SharedKeeps
          /\ \/ Ch(h).Attempts >= MaxAttempts /\ To(h, "exhaust")
             \/ To(h, "session") \/ To(h, "load")
        BY <1>0, <1>17, CheckAttemptsEffect
    <2>2. /\ Unmoved(h) /\ Frame(h) /\ req'[h] = req[h]
          /\ pc'[h] \notin {"announce", "store", "fail"}
          /\ pc'[h] = "exhaust" => Ch(h).Attempts >= MaxAttempts
        BY <2>1, UnmovedTo DEF Group, To
    <2>3. checked' = checked /\ logged' = logged /\ announced' = announced
        BY <2>1 DEF SharedKeeps
    <2>4. Accounts'
        BY <1>0, <2>1, <2>2, <2>3, AccountsSame DEF TypeOK
    <2>5. \A c \in Challenges : Made(c) \in Nat /\ Made(c)' = Made(c)
        BY <1>0, <2>2, <2>3, MadeMoves DEF Unmoved, TypeOK
    <2>6. req[h].c \in Challenges /\ Ch(h).Attempts \in Nat
        BY <1>0, <2>1, ServingRequest, CountersNat DEF TypeOK, Serving, Verifying, Ch
    <2>7. Ch(h).Attempts >= MaxAttempts => Made(req[h].c) >= MaxAttempts
        BY SMTT(30), <1>0, <1>1, <2>5, <2>6 DEF Ch
    <2>8. pc'[h] \in {"exhaust", "fail"} =>
              \E c \in Challenges : req'[h].c = c /\ Made(c)' >= MaxAttempts
        BY <2>2, <2>5, <2>6, <2>7
    <2> QED
        BY SMTT(30), <1>0, <1>1, <2>1, <2>2, <2>4, <2>5, <2>8, CountsKept
<1>18. CASE CheckLimit(h)
    <2>1. /\ TypeOK' /\ pc[h] = "limit" /\ challenges' = challenges /\ SharedKeeps
          /\ \/ Ch(h).Attempts >= MaxAttempts /\ To(h, "fail")
             \/ req[h].kind \in Pushes /\ Gone(h)
             \/ To(h, "auditFailed")
        BY <1>0, <1>18, CheckLimitEffect
    <2>2. /\ Unmoved(h) /\ Frame(h) /\ pc'[h] \notin {"announce", "store", "exhaust"}
          /\ pc'[h] = "fail" => Ch(h).Attempts >= MaxAttempts /\ req'[h] = req[h]
        BY <2>1, UnmovedTo, UnmovedGone DEF Group, To, Gone
    <2>3. checked' = checked /\ logged' = logged /\ announced' = announced
        BY <2>1 DEF SharedKeeps
    <2>4. Accounts'
        BY <1>0, <2>1, <2>2, <2>3, AccountsSame DEF TypeOK
    <2>5. \A c \in Challenges : Made(c) \in Nat /\ Made(c)' = Made(c)
        BY <1>0, <2>2, <2>3, MadeMoves DEF Unmoved, TypeOK
    <2>6. req[h].c \in Challenges /\ Ch(h).Attempts \in Nat
        BY <1>0, <2>1, ServingRequest, CountersNat DEF TypeOK, Serving, Verifying, Ch
    <2>7. Ch(h).Attempts >= MaxAttempts => Made(req[h].c) >= MaxAttempts
        BY SMTT(30), <1>0, <1>1, <2>5, <2>6 DEF Ch
    <2>8. pc'[h] \in {"exhaust", "fail"} =>
              \E c \in Challenges : req'[h].c = c /\ Made(c)' >= MaxAttempts
        BY <2>2, <2>5, <2>6, <2>7
    <2> QED
        BY SMTT(30), <1>0, <1>1, <2>1, <2>2, <2>4, <2>5, <2>8, CountsKept
<1>19. CASE StoreAttempts(h)
    <2>1. /\ TypeOK' /\ pc[h] = "store" /\ SetsAttempts(h, attempts[h] + 1) /\ SharedKeeps
          /\ To(h, "take") \/ To(h, "check")
        BY <1>0, <1>19, StoreAttemptsEffect
    <2>2. Frame(h) /\ req'[h] = req[h] /\ pc'[h] \in {"take", "check"}
        BY <2>1 DEF To
    <2>3. checked' = checked /\ logged' = logged /\ announced' = announced
        BY <2>1 DEF SharedKeeps
    <2>4. \A c \in Challenges : ~Verifies(h, c) /\ ~Verifies(h, c)' /\ ~Fails(h, c) /\ ~Fails(h, c)'
        BY <2>1, <2>2 DEF Verifies, Fails
    <2>5. Accounts'
        <3>1. \A c \in Challenges : /\ Cardinality(VSet(c))' = Cardinality(VSet(c))
                                    /\ Cardinality(FSet(c))' = Cardinality(FSet(c))
            BY <2>2, <2>4, VMoves, FMoves
        <3>2. \A c \in Challenges :
              /\ checked'[c]["approved"] = logged'[c]["challenge.verified"] + Cardinality(VSet(c))'
              /\ checked'[c]["rejected"] = logged'[c]["challenge.failed"] + Cardinality(FSet(c))'
            BY <1>0, <2>3, <3>1 DEF Accounts
        <3>3. \A c \in Challenges :
                  logged'[c]["challenge.verified"] >= logged[c]["challenge.verified"]
            BY SMTT(30), <1>0, <2>3, CountersNat DEF TypeOK
        <3> QED
            BY <1>0, <2>1, <2>2, <2>3, <3>2, <3>3, AccountsKept DEF TypeOK
    <2>6. PICK d \in Challenges : d = req[h].c
        BY <1>0, <2>1, ServingRequest DEF TypeOK, Serving, Verifying
    <2>7. \A c \in Challenges : /\ ~Attempts(h, c)
                                /\ Attempts(h, c)' <=> c = d
        BY <2>1, <2>2, <2>6 DEF Attempts
    <2>8. \A c \in Challenges :
              /\ Made(c) \in Nat /\ Made(c)' \in Nat
              /\ c = d => Made(c)' = Made(c) + 1
              /\ c # d => Made(c)' = Made(c)
        BY <1>0, <2>2, <2>3, <2>7, MadeMoves DEF TypeOK
    <2>9. attempts[h] \in Nat /\ attempts[h] <= Made(d)
        BY <1>0, <2>1, <2>6 DEF CountsOnlyMade, TypeOK, LocalTyped
    <2>10. \A c \in Challenges :
               /\ c = d => challenges'[c].Attempts = attempts[h] + 1
               /\ c # d => challenges'[c].Attempts = challenges[c].Attempts
               /\ challenges'[c].Status = challenges[c].Status
        BY <2>1, <2>6 DEF SetsAttempts, OtherRecords
    <2>11. \A c \in Challenges : Made(c)' >= Made(c) /\ challenges'[c].Attempts <= Made(c)'
        BY SMTT(30), <1>1, <2>8, <2>9, <2>10
    <2> QED
        BY <1>0, <2>2, <2>5, <2>8, <2>10, <2>11, CountsKept
<1>20. CASE CheckFactor(h)
    <2>1. /\ TypeOK' /\ pc[h] = "check" /\ challenges' = challenges
          /\ logged' = logged /\ announced' = announced
          /\ \/ Records(h, "approved") /\ To(h, "approve")
             \/ req[h].kind \in Pushes /\ Records(h, "unaudited") /\ (Gone(h) \/ To(h, "limit"))
             \/ req[h].kind \notin Pushes /\ Records(h, "rejected") /\ To(h, "limit")
        BY <1>0, <1>20, CheckFactorEffect
    <2>2. PICK o \in Outcomes :
              /\ Records(h, o) /\ Frame(h)
              /\ o = "approved" => pc'[h] = "approve" /\ req'[h] = req[h]
              /\ o = "rejected" => /\ pc'[h] = "limit" /\ req'[h] = req[h]
                                   /\ req[h].kind \notin Pushes
              /\ o = "unaudited" =>
                     \/ pc'[h] = "idle"
                     \/ pc'[h] = "limit" /\ req'[h] = req[h] /\ req[h].kind \in Pushes
        BY <2>1 DEF To, Gone, Outcomes
    <2>3. PICK d \in Challenges : d = req[h].c
        BY <1>0, <2>1, ServingRequest DEF TypeOK, Serving, Verifying
    <2>4. req[h] \in RequestType /\ req[h].kind # "begin" /\ req[h].kind \in Kinds
        <3>1. req[h] \in RequestType
            BY <1>0, <2>1, ServingRequest DEF TypeOK, Serving, Verifying
        <3> QED
            BY <1>0, <2>1, <3>1 DEF KindOK, RequestType, Serving, Verifying
    <2>5. \A c \in Challenges :
              /\ ~Verifies(h, c) /\ ~Fails(h, c)
              /\ Verifies(h, c)' <=> (c = d /\ o = "approved")
              /\ Fails(h, c)' <=> (c = d /\ o = "rejected")
        <3>1. \A c \in Challenges : ~Verifies(h, c) /\ ~Fails(h, c)
            BY <2>1 DEF Verifies, Fails
        <3>2. CASE o = "approved"
            BY <2>2, <2>3, <2>4, <3>1, <3>2 DEF Verifies, Fails
        <3>3. CASE o = "rejected"
            BY <2>2, <2>3, <2>4, <3>1, <3>3 DEF Verifies, Fails, Kinds, Pushes
        <3>4. CASE o = "unaudited"
            BY <2>2, <2>3, <2>4, <3>1, <3>4 DEF Verifies, Fails, Pushes
        <3> QED
            BY <3>2, <3>3, <3>4 DEF Outcomes
    <2>6. \A c \in Challenges :
              /\ Cardinality(VSet(c)) \in Nat /\ Cardinality(FSet(c)) \in Nat
              /\ Cardinality(VSet(c))' =
                     IF c = d /\ o = "approved" THEN Cardinality(VSet(c)) + 1
                     ELSE Cardinality(VSet(c))
              /\ Cardinality(FSet(c))' =
                     IF c = d /\ o = "rejected" THEN Cardinality(FSet(c)) + 1
                     ELSE Cardinality(FSet(c))
        BY <2>2, <2>5, VMoves, FMoves
    <2>7. \A c \in Challenges :
              /\ checked'[c]["approved"] =
                     IF c = d /\ o = "approved" THEN checked[c]["approved"] + 1
                     ELSE checked[c]["approved"]
              /\ checked'[c]["rejected"] =
                     IF c = d /\ o = "rejected" THEN checked[c]["rejected"] + 1
                     ELSE checked[c]["rejected"]
        BY <2>2, <2>3 DEF Records, Outcomes
    <2>8. \A c \in Challenges :
              /\ checked'[c]["approved"] = logged'[c]["challenge.verified"] + Cardinality(VSet(c))'
              /\ checked'[c]["rejected"] = logged'[c]["challenge.failed"] + Cardinality(FSet(c))'
              /\ logged'[c]["challenge.verified"] >= logged[c]["challenge.verified"]
        <3>1. SUFFICES ASSUME NEW c \in Challenges
                       PROVE  /\ checked'[c]["approved"] =
                                    logged[c]["challenge.verified"] + Cardinality(VSet(c))'
                              /\ checked'[c]["rejected"] =
                                    logged[c]["challenge.failed"] + Cardinality(FSet(c))'
                              /\ logged[c]["challenge.verified"] >= logged[c]["challenge.verified"]
            BY <2>1
        <3>2. /\ checked[c]["approved"] = logged[c]["challenge.verified"] + Cardinality(VSet(c))
              /\ checked[c]["rejected"] = logged[c]["challenge.failed"] + Cardinality(FSet(c))
              /\ logged[c]["challenge.verified"] \in Nat /\ logged[c]["challenge.failed"] \in Nat
            BY <1>0, CountersNat DEF Accounts, TypeOK
        <3> QED
            BY SMTT(30), <2>6, <2>7, <3>2
    <2>9. Accounts'
        BY <1>0, <2>1, <2>2, <2>8, AccountsKept DEF TypeOK, Outcomes
    <2>10. \A c \in Challenges : Made(c) \in Nat /\ Made(c)' = Made(c)
        BY <1>0, <2>1, <2>2, MadeChecked DEF TypeOK, Outcomes
    <2> QED
        BY SMTT(30), <1>0, <1>1, <2>1, <2>2, <2>9, <2>10, CountsKept DEF Outcomes
<1>21. CASE Audit(h)
    <2>1. /\ TypeOK' /\ HistoryKeeps /\ announced' = announced
          /\ \/ /\ pc[h] = "auditVerified" /\ Logs(h, "challenge.verified")
                /\ To(h, "announce")
             \/ pc[h] = "auditFailed" /\ Logs(h, "challenge.failed") /\ Gone(h)
        BY <1>0, <1>21, AuditEffect
    <2>2. PICK d \in Challenges : d = req[h].c
        BY <1>0, <2>1, ServingRequest DEF TypeOK, Serving, Verifying
    <2>3. req[h] \in RequestType /\ req[h].kind # "begin" /\ req[h].kind \in Kinds
        <3>1. req[h] \in RequestType /\ pc[h] \in Serving /\ pc[h] \in Verifying
            BY <1>0, <2>1, ServingRequest DEF TypeOK, Serving, Verifying
        <3> QED
            BY <1>0, <3>1 DEF KindOK, RequestType
    <2>4. /\ Frame(h) /\ pc'[h] \in {"announce", "idle"}
          /\ pc'[h] = "announce" => pc[h] = "auditVerified" /\ req'[h] = req[h]
          /\ pc[h] = "auditFailed" => req[h].kind \notin Pushes
        BY <1>0, <2>1 DEF To, Gone, KindOK, Serving, Verifying
    <2>5. \A c \in Challenges :
              /\ ~Verifies(h, c)' /\ ~Fails(h, c)' /\ (Attempts(h, c) <=> Attempts(h, c)')
              /\ Verifies(h, c) <=> (c = d /\ pc[h] = "auditVerified")
              /\ Fails(h, c) <=> (c = d /\ pc[h] = "auditFailed")
        BY <2>1, <2>2, <2>3, <2>4 DEF Verifies, Fails, Attempts, Kinds, Pushes
    <2>6. \A c \in Challenges :
              /\ Cardinality(VSet(c))' \in Nat /\ Cardinality(FSet(c))' \in Nat
              /\ Cardinality(VSet(c)) = IF c = d /\ pc[h] = "auditVerified"
                                        THEN Cardinality(VSet(c))' + 1 ELSE Cardinality(VSet(c))'
              /\ Cardinality(FSet(c)) = IF c = d /\ pc[h] = "auditFailed"
                                        THEN Cardinality(FSet(c))' + 1 ELSE Cardinality(FSet(c))'
        BY <2>4, <2>5, VMoves, FMoves
    <2>7. \A c \in Challenges :
              /\ logged'[c]["challenge.verified"] =
                     IF c = d /\ pc[h] = "auditVerified" THEN logged[c]["challenge.verified"] + 1
                     ELSE logged[c]["challenge.verified"]
              /\ logged'[c]["challenge.failed"] =
                     IF c = d /\ pc[h] = "auditFailed" THEN logged[c]["challenge.failed"] + 1
                     ELSE logged[c]["challenge.failed"]
        BY <2>1, <2>2 DEF Logs, EventTypes
    <2>8. \A c \in Challenges :
              /\ checked'[c]["approved"] = logged'[c]["challenge.verified"] + Cardinality(VSet(c))'
              /\ checked'[c]["rejected"] = logged'[c]["challenge.failed"] + Cardinality(FSet(c))'
              /\ logged'[c]["challenge.verified"] >= logged[c]["challenge.verified"]
              /\ (c = d /\ pc[h] = "auditVerified") => logged'[c]["challenge.verified"] > 0
        <3>1. SUFFICES ASSUME NEW c \in Challenges
                       PROVE  /\ checked[c]["approved"] =
                                    logged'[c]["challenge.verified"] + Cardinality(VSet(c))'
                              /\ checked[c]["rejected"] =
                                    logged'[c]["challenge.failed"] + Cardinality(FSet(c))'
                              /\ logged'[c]["challenge.verified"] >= logged[c]["challenge.verified"]
                              /\ (c = d /\ pc[h] = "auditVerified") =>
                                    logged'[c]["challenge.verified"] > 0
            BY <2>1 DEF HistoryKeeps
        <3>2. /\ checked[c]["approved"] = logged[c]["challenge.verified"] + Cardinality(VSet(c))
              /\ checked[c]["rejected"] = logged[c]["challenge.failed"] + Cardinality(FSet(c))
              /\ logged[c]["challenge.verified"] \in Nat /\ logged[c]["challenge.failed"] \in Nat
            BY <1>0, CountersNat DEF Accounts, TypeOK
        <3> QED
            BY SMTT(30), <2>6, <2>7, <3>2
    <2>9. pc'[h] = "announce" =>
              \E c \in Challenges : req'[h].c = c /\ logged'[c]["challenge.verified"] > 0
        BY <2>2, <2>4, <2>8
    <2>10. Accounts'
        BY <1>0, <2>1, <2>4, <2>8, <2>9, AccountsKept DEF TypeOK
    <2>11. \A c \in Challenges : Made(c) \in Nat /\ Made(c)' = Made(c)
        BY <1>0, <2>1, <2>4, <2>5, MadeMoves DEF TypeOK, HistoryKeeps
    <2> QED
        <3>1. challenges' = challenges /\ pc'[h] \notin {"store", "exhaust", "fail"}
            BY <2>1, <2>4 DEF HistoryKeeps
        <3>2. \A c \in Challenges : Made(c)' >= Made(c) /\ challenges'[c].Attempts <= Made(c)'
            BY SMTT(30), <1>1, <2>11, <3>1
        <3> QED
            BY <1>0, <2>4, <2>10, <2>11, <3>1, <3>2, CountsKept
<1> QED
    BY <1>2, <1>3, <1>4, <1>5, <1>6, <1>7, <1>8, <1>9, <1>10, <1>11, <1>12, <1>13, <1>14, <1>15,
       <1>16, <1>17, <1>18, <1>19, <1>20, <1>21 DEF Step

-----------------------------------------------------------------------------
(* The theorems about every interleaving.                                   *)

\* The invariant holds of the empty store.
LEMMA InitIInv == ASSUME Counting PROVE Init => IInv
<1> SUFFICES ASSUME Init PROVE IInv
    OBVIOUS
<1>0. \A h \in Handlers : pc[h] = "idle" /\ req[h] = NoRequest
    BY DEF Init
<1>1. TypeOK
    <2>1. NoChallenge \in ChallengeType
        BY DEF NoChallenge, ChallengeType
    <2>2. LocalTyped
        BY <1>0 DEF Init, LocalTyped, ReqTyped, Labels, Serving, Verifying, Beginning
    <2>3. SharedTyped
        BY SMTT(30), <2>1 DEF Init, SharedTyped
    <2> QED
        BY <2>2, <2>3 DEF TypeOK
<1>2. \A c \in Challenges : challenges[c].Status = "none" /\ challenges[c].Attempts = 0
    BY DEF Init, NoChallenge
<1>3. Open
    BY <1>0, <1>2 DEF Init, Open, ApprovalWasOpen, KindOK, OpenFor, Serving, Verifying, Beginning
<1>4. ASSUME NEW c \in Challenges
      PROVE  Cardinality(VSet(c)) = 0 /\ Cardinality(FSet(c)) = 0 /\ Cardinality(ASet(c)) = 0
    <2>1. VSet(c) = {} /\ FSet(c) = {} /\ ASet(c) = {}
        BY <1>0 DEF VSet, FSet, ASet, Verifies, Fails, Attempts
    <2> QED
        BY <2>1 DEF Counting
<1>5. \A c \in Challenges :
          /\ \A o \in Outcomes : checked[c][o] = 0
          /\ \A t \in EventTypes : logged[c][t] = 0
          /\ announced[c] = {}
    BY DEF Init
<1>6. Accounts
    BY SMTT(30), <1>0, <1>4, <1>5 DEF Accounts, Outcomes, EventTypes
<1>7. \A c \in Challenges : Made(c) = 0
    BY SMTT(30), <1>4, <1>5, MadeIs DEF Outcomes
<1>8. CountsOnlyMade
    BY SMTT(30), <1>0, <1>2, <1>7 DEF CountsOnlyMade, FailsAfterAttempts
<1> QED
    BY <1>1, <1>3, <1>6, <1>8 DEF IInv

\* Create keeps the invariant.
LEMMA CreateIInv ==
    ASSUME Counting, IInv, NEW h \in Handlers, NEW c \in Challenges, NEW methods \in MethodSets,
           Create(h, c, methods)
    PROVE  IInv'
<1>0. TypeOK /\ Open /\ Accounts /\ CountsOnlyMade
    BY DEF IInv
<1>1. /\ TypeOK' /\ pc[h] = "idle" /\ challenges[c].Status = "none"
      /\ challenges'[c].Status = "pending" /\ challenges'[c].Attempts = 0
      /\ \A d \in Challenges : d # c => challenges'[d] = challenges[d]
      /\ SharedKeeps /\ Frame(h) /\ pc'[h] = "auditCreated"
    BY <1>0, CreateEffect
<1>2. /\ expired' = expired /\ checks' = checks /\ checked' = checked
      /\ logged' = logged /\ announced' = announced
    BY <1>1 DEF SharedKeeps
<1>3. Open'
    <2>1. StatusMoves /\ ChecksGrow
        BY <1>1, <1>2 DEF StatusMoves, ChecksGrow, Resolved
    <2>2. ApprovalWasOpen'
        BY <1>0, <1>1, <1>2, ApprovalKept
    <2> QED
        BY <1>0, <1>1, <1>2, <2>1, <2>2, OpenKept, IdleOpen DEF Serving, Verifying, Beginning
<1>4. Unmoved(h)
    BY <1>1 DEF Unmoved, Verifies, Fails, Attempts
<1>5. Accounts'
    BY <1>0, <1>1, <1>2, <1>4, AccountsSame DEF TypeOK
<1>6. CountsOnlyMade'
    <2>1. \A d \in Challenges : Made(d) \in Nat /\ Made(d)' = Made(d)
        BY <1>0, <1>1, <1>2, <1>4, MadeMoves DEF Unmoved, TypeOK
    <2>2. \A d \in Challenges : challenges[d].Attempts <= Made(d)
        BY <1>0 DEF CountsOnlyMade, FailsAfterAttempts
    <2>3. \A d \in Challenges :
              /\ Made(d)' >= Made(d) /\ challenges'[d].Attempts <= Made(d)'
              /\ challenges'[d].Status = "failed" => challenges[d].Status = "failed"
        BY SMTT(30), <1>1, <2>1, <2>2
    <2> QED
        BY <1>0, <1>1, <2>1, <2>3, CountsKept
<1> QED
    BY <1>1, <1>3, <1>5, <1>6 DEF IInv

\* A request that arrives keeps the invariant.
LEMMA ArriveIInv ==
    ASSUME Counting, IInv, NEW h \in Handlers, Arrives(h)
    PROVE  IInv'
<1>0. TypeOK /\ Open /\ Accounts /\ CountsOnlyMade
    BY DEF IInv
<1>1. PICK kind \in Kinds, c \in Challenges, proof \in {"good", "bad", "mismatch"},
           ceremony \in Nat :
          /\ proof = "mismatch" => kind \in Pushes
          /\ Arrive(h, kind, c, proof, ceremony)
    BY DEF Arrives
<1>2. /\ TypeOK' /\ pc[h] = "idle" /\ challenges[c].Status # "none"
      /\ challenges' = challenges /\ SharedKeeps
      /\ Frame(h) /\ pc'[h] = "status" /\ req'[h] = Arriving(kind, c, proof, ceremony)
    BY <1>0, <1>1, ArriveEffect
<1>3. /\ expired' = expired /\ checks' = checks /\ checked' = checked
      /\ logged' = logged /\ announced' = announced
    BY <1>2 DEF SharedKeeps
<1>4. /\ req'[h].kind = kind /\ req'[h].c = c /\ req'[h].proof = proof
      /\ req'[h].late = (c \in expired) /\ req'[h].stale = (challenges[c].Status \in Resolved)
    BY SMTT(30), <1>2 DEF Arriving
<1>5. KindOK(h)'
    BY <1>1, <1>2, <1>4 DEF KindOK, Verifying, Beginning
<1>6. OpenFor(h)'
    BY <1>2, <1>3, <1>4 DEF OpenFor, Verifying, Beginning
<1>7. Open'
    <2>1. StatusMoves /\ ChecksGrow /\ ApprovalWasOpen'
        BY <1>0, <1>2, <1>3, StatusKept, ApprovalKept
    <2> QED
        BY <1>0, <1>2, <1>3, <1>5, <1>6, <2>1, OpenKept
<1>8. Unmoved(h)
    BY <1>2 DEF Unmoved, Verifies, Fails, Attempts
<1>9. Accounts'
    BY <1>0, <1>2, <1>3, <1>8, AccountsSame DEF TypeOK
<1>10. CountsOnlyMade'
    BY <1>0, <1>2, <1>3, <1>8, CountsSame DEF CounterKept
<1> QED
    BY <1>2, <1>7, <1>9, <1>10 DEF IInv

\* The passing of ExpiresAt keeps the invariant.
LEMMA ExpireIInv ==
    ASSUME IInv, NEW c \in Challenges, Expire(c)
    PROVE  IInv'
<1>1. /\ expired \subseteq expired'
      /\ UNCHANGED <<challenges, pc, req, attempts, session, started, delivered, checks, checked,
                     consumed, logged, announced>>
    BY DEF Expire, local, input, history, output
<1>2. TypeOK' /\ Accounts' /\ CountsOnlyMade'
    <2>1. LocalTyped'
        BY <1>1 DEF IInv, TypeOK, LocalTyped, ReqTyped
    <2>2. SharedTyped'
        BY <1>1 DEF IInv, TypeOK, SharedTyped
    <2>3. Accounts'
        <3>1. \A d \in Challenges : VSet(d)' = VSet(d) /\ FSet(d)' = FSet(d)
            BY <1>1 DEF VSet, FSet, Verifies, Fails
        <3> QED
            BY <1>1, <3>1 DEF IInv, Accounts
    <2>4. CountsOnlyMade'
        BY <1>1 DEF IInv, CountsOnlyMade, FailsAfterAttempts, Made
    <2> QED
        BY <2>1, <2>2, <2>3, <2>4 DEF TypeOK
<1>3. Open'
    BY <1>1 DEF IInv, Open, ApprovalWasOpen, KindOK, OpenFor, ApprovedCheck
<1> QED
    BY <1>2, <1>3 DEF IInv

\* A step that changes nothing keeps the invariant.
LEMMA StutterIInv ==
    ASSUME IInv, UNCHANGED vars
    PROVE  IInv'
<1>1. UNCHANGED <<challenges, expired, pc, req, attempts, session, started, delivered, checks,
                  checked, consumed, logged, announced>>
    BY DEF vars, local, input, history, output
<1>2. LocalTyped' /\ SharedTyped'
    BY <1>1 DEF IInv, TypeOK, LocalTyped, ReqTyped, SharedTyped
<1>3. Accounts'
    <2>1. \A d \in Challenges : VSet(d)' = VSet(d) /\ FSet(d)' = FSet(d)
        BY <1>1 DEF VSet, FSet, Verifies, Fails
    <2> QED
        BY <1>1, <2>1 DEF IInv, Accounts
<1>4. CountsOnlyMade'
    BY <1>1 DEF IInv, CountsOnlyMade, FailsAfterAttempts, Made
<1>5. Open'
    BY <1>1 DEF IInv, Open, ApprovalWasOpen, KindOK, OpenFor, ApprovedCheck
<1> QED
    BY <1>2, <1>3, <1>4, <1>5 DEF IInv, TypeOK

\* Every step keeps the invariant.
LEMMA NextIInv == ASSUME Counting PROVE IInv /\ [Next]_vars => IInv'
<1> SUFFICES ASSUME IInv, [Next]_vars PROVE IInv'
    OBVIOUS
<1>1. CASE \E h \in Handlers, c \in Challenges, methods \in MethodSets : Create(h, c, methods)
    BY <1>1, CreateIInv
<1>2. CASE \E h \in Handlers, c \in Challenges :
               \/ handleChallengeVerify(h, c) \/ handleApproveChallenge(h, c)
               \/ handleChallengeWebAuthnBegin(h, c) \/ handleChallengeWebAuthnFinish(h, c)
    <2>1. \E h \in Handlers : Arrives(h)
        BY <1>2, EndpointsArrive DEF IInv
    <2> QED
        BY <2>1, ArriveIInv
<1>3. CASE \E h \in Handlers : Step(h)
    BY <1>3, StepOpen, StepAccounts DEF IInv
<1>4. CASE \E c \in Challenges : Expire(c)
    BY <1>4, ExpireIInv
<1>5. CASE Quiet
    BY <1>5, StutterIInv DEF Quiet
<1>6. CASE UNCHANGED vars
    BY <1>6, StutterIInv
<1> QED
    BY <1>1, <1>2, <1>3, <1>4, <1>5, <1>6 DEF Next

-----------------------------------------------------------------------------
(* The invariants of requests that are served one after the other.           *)

OneHandler == \A g, h \in Handlers : g = h

\* From the status check to the write that resolves it, the challenge is pending, and
\* every attempt is counted before it is made.
Alone(h) ==
    /\ pc[h] \notin {"idle", "auditCreated", "status", "resolve", "auditVerified", "announce",
                     "auditFailed"} => challenges[req[h].c].Status = "pending"
    /\ pc[h] \in {"session", "load", "store"} => challenges[req[h].c].Attempts < MaxAttempts
    /\ pc[h] = "store" => attempts[h] = challenges[req[h].c].Attempts
    /\ pc[h] \in {"take", "clear", "check", "approve"} => challenges[req[h].c].Attempts > 0
    /\ pc[h] \in {"exhaust", "fail"} => challenges[req[h].c].Attempts >= MaxAttempts

CountedFor(c) ==
    /\ challenges[c].Status = "none" => challenges[c].Attempts = 0
    /\ challenges[c].Attempts = Made(c) /\ challenges[c].Attempts <= MaxAttempts

Counted == (\A h \in Handlers : Alone(h)) /\ (\A c \in Challenges : CountedFor(c))

\* A ceremony that was started for c and not used.
Unused(k, c) ==
    /\ k \in 1..Len(started) /\ started[k] = c
    /\ k \in 1..MaxCeremonies => consumed[k] = 0

\* A finish takes the one ceremony its challenge holds, and the challenge holds none then.
CeremonyFor(h) ==
    /\ pc[h] \in {"load", "store", "take"} /\ req[h].kind = "finish" =>
          challenges[req[h].c].WebAuthnSession # 0
    /\ pc[h] = "clear" \/ (pc[h] = "check" /\ req[h].kind = "finish") =>
          Unused(session[h], req[h].c)
    /\ pc[h] = "check" /\ req[h].kind = "finish" => challenges[req[h].c].WebAuthnSession = 0
    /\ pc[h] = "storeSession" => Unused(session[h], req[h].c)

Held(c) == challenges[c].WebAuthnSession # 0 => Unused(challenges[c].WebAuthnSession, c)

ApprovedHere(c) ==
    \A k \in checks[c] : k.request.kind = "finish" /\ k.outcome = "approved" =>
        k.request.ceremony \in 1..Len(started) /\ started[k.request.ceremony] = c

Ceremonies ==
    /\ \A k \in 1..MaxCeremonies :
          consumed[k] <= 1 /\ (consumed[k] > 0 => k <= Len(started))
    /\ \A c \in Challenges : Held(c) /\ ApprovedHere(c)
    /\ \A h \in Handlers : CeremonyFor(h)

\* The inductive invariant of one handler.
SInv == IInv /\ Counted /\ Ceremonies

-----------------------------------------------------------------------------
(* The steps of one handler, and the lifecycle they map to.                 *)

\* The step does not change what the lifecycle sees of the records.
MapsToStutter ==
    \A c \in Challenges : /\ challenges'[c].Status = challenges[c].Status
                          /\ challenges'[c].Attempts = challenges[c].Attempts

LifecycleStep == [Lifecycle!Next]_Lifecycle!lifecycleVars

\* Such a step is a stutter of the lifecycle.
LEMMA StutterMaps ==
    ASSUME MapsToStutter
    PROVE  LifecycleStep
<1>1. [c \in Challenges |-> challenges[c].Status]' = [c \in Challenges |-> challenges[c].Status]
    BY DEF MapsToStutter
<1>2. [c \in Challenges |-> challenges[c].Attempts]' = [c \in Challenges |-> challenges[c].Attempts]
    BY DEF MapsToStutter
<1> QED
    BY <1>1, <1>2 DEF LifecycleStep, Lifecycle!lifecycleVars

\* A write of Status to a pending challenge is a resolution.
LEMMA ResolveMaps ==
    ASSUME TypeOK, NEW h \in Handlers, pc[h] \in Serving, NEW v \in Resolved, SetsStatus(h, v),
           Ch(h).Status = "pending", v = "approved" => Ch(h).Attempts > 0,
           v = "failed" => Ch(h).Attempts = MaxAttempts
    PROVE  LifecycleStep
<1>1. PICK c \in Challenges : c = req[h].c
    BY ServingRequest DEF TypeOK
<1>2. \A d \in Challenges : /\ challenges'[d].Attempts = challenges[d].Attempts
                            /\ d # c => challenges'[d] = challenges[d]
    BY <1>1 DEF SetsStatus, OtherRecords
<1>3. challenges'[c].Status = v
    BY <1>1 DEF SetsStatus
<1>4. [d \in Challenges |-> challenges[d].Status]' =
          [[d \in Challenges |-> challenges[d].Status] EXCEPT ![c] = v]
    BY <1>2, <1>3
<1>5. [d \in Challenges |-> challenges[d].Attempts]' = [d \in Challenges |-> challenges[d].Attempts]
    BY <1>2
<1>6. Lifecycle!Resolve(c, v)
    BY <1>1, <1>4, <1>5 DEF Lifecycle!Resolve, Ch
<1> QED
    BY <1>6 DEF LifecycleStep, Lifecycle!Next, Lifecycle!Resolved, Resolved

\* One more attempt of a pending challenge.
LEMMA AttemptMaps ==
    ASSUME TypeOK, NEW h \in Handlers, pc[h] \in Serving,
           SetsAttempts(h, challenges[req[h].c].Attempts + 1),
           Ch(h).Status = "pending", Ch(h).Attempts < MaxAttempts
    PROVE  LifecycleStep
<1>1. PICK c \in Challenges : c = req[h].c
    BY ServingRequest DEF TypeOK
<1>2. \A d \in Challenges : /\ challenges'[d].Status = challenges[d].Status
                            /\ d # c => challenges'[d] = challenges[d]
    BY <1>1 DEF SetsAttempts, OtherRecords
<1>3. challenges'[c].Attempts = challenges[c].Attempts + 1
    BY <1>1 DEF SetsAttempts
<1>4. [d \in Challenges |-> challenges[d].Attempts]' =
          [[d \in Challenges |-> challenges[d].Attempts] EXCEPT ![c] = @ + 1]
    BY <1>2, <1>3
<1>5. [d \in Challenges |-> challenges[d].Status]' = [d \in Challenges |-> challenges[d].Status]
    BY <1>2
<1>6. Lifecycle!Attempt(c)
    BY <1>1, <1>4, <1>5 DEF Lifecycle!Attempt, Ch
<1> QED
    BY <1>6 DEF LifecycleStep, Lifecycle!Next

\* A step of the one handler that makes no attempt.
LEMMA CountedSame ==
    ASSUME Counting, SInv, OneHandler, NEW h \in Handlers, Frame(h), Unmoved(h), checked' = checked,
           Alone(h)',
           \A c \in Challenges :
               /\ challenges'[c].Attempts = challenges[c].Attempts
               /\ challenges'[c].Status = "none" => challenges[c].Status = "none"
    PROVE  Counted'
<1>1. \A c \in Challenges : Made(c) \in Nat /\ Made(c)' = Made(c)
    BY MadeMoves DEF Unmoved, SInv, IInv, TypeOK
<1>2. \A c \in Challenges : CountedFor(c)'
    BY <1>1 DEF SInv, Counted, CountedFor
<1>3. \A g \in Handlers : Alone(g)'
    <2>1. \A g \in Handlers : g = h
        BY DEF OneHandler
    <2> QED
        BY <2>1
<1> QED
    BY <1>2, <1>3 DEF Counted

\* A step that leaves the ceremonies alone.
LEMMA CeremoniesSame ==
    ASSUME SInv, OneHandler, NEW h \in Handlers,
           started' = started, consumed' = consumed, checks' = checks,
           \A c \in Challenges : challenges'[c].WebAuthnSession = challenges[c].WebAuthnSession,
           CeremonyFor(h)'
    PROVE  Ceremonies'
<1>1. \A c \in Challenges : Held(c)' /\ ApprovedHere(c)'
    BY DEF SInv, Ceremonies, Held, ApprovedHere, Unused
<1>2. \A g \in Handlers : CeremonyFor(g)'
    <2>1. \A g \in Handlers : g = h
        BY DEF OneHandler
    <2> QED
        BY <2>1
<1> QED
    BY <1>1, <1>2 DEF SInv, Ceremonies

\* A handler at none of the labels that hold a ceremony.
LEMMA NoCeremony ==
    ASSUME NEW h \in Handlers,
           pc'[h] \notin {"load", "store", "take", "clear", "check", "storeSession"}
    PROVE  CeremonyFor(h)'
BY DEF CeremonyFor

\* A handler that has returned.
LEMMA NoAlone ==
    ASSUME NEW h \in Handlers, pc'[h] \in {"idle", "auditCreated", "status", "resolve",
                                           "auditVerified", "announce", "auditFailed"}
    PROVE  Alone(h)'
BY DEF Alone

\* Every step of the one handler keeps the count and follows the lifecycle.
LEMMA StepCounted ==
    ASSUME Counting, SInv, OneHandler, NEW h \in Handlers, Step(h)
    PROVE  Counted' /\ LifecycleStep
<1>0. TypeOK /\ KindOK(h) /\ OpenFor(h) /\ Alone(h) /\ MaxAttempts \in Nat \ {0}
    BY ConstantsAssumption DEF SInv, IInv, Open, Counted
<1>1. \A c \in Challenges : challenges[c].Attempts \in Nat /\ challenges[c].Attempts <= MaxAttempts
    BY <1>0, CountersNat DEF SInv, Counted, CountedFor, TypeOK
<1>2. CASE AuditCreated(h)
    <2>1. pc[h] = "auditCreated" /\ HistoryKeeps /\ Gone(h)
        BY <1>0, <1>2, AuditCreatedEffect
    <2>2. Unmoved(h) /\ Frame(h)
        BY <2>1, UnmovedTo, UnmovedGone DEF Group, To, Gone
    <2>3. MapsToStutter /\ checked' = checked
        BY <2>1 DEF MapsToStutter, HistoryKeeps
    <2>4. Alone(h)'
        BY <2>1, NoAlone DEF Gone
    <2> QED
        BY <2>2, <2>3, <2>4, CountedSame, StutterMaps DEF MapsToStutter
<1>3. CASE CheckStatus(h)
    <2>1. /\ pc[h] = "status" /\ challenges' = challenges /\ SharedKeeps
          /\ (Ch(h).Status = "pending" /\ To(h, "expiry")) \/ Gone(h)
        BY <1>0, <1>3, CheckStatusEffect
    <2>2. Unmoved(h) /\ Frame(h)
        BY <2>1, UnmovedTo, UnmovedGone DEF Group, To, Gone
    <2>3. MapsToStutter /\ checked' = checked
        BY <2>1 DEF MapsToStutter, SharedKeeps
    <2>4. Alone(h)'
        BY <2>1, NoAlone DEF Gone, Alone, To, Ch
    <2> QED
        BY <2>2, <2>3, <2>4, CountedSame, StutterMaps DEF MapsToStutter
<1>4. CASE CheckExpiry(h)
    <2>1. /\ pc[h] = "expiry" /\ challenges' = challenges /\ SharedKeeps
          /\ To(h, "expire") \/ To(h, "ceremony") \/ To(h, "attempts")
        BY <1>0, <1>4, CheckExpiryEffect
    <2>2. Unmoved(h) /\ Frame(h)
        BY <2>1, UnmovedTo, UnmovedGone DEF Group, To, Gone
    <2>3. MapsToStutter /\ checked' = checked
        BY <2>1 DEF MapsToStutter, SharedKeeps
    <2>4. Alone(h)'
        BY <1>0, <2>1 DEF Alone, To
    <2> QED
        BY <2>2, <2>3, <2>4, CountedSame, StutterMaps DEF MapsToStutter
<1>5. CASE CheckAttempts(h)
    <2>1. /\ pc[h] = "attempts" /\ challenges' = challenges /\ SharedKeeps
          /\ \/ Ch(h).Attempts >= MaxAttempts /\ To(h, "exhaust")
             \/ ~(Ch(h).Attempts >= MaxAttempts) /\ (To(h, "session") \/ To(h, "load"))
        BY <1>0, <1>5, CheckAttemptsEffect
    <2>2. Unmoved(h) /\ Frame(h)
        BY <2>1, UnmovedTo, UnmovedGone DEF Group, To, Gone
    <2>3. MapsToStutter /\ checked' = checked
        BY <2>1 DEF MapsToStutter, SharedKeeps
    <2>4. Alone(h)'
        <3>1. req[h].c \in Challenges
            BY <1>0, <2>1, ServingRequest DEF TypeOK, Serving, Verifying, Beginning
        <3>2. ~(Ch(h).Attempts >= MaxAttempts) => Ch(h).Attempts < MaxAttempts
            BY SMTT(30), <1>0, <1>1, <3>1 DEF Ch
        <3> QED
            BY <1>0, <2>1, <3>2 DEF Alone, To, Ch
    <2> QED
        BY <2>2, <2>3, <2>4, CountedSame, StutterMaps DEF MapsToStutter
<1>6. CASE CheckSession(h)
    <2>1. /\ pc[h] = "session" /\ challenges' = challenges /\ SharedKeeps
          /\ To(h, "load") \/ Gone(h)
        BY <1>0, <1>6, CheckSessionEffect
    <2>2. Unmoved(h) /\ Frame(h)
        BY <2>1, UnmovedTo, UnmovedGone DEF Group, To, Gone
    <2>3. MapsToStutter /\ checked' = checked
        BY <2>1 DEF MapsToStutter, SharedKeeps
    <2>4. Alone(h)'
        BY <1>0, <2>1, NoAlone DEF Gone, Alone, To
    <2> QED
        BY <2>2, <2>3, <2>4, CountedSame, StutterMaps DEF MapsToStutter
<1>7. CASE LoadAttempts(h)
    <2>1. /\ pc[h] = "load" /\ challenges' = challenges /\ SharedKeeps
          /\ To(h, "store") /\ attempts'[h] = Ch(h).Attempts
        BY <1>0, <1>7, LoadAttemptsEffect
    <2>2. Unmoved(h) /\ Frame(h)
        BY <2>1, UnmovedTo, UnmovedGone DEF Group, To, Gone
    <2>3. MapsToStutter /\ checked' = checked
        BY <2>1 DEF MapsToStutter, SharedKeeps
    <2>4. Alone(h)'
        BY <1>0, <2>1 DEF Alone, To, Ch
    <2> QED
        BY <2>2, <2>3, <2>4, CountedSame, StutterMaps DEF MapsToStutter
<1>8. CASE TakeSession(h)
    <2>1. /\ pc[h] = "take" /\ challenges' = challenges /\ SharedKeeps
          /\ To(h, "clear")
        BY <1>0, <1>8, TakeSessionEffect
    <2>2. Unmoved(h) /\ Frame(h)
        BY <2>1, UnmovedTo, UnmovedGone DEF Group, To, Gone
    <2>3. MapsToStutter /\ checked' = checked
        BY <2>1 DEF MapsToStutter, SharedKeeps
    <2>4. Alone(h)'
        BY <1>0, <2>1 DEF Alone, To
    <2> QED
        BY <2>2, <2>3, <2>4, CountedSame, StutterMaps DEF MapsToStutter
<1>9. CASE ClearSession(h)
    <2>1. pc[h] = "clear" /\ SetsSession(h, 0) /\ SharedKeeps /\ To(h, "check")
        BY <1>0, <1>9, ClearSessionEffect
    <2>2. Unmoved(h) /\ Frame(h)
        BY <2>1, UnmovedTo, UnmovedGone DEF Group, To, Gone
    <2>3. MapsToStutter /\ checked' = checked
        BY <2>1 DEF MapsToStutter, SharedKeeps, SetsSession
    <2>4. Alone(h)'
        <3>1. req[h].c \in Challenges
            BY <1>0, <2>1, ServingRequest DEF TypeOK, Serving, Verifying, Beginning
        <3> QED
            BY <1>0, <2>1, <2>3, <3>1 DEF Alone, To, MapsToStutter
    <2> QED
        BY <2>2, <2>3, <2>4, CountedSame, StutterMaps DEF MapsToStutter
<1>10. CASE WriteResolvedAt(h)
    <2>1. pc[h] = "resolve" /\ SetsResolvedAt /\ SharedKeeps /\ To(h, "auditVerified")
        BY <1>0, <1>10, WriteResolvedAtEffect
    <2>2. Unmoved(h) /\ Frame(h)
        BY <2>1, UnmovedTo, UnmovedGone DEF Group, To, Gone
    <2>3. MapsToStutter /\ checked' = checked
        BY <2>1 DEF MapsToStutter, SharedKeeps, SetsResolvedAt
    <2>4. Alone(h)'
        BY <2>1, NoAlone DEF To
    <2> QED
        BY <2>2, <2>3, <2>4, CountedSame, StutterMaps DEF MapsToStutter
<1>11. CASE CheckLimit(h)
    <2>1. /\ pc[h] = "limit" /\ challenges' = challenges /\ SharedKeeps
          /\ \/ Ch(h).Attempts >= MaxAttempts /\ To(h, "fail")
             \/ req[h].kind \in Pushes /\ Gone(h)
             \/ To(h, "auditFailed")
        BY <1>0, <1>11, CheckLimitEffect
    <2>2. Unmoved(h) /\ Frame(h)
        BY <2>1, UnmovedTo, UnmovedGone DEF Group, To, Gone
    <2>3. MapsToStutter /\ checked' = checked
        BY <2>1 DEF MapsToStutter, SharedKeeps
    <2>4. Alone(h)'
        BY <1>0, <2>1, NoAlone DEF Alone, Gone, To, Ch
    <2> QED
        BY <2>2, <2>3, <2>4, CountedSame, StutterMaps DEF MapsToStutter
<1>12. CASE Announce(h)
    <2>1. pc[h] = "announce" /\ HistoryKeeps /\ Gone(h)
        BY <1>0, <1>12, AnnounceEffect
    <2>2. Unmoved(h) /\ Frame(h)
        BY <2>1, UnmovedTo, UnmovedGone DEF Group, To, Gone
    <2>3. MapsToStutter /\ checked' = checked
        BY <2>1 DEF MapsToStutter, HistoryKeeps
    <2>4. Alone(h)'
        BY <2>1, NoAlone DEF Gone
    <2> QED
        BY <2>2, <2>3, <2>4, CountedSame, StutterMaps DEF MapsToStutter
<1>13. CASE BeginCeremony(h)
    <2>1. /\ pc[h] = "ceremony" /\ challenges' = challenges /\ checked' = checked
          /\ To(h, "storeSession") \/ Gone(h)
        BY <1>0, <1>13, BeginCeremonyEffect
    <2>2. Unmoved(h) /\ Frame(h)
        BY <2>1, UnmovedTo, UnmovedGone DEF Group, To, Gone
    <2>3. MapsToStutter /\ checked' = checked
        BY <2>1 DEF MapsToStutter
    <2>4. Alone(h)'
        BY <1>0, <2>1, NoAlone DEF Alone, Gone, To
    <2> QED
        BY <2>2, <2>3, <2>4, CountedSame, StutterMaps DEF MapsToStutter
<1>14. CASE StoreSession(h)
    <2>1. /\ pc[h] = "storeSession" /\ SetsSession(h, session[h]) /\ checked' = checked
          /\ Gone(h)
        BY <1>0, <1>14, StoreSessionEffect
    <2>2. Unmoved(h) /\ Frame(h)
        BY <2>1, UnmovedTo, UnmovedGone DEF Group, To, Gone
    <2>3. MapsToStutter /\ checked' = checked
        BY <2>1 DEF MapsToStutter, SetsSession
    <2>4. Alone(h)'
        BY <2>1, NoAlone DEF Gone
    <2> QED
        BY <2>2, <2>3, <2>4, CountedSame, StutterMaps DEF MapsToStutter
<1>15. CASE Audit(h)
    <2>1. /\ HistoryKeeps
          /\ (pc[h] = "auditVerified" /\ To(h, "announce")) \/ (pc[h] = "auditFailed" /\ Gone(h))
        BY <1>0, <1>15, AuditEffect
    <2>2. /\ Frame(h) /\ pc'[h] \in {"announce", "idle"}
          /\ \A c \in Challenges : Attempts(h, c) <=> Attempts(h, c)'
        BY <2>1 DEF To, Gone, Attempts
    <2>3. MapsToStutter /\ checked' = checked
        BY <2>1 DEF MapsToStutter, HistoryKeeps
    <2>4. \A c \in Challenges : CountedFor(c)'
        <3>1. \A c \in Challenges : Made(c)' = Made(c)
            BY <1>0, <2>2, <2>3, MadeMoves DEF TypeOK
        <3> QED
            BY <2>3, <3>1 DEF SInv, Counted, CountedFor, MapsToStutter
    <2>5. \A g \in Handlers : Alone(g)'
        <3>1. Alone(h)' /\ \A g \in Handlers : g = h
            BY <2>2, NoAlone DEF OneHandler
        <3> QED
            BY <3>1
    <2> QED
        BY <2>3, <2>4, <2>5, StutterMaps DEF Counted
<1>16. CASE CheckFactor(h)
    <2>1. /\ TypeOK' /\ pc[h] = "check" /\ challenges' = challenges
          /\ \/ Records(h, "approved") /\ To(h, "approve")
             \/ Records(h, "unaudited") /\ (Gone(h) \/ To(h, "limit"))
             \/ Records(h, "rejected") /\ To(h, "limit")
        BY <1>0, <1>16, CheckFactorEffect
    <2>2. PICK o \in Outcomes : Records(h, o)
        BY <2>1 DEF Outcomes
    <2>3. /\ Frame(h) /\ pc'[h] \in {"approve", "limit", "idle"}
          /\ pc'[h] # "idle" => req'[h] = req[h]
        BY <2>1 DEF To, Gone
    <2>4. \A c \in Challenges : CountedFor(c)'
        <3>1. \A c \in Challenges : Made(c)' = Made(c)
            BY <1>0, <2>1, <2>2, <2>3, MadeChecked DEF TypeOK
        <3> QED
            BY <2>1, <3>1 DEF SInv, Counted, CountedFor
    <2>5. Alone(h)'
        BY <1>0, <2>1, <2>3 DEF Alone
    <2>6. \A g \in Handlers : Alone(g)'
        <3>1. \A g \in Handlers : g = h
            BY DEF OneHandler
        <3> QED
            BY <2>5, <3>1
    <2>7. MapsToStutter
        BY <2>1 DEF MapsToStutter
    <2> QED
        BY <2>4, <2>6, <2>7, StutterMaps DEF Counted
<1>17. CASE StoreAttempts(h)
    <2>1. /\ TypeOK' /\ pc[h] = "store" /\ SetsAttempts(h, attempts[h] + 1) /\ SharedKeeps
          /\ To(h, "take") \/ To(h, "check")
        BY <1>0, <1>17, StoreAttemptsEffect
    <2>2. Frame(h) /\ req'[h] = req[h] /\ pc'[h] \in {"take", "check"} /\ checked' = checked
        BY <2>1 DEF To, SharedKeeps
    <2>3. PICK d \in Challenges : d = req[h].c
        BY <1>0, <2>1, ServingRequest DEF TypeOK, Serving, Verifying
    <2>4. /\ attempts[h] = challenges[d].Attempts /\ challenges[d].Attempts < MaxAttempts
          /\ challenges[d].Status = "pending"
        BY <1>0, <2>1, <2>3 DEF Alone
    <2>5. \A c \in Challenges :
              /\ Made(c) \in Nat /\ Made(c)' \in Nat
              /\ c = d => Made(c)' = Made(c) + 1
              /\ c # d => Made(c)' = Made(c)
        <3>1. \A c \in Challenges : /\ ~Attempts(h, c)
                                    /\ Attempts(h, c)' <=> c = d
            BY <2>1, <2>2, <2>3 DEF Attempts
        <3> QED
            BY <1>0, <2>2, <3>1, MadeMoves DEF TypeOK
    <2>6. \A c \in Challenges :
               /\ c = d => challenges'[c].Attempts = challenges[c].Attempts + 1
               /\ c # d => challenges'[c].Attempts = challenges[c].Attempts
               /\ challenges'[c].Status = challenges[c].Status
        BY <2>1, <2>3, <2>4 DEF SetsAttempts, OtherRecords
    <2>7. \A c \in Challenges :
              /\ challenges[c].Attempts = Made(c)
              /\ challenges[c].Status = "none" => challenges[c].Attempts = 0
        BY DEF SInv, Counted, CountedFor
    <2>8. \A c \in Challenges : CountedFor(c)'
        BY SMTT(30), <1>0, <1>1, <2>4, <2>5, <2>6, <2>7 DEF CountedFor
    <2>9. Alone(h)'
        <3>1. challenges'[d].Attempts > 0 /\ challenges'[d].Status = "pending"
            BY SMTT(30), <1>1, <2>4, <2>6
        <3> QED
            BY <2>2, <2>3, <3>1 DEF Alone
    <2>10. \A g \in Handlers : Alone(g)'
        <3>1. \A g \in Handlers : g = h
            BY DEF OneHandler
        <3> QED
            BY <2>9, <3>1
    <2>11. LifecycleStep
        <3>1. pc[h] \in Serving /\ Ch(h).Status = "pending" /\ Ch(h).Attempts < MaxAttempts
            BY <2>1, <2>3, <2>4 DEF Ch, Serving, Verifying
        <3>2. SetsAttempts(h, challenges[req[h].c].Attempts + 1)
            BY <2>1, <2>3, <2>4
        <3> QED
            BY <1>0, <3>1, <3>2, AttemptMaps
    <2> QED
        BY <2>8, <2>10, <2>11 DEF Counted
<1>18. CASE WriteExpired(h)
    <2>1. /\ pc[h] = "expire" /\ SetsStatus(h, "expired") /\ SharedKeeps
          /\ Gone(h)
        BY <1>0, <1>18, WriteExpiredEffect
    <2>2. Unmoved(h) /\ Frame(h)
        BY <2>1, UnmovedTo, UnmovedGone DEF Group
    <2>3. Alone(h)'
        BY <2>1, NoAlone DEF To, Gone
    <2>4. req[h].c \in Challenges /\ pc[h] \in Serving /\ "expired" \in Resolved
        BY <1>0, <2>1, ServingRequest DEF TypeOK, Serving, Verifying, Resolved
    <2>5. \A c \in Challenges :
              /\ challenges'[c].Attempts = challenges[c].Attempts
              /\ challenges'[c].Status = "none" => challenges[c].Status = "none"
        BY <2>1, <2>4 DEF SetsStatus, OtherRecords
    <2>6. Counted'
        BY <2>1, <2>2, <2>3, <2>5, CountedSame DEF SharedKeeps
    <2>7. /\ Ch(h).Status = "pending" /\ ("expired" = "approved" => Ch(h).Attempts > 0)
          /\ "expired" = "failed" => Ch(h).Attempts = MaxAttempts
        <3>1. /\ Ch(h).Status = "pending"
              /\ pc[h] = "approve" => Ch(h).Attempts > 0
              /\ pc[h] \in {"exhaust", "fail"} => Ch(h).Attempts >= MaxAttempts
            BY <1>0, <2>1 DEF Alone, Ch
        <3>2. Ch(h).Attempts \in Nat /\ Ch(h).Attempts <= MaxAttempts
            BY <1>1, <2>4 DEF Ch
        <3> QED
            BY <1>0, <2>1, <3>1, <3>2
    <2>8. LifecycleStep
        BY <1>0, <2>1, <2>4, <2>7, ResolveMaps
    <2> QED
        BY <2>6, <2>8
<1>19. CASE WriteExhausted(h)
    <2>1. /\ pc[h] = "exhaust" /\ SetsStatus(h, "failed") /\ SharedKeeps
          /\ Gone(h)
        BY <1>0, <1>19, WriteExhaustedEffect
    <2>2. Unmoved(h) /\ Frame(h)
        BY <2>1, UnmovedTo, UnmovedGone DEF Group
    <2>3. Alone(h)'
        BY <2>1, NoAlone DEF To, Gone
    <2>4. req[h].c \in Challenges /\ pc[h] \in Serving /\ "failed" \in Resolved
        BY <1>0, <2>1, ServingRequest DEF TypeOK, Serving, Verifying, Resolved
    <2>5. \A c \in Challenges :
              /\ challenges'[c].Attempts = challenges[c].Attempts
              /\ challenges'[c].Status = "none" => challenges[c].Status = "none"
        BY <2>1, <2>4 DEF SetsStatus, OtherRecords
    <2>6. Counted'
        BY <2>1, <2>2, <2>3, <2>5, CountedSame DEF SharedKeeps
    <2>7. /\ Ch(h).Status = "pending" /\ ("failed" = "approved" => Ch(h).Attempts > 0)
          /\ "failed" = "failed" => Ch(h).Attempts = MaxAttempts
        <3>1. /\ Ch(h).Status = "pending"
              /\ pc[h] = "approve" => Ch(h).Attempts > 0
              /\ pc[h] \in {"exhaust", "fail"} => Ch(h).Attempts >= MaxAttempts
            BY <1>0, <2>1 DEF Alone, Ch
        <3>2. Ch(h).Attempts \in Nat /\ Ch(h).Attempts <= MaxAttempts
            BY <1>1, <2>4 DEF Ch
        <3> QED
            BY SMTT(30), <1>0, <2>1, <3>1, <3>2
    <2>8. LifecycleStep
        BY <1>0, <2>1, <2>4, <2>7, ResolveMaps
    <2> QED
        BY <2>6, <2>8
<1>20. CASE WriteApproved(h)
    <2>1. /\ pc[h] = "approve" /\ SetsStatus(h, "approved") /\ SharedKeeps
          /\ To(h, "resolve")
        BY <1>0, <1>20, WriteApprovedEffect
    <2>2. Unmoved(h) /\ Frame(h)
        BY <2>1, UnmovedTo, UnmovedGone DEF Group
    <2>3. Alone(h)'
        BY <2>1, NoAlone DEF To, Gone
    <2>4. req[h].c \in Challenges /\ pc[h] \in Serving /\ "approved" \in Resolved
        BY <1>0, <2>1, ServingRequest DEF TypeOK, Serving, Verifying, Resolved
    <2>5. \A c \in Challenges :
              /\ challenges'[c].Attempts = challenges[c].Attempts
              /\ challenges'[c].Status = "none" => challenges[c].Status = "none"
        BY <2>1, <2>4 DEF SetsStatus, OtherRecords
    <2>6. Counted'
        BY <2>1, <2>2, <2>3, <2>5, CountedSame DEF SharedKeeps
    <2>7. /\ Ch(h).Status = "pending" /\ ("approved" = "approved" => Ch(h).Attempts > 0)
          /\ "approved" = "failed" => Ch(h).Attempts = MaxAttempts
        <3>1. /\ Ch(h).Status = "pending"
              /\ pc[h] = "approve" => Ch(h).Attempts > 0
              /\ pc[h] \in {"exhaust", "fail"} => Ch(h).Attempts >= MaxAttempts
            BY <1>0, <2>1 DEF Alone, Ch
        <3>2. Ch(h).Attempts \in Nat /\ Ch(h).Attempts <= MaxAttempts
            BY <1>1, <2>4 DEF Ch
        <3> QED
            BY <1>0, <2>1, <3>1, <3>2
    <2>8. LifecycleStep
        BY <1>0, <2>1, <2>4, <2>7, ResolveMaps
    <2> QED
        BY <2>6, <2>8
<1>21. CASE WriteFailed(h)
    <2>1. /\ pc[h] = "fail" /\ SetsStatus(h, "failed") /\ SharedKeeps
          /\ ((req[h].kind \in Pushes /\ Gone(h)) \/ To(h, "auditFailed"))
        BY <1>0, <1>21, WriteFailedEffect
    <2>2. Unmoved(h) /\ Frame(h)
        BY <2>1, UnmovedTo, UnmovedGone DEF Group
    <2>3. Alone(h)'
        BY <2>1, NoAlone DEF To, Gone
    <2>4. req[h].c \in Challenges /\ pc[h] \in Serving /\ "failed" \in Resolved
        BY <1>0, <2>1, ServingRequest DEF TypeOK, Serving, Verifying, Resolved
    <2>5. \A c \in Challenges :
              /\ challenges'[c].Attempts = challenges[c].Attempts
              /\ challenges'[c].Status = "none" => challenges[c].Status = "none"
        BY <2>1, <2>4 DEF SetsStatus, OtherRecords
    <2>6. Counted'
        BY <2>1, <2>2, <2>3, <2>5, CountedSame DEF SharedKeeps
    <2>7. /\ Ch(h).Status = "pending" /\ ("failed" = "approved" => Ch(h).Attempts > 0)
          /\ "failed" = "failed" => Ch(h).Attempts = MaxAttempts
        <3>1. /\ Ch(h).Status = "pending"
              /\ pc[h] = "approve" => Ch(h).Attempts > 0
              /\ pc[h] \in {"exhaust", "fail"} => Ch(h).Attempts >= MaxAttempts
            BY <1>0, <2>1 DEF Alone, Ch
        <3>2. Ch(h).Attempts \in Nat /\ Ch(h).Attempts <= MaxAttempts
            BY <1>1, <2>4 DEF Ch
        <3> QED
            BY SMTT(30), <1>0, <2>1, <3>1, <3>2
    <2>8. LifecycleStep
        BY <1>0, <2>1, <2>4, <2>7, ResolveMaps
    <2> QED
        BY <2>6, <2>8
<1> QED
    BY <1>2, <1>3, <1>4, <1>5, <1>6, <1>7, <1>8, <1>9, <1>10, <1>11, <1>12, <1>13, <1>14, <1>15,
       <1>16, <1>17, <1>18, <1>19, <1>20, <1>21 DEF Step

\* Every step of the one handler keeps ceremonies to one use.
LEMMA StepCeremonies ==
    ASSUME SInv, OneHandler, NEW h \in Handlers, Step(h)
    PROVE  Ceremonies'
<1>0. TypeOK /\ KindOK(h) /\ CeremonyFor(h) /\ \A g \in Handlers : g = h
    BY DEF SInv, IInv, Open, Ceremonies, OneHandler
<1>1. CASE AuditCreated(h)
    <2>1. HistoryKeeps /\ Gone(h)
        BY <1>0, <1>1, AuditCreatedEffect
    <2>2. started' = started /\ consumed' = consumed /\ checks' = checks
        BY <2>1 DEF HistoryKeeps
    <2>3. \A c \in Challenges : challenges'[c].WebAuthnSession = challenges[c].WebAuthnSession
        BY <2>1 DEF HistoryKeeps
    <2>4. CeremonyFor(h)'
        BY <2>1, NoCeremony DEF To, Gone
    <2> QED
        BY <2>2, <2>3, <2>4, CeremoniesSame
<1>2. CASE CheckStatus(h)
    <2>1. challenges' = challenges /\ SharedKeeps /\ (To(h, "expiry") \/ Gone(h))
        BY <1>0, <1>2, CheckStatusEffect
    <2>2. started' = started /\ consumed' = consumed /\ checks' = checks
        BY <2>1 DEF SharedKeeps
    <2>3. \A c \in Challenges : challenges'[c].WebAuthnSession = challenges[c].WebAuthnSession
        BY <2>1 DEF SharedKeeps
    <2>4. CeremonyFor(h)'
        BY <2>1, NoCeremony DEF To, Gone
    <2> QED
        BY <2>2, <2>3, <2>4, CeremoniesSame
<1>3. CASE CheckExpiry(h)
    <2>1. /\ challenges' = challenges /\ SharedKeeps
          /\ To(h, "expire") \/ To(h, "ceremony") \/ To(h, "attempts")
        BY <1>0, <1>3, CheckExpiryEffect
    <2>2. started' = started /\ consumed' = consumed /\ checks' = checks
        BY <2>1 DEF SharedKeeps
    <2>3. \A c \in Challenges : challenges'[c].WebAuthnSession = challenges[c].WebAuthnSession
        BY <2>1 DEF SharedKeeps
    <2>4. CeremonyFor(h)'
        BY <2>1, NoCeremony DEF To, Gone
    <2> QED
        BY <2>2, <2>3, <2>4, CeremoniesSame
<1>4. CASE WriteExpired(h)
    <2>1. SetsStatus(h, "expired") /\ SharedKeeps /\ Gone(h)
        BY <1>0, <1>4, WriteExpiredEffect
    <2>2. started' = started /\ consumed' = consumed /\ checks' = checks
        BY <2>1 DEF SharedKeeps
    <2>3. \A c \in Challenges : challenges'[c].WebAuthnSession = challenges[c].WebAuthnSession
        BY <2>1 DEF SetsStatus
    <2>4. CeremonyFor(h)'
        BY <2>1, NoCeremony DEF To, Gone
    <2> QED
        BY <2>2, <2>3, <2>4, CeremoniesSame
<1>5. CASE WriteExhausted(h)
    <2>1. SetsStatus(h, "failed") /\ SharedKeeps /\ Gone(h)
        BY <1>0, <1>5, WriteExhaustedEffect
    <2>2. started' = started /\ consumed' = consumed /\ checks' = checks
        BY <2>1 DEF SharedKeeps
    <2>3. \A c \in Challenges : challenges'[c].WebAuthnSession = challenges[c].WebAuthnSession
        BY <2>1 DEF SetsStatus
    <2>4. CeremonyFor(h)'
        BY <2>1, NoCeremony DEF To, Gone
    <2> QED
        BY <2>2, <2>3, <2>4, CeremoniesSame
<1>6. CASE WriteApproved(h)
    <2>1. SetsStatus(h, "approved") /\ SharedKeeps /\ To(h, "resolve")
        BY <1>0, <1>6, WriteApprovedEffect
    <2>2. started' = started /\ consumed' = consumed /\ checks' = checks
        BY <2>1 DEF SharedKeeps
    <2>3. \A c \in Challenges : challenges'[c].WebAuthnSession = challenges[c].WebAuthnSession
        BY <2>1 DEF SetsStatus
    <2>4. CeremonyFor(h)'
        BY <2>1, NoCeremony DEF To, Gone
    <2> QED
        BY <2>2, <2>3, <2>4, CeremoniesSame
<1>7. CASE WriteResolvedAt(h)
    <2>1. SetsResolvedAt /\ SharedKeeps /\ To(h, "auditVerified")
        BY <1>0, <1>7, WriteResolvedAtEffect
    <2>2. started' = started /\ consumed' = consumed /\ checks' = checks
        BY <2>1 DEF SharedKeeps
    <2>3. \A c \in Challenges : challenges'[c].WebAuthnSession = challenges[c].WebAuthnSession
        BY <2>1 DEF SetsResolvedAt
    <2>4. CeremonyFor(h)'
        BY <2>1, NoCeremony DEF To, Gone
    <2> QED
        BY <2>2, <2>3, <2>4, CeremoniesSame
<1>8. CASE CheckLimit(h)
    <2>1. /\ challenges' = challenges /\ SharedKeeps
          /\ To(h, "fail") \/ Gone(h) \/ To(h, "auditFailed")
        BY <1>0, <1>8, CheckLimitEffect
    <2>2. started' = started /\ consumed' = consumed /\ checks' = checks
        BY <2>1 DEF SharedKeeps
    <2>3. \A c \in Challenges : challenges'[c].WebAuthnSession = challenges[c].WebAuthnSession
        BY <2>1 DEF SharedKeeps
    <2>4. CeremonyFor(h)'
        BY <2>1, NoCeremony DEF To, Gone
    <2> QED
        BY <2>2, <2>3, <2>4, CeremoniesSame
<1>9. CASE WriteFailed(h)
    <2>1. SetsStatus(h, "failed") /\ SharedKeeps /\ (Gone(h) \/ To(h, "auditFailed"))
        BY <1>0, <1>9, WriteFailedEffect
    <2>2. started' = started /\ consumed' = consumed /\ checks' = checks
        BY <2>1 DEF SharedKeeps
    <2>3. \A c \in Challenges : challenges'[c].WebAuthnSession = challenges[c].WebAuthnSession
        BY <2>1 DEF SetsStatus
    <2>4. CeremonyFor(h)'
        BY <2>1, NoCeremony DEF To, Gone
    <2> QED
        BY <2>2, <2>3, <2>4, CeremoniesSame
<1>10. CASE Audit(h)
    <2>1. HistoryKeeps /\ (To(h, "announce") \/ Gone(h))
        BY <1>0, <1>10, AuditEffect
    <2>2. started' = started /\ consumed' = consumed /\ checks' = checks
        BY <2>1 DEF HistoryKeeps
    <2>3. \A c \in Challenges : challenges'[c].WebAuthnSession = challenges[c].WebAuthnSession
        BY <2>1 DEF HistoryKeeps
    <2>4. CeremonyFor(h)'
        BY <2>1, NoCeremony DEF To, Gone
    <2> QED
        BY <2>2, <2>3, <2>4, CeremoniesSame
<1>11. CASE Announce(h)
    <2>1. HistoryKeeps /\ Gone(h)
        BY <1>0, <1>11, AnnounceEffect
    <2>2. started' = started /\ consumed' = consumed /\ checks' = checks
        BY <2>1 DEF HistoryKeeps
    <2>3. \A c \in Challenges : challenges'[c].WebAuthnSession = challenges[c].WebAuthnSession
        BY <2>1 DEF HistoryKeeps
    <2>4. CeremonyFor(h)'
        BY <2>1, NoCeremony DEF To, Gone
    <2> QED
        BY <2>2, <2>3, <2>4, CeremoniesSame
<1>12. CASE CheckAttempts(h)
    <2>1. /\ challenges' = challenges /\ SharedKeeps
          /\ To(h, "exhaust") \/ To(h, "session") \/ (req[h].kind # "finish" /\ To(h, "load"))
        BY <1>0, <1>12, CheckAttemptsEffect
    <2>2. CeremonyFor(h)'
        BY <2>1 DEF CeremonyFor, To
    <2> QED
        BY <2>1, <2>2, CeremoniesSame DEF SharedKeeps
<1>13. CASE CheckSession(h)
    <2>1. /\ challenges' = challenges /\ SharedKeeps
          /\ (Ch(h).WebAuthnSession # 0 /\ To(h, "load")) \/ Gone(h)
        BY <1>0, <1>13, CheckSessionEffect
    <2>2. CeremonyFor(h)'
        BY <2>1 DEF CeremonyFor, To, Gone, Ch
    <2> QED
        BY <2>1, <2>2, CeremoniesSame DEF SharedKeeps
<1>14. CASE LoadAttempts(h)
    <2>1. pc[h] = "load" /\ challenges' = challenges /\ SharedKeeps /\ To(h, "store")
        BY <1>0, <1>14, LoadAttemptsEffect
    <2>2. CeremonyFor(h)'
        BY <1>0, <2>1 DEF CeremonyFor, To
    <2> QED
        BY <2>1, <2>2, CeremoniesSame DEF SharedKeeps
<1>15. CASE StoreAttempts(h)
    <2>1. /\ pc[h] = "store" /\ SetsAttempts(h, attempts[h] + 1) /\ SharedKeeps
          /\ \/ req[h].kind = "finish" /\ To(h, "take")
             \/ req[h].kind # "finish" /\ To(h, "check")
        BY <1>0, <1>15, StoreAttemptsEffect
    <2>2. \A c \in Challenges : challenges'[c].WebAuthnSession = challenges[c].WebAuthnSession
        BY <2>1 DEF SetsAttempts
    <2>3. req[h].c \in Challenges
        BY <1>0, <2>1, ServingRequest DEF TypeOK, Serving, Verifying
    <2>4. CeremonyFor(h)'
        BY <1>0, <2>1, <2>2, <2>3 DEF CeremonyFor, To
    <2> QED
        BY <2>1, <2>2, <2>4, CeremoniesSame DEF SharedKeeps
<1>16. CASE TakeSession(h)
    <2>1. /\ pc[h] = "take" /\ challenges' = challenges /\ SharedKeeps
          /\ To(h, "clear") /\ session'[h] = Ch(h).WebAuthnSession
        BY <1>0, <1>16, TakeSessionEffect
    <2>2. PICK d \in Challenges : d = req[h].c
        BY <1>0, <2>1, ServingRequest DEF TypeOK, Serving, Verifying
    <2>3. challenges[d].WebAuthnSession # 0
        BY <1>0, <2>1, <2>2 DEF CeremonyFor, KindOK, Serving, Verifying
    <2>4. PICK k : k = challenges[d].WebAuthnSession
        OBVIOUS
    <2>5. Unused(k, d)
        BY <2>2, <2>3, <2>4 DEF SInv, Ceremonies, Held
    <2>6. Unused(k, d)' /\ session'[h] = k /\ req'[h].c = d /\ pc'[h] = "clear"
        BY <2>1, <2>2, <2>4, <2>5 DEF Unused, SharedKeeps, To, Ch
    <2>7. CeremonyFor(h)'
        BY <2>6 DEF CeremonyFor
    <2> QED
        BY <2>1, <2>7, CeremoniesSame DEF SharedKeeps
<1>17. CASE ClearSession(h)
    <2>1. /\ pc[h] = "clear" /\ SetsSession(h, 0) /\ SharedKeeps /\ To(h, "check")
          /\ session' = session
        BY <1>0, <1>17, ClearSessionEffect
    <2>2. PICK d \in Challenges : d = req[h].c
        BY <1>0, <2>1, ServingRequest DEF TypeOK, Serving, Verifying
    <2>3. \A c \in Challenges :
              IF c = d THEN challenges'[c].WebAuthnSession = 0
              ELSE challenges'[c].WebAuthnSession = challenges[c].WebAuthnSession
        BY <2>1, <2>2 DEF SetsSession, OtherRecords
    <2>4. \A c \in Challenges : Held(c)' /\ ApprovedHere(c)'
        BY <2>1, <2>3 DEF SInv, Ceremonies, Held, ApprovedHere, Unused, SharedKeeps
    <2>5. PICK k : k = session[h]
        OBVIOUS
    <2>6. Unused(k, d)
        BY <1>0, <2>1, <2>2, <2>5 DEF CeremonyFor
    <2>7. Unused(k, d)' /\ session'[h] = k /\ req'[h].c = d /\ pc'[h] = "check"
        BY <2>1, <2>2, <2>5, <2>6 DEF Unused, SharedKeeps, To
    <2>8. CeremonyFor(h)'
        BY <2>3, <2>7 DEF CeremonyFor
    <2>9. \A k1 \in 1..MaxCeremonies :
              consumed'[k1] <= 1 /\ (consumed'[k1] > 0 => k1 <= Len(started'))
        BY <2>1 DEF SInv, Ceremonies, SharedKeeps
    <2> QED
        BY <1>0, <2>4, <2>8, <2>9 DEF Ceremonies
<1>18. CASE CheckFactor(h)
    <2>1. /\ pc[h] = "check" /\ challenges' = challenges /\ started' = started
          /\ \A k \in 1..MaxCeremonies : consumed'[k] =
                consumed[k] + (IF req[h].kind = "finish" /\ session[h] = k THEN 1 ELSE 0)
          /\ \/ Valid(h) /\ Records(h, "approved") /\ To(h, "approve")
             \/ Records(h, "unaudited") /\ (Gone(h) \/ To(h, "limit"))
             \/ Records(h, "rejected") /\ To(h, "limit")
        BY <1>0, <1>18, CheckFactorEffect
    <2>2. PICK d \in Challenges : d = req[h].c
        BY <1>0, <2>1, ServingRequest DEF TypeOK, Serving, Verifying
    <2>3. req[h].kind = "finish" => Unused(session[h], d) /\ challenges[d].WebAuthnSession = 0
        BY <1>0, <2>1, <2>2 DEF CeremonyFor
    <2>4. \A k \in 1..MaxCeremonies : consumed[k] \in Nat
        BY <1>0 DEF TypeOK, SharedTyped
    <2>5. \A k \in 1..MaxCeremonies :
              consumed'[k] <= 1 /\ (consumed'[k] > 0 => k <= Len(started'))
        <3>1. SUFFICES ASSUME NEW k \in 1..MaxCeremonies
                       PROVE  consumed'[k] <= 1 /\ (consumed'[k] > 0 => k <= Len(started))
            BY <2>1
        <3>2. CASE req[h].kind = "finish" /\ session[h] = k
            <4>1. consumed[k] = 0 /\ k <= Len(started)
                BY SMTT(30), <2>3, <3>2 DEF Unused
            <4> QED
                BY SMTT(30), <2>1, <3>2, <4>1
        <3>3. CASE ~(req[h].kind = "finish" /\ session[h] = k)
            <4>1. consumed'[k] = consumed[k]
                BY SMTT(30), <2>1, <2>4, <3>3
            <4> QED
                BY <4>1 DEF SInv, Ceremonies
        <3> QED
            BY <3>2, <3>3
    <2>6. ASSUME NEW c \in Challenges
          PROVE  Held(c)'
        <3>1. PICK k : k = challenges[c].WebAuthnSession
            OBVIOUS
        <3>2. SUFFICES ASSUME k # 0 PROVE Unused(k, c)'
            BY <2>1, <3>1 DEF Held
        <3>3. Unused(k, c)
            BY <3>1, <3>2 DEF SInv, Ceremonies, Held
        <3>4. ~(req[h].kind = "finish" /\ session[h] = k)
            BY <2>3, <3>1, <3>2, <3>3 DEF Unused
        <3>5. k \in 1..MaxCeremonies => consumed'[k] = 0
            <4>1. SUFFICES ASSUME k \in 1..MaxCeremonies PROVE consumed'[k] = 0
                OBVIOUS
            <4>2. consumed[k] = 0
                BY <3>3, <4>1 DEF Unused
            <4> QED
                BY SMTT(30), <2>1, <3>4, <4>1, <4>2
        <3> QED
            BY <2>1, <3>3, <3>5 DEF Unused
    <2>7. ASSUME NEW c \in Challenges
          PROVE  ApprovedHere(c)'
        <3>1. PICK o : Records(h, o) /\ (o = "approved" => Valid(h))
            BY SMTT(30), <2>1
        <3>2. \A k \in checks'[c] :
                  k \in checks[c] \/ (c = d /\ k = [request |-> req[h], outcome |-> o])
            BY <2>2, <3>1 DEF Records
        <3>3. ASSUME NEW k \in checks'[c], k.request.kind = "finish", k.outcome = "approved"
              PROVE  k.request.ceremony \in 1..Len(started) /\ started[k.request.ceremony] = c
            <4>1. CASE k \in checks[c]
                BY <3>3, <4>1 DEF SInv, Ceremonies, ApprovedHere
            <4>2. CASE c = d /\ k = [request |-> req[h], outcome |-> o]
                <5>1. k.request = req[h] /\ k.outcome = o
                    BY <4>2
                <5>2. req[h].kind = "finish" /\ req[h].ceremony = session[h]
                    BY <3>1, <3>3, <5>1 DEF Valid
                <5>3. Unused(session[h], d)
                    BY <2>3, <5>2
                <5> QED
                    BY <4>2, <5>1, <5>2, <5>3 DEF Unused
            <4> QED
                BY <3>2, <4>1, <4>2
        <3> QED
            BY <2>1, <3>3 DEF ApprovedHere
    <2>8. CeremonyFor(h)'
        BY <2>1, NoCeremony DEF To, Gone
    <2> QED
        BY <1>0, <2>5, <2>6, <2>7, <2>8 DEF Ceremonies
<1>19. CASE BeginCeremony(h)
    <2>1. /\ pc[h] = "ceremony" /\ challenges' = challenges /\ checks' = checks
          /\ consumed' = consumed
          /\ \/ /\ started' = Append(started, req[h].c) /\ session'[h] = Len(started) + 1
                /\ To(h, "storeSession")
             \/ started' = started /\ Gone(h)
        BY <1>0, <1>19, BeginCeremonyEffect
    <2>2. CASE started' = started /\ Gone(h)
        BY <2>1, <2>2, CeremoniesSame, NoCeremony DEF Gone
    <2>3. CASE /\ started' = Append(started, req[h].c) /\ session'[h] = Len(started) + 1
               /\ To(h, "storeSession")
        <3>1. PICK d \in Challenges : d = req[h].c
            BY <1>0, <2>1, ServingRequest DEF TypeOK, Serving, Beginning
        <3>2. /\ Len(started) \in Nat /\ Len(started') = Len(started) + 1
              /\ \A k \in 1..Len(started) : k \in 1..Len(started') /\ started'[k] = started[k]
              /\ started'[Len(started) + 1] = d
            BY SMTT(30), <1>0, <2>3, <3>1 DEF TypeOK, SharedTyped
        <3>3. \A k \in 1..MaxCeremonies :
                  consumed'[k] <= 1 /\ (consumed'[k] > 0 => k <= Len(started'))
            BY SMTT(30), <2>1, <3>2 DEF SInv, Ceremonies
        <3>4. \A c \in Challenges : Held(c)' /\ ApprovedHere(c)'
            BY <2>1, <3>2 DEF SInv, Ceremonies, Held, ApprovedHere, Unused
        <3>5. PICK k : k = Len(started) + 1
            OBVIOUS
        <3>6. k \in 1..MaxCeremonies => consumed[k] = 0
            <4>1. k \in 1..MaxCeremonies => consumed[k] \in Nat /\ ~(consumed[k] > 0)
                BY SMTT(30), <1>0, <3>2, <3>5 DEF TypeOK, SharedTyped, SInv, Ceremonies
            <4> QED
                BY SMTT(30), <4>1
        <3>7. Unused(k, d)'
            BY SMTT(30), <2>1, <3>2, <3>5, <3>6 DEF Unused
        <3>8. CeremonyFor(h)'
            BY <2>3, <3>1, <3>5, <3>7 DEF CeremonyFor, To
        <3> QED
            BY <1>0, <3>3, <3>4, <3>8 DEF Ceremonies
    <2> QED
        BY <2>1, <2>2, <2>3
<1>20. CASE StoreSession(h)
    <2>1. /\ pc[h] = "storeSession" /\ SetsSession(h, session[h]) /\ Gone(h)
          /\ started' = started /\ checks' = checks /\ consumed' = consumed
        BY <1>0, <1>20, StoreSessionEffect
    <2>2. PICK d \in Challenges : d = req[h].c
        BY <1>0, <2>1, ServingRequest DEF TypeOK, Serving, Beginning
    <2>3. \A c \in Challenges :
              IF c = d THEN challenges'[c].WebAuthnSession = session[h]
              ELSE challenges'[c].WebAuthnSession = challenges[c].WebAuthnSession
        BY <2>1, <2>2 DEF SetsSession, OtherRecords
    <2>4. Unused(session[h], d)
        BY <1>0, <2>1, <2>2 DEF CeremonyFor
    <2>5. \A c \in Challenges : Held(c)' /\ ApprovedHere(c)'
        BY <2>1, <2>3, <2>4 DEF SInv, Ceremonies, Held, ApprovedHere, Unused
    <2>6. CeremonyFor(h)'
        BY <2>1, NoCeremony DEF Gone
    <2> QED
        BY <1>0, <2>1, <2>5, <2>6 DEF SInv, Ceremonies
<1> QED
    BY <1>1, <1>2, <1>3, <1>4, <1>5, <1>6, <1>7, <1>8, <1>9, <1>10, <1>11, <1>12, <1>13, <1>14,
       <1>15, <1>16, <1>17, <1>18, <1>19, <1>20 DEF Step

-----------------------------------------------------------------------------
(* The theorems about one handler.                                          *)

\* The empty store satisfies the invariant and is the lifecycle's initial state.
LEMMA InitSInv == ASSUME Counting PROVE Init => SInv /\ Lifecycle!Init
<1> SUFFICES ASSUME Init PROVE SInv /\ Lifecycle!Init
    OBVIOUS
<1>0. IInv
    BY InitIInv
<1>1. \A h \in Handlers : pc[h] = "idle"
    BY DEF Init
<1>2. \A c \in Challenges : /\ challenges[c].Status = "none" /\ challenges[c].Attempts = 0
                            /\ challenges[c].WebAuthnSession = 0
                            /\ checks[c] = {}
    BY DEF Init, NoChallenge
<1>3. \A c \in Challenges : Made(c) = 0
    <2>1. ASSUME NEW c \in Challenges PROVE Cardinality(ASet(c)) = 0
        <3>1. ASet(c) = {}
            BY <1>1 DEF ASet, Attempts
        <3> QED
            BY <3>1 DEF Counting
    <2>2. \A c \in Challenges, o \in Outcomes : checked[c][o] = 0
        BY DEF Init
    <2> QED
        BY SMTT(30), <2>1, <2>2, MadeIs DEF Outcomes
<1>4. Counted
    BY SMTT(30), <1>1, <1>2, <1>3, ConstantsAssumption DEF Counted, Alone, CountedFor
<1>5. Ceremonies
    <2>1. \A k \in 1..MaxCeremonies : consumed[k] = 0
        BY DEF Init
    <2>2. \A c \in Challenges : Held(c) /\ ApprovedHere(c)
        BY <1>2 DEF Held, ApprovedHere
    <2>3. \A h \in Handlers : CeremonyFor(h)
        BY <1>1 DEF CeremonyFor
    <2> QED
        BY SMTT(30), <2>1, <2>2, <2>3 DEF Ceremonies
<1>6. Lifecycle!Init
    BY <1>2 DEF Lifecycle!Init
<1> QED
    BY <1>0, <1>4, <1>5, <1>6 DEF SInv

\* Create keeps the invariant and is the lifecycle's Create.
LEMMA CreateSInv ==
    ASSUME Counting, SInv, OneHandler, NEW h \in Handlers, NEW c \in Challenges,
           NEW methods \in MethodSets, Create(h, c, methods)
    PROVE  SInv' /\ LifecycleStep
<1>0. TypeOK /\ IInv'
    BY CreateIInv DEF SInv, IInv
<1>1. /\ challenges[c].Status = "none" /\ challenges'[c].Status = "pending"
      /\ challenges'[c].Attempts = 0 /\ challenges'[c].WebAuthnSession = 0
      /\ \A d \in Challenges : d # c => challenges'[d] = challenges[d]
      /\ SharedKeeps /\ Frame(h) /\ pc[h] = "idle" /\ pc'[h] = "auditCreated"
    BY <1>0, CreateEffect
<1>2. \A d \in Challenges : /\ challenges'[d].Attempts = challenges[d].Attempts
                            /\ d # c => challenges'[d].Status = challenges[d].Status
    BY <1>1 DEF SInv, Counted, CountedFor
<1>3. Counted'
    <2>1. Unmoved(h) /\ Alone(h)' /\ checked' = checked
        BY <1>1, NoAlone DEF Unmoved, Verifies, Fails, Attempts, SharedKeeps
    <2> QED
        BY <1>1, <1>2, <2>1, CountedSame
<1>4. Ceremonies'
    <2>1. \A d \in Challenges : Held(d)' /\ ApprovedHere(d)'
        BY <1>1 DEF SInv, Ceremonies, Held, ApprovedHere, Unused, SharedKeeps
    <2>2. \A g \in Handlers : g = h
        BY DEF OneHandler
    <2>3. \A g \in Handlers : CeremonyFor(g)'
        BY <1>1, <2>2, NoCeremony
    <2> QED
        BY <1>1, <2>1, <2>3 DEF SInv, Ceremonies, SharedKeeps
<1>5. [d \in Challenges |-> challenges[d].Status]' =
          [[d \in Challenges |-> challenges[d].Status] EXCEPT ![c] = "pending"]
    BY <1>1, <1>2
<1>6. [d \in Challenges |-> challenges[d].Attempts]' = [d \in Challenges |-> challenges[d].Attempts]
    BY <1>2
<1>7. Lifecycle!Create(c)
    BY <1>1, <1>5, <1>6 DEF Lifecycle!Create
<1> QED
    BY <1>0, <1>3, <1>4, <1>7 DEF SInv, LifecycleStep, Lifecycle!Next

\* A request that arrives changes no record.
LEMMA ArriveSInv ==
    ASSUME Counting, SInv, OneHandler, NEW h \in Handlers, Arrives(h)
    PROVE  SInv' /\ LifecycleStep
<1>0. TypeOK /\ IInv'
    BY ArriveIInv DEF SInv, IInv
<1>1. /\ challenges' = challenges /\ SharedKeeps /\ Frame(h)
      /\ pc[h] = "idle" /\ pc'[h] = "status"
    BY <1>0, ArriveEffect DEF Arrives
<1>2. Counted'
    <2>1. Unmoved(h) /\ Alone(h)' /\ checked' = checked
        BY <1>1, NoAlone DEF Unmoved, Verifies, Fails, Attempts, SharedKeeps
    <2> QED
        BY <1>1, <2>1, CountedSame
<1>3. Ceremonies'
    BY <1>1, NoCeremony, CeremoniesSame DEF SharedKeeps
<1> QED
    BY <1>0, <1>1, <1>2, <1>3, StutterMaps DEF SInv, MapsToStutter

\* A step that changes at most the set of expired challenges.
LEMMA ClockSInv ==
    ASSUME SInv, IInv',
           UNCHANGED <<challenges, pc, req, attempts, session, started, checks, checked, consumed>>
    PROVE  SInv' /\ LifecycleStep
<1>1. Counted'
    BY DEF SInv, Counted, Alone, CountedFor, Made
<1>2. Ceremonies'
    BY DEF SInv, Ceremonies, CeremonyFor, Held, ApprovedHere, Unused
<1> QED
    BY <1>1, <1>2, StutterMaps DEF SInv, MapsToStutter

\* With one handler, every step keeps the invariant and is a step of the lifecycle.
LEMMA NextSInv == ASSUME Counting, OneHandler PROVE SInv /\ [Next]_vars => SInv' /\ LifecycleStep
<1> SUFFICES ASSUME SInv, [Next]_vars PROVE SInv' /\ LifecycleStep
    OBVIOUS
<1>0. IInv /\ IInv'
    BY NextIInv DEF SInv
<1>1. CASE \E h \in Handlers, c \in Challenges, methods \in MethodSets : Create(h, c, methods)
    BY <1>1, CreateSInv
<1>2. CASE \E h \in Handlers, c \in Challenges :
               \/ handleChallengeVerify(h, c) \/ handleApproveChallenge(h, c)
               \/ handleChallengeWebAuthnBegin(h, c) \/ handleChallengeWebAuthnFinish(h, c)
    <2>1. \E h \in Handlers : Arrives(h)
        BY <1>0, <1>2, EndpointsArrive DEF IInv
    <2> QED
        BY <2>1, ArriveSInv
<1>3. CASE \E h \in Handlers : Step(h)
    BY <1>0, <1>3, StepCounted, StepCeremonies DEF SInv
<1>4. CASE \E c \in Challenges : Expire(c)
    BY <1>0, <1>4, ClockSInv DEF Expire, local, input, history, output
<1>5. CASE Quiet \/ UNCHANGED vars
    BY <1>0, <1>5, ClockSInv DEF Quiet, vars, local, input, history, output
<1> QED
    BY <1>1, <1>2, <1>3, <1>4, <1>5 DEF Next

-----------------------------------------------------------------------------
(* What is proved.  Handlers are counted with the facts about finite sets.   *)

INSTANCE FiniteSetTheorems

\* Handlers enter and leave a finite set one at a time.
LEMMA CountingHolds == Counting
<1>1. ASSUME NEW S \in SUBSET Handlers, NEW T \in SUBSET Handlers, NEW h \in Handlers,
             \A g \in Handlers : g # h => (g \in S <=> g \in T)
      PROVE  /\ Cardinality(S) \in Nat /\ Cardinality(T) \in Nat
             /\ (h \in S <=> h \in T) => Cardinality(T) = Cardinality(S)
             /\ (h \notin S /\ h \in T) => Cardinality(T) = Cardinality(S) + 1
             /\ (h \in S /\ h \notin T) => Cardinality(S) = Cardinality(T) + 1
    <2>1. IsFiniteSet(S) /\ IsFiniteSet(T)
        BY ConstantsAssumption, FS_Subset
    <2>2. Cardinality(S) \in Nat /\ Cardinality(T) \in Nat
        BY <2>1, FS_CardinalityType
    <2>3. (h \in S <=> h \in T) => S = T
        BY SMTT(30), <1>1
    <2>4. (h \notin S /\ h \in T) => T = S \cup {h}
        BY <1>1
    <2>5. (h \in S /\ h \notin T) => S = T \cup {h}
        BY <1>1
    <2> QED
        BY <2>1, <2>2, <2>3, <2>4, <2>5, FS_AddElement
<1>2. Cardinality({}) = 0
    BY FS_EmptySet
<1> QED
    BY <1>1, <1>2 DEF Counting

-----------------------------------------------------------------------------
(* Every interleaving.                                                      *)

\* Every reachable state satisfies the invariant.
THEOREM Invariant == Spec => []IInv
<1>1. Init => IInv
    BY CountingHolds, InitIInv
<1>2. IInv /\ [Next]_vars => IInv'
    BY CountingHolds, NextIInv
<1> QED
    BY <1>1, <1>2, PTL DEF Spec

\* However handlers race past preVerify (service.go lines 252-264), the factor of a
\* request that came after expiry or resolution is never checked, and no challenge is
\* approved without a valid factor from an open request.
THEOREM ApprovalsOpen == Spec => []ApprovalWasOpen
<1>1. IInv => ApprovalWasOpen
    BY DEF IInv, Open
<1> QED
    BY <1>1, Invariant, PTL

\* The verification methods log one challenge.verified per approved check and one
\* challenge.failed per rejected TOTP or WebAuthn check, whatever the interleaving, and
\* the bus hears of a verification only after the log does.
THEOREM AuditsAccounted == Spec => []AuditAccounts
<1>1. ASSUME Accounts PROVE AuditAccounts
    <2>1. ASSUME NEW c \in Challenges
          PROVE  /\ VSet(c) = {h \in Handlers : pc[h] \in {"approve", "resolve", "auditVerified"}
                                                    /\ req[h].c = c /\ req[h].kind \in Kinds}
                 /\ FSet(c) = {h \in Handlers : pc[h] \in {"limit", "fail", "auditFailed"}
                                   /\ req[h].c = c /\ req[h].kind \in {"totp", "finish"}}
        BY DEF VSet, FSet, Verifies, Fails
    <2> QED
        BY ZenonT(30), <1>1, <2>1 DEF Accounts, AuditAccounts
<1> QED
    BY <1>1, Invariant, PTL DEF IInv

\* ch.Attempts++ loses updates when handlers race, but the counter never runs ahead of
\* the attempts made, so a challenge is failed only after MaxAttempts of them.
THEOREM FailuresEarned == Spec => []FailsAfterAttempts
<1>1. IInv => FailsAfterAttempts
    BY DEF IInv, CountsOnlyMade
<1> QED
    BY <1>1, Invariant, PTL

-----------------------------------------------------------------------------
(* Requests served one after the other.                                     *)

\* With one handler, every reachable state satisfies the invariant.
LEMMA SequentialInvariant == ASSUME OneHandler PROVE Spec => []SInv
<1>1. Init => SInv
    BY CountingHolds, InitSInv
<1>2. SInv /\ [Next]_vars => SInv'
    BY CountingHolds, NextSInv
<1> QED
    BY <1>1, <1>2, PTL DEF Spec

\* When requests are served one after the other, the attempts counter is exact, so the
\* test of preVerify (service.go lines 259-264) lets at most MaxAttempts factors be checked.
THEOREM AttemptsAreBounded == ASSUME OneHandler PROVE Spec => []AttemptsBounded
<1>1. ASSUME SInv PROVE AttemptsBounded
    <2>1. ASSUME NEW c \in Challenges
          PROVE  checked[c]["approved"] + checked[c]["rejected"] + checked[c]["unaudited"]
                     <= MaxAttempts
        <3>1. Made(c) <= MaxAttempts
            BY <1>1 DEF SInv, Counted, CountedFor
        <3>2. /\ checked[c]["approved"] \in Nat /\ checked[c]["rejected"] \in Nat
              /\ checked[c]["unaudited"] \in Nat
            BY <1>1, CountersNat DEF SInv, IInv, TypeOK
        <3>3. Cardinality(ASet(c)) \in Nat
            BY ConstantsAssumption, FS_Subset, FS_CardinalityType DEF ASet
        <3> QED
            BY SMTT(30), <3>1, <3>2, <3>3, MadeIs, ConstantsAssumption
    <2> QED
        BY <2>1 DEF AttemptsBounded
<1> QED
    BY <1>1, SequentialInvariant, PTL

\* When requests are served one after the other, VerifyWebAuthnFinish clears the session
\* it takes before it checks it (service.go lines 201-206), so a ceremony is checked once
\* and approves only the challenge it was started for.
THEOREM CeremoniesSingleUse == ASSUME OneHandler PROVE Spec => []CeremonyBound
<1>1. ASSUME SInv PROVE CeremonyBound
    <2>1. DOMAIN consumed = 1..MaxCeremonies
        BY <1>1 DEF SInv, IInv, TypeOK, SharedTyped
    <2>2. \A k \in DOMAIN consumed : consumed[k] <= 1
        BY <1>1, <2>1 DEF SInv, Ceremonies
    <2> QED
        BY <1>1, <2>2 DEF SInv, Ceremonies, Held, Unused, ApprovedHere, CeremonyBound
<1> QED
    BY <1>1, SequentialInvariant, PTL

\* When requests are served one after the other, the orchestrator's records follow the
\* documented lifecycle: the step that stores a counter is an Attempt, the write that
\* resolves a challenge a Resolve, and every other step a stutter.
THEOREM LifecycleImplemented == ASSUME OneHandler PROVE Spec => ImplementsLifecycle
<1>1. SInv /\ [Next]_vars => LifecycleStep
    BY CountingHolds, NextSInv
<1>2. Init => Lifecycle!Init
    BY CountingHolds, InitSInv
<1> QED
    BY <1>1, <1>2, SequentialInvariant, PTL
       DEF Spec, ImplementsLifecycle, Lifecycle!Spec, LifecycleStep
=============================================================================
