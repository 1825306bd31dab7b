------------------------ MODULE AccessEvaluateProofs ------------------------
(***************************************************************************)
(* Access evaluation answers what the docs say (as long as the stored        *)
(* policies have one of the four effects), accounts for every answer in the  *)
(* audit log and on the bus, and leaves no challenge behind, for any number   *)
(* of handlers, administrators and policies, any conditions and any risk     *)
(* thresholds.                                                              *)
(***************************************************************************)
EXTENDS AccessEvaluate, TLAPS

\* Zenon does the logic; the steps that need arithmetic or records call for SMT.
USE ZenonT(20)

\* The precondition: no administrator stores another effect.
KnownEffects == \A b \in PolicyBodies : b.Effect \in Effects

\* The decision a handler reaches from the PolicyDecision d (api.go lines 137-172).
Decided(d, r) ==
    LET overridden == Override(d.Effect, Level(r))
    IN  IF overridden = "alert" THEN "allow" ELSE overridden

\* Ranking, override and alert handling together give the documented decision,
\* whichever of the most restrictive policies the unstable sort puts first.
LEMMA DecidedDocumented ==
    ASSUME NEW ps, \A p \in ps : p.Effect \in Effects,
           NEW r \in AccessRequest, NEW d \in Evaluate(ps, r)
    PROVE  Decided(d, r) = DocumentedDecision(ps, r)
<1> DEFINE ms == matched(ps, r)
<1>1. ms \subseteq ps
  BY DEF matched
<1>2. CASE ms = {}
  <2>1. d = DefaultDecision(r)
    BY <1>2 DEF Evaluate
  <2>2. ToLower(r.Sensitivity) = "low" <=> r.Sensitivity = "low"
    BY DEF ToLower
  <2>3. d.Effect = IF r.Sensitivity = "low" THEN "allow" ELSE "deny"
    BY <2>1, <2>2 DEF DefaultDecision
  <2> QED
    BY <1>2, <2>3 DEF Decided, Override, DocumentedDecision, Documented
<1>3. CASE ms # {}
  <2>1. PICK p \in ms : d.Effect = p.Effect /\ \A q \in ms : order(p.Effect) <= order(q.Effect)
    BY SMTT(30), <1>3 DEF Evaluate
  <2>2. \A q \in ms : q.Effect \in Effects
    BY <1>1
  <2>3. d.Effect \in Effects
    BY <2>1, <2>2
  <2>4. d.Effect = "deny" <=> \E q \in ms : q.Effect = "deny"
    BY SMTT(30), <2>1, <2>2 DEF order, Effects
  <2>5. d.Effect # "deny" => (d.Effect = "challenge" <=> \E q \in ms : q.Effect = "challenge")
    BY SMTT(30), <2>1, <2>2 DEF order, Effects
  <2> DEFINE effects == {q.Effect : q \in ms}
  <2>6. effects # {} /\ (d.Effect = "deny" <=> "deny" \in effects)
        /\ (d.Effect # "deny" => (d.Effect = "challenge" <=> "challenge" \in effects))
    BY <2>1, <2>4, <2>5
  <2>7. DocumentedDecision(ps, r) =
           IF Level(r) = "critical" \/ "deny" \in effects THEN "deny"
           ELSE IF Level(r) = "very_high" \/ "challenge" \in effects THEN "challenge"
           ELSE "allow"
    BY <2>6 DEF DocumentedDecision, Documented
  <2> HIDE DEF effects, ms
  <2> QED
    BY <2>3, <2>6, <2>7 DEF Decided, Override, Effects
<1> QED
  BY <1>2, <1>3

-----------------------------------------------------------------------------
\* The labels at which a handler holds a decision.
DecidedLabels == {"create", "auditCreated", "audit", "bus", "respond"}
Labels == DecidedLabels \cup {"idle", "evaluate", "update"}

Decisions == Effects \cup {"none"} \cup {b.Effect : b \in PolicyBodies}
Entry == [Type : {"challenge.created", "access.evaluate"}, Request : Nat, Decision : Decisions]
Announcement == [Request : Nat, Decision : Decisions]

Typed ==
    /\ pc \in [Handlers \cup Admins -> Labels]
    /\ req = [h \in Handlers |-> req[h]]
    /\ \A h \in Handlers : req[h].Number \in Nat
    /\ pd = [h \in Handlers |-> pd[h]]
    /\ decision \in [Handlers -> Decisions]
    /\ update = [a \in Admins |-> update[a]]
    /\ arrived \in Nat
    /\ auditLog \in Seq(Entry) /\ busLog \in Seq(Announcement)

\* The policies in the store come from administrators.
StoreKnown ==
    /\ policies \in [PolicyIDs -> PolicyBodies \cup {NoPolicy}]
    /\ \A a \in Admins : pc[a] = "update" =>
          update[a].ID \in PolicyIDs /\ update[a].Body \in PolicyBodies

\* What the other proofs rest on.
Base == Typed /\ StoreKnown

\* Evaluating the policies leaves a handler with a decision, the policies it listed, and
\* at "create" exactly when the decision is a challenge (api.go lines 137-150).
LEMMA EvaluateEffect ==
    ASSUME Base, NEW h \in Handlers, EvaluatePolicies(h)
    PROVE  /\ pc[h] = "evaluate"
           /\ \E d \in Evaluate(Stored, req[h].Input) :
                 /\ pd'[h] = d
                 /\ decision'[h] = Decided(d, req[h].Input) /\ decision'[h] \in Decisions
           /\ pc'[h] = IF decision'[h] = "challenge" THEN "create" ELSE "audit"
           /\ req'[h].Number = req[h].Number /\ req'[h].Input = req[h].Input
           /\ req'[h].Policies = Stored
           /\ \A x \in Handlers \cup Admins : x # h => pc'[x] = pc[x]
           /\ \A g \in Handlers : g # h =>
                 req'[g] = req[g] /\ pd'[g] = pd[g] /\ decision'[g] = decision[g]
           /\ UNCHANGED <<adminVars, arrived, outVars>>
           /\ decision' \in [Handlers -> Decisions] /\ pc' \in [Handlers \cup Admins -> Labels]
           /\ req' = [g \in Handlers |-> req'[g]] /\ pd' = [g \in Handlers |-> pd'[g]]
<1> USE DEF Base
<1>1. PICK d \in Evaluate(Stored, req[h].Input) :
        /\ pd' = [pd EXCEPT ![h] = d]
        /\ decision' = [decision EXCEPT ![h] = Decided(d, req[h].Input)]
        /\ pc' = [pc EXCEPT ![h] = IF Override(d.Effect, Level(req[h].Input)) = "challenge"
                                   THEN "create" ELSE "audit"]
  BY DEF EvaluatePolicies, Decided, Goto
<1>2. Override(d.Effect, Level(req[h].Input)) = "challenge"
         <=> Decided(d, req[h].Input) = "challenge"
  BY DEF Decided
<1>3. Decided(d, req[h].Input) \in Decisions
  <2>1. d.Effect \in Effects \cup {b.Effect : b \in PolicyBodies}
    <3>1. CASE matched(Stored, req[h].Input) = {}
      BY SMTT(30), <3>1 DEF Evaluate, DefaultDecision, Effects
    <3>2. CASE matched(Stored, req[h].Input) # {}
      <4>1. PICK p \in matched(Stored, req[h].Input) : d.Effect = p.Effect
        BY SMTT(30), <3>2 DEF Evaluate
      <4>2. p \in PolicyBodies
        BY <4>1 DEF matched, Stored, StoreKnown
      <4> QED
        BY <4>1, <4>2
    <3> QED
      BY <3>1, <3>2
  <2> QED
    BY <2>1 DEF Decided, Override, Decisions, Effects
<1>4. /\ pd'[h] = d /\ decision'[h] = Decided(d, req[h].Input)
      /\ \A g \in Handlers : g # h => pd'[g] = pd[g] /\ decision'[g] = decision[g]
      /\ decision' \in [Handlers -> Decisions] /\ pd' = [g \in Handlers |-> pd'[g]]
  BY <1>1, <1>3 DEF Typed
<1>5. /\ pc'[h] = IF decision'[h] = "challenge" THEN "create" ELSE "audit"
      /\ \A x \in Handlers \cup Admins : x # h => pc'[x] = pc[x]
      /\ pc' \in [Handlers \cup Admins -> Labels]
  BY <1>1, <1>2, <1>4 DEF Typed, Labels, DecidedLabels
<1>6. /\ req'[h].Number = req[h].Number /\ req'[h].Input = req[h].Input
      /\ req'[h].Policies = Stored
      /\ \A g \in Handlers : g # h => req'[g] = req[g]
      /\ req' = [g \in Handlers |-> req'[g]]
  BY DEF EvaluatePolicies, Typed
<1> QED
  BY <1>3, <1>4, <1>5, <1>6 DEF EvaluatePolicies

\* What ending a request does: the handler goes idle and holds nothing.
LEMMA ForgetEffect ==
    ASSUME Base, NEW h \in Handlers, Forget(h)
    PROVE  /\ pc'[h] = "idle"
           /\ \A x \in Handlers \cup Admins : x # h => pc'[x] = pc[x]
           /\ \A g \in Handlers : g # h =>
                 req'[g] = req[g] /\ pd'[g] = pd[g] /\ decision'[g] = decision[g]
           /\ pc' \in [Handlers \cup Admins -> Labels]
           /\ req' = [g \in Handlers |-> req'[g]] /\ pd' = [g \in Handlers |-> pd'[g]]
           /\ \A g \in Handlers : req'[g].Number \in Nat
           /\ decision' \in [Handlers -> Decisions]
<1> USE DEF Base
<1>1. /\ pc' = [pc EXCEPT ![h] = "idle"] /\ req' = [req EXCEPT ![h] = NoRequest]
      /\ pd' = [pd EXCEPT ![h] = NoDecision] /\ decision' = [decision EXCEPT ![h] = "none"]
  BY DEF Forget, Goto
<1>2. NoRequest.Number \in Nat
  BY DEF NoRequest
<1>3. "none" \in Decisions /\ "idle" \in Labels
  BY DEF Decisions, Labels
<1>4. /\ req'[h] = NoRequest
      /\ \A g \in Handlers : g # h => req'[g] = req[g]
      /\ req' = [g \in Handlers |-> req'[g]]
  BY <1>1 DEF Typed
<1>5. \A g \in Handlers : req'[g].Number \in Nat
  BY <1>2, <1>4 DEF Typed
<1> QED
  BY <1>1, <1>3, <1>4, <1>5 DEF Typed

\* What a step of a handler between the decision and the answer does, apart from what
\* it writes.
LEMMA MoveEffect ==
    ASSUME Base, NEW h \in Handlers, NEW label \in DecidedLabels, Goto(h, label)
    PROVE  /\ pc'[h] = label
           /\ \A x \in Handlers \cup Admins : x # h => pc'[x] = pc[x]
           /\ pc' \in [Handlers \cup Admins -> Labels]
BY DEF Base, Typed, Goto, Labels

\* What the arrival of a request does.
LEMMA ReceiveEffect ==
    ASSUME Base, NEW h \in Handlers, NEW r \in Requests, Receive(h, r)
    PROVE  /\ pc[h] = "idle" /\ pc'[h] = "evaluate"
           /\ req'[h].Input = r /\ req'[h].Number = arrived + 1 /\ arrived' = arrived + 1
           /\ \A x \in Handlers \cup Admins : x # h => pc'[x] = pc[x]
           /\ \A g \in Handlers : g # h => req'[g] = req[g]
           /\ UNCHANGED <<pd, decision, adminVars, outVars>>
           /\ pc' \in [Handlers \cup Admins -> Labels]
           /\ req' = [g \in Handlers |-> req'[g]]
BY DEF Base, Typed, Goto, Labels, Receive

\* Administrators store bodies that they were given, and touch no handler.
LEMMA AdminBase ==
    ASSUME Base, NEW a \in Admins,
           \/ \E id \in PolicyIDs, body \in PolicyBodies :
                 CreatePolicy(a, id, body) \/ BeginUpdate(a, id, body)
           \/ \E id \in PolicyIDs : DeletePolicy(a, id)
           \/ FinishUpdate(a)
    PROVE  /\ Base'
           /\ UNCHANGED <<handlerVars, arrived, outVars>>
           /\ \A h \in Handlers : pc'[h] = pc[h]
<1> USE DEF Base
<1>1. UNCHANGED <<handlerVars, arrived, outVars>>
  BY DEF CreatePolicy, BeginUpdate, DeletePolicy, FinishUpdate
<1>2. \A h \in Handlers : pc'[h] = pc[h]
  BY ProcessesAssumption DEF CreatePolicy, BeginUpdate, DeletePolicy, FinishUpdate, Goto, Typed
<1>3. ASSUME update' = [b \in Admins |-> update'[b]], pc' \in [Handlers \cup Admins -> Labels]
      PROVE  Typed'
  BY <1>1, <1>3 DEF Typed, handlerVars, outVars
<1>4. ASSUME NEW id \in PolicyIDs, NEW body \in PolicyBodies, CreatePolicy(a, id, body)
      PROVE  Base'
  BY <1>3, <1>4 DEF CreatePolicy, Typed, StoreKnown
<1>5. ASSUME NEW id \in PolicyIDs, NEW body \in PolicyBodies, BeginUpdate(a, id, body)
      PROVE  Base'
  BY <1>3, <1>5 DEF BeginUpdate, Goto, Typed, StoreKnown, Labels
<1>6. ASSUME NEW id \in PolicyIDs, DeletePolicy(a, id)
      PROVE  Base'
  BY <1>3, <1>6 DEF DeletePolicy, Typed, StoreKnown
<1>7. CASE FinishUpdate(a)
  <2>1. update[a].ID \in PolicyIDs /\ update[a].Body \in PolicyBodies
    BY <1>7 DEF FinishUpdate, StoreKnown
  <2>2. Typed'
    BY <1>3, <1>7 DEF FinishUpdate, Goto, Typed, Labels
  <2>3. policies' \in [PolicyIDs -> PolicyBodies \cup {NoPolicy}]
    BY <1>7, <2>1 DEF FinishUpdate, StoreKnown
  <2>4. pc'[a] = "idle" /\ \A b \in Admins : b # a => pc'[b] = pc[b] /\ update'[b] = update[b]
    BY <1>7 DEF FinishUpdate, Goto, Typed
  <2>5. StoreKnown'
    BY <2>3, <2>4 DEF StoreKnown
  <2> QED
    BY <1>1, <1>2, <2>2, <2>5
<1> QED
  BY <1>1, <1>2, <1>4, <1>5, <1>6, <1>7

\* An audit event of the handler's request is appended at the end of the log.
LEMMA AuditEmitEffect ==
    ASSUME Base, NEW h \in Handlers, NEW type \in {"challenge.created", "access.evaluate"},
           AuditEmit(h, type)
    PROVE  /\ auditLog' \in Seq(Entry)
           /\ Len(auditLog) \in Nat /\ DOMAIN auditLog = 1..Len(auditLog)
           /\ DOMAIN auditLog' = 1..(Len(auditLog) + 1)
           /\ \A i \in DOMAIN auditLog : auditLog'[i] = auditLog[i]
           /\ auditLog'[Len(auditLog) + 1] =
                 [Type |-> type, Request |-> req[h].Number, Decision |-> decision[h]]
<1> DEFINE e == [Type |-> type, Request |-> req[h].Number, Decision |-> decision[h]]
<1>1. e \in Entry
  BY DEF Base, Typed, Entry
<1>2. auditLog \in Seq(Entry) /\ auditLog' = Append(auditLog, e)
  BY DEF Base, Typed, AuditEmit
<1> HIDE DEF e
<1>3. /\ auditLog' \in Seq(Entry)
      /\ Len(auditLog) \in Nat /\ DOMAIN auditLog = 1..Len(auditLog)
      /\ DOMAIN auditLog' = 1..(Len(auditLog) + 1)
      /\ \A i \in DOMAIN auditLog : auditLog'[i] = auditLog[i]
      /\ auditLog'[Len(auditLog) + 1] = e
  BY SMTT(30), <1>1, <1>2
<1> QED
  BY <1>3 DEF e

\* The same for an announcement on the bus.
LEMMA BusEmitEffect ==
    ASSUME Base, NEW h \in Handlers, BusEmit(h)
    PROVE  /\ busLog' \in Seq(Announcement)
           /\ DOMAIN busLog = 1..Len(busLog) /\ Len(busLog) \in Nat
           /\ DOMAIN busLog' = 1..(Len(busLog) + 1)
           /\ \A i \in DOMAIN busLog : busLog'[i] = busLog[i]
           /\ busLog'[Len(busLog) + 1] = [Request |-> req[h].Number, Decision |-> decision[h]]
<1> DEFINE e == [Request |-> req[h].Number, Decision |-> decision[h]]
<1>1. e \in Announcement
  BY DEF Base, Typed, Announcement
<1>2. busLog \in Seq(Announcement) /\ busLog' = Append(busLog, e)
  BY DEF Base, Typed, BusEmit
<1> HIDE DEF e
<1>3. /\ busLog' \in Seq(Announcement)
      /\ DOMAIN busLog = 1..Len(busLog) /\ Len(busLog) \in Nat
      /\ DOMAIN busLog' = 1..(Len(busLog) + 1)
      /\ \A i \in DOMAIN busLog : busLog'[i] = busLog[i]
      /\ busLog'[Len(busLog) + 1] = e
  BY SMTT(30), <1>1, <1>2
<1> QED
  BY <1>3 DEF e

\* The types and the origin of the stored policies hold in the initial state ...
LEMMA InitBase == Init => Base
BY SMTT(30) DEF Init, Base, Typed, StoreKnown, Labels, Decisions, NoRequest

\* ... and every step of every handler and administrator keeps them.
LEMMA NextBase == Base /\ [Next]_vars => Base'
<1> SUFFICES ASSUME Base, [Next]_vars PROVE Base'
  OBVIOUS
<1>1. ASSUME NEW h \in Handlers, Step(h) \/ \E r \in Requests : Receive(h, r)
      PROVE  Base'
  <2>1. UNCHANGED adminVars
    BY <1>1 DEF Step, EvaluatePolicies, CreateChallenge, CreateFails, AuditCreated, AuditDecision,
                BusEmit, Respond, Receive
  <2>2. ASSUME \A x \in Handlers \cup Admins : x # h => pc'[x] = pc[x]
        PROVE  StoreKnown'
    BY <2>1, <2>2, ProcessesAssumption DEF Base, StoreKnown, adminVars
  <2>3. CASE EvaluatePolicies(h)
    <3>1. \A g \in Handlers : req'[g].Number = req[g].Number
      BY <2>3, EvaluateEffect
    <3> QED
      BY <2>2, <2>3, <3>1, EvaluateEffect DEF Base, Typed, adminVars, outVars
  <2>4. CASE \E r \in Requests : Receive(h, r)
    <3>1. PICK r \in Requests : Receive(h, r)
      BY <2>4
    <3>2. /\ arrived' = arrived + 1 /\ req'[h].Number = arrived + 1
          /\ \A g \in Handlers : g # h => req'[g] = req[g]
      BY <3>1, ReceiveEffect
    <3>3. arrived' \in Nat /\ \A g \in Handlers : req'[g].Number \in Nat
      BY SMTT(30), <3>2 DEF Base, Typed
    <3> QED
      BY <2>2, <3>1, <3>3, ReceiveEffect DEF Base, Typed, adminVars, outVars
  <2>5. CASE CreateChallenge(h)
    BY <2>2, <2>5, MoveEffect
       DEF Base, Typed, CreateChallenge, DecidedLabels, handlerVars, adminVars
  <2>6. CASE CreateFails(h)
    BY <2>2, <2>6, ForgetEffect DEF Base, Typed, CreateFails, adminVars, outVars
  <2>7. CASE AuditCreated(h)
    BY <2>2, <2>7, MoveEffect, AuditEmitEffect
       DEF Base, Typed, AuditCreated, DecidedLabels, handlerVars, adminVars
  <2>8. CASE AuditDecision(h)
    BY <2>2, <2>8, MoveEffect, AuditEmitEffect
       DEF Base, Typed, AuditDecision, DecidedLabels, handlerVars, adminVars
  <2>9. CASE BusEmit(h)
    <3>1. Goto(h, "respond") /\ UNCHANGED <<handlerVars, adminVars, arrived, auditLog>>
      BY <2>9 DEF BusEmit
    <3> QED
      BY <2>2, <2>9, <3>1, MoveEffect, BusEmitEffect
         DEF Base, Typed, DecidedLabels, handlerVars, adminVars
  <2>10. CASE Respond(h)
    BY <2>2, <2>10, ForgetEffect DEF Base, Typed, Respond, adminVars
  <2> QED
    BY <1>1, <2>3, <2>4, <2>5, <2>6, <2>7, <2>8, <2>9, <2>10 DEF Step
<1>2. ASSUME NEW a \in Admins,
             \/ \E id \in PolicyIDs, body \in PolicyBodies :
                   CreatePolicy(a, id, body) \/ BeginUpdate(a, id, body)
             \/ \E id \in PolicyIDs : DeletePolicy(a, id)
             \/ FinishUpdate(a)
      PROVE  Base'
  BY <1>2, AdminBase
<1>3. CASE UNCHANGED vars
  BY <1>3 DEF vars, handlerVars, adminVars, outVars, Base, Typed, StoreKnown
<1> QED
  BY <1>1, <1>2, <1>3 DEF Next, Quiet

-----------------------------------------------------------------------------
\* Between listing the policies and answering, a handler holds the documented
\* decision for the policies it listed.
HeldDocumented ==
    \A h \in Handlers :
        /\ pc[h] = "evaluate" => req[h].Input \in AccessRequest
        /\ pc[h] \in DecidedLabels =>
              decision[h] = DocumentedDecision(req[h].Policies, req[h].Input)

\* The inductive invariant behind the decisions.
IInv == Base /\ HeldDocumented /\ DecisionDocumented

\* The initial state holds no decision.
LEMMA InitIInv == Init => IInv
<1>1. Init => HeldDocumented /\ DecisionDocumented
  BY DEF Init, HeldDocumented, DecisionDocumented, DecidedLabels
<1> QED
  BY <1>1, InitBase DEF IInv

\* Evaluating the policies: the stored effects are known, so DecidedDocumented applies.
LEMMA EvaluateIInv ==
    ASSUME KnownEffects, IInv, NEW h \in Handlers, EvaluatePolicies(h)
    PROVE  HeldDocumented' /\ DecisionDocumented'
<1> USE DEF IInv
<1>1. \A p \in Stored : p.Effect \in Effects
  BY DEF Stored, Base, StoreKnown, KnownEffects
<1>2. PICK d \in Evaluate(Stored, req[h].Input) : decision'[h] = Decided(d, req[h].Input)
  BY EvaluateEffect
<1>3. req[h].Input \in AccessRequest
  BY DEF EvaluatePolicies, HeldDocumented
<1>4. Decided(d, req[h].Input) = DocumentedDecision(Stored, req[h].Input)
  BY <1>1, <1>3, DecidedDocumented
<1>5. /\ req'[h].Policies = Stored /\ req'[h].Input = req[h].Input
      /\ pc'[h] \in {"create", "audit"} /\ UNCHANGED responses
      /\ \A g \in Handlers : g # h =>
            pc'[g] = pc[g] /\ req'[g] = req[g] /\ decision'[g] = decision[g]
  BY EvaluateEffect DEF outVars
<1>6. HeldDocumented'
  BY <1>2, <1>4, <1>5 DEF HeldDocumented, DecidedLabels
<1>7. DecisionDocumented'
  BY <1>5 DEF DecisionDocumented
<1> QED
  BY <1>6, <1>7

\* Every step of every handler and administrator keeps the decisions documented.
LEMMA NextIInv == ASSUME KnownEffects PROVE IInv /\ [Next]_vars => IInv'
<1> SUFFICES ASSUME IInv, [Next]_vars PROVE HeldDocumented' /\ DecisionDocumented'
  BY NextBase DEF IInv
<1> USE DEF IInv
\* Steps between the decision and the answer.
<1>1. ASSUME NEW h \in Handlers, pc[h] \in DecidedLabels,
             NEW label \in DecidedLabels, Goto(h, label), UNCHANGED <<handlerVars, responses>>
      PROVE  HeldDocumented' /\ DecisionDocumented'
  <2>1. pc'[h] \in DecidedLabels /\ \A g \in Handlers : g # h => pc'[g] = pc[g]
    BY <1>1, MoveEffect
  <2>2. "evaluate" \notin DecidedLabels
    BY DEF DecidedLabels
  <2> QED
    BY <1>1, <2>1, <2>2 DEF HeldDocumented, DecisionDocumented, handlerVars
\* Steps that end a request.
<1>2. ASSUME NEW h \in Handlers, Forget(h)
      PROVE  HeldDocumented'
  BY <1>2, ForgetEffect DEF HeldDocumented, DecidedLabels
<1>3. ASSUME NEW h \in Handlers, Step(h)
      PROVE  HeldDocumented' /\ DecisionDocumented'
  <2>1. CASE EvaluatePolicies(h)
    BY <2>1, EvaluateIInv
  <2>2. CASE CreateChallenge(h)
    BY <1>1, <2>2 DEF CreateChallenge, DecidedLabels
  <2>3. CASE CreateFails(h)
    BY <1>2, <2>3 DEF CreateFails, DecisionDocumented, outVars
  <2>4. CASE AuditCreated(h)
    BY <1>1, <2>4 DEF AuditCreated, DecidedLabels
  <2>5. CASE AuditDecision(h)
    BY <1>1, <2>5 DEF AuditDecision, DecidedLabels
  <2>6. CASE BusEmit(h)
    BY <1>1, <2>6 DEF BusEmit, DecidedLabels
  <2>7. CASE Respond(h)
    <3>1. decision[h] = DocumentedDecision(req[h].Policies, req[h].Input)
      BY <2>7 DEF Respond, HeldDocumented, DecidedLabels
    <3>2. DecisionDocumented'
      BY SMTT(30), <2>7, <3>1 DEF DecisionDocumented, Respond
    <3> QED
      BY <1>2, <2>7, <3>2 DEF Respond
  <2> QED
    BY <1>3, <2>1, <2>2, <2>3, <2>4, <2>5, <2>6, <2>7 DEF Step
<1>4. ASSUME NEW h \in Handlers, NEW r \in Requests, Receive(h, r)
      PROVE  HeldDocumented' /\ DecisionDocumented'
  <2>1. /\ pc'[h] = "evaluate" /\ req'[h].Input = r /\ UNCHANGED <<decision, responses>>
        /\ \A g \in Handlers : g # h => pc'[g] = pc[g] /\ req'[g] = req[g]
    BY <1>4, ReceiveEffect DEF outVars
  <2> QED
    BY <2>1, RequestsAssumption DEF HeldDocumented, DecisionDocumented, DecidedLabels
<1>5. ASSUME NEW a \in Admins,
             \/ \E id \in PolicyIDs, body \in PolicyBodies :
                   CreatePolicy(a, id, body) \/ BeginUpdate(a, id, body)
             \/ \E id \in PolicyIDs : DeletePolicy(a, id)
             \/ FinishUpdate(a)
      PROVE  HeldDocumented' /\ DecisionDocumented'
  BY <1>5, AdminBase DEF HeldDocumented, DecisionDocumented, handlerVars, outVars
<1>6. CASE UNCHANGED vars
  BY <1>6 DEF vars, handlerVars, outVars, HeldDocumented, DecisionDocumented
<1> QED
  BY <1>3, <1>4, <1>5, <1>6 DEF Next, Quiet

\* Every answer of POST /v1/access/evaluate is the documented decision for policies
\* that were stored together at one moment of the request.
THEOREM AnswersDocumented == ASSUME KnownEffects PROVE Spec => []DecisionDocumented
<1>1. IInv => DecisionDocumented
  BY DEF IInv
<1> QED
  BY InitIInv, NextIInv, <1>1, PTL DEF Spec

-----------------------------------------------------------------------------
(* The trail of a request: what the audit log, the bus and the challenge      *)
(* store hold of it while it is served and after it is answered.             *)

\* Where the audit log has events of a type for the n-th request.
At(n, type) == {i \in DOMAIN auditLog : auditLog[i].Request = n /\ auditLog[i].Type = type}

\* Decision d of the n-th request is audited once, after the creation of its challenge.
AuditedAs(n, d) ==
    \E i \in DOMAIN auditLog :
        /\ At(n, "access.evaluate") = {i}
        /\ auditLog[i].Decision = d
        /\ d = "challenge" => \E j \in At(n, "challenge.created") : j < i

Announced(n, d) == \E i \in DOMAIN busLog : busLog[i] = [Request |-> n, Decision |-> d]

Busy(h) == pc[h] # "idle"

\* Requests are numbered in their order of arrival; a request that is being served is
\* not answered, is served by one handler, and nothing is known of later ones.
Numbered ==
    /\ \A h \in Handlers : Busy(h) => req[h].Number \in 1..arrived
    /\ \A g, h \in Handlers : Busy(g) /\ Busy(h) /\ req[g].Number = req[h].Number => g = h
    /\ \A i \in DOMAIN auditLog : auditLog[i].Request \in 1..arrived
    /\ \A r \in responses : r.Request \in 1..arrived
    /\ \A r \in responses, h \in Handlers : Busy(h) => r.Request # req[h].Number

\* What the logs hold of a request at each label of its handler.
Served(h) ==
    /\ pc[h] \in {"evaluate", "create", "auditCreated", "audit"} =>
          At(req[h].Number, "access.evaluate") = {}
    /\ pc[h] \in {"create", "auditCreated"} => decision[h] = "challenge"
    /\ pc[h] = "audit" /\ decision[h] = "challenge" =>
          At(req[h].Number, "challenge.created") # {}
    /\ pc[h] \in {"bus", "respond"} => AuditedAs(req[h].Number, decision[h])
    /\ pc[h] = "respond" => Announced(req[h].Number, decision[h])

ServedTrail == \A h \in Handlers : Served(h)

AnsweredTrail ==
    \A r \in responses : AuditedAs(r.Request, r.Decision) /\ Announced(r.Request, r.Decision)

\* A challenge that was created for handler h.
Created(h) ==
    /\ pc[h] \in {"auditCreated", "audit", "bus", "respond"}
    /\ decision[h] = "challenge"

\* The methods a policy that matched, or the default, asks for.
Asked(ps, r) == {p.Challenge : p \in matched(ps, r)} \cup {{"totp"}}

ChallengeTrail ==
    /\ \A h \in Handlers :
          /\ Created(h) => [Request |-> req[h].Number, Methods |-> methods(h)] \in challenges
          /\ pc[h] \in DecidedLabels => methods(h) \in Asked(req[h].Policies, req[h].Input)
    /\ \A r \in responses : r.Decision = "challenge" =>
          /\ [Request |-> r.Request, Methods |-> r.Challenge] \in challenges
          /\ r.Challenge \in Asked(r.Policies, r.Input)
    /\ \A c \in challenges :
          \/ \E r \in responses :
                r.Request = c.Request /\ r.Decision = "challenge" /\ r.Challenge = c.Methods
          \/ \E h \in Handlers :
                Created(h) /\ req[h].Number = c.Request /\ methods(h) = c.Methods

\* The inductive invariant behind the accounts.
Trail == Numbered /\ ServedTrail /\ AnsweredTrail /\ ChallengeTrail
TInv == Base /\ Trail

\* The initial state has served nothing.
LEMMA InitTrail == Init => Trail
BY SMTT(30) DEF Init, Trail, Numbered, ServedTrail, Served, AnsweredTrail, ChallengeTrail, Busy, Created,
       DecidedLabels

\* An audit event of one request changes nothing for the other requests.
LEMMA AuditEmitOther ==
    ASSUME Base, NEW h \in Handlers, NEW type \in {"challenge.created", "access.evaluate"},
           AuditEmit(h, type), NEW n, n # req[h].Number
    PROVE  /\ \A t : At(n, t)' = At(n, t)
           /\ \A d : AuditedAs(n, d) => AuditedAs(n, d)'
<1> DEFINE L == Len(auditLog)
<1>1. /\ L \in Nat /\ DOMAIN auditLog = 1..L /\ DOMAIN auditLog' = 1..(L + 1)
      /\ \A i \in DOMAIN auditLog : auditLog'[i] = auditLog[i]
      /\ auditLog'[L + 1].Request = req[h].Number
  <2>1. auditLog'[L + 1] = [Type |-> type, Request |-> req[h].Number, Decision |-> decision[h]]
    BY AuditEmitEffect
  <2>2. auditLog'[L + 1].Request = req[h].Number
    BY SMTT(30), <2>1
  <2>3. /\ L \in Nat /\ DOMAIN auditLog = 1..L /\ DOMAIN auditLog' = 1..(L + 1)
        /\ \A i \in DOMAIN auditLog : auditLog'[i] = auditLog[i]
    BY AuditEmitEffect
  <2> QED
    BY <2>2, <2>3
<1> HIDE DEF L
<1>2. \A t : At(n, t)' = At(n, t)
  BY SMTT(30), <1>1 DEF At
<1>3. ASSUME NEW d, AuditedAs(n, d) PROVE AuditedAs(n, d)'
  <2>1. PICK i \in DOMAIN auditLog :
           /\ At(n, "access.evaluate") = {i}
           /\ auditLog[i].Decision = d
           /\ d = "challenge" => \E j \in At(n, "challenge.created") : j < i
    BY <1>3 DEF AuditedAs
  <2>2. i \in DOMAIN auditLog' /\ auditLog'[i].Decision = d
    BY SMTT(30), <1>1, <2>1
  <2> QED
    BY SMTT(30), <1>2, <2>1, <2>2 DEF AuditedAs
<1> QED
  BY <1>2, <1>3

\* What is kept by a step of handler h for every other handler, when the logs keep what
\* they hold of other requests.
LEMMA OtherServed ==
    ASSUME Base, Trail, NEW h \in Handlers, Busy(h), NEW g \in Handlers, g # h,
           pc'[g] = pc[g], req'[g] = req[g], decision'[g] = decision[g],
           \A n : n # req[h].Number =>
              /\ \A t : At(n, t)' = At(n, t)
              /\ \A d : (AuditedAs(n, d) => AuditedAs(n, d)') /\ (Announced(n, d) => Announced(n, d)')
    PROVE  Served(g)'
<1>1. CASE ~Busy(g)
  <2>1. pc'[g] = "idle"
    BY <1>1 DEF Busy
  <2> QED
    BY <2>1 DEF Served
<1>2. CASE Busy(g)
  <2>1. PICK n, d : n = req[g].Number /\ d = decision[g]
    OBVIOUS
  <2>2. n # req[h].Number
    BY <1>2, <2>1 DEF Trail, Numbered
  <2>3. /\ \A t : At(n, t)' = At(n, t)
        /\ AuditedAs(n, d) => AuditedAs(n, d)'
        /\ Announced(n, d) => Announced(n, d)'
    BY <2>2
  <2>4. Served(g)
    BY DEF Trail, ServedTrail
  <2>5. Served(g) <=>
          /\ pc[g] \in {"evaluate", "create", "auditCreated", "audit"} => At(n, "access.evaluate") = {}
          /\ pc[g] \in {"create", "auditCreated"} => d = "challenge"
          /\ pc[g] = "audit" /\ d = "challenge" => At(n, "challenge.created") # {}
          /\ pc[g] \in {"bus", "respond"} => AuditedAs(n, d)
          /\ pc[g] = "respond" => Announced(n, d)
    BY <2>1 DEF Served
  <2>6. Served(g)' <=>
          /\ pc'[g] \in {"evaluate", "create", "auditCreated", "audit"} => At(n, "access.evaluate")' = {}
          /\ pc'[g] \in {"create", "auditCreated"} => d = "challenge"
          /\ pc'[g] = "audit" /\ d = "challenge" => At(n, "challenge.created")' # {}
          /\ pc'[g] \in {"bus", "respond"} => AuditedAs(n, d)'
          /\ pc'[g] = "respond" => Announced(n, d)'
    BY <2>1 DEF Served
  <2> QED
    BY <2>3, <2>4, <2>5, <2>6
<1> QED
  BY <1>1, <1>2

\* Steps between the decision and the answer keep the trail when they keep the trail of
\* their own request and touch no other.
LEMMA MoveTrail ==
    ASSUME Base, Trail, NEW h \in Handlers, pc[h] \in DecidedLabels,
           NEW label \in DecidedLabels, Goto(h, label),
           UNCHANGED <<handlerVars, arrived, responses>>,
           \A i \in DOMAIN auditLog' : auditLog'[i].Request \in 1..arrived,
           \A n : n # req[h].Number =>
              /\ \A t : At(n, t)' = At(n, t)
              /\ \A d : (AuditedAs(n, d) => AuditedAs(n, d)') /\ (Announced(n, d) => Announced(n, d)'),
           Served(h)', ChallengeTrail'
    PROVE  Trail'
<1>1. /\ pc'[h] = label
      /\ \A g \in Handlers : g # h => pc'[g] = pc[g]
  BY MoveEffect
<1>2. UNCHANGED <<req, pd, decision, arrived, responses>>
  BY DEF handlerVars
<1>3. Busy(h) /\ \A g \in Handlers : Busy(g)' <=> Busy(g)
  BY <1>1 DEF Busy, DecidedLabels
<1>4. Numbered'
  <2>1. /\ \A g \in Handlers : Busy(g)' => req'[g].Number \in 1..arrived'
        /\ \A f, g \in Handlers : Busy(f)' /\ Busy(g)' /\ req'[f].Number = req'[g].Number => f = g
    BY <1>2, <1>3 DEF Trail, Numbered
  <2>2. /\ \A r \in responses' : r.Request \in 1..arrived'
        /\ \A r \in responses', g \in Handlers : Busy(g)' => r.Request # req'[g].Number
    BY <1>2, <1>3 DEF Trail, Numbered
  <2>3. \A i \in DOMAIN auditLog' : auditLog'[i].Request \in 1..arrived'
    BY <1>2
  <2> QED
    BY <2>1, <2>2, <2>3 DEF Numbered
<1>5. ServedTrail'
  <2>1. \A g \in Handlers : g # h => Served(g)'
    BY <1>1, <1>2, <1>3, OtherServed
  <2> QED
    BY <2>1 DEF ServedTrail
<1>6. AnsweredTrail'
  <2>1. \A r \in responses : r.Request # req[h].Number
    BY <1>3 DEF Trail, Numbered
  <2> QED
    BY <1>2, <2>1 DEF Trail, AnsweredTrail
<1> QED
  BY <1>4, <1>5, <1>6 DEF Trail

\* The challenges are accounted for as before when no challenge is created and the
\* handler has, or has not, created one as before.
LEMMA SameChallenges ==
    ASSUME Base, Trail, NEW h \in Handlers, pc[h] \in DecidedLabels, pc'[h] \in DecidedLabels,
           Created(h)' <=> Created(h), \A g \in Handlers : g # h => pc'[g] = pc[g],
           UNCHANGED <<handlerVars, responses, challenges>>
    PROVE  ChallengeTrail'
<1>1. UNCHANGED <<req, pd, decision, responses, challenges>>
  BY DEF handlerVars
<1>2. \A g \in Handlers :
         /\ Created(g)' <=> Created(g)
         /\ methods(g)' = methods(g)
         /\ pc'[g] \in DecidedLabels <=> pc[g] \in DecidedLabels
  BY <1>1 DEF Created, methods
<1> QED
  BY <1>1, <1>2 DEF Trail, ChallengeTrail, Asked

\* Logs that do not change keep what they hold.
LEMMA SameAuditLog ==
    ASSUME UNCHANGED auditLog
    PROVE  \A n : (\A t : At(n, t)' = At(n, t)) /\ (\A d : AuditedAs(n, d)' <=> AuditedAs(n, d))
<1>1. \A n, t : At(n, t)' = At(n, t)
  BY DEF At
<1> QED
  BY <1>1 DEF AuditedAs

\* The same for the bus.
LEMMA SameBusLog ==
    ASSUME UNCHANGED busLog
    PROVE  \A n, d : Announced(n, d)' <=> Announced(n, d)
BY DEF Announced

\* challenge.Create stores a challenge for the handler's request.
LEMMA CreateChallengeTrail ==
    ASSUME Base, Trail, NEW h \in Handlers, CreateChallenge(h)
    PROVE  Trail'
<1>1. /\ pc[h] = "create" /\ Goto(h, "auditCreated")
      /\ UNCHANGED <<req, pd, decision, arrived, auditLog, busLog, responses>>
      /\ challenges' = challenges \cup {[Request |-> req[h].Number, Methods |-> methods(h)]}
  BY DEF CreateChallenge, handlerVars
<1>2. /\ pc'[h] = "auditCreated"
      /\ \A g \in Handlers : g # h => pc'[g] = pc[g]
  BY <1>1, MoveEffect DEF DecidedLabels
<1>3. Served(h)'
  <2>1. At(req[h].Number, "access.evaluate") = {} /\ decision[h] = "challenge"
    BY <1>1 DEF Trail, ServedTrail, Served
  <2> QED
    BY <1>1, <1>2, <2>1 DEF Served, At
<1>4. ChallengeTrail'
  <2>1. \A g \in Handlers : methods(g)' = methods(g)
    BY <1>1 DEF methods
  <2>2. /\ ~Created(h) /\ Created(h)'
        /\ \A g \in Handlers : g # h => (Created(g)' <=> Created(g))
        /\ pc[h] \in DecidedLabels
    BY <1>1, <1>2, <1>3 DEF Created, Served, DecidedLabels
  <2>3. ASSUME NEW g \in Handlers
        PROVE  /\ Created(g)' => [Request |-> req[g].Number, Methods |-> methods(g)]' \in challenges'
               /\ pc'[g] \in DecidedLabels => methods(g)' \in Asked(req[g].Policies, req[g].Input)'
    <3>1. [Request |-> req[g].Number, Methods |-> methods(g)]'
             = [Request |-> req[g].Number, Methods |-> methods(g)]
      BY <1>1, <2>1
    <3>2. Created(g)' => [Request |-> req[g].Number, Methods |-> methods(g)] \in challenges'
      BY <1>1, <2>2 DEF Trail, ChallengeTrail
    <3>3. pc'[g] \in DecidedLabels => methods(g) \in Asked(req[g].Policies, req[g].Input)
      BY <1>2, <2>2 DEF Trail, ChallengeTrail
    <3> QED
      BY <1>1, <2>1, <3>1, <3>2, <3>3 DEF Asked
  <2>4. \A r \in responses' : r.Decision = "challenge" =>
          /\ [Request |-> r.Request, Methods |-> r.Challenge] \in challenges'
          /\ r.Challenge \in Asked(r.Policies, r.Input)
    BY <1>1 DEF Trail, ChallengeTrail
  <2>5. ASSUME NEW c \in challenges'
        PROVE  \/ \E r \in responses' :
                     r.Request = c.Request /\ r.Decision = "challenge" /\ r.Challenge = c.Methods
               \/ \E g \in Handlers :
                     Created(g)' /\ req'[g].Number = c.Request /\ methods(g)' = c.Methods
    <3>1. CASE c \in challenges
      BY <1>1, <2>1, <2>2, <3>1 DEF Trail, ChallengeTrail
    <3>2. CASE c = [Request |-> req[h].Number, Methods |-> methods(h)]
      BY <1>1, <2>1, <2>2, <3>2
    <3> QED
      BY <1>1, <3>1, <3>2
  <2> QED
    BY <2>3, <2>4, <2>5 DEF ChallengeTrail
<1>5. \A i \in DOMAIN auditLog' : auditLog'[i].Request \in 1..arrived
  BY <1>1 DEF Trail, Numbered
<1> QED
  BY <1>1, <1>3, <1>4, <1>5, SameAuditLog, SameBusLog, MoveTrail DEF DecidedLabels, handlerVars

\* challenge.Create's audit event precedes the one of the decision.
LEMMA AuditCreatedTrail ==
    ASSUME Base, Trail, NEW h \in Handlers, AuditCreated(h)
    PROVE  Trail'
<1>0. PICK n : n = req[h].Number
  OBVIOUS
<1>1. /\ pc[h] = "auditCreated" /\ Goto(h, "audit") /\ AuditEmit(h, "challenge.created")
      /\ UNCHANGED <<req, pd, decision, arrived, challenges, busLog, responses>>
  BY DEF AuditCreated, handlerVars
<1>2. /\ pc'[h] = "audit"
      /\ \A g \in Handlers : g # h => pc'[g] = pc[g]
  BY <1>1, MoveEffect DEF DecidedLabels
<1>3. PICK L \in Nat :
        /\ DOMAIN auditLog = 1..L /\ DOMAIN auditLog' = 1..(L + 1)
        /\ \A i \in DOMAIN auditLog : auditLog'[i] = auditLog[i]
        /\ auditLog'[L + 1] = [Type |-> "challenge.created", Request |-> req[h].Number,
                               Decision |-> decision[h]]
  BY <1>1, AuditEmitEffect
<1>4. auditLog'[L + 1].Type = "challenge.created" /\ auditLog'[L + 1].Request = n
  BY SMTT(30), <1>0, <1>3
<1>5. Served(h)'
  <2>1. At(n, "access.evaluate") = {} /\ decision[h] = "challenge"
    BY <1>0, <1>1 DEF Trail, ServedTrail, Served
  <2>2. At(n, "access.evaluate")' = {}
    BY SMTT(30), <1>3, <1>4, <2>1 DEF At
  <2>3. L + 1 \in At(n, "challenge.created")'
    BY SMTT(30), <1>3, <1>4 DEF At
  <2>4. req'[h].Number = n
    BY <1>0, <1>1
  <2> QED
    BY <1>2, <2>2, <2>3, <2>4 DEF Served
<1>6. \A i \in DOMAIN auditLog' : auditLog'[i].Request \in 1..arrived
  <2>1. n \in 1..arrived
    BY <1>0, <1>1 DEF Trail, Numbered, Busy
  <2> QED
    BY SMTT(30), <1>3, <1>4, <2>1 DEF Trail, Numbered
<1>7. ChallengeTrail'
  <2>1. Created(h)' <=> Created(h)
    BY <1>1, <1>2 DEF Created
  <2> QED
    BY <1>1, <1>2, <2>1, SameChallenges DEF DecidedLabels, handlerVars
<1>8. \A m : m # req[h].Number =>
        /\ \A t : At(m, t)' = At(m, t)
        /\ \A d : (AuditedAs(m, d) => AuditedAs(m, d)') /\ (Announced(m, d) => Announced(m, d)')
  BY <1>1, AuditEmitOther, SameBusLog
<1> QED
  BY <1>1, <1>5, <1>6, <1>7, <1>8, MoveTrail DEF DecidedLabels, handlerVars

\* The decision is audited once.
LEMMA AuditDecisionTrail ==
    ASSUME Base, Trail, NEW h \in Handlers, AuditDecision(h)
    PROVE  Trail'
<1>0. PICK n, d : n = req[h].Number /\ d = decision[h]
  OBVIOUS
<1>1. /\ pc[h] = "audit" /\ Goto(h, "bus") /\ AuditEmit(h, "access.evaluate")
      /\ UNCHANGED <<req, pd, decision, arrived, challenges, busLog, responses>>
  BY DEF AuditDecision, handlerVars
<1>2. /\ pc'[h] = "bus"
      /\ \A g \in Handlers : g # h => pc'[g] = pc[g]
  BY <1>1, MoveEffect DEF DecidedLabels
<1>3. PICK L \in Nat :
        /\ DOMAIN auditLog = 1..L /\ DOMAIN auditLog' = 1..(L + 1)
        /\ \A i \in DOMAIN auditLog : auditLog'[i] = auditLog[i]
        /\ auditLog'[L + 1] = [Type |-> "access.evaluate", Request |-> req[h].Number,
                               Decision |-> decision[h]]
  BY <1>1, AuditEmitEffect
<1>4. /\ auditLog'[L + 1].Type = "access.evaluate" /\ auditLog'[L + 1].Request = n
      /\ auditLog'[L + 1].Decision = d
  BY SMTT(30), <1>0, <1>3
<1>5. Served(h)'
  <2>1. At(n, "access.evaluate") = {} /\ (d = "challenge" => At(n, "challenge.created") # {})
    BY <1>0, <1>1 DEF Trail, ServedTrail, Served
  <2>2. At(n, "access.evaluate")' = {L + 1}
    BY SMTT(30), <1>3, <1>4, <2>1 DEF At
  <2>3. \A j \in At(n, "challenge.created") : j \in At(n, "challenge.created")' /\ j < L + 1
    BY SMTT(30), <1>3 DEF At
  <2>4. AuditedAs(n, d)'
    BY SMTT(30), <1>3, <1>4, <2>1, <2>2, <2>3 DEF AuditedAs
  <2>5. req'[h].Number = n /\ decision'[h] = d
    BY <1>0, <1>1
  <2> QED
    BY <1>2, <2>4, <2>5 DEF Served
<1>6. \A i \in DOMAIN auditLog' : auditLog'[i].Request \in 1..arrived
  <2>1. n \in 1..arrived
    BY <1>0, <1>1 DEF Trail, Numbered, Busy
  <2> QED
    BY SMTT(30), <1>3, <1>4, <2>1 DEF Trail, Numbered
<1>7. ChallengeTrail'
  <2>1. Created(h)' <=> Created(h)
    BY <1>1, <1>2 DEF Created
  <2> QED
    BY <1>1, <1>2, <2>1, SameChallenges DEF DecidedLabels, handlerVars
<1>8. \A m : m # req[h].Number =>
        /\ \A t : At(m, t)' = At(m, t)
        /\ \A x : (AuditedAs(m, x) => AuditedAs(m, x)') /\ (Announced(m, x) => Announced(m, x)')
  BY <1>1, AuditEmitOther, SameBusLog
<1> QED
  BY <1>1, <1>5, <1>6, <1>7, <1>8, MoveTrail DEF DecidedLabels, handlerVars

\* The decision is announced as it was audited.
LEMMA BusEmitTrail ==
    ASSUME Base, Trail, NEW h \in Handlers, BusEmit(h)
    PROVE  Trail'
<1>0. PICK n, d : n = req[h].Number /\ d = decision[h]
  OBVIOUS
<1>1. /\ pc[h] = "bus" /\ Goto(h, "respond")
      /\ UNCHANGED <<req, pd, decision, arrived, challenges, auditLog, responses>>
  BY DEF BusEmit, handlerVars
<1>2. /\ pc'[h] = "respond"
      /\ \A g \in Handlers : g # h => pc'[g] = pc[g]
  BY <1>1, MoveEffect DEF DecidedLabels
<1>3. PICK L \in Nat :
        /\ DOMAIN busLog = 1..L /\ DOMAIN busLog' = 1..(L + 1)
        /\ \A i \in DOMAIN busLog : busLog'[i] = busLog[i]
        /\ busLog'[L + 1] = [Request |-> n, Decision |-> d]
  BY <1>0, BusEmitEffect
<1>4. Announced(n, d)' /\ \A m, x : Announced(m, x) => Announced(m, x)'
  BY SMTT(30), <1>3 DEF Announced
<1>5. Served(h)'
  <2>1. AuditedAs(n, d)'
    BY <1>0, <1>1, SameAuditLog DEF Trail, ServedTrail, Served
  <2>2. req'[h].Number = n /\ decision'[h] = d
    BY <1>0, <1>1
  <2> QED
    BY <1>2, <1>4, <2>1, <2>2 DEF Served
<1>6. \A i \in DOMAIN auditLog' : auditLog'[i].Request \in 1..arrived
  BY <1>1 DEF Trail, Numbered
<1>7. ChallengeTrail'
  <2>1. Created(h)' <=> Created(h)
    BY <1>1, <1>2 DEF Created
  <2> QED
    BY <1>1, <1>2, <2>1, SameChallenges DEF DecidedLabels, handlerVars
<1>8. \A m : m # req[h].Number =>
        /\ \A t : At(m, t)' = At(m, t)
        /\ \A x : (AuditedAs(m, x) => AuditedAs(m, x)') /\ (Announced(m, x) => Announced(m, x)')
  BY <1>1, <1>4, SameAuditLog
<1> QED
  BY <1>1, <1>5, <1>6, <1>7, <1>8, MoveTrail DEF DecidedLabels, handlerVars

\* A request arrives: nothing is known of its number yet.
LEMMA ReceiveTrail ==
    ASSUME Base, Trail, NEW h \in Handlers, NEW r \in Requests, Receive(h, r)
    PROVE  Trail'
<1>0. PICK n : n = arrived + 1
  OBVIOUS
<1>1. /\ pc[h] = "idle" /\ pc'[h] = "evaluate" /\ req'[h].Number = n /\ arrived' = n
      /\ \A g \in Handlers : g # h => pc'[g] = pc[g] /\ req'[g] = req[g]
      /\ UNCHANGED <<pd, decision, challenges, auditLog, busLog, responses>>
  BY <1>0, ReceiveEffect DEF outVars
<1>2. arrived \in Nat /\ 1..arrived \subseteq 1..n /\ n \in 1..n /\ n \notin 1..arrived
  BY SMTT(30), <1>0 DEF Base, Typed
<1>3. \A g \in Handlers : g # h => (Busy(g)' <=> Busy(g)) /\ (Created(g)' <=> Created(g))
                                   /\ methods(g)' = methods(g)
  BY <1>1 DEF Busy, Created, methods
<1>4. ~Created(h) /\ ~Created(h)' /\ ~Busy(h)
  BY <1>1 DEF Created, Busy
<1>5. Numbered'
  <2>1. \A g \in Handlers : Busy(g)' => req'[g].Number \in 1..n /\ (g # h => req'[g].Number # n)
    BY <1>1, <1>2, <1>3 DEF Trail, Numbered
  <2>2. \A f, g \in Handlers : Busy(f)' /\ Busy(g)' /\ req'[f].Number = req'[g].Number => f = g
    BY <1>1, <1>3, <2>1 DEF Trail, Numbered
  <2>3. \A i \in DOMAIN auditLog' : auditLog'[i].Request \in 1..n
    BY <1>1, <1>2 DEF Trail, Numbered
  <2>4. \A a \in responses' : a.Request \in 1..n /\ a.Request # n
    BY <1>1, <1>2 DEF Trail, Numbered
  <2>5. \A a \in responses', g \in Handlers : Busy(g)' => a.Request # req'[g].Number
    BY SMTT(30), <1>1, <1>3, <2>4 DEF Trail, Numbered
  <2> QED
    BY <1>1, <2>1, <2>2, <2>3, <2>4, <2>5 DEF Numbered
<1>6. \A m : /\ \A t : At(m, t)' = At(m, t)
             /\ \A d : (AuditedAs(m, d)' <=> AuditedAs(m, d)) /\ (Announced(m, d)' <=> Announced(m, d))
  BY <1>1, SameAuditLog, SameBusLog
<1>7. ServedTrail'
  <2>1. Served(h)'
    <3>1. At(n, "access.evaluate") = {}
      BY <1>2 DEF Trail, Numbered, At
    <3> QED
      BY <1>1, <1>6, <3>1 DEF Served
  <2>2. ASSUME NEW g \in Handlers, g # h
        PROVE  Served(g)'
    <3>1. PICK m, d : m = req[g].Number /\ d = decision[g]
      OBVIOUS
    <3>2. req'[g].Number = m /\ decision'[g] = d /\ pc'[g] = pc[g]
      BY <1>1, <2>2, <3>1
    <3>3. Served(g)
      BY DEF Trail, ServedTrail
    <3> QED
      BY <1>6, <3>1, <3>2, <3>3 DEF Served
  <2> QED
    BY <2>1, <2>2 DEF ServedTrail
<1>8. AnsweredTrail'
  BY <1>1, <1>6 DEF Trail, AnsweredTrail
<1>9. ChallengeTrail'
  <2>1. pc'[h] \notin DecidedLabels
    BY <1>1 DEF DecidedLabels
  <2>2. \A g \in Handlers : g # h =>
           /\ Created(g)' => [Request |-> req'[g].Number, Methods |-> methods(g)'] \in challenges
           /\ pc'[g] \in DecidedLabels => methods(g)' \in Asked(req'[g].Policies, req'[g].Input)
    BY <1>1, <1>3 DEF Trail, ChallengeTrail
  <2>3. \A c \in challenges :
          \/ \E a \in responses :
                a.Request = c.Request /\ a.Decision = "challenge" /\ a.Challenge = c.Methods
          \/ \E g \in Handlers :
                Created(g)' /\ req'[g].Number = c.Request /\ methods(g)' = c.Methods
    BY <1>1, <1>3, <1>4 DEF Trail, ChallengeTrail
  <2>4. \A a \in responses : a.Decision = "challenge" =>
          /\ [Request |-> a.Request, Methods |-> a.Challenge] \in challenges
          /\ a.Challenge \in Asked(a.Policies, a.Input)
    BY DEF Trail, ChallengeTrail
  <2>5. \A g \in Handlers : Asked(req'[g].Policies, req'[g].Input) = Asked(req[g].Policies, req[g].Input)'
    BY DEF Asked
  <2> QED
    BY <1>1, <1>4, <2>1, <2>2, <2>3, <2>4, <2>5 DEF ChallengeTrail, Asked
<1> QED
  BY <1>5, <1>7, <1>8, <1>9 DEF Trail

\* The decision asks for the methods of a matching policy, or for the default.
LEMMA EvaluateTrail ==
    ASSUME Base, Trail, NEW h \in Handlers, EvaluatePolicies(h)
    PROVE  Trail'
<1>1. /\ pc[h] = "evaluate" /\ pc'[h] = (IF decision'[h] = "challenge" THEN "create" ELSE "audit")
      /\ req'[h].Number = req[h].Number
      /\ \A g \in Handlers : g # h =>
            pc'[g] = pc[g] /\ req'[g] = req[g] /\ pd'[g] = pd[g] /\ decision'[g] = decision[g]
      /\ UNCHANGED <<arrived, challenges, auditLog, busLog, responses>>
  BY EvaluateEffect DEF outVars
<1>2. \A g \in Handlers : (Busy(g)' <=> Busy(g)) /\ req'[g].Number = req[g].Number
  BY <1>1 DEF Busy
<1>3. Numbered'
  BY SMTT(30), <1>1, <1>2 DEF Trail, Numbered
<1>4. \A m : /\ \A t : At(m, t)' = At(m, t)
             /\ \A d : (AuditedAs(m, d)' <=> AuditedAs(m, d)) /\ (Announced(m, d)' <=> Announced(m, d))
  BY <1>1, SameAuditLog, SameBusLog
<1>5. ServedTrail'
  <2>1. Served(h)'
    <3>1. PICK n : n = req[h].Number
      OBVIOUS
    <3>2. At(n, "access.evaluate") = {}
      BY <1>1, <3>1 DEF Trail, ServedTrail, Served
    <3> QED
      BY <1>1, <1>4, <3>1, <3>2 DEF Served
  <2>2. \A g \in Handlers : g # h => Served(g)'
    <3>1. Busy(h)
      BY <1>1 DEF Busy
    <3> QED
      BY <1>1, <1>4, <3>1, OtherServed
  <2> QED
    BY <2>1, <2>2 DEF ServedTrail
<1>6. AnsweredTrail'
  BY <1>1, <1>4 DEF Trail, AnsweredTrail
<1>7. ChallengeTrail'
  <2>1. ~Created(h) /\ ~Created(h)'
    BY <1>1 DEF Created
  <2>2. \A g \in Handlers : g # h => (Created(g)' <=> Created(g)) /\ methods(g)' = methods(g)
    BY <1>1 DEF Created, methods
  <2>3. methods(h)' \in Asked(req'[h].Policies, req'[h].Input)
    <3>1. PICK d \in Evaluate(Stored, req[h].Input) : pd'[h] = d
      BY EvaluateEffect
    <3>2. req'[h].Policies = Stored /\ req'[h].Input = req[h].Input
      BY EvaluateEffect
    <3>3. d.Challenge = {} \/ \E p \in matched(Stored, req[h].Input) : d.Challenge = p.Challenge
      <4>1. CASE matched(Stored, req[h].Input) = {}
        BY SMTT(30), <4>1 DEF Evaluate, DefaultDecision
      <4>2. CASE matched(Stored, req[h].Input) # {}
        BY SMTT(30), <4>2 DEF Evaluate
      <4> QED
        BY <4>1, <4>2
    <3> QED
      BY <3>1, <3>2, <3>3 DEF methods, Asked
  <2>4. \A g \in Handlers : g # h =>
           /\ Created(g)' => [Request |-> req'[g].Number, Methods |-> methods(g)'] \in challenges
           /\ pc'[g] \in DecidedLabels => methods(g)' \in Asked(req'[g].Policies, req'[g].Input)
    BY <1>1, <2>2 DEF Trail, ChallengeTrail
  <2>5. \A c \in challenges :
          \/ \E a \in responses :
                a.Request = c.Request /\ a.Decision = "challenge" /\ a.Challenge = c.Methods
          \/ \E g \in Handlers :
                Created(g)' /\ req'[g].Number = c.Request /\ methods(g)' = c.Methods
    BY SMTT(30), <1>1, <2>1, <2>2 DEF Trail, ChallengeTrail
  <2>6. \A a \in responses : a.Decision = "challenge" =>
          /\ [Request |-> a.Request, Methods |-> a.Challenge] \in challenges
          /\ a.Challenge \in Asked(a.Policies, a.Input)
    BY DEF Trail, ChallengeTrail
  <2> QED
    BY <1>1, <2>1, <2>3, <2>4, <2>5, <2>6 DEF ChallengeTrail, Asked
<1> QED
  BY <1>3, <1>5, <1>6, <1>7 DEF Trail

\* The end of a request, answered or not, keeps the trail of the other requests.
LEMMA ForgetTrail ==
    ASSUME Base, Trail, NEW h \in Handlers, Busy(h), Forget(h),
           UNCHANGED <<arrived, challenges, auditLog, busLog>>,
           responses \subseteq responses',
           \A a \in responses' : a \in responses \/ a.Request = req[h].Number,
           \A a \in responses' \ responses :
              /\ AuditedAs(a.Request, a.Decision) /\ Announced(a.Request, a.Decision)
              /\ a.Decision = "challenge" =>
                    /\ [Request |-> a.Request, Methods |-> a.Challenge] \in challenges
                    /\ a.Challenge \in Asked(a.Policies, a.Input),
           Created(h) => \E a \in responses' :
              a.Request = req[h].Number /\ a.Decision = "challenge" /\ a.Challenge = methods(h)
    PROVE  Trail'
<1>1. /\ pc'[h] = "idle"
      /\ \A g \in Handlers : g # h =>
            pc'[g] = pc[g] /\ req'[g] = req[g] /\ pd'[g] = pd[g] /\ decision'[g] = decision[g]
  BY ForgetEffect
<1>2. /\ ~Busy(h)' /\ ~Created(h)' /\ pc'[h] \notin DecidedLabels
      /\ \A g \in Handlers : g # h => /\ Busy(g)' <=> Busy(g)
                                      /\ Created(g)' <=> Created(g)
                                      /\ methods(g)' = methods(g)
  BY <1>1 DEF Busy, Created, methods, DecidedLabels
<1>3. \A m : /\ \A t : At(m, t)' = At(m, t)
             /\ \A d : (AuditedAs(m, d)' <=> AuditedAs(m, d)) /\ (Announced(m, d)' <=> Announced(m, d))
  BY SameAuditLog, SameBusLog
<1>4. Numbered'
  <2>1. /\ \A g \in Handlers : Busy(g)' => g # h /\ req'[g].Number = req[g].Number
                                           /\ req[g].Number \in 1..arrived
        /\ \A f, g \in Handlers : Busy(f)' /\ Busy(g)' /\ req'[f].Number = req'[g].Number => f = g
    BY <1>1, <1>2 DEF Trail, Numbered
  <2>2. req[h].Number \in 1..arrived
        /\ \A g \in Handlers : Busy(g)' => req[g].Number # req[h].Number
    BY <1>2 DEF Trail, Numbered
  <2>3. \A a \in responses' : a.Request \in 1..arrived
    BY <2>2 DEF Trail, Numbered
  <2>4. \A a \in responses', g \in Handlers : Busy(g)' => a.Request # req'[g].Number
    BY SMTT(30), <1>2, <2>1, <2>2 DEF Trail, Numbered
  <2> QED
    BY <2>1, <2>3, <2>4 DEF Trail, Numbered
<1>5. ServedTrail'
  <2>1. Served(h)'
    BY <1>1 DEF Served
  <2>2. \A g \in Handlers : g # h => Served(g)'
    BY <1>1, <1>3, OtherServed
  <2> QED
    BY <2>1, <2>2 DEF ServedTrail
<1>6. AnsweredTrail'
  BY <1>3 DEF Trail, AnsweredTrail
<1>7. ChallengeTrail'
  <2>1. \A g \in Handlers :
           /\ Created(g)' => [Request |-> req'[g].Number, Methods |-> methods(g)'] \in challenges
           /\ pc'[g] \in DecidedLabels => methods(g)' \in Asked(req'[g].Policies, req'[g].Input)
    BY <1>1, <1>2 DEF Trail, ChallengeTrail
  <2>2. ASSUME NEW c \in challenges
        PROVE  \/ \E a \in responses' :
                     a.Request = c.Request /\ a.Decision = "challenge" /\ a.Challenge = c.Methods
               \/ \E g \in Handlers :
                     Created(g)' /\ req'[g].Number = c.Request /\ methods(g)' = c.Methods
    <3>1. CASE \E a \in responses :
                  a.Request = c.Request /\ a.Decision = "challenge" /\ a.Challenge = c.Methods
      BY <3>1
    <3>2. CASE \E g \in Handlers :
                  Created(g) /\ req[g].Number = c.Request /\ methods(g) = c.Methods
      BY <1>1, <1>2, <3>2
    <3> QED
      BY <3>1, <3>2 DEF Trail, ChallengeTrail
  <2>3. \A a \in responses' : a.Decision = "challenge" =>
          /\ [Request |-> a.Request, Methods |-> a.Challenge] \in challenges
          /\ a.Challenge \in Asked(a.Policies, a.Input)
    BY DEF Trail, ChallengeTrail
  <2> QED
    BY <2>1, <2>2, <2>3 DEF ChallengeTrail, Asked
<1> QED
  BY <1>4, <1>5, <1>6, <1>7 DEF Trail

\* A failed challenge.Create leaves nothing behind.
LEMMA CreateFailsTrail ==
    ASSUME Base, Trail, NEW h \in Handlers, CreateFails(h)
    PROVE  Trail'
<1>1. Busy(h) /\ ~Created(h)
  BY DEF CreateFails, Busy, Created
<1> QED
  BY <1>1, ForgetTrail DEF CreateFails, outVars

\* The answer says what was audited, announced and stored.
LEMMA RespondTrail ==
    ASSUME Base, Trail, NEW h \in Handlers, Respond(h)
    PROVE  Trail'
<1>0. PICK n, d, ms : n = req[h].Number /\ d = decision[h] /\ ms = methods(h)
  OBVIOUS
<1>1. /\ pc[h] = "respond" /\ Forget(h) /\ UNCHANGED <<arrived, challenges, auditLog, busLog>>
  BY DEF Respond
<1>2. PICK a : /\ responses' = responses \cup {a}
               /\ a = [Request |-> n, Input |-> req[h].Input, Policies |-> req[h].Policies,
                       Decision |-> d, Challenge |-> IF d = "challenge" THEN ms ELSE {}]
  BY <1>0 DEF Respond
<1>3. /\ a.Request = n /\ a.Input = req[h].Input /\ a.Policies = req[h].Policies
      /\ a.Decision = d /\ (d = "challenge" => a.Challenge = ms)
  BY <1>2
<1>4. Busy(h) /\ (Created(h) <=> d = "challenge") /\ pc[h] \in DecidedLabels
  BY <1>0, <1>1 DEF Busy, Created, DecidedLabels
<1>5. AuditedAs(n, d) /\ Announced(n, d)
  BY <1>0, <1>1 DEF Trail, ServedTrail, Served
<1>6. /\ d = "challenge" => [Request |-> n, Methods |-> ms] \in challenges
      /\ ms \in Asked(req[h].Policies, req[h].Input)
  BY <1>0, <1>4 DEF Trail, ChallengeTrail
<1> QED
  BY <1>0, <1>1, <1>2, <1>3, <1>4, <1>5, <1>6, ForgetTrail

\* Every step of every handler and administrator keeps the trail.
LEMMA NextTrail == Base /\ Trail /\ [Next]_vars => Trail'
<1> SUFFICES ASSUME Base, Trail, [Next]_vars PROVE Trail'
  OBVIOUS
<1>1. ASSUME NEW h \in Handlers, Step(h)
      PROVE  Trail'
  BY <1>1, EvaluateTrail, CreateChallengeTrail, CreateFailsTrail, AuditCreatedTrail,
     AuditDecisionTrail, BusEmitTrail, RespondTrail DEF Step
<1>2. ASSUME NEW h \in Handlers, NEW r \in Requests, Receive(h, r)
      PROVE  Trail'
  BY <1>2, ReceiveTrail
<1>3. ASSUME UNCHANGED <<handlerVars, arrived, outVars>>, \A h \in Handlers : pc'[h] = pc[h]
      PROVE  Trail'
  <2>1. UNCHANGED <<req, pd, decision, arrived, challenges, auditLog, busLog, responses>>
    BY <1>3 DEF handlerVars, outVars
  <2>2. \A h \in Handlers : (Busy(h)' <=> Busy(h)) /\ (Created(h)' <=> Created(h))
                            /\ methods(h)' = methods(h)
    BY <1>3, <2>1 DEF Busy, Created, methods
  <2>3. \A m : /\ \A t : At(m, t)' = At(m, t)
               /\ \A d : (AuditedAs(m, d)' <=> AuditedAs(m, d)) /\ (Announced(m, d)' <=> Announced(m, d))
    BY <2>1, SameAuditLog, SameBusLog
  <2>4. Numbered'
    BY <2>1, <2>2 DEF Trail, Numbered
  <2>5. ServedTrail' /\ AnsweredTrail'
    BY <1>3, <2>1, <2>3 DEF Trail, ServedTrail, Served, AnsweredTrail
  <2>6. ChallengeTrail'
    BY <1>3, <2>1, <2>2 DEF Trail, ChallengeTrail, Asked
  <2> QED
    BY <2>4, <2>5, <2>6 DEF Trail
<1>4. ASSUME NEW a \in Admins,
             \/ \E id \in PolicyIDs, body \in PolicyBodies :
                   CreatePolicy(a, id, body) \/ BeginUpdate(a, id, body)
             \/ \E id \in PolicyIDs : DeletePolicy(a, id)
             \/ FinishUpdate(a)
      PROVE  Trail'
  BY <1>3, <1>4, AdminBase
<1>5. CASE UNCHANGED vars
  BY <1>3, <1>5 DEF vars
<1> QED
  BY <1>1, <1>2, <1>4, <1>5 DEF Next, Quiet

\* The types and the trail together are an invariant.
LEMMA TrailInvariant == Spec => []TInv
<1>1. Init => TInv
  BY InitBase, InitTrail DEF TInv
<1>2. TInv /\ [Next]_vars => TInv'
  BY NextBase, NextTrail DEF TInv
<1> QED
  BY <1>1, <1>2, PTL DEF Spec

\* Whatever policies are stored: every answered decision was audited exactly once and
\* announced, as it was answered, and a challenge's creation before it (api.go lines
\* 150-201, challenge/service.go Create).
THEOREM AnswersAccounted == Spec => []AnswersAudited
<1>1. TInv => AnswersAudited
  BY DEF TInv, Trail, AnsweredTrail, AuditedAs, Announced, At, AnswersAudited
<1> QED
  BY <1>1, TrailInvariant, PTL

\* An answer that asks for a challenge names a stored one with the methods asked for,
\* and no challenge is left without its answer (api.go lines 150-167).
THEOREM NoChallengeLeft == Spec => []ChallengesAnswered
<1>1. TInv => ChallengesAnswered
  <2> SUFFICES ASSUME TInv PROVE ChallengesAnswered
    OBVIOUS
  <2>1. (\A h \in Handlers : pc[h] = "idle") => \A h \in Handlers : ~Created(h)
    BY DEF Created
  <2> QED
    BY <2>1 DEF TInv, Trail, ChallengeTrail, Asked, ChallengesAnswered
<1> QED
  BY <1>1, TrailInvariant, PTL
=============================================================================
