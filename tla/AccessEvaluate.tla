--------------------------- MODULE AccessEvaluate ---------------------------
(***************************************************************************)
(* POST /v1/access/evaluate: handlers score a request, evaluate the stored   *)
(* policies, combine the two, create a challenge when one is called for,     *)
(* audit the decision, announce it on the bus and answer, while             *)
(* administrators create, replace and delete policies.                      *)
(*                                                                          *)
(* A stored policy is never modified in place (an update stores a new        *)
(* record), so the list Evaluate takes under the lock is a snapshot.  The    *)
(* bus is configured.                                                       *)
(***************************************************************************)
EXTENDS RiskEngine, PolicyEngine, Sequences, FiniteSets

CONSTANTS
    Handlers,      \* goroutines serving evaluate requests
    Admins,        \* goroutines serving PUT /v1/policies/{id}
    PolicyIDs,
    PolicyBodies,  \* what administrators store: [Enabled, Effect, Conditions, Challenge]
    Requests,      \* the access requests that arrive
    MaxRequests,   \* bound on their number
    MaxChanges     \* bound on the changes of policies that are begun

ASSUME ProcessesAssumption == Handlers \cap Admins = {}
ASSUME RequestsAssumption == Requests \subseteq AccessRequest

VARIABLES
    policies,      \* the policy store; NoPolicy where there is none
    pc,            \* the next statement of a handler or administrator
    req,           \* per handler: the request, its number, the policies listed
    pd,            \* per handler: the PolicyDecision
    decision,      \* per handler: the decision so far
    update,        \* per administrator: the replacement it is about to store
    arrived,       \* number of requests so far
    changes,       \* number of policy changes so far
    issued,        \* policy IDs handed out by Create
    challenges,    \* challenges created: [Request, Methods]
    auditLog,      \* [Type, Request, Decision], oldest first
    busLog,        \* access.decided events: [Request, Decision]
    responses      \* 200 answers: [Request, Input, Policies, Decision, Challenge]

handlerVars == <<req, pd, decision>>
adminVars == <<policies, update, changes, issued>>
outVars == <<challenges, auditLog, busLog, responses>>
vars == <<pc, handlerVars, adminVars, arrived, outVars>>

NoPolicy == [Enabled |-> FALSE, Effect |-> "none", Conditions |-> "none", Challenge |-> {}]
NoRequest == [Number |-> 0]
NoDecision == [Effect |-> "none", Challenge |-> {}]

Stored == {policies[id] : id \in {i \in PolicyIDs : policies[i] # NoPolicy}}

Init ==
    /\ policies = [id \in PolicyIDs |-> NoPolicy]
    /\ pc = [x \in Handlers \cup Admins |-> "idle"]
    /\ req = [h \in Handlers |-> NoRequest]
    /\ pd = [h \in Handlers |-> NoDecision]
    /\ decision = [h \in Handlers |-> "none"]
    /\ update = [a \in Admins |-> NoPolicy]
    /\ arrived = 0 /\ changes = 0 /\ issued = {}
    /\ challenges = {} /\ auditLog = <<>> /\ busLog = <<>> /\ responses = {}

-----------------------------------------------------------------------------
(* Access evaluation.                                                       *)

Goto(x, label) == pc' = [pc EXCEPT ![x] = label]

\* Answering ends a request.
Forget(h) ==
    /\ Goto(h, "idle")
    /\ req' = [req EXCEPT ![h] = NoRequest]
    /\ pd' = [pd EXCEPT ![h] = NoDecision]
    /\ decision' = [decision EXCEPT ![h] = "none"]

Receive(h, r) ==
    /\ pc[h] = "idle" /\ arrived < MaxRequests
    /\ arrived' = arrived + 1
    /\ req' = [req EXCEPT ![h] = [Number |-> arrived + 1, Input |-> r]]
    /\ Goto(h, "evaluate")
    /\ UNCHANGED <<pd, decision, adminVars, outVars>>

\* An override that makes a challenge of a policy's deny.
OverrideDeny(effect, lvl) ==
    CASE lvl = "critical" -> "deny"
      [] lvl = "very_high" -> "challenge"
      [] OTHER -> effect

\* api.go lines 141-147.
Override(effect, lvl) ==
    CASE lvl = "critical" -> "deny"
      [] lvl = "very_high" /\ effect # "deny" -> "challenge"
      [] OTHER -> effect

EvaluatePolicies(h) ==
    /\ pc[h] = "evaluate"
    /\ \E d \in Evaluate(Stored, req[h].Input) :
        LET overridden == Override(d.Effect, Level(req[h].Input))
        IN  /\ pd' = [pd EXCEPT ![h] = d]
            /\ decision' = [decision EXCEPT ![h] =
                   IF overridden = "alert" THEN "allow" ELSE overridden]
            /\ Goto(h, IF overridden = "challenge" THEN "create" ELSE "audit")
    /\ req' = [req EXCEPT ![h] =
           [Number |-> req[h].Number, Input |-> req[h].Input, Policies |-> Stored]]
    /\ UNCHANGED <<adminVars, arrived, outVars>>

\* api.go lines 151-154.
methods(h) == IF pd[h].Challenge # {} THEN pd[h].Challenge ELSE {"totp"}

\* challenge.Create up to its audit event.
CreateChallenge(h) ==
    /\ pc[h] = "create"
    /\ challenges' = challenges \cup {[Request |-> req[h].Number, Methods |-> methods(h)]}
    /\ Goto(h, "auditCreated")
    /\ UNCHANGED <<handlerVars, adminVars, arrived, auditLog, busLog, responses>>

\* A Create that stores the challenge before it generates the push number.
CreateFailsStored(h) ==
    /\ pc[h] = "create"
    /\ "push" \in methods(h)
    /\ challenges' = challenges \cup {[Request |-> req[h].Number, Methods |-> methods(h)]}
    /\ Forget(h)
    /\ UNCHANGED <<adminVars, arrived, auditLog, busLog, responses>>

\* challenge.Create fails when no push number can be generated: answer 500.
CreateFails(h) ==
    /\ pc[h] = "create"
    /\ "push" \in methods(h)
    /\ Forget(h)
    /\ UNCHANGED <<adminVars, arrived, outVars>>

AuditEmit(h, type) ==
    auditLog' = Append(auditLog, [Type |-> type, Request |-> req[h].Number,
                                  Decision |-> decision[h]])

AuditCreated(h) ==
    /\ pc[h] = "auditCreated"
    /\ AuditEmit(h, "challenge.created")
    /\ Goto(h, "audit")
    /\ UNCHANGED <<handlerVars, adminVars, arrived, challenges, busLog, responses>>

\* A handler that audits what the policies said rather than what it decided.
AuditPolicyEffect(h) ==
    /\ pc[h] = "audit"
    /\ auditLog' = Append(auditLog, [Type |-> "access.evaluate", Request |-> req[h].Number,
                                     Decision |-> pd[h].Effect])
    /\ Goto(h, "bus")
    /\ UNCHANGED <<handlerVars, adminVars, arrived, challenges, busLog, responses>>

AuditDecision(h) ==
    /\ pc[h] = "audit"
    /\ AuditEmit(h, "access.evaluate")
    /\ Goto(h, "bus")
    /\ UNCHANGED <<handlerVars, adminVars, arrived, challenges, busLog, responses>>

BusEmit(h) ==
    /\ pc[h] = "bus"
    /\ busLog' = Append(busLog, [Request |-> req[h].Number, Decision |-> decision[h]])
    /\ Goto(h, "respond")
    /\ UNCHANGED <<handlerVars, adminVars, arrived, challenges, auditLog, responses>>

Respond(h) ==
    /\ pc[h] = "respond"
    /\ responses' = responses \cup
           {[Request |-> req[h].Number, Input |-> req[h].Input, Policies |-> req[h].Policies,
             Decision |-> decision[h],
             Challenge |-> IF decision[h] = "challenge" THEN methods(h) ELSE {}]}
    /\ Forget(h)
    /\ UNCHANGED <<adminVars, arrived, challenges, auditLog, busLog>>

-----------------------------------------------------------------------------
(* Policy administration.                                                   *)

CreatePolicy(a, id, body) ==
    /\ pc[a] = "idle" /\ changes < MaxChanges
    /\ id \notin issued
    /\ policies' = [policies EXCEPT ![id] = body]
    /\ issued' = issued \cup {id}
    /\ changes' = changes + 1
    /\ UNCHANGED <<pc, handlerVars, update, arrived, outVars>>

\* handleUpdatePolicy: the Get, and the decoding of the replacement.
BeginUpdate(a, id, body) ==
    /\ pc[a] = "idle" /\ changes < MaxChanges
    /\ policies[id] # NoPolicy
    /\ update' = [update EXCEPT ![a] = [ID |-> id, Body |-> body]]
    /\ changes' = changes + 1
    /\ Goto(a, "update")
    /\ UNCHANGED <<policies, issued, handlerVars, arrived, outVars>>

\* The store's Update fails when the policy was deleted since the Get.
FinishUpdate(a) ==
    /\ pc[a] = "update"
    /\ policies' = IF policies[update[a].ID] # NoPolicy
                   THEN [policies EXCEPT ![update[a].ID] = update[a].Body]
                   ELSE policies
    /\ update' = [update EXCEPT ![a] = NoPolicy]
    /\ Goto(a, "idle")
    /\ UNCHANGED <<changes, issued, handlerVars, arrived, outVars>>

DeletePolicy(a, id) ==
    /\ pc[a] = "idle" /\ changes < MaxChanges
    /\ policies[id] # NoPolicy
    /\ policies' = [policies EXCEPT ![id] = NoPolicy]
    /\ changes' = changes + 1
    /\ UNCHANGED <<pc, update, issued, handlerVars, arrived, outVars>>

-----------------------------------------------------------------------------
Step(h) ==
    \/ EvaluatePolicies(h) \/ CreateChallenge(h) \/ CreateFails(h) \/ AuditCreated(h)
    \/ AuditDecision(h) \/ BusEmit(h) \/ Respond(h)

Quiet == (\A x \in Handlers \cup Admins : pc[x] = "idle") /\ UNCHANGED vars

Next ==
    \/ \E h \in Handlers : Step(h) \/ \E r \in Requests : Receive(h, r)
    \/ \E a \in Admins, id \in PolicyIDs :
          \/ \E body \in PolicyBodies : CreatePolicy(a, id, body) \/ BeginUpdate(a, id, body)
          \/ DeletePolicy(a, id)
    \/ \E a \in Admins : FinishUpdate(a)
    \/ Quiet

Spec == Init /\ [][Next]_vars

-----------------------------------------------------------------------------
(* Properties.                                                              *)

\* What the docs say the answer is for the effects of the policies that match
\* (docs/architecture/policy-engine.md lines 52-56 and risk-engine.md lines 42-44).
Documented(effects, r) ==
    IF \/ Level(r) = "critical"
       \/ "deny" \in effects
       \/ effects = {} /\ r.Sensitivity # "low"
    THEN "deny"
    ELSE IF Level(r) = "very_high" \/ "challenge" \in effects
    THEN "challenge"
    ELSE "allow"

DocumentedDecision(ps, r) == Documented({p.Effect : p \in matched(ps, r)}, r)

\* Whatever the order in which the unstable sorts leave the policies, and whatever
\* administrators change meanwhile, the answer is the documented one for the
\* policies that were stored at one moment of the request.
DecisionDocumented ==
    \A r \in responses : r.Decision = DocumentedDecision(r.Policies, r.Input)

\* The audit log accounts for the answers: when a decision is answered it has been
\* audited exactly once, as it is answered, and announced on the bus so; and a
\* challenge.created event precedes the access.evaluate event of the request.
AnswersAudited ==
    \A r \in responses :
        LET at(type) == {i \in DOMAIN auditLog :
                             auditLog[i].Request = r.Request /\ auditLog[i].Type = type}
        IN  /\ \E i \in DOMAIN auditLog :
                  /\ at("access.evaluate") = {i}
                  /\ auditLog[i].Decision = r.Decision
                  /\ r.Decision = "challenge" => \E j \in at("challenge.created") : j < i
            /\ \E i \in DOMAIN busLog : busLog[i] = [Request |-> r.Request, Decision |-> r.Decision]

\* An answer that asks for a challenge names one that exists, with methods of a
\* policy that matched or the TOTP default; between requests, every challenge in
\* the store belongs to such an answer, so none is left behind.
ChallengesAnswered ==
    /\ \A r \in responses : r.Decision = "challenge" =>
          /\ [Request |-> r.Request, Methods |-> r.Challenge] \in challenges
          /\ r.Challenge \in {p.Challenge : p \in matched(r.Policies, r.Input)} \cup {{"totp"}}
    /\ (\A h \in Handlers : pc[h] = "idle") =>
          \A c \in challenges : \E r \in responses :
              r.Request = c.Request /\ r.Decision = "challenge" /\ r.Challenge = c.Methods
=============================================================================
