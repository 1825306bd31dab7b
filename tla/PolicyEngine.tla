---------------------------- MODULE PolicyEngine ----------------------------
(***************************************************************************)
(* BuiltinEngine.Evaluate (core/internal/policy/engine.go): which decisions  *)
(* it can return for a set of stored policies.  The two sorts are not        *)
(* stable, so among matching policies of the same rank any one may be first. *)
(* What a policy's conditions say of a request is a parameter; module        *)
(* PolicyConditions models their evaluation.                                *)
(***************************************************************************)
CONSTANT conditionsAnswer(_, _)   \* "true", "false" or "error"

LOCAL INSTANCE Naturals

Effects == {"deny", "challenge", "alert", "allow"}

\* order[effect]: a map lookup, 0 for a key that is not there.
order(effect) ==
    CASE effect = "challenge" -> 1
      [] effect = "alert" -> 2
      [] effect = "allow" -> 3
      [] OTHER -> 0

\* strings.ToLower on the sensitivities of RiskEngine.
ToLower(sensitivity) == IF sensitivity = "High" THEN "high" ELSE sensitivity

\* The enabled policies whose conditions hold; an evaluation error skips a policy.
matched(policies, req) ==
    {p \in policies : p.Enabled /\ conditionsAnswer(p.Conditions, req) = "true"}

\* Challenge is the set of methods the policy names, {} when it names none.
DefaultDecision(req) ==
    [Effect |-> IF ToLower(req.Sensitivity) = "low" THEN "allow" ELSE "deny",
     Challenge |-> {}]

Evaluate(policies, req) ==
    LET ms == matched(policies, req)
    IN  IF ms = {}
        THEN {DefaultDecision(req)}
        ELSE {[Effect |-> p.Effect, Challenge |-> p.Challenge] :
                 p \in {q \in ms : \A r \in ms : order(q.Effect) <= order(r.Effect)}}
=============================================================================
