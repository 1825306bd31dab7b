------------------------------ MODULE MCAccess ------------------------------
(* AccessEvaluate for TLC.                                                   *)
EXTENDS AccessEvaluate, TLC

Clean ==
    [Privileged |-> FALSE, AdminGroup |-> FALSE, Sensitivity |-> "low", MFARecent |-> TRUE,
     GeoMismatch |-> FALSE, Protocol |-> "other", ServiceAccount |-> FALSE,
     Interactive |-> FALSE, BaselineDeviation |-> FALSE, LastLogonDays |-> 0,
     PasswordNeverExpires |-> FALSE, HasSPN |-> FALSE, IsGMSA |-> FALSE, Managed |-> TRUE,
     Compliant |-> TRUE, Reputation |-> "other"]

\* A request with nothing against it, one of level very_high (30 + 30 + 25), and one of
\* an account that has not logged on for long.
MCRequests ==
    {Clean, [Clean EXCEPT !.GeoMismatch = TRUE, !.Protocol = "ldap_simple_bind_cleartext",
                          !.AdminGroup = TRUE],
     [Clean EXCEPT !.Sensitivity = "medium", !.LastLogonDays = 40]}

\* No string of these requests contains another one or matches a pattern, except itself.
Same(s, t) == s = t
SameText(text, pattern) == text = <<pattern>>

Tree == INSTANCE PolicyConditions WITH substring <- Same, regexMatches <- SameText

Leaf(path, op, value) == [path |-> path, op |-> op, value |-> value]
Sensitivity == <<"resource", "sensitivity">>
Groups == <<"identity", "groups">>

Like == Leaf(<<"device", "managed">>, "like", Tree!Str("true"))

\* The conditions of the policies that are stored.  In the last two an operator is not
\* known, behind the leaf that decides for administrators and before it.
Nodes ==
    [highOrLow |-> [any |-> <<Leaf(Sensitivity, "eq", Tree!Str("high")),
                              Leaf(Sensitivity, "in", Tree!List(<<Tree!Num(1), Tree!Str("low")>>))>>],
     plainUser |-> [all |-> <<[not |-> Leaf(Groups, "exists", Tree!Str(""))],
                              [any |-> <<Leaf(<<"identity", "last_logon_days">>, "gte", Tree!Num(30)),
                                         Leaf(Sensitivity, "regex", Tree!Str("low"))>>]>>],
     admin |-> [any |-> <<Leaf(Groups, "contains", Tree!Str("Admins")), [not |-> Like]>>],
     notLike |-> [any |-> <<[not |-> Like], Leaf(Groups, "contains", Tree!Str("Admins"))>>]]

Answers ==
    [cond \in DOMAIN Nodes |-> [r \in MCRequests |->
        Tree!evaluateConditions(Nodes[cond], Tree!requestToMap(r))]]

MCConditions(cond, r) == Answers[cond][r]

Body(effect, cond, ms) ==
    [Enabled |-> TRUE, Effect |-> effect, Conditions |-> cond, Challenge |-> ms]

MCBodies ==
    {Body("challenge", "highOrLow", {"push"}), Body("alert", "plainUser", {}),
     Body("deny", "admin", {}), Body("deny", "notLike", {})}

AccessSymmetry ==
    Permutations(Handlers) \cup Permutations(Admins) \cup Permutations(PolicyIDs)

-----------------------------------------------------------------------------
\* What the author of a condition means by it, of the request itself: an operator that is
\* not known makes no policy match, and takes nothing from what was decided before it.
Meant(cond, r) ==
    CASE cond = "highOrLow" -> r.Sensitivity \in {"high", "low"}
      [] cond = "plainUser" -> ~r.AdminGroup /\ (r.LastLogonDays >= 30 \/ r.Sensitivity = "low")
      [] cond = "admin" -> r.AdminGroup
      [] cond = "notLike" -> FALSE

\* Every answer is the documented one for the policies, stored at one moment of the
\* request, whose authors mean the request: marshalling it, resolving paths, comparing
\* texts, and the order of evaluation with its errors (policy/engine.go lines 54-57 and
\* 141-299) add no match and lose none, under any overlap of requests and changes.
AnswersAsMeant ==
    \A r \in responses :
        LET meant == {p \in r.Policies : p.Enabled /\ Meant(p.Conditions, r.Input)}
        IN  r.Decision = Documented({p.Effect : p \in meant}, r.Input)
=============================================================================
