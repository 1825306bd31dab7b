-------------------------- MODULE PolicyConditions --------------------------
(***************************************************************************)
(* The condition trees of policies (core/internal/policy/engine.go): what a  *)
(* tree of all, any, not and leaves says of an access request.               *)
(*                                                                          *)
(* A JSON value is tagged with its type.  A node is a function from the keys *)
(* it has to their values, so that a node with several keys, or none, is one *)
(* too.  A path is the sequence of its parts.                               *)
(***************************************************************************)
EXTENDS Integers, Sequences, FiniteSetsExt, TLC

CONSTANTS
    substring(_, _),     \* strings.Contains on the strings of the model
    regexMatches(_, _)   \* does a pattern compile and match a text

Str(s) == [kind |-> "str", v |-> s]
Num(n) == [kind |-> "num", v |-> n]
Bool(b) == [kind |-> "bool", v |-> b]
List(s) == [kind |-> "list", v |-> s]
Map(f) == [kind |-> "map", v |-> f]

RECURSIVE Sprint(_)
RECURSIVE resolvePath(_, _)
RECURSIVE evaluateConditions(_, _)

-----------------------------------------------------------------------------
(* The request as policies see it.                                          *)

omitempty(key, present, v) == IF present THEN key :> v ELSE <<>>

\* A request of RiskEngine, marshalled and unmarshalled.  Fields with omitempty are
\* not there when they have the zero value.
requestToMap(req) ==
    Map(   "identity" :> Map(
               "username" :> Str("user")
            @@ "type" :> Str(IF req.ServiceAccount THEN "service_account" ELSE "user")
            @@ omitempty("groups", req.AdminGroup, List(<<Str("Admins")>>))
            @@ omitempty("privileged", req.Privileged, Bool(TRUE))
            @@ omitempty("usual_geo", req.GeoMismatch, Str("DE"))
            @@ omitempty("last_logon_days", req.LastLogonDays # 0, Num(req.LastLogonDays))
            @@ omitempty("password_never_expires", req.PasswordNeverExpires, Bool(TRUE))
            @@ omitempty("has_spn", req.HasSPN, Bool(TRUE))
            @@ omitempty("is_gmsa", req.IsGMSA, Bool(TRUE)))
        @@ "resource" :> Map("type" :> Str("ssh") @@ "sensitivity" :> Str(req.Sensitivity))
        @@ "protocol" :> Map("name" :> Str(req.Protocol))
        @@ "source" :> Map(omitempty("geo", req.GeoMismatch, Str("FR"))
            @@ omitempty("reputation", req.Reputation # "other", Str(req.Reputation)))
        @@ "device" :> Map("managed" :> Bool(req.Managed) @@ "compliant" :> Bool(req.Compliant))
        @@ "context" :> Map("mfa_recent" :> Bool(req.MFARecent)
            @@ "interactive" :> Bool(req.Interactive)
            @@ "baseline_deviation" :> Bool(req.BaselineDeviation)))

\* The value at a path, as a set: empty when there is none.
resolvePath(current, path) ==
    IF path = <<>> THEN {current}
    ELSE IF current.kind = "map" /\ Head(path) \in DOMAIN current.v
    THEN resolvePath(current.v[Head(path)], Tail(path))
    ELSE {}

-----------------------------------------------------------------------------
(* Leaves.                                                                  *)

\* fmt.Sprintf("%v", v) as a sequence of words: numbers, booleans and strings of the
\* same text are the same.
Sprint(v) ==
    CASE v.kind = "str" -> <<v.v>>
      [] v.kind = "num" -> <<ToString(v.v)>>
      [] v.kind = "bool" -> <<IF v.v THEN "true" ELSE "false">>
      [] v.kind = "list" ->
             <<"[">> \o [i \in DOMAIN v.v |-> Sprint(v.v[i])] \o <<"]">>
      [] OTHER -> <<"map">>

compareEq(actual, expected) == Sprint(actual) = Sprint(expected)

compareIn(actual, expected) ==
    /\ expected.kind = "list"
    /\ \E i \in DOMAIN expected.v : compareEq(expected.v[i], actual)

compareContains(actual, expected) ==
    \/ actual.kind = "list" /\ \E i \in DOMAIN actual.v : compareEq(actual.v[i], expected)
    \/ actual.kind = "str" /\ substring(actual.v, Sprint(expected)[1])

compareNumeric(actual, expected, op) ==
    /\ actual.kind = "num" /\ expected.kind = "num"
    /\ \/ op \in {"gt", "gte"} /\ actual.v > expected.v
       \/ op \in {"lt", "lte"} /\ actual.v < expected.v
       \/ op \in {"gte", "lte"} /\ actual.v = expected.v

compareRegex(actual, expected) ==
    expected.kind = "str" /\ regexMatches(Sprint(actual), expected.v)

Answer(b) == IF b THEN "true" ELSE "false"

Operators ==
    {"eq", "neq", "in", "not_in", "contains", "not_contains", "gt", "gte", "lt", "lte", "regex"}

compare(op, actual, value) ==
    CASE op = "eq" -> compareEq(actual, value)
      [] op = "neq" -> ~compareEq(actual, value)
      [] op = "in" -> compareIn(actual, value)
      [] op = "not_in" -> ~compareIn(actual, value)
      [] op = "contains" -> compareContains(actual, value)
      [] op = "not_contains" -> ~compareContains(actual, value)
      [] op = "regex" -> compareRegex(actual, value)
      [] OTHER -> compareNumeric(actual, value, op)

\* A leaf with an unknown operator that is false rather than an error.
evaluateLeafLenient(node, reqMap) ==
    LET actual == resolvePath(reqMap, node.path)
    IN  IF node.op = "exists" THEN Answer(actual # {})
        ELSE IF node.op = "not_exists" THEN Answer(actual = {})
        ELSE Answer(/\ actual # {} /\ node.op \in Operators
                    /\ \A a \in actual : compare(node.op, a, node.value))

\* A leaf is answered before its operator is looked at when nothing is at the path.
evaluateLeaf(node, reqMap) ==
    LET actual == resolvePath(reqMap, node.path)
    IN  IF node.op = "exists" THEN Answer(actual # {})
        ELSE IF node.op = "not_exists" THEN Answer(actual = {})
        ELSE IF actual = {} THEN "false"
        ELSE IF node.op \notin Operators THEN "error"
        ELSE Answer(\A a \in actual : compare(node.op, a, node.value))

-----------------------------------------------------------------------------
(* Trees.  Subtrees are evaluated in order, up to the first that decides.   *)

FirstOther(answers, neutral) ==
    LET others == {i \in DOMAIN answers : answers[i] # neutral}
    IN  IF others = {} THEN neutral ELSE answers[Min(others)]

evaluateConditions(node, reqMap) ==
    LET answers(key) == [i \in DOMAIN node[key] |-> evaluateConditions(node[key][i], reqMap)]
    IN  IF "all" \in DOMAIN node THEN FirstOther(answers("all"), "true")
        ELSE IF "any" \in DOMAIN node THEN FirstOther(answers("any"), "false")
        ELSE IF "not" \in DOMAIN node
             THEN LET result == evaluateConditions(node["not"], reqMap)
                  IN  IF result = "error" THEN result ELSE Answer(result = "false")
        ELSE IF {"path", "op"} \subseteq DOMAIN node THEN evaluateLeaf(node, reqMap)
        ELSE "false"

=============================================================================
