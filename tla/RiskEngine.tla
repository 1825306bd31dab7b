----------------------------- MODULE RiskEngine -----------------------------
(***************************************************************************)
(* The rule-based risk score (core/internal/risk/engine.go).  Strings that   *)
(* the rules only compare are abstracted to what the comparison tells apart: *)
(* groups to whether an administrators' group is among them, the two         *)
(* locations to whether both are known and differ.                           *)
(***************************************************************************)
EXTENDS Integers

CONSTANTS Low, Elevated, High, VeryHigh   \* risk.thresholds of the configuration

ASSUME ThresholdsAssumption == {Low, Elevated, High, VeryHigh} \subseteq Int

\* "High" stands for a sensitivity that is not in lower case.
Sensitivities == {"low", "medium", "high", "critical", "High"}
Protocols == {"ntlm", "ldap_simple_bind_cleartext", "other"}
Reputations == {"bad", "unknown", "other"}

AccessRequest ==
    [Privileged : BOOLEAN, AdminGroup : BOOLEAN, Sensitivity : Sensitivities,
     MFARecent : BOOLEAN, GeoMismatch : BOOLEAN, Protocol : Protocols,
     ServiceAccount : BOOLEAN, Interactive : BOOLEAN, BaselineDeviation : BOOLEAN,
     LastLogonDays : Int, PasswordNeverExpires : BOOLEAN, HasSPN : BOOLEAN,
     IsGMSA : BOOLEAN, Managed : BOOLEAN, Compliant : BOOLEAN, Reputation : Reputations]


add(rule, points) == IF rule THEN points ELSE 0

Points(req) ==
      add(req.Privileged \/ req.AdminGroup, 25)
    + add(req.Sensitivity = "high", 20) + add(req.Sensitivity = "critical", 30)
    + add(~req.MFARecent, 15)
    + add(req.GeoMismatch, 30)
    + add(req.Protocol = "ntlm", 20) + add(req.Protocol = "ldap_simple_bind_cleartext", 30)
    + add(req.ServiceAccount /\ req.Interactive, 60)
    + add(req.BaselineDeviation, 50)
    + add(req.LastLogonDays > 90, 20)
    + add(req.PasswordNeverExpires, 15)
    + add(req.HasSPN /\ ~req.IsGMSA, 25)
    + add(req.Privileged /\ req.LastLogonDays > 30, 40)
    + add(~req.Managed, 15)
    + add(~req.Compliant, 25)
    + add(req.Reputation = "bad", 40) + add(req.Reputation = "unknown", 5)

Score(req) == IF Points(req) > 100 THEN 100 ELSE Points(req)

level(score) ==
    IF score <= Low THEN "low"
    ELSE IF score <= Elevated THEN "elevated"
    ELSE IF score <= High THEN "high"
    ELSE IF score <= VeryHigh THEN "very_high"
    ELSE "critical"

Level(req) == level(Score(req))
=============================================================================
