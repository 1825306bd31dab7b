---------------------------- MODULE MCADPipeline ----------------------------
(***************************************************************************)
(* Two domain controllers and one account: Kerberos tickets from two hosts at *)
(* two hours, and NTLM validations, which name no account.                   *)
(***************************************************************************)
EXTENDS ADPipeline, TLC

CONSTANTS svc, dc1, dc2, h1, h2

MCValues == {"ip1", "ip2", "kerberos", "NTLM"}

Ticket(ip, hour) ==
    [EventID |-> 4768, TargetSid |-> svc, Hour |-> hour, Data |-> [SourceIP |-> ip]]
Validation ==
    [EventID |-> 4776, TargetSid |-> Absent, Hour |-> 0, Data |-> [SourceIP |-> "ip1"]]

MCLogged == {Ticket("ip1", 0), Ticket("ip2", 1), Validation}

\* 1 - entropy / log2(24), in thousandths, of at most three events at two hours.
MCRegularity(hist) ==
    IF hist[0] = 0 \/ hist[1] = 0 THEN 1000
    ELSE IF hist[0] = hist[1] THEN 781 ELSE 799

Symmetry == Permutations(Handlers) \cup Permutations(Agents)
=============================================================================
