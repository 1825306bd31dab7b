------------------------------- MODULE MCOkta -------------------------------
(* OktaPoller for TLC.                                                       *)
EXTENDS OktaPoller

MCDistance(p, q) == IF p = q THEN 0 ELSE 10

Ev(published_, login, type, result, geo, device) ==
    [Published |-> published_, Login |-> login, EventType |-> type, Result |-> result,
     Geo |-> geo, Place |-> geo, Device |-> device, Legacy |-> FALSE]

\* Three logins, of which two are tracked; two events of the same millisecond; failed
\* and denied MFA; a move too fast for travel, with another device; a factor's reset,
\* which is an MFA event and an admin action; and an event without an actor.
MCLog ==
    <<Ev(1, "ann", "user.session.", "SUCCESS", "oslo", "phone"),
      Ev(2, "bob", "user.authentication.mfa.", "FAILURE", Absent, Absent),
      Ev(2, "ann", "user.mfa.okta_verify.deny", "FAILURE", "lima", "laptop"),
      Ev(3, NoLogin, "zone.", "SUCCESS", Absent, Absent),
      Ev(4, "bob", "user.mfa.factor.", "FAILURE", Absent, "phone"),
      Ev(4, "eve", "user.session.clear", "FAILURE", "rome", "phone")>>
=============================================================================
