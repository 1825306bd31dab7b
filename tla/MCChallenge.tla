---------------------------- MODULE MCChallenge -----------------------------
(* ChallengeService for TLC.                                                 *)
EXTENDS ChallengeService, TLC

\* What policies ask for: TOTP (the default), WebAuthn, or a choice with push.
OneOrMore == {{"totp"}, {"webauthn"}, {"push", "webauthn"}}

\* A policy with all the methods, for runs that are not about which are allowed.
AllMethods == {{"totp", "push", "webauthn"}}

HandlerSymmetry == Permutations(Handlers)
=============================================================================
