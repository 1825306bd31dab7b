------------------------------ MODULE PAMLogin ------------------------------
(***************************************************************************)
(* Logins through PAM: each runs oiaf-pam-helper, which asks the core for a   *)
(* decision, has a challenge answered with a TOTP code, and exits with a PAM  *)
(* code.  Calls may be lost, late or refused, a challenge may be resolved by   *)
(* someone else meanwhile, the token may be revoked at any time, and the core   *)
(* may end and start again, with nothing in its store but the tokens that its   *)
(* main registers.                                                          *)
(***************************************************************************)
EXTENDS Integers, Sequences

CONSTANTS
    Logins,
    Generated,     \* the tokens ensureToken generates, one after the other
    EnvToken,      \* the token that OIAF_ADAPTER_TOKEN may name
    CreatedToken   \* a token that POST /v1/adapters handed out

NoToken == "no token"
Tokens == {Generated[i] : i \in DOMAIN Generated} \cup {EnvToken, CreatedToken}
ASSUME TokensAssumption == NoToken \notin Tokens /\ Generated # <<>>

Undecided == "undecided"
NotRunning == -1
Decisions == {"allow", "deny", "challenge"}
skipPAMTypes == {"account", "session", "open_session", "close_session"}
exitSuccess == 0
exitAuthErr == 7
exitSysErr == 8

VARIABLES
    config,     \* per login: what loadConfig read, and PAM_TYPE; NoConfig before
    pc,         \* per login: "run", "evaluate", "prompt", "verify" or "exited"
    exit,       \* per login: the exit code, or NotRunning
    received,   \* per login: the decision the helper received, or Undecided
    fromEnv,    \* the core: whether its environment names the token
    starts,     \* the core: how often it has been started
    authTokens, \* the core: the tokens that are registered and not revoked
    requests,   \* requests on their way to the core or in it
    answers,    \* answers on their way to a helper
    challenge,  \* per login: its challenge's status in the core, and the methods asked for
    decided,    \* history: the core's decision about each login
    approved    \* history: the logins whose challenge the core approved

vars == <<config, pc, exit, received, fromEnv, starts, authTokens, requests, answers, challenge,
          decided, approved>>
process == <<fromEnv, starts, authTokens>>
core == <<process, challenge, decided, approved>>

NoChallenge == [status |-> "none", methods |-> "none"]
Methods == {"totp first", "other first", "none"}

\* A configuration that is not valid is not read any further; nor does anything but its
\* type matter to a call that is not an authentication.
Configs ==
    [valid : {TRUE}, PAM_TYPE : {"auth"}, token : Tokens \cup {NoToken}, failOpen : BOOLEAN]
    \cup [valid : BOOLEAN, PAM_TYPE : {"session"}, token : {NoToken}, failOpen : {FALSE}]
NoConfig == [valid |-> FALSE, PAM_TYPE |-> "auth", token |-> NoToken, failOpen |-> FALSE]

\* The token of the core's n-th start: a new one each time, unless the environment names it.
ensureToken(env, n) == IF env THEN EnvToken ELSE Generated[n]

\* What an administrator may have given a helper by now.
Known ==
    {NoToken, CreatedToken} \cup
    (IF fromEnv THEN {EnvToken} ELSE {Generated[n] : n \in 1..starts})

Init ==
    /\ config = [l \in Logins |-> NoConfig]
    /\ pc = [l \in Logins |-> "run"] /\ exit = [l \in Logins |-> NotRunning]
    /\ received = [l \in Logins |-> Undecided]
    /\ fromEnv \in BOOLEAN /\ starts = 1 /\ authTokens = {ensureToken(fromEnv, 1)}
    /\ requests = {} /\ answers = {}
    /\ challenge = [l \in Logins |-> NoChallenge]
    /\ decided = [l \in Logins |-> Undecided] /\ approved = {}

fail(l) == IF config[l].failOpen THEN exitSuccess ELSE exitSysErr

Exit(l, code) ==
    /\ pc' = [pc EXCEPT ![l] = "exited"] /\ exit' = [exit EXCEPT ![l] = code]

\* The answer to a helper that has gone is lost.
HangUp(l) == answers' = {a \in answers : a.login # l}

Send(l, op) ==
    /\ pc' = [pc EXCEPT ![l] = op]
    /\ requests' = requests \cup {[login |-> l, op |-> op, state |-> "sent"]}

\* The two calls of the SDK; what the requests say about the login is left out.
evaluate(l) == Send(l, "evaluate")
VerifyChallenge(l) == Send(l, "verify")

-----------------------------------------------------------------------------
(* The helper *)

Run(l) ==
    /\ pc[l] = "run"
    /\ \E c \in Configs :
          /\ c.token \in Known
          /\ config' = [config EXCEPT ![l] = c]
          /\ IF ~c.valid THEN Exit(l, exitSysErr) /\ UNCHANGED requests
             ELSE IF c.PAM_TYPE \in skipPAMTypes THEN Exit(l, exitSuccess) /\ UNCHANGED requests
             ELSE IF c.token = NoToken
             THEN Exit(l, IF c.failOpen THEN exitSuccess ELSE exitSysErr) /\ UNCHANGED requests
             ELSE evaluate(l) /\ UNCHANGED exit
    /\ UNCHANGED <<received, answers, core>>

\* evaluate: an answer other than 2xx is an error, "other" an unknown decision.
Evaluated(l) ==
    /\ pc[l] = "evaluate"
    /\ \E a \in answers :
          /\ a.login = l /\ a.op = "evaluate"
          /\ answers' = answers \ {a}
          /\ received' = [received EXCEPT ![l] = IF a.ok THEN a.value ELSE Undecided]
          /\ IF a.ok /\ a.value = "challenge"
             THEN pc' = [pc EXCEPT ![l] = "prompt"] /\ UNCHANGED exit
             ELSE Exit(l, IF ~a.ok THEN fail(l)
                          ELSE IF a.value \in {"allow", "alert"} THEN exitSuccess
                          ELSE IF a.value = "deny" THEN exitAuthErr ELSE fail(l))
    /\ UNCHANGED <<config, requests, core>>

\* resolveChallenge until it has a code: a challenge that prefers another method, or a
\* prompt that yields no code or one too late for the deadline, is an error.
Prompted(l) ==
    /\ pc[l] = "prompt"
    /\ \/ challenge[l].methods # "other first" /\ VerifyChallenge(l) /\ UNCHANGED exit
       \/ Exit(l, exitAuthErr) /\ UNCHANGED requests
    /\ UNCHANGED <<config, received, answers, core>>

\* A challenge that cannot be verified is treated like a decision that cannot be got.
VerifiedFailingOpen(l) ==
    /\ pc[l] = "verify"
    /\ \E a \in answers :
          /\ a.login = l /\ a.op = "verify"
          /\ answers' = answers \ {a}
          /\ Exit(l, IF ~a.ok THEN fail(l)
                     ELSE IF a.value = "approved" THEN exitSuccess ELSE exitAuthErr)
    /\ UNCHANGED <<config, received, requests, core>>

Verified(l) ==
    /\ pc[l] = "verify"
    /\ \E a \in answers :
          /\ a.login = l /\ a.op = "verify"
          /\ answers' = answers \ {a}
          /\ Exit(l, IF a.ok /\ a.value = "approved" THEN exitSuccess ELSE exitAuthErr)
    /\ UNCHANGED <<config, received, requests, core>>

\* The helper has no deadline for the answer to a verification.
TimeoutEvaluateOnly(l) ==
    /\ pc[l] = "evaluate"
    /\ Exit(l, fail(l)) /\ HangUp(l)
    /\ UNCHANGED <<config, received, requests, core>>

\* The client's timeout, the helper's overall deadline, or a transport error.
Timeout(l) ==
    /\ pc[l] \in {"evaluate", "verify"}
    /\ Exit(l, IF pc[l] = "evaluate" THEN fail(l) ELSE exitAuthErr) /\ HangUp(l)
    /\ UNCHANGED <<config, received, requests, core>>

-----------------------------------------------------------------------------
(* The core *)

Answer(r, ok, value) ==
    answers' = IF pc[r.login] = r.op
               THEN answers \cup {[login |-> r.login, op |-> r.op, ok |-> ok, value |-> value]}
               ELSE answers
Error(r) == Answer(r, FALSE, "error")

\* The middleware compares the token with every registered one that is not revoked.
Validate(r) == config[r.login].token \in authTokens

Refused(r) ==
    /\ r.state = "sent" /\ ~Validate(r)
    /\ requests' = requests \ {r} /\ Error(r)
    /\ UNCHANGED <<config, pc, exit, received, core>>

\* The decision is a policy's effect, with alert answered as allow; it need not be one
\* the helper knows.
handleAccessEvaluate(r) ==
    /\ r.op = "evaluate" /\ r.state = "sent" /\ Validate(r)
    /\ requests' = requests \ {r}
    /\ \/ Error(r) /\ UNCHANGED <<challenge, decided>>
       \/ \E d \in Decisions \cup {"other"} :
             /\ Answer(r, TRUE, d)
             /\ decided' = [decided EXCEPT ![r.login] = d]
             /\ IF d = "challenge"
                THEN \E m \in Methods :
                        challenge' = [challenge EXCEPT ![r.login] = [status |-> "pending", methods |-> m]]
                ELSE UNCHANGED challenge
    /\ UNCHANGED <<config, pc, exit, received, process, approved>>

\* A right code approves a pending challenge.
handleChallengeVerify(r) ==
    /\ r.op = "verify" /\ r.state = "sent" /\ Validate(r)
    /\ LET l == r.login IN
       \/ /\ challenge[l].status = "pending"
          /\ challenge' = [challenge EXCEPT ![l].status = "approved"]
          /\ approved' = approved \cup {l}
          /\ requests' = (requests \ {r}) \cup {[r EXCEPT !.state = "handled"]}
          /\ UNCHANGED answers
       \/ /\ challenge' \in {challenge} \cup
                (IF challenge[l].status = "pending"
                 THEN {[challenge EXCEPT ![l].status = st] : st \in {"failed", "expired"}} ELSE {})
          /\ requests' = requests \ {r} /\ Error(r)
          /\ UNCHANGED approved
    /\ UNCHANGED <<config, pc, exit, received, process, decided>>

\* The answer is written from the stored challenge as it is by then.
Respond(r) ==
    /\ r.state = "handled"
    /\ requests' = requests \ {r} /\ Answer(r, TRUE, challenge[r.login].status)
    /\ UNCHANGED <<config, pc, exit, received, core>>

\* Another attempt at the challenge, in flight while it was pending, resolves it.
OtherAttempt(l) ==
    /\ challenge[l].status \in {"pending", "approved"}
    /\ \E st \in {"approved", "failed"} :
          /\ challenge' = [challenge EXCEPT ![l].status = st]
          /\ approved' = IF st = "approved" THEN approved \cup {l} ELSE approved
    /\ UNCHANGED <<config, pc, exit, received, process, requests, answers, decided>>

Revoke(t) ==
    /\ authTokens' = authTokens \ {t}
    /\ UNCHANGED <<config, pc, exit, received, fromEnv, starts, requests, answers, challenge,
                   decided, approved>>

\* The core ends, with the requests it was serving and all of its store, and starts
\* again: ensureToken, and RegisterToken in the new store.
Restart ==
    /\ starts < Len(Generated)
    /\ starts' = starts + 1
    /\ authTokens' = {ensureToken(fromEnv, starts')}
    /\ challenge' = [l \in Logins |-> [challenge[l] EXCEPT !.status = "none"]]
    /\ requests' = {}
    /\ UNCHANGED <<config, pc, exit, received, fromEnv, answers, decided, approved>>

Quiet == (\A l \in Logins : pc[l] = "exited") /\ UNCHANGED vars

Next ==
    \/ \E l \in Logins : \/ Run(l) \/ Evaluated(l) \/ Prompted(l) \/ Verified(l) \/ Timeout(l)
                         \/ OtherAttempt(l)
    \/ \E r \in requests : \/ Refused(r) \/ handleAccessEvaluate(r)
                           \/ handleChallengeVerify(r) \/ Respond(r)
    \/ \E t \in authTokens : Revoke(t)
    \/ Restart
    \/ Quiet

\* The helper runs on and its timeouts fire; the core and the user owe it nothing.
Fairness == \A l \in Logins : WF_vars(Run(l)) /\ WF_vars(Timeout(l))

Spec == Init /\ [][Next]_vars /\ Fairness

-----------------------------------------------------------------------------

\* run exits with success for a login that is not an authentication, on the core's
\* allow, on the core's approval of the login's own challenge, and, only where failing
\* open was configured, without a decision the helper understands.  Once the
\* core has asked for a challenge, failing open no longer applies.
GrantJustified ==
    \A l \in Logins : exit[l] = exitSuccess =>
        \/ config[l].valid /\ config[l].PAM_TYPE \in skipPAMTypes
        \/ decided[l] = "allow"
        \/ received[l] = "challenge" /\ l \in approved
        \/ config[l].failOpen /\ received[l] \in {Undecided, "other"}

\* Whether or not the core ever answers, a login does not wait for it forever: run
\* ends, or waits for the user at the prompt.
LoginEnds ==
    \A l \in Logins : pc[l] \in {"run", "evaluate", "verify"} ~> pc[l] \in {"prompt", "exited"}
=============================================================================
