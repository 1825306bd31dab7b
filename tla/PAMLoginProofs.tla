--------------------------- MODULE PAMLoginProofs ---------------------------
(***************************************************************************)
(* A login is granted only for a reason, for any number of logins and of      *)
(* tokens, however calls are lost or late and however often the core ends     *)
(* and starts again.                                                        *)
(***************************************************************************)
EXTENDS PAMLogin, TLAPS

\* Zenon does the logic; the steps that need arithmetic or records call for SMT.
USE ZenonT(20)

Received == Decisions \cup {"other", Undecided}
Statuses == {"none", "pending", "approved", "failed", "expired"}
Request == [login : Logins, op : {"evaluate", "verify"}, state : {"sent", "handled"}]
AnswerType ==
    [login : Logins, op : {"evaluate", "verify"}, ok : BOOLEAN,
     value : Decisions \cup {"other", "error"} \cup Statuses]

TypeOK ==
    /\ config \in [Logins -> Configs \cup {NoConfig}]
    /\ pc \in [Logins -> {"run", "evaluate", "prompt", "verify", "exited"}]
    /\ exit \in [Logins -> {NotRunning, exitSuccess, exitAuthErr, exitSysErr}]
    /\ received \in [Logins -> Received] /\ decided \in [Logins -> Received]
    /\ requests \subseteq Request /\ answers \subseteq AnswerType
    /\ challenge \in [Logins -> [status : Statuses, methods : Methods]]

\* A helper asks for a decision once: nothing is on its way before it has, and what is
\* on its way, or has arrived, is the decision of the core.
AskedOnce ==
    /\ \A l \in Logins : pc[l] = "run" =>
          (\A r \in requests : r.login # l) /\ (\A a \in answers : a.login # l)
    /\ \A r \in requests : r.op = "evaluate" =>
          /\ r.state = "sent" /\ received[r.login] = Undecided
          /\ \A a \in answers : a.login = r.login => a.op # "evaluate"
    /\ \A a \in answers : a.op = "evaluate" /\ a.ok =>
          decided[a.login] = a.value /\ a.value \in Decisions \cup {"other"}
    /\ \A l \in Logins :
          /\ received[l] # Undecided => decided[l] = received[l]
          /\ pc[l] \in {"run", "evaluate"} => received[l] = Undecided
          /\ pc[l] \in {"prompt", "verify"} => received[l] = "challenge"

\* Only the core's approval makes a challenge, or an answer, say "approved".
ApprovedByCore ==
    /\ \A l \in Logins : challenge[l].status = "approved" => l \in approved
    /\ \A a \in answers : a.op = "verify" /\ a.ok /\ a.value = "approved" => a.login \in approved

\* Why a login that was granted was granted, in terms of what its helper received.
Granted(l) ==
    \/ config[l].valid /\ config[l].PAM_TYPE \in skipPAMTypes
    \/ received[l] = "allow"
    \/ received[l] = "challenge" /\ l \in approved
    \/ config[l].failOpen /\ received[l] \in {Undecided, "other"}

GrantedRightly ==
    \A l \in Logins :
        /\ pc[l] # "exited" => exit[l] # exitSuccess
        /\ exit[l] = exitSuccess => Granted(l)

\* The inductive invariant.
IInv == TypeOK /\ AskedOnce /\ ApprovedByCore /\ GrantedRightly

-----------------------------------------------------------------------------
\* Nothing has been asked in the initial state.
LEMMA InitIInv == Init => IInv
<1> SUFFICES ASSUME Init PROVE IInv
  OBVIOUS
<1>1. TypeOK
  BY DEF Init, TypeOK, Received, Request, AnswerType, NoChallenge, Statuses, Methods
<1>2. AskedOnce /\ ApprovedByCore /\ GrantedRightly
  BY SMTT(30) DEF Init, AskedOnce, ApprovedByCore, GrantedRightly, NoChallenge, NotRunning, exitSuccess
<1> QED
  BY <1>1, <1>2 DEF IInv

\* What leaving run does: the exit code is the helper's last word.
LEMMA ExitEffect ==
    ASSUME TypeOK, NEW l \in Logins, NEW code \in {exitSuccess, exitAuthErr, exitSysErr},
           Exit(l, code)
    PROVE  /\ pc' \in [Logins -> {"run", "evaluate", "prompt", "verify", "exited"}]
           /\ exit' \in [Logins -> {NotRunning, exitSuccess, exitAuthErr, exitSysErr}]
           /\ pc'[l] = "exited" /\ exit'[l] = code
           /\ \A m \in Logins : m # l => pc'[m] = pc[m] /\ exit'[m] = exit[m]
BY DEF TypeOK, Exit

\* What sending a request does.
LEMMA SendEffect ==
    ASSUME TypeOK, NEW l \in Logins, NEW op \in {"evaluate", "verify"}, Send(l, op)
    PROVE  /\ pc' \in [Logins -> {"run", "evaluate", "prompt", "verify", "exited"}]
           /\ pc'[l] = op /\ \A m \in Logins : m # l => pc'[m] = pc[m]
           /\ requests' \subseteq Request
           /\ \A r \in requests' : r \in requests \/ (r.login = l /\ r.op = op /\ r.state = "sent")
<1>1. pc' = [pc EXCEPT ![l] = op]
  BY DEF Send
<1>2. [login |-> l, op |-> op, state |-> "sent"] \in Request
  BY DEF Request
<1>3. requests' = requests \cup {[login |-> l, op |-> op, state |-> "sent"]}
  BY DEF Send
<1> QED
  BY SMTT(30), <1>1, <1>2, <1>3 DEF TypeOK

\* What answering a request does.
LEMMA AnswerEffect ==
    ASSUME TypeOK, NEW r \in Request, NEW ok \in BOOLEAN,
           NEW value \in Decisions \cup {"other", "error"} \cup Statuses, Answer(r, ok, value)
    PROVE  /\ answers' \subseteq AnswerType
           /\ \A a \in answers' :
                 \/ a \in answers
                 \/ /\ a.login = r.login /\ a.op = r.op /\ a.ok = ok /\ a.value = value
                    /\ pc[r.login] = r.op
<1>1. [login |-> r.login, op |-> r.op, ok |-> ok, value |-> value] \in AnswerType
  BY DEF Request, AnswerType
<1> QED
  BY SMTT(30), <1>1 DEF Answer, TypeOK

\* run up to its first call.
LEMMA RunIInv ==
    ASSUME IInv, NEW l \in Logins, Run(l)
    PROVE  IInv'
<1> USE DEF IInv
<1>1. PICK c \in Configs :
        /\ config' = [config EXCEPT ![l] = c]
        /\ IF ~c.valid THEN Exit(l, exitSysErr) /\ UNCHANGED requests
           ELSE IF c.PAM_TYPE \in skipPAMTypes THEN Exit(l, exitSuccess) /\ UNCHANGED requests
           ELSE IF c.token = NoToken
           THEN Exit(l, IF c.failOpen THEN exitSuccess ELSE exitSysErr) /\ UNCHANGED requests
           ELSE evaluate(l) /\ UNCHANGED exit
  BY DEF Run
<1>2. pc[l] = "run" /\ UNCHANGED <<received, answers, challenge, decided, approved>>
  BY DEF Run, core
<1>3. config'[l] = c /\ \A m \in Logins : m # l => config'[m] = config[m]
  BY <1>1 DEF TypeOK
<1>4. config' \in [Logins -> Configs \cup {NoConfig}]
  BY <1>1 DEF TypeOK
<1>5. /\ received[l] = Undecided /\ exit[l] # exitSuccess
      /\ \A r \in requests : r.login # l
      /\ \A a \in answers : a.login # l
  BY <1>2 DEF AskedOnce, GrantedRightly
<1>6. \A m \in Logins : m # l => (Granted(m)' <=> Granted(m))
  BY <1>2, <1>3 DEF Granted
<1>7. ASSUME NEW code \in {exitSuccess, exitAuthErr, exitSysErr}, Exit(l, code), UNCHANGED requests,
             code = exitSuccess => \/ c.valid /\ c.PAM_TYPE \in skipPAMTypes
                                   \/ c.failOpen
      PROVE  IInv'
  <2>1. /\ pc' \in [Logins -> {"run", "evaluate", "prompt", "verify", "exited"}]
        /\ exit' \in [Logins -> {NotRunning, exitSuccess, exitAuthErr, exitSysErr}]
        /\ pc'[l] = "exited" /\ exit'[l] = code
        /\ \A m \in Logins : m # l => pc'[m] = pc[m] /\ exit'[m] = exit[m]
    BY <1>7, ExitEffect
  <2>2. TypeOK'
    BY <1>2, <1>4, <1>7, <2>1 DEF TypeOK
  <2>3. AskedOnce'
    BY SMTT(30), <1>2, <1>7, <2>1 DEF AskedOnce
  <2>4. ApprovedByCore'
    BY <1>2 DEF ApprovedByCore
  <2>5. GrantedRightly'
    BY SMTT(30), <1>2, <1>3, <1>5, <1>6, <1>7, <2>1 DEF GrantedRightly, Granted
  <2> QED
    BY <2>2, <2>3, <2>4, <2>5
<1>8. CASE evaluate(l) /\ UNCHANGED exit
  <2>1. /\ pc' \in [Logins -> {"run", "evaluate", "prompt", "verify", "exited"}]
        /\ pc'[l] = "evaluate" /\ \A m \in Logins : m # l => pc'[m] = pc[m]
        /\ requests' \subseteq Request
        /\ \A r \in requests' : r \in requests \/ (r.login = l /\ r.op = "evaluate" /\ r.state = "sent")
    BY <1>8, SendEffect DEF evaluate
  <2>2. TypeOK'
    BY <1>2, <1>4, <1>8, <2>1 DEF TypeOK
  <2>3. AskedOnce'
    <3>1. \A m \in Logins : pc'[m] = "run" =>
            (\A r \in requests' : r.login # m) /\ (\A a \in answers' : a.login # m)
      BY <1>2, <2>1 DEF AskedOnce
    <3>2. \A r \in requests' : r.op = "evaluate" =>
            /\ r.state = "sent" /\ received'[r.login] = Undecided
            /\ \A a \in answers' : a.login = r.login => a.op # "evaluate"
      BY SMTT(30), <1>2, <1>5, <2>1 DEF AskedOnce
    <3>3. \A a \in answers' : a.op = "evaluate" /\ a.ok =>
            decided'[a.login] = a.value /\ a.value \in Decisions \cup {"other"}
      BY <1>2 DEF AskedOnce
    <3>4. \A m \in Logins :
            /\ received'[m] # Undecided => decided'[m] = received'[m]
            /\ pc'[m] \in {"run", "evaluate"} => received'[m] = Undecided
            /\ pc'[m] \in {"prompt", "verify"} => received'[m] = "challenge"
      BY <1>2, <1>5, <2>1 DEF AskedOnce
    <3> QED
      BY <3>1, <3>2, <3>3, <3>4 DEF AskedOnce
  <2>4. ApprovedByCore'
    BY <1>2 DEF ApprovedByCore
  <2>5. GrantedRightly'
    BY <1>2, <1>5, <1>6, <1>8, <2>1 DEF GrantedRightly
  <2> QED
    BY <2>2, <2>3, <2>4, <2>5
<1> QED
  BY SMTT(30), <1>1, <1>7, <1>8 DEF exitSuccess, exitSysErr, exitAuthErr

\* Ending after a call: no answer is kept for the helper that it has not read, and what
\* it received is what the core decided.
LEMMA EndIInv ==
    ASSUME IInv, NEW l \in Logins, pc[l] # "run",
           NEW code \in {exitSuccess, exitAuthErr, exitSysErr}, Exit(l, code),
           answers' \subseteq answers,
           received' \in [Logins -> Received],
           \A m \in Logins : m # l => received'[m] = received[m],
           received'[l] # Undecided => decided[l] = received'[l],
           \A r \in requests : r.login = l /\ r.op = "evaluate" => received'[l] = Undecided,
           UNCHANGED <<config, requests, challenge, decided, approved>>,
           code = exitSuccess => Granted(l)'
    PROVE  IInv'
<1> USE DEF IInv
<1>1. /\ pc' \in [Logins -> {"run", "evaluate", "prompt", "verify", "exited"}]
      /\ exit' \in [Logins -> {NotRunning, exitSuccess, exitAuthErr, exitSysErr}]
      /\ pc'[l] = "exited" /\ exit'[l] = code
      /\ \A m \in Logins : m # l => pc'[m] = pc[m] /\ exit'[m] = exit[m]
  BY ExitEffect
<1>2. TypeOK'
  BY <1>1 DEF TypeOK
<1>3. AskedOnce'
  <2>1. \A m \in Logins : pc'[m] = "run" =>
          (\A r \in requests' : r.login # m) /\ (\A a \in answers' : a.login # m)
    BY SMTT(30), <1>1 DEF AskedOnce
  <2>2. \A r \in requests' : r.op = "evaluate" =>
          /\ r.state = "sent" /\ received'[r.login] = Undecided
          /\ \A a \in answers' : a.login = r.login => a.op # "evaluate"
    <3>1. \A r \in requests : r.login \in Logins
      BY DEF TypeOK, Request
    <3> QED
      BY <3>1 DEF AskedOnce
  <2>3. \A a \in answers' : a.op = "evaluate" /\ a.ok =>
          decided'[a.login] = a.value /\ a.value \in Decisions \cup {"other"}
    BY DEF AskedOnce
  <2>4. \A m \in Logins :
          /\ received'[m] # Undecided => decided'[m] = received'[m]
          /\ pc'[m] \in {"run", "evaluate"} => received'[m] = Undecided
          /\ pc'[m] \in {"prompt", "verify"} => received'[m] = "challenge"
    BY <1>1 DEF AskedOnce
  <2> QED
    BY <2>1, <2>2, <2>3, <2>4 DEF AskedOnce
<1>4. ApprovedByCore'
  BY DEF ApprovedByCore
<1>5. GrantedRightly'
  <2>1. \A m \in Logins : m # l => (Granted(m)' <=> Granted(m))
    BY DEF Granted
  <2> QED
    BY <1>1, <2>1 DEF GrantedRightly
<1> QED
  BY <1>2, <1>3, <1>4, <1>5

\* The helper reads the decision.
LEMMA EvaluatedIInv ==
    ASSUME IInv, NEW l \in Logins, Evaluated(l)
    PROVE  IInv'
<1> USE DEF IInv
<1>1. PICK a \in answers :
        /\ a.login = l /\ a.op = "evaluate"
        /\ answers' = answers \ {a}
        /\ received' = [received EXCEPT ![l] = IF a.ok THEN a.value ELSE Undecided]
        /\ IF a.ok /\ a.value = "challenge"
           THEN pc' = [pc EXCEPT ![l] = "prompt"] /\ UNCHANGED exit
           ELSE Exit(l, IF ~a.ok THEN fail(l)
                        ELSE IF a.value \in {"allow", "alert"} THEN exitSuccess
                        ELSE IF a.value = "deny" THEN exitAuthErr ELSE fail(l))
  BY DEF Evaluated
<1>2. pc[l] = "evaluate" /\ UNCHANGED <<config, requests, challenge, decided, approved>>
  BY DEF Evaluated, core
<1>3. /\ a.ok \in BOOLEAN
      /\ a.ok => decided[l] = a.value /\ a.value \in Decisions \cup {"other"}
  BY <1>1 DEF TypeOK, AnswerType, AskedOnce
<1>4. /\ received' \in [Logins -> Received]
      /\ received'[l] = (IF a.ok THEN a.value ELSE Undecided)
      /\ \A m \in Logins : m # l => received'[m] = received[m]
  BY <1>1, <1>3 DEF TypeOK, Received
<1>5. \A r \in requests : ~(r.login = l /\ r.op = "evaluate")
  BY <1>1 DEF AskedOnce
<1>6. CASE a.ok /\ a.value = "challenge"
  <2>1. /\ pc' \in [Logins -> {"run", "evaluate", "prompt", "verify", "exited"}]
        /\ pc'[l] = "prompt" /\ \A m \in Logins : m # l => pc'[m] = pc[m]
        /\ UNCHANGED exit
    BY <1>1, <1>6 DEF TypeOK
  <2>2. TypeOK'
    BY <1>1, <1>2, <1>4, <2>1 DEF TypeOK
  <2>3. AskedOnce'
    <3>1. \A m \in Logins : pc'[m] = "run" =>
            (\A r \in requests' : r.login # m) /\ (\A b \in answers' : b.login # m)
      BY SMTT(30), <1>1, <1>2, <2>1 DEF AskedOnce
    <3>2. \A r \in requests' : r.op = "evaluate" =>
            /\ r.state = "sent" /\ received'[r.login] = Undecided
            /\ \A b \in answers' : b.login = r.login => b.op # "evaluate"
      <4>1. \A r \in requests : r.login \in Logins
        BY DEF TypeOK, Request
      <4> QED
        BY SMTT(30), <1>1, <1>2, <1>4, <1>5, <4>1 DEF AskedOnce
    <3>3. \A b \in answers' : b.op = "evaluate" /\ b.ok =>
            decided'[b.login] = b.value /\ b.value \in Decisions \cup {"other"}
      BY <1>1, <1>2 DEF AskedOnce
    <3>4. \A m \in Logins :
            /\ received'[m] # Undecided => decided'[m] = received'[m]
            /\ pc'[m] \in {"run", "evaluate"} => received'[m] = Undecided
            /\ pc'[m] \in {"prompt", "verify"} => received'[m] = "challenge"
      BY SMTT(30), <1>2, <1>3, <1>4, <1>6, <2>1 DEF AskedOnce
    <3> QED
      BY <3>1, <3>2, <3>3, <3>4 DEF AskedOnce
  <2>4. ApprovedByCore'
    BY <1>1, <1>2 DEF ApprovedByCore
  <2>5. GrantedRightly'
    <3>1. \A m \in Logins : m # l => (Granted(m)' <=> Granted(m))
      BY <1>2, <1>4 DEF Granted
    <3>2. exit[l] # exitSuccess
      BY <1>2 DEF GrantedRightly
    <3> QED
      BY <2>1, <3>1, <3>2 DEF GrantedRightly
  <2> QED
    BY <2>2, <2>3, <2>4, <2>5
<1>7. CASE ~(a.ok /\ a.value = "challenge")
  <2> DEFINE code == IF ~a.ok THEN fail(l)
                     ELSE IF a.value \in {"allow", "alert"} THEN exitSuccess
                     ELSE IF a.value = "deny" THEN exitAuthErr ELSE fail(l)
  <2>1. Exit(l, code)
    BY <1>1, <1>7
  <2>2. code \in {exitSuccess, exitAuthErr, exitSysErr}
    BY DEF fail
  <2>3. fail(l) = exitSuccess => config[l].failOpen
    BY SMTT(30) DEF fail, exitSuccess, exitSysErr
  <2>4. code = exitSuccess => Granted(l)'
    <3>1. CASE ~a.ok
      BY <1>2, <1>4, <2>3, <3>1 DEF Granted
    <3>2. CASE a.ok /\ a.value = "allow"
      BY <1>4, <3>2 DEF Granted
    <3>3. CASE a.ok /\ a.value = "deny"
      BY SMTT(30), <3>3 DEF exitAuthErr, exitSuccess
    <3>4. CASE a.ok /\ a.value = "other"
      BY <1>2, <1>4, <2>3, <3>4 DEF Granted
    <3> QED
      BY <1>3, <1>7, <3>1, <3>2, <3>3, <3>4 DEF Decisions
  <2>5. received'[l] # Undecided => decided[l] = received'[l]
    BY <1>3, <1>4
  <2> HIDE DEF code
  <2> QED
    BY SMTT(30), <1>1, <1>2, <1>4, <1>5, <2>1, <2>2, <2>4, <2>5, EndIInv
<1> QED
  BY <1>6, <1>7

\* The user is asked for a code.
LEMMA PromptedIInv ==
    ASSUME IInv, NEW l \in Logins, Prompted(l)
    PROVE  IInv'
<1> USE DEF IInv
<1>1. pc[l] = "prompt" /\ UNCHANGED <<config, received, answers, challenge, decided, approved>>
  BY DEF Prompted, core
<1>2. CASE VerifyChallenge(l) /\ UNCHANGED exit
  <2>1. /\ pc' \in [Logins -> {"run", "evaluate", "prompt", "verify", "exited"}]
        /\ pc'[l] = "verify" /\ \A m \in Logins : m # l => pc'[m] = pc[m]
        /\ requests' \subseteq Request
        /\ \A r \in requests' : r \in requests \/ (r.login = l /\ r.op = "verify" /\ r.state = "sent")
    BY <1>2, SendEffect DEF VerifyChallenge
  <2>2. TypeOK'
    BY <1>1, <1>2, <2>1 DEF TypeOK
  <2>3. AskedOnce'
    BY SMTT(30), <1>1, <2>1 DEF AskedOnce
  <2>4. ApprovedByCore'
    BY <1>1 DEF ApprovedByCore
  <2>5. GrantedRightly'
    BY <1>1, <1>2, <2>1 DEF GrantedRightly, Granted
  <2> QED
    BY <2>2, <2>3, <2>4, <2>5
<1>3. CASE Exit(l, exitAuthErr) /\ UNCHANGED requests
  <2>1. exitAuthErr # exitSuccess
    BY SMTT(30) DEF exitAuthErr, exitSuccess
  <2>2. received \in [Logins -> Received] /\ (received[l] # Undecided => decided[l] = received[l])
        /\ \A r \in requests : r.login = l /\ r.op = "evaluate" => received[l] = Undecided
    BY SMTT(30) DEF TypeOK, AskedOnce
  <2> QED
    BY <1>1, <1>3, <2>1, <2>2, EndIInv
<1> QED
  BY <1>2, <1>3 DEF Prompted

\* The helper reads the outcome of the challenge.
LEMMA VerifiedIInv ==
    ASSUME IInv, NEW l \in Logins, Verified(l)
    PROVE  IInv'
<1> USE DEF IInv
<1>1. PICK a \in answers :
        /\ a.login = l /\ a.op = "verify"
        /\ answers' = answers \ {a}
        /\ Exit(l, IF a.ok /\ a.value = "approved" THEN exitSuccess ELSE exitAuthErr)
  BY DEF Verified
<1>2. pc[l] = "verify" /\ UNCHANGED <<config, received, requests, challenge, decided, approved>>
  BY DEF Verified, core
<1>3. received \in [Logins -> Received] /\ (received[l] # Undecided => decided[l] = received[l])
      /\ received[l] = "challenge"
      /\ \A r \in requests : r.login = l /\ r.op = "evaluate" => received[l] = Undecided
  BY <1>2 DEF TypeOK, AskedOnce
<1>4. a.ok /\ a.value = "approved" => Granted(l)'
  BY <1>1, <1>2, <1>3 DEF ApprovedByCore, Granted
<1>5. exitAuthErr # exitSuccess
  BY SMTT(30) DEF exitAuthErr, exitSuccess
<1>6. CASE a.ok /\ a.value = "approved"
  BY <1>1, <1>2, <1>3, <1>4, <1>6, EndIInv
<1>7. CASE ~(a.ok /\ a.value = "approved")
  BY <1>1, <1>2, <1>3, <1>5, <1>7, EndIInv
<1> QED
  BY <1>6, <1>7

\* The helper stops waiting.
LEMMA TimeoutIInv ==
    ASSUME IInv, NEW l \in Logins, Timeout(l)
    PROVE  IInv'
<1> USE DEF IInv
<1> DEFINE code == IF pc[l] = "evaluate" THEN fail(l) ELSE exitAuthErr
<1>1. /\ pc[l] \in {"evaluate", "verify"} /\ Exit(l, code) /\ answers' \subseteq answers
      /\ UNCHANGED <<config, received, requests, challenge, decided, approved>>
  BY DEF Timeout, core, HangUp
<1>2. code \in {exitSuccess, exitAuthErr, exitSysErr}
  BY DEF fail
<1>3. received \in [Logins -> Received] /\ (received[l] # Undecided => decided[l] = received[l])
      /\ \A r \in requests : r.login = l /\ r.op = "evaluate" => received[l] = Undecided
  BY SMTT(30) DEF TypeOK, AskedOnce
<1>4. code = exitSuccess => pc[l] = "evaluate" /\ config[l].failOpen
  BY SMTT(30) DEF fail, exitSuccess, exitAuthErr, exitSysErr
<1>5. pc[l] = "evaluate" => received[l] = Undecided
  BY DEF AskedOnce
<1>6. code = exitSuccess => Granted(l)'
  BY <1>1, <1>4, <1>5 DEF Granted
<1> HIDE DEF code
<1> QED
  BY <1>1, <1>2, <1>3, <1>6, EndIInv

\* The core answers a request, which ends it: an answer to "evaluate" is the decision, an
\* answer to "verify" says "approved" only of an approved challenge.
LEMMA AnsweredIInv ==
    ASSUME IInv, NEW r \in requests, NEW ok \in BOOLEAN,
           NEW value \in Decisions \cup {"other", "error"} \cup Statuses, Answer(r, ok, value),
           requests' = requests \ {r},
           UNCHANGED <<config, pc, exit, received>>,
           challenge' \in [Logins -> [status : Statuses, methods : Methods]],
           decided' \in [Logins -> Received],
           \A l \in Logins : decided'[l] # decided[l] => l = r.login /\ r.op = "evaluate",
           r.op = "evaluate" /\ ok => decided'[r.login] = value /\ value \in Decisions \cup {"other"},
           r.op = "verify" /\ ok /\ value = "approved" => r.login \in approved',
           approved \subseteq approved',
           \A l \in Logins : challenge'[l].status = "approved" => l \in approved'
    PROVE  IInv'
<1> USE DEF IInv
<1>1. r \in Request /\ r.login \in Logins
  BY DEF TypeOK, Request
<1>2. /\ answers' \subseteq AnswerType
      /\ \A a \in answers' :
            \/ a \in answers
            \/ /\ a.login = r.login /\ a.op = r.op /\ a.ok = ok /\ a.value = value
               /\ pc[r.login] = r.op
  BY <1>1, AnswerEffect
<1>3. TypeOK'
  BY <1>2 DEF TypeOK
<1>4. AskedOnce'
  <2>1. \A l \in Logins : pc'[l] = "run" =>
          (\A q \in requests' : q.login # l) /\ (\A a \in answers' : a.login # l)
    BY SMTT(30), <1>2 DEF AskedOnce
  <2>2. \A q \in requests' : q.op = "evaluate" =>
          /\ q.state = "sent" /\ received'[q.login] = Undecided
          /\ \A a \in answers' : a.login = q.login => a.op # "evaluate"
    <3>1. \A q \in requests' : q.op = "evaluate" /\ r.op = "evaluate" => q.login # r.login
      <4>1. ASSUME NEW q \in requests', q.op = "evaluate", r.op = "evaluate", q.login = r.login
            PROVE  FALSE
        <5>1. q \in Request /\ q.state = "sent" /\ r.state = "sent"
          BY <4>1 DEF TypeOK, AskedOnce
        <5>2. q = r
          BY SMTT(30), <1>1, <4>1, <5>1 DEF Request
        <5> QED
          BY <5>2
      <4> QED
        BY <4>1
    <3> QED
      BY <1>2, <3>1 DEF AskedOnce
  <2>3. \A a \in answers' : a.op = "evaluate" /\ a.ok =>
          decided'[a.login] = a.value /\ a.value \in Decisions \cup {"other"}
    <3>1. ASSUME NEW a \in answers, a.op = "evaluate", a.ok
          PROVE  decided'[a.login] = a.value /\ a.value \in Decisions \cup {"other"}
      <4>1. decided[a.login] = a.value /\ a.value \in Decisions \cup {"other"} /\ a.login \in Logins
        BY <3>1 DEF AskedOnce, TypeOK, AnswerType
      <4>2. ~(a.login = r.login /\ r.op = "evaluate")
        BY <3>1 DEF AskedOnce
      <4> QED
        BY <4>1, <4>2
    <3> QED
      BY <1>2, <3>1
  <2>4. \A l \in Logins :
          /\ received'[l] # Undecided => decided'[l] = received'[l]
          /\ pc'[l] \in {"run", "evaluate"} => received'[l] = Undecided
          /\ pc'[l] \in {"prompt", "verify"} => received'[l] = "challenge"
    BY DEF AskedOnce
  <2> QED
    BY <2>1, <2>2, <2>3, <2>4 DEF AskedOnce
<1>5. ApprovedByCore'
  BY <1>2 DEF ApprovedByCore
<1>6. GrantedRightly'
  BY DEF GrantedRightly, Granted
<1> QED
  BY <1>3, <1>4, <1>5, <1>6

\* The core refuses a token.
LEMMA RefusedIInv ==
    ASSUME IInv, NEW r \in requests, Refused(r)
    PROVE  IInv'
<1>1. TypeOK /\ \A l \in Logins : challenge[l].status = "approved" => l \in approved
  BY DEF IInv, ApprovedByCore
<1> QED
  BY <1>1, AnsweredIInv DEF Refused, Error, core, TypeOK

\* The core decides.
LEMMA handleAccessEvaluateIInv ==
    ASSUME IInv, NEW r \in requests, handleAccessEvaluate(r)
    PROVE  IInv'
<1>1. /\ TypeOK /\ r.login \in Logins /\ \A l \in Logins : challenge[l].status = "approved" => l \in approved
      /\ r.op = "evaluate" /\ requests' = requests \ {r} /\ UNCHANGED <<config, pc, exit, received, approved>>
  BY DEF IInv, ApprovedByCore, TypeOK, Request, handleAccessEvaluate
<1>2. CASE Error(r) /\ UNCHANGED <<challenge, decided>>
  BY <1>1, <1>2, AnsweredIInv DEF Error, TypeOK
<1>3. ASSUME NEW d \in Decisions \cup {"other"},
             Answer(r, TRUE, d), decided' = [decided EXCEPT ![r.login] = d],
             IF d = "challenge"
             THEN \E m \in Methods :
                     challenge' = [challenge EXCEPT ![r.login] = [status |-> "pending", methods |-> m]]
             ELSE UNCHANGED challenge
      PROVE  IInv'
  <2>1. /\ decided' \in [Logins -> Received] /\ decided'[r.login] = d
        /\ \A l \in Logins : l # r.login => decided'[l] = decided[l]
    BY <1>1, <1>3 DEF TypeOK, Received
  <2>2. /\ challenge' \in [Logins -> [status : Statuses, methods : Methods]]
        /\ \A l \in Logins : challenge'[l].status = "approved" => challenge[l].status = "approved"
    <3>1. CASE UNCHANGED challenge
      BY <1>1, <3>1 DEF TypeOK
    <3>2. ASSUME NEW m \in Methods,
                 challenge' = [challenge EXCEPT ![r.login] = [status |-> "pending", methods |-> m]]
          PROVE  /\ challenge' \in [Logins -> [status : Statuses, methods : Methods]]
                 /\ \A l \in Logins : challenge'[l].status = "approved" => challenge[l].status = "approved"
      <4>1. [status |-> "pending", methods |-> m] \in [status : Statuses, methods : Methods]
        BY DEF Statuses
      <4>2. /\ challenge'[r.login] = [status |-> "pending", methods |-> m]
            /\ \A l \in Logins : l # r.login => challenge'[l] = challenge[l]
        BY <1>1, <3>2 DEF TypeOK
      <4>3. challenge' \in [Logins -> [status : Statuses, methods : Methods]]
        BY <1>1, <3>2, <4>1 DEF TypeOK
      <4> QED
        BY SMTT(30), <4>2, <4>3
    <3> QED
      BY <1>3, <3>1, <3>2
  <2> QED
    BY <1>1, <1>3, <2>1, <2>2, AnsweredIInv
<1> QED
  BY <1>2, <1>3 DEF handleAccessEvaluate

\* What changing the status of one challenge does.
LEMMA StatusEffect ==
    ASSUME TypeOK, NEW l \in Logins, NEW st \in Statuses,
           challenge' = [challenge EXCEPT ![l].status = st]
    PROVE  /\ challenge' \in [Logins -> [status : Statuses, methods : Methods]]
           /\ challenge'[l].status = st
           /\ \A m \in Logins : m # l => challenge'[m] = challenge[m]
<1>1. challenge[l] \in [status : Statuses, methods : Methods]
  BY DEF TypeOK
<1>2. /\ [challenge[l] EXCEPT !.status = st] \in [status : Statuses, methods : Methods]
      /\ [challenge[l] EXCEPT !.status = st].status = st
  BY <1>1
<1>3. /\ challenge'[l] = [challenge[l] EXCEPT !.status = st]
      /\ \A m \in Logins : m # l => challenge'[m] = challenge[m]
      /\ challenge' = [m \in Logins |-> IF m = l THEN [challenge[l] EXCEPT !.status = st] ELSE challenge[m]]
  BY DEF TypeOK
<1> QED
  BY <1>2, <1>3 DEF TypeOK

\* Steps of the core that neither decide nor answer.
LEMMA CoreIInv ==
    ASSUME IInv, UNCHANGED <<config, pc, exit, received, answers, decided>>,
           challenge' \in [Logins -> [status : Statuses, methods : Methods]],
           requests' \subseteq Request,
           \A r \in requests' : \/ r \in requests
                                \/ r.op = "verify" /\ pc[r.login] # "run",
           approved \subseteq approved',
           \A l \in Logins : challenge'[l].status = "approved" => l \in approved'
    PROVE  IInv'
<1> USE DEF IInv
<1>1. TypeOK'
  BY DEF TypeOK
<1>2. AskedOnce'
  BY DEF AskedOnce
<1>3. ApprovedByCore' /\ GrantedRightly'
  BY DEF ApprovedByCore, GrantedRightly, Granted
<1> QED
  BY <1>1, <1>2, <1>3

\* The core verifies a code.
LEMMA handleChallengeVerifyIInv ==
    ASSUME IInv, NEW r \in requests, handleChallengeVerify(r)
    PROVE  IInv'
<1>0. PICK l : l = r.login
  OBVIOUS
<1>1. /\ TypeOK /\ r \in Request /\ l \in Logins /\ pc[l] # "run"
      /\ \A m \in Logins : challenge[m].status = "approved" => m \in approved
      /\ r.op = "verify" /\ UNCHANGED <<config, pc, exit, received, decided>>
  BY <1>0 DEF IInv, ApprovedByCore, AskedOnce, TypeOK, Request, handleChallengeVerify
<1>2. CASE /\ challenge' = [challenge EXCEPT ![l].status = "approved"]
           /\ approved' = approved \cup {l}
           /\ requests' = (requests \ {r}) \cup {[r EXCEPT !.state = "handled"]}
           /\ UNCHANGED answers
  <2>1. /\ challenge' \in [Logins -> [status : Statuses, methods : Methods]]
        /\ \A m \in Logins : m # l => challenge'[m] = challenge[m]
    BY <1>1, <1>2, StatusEffect DEF Statuses
  <2>2. PICK h : h = [r EXCEPT !.state = "handled"]
    OBVIOUS
  <2>3. h \in Request /\ h.op = "verify" /\ h.login = l
    BY <1>0, <1>1, <2>2 DEF Request
  <2>4. \A q \in requests' : q \in requests \/ q = h
    BY <1>2, <2>2
  <2>5. requests' \subseteq Request
    BY <1>1, <2>3, <2>4 DEF TypeOK
  <2> QED
    BY <1>1, <1>2, <2>1, <2>3, <2>4, <2>5, CoreIInv
<1>3. CASE /\ challenge' \in {challenge} \cup
                (IF challenge[l].status = "pending"
                 THEN {[challenge EXCEPT ![l].status = st] : st \in {"failed", "expired"}} ELSE {})
           /\ requests' = requests \ {r} /\ Error(r)
           /\ UNCHANGED approved
  <2>1. /\ challenge' \in [Logins -> [status : Statuses, methods : Methods]]
        /\ \A m \in Logins : challenge'[m].status = "approved" => m \in approved
    <3>1. CASE UNCHANGED challenge
      BY <1>1, <3>1 DEF TypeOK
    <3>2. ASSUME NEW st \in {"failed", "expired"}, challenge' = [challenge EXCEPT ![l].status = st]
          PROVE  /\ challenge' \in [Logins -> [status : Statuses, methods : Methods]]
                 /\ \A m \in Logins : challenge'[m].status = "approved" => m \in approved
      BY <1>1, <3>2, StatusEffect DEF Statuses
    <3> QED
      BY <1>3, <3>1, <3>2
  <2>2. decided \in [Logins -> Received]
    BY <1>1 DEF TypeOK
  <2> QED
    BY <1>1, <1>3, <2>1, <2>2, AnsweredIInv DEF Error
<1> QED
  BY <1>0, <1>2, <1>3 DEF handleChallengeVerify

\* The core answers with the status of the stored challenge.
LEMMA RespondIInv ==
    ASSUME IInv, NEW r \in requests, Respond(r)
    PROVE  IInv'
<1>1. /\ TypeOK /\ r \in Request /\ r.login \in Logins /\ r.op = "verify"
      /\ \A m \in Logins : challenge[m].status = "approved" => m \in approved
      /\ challenge[r.login].status \in Statuses
      /\ UNCHANGED <<config, pc, exit, received, challenge, decided, approved>>
      /\ requests' = requests \ {r} /\ Answer(r, TRUE, challenge[r.login].status)
  BY DEF IInv, ApprovedByCore, AskedOnce, TypeOK, Request, Respond, core
<1>2. /\ challenge' \in [Logins -> [status : Statuses, methods : Methods]]
      /\ decided' \in [Logins -> Received]
  BY <1>1 DEF TypeOK
<1> QED
  BY <1>1, <1>2, AnsweredIInv

\* Another attempt resolves a challenge.
LEMMA OtherAttemptIInv ==
    ASSUME IInv, NEW l \in Logins, OtherAttempt(l)
    PROVE  IInv'
<1>1. /\ TypeOK /\ requests \subseteq Request
      /\ \A m \in Logins : challenge[m].status = "approved" => m \in approved
  BY DEF IInv, ApprovedByCore, TypeOK
<1>2. PICK st \in {"approved", "failed"} :
        /\ challenge' = [challenge EXCEPT ![l].status = st]
        /\ approved' = IF st = "approved" THEN approved \cup {l} ELSE approved
  BY DEF OtherAttempt
<1>3. /\ challenge' \in [Logins -> [status : Statuses, methods : Methods]]
      /\ challenge'[l].status = st
      /\ \A m \in Logins : m # l => challenge'[m] = challenge[m]
  BY <1>1, <1>2, StatusEffect DEF Statuses
<1>4. UNCHANGED <<config, pc, exit, received, requests, answers, decided>>
  BY DEF OtherAttempt
<1> QED
  BY <1>1, <1>2, <1>3, <1>4, CoreIInv

\* Tokens are revoked, and the core is started again.
LEMMA ProcessIInv ==
    ASSUME IInv, (\E t \in authTokens : Revoke(t)) \/ Restart
    PROVE  IInv'
<1>1. /\ TypeOK /\ requests \subseteq Request
      /\ challenge \in [Logins -> [status : Statuses, methods : Methods]]
      /\ \A m \in Logins : challenge[m].status = "approved" => m \in approved
  BY DEF IInv, ApprovedByCore, TypeOK
<1>2. CASE \E t \in authTokens : Revoke(t)
  BY <1>1, <1>2, CoreIInv DEF Revoke
<1>3. CASE Restart
  <2>1. \A l \in Logins : /\ [challenge[l] EXCEPT !.status = "none"] \in [status : Statuses, methods : Methods]
                          /\ [challenge[l] EXCEPT !.status = "none"].status = "none"
    BY <1>1 DEF Statuses
  <2>2. challenge' = [l \in Logins |-> [challenge[l] EXCEPT !.status = "none"]]
        /\ requests' = {} /\ UNCHANGED <<config, pc, exit, received, answers, decided, approved>>
    BY <1>3 DEF Restart
  <2>3. /\ challenge' \in [Logins -> [status : Statuses, methods : Methods]]
        /\ \A l \in Logins : challenge'[l].status = "none"
    BY <2>1, <2>2
  <2> QED
    BY <2>2, <2>3, CoreIInv
<1> QED
  BY <1>2, <1>3

\* Every step of the helpers and of the core preserves the invariant.
LEMMA NextIInv == IInv /\ [Next]_vars => IInv'
<1> SUFFICES ASSUME IInv, [Next]_vars PROVE IInv'
  OBVIOUS
<1>1. ASSUME NEW l \in Logins,
             \/ Run(l) \/ Evaluated(l) \/ Prompted(l) \/ Verified(l) \/ Timeout(l) \/ OtherAttempt(l)
      PROVE  IInv'
  BY <1>1, RunIInv, EvaluatedIInv, PromptedIInv, VerifiedIInv, TimeoutIInv, OtherAttemptIInv
<1>2. ASSUME NEW r \in requests,
             Refused(r) \/ handleAccessEvaluate(r) \/ handleChallengeVerify(r) \/ Respond(r)
      PROVE  IInv'
  BY <1>2, RefusedIInv, handleAccessEvaluateIInv, handleChallengeVerifyIInv, RespondIInv
<1>3. CASE (\E t \in authTokens : Revoke(t)) \/ Restart
  BY <1>3, ProcessIInv
<1>4. CASE UNCHANGED vars
  BY <1>4 DEF vars, IInv, TypeOK, AskedOnce, ApprovedByCore, GrantedRightly, Granted
<1> QED
  BY <1>1, <1>2, <1>3, <1>4 DEF Next, Quiet

\* For every number of logins and tokens, and any number of restarts of the core: run
\* exits with success only for a reason GrantJustified lists.
THEOREM GrantsJustified == Spec => []GrantJustified
<1>1. IInv => GrantJustified
  <2> SUFFICES ASSUME IInv, NEW l \in Logins, exit[l] = exitSuccess
               PROVE  \/ config[l].valid /\ config[l].PAM_TYPE \in skipPAMTypes
                      \/ decided[l] = "allow"
                      \/ received[l] = "challenge" /\ l \in approved
                      \/ config[l].failOpen /\ received[l] \in {Undecided, "other"}
    BY DEF GrantJustified
  <2>1. Granted(l) /\ (received[l] # Undecided => decided[l] = received[l])
    BY DEF IInv, GrantedRightly, AskedOnce
  <2> QED
    BY <2>1 DEF Granted, Undecided
<1> QED
  BY InitIInv, NextIInv, <1>1, PTL DEF Spec
=============================================================================
