------------------------- MODULE ChallengeLifecycle -------------------------
(***************************************************************************)
(* What the orchestrator promises of a challenge (docs/architecture/        *)
(* mfa-orchestration.md, "Challenge Lifecycle"): it is created pending, uses *)
(* up at most MaxAttempts attempts while pending, and is resolved once, by   *)
(* approval after an attempt, by failure when no attempt is left, or by      *)
(* expiry.  The orchestrator does not expire challenges by itself, so        *)
(* nothing here is promised to happen eventually.                           *)
(***************************************************************************)
EXTENDS Naturals

CONSTANTS Challenges, MaxAttempts

VARIABLES
    status,   \* "none" before creation
    used      \* attempts used up

lifecycleVars == <<status, used>>

Resolved == {"approved", "failed", "expired"}

Init == status = [c \in Challenges |-> "none"] /\ used = [c \in Challenges |-> 0]

Create(c) ==
    /\ status[c] = "none"
    /\ status' = [status EXCEPT ![c] = "pending"]
    /\ UNCHANGED used

Attempt(c) ==
    /\ status[c] = "pending"
    /\ used[c] < MaxAttempts
    /\ used' = [used EXCEPT ![c] = @ + 1]
    /\ UNCHANGED status

Resolve(c, to) ==
    /\ status[c] = "pending"
    /\ to = "approved" => used[c] > 0
    /\ to = "failed" => used[c] = MaxAttempts
    /\ status' = [status EXCEPT ![c] = to]
    /\ UNCHANGED used

Next == \E c \in Challenges :
            Create(c) \/ Attempt(c) \/ \E to \in Resolved : Resolve(c, to)

Spec == Init /\ [][Next]_lifecycleVars
=============================================================================
