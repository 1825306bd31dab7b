----------------------------- MODULE ADResponse -----------------------------
(***************************************************************************)
(* The Active Directory response adapter (adapters/ad-response): a webhook    *)
(* with a decision about an account has the account disabled, enabled, made    *)
(* to change its password or removed from a group.  Each webhook is served by  *)
(* a goroutine of its own over an LDAP connection of its own; disabling and     *)
(* enabling read the account's flags in one operation and replace them in      *)
(* another.  Any operation may fail, a modification also after it was made.    *)
(***************************************************************************)
EXTENDS ActiveDirectory

CONSTANTS
    Webhooks,        \* the webhooks that arrive
    Decisions,       \* what they say: [Decision, Action, AccountSID, Reasons]
    Readable         \* the accounts whose flags the bind account may read

VARIABLES
    DryRun,          \* the adapter's configuration
    hook             \* per webhook: how far it is, and what it did

hookVars == <<DryRun, hook>>

\* overlapped and achieved are history: whether somebody else changed the flags since
\* they were read, and whether the account was as asked after the modification.
NoHook == [pc |-> "idle", body |-> "none", uac |-> {}, answer |-> "none",
           overlapped |-> FALSE, modified |-> FALSE, achieved |-> FALSE]

HookInit == DryRun \in BOOLEAN /\ hook = [w \in Webhooks |-> NoHook]

Body(w) == hook[w].body
Account(w) == Body(w).AccountSID

To(w, pc) == hook' = [hook EXCEPT ![w].pc = pc]
Answered(w, answer) == [hook EXCEPT ![w].pc = "done", ![w].answer = answer]

\* A webhook that names no action disables.
Action(b) == IF b.Action = "" THEN "disable_account" ELSE b.Action

-----------------------------------------------------------------------------

\* The handler up to Handle's connect.  A body that does not decode changes nothing.
Receive(w, b) ==
    /\ hook[w].pc = "idle"
    /\ LET begun == [hook EXCEPT ![w].body = b]
       IN  hook' = IF b.Decision \notin {"deny", "challenge"}
                   THEN [begun EXCEPT ![w].pc = "done", ![w].answer = "ignored"]
                   ELSE IF DryRun
                   THEN [begun EXCEPT ![w].pc = "done", ![w].answer = "success"]
                   ELSE [begun EXCEPT ![w].pc = "lookup"]
    /\ UNCHANGED <<ad, DryRun>>

\* connect, the choice of the action, and dnFromSID, which may find no account.
Lookup(w) ==
    /\ hook[w].pc = "lookup"
    /\ \/ hook' = Answered(w, "error")
       \/ /\ Account(w) \in SIDs
          /\ \/ Action(Body(w)) \in {"disable_account", "enable_account"} /\ To(w, "read")
             \/ Action(Body(w)) = "force_password_reset" /\ To(w, "modify")
             \/ Action(Body(w)) = "remove_from_group" /\ Body(w).Reasons # <<>> /\ To(w, "modify")
    /\ UNCHANGED <<ad, DryRun>>

\* Flags that cannot be read count as none: the error of the conversion is ignored.
Flags(i) == IF i \in Readable THEN ad[i].uac ELSE {}

getUAC(w) ==
    /\ hook[w].pc = "read"
    /\ \/ hook' = Answered(w, "error")
       \/ hook' = [hook EXCEPT ![w].pc = "modify", ![w].uac = Flags(Account(w))]
    /\ UNCHANGED <<ad, DryRun>>

\* An adapter that sets the flags to what an account usually has.
NewUACUsual(action, flags) ==
    IF action = "disable_account" THEN {uacAccountDisable} ELSE {}

NewUAC(action, flags) ==
    IF action = "disable_account" THEN flags \cup {uacAccountDisable} ELSE flags \ {uacAccountDisable}

Modification(w) ==
    LET action == Action(Body(w))
        group  == Body(w).Reasons[Len(Body(w).Reasons)]
    IN  \/ /\ action \in {"disable_account", "enable_account"}
           /\ ReplaceUAC(Account(w), NewUAC(action, hook[w].uac))
        \/ action = "force_password_reset" /\ ReplacePwdLastSet(Account(w), 0)
        \/ action = "remove_from_group" /\ DeleteMember(Account(w), group)

\* What the README's table of actions says of an account.
Achieved(b, account) ==
    CASE b.Action = "enable_account"       -> uacAccountDisable \notin account.uac
      [] b.Action = "force_password_reset" -> account.pwdLastSet = 0
      [] b.Action = "remove_from_group"    -> b.Reasons[Len(b.Reasons)] \notin account.groups
      [] OTHER                             -> uacAccountDisable \in account.uac

\* Account i has changed for the webhooks that are about to modify it.
Overlap(i, hooks) ==
    [w \in Webhooks |-> [hooks[w] EXCEPT !.overlapped =
        @ \/ (hooks[w].pc = "modify" /\ hooks[w].body.AccountSID = i)]]

\* Handle ignores the outcome of the modification.
ModifyUnchecked(w) ==
    /\ hook[w].pc = "modify"
    /\ \/ /\ Modification(w)
          /\ hook' = Overlap(Account(w), [Answered(w, "success") EXCEPT ![w].modified = TRUE,
                                ![w].achieved = Achieved(Body(w), ad'[Account(w)])])
       \/ hook' = Answered(w, "success") /\ UNCHANGED ad
    /\ UNCHANGED DryRun

\* setUAC, or the one modification of the other actions, and the answer.
Modify(w) ==
    /\ hook[w].pc = "modify"
    /\ \/ /\ Modification(w)
          /\ \E answer \in {"success", "error"} :
                hook' = Overlap(Account(w), [Answered(w, answer) EXCEPT ![w].modified = TRUE,
                                ![w].achieved = Achieved(Body(w), ad'[Account(w)])])
       \/ hook' = Answered(w, "error") /\ UNCHANGED ad
    /\ UNCHANGED DryRun

Administrator(i) ==
    /\ \/ \E f \in AdminFlags : AdministratorFlag(i, f)
       \/ \E g \in AdminGroups : AdministratorGroup(i, g)
    /\ hook' = Overlap(i, hook)
    /\ UNCHANGED DryRun

-----------------------------------------------------------------------------

HookStep == \E w \in Webhooks : Lookup(w) \/ getUAC(w) \/ Modify(w)

-----------------------------------------------------------------------------

\* Success is answered only for what was done: the account was as the README says of
\* the action when the modification had been made, and there was none for a decision
\* that is ignored or in a dry run ("Log actions without applying", README.md line 39).
SuccessApplied ==
    \A w \in Webhooks :
        /\ hook[w].answer = "success" /\ ~DryRun => hook[w].achieved
        /\ hook[w].modified => ~DryRun /\ Body(w).Decision \in {"deny", "challenge"}

\* A webhook changes no flag but ACCOUNTDISABLE of an account whose flags can be read,
\* unless somebody else changed the account after disableAccount or enableAccount had
\* read its flags: only such an overlap loses another's change (actions.go line 106).
FlagsKept ==
    [][\A w \in Webhooks :
          ~hook[w].modified /\ hook'[w].modified =>
              LET i == Account(w)
                  changed == (ad[i].uac \ ad'[i].uac) \cup (ad'[i].uac \ ad[i].uac)
              IN  changed \subseteq {uacAccountDisable} \/ hook[w].overlapped \/ i \notin Readable
      ]_<<ad, hookVars>>
=============================================================================
