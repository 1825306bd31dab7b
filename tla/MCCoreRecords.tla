---------------------------- MODULE MCCoreRecords ----------------------------
(***************************************************************************)
(* Two accounts: an administrator, and a stale service account whose flags    *)
(* the response adapter may not read.  API clients write an identity with the  *)
(* name of the first; webhooks ask for every action.                         *)
(***************************************************************************)
EXTENDS CoreRecords, TLC

CONSTANTS h1, h2, w1, w2

User(name, groups, spn, idle) ==
    [name |-> name, computer |-> FALSE, spn |-> spn, gmsa |-> FALSE, groups |-> groups,
     rid |-> 1103, primaryGroup |-> 513, uac |-> {"DONT_EXPIRE_PASSWORD"}, pwdLastSet |-> 1, idle |-> idle]

MCAccounts == <<User("a", {512}, FALSE, 90), User("b", {}, TRUE, 91)>>

MCBodies == {[Username |-> "a", Type |-> "person", Privileged |-> FALSE]}

Webhook(decision, action, sid, reasons) ==
    [Decision |-> decision, Action |-> action, AccountSID |-> sid, Reasons |-> reasons]

MCDecisions ==
    {Webhook("deny", "", 1, <<>>), Webhook("challenge", "enable_account", 1, <<>>),
     Webhook("deny", "remove_from_group", 1, <<512>>), Webhook("deny", "remove_from_group", 1, <<>>),
     Webhook("deny", "force_password_reset", 2, <<>>), Webhook("deny", "disable_account", 2, <<>>),
     Webhook("allow", "disable_account", 1, <<>>), Webhook("deny", "disable_account", 9, <<>>)}

Symmetry == Permutations(Handlers) \cup Permutations(Webhooks)
=============================================================================
