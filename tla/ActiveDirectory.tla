--------------------------- MODULE ActiveDirectory ---------------------------
(***************************************************************************)
(* Active Directory as the inventory scanner and the response adapter use it: *)
(* its accounts in the order in which a search returns them.  An account is   *)
(* [name, computer, spn, gmsa, groups, rid, primaryGroup, uac, pwdLastSet,     *)
(* idle]: groups by the number of the group they name, uac the set of its       *)
(* flags, idle in days since the last logon, or Never.  Every operation is      *)
(* atomic; what one reads may have changed when another writes.               *)
(***************************************************************************)
EXTENDS Integers, Sequences

CONSTANTS
    InitialAccounts,
    AdminFlags,      \* the flags an administrator sets and clears
    AdminGroups      \* the groups an administrator adds accounts to

VARIABLE ad

Never == -1
uacAccountDisable == "ACCOUNTDISABLE"

SIDs == DOMAIN InitialAccounts   \* a SID is the place of its account

\* The flags that an account has at first or may be given.
AccountFlags ==
    {uacAccountDisable} \cup AdminFlags \cup UNION {InitialAccounts[i].uac : i \in SIDs}
Accounts ==
    [name : STRING, computer : BOOLEAN, spn : BOOLEAN, gmsa : BOOLEAN, groups : SUBSET Int,
     rid : Int, primaryGroup : Int, uac : SUBSET AccountFlags, pwdLastSet : Int, idle : Int]

ASSUME AccountsAssumption == InitialAccounts \in Seq(Accounts) /\ AdminGroups \subseteq Int

ADInit == ad = InitialAccounts

ReplaceUAC(i, flags) == ad' = [ad EXCEPT ![i].uac = flags]
ReplacePwdLastSet(i, t) == ad' = [ad EXCEPT ![i].pwdLastSet = t]

\* To delete a value that is not there is an error.
DeleteMember(i, g) == g \in ad[i].groups /\ ad' = [ad EXCEPT ![i].groups = @ \ {g}]

\* Somebody else works on an account.
AdministratorFlag(i, f) ==
    ReplaceUAC(i, IF f \in ad[i].uac THEN ad[i].uac \ {f} ELSE ad[i].uac \cup {f})
AdministratorGroup(i, g) ==
    g \notin ad[i].groups /\ ad' = [ad EXCEPT ![i].groups = @ \cup {g}]
=============================================================================
