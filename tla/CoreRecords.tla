---------------------------- MODULE CoreRecords -----------------------------
(***************************************************************************)
(* Records that several parties keep at once: the identities and the adapters  *)
(* of the core's memory store, and the accounts of Active Directory, which     *)
(* the core's scans read while the response adapter and administrators change  *)
(* them.  All share the bound on the number of requests.                     *)
(***************************************************************************)
EXTENDS Directory

CONSTANTS Webhooks, Decisions, Readable

VARIABLES DryRun, hook, adapterHeap, adapters, rotation, tokens, handedOut, deletedAdapters, undone

hookVars == <<DryRun, hook>>
adapterVars == <<adapterHeap, adapters, rotation, tokens, handedOut, deletedAdapters, undone>>

Response == INSTANCE ADResponse
API == INSTANCE Adapters

vars == <<ad, directoryVars, hookVars, adapterVars>>

Init == ADInit /\ DirectoryInit /\ Response!HookInit /\ API!AdaptersInit

\* A request to another part than the identities and scans.
AcceptOther ==
    Accept /\ UNCHANGED <<heap, store, pc, req, deleted, reported, scansMet>>

Identities == DirectoryNext /\ UNCHANGED <<hookVars, adapterVars>>

\* The process of the core ends with all of its store.
CoreEnds ==
    /\ \E h \in Handlers : FatalMapAccess(h)
    /\ API!AdaptersLost
    /\ UNCHANGED hookVars

AdaptersAPI ==
    /\ \/ API!AdaptersRequest /\ AcceptOther
       \/ API!RotationStep /\ UNCHANGED directoryVars
    /\ UNCHANGED <<ad, hookVars>>

Responses ==
    /\ \/ \E w \in Webhooks, b \in Decisions : Response!Receive(w, b) /\ AcceptOther
       \/ Response!HookStep /\ UNCHANGED directoryVars
    /\ UNCHANGED adapterVars

Administrators ==
    /\ \E i \in SIDs : Response!Administrator(i)
    /\ AcceptOther
    /\ UNCHANGED adapterVars

Quiet ==
    /\ \A h \in Handlers : pc[h] = "idle" /\ rotation[h] = API!NoRotation
    /\ \A w \in Webhooks : hook[w].pc \in {"idle", "done"}
    /\ UNCHANGED vars

Next == Identities \/ CoreEnds \/ AdaptersAPI \/ Responses \/ Administrators \/ Quiet

Spec == Init /\ [][Next]_vars

-----------------------------------------------------------------------------
(* Properties of the parts that Directory does not state.                   *)

\* The AD response adapter answers with success only for what it did (actions.go lines
\* 56-73), while scans read the same directory and administrators change it.
SuccessApplied == Response!SuccessApplied

\* It changes no flag of an account but ACCOUNTDISABLE, unless somebody else changed the
\* account between its read and its write (actions.go lines 106-142).
FlagsKept == Response!FlagsKept

\* Every stored adapter record was created, or brought back by a rotation that overlapped
\* its deletion, and holds the hash of a token that a client was given (api.go lines
\* 745-786).
AdaptersAccounted == API!AdaptersAccounted
=============================================================================
