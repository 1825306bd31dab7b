------------------------------ MODULE Adapters ------------------------------
(***************************************************************************)
(* The adapters API of the core: adapters are created with a token, deleted,  *)
(* and given a new token.  A rotation gets the record itself from the store,   *)
(* writes the new hash into it with no lock held, and stores it with Create,   *)
(* which does not ask whether the adapter is still there.                    *)
(*                                                                          *)
(* A token is a number, and stands for its hash: it is generated once, and     *)
(* bcrypt tells tokens apart.                                               *)
(***************************************************************************)
EXTENDS Integers, Sequences

CONSTANT Handlers

VARIABLES
    adapterHeap,     \* the adapter records created so far: their TokenHash
    adapters,        \* the adapters in the store; an ID is the record's index
    rotation,        \* per handler: the rotation it serves, or NoRotation
    tokens,          \* number of tokens generated
    handedOut,       \* history: the tokens that clients were answered with
    deletedAdapters, \* history: the IDs deleted
    undone           \* history: those deleted while a rotation was at work on them

adapterVars == <<adapterHeap, adapters, rotation, tokens, handedOut, deletedAdapters, undone>>

NoRotation == [step |-> "none"]

AdaptersInit ==
    /\ adapterHeap = <<>> /\ adapters = {} /\ tokens = 0
    /\ rotation = [h \in Handlers |-> NoRotation]
    /\ handedOut = {} /\ deletedAdapters = {} /\ undone = {}

\* A token that cannot be generated or hashed is an error, and nothing changes.
GenerateToken == tokens' = tokens + 1

handleCreateAdapter ==
    /\ GenerateToken
    /\ adapterHeap' = Append(adapterHeap, tokens')
    /\ adapters' = adapters \cup {Len(adapterHeap')}
    /\ handedOut' = handedOut \cup {tokens'}
    /\ UNCHANGED <<rotation, deletedAdapters, undone>>

Rotating(id) == \E h \in Handlers : rotation[h] # NoRotation /\ rotation[h].ID = id

handleDeleteAdapter(id) ==
    /\ adapters' = adapters \ {id}
    /\ deletedAdapters' = deletedAdapters \cup {id}
    /\ undone' = IF Rotating(id) THEN undone \cup {id} ELSE undone
    /\ UNCHANGED <<adapterHeap, rotation, tokens, handedOut>>

-----------------------------------------------------------------------------
(* handleRotateAdapterToken *)

\* A rotation that takes any adapter there ever was.
RotateGetAny(h, id) ==
    /\ rotation[h] = NoRotation
    /\ rotation' = [rotation EXCEPT ![h] = [step |-> "write", ID |-> id]]
    /\ UNCHANGED <<adapterHeap, adapters, tokens, handedOut, deletedAdapters, undone>>

\* Up to the Get; an adapter that is not there is refused.
RotateGet(h, id) ==
    /\ rotation[h] = NoRotation /\ id \in adapters
    /\ rotation' = [rotation EXCEPT ![h] = [step |-> "write", ID |-> id]]
    /\ UNCHANGED <<adapterHeap, adapters, tokens, handedOut, deletedAdapters, undone>>

\* The new token's hash is written into the shared record.
RotateWrite(h) ==
    /\ rotation[h].step = "write"
    /\ GenerateToken
    /\ adapterHeap' = [adapterHeap EXCEPT ![rotation[h].ID] = tokens']
    /\ rotation' = [rotation EXCEPT ![h] = [step |-> "store", ID |-> rotation[h].ID, token |-> tokens']]
    /\ UNCHANGED <<adapters, handedOut, deletedAdapters, undone>>

RotateEnds(h) == rotation' = [rotation EXCEPT ![h] = NoRotation]

\* Create, and the answer with the token.
RotateStore(h) ==
    /\ rotation[h].step = "store"
    /\ adapters' = adapters \cup {rotation[h].ID}
    /\ handedOut' = handedOut \cup {rotation[h].token}
    /\ RotateEnds(h)
    /\ UNCHANGED <<adapterHeap, tokens, deletedAdapters, undone>>

-----------------------------------------------------------------------------

\* The process ends, and its part of the store with it.
AdaptersLost ==
    /\ adapters' = {} /\ rotation' = [h \in Handlers |-> NoRotation]
    /\ UNCHANGED <<adapterHeap, tokens, handedOut, deletedAdapters, undone>>

AdaptersRequest ==
    \/ handleCreateAdapter
    \/ \E id \in adapters : handleDeleteAdapter(id)
    \/ \E h \in Handlers, id \in DOMAIN adapterHeap : RotateGet(h, id)

RotationStep == \E h \in Handlers : RotateWrite(h) \/ RotateStore(h)

-----------------------------------------------------------------------------

\* Every stored adapter is accounted for.  A deleted one comes back only by a rotation that
\* was at work on it when it was deleted (api.go line 777 stores with Create); and however
\* rotations of an adapter overlap, when none is at work on it the stored hash is that of
\* a token some client was answered with, although a client may hold one that is no longer
\* stored.
AdaptersAccounted ==
    \A id \in adapters :
        /\ id \in deletedAdapters => id \in undone
        /\ Rotating(id) \/ adapterHeap[id] \in handedOut
=============================================================================
