-------------------------- MODULE CoreRecordsProofs --------------------------
(***************************************************************************)
(* What the records that several parties keep at once can be relied on for,   *)
(* for any number of handlers, webhooks, accounts and requests.  The three     *)
(* parts, identities, responses and adapters, touch each other's state only   *)
(* through the accounts a scan reads, so that each has an invariant of its own. *)
(***************************************************************************)
EXTENDS CoreRecords, TLAPS

\* Zenon does the logic; the steps that need arithmetic or records call for SMT.
USE ZenonT(20)

-----------------------------------------------------------------------------
(* The identities.                                                          *)

EntryType ==
    [SamAccountName : STRING, Computer : BOOLEAN, Service : BOOLEAN, IsPrivileged : BOOLEAN,
     Enabled : BOOLEAN, Idle : Int]
Names == STRING \cup {b.Username : b \in Bodies}
Types == {"machine", "service_account", "person"} \cup {b.Type : b \in Bodies}
Marks == BOOLEAN \cup {b.Privileged : b \in Bodies}
RecordType ==
    [ID : Nat, Username : Names, Type : Types, Privileged : Marks, By : {"api", "scan"}]
RequestType ==
    [ID : Nat, Entries : Seq(EntryType), Next : Nat, Record : Nat, Written : SUBSET Nat]

\* The store keeps a record under the ID that is written in it.
StoreOK ==
    /\ heap \in Seq(RecordType)
    /\ store \in [DOMAIN store -> 1..Len(heap)]
    /\ DOMAIN store \subseteq 1..Len(heap) /\ deleted \subseteq 1..Len(heap)
    /\ \A i \in DOMAIN store : heap[store[i]].ID = i
    /\ NoResurrection

\* The labels of a scan: with an entry at hand, and with a record of it.
Holding == {"fields", "attributes", "store"}
AtEntry == {"create"} \cup Holding
Scanning == {"lookup"} \cup AtEntry
Labels == {"idle", "put"} \cup Scanning

\* How far a request is: a scan has written the entries before the one at hand.
RequestOK(q, label, size) ==
    /\ label = "idle" => q = NoRequest
    /\ label = "put" => q.Entries = <<>>
    /\ label \in Scanning =>
          q.Next >= 1 /\ q.Next <= Len(q.Entries) + 1 /\ q.Written = 1..(q.Next - 1)
    /\ label \in AtEntry => q.Next <= Len(q.Entries)
    /\ label \in Holding => q.Record \in 1..size

HandlersOK ==
    /\ pc \in [Handlers -> Labels] /\ req \in [Handlers -> RequestType]
    /\ \A h \in Handlers : RequestOK(req[h], pc[h], Len(heap))

\* Identity i is one that a scan made for the account of this name.
ScannedAs(i, name) == heap[store[i]].By = "scan" /\ heap[store[i]].Username = name

OneScan ==
    \A g, h \in Handlers : req[g].Entries # <<>> /\ req[h].Entries # <<>> => g = h

\* What a scan that is alone relies on between the lookup and the store: no identity that
\* a scan made has the name of an entry it did not find, or of a record it found but that one.
AloneOK(h) ==
    /\ pc[h] = "create" => \A i \in DOMAIN store : ~ScannedAs(i, Entry(h).SamAccountName)
    /\ pc[h] \in Holding /\ Record(h).By = "scan" =>
          \A i \in DOMAIN store : ScannedAs(i, Record(h).Username) => i = Record(h).ID

ScansOK ==
    /\ ~scansMet => OneScan /\ \A h \in Handlers : AloneOK(h)
    /\ OneIdentityPerAccount

DirectoryInv == StoreOK /\ HandlersOK /\ ReportedComplete /\ ScansOK

-----------------------------------------------------------------------------
(* The accounts and the webhooks.                                           *)

HookType ==
    [pc : {"lookup", "read", "modify", "done"}, body : Decisions,
     uac : SUBSET AccountFlags, answer : {"none", "ignored", "success", "error"},
     overlapped : BOOLEAN, modified : BOOLEAN, achieved : BOOLEAN]
Switches == {"disable_account", "enable_account"}

\* A webhook on its way to the modification is to be applied, and an account's flags were
\* read as they are, unless somebody else changed the account since.
HookOK(k) ==
    /\ k.pc = "idle" => k = Response!NoHook
    /\ k.pc # "idle" => k \in HookType
    /\ k.pc # "done" => ~k.modified /\ k.answer = "none"
    /\ k.pc \in {"lookup", "read", "modify"} => ~DryRun /\ k.body.Decision \in {"deny", "challenge"}
    /\ k.pc \in {"read", "modify"} => k.body.AccountSID \in SIDs
    /\ k.pc = "read" => Response!Action(k.body) \in Switches
    /\ k.pc = "modify" /\ Response!Action(k.body) \in Switches =>
          k.overlapped \/ k.uac = Response!Flags(k.body.AccountSID)
    /\ k.answer = "success" /\ ~DryRun => k.achieved
    /\ k.modified => ~DryRun /\ k.body.Decision \in {"deny", "challenge"}

ResponseInv ==
    /\ ad \in [SIDs -> Accounts] /\ DryRun \in BOOLEAN
    /\ hook = [w \in Webhooks |-> hook[w]] /\ \A w \in Webhooks : HookOK(hook[w])

-----------------------------------------------------------------------------
(* The adapters.                                                            *)

IDs == DOMAIN adapterHeap
RotationType ==
    {API!NoRotation} \cup [step : {"write"}, ID : IDs] \cup [step : {"store"}, ID : IDs, token : Nat]

\* The hash in a record was handed out, or a rotation is about to hand it out.
Promised(id) ==
    \E h \in Handlers : /\ rotation[h].step = "store"
                        /\ rotation[h].ID = id /\ rotation[h].token = adapterHeap[id]
AdapterOK(id) ==
    /\ id \in deletedAdapters => id \in undone
    /\ adapterHeap[id] \in handedOut \/ Promised(id)

AdaptersInv ==
    /\ adapterHeap \in Seq(Nat) /\ tokens \in Nat
    /\ adapters \subseteq IDs /\ deletedAdapters \subseteq IDs
    /\ rotation \in [Handlers -> RotationType]
    /\ \A id \in IDs : id \in adapters \/ API!Rotating(id) => AdapterOK(id)

IInv == DirectoryInv /\ ResponseInv /\ AdaptersInv

-----------------------------------------------------------------------------
(* The adapters: AdaptersInv is preserved.                                  *)

\* Which step a rotation is at tells what else it holds (handleRotateAdapterToken).
LEMMA RotationShape ==
    ASSUME AdaptersInv, NEW h \in Handlers
    PROVE  /\ rotation[h].step \in {"none", "write", "store"}
           /\ rotation[h].step = "none" <=> rotation[h] = API!NoRotation
           /\ rotation[h].step # "none" => rotation[h].ID \in IDs
           /\ rotation[h].step = "store" => rotation[h].token \in Nat
    BY SMTT(30) DEF AdaptersInv, RotationType, API!NoRotation

\* A record of a rotation that is at work is none of NoRotation, and holds what it was given.
LEMMA RotationMade ==
    ASSUME NEW id, NEW t
    PROVE  /\ [step |-> "write", ID |-> id].step = "write" /\ [step |-> "write", ID |-> id].ID = id
           /\ [step |-> "store", ID |-> id, token |-> t].step = "store"
           /\ [step |-> "store", ID |-> id, token |-> t].ID = id
           /\ [step |-> "store", ID |-> id, token |-> t].token = t
           /\ API!NoRotation.step = "none"
    BY SMTT(30) DEF API!NoRotation

\* handleCreateAdapter: the new record's ID is one that was never deleted.
LEMMA CreateAdapterKeeps ==
    ASSUME AdaptersInv, API!handleCreateAdapter
    PROVE  AdaptersInv'
<1> DEFINE n == Len(adapterHeap) + 1
<1>1. /\ adapterHeap \in Seq(Nat) /\ tokens \in Nat /\ tokens' = tokens + 1
      /\ adapterHeap' = Append(adapterHeap, tokens') /\ adapters' = adapters \cup {Len(adapterHeap')}
      /\ handedOut' = handedOut \cup {tokens'}
      /\ rotation' = rotation /\ deletedAdapters' = deletedAdapters /\ undone' = undone
    BY DEF AdaptersInv, API!handleCreateAdapter, API!GenerateToken
<1>2. /\ adapterHeap' \in Seq(Nat) /\ tokens' \in Nat /\ Len(adapterHeap') = n
      /\ IDs' = IDs \cup {n} /\ n \notin IDs /\ adapterHeap'[n] = tokens'
      /\ \A id \in IDs : adapterHeap'[id] = adapterHeap[id]
    BY SMTT(30), <1>1 DEF IDs
<1>3. rotation' \in [Handlers -> RotationType']
    <2>1. RotationType \subseteq RotationType'
        BY SMTT(30), <1>2 DEF RotationType
    <2> QED
        BY <1>1, <2>1 DEF AdaptersInv
<1>4. adapters' \subseteq IDs' /\ deletedAdapters' \subseteq IDs'
    BY <1>1, <1>2 DEF AdaptersInv
<1>5. ASSUME NEW id \in IDs', id \in adapters' \/ API!Rotating(id)'
      PROVE  AdapterOK(id)'
    <2>1. CASE id = n
        BY <1>1, <1>2, <2>1 DEF AdapterOK, AdaptersInv
    <2>2. CASE id # n
        <3>1. id \in IDs /\ (id \in adapters \/ API!Rotating(id))
            BY <1>1, <1>2, <1>5, <2>2 DEF API!Rotating
        <3>2. AdapterOK(id)
            BY <3>1 DEF AdaptersInv
        <3> QED
            BY <1>1, <1>2, <3>1, <3>2 DEF AdapterOK, Promised
    <2> QED
        BY <2>1, <2>2
<1> QED
    BY <1>1, <1>2, <1>3, <1>4, <1>5 DEF AdaptersInv

\* handleDeleteAdapter: a deletion under a rotation is one that may be undone.
LEMMA DeleteAdapterKeeps ==
    ASSUME AdaptersInv, NEW a \in adapters, API!handleDeleteAdapter(a)
    PROVE  AdaptersInv'
<1>1. /\ adapters' = adapters \ {a} /\ deletedAdapters' = deletedAdapters \cup {a}
      /\ undone' = IF API!Rotating(a) THEN undone \cup {a} ELSE undone
      /\ adapterHeap' = adapterHeap /\ rotation' = rotation /\ tokens' = tokens
      /\ handedOut' = handedOut
    BY DEF API!handleDeleteAdapter
<1>2. IDs' = IDs /\ RotationType' = RotationType
    BY <1>1 DEF IDs, RotationType
<1>3. ASSUME NEW id \in IDs, id \in adapters' \/ API!Rotating(id)'
      PROVE  AdapterOK(id)'
    <2>1. API!Rotating(id)' <=> API!Rotating(id)
        BY <1>1 DEF API!Rotating
    <2>2. AdapterOK(id)
        BY <1>1, <1>3, <2>1 DEF AdaptersInv
    <2>3. id = a => id \in undone'
        BY <1>1, <1>3, <2>1
    <2>4. undone \subseteq undone'
        BY <1>1
    <2> QED
        BY <1>1, <2>2, <2>3, <2>4 DEF AdapterOK, Promised
<1> QED
    BY <1>1, <1>2, <1>3 DEF AdaptersInv

\* handleRotateAdapterToken up to the Get: only a stored adapter is rotated.
LEMMA RotateGetKeeps ==
    ASSUME AdaptersInv, NEW h \in Handlers, NEW a \in IDs, API!RotateGet(h, a)
    PROVE  AdaptersInv'
<1> DEFINE r == [step |-> "write", ID |-> a]
<1>1. /\ rotation[h] = API!NoRotation /\ a \in adapters /\ rotation' = [rotation EXCEPT ![h] = r]
      /\ adapterHeap' = adapterHeap /\ adapters' = adapters /\ tokens' = tokens
      /\ handedOut' = handedOut /\ deletedAdapters' = deletedAdapters /\ undone' = undone
    BY DEF API!RotateGet
<1>2. IDs' = IDs /\ RotationType' = RotationType
    BY <1>1 DEF IDs, RotationType
<1>3. rotation'[h] = r /\ \A g \in Handlers : g # h => rotation'[g] = rotation[g]
    BY <1>1 DEF AdaptersInv
<1>4. rotation' \in [Handlers -> RotationType]
    <2>1. r \in RotationType
        BY SMTT(30) DEF RotationType
    <2> QED
        BY <1>1, <2>1 DEF AdaptersInv
<1>5. ASSUME NEW id \in IDs, id \in adapters \/ API!Rotating(id)'
      PROVE  AdapterOK(id)'
    <2>1. id \in adapters \/ API!Rotating(id)
        <3>1. r.ID = a
            BY SMTT(30)
        <3> QED
            BY <1>1, <1>3, <1>5, <3>1 DEF API!Rotating
    <2>2. AdapterOK(id)
        BY <2>1 DEF AdaptersInv
    <2>3. rotation[h].step # "store"
        BY SMTT(30), <1>1, RotationMade
    <2>4. Promised(id) => Promised(id)'
        BY <1>1, <1>3, <2>3 DEF Promised
    <2> QED
        BY <1>1, <2>2, <2>4 DEF AdapterOK
<1> QED
    BY <1>1, <1>2, <1>4, <1>5 DEF AdaptersInv

\* The write of the new hash promises its token.
LEMMA RotateWriteKeeps ==
    ASSUME AdaptersInv, NEW h \in Handlers, API!RotateWrite(h)
    PROVE  AdaptersInv'
<1> DEFINE a == rotation[h].ID
           r == [step |-> "store", ID |-> a, token |-> tokens']
<1>1. /\ rotation[h].step = "write" /\ tokens' = tokens + 1
      /\ adapterHeap' = [adapterHeap EXCEPT ![a] = tokens'] /\ rotation' = [rotation EXCEPT ![h] = r]
      /\ adapters' = adapters /\ handedOut' = handedOut /\ deletedAdapters' = deletedAdapters
      /\ undone' = undone
    BY DEF API!RotateWrite, API!GenerateToken
<1>2. a \in IDs /\ rotation[h] # API!NoRotation
    BY <1>1, RotationShape, SMTT(30)
<1>3. /\ adapterHeap' \in Seq(Nat) /\ tokens' \in Nat /\ IDs' = IDs /\ adapterHeap'[a] = tokens'
      /\ \A id \in IDs : id # a => adapterHeap'[id] = adapterHeap[id]
    BY SMTT(30), <1>1, <1>2 DEF IDs, AdaptersInv
<1>4. RotationType' = RotationType
    BY <1>3 DEF RotationType
<1>5. rotation'[h] = r /\ \A g \in Handlers : g # h => rotation'[g] = rotation[g]
    BY <1>1 DEF AdaptersInv
<1>6. rotation' \in [Handlers -> RotationType]
    <2>1. r \in RotationType
        BY SMTT(30), <1>2, <1>3 DEF RotationType
    <2> QED
        BY <1>1, <2>1 DEF AdaptersInv
<1>7. ASSUME NEW id \in IDs, id \in adapters \/ API!Rotating(id)'
      PROVE  AdapterOK(id)'
    <2>1. r.step = "store" /\ r.ID = a /\ r.token = tokens' /\ rotation[h].step # "store"
        BY <1>1, SMTT(30)
    <2>2. id \in adapters \/ API!Rotating(id)
        BY <1>2, <1>5, <1>7, <2>1 DEF API!Rotating
    <2>3. AdapterOK(id)
        BY <2>2 DEF AdaptersInv
    <2>4. CASE id = a
        <3>1. Promised(id)'
            BY <1>3, <1>5, <2>1, <2>4 DEF Promised
        <3> QED
            BY <1>1, <2>3, <3>1 DEF AdapterOK
    <2>5. CASE id # a
        <3>1. Promised(id) => Promised(id)'
            BY <1>3, <1>5, <2>1, <2>5 DEF Promised
        <3>2. /\ adapterHeap'[id] = adapterHeap[id]
              /\ handedOut' = handedOut /\ deletedAdapters' = deletedAdapters /\ undone' = undone
            BY <1>1, <1>3, <2>5
        <3> QED
            BY <2>3, <3>1, <3>2 DEF AdapterOK
    <2> QED
        BY <2>4, <2>5
<1> QED
    BY <1>1, <1>3, <1>4, <1>6, <1>7 DEF AdaptersInv

\* Create brings a deleted adapter back only with its rotation, and the answer hands out
\* the token whose hash this rotation wrote, the last one or not.
LEMMA RotateStoreKeeps ==
    ASSUME AdaptersInv, NEW h \in Handlers, API!RotateStore(h)
    PROVE  AdaptersInv'
<1> DEFINE a == rotation[h].ID
<1>1. /\ rotation[h].step = "store" /\ adapters' = adapters \cup {a}
      /\ handedOut' = handedOut \cup {rotation[h].token}
      /\ rotation' = [rotation EXCEPT ![h] = API!NoRotation]
      /\ adapterHeap' = adapterHeap /\ tokens' = tokens /\ deletedAdapters' = deletedAdapters
      /\ undone' = undone
    BY DEF API!RotateStore, API!RotateEnds
<1>2. a \in IDs /\ rotation[h] # API!NoRotation
    BY <1>1, RotationShape, SMTT(30)
<1>3. IDs' = IDs /\ RotationType' = RotationType
    BY <1>1 DEF IDs, RotationType
<1>4. rotation'[h] = API!NoRotation /\ \A g \in Handlers : g # h => rotation'[g] = rotation[g]
    BY <1>1 DEF AdaptersInv
<1>5. rotation' \in [Handlers -> RotationType]
    BY <1>1 DEF AdaptersInv, RotationType
<1>6. ASSUME NEW id \in IDs, id \in adapters' \/ API!Rotating(id)'
      PROVE  AdapterOK(id)'
    <2>1. id \in adapters \/ API!Rotating(id)
        BY <1>1, <1>2, <1>4, <1>6 DEF API!Rotating
    <2>2. AdapterOK(id)
        BY <2>1 DEF AdaptersInv
    <2>3. Promised(id) => adapterHeap[id] \in handedOut' \/ Promised(id)'
        BY <1>1, <1>4 DEF Promised
    <2> QED
        BY <1>1, <2>2, <2>3 DEF AdapterOK
<1> QED
    BY <1>1, <1>2, <1>3, <1>5, <1>6 DEF AdaptersInv

\* Every step of the adapters API, and the end of the process, keep the adapters accounted.
LEMMA AdaptersStep ==
    ASSUME AdaptersInv,
           API!AdaptersRequest \/ API!RotationStep \/ API!AdaptersLost \/ UNCHANGED adapterVars
    PROVE  AdaptersInv'
<1>1. CASE API!AdaptersRequest
    BY <1>1, CreateAdapterKeeps, DeleteAdapterKeeps, RotateGetKeeps DEF API!AdaptersRequest, IDs
<1>2. CASE API!RotationStep
    BY <1>2, RotateWriteKeeps, RotateStoreKeeps DEF API!RotationStep
<1>3. CASE API!AdaptersLost
    <2>1. /\ adapterHeap' = adapterHeap /\ tokens' = tokens /\ deletedAdapters' = deletedAdapters
          /\ adapters' = {} /\ rotation' = [h \in Handlers |-> API!NoRotation]
        BY <1>3 DEF API!AdaptersLost
    <2>2. \A id : ~(id \in adapters' \/ API!Rotating(id)')
        BY <2>1 DEF API!Rotating
    <2>3. rotation' \in [Handlers -> RotationType'] /\ IDs' = IDs
        BY <2>1 DEF RotationType, IDs
    <2> QED
        BY <2>1, <2>2, <2>3 DEF AdaptersInv
<1>4. CASE UNCHANGED adapterVars
    BY <1>4 DEF adapterVars, AdaptersInv, RotationType, IDs, API!Rotating, AdapterOK, Promised
<1> QED
    BY <1>1, <1>2, <1>3, <1>4

-----------------------------------------------------------------------------
(* The webhooks: ResponseInv is preserved.                                  *)

\* A field of a webhook's record is set to a value of its own kind.
LEMMA HookSet ==
    ASSUME NEW k \in HookType
    PROVE  /\ \A l \in {"lookup", "read", "modify", "done"} : [k EXCEPT !.pc = l] \in HookType
           /\ \A b \in Decisions : [k EXCEPT !.body = b] \in HookType
           /\ \A f \in SUBSET AccountFlags : [k EXCEPT !.uac = f] \in HookType
           /\ \A a \in {"ignored", "success", "error"} : [k EXCEPT !.answer = a] \in HookType
           /\ \A t \in BOOLEAN : /\ [k EXCEPT !.overlapped = t] \in HookType
                                 /\ [k EXCEPT !.modified = t] \in HookType
                                 /\ [k EXCEPT !.achieved = t] \in HookType
           /\ k.body \in Decisions /\ k.uac \in SUBSET AccountFlags
           /\ k.pc \in {"lookup", "read", "modify", "done"}
           /\ k.overlapped \in BOOLEAN /\ k.modified \in BOOLEAN /\ k.achieved \in BOOLEAN
    BY SMTT(30) DEF HookType

\* A webhook's record after a step: it goes on, is answered, has read the flags, has made the
\* modification; and after somebody else's.
Moved(k, l) == [k EXCEPT !.pc = l]
AnsweredAs(k, a) == [k EXCEPT !.pc = "done", !.answer = a]
ReadAs(k, f) == [k EXCEPT !.pc = "modify", !.uac = f]
ModifiedAs(k, a, m, t) == [k EXCEPT !.pc = "done", !.answer = a, !.modified = m, !.achieved = t]
OverlappedAs(k, t) == [k EXCEPT !.overlapped = t]
OverlapAs(k, i) == [k EXCEPT !.overlapped = @ \/ (k.pc = "modify" /\ k.body.AccountSID = i)]

\* Lookup: the webhook goes on.
LEMMA MovedRecord ==
    ASSUME NEW k \in HookType, NEW l \in {"lookup", "read", "modify", "done"}, NEW o,
           o = Moved(k, l)
    PROVE  /\ o \in HookType /\ o.pc = l /\ o.body = k.body /\ o.answer = k.answer
           /\ o.modified = k.modified /\ o.achieved = k.achieved
<1>1. o \in HookType
    BY HookSet DEF Moved
<1> QED
    BY SMTT(30), <1>1 DEF HookType, Moved

\* Answered: the webhook is done.
LEMMA AnsweredRecord ==
    ASSUME NEW k \in HookType, NEW a \in {"ignored", "success", "error"}, NEW o,
           o = AnsweredAs(k, a)
    PROVE  /\ o \in HookType /\ o.pc = "done" /\ o.answer = a /\ o.body = k.body
           /\ o.modified = k.modified /\ o.achieved = k.achieved
<1>1. o = [[k EXCEPT !.pc = "done"] EXCEPT !.answer = a]
    BY SMTT(30) DEF AnsweredAs
<1>2. PICK y : y = [k EXCEPT !.pc = "done"]
    OBVIOUS
<1>3. y \in HookType
    BY <1>2, HookSet
<1>4. o = [y EXCEPT !.answer = a]
    BY SMTT(30), <1>1, <1>2
<1>5. o \in HookType
    BY SMTT(30), <1>3, <1>4 DEF HookType
<1> QED
    BY SMTT(30), <1>5 DEF HookType, AnsweredAs

\* getUAC: the flags are read.
LEMMA ReadRecord ==
    ASSUME NEW k \in HookType, NEW f \in SUBSET AccountFlags, NEW o,
           o = ReadAs(k, f)
    PROVE  /\ o \in HookType /\ o.pc = "modify" /\ o.uac = f /\ o.body = k.body
           /\ o.modified = k.modified /\ o.achieved = k.achieved /\ o.answer = k.answer
<1>1. o = [[k EXCEPT !.pc = "modify"] EXCEPT !.uac = f]
    BY SMTT(30) DEF ReadAs
<1>2. PICK y : y = [k EXCEPT !.pc = "modify"]
    OBVIOUS
<1>3. y \in HookType
    BY <1>2, HookSet
<1>4. o = [y EXCEPT !.uac = f]
    BY SMTT(30), <1>1, <1>2
<1>5. o \in HookType
    BY SMTT(30), <1>3, <1>4 DEF HookType
<1> QED
    BY SMTT(30), <1>5 DEF HookType, ReadAs

\* The modification was made.
LEMMA ModifiedRecord ==
    ASSUME NEW k \in HookType, NEW a \in {"success", "error"}, NEW m \in BOOLEAN, NEW t \in BOOLEAN,
           NEW o, o = ModifiedAs(k, a, m, t)
    PROVE  /\ o \in HookType /\ o.pc = "done" /\ o.answer = a /\ o.body = k.body
           /\ o.modified = m /\ o.achieved = t
<1>1. o = [[AnsweredAs(k, a) EXCEPT !.modified = m] EXCEPT !.achieved = t]
    BY SMTT(30) DEF ModifiedAs, AnsweredAs
<1>2. PICK y : y = AnsweredAs(k, a)
    OBVIOUS
<1>3. PICK z : z = [y EXCEPT !.modified = m]
    OBVIOUS
<1>4. y \in HookType
    BY <1>2, AnsweredRecord
<1>5. z \in HookType
    BY <1>3, <1>4, HookSet
<1>6. o = [z EXCEPT !.achieved = t]
    BY SMTT(30), <1>1, <1>2, <1>3
<1>7. o \in HookType
    BY SMTT(30), <1>5, <1>6 DEF HookType
<1> QED
    BY SMTT(30), <1>7 DEF HookType, ModifiedAs

\* Somebody else's change is noted.
LEMMA OverlappedRecord ==
    ASSUME NEW k \in HookType, NEW t \in BOOLEAN, NEW o, o = OverlappedAs(k, t)
    PROVE  /\ o \in HookType /\ o.pc = k.pc /\ o.answer = k.answer /\ o.body = k.body
           /\ o.uac = k.uac /\ o.modified = k.modified /\ o.achieved = k.achieved
           /\ o.overlapped = t
    BY SMTT(30) DEF HookType, OverlappedAs

\* The step of a webhook leaves it like this, and the others as they are.
HookBecomes(w, k) ==
    /\ hook' = [v \in Webhooks |-> hook'[v]] /\ hook'[w] = k
    /\ \A v \in Webhooks : v # w => hook'[v] = hook[v]

\* No webhook's modification went through in this step.
NoModification == \A v \in Webhooks : hook'[v].modified => hook[v].modified

\* A step of one webhook that changes no account concerns no other.
LEMMA HookMoves ==
    ASSUME ResponseInv, ad' = ad, DryRun' = DryRun, NEW w \in Webhooks, NEW k, HookOK(k),
           ~k.modified, HookBecomes(w, k)
    PROVE  ResponseInv' /\ NoModification
<1>1. \A v \in Webhooks : HookOK(hook'[v])
    BY DEF ResponseInv, HookBecomes
<1>2. ASSUME NEW o, HookOK(o) PROVE HookOK(o)'
    BY <1>2 DEF HookOK, Response!Flags
<1>3. NoModification
    BY DEF HookBecomes, NoModification
<1> QED
    BY <1>1, <1>2, <1>3 DEF ResponseInv, HookBecomes

\* A change of account i leaves what was read of the others as it is, and is noted where i's
\* flags were read (Overlap).
LEMMA OverlapKeeps ==
    ASSUME DryRun' = DryRun, NEW i, \A j \in SIDs : j # i => ad'[j] = ad[j],
           NEW k, HookOK(k), NEW o, o = OverlapAs(k, i)
    PROVE  HookOK(o)' /\ o.modified = k.modified
<1>1. CASE k.pc = "idle"
    <2>1. k = Response!NoHook
        BY <1>1 DEF HookOK
    <2>2. ~(k.pc = "modify") /\ k.overlapped = FALSE
        BY SMTT(30), <2>1 DEF Response!NoHook
    <2>3. PICK f : f = FALSE
        OBVIOUS
    <2>4. o = Response!NoHook
        <3>1. o = [k EXCEPT !.overlapped = f]
            BY <2>2, <2>3 DEF OverlapAs
        <3>2. k = [pc |-> "idle", body |-> "none", uac |-> {}, answer |-> "none",
                   overlapped |-> f, modified |-> f, achieved |-> f]
            BY <2>1, <2>3 DEF Response!NoHook
        <3>3. o = k
            BY SMTT(30), <3>1, <3>2
        <3> QED
            BY <2>1, <3>3
    <2>5. HookOK(k)'
        <3>1. k.pc # "modify" /\ k.pc # "done"
            BY SMTT(30), <1>1
        <3> QED
            BY <3>1 DEF HookOK
    <2> QED
        BY <2>1, <2>4, <2>5
<1>2. CASE k.pc # "idle"
    <2>1. k \in HookType
        BY <1>2 DEF HookOK
    <2>2. PICK t \in BOOLEAN : /\ t <=> k.overlapped \/ (k.pc = "modify" /\ k.body.AccountSID = i)
                               /\ o = OverlappedAs(k, t)
        <3>1. CASE k.overlapped \/ (k.pc = "modify" /\ k.body.AccountSID = i)
            <4>1. PICK t : t = TRUE
                OBVIOUS
            <4>2. o = OverlappedAs(k, t)
                BY <3>1, <4>1 DEF OverlappedAs, OverlapAs
            <4> QED
                BY <3>1, <4>1, <4>2
        <3>2. CASE ~(k.overlapped \/ (k.pc = "modify" /\ k.body.AccountSID = i))
            <4>1. PICK t : t = FALSE
                OBVIOUS
            <4>2. o = OverlappedAs(k, t)
                BY <3>2, <4>1 DEF OverlappedAs, OverlapAs
            <4> QED
                BY <3>2, <4>1, <4>2
        <3> QED
            BY <3>1, <3>2
    <2>3. /\ o \in HookType /\ o.pc = k.pc /\ o.answer = k.answer /\ o.body = k.body
          /\ o.uac = k.uac /\ o.modified = k.modified /\ o.achieved = k.achieved
          /\ o.overlapped = t
        BY SMTT(30), <2>1, <2>2, OverlappedRecord
    <2>4. ASSUME k.pc = "modify", Response!Action(k.body) \in Switches, ~t
          PROVE  k.uac = Response!Flags(k.body.AccountSID)'
        <3>1. k.body.AccountSID \in SIDs /\ k.body.AccountSID # i
            BY <2>2, <2>4 DEF HookOK
        <3>2. ad'[k.body.AccountSID] = ad[k.body.AccountSID]
            BY <3>1
        <3>3. k.uac = Response!Flags(k.body.AccountSID)
            BY <2>2, <2>4 DEF HookOK
        <3> QED
            BY <3>2, <3>3 DEF Response!Flags
    <2>5. /\ k.pc # "done" => ~k.modified /\ k.answer = "none"
          /\ k.pc \in {"lookup", "read", "modify"} =>
                ~DryRun /\ k.body.Decision \in {"deny", "challenge"}
          /\ k.pc \in {"read", "modify"} => k.body.AccountSID \in SIDs
          /\ k.pc = "read" => Response!Action(k.body) \in Switches
          /\ k.answer = "success" /\ ~DryRun => k.achieved
          /\ k.modified => ~DryRun /\ k.body.Decision \in {"deny", "challenge"}
        BY DEF HookOK
    <2>6. /\ o.pc # "idle"
          /\ o.pc = "modify" /\ Response!Action(o.body) \in Switches =>
                o.overlapped \/ o.uac = Response!Flags(o.body.AccountSID)'
        BY <1>2, <2>3, <2>4
    <2>7. /\ o.pc # "done" => ~o.modified /\ o.answer = "none"
          /\ o.pc \in {"lookup", "read", "modify"} =>
                ~DryRun' /\ o.body.Decision \in {"deny", "challenge"}
          /\ o.pc \in {"read", "modify"} => o.body.AccountSID \in SIDs
          /\ o.pc = "read" => Response!Action(o.body) \in Switches
          /\ o.answer = "success" /\ ~DryRun' => o.achieved
          /\ o.modified => ~DryRun' /\ o.body.Decision \in {"deny", "challenge"}
        BY <2>3, <2>5
    <2> QED
        BY <2>3, <2>6, <2>7 DEF HookOK
<1> QED
    BY <1>1, <1>2
\* An operation replaces one attribute of one account.
LEMMA AccountSet ==
    ASSUME ad \in [SIDs -> Accounts], NEW i \in SIDs, NEW y \in Accounts, ad' = [ad EXCEPT ![i] = y]
    PROVE  ad' \in [SIDs -> Accounts] /\ ad'[i] = y /\ \A j \in SIDs : j # i => ad'[j] = ad[j]
    OBVIOUS

\* ReplaceUAC, ReplacePwdLastSet, and DeleteMember or AdministratorGroup.
LEMMA WithFlags ==
    ASSUME NEW x \in Accounts, NEW f \in SUBSET AccountFlags, NEW y, y = [x EXCEPT !.uac = f]
    PROVE  y \in Accounts /\ y.uac = f
    BY SMTT(30) DEF Accounts
LEMMA WithPwdLastSet ==
    ASSUME NEW x \in Accounts, NEW y, y = [x EXCEPT !.pwdLastSet = 0]
    PROVE  y \in Accounts /\ y.pwdLastSet = 0 /\ y.uac = x.uac
    BY SMTT(30) DEF Accounts
LEMMA WithGroups ==
    ASSUME NEW x \in Accounts, NEW s \in SUBSET Int, NEW y, y = [x EXCEPT !.groups = s]
    PROVE  y \in Accounts /\ y.groups = s /\ y.uac = x.uac
    BY SMTT(30) DEF Accounts
LEMMA FlagNames == Response!uacAccountDisable \in AccountFlags /\ AdminFlags \subseteq AccountFlags
    BY DEF AccountFlags, Response!uacAccountDisable, uacAccountDisable
LEMMA NewFlags ==
    ASSUME NEW a, NEW f \in SUBSET AccountFlags
    PROVE  Response!NewUAC(a, f) \in SUBSET AccountFlags
    BY FlagNames DEF Response!NewUAC
LEMMA AccountFields ==
    ASSUME NEW x \in Accounts
    PROVE  x.uac \in SUBSET AccountFlags /\ x.groups \in SUBSET Int
    BY SMTT(30) DEF Accounts

\* What the README's table says of an account, by the action that is carried out; no action
\* named disables.
LEMMA AchievedWhen ==
    ASSUME NEW b, NEW x
    PROVE  /\ Response!Action(b) = "disable_account" /\ uacAccountDisable \in x.uac =>
                  Response!Achieved(b, x)
           /\ Response!Action(b) = "enable_account" /\ uacAccountDisable \notin x.uac =>
                  Response!Achieved(b, x)
           /\ Response!Action(b) = "force_password_reset" /\ x.pwdLastSet = 0 =>
                  Response!Achieved(b, x)
           /\ Response!Action(b) = "remove_from_group" /\ b.Reasons[Len(b.Reasons)] \notin x.groups =>
                  Response!Achieved(b, x)
<1>1. ASSUME b.Action \in {"", "disable_account"}, uacAccountDisable \in x.uac
      PROVE  Response!Achieved(b, x)
    BY <1>1 DEF Response!Achieved, Response!uacAccountDisable, uacAccountDisable
<1>2. ASSUME b.Action = "enable_account", uacAccountDisable \notin x.uac
      PROVE  Response!Achieved(b, x)
    BY <1>2 DEF Response!Achieved, Response!uacAccountDisable, uacAccountDisable
<1>3. ASSUME b.Action = "force_password_reset", x.pwdLastSet = 0
      PROVE  Response!Achieved(b, x)
    BY <1>3 DEF Response!Achieved
<1>4. ASSUME b.Action = "remove_from_group", b.Reasons[Len(b.Reasons)] \notin x.groups
      PROVE  Response!Achieved(b, x)
    BY <1>4 DEF Response!Achieved
<1>5. /\ Response!Action(b) = "disable_account" => b.Action \in {"", "disable_account"}
      /\ Response!Action(b) = "enable_account" => b.Action = "enable_account"
      /\ Response!Action(b) = "force_password_reset" => b.Action = "force_password_reset"
      /\ Response!Action(b) = "remove_from_group" => b.Action = "remove_from_group"
    BY DEF Response!Action
<1> QED
    BY <1>1, <1>2, <1>3, <1>4, <1>5

\* A modification that went through (setUAC, the password's date, the group's member) left
\* the account as the action asks, and touched only ACCOUNTDISABLE of the flags that were
\* read, if they were still the account's.
LEMMA ModificationEffect ==
    ASSUME ResponseInv, NEW w \in Webhooks, hook[w].pc = "modify", Response!Modification(w)
    PROVE  LET i == hook[w].body.AccountSID
           IN  /\ i \in SIDs /\ ad' \in [SIDs -> Accounts] /\ \A j \in SIDs : j # i => ad'[j] = ad[j]
               /\ Response!Achieved(hook[w].body, ad'[i])
               /\ \/ hook[w].overlapped \/ i \notin Readable
                  \/ (ad[i].uac \ ad'[i].uac) \cup (ad'[i].uac \ ad[i].uac) \subseteq {uacAccountDisable}
<1> DEFINE b == hook[w].body
           i == b.AccountSID
           action == Response!Action(b)
<1>1. hook[w] \in HookType /\ i \in SIDs /\ HookOK(hook[w])
    BY SMTT(30) DEF ResponseInv, HookOK
<1>2. ad \in [SIDs -> Accounts] /\ ad[i] \in Accounts
    BY <1>1 DEF ResponseInv
<1>3. PICK x \in Accounts : x = ad[i]
    BY <1>2
<1>4. CASE action \in Switches /\ ad' = [ad EXCEPT ![i].uac = Response!NewUAC(action, hook[w].uac)]
    <2>1. hook[w].uac \in SUBSET AccountFlags
        BY <1>1, HookSet
    <2>2. PICK f \in SUBSET AccountFlags : f = Response!NewUAC(action, hook[w].uac)
        BY <2>1, NewFlags
    <2>3. PICK y : y = [x EXCEPT !.uac = f]
        OBVIOUS
    <2>4. y \in Accounts /\ y.uac = f
        BY <2>3, WithFlags
    <2>5. ad' = [ad EXCEPT ![i] = y]
        BY SMTT(30), <1>4, <1>3, <2>2, <2>3
    <2>6. ad' \in [SIDs -> Accounts] /\ ad'[i] = y /\ \A j \in SIDs : j # i => ad'[j] = ad[j]
        BY <1>1, <1>2, <2>4, <2>5, AccountSet
    <2>7. Response!Achieved(b, ad'[i])
        <3>1. action = "disable_account" => uacAccountDisable \in ad'[i].uac
            BY <2>2, <2>4, <2>6
               DEF Response!NewUAC, Response!uacAccountDisable, uacAccountDisable
        <3>2. action = "enable_account" => uacAccountDisable \notin ad'[i].uac
            BY <2>2, <2>4, <2>6
               DEF Response!NewUAC, Response!uacAccountDisable, uacAccountDisable
        <3> QED
            BY <1>4, <3>1, <3>2, AchievedWhen DEF Switches
    <2>8. \/ hook[w].overlapped \/ i \notin Readable
          \/ (ad[i].uac \ ad'[i].uac) \cup (ad'[i].uac \ ad[i].uac) \subseteq {uacAccountDisable}
        <3>1. hook[w].overlapped \/ hook[w].uac = Response!Flags(i)
            BY <1>1, <1>4 DEF HookOK
        <3> QED
            BY <2>2, <2>4, <2>6, <3>1
               DEF Response!Flags, Response!NewUAC, Response!uacAccountDisable, uacAccountDisable
    <2> QED
        BY <1>1, <2>6, <2>7, <2>8
<1>5. CASE action = "force_password_reset" /\ ad' = [ad EXCEPT ![i].pwdLastSet = 0]
    <2>1. PICK y : y = [x EXCEPT !.pwdLastSet = 0]
        OBVIOUS
    <2>2. y \in Accounts /\ y.pwdLastSet = 0 /\ y.uac = x.uac
        BY <2>1, WithPwdLastSet
    <2>3. ad' = [ad EXCEPT ![i] = y]
        BY SMTT(30), <1>5, <1>3, <2>1
    <2>4. ad' \in [SIDs -> Accounts] /\ ad'[i] = y /\ \A j \in SIDs : j # i => ad'[j] = ad[j]
        BY <1>1, <1>2, <2>2, <2>3, AccountSet
    <2>5. Response!Achieved(b, ad'[i])
        BY <1>5, <2>2, <2>4, AchievedWhen
    <2> QED
        BY <1>1, <1>3, <2>2, <2>4, <2>5
<1>6. CASE /\ action = "remove_from_group"
           /\ ad' = [ad EXCEPT ![i].groups = @ \ {b.Reasons[Len(b.Reasons)]}]
    <2>1. PICK s \in SUBSET Int : s = x.groups \ {b.Reasons[Len(b.Reasons)]}
        BY AccountFields
    <2>2. PICK y : y = [x EXCEPT !.groups = s]
        OBVIOUS
    <2>3. y \in Accounts /\ y.groups = s /\ y.uac = x.uac
        BY <2>2, WithGroups
    <2>4. ad' = [ad EXCEPT ![i] = y]
        BY SMTT(30), <1>6, <1>3, <2>1, <2>2
    <2>5. ad' \in [SIDs -> Accounts] /\ ad'[i] = y /\ \A j \in SIDs : j # i => ad'[j] = ad[j]
        BY <1>1, <1>2, <2>3, <2>4, AccountSet
    <2>6. b.Reasons[Len(b.Reasons)] \notin ad'[i].groups
        BY <2>1, <2>3, <2>5
    <2>7. Response!Achieved(b, ad'[i])
        BY <1>6, <2>6, AchievedWhen
    <2> QED
        BY <1>1, <1>3, <2>3, <2>5, <2>7
<1> QED
    BY <1>4, <1>5, <1>6
       DEF Response!Modification, Response!ReplaceUAC, Response!ReplacePwdLastSet,
           Response!DeleteMember, Response!Body, Response!Account, Switches
\* The record of a webhook that arrives.
LEMMA NewHookRecord ==
    ASSUME NEW b \in Decisions, NEW x, x = [Response!NoHook EXCEPT !.body = b]
    PROVE  /\ \A a \in {"ignored", "success"} : \A o : o = AnsweredAs(x, a) =>
                 o \in HookType /\ o.pc = "done" /\ o.answer = a /\ ~o.modified
           /\ \A o : o = Moved(x, "lookup") =>
                 /\ o \in HookType /\ o.pc = "lookup" /\ o.answer = "none" /\ ~o.modified
                 /\ o.body = b
<1>1. PICK f \in BOOLEAN : f = FALSE
    OBVIOUS
<1>2. x = [pc |-> "idle", body |-> b, uac |-> {}, answer |-> "none",
           overlapped |-> f, modified |-> f, achieved |-> f]
    <2>1. Response!NoHook = [pc |-> "idle", body |-> "none", uac |-> {}, answer |-> "none",
                             overlapped |-> f, modified |-> f, achieved |-> f]
        BY <1>1 DEF Response!NoHook
    <2> QED
        BY SMTT(30), <2>1
<1>3. ASSUME NEW l \in {"done", "lookup"}, NEW a \in {"none", "ignored", "success"}, NEW o,
             o = [pc |-> l, body |-> b, uac |-> {}, answer |-> a,
                  overlapped |-> f, modified |-> f, achieved |-> f]
      PROVE  o \in HookType /\ o.body = b /\ o.modified = f /\ o.pc = l /\ o.answer = a
    BY SMTT(30), <1>3 DEF HookType
<1>4. ASSUME NEW a \in {"ignored", "success"}, NEW o, o = AnsweredAs(x, a)
      PROVE  o \in HookType /\ o.pc = "done" /\ o.answer = a /\ ~o.modified
    <2>1. o = [pc |-> "done", body |-> b, uac |-> {}, answer |-> a,
               overlapped |-> f, modified |-> f, achieved |-> f]
        <3>1. PICK y : y = [x EXCEPT !.pc = "done"]
            OBVIOUS
        <3>2. y = [pc |-> "done", body |-> b, uac |-> {}, answer |-> "none",
                   overlapped |-> f, modified |-> f, achieved |-> f]
            BY SMTT(30), <1>2, <3>1
        <3>3. o = [y EXCEPT !.answer = a]
            BY SMTT(30), <1>4, <3>1 DEF AnsweredAs
        <3> QED
            BY SMTT(30), <3>2, <3>3
    <2> QED
        BY <1>1, <1>3, <2>1
<1>5. ASSUME NEW o, o = Moved(x, "lookup")
      PROVE  o \in HookType /\ o.pc = "lookup" /\ o.answer = "none" /\ ~o.modified /\ o.body = b
    <2>1. o = [pc |-> "lookup", body |-> b, uac |-> {}, answer |-> "none",
               overlapped |-> f, modified |-> f, achieved |-> f]
        BY SMTT(30), <1>2, <1>5 DEF Moved
    <2> QED
        BY <1>1, <1>3, <2>1
<1> QED
    BY <1>4, <1>5

\* The webhook's handler up to Handle's connect.
LEMMA ReceiveKeeps ==
    ASSUME ResponseInv, NEW w \in Webhooks, NEW b \in Decisions, Response!Receive(w, b)
    PROVE  ResponseInv' /\ NoModification
<1>1. /\ hook[w].pc = "idle" /\ ad' = ad /\ DryRun' = DryRun /\ hook = [v \in Webhooks |-> hook[v]]
      /\ \/ /\ b.Decision \notin {"deny", "challenge"}
            /\ hook' = [[hook EXCEPT ![w].body = b] EXCEPT ![w].pc = "done", ![w].answer = "ignored"]
         \/ /\ b.Decision \in {"deny", "challenge"} /\ DryRun
            /\ hook' = [[hook EXCEPT ![w].body = b] EXCEPT ![w].pc = "done", ![w].answer = "success"]
         \/ /\ b.Decision \in {"deny", "challenge"} /\ ~DryRun
            /\ hook' = [[hook EXCEPT ![w].body = b] EXCEPT ![w].pc = "lookup"]
    BY DEF Response!Receive, ResponseInv
<1>2. hook[w] = Response!NoHook
    BY <1>1 DEF ResponseInv, HookOK
<1>3. PICK x : x = [hook[w] EXCEPT !.body = b]
    OBVIOUS
<1>4. x = [Response!NoHook EXCEPT !.body = b]
    BY <1>2, <1>3
<1>5. ASSUME NEW a \in {"ignored", "success"}, a = "success" => DryRun,
             hook' = [[hook EXCEPT ![w].body = b] EXCEPT ![w].pc = "done", ![w].answer = a]
      PROVE  ResponseInv' /\ NoModification
    <2>1. PICK o : o = AnsweredAs(x, a)
        OBVIOUS
    <2>2. o \in HookType /\ ~o.modified /\ o.pc = "done" /\ o.answer = a
        BY SMTT(30), <1>4, <2>1, NewHookRecord
    <2>3. HookOK(o) /\ ~o.modified
        BY SMTT(30), <1>5, <2>2 DEF HookOK
    <2>4. HookBecomes(w, o)
        BY <1>1, <1>3, <1>5, <2>1 DEF HookBecomes, AnsweredAs
    <2> QED
        BY <1>1, <2>3, <2>4, HookMoves
<1>6. CASE /\ b.Decision \in {"deny", "challenge"} /\ ~DryRun
           /\ hook' = [[hook EXCEPT ![w].body = b] EXCEPT ![w].pc = "lookup"]
    <2>1. PICK o : o = Moved(x, "lookup")
        OBVIOUS
    <2>2. o \in HookType /\ ~o.modified /\ o.pc = "lookup" /\ o.answer = "none" /\ o.body = b
        BY SMTT(30), <1>4, <2>1, NewHookRecord
    <2>3. HookOK(o) /\ ~o.modified
        BY <1>6, <2>2, SMTT(30) DEF HookOK
    <2>4. HookBecomes(w, o)
        BY <1>1, <1>3, <1>6, <2>1 DEF HookBecomes, Moved
    <2> QED
        BY <1>1, <2>3, <2>4, HookMoves
<1> QED
    BY <1>1, <1>5, <1>6

\* A webhook that is not done is answered with an error, with nothing modified.
LEMMA AnsweredErrorKeeps ==
    ASSUME ResponseInv, ad' = ad, DryRun' = DryRun, NEW w \in Webhooks,
           hook[w].pc \in {"lookup", "read", "modify"}, hook' = Response!Answered(w, "error")
    PROVE  ResponseInv' /\ NoModification
<1>1. PICK o : o = AnsweredAs(hook[w], "error")
    OBVIOUS
<1>2. HookBecomes(w, o)
    <2>1. hook = [v \in Webhooks |-> hook[v]]
        BY DEF ResponseInv
    <2> QED
        BY <1>1, <2>1 DEF Response!Answered, HookBecomes, AnsweredAs
<1>3. hook[w] \in HookType /\ ~hook[w].modified
    <2>1. hook[w].pc # "idle" /\ hook[w].pc # "done"
        BY SMTT(30)
    <2> QED
        BY <2>1 DEF ResponseInv, HookOK
<1>4. o \in HookType /\ o.pc = "done" /\ o.answer = "error" /\ o.modified = hook[w].modified
    BY SMTT(30), <1>1, <1>3, AnsweredRecord
<1>5. HookOK(o) /\ ~o.modified
    BY SMTT(30), <1>3, <1>4 DEF HookOK
<1> QED
    BY <1>2, <1>5, HookMoves

\* connect, the choice of the action, and dnFromSID.
LEMMA LookupKeeps ==
    ASSUME ResponseInv, NEW w \in Webhooks, Response!Lookup(w)
    PROVE  ResponseInv' /\ NoModification
<1>1. hook[w].pc = "lookup" /\ ad' = ad /\ DryRun' = DryRun
    BY DEF Response!Lookup
<1>2. ASSUME NEW l \in {"read", "modify"}, Response!To(w, l), hook[w].body.AccountSID \in SIDs,
             l = "read" => Response!Action(hook[w].body) \in Switches,
             l = "modify" => Response!Action(hook[w].body) \notin Switches
      PROVE  ResponseInv' /\ NoModification
    <2>1. PICK o : o = Moved(hook[w], l)
        OBVIOUS
    <2>2. HookBecomes(w, o)
        <3>1. hook = [v \in Webhooks |-> hook[v]]
            BY DEF ResponseInv
        <3> QED
            BY <1>2, <2>1, <3>1 DEF Response!To, HookBecomes, Moved
    <2>3. /\ hook[w] \in HookType /\ ~hook[w].modified /\ hook[w].answer = "none" /\ ~DryRun
          /\ hook[w].body.Decision \in {"deny", "challenge"}
        BY SMTT(30), <1>1 DEF ResponseInv, HookOK
    <2>4. /\ o \in HookType /\ o.pc = l /\ o.body = hook[w].body /\ o.answer = hook[w].answer
          /\ o.modified = hook[w].modified
        BY SMTT(30), <2>1, <2>3, MovedRecord
    <2>5. HookOK(o) /\ ~o.modified
        BY SMTT(30), <1>2, <2>3, <2>4 DEF HookOK
    <2> QED
        BY <1>1, <2>2, <2>5, HookMoves
<1>3. CASE hook' = Response!Answered(w, "error")
    BY <1>1, <1>3, AnsweredErrorKeeps
<1>4. CASE /\ hook[w].body.AccountSID \in SIDs
           /\ Response!Action(hook[w].body) \in Switches /\ Response!To(w, "read")
    BY <1>2, <1>4, SMTT(30)
<1>5. CASE /\ hook[w].body.AccountSID \in SIDs
           /\ Response!Action(hook[w].body) \in {"force_password_reset", "remove_from_group"}
           /\ Response!To(w, "modify")
    <2>1. Response!Action(hook[w].body) \notin Switches
        BY SMTT(30), <1>5 DEF Switches
    <2> QED
        BY <1>2, <1>5, <2>1, SMTT(30)
<1> QED
    BY <1>3, <1>4, <1>5
       DEF Response!Lookup, Response!Body, Response!Account, Response!SIDs, SIDs, Switches

\* The flags are read, and are the account's for now.
LEMMA getUACKeeps ==
    ASSUME ResponseInv, NEW w \in Webhooks, Response!getUAC(w)
    PROVE  ResponseInv' /\ NoModification
<1>1. hook[w].pc = "read" /\ ad' = ad /\ DryRun' = DryRun
    BY DEF Response!getUAC
<1>2. CASE hook' = Response!Answered(w, "error")
    BY <1>1, <1>2, AnsweredErrorKeeps
<1>3. CASE hook' = [hook EXCEPT ![w].pc = "modify", ![w].uac = Response!Flags(hook[w].body.AccountSID)]
    <2>1. /\ hook[w] \in HookType /\ ~hook[w].modified /\ hook[w].answer = "none" /\ ~DryRun
          /\ hook[w].body.Decision \in {"deny", "challenge"} /\ hook[w].body.AccountSID \in SIDs
        BY SMTT(30), <1>1 DEF ResponseInv, HookOK
    <2>2. PICK f \in SUBSET AccountFlags : f = Response!Flags(hook[w].body.AccountSID)
        BY <2>1, AccountFields DEF ResponseInv, Response!Flags
    <2>3. PICK o : o = ReadAs(hook[w], f)
        OBVIOUS
    <2>4. HookBecomes(w, o)
        <3>1. hook = [v \in Webhooks |-> hook[v]]
            BY DEF ResponseInv
        <3> QED
            BY <1>3, <2>2, <2>3, <3>1 DEF HookBecomes, ReadAs
    <2>5. /\ o \in HookType /\ o.pc = "modify" /\ o.uac = f /\ o.body = hook[w].body
          /\ o.modified = hook[w].modified /\ o.answer = hook[w].answer
        BY SMTT(30), <2>1, <2>3, ReadRecord
    <2>6. ~o.modified
        BY SMTT(30), <2>1, <2>5
    <2>7. HookOK(o)
        BY SMTT(30), <2>1, <2>2, <2>5 DEF HookOK
    <2> QED
        BY <1>1, <2>4, <2>6, <2>7, HookMoves
<1> QED
    BY <1>2, <1>3 DEF Response!getUAC, Response!Body, Response!Account
\* A change of account i, with the webhooks as hs but for the note of it.
LEMMA OverlapStep ==
    ASSUME DryRun \in BOOLEAN, DryRun' = DryRun, NEW i, \A j \in SIDs : j # i => ad'[j] = ad[j],
           ad' \in [SIDs -> Accounts], NEW hs, \A v \in Webhooks : HookOK(hs[v]),
           hook' = Response!Overlap(i, hs)
    PROVE  ResponseInv' /\ \A v \in Webhooks : hook'[v].modified = hs[v].modified
<1>1. /\ hook' = [v \in Webhooks |-> hook'[v]]
      /\ \A v \in Webhooks : hook'[v] = OverlapAs(hs[v], i)
    BY DEF Response!Overlap, OverlapAs
<1>2. ASSUME NEW v \in Webhooks, NEW o, o = hook'[v]
      PROVE  HookOK(o)' /\ o.modified = hs[v].modified
    <2>1. PICK k : k = hs[v]
        OBVIOUS
    <2>2. HookOK(k) /\ o = OverlapAs(k, i)
        BY <1>1, <1>2, <2>1
    <2> QED
        BY SMTT(30), <2>1, <2>2, OverlapKeeps
<1>3. \A v \in Webhooks : hook'[v].modified = hs[v].modified
    BY <1>2
<1>4. (\A v \in Webhooks : HookOK(hook[v]))'
    BY <1>2
<1> QED
    BY <1>1, <1>3, <1>4 DEF ResponseInv

\* What FlagsKept says of a step and a webhook.
FlagsKeptBy(w) ==
    ~hook[w].modified /\ hook'[w].modified =>
        LET i == Response!Account(w)
            changed == (ad[i].uac \ ad'[i].uac) \cup (ad'[i].uac \ ad[i].uac)
        IN  changed \subseteq {Response!uacAccountDisable} \/ hook[w].overlapped \/ i \notin Readable

\* setUAC, or the one modification of the other actions, and the answer: success says that
\* the account is as asked.
LEMMA ModifyKeeps ==
    ASSUME ResponseInv, NEW w \in Webhooks, Response!Modify(w)
    PROVE  ResponseInv' /\ \A v \in Webhooks : FlagsKeptBy(v)
<1>1. hook[w].pc = "modify" /\ DryRun' = DryRun
    BY DEF Response!Modify
<1>2. CASE hook' = Response!Answered(w, "error") /\ ad' = ad
    BY <1>1, <1>2, AnsweredErrorKeeps DEF NoModification, FlagsKeptBy
<1>3. ASSUME Response!Modification(w), NEW a \in {"success", "error"},
             hook' = Response!Overlap(hook[w].body.AccountSID,
                        [Response!Answered(w, a) EXCEPT ![w].modified = TRUE,
                            ![w].achieved = Response!Achieved(hook[w].body, ad'[hook[w].body.AccountSID])])
      PROVE  ResponseInv' /\ \A v \in Webhooks : FlagsKeptBy(v)
    <2> DEFINE i == hook[w].body.AccountSID
    <2>1. /\ ad' \in [SIDs -> Accounts] /\ \A j \in SIDs : j # i => ad'[j] = ad[j]
          /\ Response!Achieved(hook[w].body, ad'[i])
          /\ \/ hook[w].overlapped \/ i \notin Readable
             \/ (ad[i].uac \ ad'[i].uac) \cup (ad'[i].uac \ ad[i].uac) \subseteq {uacAccountDisable}
        BY <1>1, <1>3, ModificationEffect
    <2>2. PICK t \in BOOLEAN : t = TRUE
        OBVIOUS
    <2>3. PICK hs : hs = [Response!Answered(w, a) EXCEPT ![w].modified = t, ![w].achieved = t]
        OBVIOUS
    <2>4. hook' = Response!Overlap(i, hs)
        BY <1>3, <2>1, <2>2, <2>3
    <2>5. hs[w] = ModifiedAs(hook[w], a, t, t) /\ \A v \in Webhooks : v # w => hs[v] = hook[v]
        <3>1. hook = [v \in Webhooks |-> hook[v]]
            BY DEF ResponseInv
        <3> QED
            BY <2>3, <3>1 DEF Response!Answered, ModifiedAs
    <2>6. /\ hook[w] \in HookType /\ ~DryRun /\ hook[w].body.Decision \in {"deny", "challenge"}
        BY SMTT(30), <1>1 DEF ResponseInv, HookOK
    <2>7. PICK o : o = ModifiedAs(hook[w], a, t, t)
        OBVIOUS
    <2>8. /\ o \in HookType /\ o.pc = "done" /\ o.answer = a /\ o.body = hook[w].body
          /\ o.modified = t /\ o.achieved = t
        BY SMTT(30), <1>3, <2>6, <2>7, ModifiedRecord
    <2>9. HookOK(o)
        <3>1. o.pc \notin {"idle", "lookup", "read", "modify"}
            BY SMTT(30), <2>8
        <3> QED
            BY <2>2, <2>6, <2>8, <3>1 DEF HookOK
    <2>10. \A v \in Webhooks : HookOK(hs[v])
        BY <2>5, <2>7, <2>9 DEF ResponseInv
    <2>11. ResponseInv' /\ \A v \in Webhooks : hook'[v].modified = hs[v].modified
        BY <1>1, <2>1, <2>4, <2>10, OverlapStep DEF ResponseInv
    <2>12. \A v \in Webhooks : v # w /\ hook'[v].modified => hook[v].modified
        BY <2>5, <2>11
    <2>13. \A v \in Webhooks : v # w => FlagsKeptBy(v)
        BY <2>12 DEF FlagsKeptBy
    <2>14. FlagsKeptBy(w)
        BY <2>1 DEF FlagsKeptBy, Response!Account, Response!Body, Response!uacAccountDisable,
                    uacAccountDisable
    <2> QED
        BY <2>11, <2>13, <2>14
<1> QED
    BY <1>2, <1>3 DEF Response!Modify, Response!Body, Response!Account

\* Somebody else's change of an account.
LEMMA AdministratorKeeps ==
    ASSUME ResponseInv, NEW i \in SIDs, Response!Administrator(i)
    PROVE  ResponseInv' /\ NoModification
<1>1. PICK x \in Accounts : x = ad[i]
    BY DEF ResponseInv
<1>2. x.uac \in SUBSET AccountFlags /\ x.groups \in SUBSET Int
    BY AccountFields
<1>3. \E y \in Accounts : ad' = [ad EXCEPT ![i] = y]
    <2>1. ASSUME NEW f \in AdminFlags, Response!AdministratorFlag(i, f)
          PROVE  \E y \in Accounts : ad' = [ad EXCEPT ![i] = y]
        <3>1. PICK u : u = IF f \in ad[i].uac THEN ad[i].uac \ {f} ELSE ad[i].uac \cup {f}
            OBVIOUS
        <3>2. u \in SUBSET AccountFlags
            BY <1>1, <1>2, <3>1, FlagNames
        <3>3. PICK y : y = [x EXCEPT !.uac = u]
            OBVIOUS
        <3>4. y \in Accounts
            BY <3>2, <3>3, WithFlags
        <3>5. ad' = [ad EXCEPT ![i].uac = u]
            BY <2>1, <3>1 DEF Response!AdministratorFlag, Response!ReplaceUAC
        <3>6. ad' = [ad EXCEPT ![i] = y]
            BY SMTT(30), <1>1, <3>3, <3>5
        <3> QED
            BY <3>4, <3>6
    <2>2. ASSUME NEW g \in AdminGroups, Response!AdministratorGroup(i, g)
          PROVE  \E y \in Accounts : ad' = [ad EXCEPT ![i] = y]
        <3>1. PICK u : u = x.groups \cup {g}
            OBVIOUS
        <3>2. u \in SUBSET Int
            BY <1>2, <3>1, AccountsAssumption
        <3>3. PICK y : y = [x EXCEPT !.groups = u]
            OBVIOUS
        <3>4. y \in Accounts
            BY <3>2, <3>3, WithGroups
        <3>5. ad' = [ad EXCEPT ![i].groups = @ \cup {g}]
            BY <2>2 DEF Response!AdministratorGroup
        <3>6. ad' = [ad EXCEPT ![i] = y]
            BY SMTT(30), <1>1, <3>1, <3>3, <3>5
        <3> QED
            BY <3>4, <3>6
    <2> QED
        BY <2>1, <2>2 DEF Response!Administrator
<1>4. ad' \in [SIDs -> Accounts] /\ \A j \in SIDs : j # i => ad'[j] = ad[j]
    BY <1>3, AccountSet DEF ResponseInv
<1>5. DryRun' = DryRun /\ hook' = Response!Overlap(i, hook)
    BY DEF Response!Administrator
<1> QED
    BY <1>4, <1>5, OverlapStep DEF ResponseInv, NoModification

\* Every step of the response adapter and of administrators keeps the invariant.
LEMMA ResponseStep ==
    ASSUME ResponseInv,
           \/ \E w \in Webhooks, b \in Decisions : Response!Receive(w, b)
           \/ Response!HookStep
           \/ \E i \in SIDs : Response!Administrator(i)
           \/ UNCHANGED <<ad, hookVars>>
    PROVE  ResponseInv' /\ \A v \in Webhooks : FlagsKeptBy(v)
<1>1. CASE UNCHANGED <<ad, hookVars>>
    BY <1>1 DEF hookVars, ResponseInv, HookOK, Response!Flags, FlagsKeptBy
<1>2. NoModification => \A v \in Webhooks : FlagsKeptBy(v)
    BY DEF NoModification, FlagsKeptBy
<1> QED
    BY <1>1, <1>2, ReceiveKeeps, LookupKeeps, getUACKeeps, ModifyKeeps, AdministratorKeeps
       DEF Response!HookStep
-----------------------------------------------------------------------------
(* The identities API and the scans keep theirs.                            *)

\* Records are only added, and what a record is looked up by is never written again.
HeapGrows ==
    /\ heap' \in Seq(RecordType) /\ Len(heap') >= Len(heap)
    /\ \A r \in 1..Len(heap) : /\ heap'[r].ID = heap[r].ID
                               /\ heap'[r].Username = heap[r].Username
                               /\ heap'[r].By = heap[r].By

LEMMA NewRecordType ==
    ASSUME NEW id \in Nat, NEW n \in Names, NEW t \in Types, NEW m \in Marks, NEW by \in {"api", "scan"},
           NEW e, e = [ID |-> id, Username |-> n, Type |-> t, Privileged |-> m, By |-> by]
    PROVE  e \in RecordType /\ e.ID = id /\ e.Username = n /\ e.By = by
    BY SMTT(30) DEF RecordType

WithType(e, t) == [e EXCEPT !.Type = t]
WithPrivileged(e, m) == [e EXCEPT !.Privileged = m]

LEMMA TypeWritten ==
    ASSUME NEW e \in RecordType, NEW t \in Types, NEW y, y = WithType(e, t)
    PROVE  y \in RecordType /\ y.ID = e.ID /\ y.Username = e.Username /\ y.By = e.By
    BY SMTT(30) DEF RecordType, WithType

LEMMA PrivilegedWritten ==
    ASSUME NEW e \in RecordType, NEW m \in Marks, NEW y, y = WithPrivileged(e, m)
    PROVE  y \in RecordType /\ y.ID = e.ID /\ y.Username = e.Username /\ y.By = e.By
    BY SMTT(30) DEF RecordType, WithPrivileged

LEMMA HeapAppended ==
    ASSUME heap \in Seq(RecordType), NEW e \in RecordType, heap' = Append(heap, e)
    PROVE  HeapGrows /\ New \in 1..Len(heap') /\ heap'[New] = e
    BY SMTT(30) DEF HeapGrows, New

LEMMA HeapWritten ==
    ASSUME heap \in Seq(RecordType), NEW r \in 1..Len(heap), NEW e \in RecordType,
           e.ID = heap[r].ID, e.Username = heap[r].Username, e.By = heap[r].By,
           heap' = [heap EXCEPT ![r] = e]
    PROVE  HeapGrows /\ Len(heap') = Len(heap)
    BY SMTT(30) DEF HeapGrows

\* A record is put under its ID.
LEMMA StorePut ==
    ASSUME StoreOK, HeapGrows, deleted' = deleted, NEW id \in 1..Len(heap'), NEW r \in 1..Len(heap'),
           heap'[r].ID = id, id \notin deleted, store' = Put(id, r)
    PROVE  /\ StoreOK' /\ DOMAIN store' = DOMAIN store \cup {id} /\ store'[id] = r
           /\ \A i \in DOMAIN store : i # id => store'[i] = store[i]
<1>1. /\ DOMAIN store' = DOMAIN store \cup {id} /\ store'[id] = r
      /\ \A i \in DOMAIN store : i # id => store'[i] = store[i]
      /\ store' = [i \in DOMAIN store' |-> store'[i]]
    BY DEF Put
<1>2. /\ \A i \in DOMAIN store : store[i] \in 1..Len(heap) /\ i \in 1..Len(heap)
      /\ Len(heap) \in Nat /\ Len(heap') \in Nat
    BY SMTT(30) DEF StoreOK, HeapGrows
<1>3. \A k \in 1..Len(heap) : k \in 1..Len(heap')
    BY SMTT(30), <1>2 DEF HeapGrows
<1>4. \A i \in DOMAIN store' : i \in 1..Len(heap') /\ store'[i] \in 1..Len(heap')
    BY <1>1, <1>2, <1>3
<1>5. \A i \in DOMAIN store' : heap'[store'[i]].ID = i
    <2>1. \A i \in DOMAIN store : heap'[store[i]].ID = i
        BY <1>2 DEF StoreOK, HeapGrows
    <2> QED
        BY <1>1, <2>1
<1>6. store' \in [DOMAIN store' -> 1..Len(heap')]
    BY <1>1, <1>4
<1>7. NoResurrection'
    BY <1>1 DEF StoreOK, NoResurrection
<1>8. deleted' \subseteq 1..Len(heap')
    BY <1>3 DEF StoreOK
<1> QED
    BY <1>1, <1>4, <1>5, <1>6, <1>7, <1>8 DEF StoreOK, HeapGrows

LEMMA StoreSame ==
    ASSUME StoreOK, HeapGrows, deleted' = deleted, store' = store
    PROVE  StoreOK'
<1>1. /\ \A i \in DOMAIN store : store[i] \in 1..Len(heap) /\ i \in 1..Len(heap)
      /\ Len(heap) \in Nat /\ Len(heap') \in Nat
    BY SMTT(30) DEF StoreOK, HeapGrows
<1>2. \A k \in 1..Len(heap) : k \in 1..Len(heap')
    BY SMTT(30), <1>1 DEF HeapGrows
<1>3. \A i \in DOMAIN store : heap'[store[i]].ID = i
    BY <1>1 DEF StoreOK, HeapGrows
<1>4. store' \in [DOMAIN store' -> 1..Len(heap')]
    BY <1>1, <1>2 DEF StoreOK
<1>5. NoResurrection'
    BY DEF StoreOK, NoResurrection
<1> QED
    BY <1>2, <1>3, <1>4, <1>5 DEF StoreOK, HeapGrows

\* The handler goes on like this, and the others stay as they are.
HandlerBecomes(h, l, q) ==
    /\ pc' = [pc EXCEPT ![h] = l]
    /\ req' = [g \in Handlers |-> req'[g]] /\ req'[h] = q
    /\ \A g \in Handlers : g # h => req'[g] = req[g]

LEMMA HandlerKeeps ==
    ASSUME StoreOK, HeapGrows, HandlersOK, NEW h \in Handlers, NEW l \in Labels, NEW q \in RequestType,
           RequestOK(q, l, Len(heap')), HandlerBecomes(h, l, q)
    PROVE  HandlersOK'
<1>1. pc' \in [Handlers -> Labels] /\ pc'[h] = l /\ \A g \in Handlers : g # h => pc'[g] = pc[g]
    BY DEF HandlersOK, HandlerBecomes
<1>2. req' \in [Handlers -> RequestType]
    BY DEF HandlersOK, HandlerBecomes
<1>3. \A r \in 1..Len(heap) : r \in 1..Len(heap')
    BY SMTT(30) DEF HeapGrows, StoreOK
<1>4. ASSUME NEW g \in Handlers, g # h PROVE RequestOK(req[g], pc[g], Len(heap'))
    BY <1>3 DEF HandlersOK, RequestOK
<1>5. \A g \in Handlers : RequestOK(req'[g], pc'[g], Len(heap'))
    BY <1>1, <1>4 DEF HandlerBecomes
<1> QED
    BY <1>1, <1>2, <1>5 DEF HandlersOK

LEMMA HandlersStay ==
    ASSUME StoreOK, HeapGrows, HandlersOK, pc' = pc, req' = req
    PROVE  HandlersOK'
<1>1. \A r \in 1..Len(heap) : r \in 1..Len(heap')
    BY SMTT(30) DEF HeapGrows, StoreOK
<1>2. ASSUME NEW g \in Handlers PROVE RequestOK(req[g], pc[g], Len(heap'))
    BY <1>1 DEF HandlersOK, RequestOK
<1> QED
    BY <1>2 DEF HandlersOK
\* No identity becomes one that a scan made.
StoreKeeps ==
    \A i \in DOMAIN store' :
        heap'[store'[i]].By = "scan" =>
            /\ i \in DOMAIN store /\ heap[store[i]].By = "scan"
            /\ heap[store[i]].Username = heap'[store'[i]].Username

LEMMA AloneKept ==
    ASSUME HandlersOK, HeapGrows, StoreKeeps, NEW h \in Handlers, AloneOK(h), req'[h] = req[h],
           pc'[h] = "create" => pc[h] = "create", pc'[h] \in Holding => pc[h] \in Holding
    PROVE  AloneOK(h)'
<1>1. ASSUME pc'[h] = "create", NEW i \in DOMAIN store' PROVE ~ScannedAs(i, Entry(h).SamAccountName)'
    BY <1>1 DEF AloneOK, StoreKeeps, ScannedAs, Entry
<1>2. ASSUME pc'[h] \in Holding, Record(h)'.By = "scan", NEW i \in DOMAIN store',
             ScannedAs(i, Record(h).Username)'
      PROVE  i = Record(h)'.ID
    <2>1. req[h].Record \in 1..Len(heap)
        BY <1>2 DEF HandlersOK, RequestOK
    <2>2. Record(h)'.By = Record(h).By /\ Record(h)'.Username = Record(h).Username
          /\ Record(h)'.ID = Record(h).ID
        BY <2>1 DEF Record, HeapGrows
    <2> QED
        BY <1>2, <2>2 DEF AloneOK, StoreKeeps, ScannedAs
<1> QED
    BY <1>1, <1>2 DEF AloneOK

\* A step that brings no identity of a scan into the store, and no handler to an entry.
LEMMA QuietScans ==
    ASSUME HandlersOK, ScansOK, HeapGrows, StoreKeeps, scansMet' = scansMet,
           \A g \in Handlers :
               \/ /\ req'[g] = req[g]
                  /\ pc'[g] = "create" => pc[g] = "create"
                  /\ pc'[g] \in Holding => pc[g] \in Holding
               \/ pc'[g] \notin AtEntry /\ (req'[g].Entries # <<>> => req[g].Entries # <<>>)
    PROVE  ScansOK'
<1>1. ASSUME ~scansMet, NEW g \in Handlers PROVE AloneOK(g)'
    <2>1. CASE pc'[g] \notin AtEntry
        <3>1. pc'[g] # "create" /\ pc'[g] \notin Holding
            BY <2>1 DEF AtEntry
        <3> QED
            BY <3>1 DEF AloneOK
    <2>2. CASE pc'[g] \in AtEntry
        BY <1>1, <2>2, AloneKept DEF ScansOK
    <2> QED
        BY <2>1, <2>2
<1>2. ~scansMet => OneScan'
    <2>1. \A g \in Handlers : req'[g].Entries # <<>> => req[g].Entries # <<>>
        OBVIOUS
    <2> QED
        BY <2>1 DEF ScansOK, OneScan
<1>3. OneIdentityPerAccount'
    BY DEF ScansOK, OneIdentityPerAccount, StoreKeeps
<1> QED
    BY <1>1, <1>2, <1>3 DEF ScansOK

\* While no two scans have met, no other handler is at an entry than this one.
LEMMA AloneAtEntry ==
    ASSUME HandlersOK, ScansOK, ~scansMet, NEW h \in Handlers, pc[h] \in AtEntry
    PROVE  \A g \in Handlers : g # h => pc[g] \notin AtEntry
<1>1. ASSUME NEW g \in Handlers, pc[g] \in AtEntry PROVE req[g].Entries # <<>>
    <2>1. pc[g] \in Scanning
        BY <1>1 DEF Scanning
    <2>2. req[g].Next >= 1 /\ req[g].Next <= Len(req[g].Entries) /\ req[g] \in RequestType
        BY <1>1, <2>1 DEF HandlersOK, RequestOK
    <2>3. req[g].Next \in Nat
        BY SMTT(30), <2>2 DEF RequestType
    <2> QED
        BY SMTT(30), <2>2, <2>3
<1> QED
    BY <1>1 DEF ScansOK, OneScan

\* The request of a scan that goes on with the next entry.
LEMMA RequestFields ==
    ASSUME NEW q \in RequestType
    PROVE  /\ q.ID \in Nat /\ q.Next \in Nat /\ q.Record \in Nat /\ q.Written \in SUBSET Nat
           /\ q.Entries \in Seq(EntryType)
    BY SMTT(30) DEF RequestType

LEMMA EmptyRequest == NoRequest \in RequestType /\ NoRequest.Entries = <<>> /\ NoRequest.Next = 1
                      /\ NoRequest.Written = {}
    BY SMTT(30) DEF NoRequest, RequestType, None

ForID(q, id) == [q EXCEPT !.ID = id]
Read(q, e) == [q EXCEPT !.Entries = e]
Found(q, r) == [q EXCEPT !.Record = r]
NextAs(q, n) == [q EXCEPT !.Next = n]
Wrote(q, s) == [q EXCEPT !.Written = s]

LEMMA RequestForID ==
    ASSUME NEW q \in RequestType, NEW id \in Nat, NEW o, o = ForID(q, id)
    PROVE  o \in RequestType /\ o.Entries = q.Entries /\ o.ID = id
    BY SMTT(30) DEF RequestType, ForID
LEMMA RequestRead ==
    ASSUME NEW q \in RequestType, NEW e \in Seq(EntryType), NEW o, o = Read(q, e)
    PROVE  o \in RequestType /\ o.Entries = e /\ o.Next = q.Next /\ o.Written = q.Written
    BY SMTT(30) DEF RequestType, Read
LEMMA RequestFound ==
    ASSUME NEW q \in RequestType, NEW r, r \in Nat, NEW o, o = Found(q, r)
    PROVE  /\ o \in RequestType /\ o.Entries = q.Entries /\ o.Next = q.Next
           /\ o.Written = q.Written /\ o.Record = r
    BY SMTT(30) DEF RequestType, Found
LEMMA RequestNext ==
    ASSUME NEW q \in RequestType, NEW n, n \in Nat, NEW o, o = NextAs(q, n)
    PROVE  o \in RequestType /\ o.Entries = q.Entries /\ o.Next = n
    BY SMTT(30) DEF RequestType, NextAs
LEMMA RequestWrote ==
    ASSUME NEW q \in RequestType, NEW s \in SUBSET Nat, NEW o, o = Wrote(q, s)
    PROVE  o \in RequestType /\ o.Entries = q.Entries /\ o.Next = q.Next /\ o.Written = s
    BY SMTT(30) DEF RequestType, Wrote

Onward(q) == [q EXCEPT !.Next = q.Next + 1, !.Record = None, !.Written = q.Written \cup {q.Next}]

LEMMA OnwardRequest ==
    ASSUME NEW q \in RequestType, NEW o, o = Onward(q), NEW size \in Nat,
           q.Next >= 1, q.Next <= Len(q.Entries), q.Written = 1..(q.Next - 1)
    PROVE  o \in RequestType /\ o.Entries = q.Entries /\ RequestOK(o, "lookup", size)
<1>1. q.Next \in Nat /\ q.Written \in SUBSET Nat /\ q.Entries \in Seq(EntryType)
    BY RequestFields
<1>2. PICK n \in Nat : n = q.Next + 1
    BY SMTT(30), <1>1
<1>3. PICK s \in SUBSET Nat : s = q.Written \cup {q.Next}
    BY <1>1
<1>4. o \in RequestType /\ o.Entries = q.Entries /\ o.Next = n /\ o.Written = s
    <2>1. PICK r \in Nat : r = None
        BY SMTT(30) DEF None
    <2>2. PICK x : x = NextAs(q, n)
        OBVIOUS
    <2>3. PICK y : y = Found(x, r)
        OBVIOUS
    <2>4. o = Wrote(y, s)
        BY SMTT(30), <1>2, <1>3, <2>1, <2>2, <2>3 DEF Onward, NextAs, Found, Wrote
    <2>5. x \in RequestType /\ x.Entries = q.Entries /\ x.Next = n
        BY SMTT(30), <2>2, RequestNext
    <2>6. x \in RequestType
        BY <2>5
    <2>7. y \in RequestType /\ y.Entries = x.Entries /\ y.Next = x.Next
        BY SMTT(30), <2>1, <2>3, <2>6, RequestFound
    <2>8. y \in RequestType
        BY <2>7
    <2>9. o \in RequestType /\ o.Entries = y.Entries /\ o.Next = y.Next /\ o.Written = s
        BY <2>4, <2>8, RequestWrote
    <2> QED
        BY <2>5, <2>7, <2>9
<1>5. s = 1..(n - 1)
    BY SMTT(30), <1>1, <1>2, <1>3
<1>6. Len(q.Entries) \in Nat
    BY SMTT(30), <1>1
<1>7. n >= 1 /\ n <= Len(q.Entries) + 1
    BY SMTT(30), <1>1, <1>2, <1>6
<1>8. "lookup" \notin AtEntry /\ "lookup" \notin Holding /\ "lookup" # "idle" /\ "lookup" # "put"
    BY SMTT(30) DEF AtEntry, Holding
<1> QED
    BY <1>4, <1>5, <1>7, <1>8 DEF RequestOK

\* A step that leaves the records alone.
LEMMA HeapSame ==
    ASSUME heap \in Seq(RecordType), heap' = heap
    PROVE  HeapGrows
    BY SMTT(30) DEF HeapGrows

LEMMA NewIsFresh ==
    ASSUME StoreOK
    PROVE  /\ New \in Nat /\ New \notin deleted /\ New \notin DOMAIN store
           /\ Len(heap) \in Nat /\ New \notin 1..Len(heap)
<1>1. New \in Nat /\ Len(heap) \in Nat /\ New \notin 1..Len(heap)
    BY SMTT(30) DEF StoreOK, New
<1> QED
    BY <1>1 DEF StoreOK

\* What an API client sends makes a record.
LEMMA APIRecord ==
    ASSUME StoreOK, NEW b \in Bodies, NEW id \in Nat,
           NewRecord(id, b.Username, b.Type, b.Privileged, "api")
    PROVE  /\ HeapGrows /\ New \in 1..Len(heap')
           /\ heap'[New].ID = id /\ heap'[New].By = "api"
<1>1. PICK e : e = [ID |-> id, Username |-> b.Username, Type |-> b.Type, Privileged |-> b.Privileged,
                    By |-> "api"]
    OBVIOUS
<1>2. b.Username \in Names /\ b.Type \in Types /\ b.Privileged \in Marks
    BY DEF Names, Types, Marks
<1>3. e \in RecordType /\ e.ID = id /\ e.By = "api"
    BY SMTT(30), <1>1, <1>2, NewRecordType
<1>4. heap' = Append(heap, e)
    BY <1>1 DEF NewRecord
<1> QED
    BY <1>3, <1>4, HeapAppended DEF StoreOK

\* The store with a record of an API client under an ID, and otherwise as it was.
LEMMA APIStoreKeeps ==
    ASSUME StoreOK, HeapGrows, NEW id, NEW r, heap'[r].By = "api",
           DOMAIN store' = DOMAIN store \cup {id}, store'[id] = r,
           \A i \in DOMAIN store : i # id => store'[i] = store[i]
    PROVE  StoreKeeps
<1>1. ASSUME NEW i \in DOMAIN store', heap'[store'[i]].By = "scan"
      PROVE  /\ i \in DOMAIN store /\ heap[store[i]].By = "scan"
             /\ heap[store[i]].Username = heap'[store'[i]].Username
    <2>1. "api" # "scan"
        BY SMTT(30)
    <2>2. i # id
        BY <1>1, <2>1
    <2>3. i \in DOMAIN store /\ store'[i] = store[i] /\ store[i] \in 1..Len(heap)
        BY <2>2 DEF StoreOK
    <2> QED
        BY <1>1, <2>3 DEF HeapGrows
<1> QED
    BY <1>1 DEF StoreKeeps

LEMMA SameStoreKeeps ==
    ASSUME StoreOK, HeapGrows, store' = store
    PROVE  StoreKeeps
    BY DEF StoreOK, HeapGrows, StoreKeeps

LEMMA CreateKeeps ==
    ASSUME DirectoryInv, NEW h \in Handlers, NEW b \in Bodies, handleCreateIdentity(h, b)
    PROVE  DirectoryInv'
<1>1. /\ NewRecord(New, b.Username, b.Type, b.Privileged, "api") /\ store' = Put(New, New)
      /\ pc' = pc /\ req' = req /\ deleted' = deleted /\ reported' = reported /\ scansMet' = scansMet
    BY DEF handleCreateIdentity
<1>2. StoreOK /\ New \in Nat /\ New \notin deleted
    BY NewIsFresh DEF DirectoryInv
<1>3. HeapGrows /\ New \in 1..Len(heap') /\ heap'[New].ID = New /\ heap'[New].By = "api"
    BY <1>1, <1>2, APIRecord
<1>4. /\ StoreOK' /\ DOMAIN store' = DOMAIN store \cup {New} /\ store'[New] = New
      /\ \A i \in DOMAIN store : i # New => store'[i] = store[i]
    BY <1>1, <1>2, <1>3, StorePut
<1>5. StoreKeeps
    BY <1>2, <1>3, <1>4, APIStoreKeeps
<1>6. HandlersOK'
    BY <1>1, <1>2, <1>3, HandlersStay DEF DirectoryInv
<1>7. ScansOK'
    BY <1>1, <1>3, <1>5, QuietScans DEF DirectoryInv
<1>8. ReportedComplete'
    BY <1>1 DEF DirectoryInv, ReportedComplete
<1> QED
    BY <1>4, <1>6, <1>7, <1>8 DEF DirectoryInv

LEMMA DeleteKeeps ==
    ASSUME DirectoryInv, NEW h \in Handlers, NEW id \in DOMAIN store, handleDeleteIdentity(h, id)
    PROVE  DirectoryInv'
<1>1. /\ heap' = heap /\ store' = [i \in DOMAIN store \ {id} |-> store[i]]
      /\ pc' = pc /\ req' = req /\ deleted' = deleted \cup {id} /\ reported' = reported
      /\ scansMet' = scansMet /\ StoreOK
    BY DEF handleDeleteIdentity, DirectoryInv
<1>2. HeapGrows
    BY <1>1, HeapSame DEF StoreOK
<1>3. StoreOK'
    <2>1. id \in 1..Len(heap)
        BY <1>1 DEF StoreOK
    <2>2. NoResurrection'
        BY <1>1 DEF StoreOK, NoResurrection
    <2>3. store' \in [DOMAIN store' -> 1..Len(heap')]
        BY <1>1 DEF StoreOK
    <2> QED
        BY <1>1, <2>1, <2>2, <2>3 DEF StoreOK
<1>4. StoreKeeps
    BY <1>1 DEF StoreKeeps
<1>5. HandlersOK'
    BY <1>1, <1>2, HandlersStay DEF DirectoryInv
<1>6. ScansOK'
    BY <1>1, <1>2, <1>4, QuietScans DEF DirectoryInv
<1>7. ReportedComplete'
    BY <1>1 DEF DirectoryInv, ReportedComplete
<1> QED
    BY <1>3, <1>5, <1>6, <1>7 DEF DirectoryInv
\* A handler that leaves its entry, or never had one, brings nothing of a scan's into the store.
LEMMA QuietHandler ==
    ASSUME HandlersOK, ScansOK, HeapGrows, StoreKeeps, scansMet' = scansMet,
           NEW h \in Handlers, NEW l, l \notin AtEntry, NEW q, HandlerBecomes(h, l, q),
           q.Entries # <<>> => req[h].Entries # <<>>
    PROVE  ScansOK'
<1>1. pc'[h] = l /\ \A g \in Handlers : g # h => pc'[g] = pc[g]
    BY DEF HandlersOK, HandlerBecomes
<1>2. ASSUME NEW g \in Handlers
      PROVE  \/ /\ req'[g] = req[g]
                /\ pc'[g] = "create" => pc[g] = "create"
                /\ pc'[g] \in Holding => pc[g] \in Holding
             \/ pc'[g] \notin AtEntry /\ (req'[g].Entries # <<>> => req[g].Entries # <<>>)
    BY <1>1 DEF HandlerBecomes
<1> QED
    BY <1>2, QuietScans

LEMMA NotAtEntry ==
    /\ \A l \in {"idle", "put", "lookup"} : l \notin AtEntry /\ l \notin Holding /\ l \in Labels
    /\ "idle" \notin Scanning /\ "put" \notin Scanning
    BY SMTT(30) DEF AtEntry, Holding, Labels, Scanning

LEMMA DoneBecomes ==
    ASSUME HandlersOK, StoreOK, HeapGrows, NEW h \in Handlers, Done(h)
    PROVE  HandlersOK' /\ HandlerBecomes(h, "idle", NoRequest)
<1>1. HandlerBecomes(h, "idle", NoRequest)
    BY DEF Done, HandlerBecomes, HandlersOK
<1>2. "idle" # "put" /\ "idle" \in Labels
    BY SMTT(30), NotAtEntry
<1>3. RequestOK(NoRequest, "idle", Len(heap'))
    BY <1>2, NotAtEntry DEF RequestOK
<1> QED
    BY <1>1, <1>2, <1>3, HandlerKeeps, EmptyRequest

LEMMA UpdateGetKeeps ==
    ASSUME DirectoryInv, NEW h \in Handlers, NEW id \in DOMAIN store, UpdateGet(h, id)
    PROVE  DirectoryInv'
<1>1. /\ pc[h] = "idle" /\ pc' = [pc EXCEPT ![h] = "put"] /\ req' = [req EXCEPT ![h].ID = id]
      /\ heap' = heap /\ store' = store /\ deleted' = deleted /\ reported' = reported
      /\ scansMet' = scansMet
    BY DEF UpdateGet
<1>2. StoreOK /\ HandlersOK /\ ScansOK /\ req[h] = NoRequest
    BY <1>1 DEF DirectoryInv, HandlersOK, RequestOK
<1>3. HeapGrows /\ StoreOK' /\ StoreKeeps
    BY <1>1, <1>2, HeapSame, StoreSame, SameStoreKeeps DEF StoreOK
<1>4. id \in Nat
    BY SMTT(30), <1>2 DEF StoreOK
<1>5. PICK q : q = ForID(NoRequest, id)
    OBVIOUS
<1>6. q \in RequestType /\ q.Entries = NoRequest.Entries
    BY <1>4, <1>5, EmptyRequest, RequestForID
<1>7. HandlerBecomes(h, "put", q)
    BY <1>1, <1>2, <1>5 DEF HandlerBecomes, HandlersOK, ForID
<1>8. "put" # "idle" /\ "put" \in Labels /\ "put" \notin AtEntry /\ "put" \notin Holding
    BY SMTT(30), NotAtEntry
<1>9. RequestOK(q, "put", Len(heap')) /\ q.Entries = <<>>
    BY <1>6, <1>8, NotAtEntry, EmptyRequest DEF RequestOK
<1>10. HandlersOK'
    BY <1>2, <1>3, <1>6, <1>7, <1>8, <1>9, HandlerKeeps
<1>11. ScansOK'
    BY <1>1, <1>2, <1>3, <1>7, <1>8, <1>9, QuietHandler
<1>12. ReportedComplete'
    BY <1>1 DEF DirectoryInv, ReportedComplete
<1> QED
    BY <1>3, <1>10, <1>11, <1>12 DEF DirectoryInv

LEMMA UpdatePutKeeps ==
    ASSUME DirectoryInv, NEW h \in Handlers, NEW b \in Bodies, UpdatePut(h, b)
    PROVE  DirectoryInv'
<1> DEFINE id == req[h].ID
<1>1. /\ NewRecord(id, b.Username, b.Type, b.Privileged, "api") /\ Done(h)
      /\ store' = IF id \in DOMAIN store THEN Put(id, New) ELSE store
      /\ deleted' = deleted /\ reported' = reported /\ scansMet' = scansMet
    BY DEF UpdatePut, StoreUpdate
<1>2. StoreOK /\ HandlersOK /\ ScansOK /\ req[h] \in RequestType
    BY DEF DirectoryInv, HandlersOK
<1>3. id \in Nat
    BY <1>2, RequestFields
<1>4. HeapGrows /\ New \in 1..Len(heap') /\ heap'[New].ID = id /\ heap'[New].By = "api"
    BY <1>1, <1>2, <1>3, APIRecord
<1>5. StoreOK' /\ StoreKeeps
    <2>1. CASE id \notin DOMAIN store
        BY <1>1, <1>2, <1>4, <2>1, StoreSame, SameStoreKeeps
    <2>2. CASE id \in DOMAIN store
        <3>1. id \notin deleted /\ id \in 1..Len(heap)
            BY <1>2, <2>2 DEF StoreOK, NoResurrection
        <3>2. id \in 1..Len(heap')
            BY SMTT(30), <1>2, <1>4, <3>1 DEF HeapGrows, StoreOK
        <3>3. store' = Put(id, New)
            BY <1>1, <2>2
        <3>4. /\ StoreOK' /\ DOMAIN store' = DOMAIN store \cup {id} /\ store'[id] = New
              /\ \A i \in DOMAIN store : i # id => store'[i] = store[i]
            BY <1>1, <1>2, <1>4, <3>1, <3>2, <3>3, StorePut
        <3> QED
            BY <1>2, <1>4, <3>4, APIStoreKeeps
    <2> QED
        BY <2>1, <2>2
<1>6. HandlersOK' /\ HandlerBecomes(h, "idle", NoRequest)
    BY <1>1, <1>2, <1>4, DoneBecomes
<1>7. ScansOK'
    <2>1. "idle" \notin AtEntry
        BY NotAtEntry
    <2> QED
        BY <1>1, <1>2, <1>4, <1>5, <1>6, <2>1, QuietHandler, EmptyRequest
<1>8. ReportedComplete'
    BY <1>1 DEF DirectoryInv, ReportedComplete
<1> QED
    BY <1>5, <1>6, <1>7, <1>8 DEF DirectoryInv
\* What a scan reads of an account.
LEMMA EntryRead ==
    ASSUME NEW e \in Accounts
    PROVE  parseEntry(e) \in EntryType
<1>1. e.name \in STRING /\ e.computer \in BOOLEAN /\ e.idle \in Int
    BY SMTT(30) DEF Accounts
<1>2. (e.spn \/ e.gmsa) \in BOOLEAN /\ isPrivilegedEntry(e) \in BOOLEAN
      /\ (uacAccountDisable \notin e.uac) \in BOOLEAN
    BY DEF isPrivilegedEntry
<1> QED
    BY <1>1, <1>2 DEF parseEntry, EntryType

LEMMA EntriesRead ==
    ASSUME ad \in [SIDs -> Accounts]
    PROVE  [i \in DOMAIN ad |-> parseEntry(ad[i])] \in Seq(EntryType)
<1>1. PICK n \in Nat : DOMAIN ad = 1..n
    BY SMTT(30), AccountsAssumption DEF SIDs
<1>2. [i \in DOMAIN ad |-> parseEntry(ad[i])] \in [1..n -> EntryType]
    BY <1>1, EntryRead
<1> QED
    BY SMTT(30), <1>2

LEMMA ScanFetchKeeps ==
    ASSUME DirectoryInv, ad \in [SIDs -> Accounts], NEW h \in Handlers, ScanFetch(h)
    PROVE  DirectoryInv'
<1>1. PICK e \in Seq(EntryType) : e = [i \in DOMAIN ad |-> parseEntry(ad[i])]
    BY EntriesRead
<1>2. /\ pc[h] = "idle" /\ pc' = [pc EXCEPT ![h] = "lookup"] /\ req' = [req EXCEPT ![h].Entries = e]
      /\ scansMet' = (scansMet \/ \E g \in Handlers : req[g].Entries # <<>>)
      /\ heap' = heap /\ store' = store /\ deleted' = deleted /\ reported' = reported
    BY <1>1 DEF ScanFetch
<1>3. StoreOK /\ HandlersOK /\ ScansOK /\ req[h] = NoRequest
    BY <1>2 DEF DirectoryInv, HandlersOK, RequestOK
<1>4. HeapGrows /\ StoreOK' /\ StoreKeeps
    BY <1>2, <1>3, HeapSame, StoreSame, SameStoreKeeps DEF StoreOK
<1>5. PICK q : q = Read(NoRequest, e)
    OBVIOUS
<1>6. q \in RequestType /\ q.Entries = e /\ q.Next = 1 /\ q.Written = {}
    BY <1>5, EmptyRequest, RequestRead
<1>7. HandlerBecomes(h, "lookup", q)
    BY <1>2, <1>3, <1>5 DEF HandlerBecomes, HandlersOK, Read
<1>8. "lookup" # "idle" /\ "lookup" # "put"
    BY SMTT(30)
<1>9. q.Next >= 1 /\ q.Next <= Len(q.Entries) + 1 /\ q.Written = 1..(q.Next - 1)
    BY SMTT(30), <1>6
<1>10. RequestOK(q, "lookup", Len(heap'))
    BY <1>8, <1>9, NotAtEntry DEF RequestOK
<1>11. HandlersOK'
    BY <1>3, <1>4, <1>6, <1>7, <1>10, NotAtEntry, HandlerKeeps
<1>12. ASSUME ~scansMet' PROVE OneScan' /\ \A g \in Handlers : AloneOK(g)'
    <2>1. ~scansMet /\ \A g \in Handlers : req[g].Entries = <<>>
        BY <1>2, <1>12
    <2>2. OneScan'
        BY <1>7, <2>1 DEF OneScan, HandlerBecomes
    <2>3. AloneOK(h)'
        <3>1. pc'[h] = "lookup"
            BY <1>3, <1>7 DEF HandlersOK, HandlerBecomes
        <3>2. "lookup" # "create" /\ "lookup" \notin Holding
            BY SMTT(30) DEF Holding
        <3> QED
            BY <3>1, <3>2 DEF AloneOK
    <2>4. ASSUME NEW g \in Handlers, g # h PROVE AloneOK(g)'
        <3>1. AloneOK(g) /\ req'[g] = req[g] /\ pc'[g] = pc[g]
            BY <1>3, <1>7, <2>1, <2>4 DEF ScansOK, HandlersOK, HandlerBecomes
        <3> QED
            BY <1>3, <1>4, <3>1, AloneKept
    <2> QED
        BY <2>2, <2>3, <2>4
<1>13. OneIdentityPerAccount'
    BY <1>2, <1>3 DEF ScansOK, OneIdentityPerAccount
<1>14. ReportedComplete'
    BY <1>2 DEF DirectoryInv, ReportedComplete
<1> QED
    BY <1>4, <1>11, <1>12, <1>13, <1>14 DEF DirectoryInv, ScansOK

\* GetByUsername: no record of a scan has the name when nothing was found, and none but the
\* one that was found otherwise.
LEMMA ScanLookupKeeps ==
    ASSUME DirectoryInv, NEW h \in Handlers, ScanLookup(h)
    PROVE  DirectoryInv'
<1> DEFINE found == {id \in DOMAIN store : heap[store[id]].Username = Entry(h).SamAccountName}
<1>1. /\ pc[h] = "lookup" /\ req[h].Next <= Len(req[h].Entries)
      /\ heap' = heap /\ store' = store /\ deleted' = deleted /\ reported' = reported
      /\ scansMet' = scansMet
    BY DEF ScanLookup
<1>2. StoreOK /\ HandlersOK /\ ScansOK
    BY DEF DirectoryInv
<1>3. HeapGrows /\ StoreOK' /\ StoreKeeps
    BY <1>1, <1>2, HeapSame, StoreSame, SameStoreKeeps DEF StoreOK
<1>4. /\ req[h] \in RequestType /\ req[h].Next >= 1 /\ req[h].Next <= Len(req[h].Entries) + 1
      /\ req[h].Written = 1..(req[h].Next - 1)
    <2>1. "lookup" \in Scanning
        BY DEF Scanning
    <2> QED
        BY <1>1, <1>2, <2>1 DEF HandlersOK, RequestOK
<1>5. ReportedComplete' /\ OneIdentityPerAccount'
    BY <1>1, <1>2 DEF DirectoryInv, ReportedComplete, ScansOK, OneIdentityPerAccount
<1>6. ASSUME NEW l \in AtEntry, NEW q \in RequestType, HandlerBecomes(h, l, q),
             RequestOK(q, l, Len(heap')), q.Entries = req[h].Entries, ~scansMet => AloneOK(h)'
      PROVE  DirectoryInv'
    <2>1. l \in Labels
        BY DEF Labels, Scanning
    <2>2. HandlersOK'
        BY <1>2, <1>3, <1>6, <2>1, HandlerKeeps
    <2>3. ~scansMet => OneScan'
        BY <1>2, <1>6 DEF ScansOK, OneScan, HandlerBecomes
    <2>4. ASSUME ~scansMet, NEW g \in Handlers, g # h PROVE AloneOK(g)'
        <3>1. AloneOK(g) /\ req'[g] = req[g] /\ pc'[g] = pc[g]
            BY <1>2, <1>6, <2>4 DEF ScansOK, HandlersOK, HandlerBecomes
        <3> QED
            BY <1>2, <1>3, <3>1, AloneKept
    <2> QED
        BY <1>1, <1>3, <1>5, <1>6, <2>2, <2>3, <2>4 DEF DirectoryInv, ScansOK
<1>7. CASE found = {} /\ pc' = [pc EXCEPT ![h] = "create"] /\ req' = req
    <2>1. HandlerBecomes(h, "create", req[h])
        BY <1>2, <1>7 DEF HandlerBecomes, HandlersOK
    <2>2. "create" # "idle" /\ "create" # "put" /\ "create" \notin Holding /\ "create" \in AtEntry
        BY SMTT(30) DEF Holding, AtEntry
    <2>3. RequestOK(req[h], "create", Len(heap'))
        BY <1>1, <1>4, <2>2 DEF RequestOK
    <2>4. pc'[h] = "create"
        BY <1>2, <1>7 DEF HandlersOK
    <2>5. \A i \in DOMAIN store' : ~ScannedAs(i, Entry(h).SamAccountName)'
        BY <1>1, <1>7 DEF ScannedAs, Entry
    <2>6. AloneOK(h)'
        BY <2>2, <2>4, <2>5 DEF AloneOK
    <2> QED
        BY <1>4, <1>6, <2>1, <2>2, <2>3, <2>6
<1>8. ASSUME NEW id \in found, pc' = [pc EXCEPT ![h] = "fields"], req' = [req EXCEPT ![h].Record = store[id]]
      PROVE  DirectoryInv'
    <2>1. /\ id \in DOMAIN store /\ heap[store[id]].ID = id /\ store[id] \in 1..Len(heap)
        BY <1>2 DEF StoreOK
    <2>2. PICK r \in Nat : r = store[id]
        BY SMTT(30), <2>1
    <2>3. PICK q : q = Found(req[h], r)
        OBVIOUS
    <2>4. /\ q \in RequestType /\ q.Entries = req[h].Entries /\ q.Next = req[h].Next
          /\ q.Written = req[h].Written /\ q.Record = r
        <3>1. req[h] \in RequestType
            BY <1>4
        <3> QED
            BY SMTT(30), <2>2, <2>3, <3>1, RequestFound
    <2>5. HandlerBecomes(h, "fields", q)
        BY <1>2, <1>8, <2>2, <2>3 DEF HandlerBecomes, HandlersOK, Found
    <2>6. "fields" # "idle" /\ "fields" # "put" /\ "fields" # "create" /\ "fields" \in AtEntry
        BY SMTT(30) DEF Holding, AtEntry
    <2>7. RequestOK(q, "fields", Len(heap'))
        BY <1>1, <1>4, <2>1, <2>2, <2>4, <2>6 DEF RequestOK
    <2>8. pc'[h] = "fields" /\ req'[h] = q
        BY <1>2, <1>8, <2>5 DEF HandlersOK, HandlerBecomes
    <2>9. ASSUME ~scansMet, heap[r].By = "scan", NEW i \in DOMAIN store, ScannedAs(i, heap[r].Username)
          PROVE  i = heap[r].ID
        BY <1>2, <2>1, <2>2, <2>9 DEF ScansOK, OneIdentityPerAccount, ScannedAs
    <2>10. ~scansMet => AloneOK(h)'
        <3>1. Record(h)' = heap[r] /\ \A i, n : ScannedAs(i, n)' = ScannedAs(i, n)
            BY <1>1, <2>4, <2>8 DEF Record, ScannedAs
        <3> QED
            BY <1>1, <2>6, <2>8, <2>9, <3>1 DEF AloneOK, ScannedAs
    <2> QED
        BY <1>6, <2>4, <2>5, <2>6, <2>7, <2>10
<1> QED
    BY <1>7, <1>8 DEF ScanLookup
\* The entry at hand, and what is written of it.
LEMMA EntryAtHand ==
    ASSUME HandlersOK, NEW h \in Handlers, pc[h] \in AtEntry
    PROVE  /\ req[h] \in RequestType /\ req[h].Next >= 1 /\ req[h].Next <= Len(req[h].Entries)
           /\ req[h].Written = 1..(req[h].Next - 1)
           /\ Entry(h).SamAccountName \in Names /\ identityType(Entry(h)) \in Types
           /\ Entry(h).IsPrivileged \in Marks
<1>1. /\ req[h] \in RequestType /\ req[h].Next >= 1 /\ req[h].Next <= Len(req[h].Entries)
      /\ req[h].Written = 1..(req[h].Next - 1)
    BY DEF HandlersOK, RequestOK, Scanning
<1>2. req[h].Entries \in Seq(EntryType) /\ req[h].Next \in Nat
    BY <1>1, RequestFields
<1>3. Entry(h) \in EntryType
    BY SMTT(30), <1>1, <1>2 DEF Entry
<1>4. Entry(h).SamAccountName \in STRING /\ Entry(h).IsPrivileged \in BOOLEAN
    BY SMTT(30), <1>3 DEF EntryType
<1>5. Entry(h).SamAccountName \in Names /\ Entry(h).IsPrivileged \in Marks
    BY <1>4 DEF Names, Marks
<1>6. identityType(Entry(h)) \in Types
    BY DEF identityType, Types
<1> QED
    BY <1>1, <1>5, <1>6

\* The scan goes on with the next entry, or ends.
LEMMA NextEntryBecomes ==
    ASSUME HandlersOK, StoreOK, HeapGrows, NEW h \in Handlers, pc[h] \in AtEntry, NextEntry(h)
    PROVE  HandlersOK' /\ pc'[h] = "lookup" /\ req'[h].Entries = req[h].Entries
           /\ \A g \in Handlers : g # h => pc'[g] = pc[g] /\ req'[g] = req[g]
<1>1. PICK q : q = Onward(req[h])
    OBVIOUS
<1>2. HandlerBecomes(h, "lookup", q)
    BY <1>1 DEF NextEntry, HandlerBecomes, HandlersOK, Onward
<1>3. Len(heap') \in Nat
    BY SMTT(30) DEF HeapGrows
<1>4. /\ req[h] \in RequestType /\ req[h].Next >= 1 /\ req[h].Next <= Len(req[h].Entries)
      /\ req[h].Written = 1..(req[h].Next - 1)
    BY EntryAtHand
<1>5. q \in RequestType /\ q.Entries = req[h].Entries /\ RequestOK(q, "lookup", Len(heap'))
    BY <1>1, <1>3, <1>4, OnwardRequest
<1>6. HandlersOK'
    BY <1>2, <1>5, NotAtEntry, HandlerKeeps
<1> QED
    BY <1>2, <1>5, <1>6 DEF HandlersOK, HandlerBecomes

\* The scan of the only handler at an entry leaves it: the others have none.
LEMMA LeavesEntry ==
    ASSUME HandlersOK, ScansOK, ~scansMet, NEW h \in Handlers, pc[h] \in AtEntry,
           pc'[h] \in {"lookup", "idle"}, req'[h].Entries # <<>> => req[h].Entries # <<>>,
           \A g \in Handlers : g # h => pc'[g] = pc[g] /\ req'[g] = req[g]
    PROVE  OneScan' /\ \A g \in Handlers : AloneOK(g)'
<1>1. OneScan'
    BY DEF ScansOK, OneScan
<1>2. \A g \in Handlers : pc'[g] \notin AtEntry
    BY AloneAtEntry, NotAtEntry
<1>3. \A g \in Handlers : AloneOK(g)'
    BY <1>2 DEF AloneOK, AtEntry
<1> QED
    BY <1>1, <1>3

LEMMA ScanCreateKeeps ==
    ASSUME DirectoryInv, NEW h \in Handlers, ScanCreate(h)
    PROVE  DirectoryInv'
<1>1. /\ pc[h] = "create" /\ store' = Put(New, New) /\ NextEntry(h)
      /\ NewRecord(New, Entry(h).SamAccountName, identityType(Entry(h)), Entry(h).IsPrivileged, "scan")
      /\ deleted' = deleted /\ reported' = reported /\ scansMet' = scansMet
    BY DEF ScanCreate
<1>2. StoreOK /\ HandlersOK /\ ScansOK /\ New \in Nat /\ New \notin deleted /\ pc[h] \in AtEntry
    BY <1>1, NewIsFresh DEF DirectoryInv, AtEntry
<1>3. PICK n \in Names, t \in Types, m \in Marks :
          n = Entry(h).SamAccountName /\ t = identityType(Entry(h)) /\ m = Entry(h).IsPrivileged
    BY <1>2, EntryAtHand
<1>4. PICK e : e = [ID |-> New, Username |-> n, Type |-> t, Privileged |-> m, By |-> "scan"]
    OBVIOUS
<1>5. e \in RecordType /\ e.ID = New /\ e.Username = n /\ e.By = "scan"
    BY SMTT(30), <1>2, <1>4, NewRecordType
<1>6. heap' = Append(heap, e)
    BY <1>1, <1>3, <1>4 DEF NewRecord
<1>7. HeapGrows /\ New \in 1..Len(heap') /\ heap'[New] = e
    BY <1>2, <1>5, <1>6, HeapAppended DEF StoreOK
<1>8. /\ StoreOK' /\ DOMAIN store' = DOMAIN store \cup {New} /\ store'[New] = New
      /\ \A i \in DOMAIN store : i # New => store'[i] = store[i]
    BY <1>1, <1>2, <1>5, <1>7, StorePut
<1>9. /\ HandlersOK' /\ pc'[h] = "lookup" /\ req'[h].Entries = req[h].Entries
      /\ \A g \in Handlers : g # h => pc'[g] = pc[g] /\ req'[g] = req[g]
    BY <1>1, <1>2, <1>7, NextEntryBecomes
<1>10. ~scansMet => OneScan' /\ \A g \in Handlers : AloneOK(g)'
    BY <1>2, <1>9, LeavesEntry
<1>11. OneIdentityPerAccount'
    <2>1. ASSUME ~scansMet, NEW i \in DOMAIN store' , NEW j \in DOMAIN store',
                 heap'[store'[i]].By = "scan", heap'[store'[j]].By = "scan",
                 heap'[store'[i]].Username = heap'[store'[j]].Username
          PROVE  i = j
        <3>1. \A k \in DOMAIN store : k # New => heap'[store'[k]].By = heap[store[k]].By
                                      /\ heap'[store'[k]].Username = heap[store[k]].Username
            BY <1>2, <1>7, <1>8 DEF StoreOK, HeapGrows
        <3>2. heap'[store'[New]].Username = n
            BY <1>5, <1>7, <1>8
        <3>3. \A k \in DOMAIN store : ~(heap[store[k]].By = "scan" /\ heap[store[k]].Username = n)
            BY <1>1, <1>2, <1>3, <2>1 DEF ScansOK, AloneOK, ScannedAs
        <3>4. CASE i # New /\ j # New
            BY <1>2, <1>8, <2>1, <3>1, <3>4 DEF ScansOK, OneIdentityPerAccount
        <3>5. CASE i = New /\ j # New
            BY <1>8, <2>1, <3>1, <3>2, <3>3, <3>5
        <3>6. CASE i # New /\ j = New
            BY <1>8, <2>1, <3>1, <3>2, <3>3, <3>6
        <3> QED
            BY <3>4, <3>5, <3>6
    <2> QED
        BY <1>1, <2>1 DEF OneIdentityPerAccount
<1>12. ReportedComplete'
    BY <1>1 DEF DirectoryInv, ReportedComplete
<1> QED
    BY <1>1, <1>8, <1>9, <1>10, <1>11, <1>12 DEF DirectoryInv, ScansOK
\* A scan writes into the record that it holds, wherever that is by now.
LEMMA WriteKeeps ==
    ASSUME DirectoryInv, NEW h \in Handlers, pc[h] \in {"fields", "attributes"},
           NEW l \in {"attributes", "store"}, pc' = [pc EXCEPT ![h] = l], req' = req,
           NEW e \in RecordType, heap' = [heap EXCEPT ![req[h].Record] = e],
           e.ID = Record(h).ID, e.Username = Record(h).Username, e.By = Record(h).By,
           store' = store, deleted' = deleted, reported' = reported, scansMet' = scansMet
    PROVE  DirectoryInv'
<1>1. StoreOK /\ HandlersOK /\ ScansOK
    BY DEF DirectoryInv
<1>2. pc[h] \in Holding /\ l \in Holding /\ pc[h] \in Scanning /\ pc[h] \in AtEntry /\ l \in Labels
    BY DEF Holding, Labels, Scanning, AtEntry
<1>3. req[h].Record \in 1..Len(heap) /\ req[h] \in RequestType
    BY <1>1, <1>2 DEF HandlersOK, RequestOK
<1>4. HeapGrows
    BY <1>1, <1>3, HeapWritten DEF StoreOK, Record
<1>5. StoreOK' /\ StoreKeeps
    BY <1>1, <1>4, StoreSame, SameStoreKeeps
<1>6. HandlersOK'
    <2>1. HandlerBecomes(h, l, req[h])
        BY <1>1 DEF HandlersOK, HandlerBecomes
    <2>2. req[h].Record \in 1..Len(heap')
        BY SMTT(30), <1>1, <1>3, <1>4 DEF StoreOK, HeapGrows
    <2>3. l # "idle" /\ l # "put"
        BY SMTT(30)
    <2>4. RequestOK(req[h], l, Len(heap'))
        BY <1>1, <1>2, <2>2, <2>3 DEF HandlersOK, RequestOK
    <2> QED
        BY <1>1, <1>2, <1>3, <1>4, <2>1, <2>4, HandlerKeeps
<1>7. ScansOK'
    <2>1. pc'[h] = l /\ l # "create" /\ \A g \in Handlers : g # h => pc'[g] = pc[g]
        <3>1. l # "create"
            BY SMTT(30)
        <3> QED
            BY <1>1, <3>1 DEF HandlersOK
    <2>2. \A g \in Handlers : /\ pc'[g] = "create" => pc[g] = "create"
                              /\ pc'[g] \in Holding => pc[g] \in Holding
        BY <1>2, <2>1
    <2> QED
        BY <1>1, <1>4, <1>5, <2>2, QuietScans
<1>8. ReportedComplete'
    BY DEF DirectoryInv, ReportedComplete
<1> QED
    BY <1>5, <1>6, <1>7, <1>8 DEF DirectoryInv

LEMMA ScanTypeKeeps ==
    ASSUME DirectoryInv, NEW h \in Handlers, ScanType(h)
    PROVE  DirectoryInv'
<1>1. /\ pc[h] = "fields" /\ heap' = [heap EXCEPT ![req[h].Record].Type = identityType(Entry(h))]
      /\ pc' = [pc EXCEPT ![h] = "attributes"] /\ req' = req /\ store' = store
      /\ deleted' = deleted /\ reported' = reported /\ scansMet' = scansMet
    BY DEF ScanType
<1>2. StoreOK /\ HandlersOK /\ pc[h] \in Holding /\ pc[h] \in AtEntry
    BY <1>1 DEF DirectoryInv, Holding, AtEntry
<1>3. req[h].Record \in 1..Len(heap)
    BY <1>2 DEF HandlersOK, RequestOK
<1>4. Record(h) \in RecordType
    BY SMTT(30), <1>2, <1>3 DEF StoreOK, Record
<1>5. PICK t \in Types : t = identityType(Entry(h))
    BY <1>2, EntryAtHand
<1>6. PICK e : e = WithType(Record(h), t)
    OBVIOUS
<1>7. /\ e \in RecordType /\ e.ID = Record(h).ID /\ e.Username = Record(h).Username
      /\ e.By = Record(h).By
    BY <1>4, <1>5, <1>6, TypeWritten
<1>8. heap' = [heap EXCEPT ![req[h].Record] = e]
    BY SMTT(30), <1>1, <1>5, <1>6 DEF Record, WithType
<1> QED
    BY <1>1, <1>7, <1>8, WriteKeeps

LEMMA ScanAttributesKeeps ==
    ASSUME DirectoryInv, NEW h \in Handlers, ScanAttributes(h)
    PROVE  DirectoryInv'
<1>1. /\ pc[h] = "attributes" /\ heap' = [heap EXCEPT ![req[h].Record].Privileged = Entry(h).IsPrivileged]
      /\ pc' = [pc EXCEPT ![h] = "store"] /\ req' = req /\ store' = store
      /\ deleted' = deleted /\ reported' = reported /\ scansMet' = scansMet
    BY DEF ScanAttributes
<1>2. StoreOK /\ HandlersOK /\ pc[h] \in Holding /\ pc[h] \in AtEntry
    BY <1>1 DEF DirectoryInv, Holding, AtEntry
<1>3. req[h].Record \in 1..Len(heap)
    BY <1>2 DEF HandlersOK, RequestOK
<1>4. Record(h) \in RecordType
    BY SMTT(30), <1>2, <1>3 DEF StoreOK, Record
<1>5. PICK m \in Marks : m = Entry(h).IsPrivileged
    BY <1>2, EntryAtHand
<1>6. PICK e : e = WithPrivileged(Record(h), m)
    OBVIOUS
<1>7. /\ e \in RecordType /\ e.ID = Record(h).ID /\ e.Username = Record(h).Username
      /\ e.By = Record(h).By
    BY <1>4, <1>5, <1>6, PrivilegedWritten
<1>8. heap' = [heap EXCEPT ![req[h].Record] = e]
    BY SMTT(30), <1>1, <1>5, <1>6 DEF Record, WithPrivileged
<1> QED
    BY <1>1, <1>7, <1>8, WriteKeeps

\* The record takes the place of the identity that has its ID by now, if there is one.
LEMMA ScanStoreKeeps ==
    ASSUME DirectoryInv, NEW h \in Handlers, ScanStore(h)
    PROVE  DirectoryInv'
<1> DEFINE id == Record(h).ID
           r == req[h].Record
<1>1. /\ pc[h] = "store" /\ store' = IF id \in DOMAIN store THEN Put(id, r) ELSE store
      /\ IF id \in DOMAIN store THEN NextEntry(h) ELSE Done(h)
      /\ heap' = heap /\ deleted' = deleted /\ reported' = reported /\ scansMet' = scansMet
    BY DEF ScanStore, StoreUpdate
<1>2. StoreOK /\ HandlersOK /\ ScansOK /\ pc[h] \in Holding /\ pc[h] \in AtEntry
    BY <1>1 DEF DirectoryInv, Holding, AtEntry
<1>3. HeapGrows /\ r \in 1..Len(heap)
    BY <1>1, <1>2, HeapSame DEF StoreOK, HandlersOK, RequestOK
<1>4. ReportedComplete'
    BY <1>1 DEF DirectoryInv, ReportedComplete
<1>5. CASE id \notin DOMAIN store
    <2>1. store' = store /\ Done(h)
        BY <1>1, <1>5
    <2>2. StoreOK' /\ StoreKeeps
        BY <1>1, <1>2, <1>3, <2>1, StoreSame, SameStoreKeeps
    <2>3. HandlersOK' /\ HandlerBecomes(h, "idle", NoRequest)
        BY <1>2, <1>3, <2>1, DoneBecomes
    <2>4. "idle" \notin AtEntry
        BY NotAtEntry
    <2>5. ScansOK'
        BY <1>1, <1>2, <1>3, <2>2, <2>3, <2>4, QuietHandler, EmptyRequest
    <2> QED
        BY <1>4, <2>2, <2>3, <2>5 DEF DirectoryInv
<1>6. CASE id \in DOMAIN store
    <2>1. id \in 1..Len(heap) /\ id \notin deleted
        BY <1>2, <1>6 DEF StoreOK, NoResurrection
    <2>2. store' = Put(id, r) /\ NextEntry(h)
        BY <1>1, <1>6
    <2>3. heap'[r].ID = id
        BY <1>1 DEF Record
    <2>4. /\ StoreOK' /\ DOMAIN store' = DOMAIN store \cup {id} /\ store'[id] = r
          /\ \A i \in DOMAIN store : i # id => store'[i] = store[i]
        BY <1>1, <1>2, <1>3, <2>1, <2>2, <2>3, StorePut
    <2>5. /\ HandlersOK' /\ pc'[h] = "lookup" /\ req'[h].Entries = req[h].Entries
          /\ \A g \in Handlers : g # h => pc'[g] = pc[g] /\ req'[g] = req[g]
        BY <1>2, <1>3, <2>2, NextEntryBecomes
    <2>6. ~scansMet => OneScan' /\ \A g \in Handlers : AloneOK(g)'
        BY <1>2, <2>5, LeavesEntry
    <2>7. OneIdentityPerAccount'
        <3>1. ASSUME ~scansMet, NEW i \in DOMAIN store, heap[store[i]].By = "scan",
                     heap[r].By = "scan", heap[store[i]].Username = heap[r].Username
              PROVE  i = id
            BY <1>2, <3>1 DEF ScansOK, AloneOK, ScannedAs, Record
        <3>2. ASSUME ~scansMet, NEW i \in DOMAIN store, NEW j \in DOMAIN store,
                     heap[store'[i]].By = "scan", heap[store'[j]].By = "scan",
                     heap[store'[i]].Username = heap[store'[j]].Username
              PROVE  i = j
            <4>1. CASE i # id /\ j # id
                <5>1. store'[i] = store[i] /\ store'[j] = store[j]
                    BY <2>4, <4>1
                <5> QED
                    BY <1>2, <3>2, <5>1 DEF ScansOK, OneIdentityPerAccount
            <4>2. CASE i = id /\ j # id
                BY <2>4, <3>1, <3>2, <4>2
            <4>3. CASE i # id /\ j = id
                BY <2>4, <3>1, <3>2, <4>3
            <4> QED
                BY <4>1, <4>2, <4>3
        <3>3. DOMAIN store' = DOMAIN store
            BY <1>6, <2>4
        <3> QED
            BY <1>1, <3>2, <3>3 DEF OneIdentityPerAccount
    <2> QED
        BY <1>1, <1>4, <2>4, <2>5, <2>6, <2>7 DEF DirectoryInv, ScansOK
<1> QED
    BY <1>5, <1>6

\* The summary is audited when no entry is left: every entry was written.
LEMMA ScanReportKeeps ==
    ASSUME DirectoryInv, NEW h \in Handlers, ScanReport(h)
    PROVE  DirectoryInv'
<1> DEFINE q == req[h]
<1>1. /\ pc[h] = "lookup" /\ q.Next > Len(q.Entries) /\ Done(h)
      /\ reported' = reported \cup
            {[summary |-> summarize(q.Entries), read |-> Len(q.Entries), written |-> q.Written]}
      /\ heap' = heap /\ store' = store /\ deleted' = deleted /\ scansMet' = scansMet
    BY DEF ScanReport
<1>2. StoreOK /\ HandlersOK /\ ScansOK
    BY DEF DirectoryInv
<1>3. HeapGrows /\ StoreOK' /\ StoreKeeps
    BY <1>1, <1>2, HeapSame, StoreSame, SameStoreKeeps DEF StoreOK
<1>4. HandlersOK' /\ HandlerBecomes(h, "idle", NoRequest)
    BY <1>1, <1>2, <1>3, DoneBecomes
<1>5. "idle" \notin AtEntry
    BY NotAtEntry
<1>6. ScansOK'
    BY <1>1, <1>2, <1>3, <1>4, <1>5, QuietHandler, EmptyRequest
<1>7. q \in RequestType /\ q.Next <= Len(q.Entries) + 1 /\ q.Written = 1..(q.Next - 1)
    <2>1. "lookup" \in Scanning
        BY DEF Scanning
    <2> QED
        BY <1>1, <1>2, <2>1 DEF HandlersOK, RequestOK
<1>8. q.Entries \in Seq(EntryType) /\ q.Next \in Nat
    BY <1>7, RequestFields
<1>9. q.Written = 1..Len(q.Entries)
    <2>1. q.Next - 1 = Len(q.Entries)
        BY SMTT(30), <1>1, <1>7, <1>8
    <2> QED
        BY <1>7, <2>1
<1>10. ASSUME NEW x, x = [summary |-> summarize(q.Entries), read |-> Len(q.Entries), written |-> q.Written]
       PROVE  x.written = 1..x.read
    <2>1. x.read = Len(q.Entries) /\ x.written = q.Written
        BY <1>10
    <2> QED
        BY <1>9, <2>1
<1>11. ReportedComplete'
    BY <1>1, <1>10 DEF DirectoryInv, ReportedComplete
<1> QED
    BY <1>3, <1>4, <1>6, <1>11 DEF DirectoryInv
\* The process ends: the store is empty, and so are the handlers' hands.
LEMMA FatalKeeps ==
    ASSUME DirectoryInv, NEW h \in Handlers, FatalMapAccess(h)
    PROVE  DirectoryInv'
<1>1. /\ store' = <<>> /\ heap' = heap /\ deleted' = deleted /\ reported' = reported
      /\ pc' = [g \in Handlers |-> "idle"] /\ req' = [g \in Handlers |-> NoRequest]
      /\ scansMet' = scansMet
    BY DEF FatalMapAccess
<1>2. StoreOK /\ HandlersOK /\ ScansOK
    BY DEF DirectoryInv
<1>3. DOMAIN store' = {}
    BY SMTT(30), <1>1
<1>4. HeapGrows
    BY <1>1, <1>2, HeapSame DEF StoreOK
<1>5. StoreOK'
    <2>1. store' \in [DOMAIN store' -> 1..Len(heap')]
        BY SMTT(30), <1>1
    <2> QED
        BY <1>1, <1>2, <1>3, <2>1 DEF StoreOK, NoResurrection
<1>6. HandlersOK'
    <2>1. "idle" # "put" /\ "idle" \in Labels
        BY SMTT(30), NotAtEntry
    <2>2. RequestOK(NoRequest, "idle", Len(heap'))
        BY <2>1, NotAtEntry DEF RequestOK
    <2> QED
        BY <1>1, <2>1, <2>2, EmptyRequest DEF HandlersOK
<1>7. ScansOK'
    <2>1. StoreKeeps
        BY <1>3 DEF StoreKeeps
    <2>2. \A g \in Handlers : pc'[g] \notin AtEntry /\ (req'[g].Entries # <<>> => req[g].Entries # <<>>)
        BY <1>1, NotAtEntry, EmptyRequest
    <2> QED
        BY <1>1, <1>2, <1>4, <2>1, <2>2, QuietScans
<1>8. ReportedComplete'
    BY <1>1 DEF DirectoryInv, ReportedComplete
<1> QED
    BY <1>5, <1>6, <1>7, <1>8 DEF DirectoryInv

\* Every step of the core keeps the invariant of the identities.
LEMMA DirectoryStep ==
    ASSUME DirectoryInv, ad \in [SIDs -> Accounts],
           \/ DirectoryNext
           \/ \E h \in Handlers : FatalMapAccess(h)
           \/ UNCHANGED <<heap, store, pc, req, deleted, reported, scansMet>>
    PROVE  DirectoryInv'
<1>1. CASE UNCHANGED <<heap, store, pc, req, deleted, reported, scansMet>>
    BY <1>1 DEF DirectoryInv, StoreOK, HandlersOK, ReportedComplete, ScansOK, OneScan, AloneOK,
                OneIdentityPerAccount, NoResurrection, ScannedAs, Entry, Record
<1>2. CASE DirectoryNext
    BY <1>2, CreateKeeps, UpdatePutKeeps, DeleteKeeps, UpdateGetKeeps, ScanFetchKeeps,
       ScanLookupKeeps, ScanCreateKeeps, ScanTypeKeeps, ScanAttributesKeeps, ScanStoreKeeps,
       ScanReportKeeps DEF DirectoryNext
<1> QED
    BY <1>1, <1>2, FatalKeeps
-----------------------------------------------------------------------------
(* What is proved.                                                          *)

\* The core and the response adapter start with nothing under way, over the accounts there are.
LEMMA InitIInv == Init => IInv
<1> SUFFICES ASSUME Init PROVE IInv
    OBVIOUS
<1>1. DirectoryInv
    <2>1. /\ heap = <<>> /\ store = <<>> /\ deleted = {} /\ reported = {}
          /\ pc = [h \in Handlers |-> "idle"] /\ req = [h \in Handlers |-> NoRequest]
        BY DEF Init, DirectoryInit
    <2>2. heap \in Seq(RecordType) /\ DOMAIN store = {} /\ store \in [DOMAIN store -> 1..Len(heap)]
        BY SMTT(30), <2>1
    <2>3. StoreOK
        BY <2>1, <2>2 DEF StoreOK, NoResurrection
    <2>4. "idle" # "put" /\ "idle" \in Labels
        BY SMTT(30), NotAtEntry
    <2>5. RequestOK(NoRequest, "idle", Len(heap))
        BY <2>4, NotAtEntry DEF RequestOK
    <2>6. HandlersOK
        BY <2>1, <2>4, <2>5, EmptyRequest DEF HandlersOK
    <2>7. OneScan /\ OneIdentityPerAccount
        BY <2>1, <2>2, EmptyRequest DEF OneScan, OneIdentityPerAccount
    <2>8. ASSUME NEW h \in Handlers PROVE AloneOK(h)
        BY <2>2 DEF AloneOK
    <2> QED
        BY <2>1, <2>3, <2>6, <2>7, <2>8 DEF DirectoryInv, ScansOK, ReportedComplete
<1>2. ResponseInv
    <2>1. ad \in [SIDs -> Accounts]
        BY SMTT(30), AccountsAssumption DEF Init, ADInit, SIDs
    <2>2. /\ DryRun \in BOOLEAN /\ hook = [w \in Webhooks |-> hook[w]]
          /\ \A w \in Webhooks : hook[w] = Response!NoHook
        BY DEF Init, Response!HookInit
    <2>3. PICK k : k = Response!NoHook
        OBVIOUS
    <2>4. k.pc = "idle" /\ k.answer = "none" /\ ~k.modified
        BY <2>3 DEF Response!NoHook
    <2>5. HookOK(k)
        <3>1. k.pc \notin {"lookup", "read", "modify", "done"} /\ k.answer # "success"
            BY SMTT(30), <2>4
        <3> QED
            BY <2>3, <2>4, <3>1 DEF HookOK
    <2> QED
        BY <2>1, <2>2, <2>3, <2>5 DEF ResponseInv
<1>3. AdaptersInv
    <2>1. /\ adapterHeap = <<>> /\ adapters = {} /\ tokens = 0 /\ handedOut = {}
          /\ deletedAdapters = {} /\ undone = {} /\ rotation = [h \in Handlers |-> API!NoRotation]
        BY DEF Init, API!AdaptersInit
    <2>2. adapterHeap \in Seq(Nat) /\ DOMAIN adapterHeap = {} /\ tokens \in Nat
        BY SMTT(30), <2>1
    <2> QED
        BY <2>1, <2>2 DEF AdaptersInv, IDs, RotationType
<1> QED
    BY <1>1, <1>2, <1>3 DEF IInv

\* Each step keeps the invariant, and a modification the flags that it does not concern.
LEMMA NextIInv ==
    IInv /\ [Next]_vars => IInv' /\ \A w \in Webhooks : FlagsKeptBy(w)
<1> SUFFICES ASSUME IInv, [Next]_vars PROVE IInv' /\ \A w \in Webhooks : FlagsKeptBy(w)
    OBVIOUS
<1>1. /\ \/ DirectoryNext
         \/ \E h \in Handlers : FatalMapAccess(h)
         \/ UNCHANGED <<heap, store, pc, req, deleted, reported, scansMet>>
      /\ \/ \E w \in Webhooks, b \in Decisions : Response!Receive(w, b)
         \/ Response!HookStep
         \/ \E i \in SIDs : Response!Administrator(i)
         \/ UNCHANGED <<ad, hookVars>>
      /\ API!AdaptersRequest \/ API!RotationStep \/ API!AdaptersLost \/ UNCHANGED adapterVars
    <2>1. CASE Identities
        BY <2>1 DEF Identities, DirectoryNext, handleCreateIdentity, UpdatePut, handleDeleteIdentity,
                    UpdateGet, ScanFetch, ScanLookup, ScanCreate, ScanType, ScanAttributes,
                    ScanStore, ScanReport
    <2>2. CASE CoreEnds
        BY <2>2 DEF CoreEnds, FatalMapAccess
    <2>3. CASE AdaptersAPI
        BY <2>3 DEF AdaptersAPI, AcceptOther, directoryVars
    <2>4. CASE Responses
        BY <2>4 DEF Responses, AcceptOther, directoryVars
    <2>5. CASE Administrators
        BY <2>5 DEF Administrators, AcceptOther
    <2>6. CASE UNCHANGED vars
        BY <2>6 DEF vars, directoryVars
    <2>7. Quiet => UNCHANGED vars
        BY DEF Quiet
    <2> QED
        BY <2>1, <2>2, <2>3, <2>4, <2>5, <2>6, <2>7 DEF Next
<1>2. DirectoryInv'
    BY <1>1, DirectoryStep DEF IInv, ResponseInv
<1>3. ResponseInv' /\ \A w \in Webhooks : FlagsKeptBy(w)
    BY <1>1, ResponseStep DEF IInv
<1>4. AdaptersInv'
    BY <1>1, AdaptersStep DEF IInv
<1> QED
    BY <1>2, <1>3, <1>4 DEF IInv

LEMMA IInvHolds == Spec => []IInv
    BY InitIInv, NextIInv, PTL DEF Spec

\* An identity that was deleted does not come back, not by an update or a scan that got its
\* record before (memory_store.go's Update refuses an ID that is not there).
THEOREM DeletedStayDeleted == Spec => []NoResurrection
<1>1. IInv => NoResurrection
    BY DEF IInv, DirectoryInv, StoreOK
<1> QED
    BY <1>1, IInvHolds, PTL

\* A scan's audit record counts the accounts that were stored, all of them: Scan returns the
\* error of the first upsertIdentity that fails, and the handler then reports nothing
\* (scanner.go lines 75-79, api.go lines 893-897).
THEOREM ReportsAreComplete == Spec => []ReportedComplete
<1>1. IInv => ReportedComplete
    BY DEF IInv, DirectoryInv
<1> QED
    BY <1>1, IInvHolds, PTL

\* As long as no two scans overlap, upsertIdentity keeps one identity for an account, however
\* the identities API is used meanwhile.
THEOREM OneIdentityKept == Spec => []OneIdentityPerAccount
<1>1. IInv => OneIdentityPerAccount
    BY DEF IInv, DirectoryInv, ScansOK
<1> QED
    BY <1>1, IInvHolds, PTL

\* The AD response adapter answers with success only for what it did (Handle).
THEOREM SuccessMeansApplied == Spec => []SuccessApplied
<1>1. IInv => SuccessApplied
    BY DEF IInv, ResponseInv, HookOK, SuccessApplied, Response!SuccessApplied, Response!Body
<1> QED
    BY <1>1, IInvHolds, PTL

\* disableAccount and enableAccount change no flag but ACCOUNTDISABLE, unless somebody else
\* changed the account between their read and their write.
THEOREM OtherFlagsKept == Spec => FlagsKept
<1>1. IInv /\ [Next]_vars =>
          [\A w \in Webhooks :
              ~hook[w].modified /\ hook'[w].modified =>
                  LET i == Response!Account(w)
                      changed == (ad[i].uac \ ad'[i].uac) \cup (ad'[i].uac \ ad[i].uac)
                  IN  changed \subseteq {Response!uacAccountDisable} \/ hook[w].overlapped \/ i \notin Readable
          ]_<<ad, Response!hookVars>>
    BY NextIInv DEF FlagsKeptBy
<1> QED
    BY <1>1, IInvHolds, PTL DEF Spec, FlagsKept, Response!FlagsKept

\* Every stored adapter was created, or brought back by a rotation that overlapped its
\* deletion, and holds the hash of a token that a client was given (handleRotateAdapterToken).
THEOREM AdaptersStayAccounted == Spec => []AdaptersAccounted
<1>1. IInv => AdaptersAccounted
    <2>1. ASSUME IInv, NEW id \in adapters
          PROVE  /\ id \in deletedAdapters => id \in undone
                 /\ API!Rotating(id) \/ adapterHeap[id] \in handedOut
        <3>1. AdapterOK(id) /\ AdaptersInv
            BY <2>1 DEF IInv, AdaptersInv, IDs
        <3>2. Promised(id) => API!Rotating(id)
            BY <3>1, RotationShape DEF Promised, API!Rotating
        <3> QED
            BY <3>1, <3>2 DEF AdapterOK
    <2> QED
        BY <2>1 DEF AdaptersAccounted, API!AdaptersAccounted
<1> QED
    BY <1>1, IInvHolds, PTL
=============================================================================
