----------------------------- MODULE Directory -----------------------------
(***************************************************************************)
(* The identities of the core, kept by two hands: the identities API and the  *)
(* inventory scans of Active Directory (core/internal/inventory).  The store   *)
(* hands out the records themselves: a scan writes into the record it looked  *)
(* up, with no lock held, before it stores it, while the API stores a new one. *)
(***************************************************************************)
EXTENDS ActiveDirectory, FiniteSets

CONSTANTS
    Handlers,
    Bodies,         \* the identities API clients send: [Username, Type, Privileged]
    MaxRequests     \* bound on the requests

ASSUME BoundsAssumption == MaxRequests \in Nat

VARIABLES
    heap,       \* the identity records created so far; a record is its index
    store,      \* the identities in the store: ID -> record
    pc,         \* per handler
    req,        \* per handler: the request it serves
    requests,   \* number of requests so far
    deleted,    \* history: the IDs deleted
    reported,   \* the scans audited: their summary, and the entries read and written
    scansMet    \* history: whether two scans were ever in progress at once

directoryVars == <<heap, store, pc, req, requests, deleted, reported, scansMet>>

None == 0
NoRequest == [ID |-> None, Entries |-> <<>>, Next |-> 1, Record |-> None, Written |-> {}]

DirectoryInit ==
    /\ heap = <<>> /\ store = <<>> /\ requests = 0 /\ deleted = {} /\ reported = {}
    /\ scansMet = FALSE
    /\ pc = [h \in Handlers |-> "idle"] /\ req = [h \in Handlers |-> NoRequest]

-----------------------------------------------------------------------------
(* Reading the directory. *)

staleThresholdDays == 90
privilegedGroups == {512, 518, 519, 520, 544, 548, 549, 550, 551}

\* Membership of a privileged group, by its name, or such a number of the account's own.
isPrivilegedEntry(e) ==
    (e.groups \cup {e.rid, e.primaryGroup}) \cap privilegedGroups # {}

parseEntry(e) ==
    [SamAccountName |-> e.name, Computer |-> e.computer, Service |-> e.spn \/ e.gmsa,
     IsPrivileged |-> isPrivilegedEntry(e), Enabled |-> uacAccountDisable \notin e.uac, Idle |-> e.idle]

identityType(rec) ==
    IF rec.Computer THEN "machine" ELSE IF rec.Service THEN "service_account" ELSE "person"

summarize(records) ==
    LET Count(P(_)) == Cardinality({i \in DOMAIN records : P(records[i])})
    IN  [ComputerAccounts   |-> Count(LAMBDA rec : rec.Computer),
         UserAccounts       |-> Count(LAMBDA rec : ~rec.Computer),
         ServiceAccounts    |-> Count(LAMBDA rec : rec.Service),
         PrivilegedAccounts |-> Count(LAMBDA rec : rec.IsPrivileged),
         DisabledAccounts   |-> Count(LAMBDA rec : ~rec.Enabled),
         StaleAccounts      |-> Count(LAMBDA rec : rec.Idle # Never /\ rec.Idle > staleThresholdDays)]

-----------------------------------------------------------------------------
(* The identities API *)

Accept == requests < MaxRequests /\ requests' = requests + 1
Done(h) == pc' = [pc EXCEPT ![h] = "idle"] /\ req' = [req EXCEPT ![h] = NoRequest]

\* A new record with an ID of its own, or the one given; By is history.
NewRecord(id, name, type, privileged, by) ==
    heap' = Append(heap, [ID |-> id, Username |-> name, Type |-> type, Privileged |-> privileged, By |-> by])
New == Len(heap) + 1
Put(id, r) == [i \in DOMAIN store \cup {id} |-> IF i = id THEN r ELSE store[i]]

handleCreateIdentity(h, b) ==
    /\ pc[h] = "idle" /\ Accept
    /\ NewRecord(New, b.Username, b.Type, b.Privileged, "api")
    /\ store' = Put(New, New)
    /\ UNCHANGED <<pc, req, deleted, reported, scansMet, ad>>

handleDeleteIdentity(h, id) ==
    /\ pc[h] = "idle" /\ Accept
    /\ store' = [i \in DOMAIN store \ {id} |-> store[i]]
    /\ deleted' = deleted \cup {id}
    /\ UNCHANGED <<heap, pc, req, reported, scansMet, ad>>

\* handleUpdateIdentity up to the Get; an ID that is not there is refused.
UpdateGet(h, id) ==
    /\ pc[h] = "idle" /\ Accept
    /\ id \in DOMAIN store
    /\ pc' = [pc EXCEPT ![h] = "put"]
    /\ req' = [req EXCEPT ![h].ID = id]
    /\ UNCHANGED <<heap, store, deleted, reported, scansMet, ad>>

\* The store takes the record whether or not there is one to replace.
StoreUpdateAlways(id, r) == store' = Put(id, r)

\* Update of the identity store: an error, and no change, for an ID that is not there.
StoreUpdate(id, r) == store' = IF id \in DOMAIN store THEN Put(id, r) ELSE store

UpdatePut(h, b) ==
    /\ pc[h] = "put"
    /\ NewRecord(req[h].ID, b.Username, b.Type, b.Privileged, "api")
    /\ StoreUpdate(req[h].ID, New)
    /\ Done(h)
    /\ UNCHANGED <<requests, deleted, reported, scansMet, ad>>

-----------------------------------------------------------------------------
(* handleADInventoryScan: Scan, with upsertIdentity for one entry after the other *)

Entry(h) == req[h].Entries[req[h].Next]
Record(h) == heap[req[h].Record]

\* fetchRecords; when the search fails, so does the scan, with nothing changed.
ScanFetch(h) ==
    /\ pc[h] = "idle" /\ Accept
    /\ pc' = [pc EXCEPT ![h] = "lookup"]
    /\ req' = [req EXCEPT ![h].Entries = [i \in DOMAIN ad |-> parseEntry(ad[i])]]
    /\ scansMet' = (scansMet \/ \E g \in Handlers : req[g].Entries # <<>>)
    /\ UNCHANGED <<ad, heap, store, deleted, reported>>

\* A lookup by another name than the one that is stored finds nothing.
ScanLookupMisses(h) ==
    /\ pc[h] = "lookup" /\ req[h].Next <= Len(req[h].Entries)
    /\ pc' = [pc EXCEPT ![h] = "create"]
    /\ UNCHANGED <<heap, store, req, requests, deleted, reported, scansMet, ad>>

\* GetByUsername: any identity of that name, where there are several.
ScanLookup(h) ==
    /\ pc[h] = "lookup" /\ req[h].Next <= Len(req[h].Entries)
    /\ LET found == {id \in DOMAIN store : heap[store[id]].Username = Entry(h).SamAccountName}
       IN  IF found = {}
           THEN pc' = [pc EXCEPT ![h] = "create"] /\ UNCHANGED req
           ELSE /\ pc' = [pc EXCEPT ![h] = "fields"]
                /\ \E id \in found : req' = [req EXCEPT ![h].Record = store[id]]
    /\ UNCHANGED <<heap, store, requests, deleted, reported, scansMet, ad>>

NextEntry(h) ==
    /\ pc' = [pc EXCEPT ![h] = "lookup"]
    /\ req' = [req EXCEPT ![h].Next = @ + 1, ![h].Record = None, ![h].Written = @ \cup {req[h].Next}]

ScanCreate(h) ==
    /\ pc[h] = "create"
    /\ NewRecord(New, Entry(h).SamAccountName, identityType(Entry(h)), Entry(h).IsPrivileged, "scan")
    /\ store' = Put(New, New)
    /\ NextEntry(h)
    /\ UNCHANGED <<requests, deleted, reported, scansMet, ad>>

\* The record found is written to where it is, its type first, ...
ScanType(h) ==
    /\ pc[h] = "fields"
    /\ heap' = [heap EXCEPT ![req[h].Record].Type = identityType(Entry(h))]
    /\ pc' = [pc EXCEPT ![h] = "attributes"]
    /\ UNCHANGED <<store, req, requests, deleted, reported, scansMet, ad>>

\* ... then whether it is privileged, its groups and its map of attributes.
ScanAttributes(h) ==
    /\ pc[h] = "attributes"
    /\ heap' = [heap EXCEPT ![req[h].Record].Privileged = Entry(h).IsPrivileged]
    /\ pc' = [pc EXCEPT ![h] = "store"]
    /\ UNCHANGED <<store, req, requests, deleted, reported, scansMet, ad>>

\* Two goroutines that write the attributes of one record, or one that does and one that
\* encodes it for an answer, may end the process, and its part of the store with it.
FatalMapAccess(h) ==
    /\ pc[h] = "attributes" /\ Accept
    /\ \/ \E id \in DOMAIN store : store[id] = req[h].Record
       \/ \E g \in Handlers \ {h} : req[g].Record = req[h].Record
    /\ store' = <<>>
    /\ pc' = [g \in Handlers |-> "idle"] /\ req' = [g \in Handlers |-> NoRequest]
    /\ UNCHANGED <<heap, deleted, reported, scansMet, ad>>

\* A scan that goes on with the next entry when one could not be stored.
ScanStoreGoesOn(h) ==
    /\ pc[h] = "store"
    /\ StoreUpdate(Record(h).ID, req[h].Record)
    /\ IF Record(h).ID \in DOMAIN store
       THEN NextEntry(h)
       ELSE /\ pc' = [pc EXCEPT ![h] = "lookup"]
            /\ req' = [req EXCEPT ![h].Next = @ + 1, ![h].Record = None]
    /\ UNCHANGED <<heap, requests, deleted, reported, scansMet, ad>>

\* An identity that was deleted meanwhile cannot be stored: the scan ends there, and its
\* handler answers with the error and drops the summary.
ScanStore(h) ==
    /\ pc[h] = "store"
    /\ StoreUpdate(Record(h).ID, req[h].Record)
    /\ IF Record(h).ID \in DOMAIN store THEN NextEntry(h) ELSE Done(h)
    /\ UNCHANGED <<heap, requests, deleted, reported, scansMet, ad>>

ScanReport(h) ==
    /\ pc[h] = "lookup" /\ req[h].Next > Len(req[h].Entries)
    /\ reported' = reported \cup
          {[summary |-> summarize(req[h].Entries), read |-> Len(req[h].Entries), written |-> req[h].Written]}
    /\ Done(h)
    /\ UNCHANGED <<heap, store, requests, deleted, scansMet, ad>>

-----------------------------------------------------------------------------

DirectoryNext ==
    \E h \in Handlers :
        \/ \E b \in Bodies : handleCreateIdentity(h, b) \/ UpdatePut(h, b)
        \/ \E id \in DOMAIN store : handleDeleteIdentity(h, id) \/ UpdateGet(h, id)
        \/ ScanFetch(h) \/ ScanLookup(h) \/ ScanCreate(h) \/ ScanType(h) \/ ScanAttributes(h)
        \/ ScanStore(h) \/ ScanReport(h)

-----------------------------------------------------------------------------

\* An identity that was deleted does not come back: not by an update that got it before
\* the deletion, and not by a scan that still holds its record.
NoResurrection == \A id \in deleted : id \notin DOMAIN store

\* A scan is audited and answered, with its counts, only when every account it counted was
\* stored.  One that fails in the middle, for it lost a race with a deletion, reports
\* nothing at all: Scan returns the summary with the error, so that it "still reports the
\* counts that were observed" (scanner.go lines 73-74), and the handler answers 500 without
\* it (api.go lines 893-897).
ReportedComplete == \A r \in reported : r.written = 1..r.read

\* upsertIdentity looks an account up and creates its identity later (scanner.go lines
\* 367-405): as long as no two scans overlap, however the identities API is used
\* meanwhile, scans keep no two identities for one account.
OneIdentityPerAccount ==
    ~scansMet =>
        \A i, j \in DOMAIN store :
            /\ heap[store[i]].By = "scan" /\ heap[store[j]].By = "scan"
            /\ heap[store[i]].Username = heap[store[j]].Username
            => i = j
=============================================================================
