# OIAF in TLA+

A formal model of the Open Identity Access Firewall: the Go core (`core/`), which
evaluates access requests, orchestrates MFA challenges and keeps an audit log, and
the adapters (`adapters/`) that feed it and enforce its answers. The modules are
translated from the code; TLC checks them on small instances and TLAPS proves the
safety properties of eight of the components for every instance.

## 1. The system

    PAM helper ---evaluate, verify--->+--------------------------------+
    Okta adapter ---signals---------->|  HTTP handlers (api.go)        |
    DC agents ---AD events----------->|  risk, policy, challenge, mfa, |---> bus subscribers
    administrators ---CRUD, scans---->|  discovery, inventory, audit   |
                                      |  over one MemoryStore          |
                                      +--------------------------------+
    webhooks ---decisions---> AD response adapter ---LDAP---> Active Directory <--- scans

| part | state | operations | module |
|---|---|---|---|
| access evaluation (`api.go` 115-202, 589-661) | policies, the decision in the making | evaluate; create, update, delete a policy | AccessEvaluate |
| risk engine (`risk/engine.go`) | none | Score, level | RiskEngine |
| policy engine (`policy/engine.go`) | none | rank matching policies; evaluate condition trees | PolicyEngine, PolicyConditions |
| challenge orchestrator (`challenge/service.go`) | challenges | create, verify TOTP, approve push, begin and finish WebAuthn, expiry | ChallengeService; abstract: ChallengeLifecycle |
| MFA factors (`mfa/`) | factors, devices, WebAuthn sessions | enrol, activate, register, verify, delete | Factors |
| audit log (`audit/audit.go`, `storage/memory.go`) | hash chain | Emit, Append, Verify | AuditLog |
| event bus (`bus/bus.go`) | head of the chain | Emit: link, then POST to each subscriber | Bus |
| discovery (`discovery/engine.go`), DC agent (`adapters/dc-agent`) | profiles; channel and batch | subscribe, batch, flush, ingest, classify, build a baseline, deny deviations | Discovery, ADPipeline |
| inventory scans (`inventory/scanner.go`), identities API | identities | scan, upsert, report; create, update, delete | Directory |
| adapters API (`api.go` 692-786) | adapter records and their tokens | create, delete, rotate the token | Adapters |
| AD response adapter (`adapters/ad-response`) | webhooks in service | look up, read flags, modify | ADResponse, over ActiveDirectory |
| Okta adapter (`adapters/okta`) | cursor, dedupe window, identity memory, state file | fetch page by page with retries, detect, emit, commit, save | OktaClient, OktaSignals, OktaPoller |
| PAM helper (`adapters/pam`), SDK, caller tokens | one login; tokens | configure, evaluate, prompt, verify, exit; validate, revoke; restart of the core | PAMLogin |

The full list of parts, those left out included, is `components` in `PROJECT.json`.

### What makes it hard

**Shared records.** `MemoryStore` locks its maps, not what they hold: `Get` and
`List` return pointers to the stored structs, handlers read and write the fields with
no lock held, and `Update` stores the same pointer again. An in-place change is
visible to every other request before it is "stored". The exceptions are
`handleUpdatePolicy` and `handleUpdateIdentity`, which store a new struct. Modules
whose component works in place (ChallengeService, Factors, ADPipeline, Directory, Adapters)
take one step per access to a shared field; `Attempts++` is a load and a store.

**Fatal errors.** Two goroutines that use one Go map at the same time end the process,
and with it the store, which lives in memory. Profiles and identities contain such
maps: `FatalMapAccess` in ADPipeline and Directory empties the store and fails the
requests in service.

**Unreliable delivery.** Bus POSTs, DC agent batches, Okta signals, PAM calls and LDAP
modifications may be lost, may fail after they were handled, or may be handled after the
caller gave up.

**Restarts.** The Okta adapter saves a state file once per cycle and replays from it. The
core keeps nothing: a restart loses challenges, adapters and registered tokens, and unless
the environment names a token it registers a new one.

**Read-modify-write across systems.** The AD response adapter reads the flags of an account
and replaces them in a second LDAP operation, while administrators and other webhooks work
on the same account and scans read it.

The hazards that follow from this, each at its line, are `hazards` in `PROJECT.json`,
with the properties that cover them.

## 2. Modules and their correspondence to the code

`map` in `PROJECT.json` gives the source lines of every definition. Definitions keep
the source's names where they can; a definition whose name continues another one's
(`PostGivesUp`, `SinceExclusive`) is a faulty variant of it, used to confirm that the
properties notice such a bug.

**AuditLog.** `EmitBuild` is `audit.Service.Emit` up to `Append`: read the last hash,
take ID and timestamp. `EmitAppend` is `memoryAuditStore.Append`, which links the event
again under the write lock. `Verify` is the scan behind `GET /v1/audit/verify`. The
hash is a parameter; hashed and unhashed fields are kept apart.

**ChallengeService** has a program counter per handler; each label is a statement of
`preVerify`, `VerifyTOTP`, `VerifyPush`, `BeginWebAuthn`, `FinishWebAuthn` or of the HTTP
handler around it (auditing, announcing). What a factor answers is an input; module
Factors says when it answers yes. **ChallengeLifecycle** is the abstract specification:
status and attempts used, as `docs/architecture/mfa-orchestration.md` describes them.

**AccessEvaluate** follows `handleAccessEvaluate`: score, evaluate the policies, apply
the risk override, create the challenge, audit, announce, answer. **RiskEngine** is
`Score`; the thresholds of the levels are constants. **PolicyEngine** gives
the set of decisions `Evaluate` may return, since its sorts are unstable.
**PolicyConditions** evaluates condition trees over the JSON map of a request
(`requestToMap` with `omitempty`, the operators, `all`/`any`/`not` in order with
errors); MCAccess says of each stored condition what its author means by it (`Meant`). It is
recursive, so it reaches AccessEvaluate through a constant operator and the proofs do not
depend on it.

**Bus.** `EmitLink` is the part of `Emit` under the mutex; `Post` is a turn of the loop
over the subscribers, which is received, fails, or times out; `Late` is the arrival of a
request that outlived its timeout.

**Factors.** TOTP enrolment, activation and verification with the skew of `totp.go`;
push devices and approvals; WebAuthn registration and verification with the session map
(one session per identity, taken under the mutex), the stored factor and the signature
counter. Cryptography and the go-webauthn library are external: a code stands for its
secret and period, an assertion for its ceremony, credential and counter. Assumed of
clients: codes come from the secrets of stored factors, the empty one of a WebAuthn factor
included, and each registration has an authenticator of its own, whose counter starts at 0.
What `Credentials` of an active WebAuthn factor decodes to is `Decoded`: a session that is
still there is a credential with no ID, and fits no assertion.

**Discovery** has the pure parts (profile, observation window, classification score in
thousandths, baseline, deviation); **ADPipeline** composes it with the agents and the
ingesting handlers. Temporal regularity, a floating-point entropy, is a constant
operator. Events have a timestamp, which the agent's parser always sets
(`parser.go:166-185`), so the branch of `updateProfile` for events without one is left out.

**Directory** keeps identity records in a heap and the store as a map from IDs to
records, so that two handlers can hold the same record. A scan reads the accounts of
**ActiveDirectory** in one step (the search), parses them, and then works on them one after
the other. **Adapters** has the three writing handlers of the adapters API; a rotation is a
read, a write into the shared record, and a `Create`. **ADResponse** is a webhook of the
response adapter: the filter on the decision, dry run, `dnFromSID`, `getUAC` and the
modification, each LDAP operation a step that may fail (a modification also after it was
made). **CoreRecords** composes them: scans, the response adapter and administrators share
Active Directory; identities and adapters share the core's process, so that a fatal map
access in a scan also takes the adapters (`CoreEnds`). Flags of an account are a set of
names; those of an account outside `Readable` count as none, as `getUAC` ignores the error of
converting an attribute that it did not get.

**OktaSignals** is `Detect`, `Commit`, the bounded memory of an identity, and
`signalToAccessRequest`. **OktaClient** is `FetchLogs`: pages, attempts, and the waits
between them. A failed attempt stores what the server asked for in `lastRetryAfter`, and
`Backoff`, a later step, takes the wait from there, or 0 for the exponential backoff.
**OktaPoller** is `PollOnce` page by page and event by event, the state in memory and on
disk, and the faults; a fetch that fails drops the pages it had read. Evicting an identity
at the limit of tracked identities is part of `Identity`. The next link of a page is Okta's
choice, present whenever more events are there.

**PAMLogin** is `run` of the helper from `loadConfig` to the exit code, the SDK's calls
as messages, and the core's side of them: token validation, evaluation, verification.
The answer to a verification is read from the shared challenge later (`Respond`). `Restart`
is the end of the core at any moment and its next start, with `ensureToken`; a helper may
hold the token of this start, of an earlier one, of the environment, or one that the
adapters API handed out, which `Validate` never accepts.

## 3. Runs

Each run asks one question. Deadlock is checked in all of them; `Quiet` is the step of a
system with nothing left to do, so a handler that is stuck is reported.

| run | what is checked | instance |
|---|---|---|
| `audit_log` | The chain is intact in every interleaving (`ChainIntact`), consistent with real time although timestamps may be out of order (`RealTimeOrder`), only grows (`AppendOnly`); an altered event is reported at its index (`AlterationDetected`) | 3 goroutines, 3 events, 2 contents |
| `challenge_concurrent` | A factor is never checked for a request that arrived after expiry or resolution, and approval follows a valid factor (`ApprovalWasOpen`); audit events account for the checks, and come before the bus is told (`AuditAccounts`); the counter may lag behind the attempts made but never runs ahead, so none is failed early (`FailsAfterAttempts`) | 2 handlers, 1 challenge, 4 requests, limit 2 |
| `challenge_sequential` | One request at a time, the orchestrator implements ChallengeLifecycle (`ImplementsLifecycle`), bounds the checks (`AttemptsBounded`), uses a ceremony once and only for its challenge (`CeremonyBound`) | 1 handler, 2 challenges, 3 requests, 2 ceremonies |
| `challenge_attempts` | **violated**: `AttemptsBounded` with two handlers | 2 handlers, 3 requests |
| `access` | The answer is the documented one for one snapshot of the policies (`DecisionDocumented`), was audited and announced as given (`AnswersAudited`); challenges and answers correspond (`ChallengesAnswered`); the answer is the one that the authors of the stored conditions mean, where an unknown operator makes no policy match (`AnswersAsMeant`) | 2 handlers, 2 administrators, 2 policies, 4 bodies of which 2 have an unknown operator, 3 kinds of requests, 3 changes, the default thresholds |
| `bus` | No subscriber sees a fork or a duplicate (`NoFork`); a healthy one has the whole chain (`HealthyHasChain`) in real-time order (`DeliveryOrder`); Emit returns (`EmitReturns`) | 2 goroutines, 3 events, a failing and a healthy subscriber |
| `okta` | No event is missed (`NoGap`), a replay raises the same signals and asks the core the same (`ReplayedAlike`), a new location is reported with another one as the usual (`NewGeoMismatch`), a retry waits for what the failure just before it asked for, not for what a call that gave up left behind (`WaitsAsAsked`), MFA fatigue is grounded in distinct failures (`FatigueGrounded`), a duplicate has a fault behind it (`DuplicatesBounded`), everything is delivered in the end (`EventuallyDelivered`) | 6 events in pages of 2, at most 2 pages and 2 attempts, 3 logins of which 2 fit the memory, 3 faults |
| `okta_fixture` | **violated**: `NoGap` when events come from a fixture file | the same events, 1 fault |
| `factors` | A WebAuthn factor holds the session or a credential of its own registration, and is active with the session only after an Activate (`TypeOK`); no factor verifies before it was enrolled (`EnrolledFirst`); what expired, was replaced or deleted does not verify, and a session is taken once (`StaleNeverVerifies`); counters do not fall, overlapping verifications apart (`CounterMonotone`) | 2 handlers, 2 identities, 2 factors, 1 device, 3 requests, 3 ceremonies |
| `ad_pipeline` | Nothing is counted twice (`CountsSound`); classification waits for the observation window (`ClassifiedAfterObservation`); a denial has a contrasting event (`DenialHasContrast`) | 2 agents, 2 handlers, 3 events, 1 fault |
| `pam_login` | Success is justified (`GrantJustified`); no login waits for the core for ever (`LoginEnds`) | 2 logins, every configuration, 1 restart, the tokens of both starts, of the environment and of the adapters API |
| `core_records` | Deleted identities stay deleted (`NoResurrection`); a reported scan stored all it counted, and one that failed reports nothing (`ReportedComplete`); scans that do not overlap keep one identity per account, whatever the API does meanwhile (`OneIdentityPerAccount`); a stored adapter was not deleted without a rotation at work, and a client holds its token (`AdaptersAccounted`); the response adapter reports only what it did (`SuccessApplied`) and loses another's flags only by an overlap (`FlagsKept`) | 2 handlers, 2 webhooks, 2 accounts, 4 requests of any kind |

**Why the bounds are enough.** Races in this code are between two requests on one
record, so two handlers meet on one challenge, factor, profile or identity; the audit log
has a third goroutine, so that the head moves twice under a waiting Emit. A limit of two
attempts has a first and a last one. Okta's constants put each boundary inside six events: two
events share a millisecond, a page ends between events and the page cap before the last
two, two of three logins fit the memory, and the dedupe window holds two. Three faults are
the fewest that give up on a page (two attempts) and fail another one later. The instance
keeps fewer events in a millisecond than one fetch returns; with as many (`Limit` times
`MaxPages`) every poll would fetch the same ones, and the cursor would stop. Four requests are the
fewest in which an administrator and a webhook meet on an account that two scans read, or
in which a rotation, a deletion and another rotation follow a creation. Three events are the fewest that classify an
account (two, a day apart) and then deviate. `minObservationDays`, `minAuthCount` and the
Okta limits are scaled down; the comparisons with them are the code's. Symmetry is used
only in runs of safety and action properties over interchangeable handlers, webhooks, agents,
identities, factors or policies.

**Fairness.** AuditLog: a goroutine with an event runs on, as nothing but the store's
mutex lies between building and appending (no property needs it). Bus: the HTTP client's ten-second timeout ends
every turn of the loop. OktaPoller: `Run` polls at every tick, requests for pages end by the
client's timeout and waits by their timer, and Okta publishes the events of the instance; faults are bounded and not fair. PAMLogin: the helper runs and its
timeouts fire; neither core nor user owes it anything. The other modules assume none.

## 4. Proofs

Each theorem holds for every value of the constants: any number of handlers, goroutines,
subscribers, logins, policies, challenges, events and requests. What the constants must
satisfy is an `ASSUME` of the component's module, which TLC evaluates on the instance of the
run. `theorems` in `PROJECT.json` lists the results; each names the property that the run
checks.

**AuditLogProofs**: `AuditLogSafe` (`TypeOK`, `ChainIntact`, `RealTimeOrder`, `LoggedOnce`),
`AuditLogRealTime`, `AuditLogAppendOnly` and `AuditLogTamperEvident`. The properties are not
inductive. That an Emit is logged once needs `PendingFresh`: the events being built have IDs
of their own, issued and not logged. Real-time order needs `HistoryLogged`: what had returned
when an Emit began is in the log. `ChainIntact` is about the first mismatch of a scan; the
proof carries `Linked`, the same link by link, and `LinkedVerifies` goes back. The theorems
hold for every hash function closed over `Hashes` (`HashAssumption`), colliding ones included,
because Append links under the lock; only tamper evidence needs that a hash tells two
contents apart on the same head (`CollisionAssumption`).

**BusProofs**: `NoForkSafe`, `DeliveryOrderSafe`, `HealthyHasChainSafe`. The invariant relates
three things that Emit's loop keeps in step: the chain of emitted events, how far the loop of
each goroutine has come, and what each subscriber has received or may still receive late. An
event reaches a subscriber from one place at a time (received, on the way, or not sent yet),
hence once. `DigestAssumption` says that a hash is never the genesis value and that events
with different IDs hash differently; without it a fork could not be told from a collision.

**AccessEvaluateProofs**: `AnswersDocumented`, assuming that administrators store one of the
four effects (`KnownEffects`; the API does not check it, see below). `DecidedDocumented` is the
core: ranking, default, risk override and the treatment of `alert` together give the
documented decision, whichever of the equally ranked policies comes first. The invariant adds
that stored and pending policies have known effects (`StoreKnown`) and that a handler past the
evaluation holds the decision for the policies it listed (`HeldDocumented`).
`AnswersAccounted` and `NoChallengeLeft` need no such assumption. Their invariant follows a
request through its labels: which audit events, announcement and challenge it has left behind
at each, and that no other request left any under the same ID.

**PAMLoginProofs**: `GrantsJustified`. A login exits long after the answer that justifies it
was sent, and the core may have been restarted in between, so the invariant speaks of the
messages: an answer on its way was given to that login (`ApprovedByCore`), at most one question
of a login is open (`AskedOnce`), and what the helper remembers is what it received.

**ChallengeProofs**. Under every interleaving: `ApprovalsOpen`, `AuditsAccounted`, `FailuresEarned`. `IInv` has four parts:
types; what a handler past a gate of `preVerify` knows of its request, although the record may
have changed since (`Open`); the handlers whose check is not in the audit log yet, counted
(`Accounts`); and the counter, which is at most the attempts made, at most what a handler is
about to store, and at least the limit where a challenge is about to be failed
(`CountsOnlyMade`). Handlers must be finitely many (`ConstantsAssumption`), since they are
counted.

For requests that are served one after the other (`OneHandler`, the assumption of the
`challenge_sequential` run): `AttemptsAreBounded`, `CeremoniesSingleUse`, and
`LifecycleImplemented`, the refinement of ChallengeLifecycle. `SInv` strengthens `IInv`: the
challenge stays pending from the gate to the write that resolves it, the counter is exact
(`Counted`), and a ceremony is held by its challenge, by the handler that took it, or has been
used (`Ceremonies`). Under the refinement mapping (status and attempts of the records) the store
of the counter is an Attempt, a write of a resolved status is a Resolve, and every other step
stutters. With two handlers the three do not hold; the run `challenge_attempts` shows the first.

The lemmas come in layers: what each action changes (`...Effect`), what each part of the
invariant needs for it to survive (`OpenKept`, `AccountsKept`, `CountsKept`, `CeremoniesSame`), and
one lemma per part with a case per action (`StepOpen`, `StepAccounts`, `StepCounted`,
`StepCeremonies`). What is needed of cardinalities is stated as `Counting`, an assumption of
these lemmas that `CountingHolds` discharges.

**FactorsProofs**: `FactorsKeepShape`, `OnlyEnrolledVerify`, `NothingStaleVerifies` and
`CountersOnlyGrow`. What a handler may conclude depends on what it looked up some steps
before, so the invariant says, label by label, what its request, the factor it holds and the
session it took have to do with each other. A TOTP factor is active only when an answer
activated it. A WebAuthn factor holds a credential only when a registration was accepted, and
is active without one only when an answer activated it. Accepted is more than answered: where
the factor is active before its registration ends, an assertion may succeed between the two
writes of FinishRegistration (`Accepted`). A session that is parked belongs to the identity it
is parked for and was never taken, hence it is used once; and the counter that a handler is
about to store is the stored one or more, unless another write has marked the handler as
overlapped. Nothing is assumed of secrets: that of a TOTP factor is its own, that of a
WebAuthn factor is empty and may be used.

**CoreRecordsProofs**: `DeletedStayDeleted`, `ReportsAreComplete`, `OneIdentityKept`,
`SuccessMeansApplied`, `OtherFlagsKept` and `AdaptersStayAccounted`. Identities, webhooks and
adapters meet only in the accounts that a scan reads and in a crash of the core, so `IInv` has
three parts that are proved apart.
`DirectoryInv`: the store has each record under its own ID, and no ID that was deleted;
a scan's count is the number of entries before the one it is at, each of which was stored
(`RequestOK`); and for scans that do not overlap, `AloneOK` carries what the lookup found over
to the store: other handlers may delete or replace records in between, but not add one for the
account.
`ResponseInv`: between the read of the flags and the modification, the flags that a webhook
holds are those of the account, or the account was changed meanwhile and the webhook counts as
overlapped (`HookOK`).
`AdaptersInv`: the hash of a stored record is that of a token which was handed out or which a
rotation at work is about to hand out (`Promised`), and whoever brings a deleted adapter back is
such a rotation (`AdapterOK`). `AccountsAssumption` gives accounts and administrators' changes
their types, and nothing else is assumed.

**ADPipelineProofs**: `CountsNeverExceed`, `ClassificationObserved` and `DenialsContrast`, for
any number of agents, handlers, accounts, events, days and faults. `IInv` has two parts.
`DeliveryInv` says where an event is: in the channel or the unsent batch of one agent, where it
is neither ingested nor audited, or in the request of one handler, ingested only if its turn
was (`Unsent`, `Held`, `Ahead`, `Apart`). Hence nothing is ingested or audited twice, although a
handler goes on with a batch that its agent has given up.
`ProfilesInv` says what a profile may claim. Lost increments make the counters inexact, so it
bounds them: by the events ingested for the account, in total and per hour (`CountsOK`). The
bound is needed for the old version that a racing update may start from as well, and the update
keeps it because the event that is ingested makes room for one more. A profile in use has
counted an event that is no later than the beginning of its window (`Live`), which gives the
classification its days and the threshold of a baseline a value above zero, and what a baseline
allows was seen (`BaselineOK`), which gives a denial its contrast. A profile that is made for an
account with no stored one is relied on by nobody else until it is updated, because no two
handlers are at the same event.
`LoggedAssumption` says that a record names one of the accounts or none,
`ThresholdsAssumption` that the limits of the engine are integers and that the percentage is
positive, `AbsentAssumption` that a value which an event has is not the empty one.

**What the proofs changed.** A bound on how far the attempts counter can overshoot, which TLC
confirmed for two handlers, is false for three: updates get lost. `FailsAfterAttempts` replaced
it, and says what does survive. Case distinctions with overlapping guards, where TLC takes the
first arm but TLA+ leaves the choice open, became `IF` chains, in the order of the code's tests.

**Only model-checked.** Liveness under fairness (`EmitReturns`, `EventuallyDelivered`,
`LoginEnds`), `ENABLED`, facts about recursive definitions (`AnswersAsMeant`) and induction over
data (what a fold over a page of events computes) are outside what the prover does; they stay
with TLC. The properties of OktaPoller are of the last kind: the dedupe window, the memory of
an identity and the events after a cursor are results of `SelectSeq` and of folds. Two of
them, `DuplicatesBounded` and `ReplayedAlike`, moreover hold only where the window covers the
events that share a millisecond, as it does in the instance. `WaitsAsAsked`
could be proved and is not.
`LoggedOnce` is the other way round: it is proved, and not checked by a run.

## 5. Where code and documentation disagree

Shown by a run (`findings`):

- The limit of attempts does not hold for concurrent requests (`challenge_attempts`):
  `preVerify` reads the counter, the caller increments it later, with no lock held.
- From a fixture file, events that share the cursor's timestamp can be lost after a failed
  delivery (`okta_fixture`): `fixture.go:59` lacks the millisecond of `client.go:478`.

Met while modelling; the model follows the code:

- An effect outside the four ranks with `deny` (`policy/engine.go:68-77`), and the API stores it.
- `neq`, `not_in` and `not_contains` are false on an absent field (`policy/engine.go:199-201`),
  where `docs/architecture/policy-engine.md:32-36` calls them negations; a zero value is absent.
- `Verify` never reads the stored `previous_hash` (`storage/memory.go:476-481`), so a change
  of that field alone is not reported; `AlterationDetected` is about content and hash.
- `docs/security/mfa-security.md:12` says that every failed attempt emits `challenge.failed`; a
  failed push approval does not (the `unaudited` checks of ChallengeService).
- `totp.go:75-97` accepts codes of the next period and of the two before the current one.
- `types.ServiceAccountBaseline` lists that are empty restrict nothing; RFC 0001 line 389 has a
  threshold of 0.80, the code one of 0.75.
- A new login at the limit of tracked identities evicts itself, its `LastSeen` being zero
  (`adapters/okta/state.go:129-131`); `Detect` adds the login to the memory although
  `signals.go:90` says it "does not mutate state"; `usual_geo` is the last geo, not the most
  frequent one (`sink.go:83`, 117).
- `adapters/okta/poller.go:16-17` says a crash does not reprocess events; it does, and
  `DuplicatesBounded` says how often.
- Failing open applies to the evaluation only; an error during the challenge denies
  (`adapters/pam/README.md:55-57`), and `GrantJustified` states what the code does.
- `TOTPService.Activate` asks neither for the method of a factor nor for a secret
  (`mfa/totp.go:54-73`): a pending WebAuthn factor becomes active with a code of the empty
  secret while it holds the session of its registration, where `webauthn.go:50-54` has it
  pending until the credential replaces the session. No assertion fits such a factor, and its
  registration can no longer begin to finish; `TypeOK` and `EnrolledFirst` say what remains true.
- `inventory/scanner.go:73-74` says that a storage failure in mid-scan "still reports the counts
  that were observed". `Scan` returns them with the error, and `handleADInventoryScan` answers
  500 without them and audits nothing (`api.go:893-897`); `ReportedComplete` states what the
  code does.
- The WebAuthn sessions are keyed by identity, not "by ceremony challenge" (`webauthn.go:75`).
- Tokens from `POST /v1/adapters` and from rotation are hashed into the adapter's record, which
  `Validate` does not read (`auth/auth.go:68-85`): they authenticate nobody, where
  `docs/security/credential-handling.md:45-46` has rotation invalidate the old one.
- A token is generated at every start that finds none in the environment
  (`cmd/oiafd/main.go:144-171`), not "on first run" (`docs/quickstart.md:20`): the file that
  holds the token of the start before is overwritten, never read.
- Rotating the token of an adapter that is deleted meanwhile brings it back (`api.go:777` stores
  with `Create`), two overlapping scans create an account's identity twice
  (`inventory/scanner.go:367-405`), and overlapping webhooks lose each other's flags
  (`ad-response/actions.go:106-134`): the properties of `core_records` say so in their exceptions.

## 6. What is not modelled

The OPA engine (a stub that returns errors), the stub adapters, the command line, the
simulator, the web UI, configuration and logging: no state, or no interaction. HTTP
routing and middleware: no state of their own. The redaction of credentials in logs and
errors (a large part of `okta/client.go`) and reading credentials: sequential text
processing. Within modelled parts: handlers that only read (lists, lookups, policy tests),
events that Okta publishes with a timestamp behind the cursor, the canonical encoding behind
the bus digest, and the Windows service around the DC agent. Cryptography, LDAP and regular
expressions are inputs or parameters.

## 7. Plan

What changes state in the code is modelled. Modules that would add something:

1. Access evaluation and challenges composed: from an answer that asks for a challenge to
   its approval, with Factors as the oracle that ChallengeService leaves open. The state
   space of ChallengeService alone is at the limit of what TLC does in minutes.
2. Negated operators on absent fields, against the table of the policy docs.

Proofs next: OktaClient (`WaitsAsAsked`), and that the risk score is monotone in its factors.
