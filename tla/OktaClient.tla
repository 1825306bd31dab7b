----------------------------- MODULE OktaClient -----------------------------
(***************************************************************************)
(* The System Log client of the Okta adapter (adapters/okta/client.go): one   *)
(* FetchLogs, page by page, each page requested up to maxAttempts times.  The *)
(* events of a page and the link to the next one are the server's answer and  *)
(* come from the module that composes the client; so does the order of time.  *)
(*                                                                          *)
(* A wait is the time the server asked for, or 0 for the exponential backoff. *)
(***************************************************************************)
EXTENDS Integers, Sequences

CONSTANTS
    Limit, MaxPages,   \* of FetchLogsParams, after the defaults
    maxAttempts

ASSUME ClientAssumption ==
    Limit \in Nat \ {0} /\ MaxPages \in Nat \ {0} /\ maxAttempts \in Nat \ {0}

VARIABLES
    fetch,           \* the FetchLogs in progress: out and pages, and of the page in hand
                     \* the number of failed attempts, what the server asked for at the
                     \* last of them (history), and the wait before the next
    lastRetryAfter   \* the client's, which outlives the call

clientVars == <<fetch, lastRetryAfter>>

NoWait == -1   \* no wait has been chosen

\* A page that has not been requested yet.
NewPage(since, out, pages) ==
    [since |-> since, out |-> out, pages |-> pages, attempt |-> 0, asked |-> 0, wait |-> NoWait]

NoFetch == NewPage(0, <<>>, 0)

ClientInit == fetch = NoFetch /\ lastRetryAfter = 0

FetchBegins(since) == fetch' = NewPage(since, <<>>, 0) /\ UNCHANGED lastRetryAfter

\* The call returns.
FetchEnds == fetch' = NoFetch

FirstOf(events) == IF Len(events) > Limit THEN SubSeq(events, 1, Limit) ELSE events

\* What FetchLogs has once it has read a page of the events that are left.
Read(rest) == fetch.out \o FirstOf(rest)

\* The page has been read; the loop ends at a page without a next link, and at the cap.
LastPage(linked) == ~linked \/ fetch.pages + 1 >= MaxPages

PageRead(rest, linked) ==
    /\ IF LastPage(linked) THEN FetchEnds ELSE fetch' = NewPage(fetch.since, Read(rest), fetch.pages + 1)
    /\ UNCHANGED lastRetryAfter

\* Every attempt but the first comes after a wait.
Backs == fetch.attempt > 0 /\ fetch.wait = NoWait

\* backoffFor takes the Retry-After that is stored and uses it up; where there is none (0)
\* the backoff is exponential.
Backoff ==
    /\ Backs
    /\ fetch' = [fetch EXCEPT !.wait = lastRetryAfter]
    /\ lastRetryAfter' = 0

\* What the server may ask for: nothing, or some time.
retryAfter == {0, 1}

\* The loop goes on to the next attempt, or gives up.
Retry(asked) ==
    IF fetch.attempt + 1 < maxAttempts
    THEN fetch' = [fetch EXCEPT !.attempt = @ + 1, !.asked = asked, !.wait = NoWait]
    ELSE FetchEnds

\* A failed attempt that keeps an earlier wish of the server if it brings none.
AttemptFailsKeeping(asked) ==
    /\ Retry(asked)
    /\ lastRetryAfter' = IF asked > 0 THEN asked ELSE lastRetryAfter

\* An attempt fails for the moment (no answer, 429, 5xx, a page that does not decode).
AttemptFails(asked) == Retry(asked) /\ lastRetryAfter' = asked

\* It fails for good, with any other status: isRetryable says no.
FetchRefused == FetchEnds /\ lastRetryAfter' = 0

\* The page is read, and validateNextURL refuses to follow its link.
NextURLRefused == FetchEnds /\ UNCHANGED lastRetryAfter

-----------------------------------------------------------------------------
\* A retry waits for what the server asked for at the attempt just before it, and only
\* then: "a server-provided Retry-After when we saw one, otherwise exponential backoff"
\* (client.go lines 681-683).  The field that backoffFor reads outlives the call that set
\* it, so a call that gave up leaves its last Retry-After to the calls after it, and none
\* of their retries may take it from there.
WaitsAsAsked == fetch.wait # NoWait => fetch.wait = fetch.asked
=============================================================================
