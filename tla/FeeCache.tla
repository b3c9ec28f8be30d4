------------------------------ MODULE FeeCache ------------------------------
(***************************************************************************)
(* fees/cache.py, FeeRateCache: get(), set(), on_fill(), and the requests  *)
(* its callers make, against an exchange that changes its fee rates.       *)
(*                                                                         *)
(* Time is counted in ticks of ten seconds, the timeout of a request; one  *)
(* that takes longer in all phases together is cut at MaxRequest here.     *)
(* record_miss(), should_exclude(), check_deviation(), invalidate() and    *)
(* fetch_fee_rate() have no caller and are left out.                       *)
(***************************************************************************)
EXTENDS Integers

CONSTANTS
  Tokens, Rates,
  TTL,           \* FEE_CACHE_TTL_S, in ticks
  MaxRequest     \* bound: ticks from a request to its answer or its timeout

ASSUME FeeCacheAssumption ==
  TTL \in Nat \ {0} /\ MaxRequest \in Nat /\ Rates \subseteq Nat

VARIABLES
  now,          \* time.monotonic()
  entries,      \* _entries: token -> [bps, expires], or NoEntry
  requests,     \* fetches under way: [by, token, age]
  rate,         \* the exchange's fee rates
  past          \* the rates changed since: [token, bps, until] (history)

feeVars == <<now, entries, requests, rate, past>>

\* What is not there: no rate, no entry.
None == -1
NoEntry == [bps |-> None, expires |-> -1]

FeeInit ==
  /\ now = 0
  /\ entries = [t \in Tokens |-> NoEntry]
  /\ requests = {}
  /\ rate \in {[t \in Tokens |-> bps] : bps \in Rates}
  /\ past = {}

-----------------------------------------------------------------------------
\* Mutant of Get: an expired entry goes on being served.
GetExpired(t) == entries[t].bps

\* get(): an expired entry is as good as deleted, as nothing else looks at it.
Get(t) == IF now > entries[t].expires THEN None ELSE entries[t].bps

Set(t, bps) == entries' = [entries EXCEPT ![t] = [bps |-> bps, expires |-> now + TTL]]

\* A task asks for the rate of a token and awaits the answer.
Asking(by, t) == [by |-> by, token |-> t, age |-> 0]

\* What the exchange can have answered: its rate now, or one it had after the request.
Answers(r) ==
  {rate[r.token]} \cup
  {p.bps : p \in {q \in past : q.token = r.token /\ q.until >= now - r.age}}

\* _refresh_fee_rate() and on_fill() after the await: the rate is set ...
Returns(r) == \E bps \in Answers(r) : Set(r.token, bps)

\* ... or the error is logged and nothing else changes.
Fails(r) == UNCHANGED entries

RateChanges(t) ==
  /\ rate' \in {[rate EXCEPT ![t] = bps] : bps \in Rates \ {rate[t]}}
  /\ past' = past \cup {[token |-> t, bps |-> rate[t], until |-> now]}
  /\ UNCHANGED <<now, entries, requests>>

TimePasses ==
  /\ \A r \in requests : r.age < MaxRequest
  /\ now' = now + 1
  /\ requests' = {[r EXCEPT !.age = @ + 1] : r \in requests}
  /\ UNCHANGED <<entries, rate, past>>

-----------------------------------------------------------------------------
\* FR-151: however the refresh loop, the fills and the scanner overtake each other,
\* the rate served is one that the exchange charged TTL + MaxRequest ticks ago or later.
ServedRateWasCharged ==
  \A t \in Tokens :
    \/ Get(t) \in {None, rate[t]}
    \/ \E p \in past : p.token = t /\ p.bps = Get(t) /\ now - p.until <= TTL + MaxRequest
=============================================================================
