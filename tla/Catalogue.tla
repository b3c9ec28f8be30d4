----------------------------- MODULE Catalogue -----------------------------
(***************************************************************************)
(* The scanner task and the fee tasks beside it: _fetch_all_markets() and  *)
(* scan_once() of core/control/universe_scanner.py over a listing that     *)
(* changes between two pages, Orchestrator._on_scanner_update() with its   *)
(* fee warm-up and its subscription, _fee_refresh_loop() and on_fill().    *)
(*                                                                         *)
(* A listed market is a record of what the selection looks at.  Mutations  *)
(* and the resolution watchlist are left out: their callbacks are not set. *)
(* The tasks start with start(), whose code after create_task() has no     *)
(* await: the refresh loop finds _running set.                             *)
(***************************************************************************)
EXTENDS FeeCache, FiniteSetsExt, Sequences

CONSTANTS
  Listings,      \* the exchange's lists of markets: [tokens, reward, accepting]
  PageSize,      \* _PAGE_SIZE
  MaxPages,      \* max_pages of _fetch_all_markets()
  MaxMarkets,    \* MM_MAX_MARKETS
  RefreshEvery,  \* max(10, FEE_CACHE_TTL_S - 5), in ticks
  MaxTime, MaxScans, \* bounds
  MaxEvents      \* bound: fills, failures, changes of listing and rates, in all

ASSUME CatalogueAssumption ==
  /\ PageSize \in Nat \ {0} /\ MaxPages \in Nat \ {0} /\ MaxMarkets \in Nat
  /\ RefreshEvery \in 1..TTL

\* A token belongs to one market.
ASSUME ListingsAssumption ==
  /\ IsFiniteSet(Tokens)
  /\ \A l \in Listings :
       /\ l \in Seq([tokens : SUBSET Tokens, reward : Nat, accepting : BOOLEAN])
       /\ \A i, j \in DOMAIN l : i # j => l[i].tokens \cap l[j].tokens = {}

VARIABLES
  listing,     \* what Gamma lists, by volume
  scan,        \* [at, offset, pages, found, fresh] of the scanner task
  markets,     \* the keys of Orchestrator._markets
  subscribed,  \* MarketStreamGateway._subscribed
  refresh,     \* [at, wake, left] of _fee_refresh_loop()
  faithful,    \* no page failed and the listing held since the scan began (history)
  failed,      \* tokens whose last fetch failed (history)
  late,        \* a tick passed while the refresh loop was at work (history)
  scans, events

history == <<faithful, failed, late>>
bounds == <<scans, events>>
catalogueVars == <<listing, scan, markets, subscribed, refresh, history, bounds>>
vars == <<feeVars, catalogueVars>>

Idle == [at |-> "asleep", offset |-> 0, pages |-> 0, found |-> {}, fresh |-> {}]

Init ==
  /\ FeeInit
  /\ listing \in Listings
  /\ scan = Idle /\ markets = {} /\ subscribed = {}
  /\ refresh = [at |-> "asleep", wake |-> RefreshEvery, left |-> {}]
  /\ faithful = TRUE /\ failed = {} /\ late = FALSE
  /\ scans = 0 /\ events = 0

Event == events < MaxEvents /\ events' = events + 1

-----------------------------------------------------------------------------
\* scan_once(), _fetch_all_markets(): the first page is asked for.
StartScan ==
  /\ scan.at = "asleep" /\ scans < MaxScans
  /\ scan' = [Idle EXCEPT !.at = "paging"]
  /\ faithful' = TRUE /\ scans' = scans + 1
  /\ UNCHANGED <<feeVars, listing, markets, subscribed, refresh, failed, late,
                 events>>

\* The page of the listing that is now at the offset.
Page == SubSeq(listing, scan.offset + 1, Min({scan.offset + PageSize, Len(listing)}))

\* Mutant of LastPage: a full page ends the scan as well.
LastPageAlways(page) == TRUE

LastPage(page) == Len(page) < PageSize \/ scan.pages + 1 = MaxPages

\* enrich(), as far as the selection looks at it; "accepting" has no delay either.
Enriched(market, token) ==
  [token |-> token, reward |-> market.reward, accepting |-> market.accepting]

\* One entry per token of each market.
Flattened(page) == UNION {{Enriched(page[i], t) : t \in page[i].tokens} : i \in DOMAIN page}

\* current[token_id] = model: a token listed again replaces its entry.
Merged(found, more) ==
  {e \in found : ~\E new \in more : new.token = e.token} \cup more

PageArrives ==
  /\ scan.at = "paging"
  /\ scan' = [scan EXCEPT !.found = Merged(@, Flattened(Page)),
                          !.offset = @ + PageSize, !.pages = @ + 1,
                          !.at = IF LastPage(Page) THEN "update" ELSE "paging"]
  /\ UNCHANGED <<feeVars, listing, markets, subscribed, refresh, history, bounds>>

\* The scan ends with the pages it has, as if they were the catalogue.
PageFails ==
  /\ scan.at = "paging" /\ Event
  /\ scan' = [scan EXCEPT !.at = "update"]
  /\ faithful' = FALSE
  /\ UNCHANGED <<feeVars, listing, markets, subscribed, refresh, failed, late,
                 scans>>

Relist ==
  /\ Event
  /\ listing' \in Listings \ {listing}
  /\ faithful' = FALSE
  /\ UNCHANGED <<feeVars, scan, markets, subscribed, refresh, failed, late,
                 scans>>

-----------------------------------------------------------------------------
\* The entry's fee rate is the cached one, or 0 if there is none.
FeeOf(e) == IF Get(e.token) = None THEN 0 ELSE Get(e.token)

\* sort(key = (rewards_daily_rate, -fee_rate_bps), reverse); equal keys in any order.
Before(a, b) ==
  a.reward > b.reward \/ (a.reward = b.reward /\ FeeOf(a) < FeeOf(b))

Candidates == {e \in scan.found : e.accepting}

Selections ==
  {s \in SUBSET Candidates :
     /\ Cardinality(s) = Min({Cardinality(Candidates), MaxMarkets})
     /\ \A a \in s, b \in Candidates \ s : ~Before(b, a)}

TokensIn(s) == {e.token : e \in s}

\* _on_scanner_update() up to the warm-up of new tokens, all asked for at once.
Update ==
  /\ scan.at = "update"
  /\ \E s \in Selections :
       LET fresh == TokensIn(s) \ markets IN
       /\ markets' = TokensIn(s)
       /\ requests' = requests \cup {Asking("scan", t) : t \in fresh}
       /\ scan' = IF fresh = {} THEN Idle
                  ELSE [Idle EXCEPT !.at = "warming", !.fresh = fresh]
  /\ UNCHANGED <<now, entries, rate, past, listing, subscribed, refresh,
                 history, bounds>>

Waiting(by) == \E r \in requests : r.by = by

\* Mutant of Subscribe: only tokens whose rate could be fetched.
SubscribeWarm ==
  /\ scan.at = "warming" /\ ~Waiting("scan")
  /\ subscribed' = subscribed \cup (scan.fresh \ failed)
  /\ scan' = Idle
  /\ UNCHANGED <<feeVars, listing, markets, refresh, history, bounds>>

\* The gateway remembers the tokens before it sends them: a dead socket raises into
\* the scanner loop, which logs it and sleeps.
Subscribe ==
  /\ scan.at = "warming" /\ ~Waiting("scan")
  /\ subscribed' = subscribed \cup scan.fresh
  /\ scan' = Idle
  /\ UNCHANGED <<feeVars, listing, markets, refresh, history, bounds>>

-----------------------------------------------------------------------------
\* Mutant of Wake: only the tokens that have no rate any more.
WakeForMissing ==
  /\ refresh.at = "asleep" /\ now >= refresh.wake
  /\ refresh' = [at |-> "cycle", wake |-> 0, left |-> {t \in markets : Get(t) = None}]
  /\ UNCHANGED <<feeVars, listing, scan, markets, subscribed, history, bounds>>

\* sleep() is over: list(self._markets) is taken once for the whole cycle.
Wake ==
  /\ refresh.at = "asleep" /\ now >= refresh.wake
  /\ refresh' = [at |-> "cycle", wake |-> 0, left |-> markets]
  /\ UNCHANGED <<feeVars, listing, scan, markets, subscribed, history, bounds>>

\* The next token's rate is asked for; the 0.05 s between two tokens are no tick.
RefreshNext(t) ==
  /\ refresh.at = "cycle" /\ ~Waiting("refresh") /\ t \in refresh.left
  /\ refresh' = [refresh EXCEPT !.left = @ \ {t}]
  /\ requests' = requests \cup {Asking("refresh", t)}
  /\ UNCHANGED <<now, entries, rate, past, listing, scan, markets,
                 subscribed, history, bounds>>

SleepAgain ==
  /\ refresh.at = "cycle" /\ ~Waiting("refresh") /\ refresh.left = {}
  /\ refresh' = [refresh EXCEPT !.at = "asleep", !.wake = now + RefreshEvery]
  /\ UNCHANGED <<feeVars, listing, scan, markets, subscribed, history, bounds>>

\* _handle_fill_event() ends with on_fill(); the fill consumer awaits it.
Fill(t) ==
  /\ Event /\ t \in markets /\ ~Waiting("fill")
  /\ requests' = requests \cup {Asking("fill", t)}
  /\ UNCHANGED <<now, entries, rate, past, listing, scan, markets,
                 subscribed, refresh, history, scans>>

FetchReturns(r) ==
  /\ Returns(r)
  /\ requests' = requests \ {r}
  /\ failed' = failed \ {r.token}
  /\ UNCHANGED <<now, rate, past, listing, scan, markets, subscribed,
                 refresh, faithful, late, bounds>>

FetchFails(r) ==
  /\ Fails(r) /\ Event
  /\ requests' = requests \ {r}
  /\ failed' = failed \cup {r.token}
  /\ UNCHANGED <<now, rate, past, listing, scan, markets, subscribed,
                 refresh, faithful, late, scans>>

\* The event loop wakes the refresh loop on time; time passes in its cycle too.
Tick ==
  /\ now < MaxTime
  /\ refresh.at = "asleep" => now < refresh.wake
  /\ TimePasses
  /\ late' = (late \/ refresh.at = "cycle")
  /\ UNCHANGED <<listing, scan, markets, subscribed, refresh, faithful, failed, bounds>>

ExchangeReprices(t) ==
  /\ Event /\ RateChanges(t)
  /\ UNCHANGED <<listing, scan, markets, subscribed, refresh, history, scans>>

Next ==
  \/ StartScan \/ PageArrives \/ PageFails \/ Relist \/ Update \/ Subscribe
  \/ Wake \/ SleepAgain \/ Tick
  \/ \E t \in Tokens : RefreshNext(t) \/ Fill(t) \/ ExchangeReprices(t)
  \/ \E r \in requests : FetchReturns(r) \/ FetchFails(r)

Spec == Init /\ [][Next]_vars

-----------------------------------------------------------------------------
\* What a scan can see of the listing.
Listed == Flattened(SubSeq(listing, 1, Min({MaxPages * PageSize, Len(listing)})))

\* FR-101, orchestrator.py:371: after a scan that met no error and no change of the
\* listing, the registry is full of tokens that accept orders, or holds all of them,
\* and no token left out has a higher reward.
RegistryIsBest ==
  faithful /\ scans > 0 /\ scan.at \in {"warming", "asleep"} =>
    LET eligible == {e \in Listed : e.accepting}
        chosen == {e \in eligible : e.token \in markets} IN
    /\ markets = TokensIn(chosen)
    /\ Cardinality(markets) = MaxMarkets \/ chosen = eligible
    /\ \A a \in chosen, b \in eligible \ chosen : a.reward >= b.reward

\* A token of the registry is subscribed to, or its warm-up is under way: no error of
\* a page, a fetch or a socket leaves one that no later scan subscribes.
RegisteredAreSubscribed ==
  \A t \in markets : t \in subscribed \/ (scan.at = "warming" /\ t \in scan.fresh)

\* NFR-106: with fetches that neither fail nor take time, every token of the registry
\* has a rate from its warm-up on, whatever scans and refresh cycles interleave.
RegisteredHaveRates ==
  \A t \in markets :
    \/ Get(t) # None \/ t \in failed \/ late
    \/ \E r \in requests : r.token = t /\ r.by = "scan"
=============================================================================
