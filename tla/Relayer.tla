------------------------------- MODULE Relayer -------------------------------
(***************************************************************************)
(* auth/relayer.py: submit_with_failover(), called for orders that may     *)
(* overlap, and get_or_deploy_safe(), called by starts that may overlap.   *)
(* The program makes a RelayClient and calls neither yet; here the caller  *)
(* is that of tests/unit/test_relayer.py, and submits an order once.       *)
(*                                                                         *)
(* The relayer takes a request, refuses it with an HTTP error, cannot be   *)
(* reached, or does not answer in time, or with something else, although   *)
(* it takes the request before or after.  Alerts are left out: none        *)
(* changes state, and the Alerter catches its own errors.                  *)
(***************************************************************************)
EXTENDS Integers

CONSTANTS
  Orders, Starts,
  FallbackTimeout,   \* EOA_FALLBACK_TIMEOUT_S, in ticks
  MaxTime            \* bound: ticks

ASSUME RelayerAssumption == FallbackTimeout \in Nat \ {0} /\ MaxTime \in Nat

VARIABLES
  now,          \* time.monotonic()
  downSince,    \* relayer_down_since, or Never
  eoaActive,
  call,         \* order -> where its submit_with_failover() is
  request,      \* order -> what became of its request to the relayer
  placed,       \* what the exchange got, as <<order, way>>
  lastSuccess,  \* when a call last got the relayer's success (history)
  unanswered,   \* orders whose request to the relayer timed out (history)
  start,        \* start -> where its get_or_deploy_safe() is
  deploy,       \* start -> what became of its deploy request
  cached,       \* wallet:safe_address is in Redis
  doubtful      \* starts that may deploy beside another deployment (history): begun
                \* while another was at work, told "not deployed" of a Safe there is,
                \* or gone without waiting for what becomes of their request

failover == <<now, downSince, eoaActive, call, request, placed, lastSuccess, unanswered>>
wallet == <<start, deploy, cached, doubtful>>
vars == <<failover, wallet>>

Never == -1

Init ==
  /\ now = 0 /\ downSince = Never /\ eoaActive = FALSE
  /\ call = [o \in Orders |-> "none"] /\ request = [o \in Orders |-> "none"]
  /\ placed = {} /\ lastSuccess = 0 /\ unanswered = {}
  /\ start = [s \in Starts |-> "none"] /\ deploy = [s \in Starts |-> "none"]
  /\ cached = FALSE /\ doubtful = {}

Tick ==
  /\ now < MaxTime
  /\ now' = now + 1
  /\ UNCHANGED <<downSince, eoaActive, call, request, placed, lastSuccess, unanswered, wallet>>

-----------------------------------------------------------------------------
\* Every submission goes to the relayer first: as a probe while EOA is active.
Submit(o) ==
  /\ call[o] = "none"
  /\ call' = [call EXCEPT ![o] = IF eoaActive THEN "probe" ELSE "relayer"]
  /\ request' = [request EXCEPT ![o] = "sent"]
  /\ UNCHANGED <<now, downSince, eoaActive, placed, lastSuccess, unanswered, wallet>>

\* The relayer takes or refuses a request, at any time after it was sent.
RelayerTakes(o) ==
  /\ request[o] = "sent"
  /\ request' = [request EXCEPT ![o] = "taken"]
  /\ placed' = placed \cup {<<o, "relayer">>}
  /\ UNCHANGED <<now, downSince, eoaActive, call, lastSuccess, unanswered, wallet>>

RelayerRefuses(o) ==
  /\ request[o] = "sent"
  /\ request' = [request EXCEPT ![o] = "refused"]
  /\ UNCHANGED <<now, downSince, eoaActive, call, placed, lastSuccess, unanswered, wallet>>

\* Mutant of Succeed: after the probe the order goes to the EOA client too.
SucceedAndPost(o) ==
  /\ call[o] \in {"relayer", "probe"} /\ request[o] = "taken"
  /\ call' = [call EXCEPT ![o] = IF @ = "probe" THEN "eoa" ELSE "done"]
  /\ eoaActive' = IF call[o] = "probe" THEN FALSE ELSE eoaActive
  /\ downSince' = Never
  /\ lastSuccess' = now
  /\ UNCHANGED <<now, request, placed, unanswered, wallet>>

\* execute() returned: the window is cleared, a probe ends EOA mode.
Succeed(o) ==
  /\ call[o] \in {"relayer", "probe"} /\ request[o] = "taken"
  /\ call' = [call EXCEPT ![o] = "done"]
  /\ eoaActive' = IF call[o] = "probe" THEN FALSE ELSE eoaActive
  /\ downSince' = Never
  /\ lastSuccess' = now
  /\ UNCHANGED <<now, request, placed, unanswered, wallet>>

\* raise_for_status(): an answer, so neither an outage nor a recovery.
Refused(o) ==
  /\ call[o] \in {"relayer", "probe"} /\ request[o] = "refused"
  /\ call' = [call EXCEPT ![o] = "raised"]
  /\ UNCHANGED <<now, downSince, eoaActive, request, placed, lastSuccess, unanswered, wallet>>

\* Any other error of the connection, or an answer that is no JSON: what became of the
\* request is not known, and neither is it an outage.
BrokenOff(o) ==
  /\ call[o] \in {"relayer", "probe"}
  /\ call' = [call EXCEPT ![o] = "raised"]
  /\ UNCHANGED <<now, downSince, eoaActive, request, placed, lastSuccess, unanswered, wallet>>

\* ConnectError (the request never arrives) or TimeoutException (it may yet, or has).
NoAnswer(o) ==
  /\ call[o] \in {"relayer", "probe"} /\ request[o] # "refused"
  /\ \/ /\ request[o] = "sent" /\ request' = [request EXCEPT ![o] = "unsent"]
        /\ UNCHANGED unanswered
     \/ UNCHANGED request /\ unanswered' = unanswered \cup {o}

\* Mutant of Unreachable: one failure is an outage.
UnreachableAtOnce(o) ==
  /\ call[o] = "relayer" /\ NoAnswer(o)
  /\ downSince' = IF downSince = Never THEN now ELSE downSince
  /\ eoaActive' = TRUE
  /\ call' = [call EXCEPT ![o] = "eoa"]
  /\ UNCHANGED <<now, placed, lastSuccess, wallet>>

\* The normal path fails: the outage begins, goes on, or has lasted long enough.
Unreachable(o) ==
  /\ call[o] = "relayer" /\ NoAnswer(o)
  /\ downSince' = IF downSince = Never THEN now ELSE downSince
  /\ IF now - downSince' >= FallbackTimeout
     THEN eoaActive' = TRUE /\ call' = [call EXCEPT ![o] = "eoa"]
     ELSE UNCHANGED eoaActive /\ call' = [call EXCEPT ![o] = "raised"]
  /\ UNCHANGED <<now, placed, lastSuccess, wallet>>

StillUnreachable(o) ==
  /\ call[o] = "probe" /\ NoAnswer(o)
  /\ call' = [call EXCEPT ![o] = "eoa"]
  /\ UNCHANGED <<now, downSince, eoaActive, placed, lastSuccess, wallet>>

\* create_and_post_order(), whose error is the caller's.
PostByEoa(o) ==
  /\ call[o] = "eoa"
  /\ \/ call' = [call EXCEPT ![o] = "done"] /\ placed' = placed \cup {<<o, "eoa">>}
     \/ call' = [call EXCEPT ![o] = "raised"] /\ UNCHANGED placed
  /\ UNCHANGED <<now, downSince, eoaActive, request, lastSuccess, unanswered, wallet>>

-----------------------------------------------------------------------------
HasSafe == \E s \in Starts : deploy[s] = "taken"

Busy(s) == start[s] \notin {"none", "done", "raised"}

GetOrDeploySafe(s) ==
  /\ start[s] = "none"
  /\ start' = [start EXCEPT ![s] = "cache"]
  /\ doubtful' = doubtful \cup {t \in {s} : \E other \in Starts : Busy(other)}
  /\ UNCHANGED <<failover, deploy, cached>>

\* redis_client.get(), which raises if Redis is down.
ReadCache(s) ==
  /\ start[s] = "cache"
  /\ start' \in {[start EXCEPT ![s] = IF cached THEN "done" ELSE "lookup"],
                 [start EXCEPT ![s] = "raised"]}
  /\ UNCHANGED <<failover, deploy, cached, doubtful>>

\* Mutant of GetDeployed: not cached means not deployed.
NeverDeployed(s) ==
  /\ start[s] = "lookup"
  /\ start' = [start EXCEPT ![s] = "deploying"]
  /\ deploy' = [deploy EXCEPT ![s] = "sent"]
  /\ UNCHANGED <<failover, cached, doubtful>>

\* get_deployed(): the address; or None, which reads "not deployed" and is returned as
\* well without an answer, for any status but 200 and for a 200 without an address; or
\* an error that is none of those.
GetDeployed(s) ==
  /\ start[s] = "lookup"
  /\ \/ /\ HasSafe
        /\ start' = [start EXCEPT ![s] = "store"]
        /\ UNCHANGED <<deploy, doubtful>>
     \/ /\ start' = [start EXCEPT ![s] = "deploying"]
        /\ deploy' = [deploy EXCEPT ![s] = "sent"]
        /\ doubtful' = doubtful \cup {t \in {s} : HasSafe}
     \/ /\ start' = [start EXCEPT ![s] = "raised"]
        /\ UNCHANGED <<deploy, doubtful>>
  /\ UNCHANGED <<failover, cached>>

RelayerDeploys(s) ==
  /\ deploy[s] = "sent"
  /\ deploy' = [deploy EXCEPT ![s] = "taken"]
  /\ UNCHANGED <<failover, start, cached, doubtful>>

RelayerRefusesDeploy(s) ==
  /\ deploy[s] = "sent"
  /\ deploy' = [deploy EXCEPT ![s] = "refused"]
  /\ UNCHANGED <<failover, start, cached, doubtful>>

\* deploy(): the address, or an exception, be it for an answer, for a connection never
\* made, or for one given up while the relayer may yet take the request.
DeployReturns(s) ==
  /\ start[s] = "deploying"
  /\ \/ /\ deploy[s] = "taken" /\ start' = [start EXCEPT ![s] = "store"]
        /\ UNCHANGED <<deploy, doubtful>>
     \/ /\ start' = [start EXCEPT ![s] = "raised"]
        /\ \/ deploy[s] # "sent" /\ UNCHANGED <<deploy, doubtful>>
           \/ /\ deploy[s] = "sent" /\ deploy' = [deploy EXCEPT ![s] = "unsent"]
              /\ UNCHANGED doubtful
           \/ deploy[s] = "sent" /\ doubtful' = doubtful \cup {s} /\ UNCHANGED deploy
  /\ UNCHANGED <<failover, cached>>

StoreAddress(s) ==
  /\ start[s] = "store"
  /\ \/ start' = [start EXCEPT ![s] = "done"] /\ cached' = TRUE
     \/ start' = [start EXCEPT ![s] = "raised"] /\ UNCHANGED cached
  /\ UNCHANGED <<failover, deploy, doubtful>>

Next ==
  \/ Tick
  \/ \E o \in Orders :
       \/ Submit(o) \/ RelayerTakes(o) \/ RelayerRefuses(o) \/ Succeed(o) \/ Refused(o)
       \/ BrokenOff(o) \/ Unreachable(o) \/ StillUnreachable(o) \/ PostByEoa(o)
  \/ \E s \in Starts :
       \/ GetOrDeploySafe(s) \/ ReadCache(s) \/ GetDeployed(s) \/ RelayerDeploys(s)
       \/ RelayerRefusesDeploy(s) \/ DeployReturns(s) \/ StoreAddress(s)

Spec == Init /\ [][Next]_vars

-----------------------------------------------------------------------------
\* Types, and EOA mode has an outage or a success that came in late behind it.
TypeOK ==
  /\ downSince \in {Never} \cup 0..now
  /\ call \in [Orders -> {"none", "relayer", "probe", "eoa", "done", "raised"}]
  /\ request \in [Orders -> {"none", "sent", "unsent", "taken", "refused"}]
  /\ placed \subseteq Orders \X {"relayer", "eoa"} /\ unanswered \subseteq Orders
  /\ start \in [Starts -> {"none", "cache", "lookup", "deploying", "store", "done", "raised"}]
  /\ \A o \in Orders : call[o] = "none" <=> request[o] = "none"
  /\ downSince # Never => lastSuccess <= downSince

\* FR-216: the EOA takes over only when for EOA_FALLBACK_TIMEOUT_S no call has had a
\* success from the relayer, however the calls overlap.
FailoverNeedsOutage ==
  [][~eoaActive /\ eoaActive' => now - lastSuccess >= FallbackTimeout]_vars

\* An order gets to the exchange both ways only if the relayer took it and its answer
\* did not come in time: never after a refusal, a success or a lost connection.
PlacedTwiceOnlyUnanswered ==
  \A o \in Orders :
    <<o, "relayer">> \in placed /\ <<o, "eoa">> \in placed => o \in unanswered

\* FR-205 (relayer.py:94): "deploy() is called only once".  Of any two starts that deployed
\* a Safe one has a reason of its own: it began while another was at work, its lookup was
\* told "not deployed" of a Safe there is (no answer, an error status, no address), or it
\* gave up on its request before the relayer took it.
DeployedOnce ==
  \A s, t \in Starts :
    s # t /\ deploy[s] = "taken" /\ deploy[t] = "taken" => s \in doubtful \/ t \in doubtful
=============================================================================
