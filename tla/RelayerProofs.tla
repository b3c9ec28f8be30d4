--------------------------- MODULE RelayerProofs ---------------------------
(***************************************************************************)
(* For any orders, starts, timeout and bound of time: the type invariant   *)
(* of Relayer, the condition of the failover, what an order placed both    *)
(* ways has behind it, and what all deployments but one have.              *)
(***************************************************************************)
EXTENDS Relayer, TLAPS

\* The clock and the last success, which TypeOK compares.
Clock == now \in Nat /\ lastSuccess \in 0..now

\* Only a request that the relayer took is placed by it ...
RelayerPlacesTaken ==
  \A o \in Orders : <<o, "relayer">> \in placed => request[o] = "taken"

\* ... and the EOA client is used for requests that never arrived or timed out.
EoaAfterNoAnswer ==
  \A o \in Orders :
    call[o] = "eoa" \/ <<o, "eoa">> \in placed => request[o] = "unsent" \/ o \in unanswered

RInv == Clock /\ TypeOK /\ RelayerPlacesTaken /\ EoaAfterNoAnswer

-----------------------------------------------------------------------------
LEMMA RInvInit == Init => RInv
  BY RelayerAssumption
  DEF Init, RInv, Clock, TypeOK, RelayerPlacesTaken, EoaAfterNoAnswer, Never

\* Steps of get_or_deploy_safe(): they leave the failover alone.
LEMMA WalletKeepsRInv ==
  ASSUME RInv,
         \E s \in Starts :
           \/ GetOrDeploySafe(s) \/ ReadCache(s) \/ GetDeployed(s) \/ RelayerDeploys(s)
           \/ RelayerRefusesDeploy(s) \/ DeployReturns(s) \/ StoreAddress(s)
  PROVE  RInv' /\ UNCHANGED failover
<1> PICK s \in Starts :
      \/ GetOrDeploySafe(s) \/ ReadCache(s) \/ GetDeployed(s) \/ RelayerDeploys(s)
      \/ RelayerRefusesDeploy(s) \/ DeployReturns(s) \/ StoreAddress(s)
  OBVIOUS
<1>1. UNCHANGED failover
  BY DEF GetOrDeploySafe, ReadCache, GetDeployed, RelayerDeploys, RelayerRefusesDeploy,
         DeployReturns, StoreAddress
<1>2. start' \in [Starts -> {"none", "cache", "lookup", "deploying", "store", "done", "raised"}]
  BY DEF RInv, TypeOK, GetOrDeploySafe, ReadCache, GetDeployed, RelayerDeploys,
         RelayerRefusesDeploy, DeployReturns, StoreAddress
<1>3. QED
  BY <1>1, <1>2
  DEF RInv, Clock, TypeOK, RelayerPlacesTaken, EoaAfterNoAnswer, failover

\* Steps of submit_with_failover() and of the relayer for one order.
LEMMA OrderKeepsRInv ==
  ASSUME RInv, NEW o \in Orders,
         \/ Submit(o) \/ RelayerTakes(o) \/ RelayerRefuses(o) \/ Succeed(o) \/ Refused(o)
         \/ BrokenOff(o) \/ Unreachable(o) \/ StillUnreachable(o) \/ PostByEoa(o)
  PROVE  RInv'
<1> USE RelayerAssumption DEF RInv, Clock
<1>1. CASE Submit(o)
  BY <1>1 DEF Submit, TypeOK, RelayerPlacesTaken, EoaAfterNoAnswer, wallet
<1>2. CASE RelayerTakes(o)
  BY <1>2 DEF RelayerTakes, TypeOK, RelayerPlacesTaken, EoaAfterNoAnswer, wallet
<1>3. CASE RelayerRefuses(o)
  BY <1>3 DEF RelayerRefuses, TypeOK, RelayerPlacesTaken, EoaAfterNoAnswer, wallet
<1>4. CASE Succeed(o)
  BY <1>4 DEF Succeed, TypeOK, RelayerPlacesTaken, EoaAfterNoAnswer, wallet, Never
<1>5. CASE Refused(o)
  BY <1>5 DEF Refused, TypeOK, RelayerPlacesTaken, EoaAfterNoAnswer, wallet
<1>6. CASE Unreachable(o)
  BY <1>6 DEF Unreachable, NoAnswer, TypeOK, RelayerPlacesTaken, EoaAfterNoAnswer, wallet,
              Never
<1>7. CASE StillUnreachable(o)
  BY <1>7 DEF StillUnreachable, NoAnswer, TypeOK, RelayerPlacesTaken, EoaAfterNoAnswer,
              wallet
<1>8. CASE PostByEoa(o)
  BY <1>8 DEF PostByEoa, TypeOK, RelayerPlacesTaken, EoaAfterNoAnswer, wallet
<1>9. CASE BrokenOff(o)
  BY <1>9 DEF BrokenOff, TypeOK, RelayerPlacesTaken, EoaAfterNoAnswer, wallet
<1>10. QED
  BY <1>1, <1>2, <1>3, <1>4, <1>5, <1>6, <1>7, <1>8, <1>9

LEMMA RInvNext == RInv /\ [Next]_vars => RInv'
<1> SUFFICES ASSUME RInv, [Next]_vars PROVE RInv'
  OBVIOUS
<1>1. CASE Tick
  BY <1>1, RelayerAssumption
  DEF Tick, RInv, Clock, TypeOK, RelayerPlacesTaken, EoaAfterNoAnswer, wallet
<1>2. CASE UNCHANGED vars
  BY <1>2
  DEF vars, failover, wallet, RInv, Clock, TypeOK, RelayerPlacesTaken, EoaAfterNoAnswer
<1>3. QED
  BY <1>1, <1>2, OrderKeepsRInv, WalletKeepsRInv DEF Next

LEMMA RInvHolds == Spec => []RInv
  BY RInvInit, RInvNext, PTL DEF Spec

-----------------------------------------------------------------------------
\* auth/relayer.py:114: the failover state and the calls are well formed, and an outage
\* never begins before the last success.
THEOREM TypeCorrect == Spec => []TypeOK
  BY RInvHolds, PTL DEF RInv

OutageLongEnough == now - lastSuccess >= FallbackTimeout

LEMMA LongerAgo ==
  ASSUME NEW end \in Nat, NEW begin \in Nat, NEW since \in Nat, NEW least \in Nat,
         begin <= since, end - since >= least
  PROVE  end - begin >= least
  OBVIOUS

\* An outage counts from a failure that came after the last success.
LEMMA LongOutage ==
  ASSUME RInv, NEW o \in Orders, Unreachable(o), ~eoaActive, eoaActive'
  PROVE  OutageLongEnough
<1>1. /\ now \in Nat /\ lastSuccess \in Nat /\ downSince' \in Nat
      /\ lastSuccess <= downSince'
  BY DEF RInv, Clock, TypeOK, Unreachable, Never
<1>2. now - downSince' >= FallbackTimeout
  BY DEF Unreachable
<1>3. QED
  BY <1>1, <1>2, LongerAgo, RelayerAssumption DEF OutageLongEnough

\* FR-216, auth/relayer.py:165-178: EOA mode begins only after EOA_FALLBACK_TIMEOUT_S
\* without a success, however many calls overlap.
THEOREM FailoverNeedsOutageHolds == Spec => FailoverNeedsOutage
<1>1. RInv /\ [Next]_vars => [~eoaActive /\ eoaActive' => OutageLongEnough]_vars
  <2> SUFFICES ASSUME RInv, Next, ~eoaActive, eoaActive' PROVE OutageLongEnough
    OBVIOUS
  <2>1. PICK o \in Orders : Unreachable(o)
    <3>1. ~UNCHANGED eoaActive
      OBVIOUS
    <3>2. QED
      BY <3>1, WalletKeepsRInv
      DEF Next, Tick, Submit, RelayerTakes, RelayerRefuses, Succeed, Refused,
          BrokenOff, StillUnreachable, PostByEoa, failover
  <2>2. QED
    BY <2>1, LongOutage
<1>2. QED
  BY <1>1, RInvHolds, PTL DEF Spec, FailoverNeedsOutage, OutageLongEnough

\* auth/relayer.py:156-178: an order that both the relayer and the EOA client placed has
\* a request behind it that the relayer took and did not answer in time.
THEOREM PlacedTwiceOnlyUnansweredHolds == Spec => []PlacedTwiceOnlyUnanswered
<1>1. RInv => PlacedTwiceOnlyUnanswered
  BY DEF RInv, RelayerPlacesTaken, EoaAfterNoAnswer, PlacedTwiceOnlyUnanswered
<1>2. QED
  BY <1>1, RInvHolds, PTL

-----------------------------------------------------------------------------
(* The deployment of the Safe. *)

WalletTypeOK ==
  /\ start \in [Starts -> {"none", "cache", "lookup", "deploying", "store", "done", "raised"}]
  /\ deploy \in [Starts -> {"none", "sent", "unsent", "taken", "refused"}]
  /\ \A s \in Starts : deploy[s] # "none" => start[s] \notin {"none", "cache", "lookup"}

Clear(s) == s \in Starts \ doubtful

\* Of the starts without a doubt at most one is at work at a time, a request under way is
\* awaited, and only one has sent a request that is taken or may yet be.
OneAtATime ==
  /\ \A s, t \in Starts : Clear(s) /\ Clear(t) /\ Busy(s) /\ Busy(t) => s = t
  /\ \A s \in Starts : Clear(s) /\ deploy[s] = "sent" => start[s] = "deploying"
  /\ \A s, t \in Starts :
       /\ Clear(s) /\ deploy[s] \in {"sent", "taken"}
       /\ Clear(t) /\ deploy[t] \in {"sent", "taken"}
       => s = t

DInv == WalletTypeOK /\ OneAtATime

LEMMA DInvInit == Init => DInv
  BY DEF Init, DInv, WalletTypeOK, OneAtATime, Busy

LEMMA StartKeepsDInv ==
  ASSUME DInv, NEW s \in Starts,
         \/ GetOrDeploySafe(s) \/ ReadCache(s) \/ RelayerDeploys(s) \/ RelayerRefusesDeploy(s)
         \/ DeployReturns(s) \/ StoreAddress(s)
  PROVE  DInv'
<1> USE DEF DInv, Clear, Busy
<1>1. CASE GetOrDeploySafe(s)
  BY <1>1 DEF GetOrDeploySafe, WalletTypeOK, OneAtATime
<1>2. CASE ReadCache(s)
  BY <1>2 DEF ReadCache, WalletTypeOK, OneAtATime
<1>3. CASE RelayerDeploys(s)
  BY <1>3 DEF RelayerDeploys, WalletTypeOK, OneAtATime
<1>4. CASE RelayerRefusesDeploy(s)
  BY <1>4 DEF RelayerRefusesDeploy, WalletTypeOK, OneAtATime
<1>5. CASE DeployReturns(s)
  BY <1>5 DEF DeployReturns, WalletTypeOK, OneAtATime
<1>6. CASE StoreAddress(s)
  BY <1>6 DEF StoreAddress, WalletTypeOK, OneAtATime
<1>7. QED
  BY <1>1, <1>2, <1>3, <1>4, <1>5, <1>6

\* A start that is told "not deployed" without a doubt met no request of another one.
LEMMA GetDeployedKeepsDInv ==
  ASSUME DInv, NEW s \in Starts, GetDeployed(s)
  PROVE  DInv'
<1>1. start[s] = "lookup" /\ deploy[s] = "none"
  BY DEF GetDeployed, DInv, WalletTypeOK
<1>2. CASE UNCHANGED deploy
  BY <1>1, <1>2 DEF GetDeployed, DInv, WalletTypeOK, OneAtATime, Clear, Busy
<1>3. CASE /\ start' = [start EXCEPT ![s] = "deploying"]
           /\ deploy' = [deploy EXCEPT ![s] = "sent"]
           /\ doubtful' = doubtful \cup {t \in {s} : HasSafe}
  <2>1. WalletTypeOK'
    BY <1>3 DEF DInv, WalletTypeOK
  <2>2. ASSUME NEW t \in Starts, t # s, Clear(s)', Clear(t)'
        PROVE  ~Busy(t) /\ deploy[t] \notin {"sent", "taken"}
    <3>1. Clear(s) /\ Clear(t) /\ ~HasSafe
      BY <1>3, <2>2 DEF Clear
    <3>2. ~Busy(t)
      BY <1>1, <2>2, <3>1 DEF DInv, OneAtATime, Busy
    <3>3. deploy[t] # "sent"
      BY <3>1, <3>2 DEF DInv, OneAtATime, Busy
    <3>4. QED
      BY <3>1, <3>2, <3>3 DEF HasSafe
  <2>3. OneAtATime'
    BY <1>1, <1>3, <2>2 DEF DInv, WalletTypeOK, OneAtATime, Clear, Busy
  <2>4. QED
    BY <2>1, <2>3 DEF DInv
<1>4. QED
  BY <1>2, <1>3 DEF GetDeployed

LEMMA DInvNext == DInv /\ [Next]_vars => DInv'
<1> SUFFICES ASSUME DInv, [Next]_vars PROVE DInv'
  OBVIOUS
<1>1. CASE UNCHANGED wallet
  BY <1>1 DEF wallet, DInv, WalletTypeOK, OneAtATime, Clear, Busy
<1>2. ASSUME \/ Tick \/ UNCHANGED vars
             \/ \E o \in Orders :
                  \/ Submit(o) \/ RelayerTakes(o) \/ RelayerRefuses(o) \/ Succeed(o)
                  \/ Refused(o) \/ BrokenOff(o) \/ Unreachable(o) \/ StillUnreachable(o)
                  \/ PostByEoa(o)
      PROVE  UNCHANGED wallet
  BY <1>2 DEF Tick, vars, Submit, RelayerTakes, RelayerRefuses, Succeed, Refused, BrokenOff,
              Unreachable, StillUnreachable, PostByEoa
<1>3. QED
  BY <1>1, <1>2, StartKeepsDInv, GetDeployedKeepsDInv DEF Next

\* FR-205, auth/relayer.py:94-110: of any two starts that deployed a Safe one overlapped
\* with another, was told "not deployed" of a Safe there was, or gave up on its request
\* before it was taken.
THEOREM DeployedOnceHolds == Spec => []DeployedOnce
<1>1. DInv => DeployedOnce
  BY DEF DInv, OneAtATime, Clear, DeployedOnce
<1>2. QED
  BY <1>1, DInvInit, DInvNext, PTL DEF Spec
=============================================================================
