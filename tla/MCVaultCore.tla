---------------------------- MODULE MCVaultCore ----------------------------
(***************************************************************************)
(* Small instances of VaultCore for TLC.                                   *)
(***************************************************************************)
EXTENDS VaultCore

CONSTANTS c, m1, weth

\* Bound: one run tells two stories, kept apart by the clock.  Members come and
\* go up to LastExitTime; from SwapTime on a founded vault
\* rebalances and then takes one more deposit.
LastExitTime == 3
SwapTime == 12

\* A founded vault: its members deposited a second earlier in some split of the
\* founding cash, and a rebalance has since turned part of it into the basket
\* (idle and assets); CoreInit leads to every one of these states when the venue
\* gave as much.
Founded(time, cash, idle, assets) ==
    /\ now = time
    /\ costBasisUsdc \in {f \in [Member -> 0..cash] :
                           SumFunctionOnSet(f, Member) = cash}
    /\ sharesOf = [m \in Member |-> costBasisUsdc[m] * UsdcScalar]
    /\ queuedExitShares = [m \in Member |-> 0]
    /\ totalShares = cash * UsdcScalar
    /\ totalQueuedShares = 0
    /\ holderCount = Cardinality({m \in Member : sharesOf[m] > 0})
    /\ lastDepositTime = [m \in Member |-> IF sharesOf[m] > 0 THEN time - 1 ELSE 0]
    /\ idleUsdc = idle
    /\ assetBalance = assets
    /\ pendingDeposit = [m \in Member |-> NoDeposit] /\ totalPendingUsdc = 0
    /\ skipOptIn = [m \in Member |-> sharesOf[m] > 0]
    /\ windowCleared = skipOptIn
    /\ claimable = [w \in Payee |-> [t \in Token |-> 0]]
    /\ held = [t \in Token |-> Balance(t)]
    /\ donated = [t \in Token |-> 0]

ComingAndGoing ==
    /\ \/ CoreInit
       \/ /\ Founded(2, 4, 3, [a \in Asset |-> IF a = weth THEN 2 ELSE 0])
          /\ quote \in [Asset -> Prices]
    /\ quote[weth] # 3

Rebalancing ==
    /\ Founded(SwapTime, 3, 2, [a \in Asset |-> 2])
    /\ quote \in [Asset -> {2, 3}]

StorySpec == (ComingAndGoing \/ Rebalancing) /\ [][CoreNext]_coreVars

\* Bound: each story takes only its own steps.
ToldApart ==
    IF now < SwapTime
    THEN /\ now' <= LastExitTime /\ donated' = donated
         /\ quote'[weth] # 3
    ELSE /\ \A m \in Member : sharesOf'[m] >= sharesOf[m]
         /\ queuedExitShares' = queuedExitShares
         /\ \A a \in Asset : quote'[a] \in {2, 3}

\* Bound: the vault never holds more of a token than this, so deposits that are
\* cancelled and escrowed again and again end somewhere.
FewTokens == \A t \in Token : held[t] <= (IF now < SwapTime THEN 5 ELSE 4)
=============================================================================
