----------------------------- MODULE VaultCore -----------------------------
(***************************************************************************)
(* The money of one root vault without children: deposits and their        *)
(* observation window, exits in kind, the escrow of transfers that fail,   *)
(* and the legs of a rebalance, on top of the shares of VaultShares.       *)
(*                                                                         *)
(* Every external answer is a free choice: governance's (`pending'), the   *)
(* fee engine's, the venue's, and whether a transfer lands.  USDC amounts  *)
(* are in units of the token; `Wad' values are UsdcScalar times finer, and *)
(* a share unit is one wad.  Every division rounds down, as in the code.   *)
(***************************************************************************)
EXTENDS VaultShares, FiniteSetsExt, Functions

CONSTANTS
    Usdc, Asset,         \* the settlement token; basketAssets
    FeeEngine,           \* the one account besides the members that is paid
    UsdcScalar, AssetUnit, WAD,
    PerfFeeDivisor,      \* 10 in the code: the fee is at most gain / 10
    ObservationWindow, MinDeposit, CapacityCap,
    ExitFeeMaxBps, ExitFeeDecayPeriod, MaxSlippageBps,
    DepositAmounts,      \* bound: what a deposit may bring
    Prices,              \* bound: what the oracle may quote
    DonationBound,       \* bound: how much of a token strangers send
    RebalanceTimes,      \* bound: the seconds in which a rebalance executes
    OutBound,            \* bound: the most a swap returns
    QuoteTimes,          \* bound: the seconds in which prices move
    Blockable            \* bound: the payees a transfer may fail for

Token == Asset \union {Usdc}
Payee == Member \union {FeeEngine}
Stale == 0               \* priceWad reverts; it never answers 0

ASSUME CoreAssumption ==
    /\ Usdc \notin Asset /\ FeeEngine \notin Member /\ IsFiniteSet(Asset)
    /\ \A n \in {UsdcScalar, AssetUnit, WAD, PerfFeeDivisor, ExitFeeDecayPeriod} :
          n \in Nat \ {0}
    /\ \A n \in {ObservationWindow, MinDeposit, CapacityCap, DonationBound, OutBound} :
          n \in Nat
    /\ ExitFeeMaxBps \in 0..BPS /\ MaxSlippageBps \in 1..BPS
    /\ DepositAmounts \subseteq Nat \ {0} /\ Prices \subseteq Nat
    /\ Blockable \subseteq Payee

VARIABLES
    idleUsdc, assetBalance,            \* what the vault counts as its own
    pendingDeposit, totalPendingUsdc,
    windowCleared, skipOptIn,
    costBasisUsdc, lastDepositTime,
    claimable,                         \* payee -> token -> escrowed amount
    quote,                             \* the oracle's answer for each asset
    held,                              \* token.balanceOf(vault)
    donated                            \* history: what strangers sent the vault

holdings == <<idleUsdc, assetBalance>>
deposits == <<pendingDeposit, totalPendingUsdc, windowCleared, skipOptIn>>
basis == <<costBasisUsdc, lastDepositTime>>
tokens == <<claimable, held>>
coreVars == <<now, stakeVars, holdings, deposits, basis, tokens, quote, donated>>

NoDeposit == [amount |-> 0, availableAt |-> 0]

-----------------------------------------------------------------------------
AssetValueWad(a, n) == (n * quote[a]) \div AssetUnit

ValueWad(t, n) == IF t = Usdc THEN n * UsdcScalar ELSE AssetValueWad(t, n)

\* Nothing the vault holds is quoted stale: navWad does not revert.
Priced == \A a \in Asset : assetBalance[a] # 0 => quote[a] # Stale

NavWad == idleUsdc * UsdcScalar
          + SumFunction([a \in Asset |-> AssetValueWad(a, assetBalance[a])])

ExitFeeBps(m) ==
    LET tenure == now - lastDepositTime[m] IN
    IF tenure >= ExitFeeDecayPeriod THEN 0
    ELSE (ExitFeeMaxBps * (ExitFeeDecayPeriod - tenure)) \div ExitFeeDecayPeriod

\* Fault: the last member pays the fee too, to nobody.
KeepBpsOfAll(m) == BPS - ExitFeeBps(m)

\* What the exiter keeps of a slice; a sole holder pays no fee.
KeepBps(m) == IF sharesOf[m] = totalShares THEN BPS ELSE BPS - ExitFeeBps(m)

-----------------------------------------------------------------------------
CoreInit ==
    /\ SharesInit
    /\ idleUsdc = 0 /\ assetBalance = [a \in Asset |-> 0]
    /\ pendingDeposit = [m \in Member |-> NoDeposit] /\ totalPendingUsdc = 0
    /\ windowCleared = [m \in Member |-> FALSE]
    /\ skipOptIn = [m \in Member |-> FALSE]
    /\ costBasisUsdc = [m \in Member |-> 0]
    /\ lastDepositTime = [m \in Member |-> 0]
    /\ claimable = [w \in Payee |-> [t \in Token |-> 0]]
    /\ quote \in [Asset -> Prices]
    /\ held = [t \in Token |-> 0]
    /\ donated = [t \in Token |-> 0]

\* Fault: the minted shares are rounded up.
MintUp(m, amount) ==
    LET minted == IF totalShares = 0 THEN amount * UsdcScalar
                  ELSE (amount * UsdcScalar * totalShares + NavWad - 1) \div NavWad
    IN  /\ totalShares = 0 \/ (Priced /\ NavWad > 0)
        /\ minted > 0
        /\ MintShares(m, minted)
        /\ idleUsdc' = idleUsdc + amount
        /\ costBasisUsdc' = [costBasisUsdc EXCEPT ![m] = @ + amount]
        /\ lastDepositTime' = [lastDepositTime EXCEPT ![m] = now]
        /\ UNCHANGED assetBalance

\* _mintShares: at the present NAV, or one to one for the first shares.
Mint(m, amount) ==
    LET minted == IF totalShares = 0 THEN amount * UsdcScalar
                  ELSE (amount * UsdcScalar * totalShares) \div NavWad
    IN  /\ totalShares = 0 \/ (Priced /\ NavWad > 0)
        /\ minted > 0
        /\ MintShares(m, minted)
        /\ idleUsdc' = idleUsdc + amount
        /\ costBasisUsdc' = [costBasisUsdc EXCEPT ![m] = @ + amount]
        /\ lastDepositTime' = [lastDepositTime EXCEPT ![m] = now]
        /\ UNCHANGED assetBalance

\* A cleared or present member's deposit mints at once; a first one waits.
Deposit(m, amount) ==
    /\ amount >= MinDeposit
    /\ Priced
    /\ CapacityCap # 0 => NavWad \div UsdcScalar + totalPendingUsdc + amount <= CapacityCap
    /\ held' = [held EXCEPT ![Usdc] = @ + amount]
    /\ \/ /\ windowCleared[m] \/ sharesOf[m] > 0
          /\ Mint(m, amount)
          /\ UNCHANGED deposits
       \/ /\ ~windowCleared[m] /\ sharesOf[m] = 0
          /\ pendingDeposit[m].amount = 0
          /\ pendingDeposit' = [pendingDeposit EXCEPT ![m] =
               [amount |-> amount, availableAt |-> now + ObservationWindow]]
          /\ totalPendingUsdc' = totalPendingUsdc + amount
          /\ UNCHANGED <<now, stakeVars, holdings, basis, windowCleared, skipOptIn>>
    /\ UNCHANGED <<claimable, quote, donated>>

\* _activatePending
ActivatePending(m) ==
    /\ pendingDeposit' = [pendingDeposit EXCEPT ![m] = NoDeposit]
    /\ totalPendingUsdc' = totalPendingUsdc - pendingDeposit[m].amount
    /\ windowCleared' = [windowCleared EXCEPT ![m] = TRUE]
    /\ Mint(m, pendingDeposit[m].amount)

Activate(m) ==
    /\ pendingDeposit[m].amount > 0
    /\ now >= pendingDeposit[m].availableAt
    /\ ActivatePending(m)
    /\ UNCHANGED <<skipOptIn, tokens, quote, donated>>

SkipWindow(m) ==
    /\ ~skipOptIn[m]
    /\ skipOptIn' = [skipOptIn EXCEPT ![m] = TRUE]
    /\ \/ pendingDeposit[m].amount > 0 /\ ActivatePending(m)
       \/ /\ pendingDeposit[m].amount = 0
          /\ windowCleared' = [windowCleared EXCEPT ![m] = TRUE]
          /\ UNCHANGED <<now, stakeVars, holdings, basis, pendingDeposit, totalPendingUsdc>>
    /\ UNCHANGED <<tokens, quote, donated>>

\* Fault: what a failed transfer leaves behind is nobody's.
PayOrForget(due) ==
    \E failed \in SUBSET {wt \in Blockable \X Token : due[wt[1]][wt[2]] > 0} :
      LET Kept(w, t) == IF <<w, t>> \in failed THEN due[w][t] ELSE 0 IN
      /\ UNCHANGED claimable
      /\ held' = [t \in Token |->
                    held[t] - SumFunction([w \in Payee |-> due[w][t] - Kept(w, t)])]

\* _payOrEscrow for every payment of one call: due[w][t] goes to w, or is put
\* aside for w if the transfer fails.
PayOrEscrow(due) ==
    \E failed \in SUBSET {wt \in Blockable \X Token : due[wt[1]][wt[2]] > 0} :
      LET Kept(w, t) == IF <<w, t>> \in failed THEN due[w][t] ELSE 0 IN
      /\ claimable' = [w \in Payee |-> [t \in Token |-> claimable[w][t] + Kept(w, t)]]
      /\ held' = [t \in Token |->
                    held[t] - SumFunction([w \in Payee |-> due[w][t] - Kept(w, t)])]

CancelPending(m) ==
    LET due == [w \in Payee |-> [t \in Token |->
                  IF w = m /\ t = Usdc THEN pendingDeposit[m].amount ELSE 0]]
    IN  /\ pendingDeposit[m].amount > 0
        /\ pendingDeposit' = [pendingDeposit EXCEPT ![m] = NoDeposit]
        /\ totalPendingUsdc' = totalPendingUsdc - pendingDeposit[m].amount
        /\ PayOrEscrow(due)
        /\ UNCHANGED <<now, stakeVars, holdings, windowCleared, skipOptIn, basis,
                       quote, donated>>

-----------------------------------------------------------------------------
\* Fault: the slice is taken of the supply that remains.
SliceOfRest(m, burn, n) ==
    IF totalShares = burn THEN n
    ELSE Min({n, (n * burn * KeepBps(m)) \div ((totalShares - burn) * BPS)})

\* The part of balance n that burn shares of m take out of the vault.
Slice(m, burn, n) == (n * burn * KeepBps(m)) \div (totalShares * BPS)

UsdcPay(m, burn) == Slice(m, burn, idleUsdc * UsdcScalar) \div UsdcScalar

PayoutWad(m, burn) ==
    UsdcPay(m, burn) * UsdcScalar
    + SumFunction([a \in Asset |-> AssetValueWad(a, Slice(m, burn, assetBalance[a]))])

\* Fault: the basis is removed in proportion to the whole supply.
BasisOfSupply(m, burn) == (costBasisUsdc[m] * burn) \div totalShares

BasisRemoved(m, burn) == (costBasisUsdc[m] * burn) \div sharesOf[m]

\* The fee engine answers anything or nothing; the clamp holds it to a tenth of
\* the gain.
PossibleFees(m, burn) ==
    LET payout == PayoutWad(m, burn) \div UsdcScalar
        removed == BasisRemoved(m, burn)
    IN  IF payout > removed THEN 0..((payout - removed) \div PerfFeeDivisor) ELSE {0}

\* The rest of _settleExit: the exiter is paid in kind out of every holding, and
\* the fee is one fraction of each leg.
SettleMoney(m, burn) ==
    \E perfFee \in PossibleFees(m, burn) :
      LET payout == PayoutWad(m, burn)
          feeFracWad == IF payout = 0 THEN 0 ELSE (perfFee * UsdcScalar * WAD) \div payout
          leg == [t \in Token |-> IF t = Usdc THEN UsdcPay(m, burn)
                                  ELSE Slice(m, burn, assetBalance[t])]
          fee == [t \in Token |-> (leg[t] * feeFracWad) \div WAD]
          due == [w \in Payee |-> [t \in Token |->
                    IF w = m THEN leg[t] - fee[t]
                    ELSE IF w = FeeEngine THEN fee[t] ELSE 0]]
      IN  /\ \A a \in Asset : leg[a] > 0 => quote[a] # Stale
          /\ idleUsdc' = idleUsdc - leg[Usdc]
          /\ assetBalance' = [a \in Asset |-> assetBalance[a] - leg[a]]
          /\ costBasisUsdc' = [costBasisUsdc EXCEPT ![m] = @ - BasisRemoved(m, burn)]
          /\ PayOrEscrow(due)
          /\ UNCHANGED <<lastDepositTime, deposits, quote, donated>>

\* requestExit while nothing is pending (Mode I)
ExitNow(m, burn) == RequestExit(m, burn, FALSE) /\ SettleMoney(m, burn)

\* requestExit while an execution is pending (Mode F)
QueueExit(m, burn) ==
    /\ RequestExit(m, burn, TRUE)
    /\ UNCHANGED <<holdings, deposits, basis, tokens, quote, donated>>

SettleExit(m) == SettleQueuedExit(m, FALSE) /\ SettleMoney(m, queuedExitShares[m])

ClaimEscrowed(w, t) ==
    /\ claimable[w][t] > 0
    /\ claimable' = [claimable EXCEPT ![w][t] = 0]
    /\ held' = [held EXCEPT ![t] = @ - claimable[w][t]]
    /\ UNCHANGED <<now, stakeVars, holdings, deposits, basis, quote, donated>>

-----------------------------------------------------------------------------
Balance(t) == IF t = Usdc THEN idleUsdc ELSE assetBalance[t]

\* Both sides of a swap in the vault's books.
Rebook(tokenIn, spent, tokenOut, received) ==
    LET moved(t) == IF t = tokenIn THEN -spent ELSE IF t = tokenOut THEN received ELSE 0
    IN  /\ idleUsdc' = idleUsdc + moved(Usdc)
        /\ assetBalance' = [a \in Asset |-> assetBalance[a] + moved(a)]

\* Fault: only the venue's answer is compared with the order (EX-3 without H-4).
AnyOrder(tokenIn, amountIn, tokenOut, minOut, slippage) ==
    \A t \in {tokenIn, tokenOut} \ {Usdc} : quote[t] # Stale

\* H-4: the order itself is bounded by the oracle.
WithinSlippage(tokenIn, amountIn, tokenOut, minOut, slippage) ==
    /\ \A t \in {tokenIn, tokenOut} \ {Usdc} : quote[t] # Stale
    /\ ValueWad(tokenOut, minOut) * BPS >= ValueWad(tokenIn, amountIn) * (BPS - slippage)

\* One leg of executeRebalance: the venue takes at most amountIn and gives at
\* least minOut, or the call reverts; the unspent input is refunded.  (A leg
\* from a token to itself can only revert or do nothing.)
Swap(tokenIn, amountIn, tokenOut) ==
    /\ now \in RebalanceTimes                                    \* bound
    /\ tokenIn # tokenOut
    /\ Balance(tokenIn) >= amountIn
    /\ \E slippage \in 1..MaxSlippageBps, minOut \in 0..OutBound :
          /\ WithinSlippage(tokenIn, amountIn, tokenOut, minOut, slippage)
          /\ \E received \in minOut..OutBound, spent \in 0..amountIn :
                /\ Rebook(tokenIn, spent, tokenOut, received)
                /\ held' = [held EXCEPT ![tokenIn] = @ - spent, ![tokenOut] = @ + received]
    /\ UNCHANGED <<now, stakeVars, deposits, basis, claimable, quote, donated>>

-----------------------------------------------------------------------------
\* Anyone may send the vault tokens; no counter of the vault moves.
Donate(t) ==
    /\ donated[t] < DonationBound
    /\ held' = [held EXCEPT ![t] = @ + 1]
    /\ donated' = [donated EXCEPT ![t] = @ + 1]
    /\ UNCHANGED <<now, stakeVars, holdings, deposits, basis, claimable, quote>>

OracleMoves ==
    /\ now \in QuoteTimes                                        \* bound
    /\ quote' \in [Asset -> Prices]
    /\ UNCHANGED <<now, stakeVars, holdings, deposits, basis, tokens, donated>>

Second ==
    /\ now < MaxTime
    /\ now' = now + 1
    /\ UNCHANGED <<stakeVars, holdings, deposits, basis, tokens, quote, donated>>

MemberMoves(m) ==
    \/ \E amount \in DepositAmounts : Deposit(m, amount)
    \/ Activate(m)
    \/ SkipWindow(m)
    \/ CancelPending(m)
    \/ m \in Exiters /\ \E n \in 1..sharesOf[m] : ExitNow(m, n) \/ QueueExit(m, n)
    \/ SettleExit(m)

CoreNext ==
    \/ \E m \in Member : MemberMoves(m)
    \/ \E w \in Payee, t \in Token : ClaimEscrowed(w, t)
    \/ \E i, o \in Token : \E n \in 1..Balance(i) : Swap(i, n, o)
    \/ \E t \in Token : Donate(t)
    \/ OracleMoves
    \/ Second

CoreSpec == CoreInit /\ [][CoreNext]_coreVars

-----------------------------------------------------------------------------
\* The tokens in the vault are exactly what it counts as its own, what waits to
\* be activated, what it owes after failed transfers, and what strangers sent:
\* nobody's claim rests on another's money, and a donation, an escrow or a
\* partly filled swap never enters the books.  (idleUsdc, totalPendingUsdc,
\* _payOrEscrow, the refund of executeRebalance)
Solvent ==
    /\ totalPendingUsdc = SumFunction([m \in Member |-> pendingDeposit[m].amount])
    /\ \A t \in Token :
         held[t] = Balance(t) + (IF t = Usdc THEN totalPendingUsdc ELSE 0)
                   + SumFunction([w \in Payee |-> claimable[w][t]]) + donated[t]

\* When the last share is burned nothing stays behind for the next depositor,
\* who gets shares one to one whatever the vault holds.  (the sole holder's fee
\* waiver in _settleExit, ts == 0 in _mintShares)
NothingStranded == totalShares = 0 => \A t \in Token : Balance(t) = 0

\* Whoever has left has no cost basis to set against a later gain.
BasisLeavesWithShares == \A m \in Member : sharesOf[m] = 0 => costBasisUsdc[m] = 0

\* Section 4.6: an exit leaves at least as much of every holding behind each
\* remaining share, whatever the fee, the rounding and the transfers do.
ExitDilutesNobody ==
    [][totalShares' < totalShares => \A t \in Token :
         Balance(t)' * totalShares >= Balance(t) * totalShares']_coreVars

\* EE-1: new shares, minted at once or after the window, are paid for at the
\* value of the old ones, to the last wad.
DepositDilutesNobody ==
    [][totalShares' > totalShares /\ totalShares > 0 =>
         NavWad' * totalShares >= NavWad * totalShares']_coreVars

\* H-4: at the oracle's prices a leg of a rebalance costs the members at most
\* the allowed part of what it spent, and one wad of rounding, whatever the
\* venue takes and gives.  (executeRebalance)
SwapLossBounded ==
    [][UNCHANGED <<stakeVars, deposits, claimable, quote>> =>
         \A t \in Token : Balance(t)' < Balance(t) =>
           (NavWad - NavWad' - 1) * BPS
              <= ValueWad(t, Balance(t) - Balance(t)') * MaxSlippageBps]_coreVars

\* L-1: a queued exit cannot be cancelled, so nothing that happens between the
\* queue and the crank, a deposit, another exit, a new member, may leave it
\* unable to settle once nothing is pending and prices are live.  (requestExit,
\* settleQueuedExit, _settleExit)
QueuedExitNeverStranded ==
    \A m \in Member : queuedExitShares[m] > 0 /\ Priced => ENABLED SettleExit(m)
=============================================================================
