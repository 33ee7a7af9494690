----------------------------- MODULE FeeEngine -----------------------------
(***************************************************************************)
(* FeeEngine.sol with OperatorRegistry.sol: who an operator is, what it    *)
(* earns on the gains its members realize in any of its vaults, the loss   *)
(* carryforward those gains are netted against, and the fees on their way  *)
(* from a vault, or out of its escrow, to the creator and the treasury.    *)
(*                                                                         *)
(* The vaults are the environment: each settlement realizes any gain or    *)
(* loss, and pays at most the fee it was answered, in any mix of tokens.   *)
(***************************************************************************)
EXTENDS Integers, FiniteSets, FiniteSetsExt, Functions

CONSTANTS
    Member, Operator, Vault,
    TreasuryAccount,     \* the account initialize names; it may be an operator
    NoTreasury, NoOperator,
    Usdc, Asset,
    BPS, PERF_FEE_BPS, TREASURY_SHARE_BPS,
    MayFail,             \* the vault's bounded calls that may fail
    PnlSizes,            \* bound: what one settlement gains or loses
    PnlBound,            \* bound: on gains, losses, and tokens in the engine
    DonationBound        \* bound: how much of a token strangers send

Token == Asset \union {Usdc}
Account == Operator \union {TreasuryAccount}
OperatorId == 1..Cardinality(Operator)
BoundedCall == {"onRealize", "recordRealization", "onFeeCollected"}

ASSUME FeeAssumption ==
    /\ BPS \in Nat \ {0} /\ PERF_FEE_BPS \in 0..BPS /\ TREASURY_SHARE_BPS \in 0..BPS
    /\ PnlSizes \subseteq Nat /\ PnlBound \in Nat /\ DonationBound \in Nat
    /\ MayFail \subseteq BoundedCall
    /\ NoTreasury \notin Account /\ NoOperator \notin Operator
    /\ IsFiniteSet(Operator)

VARIABLES
    operatorCount, operatorIdOf, operatorAddressOf,
    vaultOperator, creatorOf,     \* vault -> operator id; vault -> its creator
    carryOf,                      \* member -> operator id -> loss carryforward
    lifetimeFeesUsdc,             \* statsOf[id].lifetimeFeesUsdc
    treasury, claimableFees,
    engineHeld,                   \* token.balanceOf(engine)
    escrowed,                     \* vault -> token: claimable[feeEngine] there
    pnl, peak, assessed,          \* history: member -> id: the sum of results, its
                                  \* maximum, the fees assessed
    unmarked,                     \* history: member -> id: the gains that paid while
                                  \* the registry missed their mark
    uncredited                    \* history: tokens here that are nobody's

identity == <<operatorCount, operatorIdOf, operatorAddressOf, vaultOperator, creatorOf>>
marks == <<carryOf, pnl, peak, unmarked>>
money == <<claimableFees, engineHeld, escrowed, uncredited>>
feeVars == <<identity, marks, assessed, money, lifetimeFeesUsdc, treasury>>

-----------------------------------------------------------------------------
FeeInit ==
    /\ operatorCount = 0
    /\ operatorIdOf = [o \in Operator |-> 0]
    /\ operatorAddressOf = [i \in OperatorId |-> NoOperator]
    /\ vaultOperator = [v \in Vault |-> 0]
    /\ creatorOf = [v \in Vault |-> NoOperator]
    /\ carryOf = [m \in Member |-> [i \in OperatorId |-> 0]]
    /\ lifetimeFeesUsdc = [i \in OperatorId |-> 0]
    /\ treasury = NoTreasury
    /\ claimableFees = [a \in Account |-> [t \in Token |-> 0]]
    /\ engineHeld = [t \in Token |-> 0]
    /\ escrowed = [v \in Vault |-> [t \in Token |-> 0]]
    /\ pnl = [m \in Member |-> [i \in OperatorId |-> 0]]
    /\ peak = [m \in Member |-> [i \in OperatorId |-> 0]]
    /\ assessed = [m \in Member |-> [i \in OperatorId |-> 0]]
    /\ unmarked = [m \in Member |-> [i \in OperatorId |-> 0]]
    /\ uncredited = [t \in Token |-> 0]

Initialize ==
    /\ treasury = NoTreasury
    /\ treasury' = TreasuryAccount
    /\ UNCHANGED <<identity, marks, assessed, money, lifetimeFeesUsdc>>

\* registerOperator: anyone may register any new address.
Register(o) ==
    /\ operatorIdOf[o] = 0
    /\ operatorCount' = operatorCount + 1
    /\ operatorIdOf' = [operatorIdOf EXCEPT ![o] = operatorCount + 1]
    /\ operatorAddressOf' = [operatorAddressOf EXCEPT ![operatorCount + 1] = o]

RegisterOperator(o) ==
    /\ Register(o)
    /\ UNCHANGED <<vaultOperator, creatorOf, marks, assessed, money, lifetimeFeesUsdc, treasury>>

\* The factory attests each vault once, in the call that deploys it.
AttestVault(v, o) ==
    /\ vaultOperator[v] = 0
    /\ \/ operatorIdOf[o] # 0 /\ UNCHANGED <<operatorCount, operatorIdOf, operatorAddressOf>>
       \/ Register(o)
    /\ vaultOperator' = [vaultOperator EXCEPT ![v] = operatorIdOf'[o]]
    /\ creatorOf' = [creatorOf EXCEPT ![v] = o]
    /\ UNCHANGED <<marks, assessed, money, lifetimeFeesUsdc, treasury>>

-----------------------------------------------------------------------------
\* Fault: the whole gain pays, whatever was lost before.
WholeGain(carry, gain) == gain

\* §7: only the gain beyond the losses carried forward pays a fee.
NetGain(carry, gain) == IF gain > carry THEN gain - carry ELSE 0

\* Fault: any gain settles the whole carry.
CarryForgiven(carry, gain, loss) == IF gain > 0 THEN 0 ELSE carry + loss

CarryAfter(carry, gain, loss) == IF gain >= carry + loss THEN 0 ELSE carry + loss - gain

Answers(call) == IF call \in MayFail THEN BOOLEAN ELSE {TRUE}

\* onRealize, as the vault hears it: nothing without a treasury.
Fee(m, id, gain, answered) ==
    IF answered /\ treasury # NoTreasury
    THEN (NetGain(carryOf[m][id], gain) * PERF_FEE_BPS) \div BPS
    ELSE 0

\* Fault: both parts are rounded down.
CreditFloored(v, amount) ==
    claimableFees' = [a \in Account |-> [t \in Token |->
        claimableFees[a][t]
        + (IF a = treasury THEN (amount[t] * TREASURY_SHARE_BPS) \div BPS ELSE 0)
        + (IF a = creatorOf[v]
           THEN (amount[t] * (BPS - TREASURY_SHARE_BPS)) \div BPS ELSE 0)]]

\* _credit: the treasury's part is rounded down, the creator has the rest.
Credit(v, amount) ==
    LET toTreasury(t) == (amount[t] * TREASURY_SHARE_BPS) \div BPS IN
    claimableFees' = [a \in Account |-> [t \in Token |->
        claimableFees[a][t] + (IF a = treasury THEN toTreasury(t) ELSE 0)
                            + (IF a = creatorOf[v] THEN amount[t] - toTreasury(t) ELSE 0)]]

\* recordRealization, if the vault's call to it succeeds; a call that fails is
\* passed over, and the mark is lost.
RecordRealization(m, id, gain, loss) ==
    \E ok \in Answers("recordRealization") :
        IF ok
        THEN /\ carryOf' = [carryOf EXCEPT ![m][id] = CarryAfter(@, gain, loss)]
             /\ pnl' = [pnl EXCEPT ![m][id] = @ + gain - loss]
             /\ peak' = [peak EXCEPT ![m][id] = Max({@, pnl[m][id] + gain - loss})]
             /\ UNCHANGED unmarked
        ELSE /\ unmarked' = [unmarked EXCEPT ![m][id] = @ + NetGain(carryOf[m][id], gain)]
             /\ UNCHANGED <<carryOf, pnl, peak>>

\* The fee legs of _settleExit: each lands at the engine, which is told of it,
\* or is escrowed in the vault.
CollectLegs(v, id, paid) ==
    \E landed \in SUBSET {t \in Token : paid[t] > 0} :
      \E told \in {s \in SUBSET landed : "onFeeCollected" \in MayFail \/ s = landed} :
        LET told0 == [t \in Token |-> IF t \in told THEN paid[t] ELSE 0] IN
        /\ engineHeld' = [t \in Token |->
              engineHeld[t] + (IF t \in landed THEN paid[t] ELSE 0)]
        /\ escrowed' = [escrowed EXCEPT ![v] = [t \in Token |->
              @[t] + (IF t \in landed THEN 0 ELSE paid[t])]]
        /\ uncredited' = [t \in Token |->
              uncredited[t] + (IF t \in landed \ told THEN paid[t] ELSE 0)]
        /\ Credit(v, told0)
        /\ lifetimeFeesUsdc' = [lifetimeFeesUsdc EXCEPT ![id] = @ + told0[Usdc]]

\* One exit from vault v: assess on the carry as it was, record, collect.
Settle(v, m, gain, loss) ==
    LET id == vaultOperator[v] IN
    /\ id # 0
    /\ gain = 0 \/ loss = 0
    /\ peak[m][id] + unmarked[m][id] + gain <= PnlBound                    \* bounds
    /\ carryOf[m][id] + loss <= PnlBound
    /\ \E answered \in Answers("onRealize") :
         LET fee == Fee(m, id, gain, answered) IN
         /\ assessed' = [assessed EXCEPT ![m][id] = @ + fee]
         /\ \E paid \in {f \in [Token -> 0..fee] : SumFunction(f) <= fee} :
               CollectLegs(v, id, paid)
    /\ RecordRealization(m, id, gain, loss)
    /\ UNCHANGED <<identity, treasury>>

\* pullEscrowed: the operator's record is not told.
PullEscrowed(v, t) ==
    LET amount == [u \in Token |-> IF u = t THEN escrowed[v][t] ELSE 0] IN
    /\ vaultOperator[v] # 0
    /\ escrowed[v][t] > 0
    /\ treasury # NoTreasury
    /\ escrowed' = [escrowed EXCEPT ![v][t] = 0]
    /\ engineHeld' = [engineHeld EXCEPT ![t] = @ + escrowed[v][t]]
    /\ Credit(v, amount)
    /\ UNCHANGED <<identity, marks, assessed, uncredited, lifetimeFeesUsdc, treasury>>

ClaimFees(a, t) ==
    /\ claimableFees[a][t] > 0
    /\ claimableFees' = [claimableFees EXCEPT ![a][t] = 0]
    /\ engineHeld' = [engineHeld EXCEPT ![t] = @ - claimableFees[a][t]]
    /\ UNCHANGED <<identity, marks, assessed, escrowed, uncredited, lifetimeFeesUsdc, treasury>>

Donate(t) ==
    /\ uncredited[t] < DonationBound                                         \* bound
    /\ engineHeld' = [engineHeld EXCEPT ![t] = @ + 1]
    /\ uncredited' = [uncredited EXCEPT ![t] = @ + 1]
    /\ UNCHANGED <<identity, marks, assessed, claimableFees, escrowed, lifetimeFeesUsdc, treasury>>

FeeNext ==
    \/ Initialize
    \/ \E o \in Operator : RegisterOperator(o)
    \/ \E v \in Vault, o \in Operator : AttestVault(v, o)
    \/ \E v \in Vault, m \in Member, n \in PnlSizes : Settle(v, m, n, 0) \/ Settle(v, m, 0, n)
    \/ \E v \in Vault, t \in Token : PullEscrowed(v, t)
    \/ \E a \in Account, t \in Token : ClaimFees(a, t)
    \/ \E t \in Token : Donate(t)

FeeSpec == FeeInit /\ [][FeeNext]_feeVars

-----------------------------------------------------------------------------
FeeTypeOK ==
    /\ operatorCount \in Nat
    /\ operatorIdOf \in [Operator -> OperatorId \union {0}]
    /\ operatorAddressOf \in [OperatorId -> Operator \union {NoOperator}]
    /\ vaultOperator \in [Vault -> OperatorId \union {0}]
    /\ creatorOf \in [Vault -> Operator \union {NoOperator}]
    /\ carryOf \in [Member -> [OperatorId -> Nat]]
    /\ lifetimeFeesUsdc \in [OperatorId -> Nat]
    /\ treasury \in {NoTreasury, TreasuryAccount}
    /\ claimableFees \in [Account -> [Token -> Nat]]
    /\ engineHeld \in [Token -> Nat]
    /\ escrowed \in [Vault -> [Token -> Nat]]
    /\ pnl \in [Member -> [OperatorId -> Int]]
    /\ peak \in [Member -> [OperatorId -> Nat]]
    /\ assessed \in [Member -> [OperatorId -> Nat]]
    /\ unmarked \in [Member -> [OperatorId -> Nat]]
    /\ uncredited \in [Token -> Nat]

\* "Credits match deliveries" (M-3): what the creators and the treasury may
\* claim is in the engine, to the last unit, whatever part of the fees was
\* escrowed, pulled, sent by strangers or never announced.  (_credit,
\* onFeeCollected, onFeeCollectedAsset, pullEscrowed, claimFees)
CreditsMatchDeliveries ==
    \A t \in Token :
        engineHeld[t] = SumFunction([a \in Account |-> claimableFees[a][t]]) + uncredited[t]

\* The carry is what the member is below the best result the registry ever
\* recorded with this operator, over all of its vaults; a record that fails leaves
\* it where it was.  (recordRealization)
CarryIsDrawdown ==
    \A m \in Member, i \in OperatorId : carryOf[m][i] = peak[m][i] - pnl[m][i]

\* CM-3, §7: over any sequence of exits from all of an operator's vaults, whichever
\* calls fail, a member is charged on the best recorded result and on nothing
\* twice, but for what paid in an exit whose own record failed.  (onRealize before
\* recordRealization)
FeesOnlyOnNewPeaks ==
    \A m \in Member, i \in OperatorId :
        assessed[m][i] * BPS <= (peak[m][i] + unmarked[m][i]) * PERF_FEE_BPS

\* CM-4/CM-5: an id names one address for good and an address has one id; a
\* vault keeps the operator it was attested to, its creator.  (registerOperator,
\* attestVault)
IdentitiesAreOneToOne ==
    /\ \A o \in Operator : operatorIdOf[o] # 0 => operatorAddressOf[operatorIdOf[o]] = o
    /\ \A i \in OperatorId : operatorAddressOf[i] # NoOperator =>
          operatorIdOf[operatorAddressOf[i]] = i
    /\ \A v \in Vault : vaultOperator[v] # 0 =>
          operatorAddressOf[vaultOperator[v]] = creatorOf[v]

-----------------------------------------------------------------------------
=============================================================================
