---------------------------- MODULE VaultShares ----------------------------
(***************************************************************************)
(* The shares of one root vault: who holds how many, how many of them are  *)
(* locked in a queued (Mode F) exit, and how calls move them.  Shares are  *)
(* counted in multiples of a share unit.  Modules that need more extend    *)
(* this one: VaultStake adds what governance can see of the past,          *)
(* StakeHistory the checkpointed histories, VaultCore the money.           *)
(*                                                                         *)
(* The actions that depend on governance take its answer to                *)
(* hasPendingExecution as the argument `pending'.                          *)
(***************************************************************************)
EXTENDS Integers, FiniteSets, Functions

CONSTANTS
    Member,              \* the accounts that may hold shares
    Creator,             \* the vault's creator, a member
    BPS,                 \* 10_000 in the code: the basis-point denominator
    CreatorMinStakeBps,  \* CREATOR_MIN_STAKE_BPS
    MinPosition,         \* MIN_POSITION_SHARES, in share units
    MintSizes,           \* bound: the share amounts a single deposit mints
    ShareBound,          \* bound: the supply never exceeds this
    DepositTimes,        \* bound: the seconds in which shares are minted
    Exiters,             \* bound: the members who ever ask to exit
    MaxTime              \* bound: the clock stops here

ASSUME StakeAssumption ==
    /\ Creator \in Member /\ IsFiniteSet(Member)
    /\ BPS \in Nat \ {0} /\ CreatorMinStakeBps \in Nat /\ MinPosition \in Nat
    /\ MintSizes \subseteq Nat \ {0}
    /\ Exiters \subseteq Member
    /\ ShareBound \in Nat /\ MaxTime \in Nat

VARIABLES
    now,                 \* block.timestamp
    sharesOf,            \* member -> shares
    queuedExitShares,    \* member -> shares locked in a queued exit
    totalShares,
    totalQueuedShares,
    holderCount

stakeVars ==
    <<sharesOf, queuedExitShares, totalShares, totalQueuedShares, holderCount>>

-----------------------------------------------------------------------------
VotingEligibleShares(m) == sharesOf[m] - queuedExitShares[m]

TotalVotingEligibleShares == totalShares - totalQueuedShares

\* The members other than the creator: the code keeps their number in
\* nonCreatorMemberCount.
OtherHolders == {m \in Member \ {Creator} : sharesOf[m] > 0}

\* CM-1/CM-2: while members remain, the creator keeps a minimum stake.
CreatorGate(m, burn) ==
    m = Creator /\ OtherHolders # {} =>
        (sharesOf[m] - burn) * BPS >= CreatorMinStakeBps * (totalShares - burn)

PositionFloor(remaining) == remaining = 0 \/ remaining >= MinPosition

-----------------------------------------------------------------------------
SharesInit ==
    /\ now = 1
    /\ sharesOf = [m \in Member |-> 0]
    /\ queuedExitShares = [m \in Member |-> 0]
    /\ totalShares = 0
    /\ totalQueuedShares = 0
    /\ holderCount = 0

\* A deposit that mints at once, or the activation of a matured one.
MintShares(m, n) ==
    /\ now \in DepositTimes /\ totalShares + n <= ShareBound    \* bounds
    /\ sharesOf' = [sharesOf EXCEPT ![m] = @ + n]
    /\ totalShares' = totalShares + n
    /\ holderCount' = IF sharesOf[m] = 0 THEN holderCount + 1 ELSE holderCount
    /\ UNCHANGED <<now, queuedExitShares, totalQueuedShares>>

\* The share movements of _settleExit.
BurnShares(m, n) ==
    /\ sharesOf[m] >= n
    /\ sharesOf' = [sharesOf EXCEPT ![m] = @ - n]
    /\ totalShares' = totalShares - n
    /\ holderCount' = IF sharesOf[m] = n /\ n > 0 THEN holderCount - 1 ELSE holderCount

\* requestExit: queued while an execution is pending, settled at once otherwise.
RequestExit(m, n, pending) ==
    /\ n > 0
    /\ queuedExitShares[m] = 0
    /\ sharesOf[m] >= n
    /\ CreatorGate(m, n)
    /\ PositionFloor(sharesOf[m] - n)
    /\ \/ /\ pending
          /\ queuedExitShares' = [queuedExitShares EXCEPT ![m] = n]
          /\ totalQueuedShares' = totalQueuedShares + n
          /\ UNCHANGED <<sharesOf, totalShares, holderCount>>
       \/ /\ ~pending
          /\ BurnShares(m, n)
          /\ UNCHANGED <<queuedExitShares, totalQueuedShares>>
    /\ UNCHANGED now

\* Faults: settling forgets the counter; it asks for the creator's stake again.
SettleForgetsTotal(m, pending) ==
    /\ queuedExitShares[m] > 0
    /\ ~pending
    /\ BurnShares(m, queuedExitShares[m])
    /\ queuedExitShares' = [queuedExitShares EXCEPT ![m] = 0]
    /\ UNCHANGED <<now, totalQueuedShares>>

SettleChecksAgain(m, pending) ==
    /\ queuedExitShares[m] > 0
    /\ ~pending
    /\ CreatorGate(m, queuedExitShares[m])
    /\ BurnShares(m, queuedExitShares[m])
    /\ queuedExitShares' = [queuedExitShares EXCEPT ![m] = 0]
    /\ totalQueuedShares' = totalQueuedShares - queuedExitShares[m]
    /\ UNCHANGED now

\* settleQueuedExit: a crank anyone may call; no gate is checked again.
SettleQueuedExit(m, pending) ==
    /\ queuedExitShares[m] > 0
    /\ ~pending
    /\ BurnShares(m, queuedExitShares[m])
    /\ queuedExitShares' = [queuedExitShares EXCEPT ![m] = 0]
    /\ totalQueuedShares' = totalQueuedShares - queuedExitShares[m]
    /\ UNCHANGED now

-----------------------------------------------------------------------------
SharesTypeOK ==
    /\ now \in Nat
    /\ sharesOf \in [Member -> Nat]
    /\ queuedExitShares \in [Member -> Nat]
    /\ totalShares \in Int
    /\ totalQueuedShares \in Int
    /\ holderCount \in Int

\* The ledger's counters are the sums they stand for, and a queued exit is
\* always covered by its member's shares, whatever was deposited, burned or queued
\* since it was asked for: settleQueuedExit, which checks nothing again, cannot
\* underflow.
LedgerBalanced ==
    /\ totalShares = SumFunctionOnSet(sharesOf, Member)
    /\ totalQueuedShares = SumFunctionOnSet(queuedExitShares, Member)
    /\ holderCount = Cardinality({m \in Member : sharesOf[m] > 0})
    /\ \A m \in Member : queuedExitShares[m] <= sharesOf[m]
=============================================================================
