-------------------------- MODULE MCReferenceAgent --------------------------
(***************************************************************************)
(* Small instances of ReferenceAgent: the creator and the agent.           *)
(***************************************************************************)
EXTENDS ReferenceAgent, TLC

CONSTANTS c, a, CreatorShares

\* A reveal phase shorter than four ticks can be missed by a clock one tick
\* off, one failure and a transaction that takes a tick to be mined.
Cfg(commit, reveal, timelock) ==
    [commitDuration |-> commit, revealDuration |-> reveal, timelockDuration |-> timelock,
     executionWindow |-> 1, quorumBps |-> 4, proposalThresholdBps |-> 1,
     concentrationCapBps |-> 5, proposalCooldown |-> 1]

AgentConfig == {Cfg(1, 4, 0)}
OffByOne == {-1, 1}
InTime == {0}
AllTimes == 1..MaxTime

\* Bound: a founded and registered vault, with the agent in it or not yet.
AgentInit ==
    /\ now = 1
    /\ \E own \in {0, Amount} :
         /\ sharesOf = (c :> CreatorShares @@ a :> own)
         /\ totalShares = CreatorShares + own
         /\ holderCount = IF own = 0 THEN 1 ELSE 2
         /\ windowCleared = (own > 0)
    /\ queuedExitShares = [m \in Member |-> 0]
    /\ totalQueuedShares = 0
    /\ past = [eligible |-> sharesOf, total |-> totalShares, holders |-> holderCount]
    /\ vaultRegistered = TRUE
    /\ config \in InitialConfigs
    /\ NothingProposed
    /\ standingDefaultOf = [m \in Member |-> NoDefault]
    /\ skew \in Skews
    /\ version = "v1"
    /\ ticked = FALSE /\ faults = 0 /\ trouble = FALSE
    /\ mempool = <<>>
    /\ saltOf = [pid \in Pid |-> "v1"]
    /\ pendingDeposit = 0 /\ availableAt = 0 /\ allowance = 0

AgentSpec == AgentInit /\ [][AgentNext]_allVars

AgentFairSpec == AgentSpec /\ AgentFairness
=============================================================================
