-------------------------- MODULE MCGovernedVault --------------------------
(***************************************************************************)
(* Small instances of GovernedVault for TLC.                               *)
(***************************************************************************)
EXTENDS GovernedVault, TLC

CONSTANTS c, m1, m2, Splits

Cfg(commit, timelock, quorum) ==
    [commitDuration |-> commit, revealDuration |-> 1, timelockDuration |-> timelock,
     executionWindow |-> 1, quorumBps |-> quorum, proposalThresholdBps |-> 1,
     concentrationCapBps |-> 5, proposalCooldown |-> 1]

OneConfig == {Cfg(1, 1, 4)}

\* With DefaultTTL = 2 the commit phase of the first is the longest that
\* _validateConfig accepts; that of the second is one second longer.
CommitConfigs == OneConfig \union {Cfg(2, 0, 4)}

\* A rule change may move to the second; the third is one that _validateConfig
\* refuses, since its commit phase outlives a standing default.
QuickConfig == {Cfg(1, 0, 4)}
RuleConfigs == QuickConfig \union {Cfg(1, 1, 3), Cfg(3, 0, 4)}

Split(x, y, z) == [m \in Member |-> CASE m = c -> x [] m = m1 -> y [] m = m2 -> z]

\* Bound: how the members hold the founding supply: in every way, or as
\* two and as three holders, with the creator ahead, level and behind.
SplitsOf(n) == {f \in [Member -> 0..n] : SumFunctionOnSet(f, Member) = n}
TwoShares == SplitsOf(2)
ThreeHolders == {f \in SplitsOf(5) : \A m \in Member : f[m] > 0}
ChosenSplits == {Split(3, 1, 0), Split(2, 2, 0), Split(2, 1, 1), Split(1, 1, 2)}

\* Bound: the runs start with a founded vault, whose members deposited at time 1;
\* Init leads to every one of these states.
Founded ==
    /\ now = 2
    /\ sharesOf \in Splits
    /\ queuedExitShares = [m \in Member |-> 0]
    /\ totalShares = SumFunctionOnSet(sharesOf, Member)
    /\ totalQueuedShares = 0
    /\ holderCount = Cardinality({m \in Member : sharesOf[m] > 0})
    /\ past = [eligible |-> sharesOf, total |-> totalShares, holders |-> holderCount]

\* Bound: a member who ever sets a standing default set one as it deposited.
EarlyDefaults == [m \in Member |-> IF m \in Defaulters
                                   THEN [set |-> TRUE, side |-> "for", setAt |-> 1]
                                   ELSE NoDefault]

\* The creator has registered it, with any configuration the contract accepts,
\* and nothing has been proposed.
FoundedInit ==
    /\ Founded
    /\ vaultRegistered = TRUE
    /\ config \in InitialConfigs /\ ValidConfig(config)
    /\ NothingProposed
    /\ standingDefaultOf = EarlyDefaults

\* The creator has not registered the vault with governance yet.
UnregisteredInit == Founded /\ GovInit

UnregisteredSpec == UnregisteredInit /\ [][Next]_vars

FoundedSpec == FoundedInit /\ [][Next]_vars

\* Bound: once the last proposal is settled and no exit is queued, nothing that
\* the properties speak of can still happen; such states are not expanded.
StillOpen ==
    \/ proposalCount < MaxProposals
    \/ \E pid \in Pid : proposals[pid].status \in {"Active", "Passed"}
    \/ totalQueuedShares > 0

\* Bound: whoever delegates does so to m1, the member who may leave; the creator
\* and m2 both may.
OneDelegate == \A m \in Member : delegateOf[m] \in {NoMember, m1}
=============================================================================
