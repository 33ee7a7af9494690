---------------------------- MODULE StakeHistory ----------------------------
(***************************************************************************)
(* The stake of one root vault with the three histories VaultCore pushes   *)
(* to whenever shares move, and answers governance from: what VaultStake   *)
(* abstracts to the single view `past'.                                    *)
(***************************************************************************)
EXTENDS VaultShares, Checkpoints

VARIABLES
    eligibleHist,        \* member -> history of its voting-eligible shares
    totalEligibleHist,
    holderCountHist

histories == <<eligibleHist, totalEligibleHist, holderCountHist>>
histVars == <<now, stakeVars, histories>>

-----------------------------------------------------------------------------
HistoryInit ==
    /\ SharesInit
    /\ eligibleHist = [m \in Member |-> <<>>]
    /\ totalEligibleHist = <<>>
    /\ holderCountHist = <<>>

\* Fault: the holders are recorded only when somebody joins.
SnapshotOfJoiners(m) ==
    /\ eligibleHist' = [eligibleHist EXCEPT ![m] = Push(@, now, VotingEligibleShares(m)')]
    /\ totalEligibleHist' = Push(totalEligibleHist, now, TotalVotingEligibleShares')
    /\ holderCountHist' = IF holderCount' > holderCount
                          THEN Push(holderCountHist, now, holderCount')
                          ELSE holderCountHist

\* _snapshot, after every share movement of m: the values it leads to.
Snapshot(m) ==
    /\ eligibleHist' = [eligibleHist EXCEPT ![m] = Push(@, now, VotingEligibleShares(m)')]
    /\ totalEligibleHist' = Push(totalEligibleHist, now, TotalVotingEligibleShares')
    /\ holderCountHist' = Push(holderCountHist, now, holderCount')

ShareStep(m, pending) ==
    \/ \E n \in MintSizes : MintShares(m, n)
    \/ m \in Exiters /\ \E n \in 1..sharesOf[m] : RequestExit(m, n, pending)
    \/ SettleQueuedExit(m, pending)

HistoryStep == \E m \in Member, pending \in BOOLEAN : ShareStep(m, pending) /\ Snapshot(m)

NextSecond ==
    /\ now < MaxTime
    /\ now' = now + 1
    /\ UNCHANGED <<stakeVars, histories>>

HistoryNext == HistoryStep \/ NextSecond

HistorySpec == HistoryInit /\ [][HistoryNext]_histVars

-----------------------------------------------------------------------------
\* What governance is told about the second before now.
View == [eligible |-> [m \in Member |-> ValueAt(eligibleHist[m], now - 1)],
         total    |-> ValueAt(totalEligibleHist, now - 1),
         holders  |-> ValueAt(holderCountHist, now - 1)]

Stake == INSTANCE VaultStake WITH past <- View

HistoryTypeOK ==
    /\ SharesTypeOK
    /\ eligibleHist \in [Member -> Seq(Amount)]
    /\ totalEligibleHist \in Seq(Checkpoint)
    /\ holderCountHist \in Seq(Checkpoint)

\* The bisection finds what the history means, at every time and for every
\* history the vault ever builds, the current second included.  (getAt)
SearchCorrect ==
    \A t \in 0..now :
        /\ \A m \in Member : GetAt(eligibleHist[m], t) = ValueAt(eligibleHist[m], t)
        /\ GetAt(totalEligibleHist, t) = ValueAt(totalEligibleHist, t)
        /\ GetAt(holderCountHist, t) = ValueAt(holderCountHist, t)

\* VO-9: what was the stake of a member at a past second is settled: however
\* shares move now, the answer never changes, so a snapshot read during the
\* reveal is the one read when the vote was opened.  (push, pastVotingEligibleShares)
PastIsFrozen ==
    [][\A t \in 0..(now - 1) :
         /\ \A m \in Member : ValueAt(eligibleHist'[m], t) = ValueAt(eligibleHist[m], t)
         /\ ValueAt(totalEligibleHist', t) = ValueAt(totalEligibleHist, t)
         /\ ValueAt(holderCountHist', t) = ValueAt(holderCountHist, t)]_histVars

\* The histories implement the one-second memory that governance relies on.
\* (_snapshot, pastVotingEligibleShares, pastHolderCount)
ImplementsStake == Stake!StakeSpec
=============================================================================
