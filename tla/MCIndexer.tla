---------------------------- MODULE MCIndexer ------------------------------
(***************************************************************************)
(* Small instances of Indexer for TLC.                                     *)
(***************************************************************************)
EXTENDS Indexer

CONSTANTS c, m1, a1

Tale(calls, events) == [calls |-> calls, events |-> events, blocks |-> 5]

\* Bound: the calls of one behaviour; each exercises one part of the fold.
Launch == Tale({"RegisterOperator", "CreateVault", "Rebalance"}, 5)
Deposits == Tale({"Deposit", "Activate", "Cancel"}, 10)
Exits == Tale({"Queue", "Exit"}, 10)
Ballots == Tale({"Cast"}, 9)
Outcomes == Tale({"Resolve"}, 9)

\* Bound: the result of an exit.
GainOrLoss == {1, -1}

Upgrade == [calls |-> {"Queue", "Cast"}, events |-> 11, blocks |-> 7]

AllStories == {Launch, Deposits, Exits, Ballots, Outcomes, Upgrade}

\* The vault as most stories find it: in block 2 it was created, its creator's
\* deposit was activated, another member's waits, and a proposal is active.
At(i, e) == Numbered(e, 2, i)

FoundingLogs ==
    <<At(0, [name |-> "OperatorRegistered"]), At(1, [name |-> "VaultAttested"]),
      At(2, [name |-> "VaultCreated", kind |-> "regular"]),
      At(3, [name |-> "DepositPending", member |-> c]),
      At(4, [name |-> "DepositActivated", member |-> c, balance |-> 2]),
      At(5, [name |-> "DepositPending", member |-> m1]),
      At(6, [name |-> "Proposed", pid |-> 1])>>

FoundingBooks ==
    [EmptyBooks EXCEPT !.kind = "regular", !.operator = TRUE, !.attested = TRUE,
                       !.open = {m1}, !.cleared = {c},
                       !.proposals[1] = Fresh, !.active = 1]

\* Before the upgrade, of which block 2 is long confirmed, the creator also queued an exit and a vote was cranked.
UpgradeLogs ==
    FoundingLogs \o
    <<At(7, [name |-> "ExitQueued", member |-> c, shares |-> 1]),
      At(8, [name |-> "DelegatedRevealed", pid |-> 1, support |-> TRUE, weight |-> 1])>>

UpgradeBooks ==
    [FoundingBooks EXCEPT !.queuedEver = 1,
                          !.proposals[1].forWeight = 1,
                          !.proposals[1].delegatedForWeight = 1]

\* Its snapshot was saved by a version that recorded neither the size of a
\* queued exit nor how much of a tally was cranked.
OldSnapshot ==
    [P!ApplyAll(P!EmptyState, UpgradeLogs) EXCEPT !.queuedExitShares = Null,
                                                  !.proposals[1].delegatedForWeight = Null]

FoundedWith(events, known, queued, later) ==
    /\ now = 1
    /\ sharesOf = [m \in Member |-> IF m = c THEN 2 ELSE 0]
    /\ queuedExitShares = [m \in Member |-> IF m = c THEN queued ELSE 0]
    /\ totalShares = 2 /\ totalQueuedShares = queued /\ holderCount = 1
    /\ books = known /\ logs = <<>>
    /\ chain = <<[logs |-> <<>>, after |-> [Truth EXCEPT !.books = EmptyBooks,
                    !.shares = [m \in Member |-> 0], !.queued = [m \in Member |-> 0],
                    !.total = 0, !.totalQueued = 0, !.holders = 0]],
                 [logs |-> events, after |-> Truth]>>
               \o [b \in 1..later |-> [logs |-> <<>>, after |-> Truth]]

ProcessDown ==
    /\ tmp = Absent /\ ring = [n \in Slots |-> Absent]
    /\ rested = TRUE /\ armed = FALSE /\ writing = "no" /\ slot = 0
    /\ pc = "down" /\ state = P!EmptyState /\ to = 0 /\ discovered = {}
    /\ stopping = FALSE /\ failures = 0

\* Bound: crashes are spent on the stories that move shares, and neither they nor
\* reorganisations on the upgrade.
StoryInit ==
    /\ \/ ChainInit /\ story = Launch
       \/ FoundedWith(FoundingLogs, FoundingBooks, 0, 0) /\ reorgs = 0
          /\ story \in AllStories \ {Launch, Upgrade}
       \/ FoundedWith(UpgradeLogs, UpgradeBooks, 1, Confirmations) /\ reorgs = MaxReorgs
          /\ story = Upgrade
    /\ main = IF story = Upgrade THEN OldSnapshot ELSE Absent
    /\ crashes = IF story \in {Ballots, Outcomes, Upgrade} THEN MaxCrashes ELSE 0
    /\ ProcessDown

StorySpec == StoryInit /\ [][IndexerNext]_indexerVars /\ IndexerFairness
=============================================================================
