---------------------------- MODULE Projection -----------------------------
(***************************************************************************)
(* The indexer's projection (packages/indexer/src/projections.mjs): a fold *)
(* of the event log into what the API serves, for one vault.  A map of the *)
(* code is a function here, and a key that was deleted is its zero.        *)
(***************************************************************************)
EXTENDS Integers, Sequences, FiniteSets

CONSTANTS
    Member, Pid, NoProposal,
    Null,                \* a value the snapshot a state came from did not record
    MaxTrackedAdapters   \* MAX_TRACKED_ADAPTERS

\* newVault and emptyState.
EmptyState ==
    [known |-> FALSE, kind |-> "regular", attested |-> FALSE,
     operator |-> FALSE, vaultCount |-> 0, gain |-> 0, loss |-> 0, fees |-> 0,
     shares |-> [m \in Member |-> 0], totalShares |-> 0, memberCount |-> 0,
     pendingMembers |-> {}, pendingCount |-> 0,
     queuedExits |-> {}, queuedExitShares |-> [m \in Member |-> 0],
     exitQueuedCount |-> 0, exitSettledCount |-> 0, modeFSettledCount |-> 0,
     proposals |-> [p \in Pid |-> NoProposal], activeProposal |-> 0,
     adapters |-> {}, swaps |-> 0,
     lastBlock |-> 0, lastLogIndex |-> -1]

-----------------------------------------------------------------------------
\* A member's balance becomes `next'; the total moves by the difference and the
\* count of members with the first and the last share.
SetShares(s, m, next) ==
    [s EXCEPT !.shares[m] = IF next > 0 THEN next ELSE 0,
              !.totalShares = @ + next - s.shares[m],
              !.memberCount = @ + (IF s.shares[m] = 0 /\ next > 0 THEN 1 ELSE 0)
                                - (IF s.shares[m] > 0 /\ next <= 0 THEN 1 ELSE 0)]

CreditShares(s, m, delta) == SetShares(s, m, s.shares[m] + delta)

\* An open row is closed, and counted, only if there was one.
CloseRow(s, m) ==
    IF m \in s.pendingMembers
    THEN [s EXCEPT !.pendingMembers = @ \ {m}, !.pendingCount = @ - 1]
    ELSE s

FoldVaultCreated(s, e) == [s EXCEPT !.known = TRUE, !.kind = e.kind]

FoldVaultAttested(s) ==
    [s EXCEPT !.known = TRUE, !.attested = TRUE,
              !.vaultCount = IF s.operator THEN @ + 1 ELSE @]

FoldOperatorRegistered(s) == [s EXCEPT !.operator = TRUE]

\* Records of an operator nobody registered are dropped.
FoldRealizationRecorded(s, e) ==
    IF ~s.operator THEN s
    ELSE [s EXCEPT !.gain = @ + IF e.result > 0 THEN e.result ELSE 0,
                   !.loss = @ + IF e.result < 0 THEN -e.result ELSE 0]

FoldFeeRecorded(s, e) == IF s.operator THEN [s EXCEPT !.fees = @ + e.amount] ELSE s

FoldDepositPending(s, e) ==
    IF e.member \in s.pendingMembers THEN s
    ELSE [s EXCEPT !.pendingMembers = @ \union {e.member}, !.pendingCount = @ + 1]

\* The event carries the balance after the mint, on both paths of a deposit.
FoldDepositActivated(s, e) == SetShares(CloseRow(s, e.member), e.member, e.balance)

FoldExitQueued(s, e) ==
    [s EXCEPT !.exitQueuedCount = @ + 1,
              !.queuedExits = @ \union {e.member},
              !.queuedExitShares[e.member] = e.shares]

\* The settlement of a member who is queued is the settlement of that exit.
FoldExitSettled(s, e) ==
    CreditShares([s EXCEPT !.exitSettledCount = @ + 1,
                           !.modeFSettledCount = IF e.member \in s.queuedExits THEN @ + 1 ELSE @,
                           !.queuedExits = @ \ {e.member},
                           !.queuedExitShares[e.member] = 0],
                 e.member, -e.burned)

FoldRebalanceExecuted(s, e) ==
    IF Cardinality(s.adapters) < MaxTrackedAdapters
    THEN [s EXCEPT !.adapters = @ \union {e.adapter}] ELSE s

FoldProposed(s, e) ==
    [s EXCEPT !.proposals[e.pid] =
                 [status |-> "Active", forWeight |-> 0, againstWeight |-> 0,
                  revealedWeight |-> 0, revealedVoters |-> 0, delegatedForWeight |-> 0],
              !.activeProposal = e.pid]

Sided(p, e) ==
    IF e.support THEN [p EXCEPT !.forWeight = @ + e.weight]
                 ELSE [p EXCEPT !.againstWeight = @ + e.weight]

FoldRevealed(p, e) ==
    [Sided(p, e) EXCEPT !.revealedWeight = @ + e.weight, !.revealedVoters = @ + 1]

\* Absentee weight counts for the tally and never for the quorum; how much of it
\* was cranked stays unknown once it is.
FoldCranked(p, e) ==
    [Sided(p, e) EXCEPT
        !.delegatedForWeight = IF e.name = "DelegatedRevealed" /\ e.support /\ @ # Null
                               THEN @ + e.weight ELSE @]

\* A passed proposal stays the active one until it is executed or expires.
FoldResolved(s, e) ==
    LET status == CASE e.name = "Executed"        -> "Executed"
                    [] e.name = "ProposalExpired" -> "Expired"
                    [] OTHER -> IF e.status = "Passed" THEN "Passed" ELSE "Defeated"
    IN  [s EXCEPT !.proposals[e.pid].status = status,
                  !.activeProposal = IF status = "Passed" THEN @ ELSE 0]

OnProposal(s, e) ==
    IF s.proposals[e.pid] = NoProposal THEN s
    ELSE CASE e.name = "Revealed" -> [s EXCEPT !.proposals[e.pid] = FoldRevealed(@, e)]
           [] e.name \in {"DelegatedRevealed", "DefaultApplied"} ->
                [s EXCEPT !.proposals[e.pid] = FoldCranked(@, e)]
           [] OTHER -> FoldResolved(s, e)

Fold(s, e) ==
    CASE e.name = "VaultCreated"        -> FoldVaultCreated(s, e)
      [] e.name = "VaultAttested"       -> FoldVaultAttested(s)
      [] e.name = "OperatorRegistered"  -> FoldOperatorRegistered(s)
      [] e.name = "RealizationRecorded" -> FoldRealizationRecorded(s, e)
      [] e.name = "FeeRecorded"         -> FoldFeeRecorded(s, e)
      [] e.name = "DepositPending"      -> FoldDepositPending(s, e)
      [] e.name = "PendingCancelled"    -> CloseRow(s, e.member)
      [] e.name = "DepositActivated"    -> FoldDepositActivated(s, e)
      [] e.name = "ExitQueued"          -> FoldExitQueued(s, e)
      [] e.name = "ExitSettled"         -> FoldExitSettled(s, e)
      [] e.name = "RebalanceExecuted"   -> FoldRebalanceExecuted(s, e)
      [] e.name = "SwapExecuted"        -> [s EXCEPT !.swaps = @ + 1]
      [] e.name = "Proposed"            -> FoldProposed(s, e)
      [] OTHER                          -> OnProposal(s, e)

\* A DepositActivated without a balance is refused.  No contract of the repository
\* emits one: VaultCore mints at least one share before it announces the balance.
Malformed(e) == e.name = "DepositActivated" /\ e.balance <= 0

Apply(s, e) == [Fold(s, e) EXCEPT !.lastBlock = e.block, !.lastLogIndex = e.index]

\* A refused event throws with its row already closed, and before the cursor moves.
ApplyOrThrow(s, e) == IF Malformed(e) THEN CloseRow(s, e.member) ELSE Apply(s, e)

\* The fold of a batch up to the first event it refuses.
ApplyAll(s, events) ==
    LET After[i \in 0..Len(events)] ==
          IF i = 0 THEN s
          ELSE IF \E j \in 1..(i - 1) : Malformed(events[j]) THEN After[i - 1]
          ELSE ApplyOrThrow(After[i - 1], events[i])
    IN  After[Len(events)]

-----------------------------------------------------------------------------
\* The first block not yet read.
ResumeCursor(s) == IF s.lastBlock = 0 /\ s.lastLogIndex = -1 THEN 0 ELSE s.lastBlock + 1

\* deserializeState: what an older version did not record is empty, or unknown
\* where empty would be an answer.
Deserialize(file) ==
    [file EXCEPT !.queuedExitShares = IF @ = Null THEN [m \in Member |-> 0] ELSE @]

\* Without the set of open rows, their count cannot be trusted: such a snapshot
\* is refused once it has indexed anything.
Refused(file) == file.pendingMembers = Null /\ file.lastBlock > 0

\* What the API answers about a member's votes (memberPosition), for a vault
\* without a parent: nothing, when a queued exit's size was never recorded.
VotingEligible(s, m) ==
    CASE m \in s.queuedExits /\ s.queuedExitShares[m] = 0 -> Null
      [] s.shares[m] > s.queuedExitShares[m] -> s.shares[m] - s.queuedExitShares[m]
      [] OTHER -> 0

\* The vault's own summary (vaultView, queuedExitBacklog).
Holders(s) == Cardinality({m \in Member : s.shares[m] > 0})

QueuedExitBacklog(s) == Cardinality(s.queuedExits)
=============================================================================
