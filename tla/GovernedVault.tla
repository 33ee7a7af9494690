--------------------------- MODULE GovernedVault ---------------------------
(***************************************************************************)
(* A vault and its governance, composed as they are deployed: governance   *)
(* reads the vault's stake, and the vault asks governance                  *)
(* hasPendingExecution before it settles or queues an exit.  Each contract *)
(* call is atomic; calls of all members interleave, several of them within *)
(* one second.                                                             *)
(***************************************************************************)
EXTENDS Governance, Functions

vars == <<now, past, stakeVars, govVars>>

Init == StakeInit /\ GovInit

Second == Tick /\ FinalizedInTime /\ UNCHANGED govVars

Next ==
    \/ Second
    \/ VaultStep(HasPendingExecution) /\ UNCHANGED govVars
    \/ GovStep /\ UNCHANGED <<now, past, stakeVars>>

Spec == Init /\ [][Next]_vars

TypeOK == StakeTypeOK /\ GovTypeOK

-----------------------------------------------------------------------------
\* A proposal whose outcome can still take effect.
InFlight(pid) ==
    \/ proposals[pid].status = "Active"
    \/ proposals[pid].status = "Passed" /\ now <= proposals[pid].expiresAt

Counted(pid, m) == ballot[pid][m].weight

\* C-5 / VO-8, the reason for Mode F exits: from the moment a weight is counted
\* until its proposal can no longer take effect, the member who lent it still
\* holds that many shares.  (_boundedWeight, hasPendingExecution, requestExit)
SkinInTheGame ==
    \A pid \in Pid, m \in Member : InFlight(pid) => Counted(pid, m) <= sharesOf[m]

\* CM-6: proposals of a vault are serialized; whatever is not the active one is
\* settled for good, so hasPendingExecution, which looks at the active one
\* alone, misses nothing.  (propose, _refreshStatus)
Serialized ==
    \A pid \in Pid :
        pid # activeProposalOf => proposals[pid].status = "None"
                                  \/ Settled(proposals[pid].status)

\* The weight the members of S lent to pid, in whatever way.
Lent(pid) == [m \in Member |-> Counted(pid, m)]
LentBy(S, pid) == SumFunctionOnSet(Lent(pid), S)

OwnBallots(pid) == {m \in Member : ballot[pid][m].how = "own"}

BallotsFor(pid, side) == {m \in Member : ballot[pid][m].side = side}

\* VO-9 / VO-5: no unit of stake is counted twice, by whatever mix of own
\* votes, cranked delegations and standing defaults it reached the tally, and
\* both sides together never exceed the snapshot.
NoStakeCountedTwice ==
    \A pid \in Pid :
        LET p == proposals[pid] IN
        /\ \A m \in Member : Counted(pid, m) <= p.snapshot[m]
        /\ p.forWeight = LentBy(BallotsFor(pid, "for"), pid)
        /\ p.againstWeight = LentBy(BallotsFor(pid, "against"), pid)
        /\ p.forWeight + p.againstWeight <= p.snapshotTotal

\* VO-2b: what the members who voted themselves brought is alone enough for
\* the quorum of a proposal that passed; for a rule change all snapshot stake
\* voted itself, and FOR.  A sub-five vault may count a standing default, which
\* is its member's own direction, but never a weight a delegate directed.
PresentMembersMadeQuorum ==
    \A pid \in Pid :
        LET p == proposals[pid]
            own == LentBy(OwnBallots(pid), pid)
            undirected == LentBy({m \in BallotsFor(pid, "for") :
                                    ballot[pid][m].how # "delegated"}, pid)
        IN  p.status \in {"Passed", "Executed", "Expired"} =>
            IF p.ptype = "RuleChange"
            THEN \A m \in Member : p.snapshot[m] > 0 =>
                   /\ ballot[pid][m].how = "own" /\ ballot[pid][m].side = "for"
                   /\ Counted(pid, m) = p.snapshot[m]
            ELSE IF p.memberCount < SignerRegimeBelow
            THEN undirected * BPS >= QuorumFloorBps * p.snapshotTotal
            ELSE own * BPS >= QuorumFloorBps * p.snapshotTotal

\* VO-5: the weight other members handed to one delegate stays under the
\* concentration ceiling of the snapshot, however it was cranked.
DelegatesStayUnderCap ==
    \A pid \in Pid, d \in Member :
        LET p == proposals[pid]
            carried == {m \in Member : ballot[pid][m].how = "delegated"
                                       /\ delegateOf[m] = d}
        IN  pid = activeProposalOf /\ p.status \in {"Active", "Passed"} /\ InFlight(pid) =>
            /\ LentBy(carried, pid) = delegateAccrued[pid][d]
            /\ delegateAccrued[pid][d] * BPS <= ConcentrationCapCeilingBps * p.snapshotTotal

\* T-1: a default set in the last second before a proposal still stands when its
\* reveal phase opens, whatever commit phase the configuration chose: no legal
\* configuration disables standing defaults.  (COMMIT_HARD_CAP)
DefaultReachesReveal ==
    \A pid \in Pid, m \in Member :
        LET p == proposals[pid]
            d == standingDefaultOf[m]
        IN  /\ p.status = "Active" /\ now = p.commitDeadline
            /\ d.set /\ d.setAt = p.createdAt - 1
            => DefaultStands(d, p)

-----------------------------------------------------------------------------
\* VO-6 and the timelock: a status moves only along None, Active, then Passed
\* or Defeated, then Executed or Expired; and what executes was open for
\* votes, then for reveals, then waited out its timelock, inside its window.
Lifecycle ==
    [][\A pid \in Pid :
         LET p == proposals[pid] q == proposals'[pid] IN
         p.status # q.status =>
            /\ <<p.status, q.status>> \in
                 {<<"None", "Active">>, <<"Active", "Passed">>, <<"Active", "Defeated">>,
                  <<"Passed", "Executed">>, <<"Passed", "Expired">>}
            /\ q.status \in {"Passed", "Defeated"} =>
                 now >= p.createdAt + config.commitDuration + config.revealDuration
            /\ q.status = "Executed" =>
                 /\ now >= p.createdAt + config.commitDuration + config.revealDuration
                           + config.timelockDuration
                 /\ now <= p.expiresAt
            /\ q.status = "Expired" => now > p.expiresAt]_vars

\* The rules of a proposal are those it was opened under: while one is in
\* flight no step changes the configuration its tally and timelock read, or a
\* delegation, except that a rule change changes the configuration when it
\* executes.  (serialization, CannotDelegateDuringProposal)
RulesFixedInFlight ==
    [][(\E pid \in Pid : InFlight(pid)) =>
          /\ delegateOf' = delegateOf
          /\ config' # config => \E pid \in Pid :
                proposals[pid].status = "Passed" /\ proposals'[pid].status = "Executed"]_vars

\* VO-8: no share leaves the vault between the first possible reveal and the
\* moment the outcome has taken effect or cannot any more, whichever proposal
\* is concerned.
NoExitOnLeakedOutcome ==
    [][(\E pid \in Pid : InFlight(pid) /\ now >= proposals[pid].commitDeadline)
          => \A m \in Member : sharesOf'[m] >= sharesOf[m]]_vars

-----------------------------------------------------------------------------
\* EE-10: a queued exit, which nobody can cancel, is eventually settled, whether
\* or not what passed is executed.  Anyone may settle and finalize; who does so
\* is for the module that composes the vault with its keepers (ReferenceAgent).
QueuedExitSettles ==
    \A m \in Member : (queuedExitShares[m] > 0) ~> (queuedExitShares[m] = 0)

-----------------------------------------------------------------------------
\* What finalize's NatSpec says of a vault of fewer than five members, and its
\* code does not do: a proposal passes only if a strict majority of the members
\* at creation signed.  A FOR majority of the stake passes it with one signer.
SignerMajority ==
    \A pid \in Pid :
        LET p == proposals[pid] IN
        /\ p.status = "Passed"
        /\ p.ptype # "RuleChange"
        /\ p.memberCount < SignerRegimeBelow
        => p.revealedVoterCount * 2 > p.memberCount
=============================================================================
