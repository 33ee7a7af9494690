----------------------------- MODULE Governance -----------------------------
(***************************************************************************)
(* Governance.sol for one registered vault: commit-reveal voting with      *)
(* standing defaults and delegation, a tally under three quorum regimes, a *)
(* timelock and an execution window.  Every mapping of the contract is     *)
(* keyed by vault or by a proposal of one vault, so vaults do not interact *)
(* here; the parent's quorum floor (SV-6) is the constant ParentQuorumBps. *)
(*                                                                         *)
(* A commitment is the direction it binds: the hash is injective, and one  *)
(* that opens to nothing behaves as one that is never revealed.  A payload *)
(* is the value its hash binds.  pastVotingEligibleShares(m, createdAt - 1)*)
(* never changes once createdAt is reached (PastIsFrozen in StakeHistory), *)
(* so it is read once, at creation, into the proposal's snapshot.          *)
(***************************************************************************)
EXTENDS VaultStake

CONSTANTS
    MaxProposals,        \* bound: how many proposals are ever opened
    FinalizeLag,         \* bound: how long after its deadline a vote may wait for finalize
    Configs,             \* bound: the configurations anyone may put forward
    InitialConfigs,      \* bound: the ones the creator may register with
    ProposalTypes,       \* bound: a subset of the three types
    Delegators,          \* bound: the members who ever delegate
    Defaulters,          \* bound: the members who ever set a standing default
    NoMember, NoPayload, \* address(0); an empty payload
    ParentQuorumBps,     \* quorumBps of the parent vault, 0 for a root vault
    QuorumFloorBps, TimelockHardCap, DefaultTTL, RevealHardCap,
    ExecutionWindowHardCap, SignerRegimeBelow, ConcentrationCapCeilingBps,
    ProposalCooldownFloor, ProposalCooldownCap,
    MinPhase             \* 1 hours, the least phase length

Pid == 1..MaxProposals

\* Fault: a commit phase may be as long as a standing default lives.
CommitCapAtTTL == DefaultTTL

\* T-1: the commit cap is tied to the life of a standing default.
CommitHardCap == DefaultTTL - 1

GovConfig == [commitDuration : Nat, revealDuration : Nat, timelockDuration : Nat,
              executionWindow : Nat, quorumBps : Nat, proposalThresholdBps : Nat,
              concentrationCapBps : Nat, proposalCooldown : Nat]

ASSUME GovernanceAssumption ==
    /\ MaxProposals \in Nat /\ FinalizeLag \in Nat
    /\ Configs \subseteq GovConfig /\ Configs # {} /\ InitialConfigs \subseteq Configs
    /\ ProposalTypes \subseteq {"Rebalance", "RuleChange", "ChildAllocation"}
    /\ ProposalTypes # {}
    /\ Delegators \subseteq Member /\ Defaulters \subseteq Member
    /\ NoMember \notin Member /\ NoPayload \notin Configs
    /\ \A c \in {ParentQuorumBps, QuorumFloorBps, TimelockHardCap, RevealHardCap,
                 ExecutionWindowHardCap, SignerRegimeBelow, ConcentrationCapCeilingBps,
                 ProposalCooldownFloor, ProposalCooldownCap} : c \in Nat
    /\ MinPhase \in Nat \ {0} /\ DefaultTTL \in Nat \ {0}

\* The floor is 2_500 of 10_000: a strict majority of the stake is above it.
ASSUME QuorumFloorAssumption == QuorumFloorBps * 2 <= BPS

VARIABLES
    vaultRegistered, config,          \* configOf[vault]
    proposalCount, proposals, activeProposalOf,
    commitOf,                         \* pid -> member -> "none" | "for" | "against"
    revealedOf,                       \* the same; revealedOf and revealedSupportOf
    defaultApplied, delegateAccrued, delegatedForWeight,
    standingDefaultOf, delegateOf, lastProposalAt,
    ballot     \* the vote events emitted so far: pid -> member -> how, side, weight

registryVars == <<vaultRegistered, config>>
proposalVars == <<proposalCount, proposals, activeProposalOf>>
voteVars == <<commitOf, revealedOf, defaultApplied, delegateAccrued,
              delegatedForWeight, ballot>>
memberVars == <<standingDefaultOf, delegateOf, lastProposalAt>>
govVars == <<registryVars, proposalVars, voteVars, memberVars>>

Status == {"None", "Active", "Passed", "Defeated", "Executed", "Expired"}
Side == {"for", "against"}
Choice == Side \union {"none"}

Proposal ==
    [ptype : ProposalTypes, payload : Configs \union {NoPayload},
     createdAt : Nat, commitDeadline : Nat, revealDeadline : Nat,
     executableAt : Nat, expiresAt : Nat, status : Status,
     snapshot : [Member -> Nat], snapshotTotal : Int, memberCount : Int,
     forWeight : Nat, againstWeight : Nat, revealedWeight : Nat,
     revealedVoterCount : Nat]

\* The zero record of an id that was never proposed.
NoProposal ==
    [ptype |-> CHOOSE t \in ProposalTypes : TRUE, payload |-> NoPayload,
     createdAt |-> 0, commitDeadline |-> 0, revealDeadline |-> 0,
     executableAt |-> 0, expiresAt |-> 0, status |-> "None",
     snapshot |-> [m \in Member |-> 0], snapshotTotal |-> 0, memberCount |-> 0,
     forWeight |-> 0, againstWeight |-> 0, revealedWeight |-> 0,
     revealedVoterCount |-> 0]

StandingDefault == [set : BOOLEAN, side : Side, setAt : Nat]
NoDefault == [set |-> FALSE, side |-> "against", setAt |-> 0]

Ballot == [how : {"none", "own", "default", "delegated"}, side : Choice, weight : Nat]
NoBallot == [how |-> "none", side |-> "none", weight |-> 0]

-----------------------------------------------------------------------------
ValidConfig(cfg) ==
    /\ cfg.commitDuration \in MinPhase..CommitHardCap
    /\ cfg.revealDuration \in MinPhase..RevealHardCap
    /\ cfg.timelockDuration <= TimelockHardCap
    /\ cfg.executionWindow \in MinPhase..ExecutionWindowHardCap
    /\ cfg.quorumBps \in QuorumFloorBps..BPS
    /\ cfg.proposalThresholdBps <= BPS
    /\ cfg.concentrationCapBps \in 1..ConcentrationCapCeilingBps
    /\ cfg.proposalCooldown \in ProposalCooldownFloor..ProposalCooldownCap

\* Bound: the longest a proposal can be in flight; one is opened only when the
\* clock leaves it that long.
Lifetime(cfg) == cfg.commitDuration + cfg.revealDuration + FinalizeLag
                 + cfg.timelockDuration + cfg.executionWindow

\* Bound: the clock waits for a vote that is FinalizeLag overdue.
FinalizedInTime ==
    \A pid \in Pid : proposals[pid].status = "Active" =>
        now < proposals[pid].revealDeadline + FinalizeLag

\* SV-6: a child is never easier to pass than its parent.
MeetsParentFloor(cfg) == cfg.quorumBps >= ParentQuorumBps

Settled(status) == status \in {"Defeated", "Executed", "Expired"}

Overdue(p) == p.status = "Passed" /\ now > p.expiresAt

\* proposals after _refreshStatus of the active one.
Refreshed ==
    IF activeProposalOf # 0 /\ Overdue(proposals[activeProposalOf])
    THEN [proposals EXCEPT ![activeProposalOf].status = "Expired"]
    ELSE proposals

\* Fault: a proposal that has been finalized counts as settled.
FinalizedIsEnough ==
    activeProposalOf # 0 => Refreshed[activeProposalOf].status # "Active"

\* The guard of propose and setDelegate: nothing of this vault is in flight.
NothingInFlight ==
    activeProposalOf # 0 => Settled(Refreshed[activeProposalOf].status)

\* C-5: the lesser of the snapshot weight and the present one.
BoundedWeight(p, m) ==
    IF p.snapshot[m] < VotingEligibleShares(m) THEN p.snapshot[m]
                                               ELSE VotingEligibleShares(m)

InCommit(p) == p.status = "Active" /\ now < p.commitDeadline
InReveal(p) == p.status = "Active" /\ p.commitDeadline <= now /\ now < p.revealDeadline

\* Faults: only the vote is pending, not the timelock and execution window; the
\* first second of the reveal phase is missed.
PendingOnlyWhileVoting ==
    /\ activeProposalOf # 0
    /\ LET p == proposals[activeProposalOf] IN p.status = "Active" /\ now >= p.commitDeadline

PendingAfterDeadline ==
    /\ activeProposalOf # 0
    /\ LET p == proposals[activeProposalOf] IN
         \/ p.status = "Active" /\ now > p.commitDeadline
         \/ p.status = "Passed" /\ now <= p.expiresAt

\* What the vault asks before it settles or queues an exit (VO-8).
HasPendingExecution ==
    /\ activeProposalOf # 0
    /\ LET p == proposals[activeProposalOf] IN
         \/ p.status = "Active" /\ now >= p.commitDeadline
         \/ p.status = "Passed" /\ now <= p.expiresAt

-----------------------------------------------------------------------------
NothingProposed ==
    /\ proposalCount = 0
    /\ proposals = [i \in Pid |-> NoProposal]
    /\ activeProposalOf = 0
    /\ commitOf = [i \in Pid |-> [m \in Member |-> "none"]]
    /\ revealedOf = [i \in Pid |-> [m \in Member |-> "none"]]
    /\ defaultApplied = [i \in Pid |-> [m \in Member |-> FALSE]]
    /\ delegateAccrued = [i \in Pid |-> [m \in Member |-> 0]]
    /\ delegatedForWeight = [i \in Pid |-> 0]
    /\ delegateOf = [m \in Member |-> NoMember]
    /\ lastProposalAt = [m \in Member |-> 0]
    /\ ballot = [i \in Pid |-> [m \in Member |-> NoBallot]]

GovInit ==
    /\ vaultRegistered = FALSE
    /\ config = CHOOSE cfg \in Configs : TRUE     \* unread until registration
    /\ NothingProposed
    /\ standingDefaultOf = [m \in Member |-> NoDefault]

RegisterVault(cfg) ==
    /\ ~vaultRegistered
    /\ ValidConfig(cfg)
    /\ MeetsParentFloor(cfg)
    /\ vaultRegistered' = TRUE
    /\ config' = cfg
    /\ UNCHANGED <<proposalVars, voteVars, memberVars>>

\* What propose stores: the snapshot is the vault as it stood a second ago.
NewProposal(ptype, payload) ==
    [ptype |-> ptype, payload |-> payload, status |-> "Active",
     createdAt |-> now,
     commitDeadline |-> now + config.commitDuration,
     revealDeadline |-> now + config.commitDuration + config.revealDuration,
     executableAt |-> 0, expiresAt |-> 0,
     snapshot |-> past.eligible, snapshotTotal |-> past.total,
     memberCount |-> past.holders,
     forWeight |-> 0, againstWeight |-> 0, revealedWeight |-> 0,
     revealedVoterCount |-> 0]

Propose(m, ptype, payload) ==
    LET pid == proposalCount + 1
        own == past.eligible[m]
    IN  /\ pid \in Pid /\ now + Lifetime(config) < MaxTime    \* bounds
        /\ vaultRegistered
        /\ NothingInFlight
        /\ lastProposalAt[m] = 0 \/ now >= lastProposalAt[m] + config.proposalCooldown
        /\ own > 0
        /\ own * BPS >= config.proposalThresholdBps * past.total
        /\ proposalCount' = pid
        /\ proposals' = [Refreshed EXCEPT ![pid] = NewProposal(ptype, payload)]
        /\ activeProposalOf' = pid
        /\ lastProposalAt' = [lastProposalAt EXCEPT ![m] = now]
        /\ UNCHANGED <<registryVars, voteVars, standingDefaultOf, delegateOf>>

CommitVote(m, pid, side) ==
    /\ InCommit(proposals[pid])
    /\ commitOf[pid][m] = "none"
    /\ BoundedWeight(proposals[pid], m) > 0
    /\ commitOf' = [commitOf EXCEPT ![pid][m] = side]
    /\ UNCHANGED <<registryVars, proposalVars, memberVars, revealedOf, defaultApplied,
                   delegateAccrued, delegatedForWeight, ballot>>

\* Weight w lands on one side of the tally of pid.
AddToTally(p, side, w) ==
    IF side = "for" THEN [p EXCEPT !.forWeight = @ + w]
                    ELSE [p EXCEPT !.againstWeight = @ + w]

Cast(pid, m, how, side, w) ==
    ballot' = [ballot EXCEPT ![pid][m] = [how |-> how, side |-> side, weight |-> w]]

RevealVote(m, pid) ==
    LET p == proposals[pid]
        side == commitOf[pid][m]
        w == BoundedWeight(p, m)
    IN  /\ InReveal(p)
        /\ side # "none"
        /\ revealedOf[pid][m] = "none"
        /\ revealedOf' = [revealedOf EXCEPT ![pid][m] = side]
        /\ proposals' = [proposals EXCEPT ![pid] =
             [AddToTally(p, side, w) EXCEPT !.revealedWeight = @ + w,
                                            !.revealedVoterCount = @ + 1]]
        /\ Cast(pid, m, "own", side, w)
        /\ UNCHANGED <<registryVars, proposalCount, activeProposalOf, memberVars, commitOf,
                       defaultApplied, delegateAccrued, delegatedForWeight>>

\* Fault: M-6, the cap is asked of each crank alone.
EachWithinCap(p, accrued, w) == w * BPS <= config.concentrationCapBps * p.snapshotTotal

\* VO-5: what a delegate carries for others stays under the cap.
WithinConcentrationCap(p, accrued, w) ==
    (accrued + w) * BPS <= config.concentrationCapBps * p.snapshotTotal

\* Fault: the consumed flag is not looked at.
CrankTwice(m, pid) ==
    LET p == proposals[pid]
        del == delegateOf[m]
        side == revealedOf[pid][del]
        w == BoundedWeight(p, m)
    IN  /\ InReveal(p)
        /\ del # NoMember
        /\ commitOf[pid][m] = "none"
        /\ side # "none"
        /\ w > 0
        /\ WithinConcentrationCap(p, delegateAccrued[pid][del], w)
        /\ defaultApplied' = [defaultApplied EXCEPT ![pid][m] = TRUE]
        /\ delegateAccrued' = [delegateAccrued EXCEPT ![pid][del] = @ + w]
        /\ proposals' = [proposals EXCEPT ![pid] = AddToTally(p, side, w)]
        /\ delegatedForWeight' = IF side = "for"
                                 THEN [delegatedForWeight EXCEPT ![pid] = @ + w]
                                 ELSE delegatedForWeight
        /\ Cast(pid, m, "delegated", side, w)
        /\ UNCHANGED <<registryVars, proposalCount, activeProposalOf, memberVars,
                       commitOf, revealedOf>>

RevealDelegated(m, pid) ==
    LET p == proposals[pid]
        del == delegateOf[m]
        side == revealedOf[pid][del]
        w == BoundedWeight(p, m)
    IN  /\ InReveal(p)
        /\ del # NoMember
        /\ commitOf[pid][m] = "none"
        /\ ~defaultApplied[pid][m]
        /\ side # "none"
        /\ w > 0
        /\ WithinConcentrationCap(p, delegateAccrued[pid][del], w)
        /\ defaultApplied' = [defaultApplied EXCEPT ![pid][m] = TRUE]
        /\ delegateAccrued' = [delegateAccrued EXCEPT ![pid][del] = @ + w]
        /\ proposals' = [proposals EXCEPT ![pid] = AddToTally(p, side, w)]
        /\ delegatedForWeight' = IF side = "for"
                                 THEN [delegatedForWeight EXCEPT ![pid] = @ + w]
                                 ELSE delegatedForWeight
        /\ Cast(pid, m, "delegated", side, w)
        /\ UNCHANGED <<registryVars, proposalCount, activeProposalOf, memberVars,
                       commitOf, revealedOf>>

SetStandingDefault(m, side) ==
    /\ vaultRegistered
    /\ standingDefaultOf' =
         [standingDefaultOf EXCEPT ![m] = [set |-> TRUE, side |-> side, setAt |-> now]]
    /\ UNCHANGED <<registryVars, proposalVars, voteVars, delegateOf, lastProposalAt>>

ClearStandingDefault(m) ==
    /\ standingDefaultOf' = [standingDefaultOf EXCEPT ![m] = NoDefault]
    /\ UNCHANGED <<registryVars, proposalVars, voteVars, delegateOf, lastProposalAt>>

\* F4: set before the proposal existed, and within its time to live.
DefaultStands(d, p) == d.set /\ d.setAt < p.createdAt /\ now <= d.setAt + DefaultTTL

ApplyStandingDefault(m, pid) ==
    LET p == proposals[pid]
        d == standingDefaultOf[m]
        w == BoundedWeight(p, m)
    IN  /\ InReveal(p)
        /\ p.ptype = "Rebalance"
        /\ commitOf[pid][m] = "none"
        /\ delegateOf[m] = NoMember
        /\ ~defaultApplied[pid][m]
        /\ DefaultStands(d, p)
        /\ w > 0
        /\ defaultApplied' = [defaultApplied EXCEPT ![pid][m] = TRUE]
        /\ proposals' = [proposals EXCEPT ![pid] = AddToTally(p, d.side, w)]
        /\ Cast(pid, m, "default", d.side, w)
        /\ UNCHANGED <<registryVars, proposalCount, activeProposalOf, memberVars, commitOf,
                       revealedOf, delegateAccrued, delegatedForWeight>>

\* Fault: delegations move while a proposal is in flight.
DelegateAnyTime(m, d) ==
    /\ vaultRegistered
    /\ proposals' = Refreshed
    /\ delegateOf' = [delegateOf EXCEPT ![m] = d]
    /\ UNCHANGED <<registryVars, proposalCount, activeProposalOf, voteVars,
                   standingDefaultOf, lastProposalAt>>

SetDelegate(m, d) ==
    /\ vaultRegistered
    /\ NothingInFlight
    /\ proposals' = Refreshed
    /\ delegateOf' = [delegateOf EXCEPT ![m] = d]
    /\ UNCHANGED <<registryVars, proposalCount, activeProposalOf, voteVars,
                   standingDefaultOf, lastProposalAt>>

-----------------------------------------------------------------------------
\* The three quorum regimes of finalize.
FullConsensus(p) ==
    /\ p.revealedWeight = p.snapshotTotal
    /\ p.forWeight >= p.snapshotTotal

\* Fault: weight a delegate directed is not taken out.
DirectedFor(pid) == proposals[pid].forWeight

SelfDirectedFor(pid) == proposals[pid].forWeight - delegatedForWeight[pid]

SmallVaultQuorum(pid) ==
    LET p == proposals[pid] IN
    \/ /\ p.revealedVoterCount * 2 > p.memberCount
       /\ SelfDirectedFor(pid) * BPS >= config.quorumBps * p.snapshotTotal
    \/ SelfDirectedFor(pid) * 2 > p.snapshotTotal

StakeQuorum(p) == p.revealedWeight * BPS >= config.quorumBps * p.snapshotTotal

QuorumOk(pid) ==
    LET p == proposals[pid] IN
    IF p.ptype = "RuleChange" THEN FullConsensus(p)
    ELSE IF p.memberCount < SignerRegimeBelow THEN SmallVaultQuorum(pid)
    ELSE StakeQuorum(p)

Carries(pid) == QuorumOk(pid) /\ proposals[pid].forWeight > proposals[pid].againstWeight

Finalize(pid) ==
    LET p == proposals[pid]
        executableAt == now + config.timelockDuration
    IN  /\ p.status = "Active"
        /\ now >= p.revealDeadline
        /\ proposals' = [proposals EXCEPT ![pid] =
             IF Carries(pid)
             THEN [p EXCEPT !.status = "Passed", !.executableAt = executableAt,
                            !.expiresAt = executableAt + config.executionWindow]
             ELSE [p EXCEPT !.status = "Defeated"]]
        /\ UNCHANGED <<registryVars, proposalCount, activeProposalOf, voteVars, memberVars>>

\* Fault: the execution window never closes.
ExecuteLate(pid) ==
    LET p == proposals[pid] IN
    /\ p.status = "Passed"
    /\ now >= p.executableAt
    /\ proposals' = [proposals EXCEPT ![pid].status = "Executed"]
    /\ \/ /\ p.ptype = "RuleChange"
          /\ ValidConfig(p.payload)
          /\ MeetsParentFloor(p.payload)
          /\ config' = p.payload
       \/ /\ p.ptype # "RuleChange"
          /\ UNCHANGED config
    /\ UNCHANGED <<vaultRegistered, proposalCount, activeProposalOf, voteVars, memberVars>>

\* A rebalance or a child allocation calls the vault, which moves no share of
\* this vault; if that call reverts, so does execute.
Execute(pid) ==
    LET p == proposals[pid] IN
    /\ p.status = "Passed"
    /\ now \in p.executableAt..p.expiresAt
    /\ proposals' = [proposals EXCEPT ![pid].status = "Executed"]
    /\ \/ /\ p.ptype = "RuleChange"
          /\ ValidConfig(p.payload)
          /\ MeetsParentFloor(p.payload)
          /\ config' = p.payload
       \/ /\ p.ptype # "RuleChange"
          /\ UNCHANGED config
    /\ UNCHANGED <<vaultRegistered, proposalCount, activeProposalOf, voteVars, memberVars>>

MarkExpired(pid) ==
    /\ Overdue(proposals[pid])
    /\ proposals' = [proposals EXCEPT ![pid].status = "Expired"]
    /\ UNCHANGED <<registryVars, proposalCount, activeProposalOf, voteVars, memberVars>>

-----------------------------------------------------------------------------
\* The payload a proposal of each type commits to: anything can be hashed, but
\* only a configuration decodes when a rule change executes.
Payloads(ptype) == IF ptype = "RuleChange" THEN Configs ELSE {NoPayload}

MemberStep(m) ==
    \/ \E t \in ProposalTypes : \E pl \in Payloads(t) : Propose(m, t, pl)
    \/ m \in Defaulters /\ \E s \in Side : SetStandingDefault(m, s)
    \/ m \in Defaulters /\ ClearStandingDefault(m)
    \/ m \in Delegators /\ \E d \in Member \union {NoMember} : SetDelegate(m, d)

VoteStep(m, pid) ==
    \/ \E s \in Side : CommitVote(m, pid, s)
    \/ RevealVote(m, pid)
    \/ RevealDelegated(m, pid)
    \/ ApplyStandingDefault(m, pid)

CrankStep(pid) == Finalize(pid) \/ Execute(pid) \/ MarkExpired(pid)

GovStep ==
    \/ \E cfg \in InitialConfigs : RegisterVault(cfg)
    \/ \E m \in Member : MemberStep(m)
    \/ \E m \in Member, pid \in Pid : VoteStep(m, pid)
    \/ \E pid \in Pid : CrankStep(pid)

-----------------------------------------------------------------------------
GovTypeOK ==
    /\ vaultRegistered \in BOOLEAN
    /\ config \in Configs
    /\ proposalCount \in Nat
    /\ proposals \in [Pid -> Proposal]
    /\ activeProposalOf \in Pid \union {0}
    /\ commitOf \in [Pid -> [Member -> Choice]]
    /\ revealedOf \in [Pid -> [Member -> Choice]]
    /\ defaultApplied \in [Pid -> [Member -> BOOLEAN]]
    /\ delegateAccrued \in [Pid -> [Member -> Nat]]
    /\ delegatedForWeight \in [Pid -> Nat]
    /\ standingDefaultOf \in [Member -> StandingDefault]
    /\ delegateOf \in [Member -> Member \union {NoMember}]
    /\ lastProposalAt \in [Member -> Nat]
    /\ ballot \in [Pid -> [Member -> Ballot]]
=============================================================================
