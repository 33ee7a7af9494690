------------------------ MODULE GovernedVaultProofs ------------------------
(***************************************************************************)
(* Machine-checked facts about GovernedVault, for every set of members,    *)
(* every configuration and every bound.  In order: its types; why an exit  *)
(* can never escape a vote, with the inductive invariant under which       *)
(* Serialized, SkinInTheGame, NoExitOnLeakedOutcome and RulesFixedInFlight *)
(* hold; its life by the clock; and what is counted: the ledger's counters *)
(* are the sums they stand for, a tally is the sum of what its members     *)
(* lent it, each at most once, and the quorum of what passed was made by   *)
(* members who were there.                                                 *)
(***************************************************************************)
EXTENDS GovernedVault, FiniteLemmas

\* settleQueuedExit never burns more than its member holds.
QueuedCovered == \A m \in Member : queuedExitShares[m] <= sharesOf[m]

\* What a rule change executes is a configuration.
PayloadDecodes ==
    \A pid \in Pid : proposals[pid].status # "None" /\ proposals[pid].ptype = "RuleChange"
                        => proposals[pid].payload \in Configs

TypeInv == TypeOK /\ QueuedCovered /\ PayloadDecodes

USE StakeAssumption, GovernanceAssumption

-----------------------------------------------------------------------------
\* The initial state is well typed.
LEMMA InitTypeInv == Init => TypeInv
<1> SUFFICES ASSUME Init PROVE TypeInv
  OBVIOUS
<1> USE DEF Init, StakeInit, SharesInit, GovInit, NothingProposed
<1>1. StakeTypeOK
  BY DEF StakeTypeOK, SharesTypeOK, PastView
<1>2. NoProposal \in Proposal
  BY DEF NoProposal, Proposal, Status
<1>3. config \in Configs
  OBVIOUS
<1>4. GovTypeOK
  BY <1>2, <1>3 DEF GovTypeOK, Choice, StandingDefault, NoDefault, Side, Ballot, NoBallot
<1>5. QueuedCovered
  BY DEF QueuedCovered
<1>6. PayloadDecodes
  BY DEF PayloadDecodes, NoProposal
<1>7. QED
  BY <1>1, <1>4, <1>5, <1>6 DEF TypeInv, TypeOK

\* The steps of the vault preserve the type of its ledger.
LEMMA StakeStep ==
    ASSUME StakeTypeOK, QueuedCovered, NEW pending \in BOOLEAN,
           Tick \/ VaultStep(pending)
    PROVE  StakeTypeOK' /\ QueuedCovered'
<1> USE DEF StakeTypeOK, SharesTypeOK, QueuedCovered, PastView
<1>1. CASE Tick
  BY <1>1 DEF Tick, stakeVars, VotingEligibleShares, TotalVotingEligibleShares
<1>2. ASSUME NEW m \in Member, NEW n \in MintSizes, MintShares(m, n), UNCHANGED past
      PROVE  StakeTypeOK' /\ QueuedCovered'
  BY <1>2 DEF MintShares
<1>3. ASSUME NEW m \in Member, NEW n \in 1..sharesOf[m], RequestExit(m, n, pending), UNCHANGED past
      PROVE  StakeTypeOK' /\ QueuedCovered'
  BY <1>3 DEF RequestExit, BurnShares
<1>4. ASSUME NEW m \in Member, SettleQueuedExit(m, pending), UNCHANGED past
      PROVE  StakeTypeOK' /\ QueuedCovered'
  BY <1>4 DEF SettleQueuedExit, BurnShares
<1>5. QED
  BY <1>1, <1>2, <1>3, <1>4 DEF VaultStep

-----------------------------------------------------------------------------
\* Moving the status of one proposal touches nothing else of it.
LEMMA StatusUpdate ==
    ASSUME NEW ps \in [Pid -> Proposal], NEW pid \in Pid, NEW s \in Status
    PROVE  LET qs == [ps EXCEPT ![pid].status = s] IN
           /\ qs \in [Pid -> Proposal]
           /\ qs[pid].status = s
           /\ \A i \in Pid : i # pid => qs[i] = ps[i]
           /\ qs[pid].ptype = ps[pid].ptype
           /\ qs[pid].payload = ps[pid].payload
           /\ qs[pid].commitDeadline = ps[pid].commitDeadline
           /\ qs[pid].expiresAt = ps[pid].expiresAt
           /\ qs[pid].createdAt = ps[pid].createdAt
           /\ qs[pid].revealDeadline = ps[pid].revealDeadline
           /\ qs[pid].executableAt = ps[pid].executableAt
<1> DEFINE q == [ps[pid] EXCEPT !.status = s]
<1>1. ps[pid] \in Proposal
  OBVIOUS
<1>2. /\ q \in Proposal /\ q.status = s /\ q.ptype = ps[pid].ptype
      /\ q.payload = ps[pid].payload /\ q.commitDeadline = ps[pid].commitDeadline
      /\ q.expiresAt = ps[pid].expiresAt /\ q.createdAt = ps[pid].createdAt
      /\ q.revealDeadline = ps[pid].revealDeadline /\ q.executableAt = ps[pid].executableAt
  BY <1>1 DEF Proposal
<1>3. [ps EXCEPT ![pid].status = s] = [ps EXCEPT ![pid] = q]
  OBVIOUS
<1>4. QED
  BY <1>2, <1>3

\* Refreshing the active proposal changes at most its status.
LEMMA RefreshedType ==
    ASSUME GovTypeOK
    PROVE  /\ Refreshed \in [Pid -> Proposal]
           /\ \A i \in Pid :
                /\ Refreshed[i].ptype = proposals[i].ptype
                /\ Refreshed[i].payload = proposals[i].payload
                /\ Refreshed[i].commitDeadline = proposals[i].commitDeadline
                /\ Refreshed[i].expiresAt = proposals[i].expiresAt
                /\ Refreshed[i].createdAt = proposals[i].createdAt
                /\ Refreshed[i].revealDeadline = proposals[i].revealDeadline
                /\ Refreshed[i].executableAt = proposals[i].executableAt
                /\ \/ Refreshed[i].status = proposals[i].status
                   \/ i = activeProposalOf /\ Overdue(proposals[i])
                      /\ Refreshed[i].status = "Expired"
<1>1. CASE activeProposalOf # 0 /\ Overdue(proposals[activeProposalOf])
  <2>1. activeProposalOf \in Pid /\ proposals \in [Pid -> Proposal] /\ "Expired" \in Status
    BY <1>1 DEF GovTypeOK, Status
  <2>2. Refreshed = [proposals EXCEPT ![activeProposalOf].status = "Expired"]
    BY <1>1 DEF Refreshed
  <2>3. QED
    BY <1>1, <2>1, <2>2, StatusUpdate
<1>2. CASE ~(activeProposalOf # 0 /\ Overdue(proposals[activeProposalOf]))
  BY <1>2 DEF Refreshed, GovTypeOK
<1>3. QED
  BY <1>1, <1>2

\* A weight is never negative and never more than the voter now holds unlocked.
LEMMA BoundedWeightFacts ==
    ASSUME StakeTypeOK, QueuedCovered, NEW m \in Member, NEW p \in Proposal
    PROVE  /\ BoundedWeight(p, m) \in Nat
           /\ BoundedWeight(p, m) <= p.snapshot[m]
           /\ BoundedWeight(p, m) <= sharesOf[m]
BY DEF StakeTypeOK, SharesTypeOK, QueuedCovered, BoundedWeight, VotingEligibleShares, Proposal

\* Two proposals that differ at most in their tallies.
SameButTally(p, q) ==
    /\ q.ptype = p.ptype /\ q.payload = p.payload /\ q.status = p.status
    /\ q.commitDeadline = p.commitDeadline /\ q.expiresAt = p.expiresAt
    /\ q.createdAt = p.createdAt /\ q.revealDeadline = p.revealDeadline
    /\ q.executableAt = p.executableAt

\* A tally step keeps a proposal well typed and everything but its tally.
LEMMA TallyType ==
    ASSUME NEW p \in Proposal, NEW side \in Side, NEW w \in Nat
    PROVE  AddToTally(p, side, w) \in Proposal /\ SameButTally(p, AddToTally(p, side, w))
<1>1. CASE side = "for"
  BY <1>1 DEF AddToTally, Proposal, SameButTally
<1>2. CASE side # "for"
  BY <1>2 DEF AddToTally, Proposal, SameButTally
<1>3. QED
  BY <1>1, <1>2

\* So does counting a reveal.
LEMMA RevealedType ==
    ASSUME NEW p \in Proposal, NEW w \in Nat
    PROVE  LET q == [p EXCEPT !.revealedWeight = @ + w, !.revealedVoterCount = @ + 1] IN
           q \in Proposal /\ SameButTally(p, q)
<1> DEFINE q1 == [p EXCEPT !.revealedWeight = @ + w]
           q == [q1 EXCEPT !.revealedVoterCount = @ + 1]
<1>1. q1 \in Proposal /\ SameButTally(p, q1)
  BY DEF Proposal, SameButTally
<1>2. q \in Proposal /\ SameButTally(q1, q)
  <2> HIDE DEF q1
  <2>1. QED
    BY <1>1 DEF Proposal, SameButTally
<1>3. q = [p EXCEPT !.revealedWeight = @ + w, !.revealedVoterCount = @ + 1]
  BY DEF Proposal
<1>4. QED
  BY <1>1, <1>2, <1>3 DEF SameButTally

\* A new proposal is well typed, and is of the type and payload it was given.
LEMMA NewProposalType ==
    ASSUME TypeInv, NEW t \in ProposalTypes, NEW pl \in Payloads(t)
    PROVE  /\ NewProposal(t, pl) \in Proposal
           /\ NewProposal(t, pl).ptype = t
           /\ NewProposal(t, pl).payload = pl
           /\ NewProposal(t, pl).status = "Active"
           /\ NewProposal(t, pl).commitDeadline = now + config.commitDuration
<1>1. config \in GovConfig /\ now \in Nat /\ past \in PastView
  BY DEF TypeInv, TypeOK, GovTypeOK, StakeTypeOK, SharesTypeOK
<1>2. /\ now + config.commitDuration \in Nat
      /\ now + config.commitDuration + config.revealDuration \in Nat
  BY <1>1 DEF GovConfig
<1>3. past.eligible \in [Member -> Nat] /\ past.total \in Int /\ past.holders \in Int
  BY <1>1 DEF PastView
<1>4. pl \in Configs \union {NoPayload}
  BY DEF Payloads
<1>5. QED
  BY <1>1, <1>2, <1>3, <1>4 DEF NewProposal, Proposal, Status

\* A vote event keeps the ballots well typed.
LEMMA CastType ==
    ASSUME GovTypeOK, NEW pid \in Pid, NEW m \in Member,
           NEW how \in {"own", "default", "delegated"}, NEW side \in Side, NEW w \in Nat,
           Cast(pid, m, how, side, w)
    PROVE  ballot' \in [Pid -> [Member -> Ballot]]
BY DEF GovTypeOK, Cast, Ballot, Choice

\* The three ways a weight reaches the tally change one proposal, in its tally
\* only, and report the bounded weight.
Votes(m, pid) == RevealVote(m, pid) \/ RevealDelegated(m, pid) \/ ApplyStandingDefault(m, pid)

\* Every way to vote is one change of the tally and one of the ballots.
LEMMA VoteCast ==
    ASSUME TypeInv, NEW m \in Member, NEW pid \in Pid, Votes(m, pid)
    PROVE  /\ InReveal(proposals[pid])
           /\ \E q \in Proposal : /\ SameButTally(proposals[pid], q)
                                 /\ proposals' = [proposals EXCEPT ![pid] = q]
           /\ \E how \in {"own", "default", "delegated"}, side \in Side :
                 Cast(pid, m, how, side, BoundedWeight(proposals[pid], m))
<1> USE DEF TypeInv, TypeOK
<1> DEFINE p == proposals[pid]
           w == BoundedWeight(p, m)
<1>1. p \in Proposal /\ w \in Nat
  BY BoundedWeightFacts DEF GovTypeOK
<1>2. CASE RevealVote(m, pid)
  <2> DEFINE side == commitOf[pid][m]
             added == AddToTally(p, side, w)
             new == [added EXCEPT !.revealedWeight = @ + w, !.revealedVoterCount = @ + 1]
  <2>1. side \in Side
    BY <1>2 DEF RevealVote, GovTypeOK, Choice, Side
  <2>2. added \in Proposal /\ SameButTally(p, added)
    BY <1>1, <2>1, TallyType
  <2>3. new \in Proposal /\ SameButTally(added, new)
    BY <1>1, <2>2, RevealedType
  <2>4. InReveal(p) /\ proposals' = [proposals EXCEPT ![pid] = new]
        /\ Cast(pid, m, "own", side, w)
    BY <1>2 DEF RevealVote
  <2>5. QED
    BY <2>1, <2>2, <2>3, <2>4 DEF SameButTally
<1>3. CASE RevealDelegated(m, pid)
  <2> DEFINE side == revealedOf[pid][delegateOf[m]]
             new == AddToTally(p, side, w)
  <2>1. side \in Side
    BY <1>3 DEF RevealDelegated, GovTypeOK, Choice, Side
  <2>2. new \in Proposal /\ SameButTally(p, new)
    BY <1>1, <2>1, TallyType
  <2>3. InReveal(p) /\ proposals' = [proposals EXCEPT ![pid] = new]
        /\ Cast(pid, m, "delegated", side, w)
    BY <1>3 DEF RevealDelegated
  <2>4. QED
    BY <2>1, <2>2, <2>3
<1>4. CASE ApplyStandingDefault(m, pid)
  <2> DEFINE side == standingDefaultOf[m].side
             new == AddToTally(p, side, w)
  <2>1. side \in Side
    BY <1>4 DEF GovTypeOK, StandingDefault
  <2>2. new \in Proposal /\ SameButTally(p, new)
    BY <1>1, <2>1, TallyType
  <2>3. InReveal(p) /\ proposals' = [proposals EXCEPT ![pid] = new]
        /\ Cast(pid, m, "default", side, w)
    BY <1>4 DEF ApplyStandingDefault
  <2>4. QED
    BY <2>1, <2>2, <2>3
<1>5. QED
  BY <1>2, <1>3, <1>4 DEF Votes

\* Every way to vote keeps proposals and ballots well typed.
LEMMA VoteType ==
    ASSUME TypeInv, NEW m \in Member, NEW pid \in Pid, Votes(m, pid)
    PROVE  /\ proposals' \in [Pid -> Proposal]
           /\ ballot' \in [Pid -> [Member -> Ballot]]
           /\ PayloadDecodes'
<1>1. PICK q \in Proposal : /\ SameButTally(proposals[pid], q)
                            /\ proposals' = [proposals EXCEPT ![pid] = q]
  BY VoteCast
<1>2. PICK how \in {"own", "default", "delegated"}, side \in Side :
        Cast(pid, m, how, side, BoundedWeight(proposals[pid], m))
  BY VoteCast
<1>3. BoundedWeight(proposals[pid], m) \in Nat
  BY BoundedWeightFacts DEF TypeInv, TypeOK, GovTypeOK
<1>4. ballot' \in [Pid -> [Member -> Ballot]]
  BY <1>2, <1>3, CastType DEF TypeInv, TypeOK
<1>5. proposals' \in [Pid -> Proposal] /\ PayloadDecodes'
  BY <1>1 DEF TypeInv, TypeOK, GovTypeOK, PayloadDecodes, SameButTally
<1>6. QED
  BY <1>4, <1>5

\* The steps of governance preserve the type of its state.
LEMMA GovStepType ==
    ASSUME TypeInv, GovStep
    PROVE  GovTypeOK' /\ PayloadDecodes'
<1> USE DEF TypeInv, TypeOK
<1>1. ASSUME NEW cfg \in InitialConfigs, RegisterVault(cfg)
      PROVE  GovTypeOK' /\ PayloadDecodes'
  BY <1>1 DEF RegisterVault, GovTypeOK, PayloadDecodes, proposalVars, voteVars, memberVars
<1>2. ASSUME NEW m \in Member, NEW t \in ProposalTypes, NEW pl \in Payloads(t),
             Propose(m, t, pl)
      PROVE  GovTypeOK' /\ PayloadDecodes'
  <2> DEFINE pid == proposalCount + 1
             new == NewProposal(t, pl)
  <2>1. /\ pid \in Pid /\ proposals' = [Refreshed EXCEPT ![pid] = new]
        /\ proposalCount' = pid /\ activeProposalOf' = pid
        /\ lastProposalAt' = [lastProposalAt EXCEPT ![m] = now]
        /\ UNCHANGED <<registryVars, voteVars, standingDefaultOf, delegateOf>>
    BY <1>2 DEF Propose
  <2>2. new \in Proposal /\ new.ptype = t /\ new.payload = pl
    BY NewProposalType
  <2>3. proposals' \in [Pid -> Proposal]
    BY <2>1, <2>2, RefreshedType
  <2>4. GovTypeOK'
    BY <2>1, <2>3 DEF GovTypeOK, registryVars, voteVars, StakeTypeOK, SharesTypeOK
  <2>5. ASSUME NEW i \in Pid, proposals'[i].status # "None", proposals'[i].ptype = "RuleChange"
        PROVE  proposals'[i].payload \in Configs
    <3>1. CASE i = pid
      BY <2>1, <2>2, <2>5, <3>1, RefreshedType DEF Payloads
    <3>2. CASE i # pid
      <4>1. proposals'[i] = Refreshed[i]
        BY <2>1, <3>2, RefreshedType
      <4>2. proposals[i].status # "None" /\ proposals[i].ptype = "RuleChange"
        BY <2>5, <4>1, RefreshedType DEF Overdue
      <4>3. QED
        BY <4>1, <4>2, RefreshedType DEF PayloadDecodes
    <3>3. QED
      BY <3>1, <3>2
  <2>7. PayloadDecodes'
    BY <2>5 DEF PayloadDecodes
  <2>8. QED
    BY <2>4, <2>7
<1>3. ASSUME NEW m \in Member, NEW s \in Side, SetStandingDefault(m, s)
      PROVE  GovTypeOK' /\ PayloadDecodes'
  BY <1>3 DEF SetStandingDefault, GovTypeOK, PayloadDecodes, StandingDefault, StakeTypeOK, SharesTypeOK,
              registryVars, proposalVars, voteVars
<1>4. ASSUME NEW m \in Member, ClearStandingDefault(m)
      PROVE  GovTypeOK' /\ PayloadDecodes'
  BY <1>4 DEF ClearStandingDefault, GovTypeOK, PayloadDecodes, StandingDefault, NoDefault,
              Side, registryVars, proposalVars, voteVars
<1>5. ASSUME NEW m \in Member, NEW d \in Member \union {NoMember}, SetDelegate(m, d)
      PROVE  GovTypeOK' /\ PayloadDecodes'
  <2>1. proposals' = Refreshed /\ proposals' \in [Pid -> Proposal]
    BY <1>5, RefreshedType DEF SetDelegate
  <2>2. GovTypeOK'
    BY <1>5, <2>1 DEF SetDelegate, GovTypeOK, registryVars, voteVars
  <2>3. PayloadDecodes'
    BY <2>1 DEF Refreshed, PayloadDecodes, GovTypeOK, Proposal, Overdue
  <2>4. QED
    BY <2>2, <2>3
<1>6. ASSUME NEW m \in Member, NEW pid \in Pid, NEW s \in Side, CommitVote(m, pid, s)
      PROVE  GovTypeOK' /\ PayloadDecodes'
  BY <1>6 DEF CommitVote, GovTypeOK, PayloadDecodes, Choice, registryVars, proposalVars,
              memberVars
<1>7. ASSUME NEW m \in Member, NEW pid \in Pid, RevealVote(m, pid)
      PROVE  GovTypeOK' /\ PayloadDecodes'
  <2>1. /\ proposals' \in [Pid -> Proposal]
        /\ ballot' \in [Pid -> [Member -> Ballot]] /\ PayloadDecodes'
    BY <1>7, VoteType DEF Votes
  <2>2. revealedOf' \in [Pid -> [Member -> Choice]]
    BY <1>7 DEF RevealVote, GovTypeOK
  <2>3. QED
    BY <1>7, <2>1, <2>2 DEF RevealVote, GovTypeOK, registryVars, memberVars
<1>8. ASSUME NEW m \in Member, NEW pid \in Pid, RevealDelegated(m, pid)
      PROVE  GovTypeOK' /\ PayloadDecodes'
  <2>1. /\ proposals' \in [Pid -> Proposal]
        /\ ballot' \in [Pid -> [Member -> Ballot]] /\ PayloadDecodes'
    BY <1>8, VoteType DEF Votes
  <2>2. BoundedWeight(proposals[pid], m) \in Nat /\ delegateOf[m] \in Member
    BY <1>8, BoundedWeightFacts DEF RevealDelegated, GovTypeOK
  <2>3. defaultApplied' \in [Pid -> [Member -> BOOLEAN]]
    BY <1>8 DEF RevealDelegated, GovTypeOK
  <2>4. delegateAccrued' \in [Pid -> [Member -> Nat]]
    BY <1>8, <2>2 DEF RevealDelegated, GovTypeOK
  <2>5. delegatedForWeight' \in [Pid -> Nat]
    BY <1>8, <2>2 DEF RevealDelegated, GovTypeOK
  <2>6. QED
    BY <1>8, <2>1, <2>3, <2>4, <2>5 DEF RevealDelegated, GovTypeOK, registryVars, memberVars
<1>9. ASSUME NEW m \in Member, NEW pid \in Pid, ApplyStandingDefault(m, pid)
      PROVE  GovTypeOK' /\ PayloadDecodes'
  <2>1. /\ proposals' \in [Pid -> Proposal]
        /\ ballot' \in [Pid -> [Member -> Ballot]] /\ PayloadDecodes'
    BY <1>9, VoteType DEF Votes
  <2>2. defaultApplied' \in [Pid -> [Member -> BOOLEAN]]
    BY <1>9 DEF ApplyStandingDefault, GovTypeOK
  <2>3. QED
    BY <1>9, <2>1, <2>2 DEF ApplyStandingDefault, GovTypeOK, registryVars, memberVars
<1>10. ASSUME NEW pid \in Pid, Finalize(pid)
       PROVE  GovTypeOK' /\ PayloadDecodes'
  <2>1. proposals' \in [Pid -> Proposal]
    <3> DEFINE p == proposals[pid]
               executableAt == now + config.timelockDuration
               passed == [p EXCEPT !.status = "Passed", !.executableAt = executableAt,
                                   !.expiresAt = executableAt + config.executionWindow]
               defeated == [p EXCEPT !.status = "Defeated"]
    <3>1. p \in Proposal /\ config \in GovConfig /\ now \in Nat
      BY DEF GovTypeOK, StakeTypeOK, SharesTypeOK
    <3>2. executableAt \in Nat /\ executableAt + config.executionWindow \in Nat
      BY <3>1 DEF GovConfig
    <3>3. passed \in Proposal /\ defeated \in Proposal
      BY <3>1, <3>2 DEF Proposal, Status
    <3>4. proposals' = [proposals EXCEPT ![pid] = IF Carries(pid) THEN passed ELSE defeated]
      BY <1>10 DEF Finalize
    <3>5. QED
      BY <3>3, <3>4 DEF GovTypeOK
  <2>2. GovTypeOK'
    BY <1>10, <2>1 DEF Finalize, GovTypeOK, registryVars, voteVars, memberVars
  <2>3. PayloadDecodes'
    BY <1>10 DEF Finalize, PayloadDecodes, GovTypeOK, Proposal
  <2>4. QED
    BY <2>2, <2>3
<1>11. ASSUME NEW pid \in Pid, Execute(pid)
       PROVE  GovTypeOK' /\ PayloadDecodes'
  <2>1. proposals' \in [Pid -> Proposal]
    <3>1. "Executed" \in Status /\ proposals \in [Pid -> Proposal]
          /\ proposals' = [proposals EXCEPT ![pid].status = "Executed"]
      BY <1>11 DEF Execute, GovTypeOK, Status
    <3>2. QED
      BY <3>1, StatusUpdate
  <2>2. config' \in Configs
    BY <1>11 DEF Execute, GovTypeOK, PayloadDecodes
  <2>3. GovTypeOK'
    BY <1>11, <2>1, <2>2 DEF Execute, GovTypeOK, voteVars, memberVars
  <2>4. PayloadDecodes'
    <3>1. "Executed" \in Status /\ proposals \in [Pid -> Proposal]
          /\ proposals[pid].status = "Passed"
          /\ proposals' = [proposals EXCEPT ![pid].status = "Executed"]
      BY <1>11 DEF Execute, GovTypeOK, Status
    <3>2. config' \in Configs /\ \A i \in Pid : /\ proposals'[i].ptype = proposals[i].ptype
                                               /\ proposals'[i].payload = proposals[i].payload
                                               /\ i # pid => proposals'[i].status = proposals[i].status
      BY <2>2, <3>1, StatusUpdate
    <3>3. QED
      BY <3>1, <3>2 DEF PayloadDecodes
  <2>5. QED
    BY <2>3, <2>4
<1>12. ASSUME NEW pid \in Pid, MarkExpired(pid)
       PROVE  GovTypeOK' /\ PayloadDecodes'
  <2>1. proposals' \in [Pid -> Proposal]
    <3>1. "Expired" \in Status /\ proposals \in [Pid -> Proposal]
          /\ proposals' = [proposals EXCEPT ![pid].status = "Expired"]
      BY <1>12 DEF MarkExpired, GovTypeOK, Status
    <3>2. QED
      BY <3>1, StatusUpdate
  <2>2. GovTypeOK'
    BY <1>12, <2>1 DEF MarkExpired, GovTypeOK, registryVars, voteVars, memberVars
  <2>3. PayloadDecodes'
    <3>1. "Expired" \in Status /\ proposals \in [Pid -> Proposal]
          /\ proposals[pid].status = "Passed"
          /\ proposals' = [proposals EXCEPT ![pid].status = "Expired"]
      BY <1>12 DEF MarkExpired, GovTypeOK, Status, Overdue
    <3>2. \A i \in Pid : /\ proposals'[i].ptype = proposals[i].ptype
                         /\ proposals'[i].payload = proposals[i].payload
                         /\ i # pid => proposals'[i].status = proposals[i].status
      BY <3>1, StatusUpdate
    <3>3. QED
      BY <3>1, <3>2 DEF PayloadDecodes
  <2>4. QED
    BY <2>2, <2>3
<1>13. QED
  BY <1>1, <1>2, <1>3, <1>4, <1>5, <1>6, <1>7, <1>8, <1>9, <1>10, <1>11, <1>12
     DEF GovStep, MemberStep, VoteStep, CrankStep

-----------------------------------------------------------------------------
\* Every step of the composition keeps it well typed.
LEMMA NextTypeInv == TypeInv /\ [Next]_vars => TypeInv'
<1> SUFFICES ASSUME TypeInv, [Next]_vars PROVE TypeInv'
  OBVIOUS
<1>1. CASE UNCHANGED vars
  <2>1. StakeTypeOK' /\ QueuedCovered'
    BY <1>1 DEF TypeInv, TypeOK, StakeTypeOK, SharesTypeOK, QueuedCovered, vars, stakeVars
  <2>2. GovTypeOK' /\ PayloadDecodes'
    BY <1>1 DEF TypeInv, TypeOK, GovTypeOK, PayloadDecodes, vars, govVars,
                registryVars, proposalVars, voteVars, memberVars
  <2>3. QED
    BY <2>1, <2>2 DEF TypeInv, TypeOK
<1>2. CASE (Second \/ VaultStep(HasPendingExecution)) /\ UNCHANGED govVars
  <2>1. HasPendingExecution \in BOOLEAN
    BY DEF HasPendingExecution
  <2>2. StakeTypeOK' /\ QueuedCovered'
    BY <1>2, <2>1, StakeStep DEF Second, TypeInv, TypeOK
  <2>3. GovTypeOK' /\ PayloadDecodes'
    BY <1>2 DEF TypeInv, TypeOK, GovTypeOK, PayloadDecodes, govVars,
                registryVars, proposalVars, voteVars, memberVars
  <2>4. QED
    BY <2>2, <2>3 DEF TypeInv, TypeOK
<1>3. CASE GovStep /\ UNCHANGED <<now, past, stakeVars>>
  <2>1. StakeTypeOK' /\ QueuedCovered'
    BY <1>3 DEF TypeInv, TypeOK, StakeTypeOK, SharesTypeOK, QueuedCovered, stakeVars
  <2>2. GovTypeOK' /\ PayloadDecodes'
    BY <1>3, GovStepType
  <2>3. QED
    BY <2>1, <2>2 DEF TypeInv, TypeOK
<1>4. QED
  BY <1>1, <1>2, <1>3 DEF Next, Second

\* Every reachable state has its types, whatever the members and the bounds.
\* Two facts make that inductive: a queued exit is covered by the shares of its
\* member, or settling it would take sharesOf below zero; and what a rule
\* change executes is a configuration.
THEOREM TypeCorrect == Spec => []TypeOK
<1>1. Init => TypeInv
  BY InitTypeInv
<1>2. TypeInv /\ [Next]_vars => TypeInv'
  BY NextTypeInv
<1>3. TypeInv => TypeOK
  BY DEF TypeInv
<1>4. QED
  BY <1>1, <1>2, <1>3, PTL DEF Spec

-----------------------------------------------------------------------------
(***************************************************************************)
(* Exits and votes.                                                        *)
(***************************************************************************)
\* The active proposal is the latest, and later ids are untouched.
ActiveIsLatest ==
    /\ activeProposalOf = proposalCount
    /\ \A pid \in Pid : pid > proposalCount => proposals[pid].status = "None"

RegisteredFirst == ~vaultRegistered => proposalCount = 0

\* No weight is on the tally before the reveal phase of its proposal.
CountedAfterCommit ==
    \A pid \in Pid, m \in Member :
        Counted(pid, m) > 0 => /\ proposals[pid].status # "None"
                               /\ now >= proposals[pid].commitDeadline

SafetyInv ==
    /\ TypeInv
    /\ ActiveIsLatest
    /\ RegisteredFirst
    /\ Serialized
    /\ CountedAfterCommit
    /\ SkinInTheGame

-----------------------------------------------------------------------------
\* What every governance step does to the status of one proposal.
StatusMove(pid) ==
    LET p == proposals[pid] q == proposals'[pid] IN
    /\ p.status # "None" => q.status # "None" /\ q.commitDeadline = p.commitDeadline
    /\ p.status = "None" => (q.status = "None" \/ (pid = proposalCount + 1 /\ pid = proposalCount'))
    /\ Settled(p.status) => q.status = p.status
    /\ InFlight(pid)' => InFlight(pid) \/ p.status = "None"

\* And to the weight one member lends it.
WeightMove(pid, m) ==
    \/ Counted(pid, m)' = Counted(pid, m)
    \/ /\ InReveal(proposals[pid])
       /\ Counted(pid, m)' = BoundedWeight(proposals[pid], m)

\* And to the serialization of proposals.
QueueMove ==
    \/ UNCHANGED <<proposalCount, activeProposalOf>>
    \/ /\ proposalCount' = proposalCount + 1
       /\ activeProposalOf' = proposalCount'
       /\ vaultRegistered
       /\ \A pid \in Pid : pid # proposalCount' =>
             proposals'[pid].status = "None" \/ Settled(proposals'[pid].status)

GovMove ==
    /\ QueueMove
    /\ \A pid \in Pid : StatusMove(pid)
    /\ \A pid \in Pid, m \in Member : WeightMove(pid, m)
    /\ vaultRegistered => vaultRegistered'

\* Proposals that keep their status and their deadlines.
LEMMA SameStatus ==
    ASSUME NEW pid \in Pid, now' = now,
           proposals'[pid].status = proposals[pid].status,
           proposals'[pid].commitDeadline = proposals[pid].commitDeadline,
           proposals'[pid].expiresAt = proposals[pid].expiresAt
    PROVE  StatusMove(pid)
BY DEF StatusMove, InFlight, Settled

\* A cranked or revealed weight changes one proposal in its tally only.
LEMMA TallyMove ==
    ASSUME TypeInv, NEW pid \in Pid, NEW q \in Proposal, now' = now,
           SameButTally(proposals[pid], q),
           proposals' = [proposals EXCEPT ![pid] = q]
    PROVE  \A i \in Pid : StatusMove(i)
<1> TAKE i \in Pid
<1>1. /\ proposals'[i].status = proposals[i].status
      /\ proposals'[i].commitDeadline = proposals[i].commitDeadline
      /\ proposals'[i].expiresAt = proposals[i].expiresAt
  BY DEF SameButTally, TypeInv, TypeOK, GovTypeOK
<1>2. QED
  BY <1>1, SameStatus

\* A vote event counts a weight in the reveal phase only, and a bounded one.
LEMMA CastMove ==
    ASSUME TypeInv, NEW pid \in Pid, NEW m \in Member, NEW how, NEW side,
           InReveal(proposals[pid]),
           Cast(pid, m, how, side, BoundedWeight(proposals[pid], m))
    PROVE  \A i \in Pid, n \in Member : WeightMove(i, n)
BY DEF TypeInv, TypeOK, GovTypeOK, Cast, WeightMove, Counted

\* A step that leaves the ballots alone moves no weight.
LEMMA NoCast ==
    ASSUME ballot' = ballot
    PROVE  \A i \in Pid, n \in Member : WeightMove(i, n)
BY DEF WeightMove, Counted

\* Refreshing moves a status only as a deadline demands.
LEMMA RefreshMove ==
    ASSUME SafetyInv, now' = now, NEW pid \in Pid,
           proposals'[pid] = Refreshed[pid]
    PROVE  StatusMove(pid)
<1>1. CASE Refreshed[pid].status = proposals[pid].status
  BY <1>1, RefreshedType, SameStatus DEF SafetyInv, TypeInv, TypeOK
<1>2. CASE Refreshed[pid].status # proposals[pid].status
  BY <1>2, RefreshedType
     DEF SafetyInv, TypeInv, TypeOK, StatusMove, InFlight, Overdue, Settled
<1>3. QED
  BY <1>1, <1>2

-----------------------------------------------------------------------------
\* What each step of governance does, in those terms.
LEMMA GovStepMoves ==
    ASSUME SafetyInv, GovStep, now' = now
    PROVE  GovMove
<1> USE DEF GovMove
<1>1. ASSUME NEW cfg \in InitialConfigs, RegisterVault(cfg) PROVE GovMove
  BY <1>1, SameStatus, NoCast DEF RegisterVault, QueueMove, proposalVars, voteVars
<1>2. ASSUME NEW m \in Member, NEW t \in ProposalTypes, NEW pl \in Payloads(t),
             Propose(m, t, pl)
      PROVE  GovMove
  <2> DEFINE pid == proposalCount + 1
             new == NewProposal(t, pl)
  <2>1. /\ pid \in Pid /\ proposals' = [Refreshed EXCEPT ![pid] = new]
        /\ proposalCount' = pid /\ activeProposalOf' = pid
        /\ NothingInFlight /\ vaultRegistered
        /\ UNCHANGED <<registryVars, voteVars>>
    BY <1>2 DEF Propose
  <2>2. Refreshed \in [Pid -> Proposal] /\ TypeInv /\ proposalCount \in Nat
    BY RefreshedType DEF SafetyInv, TypeInv, TypeOK, GovTypeOK
  <2>3. ASSUME NEW i \in Pid PROVE StatusMove(i)
    <3>1. CASE i = pid
      <4>1. proposals[i].status = "None"
        BY <2>2, <3>1 DEF SafetyInv, ActiveIsLatest
      <4>2. QED
        BY <4>1, <2>1, <3>1 DEF StatusMove, Settled
    <3>2. CASE i # pid
      BY <2>1, <2>2, <3>2, RefreshMove
    <3>3. QED
      BY <3>1, <3>2
  <2>4. ASSUME NEW i \in Pid, i # pid
        PROVE  proposals'[i].status = "None" \/ Settled(proposals'[i].status)
    <3>1. proposals'[i] = Refreshed[i]
      BY <2>1, <2>2, <2>4
    <3>2. CASE i = activeProposalOf
      BY <2>1, <3>1, <3>2 DEF NothingInFlight, Pid
    <3>3. CASE i # activeProposalOf
      <4>1. Refreshed[i].status = proposals[i].status
        BY <3>3, RefreshedType DEF SafetyInv, TypeInv, TypeOK
      <4>2. QED
        BY <3>1, <3>3, <4>1 DEF SafetyInv, Serialized
    <3>4. QED
      BY <3>2, <3>3
  <2>5. QueueMove
    BY <2>1, <2>4 DEF QueueMove
  <2>6. QED
    BY <2>1, <2>3, <2>5, NoCast DEF registryVars, voteVars
<1>3. ASSUME NEW m \in Member, NEW s \in Side, SetStandingDefault(m, s) PROVE GovMove
  BY <1>3, SameStatus, NoCast
     DEF SetStandingDefault, QueueMove, registryVars, proposalVars, voteVars
<1>4. ASSUME NEW m \in Member, ClearStandingDefault(m) PROVE GovMove
  BY <1>4, SameStatus, NoCast
     DEF ClearStandingDefault, QueueMove, registryVars, proposalVars, voteVars
<1>5. ASSUME NEW m \in Member, NEW d \in Member \union {NoMember}, SetDelegate(m, d)
      PROVE  GovMove
  <2>1. \A i \in Pid : proposals'[i] = Refreshed[i]
    BY <1>5 DEF SetDelegate
  <2>2. \A i \in Pid : StatusMove(i)
    BY <2>1, RefreshMove
  <2>3. QED
    BY <1>5, <2>2, NoCast DEF SetDelegate, QueueMove, registryVars, voteVars
<1>6. ASSUME NEW m \in Member, NEW pid \in Pid, NEW s \in Side, CommitVote(m, pid, s)
      PROVE  GovMove
  BY <1>6, SameStatus, NoCast DEF CommitVote, QueueMove, registryVars, proposalVars
<1>7. ASSUME NEW m \in Member, NEW pid \in Pid, Votes(m, pid) PROVE GovMove
  <2>1. InReveal(proposals[pid])
    BY <1>7, VoteCast DEF SafetyInv
  <2>2. PICK q \in Proposal : /\ SameButTally(proposals[pid], q)
                              /\ proposals' = [proposals EXCEPT ![pid] = q]
    BY <1>7, VoteCast DEF SafetyInv
  <2>3. PICK how \in {"own", "default", "delegated"}, side \in Side :
          Cast(pid, m, how, side, BoundedWeight(proposals[pid], m))
    BY <1>7, VoteCast DEF SafetyInv
  <2>4. \A i \in Pid : StatusMove(i)
    BY <2>2, TallyMove DEF SafetyInv
  <2>5. \A i \in Pid, n \in Member : WeightMove(i, n)
    BY <2>1, <2>3, CastMove DEF SafetyInv
  <2>6. UNCHANGED <<proposalCount, activeProposalOf, vaultRegistered>>
    BY <1>7 DEF Votes, RevealVote, RevealDelegated, ApplyStandingDefault, registryVars
  <2>7. QED
    BY <2>4, <2>5, <2>6 DEF QueueMove
<1>8. ASSUME NEW pid \in Pid, Finalize(pid) PROVE GovMove
  <2>1. proposals \in [Pid -> Proposal]
    BY DEF SafetyInv, TypeInv, TypeOK, GovTypeOK
  <2>2. /\ proposals[pid].status = "Active"
        /\ proposals'[pid].status \in {"Passed", "Defeated"}
        /\ proposals'[pid].commitDeadline = proposals[pid].commitDeadline
        /\ \A i \in Pid : i # pid => proposals'[i] = proposals[i]
    BY <1>8, <2>1 DEF Finalize, Proposal
  <2>3. ASSUME NEW i \in Pid PROVE StatusMove(i)
    <3>1. CASE i = pid
      BY <2>2, <3>1 DEF StatusMove, InFlight, Settled
    <3>2. CASE i # pid
      BY <2>2, <3>2, SameStatus
    <3>3. QED
      BY <3>1, <3>2
  <2>4. QED
    BY <1>8, <2>3, NoCast DEF Finalize, QueueMove, voteVars, registryVars
<1>9. ASSUME NEW pid \in Pid, Execute(pid) \/ MarkExpired(pid) PROVE GovMove
  <2>1. proposals \in [Pid -> Proposal] /\ {"Executed", "Expired"} \subseteq Status
    BY DEF SafetyInv, TypeInv, TypeOK, GovTypeOK, Status
  <2>2. PICK s \in {"Executed", "Expired"} : proposals' = [proposals EXCEPT ![pid].status = s]
    BY <1>9 DEF Execute, MarkExpired
  <2>3. proposals[pid].status = "Passed"
    BY <1>9 DEF Execute, MarkExpired, Overdue
  <2>4. /\ proposals'[pid].status = s
        /\ proposals'[pid].commitDeadline = proposals[pid].commitDeadline
        /\ \A i \in Pid : i # pid => proposals'[i] = proposals[i]
    BY <2>1, <2>2, StatusUpdate
  <2>5. ASSUME NEW i \in Pid PROVE StatusMove(i)
    <3>1. CASE i = pid
      BY <2>2, <2>3, <2>4, <3>1 DEF StatusMove, InFlight, Settled
    <3>2. CASE i # pid
      BY <2>4, <3>2, SameStatus
    <3>3. QED
      BY <3>1, <3>2
  <2>6. QED
    BY <1>9, <2>5, NoCast DEF Execute, MarkExpired, QueueMove, voteVars, registryVars
<1>10. QED
  BY <1>1, <1>2, <1>3, <1>4, <1>5, <1>6, <1>7, <1>8, <1>9
     DEF GovStep, MemberStep, VoteStep, CrankStep, Votes

-----------------------------------------------------------------------------
\* The invariant holds before anything is proposed.
LEMMA InitSafety == Init => SafetyInv
<1> SUFFICES ASSUME Init PROVE SafetyInv
  OBVIOUS
<1>1. TypeInv
  BY InitTypeInv
<1>2. /\ \A pid \in Pid : proposals[pid].status = "None"
      /\ \A pid \in Pid, m \in Member : Counted(pid, m) = 0
      /\ activeProposalOf = 0 /\ proposalCount = 0
  BY DEF Init, GovInit, NothingProposed, NoProposal, NoBallot, Counted
<1>3. QED
  BY <1>1, <1>2 DEF SafetyInv, ActiveIsLatest, RegisteredFirst, Serialized,
                    CountedAfterCommit, SkinInTheGame, InFlight

\* A step of governance cannot break it: a weight is counted in the reveal
\* phase only, and never above what its member holds unlocked at that moment.
LEMMA GovStepSafety ==
    ASSUME SafetyInv, GovStep, UNCHANGED <<now, past, stakeVars>>, TypeInv'
    PROVE  SafetyInv'
<1>1. GovMove
  BY GovStepMoves
<1> USE DEF SafetyInv
<1>2. ActiveIsLatest'
  BY <1>1 DEF GovMove, QueueMove, StatusMove, ActiveIsLatest, Pid, TypeInv, TypeOK, GovTypeOK
<1>3. RegisteredFirst'
  BY <1>1 DEF GovMove, QueueMove, RegisteredFirst
<1>4. Serialized'
  <2> SUFFICES ASSUME NEW pid \in Pid, pid # activeProposalOf'
               PROVE  proposals'[pid].status = "None" \/ Settled(proposals'[pid].status)
    BY DEF Serialized, Settled
  <2>1. CASE UNCHANGED <<proposalCount, activeProposalOf>>
    <3>1. proposals[pid].status = "None" \/ Settled(proposals[pid].status)
      BY <2>1 DEF Serialized
    <3>2. proposalCount \in Nat
      BY DEF TypeInv, TypeOK, GovTypeOK
    <3>3. QED
      BY <1>1, <2>1, <3>1, <3>2 DEF GovMove, StatusMove, Pid
  <2>2. CASE ~UNCHANGED <<proposalCount, activeProposalOf>>
    BY <1>1, <2>2 DEF GovMove, QueueMove
  <2>3. QED
    BY <2>1, <2>2
<1>5. ASSUME NEW pid \in Pid, NEW m \in Member
      PROVE  /\ Counted(pid, m) \in Nat /\ Counted(pid, m)' \in Nat
             /\ now \in Nat /\ sharesOf[m] \in Nat
             /\ proposals[pid] \in Proposal
             /\ StatusMove(pid) /\ WeightMove(pid, m)
             /\ BoundedWeight(proposals[pid], m) <= sharesOf[m]
  BY <1>1, BoundedWeightFacts
     DEF GovMove, TypeInv, TypeOK, GovTypeOK, StakeTypeOK, SharesTypeOK, Counted, Ballot
<1>6. CountedAfterCommit'
  <2> SUFFICES ASSUME NEW pid \in Pid, NEW m \in Member, Counted(pid, m)' > 0
               PROVE  /\ proposals'[pid].status # "None"
                      /\ now' >= proposals'[pid].commitDeadline
    BY DEF CountedAfterCommit, Counted
  <2>1. proposals[pid].status # "None" /\ now >= proposals[pid].commitDeadline
    BY <1>5 DEF WeightMove, InReveal, CountedAfterCommit, Proposal
  <2>2. QED
    BY <1>5, <2>1 DEF StatusMove, stakeVars
<1>7. SkinInTheGame'
  <2> SUFFICES ASSUME NEW pid \in Pid, NEW m \in Member, InFlight(pid)'
               PROVE  Counted(pid, m)' <= sharesOf'[m]
    BY DEF SkinInTheGame
  <2>1. CASE InFlight(pid)
    BY <1>5, <2>1 DEF SkinInTheGame, WeightMove, stakeVars
  <2>2. CASE proposals[pid].status = "None"
    <3>1. Counted(pid, m) = 0
      BY <1>5, <2>2 DEF CountedAfterCommit
    <3>2. Counted(pid, m)' = 0
      BY <1>5, <2>2, <3>1 DEF WeightMove, InReveal
    <3>3. QED
      BY <1>5, <3>2 DEF stakeVars
  <2>3. QED
    BY <1>5, <2>1, <2>2 DEF StatusMove
<1>8. QED
  BY <1>2, <1>3, <1>4, <1>6, <1>7

\* The vault's only question is enough: if any weight is at stake, or any
\* outcome may have leaked, the active proposal says so.
LEMMA PendingSeesAll ==
    ASSUME SafetyInv, NEW pid \in Pid, InFlight(pid),
           now >= proposals[pid].commitDeadline
    PROVE  HasPendingExecution
<1>1. pid = activeProposalOf
  BY DEF SafetyInv, Serialized, InFlight, Settled
<1>2. QED
  BY <1>1 DEF InFlight, HasPendingExecution, Pid

\* Shares leave a member only when nothing is pending.
LEMMA BurnNeedsNoPending ==
    ASSUME SafetyInv, VaultStep(HasPendingExecution), HasPendingExecution
    PROVE  \A m \in Member : sharesOf'[m] >= sharesOf[m]
<1> USE DEF SafetyInv, TypeInv, TypeOK, StakeTypeOK, SharesTypeOK
<1>1. ASSUME NEW m \in Member, NEW n \in MintSizes, MintShares(m, n)
      PROVE  \A k \in Member : sharesOf'[k] >= sharesOf[k]
  <2>1. n \in Nat /\ sharesOf[m] \in Nat /\ sharesOf' = [sharesOf EXCEPT ![m] = @ + n]
    BY <1>1 DEF MintShares
  <2>2. QED
    BY <2>1
<1>2. ASSUME NEW m \in Member, NEW n \in 1..sharesOf[m],
             RequestExit(m, n, HasPendingExecution)
      PROVE  \A k \in Member : sharesOf'[k] >= sharesOf[k]
  BY <1>2 DEF RequestExit
<1>3. QED
  BY <1>1, <1>2 DEF VaultStep, SettleQueuedExit

\* Governance stands still while the vault or the clock moves.
LEMMA VaultSafety ==
    ASSUME SafetyInv, Second \/ VaultStep(HasPendingExecution), UNCHANGED govVars, TypeInv'
    PROVE  SafetyInv'
<1> USE DEF SafetyInv
<1>1. /\ UNCHANGED <<proposals, ballot, activeProposalOf, proposalCount, vaultRegistered>>
      /\ now \in Nat /\ now' \in Nat /\ now' >= now
  <2>1. now \in Nat /\ now' \in Nat
    BY DEF TypeInv, TypeOK, StakeTypeOK, SharesTypeOK
  <2>2. now' >= now
    BY <2>1 DEF Second, Tick, VaultStep, MintShares, RequestExit, SettleQueuedExit
  <2>3. QED
    BY <2>1, <2>2 DEF govVars, proposalVars, voteVars, registryVars
<1>2. ActiveIsLatest' /\ RegisteredFirst' /\ Serialized'
  BY <1>1 DEF ActiveIsLatest, RegisteredFirst, Serialized, Settled
<1>3. \A pid \in Pid, m \in Member :
        /\ Counted(pid, m) \in Nat /\ Counted(pid, m)' = Counted(pid, m)
        /\ proposals[pid] \in Proposal
        /\ sharesOf[m] \in Nat /\ sharesOf'[m] \in Nat
  BY <1>1 DEF Counted, Ballot, TypeInv, TypeOK, GovTypeOK, StakeTypeOK, SharesTypeOK
<1>4. CountedAfterCommit'
  BY <1>1, <1>3 DEF CountedAfterCommit, Proposal
<1>5. SkinInTheGame'
  <2> SUFFICES ASSUME NEW pid \in Pid, NEW m \in Member, InFlight(pid)'
               PROVE  Counted(pid, m)' <= sharesOf'[m]
    BY DEF SkinInTheGame
  <2>1. InFlight(pid)
    BY <1>1, <1>3 DEF InFlight, Proposal
  <2>2. CASE Counted(pid, m) = 0
    BY <1>3, <2>2
  <2>3. CASE Counted(pid, m) > 0
    <3>1. now >= proposals[pid].commitDeadline
      BY <2>3 DEF CountedAfterCommit
    <3>2. sharesOf'[m] >= sharesOf[m]
      <4>1. CASE Second
        BY <1>3, <4>1 DEF Second, Tick, stakeVars
      <4>2. CASE VaultStep(HasPendingExecution)
        BY <2>1, <3>1, <4>2, PendingSeesAll, BurnNeedsNoPending
      <4>3. QED
        BY <4>1, <4>2
    <3>3. QED
      BY <1>3, <2>1, <3>2 DEF SkinInTheGame
  <2>4. QED
    BY <1>3, <2>2, <2>3
<1>6. QED
  BY <1>2, <1>4, <1>5

\* Every step of the composition keeps the invariant.
LEMMA NextSafety == SafetyInv /\ [Next]_vars => SafetyInv'
<1> SUFFICES ASSUME SafetyInv, [Next]_vars PROVE SafetyInv'
  OBVIOUS
<1>1. TypeInv'
  BY NextTypeInv DEF SafetyInv
<1>2. CASE UNCHANGED vars
  BY <1>1, <1>2 DEF SafetyInv, ActiveIsLatest, RegisteredFirst, Serialized, Settled,
                    CountedAfterCommit, SkinInTheGame, InFlight, Counted, vars,
                    stakeVars, govVars, registryVars, proposalVars, voteVars
<1>3. CASE Next
  BY <1>1, <1>3, VaultSafety, GovStepSafety DEF Next, Second
<1>4. QED
  BY <1>2, <1>3

\* The invariant holds throughout.
LEMMA SafetyInvariant == Spec => []SafetyInv
<1>1. Init => SafetyInv
  BY InitSafety
<1>2. SafetyInv /\ [Next]_vars => SafetyInv'
  BY NextSafety
<1>3. QED
  BY <1>1, <1>2, PTL DEF Spec

-----------------------------------------------------------------------------
\* CM-6: one proposal at a time.  propose refuses until the active proposal is
\* settled after _refreshStatus, and a settled status never moves again.
THEOREM ProposalsSerialized == Spec => []Serialized
<1>1. SafetyInv => Serialized
  BY DEF SafetyInv
<1>2. QED
  BY <1>1, SafetyInvariant, PTL

\* C-5 / VO-8: a counted weight stays backed by its member's shares until the
\* outcome has taken effect or cannot.  It is not inductive alone: it takes
\* that weights are counted in the reveal phase only (CountedAfterCommit), and
\* that the one proposal hasPendingExecution looks at is the only one in
\* flight (Serialized).
THEOREM StakeStaysBehindVotes == Spec => []SkinInTheGame
<1>1. SafetyInv => SkinInTheGame
  BY DEF SafetyInv
<1>2. QED
  BY <1>1, SafetyInvariant, PTL

\* VO-8: from the first possible reveal of a proposal until its outcome is
\* spent, no step takes a share from anybody.
THEOREM NoExitAfterLeak == Spec => NoExitOnLeakedOutcome
<1> DEFINE Leaked == \E pid \in Pid : InFlight(pid) /\ now >= proposals[pid].commitDeadline
           Kept == \A m \in Member : sharesOf'[m] >= sharesOf[m]
<1>1. SafetyInv /\ [Next]_vars => [Leaked => Kept]_vars
  <2> SUFFICES ASSUME SafetyInv, Next, Leaked PROVE Kept
    OBVIOUS
  <2>1. CASE Second \/ (GovStep /\ UNCHANGED <<now, past, stakeVars>>)
    BY <2>1 DEF Second, Tick, stakeVars, SafetyInv, TypeInv, TypeOK, StakeTypeOK, SharesTypeOK
  <2>2. CASE VaultStep(HasPendingExecution)
    BY <2>2, PendingSeesAll, BurnNeedsNoPending
  <2>3. QED
    BY <2>1, <2>2 DEF Next
<1>2. QED
  BY <1>1, SafetyInvariant, PTL DEF Spec, NoExitOnLeakedOutcome

-----------------------------------------------------------------------------
\* An active or unexpired proposal is the active one, and _refreshStatus leaves
\* it as it is: that is why propose and setDelegate refuse.
LEMMA InFlightBlocks ==
    ASSUME SafetyInv, NEW pid \in Pid, InFlight(pid)
    PROVE  ~NothingInFlight
<1>1. pid = activeProposalOf /\ pid # 0
  BY DEF SafetyInv, Serialized, InFlight, Settled, Pid
<1>2. now \in Nat /\ proposals[pid].expiresAt \in Nat
  BY DEF SafetyInv, TypeInv, TypeOK, StakeTypeOK, SharesTypeOK, GovTypeOK, Proposal
<1>3. ~Overdue(proposals[pid])
  BY <1>2 DEF InFlight, Overdue
<1>4. Refreshed[pid].status = proposals[pid].status
  BY <1>1, <1>3 DEF Refreshed
<1>5. QED
  BY <1>1, <1>4 DEF NothingInFlight, InFlight, Settled

\* The rules a proposal is voted and executed under are those it was opened
\* under: delegations and configuration stand still while it is in flight, but
\* for a rule change at the moment it executes.
THEOREM RulesStayFixed == Spec => RulesFixedInFlight
<1> DEFINE Open == \E pid \in Pid : InFlight(pid)
           Fixed == /\ delegateOf' = delegateOf
                    /\ config' # config => \E pid \in Pid :
                          proposals[pid].status = "Passed" /\ proposals'[pid].status = "Executed"
<1>1. SafetyInv /\ [Next]_vars => [Open => Fixed]_vars
  <2> SUFFICES ASSUME SafetyInv, Next, Open PROVE Fixed
    OBVIOUS
  <2>1. CASE UNCHANGED govVars
    BY <2>1 DEF govVars, memberVars, registryVars
  <2>2. CASE GovStep
    <3>1. ~NothingInFlight
      BY InFlightBlocks
    <3>2. vaultRegistered
      <4>1. PICK pid \in Pid : InFlight(pid)
        OBVIOUS
      <4>2. proposalCount # 0
        BY <4>1 DEF SafetyInv, ActiveIsLatest, InFlight, Pid
      <4>3. QED
        BY <4>2 DEF SafetyInv, RegisteredFirst
    <3>3. ASSUME NEW pid \in Pid, Execute(pid) PROVE Fixed
      <4>1. "Executed" \in Status /\ proposals \in [Pid -> Proposal]
        BY DEF SafetyInv, TypeInv, TypeOK, GovTypeOK, Status
      <4>2. proposals[pid].status = "Passed" /\ delegateOf' = delegateOf
            /\ proposals' = [proposals EXCEPT ![pid].status = "Executed"]
        BY <3>3 DEF Execute, memberVars
      <4>3. proposals'[pid].status = "Executed"
        BY <4>1, <4>2, StatusUpdate
      <4>4. QED
        BY <4>2, <4>3
    <3>4. ASSUME NEW m \in Member, NEW pid \in Pid, VoteStep(m, pid) PROVE Fixed
      BY <3>4 DEF VoteStep, CommitVote, RevealVote, RevealDelegated, ApplyStandingDefault,
                  registryVars, memberVars
    <3>5. ASSUME NEW m \in Member, MemberStep(m) PROVE Fixed
      BY <3>1, <3>5 DEF MemberStep, Propose, SetDelegate, SetStandingDefault,
                        ClearStandingDefault, registryVars
    <3>6. ASSUME NEW pid \in Pid, Finalize(pid) \/ MarkExpired(pid) PROVE Fixed
      BY <3>6 DEF Finalize, MarkExpired, registryVars, memberVars
    <3>7. QED
      BY <2>2, <3>2, <3>3, <3>4, <3>5, <3>6 DEF GovStep, CrankStep, RegisterVault
  <2>3. QED
    BY <2>1, <2>2 DEF Next, Second
<1>2. QED
  BY <1>1, SafetyInvariant, PTL DEF Spec, RulesFixedInFlight

-----------------------------------------------------------------------------
\* No commit phase outlives a standing default: not the next proposal's, once
\* the vault is registered, and not that of a proposal made earlier.
PhaseInv ==
    /\ vaultRegistered => config.commitDuration <= CommitHardCap
    /\ \A pid \in Pid : proposals[pid].status # "None" =>
          proposals[pid].commitDeadline <= proposals[pid].createdAt + CommitHardCap

\* What every governance step does to the commit phase of one proposal.
PhaseMove(pid) ==
    LET p == proposals[pid] q == proposals'[pid] IN
    \/ /\ q.status # "None" => p.status # "None"
       /\ q.createdAt = p.createdAt /\ q.commitDeadline = p.commitDeadline
    \/ /\ vaultRegistered /\ q.createdAt = now
       /\ q.commitDeadline = now + config.commitDuration

\* Only propose opens a commit phase; refreshing, voting and settling leave it.
LEMMA GovStepPhases ==
    ASSUME SafetyInv, PhaseInv, GovStep
    PROVE  PhaseInv'
<1>0. /\ proposals \in [Pid -> Proposal] /\ config \in GovConfig /\ TypeInv
      /\ proposalCount \in Nat
  BY DEF SafetyInv, TypeInv, TypeOK, GovTypeOK
<1>1. ASSUME \A pid \in Pid : PhaseMove(pid),
             UNCHANGED registryVars \/ ValidConfig(config')
      PROVE  PhaseInv'
  <2>1. vaultRegistered' => config'.commitDuration <= CommitHardCap
    <3>1. CASE UNCHANGED registryVars
      BY <3>1 DEF PhaseInv, registryVars
    <3>2. CASE ValidConfig(config')
      BY <3>2 DEF ValidConfig, CommitHardCap
    <3> QED
      BY <1>1, <3>1, <3>2
  <2>2. ASSUME NEW pid \in Pid, proposals'[pid].status # "None"
        PROVE  proposals'[pid].commitDeadline <= proposals'[pid].createdAt + CommitHardCap
    <3>1. CASE proposals[pid].status # "None"
      <4>1. proposals[pid].commitDeadline <= proposals[pid].createdAt + CommitHardCap
        BY <3>1 DEF PhaseInv
      <4>2. CASE proposals'[pid].createdAt = proposals[pid].createdAt
                 /\ proposals'[pid].commitDeadline = proposals[pid].commitDeadline
        BY <4>1, <4>2
      <4>3. CASE /\ vaultRegistered /\ proposals'[pid].createdAt = now
                 /\ proposals'[pid].commitDeadline = now + config.commitDuration
        BY <1>0, <4>3 DEF PhaseInv, GovConfig, TypeInv, TypeOK, StakeTypeOK, SharesTypeOK, CommitHardCap
      <4> QED
        BY <1>1, <4>2, <4>3 DEF PhaseMove
    <3>2. CASE proposals[pid].status = "None"
      <4>1. /\ vaultRegistered /\ proposals'[pid].createdAt = now
            /\ proposals'[pid].commitDeadline = now + config.commitDuration
        BY <1>1, <2>2, <3>2 DEF PhaseMove
      <4> QED
        BY <1>0, <4>1 DEF PhaseInv, GovConfig, TypeInv, TypeOK, StakeTypeOK, SharesTypeOK, CommitHardCap
    <3> QED
      BY <3>1, <3>2
  <2> QED
    BY <2>1, <2>2 DEF PhaseInv
<1>2. ASSUME NEW pid \in Pid, Refreshed[pid] = proposals'[pid]
      PROVE  PhaseMove(pid)
  BY <1>0, <1>2, RefreshedType DEF PhaseMove, TypeInv, TypeOK, Overdue
<1>3. ASSUME NEW cfg \in InitialConfigs, RegisterVault(cfg) PROVE PhaseInv'
  BY <1>1, <1>3 DEF RegisterVault, PhaseMove, proposalVars
<1>4. ASSUME NEW m \in Member, MemberStep(m) PROVE PhaseInv'
  <2>1. UNCHANGED registryVars
    BY <1>4 DEF MemberStep, Propose, SetStandingDefault, ClearStandingDefault, SetDelegate
  <2>2. ASSUME NEW t \in ProposalTypes, NEW pl \in Payloads(t), Propose(m, t, pl),
               NEW pid \in Pid
        PROVE  PhaseMove(pid)
    <3>1. /\ proposals' = [Refreshed EXCEPT ![proposalCount + 1] = NewProposal(t, pl)]
          /\ vaultRegistered /\ Refreshed \in [Pid -> Proposal]
      BY <1>0, <2>2, RefreshedType DEF Propose, TypeInv, TypeOK
    <3>2. CASE pid = proposalCount + 1
      BY <3>1, <3>2 DEF PhaseMove, NewProposal
    <3>3. CASE pid # proposalCount + 1
      BY <1>2, <3>1, <3>3
    <3> QED
      BY <3>2, <3>3
  <2>3. ASSUME NEW d \in Member \union {NoMember}, SetDelegate(m, d), NEW pid \in Pid
        PROVE  PhaseMove(pid)
    BY <1>2, <2>3 DEF SetDelegate
  <2>4. ASSUME (\E s \in Side : SetStandingDefault(m, s)) \/ ClearStandingDefault(m),
               NEW pid \in Pid
        PROVE  PhaseMove(pid)
    <3>1. UNCHANGED proposalVars
      BY <2>4 DEF SetStandingDefault, ClearStandingDefault
    <3> QED
      BY <3>1 DEF proposalVars, PhaseMove
  <2> QED
    BY <1>1, <1>4, <2>1, <2>2, <2>3, <2>4 DEF MemberStep
<1>5. ASSUME NEW m \in Member, NEW pid \in Pid, VoteStep(m, pid) PROVE PhaseInv'
  <2>1. UNCHANGED registryVars
    BY <1>5 DEF VoteStep, CommitVote, RevealVote, RevealDelegated, ApplyStandingDefault
  <2>2. ASSUME NEW s \in Side, CommitVote(m, pid, s), NEW i \in Pid PROVE PhaseMove(i)
    BY <2>2 DEF CommitVote, proposalVars, PhaseMove
  <2>3. ASSUME Votes(m, pid), NEW i \in Pid PROVE PhaseMove(i)
    <3>1. PICK q \in Proposal : /\ SameButTally(proposals[pid], q)
                                /\ proposals' = [proposals EXCEPT ![pid] = q]
      BY <1>0, <2>3, VoteCast
    <3> QED
      BY <1>0, <3>1 DEF SameButTally, PhaseMove
  <2> QED
    BY <1>1, <1>5, <2>1, <2>2, <2>3 DEF VoteStep, Votes
<1>6. ASSUME NEW pid \in Pid, CrankStep(pid) PROVE PhaseInv'
  <2>1. \A i \in Pid : PhaseMove(i)
    <3> TAKE i \in Pid
    <3>1. CASE Finalize(pid)
      BY <1>0, <3>1 DEF Finalize, PhaseMove, Proposal
    <3>2. CASE Execute(pid) \/ MarkExpired(pid)
      <4>1. PICK s \in Status : proposals' = [proposals EXCEPT ![pid].status = s]
        BY <3>2 DEF Execute, MarkExpired, Status
      <4>2. proposals[pid].status = "Passed"
        BY <3>2 DEF Execute, MarkExpired, Overdue
      <4> QED
        BY <1>0, <4>1, <4>2, StatusUpdate DEF PhaseMove
    <3> QED
      BY <1>6, <3>1, <3>2 DEF CrankStep
  <2>2. UNCHANGED registryVars \/ ValidConfig(config')
    BY <1>6 DEF CrankStep, Finalize, Execute, MarkExpired, registryVars
  <2> QED
    BY <1>1, <2>1, <2>2
<1> QED
  BY <1>3, <1>4, <1>5, <1>6 DEF GovStep

\* T-1: whatever legal configuration a vault ends up with, its commit phase ends
\* while a default set just before the proposal still stands.  The invariant
\* adds that an open commit phase was measured by a configuration that passed
\* _validateConfig, the initial one as well as any that replaced it.
THEOREM DefaultsOutliveCommit == Spec => []DefaultReachesReveal
<1>1. Init => PhaseInv
  BY DEF Init, GovInit, NothingProposed, NoProposal, PhaseInv
<1>2. SafetyInv /\ PhaseInv /\ [Next]_vars => PhaseInv'
  <2> SUFFICES ASSUME SafetyInv, PhaseInv, [Next]_vars PROVE PhaseInv'
    OBVIOUS
  <2>1. CASE UNCHANGED govVars
    BY <2>1 DEF govVars, registryVars, proposalVars, PhaseInv
  <2>2. CASE GovStep
    BY <2>2, GovStepPhases
  <2> QED
    BY <2>1, <2>2 DEF Next, Second, vars
<1>3. SafetyInv /\ PhaseInv => DefaultReachesReveal
  <2> SUFFICES ASSUME SafetyInv, PhaseInv, NEW pid \in Pid, NEW m \in Member,
                      proposals[pid].status = "Active", now = proposals[pid].commitDeadline,
                      standingDefaultOf[m].set,
                      standingDefaultOf[m].setAt = proposals[pid].createdAt - 1
               PROVE  DefaultStands(standingDefaultOf[m], proposals[pid])
    BY DEF DefaultReachesReveal
  <2>1. proposals[pid].createdAt \in Nat /\ proposals[pid].commitDeadline \in Nat
    BY DEF SafetyInv, TypeInv, TypeOK, GovTypeOK, Proposal
  <2>2. proposals[pid].commitDeadline <= proposals[pid].createdAt + CommitHardCap
    BY DEF PhaseInv
  <2> QED
    BY <2>1, <2>2 DEF DefaultStands, CommitHardCap
<1> QED
  BY <1>1, <1>2, <1>3, SafetyInvariant, PTL DEF Spec

-----------------------------------------------------------------------------
(***************************************************************************)
(* The lifecycle.                                                          *)
(***************************************************************************)
SameTimes(p, q) ==
    /\ q.createdAt = p.createdAt /\ q.revealDeadline = p.revealDeadline
    /\ q.executableAt = p.executableAt /\ q.expiresAt = p.expiresAt

\* What a step may do to the status of one proposal, and when.
LifeMove(pid) ==
    LET p == proposals[pid] q == proposals'[pid] IN
    \/ q.status = p.status /\ SameTimes(p, q)
    \/ /\ p.status = "None" /\ q.status = "Active"
       /\ q.createdAt = now
       /\ q.revealDeadline = now + config.commitDuration + config.revealDuration
    \/ /\ p.status = "Active" /\ q.status = "Passed" /\ now >= p.revealDeadline
       /\ q.createdAt = p.createdAt /\ q.revealDeadline = p.revealDeadline
       /\ q.executableAt = now + config.timelockDuration
    \/ p.status = "Active" /\ q.status = "Defeated" /\ now >= p.revealDeadline
    \/ p.status = "Passed" /\ q.status = "Executed" /\ now \in p.executableAt..p.expiresAt
    \/ p.status = "Passed" /\ q.status = "Expired" /\ now > p.expiresAt

\* A refreshed proposal moves as the lifecycle allows.
LEMMA RefreshLives ==
    ASSUME GovTypeOK, NEW pid \in Pid, proposals'[pid] = Refreshed[pid]
    PROVE  LifeMove(pid)
BY RefreshedType DEF LifeMove, SameTimes, Overdue

\* So does any proposal under a step of governance.
LEMMA GovStepLives ==
    ASSUME SafetyInv, GovStep, NEW i \in Pid
    PROVE  LifeMove(i)
<1>0. GovTypeOK /\ TypeInv /\ proposals \in [Pid -> Proposal] /\ proposalCount \in Nat
  BY DEF SafetyInv, TypeInv, TypeOK, GovTypeOK
<1>1. ASSUME proposals'[i] = proposals[i] PROVE LifeMove(i)
  BY <1>1 DEF LifeMove, SameTimes
<1>2. ASSUME NEW cfg \in InitialConfigs, RegisterVault(cfg) PROVE LifeMove(i)
  BY <1>1, <1>2 DEF RegisterVault, proposalVars
<1>3. ASSUME NEW m \in Member, MemberStep(m) PROVE LifeMove(i)
  <2>1. ASSUME NEW t \in ProposalTypes, NEW pl \in Payloads(t), Propose(m, t, pl)
        PROVE  LifeMove(i)
    <3>1. /\ proposals' = [Refreshed EXCEPT ![proposalCount + 1] = NewProposal(t, pl)]
          /\ Refreshed \in [Pid -> Proposal]
      BY <1>0, <2>1, RefreshedType DEF Propose
    <3>2. CASE i = proposalCount + 1
      <4>1. proposals[i].status = "None"
        BY <1>0, <3>2 DEF SafetyInv, ActiveIsLatest
      <4>2. QED
        BY <3>1, <3>2, <4>1 DEF LifeMove, NewProposal
    <3>3. CASE i # proposalCount + 1
      BY <1>0, <3>1, <3>3, RefreshLives
    <3>4. QED
      BY <3>2, <3>3
  <2>2. ASSUME NEW d \in Member \union {NoMember}, SetDelegate(m, d) PROVE LifeMove(i)
    BY <1>0, <2>2, RefreshLives DEF SetDelegate
  <2>3. QED
    BY <1>1, <1>3, <2>1, <2>2
       DEF MemberStep, SetStandingDefault, ClearStandingDefault, proposalVars
<1>4. ASSUME NEW m \in Member, NEW pid \in Pid, VoteStep(m, pid) PROVE LifeMove(i)
  <2>1. CASE Votes(m, pid)
    <3>1. PICK q \in Proposal : /\ SameButTally(proposals[pid], q)
                                /\ proposals' = [proposals EXCEPT ![pid] = q]
      BY <1>0, <2>1, VoteCast
    <3>2. QED
      BY <1>0, <3>1 DEF SameButTally, SameTimes, LifeMove
  <2>2. QED
    BY <1>1, <1>4, <2>1 DEF VoteStep, Votes, CommitVote, proposalVars
<1>5. ASSUME NEW pid \in Pid, CrankStep(pid) PROVE LifeMove(i)
  <2>1. CASE Finalize(pid)
    <3>1. CASE i = pid
      <4>1. proposals[i] \in Proposal
        BY <1>0
      <4>2. QED
        BY <1>0, <2>1, <3>1, <4>1 DEF Finalize, LifeMove, Proposal
    <3>2. CASE i # pid
      BY <1>0, <1>1, <2>1, <3>2 DEF Finalize
    <3>3. QED
      BY <3>1, <3>2
  <2>2. ASSUME NEW s \in {"Executed", "Expired"},
               proposals' = [proposals EXCEPT ![pid].status = s],
               proposals[pid].status = "Passed",
               s = "Executed" => now \in proposals[pid].executableAt..proposals[pid].expiresAt,
               s = "Expired" => now > proposals[pid].expiresAt
        PROVE  LifeMove(i)
    <3>1. s \in Status
      BY DEF Status
    <3>2. /\ proposals'[pid].status = s
          /\ \A j \in Pid : j # pid => proposals'[j] = proposals[j]
      BY <1>0, <2>2, <3>1, StatusUpdate
    <3>3. CASE i = pid
      BY <2>2, <3>2, <3>3 DEF LifeMove
    <3>4. CASE i # pid
      BY <1>1, <3>2, <3>4
    <3>5. QED
      BY <3>3, <3>4
  <2>3. QED
    BY <1>5, <2>1, <2>2 DEF CrankStep, Execute, MarkExpired, Overdue
<1>6. QED
  BY <1>2, <1>3, <1>4, <1>5 DEF GovStep

\* The times of a proposal that may still be decided or executed were measured by
\* the configuration that is still in force.
TimesInv ==
    \A pid \in Pid :
        LET p == proposals[pid] IN
        /\ p.status \in {"Active", "Passed"} =>
              p.revealDeadline = p.createdAt + config.commitDuration + config.revealDuration
        /\ p.status = "Passed" => p.executableAt >= p.revealDeadline + config.timelockDuration

\* The configuration changes only when no proposal is left to measure by the old
\* one: at registration, and when the one proposal that passed executes.
LEMMA ConfigStands ==
    ASSUME SafetyInv, GovStep, SafetyInv'
    PROVE  \/ config' = config
           \/ \A pid \in Pid : proposals'[pid].status \notin {"Active", "Passed"}
<1> DEFINE Over == \A pid \in Pid : proposals'[pid].status \notin {"Active", "Passed"}
<1>1. ASSUME NEW cfg \in InitialConfigs, RegisterVault(cfg) PROVE Over
  BY <1>1 DEF RegisterVault, proposalVars, SafetyInv, RegisteredFirst, ActiveIsLatest, Pid
<1>2. ASSUME NEW m \in Member, MemberStep(m) PROVE config' = config
  BY <1>2 DEF MemberStep, Propose, SetDelegate, SetStandingDefault, ClearStandingDefault,
              registryVars
<1>3. ASSUME NEW m \in Member, NEW pid \in Pid, VoteStep(m, pid) PROVE config' = config
  BY <1>3 DEF VoteStep, CommitVote, RevealVote, RevealDelegated, ApplyStandingDefault,
              registryVars
<1>4. ASSUME NEW pid \in Pid, Finalize(pid) \/ MarkExpired(pid) PROVE config' = config
  BY <1>4 DEF Finalize, MarkExpired, registryVars
<1>5. ASSUME NEW pid \in Pid, Execute(pid) PROVE Over
  <2>1. proposals \in [Pid -> Proposal] /\ "Executed" \in Status
    BY DEF SafetyInv, TypeInv, TypeOK, GovTypeOK, Status
  <2>2. /\ proposals[pid].status = "Passed" /\ proposals'[pid].status = "Executed"
        /\ \A i \in Pid : i # pid => proposals'[i] = proposals[i]
    BY <1>5, <2>1, StatusUpdate DEF Execute
  <2>3. pid = activeProposalOf
    BY <2>2 DEF SafetyInv, Serialized, Settled
  <2>4. QED
    BY <2>2, <2>3 DEF SafetyInv, Serialized, Settled
<1>6. QED
  BY <1>1, <1>2, <1>3, <1>4, <1>5 DEF GovStep, CrankStep

\* Every step keeps the times.
LEMMA NextTimes ==
    ASSUME SafetyInv, SafetyInv', TimesInv, [Next]_vars
    PROVE  TimesInv'
<1>1. CASE UNCHANGED govVars
  BY <1>1 DEF govVars, proposalVars, registryVars, TimesInv
<1>2. CASE GovStep
  <2> SUFFICES ASSUME NEW pid \in Pid, proposals'[pid].status \in {"Active", "Passed"}
               PROVE  LET q == proposals'[pid] IN
                      /\ q.revealDeadline
                           = q.createdAt + config'.commitDuration + config'.revealDuration
                      /\ q.status = "Passed" =>
                           q.executableAt >= q.revealDeadline + config'.timelockDuration
    BY DEF TimesInv
  <2>1. config' = config
    BY <1>2, ConfigStands
  <2>2. LifeMove(pid)
    BY <1>2, GovStepLives
  <2>3. /\ now \in Nat /\ proposals[pid].revealDeadline \in Nat
        /\ config.timelockDuration \in Nat
    <3>1. config \in GovConfig /\ proposals[pid] \in Proposal
      BY GovernanceAssumption DEF SafetyInv, TypeInv, TypeOK, GovTypeOK
    <3>2. QED
      BY <3>1 DEF GovConfig, Proposal, SafetyInv, TypeInv, TypeOK, StakeTypeOK, SharesTypeOK
  <2>4. QED
    BY <2>1, <2>2, <2>3 DEF LifeMove, SameTimes, TimesInv
<1>3. QED
  BY <1>1, <1>2 DEF Next, Second, vars

\* VO-6: the one way of a status, and the waits in front of each move: both
\* phases before a proposal is decided, the timelock on top before it executes,
\* its window over before it expires.  They are the waits of the configuration
\* it was opened under, which no other proposal can change meanwhile (TimesInv).
THEOREM LivesAsPlanned == Spec => Lifecycle
<1>1. Init => TimesInv
  BY DEF Init, GovInit, NothingProposed, NoProposal, TimesInv
<1>2. SafetyInv /\ SafetyInv' /\ TimesInv /\ [Next]_vars => TimesInv'
  BY NextTimes
<1> DEFINE Life ==
      \A pid \in Pid :
         LET p == proposals[pid] q == proposals'[pid] IN
         p.status # q.status =>
            /\ <<p.status, q.status>> \in
                 {<<"None", "Active">>, <<"Active", "Passed">>, <<"Active", "Defeated">>,
                  <<"Passed", "Executed">>, <<"Passed", "Expired">>}
            /\ q.status \in {"Passed", "Defeated"} =>
                 now >= p.createdAt + config.commitDuration + config.revealDuration
            /\ q.status = "Executed" =>
                 /\ now >= p.createdAt + config.commitDuration + config.revealDuration
                           + config.timelockDuration
                 /\ now <= p.expiresAt
            /\ q.status = "Expired" => now > p.expiresAt
<1>3. SafetyInv /\ TimesInv /\ [Next]_vars => [Life]_vars
  <2> SUFFICES ASSUME SafetyInv, TimesInv, Next PROVE Life
    OBVIOUS
  <2>1. CASE UNCHANGED govVars
    BY <2>1 DEF govVars, proposalVars
  <2>2. CASE GovStep
    <3> SUFFICES ASSUME NEW pid \in Pid, proposals[pid].status # proposals'[pid].status
                 PROVE  LET p == proposals[pid] q == proposals'[pid] IN
            /\ <<p.status, q.status>> \in
                 {<<"None", "Active">>, <<"Active", "Passed">>, <<"Active", "Defeated">>,
                  <<"Passed", "Executed">>, <<"Passed", "Expired">>}
            /\ q.status \in {"Passed", "Defeated"} =>
                 now >= p.createdAt + config.commitDuration + config.revealDuration
            /\ q.status = "Executed" =>
                 /\ now >= p.createdAt + config.commitDuration + config.revealDuration
                           + config.timelockDuration
                 /\ now <= p.expiresAt
            /\ q.status = "Expired" => now > p.expiresAt
      OBVIOUS
    <3>1. LifeMove(pid)
      BY <2>2, GovStepLives
    <3>2. /\ now \in Nat /\ proposals[pid].revealDeadline \in Nat
          /\ proposals[pid].executableAt \in Nat /\ proposals[pid].createdAt \in Nat
          /\ config.timelockDuration \in Nat /\ config.commitDuration \in Nat
          /\ config.revealDuration \in Nat
      <4>1. config \in GovConfig /\ proposals[pid] \in Proposal
        BY GovernanceAssumption DEF SafetyInv, TypeInv, TypeOK, GovTypeOK
      <4>2. QED
        BY <4>1 DEF GovConfig, Proposal, SafetyInv, TypeInv, TypeOK, StakeTypeOK, SharesTypeOK
    <3>3. QED
      BY <3>1, <3>2 DEF LifeMove, TimesInv
  <2>3. QED
    BY <2>1, <2>2 DEF Next, Second
<1>4. QED
  BY <1>1, <1>2, <1>3, SafetyInvariant, PTL DEF Spec, Lifecycle

-----------------------------------------------------------------------------
\* From here on the assumption about the rules is cited where it is needed.
HIDE GovernanceAssumption

-----------------------------------------------------------------------------
(***************************************************************************)
(* The ledger.                                                             *)
(***************************************************************************)
Holding(s) == {m \in Member : s[m] > 0}

\* What a new amount for one account does to a total and to a head count.
LEMMA OneAccountMoves ==
    ASSUME NEW s \in [Member -> Nat], NEW a \in Member, NEW n \in Nat
    PROVE  LET t == [s EXCEPT ![a] = n] IN
           /\ SumFunctionOnSet(t, Member) = SumFunctionOnSet(s, Member) + (n - s[a])
           /\ Cardinality(Holding(t)) = Cardinality(Holding(s))
                + (IF s[a] = 0 /\ n > 0 THEN 1 ELSE IF s[a] > 0 /\ n = 0 THEN -1 ELSE 0)
<1> DEFINE t == [s EXCEPT ![a] = n]
<1>1. /\ IsFiniteSet(Member) /\ t[a] = n /\ t[a] \in Int
      /\ \A x \in Member : s[x] \in Int /\ (x # a => t[x] = s[x])
  OBVIOUS
<1>2. SumFunctionOnSet(t, Member) = SumFunctionOnSet(s, Member) + (n - s[a])
  <2> HIDE DEF t
  <2>1. QED
    BY <1>1, SumChanges
<1>3. IsFiniteSet(Holding(s)) /\ Cardinality(Holding(s)) \in Nat
  BY FS_Subset, FS_CardinalityType DEF Holding
<1>4. CASE s[a] = 0 /\ n > 0
  <2>1. Holding(t) = Holding(s) \cup {a} /\ a \notin Holding(s)
    BY <1>4 DEF Holding
  <2>2. QED
    BY <1>2, <1>3, <1>4, <2>1, FS_AddElement
<1>5. CASE s[a] > 0 /\ n = 0
  <2>1. Holding(t) = Holding(s) \ {a} /\ a \in Holding(s)
    BY <1>5 DEF Holding
  <2>2. Cardinality(Holding(s) \ {a}) = Cardinality(Holding(s)) - 1
    BY <1>3, <2>1, FS_RemoveElement
  <2>3. QED
    BY <1>2, <1>3, <1>5, <2>1, <2>2
<1>6. CASE ~(s[a] = 0 /\ n > 0) /\ ~(s[a] > 0 /\ n = 0)
  <2>1. Holding(t) = Holding(s)
    BY <1>6 DEF Holding
  <2>2. QED
    BY <1>2, <1>3, <1>6, <2>1
<1>7. QED
  BY <1>4, <1>5, <1>6

\* No step of the vault or of the clock unbalances the ledger.
LEMMA StakeStepBalances ==
    ASSUME StakeTypeOK, LedgerBalanced, NEW pending \in BOOLEAN,
           Tick \/ VaultStep(pending)
    PROVE  LedgerBalanced'
<1> USE DEF StakeTypeOK, SharesTypeOK
<1>0. /\ totalShares = SumFunctionOnSet(sharesOf, Member)
      /\ totalQueuedShares = SumFunctionOnSet(queuedExitShares, Member)
      /\ holderCount = Cardinality(Holding(sharesOf))
      /\ \A m \in Member : queuedExitShares[m] <= sharesOf[m]
  BY DEF LedgerBalanced, Holding
<1>1. ASSUME /\ totalShares' = SumFunctionOnSet(sharesOf', Member)
             /\ totalQueuedShares' = SumFunctionOnSet(queuedExitShares', Member)
             /\ holderCount' = Cardinality(Holding(sharesOf'))
             /\ \A m \in Member : queuedExitShares'[m] <= sharesOf'[m]
      PROVE  LedgerBalanced'
  BY <1>1 DEF LedgerBalanced, Holding
<1>2. CASE Tick
  BY <1>0, <1>1, <1>2 DEF Tick, stakeVars
<1>3. ASSUME NEW m \in Member, NEW n \in MintSizes, MintShares(m, n)
      PROVE  LedgerBalanced'
  <2>1. n \in Nat /\ n > 0 /\ sharesOf[m] \in Nat /\ sharesOf[m] + n \in Nat
    <3>1. n \in Nat \ {0} /\ sharesOf[m] \in Nat
      OBVIOUS
    <3>2. QED
      BY <3>1
  <2>2. /\ sharesOf' = [sharesOf EXCEPT ![m] = sharesOf[m] + n]
        /\ totalShares' = totalShares + n
        /\ holderCount' = IF sharesOf[m] = 0 THEN holderCount + 1 ELSE holderCount
        /\ UNCHANGED <<queuedExitShares, totalQueuedShares>>
    BY <1>3 DEF MintShares
  <2> DEFINE new == sharesOf[m] + n
  <2>3. /\ SumFunctionOnSet(sharesOf', Member)
             = SumFunctionOnSet(sharesOf, Member) + (new - sharesOf[m])
        /\ Cardinality(Holding(sharesOf')) = Cardinality(Holding(sharesOf))
             + (IF sharesOf[m] = 0 /\ new > 0 THEN 1
                ELSE IF sharesOf[m] > 0 /\ new = 0 THEN -1 ELSE 0)
    <3>1. new \in Nat /\ sharesOf' = [sharesOf EXCEPT ![m] = new]
      BY <2>1, <2>2
    <3> HIDE DEF new
    <3>2. QED
      BY <3>1, OneAccountMoves
  <2>4. totalShares' = SumFunctionOnSet(sharesOf', Member)
    BY <1>0, <2>1, <2>2, <2>3
  <2>5. holderCount' = Cardinality(Holding(sharesOf'))
    BY <1>0, <2>1, <2>2, <2>3
  <2>6. \A k \in Member : queuedExitShares'[k] <= sharesOf'[k]
    BY <1>0, <2>1, <2>2
  <2>7. QED
    BY <1>0, <1>1, <2>2, <2>4, <2>5, <2>6
<1>4. ASSUME NEW m \in Member, NEW n \in Nat, n > 0, BurnShares(m, n)
      PROVE  /\ totalShares' = SumFunctionOnSet(sharesOf', Member)
             /\ holderCount' = Cardinality(Holding(sharesOf'))
             /\ sharesOf'[m] = sharesOf[m] - n
             /\ \A k \in Member : k # m => sharesOf'[k] = sharesOf[k]
  <2>1. /\ sharesOf[m] >= n
        /\ sharesOf' = [sharesOf EXCEPT ![m] = sharesOf[m] - n]
        /\ totalShares' = totalShares - n
        /\ holderCount' = IF sharesOf[m] = n THEN holderCount - 1 ELSE holderCount
    BY <1>4 DEF BurnShares
  <2>2. sharesOf[m] \in Nat /\ sharesOf[m] - n \in Nat
    BY <2>1
  <2> DEFINE left == sharesOf[m] - n
  <2>3. /\ SumFunctionOnSet(sharesOf', Member)
             = SumFunctionOnSet(sharesOf, Member) + (left - sharesOf[m])
        /\ Cardinality(Holding(sharesOf')) = Cardinality(Holding(sharesOf))
             + (IF sharesOf[m] = 0 /\ left > 0 THEN 1
                ELSE IF sharesOf[m] > 0 /\ left = 0 THEN -1 ELSE 0)
    <3>1. left \in Nat /\ sharesOf' = [sharesOf EXCEPT ![m] = left] /\ sharesOf \in [Member -> Nat]
      BY <2>1, <2>2
    <3> HIDE DEF left
    <3>2. QED
      BY <3>1, OneAccountMoves
  <2>4. totalShares' = SumFunctionOnSet(sharesOf', Member)
    BY <1>0, <2>1, <2>2, <2>3
  <2>5. holderCount' = Cardinality(Holding(sharesOf'))
    BY <1>0, <1>4, <2>1, <2>2, <2>3
  <2>6. QED
    BY <2>1, <2>4, <2>5
<1>5. ASSUME NEW m \in Member, NEW n \in 1..sharesOf[m], RequestExit(m, n, pending)
      PROVE  LedgerBalanced'
  <2>0. n \in Nat /\ n > 0 /\ n <= sharesOf[m] /\ queuedExitShares[m] = 0
    BY <1>5 DEF RequestExit
  <2>1. CASE pending
    <3>1. /\ queuedExitShares' = [queuedExitShares EXCEPT ![m] = n]
          /\ totalQueuedShares' = totalQueuedShares + n
          /\ UNCHANGED <<sharesOf, totalShares, holderCount>>
      BY <1>5, <2>1 DEF RequestExit
    <3>2. SumFunctionOnSet(queuedExitShares', Member)
            = SumFunctionOnSet(queuedExitShares, Member) + (n - queuedExitShares[m])
      BY <2>0, <3>1, OneAccountMoves
    <3>3. totalQueuedShares' = SumFunctionOnSet(queuedExitShares', Member)
      BY <1>0, <2>0, <3>1, <3>2
    <3>4. \A k \in Member : queuedExitShares'[k] <= sharesOf'[k]
      BY <1>0, <2>0, <3>1
    <3>5. QED
      BY <1>0, <1>1, <3>1, <3>3, <3>4
  <2>2. CASE ~pending
    <3>1. BurnShares(m, n) /\ UNCHANGED <<queuedExitShares, totalQueuedShares>>
      BY <1>5, <2>2 DEF RequestExit
    <3>2. \A k \in Member : queuedExitShares'[k] <= sharesOf'[k]
      BY <1>0, <1>4, <2>0, <3>1
    <3>3. QED
      BY <1>0, <1>1, <1>4, <2>0, <3>1, <3>2
  <2>3. QED
    BY <2>1, <2>2
<1>6. ASSUME NEW m \in Member, SettleQueuedExit(m, pending)
      PROVE  LedgerBalanced'
  <2> DEFINE n == queuedExitShares[m]
  <2>1. /\ n \in Nat /\ n > 0 /\ BurnShares(m, n)
        /\ queuedExitShares' = [queuedExitShares EXCEPT ![m] = 0]
        /\ totalQueuedShares' = totalQueuedShares - n
    BY <1>6 DEF SettleQueuedExit
  <2>2. SumFunctionOnSet(queuedExitShares', Member)
          = SumFunctionOnSet(queuedExitShares, Member) + (0 - queuedExitShares[m])
    BY <2>1, OneAccountMoves
  <2>3. totalQueuedShares' = SumFunctionOnSet(queuedExitShares', Member)
    BY <1>0, <2>1, <2>2
  <2>4. /\ totalShares' = SumFunctionOnSet(sharesOf', Member)
        /\ holderCount' = Cardinality(Holding(sharesOf'))
        /\ sharesOf'[m] = sharesOf[m] - n
        /\ \A k \in Member : k # m => sharesOf'[k] = sharesOf[k]
    BY <1>4, <2>1
  <2>5. \A k \in Member : queuedExitShares'[k] <= sharesOf'[k]
    BY <1>0, <2>1, <2>4
  <2>6. QED
    BY <1>1, <2>3, <2>4, <2>5
<1>7. QED
  BY <1>2, <1>3, <1>5, <1>6 DEF VaultStep

\* The counters start at the sums of nothing.
LEMMA InitBalances == Init => LedgerBalanced
<1> SUFFICES ASSUME Init PROVE LedgerBalanced
  OBVIOUS
<1>1. /\ sharesOf = [m \in Member |-> 0] /\ queuedExitShares = [m \in Member |-> 0]
      /\ totalShares = 0 /\ totalQueuedShares = 0 /\ holderCount = 0
  BY DEF Init, StakeInit, SharesInit
<1>2. SumFunctionOnSet(sharesOf, Member) = 0 /\ SumFunctionOnSet(queuedExitShares, Member) = 0
  BY <1>1, SumOfZeros
<1>3. {m \in Member : sharesOf[m] > 0} = {}
  BY <1>1
<1>4. QED
  BY <1>1, <1>2, <1>3, FS_EmptySet DEF LedgerBalanced

\* Nor does any step of the composition.
LEMMA NextBalances == TypeInv /\ LedgerBalanced /\ [Next]_vars => LedgerBalanced'
<1> SUFFICES ASSUME TypeInv, LedgerBalanced, [Next]_vars PROVE LedgerBalanced'
  OBVIOUS
<1>1. CASE UNCHANGED stakeVars
  BY <1>1 DEF stakeVars, LedgerBalanced
<1>2. CASE Tick \/ VaultStep(HasPendingExecution)
  <2>1. HasPendingExecution \in BOOLEAN
    BY DEF HasPendingExecution
  <2>2. QED
    BY <1>2, <2>1, StakeStepBalances DEF TypeInv, TypeOK
<1>3. QED
  BY <1>1, <1>2 DEF Next, Second, vars

\* The ledger: whatever is minted, burned and queued, totalShares,
\* totalQueuedShares and holderCount are the sums and the count they stand for,
\* and a queued exit is covered by the shares of its member.
THEOREM LedgerAlwaysBalanced == Spec => []LedgerBalanced
<1>1. Init => TypeInv /\ LedgerBalanced
  BY InitTypeInv, InitBalances
<1>2. TypeInv /\ LedgerBalanced /\ [Next]_vars => (TypeInv /\ LedgerBalanced)'
  BY NextTypeInv, NextBalances
<1>3. QED
  BY <1>1, <1>2, PTL DEF Spec

-----------------------------------------------------------------------------
(***************************************************************************)
(* The tally.  What governance can see of the past is balanced as well, so *)
(* that a proposal's total is the sum of its snapshot.                     *)
(***************************************************************************)
PastBalanced ==
    /\ past.eligible \in [Member -> Nat]
    /\ past.total = SumFunctionOnSet(past.eligible, Member)

\* A member's one ballot, and the flags of the contract that stand for it.
VoterInv(pid, m) ==
    LET b == ballot[pid][m] IN
    /\ b.how = "none" <=> b.side = "none"
    /\ b.how = "none" => b.weight = 0
    /\ b.how = "own" <=> revealedOf[pid][m] # "none"
    /\ b.how = "own" => commitOf[pid][m] # "none"
    /\ b.how \in {"default", "delegated"} <=> defaultApplied[pid][m]
    /\ b.how \in {"default", "delegated"} => commitOf[pid][m] = "none"
    /\ b.how # "none" => /\ proposals[pid].status # "None"
                         /\ now >= proposals[pid].commitDeadline

DelegatedFor(pid) == {m \in BallotsFor(pid, "for") : ballot[pid][m].how = "delegated"}

\* The tally of pid is the sum of its ballots.
TallyInv(pid) ==
    LET p == proposals[pid] IN
    /\ p.snapshotTotal = SumFunctionOnSet(p.snapshot, Member)
    /\ \A m \in Member : Counted(pid, m) <= p.snapshot[m]
    /\ p.forWeight = LentBy(BallotsFor(pid, "for"), pid)
    /\ p.againstWeight = LentBy(BallotsFor(pid, "against"), pid)
    /\ p.revealedWeight = LentBy(OwnBallots(pid), pid)
    /\ delegatedForWeight[pid] = LentBy(DelegatedFor(pid), pid)
    /\ p.status = "None" => \A d \in Member : delegateAccrued[pid][d] = 0

CountInv ==
    /\ PastBalanced
    /\ \A pid \in Pid : TallyInv(pid) /\ \A m \in Member : VoterInv(pid, m)

\* When a second passes, what was balanced is the past.
LEMMA TickBalances ==
    ASSUME TypeInv, LedgerBalanced, Tick
    PROVE  PastBalanced'
<1> DEFINE eligible == [m \in Member |-> VotingEligibleShares(m)]
<1>1. /\ sharesOf \in [Member -> Nat] /\ queuedExitShares \in [Member -> Nat]
      /\ \A m \in Member : queuedExitShares[m] <= sharesOf[m]
      /\ totalShares = SumFunctionOnSet(sharesOf, Member)
      /\ totalQueuedShares = SumFunctionOnSet(queuedExitShares, Member)
  BY DEF TypeInv, TypeOK, StakeTypeOK, SharesTypeOK, LedgerBalanced
<1>2. \A m \in Member : /\ eligible[m] \in Nat /\ queuedExitShares[m] \in Nat
                        /\ sharesOf[m] = eligible[m] + queuedExitShares[m]
  BY <1>1 DEF VotingEligibleShares
<1>3. eligible \in [Member -> Nat]
  BY <1>2
<1>4. past'.eligible = eligible /\ past'.total = totalShares - totalQueuedShares
  BY DEF Tick, TotalVotingEligibleShares
<1> HIDE DEF eligible
<1>5. SumFunctionOnSet(sharesOf, Member)
        = SumFunctionOnSet(eligible, Member) + SumFunctionOnSet(queuedExitShares, Member)
  BY <1>2, SumOfSums
<1>6. /\ SumFunctionOnSet(eligible, Member) \in Int
      /\ SumFunctionOnSet(queuedExitShares, Member) \in Int
  BY <1>2, SumIsInt
<1>7. past'.total = SumFunctionOnSet(eligible, Member)
  BY <1>1, <1>4, <1>5, <1>6
<1>8. QED
  BY <1>3, <1>4, <1>7 DEF PastBalanced

-----------------------------------------------------------------------------
\* Two states of a proposal between which nobody voted.
TallyKept(p, q) ==
    /\ q.ptype = p.ptype /\ q.memberCount = p.memberCount
    /\ q.snapshot = p.snapshot /\ q.snapshotTotal = p.snapshotTotal
    /\ q.forWeight = p.forWeight /\ q.againstWeight = p.againstWeight
    /\ q.revealedWeight = p.revealedWeight /\ q.revealedVoterCount = p.revealedVoterCount

Decided(status) == status \in {"Passed", "Executed", "Expired"}

\* A proposal opens with the past second as its snapshot and nothing on the tally.
Opened(pid) ==
    LET p == proposals[pid] q == proposals'[pid] IN
    /\ p.status = "None" /\ q.status = "Active"
    /\ q.snapshot = past.eligible /\ q.snapshotTotal = past.total
    /\ q.forWeight = 0 /\ q.againstWeight = 0 /\ q.revealedWeight = 0

\* Or it stays as it was voted, and passes only if it carries.
Kept(pid) ==
    LET p == proposals[pid] q == proposals'[pid] IN
    /\ TallyKept(p, q)
    /\ q.status = "None" <=> p.status = "None"
    /\ q.commitDeadline = p.commitDeadline
    /\ Decided(q.status) => Decided(p.status) \/ (p.status = "Active" /\ Carries(pid))

\* A step of governance that casts no vote.
QuietStep ==
    /\ UNCHANGED <<ballot, revealedOf, defaultApplied, delegateAccrued, delegatedForWeight>>
    /\ \A pid \in Pid : Opened(pid) \/ Kept(pid)
    /\ \/ commitOf' = commitOf
       \/ \E pid \in Pid, m \in Member, side \in Side :
             /\ InCommit(proposals[pid])
             /\ commitOf[pid][m] = "none"
             /\ commitOf' = [commitOf EXCEPT ![pid][m] = side]

\* Moving a status touches no tally.
LEMMA StatusKeepsTally ==
    ASSUME NEW ps \in [Pid -> Proposal], NEW pid \in Pid, NEW s \in Status, NEW i \in Pid
    PROVE  TallyKept(ps[i], [ps EXCEPT ![pid].status = s][i])
<1> DEFINE q == [ps[pid] EXCEPT !.status = s]
<1>1. ps[pid] \in Proposal
  OBVIOUS
<1>2. TallyKept(ps[pid], q)
  BY <1>1 DEF Proposal, TallyKept
<1>3. [ps EXCEPT ![pid].status = s] = [ps EXCEPT ![pid] = q]
  OBVIOUS
<1>4. CASE i = pid
  BY <1>2, <1>3, <1>4
<1>5. CASE i # pid
  <2>1. [ps EXCEPT ![pid].status = s][i] = ps[i]
    BY <1>3, <1>5
  <2>2. QED
    BY <2>1 DEF TallyKept
<1>6. QED
  BY <1>4, <1>5

\* Nor does refreshing.
LEMMA RefreshKeeps ==
    ASSUME GovTypeOK, NEW pid \in Pid, proposals'[pid] = Refreshed[pid]
    PROVE  Kept(pid)
<1>1. TallyKept(proposals[pid], Refreshed[pid])
  <2>1. CASE activeProposalOf # 0 /\ Overdue(proposals[activeProposalOf])
    <3>1. activeProposalOf \in Pid /\ proposals \in [Pid -> Proposal] /\ "Expired" \in Status
      BY <2>1 DEF GovTypeOK, Status
    <3>2. Refreshed = [proposals EXCEPT ![activeProposalOf].status = "Expired"]
      BY <2>1 DEF Refreshed
    <3>3. QED
      BY <3>1, <3>2, StatusKeepsTally
  <2>2. CASE ~(activeProposalOf # 0 /\ Overdue(proposals[activeProposalOf]))
    BY <2>2 DEF Refreshed, TallyKept
  <2>3. QED
    BY <2>1, <2>2
<1>2. QED
  BY <1>1, RefreshedType DEF Kept, Overdue, Decided

\* Every step of governance votes or is quiet.
LEMMA GovStepVotesOrNot ==
    ASSUME SafetyInv, GovStep
    PROVE  (\E m \in Member, pid \in Pid : Votes(m, pid)) \/ QuietStep
<1>0. GovTypeOK /\ TypeInv /\ proposals \in [Pid -> Proposal]
  BY DEF SafetyInv, TypeInv, TypeOK, GovTypeOK
<1>1. ASSUME NEW pid \in Pid, proposals'[pid] = proposals[pid] PROVE Kept(pid)
  BY <1>1 DEF Kept, TallyKept
<1>2. ASSUME NEW cfg \in InitialConfigs, RegisterVault(cfg) PROVE QuietStep
  BY <1>1, <1>2 DEF RegisterVault, QuietStep, proposalVars, voteVars
<1>3. ASSUME NEW m \in Member, NEW t \in ProposalTypes, NEW pl \in Payloads(t),
             Propose(m, t, pl)
      PROVE  QuietStep
  <2> DEFINE new == proposalCount + 1
  <2>1. /\ new \in Pid /\ proposals' = [Refreshed EXCEPT ![new] = NewProposal(t, pl)]
        /\ UNCHANGED voteVars
    BY <1>3 DEF Propose
  <2>2. Refreshed \in [Pid -> Proposal] /\ proposalCount \in Nat
    BY <1>0, RefreshedType DEF GovTypeOK
  <2>3. proposals[new].status = "None"
    BY <2>1, <2>2 DEF SafetyInv, ActiveIsLatest
  <2>4. Opened(new)
    BY <2>1, <2>2, <2>3 DEF Opened, NewProposal
  <2>5. ASSUME NEW i \in Pid, i # new PROVE Kept(i)
    <3>1. proposals'[i] = Refreshed[i]
      BY <2>1, <2>2, <2>5
    <3>2. QED
      BY <1>0, <3>1, RefreshKeeps
  <2>6. QED
    BY <2>1, <2>4, <2>5 DEF QuietStep, voteVars
<1>4. ASSUME NEW m \in Member,
             (\E side \in Side : SetStandingDefault(m, side)) \/ ClearStandingDefault(m)
      PROVE  QuietStep
  BY <1>1, <1>4 DEF SetStandingDefault, ClearStandingDefault, QuietStep, proposalVars, voteVars
<1>5. ASSUME NEW m \in Member, NEW d \in Member \union {NoMember}, SetDelegate(m, d)
      PROVE  QuietStep
  <2>1. \A i \in Pid : Kept(i)
    BY <1>0, <1>5, RefreshKeeps DEF SetDelegate
  <2>2. QED
    BY <1>5, <2>1 DEF SetDelegate, QuietStep, voteVars
<1>6. ASSUME NEW m \in Member, NEW pid \in Pid, NEW side \in Side, CommitVote(m, pid, side)
      PROVE  QuietStep
  BY <1>1, <1>6 DEF CommitVote, QuietStep, proposalVars
<1>7. ASSUME NEW pid \in Pid, Finalize(pid) PROVE QuietStep
  <2>1. \A i \in Pid : i # pid => proposals'[i] = proposals[i]
    BY <1>0, <1>7 DEF Finalize
  <2>2. Kept(pid)
    <3>1. proposals[pid] \in Proposal
      BY <1>0
    <3>2. CASE Carries(pid)
      BY <1>0, <1>7, <3>1, <3>2 DEF Finalize, Kept, TallyKept, Proposal
    <3>3. CASE ~Carries(pid)
      BY <1>0, <1>7, <3>1, <3>3 DEF Finalize, Kept, TallyKept, Decided, Proposal
    <3>4. QED
      BY <3>2, <3>3
  <2>3. QED
    BY <1>1, <1>7, <2>1, <2>2 DEF Finalize, QuietStep, voteVars
<1>8. ASSUME NEW pid \in Pid, Execute(pid) \/ MarkExpired(pid) PROVE QuietStep
  <2>1. PICK s \in {"Executed", "Expired"} : proposals' = [proposals EXCEPT ![pid].status = s]
    BY <1>8 DEF Execute, MarkExpired
  <2>2. proposals[pid].status = "Passed" /\ s \in Status
    BY <1>8 DEF Execute, MarkExpired, Overdue, Status
  <2>3. ASSUME NEW i \in Pid PROVE Kept(i)
    <3>1. TallyKept(proposals[i], proposals'[i])
      BY <1>0, <2>1, <2>2, StatusKeepsTally
    <3>2. /\ proposals'[pid].status = s
          /\ proposals'[pid].commitDeadline = proposals[pid].commitDeadline
          /\ i # pid => proposals'[i] = proposals[i]
      BY <1>0, <2>1, <2>2, StatusUpdate
    <3>3. QED
      BY <2>2, <3>1, <3>2 DEF Kept, Decided
  <2>4. QED
    BY <1>8, <2>3 DEF Execute, MarkExpired, QuietStep, voteVars
<1>9. QED
  BY <1>2, <1>3, <1>4, <1>5, <1>6, <1>7, <1>8
     DEF GovStep, MemberStep, VoteStep, CrankStep, Votes

-----------------------------------------------------------------------------
\* One vote: what lands on the tally of pid, and the flags that were and are set.
VoteLands(m, pid, how, side) ==
    LET p == proposals[pid]
        q == proposals'[pid]
        w == BoundedWeight(p, m)
    IN  /\ Cast(pid, m, how, side, w)
        /\ \A i \in Pid : i # pid => /\ proposals'[i] = proposals[i]
                                     /\ delegatedForWeight'[i] = delegatedForWeight[i]
        /\ SameButTally(p, q)
        /\ q.snapshot = p.snapshot /\ q.snapshotTotal = p.snapshotTotal
        /\ q.forWeight = p.forWeight + (IF side = "for" THEN w ELSE 0)
        /\ q.againstWeight = p.againstWeight + (IF side = "against" THEN w ELSE 0)
        /\ q.revealedWeight = p.revealedWeight + (IF how = "own" THEN w ELSE 0)
        /\ delegatedForWeight'[pid]
             = delegatedForWeight[pid] + (IF how = "delegated" /\ side = "for" THEN w ELSE 0)
        /\ commitOf' = commitOf
        /\ IF how = "own"
           THEN /\ commitOf[pid][m] # "none" /\ revealedOf[pid][m] = "none"
                /\ revealedOf' = [revealedOf EXCEPT ![pid][m] = side]
                /\ defaultApplied' = defaultApplied
           ELSE /\ commitOf[pid][m] = "none" /\ ~defaultApplied[pid][m]
                /\ defaultApplied' = [defaultApplied EXCEPT ![pid][m] = TRUE]
                /\ revealedOf' = revealedOf
        /\ IF how = "delegated"
           THEN /\ delegateOf[m] \in Member
                /\ WithinConcentrationCap(p, delegateAccrued[pid][delegateOf[m]], w)
                /\ delegateAccrued' = [delegateAccrued EXCEPT ![pid][delegateOf[m]] = @ + w]
           ELSE delegateAccrued' = delegateAccrued
        /\ delegateOf' = delegateOf

\* What AddToTally adds, and what it leaves.
LEMMA TallyAdds ==
    ASSUME NEW p \in Proposal, NEW side \in Side, NEW w \in Nat
    PROVE  LET q == AddToTally(p, side, w) IN
           /\ q \in Proposal /\ SameButTally(p, q)
           /\ q.snapshot = p.snapshot /\ q.snapshotTotal = p.snapshotTotal
           /\ q.forWeight = p.forWeight + (IF side = "for" THEN w ELSE 0)
           /\ q.againstWeight = p.againstWeight + (IF side = "against" THEN w ELSE 0)
           /\ q.revealedWeight = p.revealedWeight
           /\ q.revealedVoterCount = p.revealedVoterCount
<1>1. CASE side = "for"
  BY <1>1 DEF AddToTally, Proposal, SameButTally
<1>2. CASE side = "against"
  BY <1>2 DEF AddToTally, Proposal, SameButTally
<1>3. QED
  BY <1>1, <1>2 DEF Side

\* Each way to vote is one of these.
LEMMA VotesLand ==
    ASSUME TypeInv, NEW m \in Member, NEW pid \in Pid, Votes(m, pid)
    PROVE  /\ InReveal(proposals[pid])
           /\ BoundedWeight(proposals[pid], m) \in Nat
           /\ BoundedWeight(proposals[pid], m) <= proposals[pid].snapshot[m]
           /\ \E how \in {"own", "default", "delegated"}, side \in Side :
                 VoteLands(m, pid, how, side)
<1> DEFINE p == proposals[pid]
           w == BoundedWeight(p, m)
<1>1. p \in Proposal /\ w \in Nat /\ w <= p.snapshot[m] /\ proposals \in [Pid -> Proposal]
      /\ delegatedForWeight \in [Pid -> Nat] /\ GovTypeOK
  BY BoundedWeightFacts DEF TypeInv, TypeOK, GovTypeOK
<1>2. InReveal(p)
  BY VoteCast
<1>3. CASE RevealVote(m, pid)
  <2> DEFINE side == commitOf[pid][m]
             added == AddToTally(p, side, w)
             q == [added EXCEPT !.revealedWeight = @ + w, !.revealedVoterCount = @ + 1]
  <2>1. side \in Side
    BY <1>1, <1>3 DEF RevealVote, GovTypeOK, Choice, Side
  <2>2. proposals' = [proposals EXCEPT ![pid] = q]
    BY <1>3 DEF RevealVote
  <2>3. /\ SameButTally(p, q) /\ q.snapshot = p.snapshot /\ q.snapshotTotal = p.snapshotTotal
        /\ q.forWeight = p.forWeight + (IF side = "for" THEN w ELSE 0)
        /\ q.againstWeight = p.againstWeight + (IF side = "against" THEN w ELSE 0)
        /\ q.revealedWeight = p.revealedWeight + w
    <3>1. /\ added \in Proposal /\ SameButTally(p, added)
          /\ added.snapshot = p.snapshot /\ added.snapshotTotal = p.snapshotTotal
          /\ added.forWeight = p.forWeight + (IF side = "for" THEN w ELSE 0)
          /\ added.againstWeight = p.againstWeight + (IF side = "against" THEN w ELSE 0)
          /\ added.revealedWeight = p.revealedWeight
      BY <1>1, <2>1, TallyAdds
    <3> HIDE DEF added
    <3>2. QED
      BY <3>1 DEF Proposal, SameButTally
  <2>4. proposals'[pid] = q /\ \A i \in Pid : i # pid => proposals'[i] = proposals[i]
    BY <1>1, <2>2
  <2> HIDE DEF q
  <2>5. VoteLands(m, pid, "own", side)
    <3>1. /\ side # "none" /\ revealedOf[pid][m] = "none"
          /\ revealedOf' = [revealedOf EXCEPT ![pid][m] = side]
          /\ Cast(pid, m, "own", side, w)
          /\ UNCHANGED <<commitOf, defaultApplied, delegateOf, delegateAccrued, delegatedForWeight>>
      BY <1>3 DEF RevealVote, memberVars
    <3>2. delegatedForWeight'[pid] = delegatedForWeight[pid] + 0
      BY <1>1, <3>1
    <3>3. QED
      BY <2>3, <2>4, <3>1, <3>2 DEF VoteLands
  <2>6. QED
    BY <1>1, <1>2, <2>1, <2>5
<1>4. ASSUME NEW side \in Side, proposals' = [proposals EXCEPT ![pid] = AddToTally(p, side, w)]
      PROVE  LET q == proposals'[pid] IN
             /\ SameButTally(p, q) /\ q.snapshot = p.snapshot /\ q.snapshotTotal = p.snapshotTotal
             /\ q.forWeight = p.forWeight + (IF side = "for" THEN w ELSE 0)
             /\ q.againstWeight = p.againstWeight + (IF side = "against" THEN w ELSE 0)
             /\ q.revealedWeight = p.revealedWeight + 0
             /\ \A i \in Pid : i # pid => proposals'[i] = proposals[i]
  <2>1. proposals'[pid] = AddToTally(p, side, w)
        /\ \A i \in Pid : i # pid => proposals'[i] = proposals[i]
    BY <1>1, <1>4
  <2>2. p.revealedWeight = p.revealedWeight + 0
    BY <1>1 DEF Proposal
  <2>3. QED
    BY <1>1, <2>1, <2>2, TallyAdds
<1>5. CASE RevealDelegated(m, pid)
  <2> DEFINE side == revealedOf[pid][delegateOf[m]]
             del == delegateOf[m]
  <2>1. del \in Member
    BY <1>1, <1>5 DEF RevealDelegated, GovTypeOK
  <2>2. side \in Side
    BY <1>1, <1>5, <2>1 DEF RevealDelegated, GovTypeOK, Choice, Side
  <2>3. /\ proposals' = [proposals EXCEPT ![pid] = AddToTally(p, side, w)]
        /\ commitOf[pid][m] = "none" /\ ~defaultApplied[pid][m]
        /\ WithinConcentrationCap(p, delegateAccrued[pid][del], w)
        /\ defaultApplied' = [defaultApplied EXCEPT ![pid][m] = TRUE]
        /\ delegateAccrued' = [delegateAccrued EXCEPT ![pid][del] = @ + w]
        /\ delegatedForWeight' = IF side = "for"
                                 THEN [delegatedForWeight EXCEPT ![pid] = @ + w]
                                 ELSE delegatedForWeight
        /\ Cast(pid, m, "delegated", side, w)
        /\ commitOf' = commitOf /\ revealedOf' = revealedOf /\ delegateOf' = delegateOf
    BY <1>5 DEF RevealDelegated, memberVars
  <2>4. /\ delegatedForWeight'[pid]
             = delegatedForWeight[pid] + (IF side = "for" THEN w ELSE 0)
        /\ \A i \in Pid : i # pid => delegatedForWeight'[i] = delegatedForWeight[i]
    BY <1>1, <2>3
  <2>5. VoteLands(m, pid, "delegated", side)
    BY <1>4, <2>1, <2>2, <2>3, <2>4 DEF VoteLands
  <2>6. QED
    BY <1>1, <1>2, <2>2, <2>5
<1>6. CASE ApplyStandingDefault(m, pid)
  <2> DEFINE side == standingDefaultOf[m].side
  <2>1. side \in Side
    BY <1>1 DEF GovTypeOK, StandingDefault
  <2>2. /\ proposals' = [proposals EXCEPT ![pid] = AddToTally(p, side, w)]
        /\ commitOf[pid][m] = "none" /\ ~defaultApplied[pid][m]
        /\ defaultApplied' = [defaultApplied EXCEPT ![pid][m] = TRUE]
        /\ Cast(pid, m, "default", side, w)
        /\ UNCHANGED <<commitOf, revealedOf, delegateOf, delegateAccrued, delegatedForWeight>>
    BY <1>6 DEF ApplyStandingDefault, memberVars
  <2>3. delegatedForWeight'[pid] = delegatedForWeight[pid] + 0
    BY <1>1, <2>2
  <2>4. VoteLands(m, pid, "default", side)
    BY <1>4, <2>1, <2>2, <2>3 DEF VoteLands
  <2>5. QED
    BY <1>1, <1>2, <2>1, <2>4
<1>7. QED
  BY <1>3, <1>5, <1>6 DEF Votes

\* A ballot adds its weight to every sum its member is in, and to no other.
LEMMA BallotAdds ==
    ASSUME GovTypeOK, NEW m \in Member, NEW pid \in Pid, NEW how, NEW side, NEW w \in Nat,
           Cast(pid, m, how, side, w), NEW T \in SUBSET Member, m \notin T
    PROVE  /\ SumFunctionOnSet(Lent(pid)', T) = SumFunctionOnSet(Lent(pid), T)
           /\ SumFunctionOnSet(Lent(pid)', T \cup {m}) = SumFunctionOnSet(Lent(pid), T) + w
<1> DEFINE f == Lent(pid)
           g == Lent(pid)'
<1>1. \A x \in Member : /\ f[x] \in Nat /\ g[x] = IF x = m THEN w ELSE f[x]
  BY DEF GovTypeOK, Cast, Lent, Counted, Ballot
<1>2. IsFiniteSet(T)
  BY FS_Subset
<1> HIDE DEF f, g
<1>3. (\A x \in T : f[x] \in Int /\ g[x] = f[x]) /\ g[m] = w /\ g[m] \in Int
  BY <1>1
<1>4. /\ SumFunctionOnSet(g, T) = SumFunctionOnSet(f, T)
      /\ SumFunctionOnSet(g, T \cup {m}) = SumFunctionOnSet(f, T) + w
  BY <1>2, <1>3, SumAgrees, SumGains
<1>5. QED
  BY <1>4 DEF f, g

-----------------------------------------------------------------------------
\* A proposal nobody made has no ballots.
LEMMA NoBallotBefore ==
    ASSUME GovTypeOK, CountInv, NEW pid \in Pid, proposals[pid].status = "None"
    PROVE  /\ \A m \in Member : ballot[pid][m].how = "none" /\ Counted(pid, m) = 0
           /\ BallotsFor(pid, "for") = {} /\ BallotsFor(pid, "against") = {}
           /\ OwnBallots(pid) = {} /\ DelegatedFor(pid) = {}
<1>1. \A m \in Member : ballot[pid][m].how = "none" /\ ballot[pid][m].side = "none"
                         /\ Counted(pid, m) = 0
  BY DEF CountInv, VoterInv, Counted
<1>2. QED
  BY <1>1 DEF BallotsFor, OwnBallots, DelegatedFor

\* A step without a vote leaves the tallies as they were.
LEMMA QuietKeepsCount ==
    ASSUME TypeInv, CountInv, QuietStep, UNCHANGED <<now, past>>
    PROVE  CountInv'
<1>0. GovTypeOK /\ now \in Nat /\ \A pid \in Pid : proposals[pid] \in Proposal
  BY DEF TypeInv, TypeOK, GovTypeOK, StakeTypeOK, SharesTypeOK
<1>1. ASSUME NEW pid \in Pid
      PROVE  /\ Lent(pid)' = Lent(pid) /\ OwnBallots(pid)' = OwnBallots(pid)
             /\ BallotsFor(pid, "for")' = BallotsFor(pid, "for")
             /\ BallotsFor(pid, "against")' = BallotsFor(pid, "against")
             /\ DelegatedFor(pid)' = DelegatedFor(pid)
             /\ delegatedForWeight'[pid] = delegatedForWeight[pid]
             /\ delegateAccrued' = delegateAccrued
             /\ \A m \in Member : Counted(pid, m)' = Counted(pid, m)
  BY DEF QuietStep, Lent, OwnBallots, BallotsFor, DelegatedFor, Counted
<1>2. ASSUME NEW pid \in Pid PROVE TallyInv(pid)'
  <2>1. CASE Kept(pid)
    BY <1>1, <2>1 DEF CountInv, TallyInv, LentBy, Kept, TallyKept
  <2>2. CASE Opened(pid)
    <3>1. /\ \A m \in Member : Counted(pid, m)' = 0
          /\ BallotsFor(pid, "for") = {} /\ BallotsFor(pid, "against") = {}
          /\ OwnBallots(pid) = {} /\ DelegatedFor(pid) = {}
      BY <1>0, <1>1, <2>2, NoBallotBefore DEF Opened
    <3>2. SumFunctionOnSet(Lent(pid), {}) = 0
      BY SumEmpty
    <3>3. delegatedForWeight[pid] = 0
      BY <3>1, <3>2 DEF CountInv, TallyInv, LentBy
    <3>4. \A m \in Member : 0 <= past.eligible[m]
      BY DEF CountInv, PastBalanced
    <3>5. past.total = SumFunctionOnSet(past.eligible, Member)
      BY DEF CountInv, PastBalanced
    <3>6. QED
      BY <1>1, <2>2, <3>1, <3>2, <3>3, <3>4, <3>5 DEF TallyInv, LentBy, Opened
  <2>3. QED
    BY <2>1, <2>2 DEF QuietStep
<1>3. ASSUME NEW pid \in Pid, NEW m \in Member PROVE VoterInv(pid, m)'
  <2>0. VoterInv(pid, m) /\ ballot' = ballot /\ revealedOf' = revealedOf
        /\ defaultApplied' = defaultApplied /\ now' = now
    BY DEF CountInv, QuietStep
  <2>1. ballot[pid][m].how # "none" => /\ proposals'[pid].status # "None"
                                       /\ now' >= proposals'[pid].commitDeadline
    BY <2>0 DEF VoterInv, QuietStep, Kept, Opened
  <2>2. \/ commitOf'[pid][m] = commitOf[pid][m]
        \/ commitOf'[pid][m] # "none" /\ InCommit(proposals[pid])
    <3>1. commitOf \in [Pid -> [Member -> Choice]]
      BY <1>0 DEF GovTypeOK
    <3>2. CASE commitOf' = commitOf
      BY <3>2
    <3>3. ASSUME NEW i \in Pid, NEW x \in Member, NEW side \in Side, InCommit(proposals[i]),
                 commitOf' = [commitOf EXCEPT ![i][x] = side]
          PROVE  \/ commitOf'[pid][m] = commitOf[pid][m]
                 \/ commitOf'[pid][m] # "none" /\ InCommit(proposals[pid])
      BY <3>1, <3>3 DEF Side
    <3>4. QED
      BY <3>2, <3>3 DEF QuietStep
  <2>3. CASE commitOf'[pid][m] = commitOf[pid][m]
    BY <2>0, <2>1, <2>3 DEF VoterInv
  <2>4. CASE commitOf'[pid][m] # "none" /\ InCommit(proposals[pid])
    <3>1. ballot[pid][m].how = "none"
      BY <1>0, <2>0, <2>4 DEF VoterInv, InCommit, Proposal
    <3>2. QED
      BY <2>0, <2>1, <2>4, <3>1 DEF VoterInv
  <2>5. QED
    BY <2>2, <2>3, <2>4
<1>4. PastBalanced'
  BY DEF CountInv, PastBalanced
<1>5. QED
  BY <1>2, <1>3, <1>4 DEF CountInv

\* A vote is its member's first, and counts on the side it took.
LEMMA VoteKeepsCount ==
    ASSUME TypeInv, CountInv, NEW m \in Member, NEW pid \in Pid, Votes(m, pid),
           UNCHANGED <<now, past>>
    PROVE  CountInv'
<1> DEFINE p == proposals[pid]
           w == BoundedWeight(p, m)
<1>0. GovTypeOK /\ now \in Nat /\ \A i \in Pid : proposals[i] \in Proposal
  BY DEF TypeInv, TypeOK, GovTypeOK, StakeTypeOK, SharesTypeOK
<1>1. InReveal(p) /\ w \in Nat /\ w <= p.snapshot[m]
  BY VotesLand
<1>2. PICK how \in {"own", "default", "delegated"}, side \in Side : VoteLands(m, pid, how, side)
  BY VotesLand
<1> HIDE DEF w
<1>3. ballot[pid][m].how = "none" /\ ballot[pid][m].side = "none"
  <2>1. VoterInv(pid, m) /\ ballot[pid][m].how \in {"none", "own", "default", "delegated"}
    BY <1>0 DEF CountInv, GovTypeOK, Ballot
  <2>2. ballot[pid][m].how = "none"
    BY <1>2, <2>1 DEF VoteLands, VoterInv
  <2>3. QED
    BY <2>1, <2>2 DEF VoterInv
<1>4. /\ Cast(pid, m, how, side, w)
      /\ ballot'[pid][m] = [how |-> how, side |-> side, weight |-> w]
      /\ \A x \in Member : x # m => ballot'[pid][x] = ballot[pid][x]
      /\ \A i \in Pid : i # pid => ballot'[i] = ballot[i]
  BY <1>0, <1>2 DEF VoteLands, Cast, GovTypeOK, w
<1>5. ASSUME NEW i \in Pid, i # pid
      PROVE  TallyInv(i)' /\ \A x \in Member : VoterInv(i, x)'
  <2>1. /\ proposals'[i] = proposals[i] /\ delegatedForWeight'[i] = delegatedForWeight[i]
        /\ ballot'[i] = ballot[i] /\ commitOf'[i] = commitOf[i]
        /\ revealedOf'[i] = revealedOf[i] /\ defaultApplied'[i] = defaultApplied[i]
        /\ delegateAccrued'[i] = delegateAccrued[i] /\ now' = now
    BY <1>0, <1>2, <1>4, <1>5 DEF VoteLands, GovTypeOK
  <2>2. /\ Lent(i)' = Lent(i) /\ OwnBallots(i)' = OwnBallots(i)
        /\ BallotsFor(i, "for")' = BallotsFor(i, "for")
        /\ BallotsFor(i, "against")' = BallotsFor(i, "against")
        /\ DelegatedFor(i)' = DelegatedFor(i)
        /\ \A x \in Member : Counted(i, x)' = Counted(i, x)
    BY <2>1 DEF Lent, OwnBallots, BallotsFor, DelegatedFor, Counted
  <2>3. TallyInv(i)'
    BY <2>1, <2>2 DEF CountInv, TallyInv, LentBy
  <2>4. QED
    BY <2>1, <2>3 DEF CountInv, VoterInv
<1>6. ASSUME NEW x \in Member PROVE VoterInv(pid, x)'
  <2>1. /\ proposals'[pid].status # "None" /\ now' >= proposals'[pid].commitDeadline
    BY <1>0, <1>1, <1>2 DEF VoteLands, SameButTally, InReveal, Proposal
  <2>2. VoterInv(pid, x)
    BY DEF CountInv
  <2>3. CASE x # m
    <3>1. /\ ballot'[pid][x] = ballot[pid][x] /\ commitOf'[pid][x] = commitOf[pid][x]
          /\ revealedOf'[pid][x] = revealedOf[pid][x]
          /\ defaultApplied'[pid][x] = defaultApplied[pid][x]
      BY <1>0, <1>2, <1>4, <2>3 DEF VoteLands, GovTypeOK
    <3>2. QED
      BY <2>1, <2>2, <3>1 DEF VoterInv
  <2>4. CASE x = m
    <3>1. side # "none"
      BY DEF Side
    <3>2. CASE how = "own"
      <4>1. /\ commitOf'[pid][m] # "none" /\ revealedOf'[pid][m] = side
            /\ defaultApplied'[pid][m] = defaultApplied[pid][m]
        BY <1>0, <1>2, <3>2 DEF VoteLands, GovTypeOK
      <4>2. QED
        BY <1>3, <1>4, <2>1, <2>2, <2>4, <3>1, <3>2, <4>1 DEF VoterInv
    <3>3. CASE how # "own"
      <4>1. /\ commitOf'[pid][m] = "none" /\ revealedOf'[pid][m] = revealedOf[pid][m]
            /\ defaultApplied'[pid][m] = TRUE
        BY <1>0, <1>2, <3>3 DEF VoteLands, GovTypeOK
      <4>2. QED
        BY <1>3, <1>4, <2>1, <2>2, <2>4, <3>1, <3>3, <4>1 DEF VoterInv
    <3>4. QED
      BY <3>2, <3>3
  <2>5. QED
    BY <2>3, <2>4
<1>7. TallyInv(pid)'
  <2> DEFINE add(T, in) == IF in THEN T \cup {m} ELSE T
  <2>1. TallyInv(pid)
    BY DEF CountInv
  <2>2. /\ BallotsFor(pid, "for")' = add(BallotsFor(pid, "for"), side = "for")
        /\ BallotsFor(pid, "against")' = add(BallotsFor(pid, "against"), side = "against")
        /\ OwnBallots(pid)' = add(OwnBallots(pid), how = "own")
        /\ DelegatedFor(pid)' = add(DelegatedFor(pid), how = "delegated" /\ side = "for")
    BY <1>3, <1>4 DEF BallotsFor, OwnBallots, DelegatedFor
  <2>3. ASSUME NEW T \in SUBSET Member, m \notin T, NEW in \in BOOLEAN
        PROVE  SumFunctionOnSet(Lent(pid)', add(T, in))
                 = SumFunctionOnSet(Lent(pid), T) + (IF in THEN w ELSE 0)
    <3>1. /\ SumFunctionOnSet(Lent(pid)', T) = SumFunctionOnSet(Lent(pid), T)
          /\ SumFunctionOnSet(Lent(pid)', T \cup {m}) = SumFunctionOnSet(Lent(pid), T) + w
      BY <1>0, <1>1, <1>4, <2>3, BallotAdds
    <3>2. SumFunctionOnSet(Lent(pid), T) \in Int
      <4>1. \A x \in T : Lent(pid)[x] \in Int
        BY <1>0 DEF Lent, Counted, GovTypeOK, Ballot
      <4>2. QED
        BY <4>1, FS_Subset, SumIsInt
    <3>3. QED
      BY <3>1, <3>2
  <2>4. /\ m \notin BallotsFor(pid, "for") /\ m \notin BallotsFor(pid, "against")
        /\ m \notin OwnBallots(pid) /\ m \notin DelegatedFor(pid)
        /\ BallotsFor(pid, "for") \subseteq Member /\ BallotsFor(pid, "against") \subseteq Member
        /\ OwnBallots(pid) \subseteq Member /\ DelegatedFor(pid) \subseteq Member
    BY <1>3 DEF BallotsFor, OwnBallots, DelegatedFor
  <2> HIDE DEF add
  <2>5. /\ LentBy(BallotsFor(pid, "for"), pid)'
              = LentBy(BallotsFor(pid, "for"), pid) + (IF side = "for" THEN w ELSE 0)
        /\ LentBy(BallotsFor(pid, "against"), pid)'
              = LentBy(BallotsFor(pid, "against"), pid) + (IF side = "against" THEN w ELSE 0)
        /\ LentBy(OwnBallots(pid), pid)'
              = LentBy(OwnBallots(pid), pid) + (IF how = "own" THEN w ELSE 0)
        /\ LentBy(DelegatedFor(pid), pid)'
              = LentBy(DelegatedFor(pid), pid)
                  + (IF how = "delegated" /\ side = "for" THEN w ELSE 0)
    BY <2>2, <2>3, <2>4 DEF LentBy
  <2>6. \A x \in Member : Counted(pid, x)' = IF x = m THEN w ELSE Counted(pid, x)
    BY <1>4 DEF Counted
  <2>7. QED
    BY <1>1, <1>2, <2>1, <2>5, <2>6 DEF TallyInv, VoteLands, SameButTally, InReveal, w
<1>8. PastBalanced'
  BY DEF CountInv, PastBalanced
<1>9. QED
  BY <1>5, <1>6, <1>7, <1>8 DEF CountInv

-----------------------------------------------------------------------------
\* While the clock or the vault moves, the tallies stand.
LEMMA VaultKeepsCount ==
    ASSUME TypeInv, LedgerBalanced, CountInv, Second \/ VaultStep(HasPendingExecution),
           UNCHANGED govVars, TypeInv'
    PROVE  CountInv'
<1>1. /\ UNCHANGED <<proposals, ballot, revealedOf, commitOf, defaultApplied,
                     delegateAccrued, delegatedForWeight>>
      /\ now \in Nat /\ now' \in Nat /\ \A pid \in Pid : proposals[pid] \in Proposal
  BY DEF TypeInv, TypeOK, StakeTypeOK, SharesTypeOK, GovTypeOK, govVars, proposalVars, voteVars
<1>2. now' >= now
  BY <1>1 DEF Second, Tick, VaultStep, MintShares, RequestExit, SettleQueuedExit
<1>3. PastBalanced'
  BY TickBalances DEF CountInv, PastBalanced, Second, VaultStep
<1>4. ASSUME NEW pid \in Pid PROVE TallyInv(pid)'
  <2>1. /\ Lent(pid)' = Lent(pid) /\ OwnBallots(pid)' = OwnBallots(pid)
        /\ BallotsFor(pid, "for")' = BallotsFor(pid, "for")
        /\ BallotsFor(pid, "against")' = BallotsFor(pid, "against")
        /\ DelegatedFor(pid)' = DelegatedFor(pid)
        /\ \A m \in Member : Counted(pid, m)' = Counted(pid, m)
    BY <1>1 DEF Lent, OwnBallots, BallotsFor, DelegatedFor, Counted
  <2>2. QED
    BY <1>1, <2>1 DEF CountInv, TallyInv, LentBy
<1>5. ASSUME NEW pid \in Pid, NEW m \in Member PROVE VoterInv(pid, m)'
  BY <1>1, <1>2 DEF CountInv, VoterInv, Proposal
<1>6. QED
  BY <1>3, <1>4, <1>5 DEF CountInv

\* Nothing is counted at first.
LEMMA InitCount == Init => CountInv
<1> SUFFICES ASSUME Init PROVE CountInv
  OBVIOUS
<1>1. past.eligible = [m \in Member |-> 0] /\ past.total = 0
  BY DEF Init, StakeInit
<1>2. SumFunctionOnSet(past.eligible, Member) = 0
  BY <1>1, SumOfZeros
<1>3. PastBalanced
  BY <1>1, <1>2 DEF PastBalanced
<1>4. /\ proposals = [i \in Pid |-> NoProposal]
      /\ commitOf = [i \in Pid |-> [m \in Member |-> "none"]]
      /\ revealedOf = [i \in Pid |-> [m \in Member |-> "none"]]
      /\ defaultApplied = [i \in Pid |-> [m \in Member |-> FALSE]]
      /\ delegateAccrued = [i \in Pid |-> [m \in Member |-> 0]]
      /\ delegatedForWeight = [i \in Pid |-> 0]
      /\ ballot = [i \in Pid |-> [m \in Member |-> NoBallot]]
  BY DEF Init, GovInit, NothingProposed
<1>5. ASSUME NEW pid \in Pid, NEW m \in Member PROVE VoterInv(pid, m)
  BY <1>4 DEF VoterInv, NoBallot
<1>6. ASSUME NEW pid \in Pid PROVE TallyInv(pid)
  <2>1. /\ BallotsFor(pid, "for") = {} /\ BallotsFor(pid, "against") = {}
        /\ OwnBallots(pid) = {} /\ DelegatedFor(pid) = {}
        /\ \A m \in Member : Counted(pid, m) = 0
    BY <1>4 DEF BallotsFor, OwnBallots, DelegatedFor, NoBallot, Counted
  <2>2. /\ proposals[pid].snapshot = [m \in Member |-> 0] /\ proposals[pid].snapshotTotal = 0
        /\ proposals[pid].forWeight = 0 /\ proposals[pid].againstWeight = 0
        /\ proposals[pid].revealedWeight = 0
    BY <1>4 DEF NoProposal
  <2>3. SumFunctionOnSet(proposals[pid].snapshot, Member) = 0
    BY <2>2, SumOfZeros
  <2>4. SumFunctionOnSet(Lent(pid), {}) = 0
    BY SumEmpty
  <2>5. /\ LentBy(BallotsFor(pid, "for"), pid) = 0 /\ LentBy(BallotsFor(pid, "against"), pid) = 0
        /\ LentBy(OwnBallots(pid), pid) = 0 /\ LentBy(DelegatedFor(pid), pid) = 0
    BY <2>1, <2>4 DEF LentBy
  <2>6. \A m \in Member : Counted(pid, m) <= proposals[pid].snapshot[m]
    BY <2>1, <2>2
  <2>7. delegatedForWeight[pid] = 0 /\ \A d \in Member : delegateAccrued[pid][d] = 0
    BY <1>4
  <2>8. QED
    BY <2>2, <2>3, <2>5, <2>6, <2>7 DEF TallyInv
<1>7. QED
  BY <1>3, <1>5, <1>6 DEF CountInv

TallyingInv == SafetyInv /\ LedgerBalanced /\ CountInv

\* Every step of the composition keeps every tally.
LEMMA NextTallying == TallyingInv /\ [Next]_vars => TallyingInv'
<1> SUFFICES ASSUME TallyingInv, [Next]_vars PROVE TallyingInv'
  OBVIOUS
<1> USE DEF TallyingInv
<1>1. SafetyInv' /\ LedgerBalanced' /\ TypeInv /\ TypeInv'
  BY NextSafety, NextBalances DEF SafetyInv
<1>2. CASE UNCHANGED vars
  <2>1. UNCHANGED <<now, past, proposals, ballot, revealedOf, commitOf, defaultApplied,
                    delegateAccrued, delegatedForWeight>>
    BY <1>2 DEF vars, govVars, proposalVars, voteVars
  <2>2. \A pid \in Pid : Kept(pid)
    BY <2>1 DEF Kept, TallyKept
  <2>3. QED
    BY <1>1, <2>1, <2>2, QuietKeepsCount DEF QuietStep
<1>3. CASE GovStep /\ UNCHANGED <<now, past, stakeVars>>
  BY <1>1, <1>3, GovStepVotesOrNot, QuietKeepsCount, VoteKeepsCount
<1>4. CASE Second \/ (VaultStep(HasPendingExecution) /\ UNCHANGED govVars)
  BY <1>1, <1>4, VaultKeepsCount DEF Second
<1>5. QED
  BY <1>1, <1>2, <1>3, <1>4 DEF Next

\* The tallies add up throughout.
LEMMA TallyingInvariant == Spec => []TallyingInv
<1>1. Init => TallyingInv
  BY InitSafety, InitBalances, InitCount DEF TallyingInv
<1>2. TallyingInv /\ [Next]_vars => TallyingInv'
  BY NextTallying
<1>3. QED
  BY <1>1, <1>2, PTL DEF Spec

\* What the ballots of some members come to.
LEMMA LentFacts ==
    ASSUME TallyingInv, NEW pid \in Pid, NEW T \in SUBSET Member
    PROVE  /\ LentBy(T, pid) \in Nat /\ LentBy(T, pid) <= proposals[pid].snapshotTotal
           /\ proposals[pid].snapshotTotal \in Nat
           /\ proposals[pid].snapshotTotal = SumFunctionOnSet(proposals[pid].snapshot, Member)
           /\ \A m \in Member : /\ Lent(pid)[m] \in Nat /\ proposals[pid].snapshot[m] \in Nat
                                 /\ Lent(pid)[m] <= proposals[pid].snapshot[m]
<1> DEFINE f == Lent(pid)
           g == proposals[pid].snapshot
<1>1. /\ \A m \in Member : f[m] \in Nat /\ g[m] \in Nat /\ f[m] <= g[m]
      /\ proposals[pid].snapshotTotal = SumFunctionOnSet(g, Member)
  <2>1. GovTypeOK /\ TallyInv(pid)
    BY DEF TallyingInv, SafetyInv, TypeInv, TypeOK, CountInv
  <2>2. proposals[pid] \in Proposal /\ ballot[pid] \in [Member -> Ballot]
    BY <2>1 DEF GovTypeOK
  <2>3. QED
    BY <2>1, <2>2 DEF TallyInv, Lent, Counted, Proposal, Ballot
<1> HIDE DEF f, g
<1>2. SumFunctionOnSet(f, T) \in Nat /\ SumFunctionOnSet(g, Member) \in Nat
  BY <1>1, FS_Subset, SumIsNat
<1>3. SumFunctionOnSet(f, T) <= SumFunctionOnSet(g, Member)
  BY <1>1, SumGrows
<1>4. QED
  BY <1>1, <1>2, <1>3 DEF LentBy, f, g

\* VO-9 / VO-5: whatever mix of own votes, cranked delegations and standing
\* defaults it is made of, a tally is the sum of the weights its members lent
\* it, each of them at most once and at most what the snapshot held, and both
\* sides together are within the snapshot.  It rests on the flags of the
\* contract: a member's ballot is an own one exactly when it was revealed, and
\* one cast for them exactly when defaultApplied is set (VoterInv); and on the
\* ledger, whose history gives the snapshot its total (PastBalanced).
THEOREM StakeCountedOnce == Spec => []NoStakeCountedTwice
<1>1. TallyingInv => NoStakeCountedTwice
  <2> SUFFICES ASSUME TallyingInv, NEW pid \in Pid
               PROVE  proposals[pid].forWeight + proposals[pid].againstWeight
                        <= proposals[pid].snapshotTotal
    BY DEF NoStakeCountedTwice, TallyingInv, CountInv, TallyInv
  <2> DEFINE F == BallotsFor(pid, "for")
             A == BallotsFor(pid, "against")
  <2>1. F \subseteq Member /\ A \subseteq Member /\ F \cap A = {} /\ F \cup A \subseteq Member
    BY DEF BallotsFor
  <2>2. \A m \in F \cup A : Lent(pid)[m] \in Int
    BY <2>1, LentFacts
  <2>3. LentBy(F \cup A, pid) = LentBy(F, pid) + LentBy(A, pid)
    <3> HIDE DEF F, A
    <3>1. QED
      BY <2>1, <2>2, FS_Subset, SumOverUnion DEF LentBy
  <2>4. LentBy(F \cup A, pid) <= proposals[pid].snapshotTotal
    BY <2>1, LentFacts
  <2>5. proposals[pid].forWeight = LentBy(F, pid) /\ proposals[pid].againstWeight = LentBy(A, pid)
    BY DEF TallyingInv, CountInv, TallyInv
  <2>6. QED
    BY <2>3, <2>4, <2>5
<1>2. QED
  BY <1>1, TallyingInvariant, PTL

-----------------------------------------------------------------------------
(***************************************************************************)
(* The quorum.                                                             *)
(***************************************************************************)
\* A registered vault is governed by a configuration within the hard caps.
ConfigInv == vaultRegistered => ValidConfig(config)

\* Registering and executing a rule change validate what they put in force.
LEMMA NextConfig ==
    ASSUME TypeInv, ConfigInv, [Next]_vars
    PROVE  ConfigInv'
<1> DEFINE Same == UNCHANGED <<vaultRegistered, config>>
           Valid == ValidConfig(config')
<1>1. CASE UNCHANGED govVars
  <2>1. Same
    BY <1>1 DEF govVars, registryVars
  <2>2. QED
    BY <2>1 DEF ConfigInv, ValidConfig
<1>2. CASE GovStep
  <2>1. ASSUME NEW cfg \in InitialConfigs, RegisterVault(cfg) PROVE Valid
    BY <2>1 DEF RegisterVault
  <2>2. ASSUME NEW m \in Member, MemberStep(m) PROVE Same
    BY <2>2 DEF MemberStep, Propose, SetDelegate, SetStandingDefault, ClearStandingDefault,
                registryVars
  <2>3. ASSUME NEW m \in Member, NEW pid \in Pid, VoteStep(m, pid) PROVE Same
    BY <2>3 DEF VoteStep, CommitVote, RevealVote, RevealDelegated, ApplyStandingDefault,
                registryVars
  <2>4. ASSUME NEW pid \in Pid, CrankStep(pid) PROVE Same \/ Valid
    BY <2>4 DEF CrankStep, Finalize, Execute, MarkExpired, registryVars
  <2>5. Same \/ Valid
    BY <1>2, <2>1, <2>2, <2>3, <2>4 DEF GovStep
  <2>6. QED
    BY <2>5 DEF ConfigInv, ValidConfig
<1>3. QED
  BY <1>1, <1>2 DEF Next, Second, vars

\* Whoever has a proposal is registered.
LEMMA ProposedIsRegistered ==
    ASSUME SafetyInv, NEW pid \in Pid, proposals[pid].status # "None"
    PROVE  vaultRegistered
<1>1. proposalCount # 0
  BY DEF SafetyInv, ActiveIsLatest, Pid
<1>2. QED
  BY <1>1 DEF SafetyInv, RegisteredFirst

\* The members who voted FOR by themselves or by their standing default.
Undirected(pid) == {m \in BallotsFor(pid, "for") : ballot[pid][m].how # "delegated"}

\* The quorum of pid as PresentMembersMadeQuorum states it.
QuorumMade(pid) ==
    LET p == proposals[pid] IN
    IF p.ptype = "RuleChange"
    THEN \A m \in Member : p.snapshot[m] > 0 =>
           /\ ballot[pid][m].how = "own" /\ ballot[pid][m].side = "for"
           /\ Counted(pid, m) = p.snapshot[m]
    ELSE IF p.memberCount < SignerRegimeBelow
    THEN LentBy(Undirected(pid), pid) * BPS >= QuorumFloorBps * p.snapshotTotal
    ELSE LentBy(OwnBallots(pid), pid) * BPS >= QuorumFloorBps * p.snapshotTotal

\* What SelfDirectedFor leaves is what nobody directed for another.
LEMMA SelfDirectedIsUndirected ==
    ASSUME TallyingInv, NEW pid \in Pid
    PROVE  SelfDirectedFor(pid) = LentBy(Undirected(pid), pid)
<1> DEFINE U == Undirected(pid)
           D == DelegatedFor(pid)
<1>1. /\ U \subseteq Member /\ D \subseteq Member /\ U \cap D = {}
      /\ U \cup D = BallotsFor(pid, "for")
  BY DEF Undirected, DelegatedFor, BallotsFor
<1>2. /\ proposals[pid].forWeight = LentBy(BallotsFor(pid, "for"), pid)
      /\ delegatedForWeight[pid] = LentBy(D, pid)
  BY DEF TallyingInv, CountInv, TallyInv
<1>3. LentBy(U, pid) \in Nat /\ LentBy(D, pid) \in Nat
      /\ \A m \in U \cup D : Lent(pid)[m] \in Int
  BY <1>1, LentFacts
<1> HIDE DEF U, D
<1>4. LentBy(U \cup D, pid) = LentBy(U, pid) + LentBy(D, pid)
  BY <1>1, <1>3, FS_Subset, SumOverUnion DEF LentBy
<1>5. SelfDirectedFor(pid) = LentBy(U, pid)
  <2> DEFINE u == LentBy(U, pid)
             d == LentBy(D, pid)
  <2>1. u \in Nat /\ d \in Nat
    BY <1>3
  <2>2. SelfDirectedFor(pid) = (u + d) - d
    BY <1>1, <1>2, <1>4 DEF SelfDirectedFor
  <2> HIDE DEF u, d
  <2>3. SelfDirectedFor(pid) = u
    BY <2>1, <2>2
  <2>4. QED
    BY <2>3 DEF u
<1>6. QED
  BY <1>5 DEF U

\* Enough of a stake is enough for the floor.
LEMMA FloorReached ==
    ASSUME NEW w \in Nat, NEW total \in Nat, NEW floor \in Nat, NEW bps \in Nat,
           \/ \E q \in Nat : floor <= q /\ w * bps >= q * total
           \/ floor * 2 <= bps /\ w * 2 > total
    PROVE  w * bps >= floor * total
<1>1. CASE \E q \in Nat : floor <= q /\ w * bps >= q * total
  <2>1. PICK q \in Nat : floor <= q /\ w * bps >= q * total
    BY <1>1
  <2>2. floor * total <= q * total
    BY <2>1, ProductGrows
  <2>3. floor * total \in Nat /\ q * total \in Nat /\ w * bps \in Nat
    BY <2>1
  <2>4. QED
    BY <2>1, <2>2, <2>3
<1>2. CASE floor * 2 <= bps /\ w * 2 > total
  <2>1. w * (floor * 2) <= w * bps
    BY <1>2, ProductGrows
  <2>2. floor * total <= floor * (w * 2)
    BY <1>2, ProductGrows
  <2>3. w * (floor * 2) = floor * (w * 2)
    OBVIOUS
  <2>4. w * (floor * 2) \in Nat /\ w * bps \in Nat /\ floor * total \in Nat
    OBVIOUS
  <2>5. QED
    BY <2>1, <2>2, <2>3, <2>4
<1>3. QED
  BY <1>1, <1>2

\* What carries has its quorum from members who were there.
LEMMA CarriesMakesQuorum ==
    ASSUME TallyingInv, ConfigInv, NEW pid \in Pid,
           proposals[pid].status # "None", Carries(pid)
    PROVE  QuorumMade(pid)
<1> DEFINE p == proposals[pid]
           total == p.snapshotTotal
<1>1. /\ p.forWeight = LentBy(BallotsFor(pid, "for"), pid)
      /\ p.revealedWeight = LentBy(OwnBallots(pid), pid)
      /\ QuorumOk(pid)
  BY DEF TallyingInv, CountInv, TallyInv, Carries
<1>2. OwnBallots(pid) \subseteq Member /\ BallotsFor(pid, "for") \subseteq Member
      /\ Undirected(pid) \subseteq Member
  BY DEF OwnBallots, BallotsFor, Undirected
<1>3. CASE p.ptype = "RuleChange"
  <2>1. LentBy(OwnBallots(pid), pid) = total /\ LentBy(BallotsFor(pid, "for"), pid) >= total
    BY <1>1, <1>3 DEF QuorumOk, FullConsensus
  <2>2. ASSUME NEW T \in SUBSET Member, LentBy(T, pid) >= total
        PROVE  /\ \A m \in T : Lent(pid)[m] = p.snapshot[m]
               /\ \A m \in Member \ T : p.snapshot[m] = 0
    <3> DEFINE f == Lent(pid)
               g == p.snapshot
    <3>1. /\ \A m \in T : f[m] \in Int /\ f[m] <= g[m]
          /\ \A m \in Member : g[m] \in Nat
          /\ total = SumFunctionOnSet(g, Member) /\ total \in Nat
          /\ LentBy(T, pid) \in Nat
      BY LentFacts
    <3> HIDE DEF f, g
    <3>2. SumFunctionOnSet(g, Member) <= SumFunctionOnSet(f, T)
      BY <2>2, <3>1 DEF LentBy, f
    <3>3. (\A m \in T : f[m] = g[m]) /\ \A m \in Member \ T : g[m] = 0
      BY <3>1, <3>2, SumLeavesNothingOut
    <3>4. QED
      BY <3>3 DEF f, g
  <2>3. /\ \A m \in OwnBallots(pid) : Lent(pid)[m] = p.snapshot[m]
        /\ \A m \in Member \ OwnBallots(pid) : p.snapshot[m] = 0
        /\ \A m \in Member \ BallotsFor(pid, "for") : p.snapshot[m] = 0
    <3>1. total \in Nat
      BY LentFacts
    <3>2. QED
      BY <1>2, <2>1, <2>2, <3>1
  <2>4. ASSUME NEW m \in Member, p.snapshot[m] > 0
        PROVE  /\ ballot[pid][m].how = "own" /\ ballot[pid][m].side = "for"
               /\ Counted(pid, m) = p.snapshot[m]
    <3>1. m \in OwnBallots(pid) /\ m \in BallotsFor(pid, "for")
      BY <2>3, <2>4
    <3>2. Counted(pid, m) = p.snapshot[m]
      BY <2>3, <3>1 DEF Lent
    <3>3. QED
      BY <3>1, <3>2 DEF OwnBallots, BallotsFor
  <2>5. QED
    BY <1>3, <2>4 DEF QuorumMade
<1>4. CASE p.ptype # "RuleChange"
  <2>1. config.quorumBps \in Nat /\ QuorumFloorBps \in Nat /\ QuorumFloorBps <= config.quorumBps
    <3>1. ValidConfig(config)
      BY ProposedIsRegistered DEF TallyingInv, ConfigInv
    <3>2. config \in GovConfig /\ QuorumFloorBps \in Nat
      BY GovernanceAssumption DEF TallyingInv, SafetyInv, TypeInv, TypeOK, GovTypeOK
    <3>3. QED
      BY <3>1, <3>2 DEF ValidConfig, GovConfig
  <2>2. total \in Nat /\ BPS \in Nat
    BY LentFacts
  <2>3. CASE p.memberCount < SignerRegimeBelow
    <3> DEFINE w == LentBy(Undirected(pid), pid)
    <3>1. w \in Nat /\ SelfDirectedFor(pid) = w
      BY <1>2, LentFacts, SelfDirectedIsUndirected
    <3>2. w * BPS >= config.quorumBps * total \/ w * 2 > total
      BY <1>1, <1>4, <2>3, <3>1 DEF QuorumOk, SmallVaultQuorum
    <3> HIDE DEF w, total
    <3>3. w * BPS >= QuorumFloorBps * total
      BY <2>1, <2>2, <3>1, <3>2, FloorReached, QuorumFloorAssumption
    <3>4. QED
      BY <1>4, <2>3, <3>3 DEF QuorumMade, w, total
  <2>4. CASE ~(p.memberCount < SignerRegimeBelow)
    <3> DEFINE w == LentBy(OwnBallots(pid), pid)
    <3>1. w \in Nat
      BY <1>2, LentFacts
    <3>2. w * BPS >= config.quorumBps * total
      BY <1>1, <1>4, <2>4 DEF QuorumOk, StakeQuorum
    <3> HIDE DEF w, total
    <3>3. w * BPS >= QuorumFloorBps * total
      BY <2>1, <2>2, <3>1, <3>2, FloorReached
    <3>4. QED
      BY <1>4, <2>4, <3>3 DEF QuorumMade, w, total
  <2>5. QED
    BY <2>3, <2>4
<1>5. QED
  BY <1>3, <1>4

QuorumInv == \A pid \in Pid : Decided(proposals[pid].status) => QuorumMade(pid)

\* Ballots and tally as they were make the quorum they made.
LEMMA QuorumKept ==
    ASSUME NEW pid \in Pid, TallyKept(proposals[pid], proposals'[pid]),
           ballot'[pid] = ballot[pid], QuorumMade(pid)
    PROVE  QuorumMade(pid)'
<1>1. /\ Lent(pid)' = Lent(pid) /\ OwnBallots(pid)' = OwnBallots(pid)
      /\ Undirected(pid)' = Undirected(pid)
      /\ \A m \in Member : Counted(pid, m)' = Counted(pid, m)
  BY DEF Lent, OwnBallots, Undirected, BallotsFor, Counted
<1>2. QED
  BY <1>1 DEF QuorumMade, LentBy, TallyKept

\* A quorum is made when its proposal passes, and nobody votes any more.
LEMMA NextQuorum ==
    ASSUME TallyingInv, ConfigInv, QuorumInv, [Next]_vars
    PROVE  QuorumInv'
<1> SUFFICES ASSUME NEW pid \in Pid, Decided(proposals'[pid].status)
             PROVE  QuorumMade(pid)'
  BY DEF QuorumInv, Decided
<1>0. SafetyInv /\ TypeInv
  BY DEF TallyingInv, SafetyInv
<1>1. ASSUME proposals'[pid] = proposals[pid], ballot'[pid] = ballot[pid]
      PROVE  QuorumMade(pid)'
  BY <1>1, QuorumKept DEF QuorumInv, TallyKept
<1>2. CASE UNCHANGED govVars
  BY <1>1, <1>2 DEF govVars, proposalVars, voteVars
<1>3. CASE QuietStep
  <2>1. Kept(pid) /\ ballot' = ballot
    BY <1>3 DEF QuietStep, Opened, Decided
  <2>2. QuorumMade(pid)
    BY <2>1, CarriesMakesQuorum DEF Kept, QuorumInv
  <2>3. QED
    BY <2>1, <2>2, QuorumKept DEF Kept
<1>4. ASSUME NEW m \in Member, NEW i \in Pid, Votes(m, i) PROVE QuorumMade(pid)'
  <2>1. InReveal(proposals[i])
    BY <1>0, <1>4, VotesLand
  <2>2. PICK how \in {"own", "default", "delegated"}, side \in Side : VoteLands(m, i, how, side)
    BY <1>0, <1>4, VotesLand
  <2>3. pid # i
    BY <2>1, <2>2 DEF VoteLands, SameButTally, InReveal, Decided
  <2>4. ballot \in [Pid -> [Member -> Ballot]]
    BY <1>0 DEF TypeInv, TypeOK, GovTypeOK
  <2>5. proposals'[pid] = proposals[pid] /\ ballot'[pid] = ballot[pid]
    BY <2>2, <2>3, <2>4 DEF VoteLands, Cast
  <2>6. QED
    BY <1>1, <2>5
<1>5. QED
  BY <1>0, <1>2, <1>3, <1>4, GovStepVotesOrNot DEF Next, Second, vars

-----------------------------------------------------------------------------
(***************************************************************************)
(* The concentration cap.                                                  *)
(***************************************************************************)
CarriedBy(pid, d) == {m \in Member : ballot[pid][m].how = "delegated" /\ delegateOf[m] = d}

\* What one delegate carries, while it can matter.
CarryInv ==
    \A pid \in Pid, d \in Member : InFlight(pid) =>
        /\ LentBy(CarriedBy(pid, d), pid) = delegateAccrued[pid][d]
        /\ delegateAccrued[pid][d] * BPS
              <= ConcentrationCapCeilingBps * proposals[pid].snapshotTotal

\* Nobody changes a delegate while a proposal is in flight.
LEMMA DelegatesStand ==
    ASSUME SafetyInv, GovStep, NEW pid \in Pid, InFlight(pid)
    PROVE  delegateOf' = delegateOf
<1>1. ~NothingInFlight
  BY InFlightBlocks
<1>2. ASSUME NEW m \in Member, MemberStep(m) PROVE delegateOf' = delegateOf
  BY <1>1, <1>2 DEF MemberStep, Propose, SetDelegate, SetStandingDefault, ClearStandingDefault
<1>3. ASSUME NEW m \in Member, NEW i \in Pid, VoteStep(m, i) PROVE delegateOf' = delegateOf
  BY <1>3 DEF VoteStep, CommitVote, RevealVote, RevealDelegated, ApplyStandingDefault, memberVars
<1>4. ASSUME NEW i \in Pid, CrankStep(i) PROVE delegateOf' = delegateOf
  BY <1>4 DEF CrankStep, Finalize, Execute, MarkExpired, memberVars
<1>5. ASSUME NEW cfg \in InitialConfigs, RegisterVault(cfg) PROVE delegateOf' = delegateOf
  BY <1>5 DEF RegisterVault, memberVars
<1>6. QED
  BY <1>2, <1>3, <1>4, <1>5 DEF GovStep

\* The same ballots, delegations and counters are the same load.
LEMMA CarryKept ==
    ASSUME CarryInv, NEW pid \in Pid, InFlight(pid), NEW d \in Member,
           ballot'[pid] = ballot[pid], delegateOf' = delegateOf,
           delegateAccrued'[pid] = delegateAccrued[pid],
           proposals'[pid].snapshotTotal = proposals[pid].snapshotTotal
    PROVE  /\ LentBy(CarriedBy(pid, d), pid)' = delegateAccrued'[pid][d]
           /\ delegateAccrued'[pid][d] * BPS
                 <= ConcentrationCapCeilingBps * proposals'[pid].snapshotTotal
<1>1. Lent(pid)' = Lent(pid) /\ CarriedBy(pid, d)' = CarriedBy(pid, d)
  BY DEF Lent, Counted, CarriedBy
<1>2. QED
  BY <1>1 DEF CarryInv, LentBy

\* A vote adds to the load of at most one delegate, and within the cap.
LEMMA VoteCarries ==
    ASSUME TallyingInv, ConfigInv, CarryInv, NEW m \in Member, NEW pid \in Pid,
           Votes(m, pid), NEW d \in Member
    PROVE  /\ LentBy(CarriedBy(pid, d), pid)' = delegateAccrued'[pid][d]
           /\ delegateAccrued'[pid][d] * BPS
                 <= ConcentrationCapCeilingBps * proposals'[pid].snapshotTotal
<1> DEFINE p == proposals[pid]
           w == BoundedWeight(p, m)
           C == CarriedBy(pid, d)
<1>0. SafetyInv /\ TypeInv /\ GovTypeOK /\ delegateAccrued \in [Pid -> [Member -> Nat]]
      /\ p.snapshotTotal \in Nat /\ ConcentrationCapCeilingBps \in Nat /\ BPS \in Nat
  <2>1. p.snapshotTotal \in Nat
    BY LentFacts
  <2>2. ConcentrationCapCeilingBps \in Nat
    BY GovernanceAssumption
  <2>3. QED
    BY <2>1, <2>2 DEF TallyingInv, SafetyInv, TypeInv, TypeOK, GovTypeOK
<1>1. InReveal(p) /\ w \in Nat
  BY <1>0, VotesLand
<1>2. PICK how \in {"own", "default", "delegated"}, side \in Side : VoteLands(m, pid, how, side)
  BY <1>0, VotesLand
<1>3. /\ LentBy(C, pid) = delegateAccrued[pid][d]
      /\ delegateAccrued[pid][d] * BPS <= ConcentrationCapCeilingBps * p.snapshotTotal
  BY <1>1 DEF CarryInv, InFlight, InReveal
<1>4. /\ ballot[pid][m].how = "none" /\ m \notin C /\ C \subseteq Member
  <2>1. VoterInv(pid, m) /\ ballot[pid][m].how \in {"none", "own", "default", "delegated"}
    BY <1>0 DEF TallyingInv, CountInv, GovTypeOK, Ballot
  <2>2. ballot[pid][m].how = "none"
    BY <1>2, <2>1 DEF VoteLands, VoterInv
  <2>3. QED
    BY <2>2 DEF CarriedBy
<1>5. CarriedBy(pid, d)' = IF how = "delegated" /\ delegateOf[m] = d THEN C \cup {m} ELSE C
  <2>1. /\ ballot'[pid][m].how = how /\ delegateOf' = delegateOf
        /\ \A x \in Member : x # m => ballot'[pid][x] = ballot[pid][x]
    BY <1>0, <1>2 DEF VoteLands, Cast, GovTypeOK
  <2>2. QED
    BY <1>4, <2>1 DEF CarriedBy
<1>6. /\ SumFunctionOnSet(Lent(pid)', C) = LentBy(C, pid)
      /\ SumFunctionOnSet(Lent(pid)', C \cup {m}) = LentBy(C, pid) + w
  <2> HIDE DEF w, C
  <2>1. Cast(pid, m, how, side, w)
    BY <1>2 DEF VoteLands, w
  <2>2. C \in SUBSET Member /\ m \notin C /\ w \in Nat /\ GovTypeOK
    BY <1>0, <1>1, <1>4
  <2>3. /\ SumFunctionOnSet(Lent(pid)', C) = SumFunctionOnSet(Lent(pid), C)
        /\ SumFunctionOnSet(Lent(pid)', C \cup {m}) = SumFunctionOnSet(Lent(pid), C) + w
    BY <2>1, <2>2, BallotAdds
  <2>4. QED
    BY <2>3 DEF LentBy
<1>7. proposals'[pid].snapshotTotal = p.snapshotTotal
  BY <1>2 DEF VoteLands
<1>8. CASE how = "delegated" /\ delegateOf[m] = d
  <2>1. delegateAccrued'[pid][d] = delegateAccrued[pid][d] + w
    BY <1>0, <1>2, <1>8 DEF VoteLands
  <2>2. LentBy(CarriedBy(pid, d), pid)' = delegateAccrued'[pid][d]
    BY <1>3, <1>5, <1>6, <1>8, <2>1 DEF LentBy
  <2>3. delegateAccrued'[pid][d] * BPS <= config.concentrationCapBps * p.snapshotTotal
    BY <1>2, <1>8, <2>1 DEF VoteLands, WithinConcentrationCap
  <2>4. /\ config.concentrationCapBps \in Nat
        /\ config.concentrationCapBps <= ConcentrationCapCeilingBps
    <3>1. ValidConfig(config)
      BY <1>0, <1>1, ProposedIsRegistered DEF ConfigInv, InReveal
    <3>2. config \in GovConfig
      BY <1>0, GovernanceAssumption DEF GovTypeOK
    <3>3. QED
      BY <1>0, <3>1, <3>2 DEF ValidConfig, GovConfig
  <2>5. config.concentrationCapBps * p.snapshotTotal
          <= ConcentrationCapCeilingBps * p.snapshotTotal
    BY <1>0, <2>4, ProductGrows
  <2>6. delegateAccrued'[pid][d] * BPS <= ConcentrationCapCeilingBps * p.snapshotTotal
    <3>1. /\ delegateAccrued'[pid][d] * BPS \in Int
          /\ config.concentrationCapBps * p.snapshotTotal \in Int
          /\ ConcentrationCapCeilingBps * p.snapshotTotal \in Int
      BY <1>0, <1>1, <2>1, <2>4
    <3>2. QED
      BY <2>3, <2>5, <3>1
  <2>7. QED
    BY <1>7, <2>2, <2>6
<1>9. CASE ~(how = "delegated" /\ delegateOf[m] = d)
  <2>1. delegateAccrued'[pid][d] = delegateAccrued[pid][d]
    BY <1>0, <1>2, <1>9 DEF VoteLands
  <2>2. QED
    BY <1>3, <1>5, <1>6, <1>7, <1>9, <2>1 DEF LentBy
<1>10. QED
  BY <1>8, <1>9

\* No step overloads a delegate.
LEMMA NextCarry ==
    ASSUME TallyingInv, ConfigInv, CarryInv, [Next]_vars
    PROVE  CarryInv'
<1> SUFFICES ASSUME NEW pid \in Pid, NEW d \in Member, InFlight(pid)'
             PROVE  /\ LentBy(CarriedBy(pid, d), pid)' = delegateAccrued'[pid][d]
                    /\ delegateAccrued'[pid][d] * BPS
                          <= ConcentrationCapCeilingBps * proposals'[pid].snapshotTotal
  BY DEF CarryInv
<1>0. SafetyInv /\ TypeInv /\ GovTypeOK
  BY DEF TallyingInv, SafetyInv, TypeInv, TypeOK
<1>1. CASE UNCHANGED govVars /\ now' >= now
  <2>1. proposals' = proposals /\ ballot' = ballot /\ delegateOf' = delegateOf
        /\ delegateAccrued' = delegateAccrued
    BY <1>1 DEF govVars, proposalVars, voteVars, memberVars
  <2>2. now \in Nat /\ now' \in Int /\ proposals[pid] \in Proposal
    <3>1. now \in Nat /\ now' \in Nat
      BY <1>0, NextTypeInv DEF TypeInv, TypeOK, StakeTypeOK, SharesTypeOK
    <3>2. QED
      BY <1>0, <3>1 DEF GovTypeOK
  <2>3. InFlight(pid)
    BY <1>1, <2>1, <2>2 DEF InFlight, Proposal
  <2>4. QED
    BY <2>1, <2>3, CarryKept
<1>2. CASE GovStep /\ UNCHANGED <<now, past, stakeVars>>
  <2>1. InFlight(pid) \/ proposals[pid].status = "None"
    BY <1>0, <1>2, GovStepMoves DEF GovMove, StatusMove
  <2>2. CASE InFlight(pid) /\ QuietStep
    <3>1. delegateOf' = delegateOf
      BY <1>0, <1>2, <2>2, DelegatesStand
    <3>2. ballot' = ballot /\ delegateAccrued' = delegateAccrued
          /\ proposals'[pid].snapshotTotal = proposals[pid].snapshotTotal
      BY <2>2 DEF QuietStep, Opened, Kept, TallyKept, InFlight
    <3>3. QED
      BY <2>2, <3>1, <3>2, CarryKept
  <2>3. CASE InFlight(pid) /\ \E m \in Member, i \in Pid : Votes(m, i)
    <3>1. PICK m \in Member, i \in Pid : Votes(m, i)
      BY <2>3
    <3>2. CASE i = pid
      BY <3>1, <3>2, VoteCarries
    <3>3. CASE i # pid
      <4>1. PICK how \in {"own", "default", "delegated"}, side \in Side :
              VoteLands(m, i, how, side)
        BY <1>0, <3>1, VotesLand
      <4>2. /\ proposals'[pid] = proposals[pid] /\ ballot'[pid] = ballot[pid]
            /\ delegateOf' = delegateOf /\ delegateAccrued'[pid] = delegateAccrued[pid]
        BY <1>0, <3>3, <4>1 DEF VoteLands, Cast, GovTypeOK
      <4>3. QED
        BY <2>3, <4>2, CarryKept
    <3>4. QED
      BY <3>2, <3>3
  <2>4. CASE proposals[pid].status = "None"
    <3>1. \A m \in Member : ballot[pid][m].how = "none"
      BY <1>0, <2>4, NoBallotBefore DEF TallyingInv
    <3>2. delegateAccrued[pid][d] = 0
      BY <2>4 DEF TallyingInv, CountInv, TallyInv
    <3>3. QuietStep
      <4>1. ~\E m \in Member, i \in Pid : Votes(m, i)
        <5>1. ASSUME NEW m \in Member, NEW i \in Pid, Votes(m, i) PROVE FALSE
          <6>1. InReveal(proposals[i])
            BY <1>0, <5>1, VotesLand
          <6>2. PICK how \in {"own", "default", "delegated"}, side \in Side :
                  VoteLands(m, i, how, side)
            BY <1>0, <5>1, VotesLand
          <6>3. proposals'[pid] = proposals[pid]
            BY <2>4, <6>1, <6>2 DEF VoteLands, InReveal
          <6>4. QED
            BY <2>4, <6>3 DEF InFlight
        <5>2. QED
          BY <5>1
      <4>2. QED
        BY <1>0, <1>2, <4>1, GovStepVotesOrNot
    <3>4. CarriedBy(pid, d)' = {} /\ delegateAccrued'[pid][d] = 0
      BY <3>1, <3>2, <3>3 DEF CarriedBy, QuietStep
    <3>5. LentBy(CarriedBy(pid, d), pid)' = 0
      BY <3>4, SumEmpty DEF LentBy
    <3>6. proposals'[pid].snapshotTotal \in Nat
      <4>1. TallyingInv'
        BY NextTallying
      <4>2. proposals'[pid].snapshotTotal
              = SumFunctionOnSet(proposals'[pid].snapshot, Member)
        BY <4>1 DEF TallyingInv, CountInv, TallyInv
      <4>3. \A m \in Member : proposals'[pid].snapshot[m] \in Nat
        BY <4>1 DEF TallyingInv, SafetyInv, TypeInv, TypeOK, GovTypeOK, Proposal
      <4>4. QED
        BY <4>2, <4>3, SumIsNat
    <3>7. 0 <= ConcentrationCapCeilingBps * proposals'[pid].snapshotTotal
      <4>1. ConcentrationCapCeilingBps \in Nat
        BY GovernanceAssumption
      <4>2. QED
        BY <3>6, <4>1
    <3>8. QED
      BY <3>4, <3>5, <3>7
  <2>5. QED
    BY <1>0, <1>2, <2>1, <2>2, <2>3, <2>4, GovStepVotesOrNot
<1>3. QED
  <2>1. Second \/ VaultStep(HasPendingExecution) => now' >= now
    <3>1. now \in Nat
      BY <1>0 DEF TypeInv, TypeOK, StakeTypeOK, SharesTypeOK
    <3>2. QED
      BY <3>1 DEF Second, Tick, VaultStep, MintShares, RequestExit, SettleQueuedExit
  <2>2. UNCHANGED vars => UNCHANGED govVars /\ now' >= now
    BY <1>0 DEF vars, TypeInv, TypeOK, StakeTypeOK, SharesTypeOK
  <2>3. QED
    BY <1>1, <1>2, <2>1, <2>2 DEF Next, Second

-----------------------------------------------------------------------------
CouncilInv == TallyingInv /\ ConfigInv /\ QuorumInv /\ CarryInv

LEMMA CouncilInvariant == Spec => []CouncilInv
<1>1. Init => CouncilInv
  <2> SUFFICES ASSUME Init PROVE CouncilInv
    OBVIOUS
  <2>1. TallyingInv
    BY InitSafety, InitBalances, InitCount DEF TallyingInv
  <2>2. ~vaultRegistered /\ \A pid \in Pid : proposals[pid].status = "None"
    BY DEF Init, GovInit, NothingProposed, NoProposal
  <2>3. QED
    BY <2>1, <2>2 DEF CouncilInv, ConfigInv, QuorumInv, CarryInv, Decided, InFlight
<1>2. CouncilInv /\ [Next]_vars => CouncilInv'
  <2> SUFFICES ASSUME CouncilInv, [Next]_vars PROVE CouncilInv'
    OBVIOUS
  <2>1. TypeInv
    BY DEF CouncilInv, TallyingInv, SafetyInv
  <2>2. QED
    BY <2>1, NextTallying, NextConfig, NextQuorum, NextCarry DEF CouncilInv
<1>3. QED
  BY <1>1, <1>2, PTL DEF Spec

\* VO-2b: the quorum of whatever passed was made by members who were there: by
\* those who revealed themselves, in a small vault also by standing defaults,
\* never by weight a delegate directed, and for a rule change by all of the
\* snapshot, in person and FOR.  It takes that the configuration in force was
\* validated (ConfigInv), so that its quorum is at least the floor, and that a
\* tally is the sum of its ballots (TallyingInv).
THEOREM QuorumWasPresent == Spec => []PresentMembersMadeQuorum
<1>1. CouncilInv => PresentMembersMadeQuorum
  BY DEF CouncilInv, QuorumInv, QuorumMade, Decided, Undirected, PresentMembersMadeQuorum
<1>2. QED
  BY <1>1, CouncilInvariant, PTL

\* VO-5: while a proposal is in flight, what its members handed to one delegate
\* is what delegateAccrued counts, and stays under the concentration ceiling.
\* It takes that no delegation moves while it is in flight (DelegatesStand).
THEOREM DelegatesAreCapped == Spec => []DelegatesStayUnderCap
<1>1. CouncilInv => DelegatesStayUnderCap
  BY DEF CouncilInv, CarryInv, CarriedBy, DelegatesStayUnderCap
<1>2. QED
  BY <1>1, CouncilInvariant, PTL
=============================================================================
