--------------------------- MODULE ReferenceAgent ---------------------------
(***************************************************************************)
(* The reference agent, holding the key of one member of a vault: at every *)
(* tick it reads the chain, decides, and sends transactions, which the     *)
(* chain mines later and may refuse.  The agent keeps no vote and no       *)
(* position between ticks: all it knows is what this tick's reads answer.  *)
(* A read that fails answers null; each operator below says what the code  *)
(* makes of that null.                                                     *)
(*                                                                         *)
(* One unit of time is one tick interval.  A tick is one step: the chain   *)
(* may move on before its transactions are mined, not while it reads.      *)
(* Prices do not move, so a share is worth what was paid for it; `trouble' *)
(* stands for an exit trigger that is also a failed join gate, such as the *)
(* operator's net turning negative.                                        *)
(***************************************************************************)
EXTENDS GovernedVault, SequencesExt

CONSTANTS
    Agent,               \* the member whose key the agent holds
    Amount,              \* policy.join.depositUsdc, in the shares it buys
    Window,              \* OBSERVATION_WINDOW
    Grace,               \* timing.activateGraceSec
    Skews,               \* how far the agent's clock may be off the chain's
    CrankKinds,          \* the cranks policy.crank leaves on
    PayloadKnown,        \* policy.crank.knownPayloads holds the proposal's
    Views,               \* bound: what the evaluator may say of a proposal
    MineWithin,          \* bound: how long a transaction may stay unmined
    MaxFaults            \* bound: how many ticks see a read or a send fail

ASSUME AgentAssumption ==
    /\ Agent \in Member \ {Creator}
    /\ Amount \in Nat \ {0} /\ {Window, Grace, MineWithin, MaxFaults} \subseteq Nat
    /\ Skews \subseteq Int /\ PayloadKnown \in BOOLEAN
    /\ Views \subseteq Choice
    /\ CrankKinds \subseteq {"finalize", "execute", "mark-expired"}

VARIABLES
    skew,                \* the agent's clock shows now + skew
    version,             \* account.saltVersion: the scheme of the next salt
    ticked,              \* the agent has had its tick in this unit of time
    faults,              \* reads and sends that failed so far
    trouble,
    mempool,             \* transactions sent and not mined, in nonce order
    saltOf,              \* the scheme of the commitment mined for each proposal
    pendingDeposit,      \* pendingDeposit[Agent].amountUsdc, in shares
    availableAt,         \* pendingDeposit[Agent].availableAt
    windowCleared,       \* windowCleared[Agent]
    allowance            \* what the vault may still pull from the agent

chainVars == <<vars, saltOf, pendingDeposit, availableAt, windowCleared, allowance>>
agentVars == <<skew, version, ticked, faults, trouble, mempool>>
allVars == <<chainVars, agentVars>>

Versions == {"v1", "v2"}

Reads == {"vaultCount", "sharesOf", "pendingDeposit", "queuedExitShares",
          "navPerShareWad", "activeProposalOf", "proposals", "commitOf", "revealedOf",
          "hasPendingExecution", "pastVotingEligibleShares", "timestamp"}

\* INTENT_ORDER: what is at risk comes first.
IntentOrder == <<"reveal", "finalize", "settle", "execute", "exit", "activate",
                 "mark-expired", "commit", "approve", "deposit">>

\* What may go wrong in one tick: one read fails, one send (or the simulation in
\* front of it) fails, or the process restarts.
Faults == Reads \union Range(IntentOrder) \union {"restart"}

-----------------------------------------------------------------------------
\* discoverFromChain: a list that cannot be read is a list without the vault.
Discovered(f) == f # "vaultCount"

\* readVault: perceive and plan take an unreadable balance for none.
SharesSeen(f) == IF f = "sharesOf" THEN 0 ELSE sharesOf[Agent]
Held(f) == SharesSeen(f) > 0
Pending(f) == f # "pendingDeposit" /\ pendingDeposit > 0

\* readGovernance: a failed activeProposalOf reads as 0, no proposal; then, and
\* when proposals fails, there is none to decide on.
ProposalSeen(f) == activeProposalOf # 0 /\ f \notin {"activeProposalOf", "proposals"}
Latest == proposals[activeProposalOf]
LocalNow == now + skew

\* A failed commitOf is no commit to reveal, and none to add to; a failed
\* revealedOf counts as not revealed.
HasOutstandingCommit(f) ==
    /\ f # "commitOf"
    /\ commitOf[activeProposalOf][Agent] # "none"
    /\ revealedOf[activeProposalOf][Agent] = "none" \/ f = "revealedOf"

VotePhase(p) == IF LocalNow < p.commitDeadline THEN "commit"
                ELSE IF LocalNow < p.revealDeadline THEN "reveal" ELSE "closed"

\* Fault: only the configured scheme is tried.
RecoversConfigured(scheme) == scheme = version

\* recoverVote: the salt is derived again, under either scheme.
RecoverVote(scheme) == scheme \in Versions

RevealDue(f) ==
    /\ ProposalSeen(f)
    /\ HasOutstandingCommit(f)
    /\ VotePhase(Latest) = "reveal"
    /\ RecoverVote(saltOf[activeProposalOf])

\* The evaluator may have no view, and then the agent does not commit.  Weight
\* that was not there a second before the proposal is refused by the chain.
CommitDue(f, view) ==
    /\ ProposalSeen(f)
    /\ ~HasOutstandingCommit(f)
    /\ f \notin {"commitOf", "pastVotingEligibleShares"}
    /\ VotePhase(Latest) = "commit"
    /\ f = "revealedOf" \/ revealedOf[activeProposalOf][Agent] = "none"
    /\ Latest.ptype = "Rebalance" /\ Latest.status = "Active"
    /\ Latest.snapshot[Agent] > 0
    /\ view # "none"

\* decideCrank works on the chain's time, or on the local clock less a margin,
\* for a vault the agent has a position in (policy.crank.scope is held), and
\* each of its calls is simulated before it is sent.
CrankTime(f) == IF f = "timestamp" THEN LocalNow - Grace ELSE now

CrankSeen(kind, f) == /\ kind \in CrankKinds
                      /\ Held(f) \/ Pending(f)
                      /\ ProposalSeen(f)

\* Fault: nothing is finalized that somebody else will.
FinalizeNever(f) == FALSE

FinalizeDue(f) == /\ CrankSeen("finalize", f)
                  /\ Latest.status = "Active"
                  /\ CrankTime(f) >= Latest.revealDeadline
                  /\ now >= Latest.revealDeadline

ExecuteDue(f) == /\ CrankSeen("execute", f)
                 /\ Latest.status = "Passed" /\ Latest.ptype = "Rebalance"
                 /\ CrankTime(f) \in Latest.executableAt..Latest.expiresAt
                 /\ PayloadKnown
                 /\ now \in Latest.executableAt..Latest.expiresAt

MarkExpiredDue(f) == /\ CrankSeen("mark-expired", f)
                     /\ Latest.status = "Passed"
                     /\ CrankTime(f) > Latest.expiresAt
                     /\ Overdue(Latest)

\* Fault: only an executed proposal releases the queue.
SettleAfterExecution(f) ==
    /\ f # "queuedExitShares"
    /\ queuedExitShares[Agent] > 0
    /\ ProposalSeen(f) /\ Latest.status = "Executed"

\* decideSettle: an unreadable answer does not hold the call back.
SettleDue(f) ==
    /\ f # "queuedExitShares"
    /\ queuedExitShares[Agent] > 0
    /\ f = "hasPendingExecution" \/ ~HasPendingExecution

\* decideExit: a price that cannot be read is an oracle about to freeze.
ExitDue(f) == Held(f) /\ (trouble \/ f = "navPerShareWad")

ActivateDue(f) == ~Held(f) /\ Pending(f) /\ LocalNow >= availableAt + Grace

\* decideJoin: each gate refuses what it cannot read, the price for one; what
\* the agent already has in the vault is not among the gates.
DepositDue(f) == ~Held(f) /\ ~Pending(f) /\ ~trouble /\ f # "navPerShareWad"

\* The intents of one tick; an approval goes in front of every deposit, and a
\* deposit is not sent when its approval could not be.
Due(f, view) ==
    LET P(kind) ==
        CASE kind = "reveal"       -> RevealDue(f)
          [] kind = "finalize"     -> FinalizeDue(f)
          [] kind = "settle"       -> SettleDue(f)
          [] kind = "execute"      -> ExecuteDue(f)
          [] kind = "exit"         -> ExitDue(f)
          [] kind = "activate"     -> ActivateDue(f)
          [] kind = "mark-expired" -> MarkExpiredDue(f)
          [] kind = "commit"       -> CommitDue(f, view)
          [] kind = "approve"      -> DepositDue(f)
          [] kind = "deposit"      -> DepositDue(f) /\ f # "approve"
    IN  SelectSeq(IntentOrder, LAMBDA kind : P(kind) /\ kind # f)

\* A transaction carries what its intent was made of.
Tx(kind, f, view) ==
    [kind |-> kind, at |-> now,
     pid |-> IF kind \in {"reveal", "finalize", "execute", "mark-expired", "commit"}
             THEN activeProposalOf ELSE 0,
     side |-> IF kind = "commit" THEN view ELSE "none",
     scheme |-> IF kind = "commit" THEN version ELSE "v1",
     shares |-> IF kind = "exit" THEN SharesSeen(f) ELSE 0]

-----------------------------------------------------------------------------
\* What one tick sends.
Sent(f, view) ==
    LET due == IF f = "restart" \/ ~Discovered(f) THEN <<>> ELSE Due(f, view)
    IN  [i \in DOMAIN due |-> Tx(due[i], f, view)]

\* One pass of perceive, plan and act.  The loop goes on when the model's clock
\* has stopped.
AgentTick(f) ==
    /\ ~ticked \/ (now = MaxTime /\ mempool = <<>>)
    /\ ticked' = TRUE
    /\ f # "none" => faults < MaxFaults
    /\ faults' = IF f = "none" THEN faults ELSE faults + 1
    /\ version' \in IF f = "restart" THEN Versions ELSE {version}
    /\ \E view \in Views : mempool' = mempool \o Sent(f, view)
    /\ UNCHANGED <<chainVars, skew, trouble>>

-----------------------------------------------------------------------------
\* The chain's side of each transaction the agent sends: it is applied where it
\* can be, and otherwise reverts.
vaultOnly == <<now, past, stakeVars>>
agentMoney == <<pendingDeposit, availableAt, windowCleared, allowance>>

\* Shares for a deposit of Amount, minted at once to who has been through the
\* window, and after the window to who has not.
DepositNow ==
    /\ MintShares(Agent, Amount)
    /\ UNCHANGED <<pendingDeposit, availableAt>>

DepositPending ==
    /\ pendingDeposit' = Amount
    /\ availableAt' = now + Window
    /\ UNCHANGED <<now, stakeVars>>

DepositPulls ==
    /\ allowance >= Amount
    /\ allowance' = allowance - Amount
    /\ IF windowCleared \/ sharesOf[Agent] > 0 THEN DepositNow
       ELSE pendingDeposit = 0 /\ DepositPending
    /\ UNCHANGED <<past, govVars, windowCleared>>

ActivateMints ==
    /\ pendingDeposit > 0 /\ now >= availableAt
    /\ MintShares(Agent, pendingDeposit)
    /\ pendingDeposit' = 0 /\ availableAt' = 0
    /\ windowCleared' = TRUE
    /\ UNCHANGED <<past, govVars, allowance>>

Call(tx) ==
    \/ /\ tx.kind = "approve"
       /\ allowance' = Amount
       /\ UNCHANGED <<vars, saltOf, pendingDeposit, availableAt, windowCleared>>
    \/ tx.kind = "deposit" /\ DepositPulls /\ UNCHANGED saltOf
    \/ tx.kind = "activate" /\ ActivateMints /\ UNCHANGED saltOf
    \/ /\ tx.kind = "exit"
       /\ RequestExit(Agent, tx.shares, HasPendingExecution)
       /\ UNCHANGED <<past, govVars, saltOf, agentMoney>>
    \/ /\ tx.kind = "settle"
       /\ SettleQueuedExit(Agent, HasPendingExecution)
       /\ UNCHANGED <<past, govVars, saltOf, agentMoney>>
    \/ /\ tx.kind = "commit"
       /\ CommitVote(Agent, tx.pid, tx.side)
       /\ saltOf' = [saltOf EXCEPT ![tx.pid] = tx.scheme]
       /\ UNCHANGED <<vaultOnly, agentMoney>>
    \/ /\ \/ tx.kind = "reveal" /\ RevealVote(Agent, tx.pid)
          \/ tx.kind = "finalize" /\ Finalize(tx.pid)
          \/ tx.kind = "execute" /\ Execute(tx.pid)
          \/ tx.kind = "mark-expired" /\ MarkExpired(tx.pid)
       /\ UNCHANGED <<vaultOnly, saltOf, agentMoney>>

\* The oldest transaction is mined.
Mine ==
    /\ mempool # <<>>
    /\ LET tx == Head(mempool) IN
       IF ENABLED Call(tx) THEN Call(tx) ELSE UNCHANGED chainVars
    /\ mempool' = Tail(mempool)
    /\ UNCHANGED <<skew, version, ticked, faults, trouble>>

\* Time passes: the agent has had its tick, and nothing has waited too long.
TimePasses ==
    /\ Tick
    /\ ticked
    /\ mempool # <<>> => now < Head(mempool).at + MineWithin
    /\ ticked' = FALSE
    /\ UNCHANGED <<govVars, saltOf, agentMoney, skew, version, faults, trouble, mempool>>

\* The other members, who owe the agent nothing, and the world.
Others ==
    /\ \/ \E m \in Member \ {Agent} : MemberStep(m)
       \/ \E m \in Member \ {Agent}, pid \in Pid : VoteStep(m, pid)
       \/ \E pid \in Pid : CrankStep(pid)
    /\ UNCHANGED <<vaultOnly, saltOf, agentMoney, agentVars>>

TroubleStarts ==
    /\ ~trouble
    /\ trouble' = TRUE
    /\ UNCHANGED <<chainVars, skew, version, ticked, faults, mempool>>

AgentNext ==
    \/ \E f \in Faults \union {"none"} : AgentTick(f)
    \/ Mine
    \/ TimePasses
    \/ Others
    \/ TroubleStarts

\* The loop keeps ticking (a tick that fails takes the place of one that does
\* not), time passes, and the chain mines what it was sent.
\* Nobody but the agent has to do anything.
AgentFairness ==
    /\ WF_allVars(AgentTick("none"))
    /\ WF_allVars(Mine)
    /\ WF_allVars(TimePasses)

-----------------------------------------------------------------------------
\* S-4: a vote the agent committed is revealed before its window closes, with a
\* clock that is off, a restart under another salt scheme, a failed read or a
\* failed send, and slow mining: the obligation is found again on the chain.
\* (agent.mjs loop, decideVote, recoverVote)
OwedRevealIsMade ==
    \A pid \in Pid :
        /\ proposals[pid].status # "None" /\ now >= proposals[pid].revealDeadline
        /\ commitOf[pid][Agent] # "none"
        => revealedOf[pid][Agent] # "none"

\* A vault the agent has a stake in does not stay in Mode F although nobody
\* else finalizes: the round is over at last, or the agent is out.
\* (decideCrank, with policy.crank.scope held)  Under the same fairness
\* QueuedExitSettles says that the agent's own queued exit needs no other keeper.
HeldVaultMoves ==
    \A pid \in Pid :
        InFlight(pid) /\ sharesOf[Agent] > 0
            ~> ~InFlight(pid) \/ sharesOf[Agent] = 0

\* Documented: depositUsdc "stays the most this agent will put into one vault",
\* and an unreadable input fails closed.  One failed sharesOf is enough for a
\* second deposit, which a cleared member gets at once.
\* (perceive held, plan, decideJoin)
DepositCapped == sharesOf[Agent] + pendingDeposit <= Amount
=============================================================================
