----------------------------- MODULE VaultLog ------------------------------
(***************************************************************************)
(* The event log the indexer reads: one vault, its operator and its        *)
(* proposals, and the blocks their calls are mined into.  Shares move by   *)
(* the definitions of VaultShares; a call emits what its contract emits,   *)
(* in that order.  A block keeps what the contracts say after it: what an  *)
(* indexer of that block should say, and where a reorganisation goes back. *)
(***************************************************************************)
EXTENDS VaultShares, Sequences

CONSTANTS
    Pid,           \* the proposal ids the vault may use
    NoProposal,
    Adapter,       \* the execution adapters of the vault
    Weight,        \* bound: the weights a vote carries
    Results,       \* bound: realized results of an exit, negative for a loss
    ReorgDepth,    \* how many blocks a reorganisation takes back
    MaxReorgs,     \* bound: how many happen
    MaxLogs,       \* bound: events per block
    Stories        \* bound: a behaviour makes the calls of one of these, in so
                   \* many events and blocks

ASSUME LogAssumption ==
    /\ Pid \subseteq Nat \ {0} /\ NoProposal \notin Nat
    /\ Weight \subseteq Nat /\ Results \subseteq Int
    /\ {ReorgDepth, MaxReorgs, MaxLogs} \subseteq Nat

VARIABLES
    books,    \* what the contracts know beside the shares
    logs,     \* the events of the block being built
    chain,    \* the blocks so far, each with its events and what it left behind
    reorgs,   \* how many reorganisations have happened
    story     \* the calls this behaviour makes

contractVars == <<now, stakeVars, books>>
chainVars == <<contractVars, logs, chain, reorgs, story>>

Proposal == [status : {"Active", "Passed", "Defeated", "Executed", "Expired"},
             forWeight : Nat, againstWeight : Nat, revealedWeight : Nat,
             revealedVoters : Nat, delegatedForWeight : Nat]

Books == [kind : {"none", "regular", "agent"}, operator : BOOLEAN, attested : BOOLEAN,
          gain : Nat, loss : Nat, fees : Nat,
          open : SUBSET Member, cleared : SUBSET Member,
          queuedEver : Nat, settled : Nat, settledQueued : Nat,
          proposals : [Pid -> Proposal \union {NoProposal}], active : Pid \union {0},
          adapters : SUBSET Adapter, swaps : Nat]

EmptyBooks == [kind |-> "none", operator |-> FALSE, attested |-> FALSE,
               gain |-> 0, loss |-> 0, fees |-> 0,
               open |-> {}, cleared |-> {},
               queuedEver |-> 0, settled |-> 0, settledQueued |-> 0,
               proposals |-> [p \in Pid |-> NoProposal], active |-> 0,
               adapters |-> {}, swaps |-> 0]

\* What the contracts say now.
Truth == [shares |-> sharesOf, queued |-> queuedExitShares, total |-> totalShares,
          totalQueued |-> totalQueuedShares, holders |-> holderCount, books |-> books]

Tip == Len(chain)

\* The blocks before the deployment are one empty block.
ChainInit ==
    /\ SharesInit
    /\ books = EmptyBooks /\ logs = <<>> /\ reorgs = 0
    /\ chain = <<[logs |-> <<>>, after |-> Truth]>>
    /\ story \in Stories

-----------------------------------------------------------------------------
EventCount ==
    LET Count[b \in 0..Tip] == IF b = 0 THEN Len(logs) ELSE Count[b - 1] + Len(chain[b].logs)
    IN  Count[Tip]

\* An event with its place on the chain.
Numbered(e, block, index) ==
    [field \in DOMAIN e \union {"block", "index"} |->
        CASE field = "block" -> block
          [] field = "index" -> index
          [] OTHER           -> e[field]]

\* A transaction: its events are numbered on from those already in the block.
Emits(name, events) ==
    /\ name \in story.calls /\ Tip < story.blocks                    \* bounds
    /\ Len(logs) + Len(events) <= MaxLogs
    /\ EventCount + Len(events) <= story.events
    /\ logs' = logs \o [i \in 1..Len(events) |->
                          Numbered(events[i], Tip + 1, Len(logs) + i)]
    /\ UNCHANGED <<chain, reorgs, story>>

SharesStay == UNCHANGED <<now, stakeVars>>

Created == books.kind # "none"

-----------------------------------------------------------------------------
RegisterOperator ==
    /\ ~books.operator
    /\ books' = [books EXCEPT !.operator = TRUE]
    /\ Emits("RegisterOperator", <<[name |-> "OperatorRegistered"]>>)
    /\ SharesStay

\* The factory attests the vault, which registers its operator if need be,
\* before it announces it.
CreateVault(kind) ==
    /\ ~Created
    /\ books' = [books EXCEPT !.kind = kind, !.operator = TRUE, !.attested = TRUE]
    /\ Emits("CreateVault",
             (IF books.operator THEN <<>> ELSE <<[name |-> "OperatorRegistered"]>>)
             \o <<[name |-> "VaultAttested"],
                  [name |-> "VaultCreated", kind |-> kind]>>)
    /\ SharesStay

\* The event of a mint carries the balance after it.
Activated(m) == [name |-> "DepositActivated", member |-> m, balance |-> sharesOf'[m]]

DepositRow(m) ==
    /\ Created /\ m \notin books.open
    /\ m \notin books.cleared /\ sharesOf[m] = 0
    /\ books' = [books EXCEPT !.open = @ \union {m}]
    /\ Emits("Deposit", <<[name |-> "DepositPending", member |-> m]>>)
    /\ SharesStay

DepositNow(m) ==
    /\ Created /\ m \notin books.open
    /\ m \in books.cleared \/ sharesOf[m] > 0
    /\ \E n \in MintSizes : MintShares(m, n)
    /\ Emits("Deposit", <<Activated(m)>>)
    /\ UNCHANGED books

ActivateRow(m) ==
    /\ m \in books.open
    /\ books' = [books EXCEPT !.open = @ \ {m}, !.cleared = @ \union {m}]
    /\ \E n \in MintSizes : MintShares(m, n)
    /\ Emits("Activate", <<Activated(m)>>)

CancelRow(m) ==
    /\ m \in books.open
    /\ books' = [books EXCEPT !.open = @ \ {m}]
    /\ Emits("Cancel", <<[name |-> "PendingCancelled", member |-> m]>>)
    /\ SharesStay

\* What a settled exit leaves in the operator's record: its result, unless the
\* registry call failed, and the fee on a gain, unless the engine was not told.
SettledBooks(result, recorded, fee) ==
    [books EXCEPT !.settled = @ + 1,
                  !.gain = @ + IF recorded /\ result > 0 THEN result ELSE 0,
                  !.loss = @ + IF recorded /\ result < 0 THEN -result ELSE 0,
                  !.fees = @ + fee]

SettlementEvents(m, n, result, recorded, fee) ==
    (IF recorded THEN <<[name |-> "RealizationRecorded", result |-> result]>> ELSE <<>>)
    \o (IF fee > 0 THEN <<[name |-> "FeeRecorded", amount |-> fee]>> ELSE <<>>)
    \o <<[name |-> "ExitSettled", member |-> m, burned |-> n]>>

ExitAtOnce(m, n) ==
    /\ RequestExit(m, n, FALSE)
    /\ \E result \in Results, recorded \in BOOLEAN :
         \E fee \in IF result > 0 THEN {0, 1} ELSE {0} :
            /\ books' = SettledBooks(result, recorded, fee)
            /\ Emits("Exit", SettlementEvents(m, n, result, recorded, fee))

ExitLater(m, n) ==
    /\ RequestExit(m, n, TRUE)
    /\ books' = [books EXCEPT !.queuedEver = @ + 1]
    /\ Emits("Queue", <<[name |-> "ExitQueued", member |-> m, shares |-> n]>>)

SettleExit(m) ==
    /\ SettleQueuedExit(m, FALSE)
    /\ \E result \in Results :
          /\ books' = [SettledBooks(result, TRUE, 0) EXCEPT !.settledQueued = @ + 1]
          /\ Emits("Queue", SettlementEvents(m, queuedExitShares[m], result, TRUE, 0))

-----------------------------------------------------------------------------
Fresh == [status |-> "Active", forWeight |-> 0, againstWeight |-> 0, revealedWeight |-> 0,
          revealedVoters |-> 0, delegatedForWeight |-> 0]

\* propose expires an overdue active proposal on its way.
Propose(pid) ==
    /\ Created /\ books.proposals[pid] = NoProposal
    /\ \A p \in Pid : p < pid => books.proposals[p] # NoProposal
    /\ books' = [books EXCEPT !.proposals =
                    [p \in Pid |-> CASE p = pid          -> Fresh
                                     [] p = books.active -> [@[p] EXCEPT !.status = "Expired"]
                                     [] OTHER            -> @[p]],
                              !.active = pid]
    /\ Emits("Resolve", (IF books.active = 0 THEN <<>>
                      ELSE <<[name |-> "ProposalExpired", pid |-> books.active]>>)
                     \o <<[name |-> "Proposed", pid |-> pid]>>)
    /\ SharesStay

\* A vote's weight on its side of the tally.
Tallied(p, support, w) ==
    IF support THEN [p EXCEPT !.forWeight = @ + w] ELSE [p EXCEPT !.againstWeight = @ + w]

\* A member's own reveal, a cranked delegation, an applied standing default:
\* only the first counts toward quorum.
Cast(kind, support, w) ==
    /\ books.active # 0 /\ books.proposals[books.active].status = "Active"
    /\ LET p == Tallied(books.proposals[books.active], support, w) IN
       books' = [books EXCEPT !.proposals[books.active] =
                   CASE kind = "Revealed" ->
                          [p EXCEPT !.revealedWeight = @ + w, !.revealedVoters = @ + 1]
                     [] kind = "DelegatedRevealed" /\ support ->
                          [p EXCEPT !.delegatedForWeight = @ + w]
                     [] OTHER -> p]
    /\ Emits("Cast", <<[name |-> kind, pid |-> books.active, support |-> support, weight |-> w]>>)
    /\ SharesStay

Resolve(name, from, status) ==
    /\ books.active # 0 /\ books.proposals[books.active].status \in from
    /\ books' = [books EXCEPT !.proposals[books.active].status = status,
                              !.active = IF status = "Passed" THEN @ ELSE 0]
    /\ Emits("Resolve", <<[name |-> name, pid |-> books.active, status |-> status]>>)
    /\ SharesStay

\* The adapter reports its fill before the vault reports the rebalance.
Rebalance(a) ==
    /\ Created
    /\ books' = [books EXCEPT !.adapters = @ \union {a}, !.swaps = @ + 1]
    /\ Emits("Rebalance", <<[name |-> "SwapExecuted", adapter |-> a],
                            [name |-> "RebalanceExecuted", adapter |-> a]>>)
    /\ SharesStay

Calls ==
    \/ RegisterOperator
    \/ \E kind \in {"regular", "agent"} : CreateVault(kind)
    \/ \E m \in Member :
          \/ DepositRow(m) \/ DepositNow(m) \/ ActivateRow(m) \/ CancelRow(m)
          \/ \E n \in 1..sharesOf[m] : ExitAtOnce(m, n) \/ ExitLater(m, n)
          \/ SettleExit(m)
    \/ \E pid \in Pid : Propose(pid)
    \/ \E kind \in {"Revealed", "DelegatedRevealed", "DefaultApplied"},
          support \in BOOLEAN, w \in Weight : Cast(kind, support, w)
    \/ \E status \in {"Passed", "Defeated"} : Resolve("Finalized", {"Active"}, status)
    \/ Resolve("Executed", {"Passed"}, "Executed")
    \/ Resolve("ProposalExpired", {"Active", "Passed"}, "Expired")
    \/ \E a \in Adapter : Rebalance(a)

-----------------------------------------------------------------------------
Mine ==
    /\ Tip < story.blocks
    /\ chain' = Append(chain, [logs |-> logs, after |-> Truth])
    /\ logs' = <<>>
    /\ UNCHANGED <<contractVars, reorgs, story>>

\* The last blocks are replaced: the contracts are back where they were.
Reorg ==
    /\ reorgs < MaxReorgs /\ Tip > ReorgDepth
    /\ chain' = SubSeq(chain, 1, Tip - ReorgDepth)
    /\ LET was == chain[Tip - ReorgDepth].after IN
       /\ sharesOf' = was.shares /\ queuedExitShares' = was.queued
       /\ totalShares' = was.total /\ totalQueuedShares' = was.totalQueued
       /\ holderCount' = was.holders /\ books' = was.books
    /\ logs' = <<>> /\ reorgs' = reorgs + 1
    /\ UNCHANGED <<now, story>>

ChainNext == Calls \/ Mine \/ Reorg
=============================================================================
