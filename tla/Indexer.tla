------------------------------ MODULE Indexer ------------------------------
(***************************************************************************)
(* The indexer process (packages/indexer/src: index-runner, daemon, rpc,   *)
(* store): it polls the chain behind its head, folds what it fetched into  *)
(* the projection, and persists that with its cursor.  It may crash        *)
(* between any two steps and restart from its file; a call to the node or  *)
(* to the disk may fail; blocks may be reorganised under it.               *)
(***************************************************************************)
EXTENDS VaultLog, Durable

CONSTANTS
    MaxTrackedAdapters, Null,
    StartBlock,        \* START_BLOCK: the block of the deployment
    Confirmations,     \* CONFIRMATIONS
    BatchBlocks,       \* BATCH_BLOCKS
    NodeLag,           \* how far one node of the RPC endpoint is behind another
    MaxCrashes,        \* bound: crashes and stops of the process
    MaxFailures        \* bound: calls to the node or the disk that fail

\* The confirmations cover what all the reorganisations and a lagging node can
\* hide between the answer about the head and the use of a block below it.
ASSUME IndexerAssumption ==
    /\ {StartBlock, Confirmations, BatchBlocks, NodeLag} \subseteq Nat
    /\ BatchBlocks > 0 /\ MaxReorgs * ReorgDepth + NodeLag <= Confirmations

P == INSTANCE Projection

VARIABLES
    pc,           \* down, idle, fetch or save
    state,        \* the projection in memory, with its cursor
    to,           \* the last block of the batch being fetched
    discovered,   \* the adapters learned from logs, polled for their fills
    stopping,     \* SIGTERM was received
    crashes, failures

processVars == <<pc, state, to, discovered, stopping, crashes, failures>>
indexerVars == <<chainVars, durableVars, processVars>>

-----------------------------------------------------------------------------
\* What the source polls: the registries always, the vault once it is known or
\* announced in the same range, and the adapters known or named in it.
VaultEvents == {"DepositPending", "PendingCancelled", "DepositActivated",
                "ExitQueued", "ExitSettled", "RebalanceExecuted"}

VaultPolled(evs) == state.known \/ \E i \in DOMAIN evs : evs[i].name = "VaultCreated"

\* An adapter is learned from the vault's own event, up to the ceiling.
Learns(known, evs, e) ==
    VaultPolled(evs) /\ e.name = "RebalanceExecuted" /\ Cardinality(known) < MaxTrackedAdapters

\* The adapters after a range was read.
Discovered(evs) ==
    LET Known[i \in 0..Len(evs)] ==
          IF i = 0 THEN discovered
          ELSE IF Learns(Known[i - 1], evs, evs[i]) THEN Known[i - 1] \union {evs[i].adapter}
          ELSE Known[i - 1]
    IN  Known[Len(evs)]

Polled(evs, e) ==
    CASE e.name \in VaultEvents    -> VaultPolled(evs)
      [] e.name = "SwapExecuted"   -> e.adapter \in Discovered(evs)
      [] OTHER                     -> TRUE

\* fetchEvents: the answers of the three reads, put in the order of the chain.
Fetched(evs) ==
    LET Kept[i \in 0..Len(evs)] ==
          IF i = 0 THEN <<>>
          ELSE IF Polled(evs, evs[i]) THEN Append(Kept[i - 1], evs[i]) ELSE Kept[i - 1]
    IN  Kept[Len(evs)]

\* The events of a range as a node sees them that has `tip' blocks.
LogsOf(from, last, tip) ==
    LET Log[b \in 0..tip] ==
          IF b = 0 THEN <<>>
          ELSE IF b \in from..last THEN Log[b - 1] \o chain[b].logs ELSE Log[b - 1]
    IN  Log[tip]

-----------------------------------------------------------------------------
From == P!ResumeCursor(state)

\* Fault: the head itself is indexed.
NoConfirmations(head) == head

SafeHead(head) == head - Confirmations

\* A fresh projection starts before the deployment block.
Resumed(file) ==
    IF file # Absent THEN P!Deserialize(file)
    ELSE [P!EmptyState EXCEPT !.lastBlock = IF StartBlock > 0 THEN StartBlock - 1 ELSE 0]

\* The adapters a restart polls: those of the snapshot.
SeededAdapters(file) == Resumed(file).adapters

\* buildIndexer and init: the process is up with what the file holds; it dies
\* again on a torn file, which is not JSON, and on one it refuses.
Start ==
    /\ pc = "down" /\ main # Torn
    /\ main # Absent => ~P!Refused(main)
    /\ pc' = "idle"
    /\ state' = Resumed(main)
    /\ discovered' = SeededAdapters(main)
    /\ UNCHANGED <<to, stopping, crashes, failures, durableVars, chainVars>>

\* tick, to its first await: the head as some node has it decides how far this
\* batch reaches.
Poll ==
    /\ pc = "idle" /\ ~stopping
    /\ \E head \in (Tip - NodeLag)..Tip :
          /\ SafeHead(head) >= From
          /\ to' = IF SafeHead(head) < From + BatchBlocks - 1
                   THEN SafeHead(head) ELSE From + BatchBlocks - 1
    /\ pc' = "fetch"
    /\ UNCHANGED <<state, discovered, stopping, crashes, failures, durableVars, chainVars>>

\* Fault: a range without events leaves the cursor where it is.
NotAdvanced(s, last) == s

\* The cursor after a batch, whether or not events landed in it.
AdvancedTo(s, last) ==
    IF s.lastBlock < last THEN [s EXCEPT !.lastBlock = last, !.lastLogIndex = -1] ELSE s

\* The logs arrive, from a node that may be behind the one that was asked for
\* the head, and the whole batch is folded without another await.
FetchAndFold ==
    /\ pc = "fetch"
    /\ \E tip \in (IF Tip > NodeLag THEN Tip - NodeLag ELSE 0)..Tip :
         LET evs   == LogsOf(From, to, tip)
             batch == Fetched(evs)
             s     == P!ApplyAll(state, batch)
         IN  /\ discovered' = Discovered(evs)
             /\ IF \E i \in DOMAIN batch : P!Malformed(batch[i])
                THEN state' = s /\ pc' = "idle"
                ELSE state' = AdvancedTo(s, to) /\ pc' = "save"
    /\ UNCHANGED <<to, stopping, crashes, failures, durableVars, chainVars>>

\* The call to the node fails: the loop logs it and polls again later.
FetchFails ==
    /\ pc = "fetch" /\ failures < MaxFailures
    /\ pc' = "idle" /\ failures' = failures + 1
    /\ UNCHANGED <<state, to, discovered, stopping, crashes, durableVars, chainVars>>

\* save: the writer's calls, one by one, up to the rename.
Save ==
    /\ pc = "save"
    /\ \/ (BeginWrite \/ WriterSteps(state)) /\ UNCHANGED pc
       \/ Rename /\ pc' = "idle"
    /\ UNCHANGED <<state, to, discovered, stopping, crashes, failures, chainVars>>

\* A write that fails: what was folded stays in memory, ahead of the file.
SaveFails ==
    /\ pc = "save" /\ failures < MaxFailures
    /\ WriteFails
    /\ pc' = "idle" /\ failures' = failures + 1
    /\ UNCHANGED <<state, to, discovered, stopping, crashes, chainVars>>

\* SIGTERM: after the batch in progress the state is saved a last time, and the
\* process ends.
Stop ==
    /\ pc = "idle" /\ ~stopping /\ crashes < MaxCrashes
    /\ stopping' = TRUE /\ pc' = "save" /\ crashes' = crashes + 1
    /\ UNCHANGED <<state, to, discovered, failures, durableVars, chainVars>>

\* The memory of the process is gone.
Dies ==
    /\ pc' = "down" /\ state' = P!EmptyState /\ to' = 0 /\ discovered' = {}
    /\ stopping' = FALSE
    /\ WriterDies
    /\ UNCHANGED <<failures, chainVars>>

Exit == pc = "idle" /\ stopping /\ Dies /\ UNCHANGED crashes

Crash == pc # "down" /\ crashes < MaxCrashes /\ Dies /\ crashes' = crashes + 1

Process == Start \/ Poll \/ FetchAndFold \/ Save \/ Exit

IndexerInit ==
    /\ ChainInit /\ DurableInit
    /\ pc = "down" /\ state = P!EmptyState /\ to = 0 /\ discovered = {}
    /\ stopping = FALSE /\ crashes = 0 /\ failures = 0

\* Bound: the process moves while no block is being built.  It cannot see the
\* block, so its steps commute with the calls that go into it.
BetweenBlocks == logs = <<>>

IndexerNext ==
    \/ ChainNext /\ UNCHANGED <<durableVars, processVars>>
    \/ BetweenBlocks /\ (Process \/ FetchFails \/ SaveFails \/ Stop \/ Crash)
    \/ BetweenBlocks /\ IntervalPasses /\ UNCHANGED <<processVars, chainVars>>

IndexerSpec == IndexerInit /\ [][IndexerNext]_indexerVars

\* The loop runs for ever, a call to the node is answered or fails in the end,
\* and a block that is being built is mined.  Nothing is assumed of the
\* contracts, the reorganisations or the crashes.
IndexerFairness ==
    /\ WF_indexerVars(BetweenBlocks /\ (Start \/ Poll \/ Save \/ Exit))
    /\ []<>(pc # "fetch")
    /\ WF_indexerVars(Mine /\ UNCHANGED <<durableVars, processVars>>)

-----------------------------------------------------------------------------
\* What may be said of a proposal: how much was cranked may be unknown.
SaidOf(p) ==
    {p} \union IF p = NoProposal THEN {} ELSE {[p EXCEPT !.delegatedForWeight = Null]}

\* What the projection should say once the contracts are in the state t.
Agrees(s, t) ==
    /\ s.shares = t.shares /\ s.totalShares = t.total /\ s.memberCount = t.holders
    /\ s.pendingMembers = t.books.open /\ s.pendingCount = Cardinality(t.books.open)
    /\ s.queuedExits = {m \in Member : t.queued[m] > 0}
    /\ \A m \in Member : P!VotingEligible(s, m) \in {t.shares[m] - t.queued[m], Null}
    /\ P!Holders(s) = t.holders
    /\ s.exitQueuedCount = t.books.queuedEver
    /\ s.exitSettledCount = t.books.settled /\ s.modeFSettledCount = t.books.settledQueued
    /\ s.modeFSettledCount + P!QueuedExitBacklog(s) = s.exitQueuedCount
    /\ s.known = (t.books.kind # "none")
    /\ s.known => s.kind = t.books.kind /\ s.attested /\ s.vaultCount = 1
    /\ s.operator = t.books.operator
    /\ s.gain = t.books.gain /\ s.loss = t.books.loss /\ s.fees = t.books.fees
    /\ \A p \in Pid : s.proposals[p] \in SaidOf(t.books.proposals[p])
    /\ s.activeProposal = t.books.active
    /\ s.adapters = t.books.adapters /\ s.swaps = t.books.swaps

ExactAt(s) == s.lastBlock <= Tip /\ Agrees(s, chain[s.lastBlock].after)

IndexerTypeOK ==
    /\ SharesTypeOK /\ books \in Books
    /\ pc \in {"down", "idle", "fetch", "save"}
    /\ writing # "no" => pc = "save"
    /\ state.lastBlock \in 0..story.blocks /\ to \in 0..story.blocks
    /\ stopping \in BOOLEAN /\ discovered \subseteq Adapter

\* Whatever has been reorganised, crashed, retried or answered by a node that
\* was behind: what the API serves from memory is what the contracts said at
\* the projection's cursor, with every event up to it folded exactly once.
\* (daemon.tick, projections.apply, rpc.fetchEvents)
ProjectionExact == pc # "down" => ExactAt(state)

\* The snapshot on disk is never torn, and it and every complete copy in the
\* ring are such projections, each older than the one before it; the file is
\* never ahead of the process.  (store.saveSnapshot, durable.rotateBackups)
SnapshotsExact ==
    /\ main # Torn
    /\ \A f \in {main} \union {ring[n] : n \in Slots} : Complete(f) => ExactAt(Resumed(f))
    /\ \A n \in Slots : Complete(ring[n]) =>
          /\ ring[n].lastBlock <= main.lastBlock
          /\ \A k \in 1..(n - 1) : Complete(ring[k]) => ring[n].lastBlock <= ring[k].lastBlock
    /\ pc # "down" /\ main # Absent => main.lastBlock <= state.lastBlock

\* The persisted cursor never goes back, and a snapshot that is there stays
\* there for the readers that reload it.  (durable.mjs: "path never blinks out
\* of existence")
SnapshotNeverGoesBack ==
    [][main # Absent => main' # Absent /\ main'.lastBlock >= main.lastBlock]_indexerVars

\* The projection reaches the last confirmed block, and so does the snapshot
\* unless its last write failed: that one is made up for by the next batch.
\* (index-runner.loop, daemon.catchUp)
CatchesUp ==
    <>[](/\ state.lastBlock >= Tip - Confirmations
         /\ failures = 0 => main # Absent /\ main.lastBlock >= Tip - Confirmations)
=============================================================================
