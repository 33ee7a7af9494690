----------------------------- MODULE SignQueue -----------------------------
(***************************************************************************)
(* The operator's queue of transactions to sign:                           *)
(* src/scripts/lib/sign-queue.mjs, sign-queue-server.mjs and               *)
(* sign-queue-preconditions.mjs, with the page of src/scripts/dashboard.mjs *)
(* that shows it.                                                          *)
(*                                                                         *)
(* One JSON file holds the items.  The server polls the chain for what was *)
(* sent and answers the page, which offers a Sign button for what is ready *)
(* and reports the hash the wallet returns.  The builders are processes of *)
(* their own: they read the file, rebuild their items and write it back.   *)
(* The file, the polling copy, the page, the wallet's open requests, the   *)
(* reports on their way and a builder's copy can all disagree.             *)
(*                                                                         *)
(* One account sends everything.  Transactions are numbered as they are    *)
(* sent and the number stands for the hash.  The data of a transaction is  *)
(* the revision of the build it came from and, for a template, the         *)
(* transactions whose receipts it was resolved from.                       *)
(***************************************************************************)
EXTENDS Naturals, Sequences, FiniteSets

CONSTANTS
    Item,         \* the queue's items
    Kind,         \* "create" a contract, "call", call through the "safe", "check"
    DependsOn,    \* the items that must be done before an item is signed
    Reads,        \* those whose receipts its data is resolved from
    Slot,         \* the account's nonce, or the Safe's, an item was built for
    Rebuilt,      \* the items of the builders that are still run
    NoData, NoItem,
    MaxTxs,       \* bound: transactions sent or about to be
    MaxRev,       \* bound: revisions of a builder's input
    MaxSurprises     \* bound: builder runs, restarts and stray transactions

\* A read-back waits for transactions only (arc-readback is the one there is),
\* and a template reads receipts, of which a read-back has none.
ASSUME SignAssumption ==
    /\ DependsOn \in [Item -> SUBSET Item] /\ Reads \in [Item -> SUBSET Item]
    /\ \A i \in Item : \A d \in DependsOn[i] : Kind[i] = "check" => Kind[d] # "check"
    /\ \A i \in Item : \A d \in Reads[i] : Kind[d] # "check"
    /\ MaxRev \in Nat

VARIABLES
    file,         \* _sign-queue.json: the lifecycle of each item
    txs,          \* what the account sent, in the order of sending
    poll,         \* the poll under way: its copy, the items it has to ask for
    page,         \* the data behind each Sign button the page enables
    asked,        \* wallet requests the operator has not answered
    posts,        \* hashes on their way to the server
    build,        \* the builder under way and its copy of the file
    surprises        \* how many of what MaxSurprises bounds have happened

vars == <<file, txs, poll, page, asked, posts, build, surprises>>

NoHash == 0

\* The items that are read back and never signed.
Checks == {i \in Item : Kind[i] = "check"}

IdlePoll == [pc |-> "idle", queue |-> <<>>, todo |-> {}, dirty |-> FALSE]

NoBuild == [pc |-> "idle", queue |-> <<>>]

---------------------------------------------------------------------------
(* What a copy of the file says.                                           *)

Pending(rev) ==
    [status |-> "pending", rev |-> rev, hash |-> NoHash, sent |-> NoData]

IsDone(queue, items) == \A d \in items : queue[d].status = "done"

\* An item's data: what its builder computed, with the templates resolved.
Resolved(queue, i) ==
    [rev |-> queue[i].rev, refs |-> [d \in Reads[i] |-> queue[d].hash]]

Sendable(queue, i) ==
    /\ i \notin Checks
    /\ queue[i].status = "pending"
    /\ IsDone(queue, DependsOn[i] \cup Reads[i])

---------------------------------------------------------------------------
(* What the chain says.  A transaction is "fresh" until the node the       *)
(* server asks has heard of it.                                            *)

Alive == {k \in DOMAIN txs : txs[k].state # "dropped"}

Found(t) == t.state \in {"pool", "landed", "reverted"}

Mined(t) == t.state \in {"landed", "reverted"}

PendingCount == Cardinality({k \in DOMAIN txs : Found(txs[k])})

SafeNonce ==
    Cardinality({k \in DOMAIN txs :
        /\ txs[k].state = "landed"
        /\ txs[k].item # NoItem
        /\ Kind[txs[k].item] = "safe"})

nonceGate(i) == PendingCount = Slot[i]

safeGate(i) == SafeNonce = Slot[i]

preconditionsHold(i) ==
    IF Kind[i] = "safe" THEN safeGate(i) ELSE nonceGate(i)

\* From, to and input, against the item and the data frozen with its hash.
isForeignTx(i, item, t) == t.item # i \/ t.data # item.sent

\* Fault: where a contract was created is not looked at.
AcceptAnyAddress(i, item, t) == t.state = "landed" /\ ~isForeignTx(i, item, t)

\* A success, of this item; a contract at the address its nonce predicts.
verifyReceipt(i, item, t) ==
    /\ t.state = "landed"
    /\ ~isForeignTx(i, item, t)
    /\ Kind[i] = "create" => t.nonce = Slot[i]

\* Fault: a hash that nobody knows is waited for without end.
AdvancedNoGrace(i, item) ==
    LET t == txs[item.hash]
    IN  CASE ~Found(t) -> item
          [] Found(t) /\ isForeignTx(i, item, t) -> Pending(item.rev)
          [] t.state = "pool" /\ ~isForeignTx(i, item, t) -> item
          [] Mined(t) /\ ~isForeignTx(i, item, t) ->
               [item EXCEPT !.status =
                   IF verifyReceipt(i, item, t) THEN "done" ELSE "failed"]

\* What one item's two reads make of it.
Advanced(i, item) ==
    LET t == txs[item.hash]
    IN  CASE t.state = "dropped" \/ (Found(t) /\ isForeignTx(i, item, t)) ->
               Pending(item.rev)
          [] t.state = "fresh" \/ (t.state = "pool" /\ ~isForeignTx(i, item, t)) ->
               item
          [] Mined(t) /\ ~isForeignTx(i, item, t) ->
               [item EXCEPT !.status =
                   IF verifyReceipt(i, item, t) THEN "done" ELSE "failed"]

---------------------------------------------------------------------------
\* Every builder has run once and nothing has been sent.
Init ==
    /\ file = [i \in Item |-> Pending(0)]
    /\ txs = <<>>
    /\ poll = IdlePoll
    /\ page = [i \in Item |-> NoData]
    /\ asked = {}
    /\ posts = {}
    /\ build = NoBuild
    /\ surprises = 0

---------------------------------------------------------------------------
(* The server.  From the read of the file to the end of the scan a poll    *)
(* holds the queue's lock.                                                 *)

Surprise == surprises < MaxSurprises /\ surprises' = surprises + 1

Locked == poll.pc = "scan"

BeginPoll ==
    /\ poll.pc = "idle"
    /\ poll' = [pc |-> "scan", queue |-> file, dirty |-> FALSE,
                todo |-> {i \in Item : file[i].status = "sent"}]
    /\ UNCHANGED <<file, txs, page, asked, posts, build, surprises>>

Answer(i) ==
    /\ i \in poll.todo
    /\ LET next == Advanced(i, poll.queue[i])
       IN  poll' = [poll EXCEPT !.queue[i] = next,
                                !.todo = @ \ {i},
                                !.dirty = @ \/ next # poll.queue[i]]
    /\ UNCHANGED <<file, txs, page, asked, posts, build, surprises>>

\* A read fails, or a hash nobody knows is not yet ten minutes old.
NoAnswer(i) ==
    /\ i \in poll.todo
    /\ poll' = [poll EXCEPT !.todo = @ \ {i}]
    /\ UNCHANGED <<file, txs, page, asked, posts, build, surprises>>

\* The read-back items of which every dependency is done and whose reads agree.
EndScan(agree) ==
    /\ Locked /\ poll.todo = {}
    /\ \A i \in agree : /\ poll.queue[i].status = "pending"
                        /\ IsDone(poll.queue, DependsOn[i])
    /\ LET queue == [i \in Item |-> IF i \in agree
                                    THEN [poll.queue[i] EXCEPT !.status = "done"]
                                    ELSE poll.queue[i]]
       IN  /\ file' = IF poll.dirty \/ agree # {} THEN queue ELSE file
           /\ poll' = [poll EXCEPT !.pc = "answer", !.queue = queue]
    /\ UNCHANGED <<txs, page, asked, posts, build, surprises>>

\* The lock is free again: readiness is of the copy, the nonces are of now.
Enriched(queue) ==
    [i \in Item |-> IF Sendable(queue, i) /\ preconditionsHold(i)
                    THEN Resolved(queue, i) ELSE NoData]

\* The page paints every item anew.
Respond ==
    /\ poll.pc = "answer"
    /\ page' = Enriched(poll.queue)
    /\ poll' = IdlePoll
    /\ UNCHANGED <<file, txs, asked, posts, build, surprises>>

Recorded(p) ==
    IF Sendable(file, p.item)
    THEN [file EXCEPT ![p.item] =
            [@ EXCEPT !.status = "sent", !.hash = p.hash,
                      !.sent = Resolved(file, p.item)]]
    ELSE file

\* Fault: the report does not wait for the poll to write.
RecordUnlocked(p) ==
    /\ p \in posts
    /\ file' = Recorded(p)
    /\ posts' = posts \ {p}
    /\ UNCHANGED <<txs, poll, page, asked, build, surprises>>

\* The data is resolved again here and frozen; every refusal drops the report.
recordSentHash(p) ==
    /\ p \in posts
    /\ ~Locked
    /\ file' = Recorded(p)
    /\ posts' = posts \ {p}
    /\ UNCHANGED <<txs, poll, page, asked, build, surprises>>

Restart ==
    /\ Surprise
    /\ poll' = IdlePoll
    /\ posts' = {}
    /\ UNCHANGED <<file, txs, page, asked, build>>

---------------------------------------------------------------------------
(* The page and the wallet.                                                *)

Room == Len(txs) + Cardinality(asked) < MaxTxs

\* A repaint brings the button back while a request of it is still open.
Click(i) ==
    /\ page[i] # NoData
    /\ Room
    /\ asked' = asked \cup {[item |-> i, data |-> page[i]]}
    /\ UNCHANGED <<file, txs, poll, page, posts, build, surprises>>

\* The operator declines, or the estimate fails.
Decline(a) ==
    /\ a \in asked
    /\ asked' = asked \ {a}
    /\ UNCHANGED <<file, txs, poll, page, posts, build, surprises>>

Signed(item, data) ==
    Append(txs, [item |-> item, data |-> data,
                 nonce |-> Cardinality(Alive), state |-> "fresh"])

Send(a) ==
    /\ a \in asked
    /\ asked' = asked \ {a}
    /\ txs' = Signed(a.item, a.data)
    /\ posts' = posts \cup {[item |-> a.item, hash |-> Len(txs) + 1]}
    /\ UNCHANGED <<file, poll, page, build, surprises>>

\* The tab is closed, or the server is down, between the send and its report.
LosePost(p) ==
    /\ p \in posts
    /\ posts' = posts \ {p}
    /\ UNCHANGED <<file, txs, poll, page, asked, build, surprises>>

---------------------------------------------------------------------------
(* A builder: its own process, so the server's lock is not for it.         *)

BuildRead ==
    /\ build.pc = "idle"
    /\ Surprise
    /\ build' = [pc |-> "built", queue |-> file]
    /\ UNCHANGED <<file, txs, poll, page, asked, posts>>

\* An item on its way to the chain must be described as before, or nothing
\* is written.
mergeBuiltItems(queue, rev) ==
    [i \in Item |-> IF i \in Rebuilt /\ queue[i].status = "pending"
                    THEN Pending(rev) ELSE queue[i]]

Redescribes(queue, rev) ==
    \E i \in Rebuilt : queue[i].status # "pending" /\ queue[i].rev # rev

BuildWrite(rev) ==
    /\ build.pc = "built"
    /\ file' = IF Redescribes(build.queue, rev)
               THEN file ELSE mergeBuiltItems(build.queue, rev)
    /\ build' = NoBuild
    /\ UNCHANGED <<txs, poll, page, asked, posts, surprises>>

---------------------------------------------------------------------------
(* The chain.                                                              *)

\* The account is used for something that is not in the queue.
Stray ==
    /\ Room /\ Surprise
    /\ txs' = Signed(NoItem, NoData)
    /\ UNCHANGED <<file, poll, page, asked, posts, build>>

Propagate(k) ==
    /\ k \in DOMAIN txs
    /\ txs[k].state = "fresh"
    /\ txs' = [txs EXCEPT ![k].state = "pool"]
    /\ UNCHANGED <<file, poll, page, asked, posts, build, surprises>>

Mine(k, outcome) ==
    /\ k \in DOMAIN txs
    /\ txs[k].state = "pool"
    /\ \A j \in Alive : txs[j].nonce < txs[k].nonce => Mined(txs[j])
    /\ txs' = [txs EXCEPT ![k].state = outcome]
    /\ UNCHANGED <<file, poll, page, asked, posts, build, surprises>>

\* Only the last: the account's later transactions would wait for its nonce.
Drop(k) ==
    /\ k \in Alive
    /\ ~Mined(txs[k])
    /\ \A j \in Alive : txs[j].nonce <= txs[k].nonce
    /\ txs' = [txs EXCEPT ![k].state = "dropped"]
    /\ UNCHANGED <<file, poll, page, asked, posts, build, surprises>>

PollStep ==
    \/ BeginPoll
    \/ \E i \in Item : Answer(i)
    \/ \E i \in Item : NoAnswer(i)
    \/ \E agree \in SUBSET Checks : EndScan(agree)
    \/ Respond

Next ==
    \/ PollStep
    \/ \E p \in posts : recordSentHash(p)
    \/ Restart
    \/ \E i \in Item : Click(i)
    \/ \E a \in asked : Decline(a)
    \/ \E a \in asked : Send(a)
    \/ \E p \in posts : LosePost(p)
    \/ BuildRead
    \/ \E rev \in 0 .. MaxRev : BuildWrite(rev)
    \/ Stray
    \/ \E k \in DOMAIN txs : Propagate(k)
    \/ \E k \in DOMAIN txs, outcome \in {"landed", "reverted"} : Mine(k, outcome)
    \/ \E k \in DOMAIN txs : Drop(k)

\* The page keeps polling, the node answers for every item in the end, and
\* what is sent reaches the node and is mined, unless it is dropped.
Fairness ==
    /\ WF_vars(PollStep)
    /\ \A i \in Item \ Checks : SF_vars(Answer(i))
    /\ WF_vars(\E k \in DOMAIN txs : Propagate(k))
    /\ WF_vars(\E k \in DOMAIN txs, outcome \in {"landed", "reverted"} :
                  Mine(k, outcome))

Spec == Init /\ [][Next]_vars /\ Fairness

---------------------------------------------------------------------------
\* The item's effect is on the chain: a contract at the address its dependents
\* were built with, a call that succeeded.
Landed(i) ==
    \E k \in DOMAIN txs :
        /\ txs[k].item = i
        /\ txs[k].state = "landed"
        /\ Kind[i] = "create" => txs[k].nonce = Slot[i]

\* A read-back has no transaction: what it read is what it waited for.
Effective(i) ==
    IF i \in Checks THEN \A d \in DependsOn[i] : Landed(d) ELSE Landed(i)

\* Whatever the page still shows and however long a wallet request was open,
\* no transaction of an item leaves the wallet before everything the item
\* depends on has taken effect, and what its data was resolved from is a
\* transaction of that dependency that landed: preconditionRefusal and
\* verifyReceipt together, across stale copies, lost reports and rebuilds.
NothingSentTooEarly ==
    [][\A k \in DOMAIN txs' \ DOMAIN txs : txs'[k].item # NoItem =>
          LET i == txs'[k].item
          IN  /\ \A d \in DependsOn[i] : Effective(d)
              /\ \A d \in Reads[i] :
                    LET h == txs'[k].data.refs[d]
                    IN  txs[h].item = d /\ txs[h].state = "landed"]_vars

\* The server makes a sent item signable again only when the transaction it
\* recorded is gone or is not the one it froze (advanceSentItems): never for
\* one that may still be mined, and never by writing back a copy older than
\* the report (withQueueLock).  The builders are left out: they take no lock.
ReopensOnlyTheDead ==
    [][\A i \in Item :
          (file[i].status = "sent" /\ file'[i].status = "pending" /\ build' = build)
          => LET t == txs[file[i].hash]
             IN  t.state = "dropped" \/ isForeignTx(i, file[i], t)]_vars

\* No item stays sent for ever: it is done, has failed, or can be signed again.
SentResolves ==
    \A i \in Item \ Checks : file[i].status = "sent" ~> file[i].status # "sent"

===========================================================================
