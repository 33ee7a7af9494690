-------------------------- MODULE SignQueueProofs --------------------------
(***************************************************************************)
(* What the sign queue keeps, for any items, dependencies, builders and    *)
(* number of transactions: a wallet is asked to sign only what everything  *)
(* it rests on is done for, and the server offers an item a second time    *)
(* only when its first transaction cannot count any more.                  *)
(*                                                                         *)
(* The item lives in five places that age separately.  Every copy was true *)
(* when it was taken, and the chain only adds to what is true              *)
(* (CopiesTruthful, RequestsBacked).  Of two copies the older one, if it   *)
(* still waits, is the newer one, or waits for a transaction that is gone  *)
(* (CopiesAge).                                                            *)
(***************************************************************************)
EXTENDS SignQueue, FiniteSetTheorems, TLAPS

Data == {NoData} \cup UNION {[rev : Nat, refs : [Reads[i] -> Nat]] : i \in Item}

Copied == [status : {"pending", "sent", "done", "failed"},
           rev : Nat, hash : Nat, sent : Data]

Items == [Item -> Copied]

Tx == [item : Item \cup {NoItem}, data : Data, nonce : Nat,
       state : {"fresh", "pool", "landed", "reverted", "dropped"}]

QueueTypes ==
    /\ file \in Items
    /\ txs \in Seq(Tx)
    /\ poll \in [pc : {"idle", "scan", "answer"}, queue : Items \cup {<<>>},
                 todo : SUBSET Item, dirty : BOOLEAN]
    /\ poll.pc # "idle" => poll.queue \in Items
    /\ poll.pc # "scan" => poll.todo = {}
    /\ page \in [Item -> Data]
    /\ asked \subseteq [item : Item, data : Data]
    /\ posts \subseteq [item : Item, hash : DOMAIN txs]
    /\ build \in [pc : {"idle", "built"}, queue : Items \cup {<<>>}]
    /\ build.pc # "idle" => build.queue \in Items

\* Transaction h brought about item i.
BroughtAbout(h, i) ==
    h \in DOMAIN txs /\ txs[h].item = i /\ txs[h].state = "landed"

\* What a copy of an item says of the chain: done is true, and stays true;
\* sent names a transaction.
Truthful(i, item) ==
    /\ item.status = "sent" => i \notin Checks /\ item.hash \in DOMAIN txs
    /\ item.status = "done" => Effective(i)
    /\ item.status = "done" /\ i \notin Checks => BroughtAbout(item.hash, i)

\* The transaction recorded with an item is gone, or was never the item's.
Gone(i, item) ==
    \/ txs[item.hash].state = "dropped"
    \/ isForeignTx(i, item, txs[item.hash])

\* An older copy of an item and a newer one: if the older waits for a
\* transaction and the newer does not know how it ended, they are the same, or
\* the older's transaction will never count.
Superseded(i, old, new) ==
    old.status = "sent" /\ new.status \in {"pending", "sent"} /\ new # old => Gone(i, old)

\* Data is signable only behind everything it rests on.
Backed(i, data) ==
    /\ \A d \in DependsOn[i] : Effective(d)
    /\ \A d \in Reads[i] : BroughtAbout(data.refs[d], d)

CopiesTruthful ==
    \A i \in Item :
        /\ Truthful(i, file[i])
        /\ poll.pc # "idle" => Truthful(i, poll.queue[i])
        /\ build.pc # "idle" => Truthful(i, build.queue[i])

\* The builder's copy is the oldest, since it waits for nobody; the file is
\* older than the poll's copy while the poll works, since reports wait.
CopiesAge ==
    \A i \in Item :
        /\ Locked => Superseded(i, file[i], poll.queue[i])
        /\ build.pc # "idle" => Superseded(i, build.queue[i], file[i])
        /\ build.pc # "idle" /\ Locked => Superseded(i, build.queue[i], poll.queue[i])
        /\ i \in poll.todo => poll.queue[i].status = "sent"

RequestsBacked ==
    /\ \A i \in Item : page[i] # NoData => Backed(i, page[i])
    /\ \A a \in asked : Backed(a.item, a.data)

QueueInv == QueueTypes /\ CopiesTruthful /\ CopiesAge /\ RequestsBacked
-----------------------------------------------------------------------------
\* What a step may do to the chain: transactions are added, never changed but
\* for their state, and an end is an end.
ChainGrows ==
    /\ DOMAIN txs \subseteq DOMAIN txs'
    /\ \A k \in DOMAIN txs :
         /\ txs'[k].item = txs[k].item /\ txs'[k].data = txs[k].data
         /\ txs'[k].nonce = txs[k].nonce
         /\ txs[k].state \in {"landed", "dropped"} => txs'[k].state = txs[k].state

LEMMA NonceIsNatural ==
    ASSUME txs \in Seq(Tx)
    PROVE  Cardinality(Alive) \in Nat
<1>1. IsFiniteSet(1 .. Len(txs))
  BY FS_Interval
<1>2. Alive \subseteq 1 .. Len(txs)
  BY DEF Alive
<1> QED
  BY <1>1, <1>2, FS_Subset, FS_CardinalityType

LEMMA ResolvedTypes ==
    ASSUME NEW q \in Items, NEW i \in Item
    PROVE  Resolved(q, i) \in Data
<1>1. \A d \in Reads[i] : q[d].hash \in Nat
  BY SignAssumption DEF Items, Copied
<1> QED
  BY <1>1 DEF Resolved, Data, Items, Copied

\* An answered item is an item, and only what is sent asks the node.
LEMMA AnswerTypes ==
    ASSUME NEW i \in Item, NEW item \in [status : {"sent"}, rev : Nat, hash : DOMAIN txs, sent : Data],
           txs \in Seq(Tx)
    PROVE  Advanced(i, item) \in Copied
<1> DEFINE t == txs[item.hash]
<1>1. t \in Tx /\ item.hash \in Nat
  OBVIOUS
<1>2. CASE t.state = "dropped" \/ (Found(t) /\ isForeignTx(i, item, t))
  BY <1>2 DEF Copied, Advanced, Pending, Data, NoHash
<1>3. CASE t.state = "fresh"
  BY <1>1, <1>3 DEF Copied, Advanced, Found, Mined
<1>4. CASE t.state = "pool" /\ ~isForeignTx(i, item, t)
  BY <1>1, <1>4 DEF Copied, Advanced, Found, Mined
<1>5. CASE Mined(t) /\ ~isForeignTx(i, item, t)
  BY <1>1, <1>5 DEF Copied, Advanced, Found, Mined
<1> QED
  BY <1>1, <1>2, <1>3, <1>4, <1>5 DEF Tx, Found, Mined

-----------------------------------------------------------------------------
LEMMA TypesInit == Init => QueueTypes
<1> SUFFICES ASSUME Init PROVE QueueTypes
  OBVIOUS
<1>1. Pending(0) \in Copied
  BY DEF Pending, NoHash, Data, Copied
<1>2. file \in Items
  BY <1>1 DEF Init, Items
<1> QED
  BY <1>2 DEF Init, QueueTypes, IdlePoll, NoBuild, Data

\* The server's steps.  A copy of the file is of the file's type, and so is
\* what an answer and the end of a scan make of it.
LEMMA PollTypes ==
    ASSUME QueueTypes, CopiesTruthful, CopiesAge, PollStep
    PROVE  QueueTypes'
<1> USE DEF QueueTypes
<1>1. CASE BeginPoll
  BY <1>1 DEF BeginPoll
<1>2. ASSUME NEW i \in Item, Answer(i) PROVE QueueTypes'
  <2> DEFINE item == poll.queue[i]
             next == Advanced(i, item)
  <2>1. i \in poll.todo /\ poll.pc = "scan" /\ poll.queue \in Items
    BY <1>2 DEF Answer
  <2>2. item.status = "sent" /\ item.hash \in DOMAIN txs
    BY <2>1 DEF CopiesAge, CopiesTruthful, Truthful
  <2>3. item \in [status : {"sent"}, rev : Nat, hash : DOMAIN txs, sent : Data]
    BY <2>1, <2>2 DEF Items, Copied
  <2>4. next \in Copied
    BY <2>3, AnswerTypes
  <2> HIDE DEF next
  <2>5. [poll.queue EXCEPT ![i] = next] \in Items
    BY <2>1, <2>4 DEF Items
  <2>6. poll' = [poll EXCEPT !.queue = [poll.queue EXCEPT ![i] = next],
                             !.todo = poll.todo \ {i},
                             !.dirty = poll.dirty \/ next # item]
    BY <1>2 DEF Answer, next
  <2>7. poll'.queue \in Items /\ poll'.pc = "scan" /\ poll'.todo \subseteq Item
    BY <2>1, <2>5, <2>6
  <2>8. poll' \in [pc : {"idle", "scan", "answer"}, queue : Items \cup {<<>>},
                   todo : SUBSET Item, dirty : BOOLEAN]
    BY <2>1, <2>5, <2>6
  <2> QED
    BY <1>2, <2>7, <2>8 DEF Answer
<1>3. ASSUME NEW i \in Item, NoAnswer(i) PROVE QueueTypes'
  BY <1>3 DEF NoAnswer
<1>4. ASSUME NEW agree \in SUBSET Checks, EndScan(agree) PROVE QueueTypes'
  <2> DEFINE queue == [i \in Item |-> IF i \in agree
                                      THEN [poll.queue[i] EXCEPT !.status = "done"]
                                      ELSE poll.queue[i]]
  <2>1. queue \in Items
    <3>1. \A i \in Item : poll.queue[i] \in Copied
      BY <1>4 DEF EndScan, Locked, Items
    <3>2. \A i \in Item : [poll.queue[i] EXCEPT !.status = "done"] \in Copied
      BY <3>1 DEF Copied
    <3> QED
      BY <3>1, <3>2 DEF Items
  <2>2. file' \in Items /\ poll' = [poll EXCEPT !.pc = "answer", !.queue = queue]
    BY <1>4, <2>1 DEF EndScan
  <2> HIDE DEF queue
  <2> QED
    BY <1>4, <2>1, <2>2 DEF EndScan
<1>5. CASE Respond
  <2>1. \A i \in Item : Resolved(poll.queue, i) \in Data
    BY <1>5, ResolvedTypes DEF Respond
  <2>2. Enriched(poll.queue) \in [Item -> Data]
    BY <2>1 DEF Enriched, Data
  <2> QED
    BY <1>5, <2>2 DEF Respond, IdlePoll
<1> QED
  BY <1>1, <1>2, <1>3, <1>4, <1>5 DEF PollStep

\* Reports, restarts, the page and the wallet, the builder and the chain.
LEMMA OtherTypes ==
    ASSUME QueueTypes, [Next]_vars, ~PollStep
    PROVE  QueueTypes'
<1> USE DEF QueueTypes
<1>1. ASSUME NEW p \in posts, recordSentHash(p) PROVE QueueTypes'
  <2>1. Resolved(file, p.item) \in Data
    BY ResolvedTypes
  <2> DEFINE item == [file[p.item] EXCEPT !.status = "sent", !.hash = p.hash,
                                          !.sent = Resolved(file, p.item)]
  <2>2. p.item \in Item /\ p.hash \in Nat /\ file[p.item] \in Copied
    BY DEF Items
  <2>3. item \in Copied
    BY <2>1, <2>2 DEF Copied
  <2>4. Recorded(p) \in {file, [file EXCEPT ![p.item] = item]}
    BY DEF Recorded
  <2> HIDE DEF item
  <2>5. Recorded(p) \in Items
    BY <2>2, <2>3, <2>4 DEF Items
  <2> QED
    BY <1>1, <2>5 DEF recordSentHash
<1>2. CASE Restart
  BY <1>2 DEF Restart, IdlePoll
<1>3. ASSUME NEW i \in Item, Click(i) PROVE QueueTypes'
  BY <1>3 DEF Click
<1>4. ASSUME NEW a \in asked, Decline(a) PROVE QueueTypes'
  BY <1>4 DEF Decline
<1>5. ASSUME NEW item \in Item \cup {NoItem}, NEW data \in Data, txs' = Signed(item, data)
      PROVE  txs' \in Seq(Tx) /\ DOMAIN txs' = 1 .. Len(txs) + 1
  BY <1>5, NonceIsNatural DEF Signed, Tx
<1>6. ASSUME NEW a \in asked, Send(a) PROVE QueueTypes'
  BY <1>5, <1>6 DEF Send
<1>7. ASSUME NEW p \in posts, LosePost(p) PROVE QueueTypes'
  BY <1>7 DEF LosePost
<1>8. CASE BuildRead
  BY <1>8 DEF BuildRead
<1>9. ASSUME NEW rev \in 0 .. MaxRev, BuildWrite(rev) PROVE QueueTypes'
  <2>1. rev \in Nat /\ build.queue \in Items
    BY <1>9, SignAssumption DEF BuildWrite
  <2>2. mergeBuiltItems(build.queue, rev) \in Items
    BY <2>1 DEF mergeBuiltItems, Items, Copied, Pending, NoHash, Data
  <2>3. file' \in Items
    BY <1>9, <2>2 DEF BuildWrite
  <2> QED
    BY <1>9, <2>3 DEF BuildWrite, NoBuild
<1>10. CASE Stray
  <2>1. NoItem \in Item \cup {NoItem} /\ NoData \in Data
    BY DEF Data
  <2> QED
    BY <1>5, <1>10, <2>1 DEF Stray
<1>11. ASSUME NEW k \in DOMAIN txs, NEW state \in {"pool", "landed", "reverted", "dropped"},
              txs' = [txs EXCEPT ![k].state = state]
       PROVE  txs' \in Seq(Tx) /\ DOMAIN txs' = DOMAIN txs
  <2>1. txs[k] \in Tx
    OBVIOUS
  <2>2. [txs[k] EXCEPT !.state = state] \in Tx
    BY <2>1 DEF Tx
  <2> QED
    BY <1>11, <2>2
<1>12. ASSUME NEW k \in DOMAIN txs, Propagate(k) PROVE QueueTypes'
  BY <1>11, <1>12 DEF Propagate
<1>13. ASSUME NEW k \in DOMAIN txs, NEW outcome \in {"landed", "reverted"}, Mine(k, outcome)
       PROVE  QueueTypes'
  BY <1>11, <1>13 DEF Mine
<1>14. ASSUME NEW k \in DOMAIN txs, Drop(k) PROVE QueueTypes'
  BY <1>11, <1>14 DEF Drop
<1>15. CASE UNCHANGED vars
  BY <1>15 DEF vars
<1> QED
  BY <1>1, <1>2, <1>3, <1>4, <1>6, <1>7, <1>8, <1>9, <1>10, <1>12, <1>13, <1>14, <1>15 DEF Next

LEMMA NextGrows ==
    ASSUME QueueTypes, [Next]_vars
    PROVE  ChainGrows
<1> USE DEF QueueTypes
<1>1. CASE txs' = txs
  BY <1>1 DEF ChainGrows
<1>2. ASSUME NEW item, NEW data, txs' = Signed(item, data) PROVE ChainGrows
  BY <1>2 DEF Signed, ChainGrows
<1>3. ASSUME NEW k \in DOMAIN txs, NEW state, txs[k].state \notin {"landed", "dropped"},
             txs' = [txs EXCEPT ![k].state = state]
      PROVE  ChainGrows
  BY <1>3 DEF ChainGrows, Tx
<1>4. ASSUME NEW k \in DOMAIN txs, Propagate(k) PROVE ChainGrows
  BY <1>3, <1>4 DEF Propagate
<1>5. ASSUME NEW k \in DOMAIN txs, NEW outcome \in {"landed", "reverted"}, Mine(k, outcome)
      PROVE  ChainGrows
  BY <1>3, <1>5 DEF Mine
<1>6. ASSUME NEW k \in DOMAIN txs, Drop(k) PROVE ChainGrows
  BY <1>3, <1>6 DEF Drop, Alive, Mined
<1> QED
  BY <1>1, <1>2, <1>4, <1>5, <1>6 DEF Next, PollStep, BeginPoll, Answer, NoAnswer, EndScan,
     Respond, recordSentHash, Restart, Click, Decline, Send, LosePost, BuildRead, BuildWrite,
     Stray, vars

-----------------------------------------------------------------------------
\* What was true of the chain stays true.
LEMMA LastingFacts ==
    ASSUME QueueTypes, ChainGrows
    PROVE  /\ \A h, i : BroughtAbout(h, i) => BroughtAbout(h, i)'
           /\ \A i \in Item : Effective(i) => Effective(i)'
           /\ \A i \in Item : \A item : Truthful(i, item) => Truthful(i, item)'
           /\ \A i \in Item : \A data : Backed(i, data) => Backed(i, data)'
           /\ \A i, old, new :
                (old.status = "sent" => old.hash \in DOMAIN txs) /\ Superseded(i, old, new)
                    => Superseded(i, old, new)'
<1>1. \A h, i : BroughtAbout(h, i) => BroughtAbout(h, i)'
  BY DEF ChainGrows, BroughtAbout
<1>2. \A i : Landed(i) => Landed(i)'
  BY DEF ChainGrows, Landed
<1>3. \A i \in Item : Effective(i) => Effective(i)'
  BY <1>2 DEF Effective, Checks
<1>4. \A i \in Item : \A item : Truthful(i, item) => Truthful(i, item)'
  BY <1>1, <1>3 DEF Truthful, ChainGrows, Checks
<1>5. \A i \in Item : \A data : Backed(i, data) => Backed(i, data)'
  BY <1>1, <1>3, SignAssumption DEF Backed
<1>6. \A i, item : item.hash \in DOMAIN txs /\ Gone(i, item) => Gone(i, item)'
  BY DEF Gone, ChainGrows, isForeignTx
<1>7. \A i, old, new :
         (old.status = "sent" => old.hash \in DOMAIN txs) /\ Superseded(i, old, new)
             => Superseded(i, old, new)'
  BY <1>6 DEF Superseded
<1> QED
  BY <1>1, <1>3, <1>4, <1>5, <1>7

\* An answer says no more than the chain: it reopens what is gone and closes
\* what landed as the item's own.
LEMMA AnswerIsTruthful ==
    ASSUME QueueTypes, NEW i \in Item, NEW item \in Copied, item.status = "sent", Truthful(i, item)
    PROVE  /\ Truthful(i, Advanced(i, item))
           /\ Advanced(i, item).status = "pending" => Gone(i, item)
           /\ Advanced(i, item).status = "sent" => Advanced(i, item) = item
<1> DEFINE t == txs[item.hash]
<1>1. item.hash \in DOMAIN txs /\ t \in Tx /\ i \notin Checks
  BY DEF Truthful, QueueTypes
<1>2. CASE t.state = "dropped" \/ (Found(t) /\ isForeignTx(i, item, t))
  <2>1. Advanced(i, item) = Pending(item.rev)
    BY <1>2 DEF Advanced, Found, Mined
  <2> QED
    BY <1>2, <2>1 DEF Pending, Truthful, Gone
<1>3. CASE t.state = "fresh" \/ (t.state = "pool" /\ ~isForeignTx(i, item, t))
  <2>1. Advanced(i, item) = item
    BY <1>3 DEF Advanced, Found, Mined
  <2> QED
    BY <2>1
<1>4. CASE Mined(t) /\ ~isForeignTx(i, item, t)
  <2>1. Advanced(i, item) =
          [item EXCEPT !.status = IF verifyReceipt(i, item, t) THEN "done" ELSE "failed"]
    BY <1>4 DEF Advanced, Found, Mined
  <2>2. CASE verifyReceipt(i, item, t)
    <3>1. Landed(i) /\ BroughtAbout(item.hash, i)
      BY <1>1, <2>2 DEF verifyReceipt, isForeignTx, Landed, BroughtAbout
    <3>2. Advanced(i, item).status = "done" /\ Advanced(i, item).hash = item.hash
      BY <2>1, <2>2 DEF Copied
    <3> QED
      BY <1>1, <3>1, <3>2 DEF Truthful, Effective
  <2>3. CASE ~verifyReceipt(i, item, t)
    <3>1. Advanced(i, item).status = "failed"
      BY <2>1, <2>3 DEF Copied
    <3> QED
      BY <3>1 DEF Truthful
  <2> QED
    BY <2>2, <2>3
<1> QED
  BY <1>1, <1>2, <1>3, <1>4 DEF Tx, Found, Mined

\* A read-back done after all its dependencies is done in truth.
LEMMA DoneTogether ==
    ASSUME NEW q, NEW items \in SUBSET Item, IsDone(q, items), \A d \in items : Truthful(d, q[d])
    PROVE  \A d \in items : Effective(d) /\ (d \notin Checks => BroughtAbout(q[d].hash, d))
BY DEF IsDone, Truthful

LEMMA ReadBackIsTruthful ==
    ASSUME NEW q, NEW i \in Checks, IsDone(q, DependsOn[i]), \A d \in Item : Truthful(d, q[d]),
           NEW item, item.status = "done"
    PROVE  Truthful(i, item)
<1>1. i \in Item /\ DependsOn[i] \in SUBSET Item /\ \A d \in DependsOn[i] : d \notin Checks
  BY SignAssumption DEF Checks
<1>2. \A d \in DependsOn[i] : Landed(d)
  BY <1>1, DoneTogether DEF Effective
<1> QED
  BY <1>1, <1>2 DEF Truthful, Effective

\* What is ready to sign rests on what is done.
LEMMA ReadyIsBacked ==
    ASSUME NEW q, NEW i \in Item, Sendable(q, i), \A d \in Item : Truthful(d, q[d])
    PROVE  Backed(i, Resolved(q, i))
<1>1. DependsOn[i] \in SUBSET Item /\ Reads[i] \in SUBSET Item
      /\ \A d \in Reads[i] : d \notin Checks
  BY SignAssumption DEF Checks
<1>2. \A d \in DependsOn[i] \cup Reads[i] :
         Effective(d) /\ (d \notin Checks => BroughtAbout(q[d].hash, d))
  BY <1>1, DoneTogether DEF Sendable
<1> QED
  BY <1>1, <1>2 DEF Backed, Resolved

-----------------------------------------------------------------------------
LEMMA NextTypes ==
    ASSUME QueueInv, [Next]_vars
    PROVE  QueueTypes'
BY PollTypes, OtherTypes DEF QueueInv

\* A step that leaves the three copies alone, or passes one on.
LEMMA CopiesPassOn ==
    ASSUME QueueInv, ChainGrows,
           \A i \in Item : Truthful(i, file'[i]),
           \A i \in Item : poll'.pc # "idle" => Truthful(i, poll'.queue[i]),
           \A i \in Item : build'.pc # "idle" => Truthful(i, build'.queue[i])
    PROVE  CopiesTruthful'
<1>1. \A i \in Item : \A item : Truthful(i, item) => Truthful(i, item)'
  BY LastingFacts DEF QueueInv
<1> QED
  BY <1>1 DEF CopiesTruthful

LEMMA NextTruthful ==
    ASSUME QueueInv, [Next]_vars
    PROVE  CopiesTruthful'
<1>1. /\ QueueTypes /\ CopiesTruthful /\ ChainGrows
      /\ \A i \in Item : i \in poll.todo => poll.queue[i].status = "sent"
  BY NextGrows DEF QueueInv, CopiesAge
<1>2. CASE UNCHANGED <<file, poll, build>>
  BY <1>1, <1>2, CopiesPassOn DEF CopiesTruthful
<1>3. CASE BeginPoll
  BY <1>1, <1>3, CopiesPassOn DEF CopiesTruthful, BeginPoll
<1>4. ASSUME NEW i \in Item, Answer(i) PROVE CopiesTruthful'
  <2> DEFINE item == poll.queue[i]
             next == Advanced(i, item)
  <2>1. i \in poll.todo /\ poll.pc = "scan" /\ item \in Copied /\ item.status = "sent"
    BY <1>1, <1>4 DEF Answer, QueueTypes, Items
  <2>2. Truthful(i, next)
    BY <1>1, <2>1, AnswerIsTruthful DEF CopiesTruthful
  <2>3. /\ file' = file /\ build' = build /\ poll'.pc = "scan"
        /\ poll'.queue = [poll.queue EXCEPT ![i] = next]
    BY <1>1, <1>4, <2>1 DEF Answer, QueueTypes
  <2> HIDE DEF next
  <2>4. \A j \in Item : poll'.queue[j] = IF j = i THEN next ELSE poll.queue[j]
    BY <1>1, <2>1, <2>3 DEF QueueTypes, Items
  <2>5. \A j \in Item : Truthful(j, poll'.queue[j])
    BY <1>1, <2>1, <2>2, <2>4 DEF CopiesTruthful
  <2> QED
    BY <1>1, <2>3, <2>5, CopiesPassOn DEF CopiesTruthful
<1>5. ASSUME NEW i \in Item, NoAnswer(i) PROVE CopiesTruthful'
  BY <1>1, <1>5, CopiesPassOn DEF CopiesTruthful, NoAnswer, QueueTypes
<1>6. ASSUME NEW agree \in SUBSET Checks, EndScan(agree) PROVE CopiesTruthful'
  <2> DEFINE queue == [i \in Item |-> IF i \in agree
                                      THEN [poll.queue[i] EXCEPT !.status = "done"]
                                      ELSE poll.queue[i]]
  <2>1. /\ poll.pc = "scan" /\ \A i \in agree : IsDone(poll.queue, DependsOn[i])
        /\ \A i \in Item : Truthful(i, poll.queue[i]) /\ poll.queue[i] \in Copied
    BY <1>1, <1>6 DEF EndScan, Locked, CopiesTruthful, QueueTypes, Items
  <2>2. \A i \in agree : Truthful(i, [poll.queue[i] EXCEPT !.status = "done"])
    <3> SUFFICES ASSUME NEW i \in agree
                 PROVE  Truthful(i, [poll.queue[i] EXCEPT !.status = "done"])
      OBVIOUS
    <3>1. i \in Checks /\ i \in Item
      BY DEF Checks
    <3>2. [poll.queue[i] EXCEPT !.status = "done"].status = "done"
      BY <2>1, <3>1 DEF Copied
    <3> QED
      BY <2>1, <3>1, <3>2, ReadBackIsTruthful
  <2>3. \A i \in Item : Truthful(i, queue[i])
    BY <2>1, <2>2
  <2>4. file' \in {file, queue} /\ poll'.queue = queue /\ build' = build
    BY <1>1, <1>6 DEF EndScan, QueueTypes
  <2> HIDE DEF queue
  <2> QED
    BY <1>1, <2>3, <2>4, CopiesPassOn DEF CopiesTruthful
<1>7. CASE Respond
  BY <1>1, <1>7, CopiesPassOn DEF CopiesTruthful, Respond, IdlePoll
<1>8. ASSUME NEW p \in posts, recordSentHash(p) PROVE CopiesTruthful'
  <2> DEFINE item == [file[p.item] EXCEPT !.status = "sent", !.hash = p.hash,
                                          !.sent = Resolved(file, p.item)]
  <2>1. p.item \in Item /\ p.hash \in DOMAIN txs /\ file[p.item] \in Copied
    BY <1>1 DEF QueueTypes, Items
  <2>2. item.status = "sent" /\ item.hash = p.hash
    BY <2>1 DEF Copied
  <2>3. Sendable(file, p.item) => Truthful(p.item, item)
    BY <2>1, <2>2 DEF Sendable, Truthful
  <2>4. file' = IF Sendable(file, p.item) THEN [file EXCEPT ![p.item] = item] ELSE file
    BY <1>8 DEF recordSentHash, Recorded
  <2> HIDE DEF item
  <2>5. \A i \in Item : Truthful(i, file'[i])
    BY <1>1, <2>1, <2>3, <2>4 DEF CopiesTruthful, QueueTypes, Items
  <2> QED
    BY <1>1, <1>8, <2>5, CopiesPassOn DEF CopiesTruthful, recordSentHash
<1>9. CASE Restart
  BY <1>1, <1>9, CopiesPassOn DEF CopiesTruthful, Restart, IdlePoll
<1>10. CASE BuildRead
  BY <1>1, <1>10, CopiesPassOn DEF CopiesTruthful, BuildRead
<1>11. ASSUME NEW rev \in 0 .. MaxRev, BuildWrite(rev) PROVE CopiesTruthful'
  <2>1. \A i \in Item : Truthful(i, Pending(rev))
    BY DEF Truthful, Pending
  <2>2. \A i \in Item : Truthful(i, mergeBuiltItems(build.queue, rev)[i])
    BY <1>1, <1>11, <2>1 DEF CopiesTruthful, BuildWrite, mergeBuiltItems
  <2>3. file' \in {file, mergeBuiltItems(build.queue, rev)} /\ build' = NoBuild /\ poll' = poll
    BY <1>11 DEF BuildWrite
  <2> QED
    BY <1>1, <2>2, <2>3, CopiesPassOn DEF CopiesTruthful, NoBuild
<1>12. QED
  BY <1>2, <1>3, <1>4, <1>5, <1>6, <1>7, <1>8, <1>9, <1>10, <1>11
     DEF Next, PollStep, Click, Decline, Send, LosePost, Stray, Propagate, Mine, Drop, vars

-----------------------------------------------------------------------------
\* A step of which each copy, if it says pending or sent, passes on a copy at
\* least as new.
LEMMA AgesPassOn ==
    ASSUME QueueInv, ChainGrows,
           \A i \in Item : poll'.pc = "scan" => Superseded(i, file'[i], poll'.queue[i]),
           \A i \in Item : build'.pc # "idle" => Superseded(i, build'.queue[i], file'[i]),
           \A i \in Item : build'.pc # "idle" /\ poll'.pc = "scan" =>
                               Superseded(i, build'.queue[i], poll'.queue[i]),
           \A i \in Item : /\ poll'.pc = "scan" /\ file'[i].status = "sent" =>
                                  file'[i].hash \in DOMAIN txs
                           /\ build'.pc # "idle" /\ build'.queue[i].status = "sent" =>
                                  build'.queue[i].hash \in DOMAIN txs,
           \A i \in Item : i \in poll'.todo => poll'.queue[i].status = "sent"
    PROVE  CopiesAge'
<1>1. \A i, old, new :
         (old.status = "sent" => old.hash \in DOMAIN txs) /\ Superseded(i, old, new)
             => Superseded(i, old, new)'
  BY LastingFacts DEF QueueInv
<1>2. \A i \in Item : poll'.pc = "scan" => Superseded(i, file[i], poll.queue[i])'
  BY <1>1
<1>3. \A i \in Item : build'.pc # "idle" => Superseded(i, build.queue[i], file[i])'
  BY <1>1
<1>4. \A i \in Item : build'.pc # "idle" /\ poll'.pc = "scan" =>
                          Superseded(i, build.queue[i], poll.queue[i])'
  BY <1>1
<1> QED
  BY <1>2, <1>3, <1>4 DEF CopiesAge, Locked

LEMMA NextAges ==
    ASSUME QueueInv, [Next]_vars
    PROVE  CopiesAge'
<1>1. /\ QueueTypes /\ CopiesTruthful /\ CopiesAge /\ ChainGrows
      /\ \A i \in Item : /\ file[i].status = "sent" => file[i].hash \in DOMAIN txs
                         /\ build.pc # "idle" /\ build.queue[i].status = "sent" =>
                                build.queue[i].hash \in DOMAIN txs
  BY NextGrows DEF QueueInv, CopiesTruthful, Truthful
<1>2. \A i, item : Superseded(i, item, item)
  BY DEF Superseded
<1>3. CASE UNCHANGED <<file, poll, build>>
  BY <1>1, <1>3, AgesPassOn DEF CopiesAge, Locked
<1>4. CASE BeginPoll
  BY <1>1, <1>2, <1>4, AgesPassOn DEF CopiesAge, BeginPoll, Locked
<1>5. ASSUME NEW i \in Item, Answer(i) PROVE CopiesAge'
  <2> DEFINE item == poll.queue[i]
             next == Advanced(i, item)
  <2>1. i \in poll.todo /\ poll.pc = "scan" /\ item \in Copied /\ item.status = "sent"
        /\ Truthful(i, item)
    BY <1>1, <1>5 DEF Answer, QueueTypes, Items, CopiesAge, CopiesTruthful
  <2>2. /\ next.status = "pending" => Gone(i, item)
        /\ next.status = "sent" => next = item
    BY <1>1, <2>1, AnswerIsTruthful
  <2>3. /\ file' = file /\ build' = build /\ poll'.pc = "scan" /\ poll'.todo = poll.todo \ {i}
        /\ poll'.queue = [poll.queue EXCEPT ![i] = next]
    BY <1>1, <1>5, <2>1 DEF Answer, QueueTypes
  <2> HIDE DEF next
  <2>4. \A j \in Item : poll'.queue[j] = IF j = i THEN next ELSE poll.queue[j]
    BY <1>1, <2>1, <2>3 DEF QueueTypes, Items
  <2>5. \A old : Superseded(i, old, item) => Superseded(i, old, next)
    BY <2>1, <2>2 DEF Superseded
  <2>6. \A j \in Item : /\ Superseded(j, file[j], poll'.queue[j])
                        /\ build.pc # "idle" => Superseded(j, build.queue[j], poll'.queue[j])
                        /\ j \in poll'.todo => poll'.queue[j].status = "sent"
    BY <1>1, <2>1, <2>3, <2>4, <2>5 DEF CopiesAge, Locked
  <2> QED
    BY <1>1, <2>3, <2>6, AgesPassOn DEF CopiesAge
<1>6. ASSUME NEW i \in Item, NoAnswer(i) PROVE CopiesAge'
  BY <1>1, <1>6, AgesPassOn DEF CopiesAge, NoAnswer, QueueTypes, Locked
<1>7. ASSUME NEW agree \in SUBSET Checks, EndScan(agree) PROVE CopiesAge'
  <2> DEFINE queue == [i \in Item |-> IF i \in agree
                                      THEN [poll.queue[i] EXCEPT !.status = "done"]
                                      ELSE poll.queue[i]]
  <2>1. poll.pc = "scan" /\ poll.todo = {} /\ \A i \in Item : poll.queue[i] \in Copied
    BY <1>1, <1>7 DEF EndScan, Locked, QueueTypes, Items
  <2>2. \A i \in Item : queue[i].status = "done" \/ queue[i] = poll.queue[i]
    BY <2>1 DEF Copied
  <2>3. /\ file' \in {file, queue} /\ build' = build
        /\ poll'.pc = "answer" /\ poll'.todo = {}
    BY <1>1, <1>7, <2>1 DEF EndScan, QueueTypes
  <2> HIDE DEF queue
  <2>4. \A i \in Item : build.pc # "idle" => Superseded(i, build.queue[i], queue[i])
    BY <1>1, <2>1, <2>2 DEF CopiesAge, Locked, Superseded
  <2>5. \A i \in Item : build'.pc # "idle" => Superseded(i, build'.queue[i], file'[i])
    BY <1>1, <2>3, <2>4 DEF CopiesAge
  <2> QED
    BY <1>1, <2>3, <2>5, AgesPassOn
<1>8. CASE Respond
  BY <1>1, <1>8, AgesPassOn DEF CopiesAge, Respond, IdlePoll
<1>9. ASSUME NEW p \in posts, recordSentHash(p) PROVE CopiesAge'
  <2> DEFINE item == [file[p.item] EXCEPT !.status = "sent", !.hash = p.hash,
                                          !.sent = Resolved(file, p.item)]
  <2>1. p.item \in Item /\ file[p.item] \in Copied /\ poll.pc # "scan" /\ poll.todo = {}
    BY <1>1, <1>9 DEF QueueTypes, Items, recordSentHash, Locked
  <2>2. file' = IF Sendable(file, p.item) THEN [file EXCEPT ![p.item] = item] ELSE file
    BY <1>9 DEF recordSentHash, Recorded
  <2>3. Sendable(file, p.item) => file[p.item].status = "pending"
    BY DEF Sendable
  <2>4. \A old : Superseded(p.item, old, file[p.item]) /\ file[p.item].status = "pending"
                    => Superseded(p.item, old, item)
    BY DEF Superseded
  <2> HIDE DEF item
  <2>5. \A i \in Item : build.pc # "idle" => Superseded(i, build.queue[i], file'[i])
    BY <1>1, <2>1, <2>2, <2>3, <2>4 DEF CopiesAge, QueueTypes, Items
  <2> QED
    BY <1>1, <1>9, <2>1, <2>5, AgesPassOn DEF recordSentHash
<1>10. CASE Restart
  BY <1>1, <1>10, AgesPassOn DEF CopiesAge, Restart, IdlePoll
<1>11. CASE BuildRead
  BY <1>1, <1>2, <1>11, AgesPassOn DEF CopiesAge, BuildRead, Locked
<1>12. ASSUME NEW rev \in 0 .. MaxRev, BuildWrite(rev) PROVE CopiesAge'
  <2>1. build.pc # "idle" /\ build'.pc = "idle" /\ poll' = poll
    BY <1>12 DEF BuildWrite, NoBuild
  <2>2. \A i \in Item : \/ file'[i] = file[i]
                        \/ file'[i] = build.queue[i]
                        \/ file'[i].status = "pending"
    BY <1>12 DEF BuildWrite, mergeBuiltItems, Pending
  <2>3. \A i \in Item : poll.pc = "scan" => Superseded(i, file'[i], poll.queue[i])
    <3>1. \A i, old, new : old.status = "pending" => Superseded(i, old, new)
      BY DEF Superseded
    <3> QED
      BY <1>1, <2>1, <2>2, <3>1 DEF CopiesAge, Locked
  <2>4. \A i \in Item : file'[i].status = "sent" => file'[i].hash \in DOMAIN txs
    BY <1>1, <2>1, <2>2
  <2> QED
    BY <1>1, <2>1, <2>3, <2>4, AgesPassOn DEF CopiesAge
<1>13. QED
  BY <1>3, <1>4, <1>5, <1>6, <1>7, <1>8, <1>9, <1>10, <1>11, <1>12
     DEF Next, PollStep, Click, Decline, Send, LosePost, Stray, Propagate, Mine, Drop, vars

LEMMA NextBacked ==
    ASSUME QueueInv, [Next]_vars
    PROVE  RequestsBacked'
<1>1. /\ QueueTypes /\ CopiesTruthful /\ RequestsBacked
      /\ \A i \in Item : \A data : Backed(i, data) => Backed(i, data)'
  BY NextGrows, LastingFacts DEF QueueInv
<1>2. ASSUME \A i \in Item : page'[i] # NoData => Backed(i, page'[i]),
             asked' \subseteq [item : Item, data : Data],
             \A a \in asked' : Backed(a.item, a.data)
      PROVE  RequestsBacked'
  BY <1>1, <1>2 DEF RequestsBacked
<1>3. CASE UNCHANGED <<page, asked>>
  BY <1>1, <1>2, <1>3 DEF RequestsBacked, QueueTypes
<1>4. CASE Respond
  <2>1. \A i \in Item : Truthful(i, poll.queue[i])
    BY <1>1, <1>4 DEF CopiesTruthful, Respond
  <2>2. \A i \in Item : Sendable(poll.queue, i) => Backed(i, Resolved(poll.queue, i))
    BY <2>1, ReadyIsBacked
  <2>3. \A i \in Item : page'[i] # NoData => Backed(i, page'[i])
    BY <1>4, <2>2 DEF Respond, Enriched
  <2> QED
    BY <1>1, <1>2, <1>4, <2>3 DEF Respond, RequestsBacked, QueueTypes
<1>5. ASSUME NEW i \in Item, Click(i) PROVE RequestsBacked'
  BY <1>1, <1>2, <1>5 DEF Click, RequestsBacked, QueueTypes
<1>6. ASSUME NEW a \in asked, Decline(a) \/ Send(a) PROVE RequestsBacked'
  BY <1>1, <1>2, <1>6 DEF Decline, Send, RequestsBacked, QueueTypes
<1> QED
  BY <1>3, <1>4, <1>5, <1>6 DEF Next, PollStep, BeginPoll, Answer, NoAnswer, EndScan,
     recordSentHash, Restart, LosePost, BuildRead, BuildWrite, Stray, Propagate, Mine, Drop, vars

\* Spec states fairness beside the steps; safety takes the steps alone.
LEMMA QueueInvariant == Spec => []QueueInv
<1>1. Init => QueueInv
  <2> SUFFICES ASSUME Init PROVE QueueInv
    OBVIOUS
  <2>1. \A i \in Item : file[i].status = "pending"
    BY DEF Init, Pending
  <2>2. poll.pc = "idle" /\ build.pc = "idle" /\ poll.todo = {}
    BY DEF Init, IdlePoll, NoBuild
  <2> QED
    BY <2>1, <2>2, TypesInit DEF QueueInv, CopiesTruthful, Truthful, CopiesAge, Locked,
       RequestsBacked, Init
<1>2. QueueInv /\ [Next]_vars => QueueInv'
  BY NextTypes, NextTruthful, NextAges, NextBacked DEF QueueInv
<1> QED
  BY <1>1, <1>2, PTL DEF Spec

-----------------------------------------------------------------------------
\* Whatever copy the page was painted from and however long the request was
\* open, a transaction leaves the wallet after everything its item depends on
\* took effect, with data from receipts of transactions that landed.  The step
\* that adds one for an item is Send, and the request was backed when the page
\* was painted.  (preconditionRefusal, resolveTemplates, verifyReceipt)
THEOREM NothingLeavesTooEarly == Spec => NothingSentTooEarly
<1>1. ASSUME QueueInv, [Next]_vars, NEW k \in DOMAIN txs' \ DOMAIN txs, txs'[k].item # NoItem
      PROVE  LET i == txs'[k].item
             IN  /\ \A d \in DependsOn[i] : Effective(d)
                 /\ \A d \in Reads[i] :
                       LET h == txs'[k].data.refs[d]
                       IN  txs[h].item = d /\ txs[h].state = "landed"
  <2>1. txs \in Seq(Tx) /\ DOMAIN txs = 1 .. Len(txs)
    BY <1>1 DEF QueueInv, QueueTypes
  <2>2. ASSUME NEW item, NEW data, txs' = Signed(item, data)
        PROVE  txs'[k].item = item /\ txs'[k].data = data
    BY <1>1, <2>1, <2>2 DEF Signed
  <2>3. \E a \in asked : Send(a)
    <3>1. DOMAIN txs' # DOMAIN txs
      BY <1>1
    <3>2. ~Stray
      BY <1>1, <2>2 DEF Stray
    <3>3. \A j, outcome : txs' # [txs EXCEPT ![j].state = outcome]
      BY <2>1, <3>1
    <3> QED
      BY <1>1, <3>1, <3>2, <3>3 DEF Next, PollStep, BeginPoll, Answer, NoAnswer, EndScan, Respond,
         recordSentHash, Restart, Click, Decline, LosePost, BuildRead, BuildWrite, Propagate,
         Mine, Drop, vars
  <2>4. PICK a \in asked : Send(a)
    BY <2>3
  <2>5. txs'[k].item = a.item /\ txs'[k].data = a.data
    BY <2>2, <2>4 DEF Send
  <2>6. Backed(a.item, a.data)
    BY <1>1 DEF QueueInv, RequestsBacked
  <2> QED
    BY <2>5, <2>6 DEF Backed, BroughtAbout
<1>2. QueueInv /\ [Next]_vars =>
        [\A k \in DOMAIN txs' \ DOMAIN txs : txs'[k].item # NoItem =>
          LET i == txs'[k].item
          IN  /\ \A d \in DependsOn[i] : Effective(d)
              /\ \A d \in Reads[i] :
                    LET h == txs'[k].data.refs[d]
                    IN  txs[h].item = d /\ txs[h].state = "landed"]_vars
  BY <1>1
<1> QED
  BY <1>2, QueueInvariant, PTL DEF Spec, NothingSentTooEarly

\* The server reopens a sent item only when its transaction was dropped or is a
\* foreign one.  It writes its copy at the end of the scan, and the file, which
\* takes no report meanwhile, is never ahead of the copy by one that may still
\* be mined (CopiesAge).  (advanceSentItems, withQueueLock)
THEOREM OnlyTheDeadReopen == Spec => ReopensOnlyTheDead
<1>1. ASSUME QueueInv, [Next]_vars, NEW i \in Item,
             file[i].status = "sent", file'[i].status = "pending", build' = build
      PROVE  Gone(i, file[i])
  <2>1. QueueTypes /\ CopiesAge
    BY <1>1 DEF QueueInv
  <2>2. file' # file
    BY <1>1
  <2>3. ASSUME NEW p \in posts, recordSentHash(p) PROVE FALSE
    <3>1. p.item \in Item /\ file \in Items
      BY <2>1 DEF QueueTypes
    <3>2. i # p.item => file'[i] = file[i]
      BY <2>3, <3>1 DEF recordSentHash, Recorded, Items
    <3>3. file'[p.item] = file[p.item] \/ file'[p.item].status = "sent"
      BY <2>3, <3>1 DEF recordSentHash, Recorded, Items, Copied
    <3> QED
      BY <1>1, <3>2, <3>3
  <2>4. ASSUME NEW rev \in 0 .. MaxRev, BuildWrite(rev) PROVE FALSE
    BY <1>1, <2>4 DEF BuildWrite, NoBuild
  <2>5. ASSUME NEW agree \in SUBSET Checks, EndScan(agree) PROVE Gone(i, file[i])
    <3>1. poll.pc = "scan" /\ poll.queue[i] \in Copied
      BY <2>1, <2>5 DEF EndScan, Locked, QueueTypes, Items
    <3>2. file'[i] \in {poll.queue[i], [poll.queue[i] EXCEPT !.status = "done"]}
      BY <1>1, <2>2, <2>5 DEF EndScan
    <3>3. poll.queue[i].status = "pending"
      BY <1>1, <3>1, <3>2 DEF Copied
    <3> QED
      BY <1>1, <2>1, <3>1, <3>3 DEF CopiesAge, Locked, Superseded
  <2> QED
    BY <1>1, <2>2, <2>3, <2>4, <2>5 DEF Next, PollStep, BeginPoll, Answer, NoAnswer, Respond,
       Restart, Click, Decline, Send, LosePost, BuildRead, Stray, Propagate, Mine, Drop, vars
<1>2. QueueInv /\ [Next]_vars =>
        [\A i \in Item :
          (file[i].status = "sent" /\ file'[i].status = "pending" /\ build' = build)
          => LET t == txs[file[i].hash]
             IN  t.state = "dropped" \/ isForeignTx(i, file[i], t)]_vars
  BY <1>1 DEF Gone
<1> QED
  BY <1>2, QueueInvariant, PTL DEF Spec, ReopensOnlyTheDead
===========================================================================
