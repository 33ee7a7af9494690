--------------------------- MODULE IndexerProofs ---------------------------
(***************************************************************************)
(* Machine-checked: the file that durable.mjs writes is whole, whatever it *)
(* is given to write and however long its ring of copies is; the indexer's *)
(* cursor, in memory and on disk, never goes back, whatever is crashed,    *)
(* retried, reorganised or answered late, for every chain, batch size and  *)
(* depth of confirmation; and what the indexer answers from memory, and    *)
(* what a restart would answer from its snapshot or any copy of it, is     *)
(* what the contracts said at its cursor.                                  *)
(*                                                                         *)
(* The last goes in four stages.  The events of a call say what the call   *)
(* did: folding them takes every projection that agreed with the contracts *)
(* before it to one that agrees after it.  So the events of a range of     *)
(* blocks say what was done in it.  What the source polls of a range that  *)
(* a node has is all of it.  And the blocks that are polled last: no       *)
(* reorganisation to come replaces them.                                   *)
(***************************************************************************)
EXTENDS Indexer, FiniteLemmas, SequenceTheorems

-----------------------------------------------------------------------------
(***************************************************************************)
(* The writer of durable.mjs: the file is whole, it never goes away again, *)
(* and a copy that was cut short is the only thing in the ring that is not *)
(* whole.                                                                  *)
(***************************************************************************)

\* The file and the copies hold what was once saved, or nothing; only a copy
\* in progress, or one a crash cut short, is torn; what the rename moves is
\* complete.
FilesWhole(contents) ==
    /\ main \in contents \union {Absent}
    /\ tmp \in contents \union {Absent, Torn}
    /\ ring \in [Slots -> contents \union {Absent, Torn}]
    /\ writing \in {"no", "shift", "copy", "copying", "temp", "flush", "rename"}
    /\ writing = "shift" => slot \in Slots
    /\ writing = "rename" => tmp \in contents

\* The order of the calls in atomicWriteFile and rotateBackups keeps the file
\* whole over every failure and every crash.
LEMMA StepKeepsFilesWhole ==
    ASSUME NEW contents, Absent \notin contents, Torn \notin contents,
           FilesWhole(contents), [DurableNext(contents)]_durableVars
    PROVE  FilesWhole(contents)'
<1> USE DEF FilesWhole, files, writer, durableVars, Slots
<1>1. CASE BeginWrite
  BY <1>1, DurableAssumption DEF BeginWrite, RotationDue
<1>2. CASE Rename
  BY <1>2 DEF Rename
<1>3. CASE WriteFails
  BY <1>3 DEF WriteFails
<1>4. CASE WriterDies
  BY <1>4 DEF WriterDies
<1>5. CASE IntervalPasses
  BY <1>5 DEF IntervalPasses
<1>6. ASSUME NEW content \in contents, WriterSteps(content)
      PROVE  FilesWhole(contents)'
  <2>1. CASE Shift
    <3>1. slot \in Slots /\ writing' \in {"copy", "shift"}
      BY <2>1 DEF Shift
    <3>2. ring' \in [Slots -> contents \union {Absent, Torn}]
      <4>1. ASSUME NEW n \in Slots, n # slot, n # slot + 1
            PROVE  ring[n] \in contents \union {Absent, Torn}
        OBVIOUS
      <4> QED
        BY <2>1, <3>1, <4>1 DEF Shift
    <3>3. writing' = "shift" => slot' \in Slots
      BY <2>1, <3>1, DurableAssumption DEF Shift
    <3> QED
      BY <2>1, <3>1, <3>2, <3>3 DEF Shift
  <2>2. CASE StartCopy
    BY <2>2 DEF StartCopy
  <2>3. CASE EndCopy
    BY <2>3 DEF EndCopy
  <2>4. CASE StartTemp
    BY <2>4 DEF StartTemp
  <2>5. CASE EndTemp(content)
    BY <2>5 DEF EndTemp
  <2> QED
    BY <1>6, <2>1, <2>2, <2>3, <2>4, <2>5 DEF WriterSteps
<1>7. CASE UNCHANGED durableVars
  BY <1>7
<1> QED
  BY <1>1, <1>2, <1>3, <1>4, <1>5, <1>6, <1>7 DEF DurableNext

\* A reader finds the last complete state or, before the first save, no file:
\* never half of one.  (durable.atomicWriteFile)
THEOREM FileNeverTorn ==
    ASSUME NEW contents, Absent \notin contents, Torn \notin contents
    PROVE  DurableSpec(contents) => [](main # Torn)
<1>1. DurableInit => FilesWhole(contents)
  BY DEF DurableInit, FilesWhole, Slots
<1>2. FilesWhole(contents) /\ [DurableNext(contents)]_durableVars => FilesWhole(contents)'
  BY StepKeepsFilesWhole
<1>3. FilesWhole(contents) => main # Torn
  BY DurableAssumption DEF FilesWhole
<1> QED
  BY <1>1, <1>2, <1>3, PTL DEF DurableSpec

\* Once there is a file there is always one: the path never blinks out of
\* existence, not even while its copies move.  (durable.rotateBackups)
THEOREM FileNeverLost ==
    ASSUME NEW contents, Absent \notin contents, Torn \notin contents
    PROVE  DurableSpec(contents) => [][main # Absent => main' # Absent]_durableVars
<1>1. DurableInit => FilesWhole(contents)
  BY DEF DurableInit, FilesWhole, Slots
<1>2. FilesWhole(contents) /\ [DurableNext(contents)]_durableVars => FilesWhole(contents)'
  BY StepKeepsFilesWhole
<1>3. FilesWhole(contents) /\ [DurableNext(contents)]_durableVars
      => [main # Absent => main' # Absent]_durableVars
  <2> SUFFICES ASSUME FilesWhole(contents), DurableNext(contents), main # Absent
               PROVE  main' # Absent
    OBVIOUS
  <2>1. CASE Rename
    BY <2>1 DEF Rename, FilesWhole
  <2>2. CASE ~Rename
    <3>1. UNCHANGED main
      BY <2>2 DEF DurableNext, BeginWrite, WriteFails, WriterDies, IntervalPasses,
                  WriterSteps, Shift, StartCopy, EndCopy, StartTemp, EndTemp, files
    <3> QED
      BY <3>1
  <2> QED
    BY <2>1, <2>2
<1> QED
  BY <1>1, <1>2, <1>3, PTL DEF DurableSpec

-----------------------------------------------------------------------------
(***************************************************************************)
(* Lists of events.                                                        *)
(***************************************************************************)
IsList(l) == \E S : l \in Seq(S)

\* A list of events none of which lies before block b, or all of which lie in it.
NotBefore(l, b) ==
    IsList(l) /\ \A i \in 1..Len(l) : l[i].block \in Nat /\ l[i].block >= b

InBlock(l, b) == IsList(l) /\ \A i \in 1..Len(l) : l[i].block = b

LEMMA ListFacts ==
    ASSUME NEW l, IsList(l)
    PROVE  /\ Len(l) \in Nat /\ DOMAIN l = 1..Len(l)
           /\ l \in Seq({l[i] : i \in 1..Len(l)})
<1>1. PICK S : l \in Seq(S)
  BY DEF IsList
<1>2. Len(l) \in Nat /\ DOMAIN l = 1..Len(l) /\ l \in [1..Len(l) -> S]
  BY <1>1, LenProperties
<1>3. l = [i \in 1..Len(l) |-> l[i]]
  BY <1>2
<1>4. l \in Seq({l[i] : i \in 1..Len(l)})
  BY <1>1, <1>2
<1>5. QED
  BY <1>2, <1>4

\* A list stays one in a larger set.
LEMMA ListGrows ==
    ASSUME NEW S, NEW T, S \subseteq T, NEW l \in Seq(S)
    PROVE  l \in Seq(T)
<1>1. Len(l) \in Nat /\ l \in [1..Len(l) -> S] /\ DOMAIN l = 1..Len(l)
  BY LenProperties
<1>2. QED
  BY <1>1

LEMMA EmptyList == IsList(<<>>) /\ Len(<<>>) = 0
<1>1. <<>> \in Seq({}) /\ Len(<<>>) = 0
  BY EmptySeq
<1>2. QED
  BY <1>1 DEF IsList

LEMMA ListJoin ==
    ASSUME NEW k, NEW l, IsList(k), IsList(l)
    PROVE  /\ IsList(k \o l) /\ Len(k \o l) = Len(k) + Len(l)
           /\ \A i \in 1..(Len(k) + Len(l)) :
                 (k \o l)[i] = IF i <= Len(k) THEN k[i] ELSE l[i - Len(k)]
<1>1. PICK S : k \in Seq(S)
  BY DEF IsList
<1>2. PICK T : l \in Seq(T)
  BY DEF IsList
<1>3. k \in Seq(S \union T) /\ l \in Seq(S \union T)
  BY <1>1, <1>2, ListGrows
<1>4. QED
  BY <1>3, ConcatProperties DEF IsList

LEMMA ListAppend ==
    ASSUME NEW l, NEW e, IsList(l)
    PROVE  /\ IsList(Append(l, e)) /\ Len(Append(l, e)) = Len(l) + 1
           /\ \A i \in 1..Len(l) : Append(l, e)[i] = l[i]
           /\ Append(l, e)[Len(l) + 1] = e
<1>1. PICK S : l \in Seq(S)
  BY DEF IsList
<1>2. l \in Seq(S \union {e})
  BY <1>1, ListGrows
<1>3. QED
  BY <1>2, AppendProperties DEF IsList

LEMMA JoinNotBefore ==
    ASSUME NEW k, NEW l, NEW b, NotBefore(k, b), NotBefore(l, b)
    PROVE  NotBefore(k \o l, b)
<1>1. Len(k) \in Nat /\ Len(l) \in Nat
  BY ListFacts DEF NotBefore
<1>2. /\ IsList(k \o l) /\ Len(k \o l) = Len(k) + Len(l)
      /\ \A i \in 1..(Len(k) + Len(l)) :
            (k \o l)[i] = IF i <= Len(k) THEN k[i] ELSE l[i - Len(k)]
  BY ListJoin DEF NotBefore
<1>3. ASSUME NEW i \in 1..Len(k \o l)
      PROVE  (k \o l)[i].block \in Nat /\ (k \o l)[i].block >= b
  <2>1. CASE i <= Len(k)
    BY <1>1, <1>2, <2>1 DEF NotBefore
  <2>2. CASE ~(i <= Len(k))
    <3>1. i - Len(k) \in 1..Len(l)
      BY <1>1, <1>2, <2>2
    <3>2. QED
      BY <1>1, <1>2, <2>2, <3>1 DEF NotBefore
  <2>3. QED
    BY <2>1, <2>2
<1>4. QED
  BY <1>2, <1>3 DEF NotBefore

LEMMA AppendNotBefore ==
    ASSUME NEW l, NEW e, NEW b, NotBefore(l, b), e.block \in Nat, e.block >= b
    PROVE  NotBefore(Append(l, e), b)
<1>1. Len(l) \in Nat
  BY ListFacts DEF NotBefore
<1>2. /\ IsList(Append(l, e)) /\ Len(Append(l, e)) = Len(l) + 1
      /\ \A i \in 1..Len(l) : Append(l, e)[i] = l[i]
      /\ Append(l, e)[Len(l) + 1] = e
  BY ListAppend DEF NotBefore
<1>3. \A i \in 1..(Len(l) + 1) : i \in 1..Len(l) \/ i = Len(l) + 1
  BY <1>1
<1>4. QED
  BY <1>2, <1>3 DEF NotBefore

-----------------------------------------------------------------------------
(***************************************************************************)
(* What a fetch returns.  Each of the three recursions it goes through has *)
(* a solution, built one entry at a time, and what holds of every solution *)
(* is shown by induction over its entries.                                 *)
(***************************************************************************)
\* The blocks so far are a list, and each has its own events.
ChainNumbered ==
    /\ IsList(chain) /\ IsList(logs)
    /\ \A b \in 1..Len(chain) : InBlock(chain[b].logs, b)
    /\ InBlock(logs, Len(chain) + 1)

\* The next entry of LogsOf, from the one before it.
NextLog(was, from, last, b) == IF b \in from..last THEN was \o chain[b].logs ELSE was

IsLog(f, from, last, n) ==
    f = [b \in 0..n |-> IF b = 0 THEN <<>> ELSE NextLog(f[b - 1], from, last, b)]

LEMMA LogMeans ==
    ASSUME NEW from, NEW last, NEW n
    PROVE  LogsOf(from, last, n) = (CHOOSE f : IsLog(f, from, last, n))[n]
BY DEF LogsOf, IsLog, NextLog

LEMMA LogExists ==
    ASSUME NEW from, NEW last, NEW n \in Nat
    PROVE  \E f : IsLog(f, from, last, n)
<1> DEFINE F == {k \in Nat : \E f : IsLog(f, from, last, k)}
<1>1. 0 \in F
  <2>1. IsLog([b \in 0..0 |-> <<>>], from, last, 0)
    BY DEF IsLog
  <2>2. QED
    BY <2>1
<1>2. ASSUME NEW k \in Nat, k \in F PROVE k + 1 \in F
  <2>1. PICK f : IsLog(f, from, last, k)
    BY <1>2
  <2> DEFINE g == [b \in 0..(k + 1) |->
                     IF b <= k THEN f[b] ELSE NextLog(f[k], from, last, k + 1)]
  <2>2. \A b \in 0..k : f[b] = IF b = 0 THEN <<>> ELSE NextLog(f[b - 1], from, last, b)
    BY <2>1 DEF IsLog
  <2>3. \A b \in 0..(k + 1) :
           g[b] = IF b = 0 THEN <<>> ELSE NextLog(g[b - 1], from, last, b)
    <3> SUFFICES ASSUME NEW b \in 0..(k + 1)
                 PROVE  g[b] = IF b = 0 THEN <<>> ELSE NextLog(g[b - 1], from, last, b)
      OBVIOUS
    <3>1. CASE b <= k
      <4>1. g[b] = f[b]
        BY <3>1
      <4>2. b # 0 => g[b - 1] = f[b - 1]
        BY <3>1
      <4> HIDE DEF g
      <4>3. QED
        BY <2>2, <3>1, <4>1, <4>2
    <3>2. CASE b = k + 1
      <4>1. g[b] = NextLog(f[k], from, last, k + 1) /\ g[k] = f[k] /\ b # 0 /\ b - 1 = k
        BY <3>2
      <4> HIDE DEF g
      <4>2. QED
        BY <3>2, <4>1
    <3>3. QED
      BY <3>1, <3>2
  <2>4. g = [b \in 0..(k + 1) |-> g[b]]
    OBVIOUS
  <2> HIDE DEF g
  <2>5. IsLog(g, from, last, k + 1)
    BY <2>3, <2>4 DEF IsLog
  <2>6. QED
    BY <2>5
<1>3. Nat \subseteq F
  <2> HIDE DEF F
  <2>1. QED
    BY <1>1, <1>2, NatSetInduction
<1>4. QED
  BY <1>3

\* What a node answers for a range starts no earlier than the range.
LEMMA LogsNotBefore ==
    ASSUME ChainNumbered, NEW from \in Nat, NEW last \in Int, NEW n \in 0..Len(chain)
    PROVE  NotBefore(LogsOf(from, last, n), from)
<1> DEFINE f == CHOOSE g : IsLog(g, from, last, n)
           F == {b \in Nat : b <= n => NotBefore(f[b], from)}
<1>1. IsLog(f, from, last, n) /\ n \in Nat
  <2>1. n \in Nat
    BY ListFacts DEF ChainNumbered
  <2>2. \E g : IsLog(g, from, last, n)
    BY <2>1, LogExists
  <2>3. QED
    BY <2>1, <2>2
<1> HIDE DEF f
<1>2. \A b \in 0..n : f[b] = IF b = 0 THEN <<>> ELSE NextLog(f[b - 1], from, last, b)
  BY <1>1 DEF IsLog
<1>3. 0 \in F
  BY <1>1, <1>2, EmptyList DEF NotBefore
<1>4. ASSUME NEW b \in Nat, b \in F PROVE b + 1 \in F
  <2> SUFFICES ASSUME b + 1 <= n PROVE NotBefore(f[b + 1], from)
    OBVIOUS
  <2>1. NotBefore(f[b], from)
    BY <1>1, <1>4
  <2>2. f[b + 1] = NextLog(f[b], from, last, b + 1)
    <3>1. b + 1 \in 0..n /\ b + 1 # 0 /\ (b + 1) - 1 = b
      BY <1>1
    <3>2. QED
      BY <1>2, <3>1
  <2>3. CASE b + 1 \in from..last
    <3>1. Len(chain) \in Nat /\ b + 1 \in 1..Len(chain)
      BY <1>1, ListFacts DEF ChainNumbered
    <3>2. NotBefore(chain[b + 1].logs, from)
      BY <2>3, <3>1 DEF ChainNumbered, InBlock, NotBefore
    <3>3. QED
      BY <2>1, <2>2, <2>3, <3>2, JoinNotBefore DEF NextLog
  <2>4. CASE b + 1 \notin from..last
    BY <2>1, <2>2, <2>4 DEF NextLog
  <2>5. QED
    BY <2>3, <2>4
<1>5. Nat \subseteq F
  <2> HIDE DEF F
  <2>1. QED
    BY <1>3, <1>4, NatSetInduction
<1>6. NotBefore(f[n], from)
  BY <1>1, <1>5
<1>7. QED
  BY <1>6, LogMeans DEF f

-----------------------------------------------------------------------------
\* The next entry of Fetched, from the one before it.
NextKept(was, evs, i) == IF Polled(evs, evs[i]) THEN Append(was, evs[i]) ELSE was

IsKept(f, evs, n) ==
    f = [i \in 0..n |-> IF i = 0 THEN <<>> ELSE NextKept(f[i - 1], evs, i)]

LEMMA KeptMeans ==
    ASSUME NEW evs
    PROVE  Fetched(evs) = (CHOOSE f : IsKept(f, evs, Len(evs)))[Len(evs)]
BY DEF Fetched, IsKept, NextKept

LEMMA KeptExists ==
    ASSUME NEW evs, NEW n \in Nat
    PROVE  \E f : IsKept(f, evs, n)
<1> DEFINE F == {k \in Nat : \E f : IsKept(f, evs, k)}
<1>1. 0 \in F
  <2>1. IsKept([i \in 0..0 |-> <<>>], evs, 0)
    BY DEF IsKept
  <2>2. QED
    BY <2>1
<1>2. ASSUME NEW k \in Nat, k \in F PROVE k + 1 \in F
  <2>1. PICK f : IsKept(f, evs, k)
    BY <1>2
  <2> DEFINE g == [i \in 0..(k + 1) |->
                     IF i <= k THEN f[i] ELSE NextKept(f[k], evs, k + 1)]
  <2>2. \A i \in 0..k : f[i] = IF i = 0 THEN <<>> ELSE NextKept(f[i - 1], evs, i)
    BY <2>1 DEF IsKept
  <2>3. \A i \in 0..(k + 1) :
           g[i] = IF i = 0 THEN <<>> ELSE NextKept(g[i - 1], evs, i)
    <3> SUFFICES ASSUME NEW i \in 0..(k + 1)
                 PROVE  g[i] = IF i = 0 THEN <<>> ELSE NextKept(g[i - 1], evs, i)
      OBVIOUS
    <3>1. CASE i <= k
      <4>1. g[i] = f[i]
        BY <3>1
      <4>2. i # 0 => g[i - 1] = f[i - 1]
        BY <3>1
      <4> HIDE DEF g
      <4>3. QED
        BY <2>2, <3>1, <4>1, <4>2
    <3>2. CASE i = k + 1
      <4>1. g[i] = NextKept(f[k], evs, k + 1) /\ g[k] = f[k] /\ i # 0 /\ i - 1 = k
        BY <3>2
      <4> HIDE DEF g
      <4>2. QED
        BY <3>2, <4>1
    <3>3. QED
      BY <3>1, <3>2
  <2>4. g = [i \in 0..(k + 1) |-> g[i]]
    OBVIOUS
  <2> HIDE DEF g
  <2>5. IsKept(g, evs, k + 1)
    BY <2>3, <2>4 DEF IsKept
  <2>6. QED
    BY <2>5
<1>3. Nat \subseteq F
  <2> HIDE DEF F
  <2>1. QED
    BY <1>1, <1>2, NatSetInduction
<1>4. QED
  BY <1>3

\* What the source polls of them is no earlier either.
LEMMA FetchedNotBefore ==
    ASSUME NEW evs, NEW from \in Nat, NotBefore(evs, from)
    PROVE  NotBefore(Fetched(evs), from)
<1> DEFINE n == Len(evs)
           f == CHOOSE g : IsKept(g, evs, n)
           F == {i \in Nat : i <= n => NotBefore(f[i], from)}
<1>1. IsKept(f, evs, n) /\ n \in Nat
  <2>1. n \in Nat
    BY ListFacts DEF NotBefore
  <2>2. \E g : IsKept(g, evs, n)
    BY <2>1, KeptExists
  <2>3. QED
    BY <2>1, <2>2
<1>2. \A i \in 1..n : evs[i].block \in Nat /\ evs[i].block >= from
  BY DEF NotBefore
<1>3. Fetched(evs) = f[n]
  BY KeptMeans
<1> HIDE DEF f, n
<1>4. \A i \in 0..n : f[i] = IF i = 0 THEN <<>> ELSE NextKept(f[i - 1], evs, i)
  BY <1>1 DEF IsKept
<1>5. 0 \in F
  BY <1>1, <1>4, EmptyList DEF NotBefore
<1>6. ASSUME NEW i \in Nat, i \in F PROVE i + 1 \in F
  <2> SUFFICES ASSUME i + 1 <= n PROVE NotBefore(f[i + 1], from)
    OBVIOUS
  <2>1. NotBefore(f[i], from)
    BY <1>1, <1>6
  <2>2. i + 1 \in 0..n /\ i + 1 # 0 /\ (i + 1) - 1 = i /\ i + 1 \in 1..n
    BY <1>1
  <2>3. f[i + 1] = NextKept(f[i], evs, i + 1)
    BY <1>4, <2>2
  <2>4. QED
    BY <1>2, <2>1, <2>2, <2>3, AppendNotBefore DEF NextKept
<1>7. Nat \subseteq F
  <2> HIDE DEF F
  <2>1. QED
    BY <1>5, <1>6, NatSetInduction
<1>8. QED
  BY <1>1, <1>3, <1>7

-----------------------------------------------------------------------------
\* A projection has a cursor.
HasCursor(s) == "lastBlock" \in DOMAIN s /\ s.lastBlock \in Nat

\* No handler of an event drops the cursor.
LEMMA FoldKeepsCursor ==
    ASSUME NEW s, NEW e, "lastBlock" \in DOMAIN s
    PROVE  "lastBlock" \in DOMAIN P!Fold(s, e)
<1>1. \A t, m, next : "lastBlock" \in DOMAIN t => "lastBlock" \in DOMAIN P!SetShares(t, m, next)
  BY DEF P!SetShares
<1>2. \A m : "lastBlock" \in DOMAIN P!CloseRow(s, m)
  BY DEF P!CloseRow
<1>3. /\ "lastBlock" \in DOMAIN P!FoldVaultCreated(s, e)
      /\ "lastBlock" \in DOMAIN P!FoldVaultAttested(s)
      /\ "lastBlock" \in DOMAIN P!FoldOperatorRegistered(s)
  BY DEF P!FoldVaultCreated, P!FoldVaultAttested, P!FoldOperatorRegistered
<1>4. /\ "lastBlock" \in DOMAIN P!FoldRealizationRecorded(s, e)
      /\ "lastBlock" \in DOMAIN P!FoldFeeRecorded(s, e)
  BY DEF P!FoldRealizationRecorded, P!FoldFeeRecorded
<1>5. /\ "lastBlock" \in DOMAIN P!FoldDepositPending(s, e)
      /\ "lastBlock" \in DOMAIN P!FoldDepositActivated(s, e)
  BY <1>1, <1>2 DEF P!FoldDepositPending, P!FoldDepositActivated
<1>6. "lastBlock" \in DOMAIN P!FoldExitQueued(s, e)
  BY DEF P!FoldExitQueued
<1>7. "lastBlock" \in DOMAIN P!FoldExitSettled(s, e)
  BY <1>1 DEF P!FoldExitSettled, P!CreditShares
<1>8. /\ "lastBlock" \in DOMAIN P!FoldRebalanceExecuted(s, e)
      /\ "lastBlock" \in DOMAIN P!FoldProposed(s, e)
      /\ "lastBlock" \in DOMAIN [s EXCEPT !.swaps = @ + 1]
  BY DEF P!FoldRebalanceExecuted, P!FoldProposed
<1>9. "lastBlock" \in DOMAIN P!OnProposal(s, e)
  BY DEF P!OnProposal, P!FoldResolved
<1>10. QED
  BY <1>2, <1>3, <1>4, <1>5, <1>6, <1>7, <1>8, <1>9 DEF P!Fold

\* The cursor stands at the event that was folded last.
LEMMA ApplyMovesCursor ==
    ASSUME NEW s, NEW e, HasCursor(s), e.block \in Nat
    PROVE  HasCursor(P!Apply(s, e)) /\ P!Apply(s, e).lastBlock = e.block
<1> DEFINE t == P!Fold(s, e)
<1>1. "lastBlock" \in DOMAIN t
  BY FoldKeepsCursor DEF HasCursor
<1>2. P!Apply(s, e) = [t EXCEPT !.lastBlock = e.block, !.lastLogIndex = e.index]
  BY DEF P!Apply
<1> HIDE DEF t
<1>3. QED
  BY <1>1, <1>2 DEF HasCursor

\* The next projection of ApplyAll, from the one before it.
NextAfter(was, events, i) ==
    IF \E j \in 1..(i - 1) : P!Malformed(events[j]) THEN was
    ELSE P!ApplyOrThrow(was, events[i])

IsAfter(f, s, events, n) ==
    f = [i \in 0..n |-> IF i = 0 THEN s ELSE NextAfter(f[i - 1], events, i)]

LEMMA AfterMeans ==
    ASSUME NEW s, NEW events
    PROVE  P!ApplyAll(s, events) = (CHOOSE f : IsAfter(f, s, events, Len(events)))[Len(events)]
BY DEF P!ApplyAll, IsAfter, NextAfter

LEMMA AfterExists ==
    ASSUME NEW s, NEW events, NEW n \in Nat
    PROVE  \E f : IsAfter(f, s, events, n)
<1> DEFINE F == {k \in Nat : \E f : IsAfter(f, s, events, k)}
<1>1. 0 \in F
  <2>1. IsAfter([i \in 0..0 |-> s], s, events, 0)
    BY DEF IsAfter
  <2>2. QED
    BY <2>1
<1>2. ASSUME NEW k \in Nat, k \in F PROVE k + 1 \in F
  <2>1. PICK f : IsAfter(f, s, events, k)
    BY <1>2
  <2> DEFINE g == [i \in 0..(k + 1) |->
                     IF i <= k THEN f[i] ELSE NextAfter(f[k], events, k + 1)]
  <2>2. \A i \in 0..k : f[i] = IF i = 0 THEN s ELSE NextAfter(f[i - 1], events, i)
    BY <2>1 DEF IsAfter
  <2>3. \A i \in 0..(k + 1) :
           g[i] = IF i = 0 THEN s ELSE NextAfter(g[i - 1], events, i)
    <3> SUFFICES ASSUME NEW i \in 0..(k + 1)
                 PROVE  g[i] = IF i = 0 THEN s ELSE NextAfter(g[i - 1], events, i)
      OBVIOUS
    <3>1. CASE i <= k
      <4>1. g[i] = f[i]
        BY <3>1
      <4>2. i # 0 => g[i - 1] = f[i - 1]
        BY <3>1
      <4> HIDE DEF g
      <4>3. QED
        BY <2>2, <3>1, <4>1, <4>2
    <3>2. CASE i = k + 1
      <4>1. g[i] = NextAfter(f[k], events, k + 1) /\ g[k] = f[k] /\ i # 0 /\ i - 1 = k
        BY <3>2
      <4> HIDE DEF g
      <4>2. QED
        BY <3>2, <4>1
    <3>3. QED
      BY <3>1, <3>2
  <2>4. g = [i \in 0..(k + 1) |-> g[i]]
    OBVIOUS
  <2> HIDE DEF g
  <2>5. IsAfter(g, s, events, k + 1)
    BY <2>3, <2>4 DEF IsAfter
  <2>6. QED
    BY <2>5
<1>3. Nat \subseteq F
  <2> HIDE DEF F
  <2>1. QED
    BY <1>1, <1>2, NatSetInduction
<1>4. QED
  BY <1>3

\* Folding a batch that starts no earlier than the cursor moves it forward, and
\* so does a batch that is refused half way.
LEMMA BatchMovesCursor ==
    ASSUME NEW s, NEW events, NEW from \in Nat, HasCursor(s), s.lastBlock <= from,
           NotBefore(events, from)
    PROVE  /\ HasCursor(P!ApplyAll(s, events))
           /\ s.lastBlock <= P!ApplyAll(s, events).lastBlock
<1> DEFINE n == Len(events)
           f == CHOOSE g : IsAfter(g, s, events, n)
           Ahead(t) == HasCursor(t) /\ s.lastBlock <= t.lastBlock
           F == {i \in Nat : i <= n => Ahead(f[i])}
<1>1. IsAfter(f, s, events, n) /\ n \in Nat
  <2>1. n \in Nat
    BY ListFacts DEF NotBefore
  <2>2. \E g : IsAfter(g, s, events, n)
    BY <2>1, AfterExists
  <2>3. QED
    BY <2>1, <2>2
<1>2. \A i \in 1..n : events[i].block \in Nat /\ events[i].block >= from
  BY DEF NotBefore
<1>3. P!ApplyAll(s, events) = f[n]
  BY AfterMeans
<1> HIDE DEF f, n
<1>4. \A i \in 0..n : f[i] = IF i = 0 THEN s ELSE NextAfter(f[i - 1], events, i)
  BY <1>1 DEF IsAfter
<1>5. s.lastBlock \in Nat
  BY DEF HasCursor
<1>6. 0 \in F
  BY <1>1, <1>4, <1>5
<1>7. ASSUME NEW i \in Nat, i \in F PROVE i + 1 \in F
  <2> SUFFICES ASSUME i + 1 <= n PROVE Ahead(f[i + 1])
    OBVIOUS
  <2>1. Ahead(f[i])
    BY <1>1, <1>7
  <2>2. i + 1 \in 0..n /\ i + 1 # 0 /\ (i + 1) - 1 = i /\ i + 1 \in 1..n
    BY <1>1
  <2>3. f[i + 1] = NextAfter(f[i], events, i + 1)
    BY <1>4, <2>2
  <2>4. CASE f[i + 1] = f[i]
    BY <2>1, <2>4
  <2>5. CASE f[i + 1] = P!Apply(f[i], events[i + 1])
    <3>1. HasCursor(f[i + 1]) /\ f[i + 1].lastBlock = events[i + 1].block
      BY <1>2, <2>1, <2>2, <2>5, ApplyMovesCursor
    <3>2. QED
      BY <1>2, <1>5, <2>2, <3>1
  <2>6. CASE f[i + 1] = P!CloseRow(f[i], events[i + 1].member)
    <3>1. HasCursor(f[i + 1]) /\ f[i + 1].lastBlock = f[i].lastBlock
      BY <2>1, <2>6 DEF P!CloseRow, HasCursor
    <3>2. QED
      BY <2>1, <3>1
  <2>7. QED
    BY <2>3, <2>4, <2>5, <2>6 DEF NextAfter, P!ApplyOrThrow
<1>8. Nat \subseteq F
  <2> HIDE DEF F
  <2>1. QED
    BY <1>6, <1>7, NatSetInduction
<1>9. QED
  BY <1>1, <1>3, <1>8

-----------------------------------------------------------------------------
(***************************************************************************)
(* The chain: every block has its own events, over calls, blocks and       *)
(* reorganisations.                                                        *)
(***************************************************************************)
LEMMA ShortLists == \A a, b : IsList(<<a>>) /\ IsList(<<a, b>>)
<1> SUFFICES ASSUME NEW a, NEW b PROVE IsList(<<a>>) /\ IsList(<<a, b>>)
  OBVIOUS
<1>1. <<a>> \in Seq({a}) /\ <<a, b>> \in Seq({a, b})
  OBVIOUS
<1>2. QED
  BY <1>1 DEF IsList

\* Every call of the contracts emits a list of events.
LEMMA CallsEmit ==
    ASSUME Calls
    PROVE  \E name, events : IsList(events) /\ Emits(name, events)
<1> USE ShortLists, EmptyList
<1>1. CASE RegisterOperator
  BY <1>1 DEF RegisterOperator
<1>2. ASSUME NEW kind, CreateVault(kind)
      PROVE  \E name, events : IsList(events) /\ Emits(name, events)
  <2> DEFINE k == IF books.operator THEN <<>> ELSE <<[name |-> "OperatorRegistered"]>>
             l == <<[name |-> "VaultAttested"], [name |-> "VaultCreated", kind |-> kind]>>
  <2>1. Emits("CreateVault", k \o l)
    BY <1>2 DEF CreateVault
  <2>2. IsList(k) /\ IsList(l)
    OBVIOUS
  <2> HIDE DEF k, l
  <2>3. QED
    BY <2>1, <2>2, ListJoin
<1>3. ASSUME NEW m, DepositRow(m) \/ DepositNow(m) \/ ActivateRow(m) \/ CancelRow(m)
      PROVE  \E name, events : IsList(events) /\ Emits(name, events)
  BY <1>3 DEF DepositRow, DepositNow, ActivateRow, CancelRow
<1>4. ASSUME NEW m, NEW n, ExitLater(m, n)
      PROVE  \E name, events : IsList(events) /\ Emits(name, events)
  BY <1>4 DEF ExitLater
<1>5. ASSUME NEW m, NEW n, NEW result, NEW recorded, NEW fee
      PROVE  IsList(SettlementEvents(m, n, result, recorded, fee))
  <2> DEFINE r == IF recorded THEN <<[name |-> "RealizationRecorded", result |-> result]>> ELSE <<>>
             f == IF fee > 0 THEN <<[name |-> "FeeRecorded", amount |-> fee]>> ELSE <<>>
             x == <<[name |-> "ExitSettled", member |-> m, burned |-> n]>>
  <2>1. SettlementEvents(m, n, result, recorded, fee) = r \o f \o x
    BY DEF SettlementEvents
  <2>2. IsList(r) /\ IsList(f) /\ IsList(x)
    OBVIOUS
  <2> HIDE DEF r, f, x
  <2>3. IsList(r \o f)
    BY <2>2, ListJoin
  <2>4. QED
    BY <2>1, <2>2, <2>3, ListJoin
<1>6. ASSUME NEW m, NEW n, ExitAtOnce(m, n)
      PROVE  \E name, events : IsList(events) /\ Emits(name, events)
  BY <1>5, <1>6 DEF ExitAtOnce
<1>7. ASSUME NEW m, SettleExit(m)
      PROVE  \E name, events : IsList(events) /\ Emits(name, events)
  BY <1>5, <1>7 DEF SettleExit
<1>8. ASSUME NEW pid, Propose(pid)
      PROVE  \E name, events : IsList(events) /\ Emits(name, events)
  <2> DEFINE k == IF books.active = 0 THEN <<>>
                  ELSE <<[name |-> "ProposalExpired", pid |-> books.active]>>
             l == <<[name |-> "Proposed", pid |-> pid]>>
  <2>1. Emits("Resolve", k \o l)
    BY <1>8 DEF Propose
  <2>2. IsList(k) /\ IsList(l)
    OBVIOUS
  <2> HIDE DEF k, l
  <2>3. QED
    BY <2>1, <2>2, ListJoin
<1>9. ASSUME NEW kind, NEW support, NEW w, Cast(kind, support, w)
      PROVE  \E name, events : IsList(events) /\ Emits(name, events)
  BY <1>9 DEF Cast
<1>10. ASSUME NEW name, NEW from, NEW status, Resolve(name, from, status)
       PROVE  \E x, events : IsList(events) /\ Emits(x, events)
  BY <1>10 DEF Resolve
<1>11. ASSUME NEW a, Rebalance(a)
       PROVE  \E name, events : IsList(events) /\ Emits(name, events)
  BY <1>11 DEF Rebalance
<1>12. QED
  BY <1>1, <1>2, <1>3, <1>4, <1>6, <1>7, <1>8, <1>9, <1>10, <1>11 DEF Calls

LEMMA ChainSteps ==
    ASSUME ChainNumbered, ChainNext \/ UNCHANGED chainVars
    PROVE  ChainNumbered'
<1>1. Len(chain) \in Nat /\ Len(logs) \in Nat
  BY ListFacts DEF ChainNumbered
<1>2. CASE Calls
  <2>1. PICK name, events : IsList(events) /\ Emits(name, events)
    BY <1>2, CallsEmit
  <2> DEFINE new == [i \in 1..Len(events) |-> Numbered(events[i], Tip + 1, Len(logs) + i)]
  <2>2. logs' = logs \o new /\ chain' = chain
    BY <2>1 DEF Emits
  <2>3. InBlock(new, Len(chain) + 1)
    <3>1. Len(events) \in Nat
      BY <2>1, ListFacts
    <3>2. \A e, b, i : Numbered(e, b, i).block = b
      BY DEF Numbered
    <3>3. \A i \in 1..Len(events) : new[i].block = Len(chain) + 1
      BY <3>2 DEF Tip
    <3>4. new \in [1..Len(events) -> {new[i] : i \in 1..Len(events)}]
      OBVIOUS
    <3> HIDE DEF new
    <3>5. new \in Seq({new[i] : i \in 1..Len(events)}) /\ Len(new) = Len(events)
      BY <3>1, <3>4
    <3>6. QED
      BY <3>3, <3>5 DEF InBlock, IsList
  <2> HIDE DEF new
  <2>4. Len(new) \in Nat
    BY <2>3, ListFacts DEF InBlock
  <2>5. /\ IsList(logs \o new) /\ Len(logs \o new) = Len(logs) + Len(new)
        /\ \A i \in 1..(Len(logs) + Len(new)) :
              (logs \o new)[i] = IF i <= Len(logs) THEN logs[i] ELSE new[i - Len(logs)]
    BY <2>3, ListJoin DEF ChainNumbered, InBlock
  <2>6. ASSUME NEW i \in 1..Len(logs \o new)
        PROVE  (logs \o new)[i].block = Len(chain) + 1
    <3>1. CASE i <= Len(logs)
      BY <1>1, <2>4, <2>5, <3>1 DEF ChainNumbered, InBlock
    <3>2. CASE ~(i <= Len(logs))
      <4>1. i - Len(logs) \in 1..Len(new)
        BY <1>1, <2>4, <2>5, <3>2
      <4>2. QED
        BY <2>3, <2>5, <3>2, <4>1 DEF InBlock
    <3>3. QED
      BY <3>1, <3>2
  <2>7. InBlock(logs \o new, Len(chain) + 1)
    BY <2>5, <2>6 DEF InBlock
  <2>8. QED
    BY <2>2, <2>5, <2>7 DEF ChainNumbered
<1>3. CASE Mine
  <2> DEFINE block == [logs |-> logs, after |-> Truth]
  <2>1. chain' = Append(chain, block) /\ logs' = <<>> /\ block.logs = logs
    BY <1>3 DEF Mine
  <2> HIDE DEF block
  <2>2. /\ IsList(chain') /\ Len(chain') = Len(chain) + 1
        /\ \A i \in 1..Len(chain) : chain'[i] = chain[i]
        /\ chain'[Len(chain) + 1] = block
    BY <2>1, ListAppend DEF ChainNumbered
  <2>3. ASSUME NEW b \in 1..Len(chain') PROVE InBlock(chain'[b].logs, b)
    <3>1. b \in 1..Len(chain) \/ b = Len(chain) + 1
      BY <1>1, <2>2
    <3>2. QED
      BY <2>1, <2>2, <3>1 DEF ChainNumbered
  <2>4. InBlock(logs', Len(chain') + 1)
    BY <2>1, EmptyList DEF InBlock
  <2>5. QED
    BY <2>1, <2>2, <2>3, <2>4, EmptyList DEF ChainNumbered
<1>4. CASE Reorg
  <2> DEFINE n == Tip - ReorgDepth
  <2>1. n \in 1..Len(chain) /\ chain' = SubSeq(chain, 1, n) /\ logs' = <<>>
    BY <1>1, <1>4, LogAssumption DEF Reorg, Tip
  <2> HIDE DEF n
  <2>2. /\ IsList(chain') /\ Len(chain') = n
        /\ \A i \in 1..n : chain'[i] = chain[i]
    <3>1. PICK S : chain \in Seq(S)
      BY DEF ChainNumbered, IsList
    <3>2. \A i \in 1..n : chain[i] \in S
      BY <1>1, <2>1, <3>1
    <3>3. /\ SubSeq(chain, 1, n) \in Seq(S)
          /\ Len(SubSeq(chain, 1, n)) = IF 1 <= n THEN n - 1 + 1 ELSE 0
          /\ \A i \in 1..(n - 1 + 1) : SubSeq(chain, 1, n)[i] = chain[1 + i - 1]
      BY <2>1, <3>2, SubSeqProperties
    <3>4. QED
      BY <1>1, <2>1, <3>3 DEF IsList
  <2>3. \A b \in 1..Len(chain') : InBlock(chain'[b].logs, b)
    BY <1>1, <2>1, <2>2 DEF ChainNumbered
  <2>4. InBlock(logs', Len(chain') + 1)
    BY <2>1, EmptyList DEF InBlock
  <2>5. QED
    BY <2>1, <2>2, <2>3, <2>4, EmptyList DEF ChainNumbered
<1>5. CASE UNCHANGED chainVars
  BY <1>5 DEF chainVars, ChainNumbered
<1>6. QED
  BY <1>2, <1>3, <1>4, <1>5 DEF ChainNext

-----------------------------------------------------------------------------
(***************************************************************************)
(* The cursor.  What the writer moves over the file is the projection in   *)
(* memory, which is never behind the file; a restart takes up the file's.  *)
(***************************************************************************)
CursorInv ==
    /\ ChainNumbered /\ to \in Int
    /\ writing # "no" => pc = "save"
    /\ pc # "down" => HasCursor(state)
    /\ main # Absent => HasCursor(main)
    /\ pc # "down" /\ main # Absent => main.lastBlock <= state.lastBlock
    /\ writing = "rename" => tmp = state

\* The file moves only when it is replaced by what is in memory.
NeverBack == main # Absent => main' # Absent /\ main'.lastBlock >= main.lastBlock

LEMMA CursorStarts == IndexerInit => CursorInv
<1> SUFFICES ASSUME IndexerInit PROVE CursorInv
  OBVIOUS
<1>1. /\ chain = <<[logs |-> <<>>, after |-> Truth]>> /\ logs = <<>>
      /\ pc = "down" /\ main = Absent /\ writing = "no" /\ to = 0
  BY DEF IndexerInit, ChainInit, DurableInit
<1>2. ChainNumbered
  <2> DEFINE block == [logs |-> <<>>, after |-> Truth]
  <2>1. block.logs = <<>> /\ chain = <<block>>
    BY <1>1
  <2> HIDE DEF block
  <2>2. Len(chain) = 1 /\ chain[1] = block
    BY <2>1
  <2>3. \A b \in 1..Len(chain) : InBlock(chain[b].logs, b)
    BY <2>1, <2>2, EmptyList DEF InBlock
  <2>4. IsList(chain)
    BY <2>1, ShortLists
  <2>5. InBlock(logs, Len(chain) + 1)
    <3>1. \A b : InBlock(<<>>, b)
      BY EmptyList DEF InBlock
    <3>2. QED
      BY <1>1, <3>1
  <2>6. QED
    BY <1>1, <2>3, <2>4, <2>5, EmptyList DEF ChainNumbered
<1>3. QED
  BY <1>1, <1>2 DEF CursorInv

\* What a restart has in memory stands where the file stood.
LEMMA RestartKeepsCursor ==
    ASSUME NEW file, file # Absent => HasCursor(file)
    PROVE  /\ HasCursor(Resumed(file))
           /\ file # Absent => Resumed(file).lastBlock = file.lastBlock
<1>1. CASE file = Absent
  <2>1. "lastBlock" \in DOMAIN P!EmptyState
    BY DEF P!EmptyState
  <2>2. (IF StartBlock > 0 THEN StartBlock - 1 ELSE 0) \in Nat
    BY IndexerAssumption
  <2>3. Resumed(file) =
           [P!EmptyState EXCEPT !.lastBlock = IF StartBlock > 0 THEN StartBlock - 1 ELSE 0]
    BY <1>1 DEF Resumed
  <2>4. QED
    BY <1>1, <2>1, <2>2, <2>3 DEF HasCursor
<1>2. CASE file # Absent
  <2>1. Resumed(file) = P!Deserialize(file)
    BY <1>2 DEF Resumed
  <2>2. ASSUME NEW x
        PROVE  /\ HasCursor([file EXCEPT !.queuedExitShares = x])
               /\ [file EXCEPT !.queuedExitShares = x].lastBlock = file.lastBlock
    <3>1. "lastBlock" \in DOMAIN file /\ file.lastBlock \in Nat
      BY <1>2 DEF HasCursor
    <3>2. "lastBlock" \in DOMAIN [file EXCEPT !.queuedExitShares = x]
      BY <3>1
    <3>3. [file EXCEPT !.queuedExitShares = x].lastBlock = file.lastBlock
      BY <3>1
    <3>4. QED
      BY <3>1, <3>2, <3>3 DEF HasCursor
  <2>3. QED
    BY <2>1, <2>2 DEF P!Deserialize
<1>3. QED
  BY <1>1, <1>2

\* A batch that was fetched moves the projection forward, folded or refused.
LEMMA FetchMovesCursor ==
    ASSUME CursorInv, FetchAndFold
    PROVE  HasCursor(state') /\ state.lastBlock <= state'.lastBlock
<1>1. HasCursor(state) /\ state.lastBlock \in Nat /\ ChainNumbered /\ to \in Int
  BY DEF FetchAndFold, CursorInv, HasCursor
<1>2. From \in Nat /\ state.lastBlock <= From
  BY <1>1 DEF From, P!ResumeCursor
<1>3. Len(chain) \in Nat
  BY <1>1, ListFacts DEF ChainNumbered
<1>4. PICK tip \in (IF Tip > NodeLag THEN Tip - NodeLag ELSE 0)..Tip :
         LET batch == Fetched(LogsOf(From, to, tip))
             s     == P!ApplyAll(state, batch)
         IN  state' = s \/ state' = AdvancedTo(s, to)
  BY DEF FetchAndFold
<1> DEFINE batch == Fetched(LogsOf(From, to, tip))
           s     == P!ApplyAll(state, batch)
<1>5. NotBefore(batch, From)
  <2>1. tip \in 0..Len(chain)
    BY <1>3, IndexerAssumption DEF Tip
  <2>2. QED
    BY <1>1, <1>2, <2>1, LogsNotBefore, FetchedNotBefore
<1> HIDE DEF batch
<1>6. HasCursor(s) /\ s.lastBlock \in Nat /\ state.lastBlock <= s.lastBlock
  BY <1>1, <1>2, <1>5, BatchMovesCursor DEF HasCursor
<1>7. state' = s \/ state' = AdvancedTo(s, to)
  BY <1>4 DEF batch
<1> HIDE DEF s
<1>8. CASE state' = s
  BY <1>6, <1>8
<1>9. CASE state' = AdvancedTo(s, to) /\ s.lastBlock < to
  <2>1. state' = [s EXCEPT !.lastBlock = to, !.lastLogIndex = -1]
    BY <1>9 DEF AdvancedTo
  <2>2. "lastBlock" \in DOMAIN state' /\ state'.lastBlock = to
    BY <1>6, <2>1 DEF HasCursor
  <2>3. to \in Nat /\ state.lastBlock <= to
    BY <1>1, <1>6, <1>9
  <2>4. QED
    BY <2>2, <2>3 DEF HasCursor
<1>10. CASE state' = AdvancedTo(s, to) /\ ~(s.lastBlock < to)
  BY <1>6, <1>10 DEF AdvancedTo
<1>11. QED
  BY <1>7, <1>8, <1>9, <1>10

\* Every step of the writer leaves the file alone but the rename.
LEMMA WriterMoves ==
    ASSUME CursorInv, pc = "save", UNCHANGED <<state, to, chainVars>>, pc' = "save",
           BeginWrite \/ WriterSteps(state)
    PROVE  CursorInv' /\ main' = main
<1>1. main' = main
  BY DEF BeginWrite, WriterSteps, Shift, StartCopy, EndCopy, StartTemp, EndTemp, files
<1>2. writing' = "rename" => tmp' = state
  BY DEF BeginWrite, WriterSteps, Shift, StartCopy, EndCopy, StartTemp, EndTemp
<1>3. ChainNumbered'
  BY ChainSteps DEF CursorInv
<1>4. QED
  BY <1>1, <1>2, <1>3 DEF CursorInv, HasCursor

LEMMA CursorSteps ==
    ASSUME ~HasCursor(Absent),
           CursorInv, [IndexerNext]_indexerVars
    PROVE  CursorInv' /\ NeverBack
<1>1. ChainNumbered'
  <2>1. ChainNext \/ UNCHANGED chainVars
    BY DEF IndexerNext, Process, Start, Poll, FetchAndFold, Save, Exit, FetchFails, SaveFails,
       Stop, Crash, Dies, indexerVars
  <2>2. QED
    BY <2>1, ChainSteps DEF CursorInv
<1>2. main # Absent => main.lastBlock \in Nat
  BY DEF CursorInv, HasCursor
<1>3. CASE ChainNext /\ UNCHANGED <<durableVars, processVars>>
  BY <1>1, <1>2, <1>3 DEF CursorInv, NeverBack, HasCursor, durableVars, files, writer, processVars
<1>4. CASE Start
  <2>1. /\ pc' = "idle" /\ state' = Resumed(main) /\ main' = main /\ to' = to
        /\ writing' = writing /\ tmp' = tmp
    BY <1>4 DEF Start, durableVars, files, writer
  <2>2. /\ HasCursor(Resumed(main))
        /\ main # Absent => Resumed(main).lastBlock = main.lastBlock
    BY RestartKeepsCursor DEF CursorInv
  <2>3. writing = "no"
    BY <1>4 DEF Start, CursorInv
  <2>4. QED
    BY <1>1, <1>2, <2>1, <2>2, <2>3 DEF CursorInv, NeverBack, HasCursor
<1>5. CASE Poll
  <2>1. /\ pc = "idle" /\ pc' = "fetch" /\ state' = state /\ main' = main
        /\ writing' = writing /\ tmp' = tmp
    BY <1>5 DEF Poll, durableVars, files, writer
  <2>2. to' \in Int
    <3>1. Tip \in Nat /\ From \in Int
      <4>1. state.lastBlock \in Nat
        BY <2>1 DEF CursorInv, HasCursor
      <4>2. QED
        BY <4>1, ListFacts DEF CursorInv, ChainNumbered, Tip, From, P!ResumeCursor
    <3>2. PICK head \in (Tip - NodeLag)..Tip :
             to' \in {SafeHead(head), From + BatchBlocks - 1}
      BY <1>5 DEF Poll
    <3>3. QED
      BY <3>1, <3>2, IndexerAssumption DEF SafeHead
  <2>3. QED
    BY <1>1, <1>2, <2>1, <2>2 DEF CursorInv, NeverBack, HasCursor
<1>6. CASE FetchAndFold
  <2>1. /\ pc = "fetch" /\ pc' \in {"idle", "save"} /\ main' = main /\ to' = to
        /\ writing' = writing /\ tmp' = tmp
    BY <1>6 DEF FetchAndFold, durableVars, files, writer
  <2>2. HasCursor(state') /\ state.lastBlock <= state'.lastBlock
    BY <1>6, FetchMovesCursor
  <2>3. writing = "no" /\ state.lastBlock \in Nat
    BY <2>1 DEF CursorInv, HasCursor
  <2>4. QED
    BY <1>1, <1>2, <2>1, <2>2, <2>3 DEF CursorInv, NeverBack, HasCursor
<1>7. CASE Save
  <2>1. CASE (BeginWrite \/ WriterSteps(state)) /\ UNCHANGED pc
    <3>1. CursorInv' /\ main' = main
      BY <1>7, <2>1, WriterMoves DEF Save
    <3>2. QED
      BY <1>2, <3>1 DEF NeverBack
  <2>2. CASE Rename /\ pc' = "idle"
    <3>1. /\ main' = state /\ writing' = "no" /\ state' = state /\ to' = to
          /\ HasCursor(state)
          /\ main # Absent => main.lastBlock <= state.lastBlock
      BY <1>7, <2>2 DEF Save, Rename, CursorInv
    <3>2. state # Absent
      BY <3>1
    <3>3. QED
      BY <1>1, <1>2, <2>2, <3>1, <3>2 DEF CursorInv, NeverBack, HasCursor
  <2>3. QED
    BY <1>7, <2>1, <2>2 DEF Save
<1>8. CASE FetchFails \/ Stop
  <2>1. /\ pc \in {"fetch", "idle"} /\ pc' # "down" /\ state' = state /\ main' = main
        /\ to' = to /\ writing' = writing /\ tmp' = tmp
    BY <1>8 DEF FetchFails, Stop, durableVars, files, writer
  <2>2. QED
    BY <1>1, <1>2, <2>1 DEF CursorInv, NeverBack, HasCursor
<1>9. CASE SaveFails
  <2>1. /\ pc = "save" /\ pc' # "down" /\ state' = state /\ main' = main
        /\ to' = to /\ writing' = "no"
    BY <1>9 DEF SaveFails, WriteFails
  <2>2. QED
    BY <1>1, <1>2, <2>1 DEF CursorInv, NeverBack, HasCursor
<1>10. CASE Exit \/ Crash
  <2>1. pc' = "down" /\ main' = main /\ to' = 0 /\ writing' = "no"
    BY <1>10 DEF Exit, Crash, Dies, WriterDies, files
  <2>2. QED
    BY <1>1, <1>2, <2>1 DEF CursorInv, NeverBack, HasCursor
<1>11. CASE IntervalPasses /\ UNCHANGED <<processVars, chainVars>>
  BY <1>1, <1>2, <1>11 DEF CursorInv, NeverBack, HasCursor, IntervalPasses, files, writer,
     processVars
<1>12. CASE UNCHANGED indexerVars
  BY <1>1, <1>2, <1>12 DEF CursorInv, NeverBack, HasCursor, indexerVars, durableVars, files,
     writer, processVars
<1>13. QED
  BY <1>3, <1>4, <1>5, <1>6, <1>7, <1>8, <1>9, <1>10, <1>11, <1>12 DEF IndexerNext, Process

\* The snapshot's cursor never goes back and a snapshot that is there stays,
\* over crashes between any two calls of the writer, failed calls, restarts,
\* reorganisations and answers of a node that is behind.  The value that stands
\* for no file is taken not to be a projection.
THEOREM CursorNeverGoesBack ==
    ASSUME ~HasCursor(Absent)
    PROVE  IndexerSpec => SnapshotNeverGoesBack
<1>1. CursorInv /\ [IndexerNext]_indexerVars => CursorInv'
  BY CursorSteps
<1>2. CursorInv /\ [IndexerNext]_indexerVars => [NeverBack]_indexerVars
  BY CursorSteps
<1> HIDE DEF NeverBack
<1>3. IndexerSpec => [][NeverBack]_indexerVars
  BY CursorStarts, <1>1, <1>2, PTL DEF IndexerSpec
<1>4. QED
  BY <1>3 DEF SnapshotNeverGoesBack, NeverBack

-----------------------------------------------------------------------------
(***************************************************************************)
(* Folding a list of events none of which is refused.                      *)
(***************************************************************************)
WellFormed(evs) == IsList(evs) /\ \A i \in 1..Len(evs) : ~P!Malformed(evs[i])

\* f holds the projections the fold of evs goes through, from s.
Through(f, s, evs) ==
    f[0] = s /\ \A i \in 1..Len(evs) : f[i] = P!Apply(f[i - 1], evs[i])

\* Where the events are well formed, ApplyAll ends where folding them in turn does.
LEMMA FoldEndsThere ==
    ASSUME NEW s, NEW evs, WellFormed(evs), NEW f, Through(f, s, evs)
    PROVE  P!ApplyAll(s, evs) = f[Len(evs)]
<1> DEFINE n == Len(evs)
           g == CHOOSE h : IsAfter(h, s, evs, n)
           F == {i \in Nat : i <= n => g[i] = f[i]}
<1>1. IsAfter(g, s, evs, n) /\ n \in Nat
  <2>1. n \in Nat
    BY ListFacts DEF WellFormed
  <2>2. \E h : IsAfter(h, s, evs, n)
    BY <2>1, AfterExists
  <2>3. QED
    BY <2>1, <2>2
<1>2. P!ApplyAll(s, evs) = g[n]
  BY AfterMeans
<1>3. f[0] = s /\ \A i \in 1..n : f[i] = P!Apply(f[i - 1], evs[i])
  BY DEF Through
<1>4. \A i \in 1..n : ~P!Malformed(evs[i])
  BY DEF WellFormed
<1> HIDE DEF g, n
<1>5. \A i \in 0..n : g[i] = IF i = 0 THEN s ELSE NextAfter(g[i - 1], evs, i)
  BY <1>1 DEF IsAfter
<1>6. 0 \in F
  BY <1>1, <1>3, <1>5
<1>7. ASSUME NEW i \in Nat, i \in F PROVE i + 1 \in F
  <2> SUFFICES ASSUME i + 1 <= n PROVE g[i + 1] = f[i + 1]
    OBVIOUS
  <2>1. g[i] = f[i]
    BY <1>1, <1>7
  <2>2. i + 1 \in 0..n /\ i + 1 # 0 /\ (i + 1) - 1 = i /\ i + 1 \in 1..n
    BY <1>1
  <2>3. g[i + 1] = NextAfter(g[i], evs, i + 1)
    BY <1>5, <2>2
  <2>4. \A j \in 1..((i + 1) - 1) : j \in 1..n
    BY <1>1, <2>2
  <2>5. g[i + 1] = P!Apply(g[i], evs[i + 1])
    BY <1>4, <2>2, <2>3, <2>4 DEF NextAfter, P!ApplyOrThrow
  <2>6. QED
    BY <1>3, <2>1, <2>2, <2>5
<1>8. Nat \subseteq F
  <2> HIDE DEF F
  <2>1. QED
    BY <1>6, <1>7, NatSetInduction
<1>9. QED
  BY <1>1, <1>2, <1>8 DEF n

\* Well-formed events can be folded in turn.
LEMMA FoldGoesThrough ==
    ASSUME NEW s, NEW evs, WellFormed(evs)
    PROVE  \E f : Through(f, s, evs)
<1> DEFINE n == Len(evs)
<1>1. n \in Nat
  BY ListFacts DEF WellFormed
<1>2. PICK f : IsAfter(f, s, evs, n)
  BY <1>1, AfterExists
<1>3. \A i \in 1..n : ~P!Malformed(evs[i])
  BY DEF WellFormed
<1> HIDE DEF n
<1>4. \A i \in 0..n : f[i] = IF i = 0 THEN s ELSE NextAfter(f[i - 1], evs, i)
  BY <1>2 DEF IsAfter
<1>5. f[0] = s
  BY <1>1, <1>4
<1>6. ASSUME NEW i \in 1..n PROVE f[i] = P!Apply(f[i - 1], evs[i])
  <2>1. i \in 0..n /\ i # 0 /\ \A j \in 1..(i - 1) : j \in 1..n
    BY <1>1
  <2>2. QED
    BY <1>3, <1>4, <2>1 DEF NextAfter, P!ApplyOrThrow
<1>7. QED
  BY <1>5, <1>6 DEF Through, n

\* The fold of one list after another.
LEMMA FoldJoin ==
    ASSUME NEW s, NEW k, NEW l, WellFormed(k), WellFormed(l)
    PROVE  /\ WellFormed(k \o l)
           /\ P!ApplyAll(s, k \o l) = P!ApplyAll(P!ApplyAll(s, k), l)
<1>1. Len(k) \in Nat /\ Len(l) \in Nat
  BY ListFacts DEF WellFormed
<1>2. /\ IsList(k \o l) /\ Len(k \o l) = Len(k) + Len(l)
      /\ \A i \in 1..(Len(k) + Len(l)) :
            (k \o l)[i] = IF i <= Len(k) THEN k[i] ELSE l[i - Len(k)]
  BY ListJoin DEF WellFormed
<1>3. PICK f : Through(f, s, k)
  BY FoldGoesThrough
<1>4. PICK g : Through(g, f[Len(k)], l)
  BY FoldGoesThrough
<1> DEFINE a == Len(k)  c == Len(l)  j == k \o l
           h == [i \in 0..(a + c) |-> IF i <= a THEN f[i] ELSE g[i - a]]
<1>5. /\ a \in Nat /\ c \in Nat /\ Len(j) = a + c
      /\ \A i \in 1..(a + c) : j[i] = IF i <= a THEN k[i] ELSE l[i - a]
  BY <1>1, <1>2
<1>6. /\ f[0] = s /\ \A i \in 1..a : f[i] = P!Apply(f[i - 1], k[i])
      /\ g[0] = f[a] /\ \A i \in 1..c : g[i] = P!Apply(g[i - 1], l[i])
  BY <1>3, <1>4 DEF Through
<1>7. (\A i \in 1..a : ~P!Malformed(k[i])) /\ (\A i \in 1..c : ~P!Malformed(l[i]))
  BY DEF WellFormed
<1>8. P!ApplyAll(s, k) = f[a] /\ P!ApplyAll(f[a], l) = g[c]
  BY <1>3, <1>4, FoldEndsThere
<1> HIDE DEF a, c, j
<1>9. WellFormed(j)
  <2>1. ASSUME NEW i \in 1..Len(j) PROVE ~P!Malformed(j[i])
    <3>1. CASE i <= a
      <4>1. i \in 1..a
        BY <1>5, <3>1
      <4>2. QED
        BY <1>5, <1>7, <4>1
    <3>2. CASE ~(i <= a)
      <4>1. i - a \in 1..c
        BY <1>5, <3>2
      <4>2. QED
        BY <1>5, <1>7, <3>2, <4>1
    <3>3. QED
      BY <3>1, <3>2
  <2>2. QED
    BY <1>2, <2>1 DEF WellFormed, j
<1>10. Through(h, s, j)
  <2>1. h[0] = s
    BY <1>5, <1>6
  <2>2. ASSUME NEW i \in 1..(a + c) PROVE h[i] = P!Apply(h[i - 1], j[i])
    <3>1. CASE i <= a
      <4>1. i \in 1..a /\ i - 1 <= a /\ i \in 0..(a + c) /\ i - 1 \in 0..(a + c)
        BY <1>5, <3>1
      <4>2. h[i] = f[i] /\ h[i - 1] = f[i - 1]
        BY <4>1
      <4> HIDE DEF h
      <4>3. QED
        BY <1>5, <1>6, <3>1, <4>1, <4>2
    <3>2. CASE ~(i <= a)
      <4>1. /\ i - a \in 1..c /\ i \in 0..(a + c) /\ i - 1 \in 0..(a + c)
            /\ (i - a) - 1 = (i - 1) - a
            /\ (i - 1 <= a => i - 1 = a /\ (i - 1) - a = 0)
        BY <1>5, <3>2
      <4>2. h[i] = g[i - a]
        BY <3>2, <4>1
      <4>3. h[i - 1] = IF i - 1 <= a THEN f[i - 1] ELSE g[(i - 1) - a]
        BY <4>1
      <4> HIDE DEF h
      <4>4. h[i - 1] = g[(i - a) - 1]
        BY <1>6, <4>1, <4>3
      <4>5. j[i] = l[i - a]
        BY <1>5, <3>2
      <4>6. QED
        BY <1>6, <4>1, <4>2, <4>4, <4>5
    <3>3. QED
      BY <3>1, <3>2
  <2> HIDE DEF h
  <2>3. QED
    BY <1>5, <2>1, <2>2 DEF Through
<1>11. h[a + c] = g[c]
  <2>1. a + c \in 0..(a + c) /\ (a + c) - a = c /\ (a + c <= a => c = 0 /\ a + c = a)
    BY <1>5
  <2>2. h[a + c] = IF a + c <= a THEN f[a + c] ELSE g[(a + c) - a]
    BY <2>1
  <2> HIDE DEF h
  <2>3. QED
    BY <1>6, <2>1, <2>2
<1> HIDE DEF h
<1>12. P!ApplyAll(s, j) = g[c]
  BY <1>5, <1>9, <1>10, <1>11, FoldEndsThere
<1>13. QED
  BY <1>8, <1>9, <1>12 DEF a, c, j

\* The fold of no event, of one, of two and of three.
LEMMA FoldFew ==
    ASSUME NEW s, NEW evs, WellFormed(evs)
    PROVE  /\ Len(evs) = 0 => P!ApplyAll(s, evs) = s
           /\ Len(evs) = 1 => P!ApplyAll(s, evs) = P!Apply(s, evs[1])
           /\ Len(evs) = 2 => P!ApplyAll(s, evs) = P!Apply(P!Apply(s, evs[1]), evs[2])
           /\ Len(evs) = 3 => P!ApplyAll(s, evs)
                                = P!Apply(P!Apply(P!Apply(s, evs[1]), evs[2]), evs[3])
<1>1. PICK f : Through(f, s, evs)
  BY FoldGoesThrough
<1>2. P!ApplyAll(s, evs) = f[Len(evs)]
  BY <1>1, FoldEndsThere
<1>3. f[0] = s /\ \A i \in 1..Len(evs) : f[i] = P!Apply(f[i - 1], evs[i])
  BY <1>1 DEF Through
<1>4. ASSUME NEW n \in 1..Len(evs), Len(evs) \in 1..3
      PROVE  n - 1 \in 0..2 /\ f[n] = P!Apply(f[n - 1], evs[n])
  BY <1>3, <1>4
<1>5. Len(evs) >= 1 /\ Len(evs) \in 1..3 => f[1] = P!Apply(s, evs[1])
  BY <1>3
<1>6. Len(evs) >= 2 /\ Len(evs) \in 1..3 => f[2] = P!Apply(f[1], evs[2])
  BY <1>3
<1>7. Len(evs) = 3 => f[3] = P!Apply(f[2], evs[3])
  BY <1>3
<1>8. QED
  BY <1>2, <1>3, <1>5, <1>6, <1>7

\* The cursor does not pass the last block that was folded.
LEMMA FoldNotPast ==
    ASSUME NEW s, NEW evs, NEW last \in Nat, HasCursor(s), s.lastBlock <= last,
           WellFormed(evs), \A i \in 1..Len(evs) : evs[i].block \in 0..last
    PROVE  HasCursor(P!ApplyAll(s, evs)) /\ P!ApplyAll(s, evs).lastBlock <= last
<1> DEFINE n == Len(evs)
<1>1. PICK f : Through(f, s, evs)
  BY FoldGoesThrough
<1>2. P!ApplyAll(s, evs) = f[n]
  BY <1>1, FoldEndsThere
<1>3. n \in Nat /\ f[0] = s /\ \A i \in 1..n : f[i] = P!Apply(f[i - 1], evs[i])
  BY <1>1, ListFacts DEF Through, WellFormed
<1>4. \A i \in 1..n : evs[i].block \in 0..last
  OBVIOUS
<1> DEFINE Short(t) == HasCursor(t) /\ t.lastBlock <= last
           F == {i \in Nat : i <= n => Short(f[i])}
<1> HIDE DEF n
<1>5. 0 \in F
  BY <1>3
<1>6. ASSUME NEW i \in Nat, i \in F PROVE i + 1 \in F
  <2> SUFFICES ASSUME i + 1 <= n PROVE Short(f[i + 1])
    OBVIOUS
  <2>1. Short(f[i])
    BY <1>3, <1>6
  <2>2. i + 1 \in 1..n /\ (i + 1) - 1 = i
    BY <1>3
  <2>3. f[i + 1] = P!Apply(f[i], evs[i + 1])
    BY <1>3, <2>2
  <2>4. evs[i + 1].block \in Nat /\ evs[i + 1].block <= last
    BY <1>4, <2>2
  <2>5. QED
    BY <2>1, <2>3, <2>4, ApplyMovesCursor
<1>7. Nat \subseteq F
  <2> HIDE DEF F
  <2>1. QED
    BY <1>5, <1>6, NatSetInduction
<1>8. QED
  BY <1>2, <1>3, <1>7

-----------------------------------------------------------------------------
(***************************************************************************)
(* What the log says of the contracts.                                     *)
(***************************************************************************)
Fields == {"known", "kind", "attested", "operator", "vaultCount", "gain", "loss", "fees",
           "shares", "totalShares", "memberCount", "pendingMembers", "pendingCount",
           "queuedExits", "queuedExitShares", "exitQueuedCount", "exitSettledCount",
           "modeFSettledCount", "proposals", "activeProposal", "adapters", "swaps",
           "lastBlock", "lastLogIndex"}

\* The projection s says of the contracts, wherever its cursor stands, that they
\* are in the state t.
VaultAgrees(s, t) ==
    /\ s.known = (t.books.kind # "none")
    /\ s.known => s.kind = t.books.kind /\ s.attested
    /\ s.vaultCount = IF s.known THEN 1 ELSE 0
    /\ s.operator = t.books.operator

RecordAgrees(s, t) ==
    s.gain = t.books.gain /\ s.loss = t.books.loss /\ s.fees = t.books.fees

SharesAgree(s, t) ==
    s.shares = t.shares /\ s.totalShares = t.total /\ s.memberCount = t.holders

RowsAgree(s, t) ==
    s.pendingMembers = t.books.open /\ s.pendingCount = Cardinality(t.books.open)

ExitsAgree(s, t) ==
    /\ s.queuedExits = {m \in Member : t.queued[m] > 0} /\ s.queuedExitShares = t.queued
    /\ s.exitQueuedCount = t.books.queuedEver
    /\ s.exitSettledCount = t.books.settled /\ s.modeFSettledCount = t.books.settledQueued

BallotAgrees(s, t) ==
    s.proposals = t.books.proposals /\ s.activeProposal = t.books.active

FillsAgree(s, t) ==
    s.adapters = t.books.adapters /\ s.swaps = t.books.swaps

Mirrors(s, t) ==
    /\ Fields \subseteq DOMAIN s
    /\ VaultAgrees(s, t) /\ RecordAgrees(s, t) /\ SharesAgree(s, t) /\ RowsAgree(s, t)
    /\ ExitsAgree(s, t) /\ BallotAgrees(s, t) /\ FillsAgree(s, t)

\* Among the events is one of that name.
Has(evs, name) == \E i \in 1..Len(evs) : evs[i].name = name

\* The vault is announced before or among the events, if it is there after them.
Announced(t, evs) == t.books.kind # "none" \/ Has(evs, "VaultCreated")

\* The events are what leads the contracts from one state to the other: their
\* fold does; the vault's own events and the fills of its adapters come with
\* what makes the source poll for them.
Tells(before, evs, after) ==
    /\ WellFormed(evs)
    /\ \A s : Mirrors(s, before) => Mirrors(P!ApplyAll(s, evs), after)
    /\ after.books.kind # "none" => Announced(before, evs)
    /\ \A i \in 1..Len(evs) :
          /\ evs[i].name \in VaultEvents => Announced(before, evs)
          /\ evs[i].name = "RebalanceExecuted" => evs[i].adapter \in Adapter
          /\ evs[i].name = "SwapExecuted" =>
                \E j \in 1..Len(evs) : /\ evs[j].name = "RebalanceExecuted"
                                       /\ evs[j].adapter = evs[i].adapter

\* Where no projection sees a difference, no event is missing.
LEMMA NothingTold ==
    ASSUME NEW before, NEW after, \A s : Mirrors(s, before) => Mirrors(s, after),
           after.books.kind = before.books.kind
    PROVE  Tells(before, <<>>, after)
<1>1. WellFormed(<<>>) /\ Len(<<>>) = 0
  BY EmptyList DEF WellFormed
<1>2. \A s : P!ApplyAll(s, <<>>) = s
  BY <1>1, FoldFew
<1>3. QED
  BY <1>1, <1>2 DEF Tells, Announced

\* One list after another.
LEMMA ToldInTurn ==
    ASSUME NEW t0, NEW k, NEW t1, NEW l, NEW t2, Tells(t0, k, t1), Tells(t1, l, t2)
    PROVE  Tells(t0, k \o l, t2)
<1> DEFINE j == k \o l
<1>1. WellFormed(k) /\ WellFormed(l)
  BY DEF Tells
<1>2. WellFormed(j) /\ \A s : P!ApplyAll(s, j) = P!ApplyAll(P!ApplyAll(s, k), l)
  BY <1>1, FoldJoin
<1>3. /\ Len(k) \in Nat /\ Len(l) \in Nat /\ Len(j) = Len(k) + Len(l)
      /\ \A i \in 1..(Len(k) + Len(l)) : j[i] = IF i <= Len(k) THEN k[i] ELSE l[i - Len(k)]
  BY <1>1, ListFacts, ListJoin DEF WellFormed
<1> HIDE DEF j
<1>4. \A s : Mirrors(s, t0) => Mirrors(P!ApplyAll(s, j), t2)
  BY <1>2 DEF Tells
<1>5. ASSUME NEW i \in 1..Len(k) PROVE i \in 1..Len(j) /\ j[i] = k[i]
  BY <1>3
<1>6. ASSUME NEW i \in 1..Len(l) PROVE Len(k) + i \in 1..Len(j) /\ j[Len(k) + i] = l[i]
  <2>1. Len(k) + i \in 1..(Len(k) + Len(l)) /\ ~(Len(k) + i <= Len(k)) /\ (Len(k) + i) - Len(k) = i
    BY <1>3
  <2>2. QED
    BY <1>3, <2>1
<1>7. Announced(t0, k) => Announced(t0, j)
  BY <1>5 DEF Announced, Has
<1>8. Has(l, "VaultCreated") => Announced(t0, j)
  BY <1>6 DEF Announced, Has
<1>9. Announced(t1, l) => Announced(t0, j)
  BY <1>7, <1>8 DEF Tells, Announced
<1>10. ASSUME NEW i \in 1..Len(j)
       PROVE  /\ j[i].name \in VaultEvents => Announced(t0, j)
              /\ j[i].name = "RebalanceExecuted" => j[i].adapter \in Adapter
              /\ j[i].name = "SwapExecuted" =>
                    \E n \in 1..Len(j) : /\ j[n].name = "RebalanceExecuted"
                                         /\ j[n].adapter = j[i].adapter
  <2>1. CASE i <= Len(k)
    <3>1. i \in 1..Len(k) /\ j[i] = k[i]
      BY <1>3, <2>1
    <3>2. QED
      BY <1>5, <1>7, <3>1 DEF Tells
  <2>2. CASE ~(i <= Len(k))
    <3>1. i - Len(k) \in 1..Len(l) /\ j[i] = l[i - Len(k)]
      BY <1>3, <2>2
    <3> DEFINE d == i - Len(k)
    <3>2. d \in 1..Len(l) /\ j[i] = l[d]
      BY <3>1
    <3> HIDE DEF d
    <3>3. j[i].name \in VaultEvents => Announced(t0, j)
      BY <1>9, <3>2 DEF Tells
    <3>4. j[i].name = "RebalanceExecuted" => j[i].adapter \in Adapter
      BY <3>2 DEF Tells
    <3>5. ASSUME j[i].name = "SwapExecuted"
          PROVE  \E n \in 1..Len(j) : /\ j[n].name = "RebalanceExecuted"
                                      /\ j[n].adapter = j[i].adapter
      <4>1. PICK n \in 1..Len(l) : /\ l[n].name = "RebalanceExecuted"
                                   /\ l[n].adapter = l[d].adapter
        BY <3>2, <3>5 DEF Tells
      <4>2. QED
        BY <1>6, <3>2, <4>1
    <3>6. QED
      BY <3>3, <3>4, <3>5
  <2>3. QED
    BY <2>1, <2>2
<1>11. QED
  BY <1>2, <1>4, <1>9, <1>10 DEF Tells, j

-----------------------------------------------------------------------------
\* Every block says how the contracts came from one block to the next.
ChainTold ==
    \A b \in 2..Len(chain) : Tells(chain[b - 1].after, chain[b].logs, chain[b].after)

\* A node that has the last block of a range answers how the contracts came
\* through the range, with events of no later block.
LEMMA RangeTold ==
    ASSUME ChainNumbered, ChainTold, NEW from \in 2..Len(chain), NEW last \in from..Len(chain),
           NEW n \in last..Len(chain)
    PROVE  /\ Tells(chain[from - 1].after, LogsOf(from, last, n), chain[last].after)
           /\ \A i \in 1..Len(LogsOf(from, last, n)) : LogsOf(from, last, n)[i].block \in 0..last
<1> DEFINE f == CHOOSE g : IsLog(g, from, last, n)
           At(b) == IF b < from THEN from - 1 ELSE IF b <= last THEN b ELSE last
           Early(evs) == \A i \in 1..Len(evs) : evs[i].block \in 0..last
           Good(b) == Tells(chain[from - 1].after, f[b], chain[At(b)].after) /\ Early(f[b])
           F == {b \in Nat : b <= n => Good(b)}
<1>1. Len(chain) \in Nat /\ n \in Nat /\ from \in Nat /\ last \in Nat /\ from >= 2
      /\ from <= last /\ last <= n /\ n <= Len(chain)
  BY ListFacts DEF ChainNumbered
<1>2. IsLog(f, from, last, n)
  <2>1. \E g : IsLog(g, from, last, n)
    BY <1>1, LogExists
  <2>2. QED
    BY <2>1
<1> HIDE DEF f
<1>3. \A b \in 0..n : f[b] = IF b = 0 THEN <<>> ELSE NextLog(f[b - 1], from, last, b)
  BY <1>2 DEF IsLog
<1>4. 0 \in F
  <2>1. f[0] = <<>> /\ At(0) = from - 1
    BY <1>1, <1>3
  <2>2. Tells(chain[from - 1].after, <<>>, chain[from - 1].after)
    BY NothingTold
  <2>3. Early(<<>>)
    BY EmptyList
  <2>4. QED
    BY <2>1, <2>2, <2>3
<1>5. ASSUME NEW b \in Nat, b \in F PROVE b + 1 \in F
  <2> SUFFICES ASSUME b + 1 <= n PROVE Good(b + 1)
    OBVIOUS
  <2>1. Good(b)
    BY <1>1, <1>5
  <2>2. f[b + 1] = NextLog(f[b], from, last, b + 1)
    <3>1. b + 1 \in 0..n /\ b + 1 # 0 /\ (b + 1) - 1 = b
      BY <1>1
    <3>2. QED
      BY <1>3, <3>1
  <2>3. CASE b + 1 \in from..last
    <3> DEFINE l == chain[b + 1].logs
    <3>1. At(b) = b /\ At(b + 1) = b + 1 /\ b + 1 \in 2..Len(chain) /\ (b + 1) - 1 = b
      BY <1>1, <2>3
    <3>2. Tells(chain[b].after, l, chain[b + 1].after)
      BY <3>1 DEF ChainTold
    <3>3. f[b + 1] = f[b] \o l
      BY <2>2, <2>3 DEF NextLog
    <3>4. Tells(chain[from - 1].after, f[b + 1], chain[b + 1].after)
      <4>1. Tells(chain[from - 1].after, f[b], chain[b].after)
        BY <2>1, <3>1
      <4> HIDE DEF l
      <4>2. QED
        BY <3>2, <3>3, <4>1, ToldInTurn
    <3>5. Early(l)
      <4>1. b + 1 \in 1..Len(chain) /\ b + 1 \in 0..last
        BY <1>1, <2>3
      <4>2. QED
        BY <4>1 DEF ChainNumbered, InBlock
    <3>6. Early(f[b + 1])
      <4> DEFINE k == f[b]
      <4>1. IsList(k) /\ IsList(l)
        BY <2>1, <3>2 DEF Tells, WellFormed
      <4>2. Early(k)
        BY <2>1
      <4> HIDE DEF k, l
      <4>3. /\ Len(k) \in Nat /\ Len(l) \in Nat /\ Len(k \o l) = Len(k) + Len(l)
            /\ \A i \in 1..(Len(k) + Len(l)) :
                  (k \o l)[i] = IF i <= Len(k) THEN k[i] ELSE l[i - Len(k)]
        BY <4>1, ListFacts, ListJoin
      <4>4. ASSUME NEW i \in 1..Len(k \o l) PROVE (k \o l)[i].block \in 0..last
        <5>1. CASE i <= Len(k)
          BY <4>2, <4>3, <5>1
        <5>2. CASE ~(i <= Len(k))
          <6>1. i - Len(k) \in 1..Len(l)
            BY <4>3, <5>2
          <6>2. QED
            BY <3>5, <4>3, <5>2, <6>1
        <5>3. QED
          BY <5>1, <5>2
      <4>5. QED
        BY <3>3, <4>4 DEF k
    <3>7. QED
      BY <3>1, <3>4, <3>6
  <2>4. CASE b + 1 \notin from..last
    <3>1. At(b + 1) = At(b)
      BY <1>1, <2>4
    <3>2. f[b + 1] = f[b]
      BY <2>2, <2>4 DEF NextLog
    <3>3. QED
      BY <2>1, <3>1, <3>2
  <2>5. QED
    BY <2>3, <2>4
<1>6. Nat \subseteq F
  <2> HIDE DEF F
  <2>1. QED
    BY <1>4, <1>5, NatSetInduction
<1>7. Good(n) /\ At(n) = last
  BY <1>1, <1>6
<1>8. LogsOf(from, last, n) = f[n]
  BY LogMeans DEF f
<1>9. QED
  BY <1>7, <1>8

-----------------------------------------------------------------------------
\* The next entry of Discovered, from the one before it.
NextKnown(was, evs, i) ==
    IF Learns(was, evs, evs[i]) THEN was \union {evs[i].adapter} ELSE was

IsKnown(f, evs, n) ==
    f = [i \in 0..n |-> IF i = 0 THEN discovered ELSE NextKnown(f[i - 1], evs, i)]

\* Discovered is the last entry of a solution of its recursion.
LEMMA KnownMeans ==
    ASSUME NEW evs
    PROVE  Discovered(evs) = (CHOOSE f : IsKnown(f, evs, Len(evs)))[Len(evs)]
BY DEF Discovered, IsKnown, NextKnown

\* That recursion has a solution.
LEMMA KnownExists ==
    ASSUME NEW evs, NEW n \in Nat
    PROVE  \E f : IsKnown(f, evs, n)
<1> DEFINE F == {k \in Nat : \E f : IsKnown(f, evs, k)}
<1>1. 0 \in F
  <2>1. IsKnown([i \in 0..0 |-> discovered], evs, 0)
    BY DEF IsKnown
  <2>2. QED
    BY <2>1
<1>2. ASSUME NEW k \in Nat, k \in F PROVE k + 1 \in F
  <2>1. PICK f : IsKnown(f, evs, k)
    BY <1>2
  <2> DEFINE g == [i \in 0..(k + 1) |->
                     IF i <= k THEN f[i] ELSE NextKnown(f[k], evs, k + 1)]
  <2>2. \A i \in 0..k : f[i] = IF i = 0 THEN discovered ELSE NextKnown(f[i - 1], evs, i)
    BY <2>1 DEF IsKnown
  <2>3. \A i \in 0..(k + 1) :
           g[i] = IF i = 0 THEN discovered ELSE NextKnown(g[i - 1], evs, i)
    <3> SUFFICES ASSUME NEW i \in 0..(k + 1)
                 PROVE  g[i] = IF i = 0 THEN discovered ELSE NextKnown(g[i - 1], evs, i)
      OBVIOUS
    <3>1. CASE i <= k
      <4>1. g[i] = f[i]
        BY <3>1
      <4>2. i # 0 => g[i - 1] = f[i - 1]
        BY <3>1
      <4> HIDE DEF g
      <4>3. QED
        BY <2>2, <3>1, <4>1, <4>2
    <3>2. CASE i = k + 1
      <4>1. g[i] = NextKnown(f[k], evs, k + 1) /\ g[k] = f[k] /\ i # 0 /\ i - 1 = k
        BY <3>2
      <4> HIDE DEF g
      <4>2. QED
        BY <3>2, <4>1
    <3>3. QED
      BY <3>1, <3>2
  <2>4. g = [i \in 0..(k + 1) |-> g[i]]
    OBVIOUS
  <2> HIDE DEF g
  <2>5. IsKnown(g, evs, k + 1)
    BY <2>3, <2>4 DEF IsKnown
  <2>6. QED
    BY <2>5
<1>3. Nat \subseteq F
  <2> HIDE DEF F
  <2>1. QED
    BY <1>1, <1>2, NatSetInduction
<1>4. QED
  BY <1>3

\* Few enough adapters to learn them all.
AdaptersFit ==
    /\ MaxTrackedAdapters \in Nat
    /\ IsFiniteSet(Adapter) /\ Cardinality(Adapter) <= MaxTrackedAdapters

\* A set of adapters that is as large as it may be has every adapter.
LEMMA FullSet ==
    ASSUME AdaptersFit, NEW A \in SUBSET Adapter, NEW a \in Adapter
    PROVE  IF Cardinality(A) < MaxTrackedAdapters THEN TRUE ELSE a \in A
<1>1. IsFiniteSet(A) /\ Cardinality(A) \in Nat /\ Cardinality(Adapter) \in Nat
      /\ Cardinality(A) <= Cardinality(Adapter)
      /\ (Cardinality(A) = Cardinality(Adapter) => A = Adapter)
  BY FS_Subset, FS_CardinalityType DEF AdaptersFit
<1>2. QED
  BY <1>1 DEF AdaptersFit

\* Every adapter of the vault's own events is learned.
LEMMA AllLearned ==
    ASSUME AdaptersFit, discovered \in SUBSET Adapter, NEW evs, IsList(evs), VaultPolled(evs),
           \A i \in 1..Len(evs) : evs[i].name = "RebalanceExecuted" => evs[i].adapter \in Adapter
    PROVE  /\ Discovered(evs) \in SUBSET Adapter
           /\ \A i \in 1..Len(evs) :
                 evs[i].name = "RebalanceExecuted" => evs[i].adapter \in Discovered(evs)
<1> DEFINE n == Len(evs)
           f == CHOOSE g : IsKnown(g, evs, n)
           Good(k) == /\ f[k] \in SUBSET Adapter
                      /\ \A i \in 1..k : evs[i].name = "RebalanceExecuted" => evs[i].adapter \in f[k]
           F == {k \in Nat : k <= n => Good(k)}
<1>1. IsKnown(f, evs, n) /\ n \in Nat
  <2>1. n \in Nat
    BY ListFacts
  <2>2. \E g : IsKnown(g, evs, n)
    BY <2>1, KnownExists
  <2>3. QED
    BY <2>1, <2>2
<1>2. Discovered(evs) = f[n]
  BY KnownMeans
<1>3. \A i \in 1..n : evs[i].name = "RebalanceExecuted" => evs[i].adapter \in Adapter
  OBVIOUS
<1> HIDE DEF f, n
<1>4. \A i \in 0..n : f[i] = IF i = 0 THEN discovered ELSE NextKnown(f[i - 1], evs, i)
  BY <1>1 DEF IsKnown
<1>5. 0 \in F
  BY <1>1, <1>4
<1>6. ASSUME NEW k \in Nat, k \in F PROVE k + 1 \in F
  <2> SUFFICES ASSUME k + 1 <= n PROVE Good(k + 1)
    OBVIOUS
  <2>1. Good(k)
    BY <1>1, <1>6
  <2>2. k + 1 \in 0..n /\ k + 1 # 0 /\ (k + 1) - 1 = k /\ k + 1 \in 1..n
    BY <1>1
  <2>3. f[k + 1] = NextKnown(f[k], evs, k + 1)
    BY <1>4, <2>2
  <2>4. \A i \in 1..(k + 1) : i \in 1..k \/ i = k + 1
    OBVIOUS
  <2>5. CASE evs[k + 1].name = "RebalanceExecuted"
    <3> DEFINE a == evs[k + 1].adapter
    <3>1. a \in Adapter
      BY <1>3, <2>2, <2>5
    <3> HIDE DEF a
    <3>2. f[k + 1] = IF Cardinality(f[k]) < MaxTrackedAdapters THEN f[k] \union {a} ELSE f[k]
      BY <2>3, <2>5 DEF NextKnown, Learns, a
    <3>3. IF Cardinality(f[k]) < MaxTrackedAdapters THEN TRUE ELSE a \in f[k]
      BY <2>1, <3>1, FullSet
    <3>4. f[k + 1] = f[k] \union {a}
      BY <3>2, <3>3
    <3>5. QED
      BY <2>1, <2>4, <3>1, <3>4 DEF a
  <2>6. CASE evs[k + 1].name # "RebalanceExecuted"
    <3>1. f[k + 1] = f[k]
      BY <2>3, <2>6 DEF NextKnown, Learns
    <3>2. QED
      BY <2>1, <2>4, <2>6, <3>1
  <2>7. QED
    BY <2>5, <2>6
<1>7. Nat \subseteq F
  <2> HIDE DEF F
  <2>1. QED
    BY <1>5, <1>6, NatSetInduction
<1>8. QED
  BY <1>1, <1>2, <1>7 DEF n

\* Nothing is learned from a range that does not announce the vault.
LEMMA NoneLearned ==
    ASSUME NEW evs, IsList(evs), ~VaultPolled(evs)
    PROVE  Discovered(evs) = discovered
<1> DEFINE n == Len(evs)
           f == CHOOSE g : IsKnown(g, evs, n)
           F == {k \in Nat : k <= n => f[k] = discovered}
<1>1. IsKnown(f, evs, n) /\ n \in Nat
  <2>1. n \in Nat
    BY ListFacts
  <2>2. \E g : IsKnown(g, evs, n)
    BY <2>1, KnownExists
  <2>3. QED
    BY <2>1, <2>2
<1>2. Discovered(evs) = f[n]
  BY KnownMeans
<1> HIDE DEF f, n
<1>3. \A i \in 0..n : f[i] = IF i = 0 THEN discovered ELSE NextKnown(f[i - 1], evs, i)
  BY <1>1 DEF IsKnown
<1>4. 0 \in F
  BY <1>1, <1>3
<1>5. ASSUME NEW k \in Nat, k \in F PROVE k + 1 \in F
  <2> SUFFICES ASSUME k + 1 <= n PROVE f[k + 1] = discovered
    OBVIOUS
  <2>1. k + 1 \in 0..n /\ k + 1 # 0 /\ (k + 1) - 1 = k /\ k <= n
    BY <1>1
  <2>2. f[k + 1] = NextKnown(f[k], evs, k + 1)
    BY <1>3, <2>1
  <2>3. QED
    BY <1>5, <2>1, <2>2 DEF NextKnown, Learns
<1>6. Nat \subseteq F
  <2> HIDE DEF F
  <2>1. QED
    BY <1>4, <1>5, NatSetInduction
<1>7. QED
  BY <1>1, <1>2, <1>6

\* A list every event of which is polled is fetched whole.
LEMMA AllFetched ==
    ASSUME NEW evs, IsList(evs), \A i \in 1..Len(evs) : Polled(evs, evs[i])
    PROVE  Fetched(evs) = evs
<1> DEFINE n == Len(evs)
           f == CHOOSE g : IsKept(g, evs, n)
           Good(k) == /\ IsList(f[k]) /\ Len(f[k]) = k
                      /\ \A i \in 1..k : f[k][i] = evs[i]
           F == {k \in Nat : k <= n => Good(k)}
<1>1. IsKept(f, evs, n) /\ n \in Nat
  <2>1. n \in Nat
    BY ListFacts
  <2>2. \E g : IsKept(g, evs, n)
    BY <2>1, KeptExists
  <2>3. QED
    BY <2>1, <2>2
<1>2. Fetched(evs) = f[n]
  BY KeptMeans
<1>3. \A i \in 1..n : Polled(evs, evs[i])
  OBVIOUS
<1> HIDE DEF f, n
<1>4. \A i \in 0..n : f[i] = IF i = 0 THEN <<>> ELSE NextKept(f[i - 1], evs, i)
  BY <1>1 DEF IsKept
<1>5. 0 \in F
  BY <1>1, <1>4, EmptyList
<1>6. ASSUME NEW k \in Nat, k \in F PROVE k + 1 \in F
  <2> SUFFICES ASSUME k + 1 <= n PROVE Good(k + 1)
    OBVIOUS
  <2>1. Good(k)
    BY <1>1, <1>6
  <2>2. k + 1 \in 0..n /\ k + 1 # 0 /\ (k + 1) - 1 = k /\ k + 1 \in 1..n
    BY <1>1
  <2>3. f[k + 1] = Append(f[k], evs[k + 1])
    BY <1>3, <1>4, <2>2 DEF NextKept
  <2>4. \A i \in 1..(k + 1) : i \in 1..k \/ i = k + 1
    OBVIOUS
  <2>5. QED
    BY <2>1, <2>3, <2>4, ListAppend
<1>7. Nat \subseteq F
  <2> HIDE DEF F
  <2>1. QED
    BY <1>5, <1>6, NatSetInduction
<1>8. Good(n)
  BY <1>1, <1>7
<1> DEFINE l == f[n]
<1>9. IsList(l) /\ Len(l) = Len(evs) /\ \A i \in 1..Len(evs) : l[i] = evs[i]
  BY <1>8 DEF n
<1> HIDE DEF l
<1>10. l = evs
  <2>1. PICK S : l \in Seq(S)
    BY <1>9 DEF IsList
  <2>2. PICK T : evs \in Seq(T)
    BY DEF IsList
  <2>3. l \in Seq(S \union T) /\ evs \in Seq(S \union T)
    BY <2>1, <2>2, ListGrows
  <2>4. QED
    BY <1>9, <2>3, SeqEqual
<1>11. QED
  BY <1>2, <1>10 DEF l

\* What the source polls of a range is all of it.
LEMMA RangeFetched ==
    ASSUME AdaptersFit, discovered \in SUBSET Adapter, NEW before, NEW evs, NEW after,
           Tells(before, evs, after), Mirrors(state, before)
    PROVE  Fetched(evs) = evs /\ Discovered(evs) \in SUBSET Adapter
<1>1. IsList(evs) /\ DOMAIN evs = 1..Len(evs)
  BY ListFacts DEF Tells, WellFormed
<1>2. Announced(before, evs) <=> VaultPolled(evs)
  BY <1>1 DEF Announced, Has, VaultPolled, Mirrors, VaultAgrees
<1>3. Discovered(evs) \in SUBSET Adapter
  <2>1. CASE VaultPolled(evs)
    BY <1>1, <2>1, AllLearned DEF Tells
  <2>2. CASE ~VaultPolled(evs)
    BY <1>1, <2>2, NoneLearned
  <2>3. QED
    BY <2>1, <2>2
<1>4. ASSUME NEW i \in 1..Len(evs) PROVE Polled(evs, evs[i])
  <2>1. CASE evs[i].name \in VaultEvents
    BY <1>2, <2>1 DEF Polled, Tells, VaultEvents
  <2>2. CASE evs[i].name = "SwapExecuted"
    <3>1. PICK j \in 1..Len(evs) : /\ evs[j].name = "RebalanceExecuted"
                                   /\ evs[j].adapter = evs[i].adapter
      BY <2>2 DEF Tells
    <3>2. VaultPolled(evs)
      BY <1>2, <3>1 DEF Tells, VaultEvents
    <3>3. evs[i].adapter \in Discovered(evs)
      BY <1>1, <3>1, <3>2, AllLearned DEF Tells
    <3>4. evs[i].name \notin VaultEvents
      BY <2>2 DEF VaultEvents
    <3>5. QED
      BY <2>2, <3>3, <3>4 DEF Polled
  <2>3. CASE evs[i].name \notin VaultEvents /\ evs[i].name # "SwapExecuted"
    BY <2>3 DEF Polled
  <2>4. QED
    BY <2>1, <2>2, <2>3
<1>5. QED
  BY <1>1, <1>3, <1>4, AllFetched

-----------------------------------------------------------------------------
(***************************************************************************)
(* What each handler of an event changes.                                  *)
(***************************************************************************)
\* u is s but for the touched fields and the cursor.
Differs(s, u, touched) ==
    /\ Fields \subseteq DOMAIN u
    /\ \A x \in Fields : x \notin touched \union {"lastBlock", "lastLogIndex"} => u[x] = s[x]

\* Apply is the handler and the cursor.
LEMMA CursorPut ==
    ASSUME NEW s, NEW e, NEW u, NEW touched, u = P!Fold(s, e), Differs(s, u, touched)
    PROVE  /\ Differs(s, P!Apply(s, e), touched)
           /\ \A x \in Fields \ {"lastBlock", "lastLogIndex"} : P!Apply(s, e)[x] = u[x]
<1>1. P!Apply(s, e) = [u EXCEPT !.lastBlock = e.block, !.lastLogIndex = e.index]
  BY DEF P!Apply
<1>2. Fields \subseteq DOMAIN u
  BY DEF Differs
<1>3. /\ DOMAIN P!Apply(s, e) = DOMAIN u
      /\ \A x \in Fields \ {"lastBlock", "lastLogIndex"} : P!Apply(s, e)[x] = u[x]
  BY <1>1, <1>2
<1>4. QED
  BY <1>3 DEF Differs

\* VaultCreated makes the vault known, with its kind.
LEMMA OnVaultCreated ==
    ASSUME NEW s, NEW e, Fields \subseteq DOMAIN s, e.name = "VaultCreated"
    PROVE  LET u == P!Apply(s, e) IN
           Differs(s, u, {"known", "kind"}) /\ u.known = TRUE /\ u.kind = e.kind
<1> DEFINE f == P!Fold(s, e)
<1>1. f = [s EXCEPT !.known = TRUE, !.kind = e.kind]
  BY DEF P!Fold, P!FoldVaultCreated
<1> HIDE DEF f
<1>2. Differs(s, f, {"known", "kind"}) /\ f.known = TRUE /\ f.kind = e.kind
  BY <1>1 DEF Differs, Fields
<1>3. QED
  BY <1>2, CursorPut DEF f, Fields

\* DepositActivated sets the balance and closes the row.
LEMMA OnDepositActivated ==
    ASSUME NEW s, NEW e, Fields \subseteq DOMAIN s, e.name = "DepositActivated"
    PROVE  LET u == P!Apply(s, e) 
               was == s.shares[e.member] IN
           /\ Differs(s, u, {"shares", "totalShares", "memberCount", "pendingMembers", "pendingCount"})
           /\ u.shares = [s.shares EXCEPT ![e.member] = IF e.balance > 0 THEN e.balance ELSE 0]
           /\ u.totalShares = s.totalShares + e.balance - was
           /\ u.memberCount = s.memberCount + (IF was = 0 /\ e.balance > 0 THEN 1 ELSE 0)
                                - (IF was > 0 /\ e.balance <= 0 THEN 1 ELSE 0)
           /\ u.pendingMembers = s.pendingMembers \ {e.member}
           /\ u.pendingCount = IF e.member \in s.pendingMembers THEN s.pendingCount - 1 ELSE s.pendingCount
<1> DEFINE f == P!Fold(s, e)  r == P!CloseRow(s, e.member)  was == s.shares[e.member]
<1>1. f = P!SetShares(r, e.member, e.balance)
  BY DEF P!Fold, P!FoldDepositActivated
<1>2. /\ Differs(s, r, {"pendingMembers", "pendingCount"}) 
      /\ r.pendingMembers = s.pendingMembers \ {e.member}
      /\ r.pendingCount = IF e.member \in s.pendingMembers THEN s.pendingCount - 1 ELSE s.pendingCount
  BY DEF Differs, P!CloseRow, Fields
<1> HIDE DEF f, r
<1>3. r.shares = s.shares /\ r.totalShares = s.totalShares /\ r.memberCount = s.memberCount
  BY <1>2 DEF Differs, Fields
<1>4. f =  [r EXCEPT !.shares = [@ EXCEPT ![e.member] = IF e.balance > 0 THEN e.balance ELSE 0],
                     !.totalShares = @ + e.balance - was,
                     !.memberCount = @ + (IF was = 0 /\ e.balance > 0 THEN 1 ELSE 0)
                                - (IF was > 0 /\ e.balance <= 0 THEN 1 ELSE 0)]
   BY <1>1, <1>3 DEF P!SetShares
<1>5. /\ Differs(r, f, {"shares", "totalShares", "memberCount"})
           /\ f.shares = [s.shares EXCEPT ![e.member] = IF e.balance > 0 THEN e.balance ELSE 0]
           /\ f.totalShares = s.totalShares + e.balance - was
           /\ f.memberCount = s.memberCount + (IF was = 0 /\ e.balance > 0 THEN 1 ELSE 0)
                                - (IF was > 0 /\ e.balance <= 0 THEN 1 ELSE 0)
  BY <1>2, <1>3, <1>4 DEF Differs, Fields
<1>6. Differs(s, f, {"shares", "totalShares", "memberCount", "pendingMembers", "pendingCount"})
  BY <1>2, <1>5 DEF Differs
<1>7. f.pendingMembers = r.pendingMembers /\ f.pendingCount = r.pendingCount
  BY <1>5 DEF Differs, Fields
<1> DEFINE u == P!Apply(s, e)
<1>8. /\ Differs(s, u, {"shares", "totalShares", "memberCount", "pendingMembers", "pendingCount"})
      /\ \A x \in Fields \ {"lastBlock", "lastLogIndex"} : u[x] = f[x]
  BY <1>6, CursorPut DEF f
<1> HIDE DEF u
<1>9. /\ u.shares = f.shares /\ u.totalShares = f.totalShares /\ u.memberCount = f.memberCount
      /\ u.pendingMembers = f.pendingMembers /\ u.pendingCount = f.pendingCount
  BY <1>8 DEF Fields
<1>10. QED
  BY <1>2, <1>5, <1>7, <1>8, <1>9 DEF u

\* VaultAttested makes the vault known and its operator count it.
LEMMA OnVaultAttested ==
    ASSUME NEW s, NEW e, Fields \subseteq DOMAIN s, e.name = "VaultAttested"
    PROVE  LET u == P!Apply(s, e) IN
           /\ Differs(s, u, {"known", "attested", "vaultCount"})
           /\ u.known = TRUE /\ u.attested = TRUE
           /\ u.vaultCount = IF s.operator THEN s.vaultCount + 1 ELSE s.vaultCount
<1> DEFINE f == P!Fold(s, e)
<1>1. f = [s EXCEPT !.known = TRUE, !.attested = TRUE,
                    !.vaultCount = IF s.operator THEN @ + 1 ELSE @]
  BY DEF P!Fold, P!FoldVaultAttested
<1> HIDE DEF f
<1>2. /\ Differs(s, f, {"known", "attested", "vaultCount"})
      /\ f.known = TRUE /\ f.attested = TRUE
      /\ f.vaultCount = IF s.operator THEN s.vaultCount + 1 ELSE s.vaultCount
  BY <1>1 DEF Differs, Fields
<1>3. QED
  BY <1>2, CursorPut DEF f, Fields

\* OperatorRegistered makes the operator known.
LEMMA OnOperatorRegistered ==
    ASSUME NEW s, NEW e, Fields \subseteq DOMAIN s, e.name = "OperatorRegistered"
    PROVE  LET u == P!Apply(s, e) IN Differs(s, u, {"operator"}) /\ u.operator = TRUE
<1> DEFINE f == P!Fold(s, e)
<1>1. f = [s EXCEPT !.operator = TRUE]
  BY DEF P!Fold, P!FoldOperatorRegistered
<1> HIDE DEF f
<1>2. Differs(s, f, {"operator"}) /\ f.operator = TRUE
  BY <1>1 DEF Differs, Fields
<1>3. QED
  BY <1>2, CursorPut DEF f, Fields

\* The records of a registered operator.
LEMMA OnRealizationRecorded ==
    ASSUME NEW s, NEW e, Fields \subseteq DOMAIN s, e.name = "RealizationRecorded", s.operator
    PROVE  LET u == P!Apply(s, e) IN
           /\ Differs(s, u, {"gain", "loss"})
           /\ u.gain = s.gain + IF e.result > 0 THEN e.result ELSE 0
           /\ u.loss = s.loss + IF e.result < 0 THEN -e.result ELSE 0
<1> DEFINE f == P!Fold(s, e)
<1>1. f = [s EXCEPT !.gain = @ + IF e.result > 0 THEN e.result ELSE 0,
                    !.loss = @ + IF e.result < 0 THEN -e.result ELSE 0]
  BY DEF P!Fold, P!FoldRealizationRecorded
<1> HIDE DEF f
<1>2. /\ Differs(s, f, {"gain", "loss"})
      /\ f.gain = s.gain + IF e.result > 0 THEN e.result ELSE 0
      /\ f.loss = s.loss + IF e.result < 0 THEN -e.result ELSE 0
  BY <1>1 DEF Differs, Fields
<1>3. QED
  BY <1>2, CursorPut DEF f, Fields

\* A fee of a registered operator is added to the others.
LEMMA OnFeeRecorded ==
    ASSUME NEW s, NEW e, Fields \subseteq DOMAIN s, e.name = "FeeRecorded", s.operator
    PROVE  LET u == P!Apply(s, e) IN
           Differs(s, u, {"fees"}) /\ u.fees = s.fees + e.amount
<1> DEFINE f == P!Fold(s, e)
<1>1. f = [s EXCEPT !.fees = @ + e.amount]
  BY DEF P!Fold, P!FoldFeeRecorded
<1> HIDE DEF f
<1>2. Differs(s, f, {"fees"}) /\ f.fees = s.fees + e.amount
  BY <1>1 DEF Differs, Fields
<1>3. QED
  BY <1>2, CursorPut DEF f, Fields

\* A row that is not open is opened and counted.
LEMMA OnDepositPending ==
    ASSUME NEW s, NEW e, Fields \subseteq DOMAIN s, e.name = "DepositPending",
           e.member \notin s.pendingMembers
    PROVE  LET u == P!Apply(s, e) IN
           /\ Differs(s, u, {"pendingMembers", "pendingCount"})
           /\ u.pendingMembers = s.pendingMembers \union {e.member}
           /\ u.pendingCount = s.pendingCount + 1
<1> DEFINE f == P!Fold(s, e)
<1>1. f = [s EXCEPT !.pendingMembers = @ \union {e.member}, !.pendingCount = @ + 1]
  BY DEF P!Fold, P!FoldDepositPending
<1> HIDE DEF f
<1>2. /\ Differs(s, f, {"pendingMembers", "pendingCount"})
      /\ f.pendingMembers = s.pendingMembers \union {e.member}
      /\ f.pendingCount = s.pendingCount + 1
  BY <1>1 DEF Differs, Fields
<1>3. QED
  BY <1>2, CursorPut DEF f, Fields

\* A row that is open is closed and counted.
LEMMA OnPendingCancelled ==
    ASSUME NEW s, NEW e, Fields \subseteq DOMAIN s, e.name = "PendingCancelled",
           e.member \in s.pendingMembers
    PROVE  LET u == P!Apply(s, e) IN
           /\ Differs(s, u, {"pendingMembers", "pendingCount"})
           /\ u.pendingMembers = s.pendingMembers \ {e.member}
           /\ u.pendingCount = s.pendingCount - 1
<1> DEFINE f == P!Fold(s, e)
<1>1. f = [s EXCEPT !.pendingMembers = @ \ {e.member}, !.pendingCount = @ - 1]
  BY DEF P!Fold, P!CloseRow
<1> HIDE DEF f
<1>2. /\ Differs(s, f, {"pendingMembers", "pendingCount"})
      /\ f.pendingMembers = s.pendingMembers \ {e.member}
      /\ f.pendingCount = s.pendingCount - 1
  BY <1>1 DEF Differs, Fields
<1>3. QED
  BY <1>2, CursorPut DEF f, Fields

\* ExitQueued queues the exit with its shares.
LEMMA OnExitQueued ==
    ASSUME NEW s, NEW e, Fields \subseteq DOMAIN s, e.name = "ExitQueued"
    PROVE  LET u == P!Apply(s, e) IN
           /\ Differs(s, u, {"exitQueuedCount", "queuedExits", "queuedExitShares"})
           /\ u.exitQueuedCount = s.exitQueuedCount + 1
           /\ u.queuedExits = s.queuedExits \union {e.member}
           /\ u.queuedExitShares = [s.queuedExitShares EXCEPT ![e.member] = e.shares]
<1> DEFINE f == P!Fold(s, e)
<1>1. f = [s EXCEPT !.exitQueuedCount = @ + 1,
                    !.queuedExits = @ \union {e.member},
                    !.queuedExitShares[e.member] = e.shares]
  BY DEF P!Fold, P!FoldExitQueued
<1> HIDE DEF f
<1>2. /\ Differs(s, f, {"exitQueuedCount", "queuedExits", "queuedExitShares"})
      /\ f.exitQueuedCount = s.exitQueuedCount + 1
      /\ f.queuedExits = s.queuedExits \union {e.member}
      /\ f.queuedExitShares = [s.queuedExitShares EXCEPT ![e.member] = e.shares]
  BY <1>1 DEF Differs, Fields
<1>3. QED
  BY <1>2, CursorPut DEF f, Fields

\* ExitSettled burns the shares and takes the exit off the queue.
LEMMA OnExitSettled ==
    ASSUME NEW s, NEW e, Fields \subseteq DOMAIN s, e.name = "ExitSettled"
    PROVE  LET u == P!Apply(s, e)
               was == s.shares[e.member]
               next == was + (-e.burned) IN
           /\ Differs(s, u, {"exitSettledCount", "modeFSettledCount", "queuedExits",
                             "queuedExitShares", "shares", "totalShares", "memberCount"})
           /\ u.exitSettledCount = s.exitSettledCount + 1
           /\ u.modeFSettledCount = IF e.member \in s.queuedExits
                                    THEN s.modeFSettledCount + 1 ELSE s.modeFSettledCount
           /\ u.queuedExits = s.queuedExits \ {e.member}
           /\ u.queuedExitShares = [s.queuedExitShares EXCEPT ![e.member] = 0]
           /\ u.shares = [s.shares EXCEPT ![e.member] = IF next > 0 THEN next ELSE 0]
           /\ u.totalShares = s.totalShares + next - was
           /\ u.memberCount = s.memberCount + (IF was = 0 /\ next > 0 THEN 1 ELSE 0)
                                            - (IF was > 0 /\ next <= 0 THEN 1 ELSE 0)
<1> DEFINE f == P!Fold(s, e)
           was == s.shares[e.member]
           next == was + (-e.burned)
           r == [s EXCEPT !.exitSettledCount = @ + 1,
                          !.modeFSettledCount = IF e.member \in s.queuedExits THEN @ + 1 ELSE @,
                          !.queuedExits = @ \ {e.member},
                          !.queuedExitShares[e.member] = 0]
           exit == {"exitSettledCount", "modeFSettledCount", "queuedExits", "queuedExitShares"}
           held == {"shares", "totalShares", "memberCount"}
           all == {"exitSettledCount", "modeFSettledCount", "queuedExits",
                   "queuedExitShares", "shares", "totalShares", "memberCount"}
<1>1. f = P!CreditShares(r, e.member, -e.burned)
  BY DEF P!Fold, P!FoldExitSettled
<1>2. /\ Differs(s, r, exit)
      /\ r.exitSettledCount = s.exitSettledCount + 1
      /\ r.modeFSettledCount = IF e.member \in s.queuedExits
                               THEN s.modeFSettledCount + 1 ELSE s.modeFSettledCount
      /\ r.queuedExits = s.queuedExits \ {e.member}
      /\ r.queuedExitShares = [s.queuedExitShares EXCEPT ![e.member] = 0]
  BY DEF Differs, Fields
<1> HIDE DEF f, r
<1>3. r.shares = s.shares /\ r.totalShares = s.totalShares /\ r.memberCount = s.memberCount
  BY <1>2 DEF Differs, Fields
<1>4. f = [r EXCEPT !.shares[e.member] = IF next > 0 THEN next ELSE 0,
                    !.totalShares = @ + next - was,
                    !.memberCount = @ + (IF was = 0 /\ next > 0 THEN 1 ELSE 0)
                                      - (IF was > 0 /\ next <= 0 THEN 1 ELSE 0)]
  BY <1>1, <1>3 DEF P!SetShares, P!CreditShares
<1> HIDE DEF next, was
<1>5. /\ Differs(r, f, held)
      /\ f.shares = [s.shares EXCEPT ![e.member] = IF next > 0 THEN next ELSE 0]
      /\ f.totalShares = s.totalShares + next - was
      /\ f.memberCount = s.memberCount + (IF was = 0 /\ next > 0 THEN 1 ELSE 0)
                                       - (IF was > 0 /\ next <= 0 THEN 1 ELSE 0)
  BY <1>2, <1>3, <1>4 DEF Differs, Fields
<1>6. Differs(s, f, all)
  BY <1>2, <1>5 DEF Differs
<1>7. /\ f.exitSettledCount = r.exitSettledCount /\ f.modeFSettledCount = r.modeFSettledCount
      /\ f.queuedExits = r.queuedExits /\ f.queuedExitShares = r.queuedExitShares
  BY <1>5 DEF Differs, Fields
<1> DEFINE u == P!Apply(s, e)
<1>8. /\ Differs(s, u, all)
      /\ \A x \in Fields \ {"lastBlock", "lastLogIndex"} : u[x] = f[x]
  BY <1>6, CursorPut DEF f
<1> HIDE DEF u
<1>9. /\ u.shares = f.shares /\ u.totalShares = f.totalShares /\ u.memberCount = f.memberCount
      /\ u.exitSettledCount = f.exitSettledCount /\ u.modeFSettledCount = f.modeFSettledCount
      /\ u.queuedExits = f.queuedExits /\ u.queuedExitShares = f.queuedExitShares
  BY <1>8 DEF Fields
<1>10. QED
  BY <1>2, <1>5, <1>7, <1>8, <1>9 DEF u, next, was

\* Projection's own Cardinality is the one of the other modules.
LEMMA SameCount == \A S : P!Cardinality(S) = Cardinality(S)
BY DEF P!Cardinality, Cardinality

\* RebalanceExecuted teaches the adapter it names, as long as the ceiling allows.
LEMMA OnRebalanceExecuted ==
    ASSUME AdaptersFit, NEW s, NEW e, Fields \subseteq DOMAIN s, e.name = "RebalanceExecuted",
           s.adapters \in SUBSET Adapter, e.adapter \in Adapter
    PROVE  LET u == P!Apply(s, e) IN
           Differs(s, u, {"adapters"}) /\ u.adapters = s.adapters \union {e.adapter}
<1> DEFINE f == P!Fold(s, e)
<1>1. f = IF Cardinality(s.adapters) < MaxTrackedAdapters
          THEN [s EXCEPT !.adapters = @ \union {e.adapter}] ELSE s
  BY SameCount DEF P!Fold, P!FoldRebalanceExecuted
<1>2. IF Cardinality(s.adapters) < MaxTrackedAdapters THEN TRUE ELSE e.adapter \in s.adapters
  BY FullSet
<1> HIDE DEF f
<1>3. Differs(s, f, {"adapters"}) /\ f.adapters = s.adapters \union {e.adapter}
  <2>1. CASE Cardinality(s.adapters) < MaxTrackedAdapters
    BY <1>1, <2>1 DEF Differs, Fields
  <2>2. CASE ~(Cardinality(s.adapters) < MaxTrackedAdapters)
    BY <1>1, <1>2, <2>2 DEF Differs
  <2>3. QED
    BY <2>1, <2>2
<1>4. QED
  BY <1>3, CursorPut DEF f, Fields

\* SwapExecuted counts a fill.
LEMMA OnSwapExecuted ==
    ASSUME NEW s, NEW e, Fields \subseteq DOMAIN s, e.name = "SwapExecuted"
    PROVE  LET u == P!Apply(s, e) IN Differs(s, u, {"swaps"}) /\ u.swaps = s.swaps + 1
<1> DEFINE f == P!Fold(s, e)
<1>1. f = [s EXCEPT !.swaps = @ + 1]
  BY DEF P!Fold
<1> HIDE DEF f
<1>2. Differs(s, f, {"swaps"}) /\ f.swaps = s.swaps + 1
  BY <1>1 DEF Differs, Fields
<1>3. QED
  BY <1>2, CursorPut DEF f, Fields

\* Proposed opens a proposal without votes and makes it the active one.
LEMMA OnProposed ==
    ASSUME NEW s, NEW e, Fields \subseteq DOMAIN s, e.name = "Proposed"
    PROVE  LET u == P!Apply(s, e) IN
           /\ Differs(s, u, {"proposals", "activeProposal"})
           /\ u.proposals = [s.proposals EXCEPT ![e.pid] = Fresh]
           /\ u.activeProposal = e.pid
<1> DEFINE f == P!Fold(s, e)
<1>1. f = [s EXCEPT !.proposals[e.pid] = Fresh, !.activeProposal = e.pid]
  BY DEF P!Fold, P!FoldProposed, Fresh
<1> HIDE DEF f
<1>2. /\ Differs(s, f, {"proposals", "activeProposal"})
      /\ f.proposals = [s.proposals EXCEPT ![e.pid] = Fresh]
      /\ f.activeProposal = e.pid
  BY <1>1 DEF Differs, Fields
<1>3. QED
  BY <1>2, CursorPut DEF f, Fields

\* A vote on a proposal that is there.
VotedBy(p, e) == IF e.name = "Revealed" THEN P!FoldRevealed(p, e) ELSE P!FoldCranked(p, e)

\* A vote of either kind changes the tally of its proposal alone.
LEMMA OnVote ==
    ASSUME NEW s, NEW e, Fields \subseteq DOMAIN s,
           e.name \in {"Revealed", "DelegatedRevealed", "DefaultApplied"},
           s.proposals[e.pid] # NoProposal
    PROVE  LET u == P!Apply(s, e) IN
           /\ Differs(s, u, {"proposals"})
           /\ u.proposals = [s.proposals EXCEPT ![e.pid] = VotedBy(@, e)]
<1> DEFINE f == P!Fold(s, e)
<1>1. f = P!OnProposal(s, e)
  BY DEF P!Fold
<1> DEFINE v == VotedBy(s.proposals[e.pid], e)
<1>2. f = [s EXCEPT !.proposals[e.pid] = v]
  BY <1>1 DEF P!OnProposal, VotedBy
<1> HIDE DEF f, v
<1>3. Differs(s, f, {"proposals"}) /\ f.proposals = [s.proposals EXCEPT ![e.pid] = v]
  BY <1>2 DEF Differs, Fields
<1>4. QED
  BY <1>3, CursorPut DEF f, v, Fields

\* A proposal that is there is resolved.
LEMMA OnResolved ==
    ASSUME NEW s, NEW e, Fields \subseteq DOMAIN s, NEW status,
           \/ e.name = "Executed" /\ status = "Executed"
           \/ e.name = "ProposalExpired" /\ status = "Expired"
           \/ e.name = "Finalized" /\ status = e.status /\ status \in {"Passed", "Defeated"},
           s.proposals[e.pid] # NoProposal
    PROVE  LET u == P!Apply(s, e) IN
           /\ Differs(s, u, {"proposals", "activeProposal"})
           /\ u.proposals = [s.proposals EXCEPT ![e.pid] = [@ EXCEPT !.status = status]]
           /\ u.activeProposal = IF status = "Passed" THEN s.activeProposal ELSE 0
<1> DEFINE f == P!Fold(s, e)
<1>1. f = P!FoldResolved(s, e)
  BY DEF P!Fold, P!OnProposal
<1>2. f = [s EXCEPT !.proposals[e.pid].status = status,
                    !.activeProposal = IF status = "Passed" THEN @ ELSE 0]
  BY <1>1 DEF P!FoldResolved
<1> DEFINE v == [s.proposals[e.pid] EXCEPT !.status = status]
<1>3. f = [s EXCEPT !.proposals = [@ EXCEPT ![e.pid] = v],
                    !.activeProposal = IF status = "Passed" THEN @ ELSE 0]
  BY <1>2
<1> HIDE DEF f, v
<1>4. /\ Differs(s, f, {"proposals", "activeProposal"})
      /\ f.proposals = [s.proposals EXCEPT ![e.pid] = v]
      /\ f.activeProposal = IF status = "Passed" THEN s.activeProposal ELSE 0
  BY <1>3 DEF Differs, Fields
<1>5. QED
  BY <1>4, CursorPut DEF f, v, Fields

-----------------------------------------------------------------------------
(***************************************************************************)
(* Each event says what its call did: a projection that agreed with the    *)
(* contracts before agrees with them after.                                *)
(***************************************************************************)
BookFields == {"kind", "operator", "gain", "loss", "fees", "open", "queuedEver", "settled",
               "settledQueued", "proposals", "active", "adapters", "swaps"}

\* The contracts are in u as they were in t but for what was touched.
Kept(t, u, touched) ==
    /\ \A x \in {"shares", "queued", "total", "holders"} \ touched : u[x] = t[x]
    /\ \A x \in BookFields \ touched : u.books[x] = t.books[x]

\* What neither an event nor its call touched still agrees.
LEMMA RestAgrees ==
    ASSUME NEW s, NEW v, NEW X, NEW t, NEW u, NEW Y,
           Mirrors(s, t), Differs(s, v, X), Kept(t, u, Y)
    PROVE  /\ Fields \subseteq DOMAIN v
           /\ {"known", "kind", "attested", "vaultCount", "operator"} \cap (X \union Y) = {}
              => VaultAgrees(v, u)
           /\ {"gain", "loss", "fees"} \cap (X \union Y) = {} => RecordAgrees(v, u)
           /\ {"shares", "totalShares", "total", "memberCount", "holders"} \cap (X \union Y) = {}
              => SharesAgree(v, u)
           /\ {"pendingMembers", "pendingCount", "open"} \cap (X \union Y) = {} => RowsAgree(v, u)
           /\ {"queuedExits", "queuedExitShares", "exitQueuedCount", "exitSettledCount",
               "modeFSettledCount", "queued", "queuedEver", "settled", "settledQueued"}
                 \cap (X \union Y) = {} => ExitsAgree(v, u)
           /\ {"proposals", "activeProposal", "active"} \cap (X \union Y) = {}
              => BallotAgrees(v, u)
           /\ {"adapters", "swaps"} \cap (X \union Y) = {} => FillsAgree(v, u)
<1> USE DEF Differs, Kept, Fields, BookFields
<1>1. Fields \subseteq DOMAIN v
  OBVIOUS
<1>2. {"known", "kind", "attested", "vaultCount", "operator"} \cap (X \union Y) = {}
      => VaultAgrees(v, u)
  BY DEF Mirrors, VaultAgrees
<1>3. {"gain", "loss", "fees"} \cap (X \union Y) = {} => RecordAgrees(v, u)
  BY DEF Mirrors, RecordAgrees
<1>4. {"shares", "totalShares", "total", "memberCount", "holders"} \cap (X \union Y) = {}
      => SharesAgree(v, u)
  BY DEF Mirrors, SharesAgree
<1>5. {"pendingMembers", "pendingCount", "open"} \cap (X \union Y) = {} => RowsAgree(v, u)
  BY DEF Mirrors, RowsAgree
<1>6. {"queuedExits", "queuedExitShares", "exitQueuedCount", "exitSettledCount",
       "modeFSettledCount", "queued", "queuedEver", "settled", "settledQueued"}
         \cap (X \union Y) = {} => ExitsAgree(v, u)
  BY DEF Mirrors, ExitsAgree
<1>7. {"proposals", "activeProposal", "active"} \cap (X \union Y) = {} => BallotAgrees(v, u)
  BY DEF Mirrors, BallotAgrees
<1>8. {"adapters", "swaps"} \cap (X \union Y) = {} => FillsAgree(v, u)
  BY DEF Mirrors, FillsAgree
<1>9. QED
  BY <1>1, <1>2, <1>3, <1>4, <1>5, <1>6, <1>7, <1>8

\* DepositPending says that a row was opened.
LEMMA DepositPendingAgrees ==
    ASSUME NEW s, NEW t, NEW u, NEW n, Mirrors(s, t), n.name = "DepositPending",
           n.member \notin t.books.open, IsFiniteSet(t.books.open),
           u.books.open = t.books.open \union {n.member}, Kept(t, u, {"open"})
    PROVE  Mirrors(P!Apply(s, n), u)
<1> DEFINE v == P!Apply(s, n)
<1>1. /\ Differs(s, v, {"pendingMembers", "pendingCount"})
      /\ v.pendingMembers = s.pendingMembers \union {n.member}
      /\ v.pendingCount = s.pendingCount + 1
  BY OnDepositPending DEF Mirrors, RowsAgree
<1> HIDE DEF v
<1>2. Cardinality(u.books.open) = Cardinality(t.books.open) + 1
  BY FS_AddElement
<1>3. RowsAgree(v, u)
  BY <1>1, <1>2 DEF Mirrors, RowsAgree
<1>4. QED
  BY <1>1, <1>3, RestAgrees DEF Mirrors, v

\* PendingCancelled says that a row was closed.
LEMMA PendingCancelledAgrees ==
    ASSUME NEW s, NEW t, NEW u, NEW n, Mirrors(s, t), n.name = "PendingCancelled",
           n.member \in t.books.open, IsFiniteSet(t.books.open),
           u.books.open = t.books.open \ {n.member}, Kept(t, u, {"open"})
    PROVE  Mirrors(P!Apply(s, n), u)
<1> DEFINE v == P!Apply(s, n)
<1>1. /\ Differs(s, v, {"pendingMembers", "pendingCount"})
      /\ v.pendingMembers = s.pendingMembers \ {n.member}
      /\ v.pendingCount = s.pendingCount - 1
  BY OnPendingCancelled DEF Mirrors, RowsAgree
<1> HIDE DEF v
<1>2. Cardinality(u.books.open) = Cardinality(t.books.open) - 1
  BY FS_RemoveElement
<1>3. RowsAgree(v, u)
  BY <1>1, <1>2 DEF Mirrors, RowsAgree
<1>4. QED
  BY <1>1, <1>3, RestAgrees DEF Mirrors, v

\* OperatorRegistered says that the operator is there.
LEMMA OperatorRegisteredAgrees ==
    ASSUME NEW s, NEW t, NEW u, NEW n, Mirrors(s, t), n.name = "OperatorRegistered",
           u.books.operator = TRUE, Kept(t, u, {"operator"})
    PROVE  Mirrors(P!Apply(s, n), u)
<1> DEFINE v == P!Apply(s, n)
<1>1. Differs(s, v, {"operator"}) /\ v.operator = TRUE
  BY OnOperatorRegistered DEF Mirrors
<1> HIDE DEF v
<1>2. v.known = s.known /\ v.kind = s.kind /\ v.attested = s.attested /\ v.vaultCount = s.vaultCount
  BY <1>1 DEF Differs, Fields
<1>3. u.books.kind = t.books.kind
  BY DEF Kept, BookFields
<1>4. VaultAgrees(v, u)
  BY <1>1, <1>2, <1>3 DEF Mirrors, VaultAgrees
<1>5. QED
  BY <1>1, <1>4, RestAgrees DEF Mirrors, v

\* The attestation and the announcement of the vault, one after the other.
LEMMA VaultCreatedAgrees ==
    ASSUME NEW s, NEW t, NEW u, NEW a, NEW n, Mirrors(s, t),
           a.name = "VaultAttested", n.name = "VaultCreated",
           t.books.kind = "none", t.books.operator = TRUE,
           u.books.kind = n.kind, n.kind # "none", Kept(t, u, {"kind"})
    PROVE  Mirrors(P!Apply(P!Apply(s, a), n), u)
<1> DEFINE r == P!Apply(s, a)
           v == P!Apply(r, n)
<1>1. /\ Differs(s, r, {"known", "attested", "vaultCount"})
      /\ r.known = TRUE /\ r.attested = TRUE
      /\ r.vaultCount = IF s.operator THEN s.vaultCount + 1 ELSE s.vaultCount
  BY OnVaultAttested DEF Mirrors
<1> HIDE DEF r
<1>2. Differs(r, v, {"known", "kind"}) /\ v.known = TRUE /\ v.kind = n.kind
  BY <1>1, OnVaultCreated DEF Differs
<1> HIDE DEF v
<1>3. Differs(s, v, {"known", "kind", "attested", "vaultCount"})
  BY <1>1, <1>2 DEF Differs
<1>4. v.attested = r.attested /\ v.vaultCount = r.vaultCount /\ v.operator = s.operator
  BY <1>2, <1>3 DEF Differs, Fields
<1>5. u.books.operator = t.books.operator
  BY DEF Kept, BookFields
<1>6. VaultAgrees(v, u)
  <2>1. s.operator = TRUE /\ s.known = FALSE /\ s.vaultCount = 0
    BY DEF Mirrors, VaultAgrees
  <2>2. v.vaultCount = 1 /\ v.attested = TRUE
    BY <1>1, <1>4, <2>1
  <2>3. v.known = (u.books.kind # "none") /\ v.kind = u.books.kind
    BY <1>2
  <2>4. v.operator = u.books.operator
    BY <1>4, <1>5, <2>1
  <2>5. QED
    BY <1>2, <2>2, <2>3, <2>4 DEF VaultAgrees
<1>7. QED
  BY <1>3, <1>6, RestAgrees DEF Mirrors, v, r

\* RealizationRecorded says what was added to the operator's gains or losses.
LEMMA RealizationRecordedAgrees ==
    ASSUME NEW s, NEW t, NEW u, NEW n, Mirrors(s, t), n.name = "RealizationRecorded",
           t.books.operator = TRUE,
           u.books.gain = t.books.gain + IF n.result > 0 THEN n.result ELSE 0,
           u.books.loss = t.books.loss + IF n.result < 0 THEN -n.result ELSE 0,
           Kept(t, u, {"gain", "loss"})
    PROVE  Mirrors(P!Apply(s, n), u)
<1> DEFINE v == P!Apply(s, n)
<1>1. /\ Differs(s, v, {"gain", "loss"})
      /\ v.gain = s.gain + IF n.result > 0 THEN n.result ELSE 0
      /\ v.loss = s.loss + IF n.result < 0 THEN -n.result ELSE 0
  BY OnRealizationRecorded DEF Mirrors, VaultAgrees
<1> HIDE DEF v
<1>2. v.fees = s.fees /\ u.books.fees = t.books.fees
  BY <1>1 DEF Differs, Fields, Kept, BookFields
<1>3. RecordAgrees(v, u)
  BY <1>1, <1>2 DEF Mirrors, RecordAgrees
<1>4. QED
  BY <1>1, <1>3, RestAgrees DEF Mirrors, v

\* FeeRecorded says what was added to the fees.
LEMMA FeeRecordedAgrees ==
    ASSUME NEW s, NEW t, NEW u, NEW n, Mirrors(s, t), n.name = "FeeRecorded",
           t.books.operator = TRUE, u.books.fees = t.books.fees + n.amount,
           Kept(t, u, {"fees"})
    PROVE  Mirrors(P!Apply(s, n), u)
<1> DEFINE v == P!Apply(s, n)
<1>1. Differs(s, v, {"fees"}) /\ v.fees = s.fees + n.amount
  BY OnFeeRecorded DEF Mirrors, VaultAgrees
<1> HIDE DEF v
<1>2. /\ v.gain = s.gain /\ u.books.gain = t.books.gain
      /\ v.loss = s.loss /\ u.books.loss = t.books.loss
  BY <1>1 DEF Differs, Fields, Kept, BookFields
<1>3. RecordAgrees(v, u)
  BY <1>1, <1>2 DEF Mirrors, RecordAgrees
<1>4. QED
  BY <1>1, <1>3, RestAgrees DEF Mirrors, v

\* A mint of k shares, out of a row that was open or at once.
LEMMA DepositActivatedAgrees ==
    ASSUME NEW s, NEW t, NEW u, NEW n, Mirrors(s, t), n.name = "DepositActivated",
           n.member \in Member, t.shares \in [Member -> Nat], t.total \in Int, t.holders \in Int,
           IsFiniteSet(t.books.open),
           NEW k \in Nat \ {0}, n.balance = t.shares[n.member] + k,
           u.shares = [t.shares EXCEPT ![n.member] = @ + k], u.total = t.total + k,
           u.holders = IF t.shares[n.member] = 0 THEN t.holders + 1 ELSE t.holders,
           u.books.open = t.books.open \ {n.member},
           Kept(t, u, {"shares", "total", "holders", "open"})
    PROVE  Mirrors(P!Apply(s, n), u)
<1> DEFINE v == P!Apply(s, n)
           was == s.shares[n.member]
<1>1. /\ Differs(s, v, {"shares", "totalShares", "memberCount", "pendingMembers", "pendingCount"})
      /\ v.shares = [s.shares EXCEPT ![n.member] = IF n.balance > 0 THEN n.balance ELSE 0]
      /\ v.totalShares = s.totalShares + n.balance - was
      /\ v.memberCount = s.memberCount + (IF was = 0 /\ n.balance > 0 THEN 1 ELSE 0)
                                       - (IF was > 0 /\ n.balance <= 0 THEN 1 ELSE 0)
      /\ v.pendingMembers = s.pendingMembers \ {n.member}
      /\ v.pendingCount = IF n.member \in s.pendingMembers THEN s.pendingCount - 1 ELSE s.pendingCount
  BY OnDepositActivated DEF Mirrors
<1> HIDE DEF v
<1>2. /\ s.shares = t.shares /\ s.totalShares = t.total /\ s.memberCount = t.holders
      /\ was \in Nat /\ was = t.shares[n.member]
  BY DEF Mirrors, SharesAgree
<1>3. n.balance \in Nat /\ n.balance > 0 /\ n.balance = was + k
  BY <1>2
<1> HIDE DEF was
<1>4. v.shares = u.shares
  BY <1>1, <1>2, <1>3
<1>5. v.totalShares = u.total /\ v.memberCount = u.holders
  BY <1>1, <1>2, <1>3
<1>6. SharesAgree(v, u)
  BY <1>4, <1>5 DEF SharesAgree
<1>7. RowsAgree(v, u)
  <2>1. /\ s.pendingMembers = t.books.open /\ s.pendingCount = Cardinality(t.books.open)
        /\ v.pendingMembers = t.books.open \ {n.member}
        /\ v.pendingCount = IF n.member \in t.books.open
                            THEN Cardinality(t.books.open) - 1 ELSE Cardinality(t.books.open)
    BY <1>1 DEF Mirrors, RowsAgree
  <2>2. CASE n.member \in t.books.open
    <3> DEFINE A == t.books.open
    <3>1. IsFiniteSet(A) /\ n.member \in A
      BY <2>2
    <3> HIDE DEF A
    <3>2. Cardinality(A \ {n.member}) = Cardinality(A) - 1
      BY <3>1, FS_RemoveElement
    <3>3. Cardinality(u.books.open) = Cardinality(t.books.open) - 1
      BY <3>2 DEF A
    <3>4. QED
      BY <2>1, <2>2, <3>3 DEF RowsAgree
  <2>3. CASE n.member \notin t.books.open
    <3>1. u.books.open = t.books.open
      BY <2>3
    <3>2. QED
      BY <2>1, <2>3, <3>1 DEF RowsAgree
  <2>4. QED
    BY <2>2, <2>3
<1>8. QED
  BY <1>1, <1>6, <1>7, RestAgrees DEF Mirrors, v

\* ExitQueued says whose exit of how many shares was queued.
LEMMA ExitQueuedAgrees ==
    ASSUME NEW s, NEW t, NEW u, NEW n, Mirrors(s, t), n.name = "ExitQueued",
           n.member \in Member, t.queued \in [Member -> Nat], n.shares \in Nat \ {0},
           u.queued = [t.queued EXCEPT ![n.member] = n.shares],
           u.books.queuedEver = t.books.queuedEver + 1, Kept(t, u, {"queued", "queuedEver"})
    PROVE  Mirrors(P!Apply(s, n), u)
<1> DEFINE v == P!Apply(s, n)
<1>1. /\ Differs(s, v, {"exitQueuedCount", "queuedExits", "queuedExitShares"})
      /\ v.exitQueuedCount = s.exitQueuedCount + 1
      /\ v.queuedExits = s.queuedExits \union {n.member}
      /\ v.queuedExitShares = [s.queuedExitShares EXCEPT ![n.member] = n.shares]
  BY OnExitQueued DEF Mirrors
<1> HIDE DEF v
<1>2. /\ v.exitSettledCount = s.exitSettledCount /\ v.modeFSettledCount = s.modeFSettledCount
      /\ u.books.settled = t.books.settled /\ u.books.settledQueued = t.books.settledQueued
  BY <1>1 DEF Differs, Fields, Kept, BookFields
<1>3. {m \in Member : u.queued[m] > 0} = {m \in Member : t.queued[m] > 0} \union {n.member}
  OBVIOUS
<1>4. ExitsAgree(v, u)
  BY <1>1, <1>2, <1>3 DEF Mirrors, ExitsAgree
<1>5. QED
  BY <1>1, <1>4, RestAgrees DEF Mirrors, v

\* The settlement of an exit of b shares, queued or not.
LEMMA ExitSettledAgrees ==
    ASSUME NEW s, NEW t, NEW u, NEW n, Mirrors(s, t), n.name = "ExitSettled",
           n.member \in Member, t.shares \in [Member -> Nat], t.queued \in [Member -> Nat],
           t.total \in Int, t.holders \in Int,
           n.burned \in Nat \ {0}, n.burned <= t.shares[n.member],
           u.shares = [t.shares EXCEPT ![n.member] = @ - n.burned],
           u.total = t.total - n.burned,
           u.holders = IF t.shares[n.member] = n.burned THEN t.holders - 1 ELSE t.holders,
           u.queued = [t.queued EXCEPT ![n.member] = 0],
           u.books.settled = t.books.settled + 1,
           u.books.settledQueued = IF t.queued[n.member] > 0
                                   THEN t.books.settledQueued + 1 ELSE t.books.settledQueued,
           Kept(t, u, {"shares", "total", "holders", "queued", "settled", "settledQueued"})
    PROVE  Mirrors(P!Apply(s, n), u)
<1> DEFINE v == P!Apply(s, n)
           m == n.member
           b == n.burned
           was == s.shares[m]
           next == was + (-b)
<1>1. /\ Differs(s, v, {"exitSettledCount", "modeFSettledCount", "queuedExits",
                        "queuedExitShares", "shares", "totalShares", "memberCount"})
      /\ v.exitSettledCount = s.exitSettledCount + 1
      /\ v.modeFSettledCount = IF m \in s.queuedExits
                               THEN s.modeFSettledCount + 1 ELSE s.modeFSettledCount
      /\ v.queuedExits = s.queuedExits \ {m}
      /\ v.queuedExitShares = [s.queuedExitShares EXCEPT ![m] = 0]
      /\ v.shares = [s.shares EXCEPT ![m] = IF next > 0 THEN next ELSE 0]
      /\ v.totalShares = s.totalShares + next - was
      /\ v.memberCount = s.memberCount + (IF was = 0 /\ next > 0 THEN 1 ELSE 0)
                                       - (IF was > 0 /\ next <= 0 THEN 1 ELSE 0)
  BY OnExitSettled DEF Mirrors
<1> HIDE DEF v
<1>2. /\ s.shares = t.shares /\ s.totalShares = t.total /\ s.memberCount = t.holders
      /\ was \in Nat /\ was = t.shares[m] /\ m \in Member
  BY DEF Mirrors, SharesAgree
<1>3. b \in Nat /\ b > 0 /\ b <= was /\ next = was - b /\ next \in Nat /\ was > 0
  BY <1>2
<1>4. (IF next > 0 THEN next ELSE 0) = was - b
  BY <1>3
<1>5. v.shares = u.shares
  BY <1>1, <1>2, <1>4
<1> HIDE DEF was, next, b
<1>6. v.totalShares = t.total - b /\ v.memberCount = IF was = b THEN t.holders - 1 ELSE t.holders
  BY <1>1, <1>2, <1>3
<1>7. SharesAgree(v, u)
  BY <1>2, <1>5, <1>6 DEF SharesAgree, b, m
<1>8. u.books.queuedEver = t.books.queuedEver /\ v.exitQueuedCount = s.exitQueuedCount
  BY <1>1 DEF Differs, Fields, Kept, BookFields
<1>9. {x \in Member : u.queued[x] > 0} = {x \in Member : t.queued[x] > 0} \ {m}
  BY <1>2
<1>10. m \in s.queuedExits <=> t.queued[m] > 0
  BY <1>2 DEF Mirrors, ExitsAgree
<1>11. ExitsAgree(v, u)
  BY <1>1, <1>8, <1>9, <1>10 DEF Mirrors, ExitsAgree, m
<1>12. QED
  BY <1>1, <1>7, <1>11, RestAgrees DEF Mirrors, v

\* A fill and the rebalance it was part of.
LEMMA RebalanceAgrees ==
    ASSUME AdaptersFit, NEW s, NEW t, NEW u, NEW a, NEW n, Mirrors(s, t),
           a.name = "SwapExecuted", n.name = "RebalanceExecuted",
           n.adapter \in Adapter, t.books.adapters \in SUBSET Adapter,
           u.books.adapters = t.books.adapters \union {n.adapter},
           u.books.swaps = t.books.swaps + 1, Kept(t, u, {"adapters", "swaps"})
    PROVE  Mirrors(P!Apply(P!Apply(s, a), n), u)
<1> DEFINE r == P!Apply(s, a)
           v == P!Apply(r, n)
<1>1. Differs(s, r, {"swaps"}) /\ r.swaps = s.swaps + 1
  BY OnSwapExecuted DEF Mirrors
<1> HIDE DEF r
<1>2. r.adapters = s.adapters /\ s.adapters = t.books.adapters /\ s.swaps = t.books.swaps
  BY <1>1 DEF Differs, Fields, Mirrors, FillsAgree
<1>3. Differs(r, v, {"adapters"}) /\ v.adapters = r.adapters \union {n.adapter}
  BY <1>1, <1>2, OnRebalanceExecuted DEF Differs
<1> HIDE DEF v
<1>4. Differs(s, v, {"adapters", "swaps"})
  BY <1>1, <1>3 DEF Differs
<1>5. v.swaps = r.swaps
  BY <1>3 DEF Differs, Fields
<1>6. FillsAgree(v, u)
  BY <1>1, <1>2, <1>3, <1>5 DEF FillsAgree
<1>7. QED
  BY <1>4, <1>6, RestAgrees DEF Mirrors, v, r

\* Proposed says that a proposal was opened.
LEMMA ProposedAgrees ==
    ASSUME NEW s, NEW t, NEW u, NEW n, Mirrors(s, t), n.name = "Proposed",
           u.books.proposals = [t.books.proposals EXCEPT ![n.pid] = Fresh],
           u.books.active = n.pid, Kept(t, u, {"proposals", "active"})
    PROVE  Mirrors(P!Apply(s, n), u)
<1> DEFINE v == P!Apply(s, n)
<1>1. /\ Differs(s, v, {"proposals", "activeProposal"})
      /\ v.proposals = [s.proposals EXCEPT ![n.pid] = Fresh]
      /\ v.activeProposal = n.pid
  BY OnProposed DEF Mirrors
<1> HIDE DEF v
<1>2. BallotAgrees(v, u)
  BY <1>1 DEF Mirrors, BallotAgrees
<1>3. QED
  BY <1>1, <1>2, RestAgrees DEF Mirrors, v

\* A vote says what was added to the tally.
LEMMA VoteAgrees ==
    ASSUME NEW s, NEW t, NEW u, NEW n, Mirrors(s, t),
           n.name \in {"Revealed", "DelegatedRevealed", "DefaultApplied"},
           t.books.proposals[n.pid] # NoProposal,
           u.books.proposals = [t.books.proposals EXCEPT ![n.pid] = VotedBy(@, n)],
           Kept(t, u, {"proposals"})
    PROVE  Mirrors(P!Apply(s, n), u)
<1> DEFINE v == P!Apply(s, n)
<1>1. /\ Differs(s, v, {"proposals"})
      /\ v.proposals = [s.proposals EXCEPT ![n.pid] = VotedBy(@, n)]
  BY OnVote DEF Mirrors, BallotAgrees
<1> HIDE DEF v
<1>2. v.activeProposal = s.activeProposal /\ u.books.active = t.books.active
  BY <1>1 DEF Differs, Fields, Kept, BookFields
<1>3. BallotAgrees(v, u)
  BY <1>1, <1>2 DEF Mirrors, BallotAgrees
<1>4. QED
  BY <1>1, <1>3, RestAgrees DEF Mirrors, v

\* An outcome says how its proposal ended.
LEMMA ResolvedAgrees ==
    ASSUME NEW s, NEW t, NEW u, NEW n, Mirrors(s, t), NEW status,
           \/ n.name = "Executed" /\ status = "Executed"
           \/ n.name = "ProposalExpired" /\ status = "Expired"
           \/ n.name = "Finalized" /\ status = n.status /\ status \in {"Passed", "Defeated"},
           t.books.proposals[n.pid] # NoProposal,
           u.books.proposals = [t.books.proposals EXCEPT ![n.pid] = [@ EXCEPT !.status = status]],
           u.books.active = IF status = "Passed" THEN t.books.active ELSE 0,
           Kept(t, u, {"proposals", "active"})
    PROVE  Mirrors(P!Apply(s, n), u)
<1> DEFINE v == P!Apply(s, n)
<1>1. /\ Differs(s, v, {"proposals", "activeProposal"})
      /\ v.proposals = [s.proposals EXCEPT ![n.pid] = [@ EXCEPT !.status = status]]
      /\ v.activeProposal = IF status = "Passed" THEN s.activeProposal ELSE 0
  BY OnResolved DEF Mirrors, BallotAgrees
<1> HIDE DEF v
<1>2. BallotAgrees(v, u)
  BY <1>1 DEF Mirrors, BallotAgrees
<1>3. QED
  BY <1>1, <1>2, RestAgrees DEF Mirrors, v

-----------------------------------------------------------------------------
(***************************************************************************)
(* What a call emits.                                                      *)
(***************************************************************************)
\* An event with its place on the chain is still that event.
Carried(n, e) == \A x \in DOMAIN e \ {"block", "index"} : n[x] = e[x]

Placed(l, events) ==
    /\ IsList(l) /\ Len(l) = Len(events)
    /\ \A i \in 1..Len(events) : Carried(l[i], events[i])

\* Wherever they are placed, the events lead the contracts from t to u.
Says(t, events, u) == IsList(events) /\ \A l : Placed(l, events) => Tells(t, l, u)

\* What a call emits is appended to the block, in its order.
LEMMA EmitsPlaced ==
    ASSUME NEW name, NEW events, IsList(events), Emits(name, events)
    PROVE  \E l : Placed(l, events) /\ logs' = logs \o l
<1> DEFINE l == [i \in 1..Len(events) |-> Numbered(events[i], Tip + 1, Len(logs) + i)]
<1>1. logs' = logs \o l
  BY DEF Emits
<1>2. Len(events) \in Nat
  BY ListFacts
<1>3. ASSUME NEW e, NEW b, NEW i PROVE Carried(Numbered(e, b, i), e)
  BY DEF Carried, Numbered
<1>4. \A i \in 1..Len(events) : Carried(l[i], events[i])
  BY <1>3
<1>5. l \in [1..Len(events) -> {l[i] : i \in 1..Len(events)}]
  OBVIOUS
<1> HIDE DEF l
<1>6. l \in Seq({l[i] : i \in 1..Len(events)}) /\ Len(l) = Len(events)
  BY <1>2, <1>5
<1>7. QED
  BY <1>1, <1>4, <1>6 DEF Placed, IsList

\* A change no projection sees needs no event.
LEMMA SilentCall ==
    ASSUME NEW t, NEW u, \A s : Mirrors(s, t) => Mirrors(s, u), u.books.kind = t.books.kind
    PROVE  Says(t, <<>>, u)
<1>1. ASSUME NEW l, Placed(l, <<>>) PROVE l = <<>>
  <2>1. IsList(l) /\ Len(l) = 0
    BY <1>1, EmptyList DEF Placed
  <2>2. PICK S : l \in Seq(S)
    BY <2>1 DEF IsList
  <2>3. QED
    BY <2>1, <2>2, EmptySeq
<1>2. QED
  BY <1>1, EmptyList, NothingTold DEF Says

\* One event that says what was done is enough.
LEMMA OneEvent ==
    ASSUME NEW t, NEW e, NEW u,
           \A n : Carried(n, e) =>
              /\ ~P!Malformed(n) /\ n.name \notin {"RebalanceExecuted", "SwapExecuted"}
              /\ n.name \in VaultEvents => t.books.kind # "none"
              /\ \A s : Mirrors(s, t) => Mirrors(P!Apply(s, n), u),
           u.books.kind # "none" => t.books.kind # "none"
    PROVE  Says(t, <<e>>, u)
<1>1. IsList(<<e>>) /\ Len(<<e>>) = 1 /\ <<e>>[1] = e
  BY ShortLists
<1>2. ASSUME NEW l, Placed(l, <<e>>) PROVE Tells(t, l, u)
  <2> DEFINE n == l[1]
  <2>1. IsList(l) /\ Len(l) = 1 /\ Carried(n, e)
    BY <1>1, <1>2 DEF Placed
  <2>2. \A i \in 1..Len(l) : l[i] = n
    BY <2>1
  <2>3. WellFormed(l)
    BY <2>1, <2>2 DEF WellFormed
  <2>4. \A s : P!ApplyAll(s, l) = P!Apply(s, n)
    BY <2>1, <2>3, FoldFew
  <2> HIDE DEF n
  <2>5. \A s : Mirrors(s, t) => Mirrors(P!ApplyAll(s, l), u)
    BY <2>1, <2>4
  <2>6. QED
    BY <2>1, <2>2, <2>3, <2>5 DEF Tells, Announced
<1>3. QED
  BY <1>1, <1>2 DEF Says

\* Two lists of events, one after the other.
LEMMA SaidInTurn ==
    ASSUME NEW t0, NEW k, NEW t1, NEW m, NEW t2, Says(t0, k, t1), Says(t1, m, t2)
    PROVE  Says(t0, k \o m, t2)
<1>1. /\ Len(k) \in Nat /\ Len(m) \in Nat /\ IsList(k \o m) /\ Len(k \o m) = Len(k) + Len(m)
      /\ \A i \in 1..(Len(k) + Len(m)) :
            (k \o m)[i] = IF i <= Len(k) THEN k[i] ELSE m[i - Len(k)]
  BY ListFacts, ListJoin DEF Says
<1>2. ASSUME NEW l, Placed(l, k \o m) PROVE Tells(t0, l, t2)
  <2> DEFINE a == Len(k)  c == Len(m)
             x == [i \in 1..a |-> l[i]]
             y == [i \in 1..c |-> l[a + i]]
  <2>1. /\ IsList(l) /\ Len(l) = a + c /\ a \in Nat /\ c \in Nat
        /\ \A i \in 1..(a + c) : Carried(l[i], (k \o m)[i])
    BY <1>1, <1>2 DEF Placed
  <2>2. PICK S : l \in Seq(S)
    BY <2>1 DEF IsList
  <2>3. \A i \in 1..(a + c) : l[i] \in S
    BY <2>1, <2>2
  <2>4. x \in Seq(S) /\ Len(x) = a /\ \A i \in 1..a : x[i] = l[i]
    <3> HIDE DEF a
    <3>1. x \in [1..a -> S]
      BY <2>1, <2>3
    <3>2. QED
      BY <2>1, <3>1
  <2>5. y \in Seq(S) /\ Len(y) = c /\ \A i \in 1..c : y[i] = l[a + i]
    <3> HIDE DEF a, c
    <3>1. \A i \in 1..c : a + i \in 1..(a + c)
      BY <2>1
    <3>2. y \in [1..c -> S]
      BY <2>1, <2>3, <3>1
    <3>3. \A i \in 1..c : y[i] = l[a + i]
      OBVIOUS
    <3> HIDE DEF y
    <3>4. y \in Seq(S) /\ Len(y) = c
      BY <2>1, <3>2
    <3>5. QED
      BY <3>3, <3>4
  <2> HIDE DEF x, y
  <2>6. Placed(x, k)
    <3>1. \A i \in 1..a : i \in 1..(a + c) /\ (k \o m)[i] = k[i]
      BY <1>1
    <3>2. QED
      BY <2>1, <2>4, <3>1 DEF Placed, IsList
  <2>7. Placed(y, m)
    <3>1. \A i \in 1..c : a + i \in 1..(a + c) /\ (k \o m)[a + i] = m[i]
      <4> SUFFICES ASSUME NEW i \in 1..c
                   PROVE  a + i \in 1..(a + c) /\ (k \o m)[a + i] = m[i]
        OBVIOUS
      <4>1. a + i \in 1..(a + c) /\ ~(a + i <= a) /\ (a + i) - a = i
        BY <2>1
      <4>2. \A j \in 1..(a + c) : (k \o m)[j] = IF j <= a THEN k[j] ELSE m[j - a]
        BY <1>1
      <4> HIDE DEF a, c
      <4>3. QED
        BY <4>1, <4>2
    <3>2. QED
      BY <2>1, <2>5, <3>1 DEF Placed, IsList
  <2>8. x \o y = l
    <3> HIDE DEF a, c
    <3>1. /\ x \o y \in Seq(S) /\ Len(x \o y) = a + c
          /\ \A i \in 1..(a + c) : (x \o y)[i] = IF i <= a THEN x[i] ELSE y[i - a]
      BY <2>4, <2>5, ConcatProperties
    <3>2. ASSUME NEW i \in 1..(a + c) PROVE (x \o y)[i] = l[i]
      <4>1. CASE i <= a
        <5>1. i \in 1..a
          BY <2>1, <4>1
        <5>2. QED
          BY <2>4, <3>1, <4>1, <5>1
      <4>2. CASE ~(i <= a)
        <5>1. i - a \in 1..c /\ a + (i - a) = i
          BY <2>1, <4>2
        <5>2. QED
          BY <2>5, <3>1, <4>2, <5>1
      <4>3. QED
        BY <4>1, <4>2
    <3>3. QED
      BY <2>1, <2>2, <3>1, <3>2, SeqEqual
  <2>9. QED
    BY <2>6, <2>7, <2>8, ToldInTurn DEF Says
<1>3. QED
  BY <1>1, <1>2 DEF Says

\* Two events that only make sense together.
LEMMA TwoEvents ==
    ASSUME NEW t, NEW d, NEW e, NEW u,
           \A a, n : Carried(a, d) /\ Carried(n, e) =>
              /\ ~P!Malformed(a) /\ ~P!Malformed(n)
              /\ \A s : Mirrors(s, t) => Mirrors(P!Apply(P!Apply(s, a), n), u)
              /\ a.name \notin VaultEvents \union {"RebalanceExecuted"}
              /\ u.books.kind # "none" \/ n.name \in VaultEvents
                 => t.books.kind # "none" \/ n.name = "VaultCreated"
              /\ a.name = "SwapExecuted" =>
                    n.name = "RebalanceExecuted" /\ n.adapter = a.adapter
              /\ n.name # "SwapExecuted"
              /\ n.name = "RebalanceExecuted" => n.adapter \in Adapter
    PROVE  Says(t, <<d, e>>, u)
<1>1. IsList(<<d, e>>) /\ Len(<<d, e>>) = 2 /\ <<d, e>>[1] = d /\ <<d, e>>[2] = e
  BY ShortLists
<1>2. ASSUME NEW l, Placed(l, <<d, e>>) PROVE Tells(t, l, u)
  <2> DEFINE a == l[1]  n == l[2]
  <2>1. IsList(l) /\ Len(l) = 2 /\ Carried(a, d) /\ Carried(n, e)
    BY <1>1, <1>2 DEF Placed
  <2>2. \A i \in 1..Len(l) : i = 1 \/ i = 2
    BY <2>1
  <2>3. WellFormed(l)
    BY <2>1, <2>2 DEF WellFormed
  <2>4. \A s : P!ApplyAll(s, l) = P!Apply(P!Apply(s, a), n)
    BY <2>1, <2>3, FoldFew
  <2>5. \A s : Mirrors(s, t) => Mirrors(P!ApplyAll(s, l), u)
    BY <2>1, <2>4
  <2>6. n.name = "VaultCreated" => Has(l, "VaultCreated")
    BY <2>1 DEF Has
  <2>7. u.books.kind # "none" \/ n.name \in VaultEvents => Announced(t, l)
    BY <2>1, <2>6 DEF Announced
  <2>8. ASSUME NEW i \in 1..Len(l)
        PROVE  /\ l[i].name \in VaultEvents => Announced(t, l)
               /\ l[i].name = "RebalanceExecuted" => l[i].adapter \in Adapter
               /\ l[i].name = "SwapExecuted" =>
                     \E j \in 1..Len(l) : /\ l[j].name = "RebalanceExecuted"
                                          /\ l[j].adapter = l[i].adapter
    <3>1. CASE i = 1
      BY <2>1, <3>1
    <3>2. CASE i = 2
      BY <2>1, <2>7, <3>2
    <3>3. QED
      BY <2>2, <3>1, <3>2
  <2>9. QED
    BY <2>3, <2>5, <2>7, <2>8 DEF Tells
<1>3. QED
  BY <1>1, <1>2 DEF Says

-----------------------------------------------------------------------------
(***************************************************************************)
(* What the contracts keep true of themselves, and each of their calls.    *)
(***************************************************************************)
Positive(f) == {m \in Member : f[m] > 0}

SharesSound(t) ==
    /\ t.shares \in [Member -> Nat] /\ t.queued \in [Member -> Nat] /\ t.total \in Int
    /\ \A m \in Member : t.queued[m] <= t.shares[m]
    /\ t.holders = Cardinality(Positive(t.shares))

\* Nothing is there before the vault, and a vault has an operator.
BooksSound(t) ==
    /\ t.books \in Books
    /\ t.books.active # 0 => t.books.proposals[t.books.active] # NoProposal
    /\ t.books.kind # "none" => t.books.operator = TRUE
    /\ t.books.kind = "none" => t.books.open = {} /\ \A p \in Pid : t.books.proposals[p] = NoProposal

Unborn(t) == t.books.kind = "none" => \A m \in Member : t.shares[m] = 0

\* Every queued exit was settled or is queued still.
ExitsSound(t) ==
    t.books.settledQueued + Cardinality(Positive(t.queued)) = t.books.queuedEver

Sound(t) == SharesSound(t) /\ BooksSound(t) /\ Unborn(t) /\ ExitsSound(t)

\* A proposal is not the value that stands for none; numbers, and the sizes of
\* the queued exits, are not the one that stands for what is not known.
NamesApart == NoProposal \notin Proposal /\ Null \notin Nat /\ Null \notin [Member -> Nat]

\* There are finitely many members with something.
LEMMA FewPositive ==
    ASSUME NEW f
    PROVE  IsFiniteSet(Positive(f)) /\ Cardinality(Positive(f)) \in Nat
BY FS_Subset, FS_CardinalityType, StakeAssumption DEF Positive

\* One value of a function changes.
LEMMA PositiveChanges ==
    ASSUME NEW f \in [Member -> Nat], NEW m \in Member, NEW j \in Nat
    PROVE  LET g == [f EXCEPT ![m] = j] IN
           /\ f[m] = 0 /\ j > 0 => Cardinality(Positive(g)) = Cardinality(Positive(f)) + 1
           /\ f[m] > 0 /\ j = 0 => Cardinality(Positive(g)) = Cardinality(Positive(f)) - 1
           /\ (f[m] > 0 <=> j > 0) => Positive(g) = Positive(f)
<1> DEFINE g == [f EXCEPT ![m] = j]
<1>1. IsFiniteSet(Positive(f))
  BY FewPositive
<1>2. ASSUME f[m] = 0, j > 0 PROVE Cardinality(Positive(g)) = Cardinality(Positive(f)) + 1
  <2>1. Positive(g) = Positive(f) \union {m} /\ m \notin Positive(f)
    BY <1>2 DEF Positive
  <2>2. QED
    BY <1>1, <2>1, FS_AddElement
<1>3. ASSUME f[m] > 0, j = 0 PROVE Cardinality(Positive(g)) = Cardinality(Positive(f)) - 1
  <2>1. Positive(g) = Positive(f) \ {m} /\ m \in Positive(f)
    BY <1>3 DEF Positive
  <2>2. QED
    BY <1>1, <2>1, FS_RemoveElement
<1>4. ASSUME f[m] > 0 <=> j > 0 PROVE Positive(g) = Positive(f)
  BY <1>4 DEF Positive
<1>5. QED
  BY <1>2, <1>3, <1>4

\* A call that says what it did leaves its events in the block.
Told == \E l : logs' = logs \o l /\ Tells(Truth, l, Truth')

\* What a call says when it emits its events is told.
LEMMA SaidIsTold ==
    ASSUME NEW name, NEW events, Emits(name, events), Says(Truth, events, Truth')
    PROVE  Told
<1>1. PICK l : Placed(l, events) /\ logs' = logs \o l
  BY EmitsPlaced DEF Says
<1>2. Tells(Truth, l, Truth')
  BY <1>1 DEF Says
<1>3. QED
  BY <1>1, <1>2 DEF Told

\* Where nothing of the contracts changes, nothing need be said.
LEMMA NothingSaid ==
    ASSUME NEW t, NEW u, Kept(t, u, {})
    PROVE  Says(t, <<>>, u)
<1>1. ASSUME NEW s, Mirrors(s, t) PROVE Mirrors(s, u)
  <2>1. Differs(s, s, {})
    BY <1>1 DEF Differs, Mirrors
  <2>2. QED
    BY <1>1, <2>1, RestAgrees DEF Mirrors
<1>2. u.books.kind = t.books.kind
  BY DEF Kept, BookFields
<1>3. QED
  BY <1>1, <1>2, SilentCall

\* What Truth is made of.
LEMMA TruthIs ==
    /\ Truth.shares = sharesOf /\ Truth.queued = queuedExitShares /\ Truth.total = totalShares
    /\ Truth.holders = holderCount /\ Truth.books = books
BY DEF Truth

\* What the next Truth is made of.
LEMMA TruthBecomes ==
    /\ Truth'.shares = sharesOf' /\ Truth'.queued = queuedExitShares'
    /\ Truth'.total = totalShares' /\ Truth'.holders = holderCount' /\ Truth'.books = books'
BY DEF Truth

\* registerOperator says what it did.
LEMMA RegisterOperatorTold ==
    ASSUME Sound(Truth), RegisterOperator
    PROVE  Told /\ Sound(Truth')
<1> DEFINE t == Truth  u == Truth'  e == [name |-> "OperatorRegistered"]
<1>1. /\ u.shares = t.shares /\ u.queued = t.queued /\ u.total = t.total /\ u.holders = t.holders
      /\ t.books \in Books /\ u.books = [t.books EXCEPT !.operator = TRUE]
  BY TruthIs, TruthBecomes DEF RegisterOperator, SharesStay, stakeVars, Sound, BooksSound
<1>2. Emits("RegisterOperator", <<e>>)
  BY DEF RegisterOperator
<1>3. Sound(t)
  OBVIOUS
<1> HIDE DEF t, u
<1>4. Kept(t, u, {"operator"}) /\ u.books.operator = TRUE /\ u.books.kind = t.books.kind
  BY <1>1 DEF Kept, BookFields, Books
<1>5. Says(t, <<e>>, u)
  <2>1. ASSUME NEW n, Carried(n, e) PROVE n.name = "OperatorRegistered"
    BY <2>1 DEF Carried
  <2> HIDE DEF e
  <2>2. QED
    BY <1>4, <2>1, OneEvent, OperatorRegisteredAgrees DEF P!Malformed, VaultEvents
<1>6. Sound(u)
  <2>1. u.books \in Books
    BY <1>1 DEF Books
  <2>2. /\ u.books.active = t.books.active /\ u.books.proposals = t.books.proposals
        /\ u.books.open = t.books.open /\ u.books.settledQueued = t.books.settledQueued
        /\ u.books.queuedEver = t.books.queuedEver
    BY <1>4 DEF Kept, BookFields
  <2>3. QED
    BY <1>1, <1>3, <1>4, <2>1, <2>2 DEF Sound, SharesSound, BooksSound, Unborn, ExitsSound
<1>7. QED
  BY <1>2, <1>5, <1>6, SaidIsTold DEF t, u

\* createVault says what it did, whether or not it registers the operator.
LEMMA CreateVaultTold ==
    ASSUME Sound(Truth), NEW kind \in {"regular", "agent"}, CreateVault(kind)
    PROVE  Told /\ Sound(Truth')
<1> DEFINE t == Truth  u == Truth'
           o == [name |-> "OperatorRegistered"]
           d == [name |-> "VaultAttested"]
           e == [name |-> "VaultCreated", kind |-> kind]
           b == [t.books EXCEPT !.operator = TRUE]
           r == [shares |-> t.shares, queued |-> t.queued, total |-> t.total,
                 holders |-> t.holders, books |-> b]
           first == IF t.books.operator THEN <<>> ELSE <<o>>
<1>1. /\ u.shares = t.shares /\ u.queued = t.queued /\ u.total = t.total /\ u.holders = t.holders
      /\ t.books \in Books /\ t.books.kind = "none"
      /\ u.books = [t.books EXCEPT !.kind = kind, !.operator = TRUE, !.attested = TRUE]
  BY TruthIs, TruthBecomes DEF CreateVault, Created, SharesStay, stakeVars, Sound, BooksSound
<1>2. Emits("CreateVault", first \o <<d, e>>)
  BY TruthIs DEF CreateVault
<1>3. Sound(t)
  OBVIOUS
<1> HIDE DEF t, u
<1>4. /\ Kept(t, r, {"operator"}) /\ r.books.operator = TRUE /\ r.books.kind = "none"
      /\ t.books.operator => Kept(t, r, {})
  <2>1. b \in Books
    BY <1>1 DEF Books
  <2>2. b.operator = TRUE /\ \A x \in BookFields \ {"operator"} : b[x] = t.books[x]
    BY <1>1 DEF Books, BookFields
  <2>3. t.books.operator => b.operator = t.books.operator
    BY <1>1, <2>2 DEF Books
  <2>4. r.books = b /\ \A x \in {"shares", "queued", "total", "holders"} : r[x] = t[x]
    OBVIOUS
  <2>5. b.kind = "none"
    BY <1>1, <2>2 DEF BookFields
  <2> HIDE DEF b, r
  <2>6. QED
    BY <2>2, <2>3, <2>4, <2>5 DEF Kept
<1>5. Kept(r, u, {"kind"}) /\ u.books.kind = kind /\ kind # "none"
  <2>1. u.books.kind = kind /\ \A x \in BookFields \ {"kind"} : u.books[x] = b[x]
    BY <1>1 DEF Books, BookFields
  <2>2. r.books = b /\ \A x \in {"shares", "queued", "total", "holders"} : r[x] = t[x]
    OBVIOUS
  <2> HIDE DEF b, r
  <2>3. QED
    BY <1>1, <2>1, <2>2 DEF Kept
<1> HIDE DEF r
<1>6. Says(t, first, r)
  <2>1. CASE t.books.operator
    <3>2. Says(t, <<>>, r)
      BY <1>4, <2>1, NothingSaid
    <3>3. QED
      BY <2>1, <3>2
  <2>2. CASE ~t.books.operator
    <3>1. ASSUME NEW n, Carried(n, o) PROVE n.name = "OperatorRegistered"
      BY <3>1 DEF Carried
    <3> HIDE DEF o
    <3>2. Says(t, <<o>>, r)
      BY <1>4, <3>1, OneEvent, OperatorRegisteredAgrees DEF P!Malformed, VaultEvents
    <3>3. QED
      BY <2>2, <3>2
  <2>3. QED
    BY <2>1, <2>2
<1>7. Says(r, <<d, e>>, u)
  <2>1. ASSUME NEW n, Carried(n, d) PROVE n.name = "VaultAttested"
    BY <2>1 DEF Carried
  <2>2. ASSUME NEW n, Carried(n, e) PROVE n.name = "VaultCreated" /\ n.kind = kind
    BY <2>2 DEF Carried
  <2> HIDE DEF d, e
  <2>3. ASSUME NEW a, NEW n, Carried(a, d), Carried(n, e), NEW s, Mirrors(s, r)
        PROVE  Mirrors(P!Apply(P!Apply(s, a), n), u)
    BY <1>4, <1>5, <2>1, <2>2, <2>3, VaultCreatedAgrees
  <2>4. QED
    BY <2>1, <2>2, <2>3, TwoEvents DEF P!Malformed, VaultEvents
<1>8. Says(t, first \o <<d, e>>, u)
  BY <1>6, <1>7, SaidInTurn
<1>9. Sound(u)
  <2>1. /\ u.books \in Books /\ u.books.kind = kind /\ u.books.operator = TRUE
        /\ \A x \in BookFields \ {"kind", "operator", "attested"} : u.books[x] = t.books[x]
    BY <1>1 DEF Books, BookFields
  <2>2. SharesSound(u)
    BY <1>1, <1>3 DEF Sound, SharesSound
  <2>3. BooksSound(u)
    <3>1. u.books.active = t.books.active /\ u.books.proposals = t.books.proposals
      BY <2>1 DEF BookFields
    <3>2. t.books.active # 0 => t.books.proposals[t.books.active] # NoProposal
      BY <1>3 DEF Sound, BooksSound
    <3>3. QED
      BY <2>1, <3>1, <3>2 DEF BooksSound
  <2>4. Unborn(u)
    BY <2>1 DEF Unborn
  <2>5. ExitsSound(u)
    BY <1>1, <1>3, <2>1 DEF Sound, ExitsSound, BookFields
  <2>6. QED
    BY <2>2, <2>3, <2>4, <2>5 DEF Sound
<1>10. QED
  BY <1>2, <1>8, <1>9, SaidIsTold DEF t, u

\* A deposit that waits says what it did.
LEMMA DepositRowTold ==
    ASSUME Sound(Truth), NEW m \in Member, DepositRow(m)
    PROVE  Told /\ Sound(Truth')
<1> DEFINE t == Truth  u == Truth'  e == [name |-> "DepositPending", member |-> m]
<1>1. /\ u.shares = t.shares /\ u.queued = t.queued /\ u.total = t.total /\ u.holders = t.holders
      /\ t.books \in Books /\ t.books.kind # "none" /\ m \notin t.books.open
      /\ u.books = [t.books EXCEPT !.open = t.books.open \union {m}]
  BY TruthIs, TruthBecomes DEF DepositRow, Created, SharesStay, stakeVars, Sound, BooksSound
<1>2. Emits("Deposit", <<e>>)
  BY DEF DepositRow
<1>3. Sound(t)
  OBVIOUS
<1> HIDE DEF t, u
<1>4. /\ Kept(t, u, {"open"}) /\ u.books.open = t.books.open \union {m}
      /\ u.books.kind = t.books.kind
  BY <1>1 DEF Kept, BookFields, Books
<1>5. IsFiniteSet(t.books.open)
  <2>1. t.books.open \in SUBSET Member
    BY <1>1 DEF Books
  <2>2. QED
    BY <2>1, FS_Subset, StakeAssumption
<1>6. Says(t, <<e>>, u)
  <2>1. ASSUME NEW n, Carried(n, e) PROVE n.name = "DepositPending" /\ n.member = m
    BY <2>1 DEF Carried
  <2> HIDE DEF e
  <2>2. QED
    BY <1>1, <1>4, <1>5, <2>1, OneEvent, DepositPendingAgrees DEF P!Malformed, VaultEvents
<1>7. Sound(u)
  BY <1>1, <1>3 DEF Sound, SharesSound, BooksSound, Unborn, ExitsSound, Books
<1>8. QED
  BY <1>2, <1>6, <1>7, SaidIsTold DEF t, u

\* A cancelled deposit says what it did.
LEMMA CancelRowTold ==
    ASSUME Sound(Truth), NEW m \in Member, CancelRow(m)
    PROVE  Told /\ Sound(Truth')
<1> DEFINE t == Truth  u == Truth'  e == [name |-> "PendingCancelled", member |-> m]
<1>1. /\ u.shares = t.shares /\ u.queued = t.queued /\ u.total = t.total /\ u.holders = t.holders
      /\ t.books \in Books /\ m \in t.books.open
      /\ u.books = [t.books EXCEPT !.open = t.books.open \ {m}]
  BY TruthIs, TruthBecomes DEF CancelRow, SharesStay, stakeVars, Sound, BooksSound
<1>2. Emits("Cancel", <<e>>)
  BY DEF CancelRow
<1>3. Sound(t)
  OBVIOUS
<1> HIDE DEF t, u
<1>4. /\ Kept(t, u, {"open"}) /\ u.books.open = t.books.open \ {m}
      /\ u.books.kind = t.books.kind /\ t.books.kind # "none"
  BY <1>1, <1>3 DEF Kept, BookFields, Books, Sound, BooksSound
<1>5. IsFiniteSet(t.books.open)
  <2>1. t.books.open \in SUBSET Member
    BY <1>1 DEF Books
  <2>2. QED
    BY <2>1, FS_Subset, StakeAssumption
<1>6. Says(t, <<e>>, u)
  <2>1. ASSUME NEW n, Carried(n, e) PROVE n.name = "PendingCancelled" /\ n.member = m
    BY <2>1 DEF Carried
  <2> HIDE DEF e
  <2>2. QED
    BY <1>1, <1>4, <1>5, <2>1, OneEvent, PendingCancelledAgrees DEF P!Malformed, VaultEvents
<1>7. Sound(u)
  BY <1>1, <1>3 DEF Sound, SharesSound, BooksSound, Unborn, ExitsSound, Books
<1>8. QED
  BY <1>2, <1>6, <1>7, SaidIsTold DEF t, u

-----------------------------------------------------------------------------
\* Both ways a deposit mints: at once, or out of a row that is closed.
LEMMA MintTold ==
    ASSUME Sound(Truth), NEW m \in Member, NEW k \in MintSizes, MintShares(m, k),
           NEW name, Emits(name, <<Activated(m)>>), books.kind # "none",
           books' \in Books, books'.open = books.open \ {m},
           \A x \in BookFields \ {"open"} : books'[x] = books[x]
    PROVE  Told /\ Sound(Truth')
<1> DEFINE t == Truth  u == Truth'
           j == t.shares[m] + k
           e == [name |-> "DepositActivated", member |-> m, balance |-> j]
<1>1. /\ Sound(t) /\ t.shares \in [Member -> Nat] /\ t.total \in Int /\ t.books \in Books
      /\ t.books.kind # "none" /\ k \in Nat \ {0}
  BY TruthIs, StakeAssumption DEF Sound, SharesSound, BooksSound
<1>2. /\ u.shares = [t.shares EXCEPT ![m] = t.shares[m] + k] /\ u.total = t.total + k
      /\ u.holders = IF t.shares[m] = 0 THEN t.holders + 1 ELSE t.holders
      /\ u.queued = t.queued
      /\ u.books \in Books /\ u.books.open = t.books.open \ {m}
      /\ \A x \in BookFields \ {"open"} : u.books[x] = t.books[x]
  BY TruthIs, TruthBecomes DEF MintShares
<1>3. Activated(m) = e
  <2>1. sharesOf'[m] = j
    BY <1>1, TruthIs DEF MintShares
  <2>2. QED
    BY <2>1 DEF Activated
<1> HIDE DEF t, u
<1>4. Kept(t, u, {"shares", "total", "holders", "open"})
  BY <1>2 DEF Kept
<1>5. IsFiniteSet(t.books.open) /\ t.holders \in Int
  <2>1. t.books.open \in SUBSET Member
    BY <1>1 DEF Books
  <2>2. QED
    BY <1>1, <2>1, FS_Subset, FewPositive, StakeAssumption DEF Sound, SharesSound
<1>6. j \in Nat /\ j > 0 /\ u.shares = [t.shares EXCEPT ![m] = j] /\ j >= t.shares[m]
  BY <1>1, <1>2
<1>7. u.books.kind = t.books.kind
  BY <1>2 DEF BookFields
<1>8. Says(t, <<e>>, u)
  <2>1. ASSUME NEW n, Carried(n, e)
        PROVE  n.name = "DepositActivated" /\ n.member = m /\ n.balance = j
    BY <2>1 DEF Carried
  <2> HIDE DEF e
  <2>2. ASSUME NEW n, Carried(n, e), NEW s, Mirrors(s, t)
        PROVE  Mirrors(P!Apply(s, n), u)
    BY <1>1, <1>2, <1>4, <1>5, <2>1, <2>2, DepositActivatedAgrees
  <2> HIDE DEF j
  <2>3. \A n : Carried(n, e) => ~P!Malformed(n)
    BY <1>6, <2>1 DEF P!Malformed
  <2>4. QED
    BY <1>1, <2>1, <2>2, <2>3, OneEvent
<1> HIDE DEF j
<1>9. SharesSound(u)
  <2>1. u.shares \in [Member -> Nat] /\ u.total \in Int
    BY <1>1, <1>2, <1>6
  <2>2. \A x \in Member : u.queued[x] <= u.shares[x]
    BY <1>1, <1>2, <1>6 DEF Sound, SharesSound
  <2>3. u.holders = Cardinality(Positive(u.shares))
    BY <1>1, <1>2, <1>6, PositiveChanges DEF Sound, SharesSound
  <2>4. QED
    BY <1>1, <1>2, <2>1, <2>2, <2>3 DEF Sound, SharesSound
<1>10. Sound(u)
  <2>1. /\ u.books.active = t.books.active /\ u.books.proposals = t.books.proposals
        /\ u.books.operator = t.books.operator /\ u.books.settledQueued = t.books.settledQueued
        /\ u.books.queuedEver = t.books.queuedEver
    BY <1>2 DEF BookFields
  <2>2. QED
    BY <1>1, <1>2, <1>7, <1>9, <2>1 DEF Sound, BooksSound, Unborn, ExitsSound
<1>11. QED
  BY <1>3, <1>8, <1>10, SaidIsTold DEF t, u

\* A deposit that mints at once says what it did.
LEMMA DepositNowTold ==
    ASSUME Sound(Truth), NEW m \in Member, DepositNow(m)
    PROVE  Told /\ Sound(Truth')
<1>1. PICK k \in MintSizes : MintShares(m, k)
  BY DEF DepositNow
<1>2. /\ Emits("Deposit", <<Activated(m)>>) /\ books.kind # "none"
      /\ books' = books /\ m \notin books.open
  BY DEF DepositNow, Created
<1>3. books \in Books
  BY TruthIs DEF Sound, BooksSound
<1>4. QED
  BY <1>1, <1>2, <1>3, MintTold

\* An activated deposit says what it did.
LEMMA ActivateRowTold ==
    ASSUME Sound(Truth), NEW m \in Member, ActivateRow(m)
    PROVE  Told /\ Sound(Truth')
<1>1. PICK k \in MintSizes : MintShares(m, k)
  BY DEF ActivateRow
<1>2. /\ Emits("Activate", <<Activated(m)>>) /\ m \in books.open
      /\ books' = [books EXCEPT !.open = books.open \ {m}, !.cleared = books.cleared \union {m}]
  BY DEF ActivateRow
<1>3. books \in Books /\ books.kind # "none"
  BY <1>2, TruthIs DEF Sound, BooksSound
<1>4. /\ books' \in Books /\ books'.open = books.open \ {m}
      /\ \A x \in BookFields \ {"open"} : books'[x] = books[x]
  BY <1>2, <1>3 DEF Books, BookFields
<1>5. QED
  BY <1>1, <1>2, <1>3, <1>4, MintTold

\* A queued exit says what it did.
LEMMA ExitLaterTold ==
    ASSUME Sound(Truth), NEW m \in Member, NEW k \in 1..sharesOf[m], ExitLater(m, k)
    PROVE  Told /\ Sound(Truth')
<1> DEFINE t == Truth  u == Truth'
           e == [name |-> "ExitQueued", member |-> m, shares |-> k]
<1>1. /\ Sound(t) /\ t.shares \in [Member -> Nat] /\ t.queued \in [Member -> Nat]
      /\ t.books \in Books /\ k \in Nat \ {0} /\ k <= t.shares[m]
  BY TruthIs DEF Sound, SharesSound, BooksSound
<1>2. /\ u.shares = t.shares /\ u.total = t.total /\ u.holders = t.holders
      /\ u.queued = [t.queued EXCEPT ![m] = k] /\ t.queued[m] = 0
      /\ u.books = [t.books EXCEPT !.queuedEver = t.books.queuedEver + 1]
  BY TruthIs, TruthBecomes DEF ExitLater, RequestExit
<1>3. Emits("Queue", <<e>>)
  BY DEF ExitLater
<1> HIDE DEF t, u
<1>4. t.books.kind # "none"
  BY <1>1 DEF Sound, Unborn
<1>5. /\ u.books \in Books /\ u.books.queuedEver = t.books.queuedEver + 1
      /\ \A x \in BookFields \ {"queuedEver"} : u.books[x] = t.books[x]
  BY <1>1, <1>2 DEF Books, BookFields
<1>6. Kept(t, u, {"queued", "queuedEver"})
  BY <1>2, <1>5 DEF Kept
<1>7. Says(t, <<e>>, u)
  <2>1. ASSUME NEW n, Carried(n, e)
        PROVE  n.name = "ExitQueued" /\ n.member = m /\ n.shares = k
    BY <2>1 DEF Carried
  <2> HIDE DEF e
  <2>2. ASSUME NEW n, Carried(n, e), NEW s, Mirrors(s, t)
        PROVE  Mirrors(P!Apply(s, n), u)
    <3>1. n.name = "ExitQueued" /\ n.member \in Member /\ n.shares \in Nat \ {0}
      BY <1>1, <2>1, <2>2
    <3>2. u.queued = [t.queued EXCEPT ![n.member] = n.shares]
      BY <1>2, <2>1, <2>2
    <3>3. t.queued \in [Member -> Nat] /\ u.books.queuedEver = t.books.queuedEver + 1
      BY <1>1, <1>5
    <3>4. QED
      BY <1>6, <2>2, <3>1, <3>2, <3>3, ExitQueuedAgrees
  <2>3. QED
    BY <1>4, <2>1, <2>2, OneEvent DEF P!Malformed
<1>8. SharesSound(u)
  <2>1. u.queued \in [Member -> Nat] /\ \A x \in Member : u.queued[x] <= u.shares[x]
    BY <1>1, <1>2 DEF Sound, SharesSound
  <2>2. QED
    BY <1>1, <1>2, <2>1 DEF Sound, SharesSound
<1>9. ExitsSound(u)
  <2>1. Cardinality(Positive(u.queued)) = Cardinality(Positive(t.queued)) + 1
    BY <1>1, <1>2, PositiveChanges
  <2>2. u.books.settledQueued = t.books.settledQueued
    BY <1>5 DEF BookFields
  <2>3. t.books.settledQueued \in Nat /\ Cardinality(Positive(t.queued)) \in Nat
    BY <1>1, FewPositive DEF Books
  <2> DEFINE a == t.books.settledQueued  c == Cardinality(Positive(t.queued))
  <2>4. a + c = t.books.queuedEver
    BY <1>1 DEF Sound, ExitsSound
  <2>5. a \in Nat /\ c \in Nat
    BY <2>3
  <2> HIDE DEF a, c
  <2>6. a + (c + 1) = t.books.queuedEver + 1
    BY <2>4, <2>5
  <2>7. QED
    BY <1>5, <2>1, <2>2, <2>6 DEF ExitsSound, a, c
<1>10. Sound(u)
  <2>1. /\ u.books.active = t.books.active /\ u.books.proposals = t.books.proposals
        /\ u.books.operator = t.books.operator /\ u.books.kind = t.books.kind
    BY <1>5 DEF BookFields
  <2>2. QED
    BY <1>1, <1>4, <1>5, <1>8, <1>9, <2>1 DEF Sound, BooksSound, Unborn
<1>11. QED
  BY <1>3, <1>7, <1>10, SaidIsTold DEF t, u

-----------------------------------------------------------------------------
\* A settlement says what it leaves in the operator's record and in the shares.
LEMMA SettlementSays ==
    ASSUME NEW t, NEW u, NEW m \in Member, NEW n \in Nat \ {0}, NEW result \in Int,
           NEW recorded \in BOOLEAN, NEW fee \in Nat, SharesSound(t), BooksSound(t),
           t.books.kind # "none", n <= t.shares[m],
           u.shares = [t.shares EXCEPT ![m] = t.shares[m] - n], u.total = t.total - n,
           u.holders = IF t.shares[m] = n THEN t.holders - 1 ELSE t.holders,
           u.queued = [t.queued EXCEPT ![m] = 0],
           u.books.settled = t.books.settled + 1,
           u.books.settledQueued = IF t.queued[m] > 0 THEN t.books.settledQueued + 1
                                   ELSE t.books.settledQueued,
           u.books.gain = t.books.gain + IF recorded /\ result > 0 THEN result ELSE 0,
           u.books.loss = t.books.loss + IF recorded /\ result < 0 THEN -result ELSE 0,
           u.books.fees = t.books.fees + fee,
           \A x \in BookFields \ {"settled", "settledQueued", "gain", "loss", "fees"} :
              u.books[x] = t.books[x]
    PROVE  Says(t, SettlementEvents(m, n, result, recorded, fee), u)
<1> DEFINE b == [t.books EXCEPT !.gain = u.books.gain, !.loss = u.books.loss]
           c == [b EXCEPT !.fees = u.books.fees]
           q == [shares |-> t.shares, queued |-> t.queued, total |-> t.total,
                 holders |-> t.holders, books |-> b]
           r == [shares |-> t.shares, queued |-> t.queued, total |-> t.total,
                 holders |-> t.holders, books |-> c]
           e1 == [name |-> "RealizationRecorded", result |-> result]
           e2 == [name |-> "FeeRecorded", amount |-> fee]
           e3 == [name |-> "ExitSettled", member |-> m, burned |-> n]
           l1 == IF recorded THEN <<e1>> ELSE <<>>
           l2 == IF fee > 0 THEN <<e2>> ELSE <<>>
<1>1. /\ t.books \in Books /\ t.books.operator = TRUE /\ t.books.gain \in Nat
      /\ t.books.loss \in Nat /\ t.books.fees \in Nat
  BY DEF BooksSound, Books
<1>2. /\ t.shares \in [Member -> Nat] /\ t.queued \in [Member -> Nat] /\ t.total \in Int
      /\ t.holders \in Int
  BY FewPositive DEF SharesSound
<1>3. /\ b.gain = u.books.gain /\ b.loss = u.books.loss
      /\ \A x \in BookFields \ {"gain", "loss"} : b[x] = t.books[x]
      /\ c.fees = u.books.fees /\ \A x \in BookFields \ {"fees"} : c[x] = b[x]
  BY <1>1 DEF Books, BookFields
<1>4. /\ q.books = b /\ r.books = c
      /\ \A x \in {"shares", "queued", "total", "holders"} : q[x] = t[x] /\ r[x] = t[x]
  OBVIOUS
<1> HIDE DEF q, r, b, c
<1>5. Kept(t, q, {"gain", "loss"}) /\ q.books.kind # "none" /\ q.books.operator = TRUE
  BY <1>1, <1>3, <1>4 DEF Kept, BookFields
<1>6. Kept(q, r, {"fees"}) /\ r.books.kind # "none"
  BY <1>3, <1>4, <1>5 DEF Kept, BookFields
<1>7. Kept(r, u, {"shares", "total", "holders", "queued", "settled", "settledQueued"})
  BY <1>3, <1>4 DEF Kept, BookFields
<1>8. Says(t, l1, q)
  <2>1. CASE recorded
    <3>1. ASSUME NEW x, Carried(x, e1) PROVE x.name = "RealizationRecorded" /\ x.result = result
      BY <3>1 DEF Carried
    <3> HIDE DEF e1
    <3>2. /\ q.books.gain = t.books.gain + IF result > 0 THEN result ELSE 0
          /\ q.books.loss = t.books.loss + IF result < 0 THEN -result ELSE 0
      BY <1>3, <1>4, <2>1
    <3>3. ASSUME NEW x, Carried(x, e1), NEW s, Mirrors(s, t) PROVE Mirrors(P!Apply(s, x), q)
      <4>1. x.name = "RealizationRecorded" /\ x.result = result
        BY <3>1, <3>3
      <4>2. /\ q.books.gain = t.books.gain + IF x.result > 0 THEN x.result ELSE 0
            /\ q.books.loss = t.books.loss + IF x.result < 0 THEN -x.result ELSE 0
        BY <3>2, <4>1
      <4>3. QED
        BY <1>1, <1>5, <3>3, <4>1, <4>2, RealizationRecordedAgrees
    <3>4. Says(t, <<e1>>, q)
      BY <1>1, <1>5, <3>1, <3>3, OneEvent DEF P!Malformed, VaultEvents
    <3>5. QED
      BY <2>1, <3>4
  <2>2. CASE ~recorded
    <3>1. b.gain = t.books.gain /\ b.loss = t.books.loss
      BY <1>1, <1>3, <2>2
    <3>2. Kept(t, q, {})
      BY <1>4, <1>5, <3>1 DEF Kept
    <3>3. QED
      BY <2>2, <3>2, NothingSaid
  <2>3. QED
    BY <2>1, <2>2
<1>9. Says(q, l2, r)
  <2>1. CASE fee > 0
    <3>1. ASSUME NEW x, Carried(x, e2) PROVE x.name = "FeeRecorded" /\ x.amount = fee
      BY <3>1 DEF Carried
    <3> HIDE DEF e2
    <3>2. r.books.fees = q.books.fees + fee
      BY <1>3, <1>4 DEF BookFields
    <3>3. ASSUME NEW x, Carried(x, e2), NEW s, Mirrors(s, q) PROVE Mirrors(P!Apply(s, x), r)
      BY <1>5, <1>6, <3>1, <3>2, <3>3, FeeRecordedAgrees
    <3>4. Says(q, <<e2>>, r)
      BY <1>5, <1>6, <3>1, <3>3, OneEvent DEF P!Malformed, VaultEvents
    <3>5. QED
      BY <2>1, <3>4
  <2>2. CASE ~(fee > 0)
    <3>1. c.fees = b.fees
      BY <1>1, <1>3, <2>2 DEF BookFields
    <3>2. Kept(q, r, {})
      BY <1>4, <1>6, <3>1 DEF Kept
    <3>3. QED
      BY <2>2, <3>2, NothingSaid
  <2>3. QED
    BY <2>1, <2>2
<1>10. Says(r, <<e3>>, u)
  <2>1. ASSUME NEW x, Carried(x, e3)
        PROVE  x.name = "ExitSettled" /\ x.member = m /\ x.burned = n
    BY <2>1 DEF Carried
  <2> HIDE DEF e3
  <2>2. /\ r.shares = t.shares /\ r.queued = t.queued /\ r.total = t.total
        /\ r.holders = t.holders /\ r.books.settled = t.books.settled
        /\ r.books.settledQueued = t.books.settledQueued
    BY <1>3, <1>4 DEF BookFields
  <2>3. ASSUME NEW x, Carried(x, e3), NEW s, Mirrors(s, r) PROVE Mirrors(P!Apply(s, x), u)
    BY <1>2, <1>7, <2>1, <2>2, <2>3, ExitSettledAgrees
  <2>4. QED
    BY <1>6, <2>1, <2>3, OneEvent DEF P!Malformed
<1> HIDE DEF l1, l2, e3
<1>11. Says(t, (l1 \o l2) \o <<e3>>, u)
  <2>1. Says(t, l1 \o l2, r)
    BY <1>8, <1>9, SaidInTurn
  <2>2. QED
    BY <1>10, <2>1, SaidInTurn
<1>12. QED
  BY <1>11 DEF SettlementEvents, l1, l2, e3

\* Burnt shares leave the contracts sound.
LEMMA SettlementSound ==
    ASSUME NEW t, NEW u, NEW m \in Member, NEW n \in Nat \ {0}, Sound(t),
           t.books.kind # "none", n <= t.shares[m],
           t.queued[m] = 0 \/ t.queued[m] = n,
           u.shares = [t.shares EXCEPT ![m] = t.shares[m] - n], u.total = t.total - n,
           u.holders = IF t.shares[m] = n THEN t.holders - 1 ELSE t.holders,
           u.queued = [t.queued EXCEPT ![m] = 0],
           u.books \in Books,
           u.books.settledQueued = IF t.queued[m] > 0 THEN t.books.settledQueued + 1
                                   ELSE t.books.settledQueued,
           \A x \in BookFields \ {"settled", "settledQueued", "gain", "loss", "fees"} :
              u.books[x] = t.books[x]
    PROVE  Sound(u)
<1>1. /\ t.shares \in [Member -> Nat] /\ t.queued \in [Member -> Nat] /\ t.total \in Int
      /\ t.books \in Books /\ \A x \in Member : t.queued[x] <= t.shares[x]
      /\ t.holders = Cardinality(Positive(t.shares))
  BY DEF Sound, SharesSound, BooksSound
<1> DEFINE j == t.shares[m] - n
<1>2. j \in Nat /\ (t.shares[m] = n <=> j = 0) /\ t.shares[m] > 0
      /\ u.shares = [t.shares EXCEPT ![m] = j]
  BY <1>1
<1> HIDE DEF j
<1>3. SharesSound(u)
  <2>1. u.shares \in [Member -> Nat] /\ u.queued \in [Member -> Nat] /\ u.total \in Int
    BY <1>1, <1>2
  <2>2. \A x \in Member : u.queued[x] <= u.shares[x]
    BY <1>1, <1>2
  <2>3. u.holders = Cardinality(Positive(u.shares))
    BY <1>1, <1>2, PositiveChanges
  <2>4. QED
    BY <2>1, <2>2, <2>3 DEF SharesSound
<1>4. ExitsSound(u)
  <2> DEFINE a == t.books.settledQueued  c == Cardinality(Positive(t.queued))
             d == Cardinality(Positive(u.queued))
  <2>1. a \in Nat /\ c \in Nat /\ a + c = t.books.queuedEver
    BY <1>1, FewPositive DEF Sound, ExitsSound, Books
  <2>2. IF t.queued[m] > 0 THEN d = c - 1 ELSE d = c
    BY <1>1, PositiveChanges
  <2>3. u.books.queuedEver = t.books.queuedEver
    BY DEF BookFields
  <2>4. u.books.settledQueued = IF t.queued[m] > 0 THEN a + 1 ELSE a
    OBVIOUS
  <2> HIDE DEF a, c, d
  <2>5. u.books.settledQueued + d = a + c
    BY <2>1, <2>2, <2>4
  <2>6. QED
    BY <2>1, <2>3, <2>5 DEF ExitsSound, d
<1>5. /\ u.books.active = t.books.active /\ u.books.proposals = t.books.proposals
      /\ u.books.operator = t.books.operator /\ u.books.kind = t.books.kind
      /\ u.books.open = t.books.open
  BY DEF BookFields
<1>6. QED
  BY <1>3, <1>4, <1>5 DEF Sound, BooksSound, Unborn

\* The books after a settlement.
Put(b, g, l, f) == [b EXCEPT !.settled = b.settled + 1, !.gain = g, !.loss = l, !.fees = f]

\* The fields of the new record.
LEMMA RecordPut ==
    ASSUME NEW b, b \in Books, NEW g, NEW l, NEW f, {g, l, f} \subseteq Nat,
           NEW c, c = Put(b, g, l, f)
    PROVE  /\ c \in Books /\ c.settled = b.settled + 1
           /\ c.gain = g /\ c.loss = l /\ c.fees = f
           /\ \A x \in BookFields \ {"settled", "gain", "loss", "fees"} : c[x] = b[x]
<1> DEFINE k == b.settled + 1
<1>1. k \in Nat
  BY DEF Books
<1>2. c = [b EXCEPT !.settled = k, !.gain = g, !.loss = l, !.fees = f]
  BY DEF Put
<1> HIDE DEF k
<1>3. c \in Books
  BY <1>1, <1>2 DEF Books
<1>4. c.settled = k /\ c.gain = g /\ c.loss = l /\ c.fees = f
  BY <1>2 DEF Books
<1>5. \A x \in BookFields \ {"settled", "gain", "loss", "fees"} : c[x] = b[x]
  BY <1>2 DEF Books, BookFields
<1>6. QED
  BY <1>3, <1>4, <1>5 DEF k

\* An exit that is settled at once says what it did, recorded or not, with a fee or not.
LEMMA ExitAtOnceTold ==
    ASSUME Sound(Truth), NEW m \in Member, NEW n \in 1..sharesOf[m], ExitAtOnce(m, n)
    PROVE  Told /\ Sound(Truth')
<1> DEFINE t == Truth  u == Truth'
<1>1. PICK result \in Results, recorded \in BOOLEAN :
         \E fee \in IF result > 0 THEN {0, 1} ELSE {0} :
            /\ books' = SettledBooks(result, recorded, fee)
            /\ Emits("Exit", SettlementEvents(m, n, result, recorded, fee))
  BY DEF ExitAtOnce
<1>2. PICK fee \in {0, 1} : /\ books' = SettledBooks(result, recorded, fee)
                            /\ Emits("Exit", SettlementEvents(m, n, result, recorded, fee))
  BY <1>1
<1>3. result \in Int /\ fee \in Nat
  BY LogAssumption
<1>4. /\ Sound(t) /\ t.shares \in [Member -> Nat] /\ t.queued \in [Member -> Nat]
      /\ t.books \in Books /\ n \in Nat \ {0} /\ n <= t.shares[m] /\ t.queued[m] = 0
  BY TruthIs DEF Sound, SharesSound, BooksSound, ExitAtOnce, RequestExit
<1>5. /\ u.shares = [t.shares EXCEPT ![m] = t.shares[m] - n] /\ u.total = t.total - n
      /\ u.holders = IF t.shares[m] = n THEN t.holders - 1 ELSE t.holders
      /\ u.queued = t.queued
  BY <1>4, TruthIs, TruthBecomes DEF ExitAtOnce, RequestExit, BurnShares
<1>6. u.books = [t.books EXCEPT
                    !.settled = t.books.settled + 1,
                    !.gain = t.books.gain + IF recorded /\ result > 0 THEN result ELSE 0,
                    !.loss = t.books.loss + IF recorded /\ result < 0 THEN -result ELSE 0,
                    !.fees = t.books.fees + fee]
  BY <1>2, TruthIs, TruthBecomes DEF SettledBooks
<1> HIDE DEF t, u
<1>7. /\ u.books \in Books /\ u.books.settled = t.books.settled + 1
      /\ u.books.gain = t.books.gain + IF recorded /\ result > 0 THEN result ELSE 0
      /\ u.books.loss = t.books.loss + IF recorded /\ result < 0 THEN -result ELSE 0
      /\ u.books.fees = t.books.fees + fee
      /\ \A x \in BookFields \ {"settled", "gain", "loss", "fees"} : u.books[x] = t.books[x]
  <2> DEFINE g == t.books.gain + IF recorded /\ result > 0 THEN result ELSE 0
             l == t.books.loss + IF recorded /\ result < 0 THEN -result ELSE 0
             f == t.books.fees + fee
  <2>1. t.books.gain \in Nat /\ t.books.loss \in Nat /\ t.books.fees \in Nat
    BY <1>4 DEF Books
  <2>2. g \in Nat /\ l \in Nat /\ f \in Nat
    BY <1>3, <2>1
  <2> HIDE DEF g, l, f
  <2>3. u.books = Put(t.books, g, l, f)
    BY <1>6 DEF g, l, f, Put
  <2>4. /\ u.books \in Books /\ u.books.settled = t.books.settled + 1
        /\ u.books.gain = g /\ u.books.loss = l /\ u.books.fees = f
        /\ \A x \in BookFields \ {"settled", "gain", "loss", "fees"} : u.books[x] = t.books[x]
    BY <1>4, <2>2, <2>3, RecordPut
  <2>5. QED
    BY <2>4 DEF g, l, f
<1>8. t.books.kind # "none"
  BY <1>4 DEF Sound, Unborn
<1>9. u.queued = [t.queued EXCEPT ![m] = 0]
  BY <1>4, <1>5
<1>10. u.books.settledQueued = IF t.queued[m] > 0 THEN t.books.settledQueued + 1
                               ELSE t.books.settledQueued
  BY <1>4, <1>7 DEF BookFields
<1>11. Says(t, SettlementEvents(m, n, result, recorded, fee), u)
  BY <1>3, <1>4, <1>5, <1>7, <1>8, <1>9, <1>10, SettlementSays DEF Sound
<1>12. Sound(u)
  BY <1>4, <1>5, <1>7, <1>8, <1>9, <1>10, SettlementSound
<1>13. QED
  BY <1>2, <1>11, <1>12, SaidIsTold DEF t, u

\* The settlement of a queued exit says what it did.
LEMMA SettleExitTold ==
    ASSUME Sound(Truth), NEW m \in Member, SettleExit(m)
    PROVE  Told /\ Sound(Truth')
<1> DEFINE t == Truth  u == Truth'  n == queuedExitShares[m]
<1>1. PICK result \in Results :
         /\ books' = [SettledBooks(result, TRUE, 0) EXCEPT !.settledQueued = @ + 1]
         /\ Emits("Queue", SettlementEvents(m, n, result, TRUE, 0))
  BY DEF SettleExit
<1>2. result \in Int
  BY LogAssumption
<1>3. /\ Sound(t) /\ t.shares \in [Member -> Nat] /\ t.queued \in [Member -> Nat]
      /\ t.books \in Books /\ t.queued[m] = n /\ n \in Nat \ {0} /\ n <= t.shares[m]
  BY TruthIs DEF Sound, SharesSound, BooksSound, SettleExit, SettleQueuedExit
<1>4. /\ u.shares = [t.shares EXCEPT ![m] = t.shares[m] - n] /\ u.total = t.total - n
      /\ u.holders = IF t.shares[m] = n THEN t.holders - 1 ELSE t.holders
      /\ u.queued = [t.queued EXCEPT ![m] = 0]
  BY <1>3, TruthIs, TruthBecomes DEF SettleExit, SettleQueuedExit, BurnShares
<1>5. u.books = [[t.books EXCEPT
                    !.settled = t.books.settled + 1,
                    !.gain = t.books.gain + IF result > 0 THEN result ELSE 0,
                    !.loss = t.books.loss + IF result < 0 THEN -result ELSE 0,
                    !.fees = t.books.fees + 0] EXCEPT !.settledQueued = @ + 1]
  BY <1>1, TruthIs, TruthBecomes DEF SettledBooks
<1> HIDE DEF t, u, n
<1>6. /\ u.books \in Books /\ u.books.settled = t.books.settled + 1
      /\ u.books.settledQueued = t.books.settledQueued + 1
      /\ u.books.gain = t.books.gain + IF TRUE /\ result > 0 THEN result ELSE 0
      /\ u.books.loss = t.books.loss + IF TRUE /\ result < 0 THEN -result ELSE 0
      /\ u.books.fees = t.books.fees + 0
      /\ \A x \in BookFields \ {"settled", "settledQueued", "gain", "loss", "fees"} :
            u.books[x] = t.books[x]
  <2> DEFINE g == t.books.gain + IF result > 0 THEN result ELSE 0
             l == t.books.loss + IF result < 0 THEN -result ELSE 0
             f == t.books.fees + 0
             c == Put(t.books, g, l, f)
  <2>1. t.books.gain \in Nat /\ t.books.loss \in Nat /\ t.books.fees \in Nat
    BY <1>3 DEF Books
  <2>2. g \in Nat /\ l \in Nat /\ f \in Nat
    BY <1>2, <2>1
  <2>3. u.books = [c EXCEPT !.settledQueued = @ + 1]
    BY <1>5 DEF Put
  <2> HIDE DEF g, l, f
  <2>4. /\ c \in Books /\ c.settled = t.books.settled + 1
        /\ c.gain = g /\ c.loss = l /\ c.fees = f
        /\ \A x \in BookFields \ {"settled", "gain", "loss", "fees"} : c[x] = t.books[x]
    BY <1>3, <2>2, RecordPut
  <2> HIDE DEF c
  <2>5. /\ u.books \in Books /\ u.books.settledQueued = c.settledQueued + 1
        /\ \A x \in BookFields \ {"settledQueued"} : u.books[x] = c[x]
    BY <2>3, <2>4 DEF Books, BookFields
  <2>6. /\ u.books.settled = c.settled /\ u.books.gain = c.gain /\ u.books.loss = c.loss
        /\ u.books.fees = c.fees /\ c.settledQueued = t.books.settledQueued
    BY <2>4, <2>5 DEF BookFields
  <2>7. \A x \in BookFields \ {"settled", "settledQueued", "gain", "loss", "fees"} :
           u.books[x] = t.books[x]
    BY <2>4, <2>5
  <2>8. QED
    BY <2>4, <2>5, <2>6, <2>7 DEF g, l, f
<1>7. t.books.kind # "none"
  BY <1>3 DEF Sound, Unborn
<1>8. Says(t, SettlementEvents(m, n, result, TRUE, 0), u)
  <2> DEFINE y == TRUE
  <2>1. /\ u.books.gain = t.books.gain + IF y /\ result > 0 THEN result ELSE 0
        /\ u.books.loss = t.books.loss + IF y /\ result < 0 THEN -result ELSE 0
        /\ y \in BOOLEAN
    BY <1>6
  <2> HIDE DEF y
  <2>2. u.books.settledQueued = IF t.queued[m] > 0 THEN t.books.settledQueued + 1
                                ELSE t.books.settledQueued
    BY <1>3, <1>6
  <2>3. 0 \in Nat /\ SharesSound(t) /\ BooksSound(t)
    BY <1>3 DEF Sound
  <2>4. Says(t, SettlementEvents(m, n, result, y, 0), u)
    BY <1>2, <1>3, <1>4, <1>6, <1>7, <2>1, <2>2, <2>3, SettlementSays
  <2>5. QED
    BY <2>4 DEF y
<1>9. Sound(u)
  BY <1>3, <1>4, <1>6, <1>7, SettlementSound
<1>10. QED
  BY <1>1, <1>8, <1>9, SaidIsTold DEF t, u

-----------------------------------------------------------------------------
\* A call that only moves the ballot leaves the rest sound.
LEMMA BallotSound ==
    ASSUME NEW t, NEW u, Sound(t), t.books.kind # "none",
           u.shares = t.shares, u.queued = t.queued, u.total = t.total, u.holders = t.holders,
           u.books \in Books, u.books.active # 0 => u.books.proposals[u.books.active] # NoProposal,
           \A x \in BookFields \ {"proposals", "active"} : u.books[x] = t.books[x]
    PROVE  Sound(u)
<1>1. /\ u.books.operator = t.books.operator /\ u.books.kind = t.books.kind
      /\ u.books.settledQueued = t.books.settledQueued
      /\ u.books.queuedEver = t.books.queuedEver
  BY DEF BookFields
<1>2. QED
  BY <1>1 DEF Sound, SharesSound, BooksSound, Unborn, ExitsSound

\* A proposal that is there, and the vault with it.
LEMMA ProposalThere ==
    ASSUME NEW t, Sound(t), t.books.active # 0
    PROVE  /\ t.books.active \in Pid /\ t.books.kind # "none"
           /\ t.books.proposals[t.books.active] \in Proposal
           /\ t.books.proposals[t.books.active] # NoProposal
BY DEF Sound, BooksSound, Books

\* The books with another ballot.
Balloted(b, props, active) == [b EXCEPT !.proposals = props, !.active = active]

\* The fields of those books.
LEMMA BallotPut ==
    ASSUME NEW b, b \in Books, NEW props, props \in [Pid -> Proposal \union {NoProposal}],
           NEW active, {active} \subseteq Pid \union {0}, NEW c, c = Balloted(b, props, active)
    PROVE  /\ c \in Books /\ c.proposals = props /\ c.active = active
           /\ \A x \in BookFields \ {"proposals", "active"} : c[x] = b[x]
<1>1. c \in Books
  BY DEF Balloted, Books
<1>2. c.proposals = props /\ c.active = active
  BY DEF Balloted, Books
<1>3. \A x \in BookFields \ {"proposals", "active"} : c[x] = b[x]
  BY DEF Balloted, Books, BookFields
<1>4. QED
  BY <1>1, <1>2, <1>3

\* A finalized, executed or expired proposal says how it ended.
LEMMA ResolveTold ==
    ASSUME NamesApart, Sound(Truth), NEW name, NEW from, NEW status, Resolve(name, from, status),
           \/ name = "Executed" /\ status = "Executed"
           \/ name = "ProposalExpired" /\ status = "Expired"
           \/ name = "Finalized" /\ status \in {"Passed", "Defeated"}
    PROVE  Told /\ Sound(Truth')
<1> DEFINE t == Truth  u == Truth'
           pid == t.books.active
           props == t.books.proposals
           e == [name |-> name, pid |-> pid, status |-> status]
           new == [props[pid] EXCEPT !.status = status]
           put == [props EXCEPT ![pid] = new]
           next == IF status = "Passed" THEN pid ELSE 0
<1>1. /\ u.shares = t.shares /\ u.queued = t.queued /\ u.total = t.total /\ u.holders = t.holders
      /\ t.books \in Books /\ pid # 0
      /\ u.books = [t.books EXCEPT !.proposals = put, !.active = next]
  BY TruthIs, TruthBecomes DEF Resolve, SharesStay, stakeVars, Sound, BooksSound
<1>2. Emits("Resolve", <<e>>)
  BY TruthIs DEF Resolve
<1>3. Sound(t)
  OBVIOUS
<1> HIDE DEF t, u
<1>4. /\ pid \in Pid /\ t.books.kind # "none" /\ props[pid] \in Proposal
      /\ props[pid] # NoProposal /\ props \in [Pid -> Proposal \union {NoProposal}]
  BY <1>1, <1>3, ProposalThere DEF Books
<1>5. new \in Proposal
  <2> DEFINE q == props[pid]
  <2>1. q \in Proposal
    BY <1>4
  <2> HIDE DEF q
  <2>2. [q EXCEPT !.status = status] \in Proposal
    BY <2>1 DEF Proposal
  <2>3. QED
    BY <2>2 DEF q
<1>6. put = [t.books.proposals EXCEPT ![pid] = [@ EXCEPT !.status = status]] /\ put[pid] = new
  BY <1>4
<1> HIDE DEF new
<1>7. put \in [Pid -> Proposal \union {NoProposal}] /\ next \in Pid \union {0}
  BY <1>4, <1>5
<1> HIDE DEF put, next
<1>8. u.books = Balloted(t.books, put, next)
  BY <1>1 DEF Balloted
<1>9. /\ u.books \in Books /\ u.books.proposals = put /\ u.books.active = next
      /\ \A x \in BookFields \ {"proposals", "active"} : u.books[x] = t.books[x]
  <2> DEFINE c == Balloted(t.books, put, next)
  <2>1. /\ c \in Books /\ c.proposals = put /\ c.active = next
        /\ \A x \in BookFields \ {"proposals", "active"} : c[x] = t.books[x]
    BY <1>1, <1>7, BallotPut
  <2>2. u.books = c
    BY <1>8
  <2> HIDE DEF c
  <2>3. QED
    BY <2>1, <2>2
<1>10. Kept(t, u, {"proposals", "active"}) /\ u.books.kind = t.books.kind
  BY <1>1, <1>9 DEF Kept, BookFields
<1> HIDE DEF props, pid
<1>11. Says(t, <<e>>, u)
  <2>1. ASSUME NEW n, Carried(n, e) PROVE n.name = name /\ n.pid = pid /\ n.status = status
    BY <2>1 DEF Carried
  <2> HIDE DEF e
  <2>2. /\ u.books.active = IF status = "Passed" THEN t.books.active ELSE 0
        /\ t.books.proposals[pid] # NoProposal
        /\ u.books.proposals = [t.books.proposals EXCEPT ![pid] = [@ EXCEPT !.status = status]]
    BY <1>4, <1>6, <1>9 DEF next, pid, props
  <2>3. ASSUME NEW n, Carried(n, e), NEW s, Mirrors(s, t) PROVE Mirrors(P!Apply(s, n), u)
    BY <1>10, <2>1, <2>2, <2>3, ResolvedAgrees
  <2>4. QED
    BY <1>4, <1>10, <2>1, <2>3, OneEvent DEF P!Malformed, VaultEvents
<1>12. Sound(u)
  <2>1. u.books.active # 0 => u.books.proposals[u.books.active] # NoProposal
    BY <1>5, <1>6, <1>9 DEF next, NamesApart
  <2>2. QED
    BY <1>1, <1>3, <1>4, <1>9, <2>1, BallotSound
<1>13. QED
  BY <1>2, <1>11, <1>12, SaidIsTold DEF t, u, pid

\* A proposal says that it was opened, and that it expired the one before it.
LEMMA ProposeTold ==
    ASSUME NamesApart, Sound(Truth), NEW pid \in Pid, Propose(pid)
    PROVE  Told /\ Sound(Truth')
<1> DEFINE t == Truth  u == Truth'
           old == t.books.active
           props == t.books.proposals
           o == [name |-> "ProposalExpired", pid |-> old]
           e == [name |-> "Proposed", pid |-> pid]
           first == IF old = 0 THEN <<>> ELSE <<o>>
           mid == IF old = 0 THEN props ELSE [props EXCEPT ![old] = [@ EXCEPT !.status = "Expired"]]
           put == [p \in Pid |-> CASE p = pid -> Fresh
                                   [] p = old -> [props[p] EXCEPT !.status = "Expired"]
                                   [] OTHER   -> props[p]]
           b == Balloted(t.books, mid, 0)
           r == [shares |-> t.shares, queued |-> t.queued, total |-> t.total,
                 holders |-> t.holders, books |-> b]
<1>1. /\ u.shares = t.shares /\ u.queued = t.queued /\ u.total = t.total /\ u.holders = t.holders
      /\ t.books \in Books /\ t.books.kind # "none" /\ props[pid] = NoProposal
      /\ u.books = [t.books EXCEPT !.proposals = put, !.active = pid]
  BY TruthIs, TruthBecomes DEF Propose, Created, SharesStay, stakeVars, Sound, BooksSound
<1>2. Emits("Resolve", first \o <<e>>)
  BY TruthIs DEF Propose
<1>3. Sound(t)
  OBVIOUS
<1> HIDE DEF t, u
<1>4. /\ props \in [Pid -> Proposal \union {NoProposal}] /\ old \in Pid \union {0}
      /\ old # 0 => old \in Pid /\ props[old] \in Proposal /\ props[old] # NoProposal
      /\ 0 \notin Pid
  BY <1>1, <1>3, ProposalThere, LogAssumption DEF Books
<1>5. ASSUME NEW q \in Proposal PROVE [q EXCEPT !.status = "Expired"] \in Proposal
  BY DEF Proposal
<1>6. mid \in [Pid -> Proposal \union {NoProposal}]
  BY <1>4, <1>5
<1>7. put = [mid EXCEPT ![pid] = Fresh]
  <2>1. \A p \in Pid : put[p] = IF p = pid THEN Fresh ELSE mid[p]
    BY <1>1, <1>4
  <2> HIDE DEF put, mid
  <2>2. put = [p \in Pid |-> put[p]]
    BY DEF put
  <2>3. QED
    BY <1>6, <2>1, <2>2
<1>8. Fresh \in Proposal
  BY DEF Fresh, Proposal
<1>9. mid = IF old = 0 THEN props ELSE [t.books.proposals EXCEPT ![old] = [@ EXCEPT !.status = "Expired"]]
  OBVIOUS
<1> HIDE DEF put, mid
<1>10. put \in [Pid -> Proposal \union {NoProposal}] /\ put[pid] = Fresh
  BY <1>6, <1>7, <1>8
<1>11. u.books = Balloted(t.books, put, pid)
  BY <1>1 DEF Balloted
<1>12. /\ u.books \in Books /\ u.books.proposals = put /\ u.books.active = pid
       /\ \A x \in BookFields \ {"proposals", "active"} : u.books[x] = t.books[x]
  <2> DEFINE c == Balloted(t.books, put, pid)
  <2>1. /\ c \in Books /\ c.proposals = put /\ c.active = pid
        /\ \A x \in BookFields \ {"proposals", "active"} : c[x] = t.books[x]
    BY <1>1, <1>10, BallotPut
  <2>2. u.books = c
    BY <1>11
  <2> HIDE DEF c
  <2>3. QED
    BY <2>1, <2>2
<1>13. /\ b \in Books /\ b.proposals = mid /\ b.active = 0
       /\ \A x \in BookFields \ {"proposals", "active"} : b[x] = t.books[x]
  BY <1>1, <1>6, BallotPut
<1>14. r.books = b /\ \A x \in {"shares", "queued", "total", "holders"} : r[x] = t[x]
  OBVIOUS
<1> HIDE DEF r, b
<1>15. Kept(t, r, {"proposals", "active"}) /\ r.books.kind = t.books.kind
  BY <1>13, <1>14 DEF Kept, BookFields
<1>16. Kept(r, u, {"proposals", "active"}) /\ u.books.kind = t.books.kind
  BY <1>1, <1>12, <1>13, <1>14 DEF Kept, BookFields
<1>17. Says(t, first, r)
  <2>1. CASE old = 0
    <3>1. r.books.proposals = t.books.proposals /\ r.books.active = t.books.active
      BY <1>9, <1>13, <1>14, <2>1
    <3>2. Kept(t, r, {})
      BY <1>15, <3>1 DEF Kept
    <3>3. QED
      BY <2>1, <3>2, NothingSaid
  <2>2. CASE old # 0
    <3>1. ASSUME NEW n, Carried(n, o) PROVE n.name = "ProposalExpired" /\ n.pid = old
      BY <3>1 DEF Carried
    <3> HIDE DEF o
    <3>2. /\ t.books.proposals[old] # NoProposal /\ r.books.active = 0
          /\ r.books.proposals = [t.books.proposals EXCEPT ![old] = [@ EXCEPT !.status = "Expired"]]
      BY <1>4, <1>9, <1>13, <1>14, <2>2
    <3> HIDE DEF old
    <3>3. ASSUME NEW n, Carried(n, o), NEW s, Mirrors(s, t) PROVE Mirrors(P!Apply(s, n), r)
      <4> DEFINE status == "Expired"
      <4>1. /\ n.name = "ProposalExpired" /\ n.pid = old /\ status = "Expired"
            /\ r.books.active = IF status = "Passed" THEN t.books.active ELSE 0
            /\ r.books.proposals = [t.books.proposals EXCEPT ![old] = [@ EXCEPT !.status = status]]
        BY <3>1, <3>2, <3>3
      <4> HIDE DEF status
      <4>2. QED
        BY <1>15, <3>2, <3>3, <4>1, ResolvedAgrees
    <3>4. Says(t, <<o>>, r)
      BY <1>1, <1>15, <3>1, <3>3, OneEvent DEF P!Malformed, VaultEvents
    <3>5. QED
      BY <2>2, <3>4
  <2>3. QED
    BY <2>1, <2>2
<1>18. Says(r, <<e>>, u)
  <2>1. ASSUME NEW n, Carried(n, e) PROVE n.name = "Proposed" /\ n.pid = pid
    BY <2>1 DEF Carried
  <2> HIDE DEF e
  <2>2. u.books.proposals = [r.books.proposals EXCEPT ![pid] = Fresh] /\ u.books.active = pid
    BY <1>7, <1>12, <1>13, <1>14
  <2>3. ASSUME NEW n, Carried(n, e), NEW s, Mirrors(s, r) PROVE Mirrors(P!Apply(s, n), u)
    BY <1>16, <2>1, <2>2, <2>3, ProposedAgrees
  <2>4. QED
    BY <1>1, <1>15, <2>1, <2>3, OneEvent DEF P!Malformed, VaultEvents
<1>19. Says(t, first \o <<e>>, u)
  BY <1>17, <1>18, SaidInTurn
<1>20. Sound(u)
  <2>1. u.books.proposals[u.books.active] # NoProposal
    BY <1>8, <1>10, <1>12 DEF NamesApart
  <2>2. QED
    BY <1>1, <1>3, <1>12, <2>1, BallotSound
<1>21. QED
  BY <1>2, <1>19, <1>20, SaidIsTold DEF t, u

-----------------------------------------------------------------------------
\* A vote of each of the three kinds says what it did.
LEMMA CastTold ==
    ASSUME NamesApart, Sound(Truth),
           NEW kind \in {"Revealed", "DelegatedRevealed", "DefaultApplied"},
           NEW support \in BOOLEAN, NEW w \in Weight, Cast(kind, support, w)
    PROVE  Told /\ Sound(Truth')
<1> DEFINE t == Truth  u == Truth'
           pid == t.books.active
           props == t.books.proposals
           e == [name |-> kind, pid |-> pid, support |-> support, weight |-> w]
           p == Tallied(props[pid], support, w)
           new == CASE kind = "Revealed" ->
                         [p EXCEPT !.revealedWeight = @ + w, !.revealedVoters = @ + 1]
                    [] kind = "DelegatedRevealed" /\ support ->
                         [p EXCEPT !.delegatedForWeight = @ + w]
                    [] OTHER -> p
           put == [props EXCEPT ![pid] = new]
<1>1. /\ u.shares = t.shares /\ u.queued = t.queued /\ u.total = t.total /\ u.holders = t.holders
      /\ t.books \in Books /\ pid # 0
      /\ u.books = [t.books EXCEPT !.proposals = put]
  BY TruthIs, TruthBecomes DEF Cast, SharesStay, stakeVars, Sound, BooksSound
<1>2. Emits("Cast", <<e>>)
  BY TruthIs DEF Cast
<1>3. Sound(t)
  OBVIOUS
<1> HIDE DEF t, u
<1>4. /\ pid \in Pid /\ t.books.kind # "none" /\ props[pid] \in Proposal
      /\ props[pid] # NoProposal /\ props \in [Pid -> Proposal \union {NoProposal}]
  BY <1>1, <1>3, ProposalThere DEF Books
<1>5. w \in Nat
  BY LogAssumption
<1> DEFINE q == props[pid]
<1>6. q \in Proposal
  BY <1>4
<1> HIDE DEF q
<1>7. p = IF support THEN [q EXCEPT !.forWeight = @ + w] ELSE [q EXCEPT !.againstWeight = @ + w]
  BY DEF Tallied, q
<1> HIDE DEF p
<1>8. p \in Proposal
  BY <1>5, <1>6, <1>7 DEF Proposal
<1>9. new \in Proposal
  <2>1. CASE kind = "Revealed"
    <3> DEFINE a == p.revealedWeight + w  b == p.revealedVoters + 1
    <3>1. a \in Nat /\ b \in Nat
      BY <1>5, <1>8 DEF Proposal
    <3>2. new = [p EXCEPT !.revealedWeight = a, !.revealedVoters = b]
      BY <2>1
    <3> HIDE DEF a, b, new
    <3>3. QED
      BY <1>8, <3>1, <3>2 DEF Proposal
  <2>2. CASE kind # "Revealed"
    <3>1. [p EXCEPT !.delegatedForWeight = @ + w] \in Proposal
      BY <1>5, <1>8 DEF Proposal
    <3>2. QED
      BY <1>8, <2>2, <3>1
  <2>3. QED
    BY <2>1, <2>2
<1>10. ASSUME NEW n, Carried(n, e)
       PROVE  /\ n.name = kind /\ n.pid = pid /\ n.support = support /\ n.weight = w
              /\ VotedBy(q, n) = new
  <2>1. n.name = kind /\ n.pid = pid /\ n.support = support /\ n.weight = w
    BY <1>10 DEF Carried
  <2>2. P!Sided(q, n) = p
    BY <1>7, <2>1 DEF P!Sided
  <2>3. CASE kind = "Revealed"
    BY <2>1, <2>2, <2>3 DEF VotedBy, P!FoldRevealed
  <2>4. CASE kind = "DelegatedRevealed" /\ support
    <3>1. p.delegatedForWeight \in Nat
      BY <1>8 DEF Proposal
    <3>2. p.delegatedForWeight # Null
      BY <3>1 DEF NamesApart
    <3>3. VotedBy(q, n) = [p EXCEPT !.delegatedForWeight = @ + w]
      BY <2>1, <2>2, <2>4, <3>2 DEF VotedBy, P!FoldCranked
    <3>4. QED
      BY <2>1, <2>4, <3>3
  <2>5. CASE kind # "Revealed" /\ ~(kind = "DelegatedRevealed" /\ support)
    <3>1. VotedBy(q, n) = [p EXCEPT !.delegatedForWeight = @]
      BY <2>1, <2>2, <2>5 DEF VotedBy, P!FoldCranked
    <3>2. [p EXCEPT !.delegatedForWeight = @] = p
      BY <1>8 DEF Proposal
    <3>3. new = p
      BY <2>5
    <3> HIDE DEF new
    <3>4. QED
      BY <2>1, <3>1, <3>2, <3>3
  <2>6. QED
    BY <2>3, <2>4, <2>5
<1> HIDE DEF new
<1>11. put \in [Pid -> Proposal \union {NoProposal}] /\ put[pid] = new
  BY <1>4, <1>9
<1>12. ASSUME NEW n, Carried(n, e)
       PROVE  put = [t.books.proposals EXCEPT ![n.pid] = VotedBy(@, n)]
  BY <1>10, <1>12 DEF q
<1> HIDE DEF put
<1>13. /\ u.books \in Books /\ u.books.proposals = put
       /\ \A x \in BookFields \ {"proposals"} : u.books[x] = t.books[x]
  <2> HIDE DEF pid, props
  <2> DEFINE c == Balloted(t.books, put, pid)
  <2>1. /\ c \in Books /\ c.proposals = put /\ c.active = pid
        /\ \A x \in BookFields \ {"proposals", "active"} : c[x] = t.books[x]
    <3>1. t.books \in Books
      BY <1>1
    <3>2. put \in [Pid -> Proposal \union {NoProposal}]
      BY <1>11
    <3>3. {pid} \subseteq Pid \union {0}
      BY <1>4
    <3>4. QED
      BY <3>1, <3>2, <3>3, BallotPut
  <2>2. u.books = c
    <3> DEFINE b == t.books
    <3>1. b \in Books
      BY <1>1
    <3> HIDE DEF b, c
    <3>2. [b EXCEPT !.proposals = put] = [b EXCEPT !.proposals = put, !.active = b.active]
      BY <3>1 DEF Books
    <3>3. QED
      BY <1>1, <3>2 DEF Balloted, b, c, pid
  <2>3. c.active = t.books.active
    BY <2>1 DEF pid
  <2> HIDE DEF c
  <2>4. QED
    BY <2>1, <2>2, <2>3
<1>14. Kept(t, u, {"proposals"}) /\ u.books.kind = t.books.kind /\ u.books.active = pid
  BY <1>1, <1>13 DEF Kept, BookFields
<1> HIDE DEF props, pid
<1>15. Says(t, <<e>>, u)
  <2>1. ASSUME NEW n, Carried(n, e), NEW s, Mirrors(s, t) PROVE Mirrors(P!Apply(s, n), u)
    <3>1. t.books.proposals[n.pid] # NoProposal /\ n.name = kind
      BY <1>4, <1>10, <2>1 DEF props
    <3>2. u.books.proposals = [t.books.proposals EXCEPT ![n.pid] = VotedBy(@, n)]
      BY <1>12, <1>13, <2>1
    <3>3. QED
      BY <1>14, <2>1, <3>1, <3>2, VoteAgrees
  <2>2. \A n : Carried(n, e) => n.name = kind
    BY <1>10
  <2> HIDE DEF e
  <2>3. QED
    BY <1>4, <1>14, <2>1, <2>2, OneEvent DEF P!Malformed, VaultEvents
<1>16. Sound(u)
  <2>1. u.books.proposals[u.books.active] # NoProposal
    BY <1>9, <1>11, <1>13, <1>14 DEF NamesApart
  <2>2. QED
    BY <1>1, <1>3, <1>4, <1>13, <2>1, BallotSound
<1>17. QED
  BY <1>2, <1>15, <1>16, SaidIsTold DEF t, u, pid

\* A rebalance says what it did, its fill before it.
LEMMA RebalanceTold ==
    ASSUME AdaptersFit, Sound(Truth), NEW a \in Adapter, Rebalance(a)
    PROVE  Told /\ Sound(Truth')
<1> DEFINE t == Truth  u == Truth'
           d == [name |-> "SwapExecuted", adapter |-> a]
           e == [name |-> "RebalanceExecuted", adapter |-> a]
<1>1. /\ u.shares = t.shares /\ u.queued = t.queued /\ u.total = t.total /\ u.holders = t.holders
      /\ t.books \in Books /\ t.books.kind # "none"
      /\ u.books = [t.books EXCEPT !.adapters = t.books.adapters \union {a},
                                   !.swaps = t.books.swaps + 1]
  BY TruthIs, TruthBecomes DEF Rebalance, Created, SharesStay, stakeVars, Sound, BooksSound
<1>2. Emits("Rebalance", <<d, e>>)
  BY DEF Rebalance
<1>3. Sound(t)
  OBVIOUS
<1> HIDE DEF t, u
<1>4. /\ u.books \in Books
      /\ u.books.adapters = t.books.adapters \union {a} /\ u.books.swaps = t.books.swaps + 1
      /\ \A x \in BookFields \ {"adapters", "swaps"} : u.books[x] = t.books[x]
      /\ t.books.adapters \in SUBSET Adapter
  <2> DEFINE A == t.books.adapters \union {a}  k == t.books.swaps + 1
  <2>1. A \in SUBSET Adapter /\ k \in Nat
    BY <1>1 DEF Books
  <2>2. u.books = [t.books EXCEPT !.adapters = A, !.swaps = k]
    BY <1>1
  <2> HIDE DEF A, k
  <2>3. u.books \in Books
    BY <1>1, <2>1, <2>2 DEF Books
  <2>4. u.books.adapters = A /\ u.books.swaps = k
    BY <1>1, <2>2 DEF Books
  <2>5. \A x \in BookFields \ {"adapters", "swaps"} : u.books[x] = t.books[x]
    BY <1>1, <2>2 DEF Books, BookFields
  <2>6. t.books.adapters \in SUBSET Adapter
    BY <1>1 DEF Books
  <2>7. QED
    BY <2>3, <2>4, <2>5, <2>6 DEF A, k
<1>5. Kept(t, u, {"adapters", "swaps"})
  BY <1>1, <1>4 DEF Kept
<1>6. Says(t, <<d, e>>, u)
  <2>1. ASSUME NEW n, Carried(n, d) PROVE n.name = "SwapExecuted" /\ n.adapter = a
    BY <2>1 DEF Carried
  <2>2. ASSUME NEW n, Carried(n, e) PROVE n.name = "RebalanceExecuted" /\ n.adapter = a
    BY <2>2 DEF Carried
  <2> HIDE DEF d, e
  <2>3. ASSUME NEW x, NEW n, Carried(x, d), Carried(n, e), NEW s, Mirrors(s, t)
        PROVE  Mirrors(P!Apply(P!Apply(s, x), n), u)
    BY <1>4, <1>5, <2>1, <2>2, <2>3, RebalanceAgrees
  <2>4. QED
    BY <1>1, <2>1, <2>2, <2>3, TwoEvents DEF P!Malformed, VaultEvents
<1>7. Sound(u)
  <2>1. /\ u.books.operator = t.books.operator /\ u.books.kind = t.books.kind
        /\ u.books.settledQueued = t.books.settledQueued
        /\ u.books.queuedEver = t.books.queuedEver
        /\ u.books.active = t.books.active /\ u.books.proposals = t.books.proposals
    BY <1>4 DEF BookFields
  <2>2. QED
    BY <1>1, <1>3, <1>4, <2>1 DEF Sound, SharesSound, BooksSound, Unborn, ExitsSound
<1>8. QED
  BY <1>2, <1>6, <1>7, SaidIsTold DEF t, u

\* Every call of the contracts says what it did.
LEMMA CallsTold ==
    ASSUME AdaptersFit, NamesApart, Sound(Truth), Calls
    PROVE  Told /\ Sound(Truth')
<1>1. ASSUME NEW m \in Member,
             \/ DepositRow(m) \/ DepositNow(m) \/ ActivateRow(m) \/ CancelRow(m)
             \/ \E n \in 1..sharesOf[m] : ExitAtOnce(m, n) \/ ExitLater(m, n)
             \/ SettleExit(m)
      PROVE  Told /\ Sound(Truth')
  BY <1>1, DepositRowTold, DepositNowTold, ActivateRowTold, CancelRowTold, ExitAtOnceTold,
     ExitLaterTold, SettleExitTold
<1>2. ASSUME NEW status \in {"Passed", "Defeated"}, Resolve("Finalized", {"Active"}, status)
      PROVE  Told /\ Sound(Truth')
  BY <1>2, ResolveTold
<1>3. CASE Resolve("Executed", {"Passed"}, "Executed")
  BY <1>3, ResolveTold
<1>4. CASE Resolve("ProposalExpired", {"Active", "Passed"}, "Expired")
  BY <1>4, ResolveTold
<1>5. CASE RegisterOperator \/ \E kind \in {"regular", "agent"} : CreateVault(kind)
  BY <1>5, RegisterOperatorTold, CreateVaultTold
<1>6. CASE (\E pid \in Pid : Propose(pid)) \/ \E a \in Adapter : Rebalance(a)
  BY <1>6, ProposeTold, RebalanceTold
<1>7. ASSUME NEW kind \in {"Revealed", "DelegatedRevealed", "DefaultApplied"},
             NEW support \in BOOLEAN, NEW w \in Weight, Cast(kind, support, w)
      PROVE  Told /\ Sound(Truth')
  BY <1>7, CastTold
<1>8. QED
  BY <1>1, <1>2, <1>3, <1>4, <1>5, <1>6, <1>7 DEF Calls

-----------------------------------------------------------------------------
(***************************************************************************)
(* The chain tells what the contracts did, over calls, blocks and          *)
(* reorganisations, and a block that is deep enough lasts.                 *)
(***************************************************************************)
ChainSound ==
    /\ ChainNumbered /\ Len(chain) >= 1 /\ reorgs \in 0..MaxReorgs
    /\ \A b \in 1..Len(chain) : Sound(chain[b].after)
    /\ Sound(Truth) /\ ChainTold
    /\ Tells(chain[Len(chain)].after, logs, Truth)
    /\ Mirrors(P!EmptyState, chain[1].after)

\* The reorganisations to come do not reach block b of chain c, r of them having
\* happened, and a node that is behind has it too.
Lasting(b, c, r) == b = 1 \/ b + NodeLag + (MaxReorgs - r) * ReorgDepth <= Len(c)

\* A reorganisation cuts the chain.
LEMMA ReorgCuts ==
    ASSUME IsList(chain), Reorg
    PROVE  LET n == Len(chain) - ReorgDepth IN
           /\ n \in 1..Len(chain) /\ IsList(chain') /\ Len(chain') = n
           /\ \A i \in 1..n : chain'[i] = chain[i]
<1> DEFINE n == Len(chain) - ReorgDepth
<1>1. Len(chain) \in Nat
  BY ListFacts
<1>2. n \in 1..Len(chain) /\ chain' = SubSeq(chain, 1, n)
  BY <1>1, LogAssumption DEF Reorg, Tip
<1> HIDE DEF n
<1>3. PICK S : chain \in Seq(S)
  BY DEF IsList
<1>4. \A i \in 1..n : chain[i] \in S
  BY <1>1, <1>2, <1>3
<1>5. /\ SubSeq(chain, 1, n) \in Seq(S)
      /\ Len(SubSeq(chain, 1, n)) = IF 1 <= n THEN n - 1 + 1 ELSE 0
      /\ \A i \in 1..(n - 1 + 1) : SubSeq(chain, 1, n)[i] = chain[1 + i - 1]
  BY <1>2, <1>4, SubSeqProperties
<1>6. n - 1 + 1 = n /\ \A i \in 1..n : 1 + i - 1 = i
  BY <1>2, <1>1
<1>7. IsList(chain') /\ Len(chain') = n /\ \A i \in 1..n : chain'[i] = chain[i]
  BY <1>1, <1>2, <1>5, <1>6 DEF IsList
<1>8. QED
  BY <1>2, <1>7 DEF n

\* How far the reorganisations to come may reach.
LEMMA DepthLeft ==
    ASSUME NEW k \in Nat
    PROVE  k * ReorgDepth \in Nat /\ (k + 1) * ReorgDepth = k * ReorgDepth + ReorgDepth
BY LogAssumption

\* A block that lasts is neither replaced nor lost.
LEMMA LastingStays ==
    ASSUME ChainNumbered, Len(chain) >= 1, reorgs \in 0..MaxReorgs,
           ChainNext \/ UNCHANGED chainVars,
           NEW b \in 1..Len(chain), Lasting(b, chain, reorgs)
    PROVE  b \in 1..Len(chain') /\ chain'[b] = chain[b] /\ Lasting(b, chain', reorgs')
<1>1. Len(chain) \in Nat /\ MaxReorgs \in Nat /\ NodeLag \in Nat
  BY ListFacts, LogAssumption, IndexerAssumption DEF ChainNumbered
<1>2. CASE Calls \/ UNCHANGED chainVars
  <2>1. chain' = chain /\ reorgs' = reorgs
    <3>1. CASE Calls
      BY <3>1, CallsEmit DEF Emits
    <3>2. QED
      BY <1>2, <3>1 DEF chainVars
  <2>2. QED
    BY <2>1 DEF Lasting
<1>3. CASE Mine
  <2> DEFINE depth == (MaxReorgs - reorgs) * ReorgDepth
             block == [logs |-> logs, after |-> Truth]
  <2>1. chain' = Append(chain, block) /\ reorgs' = reorgs
    BY <1>3 DEF Mine
  <2> HIDE DEF block
  <2>2. Len(chain') = Len(chain) + 1 /\ \A i \in 1..Len(chain) : chain'[i] = chain[i]
    BY <2>1, ListAppend DEF ChainNumbered
  <2>3. depth \in Nat
    <3>1. MaxReorgs - reorgs \in Nat
      BY <1>1
    <3>2. QED
      BY <3>1, DepthLeft
  <2>4. b = 1 \/ b + NodeLag + depth <= Len(chain)
    BY DEF Lasting
  <2> HIDE DEF depth
  <2>5. b = 1 \/ b + NodeLag + depth <= Len(chain')
    BY <1>1, <2>2, <2>3, <2>4
  <2>6. QED
    BY <1>1, <2>1, <2>2, <2>5 DEF Lasting, depth
<1>4. CASE Reorg
  <2> DEFINE n == Len(chain) - ReorgDepth
             k == MaxReorgs - reorgs - 1
             depth == k * ReorgDepth
  <2>1. /\ n \in 1..Len(chain) /\ Len(chain') = n
        /\ \A i \in 1..n : chain'[i] = chain[i]
    BY <1>4, ReorgCuts DEF ChainNumbered
  <2>2. reorgs < MaxReorgs /\ reorgs' = reorgs + 1
    BY <1>4 DEF Reorg
  <2>3. k \in Nat /\ MaxReorgs - reorgs' = k /\ MaxReorgs - reorgs = k + 1
    BY <1>1, <2>2
  <2>4. depth \in Nat /\ (MaxReorgs - reorgs) * ReorgDepth = depth + ReorgDepth
    BY <2>3, DepthLeft
  <2>5. (MaxReorgs - reorgs') * ReorgDepth = depth
    BY <2>3
  <2>6. b = 1 \/ b + NodeLag + (depth + ReorgDepth) <= Len(chain)
    BY <2>4 DEF Lasting
  <2>7. ReorgDepth \in Nat
    BY LogAssumption
  <2>8. n = Len(chain) - ReorgDepth
    OBVIOUS
  <2> HIDE DEF depth, k, n
  <2>9. b \in 1..n /\ (b = 1 \/ b + NodeLag + depth <= n)
    BY <1>1, <2>1, <2>4, <2>6, <2>7, <2>8
  <2>10. QED
    BY <2>1, <2>5, <2>9 DEF Lasting
<1>5. QED
  BY <1>2, <1>3, <1>4 DEF ChainNext

\* Before the deployment the contracts say nothing.
LEMMA ChainSoundStarts == ASSUME NamesApart, ChainInit PROVE ChainSound
<1> DEFINE t == Truth  block == [logs |-> <<>>, after |-> t]
<1>1. /\ t.shares = [m \in Member |-> 0] /\ t.queued = [m \in Member |-> 0] /\ t.total = 0
      /\ t.holders = 0 /\ t.books = EmptyBooks
  BY DEF ChainInit, SharesInit, Truth
<1>2. chain = <<block>> /\ block.logs = <<>> /\ block.after = t /\ logs = <<>> /\ reorgs = 0
  BY DEF ChainInit
<1> HIDE DEF block
<1>3. Len(chain) = 1 /\ chain[1] = block /\ IsList(chain)
  BY <1>2, ShortLists
<1>4. ChainNumbered
  <2>1. \A b : InBlock(<<>>, b)
    BY EmptyList DEF InBlock
  <2>2. \A b \in 1..Len(chain) : InBlock(chain[b].logs, b)
    BY <1>2, <1>3, <2>1
  <2>3. QED
    BY <1>2, <1>3, <2>1, <2>2, EmptyList DEF ChainNumbered
<1> HIDE DEF t
<1>5. /\ t.books.kind = "none" /\ t.books.operator = FALSE /\ t.books.attested = FALSE
      /\ t.books.gain = 0 /\ t.books.loss = 0 /\ t.books.fees = 0 /\ t.books.open = {}
      /\ t.books.queuedEver = 0 /\ t.books.settled = 0 /\ t.books.settledQueued = 0
      /\ t.books.proposals = [p \in Pid |-> NoProposal] /\ t.books.active = 0
      /\ t.books.adapters = {} /\ t.books.swaps = 0
  BY <1>1 DEF EmptyBooks
<1>6. Positive([m \in Member |-> 0]) = {} /\ Cardinality({}) = 0
  BY FS_EmptySet DEF Positive
<1>7. t.books \in Books
  BY <1>1 DEF Books, EmptyBooks
<1>8. Sound(t)
  <2>1. SharesSound(t)
    BY <1>1, <1>6 DEF SharesSound
  <2>2. BooksSound(t)
    BY <1>5, <1>7 DEF BooksSound
  <2>3. Unborn(t)
    BY <1>1 DEF Unborn
  <2>4. ExitsSound(t)
    BY <1>1, <1>5, <1>6 DEF ExitsSound
  <2>5. QED
    BY <2>1, <2>2, <2>3, <2>4 DEF Sound
<1>9. Mirrors(P!EmptyState, t)
  <2> DEFINE s == P!EmptyState
  <2>1. /\ Fields \subseteq DOMAIN s
        /\ s.known = FALSE /\ s.vaultCount = 0 /\ s.operator = FALSE
        /\ s.gain = 0 /\ s.loss = 0 /\ s.fees = 0
        /\ s.shares = [m \in Member |-> 0] /\ s.totalShares = 0 /\ s.memberCount = 0
        /\ s.pendingMembers = {} /\ s.pendingCount = 0
    BY DEF P!EmptyState, Fields
  <2>2. /\ s.queuedExits = {} /\ s.queuedExitShares = [m \in Member |-> 0]
        /\ s.exitQueuedCount = 0 /\ s.exitSettledCount = 0 /\ s.modeFSettledCount = 0
        /\ s.proposals = [p \in Pid |-> NoProposal] /\ s.activeProposal = 0
        /\ s.adapters = {} /\ s.swaps = 0
    BY DEF P!EmptyState
  <2> HIDE DEF s
  <2>3. VaultAgrees(s, t) /\ RecordAgrees(s, t)
    BY <1>5, <2>1 DEF VaultAgrees, RecordAgrees
  <2>4. SharesAgree(s, t) /\ RowsAgree(s, t)
    BY <1>1, <1>5, <1>6, <2>1 DEF SharesAgree, RowsAgree
  <2>5. ExitsAgree(s, t)
    BY <1>1, <1>5, <1>6, <2>2 DEF ExitsAgree, Positive
  <2>6. BallotAgrees(s, t) /\ FillsAgree(s, t)
    BY <1>5, <2>2 DEF BallotAgrees, FillsAgree
  <2>7. Mirrors(s, t)
    BY <2>1, <2>3, <2>4, <2>5, <2>6 DEF Mirrors
  <2>8. QED
    BY <2>7 DEF s
<1>10. Tells(t, <<>>, t)
  BY NothingTold
<1>11. ChainTold
  BY <1>3 DEF ChainTold
<1>12. reorgs \in 0..MaxReorgs
  BY <1>2, LogAssumption
<1>13. QED
  BY <1>2, <1>3, <1>4, <1>8, <1>9, <1>10, <1>11, <1>12 DEF ChainSound, t

-----------------------------------------------------------------------------
\* The chain tells on what the contracts did, whatever is called, mined or taken
\* back.
LEMMA ChainSoundSteps ==
    ASSUME AdaptersFit, NamesApart, ChainSound, ChainNext \/ UNCHANGED chainVars
    PROVE  ChainSound'
<1>1. ChainNumbered' /\ Len(chain) \in Nat /\ MaxReorgs \in Nat
  BY ChainSteps, ListFacts, LogAssumption DEF ChainSound, ChainNumbered
<1>2. CASE Calls
  <2>1. chain' = chain /\ reorgs' = reorgs
    BY <1>2, CallsEmit DEF Emits
  <2>2. Told /\ Sound(Truth')
    BY <1>2, CallsTold DEF ChainSound
  <2> DEFINE t == chain[Len(chain)].after
  <2>3. PICK l : logs' = logs \o l /\ Tells(Truth, l, Truth')
    BY <2>2 DEF Told
  <2>4. Tells(t, logs, Truth)
    BY DEF ChainSound
  <2>5. Tells(t, logs \o l, Truth')
    BY <2>3, <2>4, ToldInTurn
  <2>6. Tells(t, logs', Truth')
    BY <2>3, <2>5
  <2>7. QED
    BY <1>1, <2>1, <2>2, <2>6 DEF ChainSound, ChainTold
<1>3. CASE Mine
  <2> DEFINE block == [logs |-> logs, after |-> Truth]
  <2>1. chain' = Append(chain, block) /\ logs' = <<>> /\ reorgs' = reorgs /\ Truth' = Truth
    BY <1>3 DEF Mine, contractVars, stakeVars, Truth
  <2>2. block.logs = logs /\ block.after = Truth
    OBVIOUS
  <2> HIDE DEF block
  <2>3. /\ Len(chain') = Len(chain) + 1
        /\ \A i \in 1..Len(chain) : chain'[i] = chain[i]
        /\ chain'[Len(chain) + 1] = block
    BY <2>1, ListAppend DEF ChainSound, ChainNumbered
  <2>4. \A b \in 1..Len(chain') : b \in 1..Len(chain) \/ b = Len(chain) + 1
    BY <1>1, <2>3
  <2>5. \A b \in 1..Len(chain') : Sound(chain'[b].after)
    BY <2>2, <2>3, <2>4 DEF ChainSound
  <2>6. ASSUME NEW b \in 2..Len(chain')
        PROVE  Tells(chain'[b - 1].after, chain'[b].logs, chain'[b].after)
    <3>1. CASE b \in 1..Len(chain)
      <4>1. b \in 2..Len(chain) /\ b - 1 \in 1..Len(chain)
        BY <1>1, <3>1
      <4>2. chain'[b] = chain[b] /\ chain'[b - 1] = chain[b - 1]
        BY <2>3, <3>1, <4>1
      <4>3. QED
        BY <4>1, <4>2 DEF ChainSound, ChainTold
    <3>2. CASE b = Len(chain) + 1
      <4>1. b - 1 = Len(chain) /\ Len(chain) \in 1..Len(chain)
        BY <1>1, <3>2 DEF ChainSound
      <4>2. chain'[b - 1] = chain[Len(chain)] /\ chain'[b] = block
        BY <2>3, <3>2, <4>1
      <4>3. QED
        BY <2>2, <4>2 DEF ChainSound
    <3>3. QED
      BY <2>4, <3>1, <3>2
  <2>7. Tells(chain'[Len(chain')].after, logs', Truth')
    <3>1. chain'[Len(chain')].after = Truth
      BY <2>2, <2>3
    <3>2. Tells(Truth, <<>>, Truth)
      BY NothingTold
    <3>3. QED
      BY <2>1, <3>1, <3>2
  <2>8. chain'[1] = chain[1] /\ Len(chain') >= 1
    BY <1>1, <2>3 DEF ChainSound
  <2>9. QED
    BY <1>1, <2>1, <2>5, <2>6, <2>7, <2>8 DEF ChainSound, ChainTold
<1>4. CASE Reorg
  <2> DEFINE n == Len(chain) - ReorgDepth  was == chain[n].after
  <2>1. /\ n \in 1..Len(chain) /\ Len(chain') = n
        /\ \A i \in 1..n : chain'[i] = chain[i]
    BY <1>4, ReorgCuts DEF ChainSound, ChainNumbered
  <2>2. /\ Truth'.shares = was.shares /\ Truth'.queued = was.queued /\ Truth'.total = was.total
        /\ Truth'.holders = was.holders /\ Truth'.books = was.books
    BY <1>4, TruthBecomes DEF Reorg, Tip
  <2>3. reorgs' \in 0..MaxReorgs /\ logs' = <<>>
    BY <1>1, <1>4 DEF Reorg, ChainSound
  <2>4. Sound(was)
    BY <2>1 DEF ChainSound
  <2>5. Sound(Truth')
    BY <2>2, <2>4 DEF Sound, SharesSound, BooksSound, Unborn, ExitsSound
  <2>6. Tells(was, <<>>, Truth')
    <3>1. Kept(was, Truth', {})
      BY <2>2 DEF Kept
    <3> HIDE DEF was
    <3>2. ASSUME NEW s, Mirrors(s, was) PROVE Mirrors(s, Truth')
      <4>1. Differs(s, s, {})
        BY <3>2 DEF Differs, Mirrors
      <4>2. QED
        BY <3>1, <3>2, <4>1, RestAgrees DEF Mirrors
    <3>3. QED
      BY <2>2, <3>2, NothingTold
  <2> HIDE DEF n
  <2>7. \A b \in 1..Len(chain') : b \in 1..Len(chain) /\ chain'[b] = chain[b]
    BY <1>1, <2>1
  <2>8. \A b \in 1..Len(chain') : Sound(chain'[b].after)
    BY <2>7 DEF ChainSound
  <2>9. ASSUME NEW b \in 2..Len(chain')
        PROVE  Tells(chain'[b - 1].after, chain'[b].logs, chain'[b].after)
    <3>1. b \in 1..Len(chain') /\ b - 1 \in 1..Len(chain') /\ b \in 2..Len(chain)
      BY <1>1, <2>1
    <3>2. chain'[b] = chain[b] /\ chain'[b - 1] = chain[b - 1]
      BY <2>7, <3>1
    <3>3. QED
      BY <3>1, <3>2 DEF ChainSound, ChainTold
  <2>10. chain'[Len(chain')].after = was
    BY <2>1
  <2>11. chain'[1] = chain[1] /\ Len(chain') >= 1
    BY <1>1, <2>1
  <2>12. QED
    BY <1>1, <2>3, <2>5, <2>6, <2>8, <2>9, <2>10, <2>11 DEF ChainSound, ChainTold
<1>5. CASE UNCHANGED chainVars
  <2>1. Truth' = Truth /\ chain' = chain /\ logs' = logs /\ reorgs' = reorgs
    BY <1>5 DEF chainVars, contractVars, stakeVars, Truth
  <2>2. QED
    BY <1>1, <2>1 DEF ChainSound, ChainTold
<1>6. QED
  BY <1>2, <1>3, <1>4, <1>5 DEF ChainNext

-----------------------------------------------------------------------------
(***************************************************************************)
(* The process: what it holds in memory and on disk is what the contracts  *)
(* said at a block that lasts.                                             *)
(***************************************************************************)
\* s says what the contracts of chain c said at its cursor, r reorganisations
\* having happened.
Exact(s, c, r) ==
    /\ HasCursor(s) /\ s.lastBlock \in 1..Len(c) /\ Lasting(s.lastBlock, c, r)
    /\ Mirrors(s, c[s.lastBlock].after)

\* In memory: the range that is fetched lies after the cursor.
MemoryExact ==
    /\ discovered \in SUBSET Adapter
    /\ pc # "down" => Exact(state, chain, reorgs)
    /\ pc = "fetch" =>
          to \in Nat /\ state.lastBlock < to /\ to <= Len(chain) /\ Lasting(to, chain, reorgs)

\* On disk: no copy is ahead of the file or of a newer copy.
FilesExact ==
    /\ main # Torn
    /\ main # Absent => Exact(main, chain, reorgs)
    /\ ring = [n \in Slots |-> ring[n]]
    /\ writing = "shift" => slot \in Slots
    /\ \A n \in Slots : Complete(ring[n]) =>
          main # Absent /\ Exact(ring[n], chain, reorgs) /\ ring[n].lastBlock <= main.lastBlock
    /\ \A n, k \in Slots : k < n /\ Complete(ring[n]) /\ Complete(ring[k]) =>
          ring[n].lastBlock <= ring[k].lastBlock

\* The values that stand for no file are not projections.
FilesApart == ~HasCursor(Absent) /\ ~HasCursor(Torn)

IndexerInv == ChainSound /\ CursorInv /\ MemoryExact /\ FilesExact

-----------------------------------------------------------------------------
\* A projection that differs in its cursor alone says the same.
LEMMA SameMirror ==
    ASSUME NEW s, NEW v, NEW t, Mirrors(s, t), Differs(s, v, {})
    PROVE  Mirrors(v, t)
<1>1. Kept(t, t, {})
  BY DEF Kept
<1>2. QED
  BY <1>1, RestAgrees DEF Mirrors

\* What is exact stays exact, whatever happens to the chain.
LEMMA ExactStays ==
    ASSUME ChainSound, ChainNext \/ UNCHANGED chainVars, NEW s, Exact(s, chain, reorgs)
    PROVE  Exact(s, chain', reorgs')
BY LastingStays DEF Exact, ChainSound

\* A batch that may be asked for lies deep enough.
LEMMA PollExact ==
    ASSUME IndexerInv, Poll
    PROVE  to' \in Nat /\ state.lastBlock < to' /\ to' <= Len(chain) /\ Lasting(to', chain, reorgs)
<1>1. Len(chain) \in Nat /\ reorgs \in 0..MaxReorgs
  BY ListFacts DEF IndexerInv, ChainSound, ChainNumbered
<1>2. {Confirmations, BatchBlocks, NodeLag, MaxReorgs, ReorgDepth} \subseteq Nat /\ BatchBlocks > 0
      /\ MaxReorgs * ReorgDepth + NodeLag <= Confirmations
  BY IndexerAssumption, LogAssumption
<1>3. state.lastBlock \in Nat /\ state.lastBlock >= 1
  BY DEF Poll, IndexerInv, MemoryExact, Exact, HasCursor
<1>4. From = state.lastBlock + 1
  BY <1>3 DEF From, P!ResumeCursor
<1>5. PICK head \in (Tip - NodeLag)..Tip :
          /\ SafeHead(head) >= From
          /\ to' = IF SafeHead(head) < From + BatchBlocks - 1
                   THEN SafeHead(head) ELSE From + BatchBlocks - 1
  BY DEF Poll
<1>6. head \in Int /\ head <= Len(chain) /\ SafeHead(head) = head - Confirmations
  BY <1>1, <1>2, <1>5 DEF Tip, SafeHead
<1>7. to' \in Nat /\ to' > state.lastBlock /\ to' <= Len(chain) - Confirmations
  <2> DEFINE safe == SafeHead(head)  reach == From + BatchBlocks - 1
  <2>1. safe \in Int /\ safe <= Len(chain) - Confirmations /\ safe >= From
    BY <1>1, <1>2, <1>5, <1>6
  <2>2. reach \in Int /\ reach >= From /\ From \in Nat /\ From > state.lastBlock
    BY <1>2, <1>3, <1>4
  <2>3. to' = IF safe < reach THEN safe ELSE reach
    BY <1>5
  <2> HIDE DEF safe, reach
  <2>4. to' \in Int /\ to' >= From /\ to' <= safe
    BY <2>1, <2>2, <2>3
  <2>5. Len(chain) - Confirmations <= Len(chain) /\ Len(chain) - Confirmations \in Int
    BY <1>1, <1>2
  <2>6. QED
    BY <1>1, <1>3, <2>1, <2>2, <2>4, <2>5
<1> DEFINE left == (MaxReorgs - reorgs) * ReorgDepth
           all  == MaxReorgs * ReorgDepth
           past == reorgs * ReorgDepth
<1>8. left \in Nat /\ past \in Nat /\ all = left + past
  <2>1. MaxReorgs - reorgs \in Nat /\ reorgs \in Nat
    BY <1>1, <1>2
  <2>2. left \in Nat /\ past \in Nat
    BY <2>1, DepthLeft
  <2>3. ReorgDepth \in Int /\ MaxReorgs \in Int /\ reorgs \in Int
    BY <1>1, <1>2
  <2>4. all = left + past
    BY <2>3
  <2>5. QED
    BY <2>2, <2>4
<1>9. all + NodeLag <= Confirmations
  BY <1>2
<1>10. NodeLag \in Nat /\ Confirmations \in Nat
  BY <1>2
<1>11. left + NodeLag <= Confirmations
  <2> HIDE DEF left, all, past
  <2>1. QED
    BY <1>8, <1>9, <1>10
<1>12. to' + NodeLag + left <= Len(chain)
  <2> HIDE DEF left, all, past
  <2>1. QED
    BY <1>1, <1>7, <1>8, <1>10, <1>11
<1>13. QED
  BY <1>1, <1>2, <1>7, <1>12 DEF Lasting

\* The batch that arrives is folded into what the contracts said at its end.
LEMMA FetchExact ==
    ASSUME AdaptersFit, IndexerInv, FetchAndFold
    PROVE  /\ Exact(state', chain, reorgs) /\ discovered' \in SUBSET Adapter
<1> DEFINE was == chain[state.lastBlock].after  is == chain[to].after
<1>1. /\ Len(chain) \in Nat /\ NodeLag \in Nat /\ ChainNumbered /\ ChainTold
      /\ reorgs \in 0..MaxReorgs /\ MaxReorgs \in Nat
  BY ListFacts, IndexerAssumption, LogAssumption DEF IndexerInv, ChainSound, ChainNumbered
<1>2. /\ HasCursor(state) /\ state.lastBlock \in Nat /\ state.lastBlock >= 1 /\ Mirrors(state, was)
      /\ to \in Nat /\ state.lastBlock < to /\ to <= Len(chain) /\ Lasting(to, chain, reorgs)
  BY DEF FetchAndFold, IndexerInv, MemoryExact, Exact, HasCursor
<1>3. From = state.lastBlock + 1 /\ From \in 2..Len(chain) /\ to \in From..Len(chain)
  BY <1>1, <1>2 DEF From, P!ResumeCursor
<1>4. to + NodeLag <= Len(chain)
  <2> DEFINE left == (MaxReorgs - reorgs) * ReorgDepth
  <2>1. left \in Nat
    <3>1. MaxReorgs - reorgs \in Nat
      BY <1>1
    <3>2. QED
      BY <3>1, DepthLeft
  <2>2. to + NodeLag + left <= Len(chain)
    BY <1>2 DEF Lasting
  <2> HIDE DEF left
  <2>3. QED
    BY <1>1, <1>2, <2>1, <2>2
<1>5. PICK tip \in (IF Tip > NodeLag THEN Tip - NodeLag ELSE 0)..Tip :
         LET evs   == LogsOf(From, to, tip)
             batch == Fetched(evs)
             s     == P!ApplyAll(state, batch)
         IN  /\ discovered' = Discovered(evs)
             /\ IF \E i \in DOMAIN batch : P!Malformed(batch[i])
                THEN state' = s /\ pc' = "idle"
                ELSE state' = AdvancedTo(s, to) /\ pc' = "save"
  BY DEF FetchAndFold
<1>6. tip \in to..Len(chain)
  BY <1>1, <1>2, <1>4, <1>5 DEF Tip
<1> DEFINE evs == LogsOf(From, to, tip)  s == P!ApplyAll(state, evs)
<1>7. From - 1 = state.lastBlock
  BY <1>2, <1>3
<1>8. Tells(was, evs, is) /\ \A i \in 1..Len(evs) : evs[i].block \in 0..to
  BY <1>1, <1>3, <1>6, <1>7, RangeTold
<1> HIDE DEF evs
<1>9. Fetched(evs) = evs /\ Discovered(evs) \in SUBSET Adapter
  <2>1. discovered \in SUBSET Adapter
    BY DEF IndexerInv, MemoryExact
  <2>2. QED
    BY <1>2, <1>8, <2>1, RangeFetched
<1>10. WellFormed(evs) /\ Mirrors(s, is)
  BY <1>2, <1>8 DEF Tells
<1>11. ~\E i \in DOMAIN evs : P!Malformed(evs[i])
  BY <1>10, ListFacts DEF WellFormed
<1>12. HasCursor(s) /\ s.lastBlock \in Nat /\ s.lastBlock <= to
  BY <1>2, <1>8, <1>10, FoldNotPast DEF HasCursor
<1>13. state' = AdvancedTo(s, to) /\ discovered' = Discovered(evs)
  BY <1>5, <1>9, <1>11 DEF evs
<1> HIDE DEF s, is
<1>14. HasCursor(state') /\ state'.lastBlock = to /\ Mirrors(state', is)
  <2>1. CASE s.lastBlock < to
    <3>1. state' = [s EXCEPT !.lastBlock = to, !.lastLogIndex = -1]
      BY <1>13, <2>1 DEF AdvancedTo
    <3>2. Fields \subseteq DOMAIN s /\ {"lastBlock", "lastLogIndex"} \subseteq Fields
      BY <1>10 DEF Mirrors, Fields
    <3>3. Differs(s, state', {}) /\ state'.lastBlock = to /\ "lastBlock" \in DOMAIN state'
      BY <3>1, <3>2 DEF Differs
    <3>4. QED
      BY <1>2, <1>10, <3>3, SameMirror DEF HasCursor
  <2>2. CASE ~(s.lastBlock < to)
    BY <1>2, <1>10, <1>12, <1>13, <2>2 DEF AdvancedTo
  <2>3. QED
    BY <2>1, <2>2
<1>15. Exact(state', chain, reorgs)
  BY <1>1, <1>2, <1>14 DEF Exact, is
<1>16. QED
  BY <1>9, <1>13, <1>15

\* A restart takes up what the file says, or the block before the deployment.
LEMMA RestartExact ==
    ASSUME NamesApart, StartBlock = 2, ChainSound, NEW file,
           file # Absent => Exact(file, chain, reorgs)
    PROVE  Exact(Resumed(file), chain, reorgs) /\ SeededAdapters(file) \in SUBSET Adapter
<1>1. Len(chain) \in Nat /\ Len(chain) >= 1
  BY ListFacts DEF ChainSound, ChainNumbered
<1> DEFINE s == Resumed(file)
<1>2. ASSUME file = Absent PROVE Exact(s, chain, reorgs)
  <2> DEFINE e == P!EmptyState
  <2>1. s = [e EXCEPT !.lastBlock = 1]
    BY <1>2 DEF Resumed
  <2>2. Mirrors(e, chain[1].after) /\ Fields \subseteq DOMAIN e
    BY DEF ChainSound, Mirrors
  <2> HIDE DEF e, s
  <2>3. Differs(e, s, {}) /\ s.lastBlock = 1 /\ "lastBlock" \in DOMAIN s
    BY <2>1, <2>2 DEF Differs, Fields
  <2>4. Mirrors(s, chain[1].after)
    BY <2>2, <2>3, SameMirror
  <2>5. 1 \in 1..Len(chain)
    BY <1>1
  <2>6. Exact(s, chain, reorgs)
    BY <2>3, <2>4, <2>5 DEF Exact, HasCursor, Lasting
  <2>7. QED
    BY <2>6 DEF s
<1>3. ASSUME file # Absent PROVE Exact(s, chain, reorgs)
  <2> DEFINE t == chain[file.lastBlock].after
  <2>1. /\ Exact(file, chain, reorgs) /\ Mirrors(file, t) /\ Fields \subseteq DOMAIN file
        /\ file.queuedExitShares = t.queued
    BY <1>3 DEF Exact, Mirrors, ExitsAgree
  <2>2. t.queued \in [Member -> Nat]
    BY <2>1 DEF Exact, ChainSound, Sound, SharesSound
  <2>3. file.queuedExitShares # Null
    BY <2>1, <2>2 DEF NamesApart
  <2>4. s = [file EXCEPT !.queuedExitShares = file.queuedExitShares]
    BY <1>3, <2>3 DEF Resumed, P!Deserialize
  <2> HIDE DEF s, t
  <2>5. Differs(file, s, {}) /\ s.lastBlock = file.lastBlock /\ "lastBlock" \in DOMAIN s
    BY <2>1, <2>4 DEF Differs, Fields
  <2>6. Mirrors(s, t)
    BY <2>1, <2>5, SameMirror
  <2>7. Exact(s, chain, reorgs)
    BY <2>1, <2>5, <2>6 DEF Exact, HasCursor, t
  <2>8. QED
    BY <2>7 DEF s
<1>4. Exact(s, chain, reorgs)
  BY <1>2, <1>3
<1>5. s.adapters \in SUBSET Adapter
  <2> DEFINE t == chain[s.lastBlock].after
  <2>1. s.adapters = t.books.adapters /\ Sound(t)
    BY <1>4 DEF Exact, ChainSound, Mirrors, FillsAgree
  <2>2. t.books.adapters \in SUBSET Adapter
    BY <2>1 DEF Sound, BooksSound, Books
  <2>3. QED
    BY <2>1, <2>2
<1>6. QED
  BY <1>4, <1>5 DEF SeededAdapters

-----------------------------------------------------------------------------
\* The writer moves exact projections about, the newest first.
LEMMA WriterKeepsExact ==
    ASSUME FilesApart, CursorInv, FilesExact, pc = "save", Exact(state, chain, reorgs),
           UNCHANGED <<chain, reorgs>>,
           BeginWrite \/ WriterSteps(state) \/ Rename \/ WriteFails
    PROVE  FilesExact'
<1>1. Backups \in Nat /\ Absent # Torn
  BY DurableAssumption
<1>2. CASE BeginWrite
  <2>1. main' = main /\ ring' = ring /\ (writing' = "shift" => slot' \in Slots)
    BY <1>1, <1>2 DEF BeginWrite, RotationDue, files, Slots
  <2>2. QED
    BY <2>1 DEF FilesExact
<1>3. CASE Shift
  <2> DEFINE r == [n \in Slots |-> CASE n = slot + 1 -> ring[slot]
                                     [] n = slot     -> Absent
                                     [] OTHER        -> ring[n]]
  <2>1. ring' = r /\ main' = main /\ writing = "shift" /\ slot \in Slots
    BY <1>3 DEF Shift, FilesExact
  <2>2. slot \in Nat /\ slot >= 1 /\ \A n \in Slots : n \in Nat
    BY <2>1 DEF Slots
  <2>3. ASSUME NEW n \in Slots, Complete(r[n])
        PROVE  /\ n # slot
               /\ n = slot + 1 => r[n] = ring[slot]
               /\ n # slot + 1 => r[n] = ring[n]
    BY <2>2, <2>3 DEF Complete
  <2>4. r = [n \in Slots |-> r[n]]
    OBVIOUS
  <2> HIDE DEF r
  <2>5. ASSUME NEW n \in Slots, Complete(r[n])
        PROVE  main # Absent /\ Exact(r[n], chain, reorgs) /\ r[n].lastBlock <= main.lastBlock
    BY <2>1, <2>3, <2>5 DEF FilesExact
  <2>6. ASSUME NEW n \in Slots, NEW k \in Slots, k < n, Complete(r[n]), Complete(r[k])
        PROVE  r[n].lastBlock <= r[k].lastBlock
    <3>1. n # slot /\ k # slot
      BY <2>3, <2>6
    <3>2. CASE n = slot + 1
      <4>1. r[n] = ring[slot] /\ r[k] = ring[k] /\ k < slot
        BY <2>2, <2>3, <2>6, <3>1, <3>2
      <4>2. QED
        BY <2>1, <2>6, <4>1 DEF FilesExact
    <3>3. CASE k = slot + 1
      <4>1. r[n] = ring[n] /\ r[k] = ring[slot] /\ slot < n
        BY <2>2, <2>3, <2>6, <3>1, <3>3
      <4>2. QED
        BY <2>1, <2>6, <4>1 DEF FilesExact
    <3>4. CASE n # slot + 1 /\ k # slot + 1
      <4>1. r[n] = ring[n] /\ r[k] = ring[k]
        BY <2>3, <2>6, <3>4
      <4>2. QED
        BY <2>6, <4>1 DEF FilesExact
    <3>5. QED
      BY <3>2, <3>3, <3>4
  <2>7. writing' = "shift" => slot' \in Slots
    BY <1>1, <1>3, <2>1, <2>2 DEF Shift, Slots
  <2>8. QED
    BY <2>1, <2>4, <2>5, <2>6, <2>7 DEF FilesExact
<1>4. CASE StartCopy
  <2> DEFINE r == [ring EXCEPT ![1] = Torn]
  <2>1. ring' = r /\ main' = main /\ writing' # "shift"
    BY <1>4 DEF StartCopy
  <2>2. r = [n \in Slots |-> r[n]]
    BY DEF FilesExact
  <2>3. ASSUME NEW n \in Slots, Complete(r[n]) PROVE r[n] = ring[n]
    BY <2>3 DEF FilesExact, Complete
  <2> HIDE DEF r
  <2>4. QED
    BY <2>1, <2>2, <2>3 DEF FilesExact
<1>5. CASE EndCopy
  <2> DEFINE r == [ring EXCEPT ![1] = main]
  <2>1. ring' = r /\ main' = main /\ writing' # "shift"
    BY <1>5 DEF EndCopy
  <2>2. r = [n \in Slots |-> r[n]]
    BY DEF FilesExact
  <2>3. \A n \in Slots : IF n = 1 THEN r[n] = main ELSE r[n] = ring[n]
    BY DEF FilesExact
  <2> HIDE DEF r
  <2>4. main # Absent => main.lastBlock \in Nat
    BY DEF FilesExact, Exact, HasCursor
  <2>5. ASSUME NEW n \in Slots, Complete(r[n])
        PROVE  main # Absent /\ Exact(r[n], chain, reorgs) /\ r[n].lastBlock <= main.lastBlock
    <3>1. CASE n = 1
      BY <2>3, <2>4, <2>5, <3>1 DEF FilesExact, Complete
    <3>2. CASE n # 1
      BY <2>3, <2>5, <3>2 DEF FilesExact
    <3>3. QED
      BY <3>1, <3>2
  <2>6. ASSUME NEW n \in Slots, NEW k \in Slots, k < n, Complete(r[n]), Complete(r[k])
        PROVE  r[n].lastBlock <= r[k].lastBlock
    <3>1. n # 1
      BY <2>6 DEF Slots
    <3>2. CASE k = 1
      BY <2>3, <2>5, <2>6, <3>2
    <3>3. CASE k # 1
      BY <2>3, <2>6, <3>1, <3>3 DEF FilesExact
    <3>4. QED
      BY <3>2, <3>3
  <2>7. QED
    BY <2>1, <2>2, <2>5, <2>6 DEF FilesExact
<1>6. CASE StartTemp \/ EndTemp(state)
  <2>1. main' = main /\ ring' = ring /\ writing' # "shift"
    BY <1>6 DEF StartTemp, EndTemp
  <2>2. QED
    BY <2>1 DEF FilesExact
<1>7. CASE Rename
  <2>1. main' = state /\ ring' = ring /\ writing' # "shift"
    BY <1>7 DEF Rename, CursorInv
  <2>2. state # Torn /\ state # Absent /\ state.lastBlock \in Nat
    BY DEF Exact, FilesApart, HasCursor
  <2>3. ASSUME NEW n \in Slots, Complete(ring[n])
        PROVE  Exact(ring[n], chain, reorgs) /\ ring[n].lastBlock <= state.lastBlock
    <3>1. main # Absent /\ Exact(ring[n], chain, reorgs) /\ ring[n].lastBlock <= main.lastBlock
      BY <2>3 DEF FilesExact
    <3>2. main.lastBlock <= state.lastBlock
      BY <3>1 DEF CursorInv
    <3>3. ring[n].lastBlock \in Nat /\ main.lastBlock \in Nat
      BY <3>1 DEF FilesExact, Exact, HasCursor
    <3>4. QED
      BY <2>2, <3>1, <3>2, <3>3
  <2>4. QED
    BY <2>1, <2>2, <2>3 DEF FilesExact
<1>8. CASE WriteFails
  <2> DEFINE r == IF writing = "copying" THEN [ring EXCEPT ![1] = Absent] ELSE ring
  <2>1. ring' = r /\ main' = main /\ writing' # "shift"
    BY <1>8 DEF WriteFails
  <2>2. r = [n \in Slots |-> r[n]]
    BY DEF FilesExact
  <2>3. ASSUME NEW n \in Slots, Complete(r[n]) PROVE r[n] = ring[n]
    BY <2>3 DEF FilesExact, Complete
  <2> HIDE DEF r
  <2>4. QED
    BY <2>1, <2>2, <2>3 DEF FilesExact
<1>9. QED
  BY <1>2, <1>3, <1>4, <1>5, <1>6, <1>7, <1>8 DEF WriterSteps

\* On disk nothing changes but with the chain.
LEMMA FilesStay ==
    ASSUME ChainSound, FilesExact, ChainNext \/ UNCHANGED chainVars,
           UNCHANGED <<main, ring>>, writing' = "shift" => writing = "shift" /\ slot' = slot
    PROVE  FilesExact'
<1>1. main # Absent => Exact(main, chain', reorgs')
  BY ExactStays DEF FilesExact
<1>2. ASSUME NEW n \in Slots, Complete(ring[n])
      PROVE  main # Absent /\ Exact(ring[n], chain', reorgs') /\ ring[n].lastBlock <= main.lastBlock
  <2>1. main # Absent /\ Exact(ring[n], chain, reorgs) /\ ring[n].lastBlock <= main.lastBlock
    BY <1>2 DEF FilesExact
  <2>2. QED
    BY <2>1, ExactStays
<1>3. QED
  BY <1>1, <1>2 DEF FilesExact

-----------------------------------------------------------------------------
\* It holds of a process that has not started, on a chain without calls.
LEMMA IndexerInvStarts ==
    ASSUME FilesApart, NamesApart, IndexerInit
    PROVE  IndexerInv
<1>1. ChainSound
  BY ChainSoundStarts DEF IndexerInit
<1>2. CursorInv
  BY CursorStarts
<1>3. pc = "down" /\ discovered = {} /\ main = Absent /\ writing = "no"
      /\ ring = [n \in Slots |-> Absent]
  BY DEF IndexerInit, DurableInit
<1>4. MemoryExact
  BY <1>3 DEF MemoryExact
<1>5. FilesExact
  BY <1>3, DurableAssumption DEF FilesExact, Complete
<1>6. QED
  BY <1>1, <1>2, <1>4, <1>5 DEF IndexerInv

\* The facts that bound what a projection may say, over every step of the chain,
\* of the process and of the writer, in any order.
LEMMA IndexerInvSteps ==
    ASSUME FilesApart, NamesApart, AdaptersFit, StartBlock = 2,
           IndexerInv, [IndexerNext]_indexerVars
    PROVE  IndexerInv'
<1>1. ChainNext \/ UNCHANGED chainVars
  BY DEF IndexerNext, Process, Start, Poll, FetchAndFold, Save, Exit, FetchFails, SaveFails,
     Stop, Crash, Dies, indexerVars
<1>2. ChainSound'
  BY <1>1, ChainSoundSteps DEF IndexerInv
<1>3. CursorInv'
  BY CursorSteps DEF IndexerInv, FilesApart
<1>4. ChainSound /\ CursorInv /\ MemoryExact /\ FilesExact
  BY DEF IndexerInv
<1>5. MemoryExact' /\ FilesExact'
  <2>1. CASE ChainNext /\ UNCHANGED <<durableVars, processVars>>
    <3>1. MemoryExact'
      <4>1. pc # "down" => Exact(state, chain', reorgs')
        BY <1>1, <1>4, ExactStays DEF MemoryExact
      <4>2. pc = "fetch" => to <= Len(chain') /\ Lasting(to, chain', reorgs')
        <5> SUFFICES ASSUME pc = "fetch" PROVE to <= Len(chain') /\ Lasting(to, chain', reorgs')
          OBVIOUS
        <5>1. to \in Nat /\ state.lastBlock < to /\ to <= Len(chain) /\ Lasting(to, chain, reorgs)
              /\ state.lastBlock \in Nat
          BY <1>4 DEF MemoryExact, Exact, HasCursor
        <5>2. Len(chain) \in Nat /\ Len(chain') \in Nat
          BY <1>2, <1>4, ListFacts DEF ChainSound, ChainNumbered
        <5>3. to \in 1..Len(chain)
          BY <5>1, <5>2
        <5>4. to \in 1..Len(chain') /\ Lasting(to, chain', reorgs')
          BY <1>1, <1>4, <5>1, <5>3, LastingStays DEF ChainSound
        <5>5. QED
          BY <5>2, <5>4
      <4>3. QED
        BY <1>4, <2>1, <4>1, <4>2 DEF MemoryExact, processVars
    <3>2. FilesExact'
      BY <1>1, <1>4, <2>1, FilesStay DEF durableVars, files, writer
    <3>3. QED
      BY <3>1, <3>2
  <2>2. CASE BetweenBlocks /\ (Process \/ FetchFails \/ SaveFails \/ Stop \/ Crash)
    <3>1. chain' = chain /\ reorgs' = reorgs
      BY <2>2 DEF Process, Start, Poll, FetchAndFold, Save, Exit, FetchFails, SaveFails,
         Stop, Crash, Dies, chainVars
    <3>2. CASE Start
      <4>1. /\ pc' = "idle" /\ state' = Resumed(main) /\ discovered' = SeededAdapters(main)
            /\ UNCHANGED <<main, ring, writing, slot>>
        BY <3>2 DEF Start, durableVars, files, writer
      <4>2. Exact(Resumed(main), chain, reorgs) /\ SeededAdapters(main) \in SUBSET Adapter
        BY <1>4, RestartExact DEF FilesExact
      <4>3. MemoryExact'
        BY <3>1, <4>1, <4>2 DEF MemoryExact
      <4>4. QED
        BY <1>1, <1>4, <4>1, <4>3, FilesStay
    <3>3. CASE Poll
      <4>1. /\ pc = "idle" /\ pc' = "fetch" /\ state' = state /\ discovered' = discovered
            /\ UNCHANGED <<main, ring, writing, slot>>
        BY <3>3 DEF Poll, durableVars, files, writer
      <4>2. MemoryExact'
        BY <1>4, <3>1, <3>3, <4>1, PollExact DEF MemoryExact
      <4>3. QED
        BY <1>1, <1>4, <4>1, <4>2, FilesStay
    <3>4. CASE FetchAndFold
      <4>1. /\ pc' # "fetch" /\ UNCHANGED <<main, ring, writing, slot>>
        BY <3>4 DEF FetchAndFold, durableVars, files, writer
      <4>2. MemoryExact'
        BY <3>1, <3>4, <4>1, FetchExact DEF MemoryExact
      <4>3. QED
        BY <1>1, <1>4, <4>1, <4>2, FilesStay
    <3>5. CASE Save \/ SaveFails
      <4>1. /\ pc = "save" /\ pc' \in {"save", "idle"} /\ state' = state
            /\ discovered' = discovered
            /\ BeginWrite \/ WriterSteps(state) \/ Rename \/ WriteFails
        BY <3>5 DEF Save, SaveFails
      <4>2. Exact(state, chain, reorgs)
        BY <1>4, <4>1 DEF MemoryExact
      <4>3. MemoryExact'
        BY <1>4, <3>1, <4>1, <4>2 DEF MemoryExact
      <4>4. FilesExact'
        BY <1>4, <3>1, <4>1, <4>2, WriterKeepsExact
      <4>5. QED
        BY <4>3, <4>4
    <3>6. CASE FetchFails \/ Stop
      <4>1. /\ pc # "down" /\ pc' \in {"idle", "save"} /\ state' = state
            /\ discovered' = discovered /\ UNCHANGED <<main, ring, writing, slot>>
        BY <3>6 DEF FetchFails, Stop, durableVars, files, writer
      <4>2. MemoryExact'
        BY <1>4, <3>1, <4>1 DEF MemoryExact
      <4>3. QED
        BY <1>1, <1>4, <4>1, <4>2, FilesStay
    <3>7. CASE Exit \/ Crash
      <4>1. pc' = "down" /\ discovered' = {} /\ writing' = "no" /\ UNCHANGED <<main, ring>>
        BY <3>7 DEF Exit, Crash, Dies, WriterDies, files
      <4>2. MemoryExact'
        BY <4>1 DEF MemoryExact
      <4>3. QED
        BY <1>1, <1>4, <4>1, <4>2, FilesStay
    <3>8. QED
      BY <2>2, <3>2, <3>3, <3>4, <3>5, <3>6, <3>7 DEF Process
  <2>3. CASE BetweenBlocks /\ IntervalPasses /\ UNCHANGED <<processVars, chainVars>>
    <3>1. UNCHANGED <<main, ring, writing, slot, processVars, chain, reorgs>>
      BY <2>3 DEF IntervalPasses, files, writer, chainVars
    <3>2. MemoryExact'
      BY <1>4, <3>1 DEF MemoryExact, processVars
    <3>3. QED
      BY <1>1, <1>4, <3>1, <3>2, FilesStay
  <2>4. CASE UNCHANGED indexerVars
    <3>1. UNCHANGED <<main, ring, writing, slot, processVars, chain, reorgs>>
      BY <2>4 DEF indexerVars, durableVars, files, writer, chainVars
    <3>2. MemoryExact'
      BY <1>4, <3>1 DEF MemoryExact, processVars
    <3>3. QED
      BY <1>1, <1>4, <3>1, <3>2, FilesStay
  <2>5. QED
    BY <2>1, <2>2, <2>3, <2>4 DEF IndexerNext
<1>6. QED
  BY <1>2, <1>3, <1>5 DEF IndexerInv

-----------------------------------------------------------------------------
\* An exact projection answers as the contracts would have.
LEMMA ExactAgrees ==
    ASSUME ChainSound, NEW s, Exact(s, chain, reorgs)
    PROVE  ExactAt(s)
<1> DEFINE t == chain[s.lastBlock].after
<1>1. Mirrors(s, t) /\ Sound(t) /\ s.lastBlock <= Tip
  <2>1. Len(chain) \in Nat
    BY ListFacts DEF ChainSound, ChainNumbered
  <2>2. QED
    BY <2>1 DEF Exact, ChainSound, Tip
<1> HIDE DEF t
<1>2. /\ s.shares = t.shares /\ s.totalShares = t.total /\ s.memberCount = t.holders
      /\ s.pendingMembers = t.books.open /\ s.pendingCount = Cardinality(t.books.open)
  BY <1>1 DEF Mirrors, SharesAgree, RowsAgree
<1>3. /\ s.queuedExits = {m \in Member : t.queued[m] > 0} /\ s.queuedExitShares = t.queued
      /\ s.exitQueuedCount = t.books.queuedEver
      /\ s.exitSettledCount = t.books.settled /\ s.modeFSettledCount = t.books.settledQueued
  BY <1>1 DEF Mirrors, ExitsAgree
<1>4. ASSUME NEW m \in Member
      PROVE  P!VotingEligible(s, m) \in {t.shares[m] - t.queued[m], Null}
  <2>1. t.shares[m] \in Nat /\ t.queued[m] \in Nat /\ t.queued[m] <= t.shares[m]
    BY <1>1 DEF Sound, SharesSound
  <2>2. P!VotingEligible(s, m) =
           CASE m \in s.queuedExits /\ s.queuedExitShares[m] = 0 -> Null
             [] s.shares[m] > s.queuedExitShares[m] -> s.shares[m] - s.queuedExitShares[m]
             [] OTHER -> 0
    BY DEF P!VotingEligible
  <2>3. ~(m \in s.queuedExits /\ s.queuedExitShares[m] = 0)
    BY <1>3, <2>1
  <2>4. s.shares[m] = t.shares[m] /\ s.queuedExitShares[m] = t.queued[m]
    BY <1>2, <1>3
  <2>5. CASE t.shares[m] > t.queued[m]
    BY <2>2, <2>3, <2>4, <2>5
  <2>6. CASE ~(t.shares[m] > t.queued[m])
    <3>1. t.shares[m] - t.queued[m] = 0
      BY <2>1, <2>6
    <3>2. P!VotingEligible(s, m) = 0
      BY <2>2, <2>3, <2>4, <2>6
    <3>3. QED
      BY <3>1, <3>2
  <2>7. QED
    BY <2>5, <2>6
<1>5. P!Holders(s) = t.holders
  <2>1. P!Holders(s) = Cardinality({m \in Member : s.shares[m] > 0})
    BY SameCount DEF P!Holders
  <2>2. QED
    BY <1>1, <1>2, <2>1 DEF Sound, SharesSound, Positive
<1>6. s.modeFSettledCount + P!QueuedExitBacklog(s) = s.exitQueuedCount
  <2>1. P!QueuedExitBacklog(s) = Cardinality(Positive(t.queued))
    BY <1>3, SameCount DEF P!QueuedExitBacklog, Positive
  <2>2. QED
    BY <1>1, <1>3, <2>1 DEF Sound, ExitsSound
<1>7. /\ s.known = (t.books.kind # "none")
      /\ s.known => s.kind = t.books.kind /\ s.attested /\ s.vaultCount = 1
      /\ s.operator = t.books.operator
      /\ s.gain = t.books.gain /\ s.loss = t.books.loss /\ s.fees = t.books.fees
  BY <1>1 DEF Mirrors, VaultAgrees, RecordAgrees
<1>8. \A p \in Pid : s.proposals[p] \in SaidOf(t.books.proposals[p])
  BY <1>1 DEF Mirrors, BallotAgrees, SaidOf
<1>9. s.activeProposal = t.books.active /\ s.adapters = t.books.adapters /\ s.swaps = t.books.swaps
  BY <1>1 DEF Mirrors, BallotAgrees, FillsAgree
<1>10. Agrees(s, t)
  BY <1>2, <1>3, <1>4, <1>5, <1>6, <1>7, <1>8, <1>9 DEF Agrees
<1>11. QED
  BY <1>1, <1>10 DEF ExactAt, t

\* What the invariant says of the files.
LEMMA FilesAgree ==
    ASSUME NamesApart, StartBlock = 2, IndexerInv
    PROVE  SnapshotsExact
<1>1. main # Torn
  BY DEF IndexerInv, FilesExact
<1>2. ASSUME NEW f \in {main} \union {ring[n] : n \in Slots}, Complete(f)
      PROVE  ExactAt(Resumed(f))
  <2>1. Exact(f, chain, reorgs)
    BY <1>2 DEF IndexerInv, FilesExact, Complete
  <2>2. Exact(Resumed(f), chain, reorgs)
    BY <2>1, RestartExact DEF IndexerInv
  <2>3. QED
    BY <2>2, ExactAgrees DEF IndexerInv
<1>3. ASSUME NEW n \in Slots, Complete(ring[n])
      PROVE  /\ ring[n].lastBlock <= main.lastBlock
             /\ \A k \in 1..(n - 1) : Complete(ring[k]) => ring[n].lastBlock <= ring[k].lastBlock
  <2>1. \A k \in 1..(n - 1) : k \in Slots /\ k < n
    BY DurableAssumption DEF Slots
  <2>2. QED
    BY <1>3, <2>1 DEF IndexerInv, FilesExact
<1>4. pc # "down" /\ main # Absent => main.lastBlock <= state.lastBlock
  BY DEF IndexerInv, CursorInv
<1>5. QED
  BY <1>1, <1>2, <1>3, <1>4 DEF SnapshotsExact

\* What the API serves from memory is what the contracts said at the cursor,
\* whatever was reorganised, crashed, retried or answered by a node that was
\* behind, and however many members, proposals, events and blocks there are: as
\* long as the confirmations cover the reorganisations (IndexerAssumption), the
\* adapters fit under the ceiling, and START_BLOCK is the block after the one
\* that stands for all before the deployment (ChainInit).  (daemon.tick,
\* projections.apply, rpc.fetchEvents)
THEOREM ProjectionIsExact ==
    ASSUME FilesApart, NamesApart, AdaptersFit, StartBlock = 2
    PROVE  IndexerSpec => []ProjectionExact
<1>1. IndexerInit => IndexerInv
  BY IndexerInvStarts
<1>2. IndexerInv /\ [IndexerNext]_indexerVars => IndexerInv'
  BY IndexerInvSteps
<1>3. IndexerInv => ProjectionExact
  BY ExactAgrees DEF IndexerInv, MemoryExact, ProjectionExact
<1>4. QED
  BY <1>1, <1>2, <1>3, PTL DEF IndexerSpec

\* So is the snapshot on disk and every complete copy in the ring, once resumed;
\* none is torn or out of order, and the file is never ahead of the process.
\* (store.saveSnapshot, durable.rotateBackups)
THEOREM SnapshotsAreExact ==
    ASSUME FilesApart, NamesApart, AdaptersFit, StartBlock = 2
    PROVE  IndexerSpec => []SnapshotsExact
<1>1. IndexerInit => IndexerInv
  BY IndexerInvStarts
<1>2. IndexerInv /\ [IndexerNext]_indexerVars => IndexerInv'
  BY IndexerInvSteps
<1>3. IndexerInv => SnapshotsExact
  BY FilesAgree
<1>4. QED
  BY <1>1, <1>2, <1>3, PTL DEF IndexerSpec
=============================================================================
