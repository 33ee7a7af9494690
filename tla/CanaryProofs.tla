---------------------------- MODULE CanaryProofs ---------------------------
(***************************************************************************)
(* Machine-checked: what the canary's operator is told over failures and   *)
(* crashes, for any chain, windows, backoff and number of sweeps.          *)
(***************************************************************************)
EXTENDS Canary, TLAPS

Wrong == {"alert", "skipped"}
Entry == [status : Status \cup {"unseen"}, pending : Status \cup {"none"},
          count : Nat, polls : Nat, next : Nat]
Result == [status : Status, blind : BOOLEAN, need : {1, 2}]
Cursor == Nat \cup {NoBlock}

CanaryTypes ==
    /\ head \in Nat /\ events \subseteq 0..head
    /\ phase \in {"idle", "scan", "emit"}
    /\ window \in [lo : Nat, hi : 0..head, by : Signal]
    /\ tracked \in [Signal -> Entry]
    /\ disk \in [tracked : [Signal -> Entry], cursor : Cursor]
    /\ cursor \in Cursor /\ cursor <= head /\ disk.cursor <= head
    /\ told \in [Signal -> Status \cup {"unseen"}]
    /\ since \in Cursor

\* Between sweeps nothing waits to be printed.
NothingWaits == phase # "emit" => lines = {}

\* What the tracker holds against a signal was printed, or is about to be, or
\* a crash came in between.
TrackerTold ==
    \A s \in Signal : tracked[s].status \in Wrong =>
        told[s] = tracked[s].status \/ s \in lines \cup torn

TellInv == CanaryTypes /\ NothingWaits /\ TrackerTold /\ OperatorKnows

\* A sweep that measured a window with an event in it holds something against
\* the signal that answers for the window.
SweepAnswers ==
    /\ phase = "scan" => window.by = "module-events"
    /\ phase = "emit" /\ events \cap (window.lo..window.hi) # {} =>
           tracked[window.by].status \in Wrong

\* The blocks passed under a line, or under one of the two exceptions.
Accounted == answered \cup unread \cup repeated

\* No event lies unaccounted for before the cursor, nor between it and the
\* window; a process without a cursor has none on disk either, and the first
\* sweep comes before any cursor.
PassedUnderALine ==
    /\ \A b \in events : since <= b /\ b <= cursor => b \in Accounted
    /\ phase # "idle" => \A b \in events : since <= b /\ b < window.lo => b \in Accounted
    /\ cursor = NoBlock => disk.cursor = NoBlock
    /\ since = NoBlock => cursor = NoBlock /\ phase = "idle"

EventInv == TellInv /\ SweepAnswers /\ PassedUnderALine /\ NoEventPassesUntold

-----------------------------------------------------------------------------
\* What observe does with one result: a status it comes to hold against a
\* signal is a flip it prints or the one it held, and a result that needs no
\* confirmation is taken at once.
LEMMA TrackedKeeps ==
    ASSUME NEW prev \in Entry, NEW r \in Result
    PROVE  /\ Tracked(prev, r) \in Entry
           /\ Tracked(prev, r).status \in Wrong =>
                  Speaks(prev, r) \/ Tracked(prev, r).status = prev.status
           /\ r.need = 1 => Tracked(prev, r).status = r.status
<1>1. SightingsInARow(prev, r) \in Nat \ {0}
  BY DEF SightingsInARow, Entry
<1>2. Settled(r) \in Entry /\ Settled(r).status = r.status
  BY DEF Settled, Entry, Result, Status
<1>3. Repeated(prev, r) \in Entry /\ Repeated(prev, r).status = prev.status
  <2> DEFINE calm == [prev EXCEPT !.pending = "none", !.count = 0]
             due == prev.polls + 1 >= (IF prev.next = 0 THEN 2 ELSE prev.next)
             next == IF due THEN NextBrokenReport(prev.polls + 1) ELSE calm.next
             Counted(p, n) == [calm EXCEPT !.polls = p, !.next = n]
  <2>1. NextBrokenReport(prev.polls + 1) \in Nat
    BY CanaryAssumption DEF NextBrokenReport, Entry
  <2>2. calm \in Entry /\ calm.status = prev.status
    BY DEF Entry
  <2>3. next \in Nat /\ prev.polls + 1 \in Nat
    BY <2>1, <2>2 DEF Entry
  <2>4. Repeated(prev, r) = IF r.blind THEN Counted(prev.polls + 1, next) ELSE Counted(0, 0)
    BY DEF Repeated
  <2> HIDE DEF next, calm
  <2>5. \A p \in Nat, n \in Nat : Counted(p, n) \in Entry /\ Counted(p, n).status = prev.status
    BY <2>2 DEF Entry
  <2> HIDE DEF Counted
  <2>6. Counted(prev.polls + 1, next) \in Entry /\ Counted(prev.polls + 1, next).status = prev.status
    BY <2>3, <2>5
  <2>7. Counted(0, 0) \in Entry /\ Counted(0, 0).status = prev.status
    BY <2>5
  <2> QED
    BY <2>4, <2>6, <2>7, Zenon
<1>4. CASE prev = Unseen \/ (prev.status # r.status /\ SightingsInARow(prev, r) >= r.need)
  BY <1>2, <1>4 DEF Tracked, Speaks, Wrong
<1>5. CASE ~(prev = Unseen \/ (prev.status # r.status /\ SightingsInARow(prev, r) >= r.need))
  <2>1. CASE prev.status = r.status
    BY <1>3, <1>5, <2>1 DEF Tracked
  <2>2. CASE prev.status # r.status
    <3>1. Tracked(prev, r) =
              [prev EXCEPT !.pending = r.status, !.count = SightingsInARow(prev, r)]
      BY <1>5, <2>2 DEF Tracked
    <3>2. Tracked(prev, r) \in Entry /\ Tracked(prev, r).status = prev.status
      BY <1>1, <3>1 DEF Entry, Result
    <3>3. r.need # 1
      BY <1>1, <1>5, <2>2
    <3> QED
      BY <3>2, <3>3
  <2> QED
    BY <2>1, <2>2
<1> QED
  BY <1>4, <1>5

\* What a sweep reports: well-typed results of known signals, and something
\* wrong of an unreadable vault or of a window with an event in it.
LEMMA ResultsReport ==
    ASSUME NEW lo, NEW hi, NEW res \in Results(lo, hi)
    PROVE  /\ DOMAIN res \subseteq Signal
           /\ \A s \in DOMAIN res : res[s] \in Result
           /\ "module-events" \notin DOMAIN res =>
                  "vault-config" \in DOMAIN res /\ res["vault-config"] = DetectorBroken
           /\ "module-events" \in DOMAIN res /\ events \cap (lo..hi) # {} =>
                  res["module-events"].need = 1 /\ res["module-events"].status \in Wrong
<1>1. DetectorBroken \in Result /\ DetectorBroken.need = 1 /\ DetectorBroken.status = "skipped"
  BY DEF DetectorBroken, Result, Status
<1>2. \A st \in Status, need \in {1, 2} : Measured(st, need) \in Result
  BY DEF Measured, Result, Status
<1>3. CASE res = [s \in {"vault-config"} |-> DetectorBroken]
  BY <1>1, <1>3 DEF Signal
<1>4. CASE \E me \in {ModuleEvents(lo, hi), DetectorBroken}, sc \in ShareConservation \cup {DetectorBroken} :
             res = [s \in {"module-events", "share-conservation"} |-> IF s = "module-events" THEN me ELSE sc]
  <2>1. PICK me \in {ModuleEvents(lo, hi), DetectorBroken}, sc \in ShareConservation \cup {DetectorBroken} :
             res = [s \in {"module-events", "share-conservation"} |-> IF s = "module-events" THEN me ELSE sc]
    BY <1>4
  <2>2. sc \in Result
    BY <1>1, <1>2 DEF ShareConservation, Status
  <2>3. me \in Result /\ me.need = 1
    <3>1. ModuleEvents(lo, hi) \in {Measured("ok", 1), Measured("alert", 1)}
      BY DEF ModuleEvents
    <3>2. Measured("ok", 1) \in Result /\ Measured("alert", 1) \in Result
      BY <1>2 DEF Status
    <3>3. Measured("ok", 1).need = 1 /\ Measured("alert", 1).need = 1
      BY DEF Measured
    <3> QED
      BY <1>1, <3>1, <3>2, <3>3
  <2>4. events \cap (lo..hi) # {} => me.status \in Wrong
    BY <1>1 DEF ModuleEvents, Measured, Wrong
  <2> QED
    BY <2>1, <2>2, <2>3, <2>4 DEF Signal
<1> QED
  BY <1>3, <1>4 DEF Results

-----------------------------------------------------------------------------
\* The window of a sweep starts no later than the block after the cursor,
\* but for the gap it prints.
LEMMA WindowTypes ==
    ASSUME NEW to \in Nat, cursor \in Cursor
    PROVE  /\ FromBlock(to) \in Nat /\ WindowFrom(to) \in Nat
           /\ cursor # NoBlock => FromBlock(to) <= cursor + 1 \/ WindowFrom(to) = to
           /\ cursor # NoBlock /\ to <= cursor => WindowFrom(to) = to
<1> DEFINE from == IF cursor = NoBlock THEN to - Lookback ELSE IF cursor < to THEN cursor + 1 ELSE to
<1>1. from \in Int
  BY CanaryAssumption DEF Cursor, NoBlock
<1>2. FromBlock(to) = IF from < 0 THEN 0 ELSE from
  BY DEF FromBlock
<1>3. FromBlock(to) \in Nat
  BY <1>1, <1>2
<1>4. WindowFrom(to) \in Nat
  BY <1>3, CanaryAssumption DEF WindowFrom
<1>5. cursor # NoBlock => FromBlock(to) = IF cursor < to THEN cursor + 1 ELSE to
  BY <1>2 DEF Cursor, NoBlock
<1>6. cursor # NoBlock /\ to <= cursor => WindowFrom(to) = to
  BY <1>5, CanaryAssumption DEF WindowFrom, Cursor, NoBlock
<1> QED
  BY <1>3, <1>4, <1>5, <1>6 DEF Cursor, NoBlock

LEMMA TellInit == CanaryInit => TellInv
<1> SUFFICES ASSUME CanaryInit PROVE TellInv
  OBVIOUS
<1> USE DEF CanaryInit, Clean
<1>1. Unseen \in Entry
  BY DEF Unseen, Entry, Status
<1>2. CanaryTypes
  BY <1>1, CanaryAssumption DEF CanaryTypes, Signal, Status, Cursor, NoBlock
<1>3. \A s \in Signal : tracked[s].status = "unseen" /\ disk.tracked[s].status = "unseen"
  BY DEF Unseen
<1> QED
  BY <1>2, <1>3 DEF TellInv, NothingWaits, TrackerTold, OperatorKnows, Wrong

\* Lines come before the save, and the save before anything else.
LEMMA TellStep ==
    ASSUME TellInv, [CanaryNext]_canaryVars
    PROVE  TellInv'
<1> USE DEF TellInv
<1>1. CASE UNCHANGED canaryVars
  BY <1>1 DEF canaryVars, CanaryTypes, NothingWaits, TrackerTold, OperatorKnows
<1>2. CASE Grow
  <2>1. /\ head' = head + 1 /\ events' \in {events, events \cup {head + 1}}
        /\ UNCHANGED <<phase, window, tracked, lines, cursor, disk, told, unsaved, torn, since>>
    BY <1>2 DEF Grow
  <2>2. head' \in Nat /\ events' \subseteq 0..head'
    BY <2>1 DEF CanaryTypes
  <2>3. window \in [lo : Nat, hi : 0..head', by : Signal]
    BY <2>1 DEF CanaryTypes
  <2>4. cursor <= head' /\ disk.cursor <= head'
    BY <2>1 DEF CanaryTypes, Cursor, NoBlock
  <2> QED
    BY <2>1, <2>2, <2>3, <2>4 DEF CanaryTypes, NothingWaits, TrackerTold, OperatorKnows
<1>3. CASE BeginSweep
  <2> DEFINE to == IF head < Confirmations THEN 0 ELSE head - Confirmations
  <2>1. to \in 0..head
    BY CanaryAssumption DEF CanaryTypes
  <2>2. WindowFrom(to) \in Nat
    BY <2>1, WindowTypes DEF CanaryTypes
  <2>3. window' = [lo |-> WindowFrom(to), hi |-> to, by |-> "module-events"]
    BY <1>3 DEF BeginSweep
  <2>4. window' \in [lo : Nat, hi : 0..head', by : Signal] /\ since' \in Cursor
    <3>1. FromBlock(to) \in Nat /\ to \in Nat
      BY <2>1, WindowTypes DEF CanaryTypes
    <3> QED
      BY <1>3, <2>1, <2>2, <2>3, <3>1 DEF BeginSweep, Signal, CanaryTypes, Cursor
  <2> QED
    BY <1>3, <2>4 DEF BeginSweep, CanaryTypes, NothingWaits, TrackerTold, OperatorKnows
<1>4. CASE AbandonSweep
  BY <1>4 DEF AbandonSweep, CanaryTypes, NothingWaits, TrackerTold, OperatorKnows
<1>5. CASE Observe
  <2>1. PICK res \in Results(window.lo, window.hi) :
          /\ tracked' = [s \in Signal |->
                 IF s \in DOMAIN res THEN Tracked(tracked[s], res[s]) ELSE tracked[s]]
          /\ lines' = {s \in DOMAIN res : Speaks(tracked[s], res[s])}
          /\ window' = [window EXCEPT !.by = IF @ \in DOMAIN res THEN @ ELSE "vault-config"]
    BY <1>5 DEF Observe
  <2>2. /\ DOMAIN res \subseteq Signal
        /\ \A s \in DOMAIN res : res[s] \in Result
    BY <2>1, ResultsReport
  <2>3. ASSUME NEW s \in DOMAIN res
        PROVE  /\ Tracked(tracked[s], res[s]) \in Entry
               /\ Tracked(tracked[s], res[s]).status \in Wrong =>
                      s \in lines' \/ Tracked(tracked[s], res[s]).status = tracked[s].status
    <3>1. tracked[s] \in Entry /\ res[s] \in Result
      BY <2>2 DEF CanaryTypes
    <3> QED
      BY <2>1, <3>1, TrackedKeeps
  <2>4. tracked' \in [Signal -> Entry]
    BY <2>1, <2>3 DEF CanaryTypes
  <2>5. window' \in [lo : Nat, hi : 0..head, by : Signal]
    BY <2>1 DEF CanaryTypes, Signal
  <2>6. CanaryTypes'
    BY <1>5, <2>4, <2>5 DEF Observe, CanaryTypes
  <2>7. TrackerTold'
    <3> SUFFICES ASSUME NEW s \in Signal, tracked'[s].status \in Wrong
                 PROVE  told'[s] = tracked'[s].status \/ s \in (lines \cup torn)'
      BY DEF TrackerTold
    <3>1. s \in lines' \/ tracked'[s].status = tracked[s].status
      BY <2>1, <2>3
    <3>2. lines = {} /\ told' = told /\ torn' = torn
      BY <1>5 DEF Observe, NothingWaits
    <3> QED
      BY <3>1, <3>2 DEF TrackerTold
  <2> QED
    BY <1>5, <2>6, <2>7 DEF Observe, NothingWaits, OperatorKnows
<1>6. ASSUME NEW s \in Signal, Tell(s) PROVE TellInv'
  <2>1. told' \in [Signal -> Status \cup {"unseen"}]
    BY <1>6 DEF Tell, CanaryTypes, Entry
  <2>2. CanaryTypes'
    BY <1>6, <2>1 DEF Tell, CanaryTypes
  <2>3. TrackerTold'
    BY <1>6 DEF Tell, TrackerTold, CanaryTypes
  <2>4. OperatorKnows'
    BY <1>6 DEF Tell, OperatorKnows, CanaryTypes
  <2> QED
    BY <1>6, <2>2, <2>3, <2>4 DEF Tell, NothingWaits
<1>7. ASSUME NEW saved \in BOOLEAN, Flush(saved) PROVE TellInv'
  <2> USE <1>7 DEF Flush, AllTold
  <2>1. CanaryTypes'
    <3>1. window.hi \in Cursor /\ window.hi <= head
      BY DEF CanaryTypes, Cursor
    <3>2. disk' \in [tracked : [Signal -> Entry], cursor : Cursor] /\ disk'.cursor <= head
      BY <3>1 DEF CanaryTypes
    <3> QED
      BY <3>1, <3>2 DEF CanaryTypes
  <2>2. TrackerTold' /\ NothingWaits'
    BY DEF TrackerTold, NothingWaits
  <2>3. OperatorKnows'
    <3>1. CASE saved
      BY <3>1 DEF TrackerTold, OperatorKnows, Wrong
    <3>2. CASE ~saved
      BY <3>2 DEF OperatorKnows
    <3> QED
      BY <3>1, <3>2
  <2> QED
    BY <2>1, <2>2, <2>3
<1>8. CASE Crash
  <2>1. CanaryTypes' /\ NothingWaits'
    BY <1>8 DEF Crash, CanaryTypes, NothingWaits
  <2>2. TrackerTold'
    BY <1>8 DEF Crash, TrackerTold, OperatorKnows, Wrong
  <2>3. OperatorKnows'
    BY <1>8 DEF Crash, OperatorKnows
  <2> QED
    BY <2>1, <2>2, <2>3
<1> QED
  BY <1>1, <1>2, <1>3, <1>4, <1>5, <1>6, <1>7, <1>8 DEF CanaryNext, Save, SaveFails

\* No restart inherits an alert, or a broken detector, that was never printed,
\* unless the crash came between the line and the save of its sweep.
THEOREM OperatorAlwaysKnows == CanarySpec => []OperatorKnows
<1>1. TellInv => OperatorKnows
  BY DEF TellInv
<1> QED
  BY <1>1, TellInit, TellStep, PTL DEF CanarySpec

-----------------------------------------------------------------------------
LEMMA EventInit == CanaryInit => EventInv
<1> SUFFICES ASSUME CanaryInit PROVE EventInv
  OBVIOUS
<1> QED
  BY TellInit DEF CanaryInit, Clean, EventInv, SweepAnswers, PassedUnderALine, NoEventPassesUntold, NoBlock

\* An event is in the gap, in the window, or was passed before.
LEMMA EventStep ==
    ASSUME EventInv, [CanaryNext]_canaryVars
    PROVE  EventInv'
<1>1. TellInv'
  BY TellStep DEF EventInv
<1> USE DEF EventInv, TellInv
<1>2. CASE UNCHANGED canaryVars
  BY <1>1, <1>2 DEF canaryVars, SweepAnswers, PassedUnderALine, NoEventPassesUntold, Accounted
<1>3. CASE Grow
  <2>1. \A b \in events' : b \in events \/ (b > cursor /\ b > disk.cursor)
    BY <1>3 DEF Grow, CanaryTypes, Cursor, NoBlock
  <2> QED
    BY <1>1, <1>3, <2>1 DEF Grow, SweepAnswers, PassedUnderALine, NoEventPassesUntold, Accounted, CanaryTypes, Cursor, NoBlock
<1>4. CASE BeginSweep
  <2> DEFINE to == IF head < Confirmations THEN 0 ELSE head - Confirmations
  <2>1. to \in Nat
    BY CanaryAssumption DEF CanaryTypes
  <2>2. /\ window' = [lo |-> WindowFrom(to), hi |-> to, by |-> "module-events"]
        /\ answered' = answered \cup (FromBlock(to)..(WindowFrom(to) - 1))
        /\ since' = IF since = NoBlock THEN FromBlock(to) ELSE since
        /\ unread' = IF StartsOver THEN unread \cup (since..(FromBlock(to) - 1)) ELSE unread
        /\ events' = events /\ cursor' = cursor /\ disk' = disk /\ phase' = "scan"
        /\ repeated' = repeated
    BY <1>4 DEF BeginSweep
  <2>3. SweepAnswers'
    BY <2>2 DEF SweepAnswers
  <2>4. FromBlock(to) \in Nat /\ WindowFrom(to) \in Nat
    BY <2>1, WindowTypes DEF CanaryTypes
  <2>5. Accounted \subseteq Accounted' /\ FromBlock(to)..(WindowFrom(to) - 1) \subseteq Accounted'
    BY <2>2 DEF Accounted
  <2>6. since <= since' /\ since' # NoBlock
    BY <2>2, <2>4 DEF CanaryTypes, Cursor, NoBlock
  <2>7. ASSUME NEW b \in events, since' <= b, b < WindowFrom(to)
        PROVE  b \in Accounted'
    <3>1. b \in Nat /\ since <= b
      BY <2>2, <2>4, <2>6, <2>7 DEF CanaryTypes, Cursor, NoBlock
    <3>2. CASE FromBlock(to) <= b
      BY <2>4, <2>5, <2>7, <3>1, <3>2
    <3>3. CASE b < FromBlock(to) /\ cursor = NoBlock
      <4>1. since # NoBlock
        BY <2>2, <2>4, <2>7, <3>1, <3>3
      <4>2. StartsOver
        BY <3>3, <4>1 DEF StartsOver, PassedUnderALine
      <4>3. b \in since..(FromBlock(to) - 1)
        BY <2>4, <3>1, <3>3, <4>1 DEF CanaryTypes, Cursor
      <4> QED
        BY <2>2, <4>2, <4>3 DEF Accounted
    <3>4. CASE b < FromBlock(to) /\ cursor # NoBlock
      <4>1. CASE b <= cursor
        BY <2>5, <3>1, <4>1 DEF PassedUnderALine
      <4>2. CASE ~(b <= cursor)
        <5>1. cursor \in Nat /\ b >= cursor + 1 /\ ~(to <= cursor)
          BY <2>1, <2>4, <2>7, <3>1, <3>4, <4>2, WindowTypes DEF CanaryTypes, Cursor
        <5>2. FromBlock(to) = cursor + 1
          BY <2>1, <3>4, <5>1 DEF FromBlock
        <5> QED
          BY <3>1, <3>4, <5>1, <5>2
      <4> QED
        BY <4>1, <4>2
    <3> QED
      BY <2>4, <3>1, <3>2, <3>3, <3>4
  <2>8. ASSUME NEW b \in events, since' <= b, b <= cursor \/ b <= disk.cursor
        PROVE  b \in Accounted'
    <3>1. since <= b
      BY <2>2, <2>4, <2>6, <2>8 DEF CanaryTypes, Cursor, NoBlock
    <3> QED
      BY <2>5, <2>8, <3>1 DEF PassedUnderALine, NoEventPassesUntold, Accounted
  <2>9. PassedUnderALine'
    BY <2>2, <2>6, <2>7, <2>8 DEF PassedUnderALine
  <2>10. NoEventPassesUntold'
    BY <2>2, <2>8 DEF NoEventPassesUntold, Accounted
  <2> QED
    BY <1>1, <2>3, <2>9, <2>10
<1>5. CASE AbandonSweep
  BY <1>1, <1>5 DEF AbandonSweep, SweepAnswers, PassedUnderALine, NoEventPassesUntold, Accounted
<1>6. CASE Observe
  <2>1. PICK res \in Results(window.lo, window.hi) :
          /\ tracked' = [s \in Signal |->
                 IF s \in DOMAIN res THEN Tracked(tracked[s], res[s]) ELSE tracked[s]]
          /\ window' = [window EXCEPT !.by = IF @ \in DOMAIN res THEN @ ELSE "vault-config"]
    BY <1>6 DEF Observe
  <2>2. /\ DOMAIN res \subseteq Signal
        /\ \A s \in DOMAIN res : res[s] \in Result
        /\ "module-events" \notin DOMAIN res =>
               "vault-config" \in DOMAIN res /\ res["vault-config"] = DetectorBroken
        /\ "module-events" \in DOMAIN res /\ events \cap (window.lo..window.hi) # {} =>
               res["module-events"].need = 1 /\ res["module-events"].status \in Wrong
    BY <2>1, ResultsReport
  <2>3. ASSUME NEW s \in DOMAIN res, res[s].need = 1
        PROVE  tracked'[s].status = res[s].status
    <3>1. tracked[s] \in Entry /\ res[s] \in Result
      BY <2>2 DEF CanaryTypes
    <3> QED
      BY <2>1, <2>2, <2>3, <3>1, TrackedKeeps
  <2>4. window.by = "module-events"
    BY <1>6 DEF Observe, SweepAnswers
  <2>5. window'.lo = window.lo /\ window'.hi = window.hi
    BY <2>1 DEF CanaryTypes
  <2>6. SweepAnswers'
    <3> SUFFICES ASSUME events \cap (window.lo..window.hi) # {}
                 PROVE  tracked'[window'.by].status \in Wrong
      BY <1>6, <2>5 DEF Observe, SweepAnswers
    <3>1. CASE "module-events" \in DOMAIN res
      <4>1. window'.by = "module-events"
        BY <2>1, <2>4, <3>1 DEF CanaryTypes
      <4> QED
        BY <2>2, <2>3, <3>1, <4>1
    <3>2. CASE "module-events" \notin DOMAIN res
      <4>1. window'.by = "vault-config"
        BY <2>1, <2>4, <3>2 DEF CanaryTypes
      <4> QED
        BY <2>2, <2>3, <3>2, <4>1 DEF DetectorBroken, Wrong
    <3> QED
      BY <3>1, <3>2
  <2> QED
    BY <1>1, <1>6, <2>5, <2>6 DEF Observe, PassedUnderALine, NoEventPassesUntold, Accounted
<1>7. ASSUME NEW s \in Signal, Tell(s) PROVE EventInv'
  BY <1>1, <1>7 DEF Tell, SweepAnswers, PassedUnderALine, NoEventPassesUntold, Accounted
<1>8. ASSUME NEW saved \in BOOLEAN, Flush(saved) PROVE EventInv'
  <2>1. Accounted \subseteq Accounted'
    BY <1>8 DEF Flush, Accounted
  <2>2. ASSUME NEW b \in events, since <= b, b <= window.hi PROVE b \in Accounted'
    <3>1. CASE b < window.lo
      BY <1>8, <2>1, <2>2, <3>1 DEF Flush, PassedUnderALine
    <3>2. CASE ~(b < window.lo)
      <4>1. b \in window.lo..window.hi
        BY <2>2, <3>2 DEF CanaryTypes
      <4>2. tracked[window.by].status \in Wrong
        BY <1>8, <4>1 DEF Flush, SweepAnswers
      <4>3. Answers \/ Repeats
        BY <1>8, <4>2 DEF Flush, AllTold, TrackerTold, CanaryTypes, Answers, Repeats, Wrong
      <4> QED
        BY <1>8, <4>1, <4>3 DEF Flush, Accounted
    <3> QED
      BY <3>1, <3>2
  <2>3. window.hi \in Nat
    BY DEF CanaryTypes
  <2>4. PassedUnderALine'
    BY <1>8, <2>2, <2>3 DEF Flush, PassedUnderALine, NoBlock
  <2>5. NoEventPassesUntold'
    BY <1>8, <2>2, <2>1 DEF Flush, NoEventPassesUntold, Accounted
  <2> QED
    BY <1>1, <1>8, <2>4, <2>5 DEF Flush, SweepAnswers
<1>9. CASE Crash
  BY <1>1, <1>9 DEF Crash, SweepAnswers, PassedUnderALine, NoEventPassesUntold, Accounted
<1> QED
  BY <1>2, <1>3, <1>4, <1>5, <1>6, <1>7, <1>8, <1>9 DEF CanaryNext, Save, SaveFails

\* No event since the first block the canary was asked to read was passed
\* without a line, whatever was abandoned, not written, lost in a crash or given
\* up as a gap; but for a start over before any sweep was saved, and an alert
\* that a torn "recovered" hides.
THEOREM EventsNeverPassUntold == CanarySpec => []NoEventPassesUntold
<1>1. EventInv => NoEventPassesUntold
  BY DEF EventInv
<1> QED
  BY <1>1, EventInit, EventStep, PTL DEF CanarySpec
=============================================================================
