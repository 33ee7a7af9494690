------------------------------- MODULE Canary -------------------------------
(***************************************************************************)
(* The canary of one vault: it sweeps the chain, compares what each signal *)
(* says with the status it last tracked, prints one line per change, and   *)
(* then saves the tracked statuses and the block it has read up to.  A     *)
(* crash keeps what the operator has read and what is on disk, and loses   *)
(* the rest.                                                               *)
(*                                                                         *)
(* Three signals stand for the ten the code runs, one per way of being     *)
(* tracked: vault-config is only ever sighted broken (the read of the      *)
(* vault's own configuration failed, and nothing else of the vault runs),  *)
(* module-events reports the events of the sweep's window, and             *)
(* share-conservation wants two sightings in a row when it could not pin   *)
(* its read.                                                               *)
(***************************************************************************)
EXTENDS Integers, FiniteSets

CONSTANTS
    Confirmations, \* CONFIRMATIONS
    Lookback,      \* LOG_LOOKBACK_BLOCKS
    MaxSpan,       \* MAX_LOG_SPAN_BLOCKS
    RepeatCap,     \* BROKEN_REPEAT_CAP
    MaxBlock, MaxSweeps, MaxFaults   \* bounds of the instance

ASSUME CanaryAssumption ==
    /\ {Confirmations, Lookback, MaxBlock, MaxSweeps, MaxFaults} \subseteq Nat
    /\ {MaxSpan, RepeatCap} \subseteq Nat \ {0}

Signal == {"vault-config", "module-events", "share-conservation"}
Status == {"ok", "alert", "skipped"}

VARIABLES
    head,     \* the newest block
    events,   \* the blocks with a ModuleCallFailed or a SliceEscrowed
    phase,    \* where runOnce is: "idle", "scan", "emit"
    window,   \* the blocks of this sweep, and the signal that answers for them
    tracked,  \* the tracker's states, by signal; Unseen before the first sighting
    lines,    \* the statuses flipped by this sweep and not yet printed
    cursor,   \* lastScannedBlock, or NoBlock
    disk,     \* the canary state file
    told,     \* by signal, the status in the last line the operator read
    unsaved,  \* the signals printed since the last save
    torn,     \* the signals whose last line a crash left unsaved
    since,    \* history: the first block this canary was ever asked to read
    answered, \* history: the blocks passed under a line, see Answers
    unread,   \* history: the blocks skipped before any sweep was saved
    repeated, \* history: the blocks passed under an alert a torn line hides
    sweeps, faults  \* bounds

canaryVars == <<head, events, phase, window, tracked, lines, cursor, disk, told,
                unsaved, torn, since, answered, unread, repeated, sweeps, faults>>

NoBlock == -1
Unseen == [status |-> "unseen", pending |-> "none", count |-> 0, polls |-> 0, next |-> 0]
Clean == [tracked |-> [s \in Signal |-> Unseen], cursor |-> NoBlock]

CanaryInit ==
    /\ head = Confirmations /\ events = {}
    /\ phase = "idle" /\ window = [lo |-> 0, hi |-> 0, by |-> "module-events"]
    /\ disk = Clean /\ tracked = disk.tracked /\ cursor = disk.cursor
    /\ lines = {} /\ unsaved = {} /\ torn = {}
    /\ told = [s \in Signal |-> "ok"]
    /\ since = NoBlock /\ answered = {} /\ unread = {} /\ repeated = {}
    /\ sweeps = 0 /\ faults = 0

-----------------------------------------------------------------------------
\* What one signal reports: its status, whether it is the detector that is
\* broken, and the sightings in a row a change needs.
Measured(st, need) == [status |-> st, blind |-> FALSE, need |-> need]
DetectorBroken == [status |-> "skipped", blind |-> TRUE, need |-> 1]

ModuleEvents(lo, hi) ==
    Measured(IF events \cap (lo..hi) = {} THEN "ok" ELSE "alert", 1)

\* Not in the projection, or unreadable, is skipped; an unpinned answer needs two.
ShareConservation ==
    {Measured("skipped", 1)} \cup {Measured(st, need) : st \in {"ok", "alert"}, need \in {1, 2}}

\* One sweep of the vault: a signal that throws becomes a broken detector, and
\* an unreadable configuration suspends all the others.
Results(lo, hi) ==
    {[s \in {"vault-config"} |-> DetectorBroken]} \cup
    {[s \in {"module-events", "share-conservation"} |-> IF s = "module-events" THEN me ELSE sc] :
        me \in {ModuleEvents(lo, hi), DetectorBroken},
        sc \in ShareConservation \cup {DetectorBroken}}

-----------------------------------------------------------------------------
NextBrokenReport(n) == IF n >= RepeatCap THEN n + RepeatCap ELSE n * 2

Settled(r) ==
    [status |-> r.status, pending |-> "none", count |-> 0,
     polls |-> IF r.blind THEN 1 ELSE 0, next |-> IF r.blind THEN 2 ELSE 0]

\* The same status again: a broken detector counts the sweep, anything else
\* forgets it was ever blind.
Repeated(prev, r) ==
    LET polls == prev.polls + 1
        due == polls >= (IF prev.next = 0 THEN 2 ELSE prev.next)
        calm == [prev EXCEPT !.pending = "none", !.count = 0]
    IN  IF r.blind
        THEN [calm EXCEPT !.polls = polls, !.next = IF due THEN NextBrokenReport(polls) ELSE @]
        ELSE [calm EXCEPT !.polls = 0, !.next = 0]

SightingsInARow(prev, r) == IF prev.pending = r.status THEN prev.count + 1 ELSE 1

\* What observe makes of one result.
Tracked(prev, r) ==
    IF prev = Unseen \/ (prev.status # r.status /\ SightingsInARow(prev, r) >= r.need) THEN Settled(r)
    ELSE IF prev.status = r.status THEN Repeated(prev, r)
    ELSE [prev EXCEPT !.pending = r.status, !.count = SightingsInARow(prev, r)]

\* Whether observe prints a line for it: a flip, or a first sighting that is
\* not ok.  The re-assertion of a broken detector repeats what was told.
Speaks(prev, r) ==
    LET before == IF prev = Unseen THEN "ok" ELSE prev.status
    IN  Tracked(prev, r).status # before

-----------------------------------------------------------------------------
\* The chain grows, with an event in the new block or not.  A sweep fixes its
\* window first, so what the chain adds during one it adds after it.
Grow ==
    /\ phase = "idle"
    /\ head < MaxBlock /\ head' = head + 1
    /\ events' \in {events, events \cup {head + 1}}
    /\ UNCHANGED <<phase, window, tracked, lines, cursor, disk, told, unsaved, torn, since,
                   answered, unread, repeated, sweeps, faults>>

\* Defect: every sweep starts cold, as if nothing had been read before.
FromBlockCold(to) == IF to < Lookback THEN 0 ELSE to - Lookback

\* The blocks of a sweep: from after the last one read, no more than MaxSpan,
\* and a printed line for the older ones it gives up.
FromBlock(to) ==
    LET from == IF cursor = NoBlock THEN to - Lookback ELSE IF cursor < to THEN cursor + 1 ELSE to
    IN  IF from < 0 THEN 0 ELSE from

WindowFrom(to) == IF to - FromBlock(to) > MaxSpan THEN to - MaxSpan ELSE FromBlock(to)

\* The sweeps before this one left no cursor, in memory or on disk: the first
\* was abandoned, or a crash came before one was saved.
StartsOver == since # NoBlock /\ cursor = NoBlock /\ disk.cursor = NoBlock

\* The head is read, and the window follows from it and the cursor.
BeginSweep ==
    /\ phase = "idle" /\ sweeps < MaxSweeps
    /\ LET to == IF head < Confirmations THEN 0 ELSE head - Confirmations
       IN  /\ window' = [lo |-> WindowFrom(to), hi |-> to, by |-> "module-events"]
           /\ answered' = answered \cup (FromBlock(to)..(WindowFrom(to) - 1))
           /\ since' = IF since = NoBlock THEN FromBlock(to) ELSE since
           /\ unread' = IF StartsOver THEN unread \cup (since..(FromBlock(to) - 1)) ELSE unread
    /\ phase' = "scan" /\ sweeps' = sweeps + 1
    /\ UNCHANGED <<head, events, tracked, lines, cursor, disk, told, unsaved, torn, repeated,
                   faults>>

\* chainNow fails, or there is no vault to watch: nothing was measured, and
\* the cursor stays.
AbandonSweep ==
    /\ phase = "scan" /\ faults < MaxFaults
    /\ phase' = "idle" /\ faults' = faults + 1
    /\ UNCHANGED <<head, events, window, tracked, lines, cursor, disk, told, unsaved, torn,
                   since, answered, unread, repeated, sweeps>>

\* The signals run and the tracker takes their results.
Observe ==
    /\ phase = "scan"
    /\ \E res \in Results(window.lo, window.hi) :
         /\ tracked' = [s \in Signal |->
                IF s \in DOMAIN res THEN Tracked(tracked[s], res[s]) ELSE tracked[s]]
         /\ lines' = {s \in DOMAIN res : Speaks(tracked[s], res[s])}
         /\ window' = [window EXCEPT !.by = IF @ \in DOMAIN res THEN @ ELSE "vault-config"]
    /\ phase' = "emit"
    /\ UNCHANGED <<head, events, cursor, disk, told, unsaved, torn, since, answered, unread,
                   repeated, sweeps, faults>>

\* emitAll: one line to the console.  A webhook that fails is logged and
\* passed over, so it changes nothing here.
Tell(s) ==
    /\ phase = "emit" /\ s \in lines
    /\ lines' = lines \ {s}
    /\ told' = [told EXCEPT ![s] = tracked[s].status]
    /\ unsaved' = unsaved \cup {s} /\ torn' = torn \ {s}
    /\ UNCHANGED <<head, events, phase, window, tracked, cursor, disk, since, answered, unread,
                   repeated, sweeps, faults>>

\* Whether the operator was told of what this window may hold: the last line
\* of the signal that answers for it is not ok.
Answers == told[window.by] # "ok"

\* The signal is not ok, and prints nothing, since the file held so already:
\* the "recovered" the operator read in between was never saved.
Repeats == ~Answers /\ window.by \in torn /\ tracked[window.by].status # "ok"

\* Defect: the sinks are not waited for.
Unawaited == lines \subseteq Signal

AllTold == lines = {}

\* Every line is out: the cursor moves, and the file is replaced or the write fails.
Flush(saved) ==
    /\ phase = "emit" /\ AllTold
    /\ cursor' = window.hi /\ phase' = "idle"
    /\ answered' = IF Answers THEN answered \cup (window.lo..window.hi) ELSE answered
    /\ repeated' = IF Repeats THEN repeated \cup (window.lo..window.hi) ELSE repeated
    /\ disk' = IF saved THEN [tracked |-> tracked, cursor |-> window.hi] ELSE disk
    /\ unsaved' = IF saved THEN {} ELSE unsaved
    /\ faults' = IF saved THEN faults ELSE faults + 1
    /\ UNCHANGED <<head, events, window, tracked, lines, told, torn, since, unread, sweeps>>

Save == Flush(TRUE)
SaveFails == faults < MaxFaults /\ Flush(FALSE)

\* The process dies and a new one reads the file.
Crash ==
    /\ faults < MaxFaults /\ faults' = faults + 1
    /\ phase' = "idle" /\ lines' = {}
    /\ tracked' = disk.tracked /\ cursor' = disk.cursor
    /\ torn' = torn \cup unsaved /\ unsaved' = {}
    /\ UNCHANGED <<head, events, window, disk, told, since, answered, unread, repeated, sweeps>>

CanaryNext ==
    \/ Grow
    \/ BeginSweep
    \/ AbandonSweep
    \/ Observe
    \/ \E s \in Signal : Tell(s)
    \/ Save
    \/ SaveFails
    \/ Crash

CanarySpec == CanaryInit /\ [][CanaryNext]_canaryVars

-----------------------------------------------------------------------------
\* A status the file holds against a signal is the one the operator last read
\* about it: no restart, however the sweeps before it ended, inherits an alert
\* or a broken detector that was never printed.  The exceptions are the lines
\* a crash caught between their printing and the save of the same sweep: an
\* operator who read "recovered" there is not told again if the alert returns
\* before the restart.
OperatorKnows ==
    \A s \in Signal :
        disk.tracked[s].status \in {"alert", "skipped"} =>
            told[s] = disk.tracked[s].status \/ s \in unsaved \cup torn

\* A block with an event, at or after the first one the canary was ever asked
\* to read, that the cursor on disk has moved past, across failed sweeps, failed
\* writes, crashes and backlogs longer than a window, was passed under a printed
\* line: the alert, the broken detector, or the gap.  The line of vault-config
\* stands for every later suspension: no sweep ever reports it ok.  The code has
\* two exceptions, and no third: the blocks skipped in silence because no sweep
\* had ever been saved when the canary started over from the head; and those of
\* a sweep whose alert printed nothing, the file holding it since before the
\* "recovered" that a crash tore.
NoEventPassesUntold ==
    \A b \in events :
        since <= b /\ b <= disk.cursor => b \in answered \cup unread \cup repeated

=============================================================================
