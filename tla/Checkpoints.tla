---------------------------- MODULE Checkpoints ----------------------------
(***************************************************************************)
(* lib/Checkpoints.sol: the history of a value, one checkpoint per second  *)
(* in which it was recorded, asked by bisection for its value at a time.   *)
(***************************************************************************)
EXTENDS Integers, Sequences

Checkpoint == [ts : Nat, value : Int]

\* value is unsigned in the code; a counter's sign is a property, not its type.
Amount == [ts : Nat, value : Nat]

\* Fault: the last checkpoint is overwritten whatever its second.
PushOver(h, t, v) ==
    IF h # <<>> THEN [h EXCEPT ![Len(h)].value = v]
                ELSE Append(h, [ts |-> t, value |-> v])

Push(h, t, v) ==
    IF h # <<>> /\ h[Len(h)].ts = t
    THEN [h EXCEPT ![Len(h)].value = v]
    ELSE Append(h, [ts |-> t, value |-> v])

\* Fault: a checkpoint of the very second asked for is not found.
GetBefore(h, t) ==
    LET first[r \in (0..Len(h)) \X (0..Len(h))] ==
          LET lo == r[1]
              hi == r[2]
              mid == (lo + hi) \div 2
          IN  IF lo = hi THEN lo
              ELSE IF h[mid + 1].ts < t THEN first[<<mid + 1, hi>>] ELSE first[<<lo, mid>>]
        after == first[<<0, Len(h)>>]
    IN  IF after = 0 THEN 0 ELSE h[after].value

\* The bisection: `first' ends at the number of checkpoints not after t.
GetAt(h, t) ==
    LET first[r \in (0..Len(h)) \X (0..Len(h))] ==
          LET lo == r[1]
              hi == r[2]
              mid == (lo + hi) \div 2
          IN  IF lo = hi THEN lo
              ELSE IF h[mid + 1].ts <= t THEN first[<<mid + 1, hi>>] ELSE first[<<lo, mid>>]
        after == first[<<0, Len(h)>>]
    IN  IF after = 0 THEN 0 ELSE h[after].value

-----------------------------------------------------------------------------
\* What a history means: the last value recorded at or before t, 0 if none.
RecordedBy(h, t) == {i \in 1..Len(h) : h[i].ts <= t}

ValueAt(h, t) ==
    IF RecordedBy(h, t) = {} THEN 0
    ELSE h[CHOOSE i \in RecordedBy(h, t) : \A j \in RecordedBy(h, t) : j <= i].value
=============================================================================
