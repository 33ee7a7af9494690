------------------------------ MODULE Durable ------------------------------
(***************************************************************************)
(* A state file of one of the daemons, and the ring of its older copies:   *)
(* the writer of packages/oplog/src/durable.mjs, one file-system call per  *)
(* step, so that a crash or an error may fall between any two of them.     *)
(*                                                                         *)
(* A file is absent, torn (its bytes are not all there) or complete, and a *)
(* complete one holds the state it was written from.  The call the writer  *)
(* makes next is `writing', which belongs to the process, not to the disk. *)
(***************************************************************************)
EXTENDS Naturals

CONSTANTS
    Backups,     \* SNAPSHOT_BACKUPS: the size of the ring
    Absent, Torn \* what is at a path that holds no complete file

ASSUME DurableAssumption == Backups \in Nat /\ Absent # Torn

VARIABLES
    main,        \* the file at `path'
    tmp,         \* the file at `path'.tmp
    ring,        \* 1..Backups -> the file at `path'.n, the newest first
    rested,      \* backupIntervalMs has passed since the last copy
    armed,       \* lastBackupAt is set: this process has taken a copy
    writing,     \* the writer's next call; "no" between two writes
    slot         \* the copy that call moves

files == <<main, tmp, ring>>
writer == <<armed, writing, slot>>
durableVars == <<files, rested, writer>>

Slots == 1..Backups

Complete(f) == f \notin {Absent, Torn}

DurableInit ==
    /\ main = Absent /\ tmp = Absent /\ ring = [n \in Slots |-> Absent]
    /\ rested = TRUE /\ armed = FALSE /\ writing = "no" /\ slot = 0

-----------------------------------------------------------------------------
\* The first write of a process finds lastBackupAt unset.
RotationDue == Backups > 0 /\ main # Absent /\ (armed => rested)

\* write: a copy first when one is due, or straight on to the temporary file.
BeginWrite ==
    /\ writing = "no"
    /\ writing' = IF RotationDue THEN "shift" ELSE "temp"
    /\ slot' = IF RotationDue THEN Backups ELSE 0
    /\ UNCHANGED <<files, rested, armed>>

\* The oldest copy is dropped and each of the others renamed one slot up, from
\* the oldest down; slot 1 is left free.
Shift ==
    /\ writing = "shift"
    /\ ring' = [n \in Slots |-> CASE n = slot + 1 -> ring[slot]
                                  [] n = slot     -> Absent
                                  [] OTHER        -> ring[n]]
    /\ slot' = slot - 1
    /\ writing' = IF slot = 1 THEN "copy" ELSE "shift"
    /\ UNCHANGED <<main, tmp, rested, armed>>

\* Fault: the file itself becomes the copy.
CopyByRename ==
    /\ writing = "copy"
    /\ ring' = [ring EXCEPT ![1] = main] /\ main' = Absent
    /\ writing' = "copying"
    /\ UNCHANGED <<tmp, rested, armed, slot>>

\* copyFile is not atomic: the copy is torn until it ends.
StartCopy ==
    /\ writing = "copy"
    /\ ring' = [ring EXCEPT ![1] = Torn]
    /\ writing' = "copying"
    /\ UNCHANGED <<main, tmp, rested, armed, slot>>

EndCopy ==
    /\ writing = "copying"
    /\ ring' = [ring EXCEPT ![1] = main]
    /\ rested' = FALSE /\ armed' = TRUE
    /\ writing' = "temp"
    /\ UNCHANGED <<main, tmp, slot>>

\* Fault: the state is written over the file in place.
WriteInPlace ==
    /\ writing = "temp"
    /\ main' = Torn /\ tmp' = Torn
    /\ writing' = "flush"
    /\ UNCHANGED <<ring, rested, armed, slot>>

\* atomicWriteFile: the temporary file, torn until its last byte, then the
\* rename that no reader can see half of.
StartTemp ==
    /\ writing = "temp"
    /\ tmp' = Torn
    /\ writing' = "flush"
    /\ UNCHANGED <<main, ring, rested, armed, slot>>

EndTemp(content) ==
    /\ writing = "flush"
    /\ tmp' = content
    /\ writing' = "rename"
    /\ UNCHANGED <<main, ring, rested, armed, slot>>

Rename ==
    /\ writing = "rename"
    /\ main' = tmp /\ tmp' = Absent
    /\ writing' = "no"
    /\ UNCHANGED <<ring, rested, armed, slot>>

WriterSteps(content) ==
    Shift \/ StartCopy \/ EndCopy \/ StartTemp \/ EndTemp(content)

\* A call fails: write rejects.  A failed copy is removed again; a failed
\* temporary file stays until the next write.
WriteFails ==
    /\ writing # "no"
    /\ ring' = IF writing = "copying" THEN [ring EXCEPT ![1] = Absent] ELSE ring
    /\ writing' = "no" /\ slot' = 0
    /\ UNCHANGED <<main, tmp, rested, armed>>

\* The process dies: lastBackupAt and the call in progress go with it.
WriterDies ==
    /\ armed' = FALSE /\ writing' = "no" /\ slot' = 0
    /\ UNCHANGED <<files, rested>>

IntervalPasses ==
    /\ ~rested /\ rested' = TRUE
    /\ UNCHANGED <<files, writer>>

-----------------------------------------------------------------------------
\* A daemon that may save any of `contents', fail and die at any time.
DurableNext(contents) ==
    \/ BeginWrite \/ Rename \/ WriteFails \/ WriterDies \/ IntervalPasses
    \/ \E content \in contents : WriterSteps(content)

DurableSpec(contents) == DurableInit /\ [][DurableNext(contents)]_durableVars
=============================================================================
