------------------------------- MODULE DBuffer -------------------------------
(***************************************************************************)
(* dbuffer_t<msg_t> of src/src/dbuffer.hpp: two message slots reached     *)
(* through the pointers back and front, a mutex sync and has_msg, shared  *)
(* by one writer thread and one reader thread.                             *)
(*                                                                         *)
(* The writer's write(): move the value into *back (outside the lock),     *)
(* then try_lock; on success swap back and front, set has_msg and unlock; *)
(* on failure give up.  The reader's read() and check_read() block on the  *)
(* lock; read copies *front, re-initialises it and clears has_msg.  The    *)
(* move and the copy take time, so each is a step of its own, and the      *)
(* section the writer runs under a successful try_lock is one step (the   *)
(* reader cannot enter it).  Messages are write numbers, 0 the empty msg.  *)
(***************************************************************************)
EXTENDS Naturals

CONSTANT MaxWrites      \* writes the producer makes

Slots == {0, 1}

VARIABLES
    storage,    \* storage[0..1]
    back, front,
    hasMsg,     \* has_msg
    lock,       \* "r" while the reader holds sync (the writer's locked section is one step)
    wpc,        \* writer: "idle" or "moving" (in back->move)
    written,    \* writes begun; the value being written is written
    rpc,        \* reader: "idle", "read" (locked), "copy" (in *value_ = *front), "check"
    rslot,      \* the slot the reader copies
    lastRead    \* the value the last successful read returned

vars == <<storage, back, front, hasMsg, lock, wpc, written, rpc, rslot, lastRead>>

\* dbuffer_t (): back = &storage[0], front = &storage[1], both init ()
Init ==
    /\ storage = [s \in Slots |-> 0]
    /\ back = 0 /\ front = 1 /\ hasMsg = FALSE /\ lock = "none"
    /\ wpc = "idle" /\ written = 0
    /\ rpc = "idle" /\ rslot = 0 /\ lastRead = 0

\* write (): back->move (xvalue) begins
WriteBegin ==
    /\ wpc = "idle" /\ written < MaxWrites
    /\ wpc' = "moving" /\ written' = written + 1
    /\ UNCHANGED <<storage, back, front, hasMsg, lock, rpc, rslot, lastRead>>

\* mutant of WriteEnd: std::swap written as back = front
WriteEndAssign ==
    /\ wpc = "moving"
    /\ storage' = [storage EXCEPT ![back] = written]
    /\ IF lock = "none"
       THEN back' = front /\ hasMsg' = TRUE /\ UNCHANGED front
       ELSE UNCHANGED <<back, front, hasMsg>>
    /\ wpc' = "idle"
    /\ UNCHANGED <<lock, written, rpc, rslot, lastRead>>

\* mutant of WriteEnd: the swap is not guarded by try_lock
WriteEndNoLock ==
    /\ wpc = "moving"
    /\ storage' = [storage EXCEPT ![back] = written]
    /\ back' = front /\ front' = back /\ hasMsg' = TRUE
    /\ wpc' = "idle"
    /\ UNCHANGED <<lock, written, rpc, rslot, lastRead>>

\* mutant of WriteEnd: has_msg is not set after the swap
WriteEndNoFlag ==
    /\ wpc = "moving"
    /\ storage' = [storage EXCEPT ![back] = written]
    /\ IF lock = "none"
       THEN back' = front /\ front' = back
       ELSE UNCHANGED <<back, front>>
    /\ wpc' = "idle"
    /\ UNCHANGED <<hasMsg, lock, written, rpc, rslot, lastRead>>

\* the move completes; then if (sync.try_lock ()) swap, has_msg = true,
\* unlock; otherwise the value stays in *back
WriteEnd ==
    /\ wpc = "moving"
    /\ storage' = [storage EXCEPT ![back] = written]
    /\ IF lock = "none"
       THEN back' = front /\ front' = back /\ hasMsg' = TRUE
       ELSE UNCHANGED <<back, front, hasMsg>>
    /\ wpc' = "idle"
    /\ UNCHANGED <<lock, written, rpc, rslot, lastRead>>

\* read (): scoped_lock_t lock (sync) blocks until the lock is free
ReadLock ==
    /\ rpc = "idle" /\ lock = "none"
    /\ lock' = "r" /\ rpc' = "read"
    /\ UNCHANGED <<storage, back, front, hasMsg, wpc, written, rslot, lastRead>>

\* if (!has_msg) return false; otherwise the copy of *front begins
ReadCheck ==
    /\ rpc = "read"
    /\ IF hasMsg
       THEN rpc' = "copy" /\ rslot' = front /\ UNCHANGED lock
       ELSE rpc' = "idle" /\ lock' = "none" /\ UNCHANGED rslot
    /\ UNCHANGED <<storage, back, front, hasMsg, wpc, written, lastRead>>

\* mutant of ReadCopy: has_msg is not cleared
ReadCopyKeepMsg ==
    /\ rpc = "copy"
    /\ lastRead' = storage[rslot]
    /\ storage' = [storage EXCEPT ![rslot] = 0]
    /\ rpc' = "idle" /\ lock' = "none"
    /\ UNCHANGED <<back, front, hasMsg, wpc, written, rslot>>

\* *value_ = *front completes; front->init (); has_msg = false; unlock
ReadCopy ==
    /\ rpc = "copy"
    /\ lastRead' = storage[rslot]
    /\ storage' = [storage EXCEPT ![rslot] = 0]
    /\ hasMsg' = FALSE
    /\ rpc' = "idle" /\ lock' = "none"
    /\ UNCHANGED <<back, front, wpc, written, rslot>>

\* check_read () (and probe ()): take the lock, look at has_msg, release
CheckReadLock ==
    /\ rpc = "idle" /\ lock = "none"
    /\ lock' = "r" /\ rpc' = "check"
    /\ UNCHANGED <<storage, back, front, hasMsg, wpc, written, rslot, lastRead>>

CheckReadUnlock ==
    /\ rpc = "check"
    /\ lock' = "none" /\ rpc' = "idle"
    /\ UNCHANGED <<storage, back, front, hasMsg, wpc, written, rslot, lastRead>>

Next ==
    \/ WriteBegin \/ WriteEnd
    \/ ReadLock \/ ReadCheck \/ ReadCopy \/ CheckReadLock \/ CheckReadUnlock

\* the writer finishes what it starts; the reader, which may also call
\* check_read () at will, keeps calling read () (strong fairness: read is
\* disabled while a check_read holds the lock)
Fairness ==
    /\ WF_vars(WriteBegin) /\ WF_vars(WriteEnd)
    /\ SF_vars(ReadLock) /\ WF_vars(ReadCheck) /\ WF_vars(ReadCopy)
    /\ WF_vars(CheckReadUnlock)

Spec == Init /\ [][Next]_vars /\ Fairness

-----------------------------------------------------------------------------
TypeOK ==
    /\ storage \in [Slots -> 0 .. MaxWrites]
    /\ {back, front} = Slots
    /\ lock \in {"none", "r"} /\ wpc \in {"idle", "moving"}
    /\ rpc \in {"idle", "read", "copy", "check"}
    /\ lastRead \in 0 .. MaxWrites

\* The writer moves into *back outside the lock while the reader copies
\* *front under it: the two never touch the same slot.
SlotsDisjoint == (wpc = "moving" /\ rpc = "copy") => back # rslot

\* dbuffer_t implements the conflating slot: the slot is *front while
\* has_msg is set, and what the consumer took is what read returned.
Slot == INSTANCE ConflateSlot WITH slot <- IF hasMsg THEN storage[front] ELSE 0,
                                   got <- lastRead
ImplementsSlot == Slot!Spec

\* Spec §8.7: a value the writer has swapped in is read, or a newer one is.
Swapped(v) == storage[front] >= v \/ lastRead >= v
SwappedValueRead == \A v \in 1 .. MaxWrites : Swapped(v) ~> (lastRead >= v)

=============================================================================
