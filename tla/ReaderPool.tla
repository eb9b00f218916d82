----------------------------- MODULE ReaderPool -----------------------------
(***************************************************************************)
(* The bounded pool of L0 reader slots of one L0 circular log              *)
(* (TropoL0SSTable::request_read_queue, release_read_queue and the part   *)
(* of ReadSSTable that uses them, tropodb_l0_sstable.cc).                  *)
(*                                                                         *)
(* read_queue_ is an array of NReaders counters guarded by mutex_; cv_ is  *)
(* the one condition variable.  Every block between mutex_.Lock() and      *)
(* mutex_.Unlock() is one atomic action.  cv_.Wait() releases the mutex    *)
(* and parks the thread ("waiting"); SignalAll, or a spurious wake-up of   *)
(* the pthread condition variable, makes it runnable ("woken"), and it     *)
(* rescans the counters once it holds the mutex again.                     *)
(***************************************************************************)
EXTENDS Naturals, FiniteSets

CONSTANTS
    Threads,   \* the threads that call ReadSSTable on this L0 log
    NReaders   \* TropoDBConfig::number_of_concurrent_L0_readers

ASSUME ReaderPoolAssumption ==
    /\ NReaders \in Nat \ {0}
    /\ IsFiniteSet(Threads)

VARIABLES
    read_queue,  \* read_queue_[i]: how many holders slot i has
    pc,          \* where each thread is in ReadSSTable
    slot         \* the slot a thread picked (NReaders while it holds none)

vars == <<read_queue, pc, slot>>

Slots == 0 .. NReaders - 1

\* The "none picked yet" value of picked_reader.
NoSlot == NReaders

PC == {"idle", "waiting", "woken", "reading"}

(***************************************************************************)
(* The scan "for i in 0..NReaders-1: if read_queue_[i] == 0 pick i"       *)
(* returns the lowest free slot.                                           *)
(***************************************************************************)
FreeSlots == {i \in Slots : read_queue[i] = 0}

FirstFree == CHOOSE i \in FreeSlots : \A j \in FreeSlots : i <= j

\* SignalAll: every thread parked on cv_ becomes runnable.
WakeAll(p) == [u \in Threads |-> IF p[u] = "waiting" THEN "woken" ELSE p[u]]

Init ==
    /\ read_queue = [i \in Slots |-> 0]
    /\ pc = [t \in Threads |-> "idle"]
    /\ slot = [t \in Threads |-> NoSlot]

(***************************************************************************)
(* request_read_queue, first pass: lock, scan; take the first free slot    *)
(* (read_queue_[i] += 1) or, when every slot is busy, cv_.Wait().          *)
(***************************************************************************)
\* Mutant: the counter is decremented instead of incremented.
TakeDecrements(t) ==
    /\ read_queue' = [read_queue EXCEPT ![FirstFree] = @ - 1]
    /\ slot' = [slot EXCEPT ![t] = FirstFree]
    /\ pc' = [pc EXCEPT ![t] = "reading"]

Take(t) ==
    /\ read_queue' = [read_queue EXCEPT ![FirstFree] = @ + 1]
    /\ slot' = [slot EXCEPT ![t] = FirstFree]
    /\ pc' = [pc EXCEPT ![t] = "reading"]

Request(t) ==
    /\ pc[t] = "idle"
    /\ \/ /\ FreeSlots # {}
          /\ Take(t)
       \/ /\ FreeSlots = {}
          /\ pc' = [pc EXCEPT ![t] = "waiting"]
          /\ UNCHANGED <<read_queue, slot>>

(***************************************************************************)
(* The while loop of request_read_queue after cv_.Wait() returned with the *)
(* mutex held: rescan, and wait again while no slot is free.               *)
(***************************************************************************)
Rescan(t) ==
    /\ pc[t] = "woken"
    /\ \/ /\ FreeSlots # {}
          /\ Take(t)
       \/ /\ FreeSlots = {}
          /\ pc' = [pc EXCEPT ![t] = "waiting"]
          /\ UNCHANGED <<read_queue, slot>>

\* cv_.Wait() may return without a signal (pthread_cond_wait).
SpuriousWake(t) ==
    /\ pc[t] = "waiting"
    /\ pc' = [pc EXCEPT ![t] = "woken"]
    /\ UNCHANGED <<read_queue, slot>>

(***************************************************************************)
(* ReadSSTable after the slot is held: log_.Read(..., readernr), then      *)
(* release_read_queue: read_queue_[reader] = 0 and cv_.SignalAll().        *)
(***************************************************************************)
\* Mutant: release_read_queue forgets read_queue_[reader] = 0.
ReleaseNoReset(t) ==
    /\ pc[t] = "reading"
    /\ pc' = [WakeAll(pc) EXCEPT ![t] = "idle"]
    /\ slot' = [slot EXCEPT ![t] = NoSlot]
    /\ UNCHANGED read_queue

\* Mutant: release_read_queue frees the slot but does not SignalAll.
ReleaseNoSignal(t) ==
    /\ pc[t] = "reading"
    /\ read_queue' = [read_queue EXCEPT ![slot[t]] = 0]
    /\ pc' = [pc EXCEPT ![t] = "idle"]
    /\ slot' = [slot EXCEPT ![t] = NoSlot]

Release(t) ==
    /\ pc[t] = "reading"
    /\ read_queue' = [read_queue EXCEPT ![slot[t]] = 0]
    /\ pc' = [WakeAll(pc) EXCEPT ![t] = "idle"]
    /\ slot' = [slot EXCEPT ![t] = NoSlot]

Next ==
    \E t \in Threads :
        \/ Request(t)
        \/ Rescan(t)
        \/ SpuriousWake(t)
        \/ Release(t)

(***************************************************************************)
(* Fairness: a thread holding the mutex finishes its critical section and  *)
(* a read on the device completes (the read is synchronous and does not    *)
(* depend on other threads), so Rescan and Release are weakly fair.  A     *)
(* thread is not obliged to start a read, and spurious wake-ups need not   *)
(* happen.                                                                 *)
(***************************************************************************)
Fairness == \A t \in Threads : WF_vars(Rescan(t)) /\ WF_vars(Release(t))

Spec == Init /\ [][Next]_vars /\ Fairness

-----------------------------------------------------------------------------
TypeOK ==
    /\ read_queue \in [Slots -> Nat]
    /\ pc \in [Threads -> PC]
    /\ slot \in [Threads -> Slots \cup {NoSlot}]

Holders(i) == {t \in Threads : pc[t] = "reading" /\ slot[t] = i}

(***************************************************************************)
(* Every slot's counter is the number of threads between request_read_     *)
(* queue and release_read_queue that hold it, and that number is at most   *)
(* one: no two concurrent reads share a reader slot's device queue and     *)
(* buffer, and at most NReaders reads run at once.                         *)
(***************************************************************************)
SlotExclusive ==
    /\ \A i \in Slots : read_queue[i] = Cardinality(Holders(i))
    /\ \A i \in Slots : read_queue[i] <= 1
    /\ \A t \in Threads : pc[t] = "reading" <=> slot[t] \in Slots

(***************************************************************************)
(* No lost wake-up: a thread parked on cv_ in request_read_queue always    *)
(* has someone who will wake it, a reader that still holds a slot (its     *)
(* release_read_queue will SignalAll).                                     *)
(***************************************************************************)
NoLostWakeup ==
    (\E t \in Threads : pc[t] = "waiting") =>
        \E u \in Threads : pc[u] = "reading"

(***************************************************************************)
(* A thread that waits in request_read_queue is eventually woken by a      *)
(* release (fairness between woken threads is not promised, so it may have *)
(* to wait again, but it never sleeps forever).                            *)
(***************************************************************************)
WaitersAreWoken == \A t \in Threads : pc[t] = "waiting" ~> pc[t] # "waiting"
=============================================================================
