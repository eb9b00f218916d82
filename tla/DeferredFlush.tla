---------------------------- MODULE DeferredFlush ----------------------------
(***************************************************************************)
(* The flush of memtables into one L0 log (TropoL0SSTable::FlushMemTable,  *)
(* FlushSSTable and the deferred-write worker DeferFlushWrite,             *)
(* tropodb_l0_sstable.cc).                                                 *)
(*                                                                         *)
(* The flush thread ("driver") cuts the memtable into ntables builders and *)
(* hands each to FlushSSTable.  With deferred writes it pushes the builder *)
(* into the mailbox deferred_builds_ and a worker thread, scheduled at the *)
(* start of every FlushMemTable, writes them in order and appends their    *)
(* metas to the caller's vector.  The mailbox, index_, last_ and done_ are *)
(* guarded by deferred_.mutex_; all threads wait on new_task_.  Each       *)
(* block between Lock and Unlock is one atomic action.                     *)
(*                                                                         *)
(* A memtable with nothing in it returns before the teardown, after its    *)
(* worker was scheduled: that worker stays parked on new_task_, shares     *)
(* deferred_ with the workers of later calls, and wakes with them.  So    *)
(* there is one worker per call, Workers, each with its own pc and         *)
(* current_builder.                                                        *)
(*                                                                         *)
(* deferred_builds_ is a std::vector of pointers: clear() keeps the old    *)
(* pointers in its storage, so slots is its storage (Garbage where nothing *)
(* was ever stored) and size its size().  Reading slots[i] past size is    *)
(* undefined behaviour; the outcomes are what the storage holds there.     *)
(***************************************************************************)
EXTENDS Naturals, Sequences

CONSTANTS
    MaxFlushes,      \* bound on the FlushMemTable calls of a run
    MaxTables,       \* the most SSTables one memtable is cut into
    MaxDeferred,     \* TropoDBConfig::flushing_maximum_deferred_writes
    DeferModes,      \* the values TropoDBConfig::flushes_allow_deferring_writes may have
    FlushOutcomes,   \* what TropoSSTableBuilder::Flush may return
    SpuriousWakeups  \* whether new_task_.Wait() may return unsignalled

ASSUME DeferredFlushAssumption ==
    /\ MaxFlushes \in Nat \ {0}
    /\ MaxTables \in Nat \ {0}
    /\ MaxDeferred \in Nat \ {0}
    /\ DeferModes \subseteq BOOLEAN /\ DeferModes # {}
    /\ FlushOutcomes \subseteq {"ok", "fail"} /\ FlushOutcomes # {}
    /\ SpuriousWakeups \in BOOLEAN

\* A builder is named by its flush and its position in that flush.
Builders == (1 .. MaxFlushes) \X (1 .. MaxTables)

Null == <<0, 0>>      \* nullptr
Garbage == <<0, 1>>   \* storage never written: an invalid pointer

\* The vector's storage: one slot past the largest mailbox, for the reads past its end.
SlotIds == 1 .. MaxTables + 1

\* The worker that FlushMemTable call number w schedules.
Workers == 1 .. MaxFlushes

(***************************************************************************)
(* Two parked workers wake each other through SignalAll, and each wake-up  *)
(* reads past size() and moves index_ on: index_ has no bound in the code. *)
(* The model explores the writes while index_ < IndexCap.                  *)
(***************************************************************************)
IndexCap == 2 * MaxTables + 2

VARIABLES
    dpc,      \* where the driver is in FlushMemTable
    flush,    \* the number of the current FlushMemTable call
    ntables,  \* how many builders the current memtable yields
    next,     \* the next builder (position) the driver hands off
    status,   \* the Status FlushMemTable will return
    metas,    \* the caller's metas vector of the current call
    slots,    \* deferred_builds_' storage
    size,     \* deferred_builds_.size()
    index,    \* deferred_.index_
    last,     \* deferred_.last_
    done,     \* deferred_.done_
    wpc,      \* where each worker is in DeferFlushWrite
    cur,      \* each worker's current_builder
    deferring \* TropoDBConfig::flushes_allow_deferring_writes, fixed for the run

vars == <<dpc, flush, ntables, next, status, metas, slots, size, index,
          last, done, wpc, cur, deferring>>

\* The mailbox entry the worker reads at index_ (0-based), inside or past size.
Slot(i) == IF i + 1 \in SlotIds THEN slots[i + 1] ELSE Garbage

\* new_task_.SignalAll(): every thread parked on new_task_ becomes runnable.
WakeDriver == CASE dpc = "fullwait" -> "fullwoken"
                [] dpc = "tdwait" -> "tdwoken"
                [] OTHER -> dpc
WakeWorker == [w \in Workers |-> IF wpc[w] = "wait" THEN "woken" ELSE wpc[w]]

Init ==
    /\ dpc = "start"
    /\ flush = 1
    /\ ntables = 1
    /\ next = 1
    /\ status = "ok"
    /\ metas = <<>>
    /\ slots = [i \in SlotIds |-> Garbage]
    /\ size = 0
    /\ index = 0
    /\ last = FALSE
    /\ done = FALSE
    /\ wpc = [w \in Workers |-> "idle"]
    /\ cur = [w \in Workers |-> Null]
    /\ deferring \in DeferModes

(***************************************************************************)
(* FlushMemTable entry (lines 150-174): reset deferred_ (metas_ = &metas,  *)
(* index_ = 0, last_ = done_ = false, clear()) and Schedule this call's    *)
(* worker; the memtable yields 0..MaxTables builders.  With none, the     *)
(* iterator is not Valid and the call returns Corruption at once, without  *)
(* the teardown, its worker left scheduled.                                *)
(***************************************************************************)
\* Where the driver goes, and the Status it holds, once the memtable yields n builders.
Entered(n) ==
    IF n = 0 THEN dpc' = "finish" /\ status' = "err"
             ELSE dpc' = "produce" /\ status' = "ok"

\* Mutant: FlushMemTable does not clear deferred_builds_.
StartNoClear ==
    /\ dpc = "start"
    /\ flush <= MaxFlushes
    /\ \E n \in 0 .. MaxTables : ntables' = n /\ Entered(n)
    /\ next' = 1
    /\ metas' = <<>>
    /\ IF deferring
       THEN /\ index' = 0 /\ last' = FALSE /\ done' = FALSE
            /\ wpc' = [wpc EXCEPT ![flush] = "top"]
            /\ UNCHANGED size
       ELSE UNCHANGED <<size, index, last, done, wpc>>
    /\ UNCHANGED <<deferring, flush, slots, cur>>

Start ==
    /\ dpc = "start"
    /\ flush <= MaxFlushes
    /\ \E n \in 0 .. MaxTables : ntables' = n /\ Entered(n)
    /\ next' = 1
    /\ metas' = <<>>
    /\ IF deferring
       THEN /\ size' = 0 /\ index' = 0 /\ last' = FALSE /\ done' = FALSE
            /\ wpc' = [wpc EXCEPT ![flush] = "top"]
       ELSE UNCHANGED <<size, index, last, done, wpc>>
    /\ UNCHANGED <<deferring, flush, slots, cur>>

\* After handing off builder `next`: the next one, or the teardown.
AfterHandOff(ok) ==
    IF ok /\ next < ntables
    THEN /\ next' = next + 1 /\ dpc' = "produce"
    ELSE /\ next' = next
         /\ dpc' = IF deferring THEN "teardown" ELSE "finish"

(***************************************************************************)
(* FlushSSTable with deferred writes (lines 118-132): under the mutex wait *)
(* while more than MaxDeferred builders are pending, then push_back and    *)
(* SignalAll.  The driver rechecks after every wake-up ("fullwoken").      *)
(***************************************************************************)
\* Mutant: FlushSSTable pushes without waiting for room in the mailbox.
HandOffNoWait ==
    /\ dpc \in {"produce", "fullwoken"}
    /\ deferring
    /\ slots' = [slots EXCEPT ![size + 1] = <<flush, next>>]
    /\ size' = size + 1
    /\ wpc' = WakeWorker
    /\ AfterHandOff(TRUE)
    /\ UNCHANGED <<deferring, flush, ntables, status, metas, index, last, done, cur>>

HandOff ==
    /\ dpc \in {"produce", "fullwoken"}
    /\ deferring
    /\ IF size > index /\ size - index > MaxDeferred
       THEN /\ dpc' = "fullwait"
            /\ UNCHANGED <<next, slots, size, wpc>>
       ELSE /\ slots' = [slots EXCEPT ![size + 1] = <<flush, next>>]
            /\ size' = size + 1
            /\ wpc' = WakeWorker
            /\ AfterHandOff(TRUE)
    /\ UNCHANGED <<deferring, flush, ntables, status, metas, index, last, done, cur>>

(***************************************************************************)
(* FlushSSTable without deferred writes (lines 133-144): Flush() inline;   *)
(* the meta is pushed whether or not the write succeeded; a failure ends   *)
(* the memtable loop (line 196) and skips the last table (line 205).       *)
(***************************************************************************)
\* Mutant: the Status of the inline Flush() is ignored.
FlushInlineIgnoresStatus ==
    /\ dpc = "produce"
    /\ ~deferring
    /\ \E r \in FlushOutcomes :
          /\ metas' = IF r = "ok" THEN Append(metas, <<flush, next>>) ELSE metas
          /\ status' = "ok"
          /\ AfterHandOff(r = "ok")
    /\ UNCHANGED <<deferring, flush, ntables, slots, size, index, last, done, wpc, cur>>

FlushInline ==
    /\ dpc = "produce"
    /\ ~deferring
    /\ \E r \in FlushOutcomes :
          /\ metas' = Append(metas, <<flush, next>>)
          /\ status' = IF r = "ok" THEN "ok" ELSE "err"
          /\ AfterHandOff(r = "ok")
    /\ UNCHANGED <<deferring, flush, ntables, slots, size, index, last, done, wpc, cur>>

(***************************************************************************)
(* Teardown (lines 221-230).  Under the mutex: last_ = true, SignalAll and *)
(* Wait while !done_.  After each wake-up the loop body Unlocks, tests     *)
(* done_ without the mutex and calls Wait() again without holding it.      *)
(***************************************************************************)
Teardown ==
    /\ dpc = "teardown"
    /\ last' = TRUE
    /\ wpc' = WakeWorker
    /\ dpc' = IF done THEN "finish" ELSE "tdwait"
    /\ UNCHANGED <<deferring, flush, ntables, next, status, metas, slots, size, index, done, cur>>

TeardownWoken ==
    /\ dpc = "tdwoken"
    /\ dpc' = IF done THEN "finish" ELSE "tdrewait"
    /\ UNCHANGED <<deferring, flush, ntables, next, status, metas, slots, size, index,
                   last, done, wpc, cur>>

\* new_task_.Wait() entered with the mutex not held.
TeardownRewait ==
    /\ dpc = "tdrewait"
    /\ dpc' = "tdwait"
    /\ UNCHANGED <<deferring, flush, ntables, next, status, metas, slots, size, index,
                   last, done, wpc, cur>>

(***************************************************************************)
(* FlushMemTable return (lines 231-241): the log_number loop writes to     *)
(* copies, the new_metas are freed, status is returned; the flush thread   *)
(* goes on to the next memtable.                                           *)
(***************************************************************************)
Finish ==
    /\ dpc = "finish"
    /\ flush' = flush + 1
    /\ dpc' = "start"
    /\ UNCHANGED <<deferring, ntables, next, status, metas, slots, size, index, last,
                   done, wpc, cur>>

(***************************************************************************)
(* DeferFlushWrite of worker w, top of the loop (lines 66-78): Lock; if    *)
(* index_ >= size(): exit when last_, else Wait() once, with no re-test    *)
(* after the wake-up; then current_builder = deferred_builds_[index_];     *)
(* Unlock.                                                                 *)
(***************************************************************************)
\* Mutant: the worker exits on last_ without checking that the mailbox is empty.
WorkerTopExitsEarly(w) ==
    /\ wpc[w] = "top"
    /\ IF last
       THEN /\ done' = TRUE
            /\ dpc' = WakeDriver
            /\ wpc' = [WakeWorker EXCEPT ![w] = "exited"]
            /\ UNCHANGED cur
       ELSE IF index >= size
            THEN /\ wpc' = [wpc EXCEPT ![w] = "wait"]
                 /\ UNCHANGED <<done, dpc, cur>>
            ELSE /\ cur' = [cur EXCEPT ![w] = Slot(index)]
                 /\ wpc' = [wpc EXCEPT ![w] = "flush"]
                 /\ UNCHANGED <<done, dpc>>
    /\ UNCHANGED <<deferring, flush, ntables, next, status, metas, slots, size, index, last>>

WorkerTop(w) ==
    /\ wpc[w] = "top"
    /\ IF index >= size
       THEN IF last
            THEN /\ done' = TRUE
                 /\ dpc' = WakeDriver
                 /\ wpc' = [WakeWorker EXCEPT ![w] = "exited"]
                 /\ UNCHANGED cur
            ELSE /\ wpc' = [wpc EXCEPT ![w] = "wait"]
                 /\ UNCHANGED <<done, dpc, cur>>
       ELSE /\ cur' = [cur EXCEPT ![w] = Slot(index)]
            /\ wpc' = [wpc EXCEPT ![w] = "flush"]
            /\ UNCHANGED <<done, dpc>>
    /\ UNCHANGED <<deferring, flush, ntables, next, status, metas, slots, size, index, last>>

(***************************************************************************)
(* What a read of the mailbox storage can yield: a pointer stored there    *)
(* (a nulled slot, or a builder whose write failed and that was never      *)
(* freed), or, where nothing was ever stored, uninitialised memory: null,  *)
(* or an invalid pointer whose Flush() brings the process down.            *)
(***************************************************************************)
ReadOutcomes(x) == IF x = Garbage THEN {Null, Garbage} ELSE {x}

WorkerWoken(w) ==
    /\ wpc[w] = "woken"
    /\ \E v \in ReadOutcomes(Slot(index)) :
          /\ cur' = [cur EXCEPT ![w] = v]
          /\ wpc' = [wpc EXCEPT ![w] = IF v = Garbage THEN "crashed" ELSE "flush"]
    /\ UNCHANGED <<deferring, dpc, flush, ntables, next, status, metas, slots, size,
                   index, last, done>>

(***************************************************************************)
(* Lines 80-103: Flush() the builder outside the mutex (nullptr gives      *)
(* Corruption), then under the mutex: on success push its meta into        *)
(* *metas_ and null the slot at the index_ of that moment; on error only   *)
(* log it; index_++, SignalAll.                                            *)
(***************************************************************************)
WorkerFlush(w) ==
    /\ wpc[w] = "flush"
    /\ index < IndexCap
    /\ \E r \in FlushOutcomes :
          LET ok == cur[w] # Null /\ r = "ok"
          IN /\ metas' = IF ok THEN Append(metas, cur[w]) ELSE metas
             /\ slots' = IF ok /\ index + 1 \in SlotIds
                         THEN [slots EXCEPT ![index + 1] = Null] ELSE slots
    /\ index' = index + 1
    /\ dpc' = WakeDriver
    /\ wpc' = [WakeWorker EXCEPT ![w] = "top"]
    /\ UNCHANGED <<deferring, flush, ntables, next, status, size, last, done, cur>>

(***************************************************************************)
(* pthread_cond_wait may return without a signal.  Each spurious wake-up   *)
(* of a worker with nothing queued moves index_ one past size(), so they   *)
(* are modelled while index_ <= MaxTables (the bound keeps index_ finite). *)
(***************************************************************************)
SpuriousWake ==
    /\ SpuriousWakeups
    /\ \/ /\ dpc \in {"fullwait", "tdwait"}
          /\ dpc' = WakeDriver
          /\ UNCHANGED <<deferring, flush, ntables, next, status, metas, slots, size,
                         index, last, done, wpc, cur>>
       \/ \E w \in Workers :
          /\ wpc[w] = "wait"
          /\ index <= MaxTables
          /\ wpc' = [wpc EXCEPT ![w] = "woken"]
          /\ UNCHANGED <<deferring, dpc, flush, ntables, next, status, metas, slots, size,
                         index, last, done, cur>>

Driver == Start \/ HandOff \/ FlushInline \/ Teardown \/ TeardownWoken
            \/ TeardownRewait \/ Finish

Worker(w) == WorkerTop(w) \/ WorkerWoken(w) \/ WorkerFlush(w)

\* A crash of a worker ends the process.
Alive == \A w \in Workers : wpc[w] # "crashed"

Next == Alive /\ (Driver \/ (\E w \in Workers : Worker(w)) \/ SpuriousWake)

(***************************************************************************)
(* Every thread runs whenever it is runnable: the driver is the flush      *)
(* thread and each worker a thread of the LOW pool (taken large enough to *)
(* run every scheduled worker), and none waits on anything but new_task_. *)
(* Spurious wake-ups are allowed, not required.                            *)
(***************************************************************************)
Spec == Init /\ [][Next]_vars /\ WF_vars(Driver) /\ \A w \in Workers : WF_vars(Worker(w))

-----------------------------------------------------------------------------
DriverPCs == {"start", "produce", "fullwait", "fullwoken", "teardown",
              "tdwait", "tdwoken", "tdrewait", "finish"}

WorkerPCs == {"idle", "top", "wait", "woken", "flush", "exited", "crashed"}

TypeOK ==
    /\ dpc \in DriverPCs
    /\ flush \in 1 .. MaxFlushes + 1
    /\ ntables \in 0 .. MaxTables
    /\ next \in 1 .. MaxTables
    /\ status \in {"ok", "err"}
    /\ metas \in Seq(Builders)
    /\ slots \in [SlotIds -> Builders \cup {Null, Garbage}]
    /\ size \in 0 .. MaxTables
    /\ index \in 0 .. IndexCap
    /\ last \in BOOLEAN
    /\ done \in BOOLEAN
    /\ wpc \in [Workers -> WorkerPCs]
    /\ cur \in [Workers -> Builders \cup {Null, Garbage}]
    /\ deferring \in DeferModes

(***************************************************************************)
(* The mailbox stays bounded: the driver never has more than               *)
(* flushing_maximum_deferred_writes + 1 builders waiting for the workers   *)
(* (builders hold a whole table in memory; the bound prevents OOM).        *)
(***************************************************************************)
MailboxBounded == size <= index + MaxDeferred + 1

(***************************************************************************)
(* Whenever a deferred FlushMemTable returns, whatever the number of       *)
(* tables (none included) and whatever workers of earlier calls still      *)
(* wait, every builder it handed off has been taken from deferred_builds_  *)
(* (none is left for the next call, which clears the vector): the          *)
(* teardown waits for done_, which a worker sets only on an empty mailbox. *)
(***************************************************************************)
DrainedOnReturn == (deferring /\ dpc = "finish") => index >= size

NoSilentTableLoss ==
    (dpc = "finish" /\ status = "ok") =>
        metas = [i \in 1 .. ntables |-> <<flush, i>>]

(***************************************************************************)
(* Without deferred writes, a FlushMemTable that returns OK has written    *)
(* every table of the memtable, whatever Flush() returned for each: the    *)
(* inline path (lines 133-144, 196, 205) turns a failed write into the     *)
(* returned Status.                                                        *)
(***************************************************************************)
InlineNoSilentTableLoss == ~deferring => NoSilentTableLoss
=============================================================================
