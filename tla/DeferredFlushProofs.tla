-------------------------- MODULE DeferredFlushProofs --------------------------
(***************************************************************************)
(* Proofs of the safety properties of DeferredFlush for every value of the *)
(* constants allowed by DeferredFlushAssumption: the type invariant, the   *)
(* bound on the mailbox, the drained mailbox at every return of a deferred *)
(* flush, and the inline path's status.  They hold whatever the workers of *)
(* earlier calls, left parked by an early return, do.                      *)
(*                                                                         *)
(* None of them is inductive on its own.  IInv adds what the driver and    *)
(* the workers know of each other: how far the mailbox is filled while the *)
(* driver produces, that what a worker reads below size() was written,     *)
(* that done_ is set only by a worker that found the mailbox empty after   *)
(* last_, that a return of a deferred call either saw done_ or handed      *)
(* nothing off, and that without deferred writes no worker runs.           *)
(***************************************************************************)
EXTENDS DeferredFlush, TLAPS

Producing == dpc \in {"produce", "fullwait", "fullwoken"}

(* While the driver produces, the mailbox holds the builders handed off.   *)
SizeTracksNext ==
    /\ size <= next
    /\ (deferring /\ Producing) => size = next - 1

(* Every slot below size() holds a pointer that was stored there.          *)
QueuedWritten == \A i \in 1 .. size : slots[i] # Garbage

(* A worker about to call Flush() holds no invalid pointer.               *)
CurWritten == \A w \in Workers : wpc[w] = "flush" => cur[w] # Garbage

FlushInRange == dpc # "start" => flush <= MaxFlushes

DoneDrained == done => (index >= size /\ last)

LastInTeardown ==
    last => dpc \in {"tdwait", "tdwoken", "tdrewait", "finish", "start"}

(* A deferred call returns after the teardown saw done_, or at the early  *)
(* return, with nothing handed off.                                        *)
FinishDrained == (deferring /\ dpc = "finish") => (done \/ size = 0)

(* Without deferred writes no worker is ever scheduled and the mailbox is *)
(* never used.                                                             *)
InlineIdle ==
    ~deferring => /\ \A w \in Workers : wpc[w] = "idle"
                  /\ size = 0
                  /\ ~last
                  /\ ~done
                  /\ dpc \in {"start", "produce", "finish"}

InlineProduced ==
    (~deferring /\ dpc = "produce") =>
        /\ status = "ok"
        /\ next <= ntables
        /\ metas = [i \in 1 .. next - 1 |-> <<flush, i>>]

IInv ==
    /\ TypeOK
    /\ MailboxBounded
    /\ SizeTracksNext
    /\ QueuedWritten
    /\ CurWritten
    /\ FlushInRange
    /\ DoneDrained
    /\ LastInTeardown
    /\ FinishDrained
    /\ InlineIdle
    /\ InlineProduced
    /\ InlineNoSilentTableLoss

USE DeferredFlushAssumption

(* Appending builder n of flush f to the builders 1 .. n-1 of f.          *)
LEMMA AppendNext ==
    ASSUME NEW f, NEW n \in Nat \ {0}
    PROVE  Append([i \in 1 .. n - 1 |-> <<f, i>>], <<f, n>>)
             = [i \in 1 .. n |-> <<f, i>>]
OBVIOUS

(* new_task_.SignalAll() moves the driver only from a wait to the wake-up *)
(* of the same wait: the phase of FlushMemTable it is in stays the same.  *)
LEMMA WakeDriverPhase ==
    ASSUME dpc \in DriverPCs
    PROVE  /\ WakeDriver \in DriverPCs
           /\ WakeDriver = "finish" <=> dpc = "finish"
           /\ WakeDriver = "start" <=> dpc = "start"
           /\ WakeDriver \in {"produce", "fullwait", "fullwoken"}
                <=> dpc \in {"produce", "fullwait", "fullwoken"}
           /\ WakeDriver \in {"tdwait", "tdwoken", "tdrewait", "finish", "start"}
                <=> dpc \in {"tdwait", "tdwoken", "tdrewait", "finish", "start"}
<1>1. CASE dpc = "fullwait"
  <2>1. WakeDriver = "fullwoken"
    BY <1>1 DEF WakeDriver
  <2>2. QED
    BY <1>1, <2>1 DEF DriverPCs
<1>2. CASE dpc = "tdwait"
  <2>1. WakeDriver = "tdwoken"
    BY <1>2 DEF WakeDriver
  <2>2. QED
    BY <1>2, <2>1 DEF DriverPCs
<1>3. CASE dpc # "fullwait" /\ dpc # "tdwait"
  <2>1. WakeDriver = dpc
    BY <1>3 DEF WakeDriver
  <2>2. QED
    BY <2>1
<1>4. QED
  BY <1>1, <1>2, <1>3

(* SignalAll moves each worker only from its wait to its wake-up.         *)
LEMMA WakeWorkerPhase ==
    ASSUME wpc \in [Workers -> WorkerPCs]
    PROVE  /\ WakeWorker \in [Workers -> WorkerPCs]
           /\ \A w \in Workers :
                 /\ WakeWorker[w] = "flush" <=> wpc[w] = "flush"
                 /\ WakeWorker[w] = "idle" <=> wpc[w] = "idle"
BY DEF WakeWorker, WorkerPCs

\* The inductive invariant holds in the initial state of the deferred flush.
LEMMA InitIInv == Init => IInv
<1> SUFFICES ASSUME Init PROVE IInv
  OBVIOUS
<1>1. TypeOK
  <2>1. slots \in [SlotIds -> Builders \cup {Null, Garbage}]
    BY DEF Init, Garbage
  <2>2. metas \in Seq(Builders)
    BY DEF Init
  <2>3. /\ flush \in 1 .. MaxFlushes + 1
        /\ ntables \in 0 .. MaxTables
        /\ next \in 1 .. MaxTables
        /\ size \in 0 .. MaxTables
        /\ index \in 0 .. IndexCap
    BY DEF Init, IndexCap
  <2>4. wpc \in [Workers -> WorkerPCs] /\ cur \in [Workers -> Builders \cup {Null, Garbage}]
    BY DEF Init, WorkerPCs
  <2>5. QED
    BY <2>1, <2>2, <2>3, <2>4 DEF Init, TypeOK, DriverPCs
<1>2. InlineNoSilentTableLoss
  BY DEF Init, InlineNoSilentTableLoss, NoSilentTableLoss
<1>3. QED
  BY <1>1, <1>2 DEF Init, IInv, MailboxBounded, SizeTracksNext, QueuedWritten,
       CurWritten, FlushInRange, DoneDrained, LastInTeardown, FinishDrained,
       InlineIdle, InlineProduced, Producing, Garbage

(* FlushMemTable's entry resets the mailbox and schedules the call's own  *)
(* worker with deferred writes, and leaves both alone without; an empty   *)
(* memtable returns at once.                                               *)
LEMMA StartIInv == ASSUME IInv, Start PROVE IInv'
<1>0. /\ dpc = "start" /\ flush \in Workers /\ next' = 1 /\ metas' = <<>>
      /\ UNCHANGED <<deferring, flush, slots, cur>>
  BY DEF Start, IInv, TypeOK, Workers
<1>1. PICK n \in 0 .. MaxTables : ntables' = n /\ Entered(n)
  BY DEF Start
<1>2. /\ dpc' \in {"produce", "finish"} /\ status' \in {"ok", "err"}
      /\ (dpc' = "produce" => status' = "ok" /\ n # 0)
  BY <1>1 DEF Entered
<1>3. CASE deferring
  <2>1. /\ size' = 0 /\ index' = 0 /\ last' = FALSE /\ done' = FALSE
        /\ wpc' = [wpc EXCEPT ![flush] = "top"]
    BY <1>3, Zenon DEF Start
  <2>2. TypeOK'
    <3>1. wpc' \in [Workers -> WorkerPCs]
      BY <1>0, <2>1 DEF IInv, TypeOK, WorkerPCs
    <3>2. flush' \in 1 .. MaxFlushes + 1 /\ ntables' \in 0 .. MaxTables
          /\ next' \in 1 .. MaxTables /\ index' \in 0 .. IndexCap
      BY <1>0, <1>1, <2>1 DEF IInv, TypeOK, IndexCap
    <3>3. /\ slots' \in [SlotIds -> Builders \cup {Null, Garbage}]
          /\ cur' \in [Workers -> Builders \cup {Null, Garbage}]
          /\ deferring' \in DeferModes /\ metas' \in Seq(Builders)
      BY <1>0 DEF IInv, TypeOK
    <3>4. dpc' \in DriverPCs /\ status' \in {"ok", "err"}
      BY <1>2 DEF DriverPCs
    <3>6. size' \in 0 .. MaxTables /\ last' \in BOOLEAN /\ done' \in BOOLEAN
      <4>1. size' = 0 /\ last' = FALSE /\ done' = FALSE
        BY <2>1
      <4>2. size' \in 0 .. MaxTables
        BY <4>1
      <4>3. last' \in BOOLEAN /\ done' \in BOOLEAN
        BY <4>1
      <4>4. QED
        BY <4>2, <4>3
    <3>5. QED
      BY <3>1, <3>2, <3>3, <3>4, <3>6 DEF TypeOK
  <2>3. /\ MailboxBounded' /\ SizeTracksNext' /\ QueuedWritten' /\ DoneDrained'
        /\ LastInTeardown' /\ FinishDrained'
    BY <1>0, <2>1 DEF MailboxBounded, SizeTracksNext, QueuedWritten, DoneDrained,
       LastInTeardown, FinishDrained
  <2>4. CurWritten'
    BY <1>0, <2>1 DEF IInv, TypeOK, CurWritten
  <2>5. FlushInRange'
    BY <1>0 DEF IInv, TypeOK, FlushInRange, Workers
  <2>6. InlineIdle' /\ InlineProduced' /\ InlineNoSilentTableLoss'
    BY <1>0, <1>3 DEF InlineIdle, InlineProduced, InlineNoSilentTableLoss
  <2>7. QED
    BY <2>2, <2>3, <2>4, <2>5, <2>6 DEF IInv
<1>4. CASE ~deferring
  <2>1. UNCHANGED <<size, index, last, done, wpc>>
    BY <1>4, Zenon DEF Start
  <2>2. TypeOK'
    BY <1>0, <1>1, <1>2, <2>1 DEF IInv, TypeOK, DriverPCs, Workers
  <2>3. InlineProduced'
    <3>1. [i \in 1 .. next' - 1 |-> <<flush', i>>] = <<>>
      BY <1>0
    <3>2. QED
      BY <1>0, <1>1, <1>2, <1>4, <3>1 DEF InlineProduced
  <2>4. InlineNoSilentTableLoss'
    <3>1. CASE n = 0
      BY <1>1, <3>1 DEF Entered, InlineNoSilentTableLoss, NoSilentTableLoss
    <3>2. CASE n # 0
      BY <1>1, <3>2 DEF Entered, InlineNoSilentTableLoss, NoSilentTableLoss
    <3>3. QED
      BY <3>1, <3>2
  <2>5. QED
    BY <1>0, <1>2, <1>4, <2>1, <2>2, <2>3, <2>4 DEF IInv, TypeOK, MailboxBounded,
       SizeTracksNext, QueuedWritten, CurWritten, FlushInRange, DoneDrained,
       LastInTeardown, FinishDrained, InlineIdle, Workers
<1>5. QED
  BY <1>3, <1>4

(* FlushSSTable with deferred writes: either it waits for room, or it     *)
(* pushes builder next into slot size()+1, which the driver's progress    *)
(* keeps inside the storage, and wakes every parked worker.               *)
LEMMA HandOffIInv == ASSUME IInv, HandOff PROVE IInv'
<1>0. /\ deferring /\ dpc \in {"produce", "fullwoken"}
      /\ UNCHANGED <<deferring, flush, ntables, status, metas, index, last, done, cur>>
  BY DEF HandOff
<1>1. ~last /\ ~done
  BY <1>0 DEF IInv, LastInTeardown, DoneDrained
<1>2. CASE size > index /\ size - index > MaxDeferred
  <2>1. dpc' = "fullwait" /\ UNCHANGED <<next, slots, size, wpc>>
    BY <1>2, Zenon DEF HandOff
  <2>2. TypeOK'
    BY <1>0, <2>1 DEF IInv, TypeOK, DriverPCs
  <2>3. QED
    BY <1>0, <1>1, <2>1, <2>2 DEF IInv, MailboxBounded, SizeTracksNext, Producing,
       QueuedWritten, CurWritten, FlushInRange, DoneDrained, LastInTeardown,
       FinishDrained, InlineIdle, InlineProduced, InlineNoSilentTableLoss
<1>3. CASE ~(size > index /\ size - index > MaxDeferred)
  <2>1. /\ slots' = [slots EXCEPT ![size + 1] = <<flush, next>>]
        /\ size' = size + 1
        /\ wpc' = WakeWorker
        /\ AfterHandOff(TRUE)
    BY <1>3, Zenon DEF HandOff
  <2>2. size = next - 1 /\ flush \in 1 .. MaxFlushes /\ next \in 1 .. MaxTables
    BY <1>0 DEF IInv, SizeTracksNext, Producing, FlushInRange, TypeOK
  <2>3. /\ WakeWorker \in [Workers -> WorkerPCs]
        /\ \A w \in Workers : WakeWorker[w] = "flush" <=> wpc[w] = "flush"
    BY WakeWorkerPhase DEF IInv, TypeOK
  <2>4. \/ next < ntables /\ next' = next + 1 /\ dpc' = "produce"
        \/ ~(next < ntables) /\ next' = next /\ dpc' = "teardown"
    BY <1>0, <2>1 DEF AfterHandOff
  <2>5. TypeOK'
    <3>1. slots' \in [SlotIds -> Builders \cup {Null, Garbage}]
      BY <2>1, <2>2 DEF IInv, TypeOK, SlotIds, Builders
    <3>2. size' \in 0 .. MaxTables /\ next' \in 1 .. MaxTables /\ dpc' \in DriverPCs
      BY <2>1, <2>2, <2>4 DEF IInv, TypeOK, DriverPCs
    <3>3. QED
      BY <1>0, <2>1, <2>3, <3>1, <3>2 DEF IInv, TypeOK
  <2>6. MailboxBounded' /\ SizeTracksNext'
    BY <1>0, <1>3, <2>1, <2>2, <2>4 DEF IInv, TypeOK, MailboxBounded, SizeTracksNext,
       Producing
  <2>7. QueuedWritten'
    <3>1. <<flush, next>> # Garbage
      BY <2>2 DEF Garbage
    <3>2. size + 1 \in SlotIds /\ size \in Nat
      BY <2>2 DEF IInv, TypeOK, SlotIds
    <3>3. ASSUME NEW i \in 1 .. size' PROVE slots'[i] # Garbage
      <4>1. CASE i = size + 1
        BY <2>1, <3>1, <3>2, <4>1 DEF IInv, TypeOK
      <4>2. CASE i # size + 1
        <5>1. i \in 1 .. size /\ i \in SlotIds
          BY <2>1, <3>2, <4>2 DEF IInv, TypeOK, SlotIds
        <5>2. slots'[i] = slots[i]
          BY <2>1, <4>2, <5>1 DEF IInv, TypeOK
        <5>3. QED
          BY <5>1, <5>2 DEF IInv, QueuedWritten
      <4>3. QED
        BY <4>1, <4>2
    <3>4. QED
      BY <3>3 DEF QueuedWritten
  <2>8. CurWritten'
    BY <1>0, <2>1, <2>3 DEF IInv, TypeOK, CurWritten
  <2>9. /\ FlushInRange' /\ DoneDrained' /\ LastInTeardown' /\ FinishDrained'
        /\ InlineIdle' /\ InlineProduced' /\ InlineNoSilentTableLoss'
    BY <1>0, <1>1, <2>2, <2>4 DEF FlushInRange, DoneDrained, LastInTeardown,
       FinishDrained, InlineIdle, InlineProduced, InlineNoSilentTableLoss
  <2>10. QED
    BY <2>5, <2>6, <2>7, <2>8, <2>9 DEF IInv
<1>4. QED
  BY <1>2, <1>3

\* An inline flush of a table, taken when deferred writes are off, keeps the inductive invariant.
LEMMA FlushInlineIInv == ASSUME IInv, FlushInline PROVE IInv'
<1>0. /\ ~deferring /\ dpc = "produce"
      /\ UNCHANGED <<deferring, flush, ntables, slots, size, index, last, done, wpc, cur>>
  BY DEF FlushInline
<1>1. PICK r \in FlushOutcomes :
        /\ metas' = Append(metas, <<flush, next>>)
        /\ status' = IF r = "ok" THEN "ok" ELSE "err"
        /\ AfterHandOff(r = "ok")
  BY DEF FlushInline
<1>2. /\ status = "ok" /\ next <= ntables
      /\ metas = [i \in 1 .. next - 1 |-> <<flush, i>>]
      /\ flush \in 1 .. MaxFlushes /\ next \in 1 .. MaxTables /\ ntables \in 0 .. MaxTables
  BY <1>0 DEF IInv, InlineProduced, FlushInRange, TypeOK
<1>3. metas' = [i \in 1 .. next |-> <<flush, i>>]
  BY <1>1, <1>2, AppendNext
<1>4. \/ r = "ok" /\ next < ntables /\ next' = next + 1 /\ dpc' = "produce" /\ status' = "ok"
      \/ r = "ok" /\ ~(next < ntables) /\ next' = next /\ dpc' = "finish" /\ status' = "ok"
      \/ r # "ok" /\ next' = next /\ dpc' = "finish" /\ status' = "err"
  BY <1>0, <1>1 DEF AfterHandOff
<1>5. TypeOK'
  <2>1. metas' \in Seq(Builders)
    BY <1>2, <1>3 DEF Builders
  <2>2. next' \in 1 .. MaxTables /\ dpc' \in DriverPCs /\ status' \in {"ok", "err"}
    BY <1>2, <1>4 DEF IInv, TypeOK, DriverPCs
  <2>3. QED
    BY <1>0, <2>1, <2>2 DEF IInv, TypeOK
<1>6. InlineProduced' /\ InlineNoSilentTableLoss'
  <2>1. CASE r = "ok" /\ next < ntables
    <3>0. next' = next + 1 /\ dpc' = "produce" /\ status' = "ok"
      BY <1>1, <2>1 DEF AfterHandOff
    <3>1. next' = next + 1 /\ dpc' = "produce" /\ status' = "ok" /\ next' <= ntables'
      BY <1>0, <1>2, <2>1, <3>0
    <3>2. metas' = [i \in 1 .. next' - 1 |-> <<flush', i>>]
      BY <1>0, <1>2, <1>3, <3>1
    <3>3. QED
      BY <1>0, <3>1, <3>2 DEF InlineProduced, InlineNoSilentTableLoss, NoSilentTableLoss
  <2>2. CASE r = "ok" /\ ~(next < ntables)
    <3>0. dpc' = "finish" /\ status' = "ok"
      BY <1>0, <1>1, <2>2 DEF AfterHandOff
    <3>1. dpc' = "finish" /\ status' = "ok" /\ next = ntables
      BY <1>2, <2>2, <3>0
    <3>2. QED
      BY <1>0, <1>3, <3>1 DEF InlineProduced, InlineNoSilentTableLoss, NoSilentTableLoss
  <2>3. CASE r # "ok"
    <3>1. dpc' = "finish" /\ status' = "err"
      BY <1>4, <2>3
    <3>2. QED
      BY <3>1 DEF InlineProduced, InlineNoSilentTableLoss, NoSilentTableLoss
  <2>4. QED
    BY <2>1, <2>2, <2>3
<1>7. dpc' \in {"produce", "finish"} /\ size = 0 /\ ~last /\ ~done
  BY <1>0, <1>4 DEF IInv, InlineIdle
<1>8. /\ MailboxBounded' /\ SizeTracksNext' /\ QueuedWritten' /\ CurWritten'
      /\ FlushInRange' /\ DoneDrained' /\ LastInTeardown' /\ FinishDrained'
  BY <1>0, <1>2, <1>4, <1>7 DEF IInv, MailboxBounded, SizeTracksNext, Producing,
     QueuedWritten, CurWritten, FlushInRange, DoneDrained, LastInTeardown,
     FinishDrained
<1>9. InlineIdle'
  BY <1>0, <1>7 DEF IInv, InlineIdle
<1>10. QED
  BY <1>5, <1>6, <1>8, <1>9 DEF IInv

\* Starting teardown, which sets last_ and signals every worker, keeps the inductive invariant.
LEMMA TeardownIInv == ASSUME IInv, Teardown PROVE IInv'
<1>0. /\ dpc = "teardown" /\ last' = TRUE /\ wpc' = WakeWorker
      /\ dpc' = IF done THEN "finish" ELSE "tdwait"
      /\ UNCHANGED <<deferring, flush, ntables, next, status, metas, slots, size, index,
                     done, cur>>
  BY DEF Teardown
<1>1. deferring
  BY <1>0 DEF IInv, InlineIdle
<1>2. /\ WakeWorker \in [Workers -> WorkerPCs]
      /\ \A w \in Workers : WakeWorker[w] = "flush" <=> wpc[w] = "flush"
  BY WakeWorkerPhase DEF IInv, TypeOK
<1>3. TypeOK'
  BY <1>0, <1>2 DEF IInv, TypeOK, DriverPCs
<1>4. QED
  BY <1>0, <1>1, <1>2, <1>3 DEF IInv, MailboxBounded, SizeTracksNext, Producing,
     QueuedWritten, CurWritten, FlushInRange, DoneDrained, LastInTeardown,
     FinishDrained, InlineIdle, InlineProduced, InlineNoSilentTableLoss

\* The teardown waking from its wait keeps the inductive invariant.
LEMMA TeardownWokenIInv == ASSUME IInv, TeardownWoken PROVE IInv'
<1>1. TypeOK'
  BY DEF IInv, TeardownWoken, TypeOK, DriverPCs
<1>2. QED
  BY <1>1 DEF IInv, TeardownWoken, MailboxBounded, SizeTracksNext, Producing,
     QueuedWritten, CurWritten, FlushInRange, DoneDrained, LastInTeardown,
     FinishDrained, InlineIdle, InlineProduced, InlineNoSilentTableLoss, NoSilentTableLoss

\* The teardown waiting again, without the mutex, keeps the inductive invariant.
LEMMA TeardownRewaitIInv == ASSUME IInv, TeardownRewait PROVE IInv'
<1>1. TypeOK'
  BY DEF IInv, TeardownRewait, TypeOK, DriverPCs
<1>2. QED
  BY <1>1 DEF IInv, TeardownRewait, MailboxBounded, SizeTracksNext, Producing,
     QueuedWritten, CurWritten, FlushInRange, DoneDrained, LastInTeardown,
     FinishDrained, InlineIdle, InlineProduced, InlineNoSilentTableLoss, NoSilentTableLoss

\* The return of FlushMemTable keeps the inductive invariant.
LEMMA FinishIInv == ASSUME IInv, Finish PROVE IInv'
<1>0. /\ dpc = "finish" /\ flush' = flush + 1 /\ dpc' = "start"
      /\ UNCHANGED <<deferring, ntables, next, status, metas, slots, size, index, last,
                     done, wpc, cur>>
  BY DEF Finish
<1>1. TypeOK'
  BY <1>0 DEF IInv, TypeOK, DriverPCs, FlushInRange
<1>2. QED
  BY <1>0, <1>1 DEF IInv, MailboxBounded, SizeTracksNext, Producing,
     QueuedWritten, CurWritten, FlushInRange, DoneDrained, LastInTeardown,
     FinishDrained, InlineIdle, InlineProduced, InlineNoSilentTableLoss, NoSilentTableLoss

(* The phase facts of a SignalAll, for the steps that signal.             *)
LEMMA SignalFacts ==
    ASSUME IInv
    PROVE  /\ WakeDriver \in DriverPCs
           /\ WakeDriver = "finish" <=> dpc = "finish"
           /\ WakeDriver = "start" <=> dpc = "start"
           /\ WakeDriver \in {"produce", "fullwait", "fullwoken"}
                <=> dpc \in {"produce", "fullwait", "fullwoken"}
           /\ WakeDriver \in {"tdwait", "tdwoken", "tdrewait", "finish", "start"}
                <=> dpc \in {"tdwait", "tdwoken", "tdrewait", "finish", "start"}
           /\ WakeWorker \in [Workers -> WorkerPCs]
           /\ \A v \in Workers : WakeWorker[v] = "flush" <=> wpc[v] = "flush"
BY WakeDriverPhase, WakeWorkerPhase DEF IInv, TypeOK

\* A worker's loop head, which takes a builder, parks or exits, keeps the inductive invariant.
LEMMA WorkerTopIInv ==
    ASSUME IInv, NEW w \in Workers, WorkerTop(w)
    PROVE  IInv'
<1>0. /\ wpc[w] = "top"
      /\ UNCHANGED <<deferring, flush, ntables, next, status, metas, slots, size, index, last>>
  BY DEF WorkerTop
<1>1. deferring
  BY <1>0 DEF IInv, InlineIdle
<1>2. CASE index >= size /\ last
  <2>1. /\ done' = TRUE /\ dpc' = WakeDriver
        /\ wpc' = [WakeWorker EXCEPT ![w] = "exited"] /\ UNCHANGED cur
    BY <1>2 DEF WorkerTop
  <2>2. TypeOK'
    BY <1>0, <2>1, SignalFacts DEF IInv, TypeOK, WorkerPCs
  <2>3. CurWritten'
    BY <1>0, <2>1, SignalFacts DEF IInv, TypeOK, CurWritten
  <2>4. /\ MailboxBounded' /\ SizeTracksNext' /\ QueuedWritten' /\ FlushInRange'
        /\ LastInTeardown'
    BY <1>0, <2>1, SignalFacts DEF IInv, MailboxBounded, SizeTracksNext, Producing,
       QueuedWritten, FlushInRange, LastInTeardown
  <2>5. DoneDrained' /\ FinishDrained'
    BY <1>0, <1>2, <2>1 DEF DoneDrained, FinishDrained
  <2>6. InlineIdle' /\ InlineProduced' /\ InlineNoSilentTableLoss'
    BY <1>0, <1>1 DEF InlineIdle, InlineProduced, InlineNoSilentTableLoss
  <2>7. QED
    BY <2>2, <2>3, <2>4, <2>5, <2>6 DEF IInv
<1>3. CASE index >= size /\ ~last
  <2>1. wpc' = [wpc EXCEPT ![w] = "wait"] /\ UNCHANGED <<done, dpc, cur>>
    BY <1>3 DEF WorkerTop
  <2>2. TypeOK'
    BY <1>0, <2>1 DEF IInv, TypeOK, WorkerPCs
  <2>3. CurWritten'
    BY <1>0, <2>1 DEF IInv, TypeOK, CurWritten
  <2>4. QED
    BY <1>0, <1>1, <2>1, <2>2, <2>3 DEF IInv, MailboxBounded, SizeTracksNext, Producing,
       QueuedWritten, FlushInRange, DoneDrained, LastInTeardown, FinishDrained,
       InlineIdle, InlineProduced, InlineNoSilentTableLoss
<1>4. CASE index < size
  <2>1. /\ cur' = [cur EXCEPT ![w] = Slot(index)] /\ wpc' = [wpc EXCEPT ![w] = "flush"]
        /\ UNCHANGED <<done, dpc>>
    <3>1. ~(index >= size)
      BY <1>4 DEF IInv, TypeOK
    <3>2. QED
      BY <3>1 DEF WorkerTop
  <2>2. index + 1 \in 1 .. size /\ index + 1 \in SlotIds
    BY <1>4 DEF IInv, TypeOK, SlotIds
  <2>3. Slot(index) = slots[index + 1] /\ slots[index + 1] # Garbage
        /\ slots[index + 1] \in Builders \cup {Null, Garbage}
    BY <2>2 DEF Slot, IInv, QueuedWritten, TypeOK
  <2>4. TypeOK'
    BY <1>0, <2>1, <2>3 DEF IInv, TypeOK, WorkerPCs
  <2>5. CurWritten'
    BY <1>0, <2>1, <2>3 DEF IInv, TypeOK, CurWritten
  <2>6. QED
    BY <1>0, <1>1, <2>1, <2>4, <2>5 DEF IInv, MailboxBounded, SizeTracksNext, Producing,
       QueuedWritten, FlushInRange, DoneDrained, LastInTeardown, FinishDrained,
       InlineIdle, InlineProduced, InlineNoSilentTableLoss
<1>5. QED
  BY <1>2, <1>3, <1>4 DEF IInv, TypeOK

\* A woken worker's read of the mailbox keeps the inductive invariant.
LEMMA WorkerWokenIInv ==
    ASSUME IInv, NEW w \in Workers, WorkerWoken(w)
    PROVE  IInv'
<1>0. /\ wpc[w] = "woken"
      /\ UNCHANGED <<deferring, dpc, flush, ntables, next, status, metas, slots, size,
                     index, last, done>>
  BY DEF WorkerWoken
<1>1. PICK v \in ReadOutcomes(Slot(index)) :
        /\ cur' = [cur EXCEPT ![w] = v]
        /\ wpc' = [wpc EXCEPT ![w] = IF v = Garbage THEN "crashed" ELSE "flush"]
  BY DEF WorkerWoken
<1>2. v \in Builders \cup {Null, Garbage}
  BY DEF ReadOutcomes, Slot, IInv, TypeOK
<1>3. deferring
  BY <1>0 DEF IInv, InlineIdle
<1>4. TypeOK'
  BY <1>0, <1>1, <1>2 DEF IInv, TypeOK, WorkerPCs
<1>5. CurWritten'
  BY <1>0, <1>1 DEF IInv, TypeOK, CurWritten
<1>6. QED
  BY <1>0, <1>1, <1>3, <1>4, <1>5 DEF IInv, MailboxBounded, SizeTracksNext, Producing,
     QueuedWritten, FlushInRange, DoneDrained, LastInTeardown, FinishDrained,
     InlineIdle, InlineProduced, InlineNoSilentTableLoss

\* A worker's write of the builder it took, and its bookkeeping, keep the inductive invariant.
LEMMA WorkerFlushIInv ==
    ASSUME IInv, NEW w \in Workers, WorkerFlush(w)
    PROVE  IInv'
<1>0. /\ wpc[w] = "flush" /\ index < IndexCap /\ index' = index + 1
      /\ dpc' = WakeDriver /\ wpc' = [WakeWorker EXCEPT ![w] = "top"]
      /\ UNCHANGED <<deferring, flush, ntables, next, status, size, last, done, cur>>
  BY DEF WorkerFlush
<1>1. PICK r \in FlushOutcomes :
        /\ metas' = IF cur[w] # Null /\ r = "ok" THEN Append(metas, cur[w]) ELSE metas
        /\ slots' = IF cur[w] # Null /\ r = "ok" /\ index + 1 \in SlotIds
                    THEN [slots EXCEPT ![index + 1] = Null] ELSE slots
  BY DEF WorkerFlush
<1>2. deferring
  BY <1>0 DEF IInv, InlineIdle
<1>3. cur[w] # Null => cur[w] \in Builders
  BY <1>0 DEF IInv, TypeOK, CurWritten
<1>4. TypeOK'
  <2>1. metas' \in Seq(Builders)
    BY <1>1, <1>3 DEF IInv, TypeOK
  <2>2. slots' \in [SlotIds -> Builders \cup {Null, Garbage}]
    BY <1>1 DEF IInv, TypeOK
  <2>3. index' \in 0 .. IndexCap
    BY <1>0 DEF IInv, TypeOK, IndexCap
  <2>4. QED
    BY <1>0, <2>1, <2>2, <2>3, SignalFacts DEF IInv, TypeOK, WorkerPCs
<1>5. QueuedWritten'
  <2>1. Null # Garbage
    BY DEF Null, Garbage
  <2>2. QED
    BY <1>0, <1>1, <2>1 DEF IInv, TypeOK, QueuedWritten
<1>6. CurWritten'
  BY <1>0, SignalFacts DEF IInv, TypeOK, CurWritten
<1>7. /\ MailboxBounded' /\ SizeTracksNext' /\ FlushInRange' /\ DoneDrained'
      /\ LastInTeardown' /\ FinishDrained'
  BY <1>0, SignalFacts DEF IInv, TypeOK, MailboxBounded, SizeTracksNext, Producing,
     FlushInRange, DoneDrained, LastInTeardown, FinishDrained
<1>8. InlineIdle' /\ InlineProduced' /\ InlineNoSilentTableLoss'
  BY <1>0, <1>2 DEF InlineIdle, InlineProduced, InlineNoSilentTableLoss
<1>9. QED
  BY <1>4, <1>5, <1>6, <1>7, <1>8 DEF IInv

\* A spurious wake-up of the driver or of a parked worker keeps the inductive invariant.
LEMMA SpuriousWakeIInv == ASSUME IInv, SpuriousWake PROVE IInv'
<1>1. CASE /\ dpc \in {"fullwait", "tdwait"}
           /\ dpc' = WakeDriver
           /\ UNCHANGED <<deferring, flush, ntables, next, status, metas, slots, size,
                          index, last, done, wpc, cur>>
  <2>1. TypeOK'
    BY <1>1, SignalFacts DEF IInv, TypeOK
  <2>2. QED
    BY <1>1, <2>1, SignalFacts DEF IInv, MailboxBounded, SizeTracksNext, Producing,
       QueuedWritten, CurWritten, FlushInRange, DoneDrained, LastInTeardown,
       FinishDrained, InlineIdle, InlineProduced, InlineNoSilentTableLoss, NoSilentTableLoss
<1>2. CASE \E w \in Workers :
             /\ wpc[w] = "wait"
             /\ wpc' = [wpc EXCEPT ![w] = "woken"]
             /\ UNCHANGED <<deferring, dpc, flush, ntables, next, status, metas, slots,
                            size, index, last, done, cur>>
  <2>1. PICK w \in Workers :
             /\ wpc[w] = "wait"
             /\ wpc' = [wpc EXCEPT ![w] = "woken"]
             /\ UNCHANGED <<deferring, dpc, flush, ntables, next, status, metas, slots,
                            size, index, last, done, cur>>
    BY <1>2
  <2>2. deferring
    BY <2>1 DEF IInv, InlineIdle
  <2>3. TypeOK' /\ CurWritten'
    BY <2>1 DEF IInv, TypeOK, WorkerPCs, CurWritten
  <2>4. QED
    BY <2>1, <2>2, <2>3 DEF IInv, MailboxBounded, SizeTracksNext, Producing,
       QueuedWritten, FlushInRange, DoneDrained, LastInTeardown,
       FinishDrained, InlineIdle, InlineProduced, InlineNoSilentTableLoss
<1>3. QED
  BY <1>1, <1>2 DEF SpuriousWake

(* A step that leaves every variable alone keeps IInv.                    *)
LEMMA StutterIInv == ASSUME IInv, UNCHANGED vars PROVE IInv'
BY DEF vars, IInv, TypeOK, MailboxBounded, SizeTracksNext, Producing, QueuedWritten,
       CurWritten, FlushInRange, DoneDrained, LastInTeardown, FinishDrained,
       InlineIdle, InlineProduced, InlineNoSilentTableLoss, NoSilentTableLoss

(* IInv is inductive: every step of the driver, of every worker, and      *)
(* every spurious wake-up keeps it.                                       *)
LEMMA NextIInv == IInv /\ [Next]_vars => IInv'
<1> SUFFICES ASSUME IInv, [Next]_vars PROVE IInv'
  OBVIOUS
<1>1. CASE Driver
  BY <1>1, StartIInv, HandOffIInv, FlushInlineIInv, TeardownIInv, TeardownWokenIInv,
     TeardownRewaitIInv, FinishIInv DEF Driver
<1>2. CASE \E w \in Workers : Worker(w)
  <2>1. PICK w \in Workers : Worker(w)
    BY <1>2
  <2>2. QED
    BY <2>1, WorkerTopIInv, WorkerWokenIInv, WorkerFlushIInv DEF Worker
<1>3. CASE SpuriousWake
  BY <1>3, SpuriousWakeIInv
<1>4. CASE UNCHANGED vars
  BY <1>4, StutterIInv
<1>5. QED
  BY <1>1, <1>2, <1>3, <1>4 DEF Next

(* IInv holds in every state of every behaviour of the flush.              *)
THEOREM IInvHolds == Spec => []IInv
<1>1. Init => IInv
  BY InitIInv
<1>2. IInv /\ [Next]_vars => IInv'
  BY NextIInv
<1>3. QED
  BY <1>1, <1>2, PTL DEF Spec

-----------------------------------------------------------------------------
(* The flush thread's and the workers' variables keep their types across   *)
(* every interleaving of FlushMemTable, FlushSSTable and the DeferFlushWrite *)
(* of every scheduled worker, with or without spurious wake-ups: in        *)
(* particular the slot FlushSSTable pushes into lies inside the storage,   *)
(* and a worker about to Flush() holds a pointer or null.                 *)
THEOREM TypeCorrect == Spec => []TypeOK
<1>1. IInv => TypeOK
  BY DEF IInv
<1>2. QED
  BY <1>1, IInvHolds, PTL

(* FlushSSTable's wait for room (tropodb_l0_sstable.cc, lines 118-132)     *)
(* keeps at most flushing_maximum_deferred_writes + 1 builders pending,    *)
(* for every bound, every number of tables and every number of workers.    *)
THEOREM MailboxBoundedHolds == Spec => []MailboxBounded
<1>1. IInv => MailboxBounded
  BY DEF IInv
<1>2. QED
  BY <1>1, IInvHolds, PTL

(* Every return of a deferred FlushMemTable, the early return of an empty  *)
(* memtable included, leaves no handed-off builder in deferred_builds_:    *)
(* the teardown returns only on done_, which a worker sets only with       *)
(* index_ >= size() after last_, and the early return handed nothing off. *)
THEOREM DrainedOnReturnHolds == Spec => []DrainedOnReturn
<1>1. IInv => DrainedOnReturn
  BY DEF IInv, TypeOK, FinishDrained, DoneDrained, DrainedOnReturn
<1>2. QED
  BY <1>1, IInvHolds, PTL

(* Without deferred writes, FlushMemTable returns OK only when the metas   *)
(* it returns are exactly the memtable's tables, in order.                 *)
THEOREM InlineNoSilentTableLossHolds == Spec => []InlineNoSilentTableLoss
<1>1. IInv => InlineNoSilentTableLoss
  BY DEF IInv
<1>2. QED
  BY <1>1, IInvHolds, PTL
====
