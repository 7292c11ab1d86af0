----------------------- MODULE CircularBuffer_proofs -----------------------
(***************************************************************************)
(* Proofs about CircularBuffer, for every number of threads, every         *)
(* capacity and every set of payloads.                                     *)
(***************************************************************************)
EXTENDS CircularBuffer, FiniteSetTheorems, SequenceTheorems, TLAPS

(* A thread asleep on a condition is inside the corresponding wait. *)
Sleepers ==
    /\ \A c \in not_empty : pc[c] = "pop_wait"
    /\ \A p \in not_full : pc[p] = "push_wait"

(* What the wait loop has established when the second read of keep_running *)
(* is about to happen.                                                     *)
LoopExit ==
    /\ \A p \in Producers :
           pc[p] = "push_test" => count < BufferCapacity \/ ~ keep_running
    /\ \A c \in Consumers : pc[c] = "pop_test" => count > 0 \/ ~ keep_running

(* A push in progress has its argument. *)
Argument ==
    \A p \in Producers :
        pc[p] \in {"push_lock", "push_while", "push_wait", "push_test",
                   "push_copy"} => payload[p] \in Payloads

(* The handler clears the flag before it takes the mutex. *)
ClearedFirst ==
    \A h \in Handlers :
        pc[h] \in {"sig_lock", "sig_broadcast", "sig_done"} => ~ keep_running

(* The inductive invariant. *)
IInv ==
    /\ TypeOK
    /\ MutualExclusion
    /\ RingConsistent
    /\ Sleepers
    /\ LoopExit
    /\ NoOverrun
    /\ Argument
    /\ ClearedFirst
    /\ ShutdownReleasesAll
-----------------------------------------------------------------------------
(***************************************************************************)
(* Lemmas about the operators of the model.                                *)
(***************************************************************************)

(* Advancing an index of the ring keeps it inside the ring. *)
LEMMA NextSlotType ==
    ASSUME NEW i \in Slots
    PROVE  NextSlot(i) \in Slots
BY SizesAssumption DEF NextSlot, Slots

(* A payload copied into a slot fits, with its terminating NUL. *)
LEMMA CStringFits ==
    ASSUME NEW p \in Payloads
    PROVE  CString(p) \in Strings
<1>1. p.len \in Nat \ {0} /\ p.text \in 0 .. p.len
  BY PayloadsAssumption
<1>2. Smaller(p.len, MaxPayloadSize - 1) \in 0 .. MaxPayloadSize - 1
  BY <1>1, SizesAssumption DEF Smaller
<1>3. Smaller(p.text, Smaller(p.len, MaxPayloadSize - 1))
          \in 0 .. MaxPayloadSize - 1
  BY <1>1, <1>2, SizesAssumption DEF Smaller
<1> QED
  BY <1>3 DEF CString, Strings

(* The write index stays count slots past the read index when an element   *)
(* is added: both sides advance by one.                                    *)
LEMMA RingAfterPush ==
    ASSUME NEW t \in Slots, NEW n \in 0 .. BufferCapacity - 1
    PROVE  NextSlot((t + n) % BufferCapacity) = (t + (n + 1)) % BufferCapacity
BY SizesAssumption DEF NextSlot, Slots

(* Removing an element advances the read index and leaves the sum alone. *)
LEMMA RingAfterPop ==
    ASSUME NEW t \in Slots, NEW n \in 1 .. BufferCapacity
    PROVE  (t + n) % BufferCapacity = (NextSlot(t) + (n - 1)) % BufferCapacity
BY SizesAssumption DEF NextSlot, Slots
-----------------------------------------------------------------------------
(***************************************************************************)
(* The inductive invariant holds initially, and every action preserves it. *)
(***************************************************************************)
LEMMA ZeroedIInv == Zeroed /\ keep_running \in BOOLEAN => IInv
<1> SUFFICES ASSUME Zeroed, keep_running \in BOOLEAN PROVE IInv
  OBVIOUS
<1> USE ThreadsAssumption, SizesAssumption DEF Zeroed
<1>1. EmptyString \in Strings
  BY DEF EmptyString, Strings
<1>2. TypeOK
  BY <1>1 DEF TypeOK, Slots, Threads, ProducerLabels, ConsumerLabels,
              MonitorLabels, HandlerLabels
<1>3. MutualExclusion
  BY DEF MutualExclusion, HoldsMutex, Threads
<1>4. RingConsistent
  BY DEF RingConsistent
<1>5. Sleepers /\ LoopExit /\ NoOverrun /\ Argument /\ ClearedFirst
        /\ ShutdownReleasesAll
  BY DEF Sleepers, LoopExit, NoOverrun, Argument, ClearedFirst,
         ShutdownReleasesAll, Threads
<1> QED
  BY <1>2, <1>3, <1>4, <1>5 DEF IInv

LEMMA InitIInv == Init => IInv
BY ZeroedIInv DEF Init

LEMMA ContextCreatedIInv ==
    ASSUME IInv, NEW p \in Producers, ContextCreated(p)
    PROVE  IInv'
<1> USE ThreadsAssumption DEF IInv, TypeOK, Threads, slots, results,
        ContextCreated, Move, Goto
<1>1. TypeOK'
  BY SizesAssumption DEF NoOverrun, Argument, ProducerLabels, ConsumerLabels,
     MonitorLabels, HandlerLabels
<1>2. MutualExclusion'
  BY DEF MutualExclusion, HoldsMutex
<1>3. RingConsistent'
  BY DEF RingConsistent
<1>4. Sleepers' /\ Argument' /\ ClearedFirst'
  BY DEF Sleepers, Argument, ClearedFirst
<1>5. LoopExit' /\ NoOverrun'
  BY SizesAssumption DEF LoopExit, NoOverrun, MutualExclusion, HoldsMutex
<1>6. ShutdownReleasesAll'
  BY DEF ShutdownReleasesAll, ClearedFirst
<1> QED
  BY <1>1, <1>2, <1>3, <1>4, <1>5, <1>6

LEMMA ContextFailedIInv ==
    ASSUME IInv, NEW p \in Producers, ContextFailed(p)
    PROVE  IInv'
<1> USE ThreadsAssumption DEF IInv, TypeOK, Threads, slots, results,
        ContextFailed, Goto
<1>1. TypeOK'
  BY SizesAssumption DEF NoOverrun, Argument, ProducerLabels, ConsumerLabels,
     MonitorLabels, HandlerLabels
<1>2. MutualExclusion'
  BY DEF MutualExclusion, HoldsMutex
<1>3. RingConsistent'
  BY DEF RingConsistent
<1>4. Sleepers' /\ Argument' /\ ClearedFirst'
  BY DEF Sleepers, Argument, ClearedFirst
<1>5. LoopExit' /\ NoOverrun'
  BY SizesAssumption DEF LoopExit, NoOverrun, MutualExclusion, HoldsMutex
<1>6. ShutdownReleasesAll'
  BY DEF ShutdownReleasesAll, ClearedFirst
<1> QED
  BY <1>1, <1>2, <1>3, <1>4, <1>5, <1>6

LEMMA PushCallIInv ==
    ASSUME IInv, NEW p \in Producers, PushCall(p)
    PROVE  IInv'
<1> USE ThreadsAssumption DEF IInv, TypeOK, Threads, slots, results,
        PushCall, Goto
<1>1. TypeOK'
  BY SizesAssumption DEF NoOverrun, Argument, ProducerLabels, ConsumerLabels,
     MonitorLabels, HandlerLabels
<1>2. MutualExclusion'
  BY DEF MutualExclusion, HoldsMutex
<1>3. RingConsistent'
  BY DEF RingConsistent
<1>4. Sleepers' /\ Argument' /\ ClearedFirst'
  BY DEF Sleepers, Argument, ClearedFirst
<1>5. LoopExit' /\ NoOverrun'
  BY SizesAssumption DEF LoopExit, NoOverrun, MutualExclusion, HoldsMutex
<1>6. ShutdownReleasesAll'
  BY DEF ShutdownReleasesAll, ClearedFirst
<1> QED
  BY <1>1, <1>2, <1>3, <1>4, <1>5, <1>6

LEMMA PushLockIInv ==
    ASSUME IInv, NEW p \in Producers, PushLock(p)
    PROVE  IInv'
<1> USE ThreadsAssumption DEF IInv, TypeOK, Threads, slots, results,
        PushLock, Acquire, Goto, Lock
<1>1. TypeOK'
  BY SizesAssumption DEF NoOverrun, Argument, ProducerLabels, ConsumerLabels,
     MonitorLabels, HandlerLabels
<1>2. MutualExclusion'
  BY DEF MutualExclusion, HoldsMutex
<1>3. RingConsistent'
  BY DEF RingConsistent
<1>4. Sleepers' /\ Argument' /\ ClearedFirst'
  BY DEF Sleepers, Argument, ClearedFirst
<1>5. LoopExit' /\ NoOverrun'
  BY SizesAssumption DEF LoopExit, NoOverrun, MutualExclusion, HoldsMutex
<1>6. ShutdownReleasesAll'
  BY DEF ShutdownReleasesAll, ClearedFirst
<1> QED
  BY <1>1, <1>2, <1>3, <1>4, <1>5, <1>6

LEMMA PushWhileIInv ==
    ASSUME IInv, NEW p \in Producers, PushWhile(p)
    PROVE  IInv'
<1> USE ThreadsAssumption DEF IInv, TypeOK, Threads, slots, results,
        PushWhile, Goto, Unlock
<1>1. TypeOK'
  BY SizesAssumption DEF NoOverrun, Argument, ProducerLabels, ConsumerLabels,
     MonitorLabels, HandlerLabels
<1>2. MutualExclusion'
  BY DEF MutualExclusion, HoldsMutex
<1>3. RingConsistent'
  BY DEF RingConsistent
<1>4. Sleepers' /\ Argument' /\ ClearedFirst'
  BY DEF Sleepers, Argument, ClearedFirst
<1>5. LoopExit' /\ NoOverrun'
  BY SizesAssumption DEF LoopExit, NoOverrun, MutualExclusion, HoldsMutex
<1>6. ShutdownReleasesAll'
  BY DEF ShutdownReleasesAll, ClearedFirst
<1> QED
  BY <1>1, <1>2, <1>3, <1>4, <1>5, <1>6

LEMMA PushWakeIInv ==
    ASSUME IInv, NEW p \in Producers, PushWake(p)
    PROVE  IInv'
<1> USE ThreadsAssumption DEF IInv, TypeOK, Threads, slots, results,
        PushWake, Acquire, Goto, Lock
<1>1. TypeOK'
  BY SizesAssumption DEF NoOverrun, Argument, ProducerLabels, ConsumerLabels,
     MonitorLabels, HandlerLabels
<1>2. MutualExclusion'
  BY DEF MutualExclusion, HoldsMutex
<1>3. RingConsistent'
  BY DEF RingConsistent
<1>4. Sleepers' /\ Argument' /\ ClearedFirst'
  BY DEF Sleepers, Argument, ClearedFirst
<1>5. LoopExit' /\ NoOverrun'
  BY SizesAssumption DEF LoopExit, NoOverrun, MutualExclusion, HoldsMutex
<1>6. ShutdownReleasesAll'
  BY DEF ShutdownReleasesAll, ClearedFirst
<1> QED
  BY <1>1, <1>2, <1>3, <1>4, <1>5, <1>6

LEMMA PushTestIInv ==
    ASSUME IInv, NEW p \in Producers, PushTest(p)
    PROVE  IInv'
<1> USE ThreadsAssumption DEF IInv, TypeOK, Threads, slots, results,
        PushTest, Goto, PushReturn, Unlock
<1>1. TypeOK'
  BY SizesAssumption DEF NoOverrun, Argument, ProducerLabels, ConsumerLabels,
     MonitorLabels, HandlerLabels
<1>2. MutualExclusion'
  BY DEF MutualExclusion, HoldsMutex
<1>3. RingConsistent'
  BY DEF RingConsistent
<1>4. Sleepers' /\ Argument' /\ ClearedFirst'
  BY DEF Sleepers, Argument, ClearedFirst
<1>5. LoopExit' /\ NoOverrun'
  BY SizesAssumption DEF LoopExit, NoOverrun, MutualExclusion, HoldsMutex
<1>6. ShutdownReleasesAll'
  BY DEF ShutdownReleasesAll, ClearedFirst
<1> QED
  BY <1>1, <1>2, <1>3, <1>4, <1>5, <1>6

LEMMA PushCopyIInv ==
    ASSUME IInv, NEW p \in Producers, PushCopy(p)
    PROVE  IInv'
<1> USE ThreadsAssumption DEF IInv, TypeOK, Threads, slots, results,
        PushCopy, Goto, PushReturn, Unlock, Signal
<1>1. TypeOK'
  BY SizesAssumption, NextSlotType, CStringFits DEF NoOverrun, Argument,
     ProducerLabels, ConsumerLabels, MonitorLabels, HandlerLabels
<1>2. MutualExclusion'
  BY DEF MutualExclusion, HoldsMutex
<1>3. RingConsistent'
  <2>1. count \in 0 .. BufferCapacity - 1
    BY SizesAssumption DEF NoOverrun
  <2>2. NextSlot((tail + count) % BufferCapacity)
            = (tail + (count + 1)) % BufferCapacity
    BY <2>1, RingAfterPush
  <2> QED
    BY <2>2 DEF RingConsistent
<1>4. Sleepers' /\ Argument' /\ ClearedFirst'
  BY DEF Sleepers, Argument, ClearedFirst
<1>5. LoopExit' /\ NoOverrun'
  BY SizesAssumption DEF LoopExit, NoOverrun, MutualExclusion, HoldsMutex
<1>6. ShutdownReleasesAll'
  BY DEF ShutdownReleasesAll, ClearedFirst
<1> QED
  BY <1>1, <1>2, <1>3, <1>4, <1>5, <1>6

LEMMA PopCallIInv ==
    ASSUME IInv, NEW c \in Consumers, PopCall(c)
    PROVE  IInv'
<1> USE ThreadsAssumption DEF IInv, TypeOK, Threads, slots, results,
        PopCall, Move, Goto
<1>1. TypeOK'
  BY SizesAssumption DEF NoOverrun, Argument, ProducerLabels, ConsumerLabels,
     MonitorLabels, HandlerLabels
<1>2. MutualExclusion'
  BY DEF MutualExclusion, HoldsMutex
<1>3. RingConsistent'
  BY DEF RingConsistent
<1>4. Sleepers' /\ Argument' /\ ClearedFirst'
  BY DEF Sleepers, Argument, ClearedFirst
<1>5. LoopExit' /\ NoOverrun'
  BY SizesAssumption DEF LoopExit, NoOverrun, MutualExclusion, HoldsMutex
<1>6. ShutdownReleasesAll'
  BY DEF ShutdownReleasesAll, ClearedFirst
<1> QED
  BY <1>1, <1>2, <1>3, <1>4, <1>5, <1>6

LEMMA PopLockIInv ==
    ASSUME IInv, NEW c \in Consumers, PopLock(c)
    PROVE  IInv'
<1> USE ThreadsAssumption DEF IInv, TypeOK, Threads, slots, results,
        PopLock, Acquire, Goto, Lock
<1>1. TypeOK'
  BY SizesAssumption DEF NoOverrun, Argument, ProducerLabels, ConsumerLabels,
     MonitorLabels, HandlerLabels
<1>2. MutualExclusion'
  BY DEF MutualExclusion, HoldsMutex
<1>3. RingConsistent'
  BY DEF RingConsistent
<1>4. Sleepers' /\ Argument' /\ ClearedFirst'
  BY DEF Sleepers, Argument, ClearedFirst
<1>5. LoopExit' /\ NoOverrun'
  BY SizesAssumption DEF LoopExit, NoOverrun, MutualExclusion, HoldsMutex
<1>6. ShutdownReleasesAll'
  BY DEF ShutdownReleasesAll, ClearedFirst
<1> QED
  BY <1>1, <1>2, <1>3, <1>4, <1>5, <1>6

LEMMA PopWhileIInv ==
    ASSUME IInv, NEW c \in Consumers, PopWhile(c)
    PROVE  IInv'
<1> USE ThreadsAssumption DEF IInv, TypeOK, Threads, slots, results,
        PopWhile, Goto, Unlock
<1>1. TypeOK'
  BY SizesAssumption DEF NoOverrun, Argument, ProducerLabels, ConsumerLabels,
     MonitorLabels, HandlerLabels
<1>2. MutualExclusion'
  BY DEF MutualExclusion, HoldsMutex
<1>3. RingConsistent'
  BY DEF RingConsistent
<1>4. Sleepers' /\ Argument' /\ ClearedFirst'
  BY DEF Sleepers, Argument, ClearedFirst
<1>5. LoopExit' /\ NoOverrun'
  BY SizesAssumption DEF LoopExit, NoOverrun, MutualExclusion, HoldsMutex
<1>6. ShutdownReleasesAll'
  BY DEF ShutdownReleasesAll, ClearedFirst
<1> QED
  BY <1>1, <1>2, <1>3, <1>4, <1>5, <1>6

LEMMA PopWakeIInv ==
    ASSUME IInv, NEW c \in Consumers, PopWake(c)
    PROVE  IInv'
<1> USE ThreadsAssumption DEF IInv, TypeOK, Threads, slots, results,
        PopWake, Acquire, Goto, Lock
<1>1. TypeOK'
  BY SizesAssumption DEF NoOverrun, Argument, ProducerLabels, ConsumerLabels,
     MonitorLabels, HandlerLabels
<1>2. MutualExclusion'
  BY DEF MutualExclusion, HoldsMutex
<1>3. RingConsistent'
  BY DEF RingConsistent
<1>4. Sleepers' /\ Argument' /\ ClearedFirst'
  BY DEF Sleepers, Argument, ClearedFirst
<1>5. LoopExit' /\ NoOverrun'
  BY SizesAssumption DEF LoopExit, NoOverrun, MutualExclusion, HoldsMutex
<1>6. ShutdownReleasesAll'
  BY DEF ShutdownReleasesAll, ClearedFirst
<1> QED
  BY <1>1, <1>2, <1>3, <1>4, <1>5, <1>6

LEMMA PopTestIInv ==
    ASSUME IInv, NEW c \in Consumers, PopTest(c)
    PROVE  IInv'
<1> USE ThreadsAssumption DEF IInv, TypeOK, Threads, slots, results,
        PopTest, Goto, PopReturn, Unlock
<1>1. TypeOK'
  <2>1. CASE count = 0 /\ ~ keep_running
    BY <2>1 DEF ConsumerLabels
  <2>2. CASE ~ (count = 0 /\ ~ keep_running)
    BY <2>2 DEF ConsumerLabels
  <2> QED
    BY <2>1, <2>2
<1>2. MutualExclusion'
  BY DEF MutualExclusion, HoldsMutex
<1>3. RingConsistent'
  BY DEF RingConsistent
<1>4. Sleepers' /\ Argument' /\ ClearedFirst'
  BY DEF Sleepers, Argument, ClearedFirst
<1>5. LoopExit' /\ NoOverrun'
  BY SizesAssumption DEF LoopExit, NoOverrun, MutualExclusion, HoldsMutex
<1>6. ShutdownReleasesAll'
  BY DEF ShutdownReleasesAll, ClearedFirst
<1> QED
  BY <1>1, <1>2, <1>3, <1>4, <1>5, <1>6

LEMMA PopCopyIInv ==
    ASSUME IInv, NEW c \in Consumers, PopCopy(c)
    PROVE  IInv'
<1> USE ThreadsAssumption DEF IInv, TypeOK, Threads, slots, results,
        PopCopy, Goto, PopReturn, Unlock, Signal
<1>1. TypeOK'
  BY SizesAssumption, NextSlotType DEF NoOverrun, Argument, ProducerLabels,
     ConsumerLabels, MonitorLabels, HandlerLabels
<1>2. MutualExclusion'
  BY DEF MutualExclusion, HoldsMutex
<1>3. RingConsistent'
  BY SizesAssumption, RingAfterPop DEF RingConsistent, NoOverrun
<1>4. Sleepers' /\ Argument' /\ ClearedFirst'
  BY DEF Sleepers, Argument, ClearedFirst
<1>5. LoopExit' /\ NoOverrun'
  BY SizesAssumption DEF LoopExit, NoOverrun, MutualExclusion, HoldsMutex
<1>6. ShutdownReleasesAll'
  BY DEF ShutdownReleasesAll, ClearedFirst
<1> QED
  BY <1>1, <1>2, <1>3, <1>4, <1>5, <1>6

LEMMA PctCallIInv ==
    ASSUME IInv, NEW m \in Monitors, PctCall(m)
    PROVE  IInv'
<1> USE ThreadsAssumption DEF IInv, TypeOK, Threads, slots, results,
        PctCall, Move, Goto
<1>1. TypeOK'
  BY SizesAssumption DEF NoOverrun, Argument, ProducerLabels, ConsumerLabels,
     MonitorLabels, HandlerLabels
<1>2. MutualExclusion'
  BY DEF MutualExclusion, HoldsMutex
<1>3. RingConsistent'
  BY DEF RingConsistent
<1>4. Sleepers' /\ Argument' /\ ClearedFirst'
  BY DEF Sleepers, Argument, ClearedFirst
<1>5. LoopExit' /\ NoOverrun'
  BY SizesAssumption DEF LoopExit, NoOverrun, MutualExclusion, HoldsMutex
<1>6. ShutdownReleasesAll'
  BY DEF ShutdownReleasesAll, ClearedFirst
<1> QED
  BY <1>1, <1>2, <1>3, <1>4, <1>5, <1>6

LEMMA PctLockIInv ==
    ASSUME IInv, NEW m \in Monitors, PctLock(m)
    PROVE  IInv'
<1> USE ThreadsAssumption DEF IInv, TypeOK, Threads, slots, results,
        PctLock, Acquire, Goto, Lock
<1>1. TypeOK'
  BY SizesAssumption DEF NoOverrun, Argument, ProducerLabels, ConsumerLabels,
     MonitorLabels, HandlerLabels
<1>2. MutualExclusion'
  BY DEF MutualExclusion, HoldsMutex
<1>3. RingConsistent'
  BY DEF RingConsistent
<1>4. Sleepers' /\ Argument' /\ ClearedFirst'
  BY DEF Sleepers, Argument, ClearedFirst
<1>5. LoopExit' /\ NoOverrun'
  BY SizesAssumption DEF LoopExit, NoOverrun, MutualExclusion, HoldsMutex
<1>6. ShutdownReleasesAll'
  BY DEF ShutdownReleasesAll, ClearedFirst
<1> QED
  BY <1>1, <1>2, <1>3, <1>4, <1>5, <1>6

LEMMA PctReadIInv ==
    ASSUME IInv, NEW m \in Monitors, PctRead(m)
    PROVE  IInv'
<1> USE ThreadsAssumption DEF IInv, TypeOK, Threads, slots, results,
        PctRead, Goto, Unlock
<1>1. TypeOK'
  BY SizesAssumption DEF NoOverrun, Argument, ProducerLabels, ConsumerLabels,
     MonitorLabels, HandlerLabels
<1>2. MutualExclusion'
  BY DEF MutualExclusion, HoldsMutex
<1>3. RingConsistent'
  BY DEF RingConsistent
<1>4. Sleepers' /\ Argument' /\ ClearedFirst'
  BY DEF Sleepers, Argument, ClearedFirst
<1>5. LoopExit' /\ NoOverrun'
  BY SizesAssumption DEF LoopExit, NoOverrun, MutualExclusion, HoldsMutex
<1>6. ShutdownReleasesAll'
  BY DEF ShutdownReleasesAll, ClearedFirst
<1> QED
  BY <1>1, <1>2, <1>3, <1>4, <1>5, <1>6

LEMMA SigTestIInv ==
    ASSUME IInv, NEW h \in Handlers, SigTest(h)
    PROVE  IInv'
<1> USE ThreadsAssumption DEF IInv, TypeOK, Threads, slots, results,
        SigTest, Move, Goto
<1>1. TypeOK'
  BY SizesAssumption DEF NoOverrun, Argument, ProducerLabels, ConsumerLabels,
     MonitorLabels, HandlerLabels
<1>2. MutualExclusion'
  BY DEF MutualExclusion, HoldsMutex
<1>3. RingConsistent'
  BY DEF RingConsistent
<1>4. Sleepers' /\ Argument' /\ ClearedFirst'
  BY DEF Sleepers, Argument, ClearedFirst
<1>5. LoopExit' /\ NoOverrun'
  BY SizesAssumption DEF LoopExit, NoOverrun, MutualExclusion, HoldsMutex
<1>6. ShutdownReleasesAll'
  BY DEF ShutdownReleasesAll, ClearedFirst
<1> QED
  BY <1>1, <1>2, <1>3, <1>4, <1>5, <1>6

LEMMA SigClearIInv ==
    ASSUME IInv, NEW h \in Handlers, SigClear(h)
    PROVE  IInv'
<1> USE ThreadsAssumption DEF IInv, TypeOK, Threads, slots, results,
        SigClear, Goto
<1>1. TypeOK'
  BY SizesAssumption DEF NoOverrun, Argument, ProducerLabels, ConsumerLabels,
     MonitorLabels, HandlerLabels
<1>2. MutualExclusion'
  BY DEF MutualExclusion, HoldsMutex
<1>3. RingConsistent'
  BY DEF RingConsistent
<1>4. Sleepers' /\ Argument' /\ ClearedFirst'
  BY DEF Sleepers, Argument, ClearedFirst
<1>5. LoopExit' /\ NoOverrun'
  BY SizesAssumption DEF LoopExit, NoOverrun, MutualExclusion, HoldsMutex
<1>6. ShutdownReleasesAll'
  BY DEF ShutdownReleasesAll, ClearedFirst
<1> QED
  BY <1>1, <1>2, <1>3, <1>4, <1>5, <1>6

LEMMA SigLockIInv ==
    ASSUME IInv, NEW h \in Handlers, SigLock(h)
    PROVE  IInv'
<1> USE ThreadsAssumption DEF IInv, TypeOK, Threads, slots, results,
        SigLock, Acquire, Goto, Lock
<1>1. TypeOK'
  BY SizesAssumption DEF NoOverrun, Argument, ProducerLabels, ConsumerLabels,
     MonitorLabels, HandlerLabels
<1>2. MutualExclusion'
  BY DEF MutualExclusion, HoldsMutex
<1>3. RingConsistent'
  BY DEF RingConsistent
<1>4. Sleepers' /\ Argument' /\ ClearedFirst'
  BY DEF Sleepers, Argument, ClearedFirst
<1>5. LoopExit' /\ NoOverrun'
  BY SizesAssumption DEF LoopExit, NoOverrun, MutualExclusion, HoldsMutex
<1>6. ShutdownReleasesAll'
  BY DEF ShutdownReleasesAll, ClearedFirst
<1> QED
  BY <1>1, <1>2, <1>3, <1>4, <1>5, <1>6

LEMMA SigBroadcastIInv ==
    ASSUME IInv, NEW h \in Handlers, SigBroadcast(h)
    PROVE  IInv'
<1> USE ThreadsAssumption DEF IInv, TypeOK, Threads, slots, results,
        SigBroadcast, Goto, Unlock
<1>1. TypeOK'
  BY SizesAssumption DEF NoOverrun, Argument, ProducerLabels, ConsumerLabels,
     MonitorLabels, HandlerLabels
<1>2. MutualExclusion'
  BY DEF MutualExclusion, HoldsMutex
<1>3. RingConsistent'
  BY DEF RingConsistent
<1>4. Sleepers' /\ Argument' /\ ClearedFirst'
  BY DEF Sleepers, Argument, ClearedFirst
<1>5. LoopExit' /\ NoOverrun'
  BY SizesAssumption DEF LoopExit, NoOverrun, MutualExclusion, HoldsMutex
<1>6. ShutdownReleasesAll'
  BY DEF ShutdownReleasesAll, ClearedFirst
<1> QED
  BY <1>1, <1>2, <1>3, <1>4, <1>5, <1>6

LEMMA SpuriousWakeupIInv ==
    ASSUME IInv, SpuriousWakeup
    PROVE  IInv'
<1> USE DEF IInv, TypeOK, slots, results, SpuriousWakeup
<1>1. TypeOK'
  OBVIOUS
<1>2. MutualExclusion' /\ RingConsistent' /\ LoopExit' /\ NoOverrun'
  BY DEF MutualExclusion, HoldsMutex, RingConsistent, LoopExit, NoOverrun
<1>3. Sleepers' /\ Argument' /\ ClearedFirst' /\ ShutdownReleasesAll'
  BY DEF Sleepers, Argument, ClearedFirst, ShutdownReleasesAll
<1> QED
  BY <1>1, <1>2, <1>3

LEMMA StutterIInv ==
    ASSUME IInv, UNCHANGED vars
    PROVE  IInv'
BY DEF vars, slots, results, IInv, TypeOK, MutualExclusion, HoldsMutex,
       RingConsistent, Sleepers, LoopExit, NoOverrun, Argument, ClearedFirst,
       ShutdownReleasesAll

(* Every step of the system preserves the inductive invariant. *)
LEMMA NextIInv ==
    ASSUME IInv, [Next]_vars
    PROVE  IInv'
<1>1. ASSUME NEW p \in Producers, ContextCreated(p) \/ ContextFailed(p)
      PROVE  IInv'
  BY <1>1, ContextCreatedIInv, ContextFailedIInv
<1>2. ASSUME NEW p \in Producers, PushCall(p) \/ PushStep(p)
      PROVE  IInv'
  BY <1>2, PushCallIInv, PushLockIInv, PushWhileIInv, PushWakeIInv,
     PushTestIInv, PushCopyIInv DEF PushStep
<1>3. ASSUME NEW c \in Consumers, PopCall(c) \/ PopStep(c)
      PROVE  IInv'
  BY <1>3, PopCallIInv, PopLockIInv, PopWhileIInv, PopWakeIInv,
     PopTestIInv, PopCopyIInv DEF PopStep
<1>4. ASSUME NEW m \in Monitors, PctCall(m) \/ PctStep(m)
      PROVE  IInv'
  BY <1>4, PctCallIInv, PctLockIInv, PctReadIInv DEF PctStep
<1>5. ASSUME NEW h \in Handlers, SigTest(h) \/ SigStep(h)
      PROVE  IInv'
  BY <1>5, SigTestIInv, SigClearIInv, SigLockIInv, SigBroadcastIInv
     DEF SigStep
<1>6. CASE SpuriousWakeup
  BY <1>6, SpuriousWakeupIInv
<1>7. CASE UNCHANGED vars
  BY <1>7, StutterIInv
<1> QED
  BY <1>1, <1>2, <1>3, <1>4, <1>5, <1>6, <1>7 DEF Next
-----------------------------------------------------------------------------
(* The inductive invariant holds in every reachable state. *)
THEOREM Invariance == Spec => []IInv
BY InitIInv, NextIInv, PTL DEF Spec

(* Indices, count and strings keep their types: no index leaves the array, *)
(* count neither underflows nor exceeds BUFFER_CAPACITY, and every string  *)
(* fits in MAX_PAYLOAD_SIZE bytes with its terminating NUL.                *)
THEOREM TypeCorrect == Spec => []TypeOK
<1>1. IInv => TypeOK
  BY DEF IInv
<1> QED
  BY <1>1, Invariance, PTL

(* At most one thread, the signal handler included, is ever in a critical  *)
(* section of the buffer, and it is the holder of the mutex.               *)
THEOREM MutexSafe == Spec => []MutualExclusion
<1>1. IInv => MutualExclusion
  BY DEF IInv
<1> QED
  BY <1>1, Invariance, PTL

(* head, tail and count never disagree. *)
THEOREM RingSafe == Spec => []RingConsistent
<1>1. IInv => RingConsistent
  BY DEF IInv
<1> QED
  BY <1>1, Invariance, PTL

(* No producer copies into a full ring, no consumer out of an empty one,   *)
(* whenever the flag is cleared and whoever barges in.                     *)
THEOREM NeverOverruns == Spec => []NoOverrun
<1>1. IInv => NoOverrun
  BY DEF IInv
<1> QED
  BY <1>1, Invariance, PTL

(* After the handler's broadcast nobody sleeps on a condition again. *)
THEOREM ShutdownWakesEveryone == Spec => []ShutdownReleasesAll
<1>1. IInv => ShutdownReleasesAll
  BY DEF IInv
<1> QED
  BY <1>1, Invariance, PTL
-----------------------------------------------------------------------------
(***************************************************************************)
(* No wakeup is lost.  The two halves of NoLostWakeup are inductive        *)
(* relative to the invariant above: a step either leaves the ring alone    *)
(* and takes no thread out of the awake ones, or changes both sides of the *)
(* inequality together.                                                    *)
(***************************************************************************)
ConsumersAwake ==
    not_empty # {} => count <= Cardinality(AwakeConsumers)

ProducersAwake ==
    not_full # {} /\ keep_running =>
        BufferCapacity - count <= Cardinality(AwakeProducers)

(* What most steps do, for the consumers and for the producers. *)
ConsumersUndisturbed ==
    /\ count' = count
    /\ not_empty' \subseteq not_empty
    /\ AwakeConsumers \subseteq AwakeConsumers'

ProducersUndisturbed ==
    /\ count' = count
    /\ not_full' \subseteq not_full
    /\ keep_running' => keep_running
    /\ AwakeProducers \subseteq AwakeProducers'

LEMMA AwakeFinite ==
    /\ IsFiniteSet(AwakeConsumers) /\ Cardinality(AwakeConsumers) \in Nat
    /\ IsFiniteSet(AwakeProducers) /\ Cardinality(AwakeProducers) \in Nat
    /\ IsFiniteSet(AwakeConsumers') /\ Cardinality(AwakeConsumers') \in Nat
    /\ IsFiniteSet(AwakeProducers') /\ Cardinality(AwakeProducers') \in Nat
<1>1. /\ AwakeConsumers \subseteq Consumers
      /\ AwakeConsumers' \subseteq Consumers
      /\ AwakeProducers \subseteq Producers
      /\ AwakeProducers' \subseteq Producers
  BY DEF AwakeConsumers, AwakeProducers
<1>2. IsFiniteSet(Consumers) /\ IsFiniteSet(Producers)
  BY ThreadsAssumption
<1> QED
  BY <1>1, <1>2, FS_Subset, FS_CardinalityType

LEMMA UndisturbedConsumers ==
    ASSUME TypeOK, ConsumersAwake, ConsumersUndisturbed
    PROVE  ConsumersAwake'
<1>1. Cardinality(AwakeConsumers) <= Cardinality(AwakeConsumers')
  BY AwakeFinite, FS_Subset DEF ConsumersUndisturbed
<1> QED
  BY <1>1, AwakeFinite DEF ConsumersAwake, ConsumersUndisturbed, TypeOK

LEMMA UndisturbedProducers ==
    ASSUME TypeOK, ProducersAwake, ProducersUndisturbed
    PROVE  ProducersAwake'
<1>1. Cardinality(AwakeProducers) <= Cardinality(AwakeProducers')
  BY AwakeFinite, FS_Subset DEF ProducersUndisturbed
<1> QED
  BY <1>1, AwakeFinite, SizesAssumption
     DEF ProducersAwake, ProducersUndisturbed, TypeOK
-----------------------------------------------------------------------------
(* A push adds an element and wakes a sleeping consumer, if there is one;  *)
(* the producer leaves the awake ones as it takes up a free slot.          *)
LEMMA PushCopyAwake ==
    ASSUME IInv, ConsumersAwake, ProducersAwake,
           NEW p \in Producers, PushCopy(p)
    PROVE  ConsumersAwake' /\ ProducersAwake'
<1> USE DEF IInv, TypeOK
<1>1. /\ count' = count + 1
      /\ Signal(not_empty, not_empty')
      /\ UNCHANGED <<not_full, keep_running>>
      /\ pc[p] = "push_copy"
      /\ pc' = [pc EXCEPT ![p] = "idle"]
  BY DEF PushCopy, PushReturn, Goto
<1>2. ASSUME not_empty' # {} PROVE count' <= Cardinality(AwakeConsumers')
  <2>1. PICK c \in not_empty : not_empty' = not_empty \ {c}
    BY <1>1, <1>2 DEF Signal
  <2>2. c \in Consumers /\ pc[c] = "pop_wait" /\ pc'[c] = "pop_wait"
    BY <1>1, <2>1, ThreadsAssumption DEF Sleepers, Threads
  <2>3. \A d \in Consumers : pc'[d] = pc[d]
    BY <1>1, ThreadsAssumption DEF Threads
  <2>4. c \notin AwakeConsumers /\ AwakeConsumers' = AwakeConsumers \cup {c}
    BY <2>1, <2>2, <2>3 DEF AwakeConsumers
  <2>5. Cardinality(AwakeConsumers') = Cardinality(AwakeConsumers) + 1
    BY <2>4, AwakeFinite, FS_AddElement
  <2>6. count <= Cardinality(AwakeConsumers)
    BY <2>1 DEF ConsumersAwake
  <2> QED
    BY <1>1, <2>5, <2>6, AwakeFinite
<1>3. ASSUME not_full' # {}, keep_running'
      PROVE  BufferCapacity - count' <= Cardinality(AwakeProducers')
  <2>1. p \in AwakeProducers /\ AwakeProducers' = AwakeProducers \ {p}
    BY <1>1 DEF AwakeProducers, Threads
  <2>2. Cardinality(AwakeProducers') = Cardinality(AwakeProducers) - 1
    BY <2>1, AwakeFinite, FS_RemoveElement
  <2>3. BufferCapacity - count <= Cardinality(AwakeProducers)
    BY <1>1, <1>3 DEF ProducersAwake
  <2> QED
    BY <1>1, <2>2, <2>3, AwakeFinite, SizesAssumption
<1> QED
  BY <1>2, <1>3 DEF ConsumersAwake, ProducersAwake

(* A pop is the mirror image of a push. *)
LEMMA PopCopyAwake ==
    ASSUME IInv, ConsumersAwake, ProducersAwake,
           NEW c \in Consumers, PopCopy(c)
    PROVE  ConsumersAwake' /\ ProducersAwake'
<1> USE DEF IInv, TypeOK
<1>1. /\ count' = count - 1
      /\ Signal(not_full, not_full')
      /\ UNCHANGED <<not_empty, keep_running>>
      /\ pc[c] = "pop_copy"
      /\ pc' = [pc EXCEPT ![c] = "idle"]
  BY DEF PopCopy, PopReturn, Goto
<1>2. ASSUME not_empty' # {} PROVE count' <= Cardinality(AwakeConsumers')
  <2>1. c \in AwakeConsumers /\ AwakeConsumers' = AwakeConsumers \ {c}
    BY <1>1 DEF AwakeConsumers, Threads
  <2>2. Cardinality(AwakeConsumers') = Cardinality(AwakeConsumers) - 1
    BY <2>1, AwakeFinite, FS_RemoveElement
  <2>3. count <= Cardinality(AwakeConsumers)
    BY <1>1, <1>2 DEF ConsumersAwake
  <2> QED
    BY <1>1, <2>2, <2>3, AwakeFinite
<1>3. ASSUME not_full' # {}, keep_running'
      PROVE  BufferCapacity - count' <= Cardinality(AwakeProducers')
  <2>1. PICK p \in not_full : not_full' = not_full \ {p}
    BY <1>1, <1>3 DEF Signal
  <2>2. p \in Producers /\ pc[p] = "push_wait" /\ pc'[p] = "push_wait"
    BY <1>1, <2>1, ThreadsAssumption DEF Sleepers, Threads
  <2>3. \A d \in Producers : pc'[d] = pc[d]
    BY <1>1, ThreadsAssumption DEF Threads
  <2>4. p \notin AwakeProducers /\ AwakeProducers' = AwakeProducers \cup {p}
    BY <2>1, <2>2, <2>3 DEF AwakeProducers
  <2>5. Cardinality(AwakeProducers') = Cardinality(AwakeProducers) + 1
    BY <2>4, AwakeFinite, FS_AddElement
  <2>6. BufferCapacity - count <= Cardinality(AwakeProducers)
    BY <1>1, <1>3, <2>1 DEF ProducersAwake
  <2> QED
    BY <1>1, <2>5, <2>6, AwakeFinite, SizesAssumption
<1> QED
  BY <1>2, <1>3 DEF ConsumersAwake, ProducersAwake
-----------------------------------------------------------------------------
(* A consumer leaves the awake ones only when the ring is empty: by        *)
(* falling asleep, or by giving up.                                        *)
LEMMA PopStepAwake ==
    ASSUME IInv, ConsumersAwake, ProducersAwake,
           NEW c \in Consumers,
           PopLock(c) \/ PopWhile(c) \/ PopWake(c) \/ PopTest(c)
    PROVE  ConsumersAwake' /\ ProducersAwake'
<1> USE DEF IInv, TypeOK, Acquire
<1>1. /\ UNCHANGED <<count, not_full, keep_running>>
      /\ \A p \in Producers : pc'[p] = pc[p]
  BY ThreadsAssumption
     DEF PopLock, PopWhile, PopWake, PopTest, PopReturn, Goto, Threads, slots
<1>2. ProducersAwake'
  <2>1. AwakeProducers' = AwakeProducers
    BY <1>1 DEF AwakeProducers
  <2> QED
    BY <1>1, <2>1, UndisturbedProducers DEF ProducersUndisturbed
<1>3. CASE count = 0
  BY <1>1, <1>2, <1>3, AwakeFinite DEF ConsumersAwake
<1>4. CASE count # 0
  <2>1. not_empty' = not_empty
    BY <1>4 DEF PopLock, PopWhile, PopWake, PopTest
  <2>2. AwakeConsumers \subseteq AwakeConsumers'
    BY <1>4, <2>1 DEF AwakeConsumers, PopLock, PopWhile, PopWake, PopTest,
                      Goto, Threads
  <2> QED
    BY <1>1, <1>2, <2>1, <2>2, UndisturbedConsumers DEF ConsumersUndisturbed
<1> QED
  BY <1>2, <1>3, <1>4

(* A producer leaves the awake ones when the ring is full, or when the     *)
(* system is stopping.                                                     *)
LEMMA PushStepAwake ==
    ASSUME IInv, ConsumersAwake, ProducersAwake,
           NEW p \in Producers,
           PushLock(p) \/ PushWhile(p) \/ PushWake(p) \/ PushTest(p)
    PROVE  ConsumersAwake' /\ ProducersAwake'
<1> USE DEF IInv, TypeOK, Acquire
<1>1. /\ UNCHANGED <<count, not_empty, keep_running>>
      /\ \A c \in Consumers : pc'[c] = pc[c]
  BY ThreadsAssumption
     DEF PushLock, PushWhile, PushWake, PushTest, PushReturn, Goto, Threads,
         slots
<1>2. ConsumersAwake'
  <2>1. AwakeConsumers' = AwakeConsumers
    BY <1>1 DEF AwakeConsumers
  <2> QED
    BY <1>1, <2>1, UndisturbedConsumers DEF ConsumersUndisturbed
<1>3. CASE ~ keep_running
  BY <1>1, <1>2, <1>3 DEF ProducersAwake
<1>4. CASE count = BufferCapacity
  <2>1. BufferCapacity - count' <= Cardinality(AwakeProducers')
    BY <1>1, <1>4, AwakeFinite, SizesAssumption
  <2> QED
    BY <1>2, <2>1 DEF ProducersAwake
<1>5. CASE keep_running /\ count # BufferCapacity
  <2>1. not_full' = not_full
    BY <1>5 DEF PushLock, PushWhile, PushWake, PushTest
  <2>2. AwakeProducers \subseteq AwakeProducers'
    BY <1>5, <2>1 DEF AwakeProducers, PushLock, PushWhile, PushWake,
                      PushTest, Goto, Threads
  <2> QED
    BY <1>1, <1>2, <2>1, <2>2, UndisturbedProducers DEF ProducersUndisturbed
<1> QED
  BY <1>2, <1>3, <1>4, <1>5

(* The steps by which no producer or consumer moves inside the buffer. *)
LEMMA OtherStepAwake ==
    ASSUME IInv, ConsumersAwake, ProducersAwake,
           \/ \E p \in Producers :
                  ContextCreated(p) \/ ContextFailed(p) \/ PushCall(p)
           \/ \E c \in Consumers : PopCall(c)
           \/ \E m \in Monitors : PctCall(m) \/ PctStep(m)
           \/ \E h \in Handlers : SigTest(h) \/ SigStep(h)
           \/ SpuriousWakeup
           \/ UNCHANGED vars
    PROVE  ConsumersAwake' /\ ProducersAwake'
<1> USE DEF IInv, TypeOK, Threads, slots, results, Goto, Move, Acquire
<1>1. ASSUME NEW p \in Producers,
             ContextCreated(p) \/ ContextFailed(p) \/ PushCall(p)
      PROVE  ConsumersUndisturbed /\ ProducersUndisturbed
  BY <1>1, ThreadsAssumption
     DEF ContextCreated, ContextFailed, PushCall, ConsumersUndisturbed,
         ProducersUndisturbed, AwakeConsumers, AwakeProducers
<1>2. ASSUME NEW c \in Consumers, PopCall(c)
      PROVE  ConsumersUndisturbed /\ ProducersUndisturbed
  BY <1>2, ThreadsAssumption
     DEF PopCall, ConsumersUndisturbed, ProducersUndisturbed,
         AwakeConsumers, AwakeProducers
<1>3. ASSUME NEW m \in Monitors, PctCall(m) \/ PctStep(m)
      PROVE  ConsumersUndisturbed /\ ProducersUndisturbed
  BY <1>3, ThreadsAssumption
     DEF PctCall, PctStep, PctLock, PctRead, Lock, Unlock,
         ConsumersUndisturbed, ProducersUndisturbed,
         AwakeConsumers, AwakeProducers
<1>4. ASSUME NEW h \in Handlers, SigTest(h) \/ SigStep(h)
      PROVE  ConsumersUndisturbed /\ ProducersUndisturbed
  BY <1>4, ThreadsAssumption
     DEF SigTest, SigStep, SigClear, SigLock, SigBroadcast, Lock, Unlock,
         ConsumersUndisturbed, ProducersUndisturbed,
         AwakeConsumers, AwakeProducers
<1>5. ASSUME SpuriousWakeup \/ UNCHANGED vars
      PROVE  ConsumersUndisturbed /\ ProducersUndisturbed
  BY <1>5 DEF SpuriousWakeup, vars, ConsumersUndisturbed,
              ProducersUndisturbed, AwakeConsumers, AwakeProducers
<1> QED
  BY <1>1, <1>2, <1>3, <1>4, <1>5, UndisturbedConsumers, UndisturbedProducers
-----------------------------------------------------------------------------
(* However many threads push and pop, and whoever barges in, no wakeup is  *)
(* lost: no consumer sleeps on an element that nobody awake will take, no  *)
(* producer on a slot that nobody awake will fill.                         *)
THEOREM NoWakeupLost == Spec => []NoLostWakeup
<1> DEFINE Awake == IInv /\ ConsumersAwake /\ ProducersAwake
<1>1. Init => Awake
  BY InitIInv DEF Init, Zeroed, ConsumersAwake, ProducersAwake
<1>2. Awake /\ [Next]_vars => Awake'
  <2> SUFFICES ASSUME Awake, [Next]_vars PROVE Awake'
    OBVIOUS
  <2>1. IInv'
    BY NextIInv
  <2>2. ConsumersAwake' /\ ProducersAwake'
    BY PushCopyAwake, PopCopyAwake, PopStepAwake, PushStepAwake,
       OtherStepAwake DEF Next, PushStep, PopStep
  <2> QED
    BY <2>1, <2>2
<1>3. Awake => NoLostWakeup
  BY DEF ConsumersAwake, ProducersAwake, NoLostWakeup
<1> QED
  BY <1>1, <1>2, <1>3, PTL DEF Spec
-----------------------------------------------------------------------------
(***************************************************************************)
(* CircularBuffer implements BoundedQueue: PushCopy is Put, PopCopy is     *)
(* Get, and every other step leaves the abstract queue alone.              *)
(***************************************************************************)
(* Two slots less than a turn of the ring apart are different. *)
LEMMA SlotsDiffer ==
    ASSUME NEW t \in Slots, NEW n \in 0 .. BufferCapacity - 1,
           NEW j \in 0 .. BufferCapacity - 1, j < n
    PROVE  (t + j) % BufferCapacity # (t + n) % BufferCapacity
<1>1. CASE t + n < BufferCapacity
  BY <1>1, SizesAssumption DEF Slots
<1>2. CASE t + n >= BufferCapacity /\ t + j < BufferCapacity
  <2>1. (t + n) % BufferCapacity = t + n - BufferCapacity
    BY <1>2, SizesAssumption DEF Slots
  <2>2. (t + j) % BufferCapacity = t + j
    BY <1>2, SizesAssumption DEF Slots
  <2> QED
    BY <2>1, <2>2, SizesAssumption DEF Slots
<1>3. CASE t + j >= BufferCapacity
  <2>1. (t + n) % BufferCapacity = t + n - BufferCapacity
    BY <1>3, SizesAssumption DEF Slots
  <2>2. (t + j) % BufferCapacity = t + j - BufferCapacity
    BY <1>3, SizesAssumption DEF Slots
  <2> QED
    BY <2>1, <2>2, SizesAssumption DEF Slots
<1> QED
  BY <1>1, <1>2, <1>3, SizesAssumption DEF Slots

(* The slot after the next one, from either index. *)
LEMMA NextTurn ==
    ASSUME NEW t \in Slots, NEW i \in 1 .. BufferCapacity
    PROVE  (NextSlot(t) + i - 1) % BufferCapacity = (t + i) % BufferCapacity
BY SizesAssumption DEF NextSlot, Slots

(* The refinement mapping yields a sequence of strings. *)
ContentsOK ==
    /\ Contents \in Seq(Strings)
    /\ Len(Contents) = count
    /\ \A i \in 1 .. count :
           Contents[i] = data[(tail + i - 1) % BufferCapacity]

LEMMA ContentsType == TypeOK => ContentsOK
<1> SUFFICES ASSUME TypeOK PROVE ContentsOK
  OBVIOUS
<1>1. \A i \in 1 .. count : (tail + i - 1) % BufferCapacity \in Slots
  BY SizesAssumption DEF TypeOK, Slots
<1> QED
  BY <1>1, SizesAssumption DEF Contents, ContentsOK, TypeOK

LEMMA ContentsTypeNext == TypeOK' => ContentsOK'
BY ContentsType, PTL

(* A push puts the string that its payload leaves in the slot. *)
LEMMA PushIsPut ==
    ASSUME IInv, NEW p \in Producers, PushCopy(p)
    PROVE  Queue!Put(CString(payload[p])) /\ CString(payload[p]) \in Strings
<1> DEFINE e == CString(payload[p])
<1> USE DEF ContentsOK
<1>0. TypeOK /\ TypeOK'
  BY PushCopyIInv DEF IInv
<1>1. /\ count \in 0 .. BufferCapacity - 1
      /\ head = (tail + count) % BufferCapacity
      /\ head \in Slots
  BY SizesAssumption DEF IInv, TypeOK, NoOverrun, RingConsistent, PushCopy
<1>2. e \in Strings
  BY CStringFits DEF IInv, Argument, PushCopy
<1>3. /\ count' = count + 1
      /\ tail' = tail
      /\ data' = [data EXCEPT ![head] = e]
      /\ output' = output
  BY DEF PushCopy
<1> HIDE DEF e
<1>4. Len(Contents') = Len(Append(Contents, e))
  BY <1>0, <1>1, <1>2, <1>3, ContentsType, ContentsTypeNext, SizesAssumption,
     AppendProperties
<1>5. ASSUME NEW i \in 1 .. count'
      PROVE  Contents'[i] = Append(Contents, e)[i]
  <2>1. Contents'[i] = data'[(tail + i - 1) % BufferCapacity]
    BY <1>3 DEF Contents
  <2>2. CASE i = count'
    <3>1. (tail + i - 1) % BufferCapacity = head
      BY <1>1, <1>3, <2>2, SizesAssumption DEF Slots
    <3> QED
      BY <1>0, <1>1, <1>2, <1>3, <2>1, <2>2, <3>1, ContentsType DEF TypeOK
  <2>3. CASE i \in 1 .. count
    <3>1. tail \in Slots /\ i - 1 \in 0 .. BufferCapacity - 1 /\ i - 1 < count
      BY <1>0, <1>1, <2>3, SizesAssumption DEF TypeOK
    <3>2. (tail + (i - 1)) % BufferCapacity # head
      BY <1>1, <3>1, SlotsDiffer
    <3>3. (tail + i - 1) % BufferCapacity # head
      BY <3>1, <3>2, SizesAssumption DEF Slots
    <3> QED
      BY <1>0, <1>1, <1>2, <1>3, <2>1, <2>3, <3>3, ContentsType, SizesAssumption
         DEF TypeOK, Slots
  <2>4. i = count' \/ i \in 1 .. count
    BY <1>1, <1>3, SizesAssumption
  <2> QED
    BY <2>2, <2>3, <2>4
<1>6. Contents' = Append(Contents, e)
  <2>1. /\ Contents' \in Seq(Strings) /\ Len(Contents') = count'
        /\ Append(Contents, e) \in Seq(Strings)
    BY <1>0, <1>2, ContentsType, ContentsTypeNext, AppendProperties
  <2> QED
    BY <1>4, <1>5, <2>1, SeqEqual
<1> QED
  BY <1>0, <1>1, <1>2, <1>3, <1>6, ContentsType, SizesAssumption
     DEF Queue!Put, e

(* A pop gets the oldest string. *)
LEMMA PopIsGet ==
    ASSUME IInv, NEW c \in Consumers, PopCopy(c)
    PROVE  Queue!Get(c)
<1> USE DEF ContentsOK
<1>0. TypeOK /\ TypeOK'
  BY PopCopyIInv DEF IInv
<1>1. /\ count \in 1 .. BufferCapacity
      /\ tail \in Slots
  BY SizesAssumption DEF IInv, TypeOK, NoOverrun, PopCopy
<1>2. /\ count' = count - 1
      /\ tail' = NextSlot(tail)
      /\ data' = data
      /\ output' = [output EXCEPT ![c] = data[tail]]
  BY DEF PopCopy
<1>3. Contents # <<>> /\ Head(Contents) = data[tail]
  <2>1. (tail + 1 - 1) % BufferCapacity = tail
    BY <1>1, SizesAssumption DEF Slots
  <2> QED
    BY <1>0, <1>1, <2>1, ContentsType
<1>4. Contents' = Tail(Contents)
  <2>1. /\ Contents \in Seq(Strings) /\ Len(Contents) = count
        /\ Contents' \in Seq(Strings) /\ Len(Contents') = count - 1
    BY <1>0, <1>2, ContentsType, ContentsTypeNext
  <2>2. /\ Tail(Contents) \in Seq(Strings) /\ Len(Tail(Contents)) = count - 1
        /\ \A i \in 1 .. count - 1 : Tail(Contents)[i] = Contents[i + 1]
    BY <1>3, <2>1, HeadTailProperties
  <2>3. ASSUME NEW i \in 1 .. count - 1
        PROVE  Contents'[i] = Contents[i + 1]
    <3>1. (NextSlot(tail) + i - 1) % BufferCapacity = (tail + i) % BufferCapacity
      BY <1>1, NextTurn, SizesAssumption
    <3>2. (tail + i) % BufferCapacity = (tail + (i + 1) - 1) % BufferCapacity
      BY <1>1 DEF Slots
    <3>3. Contents'[i] = data[(NextSlot(tail) + i - 1) % BufferCapacity]
      BY <1>0, <1>2, ContentsTypeNext
    <3>4. Contents[i + 1] = data[(tail + (i + 1) - 1) % BufferCapacity]
      BY <1>0, <1>1, ContentsType
    <3> QED
      BY <3>1, <3>2, <3>3, <3>4
  <2> QED
    BY <2>1, <2>2, <2>3, SeqEqual
<1> QED
  BY <1>2, <1>3, <1>4 DEF Queue!Get

(* Every other step leaves the queue and what was got from it alone. *)
LEMMA OthersStutter ==
    ASSUME UNCHANGED <<tail, count, data, output>>
    PROVE  UNCHANGED <<Contents, output>>
BY DEF Contents

LEMMA OtherSteps ==
    ASSUME IInv, [Next]_vars,
           \A p \in Producers : ~ PushCopy(p),
           \A c \in Consumers : ~ PopCopy(c)
    PROVE  UNCHANGED <<tail, count, data, output>>
<1> USE DEF slots, results, Move, Acquire
<1>1. ASSUME NEW p \in Producers,
             \/ ContextCreated(p) \/ ContextFailed(p) \/ PushCall(p)
             \/ PushLock(p) \/ PushWhile(p) \/ PushWake(p) \/ PushTest(p)
      PROVE  UNCHANGED <<tail, count, data, output>>
  BY <1>1
     DEF ContextCreated, ContextFailed, PushCall, PushLock, PushWhile,
         PushWake, PushTest
<1>2. ASSUME NEW c \in Consumers,
             PopCall(c) \/ PopLock(c) \/ PopWhile(c) \/ PopWake(c) \/ PopTest(c)
      PROVE  UNCHANGED <<tail, count, data, output>>
  BY <1>2 DEF PopCall, PopLock, PopWhile, PopWake, PopTest
<1>3. ASSUME NEW m \in Monitors, PctCall(m) \/ PctStep(m)
      PROVE  UNCHANGED <<tail, count, data, output>>
  BY <1>3 DEF PctCall, PctStep, PctLock, PctRead
<1>4. ASSUME NEW h \in Handlers, SigTest(h) \/ SigStep(h)
      PROVE  UNCHANGED <<tail, count, data, output>>
  BY <1>4 DEF SigTest, SigStep, SigClear, SigLock, SigBroadcast
<1>5. ASSUME SpuriousWakeup \/ UNCHANGED vars
      PROVE  UNCHANGED <<tail, count, data, output>>
  BY <1>5 DEF SpuriousWakeup, vars
<1> QED
  BY <1>1, <1>2, <1>3, <1>4, <1>5 DEF Next, PushStep, PopStep

LEMMA NextRefines ==
    ASSUME IInv, [Next]_vars
    PROVE  [Queue!Next]_<<Contents, output>>
<1>1. ASSUME NEW p \in Producers, PushCopy(p)
      PROVE  Queue!Next
  BY <1>1, PushIsPut DEF Queue!Next
<1>2. ASSUME NEW c \in Consumers, PopCopy(c)
      PROVE  Queue!Next
  BY <1>2, PopIsGet DEF Queue!Next
<1> QED
  BY <1>1, <1>2, OtherSteps, OthersStutter

LEMMA InitRefines == Init => Queue!Init
<1> SUFFICES ASSUME Init PROVE Queue!Init
  OBVIOUS
<1>1. TypeOK /\ count = 0
  BY InitIInv DEF IInv, Init, Zeroed
<1>2. Contents = <<>>
  BY <1>1, ContentsType, EmptySeq, SeqEqual DEF ContentsOK
<1> QED
  BY <1>1, <1>2 DEF Queue!Init, TypeOK

(* The ring buffer implements the bounded FIFO queue: elements come out    *)
(* once each, in the order in which they were put, and none is overwritten *)
(* while it waits.                                                         *)
THEOREM Refinement == Spec => ImplementsBoundedQueue
<1>1. IInv /\ [Next]_vars => [Queue!Next]_<<Contents, output>>
  BY NextRefines
<1>2. Queue!vars = <<Contents, output>>
  BY DEF Queue!vars
<1> QED
  BY <1>1, <1>2, InitRefines, Invariance, PTL
     DEF Spec, ImplementsBoundedQueue, Queue!Spec, Queue!vars
-----------------------------------------------------------------------------
(***************************************************************************)
(* Truncation.                                                             *)
(***************************************************************************)
FromPayload(s) == \E p \in Payloads : IsTextOf(s, p)

(* What memcpy and the NUL leave in a slot is the payload, cut to fit.     *)
LEMMA CStringIsText ==
    ASSUME NEW p \in Payloads
    PROVE  FromPayload(CString(p))
<1>1. p.len \in Nat \ {0} /\ p.text \in 0 .. p.len
  BY PayloadsAssumption
<1>2. IsTextOf(CString(p), p)
  BY <1>1, SizesAssumption DEF IsTextOf, CString, Smaller
<1> QED
  BY <1>2 DEF FromPayload

(* A step that neither puts nor gets makes no pop successful. *)
LEMMA OthersPop ==
    ASSUME IInv, NEW c \in Consumers, ok'[c], ~ ok[c], [Next]_vars
    PROVE  PopCopy(c)
<1> USE ThreadsAssumption
        DEF IInv, TypeOK, slots, results, Move, Acquire, PushReturn, PopReturn
<1>1. ASSUME NEW p \in Producers,
             \/ ContextCreated(p) \/ ContextFailed(p) \/ PushCall(p)
             \/ PushStep(p)
      PROVE  FALSE
  BY <1>1 DEF ContextCreated, ContextFailed, PushCall, PushStep, PushLock,
              PushWhile, PushWake, PushTest, PushCopy
<1>2. ASSUME NEW d \in Consumers,
             PopCall(d) \/ PopLock(d) \/ PopWhile(d) \/ PopWake(d) \/ PopTest(d)
      PROVE  FALSE
  BY <1>2 DEF PopCall, PopLock, PopWhile, PopWake, PopTest
<1>3. ASSUME NEW d \in Consumers, PopCopy(d)
      PROVE  d = c
  BY <1>3 DEF PopCopy
<1>4. ASSUME NEW m \in Monitors, PctCall(m) \/ PctStep(m)
      PROVE  FALSE
  BY <1>4 DEF PctCall, PctStep, PctLock, PctRead
<1>5. ASSUME NEW h \in Handlers, SigTest(h) \/ SigStep(h)
      PROVE  FALSE
  BY <1>5 DEF SigTest, SigStep, SigClear, SigLock, SigBroadcast
<1>6. ~ (SpuriousWakeup \/ UNCHANGED vars)
  BY DEF SpuriousWakeup, vars
<1> QED
  BY <1>1, <1>2, <1>3, <1>4, <1>5, <1>6 DEF Next, PopStep

Texts ==
    /\ \A i \in 1 .. count : FromPayload(Contents[i])
    /\ \A c \in Consumers : ok[c] => FromPayload(output[c])

LEMMA TextsNext ==
    ASSUME IInv, Texts, [Next]_vars
    PROVE  Texts'
<1> USE DEF ContentsOK
<1>0. TypeOK /\ TypeOK'
  BY NextIInv DEF IInv
<1>1. ASSUME NEW p \in Producers, PushCopy(p)
      PROVE  Texts'
  <2> DEFINE e == CString(payload[p])
  <2>1. Contents' = Append(Contents, e) /\ output' = output /\ e \in Strings
    BY <1>1, PushIsPut DEF Queue!Put
  <2>2. FromPayload(e)
    BY <1>1, CStringIsText DEF IInv, Argument, PushCopy
  <2> HIDE DEF e
  <2>3. count' = count + 1 /\ count \in Nat
    BY <1>0, <1>1 DEF PushCopy, TypeOK
  <2>4. ASSUME NEW i \in 1 .. count'
        PROVE  Contents'[i] = IF i = count + 1 THEN e ELSE Contents[i]
    BY <1>0, <2>1, <2>3, ContentsType, AppendProperties
  <2>5. \A i \in 1 .. count' : FromPayload(Contents'[i])
    BY <2>2, <2>3, <2>4 DEF Texts
  <2>6. \A c \in Consumers : ok'[c] => ok[c]
    BY <1>0, <1>1, ThreadsAssumption DEF PushCopy, PushReturn, TypeOK
  <2> QED
    BY <2>1, <2>5, <2>6 DEF Texts, FromPayload, IsTextOf
<1>2. ASSUME NEW c \in Consumers, PopCopy(c)
      PROVE  Texts'
  <2>1. /\ Contents # <<>>
        /\ Contents' = Tail(Contents)
        /\ output' = [output EXCEPT ![c] = Head(Contents)]
    BY <1>2, PopIsGet DEF Queue!Get
  <2>2. /\ count' = count - 1 /\ count \in Nat
        /\ Contents \in Seq(Strings) /\ Len(Contents) = count
    BY <1>0, <1>2, ContentsType DEF PopCopy, TypeOK
  <2>3. count > 0 /\ Head(Contents) = Contents[1]
    BY <2>1, <2>2, EmptySeq, HeadTailProperties
  <2>4. \A i \in 1 .. count' : Contents'[i] = Contents[i + 1]
    BY <2>1, <2>2, HeadTailProperties
  <2>5. \A i \in 1 .. count' : FromPayload(Contents'[i])
    BY <2>2, <2>4 DEF Texts
  <2>6. ASSUME NEW d \in Consumers, ok'[d]
        PROVE  FromPayload(output'[d])
    <3>1. CASE d = c
      BY <1>0, <2>1, <2>2, <2>3, <3>1 DEF Texts, TypeOK
    <3>2. CASE d # c
      BY <1>0, <1>2, <2>1, <2>6, <3>2 DEF Texts, TypeOK, PopCopy, PopReturn
    <3> QED
      BY <3>1, <3>2
  <2> QED
    BY <2>5, <2>6 DEF Texts, FromPayload, IsTextOf
<1>3. CASE /\ \A p \in Producers : ~ PushCopy(p)
           /\ \A c \in Consumers : ~ PopCopy(c)
  <2>1. UNCHANGED <<tail, count, data, output>>
    BY <1>3, OtherSteps
  <2>2. UNCHANGED <<Contents, output>>
    BY <2>1, OthersStutter
  <2>3. \A c \in Consumers : ok'[c] => ok[c]
    BY <1>3, OthersPop
  <2> QED
    BY <2>1, <2>2, <2>3 DEF Texts, FromPayload, IsTextOf
<1> QED
  BY <1>1, <1>2, <1>3

(* Whatever the threads do, every string in the ring or popped from it is  *)
(* a whole payload or one cut to fill its slot, with room for the NUL.     *)
THEOREM CutsOnlyToFit == Spec => []CutOnlyToFit
<1>1. Init => Texts
  BY DEF Init, Zeroed, Texts
<1>2. IInv /\ Texts /\ [Next]_vars => Texts'
  BY TextsNext
<1>3. Texts => CutOnlyToFit
  BY DEF Texts, CutOnlyToFit, FromPayload
<1> QED
  BY <1>1, <1>2, <1>3, Invariance, PTL DEF Spec
=============================================================================
