-------------------------- MODULE Telemetry_proofs --------------------------
(***************************************************************************)
(* Proofs about Telemetry, for every capacity, every set of payloads and   *)
(* of signals, and any threads on which the handlers run.  What is known   *)
(* of the circular buffer comes from the proofs about CircularBuffer,      *)
(* instantiated with the threads of the process.                           *)
(***************************************************************************)
EXTENDS Telemetry, FiniteSetTheorems, FunctionTheorems, SequenceTheorems, TLAPS

P == INSTANCE CircularBuffer_proofs WITH
         Producers <- {producer},
         Consumers <- {consumer},
         Monitors <- {monitor},
         Handlers <- Signals

(* The assumptions of CircularBuffer hold of the process. *)
LEMMA BufferAssumptions ==
    P!ThreadsAssumption /\ P!SizesAssumption /\ P!PayloadsAssumption
<1>1. P!IsFiniteSet({producer}) /\ P!IsFiniteSet({consumer})
  <2>1. ASSUME NEW t PROVE P!IsFiniteSet({t})
    <3>1. \A x \in {t} : \E n \in 1 .. Len(<<t>>) : <<t>>[n] = x
      OBVIOUS
    <3>2. \E seq \in Seq({t}) :
              \A x \in {t} : \E n \in 1 .. Len(seq) : seq[n] = x
      BY <3>1, <<t>> \in Seq({t})
    <3> QED
      BY <3>2 DEF P!IsFiniteSet
  <2> QED
    BY <2>1
<1>2. P!ThreadsAssumption
  BY <1>1, ThreadsAssumption, Zenon DEF P!Threads, AllThreads, WorkerThreads
<1> QED
  BY <1>2, SizesAssumption, PayloadsAssumption
-----------------------------------------------------------------------------
(***************************************************************************)
(* The buffer inside the process.                                          *)
(***************************************************************************)
BufferStep ==
    \/ CB!ContextCreated(producer) \/ CB!ContextFailed(producer)
    \/ CB!PushCall(producer) \/ CB!PushStep(producer)
    \/ CB!PopCall(consumer) \/ CB!PopStep(consumer)
    \/ CB!PctCall(monitor) \/ CB!PctStep(monitor)
    \/ \E s \in Signals : CB!SigTest(s) \/ CB!SigStep(s)
    \/ CB!SpuriousWakeup
    \/ UNCHANGED buffer_vars

LEMMA SameCopies ==
    /\ CB!PushCopy(producer) <=> P!PushCopy(producer)
    /\ CB!PopCopy(consumer) <=> P!PopCopy(consumer)
BY DEF CB!PushCopy, P!PushCopy, CB!PopCopy, P!PopCopy, CB!PushReturn,
       P!PushReturn, CB!PopReturn, P!PopReturn, CB!CString, P!CString,
       CB!Smaller, P!Smaller, CB!NextSlot, P!NextSlot, CB!Signal, P!Signal,
       CB!Unlock, P!Unlock, CB!Goto, P!Goto

(* Both instances of the buffer take the same steps. *)
LEMMA SameStep == BufferStep => [P!Next]_(P!vars)
<1> USE DEF CB!Goto, P!Goto, CB!Lock, P!Lock, CB!Unlock, P!Unlock, CB!Move,
            P!Move, CB!Acquire, P!Acquire, CB!slots, P!slots, CB!results,
            P!results
<1>1. /\ CB!ContextCreated(producer) => P!ContextCreated(producer)
      /\ CB!ContextFailed(producer) => P!ContextFailed(producer)
      /\ CB!PushCall(producer) => P!PushCall(producer)
  BY DEF CB!ContextCreated, P!ContextCreated, CB!ContextFailed,
         P!ContextFailed, CB!PushCall, P!PushCall
<1>2. CB!PushStep(producer) => P!PushStep(producer)
  BY SameCopies
     DEF CB!PushStep, P!PushStep, CB!PushLock, P!PushLock, CB!PushWhile,
         P!PushWhile, CB!PushWake, P!PushWake, CB!PushTest, P!PushTest,
         CB!PushReturn, P!PushReturn
<1>3. /\ CB!PopCall(consumer) => P!PopCall(consumer)
      /\ CB!PopStep(consumer) => P!PopStep(consumer)
  BY SameCopies
     DEF CB!PopCall, P!PopCall, CB!PopStep, P!PopStep, CB!PopLock, P!PopLock,
         CB!PopWhile, P!PopWhile, CB!PopWake, P!PopWake, CB!PopTest,
         P!PopTest, CB!PopReturn, P!PopReturn
<1>4. /\ CB!PctCall(monitor) => P!PctCall(monitor)
      /\ CB!PctStep(monitor) => P!PctStep(monitor)
  BY DEF CB!PctCall, P!PctCall, CB!PctStep, P!PctStep, CB!PctLock, P!PctLock,
         CB!PctRead, P!PctRead
<1>5. \A s \in Signals : /\ CB!SigTest(s) => P!SigTest(s)
                         /\ CB!SigStep(s) => P!SigStep(s)
  BY DEF CB!SigTest, P!SigTest, CB!SigStep, P!SigStep, CB!SigClear,
         P!SigClear, CB!SigLock, P!SigLock, CB!SigBroadcast, P!SigBroadcast
<1>6. CB!SpuriousWakeup => P!SpuriousWakeup
  BY DEF CB!SpuriousWakeup, P!SpuriousWakeup
<1>7. UNCHANGED buffer_vars => UNCHANGED P!vars
  BY DEF buffer_vars, P!vars
<1> QED
  BY <1>1, <1>2, <1>3, <1>4, <1>5, <1>6, <1>7 DEF BufferStep, P!Next

LEMMA BufferInvariant ==
    ASSUME P!IInv, BufferStep
    PROVE  P!IInv'
BY BufferAssumptions, SameStep, P!NextIInv

LEMMA SameZeroed == CB!Zeroed => P!Zeroed
BY DEF CB!Zeroed, P!Zeroed, CB!Slots, P!Slots, CB!Threads, P!Threads,
       CB!EmptyString, P!EmptyString

LEMMA BufferZeroed == CB!Zeroed /\ keep_running \in BOOLEAN => P!IInv
BY SameZeroed, BufferAssumptions, P!ZeroedIInv

LEMMA BufferZeroedNext ==
    CB!Zeroed' /\ (keep_running \in BOOLEAN)' => P!IInv'
BY BufferZeroed, PTL

LEMMA SameType == P!TypeOK => CB!TypeOK
BY DEF CB!TypeOK, P!TypeOK, CB!Slots, P!Slots, CB!Threads, P!Threads,
       CB!Strings, P!Strings, CB!ProducerLabels, P!ProducerLabels,
       CB!ConsumerLabels, P!ConsumerLabels, CB!MonitorLabels,
       P!MonitorLabels, CB!HandlerLabels, P!HandlerLabels

LEMMA SameContents ==
    /\ CB!Contents = P!Contents /\ CB!Contents' = P!Contents'
    /\ \A p \in Payloads : CB!CString(p) = P!CString(p)
BY DEF CB!Contents, P!Contents, CB!CString, P!CString, CB!Smaller, P!Smaller

(* A push appends its string to the contents, a pop removes the first. *)
LEMMA PushAppends ==
    ASSUME P!IInv, CB!PushCopy(producer)
    PROVE  /\ CB!Contents' = Append(CB!Contents, CB!CString(payload[producer]))
           /\ payload[producer] \in Payloads
           /\ UNCHANGED output
<1>1. P!Queue!Put(P!CString(payload[producer]))
  BY BufferAssumptions, SameCopies, P!PushIsPut
<1>2. payload[producer] \in Payloads
  BY DEF CB!PushCopy, P!IInv, P!Argument
<1> QED
  BY <1>1, <1>2, SameContents DEF P!Queue!Put

LEMMA PopRemoves ==
    ASSUME P!IInv, CB!PopCopy(consumer)
    PROVE  /\ CB!Contents # <<>>
           /\ CB!Contents' = Tail(CB!Contents)
           /\ output' = [output EXCEPT ![consumer] = Head(CB!Contents)]
<1>1. P!Queue!Get(consumer)
  BY BufferAssumptions, SameCopies, P!PopIsGet
<1> QED
  BY <1>1, SameContents DEF P!Queue!Get

LEMMA ContentsSequence ==
    ASSUME P!IInv
    PROVE  /\ CB!Contents \in Seq(P!Strings)
           /\ Len(CB!Contents) = count
           /\ count \in Nat
BY BufferAssumptions, SameContents, P!ContentsType, SizesAssumption
   DEF P!IInv, P!ContentsOK, P!TypeOK
-----------------------------------------------------------------------------
(***************************************************************************)
(* What a step inside the buffer's functions does to the rest.             *)
(***************************************************************************)
PushLabels == {"push_lock", "push_while", "push_wait", "push_test",
               "push_copy"}

PopLabels == {"pop_lock", "pop_while", "pop_wait", "pop_test", "pop_copy"}

PctLabels == {"pct_lock", "pct_read"}

LEMMA PcType ==
    ASSUME P!IInv
    PROVE  /\ DOMAIN pc = WorkerThreads \cup Signals
           /\ DOMAIN ok = {producer, consumer}
           /\ pc[producer] \in PushLabels \cup {"start", "ended", "idle"}
           /\ pc[consumer] \in PopLabels \cup {"idle"}
           /\ pc[monitor] \in PctLabels \cup {"idle"}
           /\ \A s \in Signals : Active(s) \/ pc[s] \in {"idle", "sig_done"}
<1>1. /\ DOMAIN pc = WorkerThreads \cup Signals
      /\ DOMAIN ok = {producer, consumer}
  BY DEF P!IInv, P!TypeOK, P!Threads, WorkerThreads
<1>2. /\ pc[producer] \in P!ProducerLabels
      /\ pc[consumer] \in P!ConsumerLabels
      /\ pc[monitor] \in P!MonitorLabels
      /\ \A s \in Signals : pc[s] \in P!HandlerLabels
  BY DEF P!IInv, P!TypeOK
<1> QED
  BY <1>1, <1>2
     DEF P!ProducerLabels, P!ConsumerLabels, P!MonitorLabels,
         P!HandlerLabels, Active, PushLabels, PopLabels, PctLabels

LEMMA PushEffect ==
    ASSUME P!IInv, CB!PushStep(producer)
    PROVE  /\ pc[producer] \in PushLabels
           /\ \E l \in PushLabels \cup {"idle"} :
                  pc' = [pc EXCEPT ![producer] = l]
           /\ UNCHANGED <<keep_running, output, occupancy>>
           /\ ok'[consumer] = ok[consumer]
           /\ \/ CB!PushCopy(producer)
              \/ pc[producer] # "push_copy" /\ UNCHANGED CB!Contents
<1>1. CASE CB!PushCopy(producer)
  BY <1>1, PcType, ThreadsAssumption
     DEF CB!PushCopy, CB!PushReturn, CB!Goto, PushLabels
<1>2. CASE ~ CB!PushCopy(producer)
  <2>1. /\ pc[producer] \in PushLabels \ {"push_copy"}
        /\ UNCHANGED <<tail, count, data, keep_running, output, occupancy>>
        /\ \E l \in PushLabels \cup {"idle"} :
               pc' = [pc EXCEPT ![producer] = l]
    BY <1>2 DEF CB!PushStep, CB!PushLock, CB!PushWhile, CB!PushWake,
                CB!PushTest, CB!PushReturn, CB!Acquire, CB!Goto, CB!slots,
                CB!results, PushLabels
  <2>2. ok'[consumer] = ok[consumer]
    BY <1>2, PcType, ThreadsAssumption
       DEF CB!PushStep, CB!PushLock, CB!PushWhile, CB!PushWake, CB!PushTest,
           CB!PushReturn, CB!Acquire, CB!results
  <2>3. UNCHANGED CB!Contents
    BY <2>1 DEF CB!Contents
  <2> QED
    BY <2>1, <2>2, <2>3
<1> QED
  BY <1>1, <1>2

LEMMA PopEffect ==
    ASSUME P!IInv, CB!PopStep(consumer)
    PROVE  /\ pc[consumer] \in PopLabels
           /\ \E l \in PopLabels \cup {"idle"} :
                  pc' = [pc EXCEPT ![consumer] = l]
           /\ UNCHANGED <<keep_running, payload, occupancy>>
           /\ \/ CB!PopCopy(consumer) /\ ok'[consumer]
              \/ /\ UNCHANGED <<CB!Contents, output>>
                 /\ pc'[consumer] = "idle" => ~ ok'[consumer]
<1>1. consumer \in DOMAIN pc /\ consumer \in DOMAIN ok
  BY PcType DEF WorkerThreads
<1>2. CASE CB!PopCopy(consumer)
  BY <1>1, <1>2 DEF CB!PopCopy, CB!PopReturn, CB!Goto, PopLabels
<1>3. CASE ~ CB!PopCopy(consumer)
  <2>1. /\ pc[consumer] \in PopLabels
        /\ UNCHANGED <<tail, count, data, keep_running, payload, output,
                       occupancy>>
        /\ \E l \in PopLabels \cup {"idle"} :
               pc' = [pc EXCEPT ![consumer] = l]
    BY <1>3 DEF CB!PopStep, CB!PopLock, CB!PopWhile, CB!PopWake, CB!PopTest,
                CB!PopReturn, CB!Acquire, CB!Goto, CB!slots, CB!results,
                PopLabels
  <2>2. pc'[consumer] = "idle" => ~ ok'[consumer]
    BY <1>1, <1>3 DEF CB!PopStep, CB!PopLock, CB!PopWhile, CB!PopWake,
                      CB!PopTest, CB!PopReturn, CB!Acquire, CB!Goto
  <2>3. UNCHANGED CB!Contents
    BY <2>1 DEF CB!Contents
  <2> QED
    BY <2>1, <2>2, <2>3
<1> QED
  BY <1>2, <1>3

LEMMA PctEffect ==
    ASSUME CB!PctStep(monitor)
    PROVE  /\ pc[monitor] \in PctLabels
           /\ \E l \in PctLabels \cup {"idle"} :
                  pc' = [pc EXCEPT ![monitor] = l]
           /\ UNCHANGED <<keep_running, payload, output, ok, CB!Contents>>
<1>1. /\ pc[monitor] \in PctLabels
      /\ \E l \in PctLabels \cup {"idle"} : pc' = [pc EXCEPT ![monitor] = l]
      /\ UNCHANGED <<tail, count, data, keep_running, payload, output, ok>>
  BY DEF CB!PctStep, CB!PctLock, CB!PctRead, CB!Acquire, CB!Goto, CB!slots,
         CB!results, PctLabels
<1> QED
  BY <1>1 DEF CB!Contents

LEMMA SigEffect ==
    ASSUME NEW s \in Signals, CB!SigStep(s)
    PROVE  /\ Active(s)
           /\ \/ pc[s] = "sig_clear" /\ pc' = [pc EXCEPT ![s] = "sig_lock"]
              \/ pc[s] = "sig_lock" /\ pc' = [pc EXCEPT ![s] = "sig_broadcast"]
              \/ pc[s] = "sig_broadcast" /\ pc' = [pc EXCEPT ![s] = "sig_done"]
           /\ keep_running' = keep_running \/ keep_running' = FALSE
           /\ UNCHANGED <<payload, output, ok, CB!Contents>>
<1>1. /\ \/ pc[s] = "sig_clear" /\ pc' = [pc EXCEPT ![s] = "sig_lock"]
         \/ pc[s] = "sig_lock" /\ pc' = [pc EXCEPT ![s] = "sig_broadcast"]
         \/ pc[s] = "sig_broadcast" /\ pc' = [pc EXCEPT ![s] = "sig_done"]
      /\ keep_running' = keep_running \/ keep_running' = FALSE
      /\ UNCHANGED <<tail, count, data, payload, output, ok>>
  BY DEF CB!SigStep, CB!SigClear, CB!SigLock, CB!SigBroadcast, CB!Acquire,
         CB!Goto, CB!slots, CB!results
<1> QED
  BY <1>1 DEF CB!Contents, Active
-----------------------------------------------------------------------------
(***************************************************************************)
(* Where the threads are.                                                  *)
(***************************************************************************)
PositionTypes ==
    /\ DOMAIN at = AllThreads
    /\ at[main] \in Labels.main
    /\ at[producer] \in Labels.producer
    /\ at[consumer] \in Labels.consumer
    /\ at[monitor] \in Labels.monitor

(* A thread is inside a function of the buffer only where its own code     *)
(* calls one.                                                              *)
Coupled ==
    /\ pc[producer] = "start" <=> at[producer] \in {"absent", "create_context"}
    /\ pc[producer] \in PushLabels => at[producer] = "service"
    /\ pc[producer] = "ended" => at[producer] = "ended"
    /\ pc[consumer] # "idle" => at[consumer] = "popping"
    /\ pc[monitor] # "idle" => at[monitor] = "write"

(* main creates the threads in one order and joins them in the other. *)
Order ==
    /\ at[main] = "init" => CB!Zeroed /\ ~ keep_running
    /\ at[main] \in {"init", "create_monitor"} => at[monitor] = "absent"
    /\ at[main] \in {"init", "create_monitor", "create_consumer"} =>
           at[consumer] = "absent"
    /\ at[main] \in {"init", "create_monitor", "create_consumer",
                     "create_producer"} => at[producer] = "absent"
    /\ at[main] \in {"join_consumer", "join_monitor", "destroy"} =>
           at[producer] = "ended"
    /\ at[main] \in {"join_monitor", "destroy"} => at[consumer] = "ended"
    /\ at[main] = "destroy" => at[monitor] = "ended"

(* The producer and the consumer run as long as the flag is set. *)
EndedStopped ==
    at[producer] = "ended" \/ at[consumer] = "ended" => ~ keep_running

Positions ==
    /\ PositionTypes /\ Coupled /\ Order /\ EndedStopped
    /\ keep_running \in BOOLEAN

LEMMA MainPositions ==
    ASSUME P!IInv, Positions, MainStep \/ CreateFailed
    PROVE  Positions'
<1> USE ThreadsAssumption
    DEF Positions, PositionTypes, Coupled, Order, EndedStopped, AllThreads,
        WorkerThreads, Labels, Running, Alive
<1>1. CASE InitAppState
  BY <1>1 DEF InitAppState, Goto
<1>2. CASE CreateMonitor
  BY <1>2 DEF CreateMonitor, Create, buffer_vars
<1>3. CASE CreateConsumer
  BY <1>3 DEF CreateConsumer, Create, buffer_vars
<1>4. CASE CreateProducer
  BY <1>4 DEF CreateProducer, Create, buffer_vars
<1>5. CASE JoinProducer
  BY <1>5 DEF JoinProducer, Join, Move, Goto, buffer_vars
<1>6. CASE JoinConsumer
  BY <1>6 DEF JoinConsumer, Join, Move, Goto, buffer_vars
<1>7. CASE JoinMonitor
  BY <1>7 DEF JoinMonitor, Join, Move, Goto, buffer_vars
<1>8. CASE Destroy
  BY <1>8 DEF Destroy, Move, Goto, buffer_vars
<1>9. CASE CreateFailed
  BY <1>9 DEF CreateFailed, Move, Goto, buffer_vars
<1> QED
  BY <1>1, <1>2, <1>3, <1>4, <1>5, <1>6, <1>7, <1>8, <1>9 DEF MainStep

LEMMA ProducerPositions ==
    ASSUME P!IInv, Positions, ProducerStep \/ ContextFailed \/ Receive
    PROVE  Positions'
<1> USE ThreadsAssumption
    DEF Positions, PositionTypes, Coupled, Order, EndedStopped, AllThreads,
        WorkerThreads, Labels, Running, Alive, PushLabels
<1>0. /\ producer \in DOMAIN pc /\ producer \in DOMAIN at
      /\ at[main] # "init" \/ at[producer] = "absent"
  BY PcType
<1>1. CASE ContextCreated
  BY <1>0, <1>1 DEF ContextCreated, CB!ContextCreated, CB!Move, CB!Goto, Goto
<1>2. CASE ContextFailed
  <2>1. /\ keep_running' = FALSE
        /\ pc' = [pc EXCEPT ![producer] = "ended"]
        /\ at' = [at EXCEPT ![producer] = "ended"]
        /\ at[producer] = "create_context"
    BY <1>2 DEF ContextFailed, CB!ContextFailed, CB!Goto, Goto
  <2>2. keep_running' \in BOOLEAN /\ ~ keep_running'
    BY <2>1, Zenon
  <2> QED
    BY <1>0, <2>1, <2>2
<1>3. CASE ProducerLoop
  BY <1>0, <1>3 DEF ProducerLoop, Move, Goto, buffer_vars
<1>4. CASE Receive
  BY <1>0, <1>4 DEF Receive, CB!PushCall, CB!Goto
<1>5. CASE Push
  <2>1. PICK l \in PushLabels \cup {"idle"} : pc' = [pc EXCEPT ![producer] = l]
    BY <1>5, PushEffect DEF Push
  <2>2. /\ pc[producer] \in PushLabels
        /\ UNCHANGED <<keep_running, at>>
    BY <1>5, PushEffect DEF Push
  <2> QED
    BY <1>0, <2>1, <2>2
<1>6. CASE ServiceReturns
  BY <1>0, <1>6 DEF ServiceReturns, Move, Goto, buffer_vars
<1> QED
  BY <1>1, <1>2, <1>3, <1>4, <1>5, <1>6 DEF ProducerStep

LEMMA ConsumerPositions ==
    ASSUME P!IInv, Positions, ConsumerStep
    PROVE  Positions'
<1> USE ThreadsAssumption
    DEF Positions, PositionTypes, Coupled, Order, EndedStopped, AllThreads,
        WorkerThreads, Labels, Running, Alive, PopLabels
<1>0. /\ consumer \in DOMAIN pc /\ consumer \in DOMAIN at
      /\ at[main] # "init" \/ at[consumer] = "absent"
  BY PcType
<1>1. CASE ConsumerLoop
  <2>1. /\ at[consumer] = "loop"
        /\ UNCHANGED keep_running
        /\ \/ /\ pc' = [pc EXCEPT ![consumer] = "pop_lock"]
              /\ at' = [at EXCEPT ![consumer] = "popping"]
           \/ /\ ~ keep_running
              /\ pc' = pc
              /\ at' = [at EXCEPT ![consumer] = "ended"]
    BY <1>1 DEF ConsumerLoop, CB!PopCall, CB!Move, CB!Goto, Goto, buffer_vars
  <2>2. CASE /\ pc' = [pc EXCEPT ![consumer] = "pop_lock"]
             /\ at' = [at EXCEPT ![consumer] = "popping"]
    BY <1>0, <2>1, <2>2
  <2>3. CASE ~ keep_running /\ pc' = pc
             /\ at' = [at EXCEPT ![consumer] = "ended"]
    BY <1>0, <2>1, <2>3
  <2> QED
    BY <2>1, <2>2, <2>3
<1>2. CASE Pop
  <2>1. PICK l \in PopLabels \cup {"idle"} : pc' = [pc EXCEPT ![consumer] = l]
    BY <1>2, PopEffect DEF Pop
  <2>2. /\ pc[consumer] \in PopLabels
        /\ UNCHANGED <<keep_running, at>>
    BY <1>2, PopEffect DEF Pop
  <2> QED
    BY <1>0, <2>1, <2>2
<1>3. CASE PopReturned
  BY <1>0, <1>3 DEF PopReturned, Move, Goto, buffer_vars
<1>4. CASE CountLock
  BY <1>0, <1>4 DEF CountLock, Goto, buffer_vars
<1>5. CASE CountAdd
  BY <1>0, <1>5 DEF CountAdd, Goto, buffer_vars
<1> QED
  BY <1>1, <1>2, <1>3, <1>4, <1>5 DEF ConsumerStep

LEMMA MonitorPositions ==
    ASSUME P!IInv, Positions, MonitorStep \/ LogNotOpened
    PROVE  Positions'
<1> USE ThreadsAssumption
    DEF Positions, PositionTypes, Coupled, Order, EndedStopped, AllThreads,
        WorkerThreads, Labels, Running, Alive, PctLabels
<1>0. /\ monitor \in DOMAIN pc /\ monitor \in DOMAIN at
      /\ at[main] # "init" \/ at[monitor] = "absent"
  BY PcType
<1>1. CASE LogOpened \/ LogNotOpened \/ MonitorLoop
  BY <1>0, <1>1 DEF LogOpened, LogNotOpened, MonitorLoop, Move, Goto,
                    buffer_vars
<1>2. CASE SnapshotLock \/ Snapshot \/ Reset
  BY <1>0, <1>2 DEF SnapshotLock, Snapshot, Reset, Goto, buffer_vars
<1>3. CASE Occupancy
  BY <1>0, <1>3 DEF Occupancy, CB!PctCall, CB!Move, CB!Goto, Goto
<1>4. CASE Pct
  <2>1. PICK l \in PctLabels \cup {"idle"} : pc' = [pc EXCEPT ![monitor] = l]
    BY <1>4, PctEffect DEF Pct
  <2>2. /\ pc[monitor] \in PctLabels
        /\ UNCHANGED <<keep_running, at>>
    BY <1>4, PctEffect DEF Pct
  <2> QED
    BY <1>0, <2>1, <2>2
<1>5. CASE WriteRow
  BY <1>0, <1>5 DEF WriteRow, Goto, buffer_vars
<1> QED
  BY <1>1, <1>2, <1>3, <1>4, <1>5 DEF MonitorStep

LEMMA OtherPositions ==
    ASSUME P!IInv, Positions,
           \/ \E s \in Signals : Deliver(s) \/ DeliverIgnored(s) \/ Handle(s)
           \/ SpuriousWakeup \/ UNCHANGED vars
    PROVE  Positions'
<1> USE ThreadsAssumption
    DEF Positions, PositionTypes, Coupled, Order, EndedStopped, AllThreads,
        WorkerThreads, Running, Alive
<1>1. ASSUME NEW s \in Signals, Deliver(s) PROVE Positions'
  BY <1>1, PcType DEF Deliver, CB!SigTest, CB!Move, CB!Goto
<1>2. ASSUME UNCHANGED <<buffer_vars, at>> PROVE Positions'
  <2>1. CB!Zeroed => CB!Zeroed'
    BY <1>2 DEF buffer_vars, CB!Zeroed
  <2> QED
    BY <1>2, <2>1 DEF buffer_vars
<1>3. ASSUME NEW s \in Signals, Handle(s) PROVE Positions'
  <2>1. at[main] # "init"
    BY <1>3, SigEffect DEF Handle, CB!Zeroed, CB!Threads, Active
  <2>2. /\ at' = at
        /\ UNCHANGED <<pc[producer], pc[consumer], pc[monitor]>>
        /\ keep_running' = keep_running \/ keep_running' = FALSE
    BY <1>3, SigEffect, PcType DEF Handle
  <2>3. keep_running' \in BOOLEAN /\ (keep_running' => keep_running)
    <3>1. CASE keep_running' = keep_running
      BY <3>1
    <3>2. CASE keep_running' = FALSE
      BY <3>2, Zenon
    <3> QED
      BY <2>2, <3>1, <3>2
  <2> QED
    <3>1. PositionTypes' /\ Coupled'
      BY <2>2
    <3>2. Order'
      BY <2>1, <2>2
    <3>3. EndedStopped'
      BY <2>2, <2>3
    <3> QED
      BY <2>3, <3>1, <3>2, <3>3
<1>4. CASE SpuriousWakeup
  <2>1. at[main] # "init"
    BY <1>4 DEF SpuriousWakeup, CB!SpuriousWakeup, CB!Zeroed
  <2> QED
    BY <1>4, <2>1 DEF SpuriousWakeup, CB!SpuriousWakeup
<1> QED
  BY <1>1, <1>2, <1>3, <1>4 DEF DeliverIgnored, vars
-----------------------------------------------------------------------------
(***************************************************************************)
(* Where the signal handlers are.  A handler runs on a thread that is not  *)
(* at its end, or inside another handler, and never, in however many       *)
(* turns, inside itself: among the handlers of any set one has interrupted *)
(* something outside the set.                                              *)
(***************************************************************************)
Interrupting ==
    /\ interrupted \in [Signals -> AllThreads \cup Signals \cup {Nobody}]
    /\ \A s \in Signals : Active(s) <=> interrupted[s] # Nobody
    /\ \A s \in Signals : interrupted[s] \in AllThreads =>
           at[interrupted[s]] \notin {"absent", "ended"}
    /\ \A s \in Signals : interrupted[s] \in Signals => Active(interrupted[s])

Grounded ==
    \A S \in SUBSET Signals :
        S # {} /\ (\A s \in S : Active(s)) => \E s \in S : interrupted[s] \notin S

QuietAtDestroy == at[main] = "destroy" => \A s \in Signals : ~ Active(s)

HandlersOK == Interrupting /\ Grounded /\ QuietAtDestroy

(* Nobody is left to run a handler on when every thread but main has ended *)
(* and main runs.                                                          *)
LEMMA NoHandlerLeft ==
    ASSUME HandlersOK, Running(main),
           \A t \in WorkerThreads : at[t] = "ended"
    PROVE  \A s \in Signals : ~ Active(s)
<1> DEFINE S == {s \in Signals : Active(s)}
<1>1. ASSUME S # {} PROVE FALSE
  <2>1. PICK s \in S : interrupted[s] \notin S
    BY <1>1 DEF HandlersOK, Grounded
  <2>2. interrupted[s] \in AllThreads
    BY <2>1 DEF HandlersOK, Interrupting
  <2>3. interrupted[s] # main
    BY DEF Running
  <2> QED
    BY <2>2, <2>3 DEF HandlersOK, Interrupting, AllThreads
<1> QED
  BY <1>1

(* A thread moves only while no handler has interrupted it. *)
LEMMA ThreadHandlers ==
    ASSUME HandlersOK, UNCHANGED interrupted,
           \A s \in Signals : pc'[s] = pc[s],
           \A t \in AllThreads : \/ at'[t] = at[t]
                                 \/ \A s \in Signals : interrupted[s] # t
                                 \/ at'[t] \notin {"absent", "ended"},
           QuietAtDestroy'
    PROVE  HandlersOK'
<1>1. \A s \in Signals : Active(s)' <=> Active(s)
  BY DEF Active
<1>2. Interrupting'
  BY <1>1 DEF HandlersOK, Interrupting
<1>3. Grounded'
  BY <1>1 DEF HandlersOK, Grounded
<1> QED
  BY <1>2, <1>3 DEF HandlersOK

LEMMA MainHandlers ==
    ASSUME P!IInv, Positions, HandlersOK, MainStep \/ CreateFailed
    PROVE  HandlersOK'
<1> USE DEF Positions, PositionTypes
<1>1. /\ UNCHANGED <<pc, interrupted>>
      /\ Running(main)
      /\ \A t \in AllThreads : \/ at'[t] = at[t]
                               \/ t = main
                               \/ at'[t] \notin {"absent", "ended"}
  BY ThreadsAssumption
     DEF MainStep, CreateFailed, InitAppState, CreateMonitor, CreateConsumer,
         CreateProducer, Create, JoinProducer, JoinConsumer, JoinMonitor,
         Join, Destroy, Move, Goto, buffer_vars, signal_vars
<1>2. QuietAtDestroy'
  <2>1. CASE JoinMonitor
    <3>1. \A t \in WorkerThreads : at[t] = "ended"
      BY <2>1 DEF JoinMonitor, Join, Move, Order, WorkerThreads
    <3>2. \A s \in Signals : ~ Active(s)
      BY <1>1, <3>1, NoHandlerLeft
    <3> QED
      BY <1>1, <3>2 DEF QuietAtDestroy, Active
  <2>2. CASE ~ JoinMonitor
    <3>1. at'[main] # "destroy"
      BY <2>2, ThreadsAssumption
         DEF MainStep, CreateFailed, InitAppState, CreateMonitor,
             CreateConsumer, CreateProducer, Create, JoinProducer,
             JoinConsumer, Join, Destroy, Move, Goto, AllThreads,
             WorkerThreads
    <3> QED
      BY <3>1 DEF QuietAtDestroy
  <2> QED
    BY <2>1, <2>2
<1> QED
  BY <1>1, <1>2, ThreadHandlers DEF Running

(* What the steps of a thread other than main have in common. *)
AloneStep(t) ==
    /\ Running(t)
    /\ \A u \in AllThreads : u # t => at'[u] = at[u]
    /\ \A s \in Signals : pc'[s] = pc[s]
    /\ UNCHANGED <<interrupted, requested>>

LEMMA ProducerAlone ==
    ASSUME P!IInv, Positions, ProducerStep \/ ContextFailed \/ Receive
    PROVE  AloneStep(producer)
<1> USE PcType, ThreadsAssumption
    DEF AloneStep, signal_vars, AllThreads, WorkerThreads, Positions,
        PositionTypes
<1>1. CASE ContextCreated \/ ContextFailed
  BY <1>1 DEF ContextCreated, ContextFailed, CB!ContextCreated,
              CB!ContextFailed, CB!Move, CB!Goto, Goto
<1>2. CASE ProducerLoop \/ ServiceReturns
  BY <1>2 DEF ProducerLoop, ServiceReturns, Move, Goto, buffer_vars
<1>3. CASE Receive
  BY <1>3 DEF Receive, CB!PushCall, CB!Goto
<1>4. CASE Push
  BY <1>4, PushEffect DEF Push, PushLabels
<1> QED
  BY <1>1, <1>2, <1>3, <1>4 DEF ProducerStep

LEMMA ConsumerAlone ==
    ASSUME P!IInv, Positions, ConsumerStep
    PROVE  AloneStep(consumer)
<1> USE PcType, ThreadsAssumption
    DEF AloneStep, signal_vars, AllThreads, WorkerThreads, Positions,
        PositionTypes
<1>1. CASE ConsumerLoop
  BY <1>1 DEF ConsumerLoop, CB!PopCall, CB!Move, CB!Goto, Goto, buffer_vars
<1>2. CASE Pop
  BY <1>2, PopEffect DEF Pop, PopLabels
<1>3. CASE PopReturned \/ CountLock \/ CountAdd
  BY <1>3 DEF PopReturned, CountLock, CountAdd, Move, Goto, buffer_vars
<1> QED
  BY <1>1, <1>2, <1>3 DEF ConsumerStep

LEMMA MonitorAlone ==
    ASSUME P!IInv, Positions, MonitorStep \/ LogNotOpened
    PROVE  AloneStep(monitor)
<1> USE PcType, ThreadsAssumption
    DEF AloneStep, signal_vars, AllThreads, WorkerThreads, Positions,
        PositionTypes
<1>1. CASE LogOpened \/ LogNotOpened \/ MonitorLoop
  BY <1>1 DEF LogOpened, LogNotOpened, MonitorLoop, Move, Goto, buffer_vars
<1>2. CASE SnapshotLock \/ Snapshot \/ Reset \/ WriteRow
  BY <1>2 DEF SnapshotLock, Snapshot, Reset, WriteRow, Goto, buffer_vars
<1>3. CASE Occupancy
  BY <1>3 DEF Occupancy, CB!PctCall, CB!Move, CB!Goto, Goto
<1>4. CASE Pct
  BY <1>4, PctEffect DEF Pct, PctLabels
<1> QED
  BY <1>1, <1>2, <1>3, <1>4 DEF MonitorStep

LEMMA AloneHandlers ==
    ASSUME P!IInv, Positions, HandlersOK, NEW t \in WorkerThreads,
           AloneStep(t)
    PROVE  HandlersOK'
<1>1. QuietAtDestroy'
  BY ThreadsAssumption DEF AloneStep, HandlersOK, QuietAtDestroy, Active,
                           AllThreads, WorkerThreads
<1> QED
  BY <1>1, ThreadHandlers DEF AloneStep, Running

(* A new handler interrupts something, and nothing has interrupted it. *)
LEMMA DeliverHandlers ==
    ASSUME P!IInv, Positions, HandlersOK, NEW s \in Signals, Deliver(s)
    PROVE  HandlersOK'
<1> USE DEF HandlersOK
<1>1. /\ pc[s] = "idle" /\ pc' = [pc EXCEPT ![s] = "sig_clear"]
      /\ keep_running /\ at' = at
  BY DEF Deliver, CB!SigTest, CB!Move, CB!Goto
<1>2. PICK x \in Interruptible :
          interrupted' = [interrupted EXCEPT ![s] = x]
  BY DEF Deliver
<1>3. /\ s \in DOMAIN pc /\ ~ Active(s) /\ Active(s)' /\ x # s
      /\ \A r \in Signals : r # s => /\ Active(r)' <=> Active(r)
                                     /\ interrupted'[r] = interrupted[r]
      /\ interrupted'[s] = x
  BY <1>1, <1>2, PcType, ThreadsAssumption
     DEF Active, Interrupting, Interruptible, AllThreads
<1>4. /\ x \in AllThreads \cup Signals /\ x # Nobody
      /\ x \in AllThreads => at[x] \notin {"absent", "ended"}
      /\ x \in Signals => Active(x)
  BY ThreadsAssumption DEF Interruptible, AllThreads
<1>5. Interrupting'
  <2>1. interrupted' \in [Signals -> AllThreads \cup Signals \cup {Nobody}]
    BY <1>2, <1>4 DEF Interrupting
  <2>2. \A r \in Signals :
            /\ Active(r)' <=> interrupted'[r] # Nobody
            /\ interrupted'[r] \in AllThreads =>
                   at[interrupted'[r]] \notin {"absent", "ended"}
            /\ interrupted'[r] \in Signals => Active(interrupted'[r])
    BY <1>3, <1>4 DEF Interrupting
  <2>3. \A r \in Signals : Active(r) => Active(r)'
    BY <1>3
  <2> QED
    BY <1>1, <2>1, <2>2, <2>3 DEF Interrupting, Active
<1>6. Grounded'
  <2> SUFFICES ASSUME NEW S \in SUBSET Signals, S # {},
                      \A r \in S : Active(r)'
               PROVE  \E r \in S : interrupted'[r] \notin S
    BY DEF Grounded
  <2>1. CASE s \notin S
    BY <1>3, <2>1 DEF Grounded
  <2>2. CASE S = {s}
    BY <1>3, <2>2
  <2>3. CASE s \in S /\ S # {s}
    <3>1. PICK r \in S \ {s} : interrupted[r] \notin S \ {s}
      BY <1>3, <2>3 DEF Grounded
    <3>2. interrupted[r] # s
      BY <1>3 DEF Interrupting
    <3> QED
      BY <1>3, <3>1, <3>2
  <2> QED
    BY <2>1, <2>2, <2>3
<1>7. QuietAtDestroy'
  BY <1>1 DEF Positions, Order, EndedStopped, QuietAtDestroy
<1> QED
  BY <1>5, <1>6, <1>7

(* A handler that returns had interrupted something, and no other handler  *)
(* has interrupted it.                                                     *)
LEMMA HandleHandlers ==
    ASSUME P!IInv, Positions, HandlersOK, NEW s \in Signals, Handle(s)
    PROVE  HandlersOK'
<1> USE DEF HandlersOK
<1>1. at' = at /\ s \in DOMAIN pc
  BY PcType DEF Handle
<1>2. /\ Active(s) /\ Running(s)
      /\ \A r \in Signals : r # s => (Active(r)' <=> Active(r))
  BY PcType, SigEffect DEF Handle, Active
<1>3. CASE pc[s] = "sig_broadcast"
  <2>1. /\ ~ Active(s)' /\ interrupted' = [interrupted EXCEPT ![s] = Nobody]
    BY <1>1, <1>3, SigEffect DEF Handle, Active
  <2>2. /\ interrupted'[s] = Nobody
        /\ \A r \in Signals : r # s => interrupted'[r] = interrupted[r]
        /\ \A r \in Signals : interrupted[r] # s
    BY <1>2, <2>1 DEF Interrupting, Running
  <2>3. interrupted' \in [Signals -> AllThreads \cup Signals \cup {Nobody}]
    BY <2>1 DEF Interrupting
  <2>4. \A r \in Signals :
            /\ Active(r)' <=> interrupted'[r] # Nobody
            /\ interrupted'[r] \in AllThreads =>
                   at[interrupted'[r]] \notin {"absent", "ended"}
            /\ interrupted'[r] \in Signals => /\ Active(interrupted'[r])
                                              /\ interrupted'[r] # s
    BY <1>2, <2>1, <2>2, ThreadsAssumption DEF Interrupting
  <2>5. Interrupting'
    BY <1>1, <1>2, <2>3, <2>4 DEF Interrupting, Active
  <2>6. Grounded'
    <3> SUFFICES ASSUME NEW S \in SUBSET Signals, S # {},
                        \A r \in S : Active(r)'
                 PROVE  \E r \in S : interrupted'[r] \notin S
      BY DEF Grounded
    <3>1. s \notin S
      BY <2>1
    <3>2. \A r \in S : Active(r) /\ interrupted'[r] = interrupted[r]
      BY <1>2, <2>2, <3>1
    <3> QED
      BY <3>2 DEF Grounded
  <2> QED
    BY <1>1, <1>2, <2>1, <2>5, <2>6 DEF QuietAtDestroy
<1>4. CASE pc[s] # "sig_broadcast"
  <2>1. Active(s)' /\ interrupted' = interrupted
    BY <1>1, <1>4, SigEffect DEF Handle, Active
  <2>2. \A r \in Signals : Active(r)' <=> Active(r)
    BY <1>2, <2>1
  <2>3. Interrupting' /\ Grounded' /\ QuietAtDestroy'
    BY <1>1, <2>1, <2>2 DEF Interrupting, Grounded, QuietAtDestroy
  <2> QED
    BY <2>3
<1> QED
  BY <1>3, <1>4

LEMMA OtherHandlers ==
    ASSUME HandlersOK,
           \/ \E s \in Signals : DeliverIgnored(s)
           \/ SpuriousWakeup \/ UNCHANGED vars
    PROVE  HandlersOK'
<1>1. UNCHANGED <<pc, at, interrupted>>
  BY DEF DeliverIgnored, SpuriousWakeup, CB!SpuriousWakeup, vars, buffer_vars,
         signal_vars
<1> QED
  BY <1>1 DEF HandlersOK, Interrupting, Grounded, QuietAtDestroy, Active
-----------------------------------------------------------------------------
(***************************************************************************)
(* The mutex of the counters.                                              *)
(***************************************************************************)
CountersLocked ==
    /\ counters_mutex \in {consumer, monitor, Nobody}
    /\ counters_mutex = consumer <=> at[consumer] = "add"
    /\ counters_mutex = monitor <=> at[monitor] \in {"snapshot", "reset"}

LEMMA CountersLockedStep ==
    ASSUME P!IInv, Positions, CountersLocked, [Next]_vars
    PROVE  CountersLocked'
<1> USE ThreadsAssumption
    DEF CountersLocked, Positions, PositionTypes, AllThreads, WorkerThreads
<1>1. CASE MainStep \/ CreateFailed
  <2>1. /\ UNCHANGED counters_mutex
        /\ \/ UNCHANGED <<at[consumer], at[monitor]>>
           \/ /\ at[consumer] = "absent" /\ at'[consumer] = "loop"
              /\ UNCHANGED at[monitor]
           \/ /\ at[monitor] = "absent" /\ at'[monitor] = "open_log"
              /\ UNCHANGED at[consumer]
    BY <1>1 DEF MainStep, CreateFailed, InitAppState, CreateMonitor,
                CreateConsumer, CreateProducer, Create, JoinProducer,
                JoinConsumer, JoinMonitor, Join, Destroy, Move, Goto,
                count_vars, Order
  <2> QED
    BY <2>1
<1>2. CASE ProducerStep \/ ContextFailed \/ Receive
  <2>1. UNCHANGED counters_mutex
    BY <1>2 DEF ProducerStep, ContextFailed, Receive, ContextCreated,
                ProducerLoop, Push, ServiceReturns, Move, count_vars
  <2> QED
    BY <1>2, <2>1, ProducerAlone DEF AloneStep
<1>3. CASE ConsumerStep
  <2>1. UNCHANGED at[monitor]
    BY <1>3, ConsumerAlone DEF AloneStep
  <2>2. CASE ConsumerLoop \/ Pop \/ PopReturned
    BY <2>1, <2>2 DEF ConsumerLoop, Pop, PopReturned, Move, Goto, count_vars
  <2>3. CASE CountLock
    BY <2>1, <2>3 DEF CountLock, Goto
  <2>4. CASE CountAdd
    BY <2>1, <2>4 DEF CountAdd, Goto
  <2> QED
    BY <1>3, <2>2, <2>3, <2>4 DEF ConsumerStep
<1>4. CASE MonitorStep \/ LogNotOpened
  <2>1. UNCHANGED at[consumer]
    BY <1>4, MonitorAlone DEF AloneStep
  <2>2. CASE \/ LogOpened \/ LogNotOpened \/ MonitorLoop
             \/ Occupancy \/ Pct \/ WriteRow
    BY <2>1, <2>2 DEF LogOpened, LogNotOpened, MonitorLoop, Occupancy, Pct,
                      WriteRow, Move, Goto, count_vars
  <2>3. CASE SnapshotLock
    BY <2>1, <2>3 DEF SnapshotLock, Goto
  <2>4. CASE Snapshot
    BY <2>1, <2>4 DEF Snapshot, Goto
  <2>5. CASE Reset
    BY <2>1, <2>5 DEF Reset, Goto
  <2> QED
    BY <1>4, <2>2, <2>3, <2>4, <2>5 DEF MonitorStep
<1>5. CASE \/ \E s \in Signals : Deliver(s) \/ DeliverIgnored(s) \/ Handle(s)
           \/ SpuriousWakeup \/ UNCHANGED vars
  BY <1>5 DEF Deliver, DeliverIgnored, Handle, SpuriousWakeup, vars,
              count_vars
<1> QED
  BY <1>1, <1>2, <1>3, <1>4, <1>5 DEF Next, Exited
-----------------------------------------------------------------------------
(***************************************************************************)
(* Counting the messages in the ring.                                      *)
(***************************************************************************)
LEMMA CategoryType == \A s : Category(s) \in Kinds
<1> SUFFICES ASSUME NEW s PROVE Category(s) \in Kinds
  OBVIOUS
<1>1. CASE \E p \in Payloads : p.msg = s.msg /\ p.len = s.len /\ p.text = s.len
  BY <1>1, PayloadsAssumption DEF Category
<1>2. CASE ~ \E p \in Payloads :
               p.msg = s.msg /\ p.len = s.len /\ p.text = s.len
  BY <1>2 DEF Category, Kinds
<1> QED
  BY <1>1, <1>2

Places(seq, k) == {i \in DOMAIN seq : Category(seq[i]) = k}

LEMMA PlacesFinite ==
    ASSUME NEW S, NEW seq \in Seq(S), NEW k
    PROVE  IsFiniteSet(Places(seq, k)) /\ Cardinality(Places(seq, k)) \in Nat
<1>1. IsFiniteSet(1 .. Len(seq))
  BY FS_Interval
<1>2. Places(seq, k) \subseteq 1 .. Len(seq)
  BY DEF Places
<1> QED
  BY <1>1, <1>2, FS_Subset, FS_CardinalityType

LEMMA PlacesOfAppend ==
    ASSUME NEW S, NEW seq \in Seq(S), NEW e \in S, NEW k
    PROVE  Cardinality(Places(Append(seq, e), k)) =
               Cardinality(Places(seq, k)) + (IF Category(e) = k THEN 1 ELSE 0)
<1> DEFINE n == Len(seq) + 1
<1>1. /\ DOMAIN Append(seq, e) = DOMAIN seq \cup {n} /\ n \notin DOMAIN seq
      /\ \A i \in DOMAIN seq : Append(seq, e)[i] = seq[i]
      /\ Append(seq, e)[n] = e
  BY AppendProperties
<1> HIDE DEF n
<1>2. CASE Category(e) = k
  <2>1. Places(Append(seq, e), k) = Places(seq, k) \cup {n}
    BY <1>1, <1>2 DEF Places
  <2>2. n \notin Places(seq, k)
    BY <1>1 DEF Places
  <2> QED
    BY <1>2, <2>1, <2>2, PlacesFinite, FS_AddElement
<1>3. CASE Category(e) # k
  <2>1. Places(Append(seq, e), k) = Places(seq, k)
    BY <1>1, <1>3 DEF Places
  <2> QED
    BY <1>3, <2>1, PlacesFinite
<1> QED
  BY <1>2, <1>3

LEMMA PlacesOfTail ==
    ASSUME NEW S, NEW seq \in Seq(S), seq # <<>>, NEW k
    PROVE  Cardinality(Places(seq, k)) =
               Cardinality(Places(Tail(seq), k))
                   + (IF Category(Head(seq)) = k THEN 1 ELSE 0)
<1> DEFINE T == Places(Tail(seq), k)
           R == Places(seq, k) \ {1}
           f == [i \in T |-> i + 1]
<1>1. /\ Len(seq) \in Nat /\ Len(seq) >= 1
      /\ Tail(seq) \in Seq(S) /\ DOMAIN Tail(seq) = 1 .. Len(seq) - 1
      /\ DOMAIN seq = 1 .. Len(seq)
      /\ \A i \in 1 .. Len(seq) - 1 : Tail(seq)[i] = seq[i + 1]
      /\ Head(seq) = seq[1]
  BY HeadTailProperties, EmptySeq
<1>2. \A i : i \in T <=> i \in 1 .. Len(seq) - 1 /\ Category(seq[i + 1]) = k
  BY <1>1 DEF Places
<1>3. \A j : j \in R <=> j \in 2 .. Len(seq) /\ Category(seq[j]) = k
  BY <1>1 DEF Places
<1>4. Cardinality(R) = Cardinality(T)
  <2>1. f \in [T -> R]
    BY <1>1, <1>2, <1>3
  <2>2. \A i, j \in T : f[i] = f[j] => i = j
    BY <1>2
  <2>3. \A j \in R : \E i \in T : f[i] = j
    <3> SUFFICES ASSUME NEW j \in R PROVE \E i \in T : f[i] = j
      OBVIOUS
    <3>1. j \in 2 .. Len(seq) /\ Category(seq[j]) = k
      BY <1>3
    <3> DEFINE i == j - 1
    <3>2. i \in 1 .. Len(seq) - 1 /\ i + 1 = j
      BY <1>1, <3>1
    <3> HIDE DEF i
    <3>3. i \in T
      BY <1>2, <3>1, <3>2
    <3> QED
      BY <3>2, <3>3
  <2> HIDE DEF f, T, R
  <2>4. f \in Bijection(T, R)
    BY <2>1, <2>2, <2>3, Fun_IsBij
  <2>5. ExistsBijection(T, R)
    BY <2>4 DEF ExistsBijection
  <2>6. IsFiniteSet(T)
    BY <1>1, PlacesFinite DEF T
  <2> QED
    BY <2>5, <2>6, FS_Bijection
<1>5. IsFiniteSet(R) /\ Cardinality(R) \in Nat /\ 1 \notin R
  BY PlacesFinite, FS_Subset, FS_CardinalityType
<1> DEFINE c == Cardinality(T)
<1>8. Cardinality(R) = c /\ c = Cardinality(Places(Tail(seq), k))
  BY <1>4
<1>9. Category(Head(seq)) = k => Places(seq, k) = R \cup {1}
  BY <1>1 DEF Places
<1>10. Category(Head(seq)) # k => Places(seq, k) = R
  BY <1>1 DEF Places
<1> HIDE DEF T, R, f, c
<1>6. CASE Category(Head(seq)) = k
  <2>1. Cardinality(R \cup {1}) = Cardinality(R) + 1
    BY <1>5, FS_AddElement
  <2> QED
    BY <1>5, <1>6, <1>8, <1>9, <2>1
<1>7. CASE Category(Head(seq)) # k
  BY <1>5, <1>7, <1>8, <1>10
<1> QED
  BY <1>6, <1>7
-----------------------------------------------------------------------------
(***************************************************************************)
(* Every message is in one place.                                          *)
(***************************************************************************)
Holding ==
    \/ at[consumer] \in {"parse", "add"}
    \/ at[consumer] = "popping" /\ pc[consumer] = "idle" /\ ok[consumer]

CountTypes ==
    /\ counters \in [Kinds -> Nat]
    /\ snapshot \in [Kinds -> Nat]
    /\ received \in [Kinds -> Nat]
    /\ logged \in [Kinds -> Nat]

(* The snapshot is empty until it is taken, and while the mutex is held it *)
(* is a copy of the counters.                                              *)
SnapshotTaken ==
    /\ at[monitor] \notin {"reset", "occupancy", "write"} => snapshot = Zero
    /\ at[monitor] = "reset" => snapshot = counters

(* A message on its way into the ring is not yet received. *)
Bounded ==
    /\ Total(received) <= MaxMessages
    /\ pc[producer] \in PushLabels => Total(received) < MaxMessages

Counting == CountTypes /\ SnapshotTaken /\ Bounded /\ Accounted

LEMMA Sums ==
    /\ Zero \in [Kinds -> Nat] /\ \A k \in Kinds : Zero[k] = 0
    /\ \A kind \in Kinds :
           /\ One(kind) \in [Kinds -> Nat]
           /\ \A k \in Kinds : One(kind)[k] = IF k = kind THEN 1 ELSE 0
    /\ \A f, g \in [Kinds -> Nat] :
           /\ Plus(f, g) \in [Kinds -> Nat]
           /\ \A k \in Kinds : Plus(f, g)[k] = f[k] + g[k]
BY DEF Zero, One, Plus

LEMMA TotalPlusOne ==
    ASSUME NEW f \in [Kinds -> Nat], NEW kind \in Kinds
    PROVE  Total(Plus(f, One(kind))) = Total(f) + 1
<1>1. \A k \in Kinds : Plus(f, One(kind))[k] =
                           f[k] + (IF k = kind THEN 1 ELSE 0)
  BY Sums
<1>2. \A k \in Kinds : f[k] \in Nat
  OBVIOUS
<1> HIDE DEF Plus, One
<1> QED
  BY <1>1, <1>2 DEF Total, Kinds

(* The messages of one kind in the ring and in hand, in numbers. *)
WhereOK ==
    \A k \in Kinds :
        /\ InRing(k) = Cardinality(Places(CB!Contents, k))
        /\ InRing(k) \in Nat
        /\ InHand(k) = IF Holding /\ Category(output[consumer]) = k
                       THEN 1 ELSE 0

LEMMA WhereTypes == P!IInv => WhereOK
<1> SUFFICES ASSUME P!IInv, NEW k \in Kinds
             PROVE  /\ InRing(k) = Cardinality(Places(CB!Contents, k))
                    /\ InRing(k) \in Nat
                    /\ InHand(k) = IF Holding /\ Category(output[consumer]) = k
                                   THEN 1 ELSE 0
  BY DEF WhereOK
<1>1. InRing(k) = Cardinality(Places(CB!Contents, k))
  BY DEF InRing, Places
<1> QED
  BY <1>1, ContentsSequence, PlacesFinite DEF InHand, Holding

LEMMA WhereTypesNext == P!IInv' => WhereOK'
BY WhereTypes, PTL

(* A step that moves no message. *)
LEMMA CountingStill ==
    ASSUME Counting,
           UNCHANGED <<CB!Contents, counters, snapshot, received, logged>>,
           Holding' <=> Holding,
           Holding => output'[consumer] = output[consumer],
           at'[monitor] = "reset" <=> at[monitor] = "reset",
           at'[monitor] \in {"occupancy", "write"} <=>
               at[monitor] \in {"occupancy", "write"},
           pc'[producer] \in PushLabels => \/ pc[producer] \in PushLabels
                                           \/ Total(received) < MaxMessages
    PROVE  Counting'
<1>1. CountTypes' /\ SnapshotTaken'
  BY DEF Counting, CountTypes, SnapshotTaken
<1>2. Bounded'
  BY DEF Counting, Bounded
<1>3. \A k \in Kinds : InRing(k)' = InRing(k)
  BY DEF InRing
<1>4. \A k \in Kinds : InHand(k)' = InHand(k)
  BY DEF InHand, Holding
<1>5. \A k \in Kinds : InCounters(k)' = InCounters(k)
  BY DEF InCounters
<1>6. Accounted'
  BY <1>3, <1>4, <1>5 DEF Counting, Accounted
<1> QED
  BY <1>1, <1>2, <1>6 DEF Counting

LEMMA ReceivePushCounting ==
    ASSUME P!IInv, P!IInv', Positions, Counting, Receive \/ Push
    PROVE  Counting'
<1> USE ThreadsAssumption
<1>1. CASE Receive
  <2>1. /\ pc' = [pc EXCEPT ![producer] = "push_lock"]
        /\ Total(received) < MaxMessages
        /\ UNCHANGED <<at, counters, snapshot, received, logged, ok, output,
                       CB!Contents>>
    BY <1>1 DEF Receive, CB!PushCall, CB!Goto, count_vars, history_vars,
                CB!slots, CB!Contents
  <2>2. pc'[consumer] = pc[consumer]
    BY <2>1
  <2> QED
    BY <2>1, <2>2, CountingStill DEF Holding
<1>2. CASE Push /\ ~ CB!PushCopy(producer)
  <2>1. /\ pc[producer] \in PushLabels \ {"push_copy"}
        /\ pc'[consumer] = pc[consumer]
        /\ UNCHANGED <<output, CB!Contents>>
        /\ ok'[consumer] = ok[consumer]
    <3>1. PICK l \in PushLabels \cup {"idle"} :
              pc' = [pc EXCEPT ![producer] = l]
      BY <1>2, PushEffect DEF Push
    <3>2. pc'[consumer] = pc[consumer]
      BY <3>1
    <3> QED
      BY <1>2, <3>2, PushEffect DEF Push
  <2>2. UNCHANGED <<at, counters, snapshot, received, logged>>
    BY <1>2, <2>1 DEF Push, count_vars
  <2> QED
    BY <2>1, <2>2, CountingStill DEF Holding
<1>3. CASE Push /\ CB!PushCopy(producer)
  <2> DEFINE e == CB!CString(payload[producer])
             kind == Category(e)
  <2>1. /\ CB!Contents' = Append(CB!Contents, e)
        /\ e \in P!Strings /\ kind \in Kinds
        /\ UNCHANGED output
    BY <1>3, PushAppends, CategoryType, BufferAssumptions, P!CStringFits,
       SameContents
  <2>2. /\ pc[producer] = "push_copy" /\ pc' = [pc EXCEPT ![producer] = "idle"]
        /\ UNCHANGED <<at, counters, snapshot, logged>>
        /\ received' = Plus(received, One(kind))
        /\ ok'[consumer] = ok[consumer]
    BY <1>3, PcType DEF Push, CB!PushCopy, CB!PushReturn, CB!Goto, count_vars
  <2> HIDE DEF e, kind
  <2>3. pc'[consumer] = pc[consumer] /\ pc'[producer] = "idle"
    BY <2>2, PcType DEF WorkerThreads
  <2>4. /\ Total(received') = Total(received) + 1
        /\ Total(received) < MaxMessages
        /\ received' \in [Kinds -> Nat] /\ Total(received) \in Nat
    <3>1. received \in [Kinds -> Nat]
      BY DEF Counting, CountTypes
    <3>2. Total(received') = Total(received) + 1
      BY <2>1, <2>2, <3>1, TotalPlusOne
    <3>3. received' \in [Kinds -> Nat]
      BY <2>1, <2>2, <3>1, Sums
    <3>4. Total(received) < MaxMessages
      BY <2>2 DEF Counting, Bounded, PushLabels
    <3>5. Total(received) \in Nat
      BY <3>1 DEF Total, Kinds
    <3> QED
      BY <3>2, <3>3, <3>4, <3>5
  <2>5. CountTypes' /\ SnapshotTaken' /\ Bounded'
    BY <2>2, <2>3, <2>4, SizesAssumption
       DEF Counting, CountTypes, SnapshotTaken, Bounded, PushLabels
  <2>6. ASSUME NEW k \in Kinds
        PROVE  received'[k] = InRing(k)' + InHand(k)' + InCounters(k)'
                                  + snapshot'[k] + logged'[k]
    <3> DEFINE d == IF kind = k THEN 1 ELSE 0
    <3>1. received'[k] = received[k] + d
      <4>1. received \in [Kinds -> Nat]
        BY DEF Counting, CountTypes
      <4>2. /\ One(kind) \in [Kinds -> Nat]
            /\ One(kind)[k] = d
        BY <2>1, Sums
      <4> QED
        BY <2>2, <4>1, <4>2, Sums
    <3>2. InRing(k)' = InRing(k) + d
      BY <2>1, WhereTypes, WhereTypesNext, ContentsSequence, PlacesOfAppend
         DEF WhereOK, kind
    <3>3. InHand(k)' = InHand(k) /\ InCounters(k)' = InCounters(k)
      BY <2>1, <2>2, <2>3 DEF InHand, InCounters
    <3>4. /\ received[k] = InRing(k) + InHand(k) + InCounters(k)
                               + snapshot[k] + logged[k]
          /\ InRing(k) \in Nat /\ InHand(k) \in Nat /\ InCounters(k) \in Nat
          /\ snapshot[k] \in Nat /\ logged[k] \in Nat
      BY WhereTypes
         DEF Counting, CountTypes, Accounted, WhereOK, InCounters
    <3>5. snapshot'[k] = snapshot[k] /\ logged'[k] = logged[k] /\ d \in Nat
      BY <2>2
    <3> HIDE DEF d
    <3> QED
      BY <3>1, <3>2, <3>3, <3>4, <3>5
  <2>7. Accounted'
    BY <2>6 DEF Accounted
  <2> QED
    BY <2>5, <2>7 DEF Counting
<1> QED
  BY <1>1, <1>2, <1>3

LEMMA ProducerCounting ==
    ASSUME P!IInv, P!IInv', Positions, Counting,
           ProducerStep \/ ContextFailed \/ Receive
    PROVE  Counting'
<1> USE ThreadsAssumption
<1>1. CASE Receive \/ Push
  BY <1>1, ReceivePushCounting
<1>2. CASE ContextCreated \/ ContextFailed \/ ProducerLoop \/ ServiceReturns
  <2>1. UNCHANGED <<counters, snapshot, received, logged, ok, output,
                    tail, count, data>>
    BY <1>2 DEF ContextCreated, ContextFailed, ProducerLoop, ServiceReturns,
                CB!ContextCreated, CB!ContextFailed, CB!Move, Move,
                count_vars, history_vars, buffer_vars, CB!slots, CB!results
  <2>2. UNCHANGED CB!Contents
    BY <2>1 DEF CB!Contents
  <2>3. UNCHANGED <<at[consumer], at[monitor]>>
    BY <1>2, ProducerAlone DEF ProducerStep, AloneStep, AllThreads,
                               WorkerThreads
  <2>4. \/ pc' = pc
        \/ pc' = [pc EXCEPT ![producer] = "idle"]
        \/ pc' = [pc EXCEPT ![producer] = "ended"]
    BY <1>2 DEF ContextCreated, ContextFailed, ProducerLoop, ServiceReturns,
                CB!ContextCreated, CB!ContextFailed, CB!Move, CB!Goto, Move,
                buffer_vars
  <2>5. /\ UNCHANGED pc[consumer]
        /\ pc'[producer] \in PushLabels => pc[producer] \in PushLabels
    BY <2>4, PcType DEF PushLabels, WorkerThreads
  <2> QED
    BY <2>1, <2>2, <2>3, <2>5, CountingStill DEF Holding
<1> QED
  BY <1>1, <1>2 DEF ProducerStep

LEMMA PopCounting ==
    ASSUME P!IInv, P!IInv', Positions, Counting, Pop
    PROVE  Counting'
<1> USE ThreadsAssumption
<1>1. /\ UNCHANGED <<at, counters, snapshot, received, logged>>
      /\ at[consumer] = "popping" /\ pc[consumer] \in PopLabels
      /\ ~ Holding
  BY PopEffect DEF Pop, count_vars, history_vars, Positions, Coupled, Holding,
                   PopLabels
<1>2. UNCHANGED pc[producer]
  <2>1. PICK l \in PopLabels \cup {"idle"} : pc' = [pc EXCEPT ![consumer] = l]
    BY PopEffect DEF Pop
  <2> QED
    BY <2>1
<1>3. CASE ~ CB!PopCopy(consumer)
  <2>1. /\ UNCHANGED CB!Contents
        /\ pc'[consumer] = "idle" => ~ ok'[consumer]
    BY <1>3, PopEffect DEF Pop
  <2>2. ~ Holding'
    BY <1>1, <2>1 DEF Holding
  <2> QED
    BY <1>1, <1>2, <2>1, <2>2, CountingStill
<1>4. CASE CB!PopCopy(consumer)
  <2> DEFINE e == Head(CB!Contents)
             kind == Category(e)
  <2>1. /\ CB!Contents # <<>> /\ CB!Contents' = Tail(CB!Contents)
        /\ output'[consumer] = e
    <3>1. consumer \in DOMAIN output
      BY DEF P!IInv, P!TypeOK
    <3> QED
      BY <1>4, <3>1, PopRemoves
  <2>2. pc'[consumer] = "idle" /\ ok'[consumer]
    BY <1>4, PcType DEF CB!PopCopy, CB!PopReturn, CB!Goto, WorkerThreads
  <2>3. Holding'
    BY <1>1, <2>2 DEF Holding
  <2> HIDE DEF e, kind
  <2>4. CountTypes' /\ SnapshotTaken' /\ Bounded'
    BY <1>1, <1>2 DEF Counting, CountTypes, SnapshotTaken, Bounded
  <2>5. ASSUME NEW k \in Kinds
        PROVE  received'[k] = InRing(k)' + InHand(k)' + InCounters(k)'
                                  + snapshot'[k] + logged'[k]
    <3> DEFINE d == IF kind = k THEN 1 ELSE 0
    <3>1. InRing(k) = InRing(k)' + d
      BY <2>1, WhereTypes, WhereTypesNext, ContentsSequence, PlacesOfTail
         DEF WhereOK, kind, e
    <3>2. InHand(k) = 0 /\ InHand(k)' = d
      BY <1>1, <2>1, <2>3, WhereTypes, WhereTypesNext DEF WhereOK, kind
    <3>3. InCounters(k)' = InCounters(k)
      BY <1>1 DEF InCounters
    <3>4. /\ received[k] = InRing(k) + InHand(k) + InCounters(k)
                               + snapshot[k] + logged[k]
          /\ InRing(k)' \in Nat /\ InCounters(k) \in Nat
          /\ snapshot[k] \in Nat /\ logged[k] \in Nat
      BY WhereTypesNext
         DEF Counting, CountTypes, Accounted, WhereOK, InCounters
    <3>5. d \in Nat
      OBVIOUS
    <3> HIDE DEF d
    <3> QED
      BY <1>1, <3>1, <3>2, <3>3, <3>4, <3>5
  <2>6. Accounted'
    BY <2>5 DEF Accounted
  <2> QED
    BY <2>4, <2>6 DEF Counting
<1> QED
  BY <1>3, <1>4

(* The message in hand is added to the counters, under their mutex. *)
LEMMA CountAddCounting ==
    ASSUME P!IInv, P!IInv', Positions, CountersLocked, Counting, CountAdd
    PROVE  Counting'
<1> USE ThreadsAssumption
<1> DEFINE kind == Category(output[consumer])
<1>1. /\ at[consumer] = "add" /\ at' = [at EXCEPT ![consumer] = "loop"]
      /\ counters' = Plus(counters, One(kind))
      /\ UNCHANGED <<snapshot, received, logged, pc, output, tail, count,
                     data>>
      /\ kind \in Kinds
  BY CategoryType DEF CountAdd, Goto, buffer_vars, history_vars
<1>2. /\ consumer \in DOMAIN at /\ at'[consumer] = "loop"
      /\ at'[monitor] = at[monitor] /\ at[monitor] # "reset"
  BY <1>1 DEF CountersLocked, Positions, PositionTypes, AllThreads,
              WorkerThreads
<1>3. UNCHANGED CB!Contents
  BY <1>1 DEF CB!Contents
<1> HIDE DEF kind
<1>4. counters \in [Kinds -> Nat] /\ One(kind) \in [Kinds -> Nat]
  BY <1>1, Sums DEF Counting, CountTypes
<1>5. CountTypes' /\ SnapshotTaken' /\ Bounded'
  BY <1>1, <1>2, <1>4, Sums DEF Counting, CountTypes, SnapshotTaken, Bounded
<1>6. ASSUME NEW k \in Kinds
      PROVE  received'[k] = InRing(k)' + InHand(k)' + InCounters(k)'
                                + snapshot'[k] + logged'[k]
  <2> DEFINE d == IF kind = k THEN 1 ELSE 0
  <2>1. InRing(k)' = InRing(k)
    BY <1>3 DEF InRing
  <2>2. InHand(k) = d /\ InHand(k)' = 0
    BY <1>1, <1>2 DEF InHand, kind
  <2>3. counters'[k] = counters[k] + d
    <3>1. One(kind)[k] = d
      BY <1>1, Sums
    <3> QED
      BY <1>1, <1>4, <3>1, Sums
  <2>4. InCounters(k) = counters[k] /\ InCounters(k)' = counters'[k]
    BY <1>2 DEF InCounters
  <2>5. /\ received[k] = InRing(k) + InHand(k) + InCounters(k)
                             + snapshot[k] + logged[k]
        /\ InRing(k) \in Nat /\ counters[k] \in Nat
        /\ snapshot[k] \in Nat /\ logged[k] \in Nat
    BY WhereTypes DEF Counting, CountTypes, Accounted, WhereOK
  <2>6. d \in Nat
    OBVIOUS
  <2> HIDE DEF d
  <2> QED
    BY <1>1, <2>1, <2>2, <2>3, <2>4, <2>5, <2>6
<1>7. Accounted'
  BY <1>6 DEF Accounted
<1> QED
  BY <1>5, <1>7 DEF Counting

LEMMA ConsumerCounting ==
    ASSUME P!IInv, P!IInv', Positions, CountersLocked, Counting, ConsumerStep
    PROVE  Counting'
<1> USE ThreadsAssumption
<1>0. /\ consumer \in DOMAIN pc /\ consumer \in DOMAIN at
      /\ UNCHANGED <<at[monitor], at[producer]>>
  BY PcType, ConsumerAlone
     DEF AloneStep, AllThreads, WorkerThreads, Positions, PositionTypes
<1>1. CASE Pop
  BY <1>1, PopCounting
<1>2. CASE CountAdd
  BY <1>2, CountAddCounting
<1>3. CASE ConsumerLoop \/ PopReturned \/ CountLock
  <2>1. UNCHANGED <<counters, snapshot, received, logged, ok, output,
                    tail, count, data>>
    BY <1>3 DEF ConsumerLoop, PopReturned, CountLock, CB!PopCall, CB!Move,
                Move, count_vars, history_vars, buffer_vars, CB!slots,
                CB!results
  <2>2. UNCHANGED CB!Contents
    BY <2>1 DEF CB!Contents
  <2>3. pc' = pc \/ pc' = [pc EXCEPT ![consumer] = "pop_lock"]
    <3>1. CASE ConsumerLoop
      BY <3>1 DEF ConsumerLoop, CB!PopCall, CB!Move, CB!Goto, buffer_vars
    <3>2. CASE PopReturned \/ CountLock
      BY <3>2 DEF PopReturned, CountLock, Move, buffer_vars
    <3> QED
      BY <1>3, <3>1, <3>2
  <2>4. pc'[producer] = pc[producer]
    <3>1. CASE pc' = pc
      BY <3>1
    <3>2. CASE pc' = [pc EXCEPT ![consumer] = "pop_lock"]
      BY <3>2
    <3> QED
      BY <2>3, <3>1, <3>2
  <2>5. Holding' <=> Holding
    <3>1. CASE ConsumerLoop
      <4>1. /\ at[consumer] = "loop"
            /\ \/ /\ at' = [at EXCEPT ![consumer] = "popping"]
                  /\ pc' = [pc EXCEPT ![consumer] = "pop_lock"]
               \/ at' = [at EXCEPT ![consumer] = "ended"]
        BY <3>1 DEF ConsumerLoop, CB!PopCall, CB!Move, CB!Goto, Goto
      <4> QED
        BY <1>0, <4>1 DEF Holding
    <3>2. CASE PopReturned
      BY <1>0, <3>2 DEF PopReturned, Move, Goto, Holding, buffer_vars
    <3>3. CASE CountLock
      BY <1>0, <3>3 DEF CountLock, Goto, Holding, buffer_vars
    <3> QED
      BY <1>3, <3>1, <3>2, <3>3
  <2> QED
    BY <1>0, <2>1, <2>2, <2>4, <2>5, CountingStill
<1> QED
  BY <1>1, <1>2, <1>3 DEF ConsumerStep

(* The monitor takes the counters, under their mutex. *)
LEMMA SnapshotCounting ==
    ASSUME P!IInv, Positions, Counting, Snapshot
    PROVE  Counting'
<1>1. /\ at[monitor] = "snapshot" /\ at' = [at EXCEPT ![monitor] = "reset"]
      /\ snapshot' = counters
      /\ UNCHANGED <<counters, received, logged, pc, ok, output, tail, count,
                     data>>
  BY DEF Snapshot, Goto, buffer_vars, history_vars
<1>2. at'[monitor] = "reset" /\ at'[consumer] = at[consumer]
  BY <1>1, ThreadsAssumption
     DEF Positions, PositionTypes, AllThreads, WorkerThreads
<1>3. UNCHANGED CB!Contents
  BY <1>1 DEF CB!Contents
<1>4. CountTypes' /\ SnapshotTaken' /\ Bounded'
  BY <1>1, <1>2 DEF Counting, CountTypes, SnapshotTaken, Bounded
<1>5. ASSUME NEW k \in Kinds
      PROVE  received'[k] = InRing(k)' + InHand(k)' + InCounters(k)'
                                + snapshot'[k] + logged'[k]
  <2>1. InRing(k)' = InRing(k) /\ InHand(k)' = InHand(k)
    BY <1>1, <1>2, <1>3 DEF InRing, InHand
  <2>2. InCounters(k) = counters[k] /\ InCounters(k)' = 0 /\ snapshot[k] = 0
    BY <1>1, <1>2, Sums DEF InCounters, Counting, SnapshotTaken
  <2>3. /\ received[k] = InRing(k) + InHand(k) + InCounters(k)
                             + snapshot[k] + logged[k]
        /\ InRing(k) \in Nat /\ InHand(k) \in Nat /\ counters[k] \in Nat
        /\ logged[k] \in Nat
    BY WhereTypes DEF Counting, CountTypes, Accounted, WhereOK
  <2> QED
    BY <1>1, <2>1, <2>2, <2>3
<1>6. Accounted'
  BY <1>5 DEF Accounted
<1> QED
  BY <1>4, <1>6 DEF Counting

LEMMA ResetCounting ==
    ASSUME P!IInv, Positions, Counting, Reset
    PROVE  Counting'
<1>1. /\ at[monitor] = "reset" /\ at' = [at EXCEPT ![monitor] = "occupancy"]
      /\ counters' = Zero
      /\ UNCHANGED <<snapshot, received, logged, pc, ok, output, tail, count,
                     data>>
  BY DEF Reset, Goto, buffer_vars, history_vars
<1>2. at'[monitor] = "occupancy" /\ at'[consumer] = at[consumer]
  BY <1>1, ThreadsAssumption
     DEF Positions, PositionTypes, AllThreads, WorkerThreads
<1>3. UNCHANGED CB!Contents
  BY <1>1 DEF CB!Contents
<1>4. CountTypes' /\ SnapshotTaken' /\ Bounded'
  BY <1>1, <1>2, Sums DEF Counting, CountTypes, SnapshotTaken, Bounded
<1>5. ASSUME NEW k \in Kinds
      PROVE  received'[k] = InRing(k)' + InHand(k)' + InCounters(k)'
                                + snapshot'[k] + logged'[k]
  <2>1. InRing(k)' = InRing(k) /\ InHand(k)' = InHand(k)
    BY <1>1, <1>2, <1>3 DEF InRing, InHand
  <2>2. InCounters(k) = 0 /\ InCounters(k)' = 0
    BY <1>1, <1>2, Sums DEF InCounters
  <2> QED
    BY <1>1, <2>1, <2>2 DEF Counting, Accounted
<1>6. Accounted'
  BY <1>5 DEF Accounted
<1> QED
  BY <1>4, <1>6 DEF Counting

LEMMA WriteRowCounting ==
    ASSUME P!IInv, Positions, Counting, WriteRow
    PROVE  Counting'
<1>1. /\ at[monitor] = "write" /\ at' = [at EXCEPT ![monitor] = "loop"]
      /\ logged' = Plus(logged, snapshot) /\ snapshot' = Zero
      /\ UNCHANGED <<counters, received, pc, ok, output, tail, count, data>>
  BY DEF WriteRow, Goto, buffer_vars
<1>2. at'[monitor] = "loop" /\ at'[consumer] = at[consumer]
  BY <1>1, ThreadsAssumption
     DEF Positions, PositionTypes, AllThreads, WorkerThreads
<1>3. UNCHANGED CB!Contents
  BY <1>1 DEF CB!Contents
<1>4. logged \in [Kinds -> Nat] /\ snapshot \in [Kinds -> Nat]
  BY DEF Counting, CountTypes
<1>5. CountTypes' /\ SnapshotTaken' /\ Bounded'
  BY <1>1, <1>2, <1>4, Sums DEF Counting, CountTypes, SnapshotTaken, Bounded
<1>6. ASSUME NEW k \in Kinds
      PROVE  received'[k] = InRing(k)' + InHand(k)' + InCounters(k)'
                                + snapshot'[k] + logged'[k]
  <2>1. InRing(k)' = InRing(k) /\ InHand(k)' = InHand(k)
    BY <1>1, <1>2, <1>3 DEF InRing, InHand
  <2>2. InCounters(k) = counters[k] /\ InCounters(k)' = counters[k]
    BY <1>1, <1>2 DEF InCounters
  <2>3. /\ received[k] = InRing(k) + InHand(k) + InCounters(k)
                             + snapshot[k] + logged[k]
        /\ InRing(k) \in Nat /\ InHand(k) \in Nat /\ counters[k] \in Nat
        /\ logged[k] \in Nat /\ snapshot[k] \in Nat
    BY WhereTypes DEF Counting, CountTypes, Accounted, WhereOK
  <2>4. logged'[k] = logged[k] + snapshot[k] /\ snapshot'[k] = 0
    BY <1>1, <1>4, Sums
  <2> QED
    BY <1>1, <2>1, <2>2, <2>3, <2>4
<1>7. Accounted'
  BY <1>6 DEF Accounted
<1> QED
  BY <1>5, <1>7 DEF Counting

LEMMA MonitorCounting ==
    ASSUME P!IInv, Positions, Counting, MonitorStep \/ LogNotOpened
    PROVE  Counting'
<1> USE ThreadsAssumption
<1>0. /\ monitor \in DOMAIN pc /\ monitor \in DOMAIN at
      /\ at'[consumer] = at[consumer]
  BY PcType, MonitorAlone
     DEF AloneStep, AllThreads, WorkerThreads, Positions, PositionTypes
<1>1. CASE Snapshot
  BY <1>1, SnapshotCounting
<1>2. CASE Reset
  BY <1>2, ResetCounting
<1>3. CASE WriteRow
  BY <1>3, WriteRowCounting
<1>4. CASE Pct
  <2>1. UNCHANGED <<at, counters, snapshot, received, logged, ok, output,
                    CB!Contents>>
    BY <1>4, PctEffect DEF Pct, count_vars, history_vars
  <2>2. PICK l \in PctLabels \cup {"idle"} : pc' = [pc EXCEPT ![monitor] = l]
    BY <1>4, PctEffect DEF Pct
  <2>3. pc'[consumer] = pc[consumer] /\ pc'[producer] = pc[producer]
    BY <2>2
  <2> QED
    BY <2>1, <2>3, CountingStill DEF Holding
<1>5. CASE \/ LogOpened \/ LogNotOpened \/ MonitorLoop
           \/ SnapshotLock \/ Occupancy
  <2>1. UNCHANGED <<counters, snapshot, received, logged, ok, output,
                    tail, count, data>>
    BY <1>5 DEF LogOpened, LogNotOpened, MonitorLoop, SnapshotLock, Occupancy,
                CB!PctCall, CB!Move, Move, count_vars, history_vars,
                buffer_vars, CB!slots, CB!results
  <2>2. UNCHANGED CB!Contents
    BY <2>1 DEF CB!Contents
  <2>3. pc'[consumer] = pc[consumer] /\ pc'[producer] = pc[producer]
    <3>1. CASE Occupancy
      BY <3>1 DEF Occupancy, CB!PctCall, CB!Move, CB!Goto
    <3>2. CASE LogOpened \/ LogNotOpened \/ MonitorLoop \/ SnapshotLock
      BY <3>2 DEF LogOpened, LogNotOpened, MonitorLoop, SnapshotLock, Move,
                  buffer_vars
    <3> QED
      BY <1>5, <3>1, <3>2
  <2>4. /\ at'[monitor] = "reset" <=> at[monitor] = "reset"
        /\ at'[monitor] \in {"occupancy", "write"} <=>
               at[monitor] \in {"occupancy", "write"}
    <3>1. CASE Occupancy
      BY <1>0, <3>1 DEF Occupancy, Goto
    <3>2. CASE LogOpened \/ LogNotOpened \/ MonitorLoop \/ SnapshotLock
      BY <1>0, <3>2 DEF LogOpened, LogNotOpened, MonitorLoop, SnapshotLock,
                        Move, Goto
    <3> QED
      BY <1>5, <3>1, <3>2
  <2> QED
    BY <1>0, <2>1, <2>2, <2>3, <2>4, CountingStill DEF Holding
<1> QED
  BY <1>1, <1>2, <1>3, <1>4, <1>5 DEF MonitorStep

LEMMA MainCounting ==
    ASSUME P!IInv, Positions, Counting, MainStep \/ CreateFailed
    PROVE  Counting'
<1>1. UNCHANGED <<counters, snapshot, received, logged, ok, output,
                  tail, count, data, pc>>
  BY DEF MainStep, CreateFailed, InitAppState, CreateMonitor, CreateConsumer,
         CreateProducer, Create, JoinProducer, JoinConsumer, JoinMonitor,
         Join, Destroy, Move, count_vars, history_vars, buffer_vars
<1>2. UNCHANGED CB!Contents
  BY <1>1 DEF CB!Contents
<1>3. /\ \/ UNCHANGED at[consumer]
         \/ at[consumer] = "absent" /\ at'[consumer] = "loop"
      /\ \/ UNCHANGED at[monitor]
         \/ at[monitor] = "absent" /\ at'[monitor] = "open_log"
  BY ThreadsAssumption
     DEF MainStep, CreateFailed, InitAppState, CreateMonitor, CreateConsumer,
         CreateProducer, Create, JoinProducer, JoinConsumer, JoinMonitor,
         Join, Destroy, Move, Goto, Positions, PositionTypes, Order,
         AllThreads, WorkerThreads
<1>4. Holding' <=> Holding
  BY <1>1, <1>3 DEF Holding
<1> QED
  BY <1>1, <1>2, <1>3, <1>4, CountingStill

LEMMA OtherCounting ==
    ASSUME P!IInv, Positions, Counting,
           \/ \E s \in Signals : Deliver(s) \/ DeliverIgnored(s) \/ Handle(s)
           \/ SpuriousWakeup \/ UNCHANGED vars
    PROVE  Counting'
<1> USE ThreadsAssumption
<1>1. UNCHANGED <<at, counters, snapshot, received, logged>>
  BY DEF Deliver, DeliverIgnored, Handle, SpuriousWakeup, vars, count_vars,
         history_vars
<1>2. /\ UNCHANGED <<ok, output, CB!Contents>>
      /\ UNCHANGED <<pc[producer], pc[consumer]>>
  <2>1. ASSUME NEW s \in Signals, Deliver(s)
        PROVE  /\ UNCHANGED <<ok, output, tail, count, data>>
               /\ UNCHANGED <<pc[producer], pc[consumer]>>
    BY <2>1 DEF Deliver, CB!SigTest, CB!Move, CB!Goto, CB!slots, CB!results,
                AllThreads, WorkerThreads
  <2>2. CASE \/ \E s \in Signals : DeliverIgnored(s)
             \/ SpuriousWakeup \/ UNCHANGED vars
    BY <2>2 DEF DeliverIgnored, SpuriousWakeup, CB!SpuriousWakeup, vars,
                buffer_vars, CB!slots, CB!results, CB!Contents
  <2>3. ASSUME NEW s \in Signals, Handle(s)
        PROVE  /\ UNCHANGED <<ok, output, CB!Contents>>
               /\ UNCHANGED <<pc[producer], pc[consumer]>>
    <3>1. UNCHANGED <<ok, output, CB!Contents>>
      BY <2>3, SigEffect DEF Handle
    <3>2. \E l \in {"sig_lock", "sig_broadcast", "sig_done"} :
              pc' = [pc EXCEPT ![s] = l]
      BY <2>3, SigEffect DEF Handle
    <3>3. UNCHANGED <<pc[producer], pc[consumer]>>
      BY <3>2 DEF AllThreads, WorkerThreads
    <3> QED
      BY <3>1, <3>3
  <2> QED
    BY <2>1, <2>2, <2>3 DEF CB!Contents
<1> QED
  BY <1>1, <1>2, CountingStill DEF Holding
-----------------------------------------------------------------------------
(***************************************************************************)
(* The inductive invariant.                                                *)
(***************************************************************************)
IInv ==
    /\ P!IInv
    /\ Positions
    /\ HandlersOK
    /\ CountersLocked
    /\ Counting
    /\ requested \in BOOLEAN

(* Every step of the process is a step of the buffer or leaves it alone,   *)
(* except the one that initialises it.                                     *)
LEMMA ProcessStepsBuffer ==
    [Next]_vars => BufferStep \/ InitAppState
<1> SUFFICES ASSUME [Next]_vars, ~ InitAppState PROVE BufferStep
  OBVIOUS
<1> USE DEF BufferStep
<1>1. CASE MainStep \/ CreateFailed
  BY <1>1 DEF MainStep, CreateFailed, CreateMonitor, CreateConsumer,
              CreateProducer, Create, JoinProducer, JoinConsumer,
              JoinMonitor, Join, Destroy, Move
<1>2. CASE ProducerStep \/ ContextFailed \/ Receive
  BY <1>2 DEF ProducerStep, ContextFailed, Receive, ContextCreated,
              ProducerLoop, Push, ServiceReturns, Move
<1>3. CASE ConsumerStep
  BY <1>3 DEF ConsumerStep, ConsumerLoop, Pop, PopReturned, CountLock,
              CountAdd, Move
<1>4. CASE MonitorStep \/ LogNotOpened
  BY <1>4 DEF MonitorStep, LogNotOpened, LogOpened, MonitorLoop, SnapshotLock,
              Snapshot, Reset, Occupancy, Pct, WriteRow, Move
<1>5. CASE \/ \E s \in Signals : Deliver(s) \/ DeliverIgnored(s) \/ Handle(s)
           \/ SpuriousWakeup \/ UNCHANGED vars
  BY <1>5 DEF Deliver, DeliverIgnored, Handle, SpuriousWakeup, vars
<1> QED
  BY <1>1, <1>2, <1>3, <1>4, <1>5 DEF Next, Exited

LEMMA InitIInv == Init => IInv
<1> SUFFICES ASSUME Init PROVE IInv
  OBVIOUS
<1> USE ThreadsAssumption DEF Init
<1>1. P!IInv
  BY BufferZeroed
<1>2. /\ pc[producer] = "start" /\ pc[consumer] = "idle"
      /\ pc[monitor] = "idle" /\ \A s \in Signals : pc[s] = "idle"
  BY DEF CB!Zeroed, CB!Threads, AllThreads, WorkerThreads
<1>3. Positions
  BY <1>2 DEF Positions, PositionTypes, Coupled, Order, EndedStopped, Labels,
              AllThreads, WorkerThreads, PushLabels
<1>4. HandlersOK
  BY <1>2 DEF HandlersOK, Interrupting, Grounded, QuietAtDestroy, Active,
              AllThreads, WorkerThreads
<1>5. CountersLocked
  BY DEF CountersLocked, AllThreads, WorkerThreads
<1>6. Counting
  <2>1. CountTypes /\ SnapshotTaken
    BY Sums DEF CountTypes, SnapshotTaken
  <2>2. Bounded
    <3>1. Total(Zero) = 0
      BY Sums DEF Total, Kinds
    <3> QED
      BY <1>2, <3>1, SizesAssumption DEF Bounded, PushLabels
  <2>3. ASSUME NEW k \in Kinds
        PROVE  received[k] = InRing(k) + InHand(k) + InCounters(k)
                                 + snapshot[k] + logged[k]
    <3>1. CB!Contents = <<>>
      BY <1>1, ContentsSequence, EmptySeq DEF CB!Zeroed
    <3>2. Places(<<>>, k) = {}
      BY DEF Places
    <3>3. InRing(k) = 0
      BY <1>1, <3>1, <3>2, WhereTypes, FS_EmptySet DEF WhereOK
    <3>4. InHand(k) = 0 /\ InCounters(k) = 0
      BY Sums DEF InHand, InCounters, AllThreads, WorkerThreads
    <3> QED
      BY <3>3, <3>4, Sums
  <2> QED
    BY <2>1, <2>2, <2>3 DEF Counting, Accounted
<1> QED
  BY <1>1, <1>3, <1>4, <1>5, <1>6 DEF IInv

LEMMA NextBuffer ==
    ASSUME IInv, [Next]_vars
    PROVE  P!IInv'
<1>1. CASE BufferStep
  BY <1>1, BufferInvariant DEF IInv
<1>2. CASE InitAppState
  <2>1. CB!Zeroed
    BY <1>2 DEF IInv, Positions, Order, InitAppState
  <2>2. CB!Zeroed'
    BY <1>2, <2>1 DEF InitAppState, CB!Zeroed
  <2>3. (keep_running \in BOOLEAN)'
    BY <1>2, Zenon DEF InitAppState
  <2> QED
    BY <2>2, <2>3, BufferZeroedNext
<1> QED
  BY <1>1, <1>2, ProcessStepsBuffer

LEMMA NextIInv == IInv /\ [Next]_vars => IInv'
<1> SUFFICES ASSUME IInv, [Next]_vars PROVE IInv'
  OBVIOUS
<1>0. P!IInv' /\ CountersLocked'
  BY NextBuffer, CountersLockedStep DEF IInv
<1>1. (requested \in BOOLEAN)'
  <2>1. UNCHANGED requested \/ requested' = TRUE
    BY DEF Next, MainStep, CreateFailed, InitAppState, CreateMonitor,
           CreateConsumer, CreateProducer, Create, JoinProducer,
           JoinConsumer, JoinMonitor, Join, Destroy, ProducerStep,
           ContextFailed, Receive, ContextCreated, ProducerLoop, Push,
           ServiceReturns, ConsumerStep, ConsumerLoop, Pop, PopReturned,
           CountLock, CountAdd, MonitorStep, LogNotOpened, LogOpened,
           MonitorLoop, SnapshotLock, Snapshot, Reset, Occupancy, Pct,
           WriteRow, Deliver, DeliverIgnored, Handle, SpuriousWakeup, Exited,
           Move, vars, signal_vars
  <2>2. CASE UNCHANGED requested
    BY <2>2 DEF IInv
  <2>3. CASE requested' = TRUE
    BY <2>3, Zenon
  <2> QED
    BY <2>1, <2>2, <2>3
<1>2. Positions' /\ HandlersOK' /\ Counting'
  <2> USE DEF IInv
  <2>1. CASE MainStep \/ CreateFailed
    BY <2>1, MainPositions, MainHandlers, MainCounting
  <2>2. CASE ProducerStep \/ ContextFailed \/ Receive
    BY <1>0, <2>2, ProducerPositions, ProducerAlone, AloneHandlers,
       ProducerCounting DEF WorkerThreads
  <2>3. CASE ConsumerStep
    BY <1>0, <2>3, ConsumerPositions, ConsumerAlone, AloneHandlers,
       ConsumerCounting DEF WorkerThreads
  <2>4. CASE MonitorStep \/ LogNotOpened
    BY <2>4, MonitorPositions, MonitorAlone, AloneHandlers, MonitorCounting
       DEF WorkerThreads
  <2>5. CASE \/ \E s \in Signals : \/ Deliver(s) \/ DeliverIgnored(s)
                                   \/ Handle(s)
             \/ SpuriousWakeup \/ UNCHANGED vars
    BY <2>5, OtherPositions, OtherCounting, OtherHandlers, DeliverHandlers,
       HandleHandlers
  <2> QED
    BY <2>1, <2>2, <2>3, <2>4, <2>5 DEF Next, Exited
<1> QED
  BY <1>0, <1>1, <1>2 DEF IInv

THEOREM Invariance == Spec => []IInv
BY InitIInv, NextIInv, PTL DEF Spec
-----------------------------------------------------------------------------
(* No counter and no row sum exceeds what was received.                    *)
LEMMA CountsBounded ==
    ASSUME IInv
    PROVE  /\ counters \in Counts /\ snapshot \in Counts
           /\ received \in Counts /\ logged \in Counts
<1>1. /\ CountTypes /\ SnapshotTaken /\ Total(received) <= MaxMessages
      /\ Accounted /\ P!IInv
  BY DEF IInv, Counting, Bounded
<1>2. \A k \in Kinds : /\ counters[k] \in Nat /\ snapshot[k] \in Nat
                       /\ received[k] \in Nat /\ logged[k] \in Nat
                       /\ InRing(k) \in Nat /\ InHand(k) \in Nat
                       /\ received[k] = InRing(k) + InHand(k) + InCounters(k)
                                            + snapshot[k] + logged[k]
  BY <1>1, WhereTypes DEF CountTypes, Accounted, WhereOK
<1>3. \A k \in Kinds : received[k] <= Total(received)
  BY <1>2 DEF Total, Kinds
<1>4. Total(received) \in Nat
  BY <1>2 DEF Total, Kinds
<1>5. ASSUME NEW k \in Kinds
      PROVE  /\ counters[k] <= received[k] /\ snapshot[k] <= received[k]
             /\ logged[k] <= received[k]
  <2>1. CASE at[monitor] = "reset"
    <3>1. counters[k] = snapshot[k] /\ InCounters(k) = 0
      BY <1>1, <2>1 DEF SnapshotTaken, InCounters
    <3> QED
      BY <1>2, <3>1
  <2>2. CASE at[monitor] # "reset"
    <3>1. InCounters(k) = counters[k]
      BY <2>2 DEF InCounters
    <3> QED
      BY <1>2, <3>1
  <2> QED
    BY <2>1, <2>2
<1>6. ASSUME NEW k \in Kinds
      PROVE  /\ counters[k] \in 0 .. MaxMessages
             /\ snapshot[k] \in 0 .. MaxMessages
             /\ received[k] \in 0 .. MaxMessages
             /\ logged[k] \in 0 .. MaxMessages
  BY <1>1, <1>2, <1>3, <1>4, <1>5, SizesAssumption
<1> QED
  BY <1>1, <1>6 DEF CountTypes, Counts

(* Every variable of the process keeps its type, and no counter, snapshot  *)
(* or sum of rows exceeds the number of messages received.                 *)
THEOREM TypeCorrect == Spec => []TypeOK
<1>1. IInv => TypeOK
  BY CountsBounded, SameType
     DEF IInv, P!IInv, Positions, PositionTypes, HandlersOK, Interrupting,
         CountersLocked, TypeOK
<1> QED
  BY <1>1, Invariance, PTL

(* Every message put in the ring is in exactly one place, in its category, *)
(* from the push to the row of the log, wherever the threads and the       *)
(* handlers are interrupted.                                               *)
THEOREM AllAccounted == Spec => []Accounted
<1>1. IInv => Accounted
  BY DEF IInv, Counting
<1> QED
  BY <1>1, Invariance, PTL

(* main destroys the mutexes and the conditions when nobody uses them,     *)
(* whichever threads the signal handlers run on.                           *)
THEOREM QuietDestroy == Spec => []DestroyIsQuiet
<1>1. IInv => DestroyIsQuiet
  <2> SUFFICES ASSUME IInv, at[main] = "destroy"
               PROVE  /\ mutex = Nobody
                      /\ counters_mutex = Nobody
                      /\ not_empty = {} /\ not_full = {}
                      /\ \A t \in WorkerThreads :
                             pc[t] \in {"start", "ended", "idle"}
                      /\ \A s \in Signals : ~ Active(s)
    BY DEF DestroyIsQuiet
  <2>1. \A s \in Signals : ~ Active(s)
    BY DEF IInv, HandlersOK, QuietAtDestroy
  <2>2. \A t \in WorkerThreads : at[t] = "ended"
    BY DEF IInv, Positions, Order, WorkerThreads
  <2>3. \A t \in WorkerThreads : pc[t] \in {"start", "ended", "idle"}
    BY <2>2, PcType DEF IInv, Positions, Coupled, WorkerThreads
  <2>4. counters_mutex = Nobody
    BY <2>2 DEF IInv, CountersLocked, WorkerThreads
  <2>5. P!Threads = WorkerThreads \cup Signals
    BY DEF P!Threads, WorkerThreads
  <2>6. \A t \in P!Threads : ~ P!HoldsMutex(t)
    BY <2>1, <2>3, <2>5, PcType DEF IInv, P!HoldsMutex, Active
  <2>7. mutex = Nobody
    BY <2>6 DEF IInv, P!IInv, P!TypeOK, P!MutualExclusion
  <2>8. not_empty = {} /\ not_full = {}
    BY <2>3 DEF IInv, P!IInv, P!TypeOK, P!Sleepers, WorkerThreads
  <2> QED
    BY <2>1, <2>3, <2>4, <2>7, <2>8
<1> QED
  BY <1>1, Invariance, PTL
=============================================================================
