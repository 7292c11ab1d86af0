----------------------------- MODULE Telemetry -----------------------------
(***************************************************************************)
(* The process of Final_Project: main, the three threads it creates, the   *)
(* circular buffer between two of them, the message counters, and the      *)
(* signals that shut the process down.                                     *)
(*                                                                         *)
(* The buffer is CircularBuffer, with one producer, one consumer and one   *)
(* monitor; pc is the position of a thread inside the buffer's functions,  *)
(* at its position in its own code.  The connection to the server is left  *)
(* to ProducerConn: here lws_service delivers messages when it likes.      *)
(*                                                                         *)
(* A signal handler runs on a thread, which does not move until the        *)
(* handler returns.  The kernel may pick any thread in SignalThreads, and  *)
(* a second signal may interrupt the handler of the first.                 *)
(***************************************************************************)
EXTENDS Integers, Sequences, FiniteSets

CONSTANTS main, monitor, consumer, producer,   \* the threads
          Signals,          \* SIGINT and SIGTERM: one delivery of each
          SignalThreads,    \* the threads on which a handler may run
          ContextMayFail,   \* whether lws_create_context may fail
          Payloads, BufferCapacity, MaxPayloadSize,
          Kind,             \* Kind[m]: the category of message m, when whole
          MaxMessages,      \* bound: the messages that lws delivers
          NoPayload, NoMsg, Nobody

Kinds == {"commit", "identity", "account", "info"}

WorkerThreads == {monitor, consumer, producer}

AllThreads == {main} \cup WorkerThreads

ASSUME ThreadsAssumption ==
    /\ main \notin WorkerThreads
    /\ monitor # consumer /\ monitor # producer /\ consumer # producer
    /\ Signals \cap AllThreads = {}
    /\ Nobody \notin AllThreads \cup Signals
    /\ SignalThreads \subseteq AllThreads

ASSUME SizesAssumption ==
    /\ BufferCapacity \in Nat \ {0}
    /\ MaxPayloadSize \in Nat \ {0}
    /\ MaxMessages \in Nat

ASSUME PayloadsAssumption ==
    /\ NoPayload \notin Payloads
    /\ \A p \in Payloads : /\ p.len \in Nat \ {0}
                           /\ p.text \in 0 .. p.len
                           /\ Kind[p.msg] \in Kinds

VARIABLES head, tail, count, data, mutex, not_empty, not_full, keep_running,
          pc, payload, output, ok, occupancy,      \* see CircularBuffer
          at,              \* at[t]: the position of thread t in its own code
          counters,        \* the message counters
          counters_mutex,  \* the thread that holds it, or Nobody
          snapshot,        \* the monitor's copy of the counters
          interrupted,     \* interrupted[s]: the thread or handler on which the
                           \* handler of signal s runs, or Nobody
          requested,       \* history: a signal was delivered
          received,        \* history: messages put in the ring, by category
          logged           \* history: the sums of the rows of the log

buffer_vars == <<head, tail, count, data, mutex, not_empty, not_full,
                 keep_running, pc, payload, output, ok, occupancy>>
count_vars == <<counters, counters_mutex, snapshot>>
signal_vars == <<interrupted, requested>>
history_vars == <<received, logged>>
vars == <<buffer_vars, at, count_vars, signal_vars, history_vars>>

CB == INSTANCE CircularBuffer WITH Producers <- {producer},
                                   Consumers <- {consumer},
                                   Monitors <- {monitor},
                                   Handlers <- Signals

Zero == [k \in Kinds |-> 0]

Plus(f, g) == [k \in Kinds |-> f[k] + g[k]]

One(kind) == [Zero EXCEPT ![kind] = 1]

Total(f) == f["commit"] + f["identity"] + f["account"] + f["info"]

Goto(t, label) == at' = [at EXCEPT ![t] = label]

Alive == at[main] # "exited"

Active(s) == pc[s] \in {"sig_clear", "sig_lock", "sig_broadcast"}

(* A thread or a handler runs while no handler has interrupted it. *)
Running(x) == Alive /\ \A s \in Signals : interrupted[s] # x

(* Thread t moves on in its own code, and nothing else changes. *)
Move(t, here, there) ==
    /\ at[t] = here
    /\ Running(t)
    /\ Goto(t, there)
    /\ UNCHANGED <<buffer_vars, count_vars, signal_vars, history_vars>>

Init ==
    /\ CB!Zeroed
    /\ keep_running = FALSE
    /\ at = [t \in AllThreads |-> IF t = main THEN "init" ELSE "absent"]
    /\ counters = Zero
    /\ counters_mutex = Nobody
    /\ snapshot = Zero
    /\ interrupted = [s \in Signals |-> Nobody]
    /\ requested = FALSE
    /\ received = Zero
    /\ logged = Zero
-----------------------------------------------------------------------------
(***************************************************************************)
(* main, from the point where the signal handlers are installed            *)
(***************************************************************************)
InitAppState ==
    /\ at[main] = "init"
    /\ Running(main)
    /\ keep_running' = TRUE
    /\ Goto(main, "create_monitor")
    /\ UNCHANGED <<head, tail, count, data, mutex, not_empty, not_full, pc,
                   payload, output, ok, occupancy, count_vars, signal_vars,
                   history_vars>>

(* pthread_create of thread t, which starts at label first. *)
Create(t, here, first, next) ==
    /\ at[main] = here
    /\ Running(main)
    /\ at' = [at EXCEPT ![main] = next, ![t] = first]
    /\ UNCHANGED <<buffer_vars, count_vars, signal_vars, history_vars>>

CreateMonitor ==
    Create(monitor, "create_monitor", "open_log", "create_consumer")

CreateConsumer ==
    Create(consumer, "create_consumer", "loop", "create_producer")

CreateProducer ==
    Create(producer, "create_producer", "create_context", "join_producer")

(* main returns 1 at the first pthread_create that fails: the process      *)
(* ends, with the threads it has created wherever they are.                *)
CreateFailed ==
    \E here \in {"create_monitor", "create_consumer", "create_producer"} :
        Move(main, here, "exited")

Join(t, here, next) == at[t] = "ended" /\ Move(main, here, next)

JoinProducer == Join(producer, "join_producer", "join_consumer")

(* main does not wait for the consumer. *)
FaultyJoinConsumer == Move(main, "join_consumer", "join_monitor")

JoinConsumer == Join(consumer, "join_consumer", "join_monitor")

JoinMonitor == Join(monitor, "join_monitor", "destroy")

(* destroy_app_state, then return 0. *)
Destroy == Move(main, "destroy", "exited")

MainStep ==
    \/ InitAppState \/ CreateMonitor \/ CreateConsumer \/ CreateProducer
    \/ JoinProducer \/ JoinConsumer \/ JoinMonitor \/ Destroy
-----------------------------------------------------------------------------
(***************************************************************************)
(* producer_thread, its connection aside                                   *)
(***************************************************************************)
ContextCreated ==
    /\ at[producer] = "create_context"
    /\ Running(producer)
    /\ CB!ContextCreated(producer)
    /\ Goto(producer, "loop")
    /\ UNCHANGED <<count_vars, signal_vars, history_vars>>

ContextFailed ==
    /\ ContextMayFail
    /\ at[producer] = "create_context"
    /\ Running(producer)
    /\ CB!ContextFailed(producer)
    /\ Goto(producer, "ended")
    /\ UNCHANGED <<count_vars, signal_vars, history_vars>>

(* The condition of the event loop. *)
ProducerLoop ==
    Move(producer, "loop", IF keep_running THEN "service" ELSE "ended")

(* lws_service calls back with a message. *)
Receive ==
    /\ at[producer] = "service"
    /\ Running(producer)
    /\ Total(received) < MaxMessages
    /\ CB!PushCall(producer)
    /\ UNCHANGED <<at, count_vars, signal_vars, history_vars>>

(* A string is a whole JSON text only if it is all of the payload that it  *)
(* was copied from.  Anything less does not parse, and counts as info.     *)
Category(s) ==
    IF \E p \in Payloads : p.msg = s.msg /\ p.len = s.len /\ p.text = s.len
    THEN Kind[s.msg]
    ELSE "info"

(* buffer_push, called from the callback. *)
Push ==
    /\ Running(producer)
    /\ CB!PushStep(producer)
    /\ received' = IF pc[producer] = "push_copy"
                   THEN Plus(received,
                             One(Category(CB!CString(payload[producer]))))
                   ELSE received
    /\ UNCHANGED <<at, count_vars, signal_vars, logged>>

ServiceReturns == pc[producer] = "idle" /\ Move(producer, "service", "loop")

ProducerStep == ContextCreated \/ ProducerLoop \/ Push \/ ServiceReturns
-----------------------------------------------------------------------------
(***************************************************************************)
(* consumer_thread                                                         *)
(***************************************************************************)
(* The loop tests the ring, not the flag. *)
FaultyConsumerLoop ==
    /\ at[consumer] = "loop"
    /\ Running(consumer)
    /\ CB!PopCall(consumer)
    /\ Goto(consumer, "popping")
    /\ UNCHANGED <<count_vars, signal_vars, history_vars>>

ConsumerLoop ==
    /\ at[consumer] = "loop"
    /\ Running(consumer)
    /\ \/ /\ keep_running
          /\ CB!PopCall(consumer)
          /\ Goto(consumer, "popping")
       \/ /\ ~ keep_running
          /\ Goto(consumer, "ended")
          /\ UNCHANGED buffer_vars
    /\ UNCHANGED <<count_vars, signal_vars, history_vars>>

Pop ==
    /\ Running(consumer)
    /\ CB!PopStep(consumer)
    /\ UNCHANGED <<at, count_vars, signal_vars, history_vars>>

PopReturned ==
    /\ pc[consumer] = "idle"
    /\ Move(consumer, "popping", IF ok[consumer] THEN "parse" ELSE "loop")

(* parse_and_categorize: parse, then take the lock. *)
CountLock ==
    /\ at[consumer] = "parse"
    /\ Running(consumer)
    /\ counters_mutex = Nobody
    /\ counters_mutex' = consumer
    /\ Goto(consumer, "add")
    /\ UNCHANGED <<buffer_vars, counters, snapshot, signal_vars, history_vars>>

(* The return of the parse error path forgets to unlock. *)
FaultyCountAdd ==
    /\ at[consumer] = "add"
    /\ Running(consumer)
    /\ counters' = Plus(counters, One(Category(output[consumer])))
    /\ counters_mutex' = IF Category(output[consumer]) = "info"
                         THEN counters_mutex ELSE Nobody
    /\ Goto(consumer, "loop")
    /\ UNCHANGED <<buffer_vars, snapshot, signal_vars, history_vars>>

CountAdd ==
    /\ at[consumer] = "add"
    /\ Running(consumer)
    /\ counters' = Plus(counters, One(Category(output[consumer])))
    /\ counters_mutex' = Nobody
    /\ Goto(consumer, "loop")
    /\ UNCHANGED <<buffer_vars, snapshot, signal_vars, history_vars>>

ConsumerStep == ConsumerLoop \/ Pop \/ PopReturned \/ CountLock \/ CountAdd
-----------------------------------------------------------------------------
(***************************************************************************)
(* monitor_thread, its clock and the CPU figures aside                     *)
(***************************************************************************)
LogOpened == Move(monitor, "open_log", "loop")

(* Without a log the monitor ends, and the rest of the process goes on. *)
LogNotOpened == Move(monitor, "open_log", "ended")

MonitorLoop ==
    Move(monitor, "loop", IF keep_running THEN "asleep" ELSE "ended")

(* The counters are read and reset without the mutex. *)
FaultySnapshotLock == Move(monitor, "asleep", "snapshot")

(* The monitor wakes up, samples the CPU and takes the lock. *)
SnapshotLock ==
    /\ at[monitor] = "asleep"
    /\ Running(monitor)
    /\ counters_mutex = Nobody
    /\ counters_mutex' = monitor
    /\ Goto(monitor, "snapshot")
    /\ UNCHANGED <<buffer_vars, counters, snapshot, signal_vars, history_vars>>

Snapshot ==
    /\ at[monitor] = "snapshot"
    /\ Running(monitor)
    /\ snapshot' = counters
    /\ Goto(monitor, "reset")
    /\ UNCHANGED <<buffer_vars, counters, counters_mutex, signal_vars,
                   history_vars>>

(* The info counter is not reset. *)
FaultyReset ==
    /\ at[monitor] = "reset"
    /\ Running(monitor)
    /\ counters' = [Zero EXCEPT !["info"] = counters["info"]]
    /\ counters_mutex' = Nobody
    /\ Goto(monitor, "occupancy")
    /\ UNCHANGED <<buffer_vars, snapshot, signal_vars, history_vars>>

Reset ==
    /\ at[monitor] = "reset"
    /\ Running(monitor)
    /\ counters' = Zero
    /\ counters_mutex' = Nobody
    /\ Goto(monitor, "occupancy")
    /\ UNCHANGED <<buffer_vars, snapshot, signal_vars, history_vars>>

Occupancy ==
    /\ at[monitor] = "occupancy"
    /\ Running(monitor)
    /\ CB!PctCall(monitor)
    /\ Goto(monitor, "write")
    /\ UNCHANGED <<count_vars, signal_vars, history_vars>>

Pct ==
    /\ Running(monitor)
    /\ CB!PctStep(monitor)
    /\ UNCHANGED <<at, count_vars, signal_vars, history_vars>>

(* The row is appended to the log. *)
WriteRow ==
    /\ at[monitor] = "write"
    /\ pc[monitor] = "idle"
    /\ Running(monitor)
    /\ logged' = Plus(logged, snapshot)
    /\ snapshot' = Zero
    /\ Goto(monitor, "loop")
    /\ UNCHANGED <<buffer_vars, counters, counters_mutex, signal_vars,
                   received>>

MonitorStep ==
    \/ LogOpened \/ MonitorLoop \/ SnapshotLock \/ Snapshot \/ Reset
    \/ Occupancy \/ Pct \/ WriteRow
-----------------------------------------------------------------------------
(***************************************************************************)
(* Signals                                                                 *)
(***************************************************************************)
Interruptible ==
    {t \in SignalThreads : at[t] \notin {"absent", "ended"}}
        \cup {s \in Signals : Active(s)}

(* The handler of s starts on a thread, or inside another handler, and     *)
(* finds keep_running set.                                                 *)
Deliver(s) ==
    /\ \E x \in Interruptible :
           /\ Running(x)
           /\ interrupted' = [interrupted EXCEPT ![s] = x]
    /\ CB!SigTest(s)
    /\ requested' = TRUE
    /\ UNCHANGED <<at, count_vars, history_vars>>

(* It finds keep_running clear, and returns at once. *)
DeliverIgnored(s) ==
    /\ Alive
    /\ pc[s] = "idle"
    /\ ~ keep_running
    /\ requested' = TRUE
    /\ UNCHANGED <<buffer_vars, at, count_vars, interrupted, history_vars>>

Handle(s) ==
    /\ Running(s)
    /\ CB!SigStep(s)
    /\ interrupted' = IF pc[s] = "sig_broadcast"
                      THEN [interrupted EXCEPT ![s] = Nobody]
                      ELSE interrupted
    /\ UNCHANGED <<at, count_vars, requested, history_vars>>
-----------------------------------------------------------------------------
SpuriousWakeup ==
    /\ Alive
    /\ CB!SpuriousWakeup
    /\ UNCHANGED <<at, count_vars, signal_vars, history_vars>>

(* The process is gone. *)
Exited ==
    /\ ~ Alive
    /\ UNCHANGED vars

Next ==
    \/ MainStep \/ CreateFailed
    \/ ProducerStep \/ ContextFailed \/ Receive
    \/ ConsumerStep
    \/ MonitorStep \/ LogNotOpened
    \/ \E s \in Signals : Deliver(s) \/ DeliverIgnored(s) \/ Handle(s)
    \/ SpuriousWakeup
    \/ Exited

Spec == Init /\ [][Next]_vars

(* The scheduler runs every thread that can run again and again, and a     *)
(* thread that again and again finds a mutex free gets it at last.  Calls  *)
(* to the system return: the sleep of the monitor, the creation of a       *)
(* thread, and lws_service even if messages keep coming.  Nothing is       *)
(* assumed of the network, of signals, of spurious wakeups or of failures. *)
FairSpec ==
    /\ Spec
    /\ SF_vars(MainStep)
    /\ SF_vars(ProducerStep)
    /\ SF_vars(ServiceReturns)
    /\ SF_vars(ConsumerStep)
    /\ SF_vars(MonitorStep)
    /\ \A s \in Signals : SF_vars(Handle(s))
-----------------------------------------------------------------------------
Labels == [main |-> {"init", "create_monitor", "create_consumer",
                     "create_producer", "join_producer", "join_consumer",
                     "join_monitor", "destroy", "exited"},
           producer |-> {"absent", "create_context", "loop", "service",
                         "ended"},
           consumer |-> {"absent", "loop", "popping", "parse", "add", "ended"},
           monitor |-> {"absent", "open_log", "loop", "asleep", "snapshot",
                        "reset", "occupancy", "write", "ended"}]

Counts == [Kinds -> 0 .. MaxMessages]

(* Every variable keeps its type; no counter, row sum or snapshot exceeds  *)
(* MaxMessages.  That none exceeds what was received until then follows    *)
(* from Accounted.                                                         *)
TypeOK ==
    /\ CB!TypeOK
    /\ DOMAIN at = AllThreads
    /\ at[main] \in Labels.main
    /\ at[producer] \in Labels.producer
    /\ at[consumer] \in Labels.consumer
    /\ at[monitor] \in Labels.monitor
    /\ counters \in Counts
    /\ counters_mutex \in {consumer, monitor, Nobody}
    /\ snapshot \in Counts
    /\ interrupted \in [Signals -> AllThreads \cup Signals \cup {Nobody}]
    /\ requested \in BOOLEAN
    /\ received \in Counts
    /\ logged \in Counts

(* The messages of category k in the ring. *)
InRing(k) ==
    Cardinality({i \in DOMAIN CB!Contents : Category(CB!Contents[i]) = k})

(* 1 if the consumer holds a message of category k not yet counted. *)
InHand(k) ==
    IF /\ \/ at[consumer] \in {"parse", "add"}
          \/ at[consumer] = "popping" /\ pc[consumer] = "idle" /\ ok[consumer]
       /\ Category(output[consumer]) = k
    THEN 1 ELSE 0

(* Between its two steps on the counters, the monitor's snapshot and the   *)
(* counters are two copies of the same messages.                           *)
InCounters(k) == IF at[monitor] = "reset" THEN 0 ELSE counters[k]

(* Every message put in the ring is, from then on, in exactly one place:   *)
(* the ring, the consumer's hands, the counters, the monitor's snapshot or *)
(* the log; none is counted twice or in another category.                  *)
Accounted ==
    \A k \in Kinds :
        received[k] = InRing(k) + InHand(k) + InCounters(k) + snapshot[k]
                          + logged[k]

(* When main destroys the mutexes and the conditions, nobody holds one,    *)
(* sleeps on one, or is inside a handler about to use one.                 *)
DestroyIsQuiet ==
    at[main] = "destroy" =>
        /\ mutex = Nobody
        /\ counters_mutex = Nobody
        /\ not_empty = {} /\ not_full = {}
        /\ \A t \in WorkerThreads : pc[t] \in {"start", "ended", "idle"}
        /\ \A s \in Signals : ~ Active(s)

(* Once the flag that init_app_state set is cleared, by a handler or by    *)
(* the producer, every thread ends and main returns.                       *)
ShutdownTerminates ==
    (at[main] # "init" /\ ~ keep_running) ~> (at[main] = "exited")

(* A signal delivered once the handlers are installed stops the process.   *)
SignalStops == requested ~> (at[main] = "exited")

(* While the process runs and the monitor has its log, every message put   *)
(* in the ring reaches a row of the log, in its category.                  *)
MessagesLogged ==
    \A k \in Kinds : \A n \in 1 .. MaxMessages :
        received[k] >= n ~> \/ logged[k] >= n
                            \/ ~ keep_running
                            \/ at[monitor] = "ended"
                            \/ at[main] = "exited"
=============================================================================
