------------------------------ MODULE ProdCons ------------------------------
(***************************************************************************)
(* Project_1/prod-cons.c: producers put items of work in a queue, LOOP     *)
(* each; consumers take them out, count them and execute them, for ever;   *)
(* main waits until all have been counted, deletes the queue and returns.  *)
(*                                                                         *)
(* A critical section is one step: what it touches is touched only under   *)
(* the same mutex.  pthread_cond_wait ends the step asleep, and the thread *)
(* tests again when it has been woken.  The signal that follows an unlock  *)
(* is a step of its own.  A slot stands for an item and its time stamp.    *)
(***************************************************************************)
EXTENDS Integers, Sequences, FiniteSets

CONSTANTS Producers, Consumers,
          LOOP,            \* the items that each producer makes
          QUEUESIZE,
          CreateMayFail,   \* whether pthread_create may fail
          NoItem           \* a variable that holds no item yet

Items == Producers \X (1 .. LOOP)

ASSUME ProdConsAssumption ==
    /\ IsFiniteSet(Producers) /\ IsFiniteSet(Consumers)
    /\ Producers \cap Consumers = {}
    /\ LOOP \in Nat
    /\ QUEUESIZE \in Nat \ {0}
    /\ CreateMayFail \in BOOLEAN
    /\ NoItem \notin Items

VARIABLES buf, head, tail, full, empty,
          notFull, notEmpty,   \* the threads asleep on the conditions
          pc,                  \* pc[t]: the next step of thread t
          i,                   \* i[p]: the item that producer p is at
          wf,                  \* wf[c]: the item that consumer c took last
          total_consumed,
          at,                  \* the position of main
          asleep,              \* main is asleep on done_cond
          executed             \* history: the items whose work was done

queue_vars == <<buf, head, tail, full, empty>>
main_vars == <<at, asleep>>
vars == <<queue_vars, notFull, notEmpty, pc, i, wf, total_consumed, main_vars,
          executed>>

Threads == Producers \cup Consumers

Slots == 0 .. QUEUESIZE - 1

NextSlot(s) == IF s + 1 = QUEUESIZE THEN 0 ELSE s + 1

Goto(t, label) == pc' = [pc EXCEPT ![t] = label]

Alive == at \notin {"exited", "crashed"}

(* pthread_cond_signal: wakes one of the sleepers, if there is one. *)
Signal(sleepers, sleepersAfter) ==
    \/ sleepers = {} /\ sleepersAfter = {}
    \/ \E t \in sleepers : sleepersAfter = sleepers \ {t}

Init ==
    /\ buf = [s \in Slots |-> NoItem]
    /\ head = 0 /\ tail = 0
    /\ full = FALSE /\ empty = TRUE
    /\ notFull = {} /\ notEmpty = {}
    /\ pc = [t \in Threads |-> "absent"]
    /\ i = [p \in Producers |-> 1]
    /\ wf = [c \in Consumers |-> NoItem]
    /\ total_consumed = 0
    /\ at = "create" /\ asleep = FALSE
    /\ executed = {}
-----------------------------------------------------------------------------
(* pthread_create, the consumers first; its result is not tested. *)
Create(t) ==
    /\ at = "create"
    /\ pc[t] = "absent"
    /\ t \in Producers => \A c \in Consumers : pc[c] # "absent"
    /\ \/ Goto(t, "loop")
       \/ CreateMayFail /\ Goto(t, "lost")
    /\ UNCHANGED <<queue_vars, notFull, notEmpty, i, wf, total_consumed,
                   main_vars, executed>>

Created ==
    /\ at = "create"
    /\ \A t \in Threads : pc[t] # "absent"
    /\ at' = "wait"
    /\ UNCHANGED <<queue_vars, notFull, notEmpty, pc, i, wf, total_consumed,
                   asleep, executed>>
-----------------------------------------------------------------------------
(* The full flag is left to the consumers. *)
FaultyQueueAdd(item) ==
    /\ buf' = [buf EXCEPT ![tail] = item]
    /\ tail' = NextSlot(tail)
    /\ full' = full
    /\ empty' = FALSE
    /\ UNCHANGED head

queueAdd(item) ==
    /\ buf' = [buf EXCEPT ![tail] = item]
    /\ tail' = NextSlot(tail)
    /\ full' = (full \/ NextSlot(tail) = head)
    /\ empty' = FALSE
    /\ UNCHANGED head

(* The empty flag is tested before head moves on. *)
FaultyQueueDel(c) ==
    /\ wf' = [wf EXCEPT ![c] = buf[head]]
    /\ head' = NextSlot(head)
    /\ empty' = (empty \/ head = tail)
    /\ full' = FALSE
    /\ UNCHANGED <<buf, tail>>

queueDel(c) ==
    /\ wf' = [wf EXCEPT ![c] = buf[head]]
    /\ head' = NextSlot(head)
    /\ empty' = (empty \/ NextSlot(head) = tail)
    /\ full' = FALSE
    /\ UNCHANGED <<buf, tail>>

(* producer: wait for an empty slot, or fill one. *)
Put(p) ==
    /\ Alive
    /\ pc[p] = "loop" /\ i[p] <= LOOP /\ p \notin notFull
    /\ \/ /\ full
          /\ notFull' = notFull \cup {p}
          /\ UNCHANGED <<queue_vars, pc>>
       \/ /\ ~ full
          /\ queueAdd(<<p, i[p]>>)
          /\ Goto(p, "signal")
          /\ UNCHANGED notFull
    /\ UNCHANGED <<notEmpty, i, wf, total_consumed, main_vars, executed>>

(* The signal is given only for the item that made the queue not empty. *)
FaultySignalNotEmpty(p) ==
    /\ Alive
    /\ pc[p] = "signal"
    /\ IF NextSlot(head) = tail THEN Signal(notEmpty, notEmpty')
                                ELSE UNCHANGED notEmpty
    /\ i' = [i EXCEPT ![p] = @ + 1]
    /\ Goto(p, "loop")
    /\ UNCHANGED <<queue_vars, notFull, wf, total_consumed, main_vars,
                   executed>>

SignalNotEmpty(p) ==
    /\ Alive
    /\ pc[p] = "signal"
    /\ Signal(notEmpty, notEmpty')
    /\ i' = [i EXCEPT ![p] = @ + 1]
    /\ Goto(p, "loop")
    /\ UNCHANGED <<queue_vars, notFull, wf, total_consumed, main_vars,
                   executed>>

(* consumer: wait for an item, or take one. *)
Get(c) ==
    /\ Alive
    /\ pc[c] = "loop" /\ c \notin notEmpty
    /\ \/ /\ empty
          /\ notEmpty' = notEmpty \cup {c}
          /\ UNCHANGED <<queue_vars, pc, wf>>
       \/ /\ ~ empty
          /\ queueDel(c)
          /\ Goto(c, "signal")
          /\ UNCHANGED notEmpty
    /\ UNCHANGED <<notFull, i, total_consumed, main_vars, executed>>

SignalNotFull(c) ==
    /\ Alive
    /\ pc[c] = "signal"
    /\ Signal(notFull, notFull')
    /\ Goto(c, "count")
    /\ UNCHANGED <<queue_vars, notEmpty, i, wf, total_consumed, main_vars,
                   executed>>

(* The items of one producer only. *)
FaultyExpected == LOOP

(* p_threads * LOOP *)
Expected == Cardinality(Producers) * LOOP

(* main is told one item too late. *)
FaultyCount(c) ==
    /\ Alive
    /\ pc[c] = "count"
    /\ total_consumed' = total_consumed + 1
    /\ asleep' = (asleep /\ total_consumed # Expected)
    /\ Goto(c, "work")
    /\ UNCHANGED <<queue_vars, notFull, notEmpty, i, wf, at, executed>>

(* The statistics, and the signal to main for the last item. *)
Count(c) ==
    /\ Alive
    /\ pc[c] = "count"
    /\ total_consumed' = total_consumed + 1
    /\ asleep' = (asleep /\ total_consumed' # Expected)
    /\ Goto(c, "work")
    /\ UNCHANGED <<queue_vars, notFull, notEmpty, i, wf, at, executed>>

Work(c) ==
    /\ Alive
    /\ pc[c] = "work"
    /\ executed' = executed \cup {wf[c]}
    /\ Goto(c, "loop")
    /\ UNCHANGED <<queue_vars, notFull, notEmpty, i, wf, total_consumed,
                   main_vars>>

(* The wait of main for the last item. *)
MainWait ==
    /\ at = "wait" /\ ~ asleep
    /\ \/ /\ total_consumed < Expected
          /\ asleep' = TRUE
          /\ UNCHANGED at
       \/ /\ total_consumed >= Expected
          /\ at' = "delete"
          /\ UNCHANGED asleep
    /\ UNCHANGED <<queue_vars, notFull, notEmpty, pc, i, wf, total_consumed,
                   executed>>

MainStep(here, there) ==
    /\ at = here
    /\ at' = there
    /\ UNCHANGED <<queue_vars, notFull, notEmpty, pc, i, wf, total_consumed,
                   asleep, executed>>

(* The conditions are destroyed with the queue.  pthread_cond_destroy does *)
(* not expect sleepers: it may wait for them, and only a spurious wakeup   *)
(* would release it, or it may return all the same.                        *)
DestroyBlocks ==
    /\ notFull \cup notEmpty # {}
    /\ MainStep("delete", "blocked")

queueDelete ==
    \/ MainStep("delete", "deleted")
    \/ notFull \cup notEmpty = {} /\ MainStep("blocked", "deleted")

(* The other threads end with the process. *)
Exit == MainStep("deleted", "exited")

(* A thread uses the queue that main has deleted.  Its memory may still be *)
(* intact, and the thread goes on as before, or it may not.                *)
Crash ==
    /\ \/ \E t \in Threads : pc[t] = "signal"
       \/ \E c \in Consumers : pc[c] = "loop" /\ c \notin notEmpty
    /\ MainStep("blocked", "crashed") \/ MainStep("deleted", "crashed")

SpuriousWakeup ==
    /\ Alive
    /\ \/ /\ \E p \in notFull : notFull' = notFull \ {p}
          /\ UNCHANGED <<notEmpty, asleep>>
       \/ /\ \E c \in notEmpty : notEmpty' = notEmpty \ {c}
          /\ UNCHANGED <<notFull, asleep>>
       \/ asleep /\ asleep' = FALSE /\ UNCHANGED <<notFull, notEmpty>>
    /\ UNCHANGED <<queue_vars, pc, i, wf, total_consumed, at, executed>>

Ended == ~ Alive /\ UNCHANGED vars

ProducerStep(p) == Put(p) \/ SignalNotEmpty(p)

ConsumerStep(c) == Get(c) \/ SignalNotFull(c) \/ Count(c) \/ Work(c)

Next ==
    \/ \E t \in Threads : Create(t)
    \/ \E p \in Producers : ProducerStep(p)
    \/ \E c \in Consumers : ConsumerStep(c)
    \/ Created \/ MainWait \/ DestroyBlocks \/ queueDelete \/ Exit \/ Crash
    \/ SpuriousWakeup
    \/ Ended

Spec == Init /\ [][Next]_vars

(* The scheduler runs every thread, and none is refused a mutex for ever. *)
FairSpec ==
    /\ Spec
    /\ \A t \in Threads : WF_vars(Create(t))
    /\ \A p \in Producers : SF_vars(ProducerStep(p))
    /\ \A c \in Consumers : SF_vars(ConsumerStep(c))
    /\ WF_vars(Created \/ MainWait \/ queueDelete \/ Exit)
-----------------------------------------------------------------------------
(* How many items are in the queue: the two flags tell full from empty.    *)
Size ==
    IF full THEN QUEUESIZE
    ELSE IF empty THEN 0
    ELSE (tail - head) % QUEUESIZE

(* Every variable keeps its type; the flags are never both set, and one of *)
(* them is set exactly when the indices meet.                              *)
TypeOK ==
    /\ buf \in [Slots -> Items \cup {NoItem}]
    /\ head \in Slots /\ tail \in Slots
    /\ full \in BOOLEAN /\ empty \in BOOLEAN
    /\ ~ (full /\ empty)
    /\ full \/ empty <=> head = tail
    /\ notFull \subseteq Producers
    /\ notEmpty \subseteq Consumers
    /\ pc \in [Threads -> {"absent", "lost", "loop", "signal", "count",
                           "work"}]
    /\ \A p \in Producers : pc[p] \notin {"count", "work"}
    /\ i \in [Producers -> 1 .. LOOP + 1]
    /\ \A p \in Producers : pc[p] = "signal" => i[p] <= LOOP
    /\ wf \in [Consumers -> Items \cup {NoItem}]
    /\ total_consumed \in Nat
    /\ at \in {"create", "wait", "delete", "blocked", "deleted", "exited",
              "crashed"}
    /\ asleep \in BOOLEAN
    /\ executed \subseteq Items \cup {NoItem}

AwakeConsumers == {c \in Consumers : pc[c] = "loop" /\ c \notin notEmpty}

(* A producer that has made all its items will not fill a slot again. *)
AwakeProducers ==
    {p \in Producers : pc[p] = "loop" /\ i[p] <= LOOP /\ p \notin notFull}

SignallingProducers == {p \in Producers : pc[p] = "signal"}

SignallingConsumers == {c \in Consumers : pc[c] = "signal"}

(* The signals come after the unlock, one per item, and other threads may  *)
(* slip in between.  Still none is missed: while a consumer sleeps, every  *)
(* item has a consumer about to look for it or a signal on its way, and    *)
(* while a producer sleeps so has every free slot.                         *)
NoLostWakeup ==
    /\ notEmpty # {} =>
           Size <= Cardinality(AwakeConsumers)
                       + Cardinality(SignallingProducers)
    /\ notFull # {} =>
           QUEUESIZE - Size <= Cardinality(AwakeProducers)
                       + Cardinality(SignallingConsumers)

InFlight == {wf[c] : c \in {d \in Consumers : pc[d] \in {"signal", "count",
                                                         "work"}}}

(* When main deletes the queue every item has been counted: the queue is   *)
(* empty, and an item is either executed or in the hands of a consumer     *)
(* that has counted it.                                                    *)
DeletedWhenCounted ==
    at \in {"delete", "blocked", "deleted"} =>
        /\ Size = 0
        /\ total_consumed = Expected
        /\ executed \cup InFlight = Items
        /\ \A c \in Consumers : pc[c] \notin {"signal", "count"}

(* Provided that every producer and one consumer could be created, main    *)
(* sees the last item counted.                                             *)
Completes ==
    <>(\/ at = "delete"
       \/ \E p \in Producers : pc[p] = "lost"
       \/ \A c \in Consumers : pc[c] = "lost")

(* The items in the queue, oldest first. *)
Contents == [n \in 1 .. Size |-> buf[(head + n - 1) % QUEUESIZE]]

Queue == INSTANCE BoundedQueue WITH
             Elements <- Items \cup {NoItem},
             Getters <- Consumers,
             Capacity <- QUEUESIZE,
             queue <- Contents,
             got <- wf

(* The queue with its flags implements a bounded FIFO.                     *)
ImplementsBoundedQueue == Queue!Spec
=============================================================================
