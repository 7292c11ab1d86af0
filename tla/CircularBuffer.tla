--------------------------- MODULE CircularBuffer ---------------------------
(***************************************************************************)
(* The circular buffer of Final_Project/src/buffer.c, called by any number *)
(* of threads: buffer_push, buffer_pop, get_buffer_occupancy_pct, and the  *)
(* signal handler of main.c, the one other piece of code that takes the    *)
(* buffer's mutex.                                                         *)
(*                                                                         *)
(* Grain of atomicity.  A step ends where another thread can observe or    *)
(* influence the next one: at every acquisition of the mutex, at every     *)
(* read or write of keep_running (volatile, read and cleared without the   *)
(* mutex) and at the wait on a condition variable.  What runs under the    *)
(* mutex between two such points is one step, and ends with the unlock.    *)
(*                                                                         *)
(* A condition variable is the set of the threads asleep on it.            *)
(* pthread_cond_wait releases the mutex and falls asleep in one step, and  *)
(* its caller must take the mutex again once it has been woken, by a       *)
(* signal, by a broadcast or for no reason (a spurious wakeup).            *)
(***************************************************************************)
EXTENDS Integers, Sequences, FiniteSets

CONSTANTS Producers,        \* threads that call buffer_push
          Consumers,        \* threads that call buffer_pop
          Monitors,         \* threads that call get_buffer_occupancy_pct
          Handlers,         \* activations of the signal handler
          Payloads,         \* what lws hands to the receive callback
          BufferCapacity,   \* BUFFER_CAPACITY
          MaxPayloadSize,   \* MAX_PAYLOAD_SIZE
          NoPayload,        \* no push in progress
          NoMsg,            \* the content of a zeroed slot
          Nobody            \* the mutex is free

Threads == Producers \cup Consumers \cup Monitors \cup Handlers

(***************************************************************************)
(* A payload is abstracted to the message it comes from, the length lws    *)
(* reports for it, and the number of bytes before its first NUL byte (its  *)
(* length when it has none): all that memcpy and strlen can tell apart.    *)
(***************************************************************************)
ASSUME ThreadsAssumption ==
    /\ IsFiniteSet(Producers)
    /\ IsFiniteSet(Consumers)
    /\ Producers \cap Consumers = {}
    /\ Producers \cap Monitors = {}
    /\ Producers \cap Handlers = {}
    /\ Consumers \cap Monitors = {}
    /\ Consumers \cap Handlers = {}
    /\ Monitors \cap Handlers = {}
    /\ Nobody \notin Threads

ASSUME SizesAssumption ==
    /\ BufferCapacity \in Nat \ {0}
    /\ MaxPayloadSize \in Nat \ {0}

ASSUME PayloadsAssumption ==
    /\ NoPayload \notin Payloads
    /\ \A p \in Payloads : /\ p.len \in Nat \ {0}
                           /\ p.text \in 0 .. p.len

VARIABLES head,          \* write index
          tail,          \* read index
          count,         \* current occupancy
          data,          \* the slots
          mutex,         \* the thread that holds buffer.mutex, or Nobody
          not_empty,     \* the consumers asleep on the condition not_empty
          not_full,      \* the producers asleep on the condition not_full
          keep_running,  \* cleared, never set again, to shut down
          pc,            \* pc[t]: the next step of thread t
          payload,       \* payload[p]: the argument of p's push
          output,        \* output[c]: the string that c's last pop copied out
          ok,            \* ok[t]: the result of t's last push or pop
          occupancy      \* occupancy[m]: the count that monitor m read last

slots == <<head, tail, count, data>>
results == <<payload, output, ok, occupancy>>
vars == <<slots, mutex, not_empty, not_full, keep_running, pc, results>>

Slots == 0 .. BufferCapacity - 1

(* The C strings that a slot can hold: never longer than the slot. *)
Strings == [msg : {p.msg : p \in Payloads} \cup {NoMsg},
            len : 0 .. MaxPayloadSize - 1]

EmptyString == [msg |-> NoMsg, len |-> 0]

Smaller(m, n) == IF m < n THEN m ELSE n
-----------------------------------------------------------------------------
(* Definitions named Faulty... are slips that would be easy to make in the *)
(* code.  No action uses them: a property is worth keeping when putting    *)
(* the faulty form in the place of the definition below it breaks it.      *)

(* No room is left for the terminating NUL. *)
FaultyCString(p) ==
    LET copy_len == Smaller(p.len, MaxPayloadSize)
    IN  [msg |-> p.msg, len |-> Smaller(p.text, copy_len)]

(* What a slot holds of payload p: copy_len bytes are copied and a NUL     *)
(* follows them, and the reader's strlen stops at the first NUL.           *)
CString(p) ==
    LET copy_len == Smaller(p.len, MaxPayloadSize - 1)
    IN  [msg |-> p.msg, len |-> Smaller(p.text, copy_len)]

(* The index runs off the end of the array. *)
FaultyNextSlot(i) == i + 1

(* The index after i. *)
NextSlot(i) == (i + 1) % BufferCapacity

Lock(t) ==
    /\ mutex = Nobody
    /\ mutex' = t

Unlock == mutex' = Nobody

Goto(t, label) == pc' = [pc EXCEPT ![t] = label]

(* Thread t moves on, and nothing else changes. *)
Move(t, here, there) ==
    /\ pc[t] = here
    /\ Goto(t, there)
    /\ UNCHANGED <<slots, mutex, not_empty, not_full, keep_running, results>>

(* Thread t takes the mutex as it moves on. *)
Acquire(t, here, there) ==
    /\ pc[t] = here
    /\ Lock(t)
    /\ Goto(t, there)
    /\ UNCHANGED <<slots, not_empty, not_full, keep_running, results>>

(* pthread_cond_signal: wakes one of the sleepers, if there is one. *)
Signal(sleepers, sleepersAfter) ==
    \/ sleepers = {} /\ sleepersAfter = {}
    \/ \E t \in sleepers : sleepersAfter = sleepers \ {t}

(* What memset and the initialisers of init_app_state leave, except for    *)
(* keep_running, which it sets last.                                       *)
Zeroed ==
    /\ head = 0
    /\ tail = 0
    /\ count = 0
    /\ data = [i \in Slots |-> EmptyString]
    /\ mutex = Nobody
    /\ not_empty = {}
    /\ not_full = {}
    /\ pc = [t \in Threads |-> IF t \in Producers THEN "start" ELSE "idle"]
    /\ payload = [p \in Producers |-> NoPayload]
    /\ output = [c \in Consumers |-> EmptyString]
    /\ ok = [t \in Producers \cup Consumers |-> FALSE]
    /\ occupancy = [m \in Monitors |-> 0]

Init == Zeroed /\ keep_running = TRUE
-----------------------------------------------------------------------------
(***************************************************************************)
(* buffer_push                                                             *)
(***************************************************************************)
PushCall(p) ==
    /\ pc[p] = "idle"
    /\ \E m \in Payloads : payload' = [payload EXCEPT ![p] = m]
    /\ Goto(p, "push_lock")
    /\ UNCHANGED <<slots, mutex, not_empty, not_full, keep_running,
                   output, ok, occupancy>>

PushLock(p) == Acquire(p, "push_lock", "push_while")

(* The condition of the wait loop: sleep only if full and still running. *)
PushWhile(p) ==
    /\ pc[p] = "push_while"
    /\ \/ /\ count = BufferCapacity /\ keep_running
          /\ not_full' = not_full \cup {p}
          /\ Unlock
          /\ Goto(p, "push_wait")
       \/ /\ ~ (count = BufferCapacity /\ keep_running)
          /\ Goto(p, "push_test")
          /\ UNCHANGED <<mutex, not_full>>
    /\ UNCHANGED <<slots, not_empty, keep_running, results>>

(* "if" for "while": the condition is not evaluated again. *)
FaultyPushWake(p) == p \notin not_full /\ Acquire(p, "push_wait", "push_test")

(* A woken producer takes the mutex again and re-evaluates the condition. *)
PushWake(p) == p \notin not_full /\ Acquire(p, "push_wait", "push_while")

PushReturn(p, result) ==
    /\ Unlock
    /\ ok' = [ok EXCEPT ![p] = result]
    /\ payload' = [payload EXCEPT ![p] = NoPayload]
    /\ Goto(p, "idle")

(* The second, separate read of keep_running. *)
PushTest(p) ==
    /\ pc[p] = "push_test"
    /\ \/ /\ keep_running
          /\ Goto(p, "push_copy")
          /\ UNCHANGED <<mutex, ok, payload>>
       \/ /\ ~ keep_running
          /\ PushReturn(p, FALSE)
    /\ UNCHANGED <<slots, not_empty, not_full, keep_running,
                   output, occupancy>>

(* The consumers are signalled only when the ring was empty. *)
FaultyPushCopy(p) ==
    /\ pc[p] = "push_copy"
    /\ data' = [data EXCEPT ![head] = CString(payload[p])]
    /\ head' = NextSlot(head)
    /\ count' = count + 1
    /\ IF count = 0 THEN Signal(not_empty, not_empty') ELSE UNCHANGED not_empty
    /\ PushReturn(p, TRUE)
    /\ UNCHANGED <<tail, not_full, keep_running, output, occupancy>>

PushCopy(p) ==
    /\ pc[p] = "push_copy"
    /\ data' = [data EXCEPT ![head] = CString(payload[p])]
    /\ head' = NextSlot(head)
    /\ count' = count + 1
    /\ Signal(not_empty, not_empty')
    /\ PushReturn(p, TRUE)
    /\ UNCHANGED <<tail, not_full, keep_running, output, occupancy>>
-----------------------------------------------------------------------------
(***************************************************************************)
(* buffer_pop                                                              *)
(***************************************************************************)
PopCall(c) == Move(c, "idle", "pop_lock")

PopLock(c) == Acquire(c, "pop_lock", "pop_while")

(* The condition of the wait loop: sleep only if empty and still running. *)
PopWhile(c) ==
    /\ pc[c] = "pop_while"
    /\ \/ /\ count = 0 /\ keep_running
          /\ not_empty' = not_empty \cup {c}
          /\ Unlock
          /\ Goto(c, "pop_wait")
       \/ /\ ~ (count = 0 /\ keep_running)
          /\ Goto(c, "pop_test")
          /\ UNCHANGED <<mutex, not_empty>>
    /\ UNCHANGED <<slots, not_full, keep_running, results>>

(* "if" for "while": the condition is not evaluated again. *)
FaultyPopWake(c) == c \notin not_empty /\ Acquire(c, "pop_wait", "pop_test")

PopWake(c) == c \notin not_empty /\ Acquire(c, "pop_wait", "pop_while")

PopReturn(c, result) ==
    /\ Unlock
    /\ ok' = [ok EXCEPT ![c] = result]
    /\ Goto(c, "idle")

(* Give up only when there is nothing to take and the system is stopping. *)
PopTest(c) ==
    /\ pc[c] = "pop_test"
    /\ \/ /\ count = 0 /\ ~ keep_running
          /\ PopReturn(c, FALSE)
       \/ /\ ~ (count = 0 /\ ~ keep_running)
          /\ Goto(c, "pop_copy")
          /\ UNCHANGED <<mutex, ok>>
    /\ UNCHANGED <<slots, not_empty, not_full, keep_running,
                   payload, output, occupancy>>

(* The read index is advanced before the slot is copied. *)
FaultyPopCopy(c) ==
    /\ pc[c] = "pop_copy"
    /\ output' = [output EXCEPT ![c] = data[NextSlot(tail)]]
    /\ tail' = NextSlot(tail)
    /\ count' = count - 1
    /\ Signal(not_full, not_full')
    /\ PopReturn(c, TRUE)
    /\ UNCHANGED <<head, data, not_empty, keep_running, payload, occupancy>>

PopCopy(c) ==
    /\ pc[c] = "pop_copy"
    /\ output' = [output EXCEPT ![c] = data[tail]]
    /\ tail' = NextSlot(tail)
    /\ count' = count - 1
    /\ Signal(not_full, not_full')
    /\ PopReturn(c, TRUE)
    /\ UNCHANGED <<head, data, not_empty, keep_running, payload, occupancy>>
-----------------------------------------------------------------------------
(***************************************************************************)
(* get_buffer_occupancy_pct                                                *)
(***************************************************************************)
PctCall(m) == Move(m, "idle", "pct_lock")

PctLock(m) == Acquire(m, "pct_lock", "pct_read")

PctRead(m) ==
    /\ pc[m] = "pct_read"
    /\ occupancy' = [occupancy EXCEPT ![m] = count]
    /\ Unlock
    /\ Goto(m, "idle")
    /\ UNCHANGED <<slots, not_empty, not_full, keep_running,
                   payload, output, ok>>
-----------------------------------------------------------------------------
(***************************************************************************)
(* handle_sigint.  The test of keep_running and the store that clears it   *)
(* are two steps: two activations may both pass the test.                  *)
(***************************************************************************)
SigTest(h) == keep_running /\ Move(h, "idle", "sig_clear")

SigClear(h) ==
    /\ pc[h] = "sig_clear"
    /\ keep_running' = FALSE
    /\ Goto(h, "sig_lock")
    /\ UNCHANGED <<slots, mutex, not_empty, not_full, results>>

(* The handler broadcasts without the mutex, then releases it. *)
FaultySigLock(h) == Move(h, "sig_lock", "sig_broadcast")

SigLock(h) == Acquire(h, "sig_lock", "sig_broadcast")

(* pthread_cond_signal in the place of pthread_cond_broadcast. *)
FaultySigBroadcast(h) ==
    /\ pc[h] = "sig_broadcast"
    /\ Signal(not_empty, not_empty')
    /\ Signal(not_full, not_full')
    /\ Unlock
    /\ Goto(h, "sig_done")
    /\ UNCHANGED <<slots, keep_running, results>>

SigBroadcast(h) ==
    /\ pc[h] = "sig_broadcast"
    /\ not_empty' = {}
    /\ not_full' = {}
    /\ Unlock
    /\ Goto(h, "sig_done")
    /\ UNCHANGED <<slots, keep_running, results>>

(* producer_thread must create its lws context before it can push.  When   *)
(* it cannot, it clears keep_running, wakes nobody and ends.               *)
ContextCreated(p) == Move(p, "start", "idle")

ContextFailed(p) ==
    /\ pc[p] = "start"
    /\ keep_running' = FALSE
    /\ Goto(p, "ended")
    /\ UNCHANGED <<slots, mutex, not_empty, not_full, results>>

(* POSIX lets pthread_cond_wait return without a signal. *)
SpuriousWakeup ==
    /\ \/ /\ \E c \in not_empty : not_empty' = not_empty \ {c}
          /\ UNCHANGED not_full
       \/ /\ \E p \in not_full : not_full' = not_full \ {p}
          /\ UNCHANGED not_empty
    /\ UNCHANGED <<slots, mutex, keep_running, pc, results>>
-----------------------------------------------------------------------------
PushStep(p) ==
    PushLock(p) \/ PushWhile(p) \/ PushWake(p) \/ PushTest(p) \/ PushCopy(p)

PopStep(c) ==
    PopLock(c) \/ PopWhile(c) \/ PopWake(c) \/ PopTest(c) \/ PopCopy(c)

PctStep(m) == PctLock(m) \/ PctRead(m)

SigStep(h) == SigClear(h) \/ SigLock(h) \/ SigBroadcast(h)

Next ==
    \/ \E p \in Producers : ContextCreated(p) \/ ContextFailed(p)
    \/ \E p \in Producers : PushCall(p) \/ PushStep(p)
    \/ \E c \in Consumers : PopCall(c) \/ PopStep(c)
    \/ \E m \in Monitors : PctCall(m) \/ PctStep(m)
    \/ \E h \in Handlers : SigTest(h) \/ SigStep(h)
    \/ SpuriousWakeup

Spec == Init /\ [][Next]_vars
-----------------------------------------------------------------------------
ProducerLabels == {"start", "ended", "idle", "push_lock", "push_while",
                   "push_wait", "push_test", "push_copy"}
ConsumerLabels == {"idle", "pop_lock", "pop_while", "pop_wait",
                   "pop_test", "pop_copy"}
MonitorLabels == {"idle", "pct_lock", "pct_read"}
HandlerLabels == {"idle", "sig_clear", "sig_lock", "sig_broadcast", "sig_done"}

(* The steps that run with the mutex held. *)
HoldsMutex(t) ==
    pc[t] \in {"push_while", "push_test", "push_copy", "pop_while", "pop_test",
               "pop_copy", "pct_read", "sig_broadcast"}

(* Every variable keeps its type: indices stay inside the array, count     *)
(* stays within 0 .. BUFFER_CAPACITY (the uint32_t never wraps below 0 or  *)
(* runs past the ring).                                                    *)
TypeOK ==
    /\ head \in Slots
    /\ tail \in Slots
    /\ count \in 0 .. BufferCapacity
    /\ data \in [Slots -> Strings]
    /\ mutex \in Threads \cup {Nobody}
    /\ not_empty \subseteq Consumers
    /\ not_full \subseteq Producers
    /\ keep_running \in BOOLEAN
    /\ pc \in [Threads -> ProducerLabels \cup ConsumerLabels
                            \cup MonitorLabels \cup HandlerLabels]
    /\ \A p \in Producers : pc[p] \in ProducerLabels
    /\ \A c \in Consumers : pc[c] \in ConsumerLabels
    /\ \A m \in Monitors : pc[m] \in MonitorLabels
    /\ \A h \in Handlers : pc[h] \in HandlerLabels
    /\ payload \in [Producers -> Payloads \cup {NoPayload}]
    /\ output \in [Consumers -> Strings]
    /\ ok \in [Producers \cup Consumers -> BOOLEAN]
    /\ occupancy \in [Monitors -> 0 .. BufferCapacity]

(* The mutex is held by exactly the thread that is inside a critical       *)
(* section: no two threads, the handler included, are ever inside one.     *)
MutualExclusion ==
    \A t \in Threads : HoldsMutex(t) <=> mutex = t

(* The three redundant words of the ring agree: the write index is count   *)
(* slots past the read index, modulo the capacity.                         *)
RingConsistent == head = (tail + count) % BufferCapacity

(* keep_running is read without synchronisation once in the wait loop and  *)
(* once after it.  Whatever happens between the two reads, no producer     *)
(* copies into a full ring and no consumer copies out of an empty one.     *)
NoOverrun ==
    /\ \A p \in Producers : pc[p] = "push_copy" => count < BufferCapacity
    /\ \A c \in Consumers : pc[c] = "pop_copy" => count > 0

AwakeConsumers ==
    {c \in Consumers : \/ pc[c] \in {"pop_while", "pop_test", "pop_copy"}
                      \/ (pc[c] = "pop_wait" /\ c \notin not_empty)}

AwakeProducers ==
    {p \in Producers : \/ pc[p] \in {"push_while", "push_test", "push_copy"}
                      \/ (pc[p] = "push_wait" /\ p \notin not_full)}

(* No wakeup is lost, although pthread_cond_signal wakes one sleeper only  *)
(* and other callers may barge in: while a consumer sleeps, every element  *)
(* in the ring has a consumer of its own that is awake inside buffer_pop,  *)
(* and while a producer sleeps, every free slot has an awake producer.     *)
(* The producers' half ends with keep_running: a producer woken afterwards *)
(* gives up without filling its slot, and wakes nobody in its turn.        *)
NoLostWakeup ==
    /\ not_empty # {} => count <= Cardinality(AwakeConsumers)
    /\ not_full # {} /\ keep_running =>
           BufferCapacity - count <= Cardinality(AwakeProducers)

(* Once an activation of the signal handler has broadcast, no thread       *)
(* sleeps on either condition, and none ever falls asleep on one again.    *)
ShutdownReleasesAll ==
    (\E h \in Handlers : pc[h] = "sig_done") =>
        not_empty = {} /\ not_full = {}

(* The strings in the ring, oldest first. *)
Contents == [i \in 1 .. count |-> data[(tail + i - 1) % BufferCapacity]]

(* Text s is payload p up to its first NUL byte, or as much of it as a     *)
(* slot holds with a NUL of its own behind it.                             *)
IsTextOf(s, p) ==
    /\ s.msg = p.msg
    /\ s.len < MaxPayloadSize
    /\ s.len = p.text \/ (s.len < p.text /\ s.len = MaxPayloadSize - 1)

(* Truncation loses no more than it must: every string in the ring, over   *)
(* all wraps, and every string a successful pop has returned is a payload  *)
(* that is whole or fills its slot, and its NUL, on which strlen relies,   *)
(* is inside the slot.                                                     *)
CutOnlyToFit ==
    /\ \A i \in 1 .. count : \E p \in Payloads : IsTextOf(Contents[i], p)
    /\ \A c \in Consumers :
           ok[c] => \E p \in Payloads : IsTextOf(output[c], p)

Queue == INSTANCE BoundedQueue WITH
             Elements <- Strings,
             Getters <- Consumers,
             Capacity <- BufferCapacity,
             queue <- Contents,
             got <- output

(* The ring, with its mutex, conditions and shutdown, implements a bounded *)
(* FIFO: no unread slot is overwritten, nothing is read twice, lost inside *)
(* the ring or read out of order, by however many threads.                 *)
ImplementsBoundedQueue == Queue!Spec
=============================================================================
