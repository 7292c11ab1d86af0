# The telemetry logger and the thread-pool queue, in TLA+

This directory specifies, model-checks and proves properties of the C programs
of this repository:

* `Final_Project` — a telemetry logger for a Raspberry Pi. A producer thread
  receives a WebSocket stream, a circular buffer queues the messages, a consumer
  thread parses and counts them, and a monitor thread writes the counts to a CSV
  log once per second; `scripts/analyze_metrics.py` reads the log afterwards.
* `Project_1/prod-cons.c` — p producers and q consumers that exchange work items
  through a bounded queue.

The repository has no tests. `Paper_Presentation` holds slides only.

## 1. Inventory

### 1.1 Components

| component | code | state it keeps | operations | what makes it correct |
|---|---|---|---|---|
| circular buffer | `src/buffer.c`, `include/telemetry.h` | `data`, `head`, `tail`, `count`; `mutex`, `not_empty`, `not_full`; reads `keep_running` | `buffer_push`, `buffer_pop`, `get_buffer_occupancy_pct`, init, destroy | it is a bounded FIFO; nobody sleeps while there is work; shutdown wakes everyone |
| main and signals | `src/main.c` | `keep_running`, thread ids | install handlers, initialise, create, join, destroy; `handle_sigint` | a signal stops the process; nothing is destroyed in use |
| producer | `src/producer.c` | `current_wsi`, `last_rx_ts`, `needs_reconnect` under `producer_state_mutex` | the lws callback, the event loop with watchdog and reconnection | one live connection, recovered after every failure |
| consumer | `src/consumer.c` | `local_payload`; counters under `counters_mutex` | pop, parse, categorise, count | each message counted once, in its category |
| monitor | `src/monitor.c` | log file, `next_wake_time`, `cpu_state` | sleep to the next second, CPU sample, snapshot and reset, occupancy, append and flush a row | each count in one row; one row per second; CPU within 0..100 |
| JSON parser | `src/cJSON.c` (vendored) | the offset and depth of `parse_buffer`, the items and strings it allocates | `cJSON_Parse`, `cJSON_GetObjectItemCaseSensitive`, `cJSON_Delete` | it accepts JSON and nothing else up to the value's end; nothing it allocated survives a failed parse; the offset stays in the text, and strings are written inside their buffers |
| metrics log | `metrics_log.txt`, `scripts/telemetry.service`, `scripts/analyze_metrics.py` | the stdio buffer, the file, what of it is on the disk | append, flush, sync, crash, restart; load and sanitise | a failure spoils at most two completed rows |
| probe | `scripts/probe_firehose.py` | none shared | prints what the stream carries | — |
| Project_1 | `Project_1/prod-cons.c` | `buf`, `head`, `tail`, `full`, `empty`, `total_consumed` | `queueAdd`, `queueDel`, producers, consumers, main | each item executed once; main ends, and deletes nothing in use |

### 1.2 Interactions

* Producer → consumer: strings through the ring, under `buffer.mutex`.
* Consumer → monitor: four counters, under `counters_mutex`.
* Monitor → disk: rows of `metrics_log.txt`; disk → analysis, later.
* Everybody reads `keep_running` (volatile, without a lock); the signal handler
  and a producer without lws context clear it.
* The handler takes `buffer.mutex` and broadcasts both conditions.
* libwebsockets calls `callback_firehose` from `lws_service`, on the producer's
  own thread: no callback comes between two statements of the loop, but the
  callback may block in `buffer_push`, and with it the whole event loop.

### 1.3 What is hard

Reads of `keep_running` that straddle its clearing; one `pthread_cond_signal`
per operation with several callers; a handler that takes a lock; a shutdown that
must reach threads asleep in three different places; a connection pointer kept
across callbacks that may concern another connection; counters handed over
between two threads; a clock that may jump; a log that a crash may tear; and, in
Project_1, a queue deleted while others use it. `PROJECT.json` lists each hazard
at its line, with the properties that cover it or the reason why none does yet.

## 2. Modules

| module | models | composed with |
|---|---|---|
| `BoundedQueue` | abstract: a bounded FIFO shared by several threads | — |
| `CircularBuffer` | `buffer.c`, the handler's use of it | implements `BoundedQueue` |
| `Telemetry` | `main.c`, `consumer.c`, the threads' loops, counters, rows, signals | `CB == INSTANCE CircularBuffer` |
| `ProducerConn` | `producer.c`: event loop, watchdog, callbacks, several connections | — |
| `MetricsLog` | `monitor.c`: the absolute sleep, the leap, the row on its way to the disk, crashes and restarts | — |
| `CpuSample` | `monitor.c`: the readings of `/proc/stat` and their unsigned differences | — |
| `JsonParse` | `cJSON.c`: values, arrays, objects, lookup, deletion; the consumer's use of the tree | — |
| `JsonString` | `cJSON.c`: `parse_string`, the UTF-16 escapes, `print_string_ptr` | — |
| `ProdCons` | `prod-cons.c`: queue, producers, consumers, main | implements `BoundedQueue` |
| `MC...` | constants and symmetry for TLC; `MCCircularBuffer` splits its instance into two scenes; `MCSequential` puts `JsonParse`, `JsonString`, `MetricsLog` and `CpuSample`, which share nothing, side by side | extends the modules it checks |
| `..._proofs` | theorems; `Telemetry_proofs` takes those of the ring with `P == INSTANCE CircularBuffer_proofs` | extend the module they name |

### 2.1 CircularBuffer

The variables have the names of the fields in `telemetry.h`. A condition
variable is the set of the threads asleep on it. `pc[t]` is the next step of
thread t inside a function: `push_while` is the condition of the wait loop at
`buffer.c:28`, `push_wait` the wait at 29, `push_test` the second test at 32,
`push_copy` the rest. Steps end where another thread may interfere: where the
mutex is taken, where `keep_running` is read or written, where a thread falls
asleep. What the code does between those points under the mutex is one action
that ends with the unlock.

A payload is a message, the length lws reports, and the number of bytes before
its first NUL: all that `memcpy` and `strlen` can tell apart. `CString` is the
truncation of `buffer.c:38-40` followed by the `strlen` of line 66, and
`CutOnlyToFit` says what that costs: no string in the ring or out of it is shorter
than its payload unless it fills its slot.

`pthread_cond_signal` wakes one sleeper of its choice, and a woken thread must
win the mutex again against anybody else; spurious wakeups may happen at any
time. The handler's test and store are separate steps.

### 2.2 Telemetry

One producer, one consumer, one monitor and main. `at[t]` is a thread's position
in its own code, `pc[t]` its position in the buffer's functions. The handler of
signal s runs on a thread, or on another handler it interrupts
(`interrupted[s]`), and what it interrupts does not move until it returns. main
starts where the handlers have just been installed (`main.c:28`): before
`init_app_state` the globals are zero.

The counters are functions from the four categories to numbers. `received` and
`logged` are history variables, for the properties only. A row of the log is
modelled by what it adds to `logged`. A string that was cut, or that holds a NUL
before its end, is no longer the JSON text that was sent: it counts as `info`.

### 2.3 ProducerConn

`status[c]` is what has become of connection c inside libwebsockets, and the code's state is
`current_wsi`, `needs_reconnect` and `rx_age`, the seconds since `last_rx_ts`
(cut off just over the stall timeout, where the code's comparison no longer
changes). `local` is the snapshot of lines 146-148. Time passes in `sleep()` and
in `lws_service`; the latter includes a callback that blocks in `buffer_push`.
A dead connection is established, but nothing arrives and nobody has been told.

The parts of libwebsockets that the code relies on are taken from how it uses
them: `lws_client_connect_via_info` returns a connection still being established
or NULL; every connection is later established, refused or closed;
`lws_set_timeout` closes the connection from a later `lws_service` once its second
has passed; and no callback comes from inside `lws_client_connect_via_info`.

Which reason reports the closure of a client depends on the library.
`producer.c:69` handles `LWS_CALLBACK_CLOSED`; libwebsockets 3.0 and later report
`LWS_CALLBACK_CLIENT_CLOSED`, which falls into `default` (77). The constant
`ClosureReasons` names those that may come: `Closed` is the first, `ClientClosed`
the second, after which the connection is `unseen`: it is freed, and the program does
not know. When the watchdog then calls `lws_set_timeout` on it (156), freed memory
is used, and `CloseSoon` has both outcomes, no effect and the end of the process
(`at = "crashed"`). A refused or hung attempt is reported as
`CLIENT_CONNECTION_ERROR` by every version.

### 2.4 MetricsLog and CpuSample

Time is `CLOCK_REALTIME` in ticks, several to a second; the code's own
variable is `next_wake_time`, whose nanoseconds are always zero. `Loop` is the
top of the `while` with the leap of lines 50-54, `Wake` the return of
`clock_nanosleep` at or after that time together with the time stamp,
`Interrupted` its return for a signal, whose result the code does not test; that may
be a second signal, after `keep_running` was cleared. Time
may pass wherever the monitor is about to look at the clock, as much as it
likes; the clock may be set back, which counts as a fault.

A row is two parts, because a crash may leave the first alone. A part travels
from the buffer of `fp` (`fprintf`), to the file (`fflush`), to the disk
(`fdatasync`), and each of the last two may fail, unnoticed, as may the `fclose` at the end. `Killed` loses the
buffer, `PowerFailure` any end of the file that was not synced; `Open` is systemd
starting the program again, which appends to whatever is there.

`CpuSample` keeps `busy` and `idle` of the kernel, where `idle` may decrease
because it contains iowait. Differences are taken modulo `Word`. `cpu_pct` is
kept as numerator and denominator, `part` and `whole`.

### 2.5 JsonParse and JsonString

`JsonParse` takes a text whose characters are brackets, commas, colons, blanks
and whole literals. Its variables are `offset` and `depth` of `parse_buffer`, the
heap of `cJSON` items with `next`, `prev`, `child`, the strings they own, and
`stack`, the calls of `parse_array` and `parse_object` that have not returned,
each with its `head` and `current_item`. An action is the code between two
allocations or calls; every allocation may be refused. `Delete` frees what
`cJSON_Delete` visits from an item: its siblings after it and all below them.
The consumer then looks up `kind` and deletes the tree, as `consumer.c:9-49`.
The properties compare this with `Grammar`, an independent definition of JSON by
recursive functions on the text.

`JsonString` has the bytes inside a literal: the first pass of `parse_string`
that measures and counts escapes, the allocation, the second pass that
unescapes, with the six and twelve byte forms of `\u`; and `print_string_ptr`,
whose output is then parsed again. The library has the latter, the program does not
call it. What a literal means is not taken from the code: `Means` says it by JSON's
four kinds of characters and UTF-8's ranges of bytes, as a relation (`Encodes`
computes a code point from its bytes, where the code goes the other way). A literal
that has a meaning comes with its marks, the places between its characters, so that
the relation needs no recursion; the passes never see them.

### 2.6 ProdCons

A critical section is one action. `pthread_cond_wait` puts the thread into
`notFull` or `notEmpty`; woken, it tests again. The signal is given after the
unlock (`prod-cons.c:133-134, 160-161`) and is an action of its own. main waits
for the last item, deletes the queue and returns, and what the other threads do
meanwhile with the deleted queue either works as before or crashes the process
(`Crash`), because freed memory has no defined contents. A condition is
destroyed although consumers sleep on it, for which POSIX defines no outcome:
`DestroyBlocks` is the one of a library that waits for the sleepers to leave.
`executed` is a history variable: the items whose work was done.

## 3. Runs

| run | question | instance | result |
|---|---|---|---|
| `buffer` | mutual exclusion, ring arithmetic, lost wakeups, shutdown; implements `BoundedQueue`; payloads are cut only to fit | 2 slots, cut payloads; 2 producers, 2 consumers, monitor, 2 handlers and one payload, or 1 producer, 2 consumers, 1 handler and two | holds |
| `telemetry_accounting` | every message in exactly one place; nothing destroyed in use | 2 signals on any thread, every failure, 1 slot, 2 messages | holds |
| `telemetry_liveness` | shutdown ends; messages reach the log | 1 signal, on main; context created; 1 slot, 2 messages | holds |
| `telemetry_any_thread` | same shutdown, handler on any thread | 1 signal, 1 message | **violated** |
| `telemetry_context_failure` | same shutdown, context may fail | 1 signal, 1 message | **violated** |
| `telemetry_early_signal` | every signal stops the process | 1 signal | **violated** |
| `conn_recovery` | only an unseen closure leaves the pointer dangling, never abandoned, a connection open again and again unless the process crashes | 2 connections, 3 failures, 12/3/1 s, closures under either reason | holds |
| `conn_client_closed` | the pointer never dangles | 2 connections, 1 failure, closures as lws 3.0 and later report them | **violated** |
| `conn_one_stream` | at most one open connection | 3 connections, 1 failure, closures as lws 3.0 and later report them | **violated** |
| `prodcons_queue` | implements `BoundedQueue`; no lost wakeup; nothing deleted before it is counted; main ends | 2 producers of 2 items, 2 consumers, 2 slots, any thread may fail to start | holds |
| `sequential` (parser) | accepts exactly the grammar, means what it says, frees everything, strings fit their buffers, ends | all texts of 1 to 3 characters, every change of one character in 7 documents, all literals of 3 pieces, all strings of up to 3 bytes | holds |
| `sequential` (monitor) | one row per second; no spin after a gap; bounded damage; the CPU figure | 5 s of 2 ticks, 5 rows, 2 faults; words of 16 | holds |
| `json_documented` | the consumer goes by the member `t`, as the report says | the 7 documents, one of them with the report's schema | **violated** |

### 3.1 Findings

* **The handler can wait for itself.** `handle_sigint` locks `buffer.mutex`. If
  it runs on a thread that holds the mutex, neither ever moves again. POSIX lets
  the system choose any thread that has not blocked the signal, and no thread
  has. Linux prefers main, which never holds the mutex outside the handler, so
  the failure needs a second SIGINT while the first is being handled on main, in
  the window between the test and the store of `keep_running` (the `printf` of
  line 12), or a signal directed at a thread. `telemetry_liveness` shows that
  shutdown is complete when handlers run on main only.
* **A context that cannot be created hangs the process.** The producer clears
  `keep_running` without a broadcast; a consumer already asleep stays asleep,
  main waits for it, and later signals find `keep_running` clear and do nothing.
* **An early signal is forgotten**: `init_app_state` sets `keep_running` again.
* **A closure that nobody notices.** With libwebsockets 3.0 or later, which is what
  the distributions of `Final_Project/README.md:23` install, the closure of an
  established connection falls into `default`: `current_wsi` keeps a pointer to freed
  memory, no reconnection is asked for until the watchdog finds 12 s of silence, and
  the watchdog then passes that pointer to `lws_set_timeout` (156). report.tex:81
  says that the callbacks intercept the broken pipes. `SafeIfTold` proves
  that the unhandled reason is the only cause.
* **One failure, two connections.** `CLIENT_CONNECTION_ERROR` and `CLOSED` clear
  `current_wsi` without comparing it with their `wsi`. In the run, a redial that is
  recorded but not yet established hangs for more than 12 s; the watchdog sets a
  timeout of one second on it and asks for another; the loop sleeps three seconds and
  redials before lws is serviced again. The error of the old attempt is reported after
  the new one has been recorded: the new one is forgotten and a third is asked for.
  Both stay open, so messages arrive twice. This needs no particular version of the
  library; one that reports `LWS_CALLBACK_CLOSED` gets there also from an open
  connection that falls silent.
* **The report describes another message.** report.tex:75 has the consumer go by
  `t` and `collection`, and its schemas (35-66) have no `kind`; `consumer.c:23` reads
  `kind` only. A commit as the report shows it is counted as `info`.
  (`scripts/probe_firehose.py:27` reads `kind`, as the code does.)

What the code also does, and no document of the repository denies clearly
enough for a run that expects a violation:

* A row may carry the second of the one before it, up to three times after the
  monitor was held up (`NoCatchUpSpin` has the exact bound), and a clock that is
  set back delays the next row, and the monitor's reaction to a shutdown, for as
  long as it was set back. `Final_Project/README.md:12` says "exactly 1Hz".
* A reading of `/proc/stat` that fails is taken for zeroes. The next difference
  wraps, and the row shows 100 percent or more.
* When a `pthread_create` fails main returns at once, and the threads that run end
  with the process wherever they are (`main.c:35-52`); a row may be cut.
* At shutdown what is left in the ring is not consumed (`consumer.c:57`), and what is
  counted after the last row is not logged.
* After a crash the first new row is appended to a half-written one, and both
  are unreadable.
* Fragments of one WebSocket message are counted as that many messages
  (`producer.c:42-54` tests neither first nor final fragment).
* The consumer parses without `require_null_terminated`: text after the value is
  ignored. In `\u` escapes an invalid hex digit gives a NUL and not an error.
* When main of `prod-cons.c` returns, the last items have been counted, but
  their work may not have run. And it may not return: consumers that have nothing
  left to do sleep on `notEmpty` when `queueDelete` destroys it, and glibc (2.36 for
  one) waits there until they are gone.

### 3.2 Bounds, and why they are enough

* Ring of 1 or 2 slots: full, empty and in between, and the index wraps. Two
  callers of each kind on two slots give each barging and each choice of whom to
  wake; the proofs cover every size. `buffer` has two scenes, because two of each
  kind with two different payloads are too many states: contention for a ring of
  equal payloads, and one producer with payloads that differ, which the order and
  the cuts need.
* `MAX_PAYLOAD_SIZE` is 4 in the runs; payloads are shorter and longer than the
  slot, or have a NUL inside. Longer ones add no behaviour: only the order of
  the three lengths matters.
* `MaxMessages` bounds the messages lws delivers: two, to have one in the ring
  while another is in the consumer's hands, the counters or a snapshot.
* `MaxFailures` bounds the failures of the network; `Conns` the connections lws
  can hold. When no connection is left, a redial returns NULL. The delays are the
  code's own.
* `MaxTime`, `MaxRows` and `MaxFaults` bound the clock, the rows and the faults of
  `MetricsLog`. Five seconds hold a gap of more than two, after which the leap is
  taken, with rows before and after it; two faults make a crash while the damage
  of another is still in the file. Two ticks tell "late, but in time" from "on
  the second". A clock that is set back needs one fault.
* `Word` and `MaxStat` (16 and 4): differences wrap below zero. The proofs cover
  every width with `2 * MaxStat < Word`, that is, counters that have not wrapped
  themselves.
* `NestingLimit` is 2 in the runs and 1000 in the code: the documents nest to the
  limit and one beyond. The texts of three characters contain every pair of
  neighbouring characters at either end; the documents make the longer lists.
  Literals of three pieces put every escape, complete or cut, next to every
  other and next to the closing quote.
* Two producers, two consumers and two slots make each choice of whom to wake
  and each barging possible in `ProdCons`, as in the ring; with two items each a
  producer meets a full queue and comes back.
* Symmetry is used in safety runs only.
* Deadlock is checked except where the system really may stop: in the runs of
  `Telemetry` that include the two ways to hang found above; in
  `prodcons_queue`, where main waits for ever for the items of a thread that could
  not be created, or for the sleepers when it deletes the queue; and in
  `sequential`, where the monitor ends at the bounds of its clock and its rows. That
  the parser never stops short is `Terminates`. Elsewhere the process that is gone stutters by an explicit action
  (`Exited`, `Ended`).

### 3.3 Fairness

`Telemetry!FairSpec` gives strong fairness to each thread and each handler: the
scheduler runs every thread that can run, and a thread that finds a mutex free
infinitely often gets it (weak fairness would let the others barge in for ever).
Each thread's fairness excludes the steps the system need never take: arrival of
a message, a signal, a spurious wakeup, the failure of a call. `ServiceReturns`
has strong fairness of its own: `lws_service` returns after 50 ms even if
messages keep coming.

`ProducerConn!FairSpec` lets the loop run, `lws_service` return, time pass,
attempts be settled, timers fire and an open server send. Failures are bounded
by `MaxFailures`, so `Recovers` says that a connection comes back once the
network stays up.

`ProdCons!FairSpec` gives strong fairness to each producer and each consumer,
for the same reason as above, and weak fairness to main and to the creation of
threads: main waits for a mutex that is never held across a wait. `Completes`
excludes the two cases in which the code does wait for ever, a producer or all
consumers that could not be created. `MCSequential!MCSpec` has weak fairness of
the one thread that parses.

## 4. Proofs

All by TLAPS, for every value of the constants that satisfies the named
assumptions: `CircularBuffer`'s on finite, disjoint sets of threads, a capacity
and a slot of at least one, and payloads of at least one byte
(`producer.c:40` tests `len > 0`); `Telemetry`'s on four distinct threads and a
bound on messages; `ProducerConn`'s on natural delays, on `NoConn` and on
`ClosureReasons` being some of the two reasons;
`ProdCons`'s on finite, disjoint sets of threads and at least one slot;
`CpuSample`'s on counters below half a word; `MetricsLog`'s on natural bounds;
`JsonString`'s on literals of at least one byte, each either without a meaning or
with marks that show it, and printed strings without NUL;
`JsonParse`'s on texts of at least one character and a natural nesting limit.

**CircularBuffer_proofs.** The inductive invariant is the conjunction of
`TypeOK`, `MutualExclusion`, `RingConsistent`, `NoOverrun` and of what a caller
has learned when it stands between two tests: at `push_test` either there is
room or the system is stopping; at `pop_test` either there is an element or the
system is stopping. `NoOverrun` alone is not inductive, because
`keep_running` is read twice and may be cleared in between: it holds because the
flag is never set again. `ShutdownReleasesAll` needs that a handler past its
store has cleared the flag, and that a thread which decided to sleep holds the
mutex until it sleeps. From the invariant follow `TypeCorrect`, `MutexSafe`,
`RingSafe`, `NeverOverruns` and `ShutdownWakesEveryone`.

A second section of the module proves `NoWakeupLost`: it compares `count` with the
number of awake consumers, so each step is one inequality between cardinalities:
a push adds an element and wakes a sleeper if there is one; a pop removes an
element and one awake consumer; a consumer falls asleep only when the ring is
empty. The producers' half holds only until `keep_running` is cleared, for a
producer woken afterwards gives up and wakes nobody.

The last section proves `Refinement`: under the mapping `Contents`
(the strings from `tail` on), `PushCopy` is `Put`, `PopCopy` is `Get` and every
other step stutters. `CutsOnlyToFit` follows the same steps: a put adds what `CString`
makes of a payload, a get hands on the head, and nothing else changes a string.

**ProducerConn_proofs.** The conjunction of `TypeOK`, `DanglesOnlyUnseen` and
`NeverAbandoned` is inductive, for each set of `ClosureReasons`. `OnlyUnseenDangles`
says that every end of a connection that the callback hears of leaves no pointer to
it behind; `SafeIfTold` assumes that `LWS_CALLBACK_CLIENT_CLOSED` never comes, in
which case no connection is ever `unseen`, the pointer never dangles and the process
never crashes. Without that assumption `NoDanglingWsi` is false
(`conn_client_closed`). `NeverAbandoned` rests on the callbacks clearing
`current_wsi` and asking for a new connection in the same step, whichever
connection they concern: the very thing that makes two streams possible also
guarantees that there is never none for good.

**Telemetry_proofs.** Every step of the process is a step of the ring or leaves it
alone (`ProcessStepsBuffer`), except the one that initialises it, so the ring's
invariant carries over from `CircularBuffer_proofs`. To it are added:

* `Positions`: where a thread stands in its own code and where in the buffer's
  agree, and main has created and joined the others in its order;
* `HandlersOK`: the relation "interrupted by" has no cycle and ends at a thread
  (`Grounded`), so that with every other thread ended and main itself running there is
  nothing left for a handler to run on (`QuietAtDestroy`), from which
  `DestroyIsQuiet` follows;
* `CountersLocked`: the counters' mutex is held exactly by the thread whose
  position says so, which is why nothing is added between snapshot and reset;
* `Counting`: what was received equals, category by category, what is in the
  ring, in the consumer's hands, in the counters, in the snapshot and in the
  log (`Accounted`). It is inductive only with `SnapshotTaken` (at the reset the
  snapshot is a copy of the counters); `Bounded` keeps the sums within
  `MaxMessages`, for the types.

**ProdCons_proofs.** `NoLostWakeup` is proved as two halves, one per condition,
each with `Sleepers`: who sleeps, sleeps in its loop. A signal in flight counts
as an awake thread, which is what makes the signal after the unlock safe.
`DeletedWhenCounted` rests on `OnePlace` (an item that was made is in the queue, in one
consumer's hands or executed, and in one of these only), on `CountedOnce` (`total_consumed` is the
number of items past the count) and on `MainToldLast`. `Refinement` maps the ring with
its two flags to `BoundedQueue`.

**Monitor_proofs.** `LogTypeCorrect` and `CpuTypeCorrect` are the types.
`RowsPerSecond` needs `OnTime`: while nothing is late, the next wake time follows
the last row. `CatchUpBounded` needs `Rising` and `WakeTimes`: the wake time rises by
one with every row and, where the monitor falls asleep, is at most a second behind
the clock; so of the rows of one second the first may have any wake time, the
second at least that of the second before, the third the second itself.
`DamageIsBounded` counts more than the rows that cannot be read: those that are not
whole in the synced part of the file (`AtRisk`), the row being written if it is cut or
follows a cut (`CurrentSpoilt`), and the cut itself, which will spoil the row appended to
it (`EndsCut`). That sum is at most twice the failures, is raised by two at most by one
of them and by nothing else, and what is unreadable is always at risk. `ShareCorrect`
needs that `prev_total` and `prev_idle` are those of the newest reading, and that a
reading that failed is all zeroes.

**JsonParse_proofs.** `JsonInvariant`, from which the three invariants of the heap and
the text follow. `Siblings` and `Visited` are recursive functions; what is needed of
them is that they are the least sets closed under `next`, and under `next` and `child`.
This is proved first (`SiblingsAre`, `VisitedAre`), with the principle of the least
counterexample as a lemma of its own (`Least`): pointers lead to items that were
allocated later (`Upward`), so whatever belongs to such a set is reached. The parts of
the inductive invariant are:

* `OneOwner`: each live item is led to by exactly one of a sibling, a parent, a call
  under way and the caller, and nothing leads to what is free;
* `CallsOK`: each call's list ends at its `current`, and lies behind the item
  that it fills; calls under way follow one another in the heap. So the list that a
  failing call deletes holds no item of another call's;
* `ItemOK`: what `parse_value` is to fill is the last item and empty, so nothing is lost
  when its fields are overwritten;
* `Linked` and `ListEnd`: the lists that are closed end at their head's `prev`, and
  no call under way still appends to them;
* `Progress`: an item has cost a character, so there is a number left for the
  next one; and in each position the offset is inside the text where the code relies on it;
* `StringsHeld`: the strings allocated are those that live items hold.

For `cJSON_Delete` it is shown that what it visits is closed and live, that nothing
outside leads into it (`NoEntry`), and, when no call is under way, that everything
live hangs from the root (`AllVisited`): so a text that is refused at any point leaves
nothing behind, and nothing is freed twice.

**JsonGrammar_proofs.** `JsonAcceptsTheGrammar` compares the loops with `Grammar`,
where `Grammar[o][rule]` is where the value, the elements or the members that are read
from o on end. That the recursive function
exists, and that only one function satisfies its equations, is proved first
(`GrammarIs`), again by a least counterexample: a value inside another begins later in
the text. The inductive invariant `GrammarInv` says, for each position of the parser,
what still has to be found so that the text has a value:

* `ValuePoint`: the text has a value exactly if one begins at the offset and
  what follows it completes the calls under way (`Leads`, which goes from the innermost
  call outwards: the list goes on behind the value, or ends, and then the list's own end
  is where the call around it goes on);
* `ElementPoint` and `TruePoint`: the same between elements, and behind a value;
* `NotAccepted`: once a call has failed the text has no value, unless memory ran out.

The nesting limit enters through `Deep`, the number of lists open at a place of the
text, which is the number of calls under way.

`JsonCategoryOfTheText` compares the tree with the text: what `get_object_item` finds
along the `next` pointers is the first name `kind` at depth one that a colon follows.
Here allocations may be refused. The invariant `CategoryInv` is needed because the
property speaks of the end only: while a value is read, or accepted,

* there is a list `q` of the items at the top level (`Listed`), which the first call
  builds, appends to at its `current`, and hands to the root at its end;
* there is a list `p` of the names at depth one whose colons stand before what was read
  (`Covers`), in the order of the text and without a gap;
* the two correspond (`Mates`): the i-th item has the i-th name, and is a string `commit`
  exactly if that stands behind the colon. While the last value is being read the
  parser is at its place, or in a call that was opened there; values inside it
  change neither list, since a call deeper than the first has another item to fill
  (`Outermost`) and the depth of its names is not one;
* in an array at the top level no item has a name, so nothing is found.

The recursion of `Member` has a solution since pointers lead upward (`SearchExists`),
and it ends at the first item of the list that has the name (`FirstMember`).

**JsonString_proofs.** `OutputBounded` compares what was written with the bytes
consumed less the backslashes skipped (`Skipped`), which needs that no two counted
backslashes are adjacent (`Spaced`): so a malformed escape of several bytes cannot
use up the room of another one. `PrintedBounded` is by cases on a byte.

`MeaningIsKept` says that a literal of JSON is never refused for its contents and is
parsed to what it means, for every length and every code point, and that printing
and parsing a string gives it back. Its invariant (`Standing`) is about marks that
exist, whether given with the literal or left behind by `print_string_ptr`:

* in the first pass `input_end` is at a mark, or inside an escape of UTF-16 but not
  behind the second `\` of a pair, which that pass skips as if it were an escape of
  its own; there are only digits, so the quote it finds is the closing one;
* in the second pass `input_pointer` is at a mark, and the output is what the
  literal means up to it (`NextCharacter`, `EmitMeaning`).

The arithmetic is in `EncodingIsUtf8` (the shifts and masks of the code give the only
well formed bytes for a code point) and `CharacterPrinted` (what is written for a byte
reads as that byte). The property is about the bytes written: `\u0000` is one of
them, and the C string ends there for whoever takes its `strlen`.

Only model-checked:

* liveness under fairness, which is out of the prover's reach: `ShutdownTerminates`,
  `MessagesLogged`, `Recovers`, `Completes`, `Terminates`.

## 5. Not modelled, and why

* Plots, the probe, the experiment script: no state that interacts.
* cJSON's printing (but for strings), construction, editing, comparison and
  minifying: never called. The inside of numbers and the byte order mark: no
  state, and `strtod` is a library.
* The reads of the parser: each is behind a test of its own of the length, and the
  model has a character `outside` for what such a test refuses. What is stated is
  that the offset stays within the text (`TypeOK`).
* The value of the occupancy as a percentage, of `cpu_pct` as a float, of a
  Project_1 item's waiting time: outputs that nothing reads back.
* TLS, DNS, and all that libwebsockets does inside. Its fragments: the callback
  keeps no state between two calls, so a fragment is a message to `Telemetry`.
* The width of the counters: 2^32 messages are needed to see it, in a process
  that could not open its log.

## 6. What is left

1. The ring joined with `ProducerConn`: a full ring stops the connection's timers.
   Now `ProducerConn` lets any time pass within `lws_service`, and `Telemetry`
   shows that the push ends; the product of the two is what no run has.
2. A variant of the parser: a number that every step lowers, as an action property.
   With `WF_vars(Next)` it is what is behind `Terminates`, and it can be proved.
