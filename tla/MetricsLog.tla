----------------------------- MODULE MetricsLog -----------------------------
(***************************************************************************)
(* The monitor's loop as seen from the clock and from the disk             *)
(* (monitor.c:27-108): it sleeps to the next whole second, or leaps over   *)
(* seconds that it has missed, and appends a row to metrics_log.txt, which *)
(* must survive the crashes after which systemd starts the program again.  *)
(* What the row counts is in Telemetry, the CPU figure in CpuSample.       *)
(*                                                                         *)
(* CLOCK_REALTIME advances in ticks, Second of them in a second.  A row is *)
(* two parts, for a crash may leave the first one alone.                   *)
(***************************************************************************)
EXTENDS Integers, Sequences, FiniteSets

CONSTANTS Second,      \* the ticks of a second
          MaxTime,     \* the bound of the clock, in ticks
          MaxRows,     \* the bound of the rows printed
          MaxFaults    \* the bound of crashes, failed writes and clock steps

ASSUME MetricsLogAssumption ==
    /\ Second \in Nat \ {0}
    /\ MaxTime \in Nat /\ MaxRows \in Nat /\ MaxFaults \in Nat

VARIABLES now,            \* CLOCK_REALTIME, in ticks
          keep_running,
          stage,          \* the next step of the monitor
          next_wake_time, \* in seconds: tv_nsec is always zero
          stdio,          \* the parts in the buffer of fp
          file,           \* the parts in the file
          synced,         \* how many of them are on the disk for sure
          rows,           \* how many rows were printed
          done,           \* history: the rows whose round was completed
          seconds,        \* history: the seconds of the rows of this run
          late,           \* history: this run was held up, or its clock set
          set_back,       \* history: the clock was set back
          faults          \* history: how much went wrong

log_vars == <<stdio, file, synced, rows, done>>
clock_vars == <<next_wake_time, seconds, late>>
log_state == <<now, keep_running, stage, clock_vars, log_vars, set_back,
               faults>>

Sec(t) == t \div Second

Fault == faults < MaxFaults /\ faults' = faults + 1

LogInit ==
    /\ now = 0 /\ keep_running = FALSE
    /\ stage = "down" /\ next_wake_time = 0
    /\ stdio = <<>> /\ file = <<>> /\ synced = 0 /\ rows = 0 /\ done = {}
    /\ seconds = <<>> /\ late = FALSE /\ set_back = FALSE /\ faults = 0
-----------------------------------------------------------------------------
(* The program starts: the file is opened for appending, at whatever a     *)
(* crash has left, and the first row is due at the next second.            *)
Open ==
    /\ stage = "down"
    /\ keep_running' = TRUE
    /\ next_wake_time' = Sec(now) + 1
    /\ seconds' = <<>> /\ late' = FALSE
    /\ stage' = "loop"
    /\ UNCHANGED <<now, log_vars, set_back, faults>>

(* The leap is forgotten. *)
FaultyMissed == FALSE

(* The second that has begun is taken for missed. *)
FaultyBehind == Sec(now) >= next_wake_time

(* More than one second behind, compared in whole seconds. *)
Missed == Sec(now) > next_wake_time + 1

Loop ==
    /\ stage = "loop" /\ keep_running /\ rows < MaxRows
    /\ next_wake_time' = IF Missed THEN Sec(now) + 1 ELSE next_wake_time
    /\ late' = (late \/ Sec(now) > next_wake_time)
    /\ stage' = "sleep"
    /\ UNCHANGED <<now, keep_running, seconds, log_vars, set_back, faults>>

Stamp ==
    /\ seconds' = Append(seconds, Sec(now))
    /\ stage' = "print"

(* clock_nanosleep returns when the clock has reached the time, and the    *)
(* time stamp is taken, a tick or many later.                              *)
Wake ==
    /\ stage = "sleep"
    /\ now >= next_wake_time * Second
    /\ Stamp
    /\ late' = (late \/ Sec(now) # next_wake_time)
    /\ UNCHANGED <<now, keep_running, next_wake_time, log_vars, set_back,
                   faults>>

(* The handler of a signal runs on this thread and cuts the sleep, whether *)
(* it is the first signal or comes when the flag is clear already.         *)
Interrupted ==
    /\ stage = "sleep"
    /\ keep_running' = FALSE
    /\ Stamp
    /\ late' = TRUE
    /\ UNCHANGED <<now, next_wake_time, log_vars, set_back, faults>>

(* fprintf, to the buffer of fp. *)
PrintRow ==
    /\ stage = "print"
    /\ rows' = rows + 1
    /\ stdio' = stdio \o <<<<rows + 1, "head">>, <<rows + 1, "tail">>>>
    /\ stage' = "flush"
    /\ UNCHANGED <<now, keep_running, clock_vars, file, synced, done,
                   set_back, faults>>

(* The rows stay in the buffer of fp. *)
FaultyFlush ==
    /\ stage = "flush"
    /\ stage' = "sync"
    /\ UNCHANGED <<now, keep_running, clock_vars, log_vars, set_back, faults>>

(* fflush, whose result is not tested: if it fails, some of the parts are  *)
(* in the file, and the rest is dropped or stays for the next time.        *)
Flush ==
    /\ stage = "flush"
    /\ \/ /\ file' = file \o stdio
          /\ stdio' = <<>>
          /\ UNCHANGED faults
       \/ \E k \in 0 .. Len(stdio) - 1 :
              /\ Fault
              /\ file' = file \o SubSeq(stdio, 1, k)
              /\ stdio' \in {<<>>, SubSeq(stdio, k + 1, Len(stdio))}
    /\ stage' = "sync"
    /\ UNCHANGED <<now, keep_running, clock_vars, synced, rows, done,
                   set_back>>

(* The row is left to the kernel. *)
FaultyDurable == synced

Durable == Len(file)

(* fdatasync, not tested either, and the end of the round. *)
Sync ==
    /\ stage = "sync"
    /\ \/ synced' = Durable /\ UNCHANGED faults
       \/ Fault /\ UNCHANGED synced
    /\ done' = done \cup {rows}
    /\ next_wake_time' = next_wake_time + 1
    /\ stage' = "loop"
    /\ UNCHANGED <<now, keep_running, seconds, late, stdio, file, rows,
                   set_back>>

(* The loop ends, and with it the process: fclose flushes what is left, as *)
(* far as it can.                                                          *)
LoopEnds ==
    /\ stage = "loop" /\ ~ keep_running
    /\ \/ file' = file \o stdio /\ UNCHANGED faults
       \/ \E k \in 0 .. Len(stdio) - 1 :
              Fault /\ file' = file \o SubSeq(stdio, 1, k)
    /\ stdio' = <<>>
    /\ stage' = "down"
    /\ UNCHANGED <<now, keep_running, clock_vars, synced, rows, done, set_back>>
-----------------------------------------------------------------------------
(* Time passes where the monitor is about to look at the clock: before     *)
(* that nobody can tell when it passed.                                    *)
Tick ==
    /\ now < MaxTime
    /\ stage \in {"down", "loop", "sleep"}
    /\ now' = now + 1
    /\ UNCHANGED <<keep_running, stage, clock_vars, log_vars, set_back, faults>>

(* The clock is set back, by NTP or by hand. *)
SetClock ==
    /\ Fault
    /\ stage \in {"loop", "sleep"}
    /\ \E t \in 0 .. now - 1 : now' = t
    /\ late' = TRUE /\ set_back' = TRUE
    /\ UNCHANGED <<keep_running, stage, next_wake_time, seconds, log_vars>>

(* The handler runs on another thread. *)
Shutdown ==
    /\ stage # "down" /\ keep_running
    /\ keep_running' = FALSE
    /\ UNCHANGED <<now, stage, clock_vars, log_vars, set_back, faults>>

(* The process is killed: what is in its memory is lost. *)
Killed ==
    /\ stage # "down" /\ Fault
    /\ stdio' = <<>>
    /\ stage' = "down"
    /\ UNCHANGED <<now, keep_running, clock_vars, file, synced, rows, done,
                   set_back>>

(* The power fails: of what was not synced any beginning may be left. *)
PowerFailure ==
    /\ stage # "down" /\ Fault
    /\ \E k \in synced .. Len(file) : synced' = k /\ file' = SubSeq(file, 1, k)
    /\ stdio' = <<>>
    /\ stage' = "down"
    /\ UNCHANGED <<now, keep_running, clock_vars, rows, done, set_back>>

LogNext ==
    \/ Open \/ Loop \/ Wake \/ Interrupted
    \/ PrintRow \/ Flush \/ Sync \/ LoopEnds
    \/ Tick \/ SetClock \/ Shutdown \/ Killed \/ PowerFailure

LogSpec == LogInit /\ [][LogNext]_log_state
-----------------------------------------------------------------------------
Parts == (1 .. rows) \X {"head", "tail"}

(* Every variable keeps its type; while nothing has failed the buffer of   *)
(* fp is empty except between fprintf and fflush.                          *)
LogTypeOK ==
    /\ now \in Nat /\ next_wake_time \in Nat
    /\ keep_running \in BOOLEAN
    /\ stage \in {"down", "loop", "sleep", "print", "flush", "sync"}
    /\ stdio \in Seq(Parts) /\ file \in Seq(Parts)
    /\ synced \in 0 .. Len(file)
    /\ rows \in Nat /\ done \subseteq 1 .. rows
    /\ seconds \in Seq(Nat)
    /\ late \in BOOLEAN /\ set_back \in BOOLEAN
    /\ faults \in 0 .. MaxFaults
    /\ faults = 0 /\ stage # "flush" => stdio = <<>>

(* While the monitor is never held up for a second and nobody sets the     *)
(* clock, it writes one row for each second, from the first one on.        *)
OneRowPerSecond ==
    ~ late => \A k \in 1 .. Len(seconds) - 1 : seconds[k + 1] = seconds[k] + 1

(* Held up for however long, the monitor catches up with at most two rows  *)
(* more in the second in which it wakes: it does not spin through all the  *)
(* seconds that it has missed.  A signal may add the row that it cuts.     *)
NoCatchUpSpin ==
    ~ set_back =>
        \A s \in {seconds[k] : k \in DOMAIN seconds} :
            Cardinality({k \in DOMAIN seconds : seconds[k] = s})
                <= IF keep_running THEN 3 ELSE 4

(* A row can be read if its line starts where another one ends.            *)
Readable(n) ==
    \E k \in 1 .. Len(file) - 1 :
        /\ file[k] = <<n, "head">> /\ file[k + 1] = <<n, "tail">>
        /\ k > 1 => file[k - 1][2] = "tail"

(* Whatever is interrupted and wherever, each failure spoils at most two   *)
(* rows whose round was completed: the one that it cuts, and the one that  *)
(* is appended to the cut one.                                             *)
DamageBounded ==
    Cardinality({n \in done : ~ Readable(n)}) <= 2 * faults
=============================================================================
