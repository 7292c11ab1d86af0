------------------------------ MODULE CpuSample ------------------------------
(***************************************************************************)
(* The CPU figure of a row (monitor.c:9-25, 36-37, 63-76): two readings of *)
(* the counters of /proc/stat, subtracted as unsigned words.               *)
(***************************************************************************)
EXTENDS Integers

CONSTANTS Word,     \* 2 to the width of unsigned long long
          MaxStat   \* the bound of the kernel's counters

ASSUME CpuSampleAssumption ==
    /\ Word \in Nat \ {0}
    /\ MaxStat \in Nat /\ 2 * MaxStat < Word

VARIABLES busy, idle,      \* the counters of the kernel, summed up
          prev_total, prev_idle,
          part, whole,     \* cpu_pct is 100 * part / whole, or 0 if whole is 0
          sampled,         \* history: the last two readings, newest first
          sampling

kernel == <<busy, idle>>
figure == <<prev_total, prev_idle, part, whole, sampled, sampling>>
cpu_vars == <<kernel, figure>>

Unread == [busy |-> 0, idle |-> 0, read |-> FALSE]

CpuInit ==
    /\ busy \in 1 .. MaxStat /\ idle \in 0 .. MaxStat
    /\ prev_total = 0 /\ prev_idle = 0
    /\ part = 0 /\ whole = 0
    /\ sampled = <<Unread, Unread>>
    /\ sampling = FALSE

(* The kernel counts on; iowait, which is part of idle, may decrease. *)
KernelCounts ==
    /\ \/ busy < MaxStat /\ busy' = busy + 1 /\ UNCHANGED idle
       \/ idle < MaxStat /\ idle' = idle + 1 /\ UNCHANGED busy
       \/ idle > 0 /\ idle' = idle - 1 /\ UNCHANGED busy
    /\ UNCHANGED figure

(* read_cpu_state: without /proc/stat the variables keep their zeroes. *)
Readings == {Unread, [busy |-> busy, idle |-> idle, read |-> TRUE]}

Total(r) == r.busy + r.idle

(* The idle time of the row before is not replaced. *)
FaultyKeep(r) ==
    /\ prev_total' = Total(r)
    /\ sampled' = <<r, sampled[1]>>
    /\ UNCHANGED prev_idle

Keep(r) ==
    /\ prev_total' = Total(r) /\ prev_idle' = r.idle
    /\ sampled' = <<r, sampled[1]>>

(* The reading before the first row. *)
FirstSample ==
    /\ ~ sampling
    /\ sampling' = TRUE
    /\ \E r \in Readings : Keep(r)
    /\ UNCHANGED <<kernel, part, whole>>

(* Subtraction as of signed numbers. *)
FaultyMinus(a, b) == a - b

(* Subtraction of unsigned words. *)
Minus(a, b) == (a - b) % Word

Sample ==
    /\ sampling
    /\ \E r \in Readings :
           LET diff_total == Minus(Total(r), prev_total)
               diff_idle == Minus(r.idle, prev_idle)
           IN /\ whole' = diff_total
              /\ part' = IF diff_total > 0 THEN Minus(diff_total, diff_idle)
                                          ELSE 0
              /\ Keep(r)
    /\ UNCHANGED <<kernel, sampling>>

CpuNext == KernelCounts \/ FirstSample \/ Sample

CpuSpec == CpuInit /\ [][CpuNext]_cpu_vars
-----------------------------------------------------------------------------
(* Words stay words. *)
CpuTypeOK ==
    /\ busy \in 0 .. MaxStat /\ idle \in 0 .. MaxStat
    /\ prev_total \in 0 .. Word - 1 /\ prev_idle \in 0 .. Word - 1
    /\ part \in 0 .. Word - 1 /\ whole \in 0 .. Word - 1
    /\ sampled \in [1 .. 2 -> [busy : 0 .. MaxStat, idle : 0 .. MaxStat,
                               read : BOOLEAN]]
    /\ sampling \in BOOLEAN

Busy == sampled[1].busy - sampled[2].busy
Idle == sampled[1].idle - sampled[2].idle

(* Two readings that succeeded, of an idle time that has not decreased,    *)
(* give the share of the busy time, between 0 and 100; and a reading that  *)
(* failed never lowers the figure of its row below 100 unless the one      *)
(* before it failed as well.                                               *)
ShareOfBusyTime ==
    /\ sampling /\ sampled[1].read /\ sampled[2].read /\ Idle >= 0
           /\ whole # 0 =>
           part * (Busy + Idle) = Busy * whole /\ part <= whole
    /\ sampling /\ ~ sampled[1].read /\ sampled[2].read => part >= whole
=============================================================================
