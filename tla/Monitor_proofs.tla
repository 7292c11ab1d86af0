---------------------------- MODULE Monitor_proofs ----------------------------
(***************************************************************************)
(* Proofs about the monitor: the CPU figure for words of every width, and  *)
(* the rows of the log for seconds of any length, clocks that run for      *)
(* ever and any number of faults.                                          *)
(***************************************************************************)
EXTENDS MetricsLog, CpuSample, SequenceTheorems, FiniteSetTheorems,
        TLAPS

(***************************************************************************)
(* CpuSample.  What a row is computed from is what the kernel's counters   *)
(* were: the busy time of a reading is positive and never ahead of the     *)
(* kernel, and the words kept for the next row belong to the last reading. *)
(***************************************************************************)

(* A reading that failed is all zeroes, and one that succeeded is not.     *)
Sound(r) ==
    /\ r \in [busy : 0 .. MaxStat, idle : 0 .. MaxStat, read : BOOLEAN]
    /\ r.read => r.busy >= 1 /\ r.busy <= busy
    /\ ~ r.read => r.busy = 0 /\ r.idle = 0

CpuIInv ==
    /\ CpuTypeOK
    /\ busy >= 1
    /\ Sound(sampled[1])
    /\ prev_total = Total(sampled[1]) /\ prev_idle = sampled[1].idle

(* Subtraction of words, for words of any width. *)
LEMMA MinusIs ==
    ASSUME NEW a \in 0 .. Word - 1, NEW b \in 0 .. Word - 1
    PROVE  /\ Minus(a, b) \in 0 .. Word - 1
           /\ a >= b => Minus(a, b) = a - b
           /\ a < b => Minus(a, b) = a - b + Word
<1> USE CpuSampleAssumption DEF Minus
<1>1. CASE a >= b
  <2>1. a - b \in 0 .. Word - 1
    BY <1>1
  <2> QED
    BY <1>1, <2>1
<1>2. CASE a < b
  <2>1. a - b + Word \in 0 .. Word - 1
    BY <1>2
  <2>2. (a - b + Word) % Word = a - b + Word
    BY <2>1
  <2>3. (a - b + Word) % Word = (a - b) % Word
    BY <1>2
  <2> QED
    BY <1>2, <2>1, <2>2, <2>3
<1> QED
  BY <1>1, <1>2

(* The sum of the counters is a word. *)
LEMMA TotalIsAWord ==
    ASSUME NEW r, Sound(r), CpuIInv
    PROVE  Total(r) \in 0 .. Word - 1 /\ r.idle \in 0 .. Word - 1
BY CpuSampleAssumption DEF Sound, Total, CpuIInv, CpuTypeOK

(* Every reading is sound. *)
LEMMA ReadingsSound ==
    ASSUME CpuIInv, NEW r \in Readings
    PROVE  Sound(r)
<1> USE CpuSampleAssumption
<1>1. CASE r = Unread
  BY <1>1 DEF Unread, Sound
<1>2. CASE r = [busy |-> busy, idle |-> idle, read |-> TRUE]
  BY <1>2 DEF Sound, CpuIInv, CpuTypeOK
<1> QED
  BY <1>1, <1>2 DEF Readings

LEMMA PairOf ==
    ASSUME NEW S, NEW a \in S, NEW b \in S
    PROVE  /\ <<a, b>> \in [1 .. 2 -> S]
           /\ <<a, b>>[1] = a /\ <<a, b>>[2] = b
OBVIOUS

LEMMA CpuInitIInv == CpuInit => CpuIInv
<1> SUFFICES ASSUME CpuInit PROVE CpuIInv
  OBVIOUS
<1> USE CpuSampleAssumption DEF CpuInit
<1>1. Sound(Unread)
  BY DEF Unread, Sound
<1>2. /\ sampled \in [1 .. 2 -> [busy : 0 .. MaxStat, idle : 0 .. MaxStat,
                                read : BOOLEAN]]
      /\ sampled[1] = Unread
  BY <1>1, PairOf DEF Sound
<1>3. Total(Unread) = 0 /\ Unread.idle = 0
  BY DEF Unread, Total
<1>4. prev_total \in 0 .. Word - 1 /\ prev_idle \in 0 .. Word - 1
      /\ part \in 0 .. Word - 1 /\ whole \in 0 .. Word - 1
  OBVIOUS
<1>5. busy \in 0 .. MaxStat /\ idle \in 0 .. MaxStat /\ busy >= 1
  OBVIOUS
<1>6. sampling \in BOOLEAN
  BY Zenon
<1> QED
  BY <1>1, <1>2, <1>3, <1>4, <1>5, <1>6 DEF CpuIInv, CpuTypeOK

LEMMA CpuStepIInv == CpuIInv /\ [CpuNext]_cpu_vars => CpuIInv'
<1> SUFFICES ASSUME CpuIInv, [CpuNext]_cpu_vars PROVE CpuIInv'
  OBVIOUS
<1> USE CpuSampleAssumption DEF CpuIInv, CpuTypeOK
<1>1. CASE KernelCounts
  <2>1. /\ busy' \in 0 .. MaxStat /\ idle' \in 0 .. MaxStat
        /\ busy' >= busy
        /\ UNCHANGED figure
    BY <1>1 DEF KernelCounts
  <2>2. Sound(sampled[1])'
    BY <2>1 DEF figure, Sound
  <2> QED
    BY <2>1, <2>2 DEF figure, Total
<1>2. CASE FirstSample
  <2> PICK r \in Readings : Keep(r)
    BY <1>2 DEF FirstSample
  <2>1. Sound(r) /\ Total(r) \in 0 .. Word - 1 /\ r.idle \in 0 .. Word - 1
    BY ReadingsSound, TotalIsAWord
  <2>2. sampled' = <<r, sampled[1]>> /\ sampled'[1] = r
    BY DEF Keep
  <2>3. Sound(r)'
    BY <1>2, <2>1, <2>2 DEF FirstSample, kernel, Sound
  <2> QED
    BY <1>2, <2>1, <2>2, <2>3 DEF FirstSample, Keep, kernel, Sound, Total
<1>3. CASE Sample
  <2> PICK r \in Readings :
          LET diff_total == Minus(Total(r), prev_total)
              diff_idle == Minus(r.idle, prev_idle)
          IN /\ whole' = diff_total
             /\ part' = IF diff_total > 0 THEN Minus(diff_total, diff_idle)
                                         ELSE 0
             /\ Keep(r)
    BY <1>3 DEF Sample
  <2>1. Sound(r) /\ Total(r) \in 0 .. Word - 1 /\ r.idle \in 0 .. Word - 1
    BY ReadingsSound, TotalIsAWord
  <2>2. sampled' = <<r, sampled[1]>> /\ sampled'[1] = r
    BY DEF Keep
  <2>3. Sound(r)'
    BY <1>3, <2>1, <2>2 DEF Sample, kernel, Sound
  <2>4. /\ Minus(Total(r), prev_total) \in 0 .. Word - 1
        /\ Minus(r.idle, prev_idle) \in 0 .. Word - 1
    BY <2>1, MinusIs
  <2>5. whole' \in 0 .. Word - 1 /\ part' \in 0 .. Word - 1
    <3>1. part' = 0 \/ part' = Minus(whole', Minus(r.idle, prev_idle))
      OBVIOUS
    <3>2. whole' = Minus(Total(r), prev_total)
      OBVIOUS
    <3>3. whole' \in 0 .. Word - 1
      BY <2>4, <3>2
    <3>4. Minus(whole', Minus(r.idle, prev_idle)) \in 0 .. Word - 1
      BY <2>4, <3>3, MinusIs
    <3>5. 0 \in 0 .. Word - 1
      OBVIOUS
    <3> QED
      BY <3>1, <3>3, <3>4, <3>5
  <2> QED
    BY <1>3, <2>1, <2>2, <2>3, <2>5 DEF Sample, Keep, kernel, Sound, Total
<1>4. CASE UNCHANGED cpu_vars
  BY <1>4 DEF cpu_vars, kernel, figure, Sound, Total
<1> QED
  BY <1>1, <1>2, <1>3, <1>4 DEF CpuNext

(* The type of the CPU figure (monitor.c:63-76) for words of any width:    *)
(* what wraps stays a word.                                                *)
THEOREM CpuTypeCorrect == CpuSpec => []CpuTypeOK
<1>1. CpuIInv => CpuTypeOK
  BY DEF CpuIInv
<1> QED
  BY <1>1, CpuInitIInv, CpuStepIInv, PTL DEF CpuSpec

(* A row of two readings that succeeded. *)
LEMMA ShareOfTwo ==
    ASSUME CpuIInv, NEW r, Sound(r), r.read, sampled[1].read,
           r.busy >= sampled[1].busy, r.idle >= sampled[1].idle
    PROVE  LET diff_total == Minus(Total(r), prev_total)
               diff_idle == Minus(r.idle, prev_idle)
           IN /\ diff_total = (r.busy - sampled[1].busy)
                                  + (r.idle - sampled[1].idle)
              /\ Minus(diff_total, diff_idle) = r.busy - sampled[1].busy
<1> DEFINE dt == Minus(Total(r), prev_total)
           di == Minus(r.idle, prev_idle)
<1>1. /\ Total(r) \in 0 .. Word - 1 /\ r.idle \in 0 .. Word - 1
      /\ prev_total \in 0 .. Word - 1 /\ prev_idle \in 0 .. Word - 1
  BY TotalIsAWord DEF CpuIInv, CpuTypeOK
<1>2. /\ r.busy \in Nat /\ r.idle \in Nat
      /\ sampled[1].busy \in Nat /\ sampled[1].idle \in Nat
  BY CpuSampleAssumption DEF Sound, CpuIInv
<1>3. /\ Total(r) >= prev_total /\ r.idle >= prev_idle
      /\ Total(r) - prev_total = (r.busy - sampled[1].busy)
                                     + (r.idle - sampled[1].idle)
      /\ r.idle - prev_idle = r.idle - sampled[1].idle
  BY <1>2 DEF CpuIInv, Total
<1>4. dt = Total(r) - prev_total /\ dt \in 0 .. Word - 1
  BY <1>1, <1>3, MinusIs
<1>5. di = r.idle - prev_idle /\ di \in 0 .. Word - 1
  BY <1>1, <1>3, MinusIs
<1>6. Minus(dt, di) = dt - di
  <2>1. dt >= di
    BY <1>2, <1>3, <1>4, <1>5
  <2> HIDE DEF dt, di
  <2> QED
    BY <2>1, <1>4, <1>5, MinusIs
<1> QED
  BY <1>2, <1>3, <1>4, <1>5, <1>6

(* A row whose reading failed after one that succeeded: all is subtracted  *)
(* from zero.                                                              *)
LEMMA ShareOfFailure ==
    ASSUME CpuIInv, sampled[1].read
    PROVE  LET diff_total == Minus(0, prev_total)
               diff_idle == Minus(0, prev_idle)
           IN diff_total > 0 /\ Minus(diff_total, diff_idle) >= diff_total
<1> DEFINE dt == Minus(0, prev_total)
           di == Minus(0, prev_idle)
<1> USE CpuSampleAssumption
<1>1. /\ 0 \in 0 .. Word - 1
      /\ prev_total \in 0 .. Word - 1 /\ prev_idle \in 0 .. Word - 1
  BY DEF CpuIInv, CpuTypeOK
<1>2. /\ prev_total >= prev_idle + 1 /\ prev_idle >= 0
  BY DEF CpuIInv, Sound, Total
<1>3. dt = Word - prev_total /\ dt \in 0 .. Word - 1
  BY <1>1, <1>2, MinusIs
<1>4. /\ di \in 0 .. Word - 1
      /\ prev_idle = 0 => di = 0
      /\ prev_idle > 0 => di = Word - prev_idle
  BY <1>1, <1>2, MinusIs
<1>5. Minus(dt, di) >= dt
  <2> HIDE DEF dt, di
  <2>1. CASE prev_idle = 0
    BY <2>1, <1>3, <1>4, MinusIs
  <2>2. CASE prev_idle > 0
    <3>1. dt < di
      BY <2>2, <1>1, <1>2, <1>3, <1>4
    <3>2. Minus(dt, di) = dt - di + Word
      BY <3>1, <1>3, <1>4, MinusIs
    <3> QED
      BY <3>2, <2>2, <1>1, <1>3, <1>4
  <2> QED
    BY <2>1, <2>2, <1>1
<1> QED
  BY <1>1, <1>2, <1>3, <1>5

CpuIInvShare ==
    /\ CpuIInv
    /\ ~ sampling => sampled[1] = Unread
    /\ ShareOfBusyTime

LEMMA ShareInit == CpuInit => CpuIInvShare
<1> SUFFICES ASSUME CpuInit PROVE CpuIInvShare
  OBVIOUS
<1>1. CpuIInv
  BY CpuInitIInv
<1>2. ~ sampling /\ sampled[1] = Unread
  BY DEF CpuInit
<1> QED
  BY <1>1, <1>2 DEF CpuIInvShare, ShareOfBusyTime

LEMMA ShareStep == CpuIInvShare /\ [CpuNext]_cpu_vars => CpuIInvShare'
<1> SUFFICES ASSUME CpuIInvShare, [CpuNext]_cpu_vars PROVE CpuIInvShare'
  OBVIOUS
<1>0. CpuIInv'
  BY CpuStepIInv DEF CpuIInvShare
<1> USE DEF CpuIInvShare
<1>1. CASE KernelCounts \/ UNCHANGED cpu_vars
  <2>1. UNCHANGED figure
    BY <1>1 DEF KernelCounts, cpu_vars
  <2> QED
    BY <1>0, <2>1 DEF figure, ShareOfBusyTime, Busy, Idle
<1>2. CASE FirstSample
  <2> PICK r \in Readings : Keep(r)
    BY <1>2 DEF FirstSample
  <2>1. sampled'[2] = Unread /\ ~ sampled'[2].read
    BY <1>2 DEF FirstSample, Keep, Unread
  <2>2. sampling'
    BY <1>2 DEF FirstSample
  <2> QED
    BY <1>0, <2>1, <2>2 DEF ShareOfBusyTime
<1>3. CASE Sample
  <2> PICK r \in Readings :
          LET diff_total == Minus(Total(r), prev_total)
              diff_idle == Minus(r.idle, prev_idle)
          IN /\ whole' = diff_total
             /\ part' = IF diff_total > 0 THEN Minus(diff_total, diff_idle)
                                         ELSE 0
             /\ Keep(r)
    BY <1>3 DEF Sample
  <2>1. sampled' = <<r, sampled[1]>> /\ sampled'[1] = r
            /\ sampled'[2] = sampled[1]
    BY DEF Keep
  <2>2. Sound(r) /\ Sound(sampled[1])
    BY ReadingsSound DEF CpuIInv
  <2>3. sampling'
    BY <1>3 DEF Sample
  <2>4. ASSUME r.read, sampled[1].read, r.idle - sampled[1].idle >= 0,
               whole' # 0
        PROVE  /\ part' * ((r.busy - sampled[1].busy)
                               + (r.idle - sampled[1].idle))
                      = (r.busy - sampled[1].busy) * whole'
               /\ part' <= whole'
    <3>1. r = [busy |-> busy, idle |-> idle, read |-> TRUE]
      BY <2>4 DEF Readings, Unread
    <3>2. /\ r.busy \in Nat /\ r.idle \in Nat
          /\ sampled[1].busy \in Nat /\ sampled[1].idle \in Nat
      BY <2>2, CpuSampleAssumption DEF Sound
    <3>3. r.busy >= sampled[1].busy /\ r.idle >= sampled[1].idle
      BY <2>2, <2>4, <3>1, <3>2 DEF Sound
    <3>4. /\ whole' = (r.busy - sampled[1].busy)
                          + (r.idle - sampled[1].idle)
          /\ Minus(whole', Minus(r.idle, prev_idle))
                 = r.busy - sampled[1].busy
      BY <2>2, <2>4, <3>3, ShareOfTwo
    <3>5. whole' > 0
      BY <2>4, <3>2, <3>3, <3>4
    <3>6. part' = r.busy - sampled[1].busy
      BY <3>4, <3>5
    <3> QED
      BY <3>2, <3>3, <3>4, <3>6
  <2>5. ASSUME ~ r.read, sampled[1].read
        PROVE  part' >= whole'
    <3>1. Total(r) = 0 /\ r.idle = 0
      BY <2>2, <2>5 DEF Sound, Total
    <3> QED
      BY <2>5, <3>1, ShareOfFailure
  <2> QED
    BY <1>0, <2>1, <2>3, <2>4, <2>5 DEF ShareOfBusyTime, Busy, Idle
<1> QED
  BY <1>1, <1>2, <1>3 DEF CpuNext

(* The figure that monitor.c:67-73 computes from unsigned words is the     *)
(* share of the busy time, for any width of the words, whenever both       *)
(* readings succeeded and the idle time has not decreased; and it is at    *)
(* least the whole when the reading of its row failed.                     *)
THEOREM ShareCorrect == CpuSpec => []ShareOfBusyTime
<1>1. CpuIInvShare => ShareOfBusyTime
  BY DEF CpuIInvShare
<1> QED
  BY <1>1, ShareInit, ShareStep, PTL DEF CpuSpec
-----------------------------------------------------------------------------
(***************************************************************************)
(* MetricsLog.  The types are almost inductive: a round that is past       *)
(* fprintf has printed a row.                                              *)
(***************************************************************************)
LogIInv ==
    /\ LogTypeOK
    /\ stage \in {"flush", "sync"} => rows >= 1

LEMMA SecIsNat == ASSUME NEW t \in Nat PROVE Sec(t) \in Nat
BY MetricsLogAssumption DEF Sec

LEMMA LogInitIInv == LogInit => LogIInv
<1> SUFFICES ASSUME LogInit PROVE LogIInv
  OBVIOUS
<1> USE MetricsLogAssumption DEF LogInit
<1>1. /\ now \in Nat /\ next_wake_time \in Nat /\ rows = 0
      /\ stage = "down" /\ seconds = <<>> /\ stdio = <<>> /\ file = <<>>
      /\ synced \in 0 .. Len(file) /\ done \subseteq 1 .. rows
      /\ faults \in 0 .. MaxFaults
  OBVIOUS
<1>2. keep_running \in BOOLEAN /\ late \in BOOLEAN /\ set_back \in BOOLEAN
  BY Zenon
<1> QED
  BY <1>1, <1>2 DEF LogIInv, LogTypeOK

LEMMA LogStepIInv == LogIInv /\ [LogNext]_log_state => LogIInv'
<1> SUFFICES ASSUME LogIInv, [LogNext]_log_state PROVE LogIInv'
  OBVIOUS
<1> USE MetricsLogAssumption DEF LogIInv, LogTypeOK, log_vars, clock_vars
<1>0. Sec(now) \in Nat
  BY SecIsNat
<1>1. CASE Open
  <2>1. keep_running' \in BOOLEAN /\ late' \in BOOLEAN
    BY <1>1, Zenon DEF Open
  <2>2. seconds' \in Seq(Nat) /\ next_wake_time' \in Nat
    BY <1>0, <1>1 DEF Open
  <2> QED
    BY <1>1, <2>1, <2>2 DEF Open, Parts
<1>2. CASE Loop
  BY <1>0, <1>2 DEF Loop, Missed, Parts
<1>3. CASE Wake
  BY <1>0, <1>3 DEF Wake, Stamp, Parts
<1>4. CASE Interrupted
  <2>1. keep_running' \in BOOLEAN /\ late' \in BOOLEAN
    BY <1>4, Zenon DEF Interrupted
  <2>2. seconds' \in Seq(Nat)
    BY <1>0, <1>4 DEF Interrupted, Stamp
  <2> QED
    BY <1>4, <2>1, <2>2 DEF Interrupted, Stamp, Parts
<1>5. CASE PrintRow
  <2>1. rows' = rows + 1 /\ rows' \in Nat
    BY <1>5 DEF PrintRow
  <2>2. Parts \subseteq Parts'
    BY <2>1 DEF Parts
  <2>3. stdio \in Seq(Parts') /\ file \in Seq(Parts')
    BY <2>2
  <2>4. <<rows + 1, "head">> \in Parts' /\ <<rows + 1, "tail">> \in Parts'
    BY <2>1 DEF Parts
  <2>5. stdio' \in Seq(Parts')
    BY <1>5, <2>3, <2>4 DEF PrintRow
  <2>6. done' \subseteq 1 .. rows'
    BY <1>5, <2>1 DEF PrintRow
  <2> QED
    BY <1>5, <2>1, <2>3, <2>5, <2>6 DEF PrintRow
<1>6. CASE Flush
  <2>1. /\ file' \in Seq(Parts) /\ stdio' \in Seq(Parts)
        /\ Len(file') >= Len(file)
        /\ faults' \in 0 .. MaxFaults
        /\ faults' = 0 => stdio' = <<>>
    <3>1. CASE file' = file \o stdio /\ stdio' = <<>> /\ UNCHANGED faults
      BY <3>1
    <3>2. ASSUME NEW k \in 0 .. Len(stdio) - 1,
                 Fault,
                 file' = file \o SubSeq(stdio, 1, k),
                 stdio' \in {<<>>, SubSeq(stdio, k + 1, Len(stdio))}
          PROVE  /\ file' \in Seq(Parts) /\ stdio' \in Seq(Parts)
                 /\ Len(file') >= Len(file)
                 /\ faults' \in 0 .. MaxFaults
                 /\ faults' # 0
      <4>1. SubSeq(stdio, 1, k) \in Seq(Parts) /\ Len(SubSeq(stdio, 1, k)) = k
        OBVIOUS
      <4>2. SubSeq(stdio, k + 1, Len(stdio)) \in Seq(Parts)
        OBVIOUS
      <4>3. /\ file \o SubSeq(stdio, 1, k) \in Seq(Parts)
            /\ Len(file \o SubSeq(stdio, 1, k)) = Len(file) + k
        BY <4>1, ConcatProperties
      <4>4. stdio' \in Seq(Parts)
        <5>1. CASE stdio' = <<>>
          BY <5>1
        <5>2. CASE stdio' = SubSeq(stdio, k + 1, Len(stdio))
          BY <5>2, <4>2
        <5> QED
          BY <3>2, <5>1, <5>2
      <4>5. faults' \in 0 .. MaxFaults /\ faults' # 0
        BY <3>2 DEF Fault
      <4> QED
        BY <3>2, <4>3, <4>4, <4>5
    <3> QED
      BY <1>6, <3>1, <3>2 DEF Flush
  <2> QED
    BY <1>6, <2>1 DEF Flush, Parts
<1>7. CASE Sync
  BY <1>7 DEF Sync, Durable, Fault, Parts
<1>8. CASE LoopEnds
  <2>1. /\ file' \in Seq(Parts) /\ Len(file') >= Len(file)
        /\ faults' \in 0 .. MaxFaults
    <3>1. CASE file' = file \o stdio /\ UNCHANGED faults
      BY <3>1
    <3>2. ASSUME NEW k \in 0 .. Len(stdio) - 1,
                 Fault, file' = file \o SubSeq(stdio, 1, k)
          PROVE  /\ file' \in Seq(Parts) /\ Len(file') >= Len(file)
                 /\ faults' \in 0 .. MaxFaults
      <4>1. SubSeq(stdio, 1, k) \in Seq(Parts) /\ Len(SubSeq(stdio, 1, k)) = k
        OBVIOUS
      <4>2. /\ file \o SubSeq(stdio, 1, k) \in Seq(Parts)
            /\ Len(file \o SubSeq(stdio, 1, k)) = Len(file) + k
        BY <4>1, ConcatProperties
      <4>3. faults' \in 0 .. MaxFaults
        BY <3>2 DEF Fault
      <4> QED
        BY <3>2, <4>2, <4>3
    <3> QED
      BY <1>8, <3>1, <3>2 DEF LoopEnds
  <2> QED
    BY <1>8, <2>1 DEF LoopEnds, Parts
<1>9. CASE Tick
  BY <1>9 DEF Tick, Parts
<1>10. CASE SetClock
  BY <1>10 DEF SetClock, Fault, Parts
<1>11. CASE Shutdown
  BY <1>11 DEF Shutdown, Parts
<1>12. CASE Killed
  BY <1>12 DEF Killed, Fault, Parts
<1>13. CASE PowerFailure
  <2>1. PICK k \in synced .. Len(file) :
            synced' = k /\ file' = SubSeq(file, 1, k)
    BY <1>13 DEF PowerFailure
  <2>2. file' \in Seq(Parts) /\ Len(file') = k
    BY <2>1
  <2> QED
    BY <1>13, <2>1, <2>2 DEF PowerFailure, Fault, Parts
<1>14. CASE UNCHANGED log_state
  BY <1>14 DEF log_state, Parts
<1> QED
  BY <1>1, <1>2, <1>3, <1>4, <1>5, <1>6, <1>7, <1>8, <1>9, <1>10, <1>11,
     <1>12, <1>13, <1>14 DEF LogNext

(* The types of the monitor's loop and of the log (monitor.c:27-108), for  *)
(* seconds of any length and any number of faults: while nothing fails     *)
(* each row leaves the buffer of fp in its own round.                      *)
THEOREM LogTypeCorrect == LogSpec => []LogTypeOK
<1>1. LogIInv => LogTypeOK
  BY DEF LogIInv
<1> QED
  BY <1>1, LogInitIInv, LogStepIInv, PTL DEF LogSpec
-----------------------------------------------------------------------------
(***************************************************************************)
(* One row for each second.  While the monitor is not held up the last row *)
(* belongs to the wake time, or to the second before the next one.         *)
(***************************************************************************)
Last == seconds[Len(seconds)]

OnTime ==
    ~ late /\ seconds # <<>> =>
        /\ stage \in {"loop", "sleep"} => Last = next_wake_time - 1
        /\ stage \in {"print", "flush", "sync"} => Last = next_wake_time

LEMMA LastIsNat ==
    ASSUME LogTypeOK, seconds # <<>>
    PROVE  /\ Len(seconds) \in Nat \ {0}
           /\ Last \in Nat
           /\ \A k \in 1 .. Len(seconds) : seconds[k] \in Nat
BY DEF LogTypeOK, Last

LEMMA AppendSecond ==
    ASSUME LogTypeOK, Stamp
    PROVE  /\ Len(seconds') = Len(seconds) + 1
           /\ seconds' # <<>>
           /\ Last' = Sec(now)
           /\ \A k \in 1 .. Len(seconds) : seconds'[k] = seconds[k]
<1>1. Sec(now) \in Nat /\ seconds \in Seq(Nat)
  BY SecIsNat DEF LogTypeOK
<1>2. seconds' = Append(seconds, Sec(now))
  BY DEF Stamp
<1>3. /\ seconds' \in Seq(Nat)
      /\ Len(seconds') = Len(seconds) + 1
      /\ seconds'[Len(seconds) + 1] = Sec(now)
      /\ \A k \in 1 .. Len(seconds) : seconds'[k] = seconds[k]
  BY <1>1, <1>2
<1>4. seconds' # <<>>
  BY <1>1, <1>3
<1> QED
  BY <1>3, <1>4 DEF Last

LEMMA OnTimeInit == LogInit => OneRowPerSecond /\ OnTime
BY DEF LogInit, OneRowPerSecond, OnTime

LEMMA OnTimeStep ==
    ASSUME LogTypeOK, OneRowPerSecond, OnTime, [LogNext]_log_state
    PROVE  OneRowPerSecond' /\ OnTime'
<1>0. Sec(now) \in Nat /\ next_wake_time \in Nat /\ Len(seconds) \in Nat
  <2>1. now \in Nat /\ next_wake_time \in Nat /\ seconds \in Seq(Nat)
    BY DEF LogTypeOK
  <2> QED
    BY <2>1, SecIsNat
<1> USE DEF OneRowPerSecond, OnTime, log_vars, clock_vars, Last
<1>1. CASE Open
  <2>1. seconds' = <<>>
    BY <1>1 DEF Open
  <2> QED
    BY <2>1
<1>2. CASE Loop
  <2>1. UNCHANGED seconds /\ stage' = "sleep" /\ stage = "loop"
    BY <1>2 DEF Loop
  <2>2. ~ late' => ~ late /\ next_wake_time' = next_wake_time
    <3>1. Missed => Sec(now) > next_wake_time
      BY <1>0 DEF Missed
    <3>2. /\ late' = (late \/ Sec(now) > next_wake_time)
          /\ ~ Missed => next_wake_time' = next_wake_time
      BY <1>2 DEF Loop
    <3> QED
      BY <3>1, <3>2, Zenon
  <2> QED
    BY <2>1, <2>2
<1>3. CASE Wake
  <2>1. CASE late'
    BY <2>1
  <2>2. CASE ~ late'
    <3>1. ~ late /\ Sec(now) = next_wake_time
      BY <1>3, <2>2 DEF Wake
    <3>2. CASE seconds = <<>>
      <4>1. Len(seconds') = 1 /\ Last' = next_wake_time
        BY <1>3, <3>1, <3>2, AppendSecond DEF Wake
      <4> QED
        BY <1>3, <4>1 DEF Wake, Stamp
    <3>3. CASE seconds # <<>>
      <4>1. Last = next_wake_time - 1 /\ Last \in Nat
        BY <1>3, <3>1, <3>3, LastIsNat DEF Wake
      <4>2. /\ Len(seconds') = Len(seconds) + 1
            /\ Last' = next_wake_time
            /\ \A k \in 1 .. Len(seconds) : seconds'[k] = seconds[k]
        BY <1>3, <3>1, AppendSecond DEF Wake
      <4>3. \A k \in 1 .. Len(seconds') - 1 :
                seconds'[k + 1] = seconds'[k] + 1
        <5> TAKE k \in 1 .. Len(seconds') - 1
        <5>1. CASE k = Len(seconds)
          BY <1>0, <5>1, <4>1, <4>2
        <5>2. CASE k # Len(seconds)
          <6>1. /\ k \in 1 .. Len(seconds) - 1
                /\ k + 1 \in 1 .. Len(seconds)
            BY <1>0, <5>2, <4>2
          <6>2. seconds[k + 1] = seconds[k] + 1
            BY <3>1, <6>1
          <6> QED
            BY <6>1, <6>2, <4>2
        <5> QED
          BY <5>1, <5>2
      <4> QED
        BY <1>3, <4>2, <4>3 DEF Wake, Stamp
    <3> QED
      BY <3>2, <3>3
  <2> QED
    BY <2>1, <2>2
<1>4. CASE Interrupted
  BY <1>4 DEF Interrupted
<1>5. CASE PrintRow
  BY <1>5 DEF PrintRow
<1>6. CASE Flush
  BY <1>6 DEF Flush
<1>7. CASE Sync
  BY <1>0, <1>7 DEF Sync
<1>8. CASE LoopEnds
  BY <1>8 DEF LoopEnds
<1>9. CASE Tick
  BY <1>9 DEF Tick
<1>10. CASE SetClock
  BY <1>10 DEF SetClock
<1>11. CASE Shutdown
  BY <1>11 DEF Shutdown
<1>12. CASE Killed
  BY <1>12 DEF Killed
<1>13. CASE PowerFailure
  BY <1>13 DEF PowerFailure
<1>14. CASE UNCHANGED log_state
  BY <1>14 DEF log_state
<1> QED
  BY <1>1, <1>2, <1>3, <1>4, <1>5, <1>6, <1>7, <1>8, <1>9, <1>10, <1>11,
     <1>12, <1>13, <1>14 DEF LogNext

(* The rows of a monitor that is never held up for a second and whose      *)
(* clock nobody sets (monitor.c:46-61) are one for each second.            *)
THEOREM RowsPerSecond == LogSpec => []OneRowPerSecond
<1>1. LogInit => LogIInv /\ OneRowPerSecond /\ OnTime
  BY LogInitIInv, OnTimeInit
<1>2. /\ LogIInv /\ OneRowPerSecond /\ OnTime
      /\ [LogNext]_log_state
      => (LogIInv /\ OneRowPerSecond /\ OnTime)'
  <2>1. LogIInv => LogTypeOK
    BY DEF LogIInv
  <2> QED
    BY <2>1, LogStepIInv, OnTimeStep
<1> QED
  BY <1>1, <1>2, PTL DEF LogSpec
-----------------------------------------------------------------------------
(***************************************************************************)
(* No catching up by spinning.  The wake time rises by one with every row, *)
(* and where the monitor falls asleep it is at most a second behind the    *)
(* clock.  So of the rows of the last second the first may be late by any  *)
(* time, the second row had a wake time of the second before at least, and *)
(* the third one the second itself.  Due(w) is that count for the wake     *)
(* time w of the last row.                                                 *)
(***************************************************************************)
RowsOf(q, s) == {k \in DOMAIN q : q[k] = s}

Count(s) == Cardinality(RowsOf(seconds, s))

Due(w) ==
    /\ Count(Last) <= 3
    /\ w < Last => Count(Last) <= 2
    /\ w < Last - 1 => Count(Last) <= 1

Uncut == keep_running \/ stage = "sleep"

Rising ==
    seconds # <<>> =>
        /\ Last <= Sec(now)
        /\ \A k \in DOMAIN seconds : seconds[k] <= Last

WakeTimes ==
    Uncut /\ seconds # <<>> =>
        /\ stage \in {"print", "flush", "sync"} => Due(next_wake_time)
        /\ stage \in {"loop", "sleep"} => Due(next_wake_time - 1)
        /\ stage = "sleep" => next_wake_time >= Last - 1

AtMost == \A s \in Nat : Count(s) <= IF Uncut THEN 3 ELSE 4

SpinInv == ~ set_back => Rising /\ WakeTimes /\ AtMost

LEMMA CountIsNat ==
    ASSUME LogTypeOK, NEW s
    PROVE  Count(s) \in Nat /\ IsFiniteSet(RowsOf(seconds, s))
<1>1. DOMAIN seconds = 1 .. Len(seconds) /\ Len(seconds) \in Nat
  BY DEF LogTypeOK
<1>2. IsFiniteSet(DOMAIN seconds)
  BY <1>1, FS_Interval
<1>3. RowsOf(seconds, s) \subseteq DOMAIN seconds
  BY DEF RowsOf
<1> QED
  BY <1>2, <1>3, FS_Subset, FS_CardinalityType DEF Count

(* A row more counts for its own second. *)
LEMMA CountStamp ==
    ASSUME LogTypeOK, Stamp, NEW s
    PROVE  Count(s)' = IF s = Sec(now) THEN Count(s) + 1 ELSE Count(s)
<1> DEFINE n == Len(seconds) + 1
<1>1. /\ DOMAIN seconds = 1 .. Len(seconds) /\ Len(seconds) \in Nat
      /\ DOMAIN seconds' = 1 .. n
      /\ seconds'[n] = Sec(now)
      /\ \A k \in 1 .. Len(seconds) : seconds'[k] = seconds[k]
  <2>1. seconds \in Seq(Nat) /\ Sec(now) \in Nat
    BY SecIsNat DEF LogTypeOK
  <2>2. seconds' = Append(seconds, Sec(now))
    BY DEF Stamp
  <2> QED
    BY <2>1, <2>2
<1>2. n \notin RowsOf(seconds, s)
  BY <1>1 DEF RowsOf
<1>3. CASE s = Sec(now)
  <2>1. RowsOf(seconds', s) = RowsOf(seconds, s) \cup {n}
    BY <1>1, <1>3 DEF RowsOf
  <2>2. IsFiniteSet(RowsOf(seconds, s))
    BY CountIsNat
  <2>3. Cardinality(RowsOf(seconds, s) \cup {n})
            = Cardinality(RowsOf(seconds, s)) + 1
    BY <1>2, <2>2, FS_AddElement
  <2> QED
    BY <1>3, <2>1, <2>3 DEF Count
<1>4. CASE s # Sec(now)
  <2>1. RowsOf(seconds', s) = RowsOf(seconds, s)
    BY <1>1, <1>4 DEF RowsOf
  <2> QED
    BY <1>4, <2>1 DEF Count
<1> QED
  BY <1>3, <1>4

(* A second that no row has reached has none. *)
LEMMA CountNone ==
    ASSUME LogTypeOK, Rising, NEW s \in Nat, seconds # <<>> => s > Last
    PROVE  Count(s) = 0
<1>1. DOMAIN seconds = 1 .. Len(seconds) /\ Len(seconds) \in Nat
  BY DEF LogTypeOK
<1>2. ASSUME NEW k \in DOMAIN seconds PROVE seconds[k] # s
  <2>1. seconds # <<>>
    BY <1>1
  <2>2. seconds[k] <= Last /\ seconds[k] \in Nat /\ Last \in Nat
    BY <1>1, <2>1, LastIsNat DEF Rising
  <2> QED
    BY <2>1, <2>2
<1>3. RowsOf(seconds, s) = {}
  BY <1>2 DEF RowsOf
<1> QED
  BY <1>3, FS_EmptySet DEF Count

LEMMA SpinInit == LogInit => SpinInv
<1> SUFFICES ASSUME LogInit PROVE SpinInv
  OBVIOUS
<1>1. seconds = <<>>
  BY DEF LogInit
<1>2. \A s : RowsOf(seconds, s) = {}
  BY <1>1 DEF RowsOf
<1>3. \A s : Count(s) = 0
  BY <1>2, FS_EmptySet DEF Count
<1> QED
  BY <1>1, <1>3 DEF SpinInv, Rising, WakeTimes, AtMost
LEMMA SecRises ==
    ASSUME NEW t \in Nat, NEW u \in Nat, t <= u
    PROVE  Sec(t) <= Sec(u)
<1>1. /\ Sec(t) \in Nat /\ Sec(u) \in Nat /\ Second \in Nat \ {0}
      /\ Second * Sec(t) <= t /\ u < Second * (Sec(u) + 1)
  BY MetricsLogAssumption, SMTT(60) DEF Sec
<1>2. SUFFICES ASSUME Sec(t) >= Sec(u) + 1 PROVE FALSE
  BY <1>1
<1>3. Second * Sec(t) >= Second * (Sec(u) + 1)
  BY <1>1, <1>2, SMTT(60)
<1> QED
  BY <1>1, <1>3

(* Steps that write no row. *)
LEMMA SpinKept ==
    ASSUME LogTypeOK, SpinInv, UNCHANGED <<seconds, set_back>>,
           now' \in Nat, now' >= now,
           Uncut' => Uncut,
           Rising /\ WakeTimes /\ AtMost => WakeTimes'
    PROVE  SpinInv'
<1> SUFFICES ASSUME ~ set_back PROVE (Rising /\ WakeTimes /\ AtMost)'
  BY DEF SpinInv
<1>1. Rising /\ WakeTimes /\ AtMost
  BY DEF SpinInv
<1>2. Rising'
  <2>1. now \in Nat
    BY DEF LogTypeOK
  <2>2. Sec(now) <= Sec(now') /\ Sec(now) \in Nat /\ Sec(now') \in Nat
    BY <2>1, SecRises, SecIsNat
  <2>3. seconds # <<>> => Last \in Nat
    BY LastIsNat
  <2> QED
    BY <1>1, <2>2, <2>3 DEF Rising, Last
<1>3. AtMost'
  BY <1>1, CountIsNat DEF AtMost, Count
<1> QED
  BY <1>1, <1>2, <1>3

(* What a row may do to the counts. *)
LEMMA SpinStamp ==
    ASSUME LogTypeOK, Stamp, UNCHANGED <<now, next_wake_time, set_back>>,
           ~ set_back, Rising, WakeTimes, AtMost,
           stage = "sleep",
           \/ next_wake_time <= Sec(now) /\ UNCHANGED keep_running
           \/ ~ keep_running'
    PROVE  (Rising /\ WakeTimes /\ AtMost)'
<1>1. /\ Sec(now) \in Nat /\ next_wake_time \in Nat
      /\ Sec(now)' = Sec(now)
  BY SecIsNat DEF LogTypeOK, Sec
<1>2. /\ seconds' # <<>> /\ Last' = Sec(now) /\ stage' = "print"
      /\ Len(seconds') = Len(seconds) + 1
      /\ \A k \in 1 .. Len(seconds) : seconds'[k] = seconds[k]
      /\ DOMAIN seconds = 1 .. Len(seconds) /\ Len(seconds) \in Nat
      /\ DOMAIN seconds' = 1 .. Len(seconds')
  BY AppendSecond DEF Stamp, LogTypeOK
<1>3. \A k \in DOMAIN seconds : seconds[k] <= Sec(now)
  <2> TAKE k \in DOMAIN seconds
  <2>1. seconds # <<>>
    BY <1>2
  <2>2. seconds[k] \in Nat /\ Last \in Nat
    BY <1>2, <2>1, LastIsNat
  <2> QED
    BY <1>1, <2>1, <2>2 DEF Rising
<1>4. Rising'
  <2>1. ASSUME NEW k \in DOMAIN seconds' PROVE seconds'[k] <= Sec(now)
    <3>1. CASE k \in DOMAIN seconds
      BY <1>2, <1>3, <3>1
    <3>2. CASE k = Len(seconds')
      BY <1>1, <1>2, <3>2 DEF Last
    <3> QED
      BY <1>2, <3>1, <3>2
  <2> QED
    BY <1>1, <1>2, <2>1 DEF Rising
<1>5. \A s : Count(s)' = IF s = Sec(now) THEN Count(s) + 1 ELSE Count(s)
  BY CountStamp
<1>6. \A s \in Nat : Count(s) \in Nat /\ Count(s) <= 3
  BY CountIsNat DEF AtMost, Uncut
<1>7. Uncut' => keep_running' /\ next_wake_time <= Sec(now) /\ keep_running
  BY <1>2 DEF Uncut
<1>8. ASSUME Uncut'
      PROVE  /\ Count(Sec(now))' <= 3
             /\ next_wake_time < Sec(now) => Count(Sec(now))' <= 2
             /\ next_wake_time < Sec(now) - 1 => Count(Sec(now))' <= 1
  <2>1. Count(Sec(now))' = Count(Sec(now)) + 1
    BY <1>5
  <2>2. CASE seconds = <<>> \/ Last < Sec(now)
    <3>1. Count(Sec(now)) = 0
      BY <1>1, <2>2, CountNone
    <3> QED
      BY <2>1, <3>1
  <2>3. CASE seconds # <<>> /\ Last = Sec(now)
    <3>1. /\ Due(next_wake_time - 1)
          /\ next_wake_time >= Sec(now) - 1
      BY <2>3 DEF WakeTimes, Uncut
    <3>2. /\ next_wake_time - 1 < Sec(now) => Count(Sec(now)) <= 2
          /\ next_wake_time - 1 < Sec(now) - 1 => Count(Sec(now)) <= 1
      BY <2>3, <3>1 DEF Due
    <3>3. Count(Sec(now)) \in Nat
      BY <1>1, <1>6
    <3> QED
      BY <1>1, <1>7, <1>8, <2>1, <3>1, <3>2, <3>3
  <2> QED
    BY <1>1, <2>2, <2>3, LastIsNat DEF Rising
<1>9. WakeTimes'
  <2>1. Uncut' => Due(next_wake_time)'
    BY <1>2, <1>8 DEF Due
  <2> QED
    BY <1>2, <2>1 DEF WakeTimes
<1>10. AtMost'
  <2> SUFFICES ASSUME NEW s \in Nat
               PROVE  Count(s)' <= IF Uncut' THEN 3 ELSE 4
    BY DEF AtMost
  <2>1. Count(s)' <= 4
    BY <1>5, <1>6
  <2>2. ASSUME Uncut' PROVE Count(s)' <= 3
    BY <1>5, <1>6, <1>8, <2>2
  <2> QED
    BY <2>1, <2>2
<1> QED
  BY <1>4, <1>9, <1>10

LEMMA SpinStep ==
    ASSUME LogTypeOK, SpinInv, [LogNext]_log_state
    PROVE  SpinInv'
<1>0. now \in Nat /\ next_wake_time \in Nat /\ Sec(now) \in Nat
  <2>1. now \in Nat /\ next_wake_time \in Nat
    BY DEF LogTypeOK
  <2> QED
    BY <2>1, SecIsNat
<1> USE DEF log_vars, clock_vars
<1>1. CASE Open
  <2>1. seconds' = <<>>
    BY <1>1 DEF Open
  <2>2. \A s : RowsOf(seconds', s) = {}
    BY <2>1 DEF RowsOf
  <2>3. \A s : Count(s)' = 0
    BY <2>2, FS_EmptySet DEF Count
  <2> QED
    BY <2>1, <2>3 DEF SpinInv, Rising, WakeTimes, AtMost
<1>2. CASE Loop
  <2>1. /\ UNCHANGED <<now, seconds, set_back>> /\ keep_running
        /\ stage = "loop" /\ stage' = "sleep"
        /\ next_wake_time' = IF Missed THEN Sec(now) + 1 ELSE next_wake_time
    BY <1>2 DEF Loop
  <2>2. Uncut
    BY <2>1 DEF Uncut
  <2>3. ASSUME Rising, WakeTimes, AtMost PROVE WakeTimes'
    <3> SUFFICES ASSUME seconds # <<>>
                 PROVE  (Due(next_wake_time - 1)
                            /\ next_wake_time >= Last - 1)'
      BY <2>1 DEF WakeTimes
    <3>1. Last \in Nat /\ Last <= Sec(now) /\ Due(next_wake_time - 1)
      BY <2>1, <2>2, <2>3, LastIsNat DEF Rising, WakeTimes
    <3>2. Last' = Last /\ Count(Last)' = Count(Last)
      BY <2>1 DEF Last, Count
    <3>3. CASE Missed
      BY <1>0, <2>1, <3>1, <3>2, <3>3 DEF Due
    <3>4. CASE ~ Missed
      BY <1>0, <2>1, <3>1, <3>2, <3>4 DEF Due, Missed
    <3> QED
      BY <3>3, <3>4
  <2> QED
    BY <1>0, <2>1, <2>2, <2>3, SpinKept
<1>3. CASE Wake
  <2>1. /\ Stamp /\ stage = "sleep"
        /\ UNCHANGED <<now, next_wake_time, set_back, keep_running>>
        /\ now >= next_wake_time * Second
    BY <1>3 DEF Wake
  <2>2. next_wake_time <= Sec(now)
    BY <1>0, <2>1, MetricsLogAssumption, SMTT(60) DEF Sec
  <2> QED
    BY <2>1, <2>2, SpinStamp DEF SpinInv
<1>4. CASE Interrupted
  <2>1. /\ Stamp /\ stage = "sleep" /\ ~ keep_running'
        /\ UNCHANGED <<now, next_wake_time, set_back>>
    BY <1>4 DEF Interrupted
  <2> QED
    BY <2>1, SpinStamp DEF SpinInv
<1>5. CASE PrintRow
  BY <1>0, <1>5, SpinKept DEF PrintRow, Uncut, WakeTimes, Due, Last, Count
<1>6. CASE Flush
  BY <1>0, <1>6, SpinKept DEF Flush, Uncut, WakeTimes, Due, Last, Count
<1>7. CASE Sync
  <2>1. /\ UNCHANGED <<now, seconds, set_back, keep_running>>
        /\ stage = "sync" /\ stage' = "loop"
        /\ next_wake_time' - 1 = next_wake_time
    BY <1>0, <1>7 DEF Sync
  <2>2. WakeTimes => WakeTimes'
    BY <2>1 DEF WakeTimes, Due, Uncut, Last, Count
  <2> QED
    BY <1>0, <2>1, <2>2, SpinKept DEF Uncut
<1>8. CASE LoopEnds
  BY <1>0, <1>8, SpinKept DEF LoopEnds, Uncut, WakeTimes
<1>9. CASE Tick
  <2>1. /\ UNCHANGED <<seconds, set_back, keep_running, stage, next_wake_time>>
        /\ now' \in Nat /\ now' >= now
    BY <1>0, <1>9 DEF Tick
  <2>2. WakeTimes => WakeTimes'
    BY <2>1 DEF WakeTimes, Due, Uncut, Last, Count
  <2> QED
    BY <2>1, <2>2, SpinKept DEF Uncut
<1>10. CASE SetClock
  BY <1>10 DEF SetClock, SpinInv
<1>11. CASE Shutdown
  <2>1. /\ UNCHANGED <<now, seconds, set_back, stage, next_wake_time>>
        /\ keep_running
    BY <1>11 DEF Shutdown
  <2>2. WakeTimes => WakeTimes'
    BY <2>1 DEF WakeTimes, Due, Uncut, Last, Count
  <2> QED
    BY <1>0, <2>1, <2>2, SpinKept DEF Uncut
<1>12. CASE Killed
  BY <1>0, <1>12, SpinKept DEF Killed, Uncut, WakeTimes
<1>13. CASE PowerFailure
  BY <1>0, <1>13, SpinKept DEF PowerFailure, Uncut, WakeTimes
<1>14. CASE UNCHANGED log_state
  <2>1. UNCHANGED <<now, seconds, set_back, keep_running, stage, next_wake_time>>
    BY <1>14 DEF log_state
  <2>2. WakeTimes => WakeTimes'
    BY <2>1 DEF WakeTimes, Due, Uncut, Last, Count
  <2> QED
    BY <1>0, <2>1, <2>2, SpinKept DEF Uncut
<1> QED
  BY <1>1, <1>2, <1>3, <1>4, <1>5, <1>6, <1>7, <1>8, <1>9, <1>10, <1>11,
     <1>12, <1>13, <1>14 DEF LogNext

(* However long the monitor is held up, at most three rows carry the same  *)
(* second (monitor.c:46-61), and a fourth one only when a signal has cut   *)
(* the sleep, as long as the clock is not set back.                        *)
THEOREM CatchUpBounded == LogSpec => []NoCatchUpSpin
<1>1. LogInit => LogIInv /\ SpinInv
  BY LogInitIInv, SpinInit
<1>2. LogIInv /\ SpinInv /\ [LogNext]_log_state => (LogIInv /\ SpinInv)'
  <2>1. LogIInv => LogTypeOK
    BY DEF LogIInv
  <2> QED
    BY <2>1, LogStepIInv, SpinStep
<1>3. LogIInv /\ SpinInv => NoCatchUpSpin
  <2> SUFFICES ASSUME LogIInv, SpinInv, ~ set_back,
                      NEW s \in {seconds[k] : k \in DOMAIN seconds}
               PROVE  Count(s) <= IF keep_running THEN 3 ELSE 4
    BY DEF NoCatchUpSpin, Count, RowsOf
  <2>1. s \in Nat
    BY DEF LogIInv, LogTypeOK
  <2>2. Count(s) <= IF Uncut THEN 3 ELSE 4
    BY <2>1 DEF SpinInv, AtMost
  <2>3. Count(s) \in Nat
    BY CountIsNat DEF LogIInv
  <2>4. CASE keep_running
    BY <2>2, <2>4 DEF Uncut
  <2>5. CASE ~ keep_running
    BY <2>2, <2>3, <2>5
  <2> QED
    BY <2>4, <2>5
<1> QED
  BY <1>1, <1>2, <1>3, PTL DEF LogSpec
-----------------------------------------------------------------------------
(***************************************************************************)
(* DamageBounded.  The rows that are not whole on the disk itself are      *)
(* counted, for those are all that a failure of the power can take; with   *)
(* them the row that is being written, if it is cut or follows a cut, and  *)
(* the cut itself, which the next row will follow.  A failure adds at most *)
(* two to the sum, and no step adds anything without one.                  *)
(***************************************************************************)
Safe(n) ==
    \E k \in 1 .. synced - 1 :
        /\ file[k] = <<n, "head">> /\ file[k + 1] = <<n, "tail">>
        /\ k > 1 => file[k - 1][2] = "tail"

AtRisk == {n \in done : ~ Safe(n)}

Tape == file \o stdio

(* The row that was printed last is whole at the end of w.                 *)
Whole(w) ==
    /\ Len(w) >= 2
    /\ w[Len(w) - 1] = <<rows, "head">> /\ w[Len(w)] = <<rows, "tail">>
    /\ Len(w) > 2 => w[Len(w) - 2][2] = "tail"

CurrentSpoilt ==
    \/ stage = "flush" /\ ~ Whole(Tape)
    \/ stage = "sync" /\ ~ Whole(file)

EndsCut(w) == Len(w) > 0 /\ w[Len(w)][2] = "head"

One(b) == IF b THEN 1 ELSE 0

DamageInv ==
    Cardinality(AtRisk) + One(CurrentSpoilt) + One(EndsCut(Tape))
        <= 2 * faults

LEMMA OneIs == ASSUME NEW b PROVE One(b) \in {0, 1} /\ One(b) <= 1
BY DEF One

LEMMA SecondOfPart ==
    ASSUME LogTypeOK, NEW p \in Parts
    PROVE  p[2] \in {"head", "tail"}
BY DEF Parts

(* The sequence that the disk will hold, part by part.                     *)
LEMMA TapeIs ==
    ASSUME LogTypeOK
    PROVE  /\ Tape \in Seq(Parts)
           /\ Len(Tape) = Len(file) + Len(stdio)
           /\ \A i \in 1 .. Len(file) : Tape[i] = file[i]
           /\ \A i \in 1 .. Len(stdio) : Tape[Len(file) + i] = stdio[i]
<1>1. file \in Seq(Parts) /\ stdio \in Seq(Parts)
  BY DEF LogTypeOK
<1> HIDE DEF Parts
<1>2. Tape \in Seq(Parts) /\ Len(Tape) = Len(file) + Len(stdio)
  BY <1>1, ConcatProperties DEF Tape
<1>3. \A i \in 1 .. Len(file) + Len(stdio) :
          Tape[i] = IF i <= Len(file) THEN file[i] ELSE stdio[i - Len(file)]
  BY <1>1, ConcatProperties DEF Tape
<1>4. Len(file) \in Nat /\ Len(stdio) \in Nat
  BY <1>1, LenProperties
<1>5. \A i \in 1 .. Len(file) : Tape[i] = file[i]
  BY <1>3, <1>4
<1>6. ASSUME NEW i \in 1 .. Len(stdio)
      PROVE  Tape[Len(file) + i] = stdio[i]
  <2>1. Len(file) + i \in 1 .. Len(file) + Len(stdio)
    BY <1>4
  <2>2. ~ (Len(file) + i <= Len(file)) /\ (Len(file) + i) - Len(file) = i
    BY <1>4
  <2> QED
    BY <1>3, <2>1, <2>2
<1> QED
  BY <1>2, <1>5, <1>6

LEMMA TapePrimed ==
    (LogTypeOK
       => /\ Len(Tape) = Len(file) + Len(stdio)
          /\ \A i \in 1 .. Len(file) : Tape[i] = file[i]
          /\ \A i \in 1 .. Len(stdio) : Tape[Len(file) + i] = stdio[i])'
<1>1. LogTypeOK
        => /\ Len(Tape) = Len(file) + Len(stdio)
           /\ \A i \in 1 .. Len(file) : Tape[i] = file[i]
           /\ \A i \in 1 .. Len(stdio) : Tape[Len(file) + i] = stdio[i]
  BY TapeIs
<1> QED
  BY <1>1, PTL

LEMMA Within ==
    ASSUME NEW s \in Nat, NEW t \in Nat, s <= t, NEW k \in 1 .. s - 1
    PROVE  /\ k \in 1 .. s /\ k + 1 \in 1 .. s
           /\ k > 1 => k - 1 \in 1 .. s
           /\ k \in 1 .. t - 1
OBVIOUS

(* What is whole on the disk remains so while the disk is only added to,   *)
(* and cut no deeper than fdatasync has reached.                           *)
LEMMA SafeKept ==
    ASSUME LogTypeOK, synced' \in Nat, synced <= synced',
           \A i \in 1 .. synced : file'[i] = file[i],
           NEW n, Safe(n)
    PROVE  Safe(n)'
<1>1. PICK k \in 1 .. synced - 1 :
          /\ file[k] = <<n, "head">> /\ file[k + 1] = <<n, "tail">>
          /\ k > 1 => file[k - 1][2] = "tail"
  BY DEF Safe
<1>0. synced \in Nat
  BY DEF LogTypeOK
<1>2. /\ k \in 1 .. synced /\ k + 1 \in 1 .. synced
      /\ k > 1 => k - 1 \in 1 .. synced
      /\ k \in 1 .. synced' - 1
  BY <1>0, Within
<1>3. /\ file'[k] = <<n, "head">> /\ file'[k + 1] = <<n, "tail">>
      /\ k > 1 => file'[k - 1][2] = "tail"
  BY <1>1, <1>2
<1> QED
  BY <1>2, <1>3 DEF Safe

LEMMA AtRiskFinite ==
    ASSUME LogTypeOK
    PROVE  IsFiniteSet(AtRisk) /\ Cardinality(AtRisk) \in Nat
<1>1. rows \in Nat /\ done \subseteq 1 .. rows
  BY DEF LogTypeOK
<1>2. IsFiniteSet(1 .. rows)
  BY <1>1, FS_Interval
<1>3. AtRisk \subseteq 1 .. rows
  BY <1>1 DEF AtRisk
<1>4. IsFiniteSet(AtRisk)
  BY <1>2, <1>3, FS_Subset
<1> QED
  BY <1>4, FS_CardinalityType

LEMMA RiskPrimed ==
    (LogTypeOK => IsFiniteSet(AtRisk) /\ Cardinality(AtRisk) \in Nat)'
<1>1. LogTypeOK => IsFiniteSet(AtRisk) /\ Cardinality(AtRisk) \in Nat
  BY AtRiskFinite
<1> QED
  BY <1>1, PTL

(* The steps that complete no row.                                         *)
LEMMA RiskKept ==
    ASSUME LogTypeOK, LogTypeOK', done' = done, synced <= synced',
           \A i \in 1 .. synced : file'[i] = file[i]
    PROVE  Cardinality(AtRisk') <= Cardinality(AtRisk)
<1>1. synced' \in Nat
  BY DEF LogTypeOK
<1>2. AtRisk' \subseteq AtRisk
  BY <1>1, SafeKept DEF AtRisk
<1>3. IsFiniteSet(AtRisk)
  BY AtRiskFinite
<1> HIDE DEF AtRisk
<1> QED
  BY <1>2, <1>3, FS_Subset

(* The step that completes one.                                            *)
LEMMA RiskOfOne ==
    ASSUME LogTypeOK, LogTypeOK', done' = done \cup {rows},
           synced <= synced',
           \A i \in 1 .. synced : file'[i] = file[i], rows' = rows
    PROVE  Cardinality(AtRisk') <= Cardinality(AtRisk) + One(~ Safe(rows)')
<1> DEFINE r == rows
           new == ~ Safe(r)'
<1>1. synced' \in Nat
  BY DEF LogTypeOK
<1>2. AtRisk' \subseteq AtRisk \cup {r}
  BY <1>1, SafeKept DEF AtRisk
<1>3. ~ new => AtRisk' \subseteq AtRisk
  BY <1>1, <1>2 DEF AtRisk
<1>4. IsFiniteSet(AtRisk) /\ Cardinality(AtRisk) \in Nat
  BY AtRiskFinite
<1> HIDE DEF AtRisk, r
<1>5. CASE new
  <2>1. IsFiniteSet(AtRisk \cup {r})
    BY <1>4, FS_AddElement
  <2>2. Cardinality(AtRisk \cup {r}) <= Cardinality(AtRisk) + 1
    BY <1>4, FS_AddElement
  <2>3. Cardinality(AtRisk') <= Cardinality(AtRisk \cup {r})
    BY <1>2, <2>1, FS_Subset
  <2>4. /\ Cardinality(AtRisk \cup {r}) \in Nat
        /\ Cardinality(AtRisk') \in Nat
    BY <2>1, <1>2, FS_Subset, FS_CardinalityType
  <2> QED
    BY <1>4, <1>5, <2>2, <2>3, <2>4 DEF One, r
<1>6. CASE ~ new
  <2>1. Cardinality(AtRisk') <= Cardinality(AtRisk)
    BY <1>3, <1>4, <1>6, FS_Subset
  <2> QED
    BY <1>4, <1>6, <2>1 DEF One, r
<1> QED
  BY <1>5, <1>6

LEMMA DamageInit == LogInit => DamageInv
<1> SUFFICES ASSUME LogInit PROVE DamageInv
  OBVIOUS
<1>1. AtRisk = {} /\ faults = 0 /\ stage = "down"
  BY DEF LogInit, AtRisk
<1>2. Cardinality(AtRisk) = 0
  BY <1>1, FS_EmptySet
<1>3. Len(Tape) = 0
  BY DEF LogInit, Tape
<1>4. ~ EndsCut(Tape) /\ ~ CurrentSpoilt
  BY <1>1, <1>3 DEF EndsCut, CurrentSpoilt
<1> QED
  BY <1>1, <1>2, <1>4 DEF DamageInv, One

(* A row that is printed follows what is on the tape.                      *)
LEMMA Printed ==
    ASSUME LogIInv, LogIInv', PrintRow
    PROVE  /\ ~ EndsCut(Tape)'
           /\ ~ EndsCut(Tape) => Whole(Tape)'
<1>1. LogTypeOK /\ LogTypeOK'
  BY DEF LogIInv
<1> DEFINE a == <<rows + 1, "head">>
           b == <<rows + 1, "tail">>
           l == Len(Tape)
<1>2. rows' = rows + 1 /\ stdio' = stdio \o <<a, b>> /\ file' = file
  BY DEF PrintRow
<1>3. /\ file \in Seq(Parts) /\ stdio \in Seq(Parts)
      /\ <<a, b>> \in Seq({a, b}) /\ Len(<<a, b>>) = 2
      /\ Len(file) \in Nat /\ Len(stdio) \in Nat
  BY <1>1 DEF LogTypeOK
<1>4. /\ Len(stdio') = Len(stdio) + 2
      /\ stdio'[Len(stdio) + 1] = a /\ stdio'[Len(stdio) + 2] = b
      /\ \A i \in 1 .. Len(stdio) : stdio'[i] = stdio[i]
  BY <1>2, <1>3
<1>5. /\ Tape \in Seq(Parts) /\ l \in Nat
      /\ l = Len(file) + Len(stdio)
      /\ \A i \in 1 .. Len(file) : Tape[i] = file[i]
      /\ \A i \in 1 .. Len(stdio) : Tape[Len(file) + i] = stdio[i]
  BY <1>1, TapeIs
<1>6. /\ Len(Tape') = Len(file) + Len(stdio')
      /\ \A i \in 1 .. Len(file) : Tape'[i] = file[i]
      /\ \A i \in 1 .. Len(stdio') : Tape'[Len(file) + i] = stdio'[i]
  <2>1. (LogTypeOK
           => /\ Len(Tape) = Len(file) + Len(stdio)
              /\ \A i \in 1 .. Len(file) : Tape[i] = file[i]
              /\ \A i \in 1 .. Len(stdio) :
                     Tape[Len(file) + i] = stdio[i])'
    BY TapePrimed
  <2> QED
    BY <1>1, <1>2, <2>1
<1> HIDE DEF Tape
<1>7. /\ Len(Tape') = l + 2
      /\ Tape'[l + 1] = a /\ Tape'[l + 2] = b
  <2>1. /\ Len(stdio) + 1 \in 1 .. Len(stdio')
        /\ Len(stdio) + 2 \in 1 .. Len(stdio')
    BY <1>3, <1>4
  <2>2. /\ Tape'[Len(file) + (Len(stdio) + 1)] = a
        /\ Tape'[Len(file) + (Len(stdio) + 2)] = b
    BY <1>4, <1>6, <2>1
  <2>3. /\ Len(file) + (Len(stdio) + 1) = l + 1
        /\ Len(file) + (Len(stdio) + 2) = l + 2
    BY <1>3, <1>5
  <2> QED
    BY <1>3, <1>4, <1>5, <1>6, <2>2, <2>3
<1>8. l > 0 => Tape'[l] = Tape[l]
  <2>1. CASE Len(stdio) = 0
    BY <1>3, <1>5, <1>6, <2>1
  <2>2. CASE Len(stdio) # 0
    BY <1>3, <1>4, <1>5, <1>6, <2>2
  <2> QED
    BY <2>1, <2>2
<1>9. ~ EndsCut(Tape)'
  BY <1>5, <1>7 DEF EndsCut
<1>10. ASSUME ~ EndsCut(Tape) PROVE Whole(Tape)'
  <2>1. l > 0 => Tape'[l][2] = "tail"
    <3>1. l > 0 => Tape[l] \in Parts
      BY <1>5
    <3> QED
      BY <1>1, <1>8, <1>10, <3>1, SecondOfPart DEF EndsCut
  <2>2. /\ (l + 2) - 1 = l + 1 /\ (l + 2) - 2 = l
        /\ l + 2 >= 2 /\ (l + 2 > 2 => l > 0)
    BY <1>5
  <2> HIDE DEF l
  <2> QED
    BY <1>2, <1>7, <2>1, <2>2 DEF Whole
<1> QED
  BY <1>9, <1>10

(* A row whole in the file when fdatasync has run is safe.                 *)
LEMMA WholeIsSafe ==
    ASSUME LogTypeOK, Whole(file), synced' = Len(file),
           file' = file, rows' = rows
    PROVE  Safe(rows)'
<1> DEFINE k == Len(file) - 1
<1>1. Len(file) \in Nat
  BY DEF LogTypeOK
<1>2. /\ k \in 1 .. synced' - 1 /\ k + 1 = Len(file)
      /\ k - 1 = Len(file) - 2 /\ (k > 1 => Len(file) > 2)
  BY <1>1 DEF Whole
<1>3. /\ file'[k] = <<rows', "head">> /\ file'[k + 1] = <<rows', "tail">>
      /\ k > 1 => file'[k - 1][2] = "tail"
  BY <1>2 DEF Whole
<1> QED
  BY <1>2, <1>3 DEF Safe

LEMMA DamageStep ==
    LogIInv /\ DamageInv /\ [LogNext]_log_state => DamageInv'
<1> SUFFICES ASSUME LogIInv, DamageInv, [LogNext]_log_state
             PROVE  DamageInv'
  OBVIOUS
<1>a. LogIInv'
  BY LogStepIInv
<1>b. LogTypeOK /\ LogTypeOK'
  BY <1>a DEF LogIInv
<1>c. /\ Cardinality(AtRisk) \in Nat /\ faults \in Nat
      /\ Cardinality(AtRisk') \in Nat /\ faults' \in Nat
  BY <1>b, AtRiskFinite, RiskPrimed DEF LogTypeOK
<1>d. /\ One(CurrentSpoilt) \in {0, 1} /\ One(EndsCut(Tape)) \in {0, 1}
      /\ One(CurrentSpoilt)' \in {0, 1} /\ One(EndsCut(Tape))' \in {0, 1}
  BY DEF One
<1>e. synced \in Nat /\ synced' \in Nat
  BY <1>b DEF LogTypeOK
(* The steps that leave the log alone, and are not in the middle of it. *)
<1>f. ASSUME UNCHANGED <<file, stdio, synced, done, rows>>,
             faults' >= faults,
             stage \notin {"flush", "sync"} => stage' \notin {"flush", "sync"},
             stage \in {"flush", "sync"} => stage' = stage
      PROVE  DamageInv'
  <2>1. Cardinality(AtRisk') <= Cardinality(AtRisk)
    BY <1>b, <1>e, <1>f, RiskKept
  <2>2. One(EndsCut(Tape))' = One(EndsCut(Tape))
    BY <1>f DEF One, EndsCut, Tape
  <2>3. One(CurrentSpoilt)' <= One(CurrentSpoilt)
    BY <1>f DEF One, CurrentSpoilt, Whole, Tape
  <2> QED
    BY <1>c, <1>d, <1>f, <2>1, <2>2, <2>3 DEF DamageInv
(* A failure has two to spend, on the current row and on the cut. *)
<1>g. ASSUME Cardinality(AtRisk') <= Cardinality(AtRisk),
             faults' = faults + 1
      PROVE  DamageInv'
  BY <1>c, <1>d, <1>g DEF DamageInv
<1>1. CASE Open
  <2>1. /\ stage = "down" /\ stage' = "loop" /\ faults' = faults
        /\ UNCHANGED <<file, stdio, synced, done, rows>>
    BY <1>1 DEF Open, log_vars
  <2> QED
    BY <1>c, <1>f, <2>1
<1>2. CASE Loop
  <2>1. /\ stage = "loop" /\ stage' = "sleep" /\ faults' = faults
        /\ UNCHANGED <<file, stdio, synced, done, rows>>
    BY <1>2 DEF Loop, log_vars
  <2> QED
    BY <1>c, <1>f, <2>1
<1>3. CASE Wake \/ Interrupted
  <2>1. /\ stage = "sleep" /\ stage' = "print" /\ faults' = faults
        /\ UNCHANGED <<file, stdio, synced, done, rows>>
    BY <1>3 DEF Wake, Interrupted, Stamp, log_vars
  <2> QED
    BY <1>c, <1>f, <2>1
<1>4. CASE PrintRow
  <2>1. /\ stage = "print" /\ stage' = "flush" /\ faults' = faults
        /\ UNCHANGED <<file, synced, done>>
    BY <1>4 DEF PrintRow
  <2>2. Cardinality(AtRisk') <= Cardinality(AtRisk)
    BY <1>b, <1>e, <2>1, RiskKept
  <2>3. /\ ~ EndsCut(Tape)'
        /\ ~ EndsCut(Tape) => Whole(Tape)'
    BY <1>4, <1>a, Printed
  <2>4. CurrentSpoilt' => EndsCut(Tape)
    BY <2>1, <2>3 DEF CurrentSpoilt
  <2>5. One(EndsCut(Tape))' = 0 /\ One(CurrentSpoilt)' <= One(EndsCut(Tape))
    BY <2>3, <2>4 DEF One
  <2> QED
    BY <1>c, <1>d, <2>1, <2>2, <2>5 DEF DamageInv
<1>5. CASE Flush
  <2>0. /\ stage = "flush" /\ stage' = "sync" /\ UNCHANGED <<synced, done, rows>>
    BY <1>5 DEF Flush
  <2>1. CASE file' = Tape /\ stdio' = <<>> /\ UNCHANGED faults
    <3>1. \A i \in 1 .. synced : file'[i] = file[i]
      BY <1>b, <1>e, <2>1, TapeIs DEF LogTypeOK
    <3>2. Cardinality(AtRisk') <= Cardinality(AtRisk)
      BY <1>b, <1>e, <2>0, <3>1, RiskKept
    <3>3. Tape' = Tape
      <4>1. Tape \in Seq(Parts)
        BY <1>b, TapeIs
      <4>2. Tape' = file' \o stdio'
        BY DEF Tape
      <4> HIDE DEF Tape
      <4> QED
        BY <2>1, <4>1, <4>2, ConcatEmptySeq
    <3>4. One(EndsCut(Tape))' = One(EndsCut(Tape))
      BY <3>3 DEF One, EndsCut
    <3>5. One(CurrentSpoilt)' = One(CurrentSpoilt)
      BY <2>0, <2>1, <3>3 DEF One, CurrentSpoilt, Whole
    <3> QED
      BY <1>c, <1>d, <2>1, <3>2, <3>4, <3>5 DEF DamageInv
  <2>2. ASSUME NEW k \in 0 .. Len(stdio) - 1, Fault,
               file' = file \o SubSeq(stdio, 1, k)
        PROVE  DamageInv'
    <3>1. SubSeq(stdio, 1, k) \in Seq(Parts)
      BY <1>b DEF LogTypeOK
    <3>2. \A i \in 1 .. synced : file'[i] = file[i]
      BY <1>b, <1>e, <2>2, <3>1, ConcatProperties DEF LogTypeOK
    <3>3. Cardinality(AtRisk') <= Cardinality(AtRisk)
      BY <1>b, <1>e, <2>0, <3>2, RiskKept
    <3> QED
      BY <1>g, <2>2, <3>3 DEF Fault
  <2> QED
    BY <1>5, <2>1, <2>2 DEF Flush, Tape
<1>6. CASE Sync
  <2>0. /\ stage = "sync" /\ stage' = "loop" /\ UNCHANGED <<stdio, file, rows>>
        /\ done' = done \cup {rows}
    BY <1>6 DEF Sync
  <2>1. One(EndsCut(Tape))' = One(EndsCut(Tape)) /\ One(CurrentSpoilt)' = 0
    BY <2>0 DEF One, EndsCut, Tape, CurrentSpoilt
  <2>2. One(~ Safe(rows)') \in {0, 1}
    BY OneIs
  <2>3. CASE synced' = Len(file) /\ UNCHANGED faults
    <3>1. synced <= synced'
      BY <1>b, <2>3 DEF LogTypeOK
    <3>2. Cardinality(AtRisk')
            <= Cardinality(AtRisk) + One(~ Safe(rows)')
      BY <1>b, <2>0, <3>1, RiskOfOne
    <3>3. One(~ Safe(rows)') <= One(CurrentSpoilt)
      BY <1>b, <2>0, <2>3, WholeIsSafe DEF One, CurrentSpoilt
    <3> QED
      BY <1>c, <1>d, <2>1, <2>2, <2>3, <3>2, <3>3 DEF DamageInv
  <2>4. CASE Fault /\ UNCHANGED synced
    <3>1. Cardinality(AtRisk')
            <= Cardinality(AtRisk) + One(~ Safe(rows)')
      BY <1>b, <1>e, <2>0, <2>4, RiskOfOne
    <3> QED
      BY <1>c, <1>d, <2>1, <2>2, <2>4, <3>1 DEF DamageInv, Fault
  <2> QED
    BY <1>6, <2>3, <2>4 DEF Sync, Durable
<1>7. CASE LoopEnds
  <2>0. /\ stage = "loop" /\ stage' = "down" /\ UNCHANGED <<synced, done>>
        /\ stdio' = <<>>
    BY <1>7 DEF LoopEnds
  <2>1. CASE file' = Tape /\ UNCHANGED faults
    <3>1. \A i \in 1 .. synced : file'[i] = file[i]
      BY <1>b, <1>e, <2>1, TapeIs DEF LogTypeOK
    <3>2. Cardinality(AtRisk') <= Cardinality(AtRisk)
      BY <1>b, <1>e, <2>0, <3>1, RiskKept
    <3>3. Tape' = Tape
      <4>1. Tape \in Seq(Parts)
        BY <1>b, TapeIs
      <4>2. Tape' = file' \o stdio'
        BY DEF Tape
      <4> HIDE DEF Tape
      <4> QED
        BY <2>0, <2>1, <4>1, <4>2, ConcatEmptySeq
    <3>4. One(EndsCut(Tape))' = One(EndsCut(Tape)) /\ One(CurrentSpoilt)' = 0
      BY <2>0, <3>3 DEF One, EndsCut, CurrentSpoilt
    <3> QED
      BY <1>c, <1>d, <2>1, <3>2, <3>4 DEF DamageInv
  <2>2. ASSUME NEW k \in 0 .. Len(stdio) - 1, Fault,
               file' = file \o SubSeq(stdio, 1, k)
        PROVE  DamageInv'
    <3>1. SubSeq(stdio, 1, k) \in Seq(Parts)
      BY <1>b DEF LogTypeOK
    <3>2. \A i \in 1 .. synced : file'[i] = file[i]
      BY <1>b, <1>e, <2>2, <3>1, ConcatProperties DEF LogTypeOK
    <3>3. Cardinality(AtRisk') <= Cardinality(AtRisk)
      BY <1>b, <1>e, <2>0, <3>2, RiskKept
    <3> QED
      BY <1>g, <2>2, <3>3 DEF Fault
  <2> QED
    BY <1>7, <2>1, <2>2 DEF LoopEnds, Tape
<1>8. CASE Tick \/ Shutdown
  <2>1. /\ stage' = stage /\ faults' = faults
        /\ UNCHANGED <<file, stdio, synced, done, rows>>
    BY <1>8 DEF Tick, Shutdown, log_vars
  <2> QED
    BY <1>c, <1>f, <2>1
<1>9. CASE SetClock
  <2>1. /\ stage' = stage /\ faults' = faults + 1
        /\ UNCHANGED <<file, stdio, synced, done, rows>>
    BY <1>9 DEF SetClock, Fault, log_vars
  <2> QED
    BY <1>c, <1>f, <2>1
<1>10. CASE Killed
  <2>1. faults' = faults + 1 /\ UNCHANGED <<file, synced, done>>
    BY <1>10 DEF Killed, Fault
  <2>2. Cardinality(AtRisk') <= Cardinality(AtRisk)
    BY <1>b, <1>e, <2>1, RiskKept
  <2> QED
    BY <1>g, <2>1, <2>2
<1>11. CASE PowerFailure
  <2>1. PICK k \in synced .. Len(file) :
            synced' = k /\ file' = SubSeq(file, 1, k)
    BY <1>11 DEF PowerFailure
  <2>2. synced <= synced' /\ \A i \in 1 .. synced : file'[i] = file[i]
    BY <1>b, <1>e, <2>1 DEF LogTypeOK
  <2>3. faults' = faults + 1 /\ done' = done
    BY <1>11 DEF PowerFailure, Fault
  <2>4. Cardinality(AtRisk') <= Cardinality(AtRisk)
    BY <1>b, <2>2, <2>3, RiskKept
  <2> QED
    BY <1>g, <2>3, <2>4
<1>12. CASE UNCHANGED log_state
  <2>1. /\ stage' = stage /\ faults' = faults
        /\ UNCHANGED <<file, stdio, synced, done, rows>>
    BY <1>12 DEF log_state, log_vars
  <2> QED
    BY <1>c, <1>f, <2>1
<1> QED
  BY <1>1, <1>2, <1>3, <1>4, <1>5, <1>6, <1>7, <1>8, <1>9, <1>10, <1>11,
     <1>12 DEF LogNext

(* Whatever fails and wherever, and however often, each failure costs at   *)
(* most two rows that were completed (monitor.c:83-101): the one that it   *)
(* cuts and the one that is appended to the cut, for a clock, a log and a  *)
(* history of failures of any length.                                      *)
THEOREM DamageIsBounded == LogSpec => []DamageBounded
<1>1. LogInit => LogIInv /\ DamageInv
  BY LogInitIInv, DamageInit
<1>2. LogIInv /\ DamageInv /\ [LogNext]_log_state => (LogIInv /\ DamageInv)'
  BY LogStepIInv, DamageStep
<1>3. LogIInv /\ DamageInv => DamageBounded
  <2> SUFFICES ASSUME LogIInv, DamageInv PROVE DamageBounded
    OBVIOUS
  <2> DEFINE spoilt == {n \in done : ~ Readable(n)}
  <2>1. LogTypeOK
    BY DEF LogIInv
  <2>2. \A n : Safe(n) => Readable(n)
    <3>1. 1 .. synced - 1 \subseteq 1 .. Len(file) - 1
      BY <2>1 DEF LogTypeOK
    <3> QED
      BY <3>1 DEF Safe, Readable
  <2>3. spoilt \subseteq AtRisk
    BY <2>2 DEF AtRisk
  <2>4. IsFiniteSet(AtRisk) /\ Cardinality(AtRisk) \in Nat /\ faults \in Nat
    BY <2>1, AtRiskFinite DEF LogTypeOK
  <2>5. One(CurrentSpoilt) \in {0, 1} /\ One(EndsCut(Tape)) \in {0, 1}
    BY OneIs
  <2> HIDE DEF spoilt
  <2>6. /\ Cardinality(spoilt) <= Cardinality(AtRisk)
        /\ Cardinality(spoilt) \in Nat
    BY <2>3, <2>4, FS_Subset, FS_CardinalityType
  <2>7. Cardinality(spoilt) <= 2 * faults
    BY <2>4, <2>5, <2>6 DEF DamageInv
  <2> QED
    BY <2>7 DEF spoilt, DamageBounded
<1> QED
  BY <1>1, <1>2, <1>3, PTL DEF LogSpec
=============================================================================
