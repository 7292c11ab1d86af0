-------------------------- MODULE ProdCons_proofs --------------------------
(***************************************************************************)
(* Proofs about ProdCons, for every number of producers and consumers,     *)
(* every number of items and every size of the queue.                      *)
(***************************************************************************)
EXTENDS ProdCons, FiniteSetTheorems, SequenceTheorems, TLAPS

(* Only a thread that waits at the top of its loop sleeps, and a producer  *)
(* only when it has an item to put.                                        *)
Sleepers ==
    /\ \A p \in notFull : pc[p] = "loop" /\ i[p] <= LOOP
    /\ \A c \in notEmpty : pc[c] = "loop"

IInv == TypeOK /\ Sleepers
-----------------------------------------------------------------------------
(***************************************************************************)
(* The indices, the flags and the number of items.                         *)
(***************************************************************************)
LEMMA NextSlotType ==
    ASSUME NEW s \in Slots
    PROVE  NextSlot(s) \in Slots
BY ProdConsAssumption DEF NextSlot, Slots

(* From index s round to index t. *)
LEMMA Distance ==
    ASSUME NEW s \in Slots, NEW t \in Slots
    PROVE  (t - s) % QUEUESIZE = IF t >= s THEN t - s ELSE t - s + QUEUESIZE
BY ProdConsAssumption DEF Slots

LEMMA SizeType ==
    ASSUME TypeOK
    PROVE  /\ Size \in 0 .. QUEUESIZE
           /\ full <=> Size = QUEUESIZE
           /\ empty <=> Size = 0
<1>1. head \in Slots /\ tail \in Slots
  BY DEF TypeOK
<1>2. CASE full
  BY <1>2, ProdConsAssumption DEF Size, TypeOK
<1>3. CASE empty
  BY <1>3, ProdConsAssumption DEF Size, TypeOK
<1>4. CASE ~ full /\ ~ empty
  <2>1. head # tail
    BY <1>4 DEF TypeOK
  <2>2. Size = IF tail >= head THEN tail - head ELSE tail - head + QUEUESIZE
    BY <1>1, <1>4, Distance DEF Size
  <2> QED
    BY <1>1, <1>4, <2>1, <2>2, ProdConsAssumption DEF Slots
<1> QED
  BY <1>2, <1>3, <1>4

(* The slot for the next item is where the items in the queue end. *)
LEMMA TailSlot ==
    ASSUME TypeOK, ~ full
    PROVE  (head + Size) % QUEUESIZE = tail
<1>1. head \in Slots /\ tail \in Slots
  BY DEF TypeOK
<1>2. CASE empty
  <2>1. head = tail /\ Size = 0
    BY <1>2, SizeType DEF TypeOK
  <2> QED
    BY <1>1, <2>1, ProdConsAssumption DEF Slots
<1>3. CASE ~ empty
  <2>1. Size = IF tail >= head THEN tail - head ELSE tail - head + QUEUESIZE
    BY <1>1, <1>3, Distance DEF Size
  <2>2. CASE tail >= head
    BY <1>1, <2>1, <2>2, ProdConsAssumption DEF Slots
  <2>3. CASE ~ (tail >= head)
    <3>1. head + Size = tail + QUEUESIZE
      BY <1>1, <2>1, <2>3, ProdConsAssumption DEF Slots
    <3>2. (tail + QUEUESIZE) % QUEUESIZE = tail
      BY <1>1, ProdConsAssumption DEF Slots
    <3> QED
      BY <3>1, <3>2
  <2> QED
    BY <2>2, <2>3
<1> QED
  BY <1>2, <1>3

(* An item more after queueAdd, an item less after queueDel. *)
LEMMA AddSize ==
    ASSUME TypeOK, TypeOK', ~ full, NEW item, queueAdd(item)
    PROVE  Size' = Size + 1
<1>1. /\ head \in Slots /\ tail \in Slots /\ tail' \in Slots
      /\ head' = head /\ tail' = NextSlot(tail)
      /\ empty' = FALSE /\ full' = (NextSlot(tail) = head)
      /\ empty <=> head = tail
  BY DEF TypeOK, queueAdd
<1>2. CASE NextSlot(tail) = head
  <2>1. Size' = QUEUESIZE
    BY <1>1, <1>2 DEF Size
  <2>2. CASE empty
    BY <1>1, <1>2, <2>1, <2>2, ProdConsAssumption DEF Size, NextSlot, Slots
  <2>3. CASE ~ empty
    <3>1. Size = IF tail >= head THEN tail - head ELSE tail - head + QUEUESIZE
      BY <1>1, <2>3, Distance DEF Size
    <3> QED
      BY <1>1, <1>2, <2>1, <2>3, <3>1, ProdConsAssumption DEF NextSlot, Slots
  <2> QED
    BY <2>2, <2>3
<1>3. CASE NextSlot(tail) # head
  <2>1. Size' = IF tail' >= head THEN tail' - head
                                 ELSE tail' - head + QUEUESIZE
    <3>1. Size' = (tail' - head') % QUEUESIZE
      BY <1>1, <1>3 DEF Size
    <3> QED
      BY <1>1, <3>1, Distance
  <2>2. CASE empty
    <3>1. Size = 0
      BY <2>2, SizeType
    <3> QED
      BY <1>1, <1>3, <2>1, <2>2, <3>1, ProdConsAssumption DEF NextSlot, Slots
  <2>3. CASE ~ empty
    <3>1. Size = IF tail >= head THEN tail - head ELSE tail - head + QUEUESIZE
      BY <1>1, <2>3, Distance DEF Size
    <3> QED
      BY <1>1, <1>3, <2>1, <2>3, <3>1, ProdConsAssumption DEF NextSlot, Slots
  <2> QED
    BY <2>2, <2>3
<1> QED
  BY <1>2, <1>3

LEMMA DelSize ==
    ASSUME TypeOK, TypeOK', ~ empty, NEW c, queueDel(c)
    PROVE  Size' = Size - 1
<1>1. /\ head \in Slots /\ tail \in Slots /\ head' \in Slots
      /\ tail' = tail /\ head' = NextSlot(head)
      /\ full' = FALSE /\ empty' = (NextSlot(head) = tail)
      /\ full <=> head = tail
  BY DEF TypeOK, queueDel
<1>2. Size = IF tail > head THEN tail - head ELSE tail - head + QUEUESIZE
  <2>1. CASE full
    BY <1>1, <2>1, ProdConsAssumption DEF Size, Slots
  <2>2. CASE ~ full
    BY <1>1, <2>2, Distance, ProdConsAssumption DEF Size, Slots
  <2> QED
    BY <2>1, <2>2
<1>3. CASE NextSlot(head) = tail
  <2>1. Size' = 0
    BY <1>1, <1>3 DEF Size
  <2> QED
    BY <1>1, <1>2, <1>3, <2>1, ProdConsAssumption DEF NextSlot, Slots
<1>4. CASE NextSlot(head) # tail
  <2>1. Size' = (tail - head') % QUEUESIZE
    BY <1>1, <1>4 DEF Size
  <2>2. Size' = IF tail >= head' THEN tail - head'
                                 ELSE tail - head' + QUEUESIZE
    BY <1>1, <2>1, Distance
  <2> QED
    BY <1>1, <1>2, <1>4, <2>2, ProdConsAssumption DEF NextSlot, Slots
<1> QED
  BY <1>3, <1>4
-----------------------------------------------------------------------------
(***************************************************************************)
(* The invariant holds.                                                    *)
(***************************************************************************)
LEMMA InitIInv == Init => IInv
<1> SUFFICES ASSUME Init PROVE IInv
  OBVIOUS
<1>1. /\ 0 \in Slots /\ 1 \in 1 .. LOOP + 1 /\ 0 \in Nat
      /\ TRUE \in BOOLEAN /\ FALSE \in BOOLEAN
  BY ProdConsAssumption DEF Slots
<1> QED
  BY <1>1 DEF Init, IInv, TypeOK, Sleepers, Threads

LEMMA PutIInv ==
    ASSUME IInv, NEW p \in Producers, Put(p)
    PROVE  IInv'
<1> USE DEF IInv, TypeOK
<1>1. /\ pc[p] = "loop" /\ i[p] <= LOOP /\ i[p] \in 1 .. LOOP
      /\ UNCHANGED <<notEmpty, i, wf, total_consumed, at, asleep, executed>>
  BY ProdConsAssumption DEF Put, main_vars
<1>2. CASE full
  <2>1. notFull' = notFull \cup {p} /\ UNCHANGED <<queue_vars, pc>>
    BY <1>2 DEF Put
  <2> QED
    BY <1>1, <2>1 DEF queue_vars, Sleepers
<1>3. CASE ~ full
  <2>1. /\ queueAdd(<<p, i[p]>>) /\ notFull' = notFull
        /\ pc' = [pc EXCEPT ![p] = "signal"]
    BY <1>3 DEF Put, Goto
  <2>2. p \notin notFull /\ p \notin Consumers /\ p \in Threads
    BY ProdConsAssumption DEF Put, Threads
  <2>3. /\ buf' \in [Slots -> Items \cup {NoItem}]
        /\ head' \in Slots /\ tail' \in Slots
    BY <1>1, <2>1, NextSlotType DEF queueAdd, Items
  <2>4. /\ full' = (NextSlot(tail) = head) /\ empty' = FALSE
        /\ tail' = NextSlot(tail) /\ head' = head
    BY <1>3, <2>1 DEF queueAdd
  <2>5. /\ full' \in BOOLEAN /\ empty' \in BOOLEAN
        /\ ~ (full' /\ empty')
        /\ full' \/ empty' <=> head' = tail'
    BY <2>4
  <2>6. /\ pc' \in [Threads -> {"absent", "lost", "loop", "signal", "count",
                               "work"}]
        /\ \A q \in Producers : pc'[q] \notin {"count", "work"}
        /\ \A q \in Producers : pc'[q] = "signal" => i[q] <= LOOP
    BY <1>1, <2>1, <2>2 DEF Threads
  <2>7. Sleepers'
    BY <1>1, <2>1, <2>2 DEF Sleepers, Threads
  <2> QED
    BY <1>1, <2>1, <2>3, <2>5, <2>6, <2>7
<1> QED
  BY <1>2, <1>3

LEMMA GetIInv ==
    ASSUME IInv, NEW c \in Consumers, Get(c)
    PROVE  IInv'
<1> USE DEF IInv, TypeOK
<1>1. /\ pc[c] = "loop"
      /\ UNCHANGED <<notFull, i, total_consumed, at, asleep, executed>>
  BY DEF Get, main_vars
<1>2. CASE empty
  <2>1. notEmpty' = notEmpty \cup {c} /\ UNCHANGED <<queue_vars, pc, wf>>
    BY <1>2 DEF Get
  <2> QED
    BY <1>1, <2>1 DEF queue_vars, Sleepers
<1>3. CASE ~ empty
  <2>1. /\ queueDel(c) /\ notEmpty' = notEmpty
        /\ pc' = [pc EXCEPT ![c] = "signal"]
    BY <1>3 DEF Get, Goto
  <2>2. c \notin notEmpty /\ c \notin Producers /\ c \in Threads
    BY ProdConsAssumption DEF Get, Threads
  <2>3. /\ buf' \in [Slots -> Items \cup {NoItem}]
        /\ wf' \in [Consumers -> Items \cup {NoItem}]
        /\ head' \in Slots /\ tail' \in Slots
    BY <1>1, <2>1, NextSlotType DEF queueDel
  <2>4. /\ empty' = (NextSlot(head) = tail) /\ full' = FALSE
        /\ head' = NextSlot(head) /\ tail' = tail
    BY <1>3, <2>1 DEF queueDel
  <2>5. /\ full' \in BOOLEAN /\ empty' \in BOOLEAN
        /\ ~ (full' /\ empty')
        /\ full' \/ empty' <=> head' = tail'
    BY <2>4
  <2>6. /\ pc' \in [Threads -> {"absent", "lost", "loop", "signal", "count",
                               "work"}]
        /\ \A q \in Producers : pc'[q] = pc[q]
    BY <1>1, <2>1, <2>2 DEF Threads
  <2>7. Sleepers'
    BY <1>1, <2>1, <2>2, <2>6 DEF Sleepers, Threads
  <2> QED
    BY <1>1, <2>1, <2>3, <2>5, <2>6, <2>7
<1> QED
  BY <1>2, <1>3

LEMMA SignalNotEmptyIInv ==
    ASSUME IInv, NEW p \in Producers, SignalNotEmpty(p)
    PROVE  IInv'
<1> USE DEF IInv, TypeOK
<1>1. /\ pc[p] = "signal" /\ i[p] + 1 \in 1 .. LOOP + 1
      /\ notEmpty' \subseteq notEmpty
      /\ i' = [i EXCEPT ![p] = i[p] + 1]
      /\ pc' = [pc EXCEPT ![p] = "loop"]
      /\ UNCHANGED <<queue_vars, notFull, wf, total_consumed, at, asleep,
                     executed>>
  BY ProdConsAssumption DEF SignalNotEmpty, Signal, Goto, main_vars
<1>2. p \notin notFull /\ p \in Threads /\ p \notin Consumers
  BY <1>1, ProdConsAssumption DEF Sleepers, Threads
<1>3. /\ pc' \in [Threads -> {"absent", "lost", "loop", "signal", "count",
                             "work"}]
      /\ \A q \in Producers : pc'[q] \notin {"count", "work"}
      /\ i' \in [Producers -> 1 .. LOOP + 1]
      /\ \A q \in Producers : pc'[q] = "signal" => i'[q] <= LOOP
  BY <1>1, <1>2 DEF Threads
<1>4. Sleepers'
  BY <1>1, <1>2 DEF Sleepers, Threads
<1> QED
  BY <1>1, <1>3, <1>4 DEF queue_vars

(* The steps of a consumer after it has taken an item. *)
LEMMA ConsumerIInv ==
    ASSUME IInv, NEW c \in Consumers,
           SignalNotFull(c) \/ Count(c) \/ Work(c)
    PROVE  IInv'
<1> USE DEF IInv, TypeOK
<1>1. PICK label \in {"loop", "count", "work"} :
          /\ pc[c] # "loop"
          /\ pc' = [pc EXCEPT ![c] = label]
  BY DEF SignalNotFull, Count, Work, Goto
<1>2. /\ notFull' \subseteq notFull
      /\ UNCHANGED <<queue_vars, notEmpty, i, wf, at>>
  BY DEF SignalNotFull, Count, Work, Signal, main_vars
<1>3. /\ total_consumed' \in Nat
      /\ asleep' \in BOOLEAN
      /\ executed' \subseteq Items \cup {NoItem}
  BY DEF SignalNotFull, Count, Work, main_vars
<1>4. c \in Threads /\ c \notin Producers /\ c \notin notEmpty
  BY <1>1, ProdConsAssumption DEF Sleepers, Threads
<1>5. /\ pc' \in [Threads -> {"absent", "lost", "loop", "signal", "count",
                             "work"}]
      /\ \A q \in Producers : pc'[q] = pc[q]
  BY <1>1, <1>4 DEF Threads
<1>6. Sleepers'
  BY <1>1, <1>2, <1>4, <1>5 DEF Sleepers, Threads
<1> QED
  BY <1>2, <1>3, <1>5, <1>6 DEF queue_vars

LEMMA CreateIInv ==
    ASSUME IInv, NEW t \in Threads, Create(t)
    PROVE  IInv'
<1> USE DEF IInv, TypeOK
<1>1. PICK label \in {"loop", "lost"} : pc' = [pc EXCEPT ![t] = label]
  BY DEF Create, Goto
<1>2. /\ pc[t] = "absent"
      /\ UNCHANGED <<queue_vars, notFull, notEmpty, i, wf, total_consumed, at,
                     asleep, executed>>
  BY DEF Create, main_vars
<1>3. /\ pc' \in [Threads -> {"absent", "lost", "loop", "signal", "count",
                             "work"}]
      /\ \A q \in Producers : pc'[q] \notin {"count", "work"}
      /\ \A q \in Producers : pc'[q] = "signal" => pc[q] = "signal"
  BY <1>1 DEF Threads
<1>4. Sleepers'
  BY <1>1, <1>2 DEF Sleepers, Threads
<1> QED
  BY <1>2, <1>3, <1>4 DEF queue_vars

LEMMA MainIInv ==
    ASSUME IInv,
           \/ Created \/ MainWait \/ DestroyBlocks
           \/ queueDelete \/ Exit \/ Crash
           \/ SpuriousWakeup \/ UNCHANGED vars
    PROVE  IInv'
<1> USE DEF IInv, TypeOK
<1>1. /\ UNCHANGED <<queue_vars, pc, i, wf, total_consumed, executed>>
      /\ notFull' \subseteq notFull /\ notEmpty' \subseteq notEmpty
  BY DEF Created, MainWait, DestroyBlocks, queueDelete, Exit, Crash, MainStep,
         SpuriousWakeup, vars
<1>2. at' \in {"create", "wait", "delete", "blocked", "deleted", "exited",
               "crashed"}
  BY DEF Created, MainWait, DestroyBlocks, queueDelete, Exit, Crash, MainStep,
         SpuriousWakeup, vars, main_vars
<1>3. asleep' \in BOOLEAN
  BY DEF Created, MainWait, DestroyBlocks, queueDelete, Exit, Crash, MainStep,
         SpuriousWakeup, vars, main_vars
<1> QED
  BY <1>1, <1>2, <1>3 DEF queue_vars, Sleepers

LEMMA NextIInv ==
    ASSUME IInv, [Next]_vars
    PROVE  IInv'
BY CreateIInv, PutIInv, SignalNotEmptyIInv, GetIInv, ConsumerIInv, MainIInv
   DEF Next, ProducerStep, ConsumerStep, Ended

LEMMA Invariance == Spec => []IInv
<1>1. IInv /\ [Next]_vars => IInv'
  BY NextIInv
<1> QED
  BY InitIInv, <1>1, PTL DEF Spec

(* The indices stay in the queue, the two flags never contradict each      *)
(* other, and one is set exactly when the indices meet.                    *)
THEOREM TypeCorrect == Spec => []TypeOK
<1>1. IInv => TypeOK
  BY DEF IInv
<1> QED
  BY Invariance, <1>1, PTL
-----------------------------------------------------------------------------
(***************************************************************************)
(* No wakeup is lost.  Each half of the property is inductive: a step      *)
(* either leaves the queue alone and keeps the threads that are awake or   *)
(* about to signal, or changes both sides of the inequality together.      *)
(***************************************************************************)
ConsumersAwake ==
    notEmpty # {} => Size <= Cardinality(AwakeConsumers)
                                 + Cardinality(SignallingProducers)

ProducersAwake ==
    notFull # {} => QUEUESIZE - Size <= Cardinality(AwakeProducers)
                                            + Cardinality(SignallingConsumers)

ConsumersUndisturbed ==
    /\ Size' = Size
    /\ notEmpty' \subseteq notEmpty
    /\ AwakeConsumers \subseteq AwakeConsumers'
    /\ SignallingProducers \subseteq SignallingProducers'

ProducersUndisturbed ==
    /\ Size' = Size
    /\ notFull' \subseteq notFull
    /\ AwakeProducers \subseteq AwakeProducers'
    /\ SignallingConsumers \subseteq SignallingConsumers'

LEMMA ConsumerSetsFinite ==
    /\ IsFiniteSet(AwakeConsumers) /\ Cardinality(AwakeConsumers) \in Nat
    /\ IsFiniteSet(AwakeConsumers') /\ Cardinality(AwakeConsumers') \in Nat
    /\ IsFiniteSet(SignallingConsumers)
    /\ Cardinality(SignallingConsumers) \in Nat
    /\ IsFiniteSet(SignallingConsumers')
    /\ Cardinality(SignallingConsumers') \in Nat
<1>1. /\ AwakeConsumers \subseteq Consumers
      /\ AwakeConsumers' \subseteq Consumers
      /\ SignallingConsumers \subseteq Consumers
      /\ SignallingConsumers' \subseteq Consumers
  BY DEF AwakeConsumers, SignallingConsumers
<1> QED
  BY <1>1, ProdConsAssumption, FS_Subset, FS_CardinalityType

LEMMA ProducerSetsFinite ==
    /\ IsFiniteSet(AwakeProducers) /\ Cardinality(AwakeProducers) \in Nat
    /\ IsFiniteSet(AwakeProducers') /\ Cardinality(AwakeProducers') \in Nat
    /\ IsFiniteSet(SignallingProducers)
    /\ Cardinality(SignallingProducers) \in Nat
    /\ IsFiniteSet(SignallingProducers')
    /\ Cardinality(SignallingProducers') \in Nat
<1>1. /\ AwakeProducers \subseteq Producers
      /\ AwakeProducers' \subseteq Producers
      /\ SignallingProducers \subseteq Producers
      /\ SignallingProducers' \subseteq Producers
  BY DEF AwakeProducers, SignallingProducers
<1> QED
  BY <1>1, ProdConsAssumption, FS_Subset, FS_CardinalityType

LEMMA UndisturbedConsumers ==
    ASSUME TypeOK, ConsumersAwake, ConsumersUndisturbed
    PROVE  ConsumersAwake'
<1>1. /\ Cardinality(AwakeConsumers) <= Cardinality(AwakeConsumers')
      /\ Cardinality(SignallingProducers) <= Cardinality(SignallingProducers')
  BY ConsumerSetsFinite, ProducerSetsFinite, FS_Subset
     DEF ConsumersUndisturbed
<1>2. notEmpty' # {} => notEmpty # {} /\ Size' = Size
  BY DEF ConsumersUndisturbed
<1>3. Size \in Nat
  BY SizeType
<1> QED
  BY <1>1, <1>2, <1>3, ConsumerSetsFinite, ProducerSetsFinite
     DEF ConsumersAwake

LEMMA UndisturbedProducers ==
    ASSUME TypeOK, ProducersAwake, ProducersUndisturbed
    PROVE  ProducersAwake'
<1>1. /\ Cardinality(AwakeProducers) <= Cardinality(AwakeProducers')
      /\ Cardinality(SignallingConsumers) <= Cardinality(SignallingConsumers')
  BY ConsumerSetsFinite, ProducerSetsFinite, FS_Subset
     DEF ProducersUndisturbed
<1>2. notFull' # {} => notFull # {} /\ Size' = Size
  BY DEF ProducersUndisturbed
<1>3. Size \in Nat /\ QUEUESIZE \in Nat
  BY SizeType, ProdConsAssumption
<1> QED
  BY <1>1, <1>2, <1>3, ConsumerSetsFinite, ProducerSetsFinite
     DEF ProducersAwake

(* A producer that adds an item turns from an awake one into a signalling  *)
(* one; it falls asleep only when no slot is free.                         *)
LEMMA PutAwake ==
    ASSUME IInv, ConsumersAwake, ProducersAwake, NEW p \in Producers, Put(p)
    PROVE  ConsumersAwake' /\ ProducersAwake'
<1> USE DEF IInv
<1>0. TypeOK' /\ Size \in 0 .. QUEUESIZE
  BY PutIInv, SizeType
<1>1. /\ p \in AwakeProducers /\ p \notin SignallingProducers
      /\ p \in Threads /\ p \notin Consumers
      /\ pc \in [Threads -> {"absent", "lost", "loop", "signal", "count",
                             "work"}]
      /\ notEmpty' = notEmpty /\ i' = i
  BY ProdConsAssumption
     DEF Put, AwakeProducers, SignallingProducers, Threads, TypeOK
<1>2. CASE full
  <2>1. UNCHANGED <<buf, head, tail, full, empty, pc>>
    BY <1>2 DEF Put, queue_vars
  <2>2. Size' = QUEUESIZE /\ Size' = Size
    BY <1>2, <2>1 DEF Size
  <2>3. ConsumersUndisturbed
    BY <1>1, <2>1, <2>2
       DEF ConsumersUndisturbed, AwakeConsumers, SignallingProducers
  <2>4. ProducersAwake'
    BY <2>2, ConsumerSetsFinite, ProducerSetsFinite, ProdConsAssumption
       DEF ProducersAwake
  <2> QED
    BY <2>3, <2>4, UndisturbedConsumers
<1>3. CASE ~ full
  <2>1. /\ queueAdd(<<p, i[p]>>) /\ notFull' = notFull
        /\ pc' = [pc EXCEPT ![p] = "signal"]
    BY <1>3 DEF Put, Goto
  <2>2. Size' = Size + 1
    BY <1>0, <1>3, <2>1, AddSize
  <2>3. /\ AwakeProducers' = AwakeProducers \ {p}
        /\ SignallingProducers' = SignallingProducers \cup {p}
    BY <1>1, <2>1 DEF AwakeProducers, SignallingProducers, Threads
  <2>4. /\ AwakeConsumers' = AwakeConsumers
        /\ SignallingConsumers' = SignallingConsumers
    BY <1>1, <2>1 DEF AwakeConsumers, SignallingConsumers, Threads
  <2>5. Cardinality(AwakeProducers') = Cardinality(AwakeProducers) - 1
    BY <1>1, <2>3, ProducerSetsFinite, FS_RemoveElement
  <2>6. Cardinality(SignallingProducers') = Cardinality(SignallingProducers) + 1
    BY <1>1, <2>3, ProducerSetsFinite, FS_AddElement
  <2>7. ConsumersAwake'
    BY <1>0, <1>1, <2>2, <2>4, <2>6, ConsumerSetsFinite, ProducerSetsFinite
       DEF ConsumersAwake
  <2>8. ProducersAwake'
    BY <1>0, <2>1, <2>2, <2>4, <2>5, ConsumerSetsFinite, ProducerSetsFinite,
       ProdConsAssumption DEF ProducersAwake
  <2> QED
    BY <2>7, <2>8
<1> QED
  BY <1>2, <1>3

(* A consumer that takes an item is the mirror image. *)
LEMMA GetAwake ==
    ASSUME IInv, ConsumersAwake, ProducersAwake, NEW c \in Consumers, Get(c)
    PROVE  ConsumersAwake' /\ ProducersAwake'
<1> USE DEF IInv
<1>0. TypeOK' /\ Size \in 0 .. QUEUESIZE
  BY GetIInv, SizeType
<1>1. /\ c \in AwakeConsumers /\ c \notin SignallingConsumers
      /\ c \in Threads /\ c \notin Producers
      /\ pc \in [Threads -> {"absent", "lost", "loop", "signal", "count",
                             "work"}]
      /\ notFull' = notFull /\ i' = i
  BY ProdConsAssumption
     DEF Get, AwakeConsumers, SignallingConsumers, Threads, TypeOK
<1>2. CASE empty
  <2>1. UNCHANGED <<buf, head, tail, full, empty, pc>>
    BY <1>2 DEF Get, queue_vars
  <2>2. Size' = 0 /\ Size' = Size
    BY <1>2, <2>1, SizeType DEF Size
  <2>3. ProducersUndisturbed
    BY <1>1, <2>1, <2>2
       DEF ProducersUndisturbed, AwakeProducers, SignallingConsumers
  <2>4. ConsumersAwake'
    BY <2>2, ConsumerSetsFinite, ProducerSetsFinite DEF ConsumersAwake
  <2> QED
    BY <2>3, <2>4, UndisturbedProducers
<1>3. CASE ~ empty
  <2>1. /\ queueDel(c) /\ notEmpty' = notEmpty
        /\ pc' = [pc EXCEPT ![c] = "signal"]
    BY <1>3 DEF Get, Goto
  <2>2. Size' = Size - 1
    BY <1>0, <1>3, <2>1, DelSize
  <2>3. /\ AwakeConsumers' = AwakeConsumers \ {c}
        /\ SignallingConsumers' = SignallingConsumers \cup {c}
    BY <1>1, <2>1 DEF AwakeConsumers, SignallingConsumers, Threads
  <2>4. /\ AwakeProducers' = AwakeProducers
        /\ SignallingProducers' = SignallingProducers
    BY <1>1, <2>1 DEF AwakeProducers, SignallingProducers, Threads
  <2>5. Cardinality(AwakeConsumers') = Cardinality(AwakeConsumers) - 1
    BY <1>1, <2>3, ConsumerSetsFinite, FS_RemoveElement
  <2>6. Cardinality(SignallingConsumers') = Cardinality(SignallingConsumers) + 1
    BY <1>1, <2>3, ConsumerSetsFinite, FS_AddElement
  <2>7. ConsumersAwake'
    BY <1>0, <2>1, <2>2, <2>4, <2>5, ConsumerSetsFinite, ProducerSetsFinite
       DEF ConsumersAwake
  <2>8. ProducersAwake'
    BY <1>0, <1>1, <2>2, <2>4, <2>6, ConsumerSetsFinite, ProducerSetsFinite,
       ProdConsAssumption DEF ProducersAwake
  <2> QED
    BY <2>7, <2>8
<1> QED
  BY <1>2, <1>3

(* A signal takes the place of the producer that gives it. *)
LEMMA SignalNotEmptyAwake ==
    ASSUME IInv, ConsumersAwake, ProducersAwake,
           NEW p \in Producers, SignalNotEmpty(p)
    PROVE  ConsumersAwake' /\ ProducersAwake'
<1> USE DEF IInv
<1>1. /\ Signal(notEmpty, notEmpty')
      /\ UNCHANGED <<buf, head, tail, full, empty, notFull>>
      /\ pc[p] = "signal" /\ pc' = [pc EXCEPT ![p] = "loop"]
      /\ i' = [i EXCEPT ![p] = i[p] + 1]
  BY DEF SignalNotEmpty, Goto, queue_vars
<1>2. /\ p \in Threads /\ p \notin Consumers
      /\ pc \in [Threads -> {"absent", "lost", "loop", "signal", "count",
                             "work"}]
  BY ProdConsAssumption DEF Threads, TypeOK
<1>3. Size' = Size /\ Size \in Nat
  BY <1>1, SizeType DEF Size
<1>4. ProducersUndisturbed
  BY <1>1, <1>2, <1>3
     DEF ProducersUndisturbed, AwakeProducers, SignallingConsumers, Threads
<1>5. ASSUME notEmpty' # {}
      PROVE  Size' <= Cardinality(AwakeConsumers')
                          + Cardinality(SignallingProducers')
  <2>1. PICK c \in notEmpty : notEmpty' = notEmpty \ {c}
    BY <1>1, <1>5 DEF Signal
  <2>2. c \in Consumers /\ pc[c] = "loop"
    BY <2>1 DEF TypeOK, Sleepers
  <2>3. /\ c \notin AwakeConsumers
        /\ AwakeConsumers' = AwakeConsumers \cup {c}
    BY <1>1, <1>2, <2>1, <2>2 DEF AwakeConsumers, Threads
  <2>4. /\ p \in SignallingProducers
        /\ SignallingProducers' = SignallingProducers \ {p}
    BY <1>1, <1>2 DEF SignallingProducers, Threads
  <2>5. Cardinality(AwakeConsumers') = Cardinality(AwakeConsumers) + 1
    BY <2>3, ConsumerSetsFinite, FS_AddElement
  <2>6. Cardinality(SignallingProducers') = Cardinality(SignallingProducers) - 1
    BY <2>4, ProducerSetsFinite, FS_RemoveElement
  <2>7. Size <= Cardinality(AwakeConsumers) + Cardinality(SignallingProducers)
    BY <2>1 DEF ConsumersAwake
  <2> QED
    BY <1>3, <2>5, <2>6, <2>7, ConsumerSetsFinite, ProducerSetsFinite
<1> QED
  BY <1>4, <1>5, UndisturbedProducers DEF ConsumersAwake

LEMMA SignalNotFullAwake ==
    ASSUME IInv, ConsumersAwake, ProducersAwake,
           NEW c \in Consumers, SignalNotFull(c)
    PROVE  ConsumersAwake' /\ ProducersAwake'
<1> USE DEF IInv
<1>1. /\ Signal(notFull, notFull')
      /\ UNCHANGED <<buf, head, tail, full, empty, notEmpty, i>>
      /\ pc[c] = "signal" /\ pc' = [pc EXCEPT ![c] = "count"]
  BY DEF SignalNotFull, Goto, queue_vars
<1>2. /\ c \in Threads /\ c \notin Producers
      /\ pc \in [Threads -> {"absent", "lost", "loop", "signal", "count",
                             "work"}]
  BY ProdConsAssumption DEF Threads, TypeOK
<1>3. Size' = Size /\ Size \in Nat /\ QUEUESIZE \in Nat
  BY <1>1, SizeType, ProdConsAssumption DEF Size
<1>4. ConsumersUndisturbed
  BY <1>1, <1>2, <1>3
     DEF ConsumersUndisturbed, AwakeConsumers, SignallingProducers, Threads
<1>5. ASSUME notFull' # {}
      PROVE  QUEUESIZE - Size' <= Cardinality(AwakeProducers')
                                      + Cardinality(SignallingConsumers')
  <2>1. PICK p \in notFull : notFull' = notFull \ {p}
    BY <1>1, <1>5 DEF Signal
  <2>2. p \in Producers /\ pc[p] = "loop" /\ i[p] <= LOOP
    BY <2>1 DEF TypeOK, Sleepers
  <2>3. /\ p \notin AwakeProducers
        /\ AwakeProducers' = AwakeProducers \cup {p}
    BY <1>1, <1>2, <2>1, <2>2 DEF AwakeProducers, Threads
  <2>4. /\ c \in SignallingConsumers
        /\ SignallingConsumers' = SignallingConsumers \ {c}
    BY <1>1, <1>2 DEF SignallingConsumers, Threads
  <2>5. Cardinality(AwakeProducers') = Cardinality(AwakeProducers) + 1
    BY <2>3, ProducerSetsFinite, FS_AddElement
  <2>6. Cardinality(SignallingConsumers') = Cardinality(SignallingConsumers) - 1
    BY <2>4, ConsumerSetsFinite, FS_RemoveElement
  <2>7. QUEUESIZE - Size <= Cardinality(AwakeProducers)
                                + Cardinality(SignallingConsumers)
    BY <2>1 DEF ProducersAwake
  <2> QED
    BY <1>3, <2>5, <2>6, <2>7, ConsumerSetsFinite, ProducerSetsFinite
<1> QED
  BY <1>4, <1>5, UndisturbedConsumers DEF ProducersAwake

LEMMA OtherStepAwake ==
    ASSUME IInv, ConsumersAwake, ProducersAwake,
           \/ \E t \in Threads : Create(t)
           \/ \E c \in Consumers : Count(c) \/ Work(c)
           \/ Created \/ MainWait \/ DestroyBlocks
           \/ queueDelete \/ Exit \/ Crash
           \/ SpuriousWakeup \/ UNCHANGED vars
    PROVE  ConsumersAwake' /\ ProducersAwake'
<1> USE DEF IInv
<1>1. /\ UNCHANGED <<buf, head, tail, full, empty, i>>
      /\ notFull' \subseteq notFull /\ notEmpty' \subseteq notEmpty
  BY DEF Create, Count, Work, Created, MainWait, DestroyBlocks, queueDelete,
         Exit, Crash,
         MainStep, SpuriousWakeup, vars, queue_vars
<1>2. Size' = Size
  BY <1>1 DEF Size
<1>3. \A t \in Threads : pc[t] \in {"loop", "signal"} => pc'[t] = pc[t]
  BY DEF TypeOK, Create, Count, Work, Created, MainWait, DestroyBlocks,
         queueDelete, Exit,
         Crash, MainStep, SpuriousWakeup, vars, Goto
<1>4. ConsumersUndisturbed /\ ProducersUndisturbed
  BY <1>1, <1>2, <1>3
     DEF ConsumersUndisturbed, ProducersUndisturbed, AwakeConsumers,
         AwakeProducers, SignallingConsumers, SignallingProducers, Threads
<1> QED
  BY <1>4, UndisturbedConsumers, UndisturbedProducers

(* Though the signals come after the unlock, no wakeup is lost: a thread   *)
(* sleeps only while every item, or every free slot, has another thread    *)
(* about to look for it or a signal on its way.                            *)
THEOREM NoWakeupLost == Spec => []NoLostWakeup
<1> DEFINE Awake == IInv /\ ConsumersAwake /\ ProducersAwake
<1>1. Init => Awake
  BY InitIInv DEF Init, ConsumersAwake, ProducersAwake
<1>2. Awake /\ [Next]_vars => Awake'
  <2> SUFFICES ASSUME Awake, [Next]_vars PROVE Awake'
    OBVIOUS
  <2>1. IInv'
    BY NextIInv
  <2>2. ConsumersAwake' /\ ProducersAwake'
    BY PutAwake, GetAwake, SignalNotEmptyAwake, SignalNotFullAwake,
       OtherStepAwake DEF Next, ProducerStep, ConsumerStep, Ended
  <2> QED
    BY <2>1, <2>2
<1>3. Awake => NoLostWakeup
  BY DEF ConsumersAwake, ProducersAwake, NoLostWakeup
<1> QED
  BY <1>1, <1>2, <1>3, PTL DEF Spec
-----------------------------------------------------------------------------
(***************************************************************************)
(* ProdCons implements BoundedQueue: queueAdd is Put, queueDel is Get, and *)
(* every other step leaves the abstract queue alone.                       *)
(***************************************************************************)
Elements == Items \cup {NoItem}

(* Two places less than a turn of the ring apart are different. *)
LEMMA SlotsDiffer ==
    ASSUME NEW s \in Slots, NEW m \in Slots, NEW n \in Slots, m < n
    PROVE  (s + m) % QUEUESIZE # (s + n) % QUEUESIZE
<1>1. CASE s + n < QUEUESIZE
  BY <1>1, ProdConsAssumption DEF Slots
<1>2. CASE s + n >= QUEUESIZE /\ s + m < QUEUESIZE
  <2>1. (s + n) % QUEUESIZE = s + n - QUEUESIZE
    BY <1>2, ProdConsAssumption DEF Slots
  <2>2. (s + m) % QUEUESIZE = s + m
    BY <1>2, ProdConsAssumption DEF Slots
  <2> QED
    BY <2>1, <2>2, ProdConsAssumption DEF Slots
<1>3. CASE s + m >= QUEUESIZE
  <2>1. (s + n) % QUEUESIZE = s + n - QUEUESIZE
    BY <1>3, ProdConsAssumption DEF Slots
  <2>2. (s + m) % QUEUESIZE = s + m - QUEUESIZE
    BY <1>3, ProdConsAssumption DEF Slots
  <2> QED
    BY <2>1, <2>2, ProdConsAssumption DEF Slots
<1> QED
  BY <1>1, <1>2, <1>3, ProdConsAssumption DEF Slots

(* Counting from the next slot. *)
LEMMA NextTurn ==
    ASSUME NEW s \in Slots, NEW n \in 1 .. QUEUESIZE
    PROVE  (NextSlot(s) + n - 1) % QUEUESIZE = (s + n) % QUEUESIZE
BY ProdConsAssumption DEF NextSlot, Slots

(* The refinement mapping yields a sequence of items. *)
ContentsOK ==
    /\ Contents \in Seq(Elements)
    /\ Len(Contents) = Size
    /\ \A n \in 1 .. Size :
           Contents[n] = buf[(head + n - 1) % QUEUESIZE]

LEMMA ContentsType == TypeOK => ContentsOK
<1> SUFFICES ASSUME TypeOK PROVE ContentsOK
  OBVIOUS
<1>1. Size \in 0 .. QUEUESIZE
  BY SizeType
<1>2. \A n \in 1 .. Size : (head + n - 1) % QUEUESIZE \in Slots
  BY <1>1, ProdConsAssumption DEF TypeOK, Slots
<1>3. \A n \in 1 .. Size : buf[(head + n - 1) % QUEUESIZE] \in Elements
  BY <1>2 DEF TypeOK, Elements
<1> HIDE DEF Size
<1> QED
  BY <1>1, <1>3, ProdConsAssumption DEF Contents, ContentsOK

LEMMA ContentsTypeNext == TypeOK' => ContentsOK'
BY ContentsType, PTL

(* queueAdd puts its item behind the others, and overwrites none. *)
LEMMA AddIsPut ==
    ASSUME IInv, IInv', ~ full, NEW item \in Items, queueAdd(item), wf' = wf
    PROVE  Queue!Put(item)
<1> USE DEF ContentsOK
<1>0. TypeOK /\ TypeOK'
  BY DEF IInv
<1>1. /\ Size \in 0 .. QUEUESIZE - 1 /\ Size' = Size + 1
      /\ tail = (head + Size) % QUEUESIZE
      /\ head \in Slots /\ tail \in Slots
  <2>1. Size \in 0 .. QUEUESIZE /\ Size # QUEUESIZE
    BY <1>0, SizeType
  <2>2. Size' = Size + 1 /\ tail = (head + Size) % QUEUESIZE
    BY <1>0, AddSize, TailSlot
  <2> QED
    BY <1>0, <2>1, <2>2, ProdConsAssumption DEF TypeOK
<1>2. head' = head /\ buf' = [buf EXCEPT ![tail] = item] /\ item \in Elements
  BY DEF queueAdd, Elements
<1>3. /\ Contents \in Seq(Elements) /\ Len(Contents) = Size
      /\ Contents' \in Seq(Elements) /\ Len(Contents') = Size + 1
  BY <1>0, <1>1, ContentsType, ContentsTypeNext
<1>4. /\ Append(Contents, item) \in Seq(Elements)
      /\ Len(Append(Contents, item)) = Size + 1
      /\ \A n \in 1 .. Size : Append(Contents, item)[n] = Contents[n]
      /\ Append(Contents, item)[Size + 1] = item
  BY <1>2, <1>3, AppendProperties
<1>5. ASSUME NEW n \in 1 .. Size + 1
      PROVE  Contents'[n] = Append(Contents, item)[n]
  <2>1. Contents'[n] = buf'[(head + n - 1) % QUEUESIZE]
    BY <1>0, <1>1, <1>2, ContentsTypeNext
  <2>2. CASE n = Size + 1
    <3>1. (head + n - 1) % QUEUESIZE = tail
      BY <1>1, <2>2 DEF Slots
    <3> QED
      BY <1>0, <1>1, <1>2, <1>4, <2>1, <2>2, <3>1 DEF TypeOK
  <2>3. CASE n \in 1 .. Size
    <3>1. n - 1 \in Slots /\ Size \in Slots /\ n - 1 < Size
      BY <1>1, <2>3, ProdConsAssumption DEF Slots
    <3>2. (head + (n - 1)) % QUEUESIZE # tail
      BY <1>1, <3>1, SlotsDiffer
    <3>3. (head + n - 1) % QUEUESIZE # tail
      BY <1>1, <3>1, <3>2, ProdConsAssumption DEF Slots
    <3>4. (head + n - 1) % QUEUESIZE \in Slots
      BY <1>1, <2>3, ProdConsAssumption DEF Slots
    <3>5. Contents'[n] = buf[(head + n - 1) % QUEUESIZE]
      BY <1>0, <1>2, <2>1, <3>3, <3>4 DEF TypeOK
    <3> QED
      BY <1>0, <1>4, <2>3, <3>5, ContentsType
  <2>4. n = Size + 1 \/ n \in 1 .. Size
    BY <1>1, ProdConsAssumption
  <2> QED
    BY <2>2, <2>3, <2>4
<1>6. Contents' = Append(Contents, item)
  BY <1>1, <1>3, <1>4, <1>5, SeqEqual
<1> QED
  BY <1>1, <1>3, <1>6, ProdConsAssumption DEF Queue!Put

(* queueDel gets the oldest item. *)
LEMMA DelIsGet ==
    ASSUME IInv, IInv', ~ empty, NEW c \in Consumers, queueDel(c)
    PROVE  Queue!Get(c)
<1> USE DEF ContentsOK
<1>0. TypeOK /\ TypeOK'
  BY DEF IInv
<1>1. Size \in 1 .. QUEUESIZE /\ Size' = Size - 1 /\ head \in Slots
  <2>1. Size \in 0 .. QUEUESIZE /\ Size # 0
    BY <1>0, SizeType
  <2>2. Size' = Size - 1
    BY <1>0, DelSize
  <2> QED
    BY <1>0, <2>1, <2>2, ProdConsAssumption DEF TypeOK
<1>2. /\ head' = NextSlot(head) /\ buf' = buf
      /\ wf' = [wf EXCEPT ![c] = buf[head]]
  BY DEF queueDel
<1>3. /\ Contents \in Seq(Elements) /\ Len(Contents) = Size
      /\ Contents' \in Seq(Elements) /\ Len(Contents') = Size - 1
  BY <1>0, <1>1, ContentsType, ContentsTypeNext
<1>4. Contents # <<>> /\ Head(Contents) = buf[head]
  <2>1. (head + 1 - 1) % QUEUESIZE = head
    BY <1>1, ProdConsAssumption DEF Slots
  <2>2. Contents[1] = buf[head]
    BY <1>0, <1>1, <2>1, ContentsType
  <2> QED
    BY <1>1, <1>3, <2>2
<1>5. /\ Tail(Contents) \in Seq(Elements)
      /\ Len(Tail(Contents)) = Size - 1
      /\ \A n \in 1 .. Size - 1 : Tail(Contents)[n] = Contents[n + 1]
  BY <1>3, <1>4, HeadTailProperties
<1>6. ASSUME NEW n \in 1 .. Size - 1
      PROVE  Contents'[n] = Tail(Contents)[n]
  <2>1. /\ n \in 1 .. QUEUESIZE /\ n + 1 \in 1 .. Size
        /\ n \in 1 .. Size'
    BY <1>1, ProdConsAssumption
  <2>2. (NextSlot(head) + n - 1) % QUEUESIZE = (head + n) % QUEUESIZE
    BY <1>1, <2>1, NextTurn
  <2>3. head + n = head + (n + 1) - 1
    BY <1>1, <2>1 DEF Slots
  <2>4. Contents'[n] = buf[(NextSlot(head) + n - 1) % QUEUESIZE]
    BY <1>0, <1>2, <2>1, ContentsTypeNext
  <2>5. Contents[n + 1] = buf[(head + (n + 1) - 1) % QUEUESIZE]
    BY <1>0, <2>1, ContentsType
  <2> QED
    BY <1>5, <2>2, <2>3, <2>4, <2>5
<1>7. Contents' = Tail(Contents)
  BY <1>3, <1>5, <1>6, SeqEqual
<1> QED
  BY <1>2, <1>4, <1>7 DEF Queue!Get

LEMMA OthersStutter ==
    ASSUME UNCHANGED <<buf, head, tail, full, empty, wf>>
    PROVE  UNCHANGED <<Contents, wf>>
BY DEF Contents, Size

LEMMA NextRefines ==
    ASSUME IInv, [Next]_vars
    PROVE  [Queue!Next]_<<Contents, wf>>
<1> USE DEF queue_vars
<1>0. IInv'
  BY NextIInv
<1>1. ASSUME NEW p \in Producers, Put(p)
      PROVE  Queue!Next \/ UNCHANGED <<Contents, wf>>
  <2>1. CASE full
    BY <1>1, <2>1, OthersStutter DEF Put
  <2>2. CASE ~ full
    <3>1. queueAdd(<<p, i[p]>>) /\ wf' = wf
      BY <1>1, <2>2 DEF Put
    <3>2. <<p, i[p]>> \in Items
      BY <1>1, ProdConsAssumption DEF Put, Items, IInv, TypeOK
    <3>3. Queue!Put(<<p, i[p]>>)
      BY <1>0, <2>2, <3>1, <3>2, AddIsPut
    <3> QED
      BY <3>2, <3>3 DEF Queue!Next
  <2> QED
    BY <2>1, <2>2
<1>2. ASSUME NEW c \in Consumers, Get(c)
      PROVE  Queue!Next \/ UNCHANGED <<Contents, wf>>
  <2>1. CASE empty
    BY <1>2, <2>1, OthersStutter DEF Get
  <2>2. CASE ~ empty
    <3>1. Queue!Get(c)
      BY <1>0, <1>2, <2>2, DelIsGet DEF Get
    <3> QED
      BY <3>1 DEF Queue!Next
  <2> QED
    BY <2>1, <2>2
<1>3. ASSUME NEW p \in Producers, SignalNotEmpty(p)
      PROVE  UNCHANGED <<Contents, wf>>
  BY <1>3, OthersStutter DEF SignalNotEmpty
<1>4. ASSUME NEW c \in Consumers, SignalNotFull(c) \/ Count(c) \/ Work(c)
      PROVE  UNCHANGED <<Contents, wf>>
  BY <1>4, OthersStutter DEF SignalNotFull, Count, Work
<1>5. ASSUME NEW t \in Threads, Create(t)
      PROVE  UNCHANGED <<Contents, wf>>
  BY <1>5, OthersStutter DEF Create
<1>6. ASSUME \/ Created \/ MainWait \/ DestroyBlocks
             \/ queueDelete \/ Exit \/ Crash
             \/ SpuriousWakeup \/ UNCHANGED vars
      PROVE  UNCHANGED <<Contents, wf>>
  BY <1>6, OthersStutter
     DEF Created, MainWait, DestroyBlocks, queueDelete, Exit, Crash, MainStep,
         SpuriousWakeup, vars
<1> QED
  BY <1>1, <1>2, <1>3, <1>4, <1>5, <1>6
     DEF Next, ProducerStep, ConsumerStep, Ended

LEMMA InitRefines == Init => Queue!Init
<1> SUFFICES ASSUME Init PROVE Queue!Init
  OBVIOUS
<1>1. TypeOK /\ Size = 0
  BY InitIInv DEF IInv, Init, Size
<1>2. Contents \in Seq(Elements) /\ Len(Contents) = 0
  BY <1>1, ContentsType DEF ContentsOK
<1>3. Contents = <<>>
  BY <1>2, EmptySeq
<1> QED
  BY <1>1, <1>3 DEF Queue!Init, TypeOK

(* The queue with its flags implements the bounded FIFO: work items come   *)
(* out once each, in the order in which they were put, and none is         *)
(* overwritten while it waits.                                             *)
THEOREM Refinement == Spec => ImplementsBoundedQueue
<1>1. IInv /\ [Next]_vars => [Queue!Next]_<<Contents, wf>>
  BY NextRefines
<1>2. Queue!vars = <<Contents, wf>>
  BY DEF Queue!vars
<1> QED
  BY <1>1, <1>2, InitRefines, Invariance, PTL
     DEF Spec, ImplementsBoundedQueue, Queue!Spec, Queue!vars
-----------------------------------------------------------------------------
(***************************************************************************)
(* Every item is in one place at a time: not yet made, in the queue, in    *)
(* the hands of a consumer, or executed.  So the items counted are as many *)
(* as total_consumed says, and when it reaches the number of all items     *)
(* there is none left anywhere else.                                       *)
(***************************************************************************)
Made ==
    {item \in Items : \/ item[2] < i[item[1]]
                      \/ item[2] = i[item[1]] /\ pc[item[1]] = "signal"}

Holders == {c \in Consumers : pc[c] \in {"signal", "count", "work"}}

InQueue(item) == \E n \in 1 .. Size : Contents[n] = item

OnePlace ==
    /\ \A n \in 1 .. Size : Contents[n] \in Made \ executed
    /\ \A m, n \in 1 .. Size : m # n => Contents[m] # Contents[n]
    /\ \A c \in Holders : wf[c] \in Made \ executed /\ ~ InQueue(wf[c])
    /\ \A c, d \in Holders : c # d => wf[c] # wf[d]
    /\ executed \subseteq Made

Workers == {c \in Consumers : pc[c] = "work"}

Counted == executed \cup {wf[c] : c \in Workers}

CountedOnce == total_consumed = Cardinality(Counted)

MainToldLast ==
    at \in {"delete", "blocked", "deleted"} => total_consumed >= Expected

PInv == IInv /\ OnePlace /\ CountedOnce /\ MainToldLast

LEMMA ItemsFinite == IsFiniteSet(Items) /\ Cardinality(Items) = Expected
<1>1. IsFiniteSet(1 .. LOOP) /\ Cardinality(1 .. LOOP) = LOOP
  BY ProdConsAssumption, FS_Interval
<1> QED
  BY <1>1, ProdConsAssumption, FS_Product DEF Items, Expected

LEMMA CountedFinite ==
    ASSUME OnePlace
    PROVE  /\ Counted \subseteq Items
           /\ IsFiniteSet(Counted)
           /\ Cardinality(Counted) \in Nat
           /\ Cardinality(Counted) <= Expected
           /\ Cardinality(Counted) = Expected => Counted = Items
<1>1. Counted \subseteq Items
  BY DEF OnePlace, Counted, Made, Workers, Holders
<1> QED
  BY <1>1, ItemsFinite, FS_Subset, FS_CardinalityType

(* The item that a producer adds was not made before. *)
LEMMA PutPlaces ==
    ASSUME PInv, NEW p \in Producers, Put(p)
    PROVE  OnePlace' /\ CountedOnce' /\ MainToldLast'
<1> USE DEF PInv
<1>1. IInv' /\ TypeOK
  BY PutIInv DEF IInv
<1>2. /\ UNCHANGED <<i, wf, total_consumed, at, executed>>
      /\ p \in Threads /\ p \notin Consumers
      /\ pc \in [Threads -> {"absent", "lost", "loop", "signal", "count",
                             "work"}]
      /\ pc[p] = "loop"
      /\ i[p] \in 1 .. LOOP
  BY <1>1, ProdConsAssumption DEF Put, main_vars, TypeOK, Threads
<1>3. CASE full
  <2>1. UNCHANGED <<buf, head, tail, full, empty, pc>>
    BY <1>3 DEF Put, queue_vars
  <2>2. UNCHANGED <<Size, Contents>>
    BY <2>1 DEF Size, Contents
  <2> QED
    BY <1>2, <2>1, <2>2
       DEF OnePlace, Made, Holders, InQueue, CountedOnce, Counted, Workers,
           MainToldLast, Expected
<1>4. CASE ~ full
  <2> DEFINE item == <<p, i[p]>>
  <2>1. /\ queueAdd(item) /\ pc' = [pc EXCEPT ![p] = "signal"]
    BY <1>4 DEF Put, Goto
  <2>2. item \in Items /\ item[1] = p /\ item[2] = i[p]
    BY <1>2 DEF Items
  <2>3. Contents' = Append(Contents, item)
    <3>1. Queue!Put(item)
      BY <1>1, <1>2, <1>4, <2>1, <2>2, AddIsPut
    <3> QED
      BY <3>1 DEF Queue!Put
  <2>4. Size' = Size + 1 /\ Size \in Nat
    BY <1>1, <1>4, <2>1, AddSize, SizeType DEF IInv
  <2>5. /\ \A n \in 1 .. Size : Contents'[n] = Contents[n]
        /\ Contents'[Size + 1] = item
    BY <1>1, <2>2, <2>3, <2>4, ContentsType, AppendProperties
       DEF ContentsOK, Elements
  <2>6. item \notin Made
    BY <1>2, <2>2 DEF Made
  <2>7. Made' = Made \cup {item}
    <3>1. ASSUME NEW x \in Items
          PROVE  x \in Made' <=> x \in Made \/ x = item
      <4>1. x[1] \in Producers /\ x[2] \in 1 .. LOOP /\ x = <<x[1], x[2]>>
        BY DEF Items
      <4>2. CASE x[1] = p
        BY <1>2, <2>1, <2>2, <4>1, <4>2, ProdConsAssumption DEF Made
      <4>3. CASE x[1] # p
        BY <1>2, <2>1, <2>2, <4>1, <4>3 DEF Made, Threads
      <4> QED
        BY <4>2, <4>3
    <3> QED
      BY <2>2, <3>1 DEF Made
  <2>8. Holders' = Holders /\ Workers' = Workers
    BY <1>2, <2>1 DEF Holders, Workers, Threads
  <2> HIDE DEF item
  <2>9. \A n \in 1 .. Size + 1 : n \in 1 .. Size \/ n = Size + 1
    BY <2>4
  <2>10. OnePlace'
    <3>1. \A n \in 1 .. Size' : Contents'[n] \in Made' \ executed'
      BY <1>2, <2>4, <2>5, <2>6, <2>7, <2>9 DEF OnePlace
    <3>2. \A m, n \in 1 .. Size' : m # n => Contents'[m] # Contents'[n]
      BY <2>4, <2>5, <2>6, <2>9 DEF OnePlace
    <3>3. \A c \in Holders' : wf'[c] \in Made' \ executed' /\ ~ InQueue(wf[c])'
      BY <1>2, <2>4, <2>5, <2>6, <2>7, <2>8, <2>9 DEF OnePlace, InQueue
    <3>4. /\ \A c, d \in Holders' : c # d => wf'[c] # wf'[d]
          /\ executed' \subseteq Made'
      BY <1>2, <2>7, <2>8 DEF OnePlace
    <3> QED
      BY <3>1, <3>2, <3>3, <3>4 DEF OnePlace
  <2> QED
    BY <1>2, <2>8, <2>10 DEF CountedOnce, Counted, MainToldLast, Expected
<1> QED
  BY <1>3, <1>4

(* The item that a consumer takes leaves the queue. *)
LEMMA GetPlaces ==
    ASSUME PInv, NEW c \in Consumers, Get(c)
    PROVE  OnePlace' /\ CountedOnce' /\ MainToldLast'
<1> USE DEF PInv
<1>1. IInv' /\ TypeOK
  BY GetIInv DEF IInv
<1>2. /\ UNCHANGED <<i, total_consumed, at, executed>>
      /\ c \in Threads /\ c \notin Producers
      /\ pc \in [Threads -> {"absent", "lost", "loop", "signal", "count",
                             "work"}]
      /\ pc[c] = "loop"
  BY <1>1, ProdConsAssumption DEF Get, main_vars, TypeOK, Threads
<1>3. CASE empty
  <2>1. UNCHANGED <<buf, head, tail, full, empty, pc, wf>>
    BY <1>3 DEF Get, queue_vars
  <2>2. UNCHANGED <<Size, Contents>>
    BY <2>1 DEF Size, Contents
  <2> QED
    BY <1>2, <2>1, <2>2
       DEF OnePlace, Made, Holders, InQueue, CountedOnce, Counted, Workers,
           MainToldLast, Expected
<1>4. CASE ~ empty
  <2>1. queueDel(c) /\ pc' = [pc EXCEPT ![c] = "signal"]
    BY <1>4 DEF Get, Goto
  <2>2. /\ Contents # <<>> /\ Contents' = Tail(Contents)
        /\ wf' = [wf EXCEPT ![c] = Head(Contents)]
    <3>1. Queue!Get(c)
      BY <1>1, <1>4, <2>1, DelIsGet
    <3> QED
      BY <3>1 DEF Queue!Get
  <2>3. Size' = Size - 1 /\ Size \in Nat \ {0}
    BY <1>1, <1>4, <2>1, DelSize, SizeType DEF IInv
  <2>4. /\ \A n \in 1 .. Size' : n + 1 \in 1 .. Size
                                 /\ Contents'[n] = Contents[n + 1]
        /\ 1 \in 1 .. Size
        /\ Head(Contents) = Contents[1]
    BY <1>1, <2>2, <2>3, ContentsType, HeadTailProperties DEF ContentsOK
  <2>5. /\ wf'[c] = Contents[1]
        /\ \A d \in Consumers : d # c => wf'[d] = wf[d]
    BY <1>1, <2>2, <2>4 DEF TypeOK
  <2>6. /\ Holders' = Holders \cup {c} /\ c \notin Holders
        /\ Workers' = Workers /\ c \notin Workers
    BY <1>2, <2>1 DEF Holders, Workers, Threads
  <2>7. Made' = Made
    BY <1>2, <2>1 DEF Made, Items, Threads
  <2>8. OnePlace'
    <3>1. \A n \in 1 .. Size' : Contents'[n] \in Made' \ executed'
      BY <1>2, <2>4, <2>7 DEF OnePlace
    <3>2. \A m, n \in 1 .. Size' : m # n => Contents'[m] # Contents'[n]
      <4>1. \A m, n \in 1 .. Size' : m # n => m + 1 # n + 1
        BY <2>3
      <4> QED
        BY <2>4, <4>1 DEF OnePlace
    <3>3. ~ InQueue(wf[c])'
      <4>1. \A n \in 1 .. Size' : n + 1 # 1
        BY <2>3
      <4> QED
        BY <2>4, <2>5, <4>1 DEF OnePlace, InQueue
    <3>4. \A d \in Holders : wf'[d] = wf[d] /\ ~ InQueue(wf[d])'
      BY <2>4, <2>5, <2>6 DEF OnePlace, InQueue, Holders
    <3>5. \A d \in Holders' : wf'[d] \in Made' \ executed'
      BY <1>2, <2>4, <2>5, <2>6, <2>7, <3>4 DEF OnePlace
    <3>6. \A d \in Holders : wf'[d] # wf'[c]
      BY <2>4, <2>5, <3>4 DEF OnePlace, InQueue
    <3>7. \A d, e \in Holders' : d # e => wf'[d] # wf'[e]
      BY <2>6, <3>4, <3>6 DEF OnePlace
    <3>8. executed' \subseteq Made'
      BY <1>2, <2>7 DEF OnePlace
    <3> QED
      BY <2>6, <3>1, <3>2, <3>3, <3>4, <3>5, <3>7, <3>8 DEF OnePlace
  <2>9. Counted' = Counted
    BY <1>2, <2>5, <2>6 DEF Counted, Workers
  <2> QED
    BY <1>2, <2>8, <2>9 DEF CountedOnce, MainToldLast, Expected
<1> QED
  BY <1>3, <1>4

(* The steps by which an item stays where it is. *)
LEMMA StillPlaces ==
    ASSUME PInv,
           \/ \E p \in Producers : SignalNotEmpty(p)
           \/ \E c \in Consumers : SignalNotFull(c)
           \/ \E t \in Threads : Create(t)
           \/ Created \/ MainWait \/ DestroyBlocks
           \/ queueDelete \/ Exit \/ Crash
           \/ SpuriousWakeup \/ UNCHANGED vars
    PROVE  OnePlace' /\ CountedOnce' /\ MainToldLast'
<1> USE DEF PInv, IInv
<1>1. UNCHANGED <<buf, head, tail, full, empty, wf, total_consumed, executed>>
  BY DEF SignalNotEmpty, SignalNotFull, Create, Created, MainWait,
         DestroyBlocks, queueDelete, Exit, Crash, MainStep, SpuriousWakeup,
         vars, queue_vars
<1>2. UNCHANGED <<Size, Contents>>
  BY <1>1 DEF Size, Contents
<1>3. Made' = Made
  <2>1. ASSUME NEW p \in Producers, SignalNotEmpty(p)
        PROVE  Made' = Made
    <3>1. /\ i[p] \in Nat /\ i'[p] = i[p] + 1
          /\ pc[p] = "signal" /\ pc'[p] = "loop"
          /\ \A q \in Producers : q # p => pc'[q] = pc[q] /\ i'[q] = i[q]
      BY <2>1 DEF SignalNotEmpty, Goto, TypeOK, Threads
    <3>2. ASSUME NEW x \in Items
          PROVE  x \in Made' <=> x \in Made
      <4>1. x[1] \in Producers /\ x[2] \in Nat
        BY DEF Items
      <4>2. CASE x[1] = p
        BY <3>1, <4>1, <4>2 DEF Made
      <4>3. CASE x[1] # p
        BY <3>1, <4>1, <4>3 DEF Made
      <4> QED
        BY <4>2, <4>3
    <3> QED
      BY <3>2 DEF Made
  <2>2. ASSUME NEW c \in Consumers, SignalNotFull(c)
        PROVE  Made' = Made
    BY <2>2, ProdConsAssumption
       DEF SignalNotFull, Goto, Made, Items, Threads, TypeOK
  <2>3. ASSUME NEW t \in Threads, Create(t)
        PROVE  Made' = Made
    BY <2>3 DEF Create, Goto, Made, Items, Threads, TypeOK
  <2>4. ASSUME \/ Created \/ MainWait \/ DestroyBlocks
               \/ queueDelete \/ Exit \/ Crash
               \/ SpuriousWakeup \/ UNCHANGED vars
        PROVE  Made' = Made
    BY <2>4 DEF Created, MainWait, DestroyBlocks, queueDelete, Exit, Crash,
                MainStep,
                SpuriousWakeup, vars, Made
  <2> QED
    BY <2>1, <2>2, <2>3, <2>4
<1>4. Holders' = Holders /\ Workers' = Workers
  BY ProdConsAssumption
     DEF SignalNotEmpty, SignalNotFull, Create, Created, MainWait,
         DestroyBlocks, queueDelete, Exit, Crash, MainStep, SpuriousWakeup,
         vars, Goto,
         Holders, Workers, Threads, TypeOK
<1>5. OnePlace'
  BY <1>1, <1>2, <1>3, <1>4 DEF OnePlace, InQueue
<1>6. CountedOnce'
  BY <1>1, <1>4 DEF CountedOnce, Counted
<1>7. MainToldLast'
  BY <1>1 DEF MainToldLast, Expected, SignalNotEmpty, SignalNotFull, Create,
              Created, MainWait, DestroyBlocks, queueDelete, Exit, Crash,
              MainStep,
              SpuriousWakeup, vars, main_vars
<1> QED
  BY <1>5, <1>6, <1>7

(* An item is counted when it is in the hands of one consumer. *)
LEMMA CountPlaces ==
    ASSUME PInv, NEW c \in Consumers, Count(c)
    PROVE  OnePlace' /\ CountedOnce' /\ MainToldLast'
<1> USE DEF PInv, IInv
<1>1. /\ UNCHANGED <<buf, head, tail, full, empty, i, wf, at, executed>>
      /\ total_consumed' = total_consumed + 1
      /\ pc[c] = "count" /\ pc' = [pc EXCEPT ![c] = "work"]
  BY DEF Count, Goto, queue_vars
<1>2. UNCHANGED <<Size, Contents>>
  BY <1>1 DEF Size, Contents
<1>3. /\ Made' = Made /\ Holders' = Holders /\ c \in Holders
      /\ Workers' = Workers \cup {c} /\ c \notin Workers
  BY <1>1, ProdConsAssumption
     DEF Made, Items, Holders, Workers, Threads, TypeOK
<1>4. OnePlace'
  BY <1>1, <1>2, <1>3 DEF OnePlace, InQueue
<1>5. Counted' = Counted \cup {wf[c]} /\ wf[c] \notin Counted
  <2>1. \A d \in Workers : d \in Holders /\ d # c
    BY <1>3 DEF Workers, Holders
  <2> QED
    BY <1>1, <1>3, <2>1 DEF Counted, OnePlace
<1>6. Cardinality(Counted') = Cardinality(Counted) + 1
  BY <1>5, CountedFinite, FS_AddElement
<1>7. CountedOnce'
  BY <1>1, <1>6 DEF CountedOnce
<1>8. MainToldLast'
  <2>1. Expected \in Nat /\ Expected' = Expected
    BY ItemsFinite, FS_CardinalityType DEF Expected
  <2>2. total_consumed \in Nat
    BY DEF TypeOK
  <2> QED
    BY <1>1, <2>1, <2>2 DEF MainToldLast
<1> QED
  BY <1>4, <1>7, <1>8

(* Its work moves it from those hands to the executed items. *)
LEMMA WorkPlaces ==
    ASSUME PInv, NEW c \in Consumers, Work(c)
    PROVE  OnePlace' /\ CountedOnce' /\ MainToldLast'
<1> USE DEF PInv, IInv
<1>1. /\ UNCHANGED <<buf, head, tail, full, empty, i, wf, at, total_consumed>>
      /\ executed' = executed \cup {wf[c]}
      /\ pc[c] = "work" /\ pc' = [pc EXCEPT ![c] = "loop"]
  BY DEF Work, Goto, queue_vars, main_vars
<1>2. UNCHANGED <<Size, Contents>>
  BY <1>1 DEF Size, Contents
<1>3. /\ Made' = Made
      /\ Holders' = Holders \ {c} /\ c \in Holders
      /\ Workers' = Workers \ {c} /\ c \in Workers
  BY <1>1, ProdConsAssumption
     DEF Made, Items, Holders, Workers, Threads, TypeOK
<1>4. OnePlace'
  BY <1>1, <1>2, <1>3 DEF OnePlace, InQueue
<1>5. Counted' = Counted
  BY <1>1, <1>3 DEF Counted
<1> QED
  BY <1>1, <1>4, <1>5 DEF CountedOnce, MainToldLast, Expected

LEMMA InitPlaces == Init => PInv
<1> SUFFICES ASSUME Init PROVE PInv
  OBVIOUS
<1>1. IInv /\ Size = 0
  BY InitIInv DEF Init, Size
<1>2. OnePlace /\ Counted = {}
  BY <1>1 DEF Init, OnePlace, Holders, Workers, Counted, Threads
<1>3. CountedOnce
  BY <1>2, FS_EmptySet DEF CountedOnce, Init
<1> QED
  BY <1>1, <1>2, <1>3 DEF PInv, MainToldLast, Init

(* When main deletes the queue all is counted: the queue is empty, and     *)
(* every item has been executed or is with a consumer that has counted it. *)
THEOREM CountedBeforeDelete == Spec => []DeletedWhenCounted
<1>1. PInv /\ [Next]_vars => PInv'
  <2> SUFFICES ASSUME PInv, [Next]_vars PROVE PInv'
    OBVIOUS
  <2>1. IInv'
    BY NextIInv DEF PInv
  <2>2. OnePlace' /\ CountedOnce' /\ MainToldLast'
    BY PutPlaces, GetPlaces, StillPlaces, CountPlaces, WorkPlaces
       DEF Next, ProducerStep, ConsumerStep, Ended
  <2> QED
    BY <2>1, <2>2 DEF PInv
<1>2. PInv => DeletedWhenCounted
  <2> SUFFICES ASSUME PInv, at \in {"delete", "blocked", "deleted"}
               PROVE  /\ Size = 0
                      /\ total_consumed = Expected
                      /\ executed \cup InFlight = Items
                      /\ \A c \in Consumers : pc[c] \notin {"signal", "count"}
    BY DEF DeletedWhenCounted
  <2> USE DEF PInv
  <2>1. total_consumed = Expected /\ Counted = Items
    <3>1. Expected \in Nat
      BY ItemsFinite, FS_CardinalityType
    <3> QED
      BY <3>1, CountedFinite DEF CountedOnce, MainToldLast
  <2>2. Made \subseteq Items
    BY DEF Made
  <2>3. Size = 0
    <3>1. Size \in Nat
      BY SizeType DEF IInv
    <3>2. \A n \in 1 .. Size : Contents[n] \in Items \ Counted
      BY <2>2 DEF OnePlace, Counted, Workers, Holders, InQueue
    <3>3. ~ (1 \in 1 .. Size)
      BY <2>1, <3>2
    <3> QED
      BY <3>1, <3>3
  <2>4. ASSUME NEW c \in Consumers, pc[c] \in {"signal", "count"}
        PROVE  FALSE
    <3>1. c \in Holders /\ \A d \in Workers : d \in Holders /\ d # c
      BY <2>4 DEF Holders, Workers
    <3>2. wf[c] \in Items \ Counted
      BY <2>2, <3>1 DEF OnePlace, Counted
    <3> QED
      BY <2>1, <3>2
  <2>5. executed \cup InFlight = Items
    BY <2>1, <2>2 DEF InFlight, Counted, Workers, Holders, OnePlace
  <2> QED
    BY <2>1, <2>3, <2>4, <2>5
<1> QED
  BY <1>1, <1>2, InitPlaces, PTL DEF Spec
=============================================================================
