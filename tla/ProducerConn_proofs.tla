------------------------- MODULE ProducerConn_proofs -------------------------
(***************************************************************************)
(* Proofs about ProducerConn, for every number of connections, every delay *)
(* and every number of failures of the network.                            *)
(*                                                                         *)
(* The conjunction of the three invariants is inductive: a callback that   *)
(* hears of a connection gone clears current_wsi whichever connection it   *)
(* was, and asks for a new one in the same step; one that ignores the      *)
(* report changes nothing, so that the pointer it leaves is still watched. *)
(***************************************************************************)
EXTENDS ProducerConn, TLAPS

IInv ==
    /\ TypeOK
    /\ DanglesOnlyUnseen
    /\ NeverAbandoned

LEMMA InitIInv == Init => IInv
<1> SUFFICES ASSUME Init PROVE IInv
  OBVIOUS
<1> USE ConnsAssumption, DelaysAssumption DEF Init, NoSnapshot
<1>1. TypeOK
  <2>1. /\ at \in {"connect", "loop", "watchdog", "reconnect", "sleep",
                    "service", "ended", "crashed"}
        /\ keep_running \in BOOLEAN
        /\ current_wsi \in Conns \cup {NoConn}
        /\ needs_reconnect \in BOOLEAN
    BY DEF Statuses, Unset
  <2>2. local \in [wsi : Conns \cup {NoConn}, stalled : BOOLEAN,
                   needs_reconnect : BOOLEAN]
    BY DEF Statuses, Unset
  <2>3. /\ rx_age \in 0 .. RX_STALL_TIMEOUT_SEC + 1
        /\ sleep \in 0 .. RECONNECT_DELAY_SEC
        /\ failures \in 0 .. MaxFailures
    BY DEF Statuses, Unset
  <2>4. /\ status \in [Conns -> Statuses]
        /\ timer \in [Conns -> Unset .. CLOSE_TIMEOUT_SEC]
    BY DEF Statuses, Unset
  <2> QED
    BY <2>1, <2>2, <2>3, <2>4 DEF TypeOK
<1>2. DanglesOnlyUnseen /\ NeverAbandoned
  BY DEF DanglesOnlyUnseen, NeverAbandoned
<1> QED
  BY <1>1, <1>2 DEF IInv

-----------------------------------------------------------------------------
(***************************************************************************)
(* One lemma for each action.                                              *)
(***************************************************************************)
LEMMA FirstConnectIInv ==
    ASSUME IInv, FirstConnect
    PROVE  IInv'
<1> USE ConnsAssumption, DelaysAssumption DEF IInv, TypeOK, Statuses, Unset,
        FirstConnect, Dialled, DialFailed, Failure, Live, InState, lws_vars
<1>1. TypeOK'
  <2>1. /\ at' \in {"connect", "loop", "watchdog", "reconnect", "sleep",
                    "service", "ended", "crashed"}
        /\ keep_running' \in BOOLEAN
        /\ current_wsi' \in Conns \cup {NoConn}
        /\ needs_reconnect' \in BOOLEAN
    OBVIOUS
  <2>2. local' \in [wsi : Conns \cup {NoConn}, stalled : BOOLEAN,
                   needs_reconnect : BOOLEAN]
    OBVIOUS
  <2>3. /\ rx_age' \in 0 .. RX_STALL_TIMEOUT_SEC + 1
        /\ sleep' \in 0 .. RECONNECT_DELAY_SEC
        /\ failures' \in 0 .. MaxFailures
    OBVIOUS
  <2>4. /\ status' \in [Conns -> Statuses]
        /\ timer' \in [Conns -> Unset .. CLOSE_TIMEOUT_SEC]
    OBVIOUS
  <2> QED
    BY <2>1, <2>2, <2>3, <2>4
<1>2. DanglesOnlyUnseen'
  BY DEF DanglesOnlyUnseen
<1>3. NeverAbandoned'
  BY DEF NeverAbandoned, InState
<1> QED
  BY <1>1, <1>2, <1>3

LEMMA TakeSnapshotIInv ==
    ASSUME IInv, TakeSnapshot
    PROVE  IInv'
<1> USE ConnsAssumption, DelaysAssumption DEF IInv, TypeOK, Statuses, Unset,
        TakeSnapshot, env_vars, state_vars, lws_vars
<1>1. TypeOK'
  OBVIOUS
<1>2. DanglesOnlyUnseen'
  BY DEF DanglesOnlyUnseen
<1>3. NeverAbandoned'
  BY DEF NeverAbandoned, InState
<1> QED
  BY <1>1, <1>2, <1>3

LEMMA LeaveIInv ==
    ASSUME IInv, Leave
    PROVE  IInv'
<1> USE ConnsAssumption, DelaysAssumption DEF IInv, TypeOK, Statuses, Unset,
        Leave, env_vars, state_vars
<1>1. TypeOK'
  OBVIOUS
<1>2. DanglesOnlyUnseen'
  BY DEF DanglesOnlyUnseen
<1>3. NeverAbandoned'
  BY DEF NeverAbandoned, InState
<1> QED
  BY <1>1, <1>2, <1>3

LEMMA WatchdogIInv ==
    ASSUME IInv, Watchdog
    PROVE  IInv'
<1> USE ConnsAssumption, DelaysAssumption DEF IInv, TypeOK, Statuses, Unset,
        Watchdog, CloseSoon, Live, env_vars
<1>1. TypeOK'
  <2>1. /\ at' \in {"connect", "loop", "watchdog", "reconnect", "sleep",
                    "service", "ended", "crashed"}
        /\ keep_running' \in BOOLEAN
        /\ current_wsi' \in Conns \cup {NoConn}
        /\ needs_reconnect' \in BOOLEAN
    OBVIOUS
  <2>2. local' \in [wsi : Conns \cup {NoConn}, stalled : BOOLEAN,
                   needs_reconnect : BOOLEAN]
    OBVIOUS
  <2>3. /\ rx_age' \in 0 .. RX_STALL_TIMEOUT_SEC + 1
        /\ sleep' \in 0 .. RECONNECT_DELAY_SEC
        /\ failures' \in 0 .. MaxFailures
    OBVIOUS
  <2>4. /\ status' \in [Conns -> Statuses]
        /\ timer' \in [Conns -> Unset .. CLOSE_TIMEOUT_SEC]
    OBVIOUS
  <2> QED
    BY <2>1, <2>2, <2>3, <2>4
<1>2. DanglesOnlyUnseen'
  BY DEF DanglesOnlyUnseen
<1>3. NeverAbandoned'
  BY DEF NeverAbandoned, InState
<1> QED
  BY <1>1, <1>2, <1>3

LEMMA ReconnectIInv ==
    ASSUME IInv, Reconnect
    PROVE  IInv'
<1> USE ConnsAssumption, DelaysAssumption DEF IInv, TypeOK, Statuses, Unset,
        Reconnect, NoSnapshot, env_vars, lws_vars
<1>1. TypeOK'
  <2>1. /\ at' \in {"connect", "loop", "watchdog", "reconnect", "sleep",
                    "service", "ended", "crashed"}
        /\ keep_running' \in BOOLEAN
        /\ current_wsi' \in Conns \cup {NoConn}
        /\ needs_reconnect' \in BOOLEAN
    OBVIOUS
  <2>2. local' \in [wsi : Conns \cup {NoConn}, stalled : BOOLEAN,
                   needs_reconnect : BOOLEAN]
    OBVIOUS
  <2>3. /\ rx_age' \in 0 .. RX_STALL_TIMEOUT_SEC + 1
        /\ sleep' \in 0 .. RECONNECT_DELAY_SEC
        /\ failures' \in 0 .. MaxFailures
    OBVIOUS
  <2>4. /\ status' \in [Conns -> Statuses]
        /\ timer' \in [Conns -> Unset .. CLOSE_TIMEOUT_SEC]
    OBVIOUS
  <2> QED
    BY <2>1, <2>2, <2>3, <2>4
<1>2. DanglesOnlyUnseen'
  BY DEF DanglesOnlyUnseen
<1>3. NeverAbandoned'
  BY DEF NeverAbandoned, InState
<1> QED
  BY <1>1, <1>2, <1>3

LEMMA SleepIInv ==
    ASSUME IInv, Sleep
    PROVE  IInv'
<1> USE ConnsAssumption, DelaysAssumption DEF IInv, TypeOK, Statuses, Unset,
        Sleep, SecondPasses, Older, env_vars
<1>1. TypeOK'
  OBVIOUS
<1>2. DanglesOnlyUnseen'
  BY DEF DanglesOnlyUnseen
<1>3. NeverAbandoned'
  BY DEF NeverAbandoned, InState
<1> QED
  BY <1>1, <1>2, <1>3

LEMMA RedialIInv ==
    ASSUME IInv, Redial
    PROVE  IInv'
<1> USE ConnsAssumption, DelaysAssumption DEF IInv, TypeOK, Statuses, Unset,
        Redial, Dialled, DialFailed, Failure, Live, InState, state_vars,
        lws_vars
<1>1. TypeOK'
  <2>1. /\ at' \in {"connect", "loop", "watchdog", "reconnect", "sleep",
                    "service", "ended", "crashed"}
        /\ keep_running' \in BOOLEAN
        /\ current_wsi' \in Conns \cup {NoConn}
        /\ needs_reconnect' \in BOOLEAN
    OBVIOUS
  <2>2. local' \in [wsi : Conns \cup {NoConn}, stalled : BOOLEAN,
                   needs_reconnect : BOOLEAN]
    OBVIOUS
  <2>3. /\ rx_age' \in 0 .. RX_STALL_TIMEOUT_SEC + 1
        /\ sleep' \in 0 .. RECONNECT_DELAY_SEC
        /\ failures' \in 0 .. MaxFailures
    OBVIOUS
  <2>4. /\ status' \in [Conns -> Statuses]
        /\ timer' \in [Conns -> Unset .. CLOSE_TIMEOUT_SEC]
    OBVIOUS
  <2> QED
    BY <2>1, <2>2, <2>3, <2>4
<1>2. DanglesOnlyUnseen'
  BY DEF DanglesOnlyUnseen
<1>3. NeverAbandoned'
  BY DEF NeverAbandoned, InState
<1> QED
  BY <1>1, <1>2, <1>3

LEMMA ServiceReturnsIInv ==
    ASSUME IInv, ServiceReturns
    PROVE  IInv'
<1> USE ConnsAssumption, DelaysAssumption DEF IInv, TypeOK, Statuses, Unset,
        ServiceReturns, env_vars, state_vars, lws_vars
<1>1. TypeOK'
  OBVIOUS
<1>2. DanglesOnlyUnseen'
  BY DEF DanglesOnlyUnseen
<1>3. NeverAbandoned'
  BY DEF NeverAbandoned, InState
<1> QED
  BY <1>1, <1>2, <1>3

LEMMA EstablishedIInv ==
    ASSUME IInv, NEW c \in Conns, Established(c)
    PROVE  IInv'
<1> USE ConnsAssumption, DelaysAssumption DEF IInv, TypeOK, Statuses, Unset,
        Established, env_vars
<1>1. TypeOK'
  <2>1. /\ at' \in {"connect", "loop", "watchdog", "reconnect", "sleep",
                    "service", "ended", "crashed"}
        /\ keep_running' \in BOOLEAN
        /\ current_wsi' \in Conns \cup {NoConn}
        /\ needs_reconnect' \in BOOLEAN
    OBVIOUS
  <2>2. local' \in [wsi : Conns \cup {NoConn}, stalled : BOOLEAN,
                   needs_reconnect : BOOLEAN]
    OBVIOUS
  <2>3. /\ rx_age' \in 0 .. RX_STALL_TIMEOUT_SEC + 1
        /\ sleep' \in 0 .. RECONNECT_DELAY_SEC
        /\ failures' \in 0 .. MaxFailures
    OBVIOUS
  <2>4. /\ status' \in [Conns -> Statuses]
        /\ timer' \in [Conns -> Unset .. CLOSE_TIMEOUT_SEC]
    OBVIOUS
  <2> QED
    BY <2>1, <2>2, <2>3, <2>4
<1>2. DanglesOnlyUnseen'
  BY DEF DanglesOnlyUnseen
<1>3. NeverAbandoned'
  BY DEF NeverAbandoned, InState
<1> QED
  BY <1>1, <1>2, <1>3

LEMMA ReceiveIInv ==
    ASSUME IInv, NEW c \in Conns, Receive(c)
    PROVE  IInv'
<1> USE ConnsAssumption, DelaysAssumption DEF IInv, TypeOK, Statuses, Unset,
        Receive, env_vars, lws_vars
<1>1. TypeOK'
  OBVIOUS
<1>2. DanglesOnlyUnseen'
  BY DEF DanglesOnlyUnseen
<1>3. NeverAbandoned'
  BY DEF NeverAbandoned, InState
<1> QED
  BY <1>1, <1>2, <1>3

LEMMA ConnectionErrorIInv ==
    ASSUME IInv, NEW c \in Conns, ConnectionError(c)
    PROVE  IInv'
<1> USE ConnsAssumption, DelaysAssumption DEF IInv, TypeOK, Statuses, Unset,
        ConnectionError, Gone, Failure
<1>1. TypeOK'
  OBVIOUS
<1>2. DanglesOnlyUnseen'
  BY DEF DanglesOnlyUnseen
<1>3. NeverAbandoned'
  BY DEF NeverAbandoned, InState
<1> QED
  BY <1>1, <1>2, <1>3

LEMMA ClosedIInv ==
    ASSUME IInv, NEW c \in Conns, Closed(c)
    PROVE  IInv'
<1> USE ConnsAssumption, DelaysAssumption DEF IInv, TypeOK, Statuses, Unset,
        Closed, Closes, Gone, Failure
<1>1. TypeOK'
  OBVIOUS
<1>2. DanglesOnlyUnseen'
  BY DEF DanglesOnlyUnseen
<1>3. NeverAbandoned'
  BY DEF NeverAbandoned, InState
<1> QED
  BY <1>1, <1>2, <1>3

LEMMA ClientClosedIInv ==
    ASSUME IInv, NEW c \in Conns, ClientClosed(c)
    PROVE  IInv'
<1> USE ConnsAssumption, DelaysAssumption DEF IInv, TypeOK, Statuses, Unset,
        ClientClosed, Closes, Failure, state_vars
<1>1. TypeOK'
  OBVIOUS
<1>2. DanglesOnlyUnseen'
  BY DEF DanglesOnlyUnseen
<1>3. NeverAbandoned'
  BY DEF NeverAbandoned, InState
<1> QED
  BY <1>1, <1>2, <1>3

LEMMA DieIInv ==
    ASSUME IInv, NEW c \in Conns, Die(c)
    PROVE  IInv'
<1> USE ConnsAssumption, DelaysAssumption DEF IInv, TypeOK, Statuses, Unset,
        Die, Failure, state_vars
<1>1. TypeOK'
  OBVIOUS
<1>2. DanglesOnlyUnseen'
  BY DEF DanglesOnlyUnseen
<1>3. NeverAbandoned'
  BY DEF NeverAbandoned, InState
<1> QED
  BY <1>1, <1>2, <1>3

LEMMA WaitIInv ==
    ASSUME IInv, Wait
    PROVE  IInv'
<1> USE ConnsAssumption, DelaysAssumption DEF IInv, TypeOK, Statuses, Unset,
        Wait, SecondPasses, Older, Failure, InState
<1>1. TypeOK'
  OBVIOUS
<1>2. DanglesOnlyUnseen'
  BY DEF DanglesOnlyUnseen
<1>3. NeverAbandoned'
  BY DEF NeverAbandoned, InState
<1> QED
  BY <1>1, <1>2, <1>3

LEMMA ShutdownIInv ==
    ASSUME IInv, Shutdown
    PROVE  IInv'
<1> USE ConnsAssumption, DelaysAssumption DEF IInv, TypeOK, Statuses, Unset,
        Shutdown, state_vars, lws_vars
<1>1. TypeOK'
  OBVIOUS
<1>2. DanglesOnlyUnseen'
  BY DEF DanglesOnlyUnseen
<1>3. NeverAbandoned'
  BY DEF NeverAbandoned, InState
<1> QED
  BY <1>1, <1>2, <1>3

(* Every step of the producer preserves the invariant. *)
LEMMA NextIInv ==
    ASSUME IInv, [Next]_vars
    PROVE  IInv'
<1>1. CASE LoopStep
  BY <1>1, FirstConnectIInv, TakeSnapshotIInv, LeaveIInv, WatchdogIInv,
     ReconnectIInv, SleepIInv, RedialIInv DEF LoopStep
<1>2. CASE ServiceReturns
  BY <1>2, ServiceReturnsIInv
<1>3. ASSUME NEW c \in Conns, Callback(c) \/ Die(c)
      PROVE  IInv'
  BY <1>3, EstablishedIInv, ReceiveIInv, ConnectionErrorIInv, ClosedIInv,
     ClientClosedIInv, DieIInv DEF Callback
<1>4. CASE Wait
  BY <1>4, WaitIInv
<1>5. CASE Shutdown
  BY <1>5, ShutdownIInv
<1>6. CASE UNCHANGED vars
  BY <1>6 DEF vars, env_vars, state_vars, lws_vars, IInv, TypeOK,
              DanglesOnlyUnseen, NeverAbandoned, InState
<1> QED
  BY <1>1, <1>2, <1>3, <1>4, <1>5, <1>6 DEF Next, Ended
-----------------------------------------------------------------------------
(* The three invariants together hold in every reachable state. *)
THEOREM Invariance == Spec => []IInv
BY InitIInv, NextIInv, PTL DEF Spec

(* Every variable of the producer keeps its type. *)
THEOREM TypeCorrect == Spec => []TypeOK
<1>1. IInv => TypeOK
  BY DEF IInv
<1> QED
  BY <1>1, Invariance, PTL

(* Whichever reasons lws reports, current_wsi is left pointing to a        *)
(* connection that is gone only by a closure the callback ignores.         *)
THEOREM OnlyUnseenDangles == Spec => []DanglesOnlyUnseen
<1>1. IInv => DanglesOnlyUnseen
  BY DEF IInv
<1> QED
  BY <1>1, Invariance, PTL

(* While the process runs, no failure leaves it without a connection and   *)
(* with nobody to ask for one.                                             *)
THEOREM AlwaysInCharge == Spec => []NeverAbandoned
<1>1. IInv => NeverAbandoned
  BY DEF IInv
<1> QED
  BY <1>1, Invariance, PTL
-----------------------------------------------------------------------------
(***************************************************************************)
(* A library that reports every closure of a client as LWS_CALLBACK_CLOSED *)
(***************************************************************************)
AllSeen ==
    /\ \A c \in Conns : status[c] # "unseen"
    /\ at # "crashed"

LEMMA AllSeenNext ==
    ASSUME "CLIENT_CLOSED" \notin ClosureReasons, IInv, AllSeen, [Next]_vars
    PROVE  AllSeen'
<1> USE DEF IInv, TypeOK, AllSeen
<1>1. CASE LoopStep
  <2>1. CASE FirstConnect
    BY <2>1 DEF FirstConnect, Dialled, DialFailed, lws_vars
  <2>2. CASE TakeSnapshot
    BY <2>2 DEF TakeSnapshot, lws_vars
  <2>3. CASE Leave
    BY <2>3 DEF Leave
  <2>4. CASE Watchdog
    BY <2>4 DEF Watchdog, CloseSoon, Live, DanglesOnlyUnseen
  <2>5. CASE Reconnect
    BY <2>5 DEF Reconnect, lws_vars
  <2>6. CASE Sleep
    BY <2>6 DEF Sleep
  <2>7. CASE Redial
    BY <2>7 DEF Redial, Dialled, DialFailed, lws_vars
  <2> QED
    BY <1>1, <2>1, <2>2, <2>3, <2>4, <2>5, <2>6, <2>7 DEF LoopStep
<1>2. CASE ServiceReturns
  BY <1>2 DEF ServiceReturns, lws_vars
<1>3. ASSUME NEW c \in Conns, Callback(c) \/ Die(c)
      PROVE  AllSeen'
  BY <1>3 DEF Callback, Established, Receive, ConnectionError, Closed,
              ClientClosed, Gone, Die, lws_vars
<1>4. CASE Wait
  BY <1>4 DEF Wait
<1>5. CASE Shutdown
  BY <1>5 DEF Shutdown, lws_vars
<1>6. CASE UNCHANGED vars
  BY <1>6 DEF vars, lws_vars
<1> QED
  BY <1>1, <1>2, <1>3, <1>4, <1>5, <1>6 DEF Next, Ended

(* With a library that never uses the reason the callback ignores, the     *)
(* pointer never dangles and the watchdog never touches freed memory:      *)
(* nothing else in the producer is at fault.                               *)
THEOREM SafeIfTold ==
    ASSUME "CLIENT_CLOSED" \notin ClosureReasons
    PROVE  Spec => [](NoDanglingWsi /\ at # "crashed")
<1>1. Init => AllSeen
  BY DEF Init, AllSeen
<1>2. IInv /\ AllSeen /\ [Next]_vars => AllSeen'
  BY AllSeenNext
<1>3. IInv /\ AllSeen => NoDanglingWsi /\ at # "crashed"
  BY DEF IInv, TypeOK, AllSeen, DanglesOnlyUnseen, NoDanglingWsi, Live
<1> QED
  BY <1>1, <1>2, <1>3, Invariance, PTL DEF Spec
=============================================================================
