---------------------------- MODULE ProducerConn ----------------------------
(***************************************************************************)
(* The connection of the producer (Final_Project/src/producer.c): the      *)
(* event loop with its receive-stall watchdog and its reconnection, and    *)
(* the callback through which libwebsockets reports what happens to each   *)
(* connection.  Several connections may exist at once; the code knows of   *)
(* one, current_wsi.                                                       *)
(*                                                                         *)
(* lws runs the callbacks inside lws_service, on the producer's own        *)
(* thread: none comes between two statements of the loop body.  The unit   *)
(* of time is the second of time().  Time passes in sleep() and in         *)
(* lws_service, where a callback may push to a full ring and block for as  *)
(* long as it stays full; the other statements of the loop take none.      *)
(*                                                                         *)
(* The callback handles LWS_CALLBACK_CLOSED, the reason under which lws    *)
(* once reported the closure of a client.  Since 3.0 it reports it under   *)
(* LWS_CALLBACK_CLIENT_CLOSED, which the callback ignores.  The build      *)
(* takes whichever lws is installed: ClosureReasons.                       *)
(***************************************************************************)
EXTENDS Integers, FiniteSets

CONSTANTS Conns,                 \* bound: the connections lws can hold
          NoConn,                \* a NULL struct lws *
          RX_STALL_TIMEOUT_SEC,
          RECONNECT_DELAY_SEC,
          CLOSE_TIMEOUT_SEC,     \* the last argument of lws_set_timeout
          ClosureReasons,        \* under which lws reports a client's closure
          MaxFailures            \* bound: the failures of the network

ASSUME ConnsAssumption == NoConn \notin Conns

ASSUME DelaysAssumption ==
    /\ RX_STALL_TIMEOUT_SEC \in Nat
    /\ RECONNECT_DELAY_SEC \in Nat
    /\ CLOSE_TIMEOUT_SEC \in Nat
    /\ MaxFailures \in Nat

ASSUME ReasonsAssumption == ClosureReasons \subseteq {"CLOSED", "CLIENT_CLOSED"}

VARIABLES at,               \* the position of producer_thread
          keep_running,
          current_wsi,
          needs_reconnect,
          rx_age,           \* now - last_rx_ts, up to just over the timeout
          local,            \* the loop's snapshot of the state
          sleep,            \* the seconds left of sleep()
          status,           \* status[c]: what has become of connection c
          timer,            \* timer[c]: seconds before lws closes c, or Unset
          failures          \* how often the network has failed

env_vars == <<keep_running, failures>>
state_vars == <<current_wsi, needs_reconnect, rx_age>>
lws_vars == <<status, timer>>
vars == <<at, local, sleep, env_vars, state_vars, lws_vars>>

Unset == -1

Older(age) == IF age > RX_STALL_TIMEOUT_SEC THEN age ELSE age + 1

(* Dead: established, but nothing arrives any more and nobody has said so. *)
(* Unseen: closed and freed, with a report that the callback has ignored.  *)
Statuses == {"free", "unseen", "connecting", "open", "dead"}

InState(s) == {c \in Conns : status[c] = s}

Live(c) == status[c] \notin {"free", "unseen"}

(* The network fails once more. *)
Failure ==
    /\ failures < MaxFailures
    /\ failures' = failures + 1

NoSnapshot ==
    [wsi |-> NoConn, stalled |-> FALSE, needs_reconnect |-> FALSE]

Init ==
    /\ at = "connect"
    /\ keep_running = TRUE
    /\ current_wsi = NoConn
    /\ needs_reconnect = FALSE
    /\ rx_age = 0
    /\ local = NoSnapshot
    /\ sleep = 0
    /\ status = [c \in Conns |-> "free"]
    /\ timer = [c \in Conns |-> Unset]
    /\ failures = 0
-----------------------------------------------------------------------------
(***************************************************************************)
(* producer_thread                                                         *)
(***************************************************************************)
(* lws_client_connect_via_info returns connection c. *)
Dialled(c) ==
    /\ ~ Live(c)
    /\ status' = [status EXCEPT ![c] = "connecting"]
    /\ UNCHANGED <<timer, failures>>

(* It returns NULL.  When no connection is left it can do nothing else. *)
DialFailed ==
    /\ Failure \/ ((\A c \in Conns : Live(c)) /\ UNCHANGED failures)
    /\ UNCHANGED lws_vars

FirstConnect ==
    /\ at = "connect"
    /\ \/ /\ \E c \in Conns : Dialled(c)
          /\ UNCHANGED needs_reconnect
       \/ /\ DialFailed
          /\ needs_reconnect' = TRUE
    /\ at' = "loop"
    /\ UNCHANGED <<keep_running, current_wsi, rx_age, local, sleep>>

(* The condition of the loop, and the snapshot. *)
TakeSnapshot ==
    /\ at = "loop"
    /\ keep_running
    /\ local' = [wsi |-> current_wsi,
                 stalled |-> rx_age > RX_STALL_TIMEOUT_SEC,
                 needs_reconnect |-> needs_reconnect]
    /\ at' = "watchdog"
    /\ UNCHANGED <<sleep, env_vars, state_vars, lws_vars>>

(* lws_context_destroy closes whatever is open. *)
Leave ==
    /\ at = "loop"
    /\ ~ keep_running
    /\ at' = "ended"
    /\ status' = [c \in Conns |-> "free"]
    /\ timer' = [c \in Conns |-> Unset]
    /\ UNCHANGED <<local, sleep, env_vars, state_vars>>

(* lws_set_timeout(current_wsi, ...).  On a connection that lws has freed  *)
(* it writes to freed memory: it has no effect, or the process crashes.    *)
CloseSoon ==
    \/ /\ current_wsi = NoConn \/ ~ Live(current_wsi)
       /\ at' = "reconnect"
       /\ UNCHANGED timer
    \/ /\ current_wsi # NoConn /\ Live(current_wsi)
       /\ timer' = [timer EXCEPT ![current_wsi] = CLOSE_TIMEOUT_SEC]
       /\ at' = "reconnect"
    \/ /\ current_wsi # NoConn /\ ~ Live(current_wsi)
       /\ at' = "crashed"
       /\ UNCHANGED timer

(* The watchdog forgets to ask for a new connection. *)
FaultyWatchdog ==
    /\ at = "watchdog"
    /\ \/ /\ local.wsi # NoConn /\ local.stalled
          /\ CloseSoon
          /\ current_wsi' = NoConn
          /\ UNCHANGED needs_reconnect
       \/ /\ ~ (local.wsi # NoConn /\ local.stalled)
          /\ at' = "reconnect"
          /\ UNCHANGED <<current_wsi, needs_reconnect, timer>>
    /\ UNCHANGED <<rx_age, local, sleep, env_vars, status>>

(* The receive-stall watchdog has lws close the connection a little later, *)
(* and forgets it at once.                                                 *)
Watchdog ==
    /\ at = "watchdog"
    /\ \/ /\ local.wsi # NoConn /\ local.stalled
          /\ needs_reconnect' = TRUE
          /\ CloseSoon
          /\ current_wsi' = NoConn
       \/ /\ ~ (local.wsi # NoConn /\ local.stalled)
          /\ at' = "reconnect"
          /\ UNCHANGED <<current_wsi, needs_reconnect, timer>>
    /\ UNCHANGED <<rx_age, local, sleep, env_vars, status>>

(* The delay is the other constant. *)
FaultyReconnect ==
    /\ at = "reconnect"
    /\ \/ /\ local.needs_reconnect
          /\ needs_reconnect' = FALSE
          /\ sleep' = RX_STALL_TIMEOUT_SEC
          /\ at' = "sleep"
       \/ /\ ~ local.needs_reconnect
          /\ at' = "service"
          /\ UNCHANGED <<needs_reconnect, sleep>>
    /\ local' = NoSnapshot
    /\ UNCHANGED <<env_vars, current_wsi, rx_age, lws_vars>>

(* The snapshot, not the flag, decides: the watchdog's request waits for   *)
(* the next round.  Here the snapshot is used for the last time.           *)
Reconnect ==
    /\ at = "reconnect"
    /\ \/ /\ local.needs_reconnect
          /\ needs_reconnect' = FALSE
          /\ sleep' = RECONNECT_DELAY_SEC
          /\ at' = "sleep"
       \/ /\ ~ local.needs_reconnect
          /\ at' = "service"
          /\ UNCHANGED <<needs_reconnect, sleep>>
    /\ local' = NoSnapshot
    /\ UNCHANGED <<env_vars, current_wsi, rx_age, lws_vars>>

(* The result of the call is not tested. *)
FaultyRedial ==
    /\ at = "sleep" /\ sleep = 0
    /\ \/ /\ keep_running
          /\ \E c \in Conns : Dialled(c) /\ current_wsi' = c
          /\ rx_age' = 0
       \/ /\ keep_running
          /\ DialFailed
          /\ UNCHANGED <<current_wsi, rx_age>>
       \/ /\ ~ keep_running
          /\ UNCHANGED <<current_wsi, rx_age, lws_vars, failures>>
    /\ at' = "service"
    /\ UNCHANGED <<needs_reconnect, local, sleep, keep_running>>

(* The new connection is recorded before it is established. *)
Redial ==
    /\ at = "sleep" /\ sleep = 0
    /\ \/ /\ keep_running
          /\ \E c \in Conns : Dialled(c) /\ current_wsi' = c
          /\ rx_age' = 0
          /\ UNCHANGED needs_reconnect
       \/ /\ keep_running
          /\ DialFailed
          /\ needs_reconnect' = TRUE
          /\ UNCHANGED <<current_wsi, rx_age>>
       \/ /\ ~ keep_running
          /\ UNCHANGED <<state_vars, lws_vars, failures>>
    /\ at' = "service"
    /\ UNCHANGED <<local, sleep, keep_running>>

ServiceReturns ==
    /\ at = "service"
    /\ at' = "loop"
    /\ UNCHANGED <<local, sleep, env_vars, state_vars, lws_vars>>
-----------------------------------------------------------------------------
(***************************************************************************)
(* callback_firehose, called by lws_service                                *)
(***************************************************************************)
(* LWS_CALLBACK_CLIENT_ESTABLISHED *)
Established(c) ==
    /\ at = "service"
    /\ status[c] = "connecting"
    /\ status' = [status EXCEPT ![c] = "open"]
    /\ current_wsi' = c
    /\ rx_age' = 0
    /\ needs_reconnect' = FALSE
    /\ UNCHANGED <<at, local, sleep, env_vars, timer>>

(* LWS_CALLBACK_CLIENT_RECEIVE.  The push is in CircularBuffer. *)
Receive(c) ==
    /\ at = "service"
    /\ status[c] = "open"
    /\ rx_age' = 0
    /\ UNCHANGED <<at, local, sleep, env_vars, current_wsi, needs_reconnect,
                   lws_vars>>

(* The callback leaves the pointer to the connection that is gone. *)
FaultyGone(c) ==
    /\ at = "service"
    /\ status' = [status EXCEPT ![c] = "free"]
    /\ timer' = [timer EXCEPT ![c] = Unset]
    /\ needs_reconnect' = TRUE
    /\ UNCHANGED <<at, local, sleep, keep_running, current_wsi, rx_age>>

(* lws reports that connection c is gone.  Whichever connection it was,    *)
(* the callback forgets the current one and asks for another.              *)
Gone(c) ==
    /\ at = "service"
    /\ status' = [status EXCEPT ![c] = "free"]
    /\ timer' = [timer EXCEPT ![c] = Unset]
    /\ current_wsi' = NoConn
    /\ needs_reconnect' = TRUE
    /\ UNCHANGED <<at, local, sleep, keep_running, rx_age>>

(* LWS_CALLBACK_CLIENT_CONNECTION_ERROR: refused, or timed out. *)
ConnectionError(c) ==
    /\ status[c] = "connecting"
    /\ Failure \/ (timer[c] = 0 /\ UNCHANGED failures)
    /\ Gone(c)

(* lws closes an established connection: the network has failed, or the    *)
(* watchdog's timeout is over.                                             *)
Closes(c) ==
    /\ at = "service"
    /\ status[c] \in {"open", "dead"}
    /\ Failure \/ (timer[c] = 0 /\ UNCHANGED failures)

(* LWS_CALLBACK_CLOSED *)
Closed(c) ==
    /\ "CLOSED" \in ClosureReasons
    /\ Closes(c)
    /\ Gone(c)

(* LWS_CALLBACK_CLIENT_CLOSED falls into default: c is freed, and nothing  *)
(* of the producer's state changes.                                        *)
ClientClosed(c) ==
    /\ "CLIENT_CLOSED" \in ClosureReasons
    /\ Closes(c)
    /\ status' = [status EXCEPT ![c] = "unseen"]
    /\ timer' = [timer EXCEPT ![c] = Unset]
    /\ UNCHANGED <<at, local, sleep, keep_running, state_vars>>

Callback(c) ==
    \/ Established(c) \/ Receive(c)
    \/ ConnectionError(c) \/ Closed(c) \/ ClientClosed(c)
-----------------------------------------------------------------------------
(***************************************************************************)
(* Time, the network and the signal handler                                *)
(***************************************************************************)
SecondPasses ==
    /\ rx_age' = Older(rx_age)
    /\ timer' = [c \in Conns |-> timer[c] - (IF timer[c] > 0 THEN 1 ELSE 0)]

Sleep ==
    /\ at = "sleep" /\ sleep > 0
    /\ SecondPasses
    /\ sleep' = sleep - 1
    /\ UNCHANGED <<at, local, env_vars, current_wsi, needs_reconnect, status>>

(* A second passes in lws_service.  On an open connection messages come    *)
(* more often than the timeout: a longer silence is a failure.             *)
Wait ==
    /\ at = "service"
    /\ IF InState("open") # {} /\ rx_age >= RX_STALL_TIMEOUT_SEC
       THEN Failure ELSE UNCHANGED failures
    /\ SecondPasses
    /\ UNCHANGED <<at, local, sleep, keep_running, current_wsi,
                   needs_reconnect, status>>

(* The link is lost silently: the connection is half-open. *)
Die(c) ==
    /\ at # "crashed"
    /\ status[c] = "open"
    /\ Failure
    /\ status' = [status EXCEPT ![c] = "dead"]
    /\ UNCHANGED <<at, local, sleep, keep_running, state_vars, timer>>

Shutdown ==
    /\ keep_running
    /\ at # "crashed"
    /\ keep_running' = FALSE
    /\ UNCHANGED <<at, local, sleep, failures, state_vars, lws_vars>>

Ended ==
    /\ at \in {"ended", "crashed"}
    /\ UNCHANGED vars
-----------------------------------------------------------------------------
LoopStep ==
    \/ FirstConnect \/ TakeSnapshot \/ Leave \/ Watchdog \/ Reconnect
    \/ Sleep \/ Redial

Next ==
    \/ LoopStep \/ ServiceReturns
    \/ \E c \in Conns : Callback(c) \/ Die(c)
    \/ Wait
    \/ Shutdown
    \/ Ended

Spec == Init /\ [][Next]_vars

(* The loop runs, lws_service returns, time passes, lws settles every      *)
(* attempt and honours its timers, and the server keeps sending on a       *)
(* connection that is open.  Failures and the shutdown need never happen.  *)
FairSpec ==
    /\ Spec
    /\ WF_vars(LoopStep)
    /\ SF_vars(ServiceReturns)
    /\ SF_vars(Wait)
    /\ \A c \in Conns :
           /\ SF_vars(Established(c))
           /\ SF_vars(Receive(c))
           /\ SF_vars(/\ timer[c] = 0
                      /\ \/ ConnectionError(c)
                         \/ Closed(c) \/ ClientClosed(c))
-----------------------------------------------------------------------------
(* Every variable keeps its type. *)
TypeOK ==
    /\ at \in {"connect", "loop", "watchdog", "reconnect", "sleep", "service",
               "ended", "crashed"}
    /\ keep_running \in BOOLEAN
    /\ current_wsi \in Conns \cup {NoConn}
    /\ needs_reconnect \in BOOLEAN
    /\ rx_age \in 0 .. RX_STALL_TIMEOUT_SEC + 1
    /\ local \in [wsi : Conns \cup {NoConn}, stalled : BOOLEAN,
                  needs_reconnect : BOOLEAN]
    /\ sleep \in 0 .. RECONNECT_DELAY_SEC
    /\ status \in [Conns -> Statuses]
    /\ timer \in [Conns -> Unset .. CLOSE_TIMEOUT_SEC]
    /\ failures \in 0 .. MaxFailures

(* While the loop runs current_wsi never points to a connection that lws   *)
(* has closed and freed: the watchdog's lws_set_timeout is safe.           *)
NoDanglingWsi ==
    at # "ended" /\ current_wsi # NoConn => Live(current_wsi)

(* current_wsi dangles in one way only: after a closure under the reason   *)
(* that the callback ignores.  No refusal, no closure under the other      *)
(* reason, no redial and no late report about another connection leaves a  *)
(* pointer to what is gone.                                                *)
DanglesOnlyUnseen ==
    at # "ended" /\ current_wsi # NoConn => status[current_wsi] # "free"

(* Someone is always in charge of the connection: the loop is about to     *)
(* connect, has been asked to, knows a connection whose silence it will    *)
(* notice, or waits for lws to settle its first attempt.                   *)
NeverAbandoned ==
    keep_running =>
        \/ at \in {"connect", "sleep"}
        \/ needs_reconnect
        \/ current_wsi # NoConn
        \/ InState("connecting") # {}

(* At most one connection delivers messages, leaving aside one that lws    *)
(* has been told to close.                                                 *)
AtMostOneStream ==
    Cardinality({c \in InState("open") : timer[c] = Unset}) <= 1

(* However the network has failed and whether or not the callback hears of *)
(* a closure, a connection is open again and again until the process is    *)
(* told to stop, or crashes on the dangling pointer.                       *)
Recovers == []<>(InState("open") # {} \/ ~ keep_running \/ at = "crashed")
=============================================================================
