---------------------------- MODULE NtripClient ----------------------------
(***************************************************************************)
(* NTRIPClient (src/ntrip/ins401_ntrip_client.cpp): an application thread  *)
(* that connects, starts and stops; a receive thread that reads the socket *)
(* into data_queue_ and reconnects; a process thread that takes data out,  *)
(* records it and hands fixed-size blocks to the callbacks.                *)
(*                                                                         *)
(* An action is a stretch of one thread between two accesses to state that *)
(* another thread can see.  The caster's bytes are numbered units, so that *)
(* order and loss are visible; a block is BlockSize units (1024 bytes).    *)
(* TLS is left out: nothing in the code can set is_ssl.                    *)
(***************************************************************************)
EXTENDS Integers, Sequences, FiniteSets

CONSTANTS
  max_queue_size, max_reconnect_attempts, max_buffer_size,
  BlockSize,      \* units per block handed to the callbacks
  MaxRead,        \* most units one recv() returns
  MaxUnits,       \* bound: units the caster ever sends
  enable_rtk,     \* LogErrorOrWarn throws
  auto_reconnect, use_vrs,
  CallbackThrows, \* a callback may throw
  UseSourceTable  \* the application may call GetSourceTable()

ASSUME NtripAssumption ==
  /\ max_queue_size \in Nat \ {0} /\ max_reconnect_attempts \in Nat \ {0}
  /\ max_buffer_size \in Nat \ {0} /\ BlockSize \in Nat \ {0}
  /\ MaxRead \in Nat \ {0} /\ MaxUnits \in Nat \ {0}
  /\ enable_rtk \in BOOLEAN /\ auto_reconnect \in BOOLEAN /\ use_vrs \in BOOLEAN
  /\ CallbackThrows \in BOOLEAN /\ UseSourceTable \in BOOLEAN

VARIABLES
  connected, disconnected, receiving,   \* the three atomics
  sock,          \* socket_fd_: "none", "up", or "eof" once the caster closed
  pending,       \* pending_data_
  queue,         \* data_queue_
  rtcm_buffer,
  joinable,      \* receive_thread_ and process_thread_ hold threads
  file_open, recording,   \* rtcm_base_file_ and what it contains
  pc,            \* control point of each thread
  chunk,         \* receive thread: data just read
  messages,      \* process thread: blocks still to hand out
  attempts,      \* receive thread: HandleReconnect's counter
  destroying,    \* the Disconnect() under way is the destructor's
  status,        \* "running", "destroyed", or "terminated" (std::terminate)
  next_unit,     \* environment: next unit the caster sends
  delivered,     \* history: blocks handed to the callbacks
  self_stopped   \* history: a thread cleared receiving_ itself

flags   == <<connected, disconnected, receiving>>
data    == <<pending, queue, rtcm_buffer, recording>>
ends    == <<joinable, file_open, destroying, status, self_stopped>>
locals  == <<chunk, messages, attempts>>
world   == <<next_unit, delivered>>
vars    == <<flags, sock, data, ends, pc, locals, world>>

Goto(t, l) == pc' = [pc EXCEPT ![t] = l]
At(t, l) == status = "running" /\ pc[t] = l

Alive(t) == pc[t] \notin {"none", "done"}

\* queue_mutex_ is held across two actions only between the predicate of the
\* condition variable and the wait.
QueueUnlocked == pc["proc"] # "holding"

\* The next k units of the caster's stream.
Units(k) == [i \in 1..k |-> next_unit + i - 1]

-----------------------------------------------------------------------------
Init ==
  /\ connected = FALSE /\ disconnected = FALSE /\ receiving = FALSE
  /\ sock = "none"
  /\ pending = <<>> /\ queue = <<>> /\ rtcm_buffer = <<>>
  /\ joinable = FALSE
  /\ file_open = FALSE /\ recording = <<>>
  /\ pc = [t \in {"app", "recv", "proc"} |-> IF t = "app" THEN "idle" ELSE "none"]
  /\ chunk = <<>> /\ messages = <<>> /\ attempts = 0
  /\ destroying = FALSE /\ status = "running"
  /\ next_unit = 1 /\ delivered = <<>> /\ self_stopped = FALSE

\* The caster closes the connection.
CasterCloses ==
  /\ status = "running" /\ sock = "up"
  /\ sock' = "eof"
  /\ UNCHANGED <<flags, data, ends, pc, locals, world>>

-----------------------------------------------------------------------------
(* Connect(), called by the application and by HandleReconnect().          *)

CallConnect ==
  /\ At("app", "idle")
  /\ Goto("app", "connect")
  /\ UNCHANGED <<flags, sock, data, ends, locals, world>>

\* Where the caller goes on.  A successful HandleReconnect() returns to a
\* `break', and the receive thread ends.
Returns(t, ok) ==
  Goto(t, IF t = "app" THEN "idle" ELSE IF ok THEN "done" ELSE "reconnect")

\* LogErrorOrWarn() throws: out of the API call, or into ReceiveThread's
\* handler.
Throws(t) == Goto(t, IF t = "app" THEN "idle" ELSE "catch")

ConnectCheck(t) ==
  /\ At(t, "connect")
  /\ IF connected THEN Returns(t, TRUE) ELSE Goto(t, "socket")
  /\ UNCHANGED <<flags, sock, data, ends, locals, world>>

\* ConnectSocket(): CreateSocket() closes an earlier descriptor, but a name
\* that cannot be resolved leaves it alone.
ConnectSocket(t) ==
  /\ At(t, "socket")
  /\ \/ sock' = "up" /\ Goto(t, "response")
     \/ sock' \in {"none", sock} /\ IF enable_rtk THEN Throws(t) ELSE Goto(t, "close")
  /\ UNCHANGED <<flags, data, ends, locals, world>>

\* SendRequest() and ReceiveResponse().  Bytes behind the header go to
\* pending_data_ before the status is looked at; `response += buffer' keeps
\* only those before the first zero byte.
Response(t) ==
  /\ At(t, "response")
  /\ \/ \E k \in 0..MaxRead, j \in 0..MaxRead, ok \in BOOLEAN :
          /\ sock = "up" /\ QueueUnlocked
          /\ j <= k /\ next_unit + k <= MaxUnits + 1
          /\ pending' = IF j > 0 THEN Units(j) ELSE pending
          /\ next_unit' = next_unit + k
          /\ IF ok THEN Goto(t, "established")
             ELSE IF enable_rtk THEN Throws(t) ELSE Goto(t, "close")
     \/ /\ IF enable_rtk THEN Throws(t) ELSE Goto(t, "close")
        /\ UNCHANGED <<pending, next_unit>>
  /\ UNCHANGED <<flags, sock, queue, rtcm_buffer, recording, ends, locals, delivered>>

CloseConnection == connected' = FALSE /\ sock' = "none"

ConnectFailed(t) ==
  /\ At(t, "close")
  /\ CloseConnection
  /\ Returns(t, FALSE)
  /\ UNCHANGED <<disconnected, receiving, data, ends, locals, world>>

Established(t) ==
  \/ /\ At(t, "established")
     /\ connected' = TRUE
     /\ Goto(t, "established2")
     /\ UNCHANGED <<disconnected, receiving, sock, data, ends, locals, world>>
  \/ /\ At(t, "established2")
     /\ disconnected' = FALSE
     /\ Returns(t, TRUE)
     /\ UNCHANGED <<connected, receiving, sock, data, ends, locals, world>>

Connect(t) ==
  ConnectCheck(t) \/ ConnectSocket(t) \/ Response(t) \/ ConnectFailed(t) \/ Established(t)

-----------------------------------------------------------------------------
(* The application's other calls.                                          *)

MutPendingKept ==
  /\ queue' = IF pending = <<>> THEN <<>> ELSE <<pending>>
  /\ pending' = pending

\* Stale data is thrown away; what came with the response is kept.
ResetQueue ==
  /\ queue' = IF pending = <<>> THEN <<>> ELSE <<pending>>
  /\ pending' = <<>>

\* StartReceiving().  Storing new threads over joinable ones destroys those,
\* which is std::terminate.
StartReceiving ==
  /\ At("app", "idle")
  /\ connected /\ ~receiving
  /\ receiving' = TRUE
  /\ ResetQueue
  /\ rtcm_buffer' = <<>>
  /\ \/ file_open' = TRUE /\ recording' = IF file_open THEN recording ELSE <<>>
     \/ UNCHANGED <<file_open, recording>>
  /\ status' = IF joinable THEN "terminated" ELSE "running"
  /\ joinable' = TRUE
  /\ pc' = [pc EXCEPT !["recv"] = "loop", !["proc"] = "loop"]
  /\ attempts' = 0
  /\ UNCHANGED <<connected, disconnected, sock, destroying, self_stopped, chunk, messages,
                 world>>

\* GetSourceTable() takes over the socket without asking whether it is in
\* use, and closes it when done; a send or a parse error that throws leaves
\* it open.  Data is delivered in order only where it is not used during
\* reception, so UseSourceTable is a parameter.
GetSourceTable ==
  \/ /\ At("app", "idle") /\ UseSourceTable
     /\ \/ sock' = "up" /\ Goto("app", "table")
        \/ sock' \in {"none", sock} /\ UNCHANGED pc
     /\ UNCHANGED <<flags, data, ends, locals, world>>
  \/ /\ At("app", "table")
     /\ CloseConnection \/ UNCHANGED <<connected, sock>>
     /\ Goto("app", "idle")
     /\ UNCHANGED <<disconnected, receiving, data, ends, locals, world>>

\* Disconnect() or the destructor: a second call returns at once.
Disconnect ==
  /\ At("app", "idle")
  /\ destroying' \in BOOLEAN
  /\ disconnected' = TRUE
  /\ Goto("app", IF disconnected THEN "disconnected" ELSE "stop")
  /\ UNCHANGED <<connected, receiving, sock, data, joinable, file_open, status, self_stopped,
                 locals, world>>

MutStopNeedsConnection ==
  /\ At("app", "stop")
  /\ receiving' = FALSE
  /\ Goto("app", IF receiving /\ connected THEN "stop_notify" ELSE "closing")
  /\ UNCHANGED <<connected, disconnected, sock, data, ends, locals, world>>

\* StopReceiving() does nothing when receiving_ is already false.
StopReceiving ==
  /\ At("app", "stop")
  /\ receiving' = FALSE
  /\ Goto("app", IF receiving THEN "stop_notify" ELSE "closing")
  /\ UNCHANGED <<connected, disconnected, sock, data, ends, locals, world>>

\* A waiting process thread re-evaluates its predicate.
WakeProcess(l, t) ==
  pc' = [pc EXCEPT ![t] = l, !["proc"] = IF @ = "blocked" THEN "lock" ELSE @]

StopNotify ==
  /\ At("app", "stop_notify")
  /\ WakeProcess("join", "app")
  /\ UNCHANGED <<flags, sock, data, ends, locals, world>>

StopJoin ==
  /\ At("app", "join")
  /\ pc["recv"] = "done" /\ pc["proc"] = "done"
  /\ joinable' = FALSE /\ self_stopped' = FALSE
  /\ file_open' = FALSE
  /\ pc' = [pc EXCEPT !["app"] = "closing", !["recv"] = "none", !["proc"] = "none"]
  /\ UNCHANGED <<flags, sock, data, destroying, status, locals, world>>

DisconnectClose ==
  /\ At("app", "closing")
  /\ CloseConnection
  /\ Goto("app", "disconnected")
  /\ UNCHANGED <<disconnected, receiving, data, ends, locals, world>>

\* Disconnect() is over; after the destructor's, the members are destroyed.
DisconnectReturn ==
  /\ At("app", "disconnected")
  /\ Goto("app", "idle")
  /\ destroying' = FALSE
  /\ status' = IF ~destroying THEN "running"
               ELSE IF joinable THEN "terminated" ELSE "destroyed"
  /\ UNCHANGED <<flags, sock, data, joinable, file_open, self_stopped, locals, world>>

-----------------------------------------------------------------------------
(* ReceiveThread() and HandleReconnect().                                  *)

MutIgnoreStop == connected

\* The condition of ReceiveThread()'s loop.
KeepReceiving == receiving /\ connected

ReceiveLoop ==
  /\ At("recv", "loop")
  /\ Goto("recv", IF ~KeepReceiving THEN "done" ELSE IF use_vrs THEN "gga" ELSE "read")
  /\ UNCHANGED <<flags, sock, data, ends, locals, world>>

\* SendGGA(): nothing is due or set, the sentence is sent, or sending it fails,
\* which is only logged unless RTK is required.
SendGGA ==
  /\ At("recv", "gga")
  /\ \/ Goto("recv", "read")
     \/ enable_rtk /\ Throws("recv")
  /\ UNCHANGED <<flags, sock, data, ends, locals, world>>

\* One recv(): data, nothing yet, end of stream, or an error (a connection
\* that was reset, a descriptor that another thread closed).
ReceiveData ==
  /\ At("recv", "read")
  /\ \/ \E k \in 1..MaxRead :
          /\ sock = "up" /\ next_unit + k <= MaxUnits + 1
          /\ chunk' = Units(k)
          /\ next_unit' = next_unit + k
          /\ Goto("recv", "push")
          /\ UNCHANGED connected
     \/ /\ sock = "up" /\ Goto("recv", "loop")
        /\ UNCHANGED <<connected, chunk, next_unit>>
     \/ /\ sock = "eof"
        /\ connected' = FALSE
        /\ Goto("recv", "lost")
        /\ UNCHANGED <<chunk, next_unit>>
     \/ /\ sock # "up"
        /\ IF enable_rtk THEN Throws("recv") /\ UNCHANGED connected
           ELSE connected' = FALSE /\ Goto("recv", "lost")
        /\ UNCHANGED <<chunk, next_unit>>
  /\ UNCHANGED <<disconnected, receiving, sock, data, ends, messages, attempts,
                 delivered>>

MutQueueOverflow(d) ==
  queue' = Append(IF Len(queue) > max_queue_size THEN Tail(queue) ELSE queue, d)

\* The oldest entry makes room.
Enqueue(d) ==
  queue' = Append(IF Len(queue) >= max_queue_size THEN Tail(queue) ELSE queue, d)

MutPushUnlocked ==
  /\ At("recv", "push")
  /\ Enqueue(chunk)
  /\ chunk' = <<>>
  /\ Goto("recv", "notify")
  /\ UNCHANGED <<flags, sock, pending, rtcm_buffer, recording, ends, messages,
                 attempts, world>>

PushData ==
  /\ At("recv", "push") /\ QueueUnlocked
  /\ Enqueue(chunk)
  /\ chunk' = <<>>
  /\ Goto("recv", "notify")
  /\ UNCHANGED <<flags, sock, pending, rtcm_buffer, recording, ends, messages,
                 attempts, world>>

PushNotify ==
  /\ At("recv", "notify")
  /\ WakeProcess("loop", "recv")
  /\ UNCHANGED <<flags, sock, data, ends, locals, world>>

ConnectionLost ==
  /\ At("recv", "lost")
  /\ attempts' = 0
  /\ Goto("recv", IF auto_reconnect /\ receiving THEN "reconnect" ELSE "done")
  /\ UNCHANGED <<flags, sock, data, ends, chunk, messages, world>>

MutOneAttemptMore == auto_reconnect /\ receiving /\ attempts <= max_reconnect_attempts

\* The condition of HandleReconnect()'s loop.
KeepTrying == auto_reconnect /\ receiving /\ attempts < max_reconnect_attempts

HandleReconnect ==
  /\ At("recv", "reconnect")
  /\ IF KeepTrying
       THEN /\ attempts' = attempts + 1
            /\ Goto("recv", "sleep")
       ELSE Goto("recv", "give_up") /\ UNCHANGED attempts
  /\ UNCHANGED <<flags, sock, data, ends, chunk, messages, world>>

ReconnectSlept ==
  /\ At("recv", "sleep")
  /\ Goto("recv", IF receiving THEN "close_old" ELSE "give_up")
  /\ UNCHANGED <<flags, sock, data, ends, locals, world>>

ReconnectClose ==
  /\ At("recv", "close_old")
  /\ CloseConnection
  /\ Goto("recv", "connect")
  /\ UNCHANGED <<disconnected, receiving, data, ends, locals, world>>

\* Without RTK required, receiving_ is cleared and nobody is notified.
ReconnectGiveUp ==
  /\ At("recv", "give_up")
  /\ IF enable_rtk THEN Throws("recv") /\ UNCHANGED receiving
     ELSE /\ receiving' = FALSE
          /\ Goto("recv", "done")
  /\ self_stopped' = (self_stopped \/ (receiving /\ ~receiving'))
  /\ UNCHANGED <<connected, disconnected, sock, data, joinable, file_open, destroying, status,
                 locals, world>>

\* The handler of ReceiveThread().
ReceiveCatch ==
  \/ /\ At("recv", "catch")
     /\ connected' = FALSE /\ receiving' = FALSE
     /\ self_stopped' = (self_stopped \/ receiving)
     /\ Goto("recv", "catch_notify")
     /\ UNCHANGED <<disconnected, sock, data, joinable, file_open, destroying, status, locals,
                    world>>
  \/ /\ At("recv", "catch_notify")
     /\ WakeProcess("done", "recv")
     /\ UNCHANGED <<flags, sock, data, ends, locals, world>>

ReceiveThread ==
  \/ ReceiveLoop \/ SendGGA \/ ReceiveData \/ PushData \/ PushNotify
  \/ ConnectionLost \/ HandleReconnect \/ ReconnectSlept \/ ReconnectClose
  \/ ReconnectGiveUp \/ ReceiveCatch
  \/ Connect("recv")

-----------------------------------------------------------------------------
(* ProcessThread().                                                        *)

ProcessLoop ==
  /\ At("proc", "loop")
  /\ Goto("proc", IF receiving THEN "lock" ELSE "done")
  /\ UNCHANGED <<flags, sock, data, ends, locals, world>>

\* ChunkRTCMData(): blocks cut from the front of b, and what is left.
Blocks(b) == [i \in 1..(Len(b) \div BlockSize) |->
                SubSeq(b, (i - 1) * BlockSize + 1, i * BlockSize)]
Rest(b) == SubSeq(b, (Len(b) \div BlockSize) * BlockSize + 1, Len(b))

\* The buffer with d added; one that would overflow is emptied first.
Buffered(d) ==
  IF Len(rtcm_buffer) + Len(d) > max_buffer_size THEN d ELSE rtcm_buffer \o d

\* Queue mutex, predicate, and either data, the end, or the wait.
ProcessTake ==
  /\ At("proc", "lock")
  /\ \/ /\ queue # <<>>
        /\ queue' = Tail(queue)
        /\ recording' = IF file_open THEN recording \o Head(queue) ELSE recording
        /\ messages' = Blocks(Buffered(Head(queue)))
        /\ rtcm_buffer' = Rest(Buffered(Head(queue)))
        /\ Goto("proc", "deliver")
     \/ /\ queue = <<>>
        /\ Goto("proc", IF receiving THEN "holding" ELSE "done")
        /\ UNCHANGED <<queue, rtcm_buffer, recording, messages>>
  /\ UNCHANGED <<flags, sock, pending, ends, chunk, attempts, world>>

ProcessWait ==
  /\ At("proc", "holding")
  /\ Goto("proc", "blocked")
  /\ UNCHANGED <<flags, sock, data, ends, locals, world>>

SpuriousWakeup ==
  /\ At("proc", "blocked")
  /\ Goto("proc", "lock")
  /\ UNCHANGED <<flags, sock, data, ends, locals, world>>

\* The callbacks get one block; a stop request drops the others.
ProcessDeliver ==
  /\ At("proc", "deliver")
  /\ \/ /\ messages # <<>> /\ receiving
        /\ delivered' = Append(delivered, Head(messages))
        /\ messages' = Tail(messages)
        /\ \/ UNCHANGED pc
           \/ CallbackThrows /\ Goto("proc", "catch")
     \/ /\ messages = <<>> \/ ~receiving
        /\ messages' = <<>>
        /\ Goto("proc", "loop")
        /\ UNCHANGED delivered
  /\ UNCHANGED <<flags, sock, data, ends, chunk, attempts, next_unit>>

ProcessCatch ==
  /\ At("proc", "catch")
  /\ receiving' = FALSE
  /\ self_stopped' = (self_stopped \/ receiving)
  /\ messages' = <<>>
  /\ Goto("proc", "done")
  /\ UNCHANGED <<connected, disconnected, sock, data, joinable, file_open, destroying, status,
                 chunk, attempts, world>>

ProcessThread ==
  ProcessLoop \/ ProcessTake \/ ProcessWait \/ ProcessDeliver \/ ProcessCatch

-----------------------------------------------------------------------------
AppCalls == CallConnect \/ StartReceiving \/ Disconnect

\* The application inside a call.
AppSteps ==
  \/ Connect("app") \/ StopReceiving \/ StopNotify \/ StopJoin
  \/ DisconnectClose \/ DisconnectReturn

\* The object is gone, or the process is.
Ended == status # "running" /\ UNCHANGED vars

Next ==
  \/ CasterCloses \/ AppCalls \/ AppSteps \/ GetSourceTable
  \/ ReceiveThread \/ ProcessThread \/ SpuriousWakeup \/ Ended

Spec == Init /\ [][Next]_vars

\* A started thread runs, and so does a call; when the application calls,
\* what the caster does and spurious wakeups are not assumed to happen.
FairSpec ==
  /\ Spec
  /\ WF_vars(AppSteps) /\ WF_vars(ReceiveThread) /\ WF_vars(ProcessThread)

-----------------------------------------------------------------------------
(* Properties.                                                             *)

AppPc == {"idle", "connect", "socket", "response", "close", "established",
          "established2", "table", "stop", "stop_notify", "join", "closing",
          "disconnected"}
RecvPc == {"none", "loop", "gga", "read", "push", "notify", "lost", "reconnect", "sleep",
           "close_old", "connect", "socket", "response", "close", "established",
           "established2", "give_up", "catch", "catch_notify", "done"}
ProcPc == {"none", "loop", "lock", "holding", "blocked", "deliver", "catch", "done"}

Unit == 1..MaxUnits

\* Types; the threads exist exactly while their objects are joinable.
TypeOK ==
  /\ connected \in BOOLEAN /\ disconnected \in BOOLEAN /\ receiving \in BOOLEAN
  /\ joinable \in BOOLEAN /\ file_open \in BOOLEAN
  /\ destroying \in BOOLEAN /\ self_stopped \in BOOLEAN
  /\ sock \in {"none", "up", "eof"}
  /\ pending \in Seq(Unit) /\ chunk \in Seq(Unit) /\ rtcm_buffer \in Seq(Unit)
  /\ recording \in Seq(Unit)
  /\ queue \in Seq(Seq(Unit)) /\ messages \in Seq(Seq(Unit)) /\ delivered \in Seq(Seq(Unit))
  /\ pc \in [{"app", "recv", "proc"} -> AppPc \cup RecvPc \cup ProcPc]
  /\ pc["app"] \in AppPc /\ pc["recv"] \in RecvPc /\ pc["proc"] \in ProcPc
  /\ attempts \in 0..max_reconnect_attempts
  /\ status \in {"running", "destroyed", "terminated"}
  /\ next_unit \in 1..(MaxUnits + 1)
  /\ joinable <=> (pc["recv"] # "none")
  /\ joinable <=> (pc["proc"] # "none")

\* The caster's units reach the callbacks, in whole blocks, and the recording
\* in order and at most once, across queue overflow, reconnection, restart and
\* the data that came with an HTTP response (pending_data_).
DeliveredInOrder ==
  /\ \A i \in DOMAIN delivered : Len(delivered[i]) = BlockSize
  /\ \A i, j \in DOMAIN delivered : \A a, b \in 1..BlockSize :
       i < j \/ (i = j /\ a < b) => delivered[i][a] < delivered[j][b]
  /\ \A a, b \in DOMAIN recording : a < b => recording[a] < recording[b]

\* data_queue_ never holds more than max_queue_size entries and less than a
\* block waits in rtcm_buffer_, so the overflow branch of ChunkRTCMData()
\* cannot be taken by reads of at most max_buffer_size - BlockSize + 1.
BuffersBounded ==
  /\ Len(queue) <= max_queue_size
  /\ Len(rtcm_buffer) < BlockSize

\* Disconnect() and the destructor join the threads that are running: only
\* when a thread had itself ended reception (reconnection given up, an
\* exception) does StopReceiving() leave it joinable, so that destroying the
\* client, or starting again, is std::terminate.
TerminatesOnlyAfterSelfStop == status = "terminated" => self_stopped

\* A receive thread that is told to stop ends.
ReceiverStops ==
  ~receiving ~> (~Alive("recv") \/ status # "running")

\* Data in the queue is processed while the client is receiving: a push is
\* never missed by a process thread that is about to wait.
DataProcessed ==
  (queue # <<>> /\ receiving) ~> (queue = <<>> \/ ~receiving \/ status # "running")

-----------------------------------------------------------------------------
(* What comments of the code claim.                                        *)

\* StopReceiving(): "Wake up waiting threads" (:176), "Wait for threads to
\* complete" (:183).
DisconnectReturns ==
  At("app", "stop") ~> (At("app", "idle") \/ status # "running")

\* auto_reconnect: "Enable auto-reconnection" (ins401_ntrip_client.h:53): a
\* client that is connected and receiving has somebody who receives.
ReconnectResumes ==
  status = "running" /\ receiving /\ connected => Alive("recv")
=============================================================================
