---------------------------- MODULE NtripForward ----------------------------
(***************************************************************************)
(* How correction data goes on to the INS401: NTRIPCallback::SendToINS401, *)
(* called by the process thread of NTRIPClient for every block, while the  *)
(* receive thread may be connecting to the caster again.  The two share    *)
(* the process's descriptor table, where a number that one of them closed  *)
(* is the first one the other gets.                                        *)
(*                                                                         *)
(* EthernetSocket and FdGuard are not part of the repository: they are     *)
(* modelled from their use.  A descriptor is a number, 0 is -1.            *)
(***************************************************************************)
EXTENDS Integers, FiniteSets, FiniteSetsExt

CONSTANTS
  Fds,             \* descriptor numbers the process has left
  MaxAddrs,        \* most addresses getaddrinfo() returns
  kMaxSendRetries,
  ResetEvery,      \* failed packets between two resets (10 in the code)
  enable_rtk,      \* LogErrorOrWarn() throws
  MaxBuildErrors   \* bound: calls in which BuildAceinnaPacket() throws

ASSUME ForwardAssumption ==
  /\ IsFiniteSet(Fds) /\ Fds \subseteq Nat \ {0}
  /\ MaxAddrs \in Nat \ {0} /\ kMaxSendRetries \in Nat \ {0} /\ ResetEvery \in Nat \ {0}
  /\ MaxBuildErrors \in Nat /\ enable_rtk \in BOOLEAN

VARIABLES
  owner,               \* who opened each descriptor: "free", "client", "callback"
  socket_fd,           \* NTRIPClient::socket_fd_
  conn, addrs,         \* receive thread: control point, addresses left
  socket_ptr,          \* NTRIPCallback::socket_ptr_: its descriptor, NULL or INVALID
  socket_initialized,
  packets_failed,      \* modulo ResetEvery: only that is looked at
  send, retry,         \* process thread: control point, retry
  broken,              \* environment: the Ethernet socket cannot send any more
  failures,            \* history: sends that failed on this Ethernet socket
  build_errors,        \* history: calls in which no packet could be built
  refused              \* history: a socket option has been refused

client   == <<socket_fd, conn, addrs>>
callback == <<socket_ptr, socket_initialized, packets_failed, broken, failures>>
sender   == <<send, retry>>
hist     == <<build_errors, refused>>
vars     == <<owner, client, callback, sender, hist>>

\* failures is not counted beyond this bound, which it should not reach.
MaxFailures == ResetEvery * (1 + MaxBuildErrors)

NULL == 0
INVALID == -1   \* an EthernetSocket that has no descriptor

Free == {n \in Fds : owner[n] = "free"}

\* POSIX gives the lowest number that is free.
Opened(n, who) == n = Min(Free) /\ owner' = [owner EXCEPT ![n] = who]

\* close(n), whoever opened n; a number that is not open is an error without
\* effect.
Closed(n) == [m \in Fds |-> IF m = n THEN "free" ELSE owner[m]]

-----------------------------------------------------------------------------
Init ==
  /\ owner = [n \in Fds |-> "free"]
  /\ socket_fd = 0 /\ conn = "idle" /\ addrs = 0
  /\ socket_ptr = NULL /\ socket_initialized = FALSE /\ packets_failed = 0
  /\ send = "idle" /\ retry = 0
  /\ broken = FALSE /\ failures = 0
  /\ build_errors = 0 /\ refused = FALSE

-----------------------------------------------------------------------------
(* NTRIPClient::ConnectSocket() and CreateSocket().                        *)

\* ConnectSocket() returns false and Connect() calls CloseConnection(),
\* unless LogErrorOrWarn() throws past it.
ConnectFails == conn' = IF enable_rtk THEN "idle" ELSE "close"

Resolve ==
  /\ conn = "idle"
  /\ \/ conn' = "create" /\ addrs' \in 1..MaxAddrs
     \/ ConnectFails /\ UNCHANGED addrs
  /\ UNCHANGED <<owner, socket_fd, callback, sender, hist>>

\* The loop goes on with the next address, or is over.
NextAddress ==
  /\ addrs' = addrs - 1
  /\ IF addrs > 1 THEN conn' = "create" ELSE ConnectFails

\* CreateSocket() closes what an earlier attempt left open.
CreateClose ==
  /\ conn = "create"
  /\ owner' = Closed(socket_fd) /\ socket_fd' = 0
  /\ conn' = "socket"
  /\ UNCHANGED <<addrs, callback, sender, hist>>

MutSocketUnchecked ==
  /\ conn = "socket"
  /\ \/ Opened(socket_fd', "client") /\ socket_fd' \in Free
     \/ UNCHANGED <<owner, socket_fd>>
  /\ conn' = "options"
  /\ UNCHANGED <<addrs, callback, sender, hist>>

CreateSocket ==
  /\ conn = "socket"
  /\ \/ /\ \E n \in Free : Opened(n, "client") /\ socket_fd' = n
        /\ conn' = "options" /\ UNCHANGED addrs
     \/ NextAddress /\ UNCHANGED <<owner, socket_fd>>
  /\ UNCHANGED <<callback, sender, hist>>

\* The socket options.  When one is refused, FdGuard closes the descriptor
\* and socket_fd_ keeps the number.
SetOptions ==
  /\ conn = "options"
  /\ \/ conn' = "dial" /\ UNCHANGED <<owner, addrs, refused>>
     \/ owner' = Closed(socket_fd) /\ NextAddress /\ refused' = TRUE
  /\ UNCHANGED <<socket_fd, callback, sender, build_errors>>

MutNumberKept == socket_fd

\* What ConnectSocket() leaves in socket_fd_ after close().
Forgotten == 0

\* connect(), and select() when it is in progress.
Dial ==
  /\ conn = "dial"
  /\ \/ conn' = "up" /\ UNCHANGED <<owner, socket_fd, addrs>>
     \/ owner' = Closed(socket_fd) /\ socket_fd' = Forgotten /\ NextAddress
  /\ UNCHANGED <<callback, sender, hist>>

\* CloseConnection(): by Connect() after a failure, or by HandleReconnect()
\* and Disconnect() when there is a connection.
CloseConnection ==
  /\ conn \in {"close", "up"}
  /\ owner' = Closed(socket_fd) /\ socket_fd' = 0
  /\ conn' = "idle"
  /\ UNCHANGED <<addrs, callback, sender, hist>>

\* The request or the response fails with an exception: the socket stays open.
ConnectThrows ==
  /\ conn = "up" /\ enable_rtk
  /\ conn' = "idle"
  /\ UNCHANGED <<owner, socket_fd, addrs, callback, sender, hist>>

Client == Resolve \/ CreateClose \/ CreateSocket \/ SetOptions \/ Dial
            \/ CloseConnection \/ ConnectThrows

-----------------------------------------------------------------------------
(* NTRIPCallback.                                                          *)

\* The interface goes down and comes back: sockets bound before are dead.
LinkFlaps ==
  /\ socket_ptr \in Fds
  /\ broken' = TRUE
  /\ UNCHANGED <<owner, client, socket_ptr, socket_initialized, packets_failed, failures,
                 sender, hist>>

Ready == socket_initialized /\ socket_ptr \in Fds

\* Initialize(): a socket that is there is kept, even when it is broken.
\* Otherwise a new one, which may be invalid or throw.
Initialize ==
  \/ Ready /\ UNCHANGED <<owner, socket_ptr, socket_initialized, broken, failures>>
  \/ /\ ~Ready
     /\ \/ /\ \E n \in Free : Opened(n, "callback") /\ socket_ptr' = n
           /\ socket_initialized' = TRUE
        \/ /\ socket_ptr' \in {NULL, INVALID} /\ socket_initialized' = FALSE
           /\ UNCHANGED owner
     /\ broken' = FALSE /\ failures' = 0

MutNoCleanup == UNCHANGED <<owner, socket_ptr, socket_initialized>>

\* Cleanup(): EthernetSocket's destructor closes the descriptor.
Cleanup ==
  /\ owner' = Closed(socket_ptr)
  /\ socket_ptr' = NULL
  /\ socket_initialized' = FALSE

PacketFailed == packets_failed' = (packets_failed + 1) % ResetEvery

\* SendToINS401() up to the packet: no socket, no packet.
SendToINS401 ==
  /\ send = "idle"
  /\ Initialize
  /\ IF socket_initialized' THEN send' = "build" /\ UNCHANGED packets_failed
     ELSE send' = "idle" /\ PacketFailed
  /\ UNCHANGED <<client, retry, hist>>

BuildPacket ==
  /\ send = "build"
  /\ \/ send' = "send" /\ retry' = 0 /\ UNCHANGED <<packets_failed, build_errors>>
     \/ /\ build_errors < MaxBuildErrors /\ build_errors' = build_errors + 1
        /\ send' = "idle" /\ PacketFailed /\ UNCHANGED retry
  /\ UNCHANGED <<owner, client, socket_ptr, socket_initialized, broken, failures, refused>>

\* One turn of the retry loop.
Send ==
  /\ send = "send"
  /\ \/ ~broken /\ send' = "idle" /\ UNCHANGED retry
     \/ /\ retry' = retry + 1
        /\ send' = IF retry' < kMaxSendRetries THEN "send" ELSE "failed"
  /\ UNCHANGED <<owner, client, callback, hist>>

SendFailed ==
  /\ send = "failed"
  /\ PacketFailed
  /\ failures' = IF failures > MaxFailures THEN failures ELSE failures + 1
  /\ send' = IF packets_failed' = 0 THEN "cleanup" ELSE "idle"
  /\ UNCHANGED <<owner, client, socket_ptr, socket_initialized, broken, retry, hist>>

\* Reset(): Cleanup() and Initialize() lock one after the other.
ResetCleanup ==
  /\ send = "cleanup"
  /\ Cleanup
  /\ send' = "initialize"
  /\ UNCHANGED <<client, packets_failed, broken, failures, retry, hist>>

ResetInitialize ==
  /\ send = "initialize"
  /\ Initialize
  /\ send' = "idle"
  /\ UNCHANGED <<client, packets_failed, retry, hist>>

Callback == SendToINS401 \/ BuildPacket \/ Send \/ SendFailed \/ ResetCleanup \/ ResetInitialize

-----------------------------------------------------------------------------
Next == Client \/ Callback \/ LinkFlaps

Spec == Init /\ [][Next]_vars

\* Blocks keep coming and the process thread runs.  Nothing is assumed of the
\* receive thread or of the interface.
FairSpec == Spec /\ WF_vars(Callback)

-----------------------------------------------------------------------------
(* Properties.                                                             *)

\* Types; the receive thread only configures and uses a socket it has.
TypeOK ==
  /\ owner \in [Fds -> {"free", "client", "callback"}]
  /\ socket_fd \in Fds \cup {0} /\ socket_ptr \in Fds \cup {NULL, INVALID}
  /\ conn \in {"idle", "create", "socket", "options", "dial", "up", "close"}
  /\ conn \in {"options", "dial", "up"} => socket_fd # 0
  /\ addrs \in 0..MaxAddrs /\ retry \in 0..kMaxSendRetries
  /\ send \in {"idle", "build", "send", "failed", "cleanup", "initialize"}
  /\ socket_initialized \in BOOLEAN /\ broken \in BOOLEAN
  /\ packets_failed \in 0..(ResetEvery - 1)

\* Each side holds exactly the descriptors it opened: none leaks, and neither
\* closes, or goes on using, a number that now belongs to the other.  Once an
\* option has been refused this is no longer so: CreateSocket() closes the
\* number in socket_fd_ a second time.
DescriptorsOwned ==
  ~refused => \A n \in Fds : /\ owner[n] = "client" <=> socket_fd = n
                             /\ owner[n] = "callback" <=> socket_ptr = n

\* "Reset socket on persistent failures": no more than ResetEvery sends fail
\* on one Ethernet socket, however they mix with calls that found no socket,
\* which are counted too; only a packet that cannot be built may use up the
\* failure at which the reset would have been.
ReplacedInTime == failures <= ResetEvery * (1 + build_errors)

\* A socket that cannot send any more does not stay in use while blocks come.
BrokenReplaced == (broken /\ socket_ptr \in Fds) ~> ~(broken /\ socket_ptr \in Fds)
=============================================================================
