------------------------ MODULE NtripForwardProofs ------------------------
(***************************************************************************)
(* Proofs about NtripForward for every descriptor table, number of         *)
(* addresses and of retries, reset period and setting of enable_rtk.       *)
(***************************************************************************)
EXTENDS NtripForward, TLAPS

-----------------------------------------------------------------------------
(* The inductive invariant.                                                *)

\* Histories, and what the loops of both threads count.
Counting ==
  /\ build_errors \in Nat /\ failures \in Nat /\ refused \in BOOLEAN
  /\ conn \in {"create", "socket", "options", "dial"} => addrs >= 1
  /\ send = "send" => retry < kMaxSendRetries

\* A socket is opened only by a side that has none: CreateSocket() has closed
\* the descriptor it had, and Initialize() finds a descriptor exactly when
\* socket_initialized_ says so.
OpensOnlyWithout ==
  /\ conn = "socket" => socket_fd = 0
  /\ socket_initialized <=> socket_ptr \in Fds

\* The failures on this socket since the last failure that was due for a
\* reset are among those that packets_failed counts.  Between Cleanup() and
\* Initialize() of a reset there is no socket.
FailuresCounted ==
  /\ failures <= ResetEvery * build_errors +
                   IF send \in {"cleanup", "initialize"} THEN ResetEvery ELSE packets_failed
  /\ send = "initialize" => ~socket_initialized

IInv == TypeOK /\ Counting /\ OpensOnlyWithout /\ DescriptorsOwned /\ FailuresCounted

-----------------------------------------------------------------------------
(* Descriptors.                                                            *)

\* What close() leaves of the descriptor table.
LEMMA ClosedProperties ==
  ASSUME TypeOK, NEW n
  PROVE  /\ Closed(n) \in [Fds -> {"free", "client", "callback"}]
         /\ \A m \in Fds : Closed(n)[m] = IF m = n THEN "free" ELSE owner[m]
BY DEF TypeOK, Closed

\* What opening a descriptor does to the table: it takes a free number.
LEMMA OpenedProperties ==
  ASSUME TypeOK, NEW n \in Free, NEW who \in {"client", "callback"}, Opened(n, who)
  PROVE  /\ n \in Fds /\ owner[n] = "free"
         /\ owner' \in [Fds -> {"free", "client", "callback"}]
         /\ \A m \in Fds : owner'[m] = IF m = n THEN who ELSE owner[m]
BY DEF TypeOK, Opened, Free

\* The numbers 0 and -1 that stand for "no descriptor" are not descriptors.
LEMMA NoDescriptor == 0 \notin Fds /\ NULL \notin Fds /\ INVALID \notin Fds
BY ForwardAssumption DEF NULL, INVALID

-----------------------------------------------------------------------------
(* The initial state.                                                      *)

\* The invariant holds before either thread has done anything.
LEMMA InitInv == Init => IInv
<1> SUFFICES ASSUME Init PROVE IInv
  OBVIOUS
<1> USE ForwardAssumption, NoDescriptor DEF Init, NULL, INVALID
<1>1. TypeOK
  <2>1. owner \in [Fds -> {"free", "client", "callback"}]
    OBVIOUS
  <2>2. socket_initialized \in BOOLEAN /\ broken \in BOOLEAN
    OBVIOUS
  <2>3. addrs \in 0..MaxAddrs /\ retry \in 0..kMaxSendRetries
        /\ packets_failed \in 0..(ResetEvery - 1)
    OBVIOUS
  <2> QED BY <2>1, <2>2, <2>3 DEF TypeOK
<1>2. Counting /\ OpensOnlyWithout
  BY DEF Counting, OpensOnlyWithout
<1>3. DescriptorsOwned
  BY DEF DescriptorsOwned
<1>4. FailuresCounted
  BY DEF FailuresCounted
<1> QED BY <1>1, <1>2, <1>3, <1>4 DEF IInv

-----------------------------------------------------------------------------
(* The receive thread.  It leaves the callback's state alone, except for   *)
(* the table that both share.                                              *)

\* What the callback's part of the invariant is about.
LEMMA CallbackUntouched ==
  ASSUME IInv, UNCHANGED <<callback, sender, build_errors>>
  PROVE  FailuresCounted'
BY DEF IInv, FailuresCounted, callback, sender

\* The loop over the addresses ends with the last one.
LEMMA NextAddressProperties ==
  ASSUME TypeOK, addrs >= 1, NextAddress
  PROVE  /\ addrs' \in 0..MaxAddrs
         /\ conn' \in {"idle", "create", "close"}
         /\ conn' = "create" => addrs' >= 1
<1>1. addrs \in 1..MaxAddrs /\ addrs' = addrs - 1
  BY ForwardAssumption DEF TypeOK, NextAddress
<1>2. CASE addrs > 1
  BY <1>1, <1>2, ForwardAssumption DEF NextAddress
<1>3. CASE ~(addrs > 1)
  BY <1>1, <1>3, ForwardAssumption DEF NextAddress, ConnectFails
<1> QED BY <1>2, <1>3

\* getaddrinfo() has an answer, or not.
LEMMA ResolveInv == IInv /\ Resolve => IInv'
<1> SUFFICES ASSUME IInv, Resolve PROVE IInv'
  OBVIOUS
<1> USE DEF client, callback, sender, hist
<1>1. TypeOK'
  BY ForwardAssumption DEF IInv, TypeOK, Resolve, ConnectFails
<1>2. Counting'
  BY ForwardAssumption DEF IInv, TypeOK, Counting, Resolve, ConnectFails
<1>3. OpensOnlyWithout'
  BY DEF IInv, OpensOnlyWithout, Resolve, ConnectFails
<1>4. DescriptorsOwned'
  BY DEF IInv, DescriptorsOwned, Resolve
<1>5. FailuresCounted'
  BY CallbackUntouched DEF Resolve
<1> QED BY <1>1, <1>2, <1>3, <1>4, <1>5 DEF IInv

\* CreateSocket() closes what the client has, and nothing else.
LEMMA CreateCloseInv == IInv /\ CreateClose => IInv'
<1> SUFFICES ASSUME IInv, CreateClose PROVE IInv'
  OBVIOUS
<1> USE DEF client, callback, sender, hist
<1>1. TypeOK'
  BY ClosedProperties DEF IInv, TypeOK, CreateClose
<1>2. Counting'
  BY DEF IInv, Counting, CreateClose
<1>3. OpensOnlyWithout'
  BY DEF IInv, OpensOnlyWithout, CreateClose
<1>4. DescriptorsOwned'
  BY ClosedProperties, NoDescriptor DEF IInv, TypeOK, DescriptorsOwned, CreateClose
<1>5. FailuresCounted'
  BY CallbackUntouched DEF CreateClose
<1> QED BY <1>1, <1>2, <1>3, <1>4, <1>5 DEF IInv

\* CloseConnection() closes what the client has, and nothing else.
LEMMA CloseConnectionInv == IInv /\ CloseConnection => IInv'
<1> SUFFICES ASSUME IInv, CloseConnection PROVE IInv'
  OBVIOUS
<1> USE DEF client, callback, sender, hist
<1>1. TypeOK'
  BY ClosedProperties DEF IInv, TypeOK, CloseConnection
<1>2. Counting'
  BY DEF IInv, Counting, CloseConnection
<1>3. OpensOnlyWithout'
  BY DEF IInv, OpensOnlyWithout, CloseConnection
<1>4. DescriptorsOwned'
  BY ClosedProperties, NoDescriptor DEF IInv, TypeOK, DescriptorsOwned, CloseConnection
<1>5. FailuresCounted'
  BY CallbackUntouched DEF CloseConnection
<1> QED BY <1>1, <1>2, <1>3, <1>4, <1>5 DEF IInv

\* An exception leaves the socket open, and still the client's.
LEMMA ConnectThrowsInv == IInv /\ ConnectThrows => IInv'
<1> SUFFICES ASSUME IInv, ConnectThrows PROVE IInv'
  OBVIOUS
<1> USE DEF client, callback, sender, hist
<1>1. TypeOK'
  BY DEF IInv, TypeOK, ConnectThrows
<1>2. Counting'
  BY DEF IInv, Counting, ConnectThrows
<1>3. OpensOnlyWithout'
  BY DEF IInv, OpensOnlyWithout, ConnectThrows
<1>4. DescriptorsOwned'
  BY DEF IInv, DescriptorsOwned, ConnectThrows
<1>5. FailuresCounted'
  BY CallbackUntouched DEF ConnectThrows
<1> QED BY <1>1, <1>2, <1>3, <1>4, <1>5 DEF IInv

\* socket() gives the client a free number when it has none.
LEMMA CreateSocketInv == IInv /\ CreateSocket => IInv'
<1> SUFFICES ASSUME IInv, CreateSocket PROVE IInv'
  OBVIOUS
<1> USE DEF client, callback, sender, hist
<1>1. CASE \E n \in Free : Opened(n, "client") /\ socket_fd' = n
            /\ conn' = "options" /\ UNCHANGED addrs
  <2>1. PICK n \in Free : Opened(n, "client") /\ socket_fd' = n
                           /\ conn' = "options" /\ UNCHANGED addrs
    BY <1>1
  <2>2. /\ n \in Fds /\ owner[n] = "free"
        /\ owner' \in [Fds -> {"free", "client", "callback"}]
        /\ \A m \in Fds : owner'[m] = IF m = n THEN "client" ELSE owner[m]
    BY <2>1, OpenedProperties DEF IInv
  <2>3. TypeOK' /\ Counting' /\ OpensOnlyWithout'
    BY <2>1, <2>2, NoDescriptor DEF IInv, TypeOK, Counting, OpensOnlyWithout, CreateSocket
  <2>4. DescriptorsOwned'
    BY <2>1, <2>2, NoDescriptor
       DEF IInv, TypeOK, OpensOnlyWithout, DescriptorsOwned, CreateSocket
  <2> QED BY <2>3, <2>4, CallbackUntouched DEF IInv, CreateSocket
<1>2. CASE NextAddress /\ UNCHANGED <<owner, socket_fd>>
  <2>1. addrs >= 1
    BY DEF IInv, Counting, CreateSocket
  <2>2. TypeOK' /\ Counting' /\ OpensOnlyWithout'
    BY <1>2, <2>1, NextAddressProperties
       DEF IInv, TypeOK, Counting, OpensOnlyWithout, CreateSocket
  <2>3. DescriptorsOwned'
    BY <1>2 DEF IInv, DescriptorsOwned, CreateSocket
  <2> QED BY <2>2, <2>3, CallbackUntouched DEF IInv, CreateSocket
<1> QED BY <1>1, <1>2 DEF CreateSocket

\* A refused option ends what DescriptorsOwned promises; otherwise nothing
\* is opened or closed.
LEMMA SetOptionsInv == IInv /\ SetOptions => IInv'
<1> SUFFICES ASSUME IInv, SetOptions PROVE IInv'
  OBVIOUS
<1> USE DEF client, callback, sender, hist
<1>1. CASE conn' = "dial" /\ UNCHANGED <<owner, addrs, refused>>
  BY <1>1, CallbackUntouched
     DEF IInv, TypeOK, Counting, OpensOnlyWithout, DescriptorsOwned, SetOptions
<1>2. CASE owner' = Closed(socket_fd) /\ NextAddress /\ refused' = TRUE
  <2>1. addrs >= 1
    BY DEF IInv, Counting, SetOptions
  <2>2. TypeOK' /\ Counting' /\ OpensOnlyWithout'
    BY <1>2, <2>1, NextAddressProperties, ClosedProperties
       DEF IInv, TypeOK, Counting, OpensOnlyWithout, SetOptions
  <2>3. DescriptorsOwned'
    BY <1>2 DEF DescriptorsOwned
  <2> QED BY <2>2, <2>3, CallbackUntouched DEF IInv, SetOptions
<1> QED BY <1>1, <1>2 DEF SetOptions

\* A connection that cannot be made is closed and its number forgotten.
LEMMA DialInv == IInv /\ Dial => IInv'
<1> SUFFICES ASSUME IInv, Dial PROVE IInv'
  OBVIOUS
<1> USE DEF client, callback, sender, hist
<1>1. CASE conn' = "up" /\ UNCHANGED <<owner, socket_fd, addrs>>
  BY <1>1, CallbackUntouched
     DEF IInv, TypeOK, Counting, OpensOnlyWithout, DescriptorsOwned, Dial
<1>2. CASE owner' = Closed(socket_fd) /\ socket_fd' = Forgotten /\ NextAddress
  <2>1. addrs >= 1
    BY DEF IInv, Counting, Dial
  <2>2. TypeOK' /\ Counting' /\ OpensOnlyWithout'
    BY <1>2, <2>1, NextAddressProperties, ClosedProperties
       DEF IInv, TypeOK, Counting, OpensOnlyWithout, Dial, Forgotten
  <2>3. DescriptorsOwned'
    BY <1>2, ClosedProperties, NoDescriptor
       DEF IInv, TypeOK, DescriptorsOwned, Dial, Forgotten
  <2> QED BY <2>2, <2>3, CallbackUntouched DEF IInv, Dial
<1> QED BY <1>1, <1>2 DEF Dial

-----------------------------------------------------------------------------
(* The process thread.  It leaves the client's state alone, except for the *)
(* table that both share.                                                  *)

\* packets_failed stays in its range, and does not lose the count before
\* it wraps.
LEMMA PacketFailedProperties ==
  ASSUME TypeOK, PacketFailed
  PROVE  /\ packets_failed' \in 0..(ResetEvery - 1)
         /\ packets_failed' = IF packets_failed = ResetEvery - 1 THEN 0
                               ELSE packets_failed + 1
<1>1. packets_failed \in 0..(ResetEvery - 1) /\ ResetEvery \in Nat \ {0}
  BY ForwardAssumption DEF TypeOK
<1>2. packets_failed' = (packets_failed + 1) % ResetEvery
  BY DEF PacketFailed
<1>3. CASE packets_failed = ResetEvery - 1
  BY <1>1, <1>2, <1>3
<1>4. CASE packets_failed # ResetEvery - 1
  BY <1>1, <1>2, <1>4
<1> QED BY <1>1, <1>3, <1>4

\* Initialize() keeps the socket there is, or opens one when there is none;
\* failures are counted from 0 on a new one.
LEMMA InitializeProperties ==
  ASSUME IInv, Initialize, UNCHANGED <<socket_fd, refused>>
  PROVE  /\ owner' \in [Fds -> {"free", "client", "callback"}]
         /\ socket_ptr' \in Fds \cup {NULL, INVALID}
         /\ socket_initialized' \in BOOLEAN /\ broken' \in BOOLEAN
         /\ socket_initialized' <=> socket_ptr' \in Fds
         /\ DescriptorsOwned'
         /\ failures' \in {0, failures}
         /\ ~socket_initialized => failures' = 0
         /\ ~socket_initialized' => failures' = 0
<1> USE NoDescriptor
<1>1. CASE Ready /\ UNCHANGED <<owner, socket_ptr, socket_initialized, broken, failures>>
  BY <1>1 DEF IInv, TypeOK, OpensOnlyWithout, DescriptorsOwned, Ready
<1>2. CASE ~Ready /\ broken' = FALSE /\ failures' = 0
  <2>1. socket_ptr \notin Fds
    BY <1>2 DEF IInv, OpensOnlyWithout, Ready
  <2>2. CASE (\E n \in Free : Opened(n, "callback") /\ socket_ptr' = n)
             /\ socket_initialized' = TRUE
    <3>1. PICK n \in Free : Opened(n, "callback") /\ socket_ptr' = n
      BY <2>2
    <3>2. /\ n \in Fds /\ owner[n] = "free"
          /\ owner' \in [Fds -> {"free", "client", "callback"}]
          /\ \A m \in Fds : owner'[m] = IF m = n THEN "callback" ELSE owner[m]
      BY <3>1, OpenedProperties DEF IInv
    <3>3. DescriptorsOwned'
      BY <2>1, <3>1, <3>2 DEF IInv, TypeOK, DescriptorsOwned
    <3> QED BY <1>2, <2>2, <3>1, <3>2, <3>3
  <2>3. CASE socket_ptr' \in {NULL, INVALID} /\ socket_initialized' = FALSE
             /\ UNCHANGED owner
    <3>1. DescriptorsOwned'
      BY <2>1, <2>3 DEF IInv, TypeOK, DescriptorsOwned
    <3> QED BY <1>2, <2>3, <3>1 DEF IInv, TypeOK
  <2> QED BY <1>2, <2>2, <2>3 DEF Initialize
<1> QED BY <1>1, <1>2 DEF Initialize

\* Every packet that was not built may cost ResetEvery failures more.
LEMMA BoundStep ==
  ASSUME NEW b \in Nat
  PROVE  /\ ResetEvery \in Nat \ {0} /\ ResetEvery * b \in Nat
         /\ ResetEvery * (1 + b) = ResetEvery * b + ResetEvery
         /\ ResetEvery * (b + 1) = ResetEvery * b + ResetEvery
BY ForwardAssumption

\* SendToINS401() up to the packet: a call that finds no socket counts as a
\* failed packet, of which none was on a socket.
LEMMA SendToINS401Inv == IInv /\ SendToINS401 => IInv'
<1> SUFFICES ASSUME IInv, SendToINS401 PROVE IInv'
  OBVIOUS
<1> USE DEF client, hist
<1>1. /\ Initialize /\ send = "idle" /\ send' \in {"idle", "build"}
      /\ UNCHANGED <<socket_fd, conn, addrs, retry, build_errors, refused>>
  BY DEF SendToINS401
<1>2. /\ owner' \in [Fds -> {"free", "client", "callback"}]
      /\ socket_ptr' \in Fds \cup {NULL, INVALID}
      /\ socket_initialized' \in BOOLEAN /\ broken' \in BOOLEAN
      /\ socket_initialized' <=> socket_ptr' \in Fds
      /\ DescriptorsOwned'
      /\ failures' \in {0, failures}
      /\ ~socket_initialized' => failures' = 0
  BY <1>1, InitializeProperties
<1>3. /\ packets_failed' \in 0..(ResetEvery - 1)
      /\ ~UNCHANGED packets_failed => ~socket_initialized'
  BY PacketFailedProperties DEF IInv, TypeOK, SendToINS401
<1>4. TypeOK'
  BY <1>1, <1>2, <1>3 DEF IInv, TypeOK
<1>5. Counting' /\ OpensOnlyWithout'
  BY <1>1, <1>2 DEF IInv, Counting, OpensOnlyWithout
<1>6. FailuresCounted'
  <2>1. ResetEvery * build_errors \in Nat /\ build_errors' = build_errors
    BY <1>1, BoundStep DEF IInv, Counting
  <2>2. failures <= ResetEvery * build_errors + packets_failed
    BY <1>1 DEF IInv, FailuresCounted
  <2>3. /\ failures \in Nat /\ packets_failed \in Nat /\ packets_failed' \in Nat
        /\ failures' = 0 \/ (failures' = failures /\ packets_failed' = packets_failed)
    BY <1>2, <1>3, ForwardAssumption DEF IInv, TypeOK, Counting
  <2>4. failures' <= ResetEvery * build_errors + packets_failed'
    BY <2>1, <2>2, <2>3
  <2> QED BY <1>1, <2>1, <2>4 DEF FailuresCounted
<1> QED BY <1>2, <1>4, <1>5, <1>6 DEF IInv

\* A packet that cannot be built is counted, and may use up the reset.
LEMMA BuildPacketInv == IInv /\ BuildPacket => IInv'
<1> SUFFICES ASSUME IInv, BuildPacket PROVE IInv'
  OBVIOUS
<1> USE DEF client
<1>1. OpensOnlyWithout' /\ DescriptorsOwned'
  BY DEF IInv, OpensOnlyWithout, DescriptorsOwned, BuildPacket
<1>2. CASE send' = "send" /\ retry' = 0 /\ UNCHANGED <<packets_failed, build_errors>>
  <2>1. TypeOK' /\ Counting'
    BY <1>2, ForwardAssumption DEF IInv, TypeOK, Counting, BuildPacket
  <2>2. FailuresCounted'
    BY <1>2 DEF IInv, FailuresCounted, BuildPacket
  <2> QED BY <1>1, <2>1, <2>2 DEF IInv
<1>3. CASE build_errors' = build_errors + 1 /\ send' = "idle" /\ PacketFailed
           /\ UNCHANGED retry
  <2>1. TypeOK' /\ Counting'
    BY <1>3, PacketFailedProperties DEF IInv, TypeOK, Counting, BuildPacket
  <2>2. FailuresCounted'
    <3>1. /\ ResetEvery \in Nat /\ ResetEvery * build_errors \in Nat
          /\ ResetEvery * build_errors' = ResetEvery * build_errors + ResetEvery
      BY <1>3, BoundStep DEF IInv, Counting
    <3>2. /\ failures \in Nat /\ failures' = failures
          /\ failures <= ResetEvery * build_errors + packets_failed
      BY DEF IInv, Counting, FailuresCounted, BuildPacket
    <3>3. packets_failed \in 0..(ResetEvery - 1) /\ packets_failed' \in Nat
      BY <2>1, ForwardAssumption DEF IInv, TypeOK
    <3>4. failures' <= ResetEvery * build_errors' + packets_failed'
      BY <3>1, <3>2, <3>3
    <3> QED BY <1>3, <3>4 DEF FailuresCounted
  <2> QED BY <1>1, <2>1, <2>2 DEF IInv
<1> QED BY <1>2, <1>3 DEF BuildPacket

\* One turn of the retry loop changes only the loop's own state.
LEMMA SendInv == IInv /\ Send => IInv'
<1> SUFFICES ASSUME IInv, Send PROVE IInv'
  OBVIOUS
<1> USE DEF client, callback, hist
<1>1. TypeOK' /\ Counting'
  BY ForwardAssumption DEF IInv, TypeOK, Counting, Send
<1>2. OpensOnlyWithout' /\ DescriptorsOwned'
  BY DEF IInv, OpensOnlyWithout, DescriptorsOwned, Send
<1>3. FailuresCounted'
  BY DEF IInv, FailuresCounted, Send
<1> QED BY <1>1, <1>2, <1>3 DEF IInv

\* A failed send is counted twice: by packets_failed, and on the socket.
LEMMA SendFailedInv == IInv /\ SendFailed => IInv'
<1> SUFFICES ASSUME IInv, SendFailed PROVE IInv'
  OBVIOUS
<1> USE DEF client, hist
<1>1. /\ packets_failed' \in 0..(ResetEvery - 1)
      /\ packets_failed' = IF packets_failed = ResetEvery - 1 THEN 0
                            ELSE packets_failed + 1
  BY PacketFailedProperties DEF IInv, SendFailed
<1>2. failures \in Nat /\ failures' \in {failures, failures + 1}
  BY DEF IInv, Counting, SendFailed
<1>3. TypeOK' /\ Counting'
  BY <1>1, <1>2 DEF IInv, TypeOK, Counting, SendFailed
<1>4. OpensOnlyWithout' /\ DescriptorsOwned'
  BY DEF IInv, OpensOnlyWithout, DescriptorsOwned, SendFailed
<1>5. FailuresCounted'
  <2>1. ResetEvery \in Nat /\ ResetEvery * build_errors \in Nat /\ build_errors' = build_errors
    BY BoundStep DEF IInv, Counting, SendFailed
  <2>2. failures <= ResetEvery * build_errors + packets_failed
    BY DEF IInv, FailuresCounted, SendFailed
  <2>3. packets_failed \in 0..(ResetEvery - 1)
    BY DEF IInv, TypeOK
  <2>4. CASE packets_failed' = 0
    <3>1. send' = "cleanup"
      BY <2>4 DEF SendFailed
    <3>2. failures' <= ResetEvery * build_errors + ResetEvery
      BY <1>2, <2>1, <2>2, <2>3
    <3> QED BY <2>1, <3>1, <3>2 DEF FailuresCounted
  <2>5. CASE packets_failed' # 0
    <3>1. send' = "idle"
      BY <2>5 DEF SendFailed
    <3>2. failures' <= ResetEvery * build_errors + packets_failed'
      BY <1>1, <1>2, <2>1, <2>2, <2>3, <2>5
    <3> QED BY <2>1, <3>1, <3>2 DEF FailuresCounted
  <2> QED BY <2>4, <2>5
<1> QED BY <1>3, <1>4, <1>5 DEF IInv

\* Cleanup() closes what the callback has, and nothing else.
LEMMA ResetCleanupInv == IInv /\ ResetCleanup => IInv'
<1> SUFFICES ASSUME IInv, ResetCleanup PROVE IInv'
  OBVIOUS
<1> USE NoDescriptor DEF client, hist
<1>1. TypeOK'
  BY ClosedProperties DEF IInv, TypeOK, ResetCleanup, Cleanup
<1>2. Counting' /\ OpensOnlyWithout'
  BY DEF IInv, Counting, OpensOnlyWithout, ResetCleanup, Cleanup
<1>3. DescriptorsOwned'
  BY ClosedProperties DEF IInv, TypeOK, DescriptorsOwned, ResetCleanup, Cleanup
<1>4. FailuresCounted'
  BY DEF IInv, FailuresCounted, ResetCleanup, Cleanup
<1> QED BY <1>1, <1>2, <1>3, <1>4 DEF IInv

\* The Initialize() of a reset finds no socket: failures start from 0.
LEMMA ResetInitializeInv == IInv /\ ResetInitialize => IInv'
<1> SUFFICES ASSUME IInv, ResetInitialize PROVE IInv'
  OBVIOUS
<1> USE DEF client, hist
<1>1. ~socket_initialized
  BY DEF IInv, FailuresCounted, ResetInitialize
<1>2. /\ owner' \in [Fds -> {"free", "client", "callback"}]
      /\ socket_ptr' \in Fds \cup {NULL, INVALID}
      /\ socket_initialized' \in BOOLEAN /\ broken' \in BOOLEAN
      /\ socket_initialized' <=> socket_ptr' \in Fds
      /\ DescriptorsOwned' /\ failures' = 0
  BY <1>1, InitializeProperties DEF ResetInitialize
<1>3. TypeOK'
  BY <1>2 DEF IInv, TypeOK, ResetInitialize
<1>4. Counting' /\ OpensOnlyWithout'
  BY <1>2 DEF IInv, Counting, OpensOnlyWithout, ResetInitialize
<1>5. FailuresCounted'
  <2>1. ResetEvery * build_errors \in Nat /\ packets_failed \in Nat
    BY BoundStep, ForwardAssumption DEF IInv, TypeOK, Counting
  <2>2. /\ send' = "idle" /\ build_errors' = build_errors
        /\ packets_failed' = packets_failed
    BY DEF ResetInitialize
  <2> QED BY <1>2, <2>1, <2>2 DEF FailuresCounted
<1> QED BY <1>2, <1>3, <1>4, <1>5 DEF IInv

\* A socket that dies stays open, and the callback's.
LEMMA LinkFlapsInv == IInv /\ LinkFlaps => IInv'
<1> SUFFICES ASSUME IInv, LinkFlaps PROVE IInv'
  OBVIOUS
<1> USE DEF client, sender, hist
<1>1. TypeOK' /\ Counting'
  BY DEF IInv, TypeOK, Counting, LinkFlaps
<1>2. OpensOnlyWithout' /\ DescriptorsOwned' /\ FailuresCounted'
  BY DEF IInv, OpensOnlyWithout, DescriptorsOwned, FailuresCounted, LinkFlaps
<1> QED BY <1>1, <1>2 DEF IInv

-----------------------------------------------------------------------------
(* The theorems.                                                           *)

\* Every step of either thread, and of the environment, keeps the invariant.
LEMMA NextInv == IInv /\ [Next]_vars => IInv'
<1> SUFFICES ASSUME IInv, [Next]_vars PROVE IInv'
  OBVIOUS
<1>1. CASE Client
  BY <1>1, ResolveInv, CreateCloseInv, CreateSocketInv, SetOptionsInv, DialInv,
     CloseConnectionInv, ConnectThrowsInv DEF Client
<1>2. CASE Callback
  BY <1>2, SendToINS401Inv, BuildPacketInv, SendInv, SendFailedInv, ResetCleanupInv,
     ResetInitializeInv DEF Callback
<1>3. CASE LinkFlaps
  BY <1>3, LinkFlapsInv
<1>4. CASE UNCHANGED vars
  BY <1>4 DEF IInv, TypeOK, Counting, OpensOnlyWithout, DescriptorsOwned, FailuresCounted,
              vars, client, callback, sender, hist
<1> QED BY <1>1, <1>2, <1>3, <1>4 DEF Next

\* What the counters know bounds the failures on one socket.
LEMMA InvReplaced == IInv => ReplacedInTime
<1> SUFFICES ASSUME IInv PROVE ReplacedInTime
  OBVIOUS
<1>1. packets_failed \in 0..(ResetEvery - 1) /\ failures \in Nat
  BY DEF IInv, TypeOK, Counting
<1>2. /\ ResetEvery \in Nat /\ ResetEvery * build_errors \in Nat
      /\ ResetEvery * (1 + build_errors) = ResetEvery * build_errors + ResetEvery
  BY BoundStep DEF IInv, Counting
<1>3. failures <= ResetEvery * build_errors + ResetEvery
  BY <1>1, <1>2 DEF IInv, FailuresCounted
<1> QED BY <1>2, <1>3 DEF ReplacedInTime

\* The invariant of the two threads together.
THEOREM Inductive == Spec => []IInv
BY InitInv, NextInv, PTL DEF Spec

\* The receive thread only configures and uses a socket it has, and every
\* counter of ConnectSocket() and SendToINS401() stays in its range.
THEOREM TypeCorrect == Spec => []TypeOK
<1>1. IInv => TypeOK
  BY DEF IInv
<1> QED BY <1>1, Inductive, PTL

\* Until an option is refused, no descriptor leaks and neither thread closes
\* or uses one of the other's, however ConnectSocket() and Reset() interleave.
THEOREM Ownership == Spec => []DescriptorsOwned
<1>1. IInv => DescriptorsOwned
  BY DEF IInv
<1> QED BY <1>1, Inductive, PTL

\* "Reset socket on persistent failures": the modulo in SendToINS401() misses
\* no reset, except by packets that could not be built.
THEOREM Replacement == Spec => []ReplacedInTime
BY Inductive, InvReplaced, PTL
=============================================================================
