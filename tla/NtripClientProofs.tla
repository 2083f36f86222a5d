------------------------- MODULE NtripClientProofs -------------------------
(***************************************************************************)
(* Proofs about the NTRIP client, for every queue length, block size, read *)
(* size and number of reconnection attempts:                               *)
(*   TypeCorrect   the type invariant;                                     *)
(*   Bounded       the queue and the block buffer keep their limits;       *)
(*   Terminates    std::terminate only after a thread stopped itself;      *)
(*   Ordered       units are delivered and recorded in order, at most once.*)
(* Terminates rests on StopInv (who cleared receiving_), Ordered on OwnInv *)
(* (whose socket it is, who holds data) and OrderInv (the pipeline from    *)
(* the socket to the callbacks holds ever newer units).                    *)
(***************************************************************************)
EXTENDS NtripClient, SequenceTheorems, TLAPS

-----------------------------------------------------------------------------
(* Division of a buffer into blocks.                                       *)

\* The blocks cut from n units fill less than one block short of n.
LEMMA WholeBlocks ==
  ASSUME NEW n \in Nat
  PROVE  /\ n \div BlockSize \in Nat
         /\ (n \div BlockSize) * BlockSize \in Nat
         /\ (n \div BlockSize) * BlockSize <= n
         /\ n < (n \div BlockSize) * BlockSize + BlockSize
  BY NtripAssumption

\* The i-th of them lies within the n units.
LEMMA BlockWithin ==
  ASSUME NEW n \in Nat, NEW i \in 1..(n \div BlockSize)
  PROVE  /\ (i - 1) * BlockSize \in Nat
         /\ i * BlockSize <= n
         /\ (i - 1) * BlockSize + BlockSize = i * BlockSize
         /\ i * BlockSize \in Nat
<1>1. i * BlockSize <= (n \div BlockSize) * BlockSize
  BY WholeBlocks, NtripAssumption
<1>2. (i - 1) * BlockSize \in Nat /\ (i - 1) * BlockSize + BlockSize = i * BlockSize
  BY WholeBlocks, NtripAssumption
<1> QED BY <1>1, <1>2, WholeBlocks, NtripAssumption

\* A block is a slice of the buffer.
LEMMA BlockSlice ==
  ASSUME NEW b \in Seq(Unit), NEW i \in 1..(Len(b) \div BlockSize)
  PROVE  LET c == SubSeq(b, (i - 1) * BlockSize + 1, i * BlockSize)
         IN  /\ c \in Seq(Unit)
             /\ Len(c) = BlockSize
             /\ \A k \in 1..BlockSize :
                  /\ (i - 1) * BlockSize + k \in 1..Len(b)
                  /\ c[k] = b[(i - 1) * BlockSize + k]
<1>1. PICK lo \in Nat : lo = (i - 1) * BlockSize
  BY BlockWithin
<1>2. PICK hi \in Nat : hi = i * BlockSize
  BY BlockWithin
<1>3. hi <= Len(b) /\ lo + BlockSize = hi /\ BlockSize \in Nat \ {0} /\ Len(b) \in Nat
  BY <1>1, <1>2, BlockWithin, NtripAssumption
<1>4. \A j \in (lo + 1)..hi : b[j] \in Unit
  BY <1>3, ElementOfSeq
<1>5. /\ SubSeq(b, lo + 1, hi) \in Seq(Unit)
      /\ Len(SubSeq(b, lo + 1, hi)) = IF lo + 1 <= hi THEN hi - (lo + 1) + 1 ELSE 0
      /\ \A k \in 1..(hi - (lo + 1) + 1) : SubSeq(b, lo + 1, hi)[k] = b[lo + 1 + k - 1]
  BY <1>3, <1>4, SubSeqProperties
<1>6. hi - (lo + 1) + 1 = BlockSize /\ lo + 1 <= hi
  BY <1>3
<1>7. \A k \in 1..BlockSize : lo + 1 + k - 1 = lo + k /\ lo + k \in 1..Len(b)
  BY <1>3
<1> QED BY <1>1, <1>2, <1>5, <1>6, <1>7

\* Blocks(b) is the sequence of these slices.
LEMMA BlocksFacts ==
  ASSUME NEW b \in Seq(Unit)
  PROVE  /\ Blocks(b) \in Seq(Seq(Unit))
         /\ Len(Blocks(b)) = Len(b) \div BlockSize
         /\ \A i \in 1..(Len(b) \div BlockSize) :
              /\ Blocks(b)[i] \in Seq(Unit)
              /\ Len(Blocks(b)[i]) = BlockSize
              /\ \A k \in 1..BlockSize :
                   /\ (i - 1) * BlockSize + k \in 1..Len(b)
                   /\ Blocks(b)[i][k] = b[(i - 1) * BlockSize + k]
<1>1. PICK n \in Nat : n = Len(b) \div BlockSize
  BY WholeBlocks
<1> DEFINE S == Seq(Unit)
<1>2. \A i \in 1..n : SubSeq(b, (i - 1) * BlockSize + 1, i * BlockSize) \in S
  BY <1>1, BlockSlice
<1> HIDE DEF S
<1>3. Blocks(b) = [i \in 1..n |-> SubSeq(b, (i - 1) * BlockSize + 1, i * BlockSize)]
  BY <1>1 DEF Blocks
<1>4. Blocks(b) \in [1..n -> S]
  BY <1>2, <1>3
<1>5. Blocks(b) \in Seq(S) /\ Len(Blocks(b)) = n
  BY <1>4
<1>6. \A i \in 1..n : Blocks(b)[i] = SubSeq(b, (i - 1) * BlockSize + 1, i * BlockSize)
  BY <1>3
<1> QED BY <1>1, <1>5, <1>6, BlockSlice, ZenonT(30) DEF S

\* Rest(b) is what is behind the last block, less than a block.
LEMMA RestFacts ==
  ASSUME NEW b \in Seq(Unit)
  PROVE  /\ Rest(b) \in Seq(Unit)
         /\ Len(Rest(b)) < BlockSize
         /\ \A k \in 1..Len(Rest(b)) :
              /\ (Len(b) \div BlockSize) * BlockSize + k \in 1..Len(b)
              /\ Rest(b)[k] = b[(Len(b) \div BlockSize) * BlockSize + k]
<1>1. PICK lo \in Nat : lo = (Len(b) \div BlockSize) * BlockSize
  BY WholeBlocks
<1>2. PICK n \in Nat : n = Len(b)
  OBVIOUS
<1>3. lo <= n /\ n < lo + BlockSize /\ BlockSize \in Nat \ {0}
  BY <1>1, <1>2, WholeBlocks, NtripAssumption
<1>4. \A j \in (lo + 1)..n : b[j] \in Unit
  BY <1>2, <1>3, ElementOfSeq
<1>5. /\ SubSeq(b, lo + 1, n) \in Seq(Unit)
      /\ Len(SubSeq(b, lo + 1, n)) = IF lo + 1 <= n THEN n - (lo + 1) + 1 ELSE 0
      /\ \A k \in 1..(n - (lo + 1) + 1) : SubSeq(b, lo + 1, n)[k] = b[lo + 1 + k - 1]
  BY <1>3, <1>4, SubSeqProperties, SMTT(20)
<1>6. n - (lo + 1) + 1 = n - lo
  BY <1>3
<1>7. Len(SubSeq(b, lo + 1, n)) = n - lo
  BY <1>3, <1>5, <1>6
<1>8. \A k \in 1..(n - lo) : lo + 1 + k - 1 = lo + k /\ lo + k \in 1..n
  BY <1>3
<1>9. n - lo < BlockSize
  BY <1>3
<1>10. Rest(b) = SubSeq(b, lo + 1, n)
  BY <1>1, <1>2 DEF Rest
<1> QED BY <1>1, <1>2, <1>5, <1>6, <1>7, <1>8, <1>9, <1>10

\* The units a read takes from the caster's stream.
LEMMA UnitsFacts ==
  ASSUME NEW k \in Nat, next_unit \in 1..(MaxUnits + 1), next_unit + k <= MaxUnits + 1
  PROVE  /\ Units(k) \in Seq(Unit) /\ Len(Units(k)) = k
         /\ \A i \in 1..k : Units(k)[i] = next_unit + i - 1
<1>1. \A i \in 1..k : next_unit + i - 1 \in Unit
  BY NtripAssumption DEF Unit
<1>2. Units(k) \in [1..k -> Unit]
  BY <1>1 DEF Units
<1>3. Units(k) \in Seq(Unit) /\ Len(Units(k)) = k
  BY <1>2
<1> QED BY <1>3 DEF Units

\* What ChunkRTCMData() works on.
LEMMA BufferedType ==
  ASSUME rtcm_buffer \in Seq(Unit), NEW d \in Seq(Unit)
  PROVE  Buffered(d) \in Seq(Unit)
  BY ConcatProperties DEF Buffered


-----------------------------------------------------------------------------
(* Types, in three parts that the provers can take one at a time.          *)

\* The threads and the points they can be at.
Threads == {"app", "recv", "proc"}
Points == AppPc \cup RecvPc \cup ProcPc

\* Flags, socket and status.
FlagTypes ==
  /\ connected \in BOOLEAN /\ disconnected \in BOOLEAN /\ receiving \in BOOLEAN
  /\ joinable \in BOOLEAN /\ file_open \in BOOLEAN
  /\ destroying \in BOOLEAN /\ self_stopped \in BOOLEAN
  /\ sock \in {"none", "up", "eof"}
  /\ status \in {"running", "destroyed", "terminated"}

\* Control points.
PcTypes ==
  /\ pc \in [Threads -> Points]
  /\ pc["app"] \in AppPc /\ pc["recv"] \in RecvPc /\ pc["proc"] \in ProcPc
  /\ joinable <=> (pc["recv"] # "none")
  /\ joinable <=> (pc["proc"] # "none")

\* Data and counters.
DataTypes ==
  /\ pending \in Seq(Unit) /\ chunk \in Seq(Unit) /\ rtcm_buffer \in Seq(Unit)
  /\ recording \in Seq(Unit)
  /\ queue \in Seq(Seq(Unit)) /\ messages \in Seq(Seq(Unit)) /\ delivered \in Seq(Seq(Unit))
  /\ attempts \in 0..max_reconnect_attempts
  /\ next_unit \in 1..(MaxUnits + 1)

\* The three parts are the type invariant.
LEMMA TypeParts == TypeOK <=> FlagTypes /\ PcTypes /\ DataTypes
  BY DEF TypeOK, FlagTypes, PcTypes, DataTypes, Threads, Points

\* No step gives a flag, the socket or the status another type.
LEMMA FlagStep == FlagTypes /\ [Next]_vars => FlagTypes'
<1> SUFFICES ASSUME FlagTypes, [Next]_vars
             PROVE  FlagTypes'
  OBVIOUS
<1> USE NtripAssumption DEF flags, data, ends, locals, world
<1>1. CASE CasterCloses
  BY <1>1 DEF FlagTypes, CasterCloses
<1>2. CASE CallConnect
  BY <1>2 DEF FlagTypes, CallConnect, At, Goto
<1>3. CASE StartReceiving
  BY <1>3 DEF FlagTypes, StartReceiving, At, ResetQueue
<1>4. CASE Disconnect
  BY <1>4 DEF FlagTypes, Disconnect, At, Goto
<1>5. ASSUME NEW t \in {"app", "recv"}, ConnectCheck(t) PROVE FlagTypes'
  BY <1>5 DEF FlagTypes, ConnectCheck, At, Returns, Goto
<1>6. ASSUME NEW t \in {"app", "recv"}, ConnectSocket(t) PROVE FlagTypes'
  BY <1>6 DEF FlagTypes, ConnectSocket, At, Throws, Goto
<1>7. ASSUME NEW t \in {"app", "recv"}, Response(t) PROVE FlagTypes'
  BY <1>7 DEF FlagTypes, Response, At, Throws, Goto
<1>8. ASSUME NEW t \in {"app", "recv"}, ConnectFailed(t) PROVE FlagTypes'
  BY <1>8 DEF FlagTypes, ConnectFailed, At, Returns, CloseConnection, Goto
<1>9. ASSUME NEW t \in {"app", "recv"}, Established(t) PROVE FlagTypes'
  BY <1>9 DEF FlagTypes, Established, At, Returns, Goto
<1>10. CASE StopReceiving
  BY <1>10 DEF FlagTypes, StopReceiving, At, Goto
<1>11. CASE StopNotify
  BY <1>11 DEF FlagTypes, StopNotify, At, WakeProcess
<1>12. CASE StopJoin
  BY <1>12 DEF FlagTypes, StopJoin, At
<1>13. CASE DisconnectClose
  BY <1>13 DEF FlagTypes, DisconnectClose, At, CloseConnection, Goto
<1>14. CASE DisconnectReturn
  BY <1>14 DEF FlagTypes, DisconnectReturn, At, Goto
<1>15. CASE GetSourceTable
  BY <1>15, ZenonT(30) DEF FlagTypes, GetSourceTable, At, CloseConnection, Goto
<1>16. CASE ReceiveLoop
  BY <1>16 DEF FlagTypes, ReceiveLoop, At, KeepReceiving, Goto
<1>17. CASE SendGGA
  BY <1>17 DEF FlagTypes, SendGGA, At, Throws, Goto
<1>18. CASE ReceiveData
  BY <1>18 DEF FlagTypes, ReceiveData, At, Throws, Goto
<1>19. CASE PushData
  BY <1>19 DEF FlagTypes, PushData, At, Enqueue, Goto
<1>20. CASE PushNotify
  BY <1>20 DEF FlagTypes, PushNotify, At, WakeProcess
<1>21. CASE ConnectionLost
  BY <1>21 DEF FlagTypes, ConnectionLost, At, Goto
<1>22. CASE HandleReconnect
  BY <1>22 DEF FlagTypes, HandleReconnect, At, KeepTrying, Goto
<1>23. CASE ReconnectSlept
  BY <1>23 DEF FlagTypes, ReconnectSlept, At, Goto
<1>24. CASE ReconnectClose
  BY <1>24 DEF FlagTypes, ReconnectClose, At, CloseConnection, Goto
<1>25. CASE ReconnectGiveUp
  BY <1>25 DEF FlagTypes, ReconnectGiveUp, At, Throws, Goto
<1>26. CASE ReceiveCatch
  BY <1>26 DEF FlagTypes, ReceiveCatch, At, WakeProcess, Goto
<1>27. CASE ProcessLoop
  BY <1>27 DEF FlagTypes, ProcessLoop, At, Goto
<1>28. CASE ProcessTake
  BY <1>28 DEF FlagTypes, ProcessTake, At, Goto
<1>29. CASE ProcessWait
  BY <1>29 DEF FlagTypes, ProcessWait, At, Goto
<1>30. CASE ProcessDeliver
  BY <1>30 DEF FlagTypes, ProcessDeliver, At, Goto
<1>31. CASE ProcessCatch
  BY <1>31 DEF FlagTypes, ProcessCatch, At, Goto
<1>32. CASE SpuriousWakeup
  BY <1>32 DEF FlagTypes, SpuriousWakeup, At, Goto
<1>33. CASE UNCHANGED vars
  BY <1>33 DEF FlagTypes, vars
<1> QED
  BY <1>1, <1>2, <1>3, <1>4, <1>5, <1>6, <1>7, <1>8, <1>9, <1>10, <1>11, <1>12, <1>13, <1>14,
     <1>15, <1>16, <1>17, <1>18, <1>19, <1>20, <1>21, <1>22, <1>23, <1>24, <1>25, <1>26,
     <1>27, <1>28, <1>29, <1>30, <1>31, <1>32, <1>33
  DEF Next, AppCalls, AppSteps, Connect, ReceiveThread, ProcessThread, Ended

\* Each thread stays within its control points, and has one exactly while
\* its object is joinable.
LEMMA PcStep == PcTypes /\ [Next]_vars => PcTypes'
<1> SUFFICES ASSUME PcTypes, [Next]_vars
             PROVE  PcTypes'
  OBVIOUS
<1> USE NtripAssumption DEF flags, data, ends, locals, world, Threads, Points, AppPc, RecvPc,
        ProcPc
<1>1. CASE CasterCloses
  BY <1>1 DEF PcTypes, CasterCloses
<1>2. CASE CallConnect
  BY <1>2 DEF PcTypes, CallConnect, At, Goto
<1>3. CASE StartReceiving
  BY <1>3 DEF PcTypes, StartReceiving, At, ResetQueue
<1>4. CASE Disconnect
  BY <1>4 DEF PcTypes, Disconnect, At, Goto
<1>5. ASSUME NEW t \in {"app", "recv"}, ConnectCheck(t) PROVE PcTypes'
  BY <1>5 DEF PcTypes, ConnectCheck, At, Returns, Goto
<1>6. ASSUME NEW t \in {"app", "recv"}, ConnectSocket(t) PROVE PcTypes'
  BY <1>6 DEF PcTypes, ConnectSocket, At, Throws, Goto
<1>7. ASSUME NEW t \in {"app", "recv"}, Response(t) PROVE PcTypes'
  BY <1>7 DEF PcTypes, Response, At, Throws, Goto
<1>8. ASSUME NEW t \in {"app", "recv"}, ConnectFailed(t) PROVE PcTypes'
  BY <1>8 DEF PcTypes, ConnectFailed, At, Returns, CloseConnection, Goto
<1>9. ASSUME NEW t \in {"app", "recv"}, Established(t) PROVE PcTypes'
  BY <1>9 DEF PcTypes, Established, At, Returns, Goto
<1>10. CASE StopReceiving
  BY <1>10 DEF PcTypes, StopReceiving, At, Goto
<1>11. CASE StopNotify
  BY <1>11 DEF PcTypes, StopNotify, At, WakeProcess
<1>12. CASE StopJoin
  BY <1>12 DEF PcTypes, StopJoin, At
<1>13. CASE DisconnectClose
  BY <1>13 DEF PcTypes, DisconnectClose, At, CloseConnection, Goto
<1>14. CASE DisconnectReturn
  BY <1>14 DEF PcTypes, DisconnectReturn, At, Goto
<1>15. CASE GetSourceTable
  BY <1>15 DEF PcTypes, GetSourceTable, At, CloseConnection, Goto
<1>16. CASE ReceiveLoop
  BY <1>16 DEF PcTypes, ReceiveLoop, At, KeepReceiving, Goto
<1>17. CASE SendGGA
  BY <1>17 DEF PcTypes, SendGGA, At, Throws, Goto
<1>18. CASE ReceiveData
  BY <1>18 DEF PcTypes, ReceiveData, At, Throws, Goto
<1>19. CASE PushData
  BY <1>19 DEF PcTypes, PushData, At, Enqueue, Goto
<1>20. CASE PushNotify
  BY <1>20 DEF PcTypes, PushNotify, At, WakeProcess
<1>21. CASE ConnectionLost
  BY <1>21 DEF PcTypes, ConnectionLost, At, Goto
<1>22. CASE HandleReconnect
  BY <1>22 DEF PcTypes, HandleReconnect, At, KeepTrying, Goto
<1>23. CASE ReconnectSlept
  BY <1>23 DEF PcTypes, ReconnectSlept, At, Goto
<1>24. CASE ReconnectClose
  BY <1>24 DEF PcTypes, ReconnectClose, At, CloseConnection, Goto
<1>25. CASE ReconnectGiveUp
  BY <1>25 DEF PcTypes, ReconnectGiveUp, At, Throws, Goto
<1>26. CASE ReceiveCatch
  BY <1>26 DEF PcTypes, ReceiveCatch, At, WakeProcess, Goto
<1>27. CASE ProcessLoop
  BY <1>27 DEF PcTypes, ProcessLoop, At, Goto
<1>28. CASE ProcessTake
  BY <1>28 DEF PcTypes, ProcessTake, At, Goto
<1>29. CASE ProcessWait
  BY <1>29 DEF PcTypes, ProcessWait, At, Goto
<1>30. CASE ProcessDeliver
  BY <1>30 DEF PcTypes, ProcessDeliver, At, Goto
<1>31. CASE ProcessCatch
  BY <1>31 DEF PcTypes, ProcessCatch, At, Goto
<1>32. CASE SpuriousWakeup
  BY <1>32 DEF PcTypes, SpuriousWakeup, At, Goto
<1>33. CASE UNCHANGED vars
  BY <1>33 DEF PcTypes, vars
<1> QED
  BY <1>1, <1>2, <1>3, <1>4, <1>5, <1>6, <1>7, <1>8, <1>9, <1>10, <1>11, <1>12, <1>13, <1>14,
     <1>15, <1>16, <1>17, <1>18, <1>19, <1>20, <1>21, <1>22, <1>23, <1>24, <1>25, <1>26,
     <1>27, <1>28, <1>29, <1>30, <1>31, <1>32, <1>33
  DEF Next, AppCalls, AppSteps, Connect, ReceiveThread, ProcessThread, Ended

\* What the buffers hold are units the caster has sent.
LEMMA DataStep == DataTypes /\ [Next]_vars => DataTypes'
<1> SUFFICES ASSUME DataTypes, [Next]_vars
             PROVE  DataTypes'
  OBVIOUS
<1> USE NtripAssumption DEF flags, data, ends, locals, world
<1>1. CASE CasterCloses
  BY <1>1 DEF DataTypes, CasterCloses
<1>2. CASE CallConnect
  BY <1>2 DEF DataTypes, CallConnect, At, Goto
<1>3. CASE StartReceiving
  <2>1. queue' \in Seq(Seq(Unit)) /\ pending' \in Seq(Unit)
    BY <1>3 DEF DataTypes, StartReceiving, ResetQueue
  <2>2. rtcm_buffer' \in Seq(Unit) /\ recording' \in Seq(Unit)
    <3>1. recording' = recording \/ recording' = <<>>
      BY <1>3 DEF StartReceiving
    <3>2. rtcm_buffer' = <<>>
      BY <1>3 DEF StartReceiving
    <3>3. recording \in Seq(Unit) /\ <<>> \in Seq(Unit)
      BY EmptySeq DEF DataTypes
    <3> QED BY <3>1, <3>2, <3>3, Zenon
  <2>3. attempts' \in 0..max_reconnect_attempts
    BY <1>3 DEF StartReceiving
  <2> QED BY <1>3, <2>1, <2>2, <2>3 DEF DataTypes, StartReceiving
<1>4. CASE Disconnect
  BY <1>4 DEF DataTypes, Disconnect, At, Goto
<1>5. ASSUME NEW t \in {"app", "recv"}, ConnectCheck(t) PROVE DataTypes'
  BY <1>5 DEF DataTypes, ConnectCheck, At, Returns, Goto
<1>6. ASSUME NEW t \in {"app", "recv"}, ConnectSocket(t) PROVE DataTypes'
  BY <1>6 DEF DataTypes, ConnectSocket, At, Throws, Goto
<1>7. ASSUME NEW t \in {"app", "recv"}, Response(t) PROVE DataTypes'
  <2>1. CASE UNCHANGED <<pending, next_unit>>
    BY <1>7, <2>1 DEF DataTypes, Response
  <2>2. CASE \E k \in 0..MaxRead, j \in 0..MaxRead :
               /\ j <= k /\ next_unit + k <= MaxUnits + 1
               /\ pending' = IF j > 0 THEN Units(j) ELSE pending
               /\ next_unit' = next_unit + k
    <3>1. PICK k \in 0..MaxRead, j \in 0..MaxRead :
               /\ j <= k /\ next_unit + k <= MaxUnits + 1
               /\ pending' = IF j > 0 THEN Units(j) ELSE pending
               /\ next_unit' = next_unit + k
      BY <2>2
    <3>2. k \in Nat /\ j \in Nat /\ next_unit + j <= MaxUnits + 1
      BY <3>1 DEF DataTypes
    <3>3. pending' \in Seq(Unit)
      BY <3>1, <3>2, UnitsFacts DEF DataTypes
    <3>4. next_unit' \in 1..(MaxUnits + 1)
      BY <3>1, <3>2 DEF DataTypes
    <3> QED BY <1>7, <3>3, <3>4 DEF DataTypes, Response
  <2> QED BY <1>7, <2>1, <2>2 DEF Response
<1>8. ASSUME NEW t \in {"app", "recv"}, ConnectFailed(t) PROVE DataTypes'
  BY <1>8 DEF DataTypes, ConnectFailed, At, Returns, CloseConnection, Goto
<1>9. ASSUME NEW t \in {"app", "recv"}, Established(t) PROVE DataTypes'
  BY <1>9 DEF DataTypes, Established, At, Returns, Goto
<1>10. CASE StopReceiving
  BY <1>10 DEF DataTypes, StopReceiving, At, Goto
<1>11. CASE StopNotify
  BY <1>11 DEF DataTypes, StopNotify, At, WakeProcess
<1>12. CASE StopJoin
  BY <1>12 DEF DataTypes, StopJoin, At
<1>13. CASE DisconnectClose
  BY <1>13 DEF DataTypes, DisconnectClose, At, CloseConnection, Goto
<1>14. CASE DisconnectReturn
  BY <1>14 DEF DataTypes, DisconnectReturn, At, Goto
<1>15. CASE GetSourceTable
  BY <1>15 DEF DataTypes, GetSourceTable, At, CloseConnection, Goto
<1>16. CASE ReceiveLoop
  BY <1>16 DEF DataTypes, ReceiveLoop, At, KeepReceiving, Goto
<1>17. CASE SendGGA
  BY <1>17 DEF DataTypes, SendGGA, At, Throws, Goto
<1>18. CASE ReceiveData
  <2>1. CASE UNCHANGED <<chunk, next_unit>>
    BY <1>18, <2>1 DEF DataTypes, ReceiveData
  <2>2. CASE \E k \in 1..MaxRead : /\ next_unit + k <= MaxUnits + 1
                                   /\ chunk' = Units(k) /\ next_unit' = next_unit + k
    <3>1. PICK k \in 1..MaxRead : /\ next_unit + k <= MaxUnits + 1
                                  /\ chunk' = Units(k) /\ next_unit' = next_unit + k
      BY <2>2
    <3>2. chunk' \in Seq(Unit)
      BY <3>1, UnitsFacts DEF DataTypes
    <3>3. next_unit' \in 1..(MaxUnits + 1)
      BY <3>1 DEF DataTypes
    <3> QED BY <1>18, <3>2, <3>3 DEF DataTypes, ReceiveData
  <2> QED BY <1>18, <2>1, <2>2 DEF ReceiveData
<1>19. CASE PushData
  BY <1>19 DEF DataTypes, PushData, At, Enqueue, Goto
<1>20. CASE PushNotify
  BY <1>20 DEF DataTypes, PushNotify, At, WakeProcess
<1>21. CASE ConnectionLost
  BY <1>21 DEF DataTypes, ConnectionLost, At, Goto
<1>22. CASE HandleReconnect
  BY <1>22 DEF DataTypes, HandleReconnect, At, KeepTrying, Goto
<1>23. CASE ReconnectSlept
  BY <1>23 DEF DataTypes, ReconnectSlept, At, Goto
<1>24. CASE ReconnectClose
  BY <1>24 DEF DataTypes, ReconnectClose, At, CloseConnection, Goto
<1>25. CASE ReconnectGiveUp
  BY <1>25 DEF DataTypes, ReconnectGiveUp, At, Throws, Goto
<1>26. CASE ReceiveCatch
  BY <1>26 DEF DataTypes, ReceiveCatch, At, WakeProcess, Goto
<1>27. CASE ProcessLoop
  BY <1>27 DEF DataTypes, ProcessLoop, At, Goto
<1>28. CASE ProcessTake
  <2>1. CASE UNCHANGED <<queue, rtcm_buffer, recording, messages>>
    BY <1>28, <2>1 DEF DataTypes, ProcessTake
  <2>2. CASE /\ queue # <<>> /\ queue' = Tail(queue)
             /\ recording' = IF file_open THEN recording \o Head(queue) ELSE recording
             /\ messages' = Blocks(Buffered(Head(queue)))
             /\ rtcm_buffer' = Rest(Buffered(Head(queue)))
    <3>1. PICK d \in Seq(Unit) : d = Head(queue)
      BY <2>2 DEF DataTypes
    <3>2. PICK b \in Seq(Unit) : b = Buffered(d)
      BY BufferedType DEF DataTypes
    <3>3. messages' \in Seq(Seq(Unit)) /\ rtcm_buffer' \in Seq(Unit)
      BY <2>2, <3>1, <3>2, BlocksFacts, RestFacts
    <3>4. recording' \in Seq(Unit)
      BY <2>2, <3>1, ConcatProperties DEF DataTypes
    <3>5. queue' \in Seq(Seq(Unit))
      BY <2>2 DEF DataTypes
    <3> QED BY <1>28, <3>3, <3>4, <3>5 DEF DataTypes, ProcessTake
  <2> QED BY <1>28, <2>1, <2>2 DEF ProcessTake
<1>29. CASE ProcessWait
  BY <1>29 DEF DataTypes, ProcessWait, At, Goto
<1>30. CASE ProcessDeliver
  <2>1. CASE messages # <<>> /\ delivered' = Append(delivered, Head(messages))
                             /\ messages' = Tail(messages)
    BY <1>30, <2>1 DEF DataTypes, ProcessDeliver
  <2>2. CASE messages' = <<>> /\ UNCHANGED delivered
    BY <1>30, <2>2 DEF DataTypes, ProcessDeliver
  <2> QED BY <1>30, <2>1, <2>2 DEF ProcessDeliver
<1>31. CASE ProcessCatch
  BY <1>31 DEF DataTypes, ProcessCatch, At, Goto
<1>32. CASE SpuriousWakeup
  BY <1>32 DEF DataTypes, SpuriousWakeup, At, Goto
<1>33. CASE UNCHANGED vars
  BY <1>33 DEF DataTypes, vars
<1> QED
  BY <1>1, <1>2, <1>3, <1>4, <1>5, <1>6, <1>7, <1>8, <1>9, <1>10, <1>11, <1>12, <1>13, <1>14,
     <1>15, <1>16, <1>17, <1>18, <1>19, <1>20, <1>21, <1>22, <1>23, <1>24, <1>25, <1>26,
     <1>27, <1>28, <1>29, <1>30, <1>31, <1>32, <1>33
  DEF Next, AppCalls, AppSteps, Connect, ReceiveThread, ProcessThread, Ended

\* The initial state has the types.
LEMMA TypeInit == Init => TypeOK
<1> SUFFICES ASSUME Init PROVE TypeOK
  OBVIOUS
<1>1. FlagTypes
  BY DEF Init, FlagTypes
<1>2. PcTypes
  BY DEF Init, PcTypes, Threads, Points, AppPc, RecvPc, ProcPc
<1>3. DataTypes
  BY NtripAssumption DEF Init, DataTypes
<1> QED BY <1>1, <1>2, <1>3, TypeParts

\* So every step keeps the type invariant.
LEMMA TypeStep == TypeOK /\ [Next]_vars => TypeOK'
<1> SUFFICES ASSUME TypeOK, [Next]_vars
             PROVE  TypeOK'
  OBVIOUS
<1>1. FlagTypes /\ PcTypes /\ DataTypes
  BY TypeParts
<1>2. FlagTypes' /\ PcTypes' /\ DataTypes'
  BY <1>1, FlagStep, PcStep, DataStep
<1> QED BY <1>2, TypeParts DEF TypeOK, FlagTypes, PcTypes, DataTypes, Threads, Points

\* Every variable of the client keeps its type, and a thread's control point
\* is "none" exactly while its std::thread holds none.
THEOREM TypeCorrect == Spec => []TypeOK
  BY TypeInit, TypeStep, PTL DEF Spec

-----------------------------------------------------------------------------
(* Buffers.                                                                *)

\* Everything that holds units of the caster's stream.
units == <<pending, queue, rtcm_buffer, recording, chunk, messages, delivered, next_unit>>

\* The steps that move units; all others are about control.
LEMMA UnitSteps ==
  [Next]_vars =>
    \/ StartReceiving \/ ReceiveData \/ PushData \/ ProcessTake \/ ProcessDeliver
    \/ ProcessCatch \/ (\E t \in {"app", "recv"} : Response(t))
    \/ UNCHANGED units
<1> SUFFICES ASSUME [Next]_vars
             PROVE  \/ StartReceiving \/ ReceiveData \/ PushData \/ ProcessTake
                    \/ ProcessDeliver \/ ProcessCatch
                    \/ (\E t \in {"app", "recv"} : Response(t))
                    \/ UNCHANGED units
  OBVIOUS
<1> USE DEF flags, data, ends, locals, world, units
<1>1. CASE CasterCloses
  BY <1>1 DEF CasterCloses
<1>2. CASE CallConnect
  BY <1>2 DEF CallConnect
<1>3. CASE Disconnect
  BY <1>3 DEF Disconnect
<1>4. ASSUME NEW t \in {"app", "recv"}, ConnectCheck(t) PROVE UNCHANGED units
  BY <1>4 DEF ConnectCheck
<1>5. ASSUME NEW t \in {"app", "recv"}, ConnectSocket(t) PROVE UNCHANGED units
  BY <1>5 DEF ConnectSocket
<1>6. ASSUME NEW t \in {"app", "recv"}, ConnectFailed(t) PROVE UNCHANGED units
  BY <1>6 DEF ConnectFailed
<1>7. ASSUME NEW t \in {"app", "recv"}, Established(t) PROVE UNCHANGED units
  BY <1>7 DEF Established
<1>8. CASE StopReceiving
  BY <1>8 DEF StopReceiving
<1>9. CASE StopNotify
  BY <1>9 DEF StopNotify
<1>10. CASE StopJoin
  BY <1>10 DEF StopJoin
<1>11. CASE DisconnectClose
  BY <1>11 DEF DisconnectClose
<1>12. CASE DisconnectReturn
  BY <1>12 DEF DisconnectReturn
<1>13. CASE GetSourceTable
  BY <1>13 DEF GetSourceTable
<1>14. CASE ReceiveLoop
  BY <1>14 DEF ReceiveLoop
<1>15. CASE SendGGA
  BY <1>15 DEF SendGGA
<1>16. CASE PushNotify
  BY <1>16 DEF PushNotify
<1>17. CASE ConnectionLost
  BY <1>17 DEF ConnectionLost
<1>18. CASE HandleReconnect
  BY <1>18 DEF HandleReconnect
<1>19. CASE ReconnectSlept
  BY <1>19 DEF ReconnectSlept
<1>20. CASE ReconnectClose
  BY <1>20 DEF ReconnectClose
<1>21. CASE ReconnectGiveUp
  BY <1>21 DEF ReconnectGiveUp
<1>22. CASE ReceiveCatch
  BY <1>22 DEF ReceiveCatch
<1>23. CASE ProcessLoop
  BY <1>23 DEF ProcessLoop
<1>24. CASE ProcessWait
  BY <1>24 DEF ProcessWait
<1>25. CASE SpuriousWakeup
  BY <1>25 DEF SpuriousWakeup
<1>26. CASE UNCHANGED vars
  BY <1>26 DEF vars
<1> QED
  BY <1>1, <1>2, <1>3, <1>4, <1>5, <1>6, <1>7, <1>8, <1>9, <1>10, <1>11, <1>12, <1>13, <1>14,
     <1>15, <1>16, <1>17, <1>18, <1>19, <1>20, <1>21, <1>22, <1>23, <1>24, <1>25, <1>26
  DEF Next, AppCalls, AppSteps, Connect, ReceiveThread, ProcessThread, Ended

\* The queue with room for one entry is a queue.
LEMMA RoomType ==
  ASSUME queue \in Seq(Seq(Unit))
  PROVE  (IF Len(queue) >= max_queue_size THEN Tail(queue) ELSE queue) \in Seq(Seq(Unit))
<1>1. CASE Len(queue) >= max_queue_size
  <2>1. queue # <<>>
    BY <1>1, NtripAssumption
  <2>2. Tail(queue) \in Seq(Seq(Unit))
    BY <2>1, HeadTailProperties
  <2> QED BY <1>1, <2>2
<1> QED BY <1>1

\* Only StartReceiving, PushData and ProcessTake touch the two buffers.
LEMMA BoundedStep == TypeOK /\ BuffersBounded /\ [Next]_vars => BuffersBounded'
<1> SUFFICES ASSUME DataTypes, BuffersBounded, [Next]_vars
             PROVE  BuffersBounded'
  BY TypeParts
<1>1. CASE StartReceiving
  <2>1. Len(queue') <= 1
    BY <1>1 DEF StartReceiving, ResetQueue
  <2>2. Len(rtcm_buffer') = 0
    BY <1>1 DEF StartReceiving
  <2>3. Len(queue') \in Nat
    BY <1>1 DEF StartReceiving, ResetQueue
  <2> QED BY <2>1, <2>2, <2>3, NtripAssumption DEF BuffersBounded
<1>2. CASE PushData
  <2>1. PICK q \in Seq(Seq(Unit)) :
          q = IF Len(queue) >= max_queue_size THEN Tail(queue) ELSE queue
    BY RoomType DEF DataTypes
  <2>2. Len(q) < max_queue_size
    <3>1. Len(queue) \in Nat /\ Len(queue) <= max_queue_size
      BY DEF DataTypes, BuffersBounded
    <3>2. CASE Len(queue) >= max_queue_size
      <4>1. queue # <<>>
        BY <3>2, NtripAssumption
      <4>2. Len(Tail(queue)) = Len(queue) - 1
        BY <4>1, HeadTailProperties DEF DataTypes
      <4> QED BY <2>1, <3>1, <3>2, <4>2, NtripAssumption
    <3>3. CASE ~(Len(queue) >= max_queue_size)
      BY <2>1, <3>1, <3>3, NtripAssumption
    <3> QED BY <3>2, <3>3
  <2>3. queue' = Append(q, chunk)
    BY <1>2, <2>1 DEF PushData, Enqueue
  <2>4. Len(queue') = Len(q) + 1
    BY <2>1, <2>3, AppendProperties DEF DataTypes
  <2>5. Len(queue') <= max_queue_size
    BY <2>1, <2>2, <2>4, NtripAssumption
  <2> QED BY <1>2, <2>5 DEF BuffersBounded, PushData
<1>3. CASE ProcessTake
  <2>1. CASE UNCHANGED <<queue, rtcm_buffer>>
    BY <2>1 DEF BuffersBounded
  <2>2. CASE /\ queue # <<>> /\ queue' = Tail(queue)
             /\ rtcm_buffer' = Rest(Buffered(Head(queue)))
    <3>1. PICK d \in Seq(Unit) : d = Head(queue)
      BY <2>2 DEF DataTypes
    <3>2. PICK b \in Seq(Unit) : b = Buffered(d)
      BY BufferedType DEF DataTypes
    <3>3. Len(rtcm_buffer') < BlockSize
      BY <2>2, <3>1, <3>2, RestFacts
    <3>4. Len(queue) \in Nat /\ Len(queue') = Len(queue) - 1
      BY <2>2, HeadTailProperties DEF DataTypes
    <3> QED BY <3>3, <3>4, NtripAssumption DEF BuffersBounded
  <2> QED BY <1>3, <2>1, <2>2 DEF ProcessTake
<1>4. CASE UNCHANGED <<queue, rtcm_buffer>>
  BY <1>4 DEF BuffersBounded
<1>5. ASSUME NEW t \in {"app", "recv"}, Response(t)
      PROVE  UNCHANGED <<queue, rtcm_buffer>>
  BY <1>5 DEF Response
<1>6. ReceiveData \/ ProcessDeliver \/ ProcessCatch => UNCHANGED <<queue, rtcm_buffer>>
  BY DEF ReceiveData, ProcessDeliver, ProcessCatch, data
<1> QED BY <1>1, <1>2, <1>3, <1>4, <1>5, <1>6, UnitSteps DEF units

\* data_queue_ never exceeds max_queue_size, and ChunkRTCMData() leaves less
\* than a block in rtcm_buffer_.
THEOREM Bounded == Spec => []BuffersBounded
<1>1. Init => BuffersBounded
  BY NtripAssumption DEF Init, BuffersBounded
<1> QED BY <1>1, BoundedStep, TypeCorrect, PTL DEF Spec

-----------------------------------------------------------------------------
(* Who stops the threads.                                                  *)

\* Who cleared receiving_: the application inside StopReceiving(), which joins
\* the threads, or one of the threads, as self_stopped records.
Stopping ==
  /\ pc["app"] \in {"stop_notify", "join", "closing", "disconnected"} => ~receiving
  /\ receiving => joinable
  /\ joinable /\ ~receiving /\ pc["app"] \notin {"stop_notify", "join"} => self_stopped
  /\ receiving /\ disconnected => pc["app"] = "stop"
  /\ ~joinable /\ connected /\ disconnected =>
       pc["app"] \in {"established2", "stop", "stop_notify", "join", "closing"}

\* Once the client has ended nothing is left to say but why.
StopInv ==
  /\ status = "running" => Stopping
  /\ TerminatesOnlyAfterSelfStop

\* StopInv is inductive given the types.
LEMMA StopStep == TypeOK /\ StopInv /\ [Next]_vars => StopInv'
<1> SUFFICES ASSUME FlagTypes, PcTypes, StopInv, [Next]_vars
             PROVE  StopInv'
  BY TypeParts
<1> USE NtripAssumption DEF flags, data, ends, locals, world, PcTypes, FlagTypes, Threads,
        Points, AppPc, RecvPc, ProcPc, StopInv, Stopping, TerminatesOnlyAfterSelfStop
<1>1. CASE CasterCloses
  BY <1>1 DEF CasterCloses
<1>2. CASE CallConnect
  BY <1>2 DEF CallConnect, At, Goto
<1>3. CASE StartReceiving
  BY <1>3 DEF StartReceiving, At, ResetQueue
<1>4. CASE Disconnect
  BY <1>4 DEF Disconnect, At, Goto
<1>5. ASSUME NEW t \in {"app", "recv"}, ConnectCheck(t) PROVE StopInv'
  BY <1>5 DEF ConnectCheck, At, Returns, Goto
<1>6. ASSUME NEW t \in {"app", "recv"}, ConnectSocket(t) PROVE StopInv'
  BY <1>6 DEF ConnectSocket, At, Throws, Goto
<1>7. ASSUME NEW t \in {"app", "recv"}, Response(t) PROVE StopInv'
  BY <1>7 DEF Response, At, Throws, Goto
<1>8. ASSUME NEW t \in {"app", "recv"}, ConnectFailed(t) PROVE StopInv'
  BY <1>8 DEF ConnectFailed, At, Returns, CloseConnection, Goto
<1>9. ASSUME NEW t \in {"app", "recv"}, Established(t) PROVE StopInv'
  BY <1>9 DEF Established, At, Returns, Goto
<1>10. CASE StopReceiving
  BY <1>10 DEF StopReceiving, At, Goto
<1>11. CASE StopNotify
  BY <1>11 DEF StopNotify, At, WakeProcess
<1>12. CASE StopJoin
  BY <1>12 DEF StopJoin, At
<1>13. CASE DisconnectClose
  BY <1>13 DEF DisconnectClose, At, CloseConnection, Goto
<1>14. CASE DisconnectReturn
  BY <1>14 DEF DisconnectReturn, At, Goto
<1>15. CASE GetSourceTable
  BY <1>15 DEF GetSourceTable, At, CloseConnection, Goto
<1>16. CASE ReceiveLoop
  BY <1>16 DEF ReceiveLoop, At, KeepReceiving, Goto
<1>17. CASE SendGGA
  BY <1>17 DEF SendGGA, At, Throws, Goto
<1>18. CASE ReceiveData
  BY <1>18 DEF ReceiveData, At, Throws, Goto
<1>19. CASE PushData
  BY <1>19 DEF PushData, At, Enqueue, Goto
<1>20. CASE PushNotify
  BY <1>20 DEF PushNotify, At, WakeProcess
<1>21. CASE ConnectionLost
  BY <1>21 DEF ConnectionLost, At, Goto
<1>22. CASE HandleReconnect
  BY <1>22 DEF HandleReconnect, At, KeepTrying, Goto
<1>23. CASE ReconnectSlept
  BY <1>23 DEF ReconnectSlept, At, Goto
<1>24. CASE ReconnectClose
  BY <1>24 DEF ReconnectClose, At, CloseConnection, Goto
<1>25. CASE ReconnectGiveUp
  BY <1>25 DEF ReconnectGiveUp, At, Throws, Goto
<1>26. CASE ReceiveCatch
  BY <1>26 DEF ReceiveCatch, At, WakeProcess, Goto
<1>27. CASE ProcessLoop
  BY <1>27 DEF ProcessLoop, At, Goto
<1>28. CASE ProcessTake
  BY <1>28 DEF ProcessTake, At, Goto
<1>29. CASE ProcessWait
  BY <1>29 DEF ProcessWait, At, Goto
<1>30. CASE ProcessDeliver
  BY <1>30 DEF ProcessDeliver, At, Goto
<1>31. CASE ProcessCatch
  BY <1>31 DEF ProcessCatch, At, Goto
<1>32. CASE SpuriousWakeup
  BY <1>32 DEF SpuriousWakeup, At, Goto
<1>33. CASE UNCHANGED vars
  BY <1>33 DEF vars
<1> QED
  BY <1>1, <1>2, <1>3, <1>4, <1>5, <1>6, <1>7, <1>8, <1>9, <1>10, <1>11, <1>12, <1>13, <1>14,
     <1>15, <1>16, <1>17, <1>18, <1>19, <1>20, <1>21, <1>22, <1>23, <1>24, <1>25, <1>26,
     <1>27, <1>28, <1>29, <1>30, <1>31, <1>32, <1>33
  DEF Next, AppCalls, AppSteps, Connect, ReceiveThread, ProcessThread, Ended

\* Destroying the client, or starting it again, is std::terminate only after
\* one of its own threads ended reception.
THEOREM Terminates == Spec => []TerminatesOnlyAfterSelfStop
<1>1. Init => StopInv
  BY DEF Init, StopInv, Stopping, TerminatesOnlyAfterSelfStop
<1>2. StopInv => TerminatesOnlyAfterSelfStop
  BY DEF StopInv
<1> QED BY <1>1, <1>2, StopStep, TypeCorrect, PTL DEF Spec

-----------------------------------------------------------------------------
(* Whose socket it is.                                                     *)

\* The receive thread may still read from the socket: it has neither lost the
\* connection nor ended.
Reading == pc["recv"] \in {"loop", "gga", "read", "push", "notify"}

\* The application is past the check of connected_ in Connect().
Connecting == pc["app"] \in {"socket", "response", "close", "established", "established2"}

\* A process thread that stopped reception itself left both threads joinable:
\* nothing is handed out any more, and starting again is std::terminate.
Abandoned ==
  /\ joinable /\ ~receiving /\ pc["proc"] = "done"
  /\ pc["app"] \notin {"stop_notify", "join"}

\* While the receive thread reads, the application opens no connection of its
\* own and pending_data_ is empty, unless the threads are abandoned.
SocketOwned ==
  /\ pc["app"] # "table"
  /\ Reading /\ ~receiving /\ pc["app"] \notin {"stop_notify", "join"} => pc["proc"] = "done"
  /\ Reading /\ (~connected \/ Connecting) => Abandoned
  /\ Reading /\ pending # <<>> => Abandoned

\* A thread holds units only between the steps that take and pass them on.
HandOver ==
  /\ messages # <<>> => pc["proc"] \in {"deliver", "catch"}
  /\ chunk # <<>> => pc["recv"] = "push"

\* Both hold while the client lives.
OwnInv == status = "running" => SocketOwned /\ HandOver

\* OwnInv is inductive where GetSourceTable() is not called.
LEMMA OwnStep == ~UseSourceTable /\ TypeOK /\ StopInv /\ OwnInv /\ [Next]_vars => OwnInv'
<1> SUFFICES ASSUME ~UseSourceTable, FlagTypes, PcTypes, StopInv, OwnInv, [Next]_vars
             PROVE  OwnInv'
  BY TypeParts
<1> USE NtripAssumption DEF flags, data, ends, locals, world, PcTypes, FlagTypes, Threads, Points,
        AppPc, RecvPc, ProcPc, StopInv, Stopping, Reading, Connecting, Abandoned,
        SocketOwned, HandOver, OwnInv
<1>1. CASE CasterCloses
  BY <1>1 DEF CasterCloses
<1>2. CASE CallConnect
  BY <1>2 DEF CallConnect, At, Goto
<1>3. CASE StartReceiving
  BY <1>3 DEF StartReceiving, At, ResetQueue
<1>4. CASE Disconnect
  BY <1>4 DEF Disconnect, At, Goto
<1>5. ASSUME NEW t \in {"app", "recv"}, ConnectCheck(t) PROVE OwnInv'
  BY <1>5 DEF ConnectCheck, At, Returns, Goto
<1>6. ASSUME NEW t \in {"app", "recv"}, ConnectSocket(t) PROVE OwnInv'
  BY <1>6 DEF ConnectSocket, At, Throws, Goto
<1>7. ASSUME NEW t \in {"app", "recv"}, Response(t) PROVE OwnInv'
  BY <1>7 DEF Response, At, Throws, Goto
<1>8. ASSUME NEW t \in {"app", "recv"}, ConnectFailed(t) PROVE OwnInv'
  BY <1>8 DEF ConnectFailed, At, Returns, CloseConnection, Goto
<1>9. ASSUME NEW t \in {"app", "recv"}, Established(t) PROVE OwnInv'
  BY <1>9 DEF Established, At, Returns, Goto
<1>10. CASE StopReceiving
  BY <1>10 DEF StopReceiving, At, Goto
<1>11. CASE StopNotify
  BY <1>11 DEF StopNotify, At, WakeProcess
<1>12. CASE StopJoin
  BY <1>12 DEF StopJoin, At
<1>13. CASE DisconnectClose
  BY <1>13 DEF DisconnectClose, At, CloseConnection, Goto
<1>14. CASE DisconnectReturn
  BY <1>14 DEF DisconnectReturn, At, Goto
<1>15. CASE GetSourceTable
  BY <1>15 DEF GetSourceTable, At, CloseConnection, Goto
<1>16. CASE ReceiveLoop
  BY <1>16 DEF ReceiveLoop, At, KeepReceiving, Goto
<1>17. CASE SendGGA
  BY <1>17 DEF SendGGA, At, Throws, Goto
<1>18. CASE ReceiveData
  BY <1>18 DEF ReceiveData, At, Throws, Goto
<1>19. CASE PushData
  BY <1>19 DEF PushData, At, Enqueue, Goto
<1>20. CASE PushNotify
  BY <1>20 DEF PushNotify, At, WakeProcess
<1>21. CASE ConnectionLost
  BY <1>21 DEF ConnectionLost, At, Goto
<1>22. CASE HandleReconnect
  BY <1>22 DEF HandleReconnect, At, KeepTrying, Goto
<1>23. CASE ReconnectSlept
  BY <1>23 DEF ReconnectSlept, At, Goto
<1>24. CASE ReconnectClose
  BY <1>24 DEF ReconnectClose, At, CloseConnection, Goto
<1>25. CASE ReconnectGiveUp
  BY <1>25 DEF ReconnectGiveUp, At, Throws, Goto
<1>26. CASE ReceiveCatch
  BY <1>26 DEF ReceiveCatch, At, WakeProcess, Goto
<1>27. CASE ProcessLoop
  BY <1>27 DEF ProcessLoop, At, Goto
<1>28. CASE ProcessTake
  BY <1>28 DEF ProcessTake, At, Goto
<1>29. CASE ProcessWait
  BY <1>29 DEF ProcessWait, At, Goto
<1>30. CASE ProcessDeliver
  BY <1>30 DEF ProcessDeliver, At, Goto
<1>31. CASE ProcessCatch
  BY <1>31 DEF ProcessCatch, At, Goto
<1>32. CASE SpuriousWakeup
  BY <1>32 DEF SpuriousWakeup, At, Goto
<1>33. CASE UNCHANGED vars
  BY <1>33 DEF vars
<1> QED
  BY <1>1, <1>2, <1>3, <1>4, <1>5, <1>6, <1>7, <1>8, <1>9, <1>10, <1>11, <1>12, <1>13, <1>14,
     <1>15, <1>16, <1>17, <1>18, <1>19, <1>20, <1>21, <1>22, <1>23, <1>24, <1>25, <1>26,
     <1>27, <1>28, <1>29, <1>30, <1>31, <1>32, <1>33
  DEF Next, AppCalls, AppSteps, Connect, ReceiveThread, ProcessThread, Ended

-----------------------------------------------------------------------------
(* The order of units.                                                      *)

\* The units in a sequence, and in a sequence of sequences.
UnitsOf(s) == {s[i] : i \in DOMAIN s}
UnitsIn(ss) == UNION {UnitsOf(ss[i]) : i \in DOMAIN ss}

\* All of A were sent before all of B.
Older(A, B) == \A a \in A, b \in B : a < b

\* Each unit was sent before the ones behind it.
Increasing(s) == \A a, b \in DOMAIN s : a < b => s[a] < s[b]

\* So are the entries, and the units of an entry, of a sequence of sequences.
InOrder(ss) ==
  /\ \A i \in DOMAIN ss : Increasing(ss[i])
  /\ \A i, j \in DOMAIN ss : i < j => Older(UnitsOf(ss[i]), UnitsOf(ss[j]))

\* All entries are blocks.
Whole(ss) == \A i \in DOMAIN ss : Len(ss[i]) = BlockSize

\* Nothing is in order.
LEMMA UnitsEmpty ==
  /\ UnitsOf(<<>>) = {} /\ UnitsIn(<<>>) = {} /\ Increasing(<<>>)
  /\ InOrder(<<>>) /\ Whole(<<>>)
<1>1. DOMAIN <<>> = {}
  OBVIOUS
<1> QED BY <1>1 DEF UnitsOf, UnitsIn, Increasing, InOrder, Whole

\* The units in a typed sequence are units.
LEMMA UnitsType ==
  /\ \A s \in Seq(Unit) : UnitsOf(s) \subseteq Unit
  /\ \A ss \in Seq(Seq(Unit)) : UnitsIn(ss) \subseteq Unit
<1>1. ASSUME NEW s \in Seq(Unit) PROVE UnitsOf(s) \subseteq Unit
  BY LenProperties, ElementOfSeq DEF UnitsOf
<1>2. ASSUME NEW ss \in Seq(Seq(Unit)) PROVE UnitsIn(ss) \subseteq Unit
  <2> DEFINE S == Seq(Unit)
  <2>1. \A i \in DOMAIN ss : ss[i] \in S
    <3> HIDE DEF S
    <3> QED BY LenProperties, ElementOfSeq, ss \in Seq(S) DEF S
  <2> QED BY <1>1, <2>1 DEF UnitsIn
<1> QED BY <1>1, <1>2

\* One entry.
LEMMA UnitsSingle ==
  ASSUME NEW s
  PROVE  /\ UnitsIn(<<s>>) = UnitsOf(s)
         /\ Increasing(s) => InOrder(<<s>>)
<1>1. DOMAIN <<s>> = {1} /\ <<s>>[1] = s
  OBVIOUS
<1> QED BY <1>1 DEF UnitsIn, InOrder

\* Concatenation adds newer units.
LEMMA UnitsConcat ==
  ASSUME NEW s \in Seq(Unit), NEW t \in Seq(Unit)
  PROVE  /\ UnitsOf(s \o t) \subseteq UnitsOf(s) \cup UnitsOf(t)
         /\ (Increasing(s) /\ Increasing(t) /\ Older(UnitsOf(s), UnitsOf(t)))
              => Increasing(s \o t)
<1>1. PICK m \in Nat : m = Len(s)
  OBVIOUS
<1>2. PICK n \in Nat : n = Len(t)
  OBVIOUS
<1>3. PICK u \in Seq(Unit) : u = s \o t
  BY ConcatProperties
<1>4. /\ DOMAIN s = 1..m /\ DOMAIN t = 1..n /\ DOMAIN u = 1..(m + n)
      /\ \A i \in 1..(m + n) : u[i] = IF i <= m THEN s[i] ELSE t[i - m]
  BY <1>1, <1>2, <1>3, ConcatProperties, LenProperties
<1>5. \A i \in 1..(m + n) : \/ i <= m /\ i \in DOMAIN s /\ u[i] = s[i]
                            \/ i > m /\ i - m \in DOMAIN t /\ u[i] = t[i - m]
  BY <1>4, SMTT(20)
<1>6. UnitsOf(u) \subseteq UnitsOf(s) \cup UnitsOf(t)
  BY <1>4, <1>5 DEF UnitsOf
<1>7. ASSUME Increasing(s), Increasing(t), Older(UnitsOf(s), UnitsOf(t))
      PROVE  Increasing(u)
  <2> SUFFICES ASSUME NEW a \in 1..(m + n), NEW b \in 1..(m + n), a < b
               PROVE  u[a] < u[b]
    BY <1>4 DEF Increasing
  <2>1. CASE b <= m
    <3>1. a \in DOMAIN s /\ b \in DOMAIN s /\ u[a] = s[a] /\ u[b] = s[b]
      BY <1>4, <2>1
    <3> QED BY <1>7, <3>1 DEF Increasing
  <2>2. CASE a > m
    <3>1. a - m \in DOMAIN t /\ b - m \in DOMAIN t /\ a - m < b - m
          /\ u[a] = t[a - m] /\ u[b] = t[b - m]
      BY <1>4, <2>2
    <3> QED BY <1>7, <3>1 DEF Increasing
  <2>3. CASE a <= m /\ b > m
    <3>1. a \in DOMAIN s /\ b - m \in DOMAIN t /\ u[a] = s[a] /\ u[b] = t[b - m]
      BY <1>4, <2>3
    <3>2. u[a] \in UnitsOf(s) /\ u[b] \in UnitsOf(t)
      BY <3>1 DEF UnitsOf
    <3> QED BY <1>7, <3>2 DEF Older
  <2> QED BY <2>1, <2>2, <2>3
<1> QED BY <1>3, <1>6, <1>7

\* So does appending an entry.
LEMMA UnitsAppend ==
  ASSUME NEW ss \in Seq(Seq(Unit)), NEW s \in Seq(Unit)
  PROVE  /\ UnitsIn(Append(ss, s)) = UnitsIn(ss) \cup UnitsOf(s)
         /\ (InOrder(ss) /\ Increasing(s) /\ Older(UnitsIn(ss), UnitsOf(s)))
              => InOrder(Append(ss, s))
         /\ (Whole(ss) /\ Len(s) = BlockSize) => Whole(Append(ss, s))
<1> DEFINE S == Seq(Unit)
<1>0. ss \in Seq(S) /\ s \in S
  OBVIOUS
<1> HIDE DEF S
<1>1. PICK n \in Nat : n = Len(ss)
  BY <1>0
<1>2. PICK u \in Seq(S) : u = Append(ss, s)
  BY <1>0, AppendProperties
<1>3. /\ DOMAIN ss = 1..n /\ DOMAIN u = 1..(n + 1)
      /\ \A i \in 1..n : u[i] = ss[i]
      /\ u[n + 1] = s
  BY <1>0, <1>1, <1>2, AppendProperties, LenProperties
<1>4. \A i \in 1..(n + 1) : i \in 1..n \/ i = n + 1
  OBVIOUS
<1>5. UnitsIn(u) = UnitsIn(ss) \cup UnitsOf(s)
  BY <1>3, <1>4 DEF UnitsIn
<1>6. ASSUME InOrder(ss), Increasing(s), Older(UnitsIn(ss), UnitsOf(s))
      PROVE  InOrder(u)
  <2>1. \A i \in DOMAIN u : Increasing(u[i])
    BY <1>3, <1>4, <1>6 DEF InOrder
  <2>2. ASSUME NEW i \in DOMAIN u, NEW j \in DOMAIN u, i < j
        PROVE  Older(UnitsOf(u[i]), UnitsOf(u[j]))
    <3>1. i \in 1..n
      BY <1>3, <2>2
    <3>2. CASE j \in 1..n
      BY <1>3, <1>6, <2>2, <3>1, <3>2 DEF InOrder
    <3>3. CASE j = n + 1
      <4>1. UnitsOf(u[i]) \subseteq UnitsIn(ss)
        BY <1>3, <3>1 DEF UnitsIn
      <4>2. UnitsOf(u[j]) = UnitsOf(s)
        BY <1>3, <3>3
      <4> QED BY <1>6, <4>1, <4>2 DEF Older
    <3> QED BY <1>3, <1>4, <3>2, <3>3
  <2> QED BY <2>1, <2>2 DEF InOrder
<1>7. ASSUME Whole(ss), Len(s) = BlockSize PROVE Whole(u)
  BY <1>3, <1>4, <1>7 DEF Whole
<1> QED BY <1>2, <1>5, <1>6, <1>7

\* The first entry is the oldest.
LEMMA UnitsTail ==
  ASSUME NEW ss \in Seq(Seq(Unit)), ss # <<>>
  PROVE  /\ UnitsIn(ss) = UnitsOf(Head(ss)) \cup UnitsIn(Tail(ss))
         /\ InOrder(ss) => /\ Increasing(Head(ss)) /\ InOrder(Tail(ss))
                           /\ Older(UnitsOf(Head(ss)), UnitsIn(Tail(ss)))
         /\ Whole(ss) => Len(Head(ss)) = BlockSize /\ Whole(Tail(ss))
<1> DEFINE S == Seq(Unit)
<1>0. ss \in Seq(S)
  OBVIOUS
<1> HIDE DEF S
<1>1. PICK n \in Nat \ {0} : n = Len(ss)
  BY <1>0, EmptySeq
<1>2. PICK u \in Seq(S) : u = Tail(ss)
  BY <1>0, HeadTailProperties
<1>3. /\ DOMAIN ss = 1..n /\ DOMAIN u = 1..(n - 1)
      /\ \A i \in 1..(n - 1) : u[i] = ss[i + 1]
      /\ Head(ss) = ss[1]
  BY <1>0, <1>1, <1>2, HeadTailProperties, LenProperties
<1>4. \A i \in 1..(n - 1) : i + 1 \in 1..n /\ 1 < i + 1
  OBVIOUS
<1>5. \A i \in 1..n : i = 1 \/ (i - 1 \in 1..(n - 1) /\ (i - 1) + 1 = i)
  OBVIOUS
<1>6. 1 \in 1..n
  OBVIOUS
<1>7. \A i \in 1..n : i = 1 \/ (i - 1 \in DOMAIN u /\ u[i - 1] = ss[i])
  BY <1>3, <1>5
<1>8. UnitsIn(ss) = UnitsOf(ss[1]) \cup UnitsIn(u)
  <2>1. UnitsIn(ss) \subseteq UnitsOf(ss[1]) \cup UnitsIn(u)
    BY <1>3, <1>7 DEF UnitsIn
  <2>2. UnitsOf(ss[1]) \cup UnitsIn(u) \subseteq UnitsIn(ss)
    BY <1>3, <1>4, <1>6 DEF UnitsIn
  <2> QED BY <2>1, <2>2
<1>9. ASSUME InOrder(ss)
      PROVE  Increasing(ss[1]) /\ InOrder(u) /\ Older(UnitsOf(ss[1]), UnitsIn(u))
  <2>1. Increasing(ss[1]) /\ \A i \in DOMAIN u : Increasing(u[i])
    BY <1>3, <1>4, <1>6, <1>9 DEF InOrder
  <2>2. \A i, j \in DOMAIN u : i < j => i + 1 < j + 1
    BY <1>3
  <2>3. \A i, j \in DOMAIN u : i < j => Older(UnitsOf(u[i]), UnitsOf(u[j]))
    BY <1>3, <1>4, <1>9, <2>2 DEF InOrder
  <2>4. \A i \in DOMAIN u : Older(UnitsOf(ss[1]), UnitsOf(u[i]))
    BY <1>3, <1>4, <1>6, <1>9 DEF InOrder
  <2>5. Older(UnitsOf(ss[1]), UnitsIn(u))
    BY <2>4 DEF Older, UnitsIn
  <2> QED BY <2>1, <2>3, <2>5 DEF InOrder
<1>10. ASSUME Whole(ss) PROVE Len(ss[1]) = BlockSize /\ Whole(u)
  BY <1>3, <1>4, <1>6, <1>10 DEF Whole
<1> QED BY <1>2, <1>3, <1>8, <1>9, <1>10

\* Where blocks start.
LEMMA BlockStarts ==
  ASSUME NEW i \in Nat \ {0}
  PROVE  /\ (i - 1) * BlockSize \in Nat /\ i * BlockSize \in Nat
         /\ (i - 1) * BlockSize + BlockSize = i * BlockSize
         /\ \A j \in Nat \ {0} : i < j => i * BlockSize <= (j - 1) * BlockSize
<1>1. (i - 1) * BlockSize \in Nat /\ i * BlockSize \in Nat
  BY NtripAssumption
<1>2. (i - 1) * BlockSize + BlockSize = i * BlockSize
  BY NtripAssumption
<1>3. ASSUME NEW j \in Nat \ {0}, i < j PROVE i * BlockSize <= (j - 1) * BlockSize
  <2>1. i <= j - 1
    BY <1>3
  <2> QED BY <2>1, NtripAssumption
<1> QED BY <1>1, <1>2, <1>3

\* Cutting a buffer into blocks keeps the order of its units.
LEMMA BlocksOrder ==
  ASSUME NEW b \in Seq(Unit), Increasing(b)
  PROVE  /\ UnitsIn(Blocks(b)) \subseteq UnitsOf(b) /\ UnitsOf(Rest(b)) \subseteq UnitsOf(b)
         /\ Whole(Blocks(b)) /\ InOrder(Blocks(b)) /\ Increasing(Rest(b))
         /\ Older(UnitsIn(Blocks(b)), UnitsOf(Rest(b)))
<1>1. PICK n \in Nat : n = Len(b) \div BlockSize
  BY WholeBlocks
<1>2. PICK c \in Seq(Seq(Unit)) : c = Blocks(b)
  BY BlocksFacts
<1>3. PICK r \in Seq(Unit) : r = Rest(b)
  BY RestFacts
<1>4. PICK hi \in Nat : hi = n * BlockSize
  BY <1>1, WholeBlocks
<1> DEFINE at(i, k) == (i - 1) * BlockSize + k
<1>5. /\ DOMAIN c = 1..n
      /\ \A i \in 1..n : DOMAIN c[i] = 1..BlockSize /\ Len(c[i]) = BlockSize
      /\ \A i \in 1..n, k \in 1..BlockSize : at(i, k) \in DOMAIN b /\ c[i][k] = b[at(i, k)]
  <2> DEFINE S == Seq(Unit)
  <2>1. c \in Seq(S) /\ Len(c) = n
    BY <1>1, <1>2, BlocksFacts
  <2>2. DOMAIN c = 1..n
    <3> HIDE DEF S
    <3> QED BY <2>1, LenProperties
  <2>3. \A i \in 1..n : c[i] \in Seq(Unit) /\ Len(c[i]) = BlockSize
    BY <1>1, <1>2, BlocksFacts
  <2>4. DOMAIN b = 1..Len(b)
    BY LenProperties
  <2>5. \A i \in 1..n : DOMAIN c[i] = 1..BlockSize
    BY <2>3, LenProperties
  <2>6. \A i \in 1..n, k \in 1..BlockSize : at(i, k) \in DOMAIN b /\ c[i][k] = b[at(i, k)]
    BY <1>1, <1>2, <2>4, BlocksFacts
  <2> QED BY <2>2, <2>3, <2>5, <2>6
<1>6. /\ DOMAIN r = 1..Len(r) /\ Len(r) \in Nat
      /\ \A k \in 1..Len(r) : hi + k \in DOMAIN b /\ r[k] = b[hi + k]
  <2>1. DOMAIN b = 1..Len(b) /\ DOMAIN r = 1..Len(r) /\ Len(r) \in Nat
    BY LenProperties
  <2> QED BY <1>1, <1>3, <1>4, <2>1, RestFacts
<1>7. ASSUME NEW i \in 1..n, NEW k \in 1..BlockSize
      PROVE  at(i, k) \in Int /\ at(i, k) <= hi
  <2>1. i \in Nat \ {0} /\ n + 1 \in Nat \ {0} /\ i < n + 1 /\ (n + 1) - 1 = n
    OBVIOUS
  <2>2. PICK lo \in Nat : lo = (i - 1) * BlockSize
    BY <2>1, BlockStarts
  <2>3. PICK up \in Nat : up = i * BlockSize
    BY <2>1, BlockStarts
  <2>4. lo + BlockSize = up
    BY <2>1, <2>2, <2>3, BlockStarts
  <2>5. up <= hi
    BY <1>4, <2>1, <2>3, BlockStarts
  <2>6. at(i, k) = lo + k
    BY <2>2
  <2> HIDE DEF at
  <2> QED BY <2>4, <2>5, <2>6, NtripAssumption
<1>8. ASSUME NEW i \in 1..n, NEW j \in 1..n, NEW k \in 1..BlockSize, NEW l \in 1..BlockSize,
             i < j
      PROVE  at(i, k) < at(j, l)
  <2>1. i \in Nat \ {0} /\ j \in Nat \ {0}
    OBVIOUS
  <2>2. PICK lo \in Nat : lo = (i - 1) * BlockSize
    BY <2>1, BlockStarts
  <2>3. PICK lj \in Nat : lj = (j - 1) * BlockSize
    BY <2>1, BlockStarts
  <2>4. lo + BlockSize <= lj
    BY <1>8, <2>1, <2>2, <2>3, BlockStarts
  <2>5. at(i, k) = lo + k /\ at(j, l) = lj + l
    BY <2>2, <2>3
  <2> HIDE DEF at
  <2> QED BY <2>4, <2>5, NtripAssumption
<1>9. \A i \in 1..n, k, l \in 1..BlockSize : k < l => at(i, k) < at(i, l)
  BY NtripAssumption
<1> HIDE DEF at
<1>10. \A i \in 1..n : UnitsOf(c[i]) = {c[i][k] : k \in 1..BlockSize}
  BY <1>5 DEF UnitsOf
<1>11. ASSUME NEW i \in 1..n PROVE Increasing(c[i])
  <2> SUFFICES ASSUME NEW k \in 1..BlockSize, NEW l \in 1..BlockSize, k < l
               PROVE  c[i][k] < c[i][l]
    BY <1>5 DEF Increasing
  <2>1. at(i, k) < at(i, l)
    BY <1>9
  <2> QED BY <1>5, <2>1 DEF Increasing
<1>12. ASSUME NEW i \in 1..n, NEW j \in 1..n, i < j
       PROVE  Older(UnitsOf(c[i]), UnitsOf(c[j]))
  <2> SUFFICES ASSUME NEW k \in 1..BlockSize, NEW l \in 1..BlockSize
               PROVE  c[i][k] < c[j][l]
    <3>1. UnitsOf(c[i]) = {c[i][k] : k \in 1..BlockSize}
          /\ UnitsOf(c[j]) = {c[j][k] : k \in 1..BlockSize}
      BY <1>10
    <3> QED BY <3>1, Zenon DEF Older
  <2> QED BY <1>5, <1>8, <1>12 DEF Increasing
<1>13. InOrder(c)
  BY <1>5, <1>11, <1>12 DEF InOrder
<1>14. Whole(c)
  BY <1>5 DEF Whole
<1>15. \A u \in UnitsIn(c) : \E i \in 1..n, k \in 1..BlockSize : u = c[i][k]
  BY <1>5, <1>10 DEF UnitsIn
<1>16. UnitsIn(c) \subseteq UnitsOf(b)
  BY <1>5, <1>15 DEF UnitsOf
<1>17. UnitsOf(r) \subseteq UnitsOf(b)
  BY <1>6 DEF UnitsOf
<1>18. Increasing(r)
  <2> SUFFICES ASSUME NEW k \in 1..Len(r), NEW l \in 1..Len(r), k < l
               PROVE  r[k] < r[l]
    BY <1>6 DEF Increasing
  <2>1. hi + k < hi + l
    BY <1>6
  <2> QED BY <1>6, <2>1 DEF Increasing
<1>19. Older(UnitsIn(c), UnitsOf(r))
  <2> SUFFICES ASSUME NEW i \in 1..n, NEW k \in 1..BlockSize, NEW l \in 1..Len(r)
               PROVE  c[i][k] < r[l]
    <3>1. UnitsOf(r) = {r[l] : l \in 1..Len(r)}
      BY <1>6 DEF UnitsOf
    <3> QED BY <1>15, <3>1, Zenon DEF Older
  <2>1. at(i, k) < hi + l
    BY <1>6, <1>7
  <2> QED BY <1>5, <1>6, <2>1 DEF Increasing
<1> QED BY <1>2, <1>3, <1>13, <1>14, <1>16, <1>17, <1>18, <1>19

\* What a read takes from the stream is in order and newer than what was sent.
LEMMA ReadOrder ==
  ASSUME NEW k \in Nat, next_unit \in 1..(MaxUnits + 1), next_unit + k <= MaxUnits + 1
  PROVE  /\ Increasing(Units(k))
         /\ \A u \in UnitsOf(Units(k)) : next_unit <= u /\ u < next_unit + k
<1>1. DOMAIN Units(k) = 1..k /\ \A i \in 1..k : Units(k)[i] = next_unit + i - 1
  BY DEF Units
<1>2. next_unit \in Nat
  BY NtripAssumption
<1> QED BY <1>1, <1>2 DEF Increasing, UnitsOf

-----------------------------------------------------------------------------
(* Delivery in order.                                                      *)

\* What has left the pipeline.
Emitted ==
  /\ Whole(delivered) /\ InOrder(delivered)
  /\ Increasing(recording)

\* The pipeline from the socket to the callbacks and the recording.
Flow ==
  /\ Whole(messages) /\ InOrder(messages)
  /\ Increasing(rtcm_buffer) /\ InOrder(queue) /\ Increasing(chunk)
  /\ Older(UnitsIn(delivered), UnitsIn(messages) \cup UnitsOf(rtcm_buffer))
  /\ Older(UnitsIn(messages), UnitsOf(rtcm_buffer))
  /\ Older(UnitsIn(delivered) \cup UnitsIn(messages) \cup UnitsOf(rtcm_buffer)
             \cup UnitsOf(recording), UnitsIn(queue) \cup UnitsOf(chunk))
  /\ Older(UnitsIn(queue), UnitsOf(chunk))

\* All units held anywhere but in pending_data_.
Held == UnitsIn(delivered) \cup UnitsIn(messages) \cup UnitsOf(rtcm_buffer)
          \cup UnitsOf(recording) \cup UnitsIn(queue) \cup UnitsOf(chunk)

\* All of them have been sent, and pending_data_ is newer than the rest.
Fresh ==
  /\ \A u \in Held \cup UnitsOf(pending) : u < next_unit
  /\ Increasing(pending)
  /\ Abandoned \/ Older(Held, UnitsOf(pending))

\* What was emitted stays in order; the rest matters while the client lives.
OrderInv == Emitted /\ (status = "running" => Flow /\ Fresh)

\* A client that has ended stays so, and abandoned threads stay abandoned.
LEMMA Persists ==
  TypeOK /\ [Next]_vars /\ status' = "running"
    => status = "running" /\ (Abandoned => Abandoned')
<1> SUFFICES ASSUME FlagTypes, PcTypes, [Next]_vars, status' = "running"
             PROVE  status = "running" /\ (Abandoned => Abandoned')
  BY TypeParts
<1> USE NtripAssumption DEF flags, data, ends, locals, world, PcTypes, FlagTypes, Threads, Points,
        AppPc, RecvPc, ProcPc, Abandoned
<1>1. CASE CasterCloses
  BY <1>1 DEF CasterCloses
<1>2. CASE CallConnect
  BY <1>2 DEF CallConnect, At, Goto
<1>3. CASE StartReceiving
  BY <1>3 DEF StartReceiving, At, ResetQueue
<1>4. CASE Disconnect
  BY <1>4 DEF Disconnect, At, Goto
<1>5. ASSUME NEW t \in {"app", "recv"}, ConnectCheck(t) PROVE status = "running"
             /\ (Abandoned => Abandoned')
  BY <1>5 DEF ConnectCheck, At, Returns, Goto
<1>6. ASSUME NEW t \in {"app", "recv"}, ConnectSocket(t) PROVE status = "running"
             /\ (Abandoned => Abandoned')
  BY <1>6 DEF ConnectSocket, At, Throws, Goto
<1>7. ASSUME NEW t \in {"app", "recv"}, Response(t) PROVE status = "running"
             /\ (Abandoned => Abandoned')
  BY <1>7 DEF Response, At, Throws, Goto
<1>8. ASSUME NEW t \in {"app", "recv"}, ConnectFailed(t) PROVE status = "running"
             /\ (Abandoned => Abandoned')
  BY <1>8 DEF ConnectFailed, At, Returns, CloseConnection, Goto
<1>9. ASSUME NEW t \in {"app", "recv"}, Established(t) PROVE status = "running"
             /\ (Abandoned => Abandoned')
  BY <1>9 DEF Established, At, Returns, Goto
<1>10. CASE StopReceiving
  BY <1>10 DEF StopReceiving, At, Goto
<1>11. CASE StopNotify
  BY <1>11 DEF StopNotify, At, WakeProcess
<1>12. CASE StopJoin
  BY <1>12 DEF StopJoin, At
<1>13. CASE DisconnectClose
  BY <1>13 DEF DisconnectClose, At, CloseConnection, Goto
<1>14. CASE DisconnectReturn
  BY <1>14 DEF DisconnectReturn, At, Goto
<1>15. CASE GetSourceTable
  BY <1>15 DEF GetSourceTable, At, CloseConnection, Goto
<1>16. CASE ReceiveLoop
  BY <1>16 DEF ReceiveLoop, At, KeepReceiving, Goto
<1>17. CASE SendGGA
  BY <1>17 DEF SendGGA, At, Throws, Goto
<1>18. CASE ReceiveData
  BY <1>18 DEF ReceiveData, At, Throws, Goto
<1>19. CASE PushData
  BY <1>19 DEF PushData, At, Enqueue, Goto
<1>20. CASE PushNotify
  BY <1>20 DEF PushNotify, At, WakeProcess
<1>21. CASE ConnectionLost
  BY <1>21 DEF ConnectionLost, At, Goto
<1>22. CASE HandleReconnect
  BY <1>22 DEF HandleReconnect, At, KeepTrying, Goto
<1>23. CASE ReconnectSlept
  BY <1>23 DEF ReconnectSlept, At, Goto
<1>24. CASE ReconnectClose
  BY <1>24 DEF ReconnectClose, At, CloseConnection, Goto
<1>25. CASE ReconnectGiveUp
  BY <1>25 DEF ReconnectGiveUp, At, Throws, Goto
<1>26. CASE ReceiveCatch
  BY <1>26 DEF ReceiveCatch, At, WakeProcess, Goto
<1>27. CASE ProcessLoop
  BY <1>27 DEF ProcessLoop, At, Goto
<1>28. CASE ProcessTake
  BY <1>28 DEF ProcessTake, At, Goto
<1>29. CASE ProcessWait
  BY <1>29 DEF ProcessWait, At, Goto
<1>30. CASE ProcessDeliver
  BY <1>30 DEF ProcessDeliver, At, Goto
<1>31. CASE ProcessCatch
  BY <1>31 DEF ProcessCatch, At, Goto
<1>32. CASE SpuriousWakeup
  BY <1>32 DEF SpuriousWakeup, At, Goto
<1>33. CASE UNCHANGED vars
  BY <1>33 DEF vars
<1> QED
  BY <1>1, <1>2, <1>3, <1>4, <1>5, <1>6, <1>7, <1>8, <1>9, <1>10, <1>11, <1>12, <1>13, <1>14,
     <1>15, <1>16, <1>17, <1>18, <1>19, <1>20, <1>21, <1>22, <1>23, <1>24, <1>25, <1>26,
     <1>27, <1>28, <1>29, <1>30, <1>31, <1>32, <1>33
  DEF Next, AppCalls, AppSteps, Connect, ReceiveThread, ProcessThread, Ended

\* ProcessThread() takes the oldest entry of the queue.
LEMMA TakeOrder ==
  ASSUME DataTypes, Emitted, Flow, Fresh, ProcessTake, Abandoned => Abandoned'
  PROVE  Emitted' /\ Flow' /\ Fresh'
<1>1. CASE UNCHANGED <<queue, rtcm_buffer, recording, messages>>
  <2>1. UNCHANGED units
    BY <1>1 DEF ProcessTake, units, world
  <2> QED BY <2>1 DEF Emitted, Flow, Fresh, Held, units
<1>2. CASE /\ queue # <<>> /\ queue' = Tail(queue)
           /\ recording' = IF file_open THEN recording \o Head(queue) ELSE recording
           /\ messages' = Blocks(Buffered(Head(queue)))
           /\ rtcm_buffer' = Rest(Buffered(Head(queue)))
  <2>1. PICK d \in Seq(Unit) : d = Head(queue)
    BY <1>2 DEF DataTypes
  <2>2. PICK b \in Seq(Unit) : b = Buffered(d)
    BY BufferedType DEF DataTypes
  <2>3. /\ UnitsIn(queue) = UnitsOf(d) \cup UnitsIn(queue')
        /\ Increasing(d) /\ InOrder(queue') /\ Older(UnitsOf(d), UnitsIn(queue'))
    BY <1>2, <2>1, UnitsTail DEF DataTypes, Flow
  <2>4. Older(UnitsOf(rtcm_buffer), UnitsOf(d)) /\ Older(UnitsOf(recording), UnitsOf(d))
    BY <2>3 DEF Flow, Older
  <2>5. UnitsOf(b) \subseteq UnitsOf(rtcm_buffer) \cup UnitsOf(d) /\ Increasing(b)
    <3>1. b = d \/ b = rtcm_buffer \o d
      BY <2>2 DEF Buffered
    <3>2. CASE b = d
      BY <2>3, <3>2
    <3>3. CASE b = rtcm_buffer \o d
      BY <2>3, <2>4, <3>3, UnitsConcat DEF Flow, DataTypes
    <3> QED BY <3>1, <3>2, <3>3
  <2>6. UnitsOf(recording') \subseteq UnitsOf(recording) \cup UnitsOf(d)
        /\ Increasing(recording')
    <3>1. recording' = recording \/ recording' = recording \o d
      BY <1>2, <2>1
    <3>2. CASE recording' = recording
      BY <3>2 DEF Emitted
    <3>3. CASE recording' = recording \o d
      BY <2>3, <2>4, <3>3, UnitsConcat DEF Emitted, DataTypes
    <3> QED BY <3>1, <3>2, <3>3
  <2>7. /\ UnitsIn(messages') \subseteq UnitsOf(b) /\ UnitsOf(rtcm_buffer') \subseteq UnitsOf(b)
        /\ Whole(messages') /\ InOrder(messages') /\ Increasing(rtcm_buffer')
        /\ Older(UnitsIn(messages'), UnitsOf(rtcm_buffer'))
    BY <1>2, <2>1, <2>2, <2>5, BlocksOrder
  <2>8. delivered' = delivered /\ chunk' = chunk /\ pending' = pending /\ next_unit' = next_unit
    BY <1>2 DEF ProcessTake, world
  <2>9. Emitted'
    BY <2>6, <2>8 DEF Emitted
  <2>10. Older(UnitsIn(delivered'), UnitsIn(messages') \cup UnitsOf(rtcm_buffer'))
    BY <2>3, <2>5, <2>7, <2>8 DEF Flow, Older
  <2>11. Older(UnitsIn(delivered') \cup UnitsIn(messages') \cup UnitsOf(rtcm_buffer')
             \cup UnitsOf(recording'), UnitsIn(queue') \cup UnitsOf(chunk'))
    BY <2>3, <2>5, <2>6, <2>7, <2>8 DEF Flow, Older
  <2>12. Older(UnitsIn(queue'), UnitsOf(chunk')) /\ Increasing(chunk')
    BY <2>3, <2>8 DEF Flow, Older
  <2>13. Flow'
    BY <2>3, <2>7, <2>10, <2>11, <2>12 DEF Flow
  <2>14. Held' \subseteq Held
    BY <2>3, <2>5, <2>6, <2>7, <2>8 DEF Held
  <2>15. Fresh'
    BY <2>8, <2>14 DEF Fresh, Older
  <2> QED BY <2>9, <2>13, <2>15
<1> QED BY <1>1, <1>2 DEF ProcessTake

\* Dropping blocks that wait for the callbacks.
LEMMA Dropped ==
  ASSUME Emitted, Flow, Fresh, messages' = <<>>, Abandoned => Abandoned',
         UNCHANGED <<delivered, rtcm_buffer, queue, chunk, recording, pending, next_unit>>
  PROVE  Emitted' /\ Flow' /\ Fresh'
<1>1. UnitsIn(messages') = {} /\ InOrder(messages') /\ Whole(messages')
  BY UnitsEmpty
<1>2. Emitted'
  BY DEF Emitted
<1>3. Flow'
  BY <1>1 DEF Flow, Older
<1>4. Held' \subseteq Held
  BY <1>1 DEF Held
<1>5. Fresh'
  BY <1>4 DEF Fresh, Older
<1> QED BY <1>2, <1>3, <1>5

\* The callbacks get the oldest block.
LEMMA DeliverOrder ==
  ASSUME DataTypes, Emitted, Flow, Fresh, ProcessDeliver, Abandoned => Abandoned'
  PROVE  Emitted' /\ Flow' /\ Fresh'
<1>0. /\ UNCHANGED <<rtcm_buffer, queue, chunk, recording, pending, next_unit>>
  BY DEF ProcessDeliver, data
<1>1. CASE messages # <<>> /\ delivered' = Append(delivered, Head(messages))
                           /\ messages' = Tail(messages)
  <2>1. PICK d \in Seq(Unit) : d = Head(messages)
    BY <1>1 DEF DataTypes
  <2>2. /\ UnitsIn(messages) = UnitsOf(d) \cup UnitsIn(messages')
        /\ Increasing(d) /\ InOrder(messages') /\ Older(UnitsOf(d), UnitsIn(messages'))
        /\ Len(d) = BlockSize /\ Whole(messages')
    BY <1>1, <2>1, UnitsTail DEF DataTypes, Flow
  <2>3. Older(UnitsIn(delivered), UnitsOf(d))
    BY <2>2 DEF Flow, Older
  <2>4. /\ UnitsIn(delivered') = UnitsIn(delivered) \cup UnitsOf(d)
        /\ InOrder(delivered') /\ Whole(delivered')
    BY <1>1, <2>1, <2>2, <2>3, UnitsAppend DEF DataTypes, Emitted
  <2>5. Emitted'
    BY <1>0, <2>4 DEF Emitted
  <2>6. Older(UnitsIn(delivered'), UnitsIn(messages') \cup UnitsOf(rtcm_buffer'))
    BY <1>0, <2>2, <2>4 DEF Flow, Older
  <2>7. Older(UnitsIn(messages'), UnitsOf(rtcm_buffer'))
    BY <1>0, <2>2 DEF Flow, Older
  <2>8. Older(UnitsIn(delivered') \cup UnitsIn(messages') \cup UnitsOf(rtcm_buffer')
             \cup UnitsOf(recording'), UnitsIn(queue') \cup UnitsOf(chunk'))
    BY <1>0, <2>2, <2>4 DEF Flow, Older
  <2>9. Flow'
    BY <1>0, <2>2, <2>6, <2>7, <2>8 DEF Flow
  <2>10. Held' \subseteq Held
    BY <1>0, <2>2, <2>4 DEF Held
  <2>11. Fresh'
    BY <1>0, <2>10 DEF Fresh, Older
  <2> QED BY <2>5, <2>9, <2>11
<1>2. CASE messages' = <<>> /\ UNCHANGED delivered
  BY <1>0, <1>2, Dropped
<1> QED BY <1>1, <1>2 DEF ProcessDeliver

\* PushData() appends the chunk, dropping the oldest entry of a full queue.
LEMMA PushOrder ==
  ASSUME DataTypes, Emitted, Flow, Fresh, PushData, Abandoned => Abandoned'
  PROVE  Emitted' /\ Flow' /\ Fresh'
<1>0. UNCHANGED <<rtcm_buffer, messages, delivered, recording, pending, next_unit>>
      /\ chunk' = <<>>
  BY DEF PushData, world
<1>1. PICK q \in Seq(Seq(Unit)) :
        q = IF Len(queue) >= max_queue_size THEN Tail(queue) ELSE queue
  BY RoomType DEF DataTypes
<1>2. UnitsIn(q) \subseteq UnitsIn(queue) /\ InOrder(q)
  <2>1. CASE q = queue
    BY <2>1 DEF Flow
  <2>2. CASE q = Tail(queue) /\ queue # <<>>
    BY <2>2, UnitsTail DEF Flow, DataTypes
  <2>3. Len(queue) >= max_queue_size => queue # <<>>
    BY NtripAssumption
  <2> QED BY <1>1, <2>1, <2>2, <2>3
<1>3. queue' = Append(q, chunk)
  BY <1>1 DEF PushData, Enqueue
<1>4. Older(UnitsIn(q), UnitsOf(chunk)) /\ Increasing(chunk) /\ chunk \in Seq(Unit)
  BY <1>2 DEF Flow, Older, DataTypes
<1>5. UnitsIn(queue') = UnitsIn(q) \cup UnitsOf(chunk) /\ InOrder(queue')
  BY <1>2, <1>3, <1>4, UnitsAppend
<1>6. UnitsOf(chunk') = {} /\ Increasing(chunk')
  BY <1>0, UnitsEmpty
<1>7. Emitted'
  BY <1>0 DEF Emitted
<1>8. Older(UnitsIn(delivered') \cup UnitsIn(messages') \cup UnitsOf(rtcm_buffer')
             \cup UnitsOf(recording'), UnitsIn(queue') \cup UnitsOf(chunk'))
  BY <1>0, <1>2, <1>5, <1>6 DEF Flow, Older
<1>9. Older(UnitsIn(queue'), UnitsOf(chunk'))
  BY <1>6 DEF Older
<1>10. Flow'
  BY <1>0, <1>5, <1>6, <1>8, <1>9 DEF Flow
<1>11. Held' \subseteq Held
  BY <1>0, <1>2, <1>5, <1>6 DEF Held
<1>12. Fresh'
  BY <1>0, <1>11 DEF Fresh, Older
<1> QED BY <1>7, <1>10, <1>12

\* All units are numbers.
LEMMA HeldType ==
  ASSUME DataTypes
  PROVE  Held \subseteq Nat /\ UnitsOf(pending) \subseteq Nat /\ next_unit \in Nat
<1>1. Unit \subseteq Nat /\ next_unit \in Nat
  BY NtripAssumption DEF Unit, DataTypes
<1>2. /\ UnitsOf(pending) \subseteq Unit /\ UnitsOf(rtcm_buffer) \subseteq Unit
      /\ UnitsOf(recording) \subseteq Unit /\ UnitsOf(chunk) \subseteq Unit
      /\ UnitsIn(queue) \subseteq Unit /\ UnitsIn(messages) \subseteq Unit
      /\ UnitsIn(delivered) \subseteq Unit
  BY UnitsType DEF DataTypes
<1> QED BY <1>1, <1>2 DEF Held

\* ReceiveData(): what is read is newer than everything held.
LEMMA ReadStepOrder ==
  ASSUME DataTypes, Emitted, Flow, Fresh, ReceiveData, Abandoned => Abandoned',
         SocketOwned, HandOver
  PROVE  Emitted' /\ Flow' /\ Fresh'
<1>0. UNCHANGED <<rtcm_buffer, queue, messages, delivered, recording, pending>>
  BY DEF ReceiveData, data
<1>1. CASE UNCHANGED <<chunk, next_unit>>
  <2>1. UNCHANGED units
    BY <1>0, <1>1 DEF units
  <2> QED BY <2>1 DEF Emitted, Flow, Fresh, Held, units
<1>2. CASE \E k \in 1..MaxRead : /\ next_unit + k <= MaxUnits + 1
                                 /\ chunk' = Units(k) /\ next_unit' = next_unit + k
  <2>1. PICK k \in 1..MaxRead : /\ next_unit + k <= MaxUnits + 1
                                /\ chunk' = Units(k) /\ next_unit' = next_unit + k
    BY <1>2
  <2>2. /\ Increasing(chunk')
        /\ \A u \in UnitsOf(chunk') : next_unit <= u /\ u < next_unit'
    BY <2>1, ReadOrder DEF DataTypes
  <2>3. UnitsOf(chunk') \subseteq Nat /\ next_unit < next_unit' /\ next_unit' \in Nat
    <3>1. chunk' \in Seq(Unit)
      BY <2>1, UnitsFacts DEF DataTypes
    <3>2. UnitsOf(chunk') \subseteq Unit
      BY <3>1, UnitsType
    <3>3. Unit \subseteq Nat
      BY NtripAssumption DEF Unit
    <3>4. next_unit < next_unit' /\ next_unit' \in Nat
      BY <2>1, HeldType
    <3> QED BY <3>2, <3>3, <3>4
  <2>4. Older(Held, UnitsOf(chunk'))
    BY <2>2, <2>3, HeldType DEF Fresh, Older
  <2>5. Emitted'
    BY <1>0 DEF Emitted
  <2>6. Flow'
    BY <1>0, <2>2, <2>4 DEF Flow, Older, Held
  <2>7. Held' \subseteq Held \cup UnitsOf(chunk')
    BY <1>0 DEF Held
  <2>8. \A u \in Held \cup UnitsOf(pending) : u < next_unit'
    BY <2>3, HeldType DEF Fresh
  <2>9. \A u \in Held' \cup UnitsOf(pending') : u < next_unit'
    BY <1>0, <2>2, <2>7, <2>8
  <2>10. pending = <<>> \/ Abandoned'
    BY DEF SocketOwned, Reading, ReceiveData, At
  <2>11. Older(Held', UnitsOf(pending')) \/ Abandoned'
    BY <1>0, <2>10, UnitsEmpty DEF Older
  <2>12. Fresh'
    BY <1>0, <2>9, <2>11 DEF Fresh
  <2> QED BY <2>5, <2>6, <2>12
<1> QED BY <1>1, <1>2 DEF ReceiveData

\* ReceiveResponse(): what came behind the header is newer than everything held.
LEMMA ResponseOrder ==
  ASSUME DataTypes, Emitted, Flow, Fresh, Abandoned => Abandoned',
         NEW t \in {"app", "recv"}, Response(t)
  PROVE  Emitted' /\ Flow' /\ Fresh'
<1>0. UNCHANGED <<rtcm_buffer, queue, chunk, messages, delivered, recording>>
  BY DEF Response, locals
<1>1. CASE UNCHANGED <<pending, next_unit>>
  <2>1. UNCHANGED units
    BY <1>0, <1>1 DEF units
  <2> QED BY <2>1 DEF Emitted, Flow, Fresh, Held, units
<1>2. CASE \E k \in 0..MaxRead, j \in 0..MaxRead :
             /\ j <= k /\ next_unit + k <= MaxUnits + 1
             /\ pending' = IF j > 0 THEN Units(j) ELSE pending
             /\ next_unit' = next_unit + k
  <2>1. PICK k \in 0..MaxRead, j \in 0..MaxRead :
             /\ j <= k /\ next_unit + k <= MaxUnits + 1
             /\ pending' = IF j > 0 THEN Units(j) ELSE pending
             /\ next_unit' = next_unit + k
    BY <1>2
  <2>2. /\ k \in Nat /\ j \in Nat /\ next_unit + j <= MaxUnits + 1
        /\ next_unit <= next_unit' /\ next_unit + j <= next_unit' /\ next_unit' \in Nat
    <3>1. next_unit \in Nat /\ MaxUnits \in Nat /\ MaxRead \in Nat
      BY HeldType, NtripAssumption
    <3> QED BY <2>1, <3>1
  <2>3. Emitted'
    BY <1>0 DEF Emitted
  <2>4. Flow'
    BY <1>0 DEF Flow
  <2>5. Held' = Held
    BY <1>0 DEF Held
  <2>6. \A u \in Held \cup UnitsOf(pending) : u < next_unit'
    BY <2>2, HeldType DEF Fresh
  <2>7. CASE j = 0
    <3>1. pending' = pending
      BY <2>1, <2>7
    <3> QED BY <2>3, <2>4, <2>5, <2>6, <3>1 DEF Fresh
  <2>8. CASE j > 0
    <3>1. pending' = Units(j)
      BY <2>1, <2>8
    <3>2. /\ Increasing(pending')
          /\ \A u \in UnitsOf(pending') : next_unit <= u /\ u < next_unit + j
      BY <2>2, <3>1, ReadOrder DEF DataTypes
    <3>3. UnitsOf(pending') \subseteq Nat
      <4>1. pending' \in Seq(Unit)
        BY <2>2, <3>1, UnitsFacts DEF DataTypes
      <4>2. UnitsOf(pending') \subseteq Unit
        BY <4>1, UnitsType
      <4>3. Unit \subseteq Nat
        BY NtripAssumption DEF Unit
      <4> QED BY <4>2, <4>3
    <3>4. \A u \in UnitsOf(pending') : u < next_unit'
      BY <2>2, <3>2, <3>3, HeldType
    <3>5. Older(Held, UnitsOf(pending'))
      BY <3>2, <3>3, HeldType DEF Older, Fresh
    <3> QED BY <2>3, <2>4, <2>5, <2>6, <3>2, <3>4, <3>5 DEF Fresh
  <2> QED BY <2>2, <2>7, <2>8
<1> QED BY <1>1, <1>2 DEF Response

\* StartReceiving() where no threads are left: what came with the response is
\* all that is in the pipeline, and newer than what has left it.
LEMMA StartOrder ==
  ASSUME TypeOK, Emitted, Flow, Fresh, HandOver, StartReceiving
  PROVE  Emitted' /\ (status' = "running" => Flow' /\ Fresh')
<1>0. UNCHANGED <<delivered, messages, chunk, next_unit>>
  BY DEF StartReceiving, world
<1>1. UnitsOf(recording') \subseteq UnitsOf(recording) /\ Increasing(recording')
  <2>1. recording' = recording \/ recording' = <<>>
    BY DEF StartReceiving
  <2> QED BY <2>1, UnitsEmpty DEF Emitted
<1>2. Emitted'
  BY <1>0, <1>1 DEF Emitted
<1>3. ASSUME status' = "running" PROVE Flow' /\ Fresh'
  <2>1. ~joinable
    BY <1>3 DEF StartReceiving
  <2>2. pc["recv"] = "none" /\ pc["proc"] = "none"
    BY <2>1 DEF TypeOK
  <2>3. messages = <<>> /\ chunk = <<>> /\ ~Abandoned
    BY <2>1, <2>2 DEF HandOver, Abandoned
  <2>4. rtcm_buffer' = <<>> /\ pending' = <<>>
    BY DEF StartReceiving, ResetQueue
  <2>5. UnitsIn(queue') = UnitsOf(pending) /\ InOrder(queue')
    <3>1. CASE pending = <<>>
      <4>1. queue' = <<>>
        BY <3>1 DEF StartReceiving, ResetQueue
      <4> QED BY <3>1, <4>1, UnitsEmpty
    <3>2. CASE pending # <<>>
      <4>1. queue' = <<pending>>
        BY <3>2 DEF StartReceiving, ResetQueue
      <4> QED BY <4>1, UnitsSingle DEF Fresh
    <3> QED BY <3>1, <3>2
  <2>6. /\ UnitsIn(messages') = {} /\ UnitsOf(chunk') = {} /\ UnitsOf(rtcm_buffer') = {}
        /\ UnitsOf(pending') = {}
        /\ InOrder(messages') /\ Whole(messages') /\ Increasing(chunk')
        /\ Increasing(rtcm_buffer') /\ Increasing(pending')
    BY <1>0, <2>3, <2>4, UnitsEmpty
  <2>7. UnitsIn(delivered') \cup UnitsOf(recording') \subseteq Held
    BY <1>0, <1>1 DEF Held
  <2>8. Older(Held, UnitsOf(pending))
    BY <2>3 DEF Fresh
  <2>9. Flow'
    BY <2>5, <2>6, <2>7, <2>8 DEF Flow, Older
  <2>10. Held' \subseteq Held \cup UnitsOf(pending)
    BY <2>5, <2>6, <2>7 DEF Held
  <2>11. Fresh'
    BY <1>0, <2>6, <2>10 DEF Fresh, Older
  <2> QED BY <2>9, <2>11
<1> QED BY <1>2, <1>3

\* OrderInv is inductive given the types and OwnInv.
LEMMA OrderStep ==
  TypeOK /\ OwnInv /\ OrderInv /\ [Next]_vars => OrderInv'
<1> SUFFICES ASSUME TypeOK, OwnInv, OrderInv, [Next]_vars
             PROVE  OrderInv'
  OBVIOUS
<1>1. DataTypes
  BY TypeParts
<1>2. CASE UNCHANGED units
  <2>1. Emitted'
    BY <1>2 DEF OrderInv, Emitted, units
  <2>2. ASSUME status' = "running" PROVE Flow' /\ Fresh'
    <3>1. status = "running" /\ (Abandoned => Abandoned')
      BY <2>2, Persists
    <3>2. Flow /\ Fresh
      BY <3>1 DEF OrderInv
    <3> QED BY <1>2, <3>1, <3>2 DEF Flow, Fresh, Held, units
  <2> QED BY <2>1, <2>2 DEF OrderInv
<1>3. CASE ~UNCHANGED units
  <2>1. \/ StartReceiving \/ ReceiveData \/ PushData \/ ProcessTake \/ ProcessDeliver
        \/ ProcessCatch \/ (\E t \in {"app", "recv"} : Response(t))
    BY <1>3, UnitSteps
  <2>2. status = "running"
    BY <2>1 DEF StartReceiving, ReceiveData, PushData, ProcessTake, ProcessDeliver,
                ProcessCatch, Response, At
  <2>3. Emitted /\ Flow /\ Fresh /\ SocketOwned /\ HandOver
    BY <2>2 DEF OrderInv, OwnInv
  <2>4. CASE StartReceiving
    BY <2>3, <2>4, StartOrder DEF OrderInv
  <2>5. CASE ~StartReceiving
    <3>1. status' = "running"
      BY <2>1, <2>2, <2>5 DEF ReceiveData, PushData, ProcessTake, ProcessDeliver,
                              ProcessCatch, Response, ends
    <3>2. Abandoned => Abandoned'
      BY <3>1, Persists
    <3>3. CASE ProcessCatch
      <4>1. /\ messages' = <<>>
            /\ UNCHANGED <<delivered, rtcm_buffer, queue, chunk, recording, pending, next_unit>>
        BY <3>3 DEF ProcessCatch, data, world
      <4> QED BY <2>3, <3>2, <4>1, Dropped DEF OrderInv
    <3>4. CASE ReceiveData
      BY <1>1, <2>3, <3>2, <3>4, ReadStepOrder DEF OrderInv
    <3>5. CASE PushData
      BY <1>1, <2>3, <3>2, <3>5, PushOrder DEF OrderInv
    <3>6. CASE ProcessTake
      BY <1>1, <2>3, <3>2, <3>6, TakeOrder DEF OrderInv
    <3>7. CASE ProcessDeliver
      BY <1>1, <2>3, <3>2, <3>7, DeliverOrder DEF OrderInv
    <3>8. CASE \E t \in {"app", "recv"} : Response(t)
      BY <1>1, <2>3, <3>2, <3>8, ResponseOrder DEF OrderInv
    <3> QED BY <2>1, <2>5, <3>3, <3>4, <3>5, <3>6, <3>7, <3>8
  <2> QED BY <2>4, <2>5
<1> QED BY <1>2, <1>3

\* Nothing is held at first.
LEMMA OrderInit == Init => OwnInv /\ OrderInv
<1> SUFFICES ASSUME Init PROVE OwnInv /\ OrderInv
  OBVIOUS
<1>1. OwnInv
  BY DEF Init, OwnInv, SocketOwned, HandOver, Reading, Connecting
<1>2. /\ pending = <<>> /\ queue = <<>> /\ rtcm_buffer = <<>> /\ recording = <<>>
      /\ chunk = <<>> /\ messages = <<>> /\ delivered = <<>>
  BY DEF Init
<1>3. Held = {} /\ UnitsOf(pending) = {}
  BY <1>2, UnitsEmpty DEF Held
<1>4. Emitted
  BY <1>2, UnitsEmpty DEF Emitted
<1>5. Flow
  BY <1>2, UnitsEmpty DEF Flow, Older
<1>6. Fresh
  BY <1>2, <1>3, UnitsEmpty DEF Fresh, Older
<1> QED BY <1>1, <1>4, <1>5, <1>6 DEF OrderInv

\* The emitted part of OrderInv is the property the runs check.
LEMMA OrderDelivered == TypeOK /\ Emitted => DeliveredInOrder
<1> SUFFICES ASSUME TypeOK, Emitted PROVE DeliveredInOrder
  OBVIOUS
<1>1. \A i \in DOMAIN delivered : Len(delivered[i]) = BlockSize
  BY DEF Emitted, Whole
<1>2. \A a, b \in DOMAIN recording : a < b => recording[a] < recording[b]
  BY DEF Emitted, Increasing
<1>3. ASSUME NEW i \in DOMAIN delivered
      PROVE  DOMAIN delivered[i] = 1..BlockSize
  <2> DEFINE S == Seq(Unit)
  <2>1. delivered \in Seq(S)
    BY DEF TypeOK
  <2>2. delivered[i] \in S
    <3> HIDE DEF S
    <3> QED BY <2>1, LenProperties, ElementOfSeq
  <2> QED BY <1>1, <2>2, LenProperties
<1>4. ASSUME NEW i \in DOMAIN delivered, NEW j \in DOMAIN delivered,
             NEW a \in 1..BlockSize, NEW b \in 1..BlockSize,
             i < j \/ (i = j /\ a < b)
      PROVE  delivered[i][a] < delivered[j][b]
  <2>1. a \in DOMAIN delivered[i] /\ b \in DOMAIN delivered[j]
    BY <1>3
  <2>2. CASE i < j
    <3>1. Older(UnitsOf(delivered[i]), UnitsOf(delivered[j]))
      BY <2>2 DEF Emitted, InOrder
    <3>2. delivered[i][a] \in UnitsOf(delivered[i]) /\ delivered[j][b] \in UnitsOf(delivered[j])
      BY <2>1 DEF UnitsOf
    <3> QED BY <3>1, <3>2 DEF Older
  <2>3. CASE i = j /\ a < b
    <3>1. Increasing(delivered[i])
      BY DEF Emitted, InOrder
    <3> QED BY <2>1, <2>3, <3>1 DEF Increasing
  <2> QED BY <1>4, <2>2, <2>3
<1> QED BY <1>1, <1>2, <1>4 DEF DeliveredInOrder

\* Unless GetSourceTable() is called, which takes the socket from under a
\* running receive thread, the callbacks and the recording get the caster's
\* units in order and at most once, for every size of queue, read and block.
THEOREM Ordered == ASSUME ~UseSourceTable PROVE Spec => []DeliveredInOrder
<1>1. Init => StopInv
  BY DEF Init, StopInv, Stopping, TerminatesOnlyAfterSelfStop
<1>2. TypeOK /\ StopInv /\ OwnInv /\ [Next]_vars => OwnInv'
  BY OwnStep
<1>3. TypeOK /\ OrderInv => DeliveredInOrder
  BY OrderDelivered DEF OrderInv
<1> QED BY <1>1, <1>2, <1>3, OrderInit, StopStep, OrderStep, TypeCorrect, PTL DEF Spec
=============================================================================
