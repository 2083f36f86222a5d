----------------------------- MODULE FrameSync -----------------------------
(***************************************************************************)
(* SbfFrameSync (src/sbf/frame_sync.cpp): cuts a TCP byte stream into SBF  *)
(* blocks.  feed() is modelled loop iteration by loop iteration, because   *)
(* what it leaves in buf_ when the loop stalls is what the next call       *)
(* starts from: pc = "scan" is "inside feed()", pc = "ready" "between two  *)
(* calls".  The caller cuts the stream into chunks as it likes.            *)
(***************************************************************************)
EXTENDS SbfWire

CONSTANT MaxChunk    \* most bytes handed to one feed() call

ASSUME MaxChunkAssumption == MaxChunk \in Nat

VARIABLES
  stream,       \* environment: all the bytes of this connection
  fed,          \* environment: how many of them were passed to feed()
  buf,          \* buf_
  state,        \* state_
  frame_drain,  \* frame_drain_
  stats,        \* stats_
  pc, pos, frame_start,  \* feed()'s control point and locals
  out,          \* history: blocks emitted, with their stream offset
  origin,       \* history: stream offset where the last block ended, or
                \* where reset() left off
  fails         \* history: stream offset -> times rejected (Length or CRC)

env     == <<stream, fed>>
members == <<buf, state, frame_drain, stats>>
locals  == <<pc, pos, frame_start>>
hist    == <<out, origin, fails>>
vars    == <<env, members, locals, hist>>

State == {"Idle", "GotDollar", "ReadingHeader", "ReadingBody"}

\* Stream offset of buf_[0].
Base == fed - Len(buf)

-----------------------------------------------------------------------------
Init ==
  /\ stream \in Streams
  /\ fed = 0
  /\ buf = <<>>
  /\ state = "Idle"
  /\ frame_drain = 0
  /\ stats = [bytes_consumed |-> 0, frames_emitted |-> 0, crc_failed |-> 0,
              length_invalid |-> 0, resyncs |-> 0]
  /\ pc = "ready" /\ pos = 0 /\ frame_start = 0
  /\ out = <<>>
  /\ origin = 0
  /\ fails = [p \in 0..(Len(stream) - 1) |-> 0]

\* buf_ without its first n bytes (deque::erase from begin()).
EraseFront(n) == SubSeq(buf, n + 1, Len(buf))

\* feed() up to its loop: the deferred drain, the byte count, the append.
Feed(n) ==
  /\ pc = "ready"
  /\ fed + n <= Len(stream)
  /\ buf' = EraseFront(frame_drain) \o SubSeq(stream, fed + 1, fed + n)
  /\ fed' = fed + n
  /\ frame_drain' = 0
  /\ stats' = [stats EXCEPT !.bytes_consumed = @ + n]
  /\ pc' = "scan" /\ pos' = 0 /\ frame_start' = 0
  /\ UNCHANGED <<stream, state, hist>>

\* reset(): the in-progress candidate is dropped, the statistics are kept.
Reset ==
  /\ pc = "ready"
  /\ buf' = <<>>
  /\ state' = "Idle"
  /\ frame_drain' = 0
  /\ origin' = fed
  /\ UNCHANGED <<env, stats, locals, out, fails>>

-----------------------------------------------------------------------------
(* The loop of feed().  An action is one iteration of one case.  The Mut   *)
(* definitions here and below are plausible slips: put in place of the     *)
(* definition they precede, each makes TLC report a violation.             *)

Scanning(s) == pc = "scan" /\ state = s

IdleSkip ==
  /\ Scanning("Idle")
  /\ pos < Len(buf) /\ buf[pos + 1] # Dollar
  /\ pos' = pos + 1
  /\ UNCHANGED <<env, members, pc, frame_start, hist>>

IdleFound ==
  /\ Scanning("Idle")
  /\ pos < Len(buf) /\ buf[pos + 1] = Dollar
  /\ frame_start' = pos
  /\ state' = "GotDollar"
  /\ UNCHANGED <<env, buf, frame_drain, stats, pc, pos, hist>>

MutResyncSkipsHeader(fs) == fs + HeaderSize

\* Where the scan goes on after the candidate at fs turned out to be noise.
ResyncPos(fs) == fs + 1

Resync ==
  /\ pos' = ResyncPos(frame_start)
  /\ frame_start' = 0
  /\ state' = "Idle"

GotDollarAt ==
  /\ Scanning("GotDollar")
  /\ frame_start + 1 < Len(buf) /\ buf[frame_start + 2] = At
  /\ pos' = frame_start + 2
  /\ state' = "ReadingHeader"
  /\ UNCHANGED <<env, buf, frame_drain, stats, pc, frame_start, hist>>

MutDollarDollarIsNoise ==
  /\ Scanning("GotDollar")
  /\ frame_start + 1 < Len(buf) /\ buf[frame_start + 2] = Dollar
  /\ frame_start' = 0
  /\ pos' = frame_start + 2
  /\ state' = "Idle"
  /\ UNCHANGED <<env, buf, frame_drain, stats, pc, hist>>

GotDollarDollar ==
  /\ Scanning("GotDollar")
  /\ frame_start + 1 < Len(buf) /\ buf[frame_start + 2] = Dollar
  /\ frame_start' = frame_start + 1
  /\ pos' = frame_start + 1
  /\ UNCHANGED <<env, members, pc, hist>>

MutNoiseInPlace ==
  /\ Scanning("GotDollar")
  /\ frame_start + 1 < Len(buf) /\ buf[frame_start + 2] \notin {At, Dollar}
  /\ pos' = frame_start
  /\ frame_start' = 0
  /\ state' = "Idle"
  /\ UNCHANGED <<env, buf, frame_drain, stats, pc, hist>>

GotDollarOther ==
  /\ Scanning("GotDollar")
  /\ frame_start + 1 < Len(buf) /\ buf[frame_start + 2] \notin {At, Dollar}
  /\ Resync
  /\ UNCHANGED <<env, buf, frame_drain, stats, pc, hist>>

HeaderComplete ==
  Scanning("ReadingHeader") /\ frame_start + HeaderSize <= Len(buf)

HeaderAccepted ==
  /\ HeaderComplete
  /\ LengthOk(LengthAt(buf, frame_start))
  /\ pos' = frame_start + HeaderSize
  /\ state' = "ReadingBody"
  /\ UNCHANGED <<env, buf, frame_drain, stats, pc, frame_start, hist>>

HeaderRejected ==
  /\ HeaderComplete
  /\ ~LengthOk(LengthAt(buf, frame_start))
  /\ stats' = [stats EXCEPT !.length_invalid = @ + 1, !.resyncs = @ + 1]
  /\ fails' = [fails EXCEPT ![Base + frame_start] = @ + 1]
  /\ Resync
  /\ UNCHANGED <<env, buf, frame_drain, pc, out, origin>>

BodyComplete ==
  /\ Scanning("ReadingBody")
  /\ frame_start + LengthAt(buf, frame_start) <= Len(buf)

BodyRejected ==
  /\ BodyComplete
  /\ ~CrcOk(buf, frame_start)
  /\ stats' = [stats EXCEPT !.crc_failed = @ + 1, !.resyncs = @ + 1]
  /\ fails' = [fails EXCEPT ![Base + frame_start] = @ + 1]
  /\ Resync
  /\ UNCHANGED <<env, buf, frame_drain, pc, out, origin>>

MutDrainOnlyBlock == LengthAt(buf, frame_start)

\* What the next call drains: everything up to the end of this block.
DrainAfterBlock == frame_start + LengthAt(buf, frame_start)

FrameEmitted ==
  /\ BodyComplete
  /\ CrcOk(buf, frame_start)
  /\ out' = Append(out, [at |-> Base + frame_start,
                         frame |-> FrameFields(buf, frame_start)])
  /\ stats' = [stats EXCEPT !.frames_emitted = @ + 1]
  /\ frame_drain' = DrainAfterBlock
  /\ pos' = frame_start + LengthAt(buf, frame_start)
  /\ frame_start' = 0
  /\ state' = "Idle"
  /\ origin' = Base + frame_start + LengthAt(buf, frame_start)
  /\ UNCHANGED <<env, buf, pc, fails>>

-----------------------------------------------------------------------------
\* The loop made no progress: it needs bytes that have not arrived.
Stalled ==
  /\ pc = "scan"
  /\ \/ state = "Idle" /\ pos >= Len(buf)
     \/ state = "GotDollar" /\ frame_start + 1 >= Len(buf)
     \/ state = "ReadingHeader" /\ frame_start + HeaderSize > Len(buf)
     \/ /\ state = "ReadingBody"
        /\ frame_start + LengthAt(buf, frame_start) > Len(buf)

MutIdleKeepsJunk == IF state # "Idle" THEN frame_start ELSE 0
MutDrainKept == frame_drain

\* What feed() erases on its way out, and the drain it leaves behind.  In
\* Idle with blocks emitted it leaves buf_ alone.
ExitErase == IF state # "Idle" THEN frame_start
             ELSE IF frame_drain = 0 THEN pos ELSE 0

ExitDrain == IF state # "Idle" /\ frame_start > 0 THEN 0 ELSE frame_drain

FeedReturn ==
  /\ Stalled
  /\ buf' = EraseFront(ExitErase)
  /\ frame_drain' = ExitDrain
  /\ pc' = "ready" /\ pos' = 0 /\ frame_start' = 0
  /\ UNCHANGED <<env, state, stats, hist>>

-----------------------------------------------------------------------------
Scan ==
  \/ IdleSkip \/ IdleFound
  \/ GotDollarAt \/ GotDollarDollar \/ GotDollarOther
  \/ HeaderAccepted \/ HeaderRejected
  \/ BodyRejected \/ FrameEmitted
  \/ FeedReturn

Next == (\E n \in 0..MaxChunk : Feed(n)) \/ Reset \/ Scan

Spec == Init /\ [][Next]_vars

\* feed() is a plain loop on the caller's thread: once called it runs.
FairSpec == Spec /\ WF_vars(Scan)

-----------------------------------------------------------------------------
(* Properties.                                                             *)

StatsType == [bytes_consumed: Nat, frames_emitted: Nat, crc_failed: Nat,
              length_invalid: Nat, resyncs: Nat]

\* Types of the members and locals; the buffer indices stay inside buf_.
TypeOK ==
  /\ stream \in Streams
  /\ fed \in 0..Len(stream)
  /\ buf \in Seq(Byte)
  /\ state \in State
  /\ frame_drain \in Nat
  /\ stats \in StatsType
  /\ pc \in {"ready", "scan"}
  /\ pos \in 0..Len(buf)
  /\ frame_start \in 0..Len(buf)
  /\ out \in Seq([at: Nat,
                  frame: [crc: Nat, raw_id: Nat, length: Nat, body: Seq(Byte)]])
  /\ origin \in Nat
  /\ fails \in [0..(Len(stream) - 1) -> Nat]

\* The two assertions of feed() (frame_sync.cpp:95 and :351): the drain
\* deferred to the next call never exceeds what buf_ holds, and the trim of a
\* call that ends mid-candidate covers the whole drain.  Erasing more than
\* buf_ holds is the heap corruption the comment at :339-344 describes.
DrainWithinBuffer ==
  /\ pc = "ready" => frame_drain <= Len(buf)
  /\ Stalled /\ state # "Idle" => frame_drain <= frame_start

\* When feed() returns, no block that the bytes received so far decide has
\* been left behind in buf_ or erased with the junk.
NothingOverlooked ==
  pc = "ready" =>
    ~ \E p \in origin..fed : /\ BlockAt(stream, p, fed)
                             /\ \A q \in origin..(p - 1) : RuledOut(stream, q, fed)

\* Offset p of the bytes received is a sync pattern with a bad Length, or a
\* bad CRC over bytes that have all arrived.
BadCandidate(p) ==
  /\ p + HeaderSize <= fed
  /\ stream[p + 1] = Dollar /\ stream[p + 2] = At
  /\ RuledOut(stream, p, fed)

InsideBlock(p) ==
  \E i \in DOMAIN out : p \in out[i].at..(out[i].at + out[i].frame.length - 1)

\* What crc_failed and length_invalid count: only true bad candidates outside
\* the blocks delivered, each at least once by the time feed() returns, and
\* never more than twice although buf_ keeps scanned junk behind a block
\* (frame_sync.cpp:346) and scans it again in the next call.
RejectionsAccounted ==
  /\ \A p \in DOMAIN fails :
       /\ fails[p] <= 2
       /\ fails[p] > 0 => BadCandidate(p) /\ ~InsideBlock(p)
  /\ pc = "ready" =>
       \A p \in origin..(fed - 1) :
         /\ BadCandidate(p)
         /\ \A q \in origin..(p - 1) : RuledOut(stream, q, fed)
         => fails[p] >= 1

\* buf_ does not grow without bound (frame_sync.cpp:92): between two calls
\* it holds less than one block unless a drain is pending, and never more
\* than one block and two chunks.
RetainedBound ==
  /\ pc = "ready" /\ frame_drain = 0 => Len(buf) < kMaxSbfLength
  /\ Len(buf) < kMaxSbfLength + 2 * MaxChunk

\* The blocks emitted are the ones the abstract specification delivers, for
\* every way the caller cuts the stream into chunks.
Promise == INSTANCE SbfStream
PromiseSpec == Promise!Spec

-----------------------------------------------------------------------------
(* The inductive invariant behind the safety properties.                   *)

\* buf_ is the most recent part of the stream.
Window ==
  /\ Len(buf) <= fed
  /\ \A i \in 1..Len(buf) : buf[i] = stream[Base + i]

\* Stream offset of the first position not yet decided.  Between calls in
\* Idle everything received is decided; a call that starts in Idle goes back
\* to the front of buf_.
ScanPoint ==
  Base + (IF state # "Idle" THEN frame_start
          ELSE IF pc = "scan" THEN pos ELSE Len(buf))

Decided ==
  /\ origin <= ScanPoint
  /\ \A q \in origin..(ScanPoint - 1) : RuledOut(stream, q, fed)

\* A pending drain ends exactly where the last block ended, behind the scan.
DrainEnds ==
  /\ frame_drain <= ScanPoint - Base
  /\ frame_drain > 0 => origin = Base + frame_drain

\* What has been seen of the candidate block at frame_start.
CandidateSeen ==
  /\ state # "Idle" =>
       frame_start < Len(buf) /\ buf[frame_start + 1] = Dollar
  /\ state \in {"ReadingHeader", "ReadingBody"} =>
       frame_start + 1 < Len(buf) /\ buf[frame_start + 2] = At
  /\ state = "ReadingBody" =>
       /\ frame_start + HeaderSize <= Len(buf)
       /\ LengthOk(LengthAt(buf, frame_start))

\* Between calls buf_ starts with an undecided candidate, or holds a pending
\* drain, or is empty.
Parked ==
  pc = "ready" =>
    /\ pos = 0 /\ frame_start = 0
    /\ state = "Idle" /\ frame_drain = 0 => Len(buf) = 0
    /\ state = "GotDollar" => Len(buf) <= 1
    /\ state = "ReadingHeader" => Len(buf) < HeaderSize
    /\ state = "ReadingBody" => Len(buf) < LengthAt(buf, 0)

\* The scan of feed(), at any point of any call, has decided exactly the
\* positions before ScanPoint, and buf_, frame_drain_ and state_ say so.
IInv ==
  TypeOK /\ Window /\ Decided /\ DrainEnds /\ CandidateSeen /\ Parked

-----------------------------------------------------------------------------
\* feed() always comes back: no resync rule makes its loop run for ever.
FeedReturns == pc = "scan" ~> pc = "ready"
=============================================================================
