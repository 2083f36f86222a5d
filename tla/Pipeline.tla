------------------------------ MODULE Pipeline ------------------------------
(***************************************************************************)
(* The data path of one run of the driver: main() reads bytes from the     *)
(* data port and hands them to SbfRecorder::feed(), which calls            *)
(* SbfFrameSync::feed() and writes the frames it emitted; afterwards       *)
(* scripts/parser.py reads the files.  FrameSync and SbfRecorder are       *)
(* composed unchanged; this module adds the bytes of what is written and   *)
(* the parser.  All of it runs on main()'s thread, but it may be killed    *)
(* anywhere.  The clock stands still: files rotate by size.                *)
(***************************************************************************)
EXTENDS SbfWire, SequencesExt

CONSTANTS
  rotate_bytes,
  Chunks        \* how many bytes one recv() may return (1..65536 in the code)

ASSUME ChunksAssumption == Chunks \subseteq Nat \ {0}

VARIABLES
  \* SbfFrameSync and the stream
  stream, fed, buf, state, frame_drain, sync_stats, sync_pc, sync_pos,
  frame_start, emitted, origin, fails,
  \* SbfRecorder and the directory
  pc, fp, seq, current_size, file_start, out, pos, stats, prev, buffered,
  files, now, run, arrived, lost,
  \* the composition
  handed,    \* bytes whose frames SbfRecorder has taken over
  torn,      \* bytes at the end of the last file that are no whole token
  archive,   \* history: what parser.py would read back from the files
  status     \* how the run ended: "recording", "closed" or "failed"

sync_vars == <<stream, fed, buf, state, frame_drain, sync_stats, sync_pc, sync_pos,
               frame_start, emitted, origin, fails>>
rec_vars == <<pc, fp, seq, current_size, file_start, out, pos, stats, prev, buffered,
              files, now, run, arrived, lost>>
vars == <<sync_vars, rec_vars, handed, torn, archive, status>>

Sync == INSTANCE FrameSync WITH
          MaxChunk <- 0, stats <- sync_stats, pc <- sync_pc, pos <- sync_pos, out <- emitted

Rec == INSTANCE SbfRecorder WITH
         rotate_interval <- 1, MaxTime <- 0, MaxRuns <- 1, MinDowntime <- 0,
         FlushFails <- FALSE, Lengths <- HeaderSize..kMaxSbfLength,
         MaxBatch <- 1, MaxFrames <- 1, MaxDrops <- 0  \* FrameSync decides

-----------------------------------------------------------------------------
(* The bytes of a token (write_frame_()).                                  *)

MutBodyLengthOnly(f) ==
  <<Dollar, At, f.crc % 256, f.crc \div 256, f.raw_id % 256, f.raw_id \div 256,
    (f.length - HeaderSize) % 256, (f.length - HeaderSize) \div 256>>

\* The header is put together again from the fields of the Frame.
HeaderBytes(f) ==
  <<Dollar, At, f.crc % 256, f.crc \div 256, f.raw_id % 256, f.raw_id \div 256,
    f.length % 256, f.length \div 256>>

TokenBytes(t) ==
  LET f == emitted[t.id].frame IN IF t.part = "header" THEN HeaderBytes(f) ELSE f.body

BytesOf(tokens) == FlattenSeq([i \in DOMAIN tokens |-> TokenBytes(tokens[i])])

\* What a prefix of a sequence of bytes may be when writing it was cut short.
CutShort(bytes) == {SubSeq(bytes, 1, k) : k \in 0..(Len(bytes) - 1)}

-----------------------------------------------------------------------------
(* scripts/parser.py, iter_frames(): it sees a whole file, so a candidate  *)
(* that reaches beyond the end is not waited for but skipped like a bad    *)
(* one.                                                                    *)

Rejected(data, i) ==
  LET length == LengthAt(data, i)
  IN  \/ data[i + 1] # Dollar \/ data[i + 2] # At
      \/ length < 8 \/ length > kMaxSbfLength \/ length % 4 # 0 \/ i + length > Len(data)
      \/ ~CrcOk(data, i)

iter_frames(data) ==
  LET from[i \in 0..Len(data)] ==
        IF i + 8 > Len(data) THEN <<>>
        ELSE IF Rejected(data, i) THEN from[i + 1]
        ELSE <<FrameFields(data, i)>> \o from[i + LengthAt(data, i)]
  IN  from[0]

\* What reading all files gives, counting what stdio will still write.
ReadBack ==
  FlattenSeq([i \in DOMAIN files |->
    iter_frames(BytesOf(files[i].content)
                  \o IF i < Len(files) THEN <<>> ELSE BytesOf(buffered) \o torn)])

-----------------------------------------------------------------------------
Init == Sync!Init /\ Rec!Init /\ handed = 0 /\ torn = <<>>
        /\ archive = ReadBack /\ status = "recording"

Construct == Rec!Construct /\ UNCHANGED <<sync_vars, handed, torn, status>>

\* main() has read bytes and calls SbfRecorder::feed(), which may throw.
Feed ==
  /\ fed < Len(stream)
  /\ Rec!Feed
  /\ status' = IF pc' = "throwing" THEN "failed" ELSE status
  /\ UNCHANGED <<sync_vars, handed, torn>>

\* SbfRecorder::feed() calls SbfFrameSync::feed() with the n bytes read.
SyncFeed(n) ==
  /\ pc = "syncing" /\ fed = handed
  /\ Sync!Feed(n)
  /\ UNCHANGED <<rec_vars, handed, torn, status>>

SyncScan ==
  /\ Sync!Scan
  /\ pc = "syncing"
  /\ UNCHANGED <<rec_vars, handed, torn, status>>

\* SbfFrameSync::feed() is back: what it appended to out_ is new.
NewFrames ==
  [i \in 1..(Len(emitted) - Len(arrived)) |->
     [id |-> Len(arrived) + i, length |-> emitted[Len(arrived) + i].frame.length]]

SyncReturns ==
  /\ sync_pc = "ready" /\ fed > handed
  /\ Rec!Synced(NewFrames, [crc_failed |-> sync_stats.crc_failed,
                            length_invalid |-> sync_stats.length_invalid,
                            resyncs |-> sync_stats.resyncs])
  /\ handed' = fed
  /\ UNCHANGED <<sync_vars, torn, status>>

WriteFrame ==
  /\ Rec!WriteFrame
  /\ status' = IF pc' = "throwing" THEN "failed" ELSE status
  /\ UNCHANGED <<sync_vars, handed, torn>>

\* fwrite() falls short; part of the header or of the body is written.
WriteFails ==
  /\ Rec!WriteFails
  /\ LET tokens == Rec!Tokens(out[pos])
     IN  torn' \in CutShort(TokenBytes(IF buffered' = buffered THEN tokens[1] ELSE tokens[2]))
  /\ status' = "failed"
  /\ UNCHANGED <<sync_vars, handed>>

FeedReturn == Rec!FeedReturn /\ UNCHANGED <<sync_vars, handed, torn, status>>

StdioFlush == Rec!StdioFlush /\ UNCHANGED <<sync_vars, handed, torn, status>>

Close ==
  /\ Rec!Close
  /\ status' = IF pc = "idle" THEN "closed" ELSE status
  /\ UNCHANGED <<sync_vars, handed, torn>>

\* The process is killed: stdio may have handed on part of a token.
Crash ==
  /\ Rec!Crash
  /\ torn' \in CutShort(IF buffered # <<>> THEN TokenBytes(Head(buffered))
                        ELSE Append(torn, 0))
  /\ status' = "failed"
  /\ UNCHANGED <<sync_vars, handed>>

Step ==
  \/ Construct \/ Feed \/ (\E n \in Chunks : SyncFeed(n)) \/ SyncScan \/ SyncReturns
  \/ WriteFrame \/ WriteFails \/ FeedReturn \/ StdioFlush \/ Close \/ Crash

Next == Step /\ archive' = ReadBack'

Spec == Init /\ [][Next]_vars

-----------------------------------------------------------------------------
(* Properties.                                                             *)

\* From the receiver's bytes to what parser.py reads back: the driver
\* implements SbfArchive, whatever way the bytes arrive in, wherever files are
\* rotated, whatever write fails and wherever the process is killed.
Promise == INSTANCE SbfArchive WITH
             out <- emitted
ArchiveSpec == Promise!Spec

\* What main() logs: between two feed()s the recorder's counters are
\* SbfFrameSync's, and every frame emitted has been written.
CountersAgree ==
  pc = "idle" =>
    /\ stats.crc_failed = sync_stats.crc_failed
    /\ stats.length_invalid = sync_stats.length_invalid
    /\ stats.resyncs = sync_stats.resyncs
    /\ stats.frames_written = sync_stats.frames_emitted
=============================================================================
