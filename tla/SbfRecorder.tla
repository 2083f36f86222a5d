---------------------------- MODULE SbfRecorder ----------------------------
(***************************************************************************)
(* SbfRecorder (src/sbf_recorder.cpp): writes the frames that one feed() of *)
(* SbfFrameSync emits to the current file, and starts a new file when the  *)
(* current one is large or old enough.                                     *)
(*                                                                         *)
(* What reaches the disk is a sequence of tokens, one for each fwrite(): a *)
(* frame's 8 header bytes and its body.  stdio's buffer is explicit, since *)
(* what is still in it when the process dies, or when it cannot be flushed, *)
(* is not on disk.  The recorder lives as long as one run of the driver;   *)
(* the directory outlives it.  SbfFrameSync, which feed() calls, may emit  *)
(* anything here; module Pipeline puts FrameSync in its place.             *)
(***************************************************************************)
EXTENDS Integers, Sequences, SequencesExt

CONSTANTS
  rotate_bytes, rotate_interval,   \* cfg_, in bytes and in seconds
  Lengths,       \* frame lengths, header included
  MaxBatch,      \* bound: frames one feed() emits
  MaxFrames,     \* bound: frames in one run of the driver
  MaxDrops,      \* bound: candidates SbfFrameSync rejects in one run
  MaxTime,       \* bound: the clock, in seconds
  MaxRuns,       \* bound: runs of the driver
  MinDowntime,   \* seconds between two runs, at least
  FlushFails     \* fflush() and fclose() may fail

HeaderSize == 8

ASSUME RecorderAssumption ==
  /\ rotate_bytes \in Nat /\ rotate_interval \in Nat /\ MinDowntime \in Nat
  /\ MaxDrops \in Nat /\ MaxTime \in Nat
  /\ MaxBatch \in Nat \ {0} /\ MaxFrames \in Nat \ {0} /\ MaxRuns \in Nat \ {0}
  /\ Lengths # {} /\ \A l \in Lengths : l \in Nat /\ l >= HeaderSize
  /\ FlushFails \in BOOLEAN

VARIABLES
  pc,             \* "down", "idle", in feed(): "syncing" or "writing", "throwing"
  fp,             \* whether a file is open; it is the last one of files
  seq,            \* seq_
  current_size, file_start,
  out, pos,       \* out_ and the index of the loop over it
  stats,          \* stats_
  prev,           \* prev_crc_failed_, prev_length_invalid_, prev_resyncs_
  buffered,       \* tokens in stdio's buffer
  files,          \* the directory, in the order in which files were opened
  now,            \* the clock, in seconds
  run,            \* number of the driver's current or last run
  arrived,        \* history: frames emitted in this run
  lost            \* history: tokens dropped while no exception was thrown

memory == <<seq, current_size, file_start, out, pos, stats, prev, arrived>>
vars == <<pc, fp, memory, buffered, files, now, run, lost>>

Frame == [id : 1..MaxFrames, length : Lengths]

\* The tokens write_frame_() writes: an empty body is not written.
Tokens(f) ==
  LET token(p) == [id |-> f.id, length |-> f.length, part |-> p]
  IN  IF f.length = HeaderSize THEN <<token("header")>>
      ELSE <<token("header"), token("body")>>

\* The counters of SbfFrameSync that feed() copies.
NoDrops == [crc_failed |-> 0, length_invalid |-> 0, resyncs |-> 0]

NoStats == [frames_written |-> 0, bytes_written |-> 0, files_rotated |-> 0,
            crc_failed |-> 0, length_invalid |-> 0, resyncs |-> 0]

-----------------------------------------------------------------------------
Init ==
  /\ pc = "down" /\ fp = FALSE
  /\ seq = 0 /\ current_size = 0 /\ file_start = 0
  /\ out = <<>> /\ pos = 1
  /\ stats = NoStats /\ prev = NoDrops
  /\ buffered = <<>> /\ files = <<>>
  /\ now = 0 /\ run = 0
  /\ arrived = <<>> /\ lost = 0

\* A new run of the driver constructs a recorder.
Construct ==
  /\ pc = "down" /\ run < MaxRuns
  /\ \A i \in DOMAIN files : now >= files[i].name.time + MinDowntime
  /\ pc' = "idle" /\ run' = run + 1
  /\ seq' = 0 /\ current_size' = 0 /\ file_start' = 0
  /\ out' = <<>> /\ pos' = 1
  /\ stats' = NoStats /\ prev' = NoDrops /\ arrived' = <<>>
  /\ UNCHANGED <<fp, buffered, files, now, lost>>

\* The directory after the first k tokens of b went to the open file.
Flushed(b, k) == [files EXCEPT ![Len(files)].content = @ \o SubSeq(b, 1, k)]

MutNotClosed(b) == {0}

\* How many tokens of b fflush() and fclose() may put on disk.
FlushOutcomes(b) == IF FlushFails THEN 0..Len(b) ELSE {Len(b)}

MutNameWithoutTime == [time |-> 0, seq |-> seq + 1]

\* <prefix>-<UTC, in seconds>-<seq>.sbf, with seq_ already incremented.
FileName == [time |-> now, seq |-> seq + 1]

MutOpenUnchecked(fs, size, next) ==
  /\ seq' = seq + 1
  /\ fp' \in BOOLEAN
  /\ files' = IF fp' THEN Append(fs, [name |-> FileName, run |-> run, content |-> <<>>]) ELSE fs
  /\ current_size' = 0 /\ file_start' = now
  /\ pc' = next

\* open_new_file_() on the directory fs: fopen "wb" empties a file of that
\* name, and feed() goes on at next; a file that cannot be opened leaves fp_
\* null, current_size_ as it is (size), and throws.
OpenNewFile(fs, size, next) ==
  /\ seq' = seq + 1
  /\ \/ /\ fp' = TRUE
        /\ files' = Append([i \in DOMAIN fs |->
                             IF fs[i].name = FileName THEN [fs[i] EXCEPT !.content = <<>>]
                             ELSE fs[i]],
                           [name |-> FileName, run |-> run, content |-> <<>>])
        /\ current_size' = 0 /\ file_start' = now
        /\ pc' = next
     \/ /\ fp' = FALSE
        /\ files' = fs
        /\ current_size' = size /\ UNCHANGED file_start
        /\ pc' = "throwing"

\* feed() up to its call of SbfFrameSync: the file is opened first; if that
\* throws, the bytes are not even given to SbfFrameSync.
Feed ==
  /\ pc = "idle"
  /\ IF fp THEN pc' = "syncing" /\ UNCHANGED <<fp, seq, files, current_size, file_start>>
     ELSE OpenNewFile(files, current_size, "syncing")
  /\ UNCHANGED <<out, pos, stats, prev, arrived, buffered, now, run, lost>>

\* The batches of frames SbfFrameSync may emit next, and its counters after.
Batches == {[i \in 1..n |-> [id |-> Len(arrived) + i, length |-> ls[i]]] :
              n \in {m \in 0..MaxBatch : Len(arrived) + m <= MaxFrames},
              ls \in [1..MaxBatch -> Lengths]}
Drops == {prev} \cup (IF prev.resyncs >= MaxDrops THEN {} ELSE
           {[prev EXCEPT ![c] = @ + 1, !.resyncs = @ + 1] : c \in {"crc_failed", "length_invalid"}})

MutNotCleared(batch) == out \o batch

\* out_.clear() before SbfFrameSync appends to out_.
Emitted(batch) == batch

MutPrevKept(fs) == prev

\* prev_crc_failed_ and the others remember what SbfFrameSync has counted.
CountedBefore(fs) == fs

\* SbfFrameSync has emitted batch and counts fs: what is new in its counters
\* is added to the recorder's.
Synced(batch, fs) ==
  /\ pc = "syncing"
  /\ pc' = "writing"
  /\ out' = Emitted(batch) /\ pos' = 1 /\ arrived' = arrived \o batch
  /\ stats' = [stats EXCEPT !.crc_failed = @ + (fs.crc_failed - prev.crc_failed),
                            !.length_invalid = @ + (fs.length_invalid - prev.length_invalid),
                            !.resyncs = @ + (fs.resyncs - prev.resyncs)]
  /\ prev' = CountedBefore(fs)
  /\ UNCHANGED <<fp, seq, current_size, file_start, buffered, files, now, run, lost>>

MutRotateLate(size) == size > rotate_bytes \/ now - file_start >= rotate_interval

\* rotate_if_needed_()'s condition.
RotationDue(size) == size >= rotate_bytes \/ now - file_start >= rotate_interval

Counted(f) == [stats EXCEPT !.frames_written = @ + 1, !.bytes_written = @ + f.length]

\* write_frame_(), then rotate_if_needed_(): what happens to the old file when
\* it is flushed and closed is not looked at.
WriteFrame ==
  /\ pc = "writing" /\ pos <= Len(out)
  /\ pos' = pos + 1
  /\ LET f == out[pos]
         b == buffered \o Tokens(f)
         size == current_size + f.length
     IN  IF ~RotationDue(size)
         THEN /\ buffered' = b /\ current_size' = size
              /\ stats' = Counted(f)
              /\ UNCHANGED <<pc, fp, seq, file_start, files, lost>>
         ELSE \E k \in FlushOutcomes(b) :
              /\ OpenNewFile(Flushed(b, k), size, "writing")
              /\ stats' = [Counted(f) EXCEPT !.files_rotated = @ + 1]
              /\ buffered' = <<>>
              /\ lost' = lost + (Len(b) - k)
  /\ UNCHANGED <<out, prev, arrived, now, run>>

\* fwrite() of the header or of the body falls short and write_frame_()
\* throws; a frame may be left with its header only.
WriteFails ==
  /\ pc = "writing" /\ pos <= Len(out)
  /\ \/ UNCHANGED buffered
     \/ /\ Len(Tokens(out[pos])) > 1
        /\ buffered' = Append(buffered, Tokens(out[pos])[1])
  /\ pc' = "throwing"
  /\ UNCHANGED <<fp, memory, files, now, run, lost>>

FeedReturn ==
  /\ pc = "writing" /\ pos > Len(out)
  /\ pc' = "idle"
  /\ UNCHANGED <<fp, memory, buffered, files, now, run, lost>>

\* Inside fwrite(), stdio hands the oldest tokens of a full buffer on.
StdioFlush ==
  /\ fp /\ pc = "writing"
  /\ \E k \in 1..Len(buffered) :
       /\ files' = Flushed(buffered, k)
       /\ buffered' = SubSeq(buffered, k + 1, Len(buffered))
  /\ UNCHANGED <<pc, fp, memory, now, run, lost>>

\* close(), called by main() when its loop is over, or by the destructor when
\* an exception passes.  Nothing is fed afterwards.
Close ==
  /\ pc \in {"idle", "throwing"}
  /\ IF fp
       THEN \E k \in FlushOutcomes(buffered) :
              /\ files' = Flushed(buffered, k)
              /\ lost' = IF pc = "idle" THEN lost + (Len(buffered) - k) ELSE lost
       ELSE UNCHANGED <<files, lost>>
  /\ buffered' = <<>> /\ fp' = FALSE
  /\ current_size' = IF fp THEN 0 ELSE current_size
  /\ pc' = "down"
  /\ UNCHANGED <<seq, file_start, out, pos, stats, prev, arrived, now, run>>

\* The process is killed, or the machine loses power.
Crash ==
  /\ pc # "down"
  /\ pc' = "down" /\ fp' = FALSE /\ buffered' = <<>>
  /\ UNCHANGED <<memory, files, now, run, lost>>

Tick ==
  /\ now < MaxTime
  /\ now' = now + 1
  /\ UNCHANGED <<pc, fp, memory, buffered, files, run, lost>>

Next ==
  \/ Construct \/ Feed \/ (\E batch \in Batches, fs \in Drops : Synced(batch, fs))
  \/ WriteFrame \/ WriteFails \/ FeedReturn \/ StdioFlush
  \/ Close \/ Crash \/ Tick

Spec == Init /\ [][Next]_vars

-----------------------------------------------------------------------------
(* Properties.                                                             *)

Token == [id : 1..MaxFrames, length : Lengths, part : {"header", "body"}]

File == [name : [time : Nat, seq : Nat], run : Nat, content : Seq(Token)]

\* Types; feed() writes only to an open file.
TypeOK ==
  /\ pc \in {"down", "idle", "syncing", "writing", "throwing"}
  /\ fp \in BOOLEAN /\ (fp => pc # "down" /\ files # <<>>)
  /\ pc \in {"syncing", "writing"} => fp
  /\ seq \in Nat /\ current_size \in Nat /\ file_start \in Nat
  /\ now \in Nat /\ run \in Nat /\ lost \in Nat
  /\ out \in Seq(Frame) /\ arrived \in Seq(Frame) /\ pos \in 1..(Len(out) + 1)
  /\ stats \in [frames_written : Nat, bytes_written : Nat, files_rotated : Nat,
               crc_failed : Nat, length_invalid : Nat, resyncs : Nat]
  /\ prev \in [crc_failed : Nat, length_invalid : Nat, resyncs : Nat]
  /\ buffered \in Seq(Token)
  /\ files \in Seq(File)

\* The tokens this run has written: its files in order, then stdio's buffer.
Recording ==
  FlattenSeq([i \in DOMAIN files |-> IF files[i].run = run THEN files[i].content ELSE <<>>])
    \o buffered

Size(t) == IF t.part = "header" THEN HeaderSize ELSE t.length - HeaderSize

Bytes(tokens) ==
  LET sum[i \in 0..Len(tokens)] == IF i = 0 THEN 0 ELSE sum[i - 1] + Size(tokens[i])
  IN  sum[Len(tokens)]

\* Every frame SbfFrameSync emitted is in the files, whole, once and in order,
\* across feeds and rotations, and the counters main() logs agree with it
\* (unless a flush failed unnoticed, which LossThrows is about).
EverythingRecorded ==
  pc \in {"idle", "syncing", "writing"} /\ lost = 0 =>
    /\ Recording = FlattenSeq([i \in 1..stats.frames_written |-> Tokens(arrived[i])])
    /\ Bytes(Recording) = stats.bytes_written
    /\ pc \in {"idle", "syncing"} => stats.frames_written = Len(arrived)

\* Whole frames only.
Whole(tokens) ==
  \A i \in DOMAIN tokens :
    /\ tokens[i].part = "header" /\ tokens[i].length > HeaderSize =>
         i < Len(tokens) /\ tokens[i + 1] = [tokens[i] EXCEPT !.part = "body"]
    /\ tokens[i].part = "body" =>
         i > 1 /\ tokens[i - 1] = [tokens[i] EXCEPT !.part = "header"]

\* "Rotation must never tear a block" (00-requirements.md): whatever the run
\* met later (a write error, a crash), a file it rotated away from is whole.
RotationNeverTears ==
  ~FlushFails =>
    \A i, j \in DOMAIN files : i < j /\ files[i].run = files[j].run => Whole(files[i].content)

\* A file exceeds rotate_bytes by less than one frame.
FileSizeBound ==
  \A i \in DOMAIN files :
    LET c == files[i].content
    IN  c # <<>> => Bytes(c) - c[Len(c)].length < rotate_bytes \/ Bytes(c) = c[1].length

\* A run never touches what earlier runs recorded: open_new_file_() truncates,
\* but the time and seq_ in the name keep runs apart that do not open their
\* files in the same second.
EarlierRunsKept ==
  [][\A i \in DOMAIN files : files[i].run # run' => files'[i] = files[i]]_vars

\* "Throws std::runtime_error on disk I/O failure" (sbf_recorder.hpp:49):
\* nothing is dropped without an exception.
LossThrows == lost = 0
=============================================================================
