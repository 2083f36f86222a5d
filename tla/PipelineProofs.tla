--------------------------- MODULE PipelineProofs ---------------------------
(***************************************************************************)
(* Proofs about the composition of SbfFrameSync, SbfRecorder and           *)
(* scripts/parser.py, for every stream, checksum, way to cut the stream    *)
(* into chunks and size at which files are rotated:                        *)
(*                                                                         *)
(*   Counters   what main() logs when feed() returns;                      *)
(*   Archived   the driver implements SbfArchive, from the receiver's      *)
(*              bytes to what parser.py reads back.                        *)
(*                                                                         *)
(* The second one goes from the bytes up: what iter_frames() yields of a   *)
(* file that holds blocks one behind the other and part of one more; how   *)
(* tokens become such bytes; what the directory holds after each step of   *)
(* the recorder; and that SbfFrameSync emits only blocks of the stream,    *)
(* which FrameSyncProofs shows.                                            *)
(***************************************************************************)
EXTENDS Pipeline, SequenceLemmas, TLAPS

\* A sequence, of whatever elements.
IsSeq(s) == \E S : s \in Seq(S)

\* SbfFrameSync counts the blocks it emits.
SyncCounts ==
  /\ sync_stats \in [bytes_consumed : {sync_stats.bytes_consumed}, frames_emitted : Nat,
                     crc_failed : Nat, length_invalid : Nat, resyncs : Nat]
  /\ IsSeq(emitted) /\ sync_stats.frames_emitted = Len(emitted)

\* The recorder's counters of failures are what it has seen of SbfFrameSync's.
RecCounts ==
  /\ stats \in [frames_written : Nat, bytes_written : {stats.bytes_written},
                files_rotated : Nat, crc_failed : Nat, length_invalid : Nat, resyncs : Nat]
  /\ prev \in [crc_failed : Nat, length_invalid : Nat, resyncs : Nat]
  /\ stats.crc_failed = prev.crc_failed
  /\ stats.length_invalid = prev.length_invalid
  /\ stats.resyncs = prev.resyncs

\* Frames handed over and written.
Frames ==
  /\ IsSeq(arrived) /\ IsSeq(out) /\ Len(arrived) <= Len(emitted) /\ pos \in Nat
  /\ pc \in {"idle", "writing"} => Len(arrived) = Len(emitted)
  /\ pc \in {"idle", "syncing"} => stats.frames_written = Len(arrived)
  /\ pc = "writing" =>
       /\ pos >= 1 /\ pos <= Len(out) + 1
       /\ stats.frames_written + Len(out) - (pos - 1) = Len(arrived)

\* Outside of the call to SbfFrameSync the recorder has seen all it counted.
UpToDate ==
  pc \in {"idle", "writing"} =>
    /\ prev.crc_failed = sync_stats.crc_failed
    /\ prev.length_invalid = sync_stats.length_invalid
    /\ prev.resyncs = sync_stats.resyncs

\* Nothing has been fed to SbfFrameSync before the recorder exists.
NotYet ==
  /\ run \in Nat
  /\ run = 0 => /\ pc = "down" /\ emitted = <<>>
                /\ sync_stats = [bytes_consumed |-> 0, frames_emitted |-> 0, crc_failed |-> 0,
                                 length_invalid |-> 0, resyncs |-> 0]

\* The inductive invariant: CountersAgree alone says nothing of what is
\* inside feed().
PInv == SyncCounts /\ RecCounts /\ Frames /\ UpToDate /\ NotYet

-----------------------------------------------------------------------------
(* Sequences whose elements do not matter.                                 *)

\* The empty sequence; lengths are numbers.
LEMMA AnySeq ==
  /\ IsSeq(<<>>)
  /\ \A s : IsSeq(s) => Len(s) \in Nat
<1>1. IsSeq(<<>>)
  <2>1. <<>> \in Seq({})
    OBVIOUS
  <2> QED BY <2>1 DEF IsSeq
<1>2. ASSUME NEW s, IsSeq(s) PROVE Len(s) \in Nat
  <2>1. PICK S : s \in Seq(S)
    BY <1>2 DEF IsSeq
  <2> QED BY <2>1, LenProperties
<1> QED BY <1>1, <1>2

\* Appending adds one element.
LEMMA AnyAppend ==
  ASSUME NEW s, NEW e, IsSeq(s)
  PROVE  IsSeq(Append(s, e)) /\ Len(Append(s, e)) = Len(s) + 1
<1>1. PICK S : s \in Seq(S)
  BY DEF IsSeq
<1>2. s \in Seq(S \cup {e})
  BY <1>1, SeqMonotonic
<1>3. Append(s, e) \in Seq(S \cup {e}) /\ Len(Append(s, e)) = Len(s) + 1
  BY <1>2, AppendProperties
<1> QED BY <1>3 DEF IsSeq

\* Concatenation adds the lengths.
LEMMA AnyConcat ==
  ASSUME NEW s, NEW t, IsSeq(s), IsSeq(t)
  PROVE  IsSeq(s \o t) /\ Len(s \o t) = Len(s) + Len(t)
<1>1. PICK S : s \in Seq(S)
  BY DEF IsSeq
<1>2. PICK T : t \in Seq(T)
  BY DEF IsSeq
<1>3. s \in Seq(S \cup T) /\ t \in Seq(S \cup T)
  BY <1>1, <1>2, SeqMonotonic
<1>4. s \o t \in Seq(S \cup T) /\ Len(s \o t) = Len(s) + Len(t)
  BY <1>3, ConcatProperties
<1> QED BY <1>4 DEF IsSeq

\* What SbfFrameSync has emitted and the recorder has not seen.
LEMMA NewFramesSeq ==
  ASSUME IsSeq(emitted), IsSeq(arrived), Len(arrived) <= Len(emitted)
  PROVE  IsSeq(NewFrames) /\ Len(NewFrames) = Len(emitted) - Len(arrived)
<1>0. Len(emitted) \in Nat /\ Len(arrived) \in Nat
  BY AnySeq
<1>1. PICK n \in Nat : n = Len(emitted) - Len(arrived)
  <2>1. Len(emitted) - Len(arrived) \in Nat
    BY <1>0
  <2> QED BY <2>1, Zenon
<1> DEFINE e(i) == [id |-> Len(arrived) + i,
                    length |-> emitted[Len(arrived) + i].frame.length]
           S == {e(i) : i \in 1..n}
<1>2. NewFrames = [i \in 1..n |-> e(i)]
  BY <1>1 DEF NewFrames
<1> HIDE DEF e
<1>3. NewFrames \in [1..n -> S]
  BY <1>2
<1> HIDE DEF S
<1>4. NewFrames \in Seq(S) /\ Len(NewFrames) = n
  BY <1>3
<1> QED BY <1>1, <1>4 DEF IsSeq

-----------------------------------------------------------------------------
(* The steps of each part.                                                 *)

\* SbfFrameSync's steps leave the recorder alone and keep its own count.
LEMMA SyncStep ==
  ASSUME PInv, Sync!Scan \/ (\E n \in Chunks : Sync!Feed(n)), pc = "syncing",
         UNCHANGED rec_vars
  PROVE  PInv'
<1>1. /\ sync_stats.frames_emitted = Len(emitted) /\ IsSeq(emitted) /\ Len(emitted) \in Nat
  BY AnySeq DEF PInv, SyncCounts
<1>2. /\ SyncCounts' /\ Len(emitted) <= Len(emitted')
  <2>1. CASE emitted' = emitted /\ sync_stats' = sync_stats
    BY <1>1, <2>1 DEF PInv, SyncCounts
  <2>2. ASSUME NEW n, emitted' = emitted,
               sync_stats' = [sync_stats EXCEPT !.bytes_consumed = @ + n]
        PROVE  SyncCounts' /\ Len(emitted) <= Len(emitted')
    BY <1>1, <2>2 DEF PInv, SyncCounts
  <2>3. ASSUME NEW c \in {"crc_failed", "length_invalid"}, emitted' = emitted,
               sync_stats' = [sync_stats EXCEPT ![c] = @ + 1, !.resyncs = @ + 1]
        PROVE  SyncCounts' /\ Len(emitted) <= Len(emitted')
    <3>1. PICK t : t = [sync_stats EXCEPT ![c] = @ + 1]
      OBVIOUS
    <3>2. /\ t \in [bytes_consumed : {t.bytes_consumed}, frames_emitted : Nat,
                    crc_failed : Nat, length_invalid : Nat, resyncs : Nat]
          /\ t.frames_emitted = sync_stats.frames_emitted
      <4>1. CASE c = "crc_failed"
        BY <3>1, <4>1 DEF PInv, SyncCounts
      <4>2. CASE c = "length_invalid"
        BY <3>1, <4>2 DEF PInv, SyncCounts
      <4> QED BY <4>1, <4>2
    <3>3. sync_stats' = [t EXCEPT !.resyncs = @ + 1]
      BY <2>3, <3>1
    <3>4. /\ sync_stats' \in [bytes_consumed : {sync_stats'.bytes_consumed},
                              frames_emitted : Nat, crc_failed : Nat,
                              length_invalid : Nat, resyncs : Nat]
          /\ sync_stats'.frames_emitted = t.frames_emitted
      BY <3>2, <3>3
    <3>5. Len(emitted') = Len(emitted) /\ IsSeq(emitted')
      BY <1>1, <2>3
    <3>6. Len(emitted) <= Len(emitted')
      BY <1>1, <3>5
    <3>7. sync_stats'.frames_emitted = Len(emitted')
      BY <1>1, <3>2, <3>4, <3>5, Zenon
    <3> QED BY <3>4, <3>5, <3>6, <3>7 DEF SyncCounts
  <2>4. ASSUME NEW b, emitted' = Append(emitted, b),
               sync_stats' = [sync_stats EXCEPT !.frames_emitted = @ + 1]
        PROVE  SyncCounts' /\ Len(emitted) <= Len(emitted')
    <3>1. IsSeq(emitted') /\ Len(emitted') = Len(emitted) + 1
      BY <1>1, <2>4, AnyAppend
    <3>2. sync_stats' \in [bytes_consumed : {sync_stats'.bytes_consumed}, frames_emitted : Nat,
                           crc_failed : Nat, length_invalid : Nat, resyncs : Nat]
          /\ sync_stats'.frames_emitted = Len(emitted) + 1
      BY <1>1, <2>4 DEF PInv, SyncCounts
    <3> QED BY <1>1, <3>1, <3>2 DEF SyncCounts
  <2>5. CASE \E n \in Chunks : Sync!Feed(n)
    BY <2>2, <2>5 DEF Sync!Feed, Sync!hist
  <2>6. CASE Sync!HeaderRejected
    BY <2>3, <2>6 DEF Sync!HeaderRejected
  <2>7. CASE Sync!BodyRejected
    BY <2>3, <2>7 DEF Sync!BodyRejected
  <2>8. CASE Sync!FrameEmitted
    BY <2>4, <2>8 DEF Sync!FrameEmitted
  <2>9. ASSUME \/ Sync!IdleSkip \/ Sync!IdleFound \/ Sync!GotDollarAt \/ Sync!GotDollarDollar
               \/ Sync!GotDollarOther \/ Sync!HeaderAccepted \/ Sync!FeedReturn
        PROVE  emitted' = emitted /\ sync_stats' = sync_stats
    BY <2>9 DEF Sync!IdleSkip, Sync!IdleFound, Sync!GotDollarAt, Sync!GotDollarDollar,
       Sync!GotDollarOther, Sync!HeaderAccepted, Sync!FeedReturn, Sync!members, Sync!hist
  <2> QED BY <2>1, <2>5, <2>6, <2>7, <2>8, <2>9 DEF Sync!Scan
<1>3. UNCHANGED <<pc, stats, prev, arrived, out, pos, run>>
  BY DEF rec_vars
<1>4. RecCounts'
  BY <1>3 DEF PInv, RecCounts
<1>5. Frames'
  <2>1. Len(arrived) \in Nat /\ Len(emitted') \in Nat
    BY <1>2, AnySeq DEF PInv, Frames, SyncCounts
  <2>2. Len(arrived) <= Len(emitted')
    BY <1>1, <1>2, <2>1 DEF PInv, Frames
  <2> QED BY <1>3, <2>2 DEF PInv, Frames
<1>6. UpToDate' /\ NotYet'
  BY <1>3 DEF PInv, UpToDate, NotYet
<1> QED BY <1>2, <1>4, <1>5, <1>6 DEF PInv

\* feed() takes over what SbfFrameSync emitted and counted.
LEMMA ReturnsStep == PInv /\ SyncReturns => PInv'
<1> SUFFICES ASSUME PInv, SyncReturns PROVE PInv'
  OBVIOUS
<1> DEFINE fs == [crc_failed |-> sync_stats.crc_failed,
                  length_invalid |-> sync_stats.length_invalid,
                  resyncs |-> sync_stats.resyncs]
<1>1. /\ pc = "syncing" /\ pc' = "writing" /\ out' = NewFrames /\ pos' = 1
      /\ arrived' = arrived \o NewFrames
      /\ stats' = [stats EXCEPT !.crc_failed = @ + (fs.crc_failed - prev.crc_failed),
                                !.length_invalid = @ + (fs.length_invalid - prev.length_invalid),
                                !.resyncs = @ + (fs.resyncs - prev.resyncs)]
      /\ prev' = fs
      /\ UNCHANGED <<emitted, sync_stats, run>>
  BY DEF SyncReturns, Rec!Synced, Rec!Emitted, Rec!CountedBefore, sync_vars
<1>2. SyncCounts'
  BY <1>1 DEF PInv, SyncCounts
<1>3. RecCounts' /\ stats'.frames_written = stats.frames_written
  <2>1. fs.crc_failed \in Nat /\ fs.length_invalid \in Nat /\ fs.resyncs \in Nat
    BY DEF PInv, SyncCounts
  <2>2. /\ prev.crc_failed \in Nat /\ prev.length_invalid \in Nat /\ prev.resyncs \in Nat
        /\ stats.crc_failed = prev.crc_failed /\ stats.length_invalid = prev.length_invalid
        /\ stats.resyncs = prev.resyncs
    BY DEF PInv, RecCounts
  <2>3. PICK x \in Nat, y \in Nat, z \in Nat :
          x = fs.crc_failed /\ y = fs.length_invalid /\ z = fs.resyncs
    BY <2>1, Zenon
  <2>4. /\ stats.crc_failed + (x - prev.crc_failed) = x
        /\ stats.length_invalid + (y - prev.length_invalid) = y
        /\ stats.resyncs + (z - prev.resyncs) = z
    BY <2>2
  <2>5. stats' = [stats EXCEPT !.crc_failed = x, !.length_invalid = y, !.resyncs = z]
    <3> HIDE DEF fs
    <3> QED BY <1>1, <2>3, <2>4
  <2>6. prev' \in [crc_failed : Nat, length_invalid : Nat, resyncs : Nat]
        /\ prev'.crc_failed = x /\ prev'.length_invalid = y /\ prev'.resyncs = z
    BY <1>1, <2>1, <2>3
  <2>7. PICK a : a = [stats EXCEPT !.crc_failed = x]
    OBVIOUS
  <2>8. /\ a \in [frames_written : Nat, bytes_written : {a.bytes_written},
                  files_rotated : Nat, crc_failed : Nat, length_invalid : Nat, resyncs : Nat]
        /\ a.frames_written = stats.frames_written /\ a.crc_failed = x
    BY <2>7 DEF PInv, RecCounts
  <2>9. PICK b : b = [a EXCEPT !.length_invalid = y]
    OBVIOUS
  <2>10. /\ b \in [frames_written : Nat, bytes_written : {b.bytes_written},
                  files_rotated : Nat, crc_failed : Nat, length_invalid : Nat, resyncs : Nat]
        /\ b.frames_written = a.frames_written /\ b.crc_failed = x /\ b.length_invalid = y
    BY <2>8, <2>9
  <2>11. stats' = [b EXCEPT !.resyncs = z]
    BY <2>5, <2>7, <2>9
  <2>12. /\ stats' \in [frames_written : Nat, bytes_written : {stats'.bytes_written},
                  files_rotated : Nat, crc_failed : Nat, length_invalid : Nat, resyncs : Nat]
        /\ stats'.frames_written = b.frames_written /\ stats'.crc_failed = x
        /\ stats'.length_invalid = y /\ stats'.resyncs = z
    BY <2>10, <2>11
  <2> QED BY <2>6, <2>8, <2>10, <2>12 DEF RecCounts
<1>4. UpToDate'
  BY <1>1 DEF UpToDate
<1>5. NotYet'
  BY <1>1 DEF PInv, NotYet
<1>6. /\ IsSeq(NewFrames) /\ Len(NewFrames) = Len(emitted) - Len(arrived)
      /\ IsSeq(arrived) /\ Len(arrived) \in Nat /\ Len(emitted) \in Nat
  BY NewFramesSeq, AnySeq DEF PInv, Frames, SyncCounts
<1>7. IsSeq(arrived') /\ Len(arrived') = Len(arrived) + Len(NewFrames)
  BY <1>1, <1>6, AnyConcat
<1>8. Len(arrived') = Len(emitted') /\ Len(out') = Len(emitted) - Len(arrived)
  BY <1>1, <1>6, <1>7
<1>9. stats.frames_written = Len(arrived)
  BY <1>1 DEF PInv, Frames
<1>10. Len(arrived) <= Len(emitted)
  BY DEF PInv, Frames
<1>11. Frames'
  BY <1>1, <1>3, <1>6, <1>7, <1>8, <1>9, <1>10 DEF Frames
<1> QED BY <1>2, <1>3, <1>4, <1>5, <1>11 DEF PInv

\* The recorder's other steps.
LEMMA RecStep ==
  ASSUME PInv, UNCHANGED sync_vars,
         \/ Rec!Construct \/ Rec!Feed \/ Rec!WriteFrame \/ Rec!WriteFails
         \/ Rec!FeedReturn \/ Rec!StdioFlush \/ Rec!Close \/ Rec!Crash
  PROVE  PInv'
<1>0. UNCHANGED <<emitted, sync_stats>>
  BY DEF sync_vars
<1>1. SyncCounts'
  BY <1>0 DEF PInv, SyncCounts
<1>2. Len(arrived) \in Nat /\ Len(emitted) \in Nat /\ Len(out) \in Nat
  BY AnySeq DEF PInv, Frames, SyncCounts
<1>3. CASE Rec!Construct
  <2>1. /\ run = 0 /\ run' = 1 /\ pc' = "idle" /\ out' = <<>> /\ pos' = 1 /\ arrived' = <<>>
        /\ stats' = Rec!NoStats /\ prev' = Rec!NoDrops
    BY <1>3 DEF Rec!Construct, PInv, NotYet
  <2>2. /\ emitted' = <<>>
        /\ sync_stats'.crc_failed = 0 /\ sync_stats'.length_invalid = 0
        /\ sync_stats'.resyncs = 0
    BY <1>0, <2>1 DEF PInv, NotYet
  <2>3. RecCounts' /\ stats'.frames_written = 0
    BY <2>1 DEF RecCounts, Rec!NoStats, Rec!NoDrops
  <2>4. Frames'
    BY <2>1, <2>2, <2>3, AnySeq DEF Frames
  <2>5. UpToDate'
    BY <2>1, <2>2 DEF UpToDate, Rec!NoDrops
  <2>6. NotYet'
    BY <2>1 DEF NotYet
  <2> QED BY <1>1, <2>3, <2>4, <2>5, <2>6 DEF PInv
<1>4. CASE Rec!WriteFrame
  <2>1. /\ pc = "writing" /\ pos <= Len(out) /\ pos' = pos + 1 /\ pc' \in {"writing", "throwing"}
        /\ UNCHANGED <<out, prev, arrived, run>>
    BY <1>4 DEF Rec!WriteFrame, Rec!OpenNewFile
  <2>2. \/ stats' = Rec!Counted(out[pos])
        \/ stats' = [Rec!Counted(out[pos]) EXCEPT !.files_rotated = @ + 1]
    BY <1>4 DEF Rec!WriteFrame
  <2>3. PICK c : c = Rec!Counted(out[pos])
    OBVIOUS
  <2>4. /\ c \in [frames_written : Nat, bytes_written : {c.bytes_written},
                  files_rotated : Nat, crc_failed : Nat, length_invalid : Nat, resyncs : Nat]
        /\ c.frames_written = stats.frames_written + 1
        /\ c.crc_failed = stats.crc_failed /\ c.length_invalid = stats.length_invalid
        /\ c.resyncs = stats.resyncs
    <3>1. PICK a : a = [stats EXCEPT !.frames_written = @ + 1]
      OBVIOUS
    <3>2. /\ a \in [frames_written : Nat, bytes_written : {a.bytes_written},
                    files_rotated : Nat, crc_failed : Nat, length_invalid : Nat, resyncs : Nat]
          /\ a.frames_written = stats.frames_written + 1
          /\ a.crc_failed = stats.crc_failed /\ a.length_invalid = stats.length_invalid
          /\ a.resyncs = stats.resyncs
      BY <3>1 DEF PInv, RecCounts
    <3>3. c = [a EXCEPT !.bytes_written = @ + out[pos].length]
      BY <2>3, <3>1 DEF Rec!Counted
    <3> QED BY <3>2, <3>3
  <2>5. /\ stats' \in [frames_written : Nat, bytes_written : {stats'.bytes_written},
                       files_rotated : Nat, crc_failed : Nat, length_invalid : Nat,
                       resyncs : Nat]
        /\ stats'.frames_written = c.frames_written
        /\ stats'.crc_failed = c.crc_failed /\ stats'.length_invalid = c.length_invalid
        /\ stats'.resyncs = c.resyncs
    <3>1. CASE stats' = c
      BY <2>4, <3>1
    <3>2. CASE stats' = [c EXCEPT !.files_rotated = @ + 1]
      BY <2>4, <3>2
    <3> QED BY <2>2, <2>3, <3>1, <3>2
  <2>6. RecCounts'
    BY <2>1, <2>4, <2>5 DEF PInv, RecCounts
  <2>7. stats'.frames_written = stats.frames_written + 1 /\ stats.frames_written \in Nat
    BY <2>4, <2>5 DEF PInv, RecCounts
  <2>8. /\ pos \in Nat /\ pos >= 1 /\ Len(arrived) = Len(emitted)
        /\ stats.frames_written + Len(out) - (pos - 1) = Len(arrived)
    BY <2>1 DEF PInv, Frames
  <2>9. /\ pos' \in Nat /\ pos' >= 1 /\ pos' <= Len(out) + 1
        /\ stats'.frames_written + Len(out) - (pos' - 1) = Len(arrived)
    BY <1>2, <2>1, <2>7, <2>8
  <2>10. Frames'
    BY <1>0, <2>1, <2>8, <2>9 DEF PInv, Frames
  <2>11. UpToDate'
    BY <1>0, <2>1 DEF PInv, UpToDate
  <2>12. NotYet'
    BY <2>1 DEF PInv, NotYet
  <2> QED BY <1>1, <2>6, <2>10, <2>11, <2>12 DEF PInv
<1>5. ASSUME UNCHANGED <<stats, prev, arrived, out, pos, run>>, run # 0,
             \/ pc' \notin {"idle", "syncing", "writing"}
             \/ pc' = pc
             \/ pc = "idle" /\ pc' = "syncing"
             \/ pc = "writing" /\ pc' = "idle" /\ pos > Len(out)
      PROVE  PInv'
  <2>1. RecCounts'
    BY <1>5 DEF PInv, RecCounts
  <2>2. UpToDate' /\ NotYet'
    BY <1>0, <1>5 DEF PInv, UpToDate, NotYet
  <2>3. CASE pc = "writing" /\ pc' = "idle" /\ pos > Len(out)
    <3>1. /\ pos \in Nat /\ pos <= Len(out) + 1 /\ stats.frames_written \in Nat
          /\ stats.frames_written + Len(out) - (pos - 1) = Len(arrived)
      BY <2>3 DEF PInv, Frames, RecCounts
    <3>2. pos - 1 = Len(out)
      BY <1>2, <2>3, <3>1
    <3>3. stats.frames_written = Len(arrived)
      BY <1>2, <3>1, <3>2
    <3>4. Frames'
      BY <1>0, <1>5, <2>3, <3>3 DEF PInv, Frames
    <3> QED BY <1>1, <2>1, <2>2, <3>4 DEF PInv
  <2>4. CASE ~(pc = "writing" /\ pc' = "idle" /\ pos > Len(out))
    <3>1. Frames'
      BY <1>0, <1>5, <2>4 DEF PInv, Frames
    <3> QED BY <1>1, <2>1, <2>2, <3>1 DEF PInv
  <2> QED BY <2>3, <2>4
<1>6. pc # "down" => run # 0
  BY DEF PInv, NotYet
<1>7. CASE Rec!Feed
  BY <1>5, <1>6, <1>7 DEF Rec!Feed, Rec!OpenNewFile
<1>8. CASE Rec!WriteFails \/ Rec!FeedReturn \/ Rec!StdioFlush \/ Rec!Close \/ Rec!Crash
  <2>1. UNCHANGED <<stats, prev, arrived, out, pos, run>> /\ pc # "down"
    BY <1>8 DEF Rec!WriteFails, Rec!FeedReturn, Rec!StdioFlush, Rec!Close, Rec!Crash, Rec!memory
  <2>2. \/ pc' \notin {"idle", "syncing", "writing"}
        \/ pc' = pc
        \/ pc = "writing" /\ pc' = "idle" /\ pos > Len(out)
    BY <1>8 DEF Rec!WriteFails, Rec!FeedReturn, Rec!StdioFlush, Rec!Close, Rec!Crash
  <2> QED BY <1>5, <1>6, <2>1, <2>2
<1> QED BY <1>3, <1>4, <1>7, <1>8

-----------------------------------------------------------------------------
\* The invariant holds of the initial states.
LEMMA PInvInit == Init => PInv
<1> SUFFICES ASSUME Init PROVE PInv
  OBVIOUS
<1>1. /\ pc = "down" /\ out = <<>> /\ pos = 1 /\ arrived = <<>> /\ run = 0
      /\ stats = Rec!NoStats /\ prev = Rec!NoDrops
  BY DEF Init, Rec!Init
<1>2. /\ emitted = <<>>
      /\ sync_stats = [bytes_consumed |-> 0, frames_emitted |-> 0, crc_failed |-> 0,
                       length_invalid |-> 0, resyncs |-> 0]
  BY DEF Init, Sync!Init
<1>3. SyncCounts
  BY <1>2, AnySeq DEF SyncCounts
<1>4. RecCounts
  BY <1>1 DEF RecCounts, Rec!NoStats, Rec!NoDrops
<1>5. Frames /\ UpToDate /\ NotYet
  BY <1>1, <1>2, AnySeq DEF Frames, UpToDate, NotYet
<1> QED BY <1>3, <1>4, <1>5 DEF PInv

\* Every step preserves it.
LEMMA PInvStep == PInv /\ [Next]_vars => PInv'
<1> SUFFICES ASSUME PInv, [Next]_vars PROVE PInv'
  OBVIOUS
<1>1. CASE UNCHANGED vars
  <2>1. UNCHANGED <<pc, stats, prev, arrived, out, pos, run, emitted, sync_stats>>
    BY <1>1 DEF vars, sync_vars, rec_vars
  <2> QED BY <2>1 DEF PInv, SyncCounts, RecCounts, Frames, UpToDate, NotYet
<1>2. CASE SyncScan \/ (\E n \in Chunks : SyncFeed(n))
  BY <1>2, SyncStep DEF SyncScan, SyncFeed
<1>3. CASE SyncReturns
  BY <1>3, ReturnsStep
<1>4. CASE Construct \/ Feed \/ WriteFrame \/ WriteFails \/ FeedReturn \/ StdioFlush
           \/ Close \/ Crash
  BY <1>4, RecStep DEF Construct, Feed, WriteFrame, WriteFails, FeedReturn, StdioFlush,
     Close, Crash
<1> QED BY <1>1, <1>2, <1>3, <1>4 DEF Next, Step

\* When feed() has returned, the recorder's counters are SbfFrameSync's, and
\* every block SbfFrameSync emitted was written.
THEOREM Counters == Spec => []CountersAgree
<1>1. PInv => CountersAgree
  BY DEF PInv, SyncCounts, RecCounts, Frames, UpToDate, CountersAgree
<1> QED BY <1>1, PInvInit, PInvStep, PTL DEF Spec

-----------------------------------------------------------------------------
(* What parser.py finds in a file.                                         *)

\* The frames of SbfFrameSync and of the parser.
FrameType == [crc : Nat, raw_id : Nat, length : Nat, body : Seq(Byte)]

\* A 16-bit field read inside a byte sequence is a number.
LEMMA U16Number ==
  ASSUME NEW s \in Seq(Byte), NEW off \in Nat, off + 2 <= Len(s)
  PROVE  U16(s, off) \in Nat
<1>1. Len(s) \in Nat
  BY LenProperties
<1>2. s[off + 1] \in Byte /\ s[off + 2] \in Byte
  BY <1>1, ElementOfSeq
<1>3. \A a, b \in Byte : a + 256 * b \in Nat
  BY DEF Byte
<1> QED BY <1>2, <1>3 DEF U16

\* A stretch of a byte sequence.
LEMMA Slice ==
  ASSUME NEW s \in Seq(Byte), NEW p \in Nat, NEW n \in Nat, p + n <= Len(s),
         NEW lo, lo = p + 1, NEW hi, hi = p + n
  PROVE  /\ SubSeq(s, lo, hi) \in Seq(Byte) /\ Len(SubSeq(s, lo, hi)) = n
         /\ \A i \in 1..n : SubSeq(s, lo, hi)[i] = s[p + i]
<1>1. Len(s) \in Nat
  BY LenProperties
<1>2. \A i \in lo..hi : s[i] \in Byte
  <2> SUFFICES ASSUME NEW i \in lo..hi PROVE s[i] \in Byte
    OBVIOUS
  <2>1. i \in 1..Len(s)
    BY <1>1
  <2> QED BY <2>1, ElementOfSeq
<1>3. lo \in Int /\ hi \in Int
  OBVIOUS
<1> DEFINE x == SubSeq(s, lo, hi)
<1>4. /\ x \in Seq(Byte) /\ Len(x) = IF lo <= hi THEN hi - lo + 1 ELSE 0
      /\ \A i \in 1..(hi - lo + 1) : x[i] = s[lo + i - 1]
  BY <1>2, <1>3, SubSeqProperties
<1> HIDE DEF x
<1>5. hi - lo + 1 = n /\ Len(x) = n
  BY <1>4
<1>6. ASSUME NEW i \in 1..n PROVE x[i] = s[p + i]
  <2>1. lo + i - 1 = p + i
    OBVIOUS
  <2> QED BY <1>4, <1>5, <2>1
<1> QED BY <1>4, <1>5, <1>6 DEF x

\* The n bytes of t behind offset o are those of s behind offset p.
Same(t, o, s, p, n) == \A i \in 1..n : t[o + i] = s[p + i]

\* The same bytes make the same slice.
LEMMA SameSlice ==
  ASSUME NEW s \in Seq(Byte), NEW t \in Seq(Byte), NEW p \in Nat, NEW o \in Nat, NEW n \in Nat,
         p + n <= Len(s), o + n <= Len(t), Same(t, o, s, p, n)
  PROVE  SubSeq(t, o + 1, o + n) = SubSeq(s, p + 1, p + n)
<1> DEFINE x == SubSeq(t, o + 1, o + n)
           y == SubSeq(s, p + 1, p + n)
<1>1. /\ x \in Seq(Byte) /\ Len(x) = n
      /\ \A i \in 1..n : x[i] = t[o + i]
  BY Slice
<1>2. /\ y \in Seq(Byte) /\ Len(y) = n
      /\ \A i \in 1..n : y[i] = s[p + i]
  BY Slice
<1> HIDE DEF x, y
<1>3. x = y
  BY <1>1, <1>2, SeqEqual DEF Same
<1> QED BY <1>3 DEF x, y

\* A part of the bytes.
LEMMA SamePart ==
  ASSUME NEW t, NEW o \in Nat, NEW s, NEW p \in Nat, NEW n \in Nat, Same(t, o, s, p, n),
         NEW k \in Nat, NEW m \in Nat, k + m <= n
  PROVE  Same(t, o + k, s, p + k, m)
<1> SUFFICES ASSUME NEW i \in 1..m PROVE t[(o + k) + i] = s[(p + k) + i]
  BY DEF Same
<1>1. k + i \in 1..n /\ o + (k + i) = (o + k) + i /\ p + (k + i) = (p + k) + i
  OBVIOUS
<1>2. t[o + (k + i)] = s[p + (k + i)]
  BY <1>1 DEF Same
<1> QED BY <1>1, <1>2

\* The same n bytes at two places: the same header fields.
LEMMA SameHeader ==
  ASSUME NEW s \in Seq(Byte), NEW t \in Seq(Byte), NEW p \in Nat, NEW o \in Nat, NEW n \in Nat,
         n >= 8, p + n <= Len(s), o + n <= Len(t), Same(t, o, s, p, n)
  PROVE  /\ t[o + 1] = s[p + 1] /\ t[o + 2] = s[p + 2]
         /\ LengthAt(t, o) = LengthAt(s, p) /\ LengthAt(t, o) \in Nat
         /\ U16(t, o + 2) = U16(s, p + 2) /\ U16(t, o + 4) = U16(s, p + 4)
<1>1. Len(s) \in Nat /\ Len(t) \in Nat
  BY LenProperties
<1>2. ASSUME NEW k \in {2, 4, 6} PROVE U16(t, o + k) = U16(s, p + k)
  <2>1. k + 1 \in 1..n /\ k + 2 \in 1..n
    OBVIOUS
  <2>2. t[o + (k + 1)] = s[p + (k + 1)] /\ t[o + (k + 2)] = s[p + (k + 2)]
    BY <2>1 DEF Same
  <2>3. /\ o + k + 1 = o + (k + 1) /\ o + k + 2 = o + (k + 2)
        /\ p + k + 1 = p + (k + 1) /\ p + k + 2 = p + (k + 2)
    OBVIOUS
  <2> QED BY <2>2, <2>3 DEF U16
<1>3. t[o + 1] = s[p + 1] /\ t[o + 2] = s[p + 2]
  BY DEF Same
<1>4. LengthAt(t, o) = LengthAt(s, p)
  BY <1>2 DEF LengthAt
<1>5. LengthAt(t, o) \in Nat
  <2>1. o + 6 \in Nat /\ (o + 6) + 2 <= Len(t)
    BY <1>1
  <2> QED BY <2>1, U16Number DEF LengthAt
<1> QED BY <1>2, <1>3, <1>4, <1>5

\* The same bytes of a whole block: the same verdict and the same Frame.
LEMMA SameBlock ==
  ASSUME NEW s \in Seq(Byte), NEW t \in Seq(Byte), NEW p \in Nat, NEW o \in Nat, NEW n \in Nat,
         n >= 8, p + n <= Len(s), o + n <= Len(t), Same(t, o, s, p, n),
         LengthAt(s, p) <= n, LengthAt(s, p) >= 8
  PROVE  (CrcOk(t, o) <=> CrcOk(s, p)) /\ FrameFields(t, o) = FrameFields(s, p)
<1>1. Len(s) \in Nat /\ Len(t) \in Nat
  BY LenProperties
<1>2. /\ U16(t, o + 2) = U16(s, p + 2) /\ U16(t, o + 4) = U16(s, p + 4)
      /\ LengthAt(t, o) = LengthAt(s, p) /\ LengthAt(t, o) \in Nat
  BY SameHeader
<1>3. PICK len \in Nat : len = LengthAt(s, p) /\ len = LengthAt(t, o) /\ len <= n /\ len >= 8
  BY <1>2
<1>4. ASSUME NEW k \in Nat, k <= 8
      PROVE  SubSeq(t, o + k + 1, o + len) = SubSeq(s, p + k + 1, p + len)
  <2>1. PICK x \in Nat, y \in Nat, m \in Nat : x = o + k /\ y = p + k /\ m = len - k
    <3>1. len >= 8
      BY <1>3
    <3>2. o + k \in Nat /\ p + k \in Nat /\ len - k \in Nat
      BY <1>4, <3>1
    <3> QED BY <3>2, Zenon
  <2>2. /\ x + m <= Len(t) /\ y + m <= Len(s) /\ k + m <= n
        /\ o + len = x + m /\ p + len = y + m
    <3>1. len <= n
      BY <1>3
    <3> QED BY <1>1, <1>4, <2>1, <3>1
  <2>3. Same(t, x, s, y, m)
    BY <2>1, <2>2, SamePart
  <2>4. SubSeq(t, x + 1, x + m) = SubSeq(s, y + 1, y + m)
    BY <2>2, <2>3, SameSlice
  <2> QED BY <2>1, <2>2, <2>4
<1>5. /\ SubSeq(t, o + 5, o + len) = SubSeq(s, p + 5, p + len)
      /\ SubSeq(t, o + HeaderSize + 1, o + len) = SubSeq(s, p + HeaderSize + 1, p + len)
  <2>1. o + 5 = o + 4 + 1 /\ p + 5 = p + 4 + 1
    OBVIOUS
  <2>2. /\ SubSeq(t, o + 4 + 1, o + len) = SubSeq(s, p + 4 + 1, p + len)
        /\ SubSeq(t, o + 8 + 1, o + len) = SubSeq(s, p + 8 + 1, p + len)
    <3>1. 4 \in Nat /\ 8 \in Nat /\ 4 <= 8 /\ 8 <= 8
      OBVIOUS
    <3> QED BY <1>4, <3>1, Zenon
  <2> QED BY <2>1, <2>2, Zenon DEF HeaderSize
<1>6. FrameFields(t, o) = FrameFields(s, p)
  BY <1>2, <1>3, <1>5 DEF FrameFields
<1> QED BY <1>2, <1>3, <1>5, <1>6 DEF CrcOk

\* A block within the same bytes is a block at both places.
LEMMA SameBlockAt ==
  ASSUME NEW s \in Seq(Byte), NEW t \in Seq(Byte), NEW p \in Nat, NEW o \in Nat, NEW n \in Nat,
         n >= 8, p + n <= Len(s), o + n <= Len(t), Same(t, o, s, p, n), BlockAt(t, o, o + n)
  PROVE  BlockAt(s, p, p + n) /\ FrameFields(t, o) = FrameFields(s, p)
<1>1. /\ t[o + 1] = s[p + 1] /\ t[o + 2] = s[p + 2]
      /\ LengthAt(t, o) = LengthAt(s, p) /\ LengthAt(t, o) \in Nat
  BY SameHeader
<1>2. PICK l \in Nat : l = LengthAt(t, o) /\ l = LengthAt(s, p)
  BY <1>1
<1>3. /\ t[o + 1] = Dollar /\ t[o + 2] = At /\ LengthOk(l) /\ o + l <= o + n /\ CrcOk(t, o)
  BY <1>2 DEF BlockAt
<1>4. l <= n /\ l >= 8
  BY <1>3 DEF LengthOk, HeaderSize
<1>5. CrcOk(s, p) /\ FrameFields(t, o) = FrameFields(s, p)
  <2>1. LengthAt(s, p) <= n /\ LengthAt(s, p) >= 8
    BY <1>2, <1>4
  <2> QED BY <1>3, <2>1, SameBlock
<1>6. p + HeaderSize <= p + n /\ p + l <= p + n
  BY <1>4 DEF HeaderSize
<1> QED BY <1>1, <1>2, <1>3, <1>5, <1>6 DEF BlockAt

\* A candidate that is not rejected is a block.
LEMMA Accepted ==
  ASSUME NEW d \in Seq(Byte), NEW i \in Nat, i + 8 <= Len(d), ~Rejected(d, i)
  PROVE  /\ LengthAt(d, i) \in Nat /\ LengthAt(d, i) >= 8 /\ i + LengthAt(d, i) <= Len(d)
         /\ BlockAt(d, i, Len(d)) /\ FrameFields(d, i) \in FrameType
<1>1. Len(d) \in Nat
  BY LenProperties
<1>2. /\ U16(d, i + 2) \in Nat /\ U16(d, i + 4) \in Nat /\ U16(d, i + 6) \in Nat
  BY <1>1, U16Number
<1>3. PICK len \in Nat : len = LengthAt(d, i)
  BY <1>2 DEF LengthAt
<1>4. /\ d[i + 1] = Dollar /\ d[i + 2] = At /\ CrcOk(d, i)
      /\ len >= 8 /\ len <= kMaxSbfLength /\ len % 4 = 0 /\ i + len <= Len(d)
  BY <1>1, <1>3, MaxLengthAssumption DEF Rejected
<1>5. BlockAt(d, i, Len(d))
  BY <1>1, <1>3, <1>4 DEF BlockAt, LengthOk, HeaderSize
<1>6. SubSeq(d, i + HeaderSize + 1, i + len) \in Seq(Byte)
  <2>1. /\ i + 8 \in Nat /\ len - 8 \in Nat /\ (i + 8) + (len - 8) <= Len(d)
        /\ i + 8 + 1 = (i + 8) + 1 /\ i + len = (i + 8) + (len - 8)
    BY <1>1, <1>4
  <2> QED BY <2>1, Slice DEF HeaderSize
<1>7. FrameFields(d, i) \in FrameType
  BY <1>2, <1>3, <1>6 DEF FrameFields, FrameType
<1> QED BY <1>3, <1>4, <1>5, <1>7

-----------------------------------------------------------------------------
(* iter_frames() is a recursive function: it has a value at every offset.  *)

\* What iter_frames() yields from offset i on, f being what it yields later.
ParseStep(f, d, i) ==
  IF i + 8 > Len(d) THEN <<>>
  ELSE IF Rejected(d, i) THEN f[i + 1]
  ELSE <<FrameFields(d, i)>> \o f[i + LengthAt(d, i)]

\* f is what iter_frames() yields from each offset of d on, from m on.
Parses(f, d, m) == f = [i \in m..Len(d) |-> ParseStep(f, d, i)]

\* From every offset on, the loop of iter_frames() ends.
LEMMA ParsesExists ==
  ASSUME NEW d \in Seq(Byte)
  PROVE  \E f : Parses(f, d, 0)
<1>0. Len(d) \in Nat
  BY LenProperties
<1> DEFINE T == {n \in Nat : n <= Len(d) => \E f : Parses(f, d, Len(d) - n)}
<1>1. 0 \in T
  <2> DEFINE e == [i \in Len(d)..Len(d) |-> <<>>]
  <2>1. \A i \in Len(d)..Len(d) : ParseStep(e, d, i) = <<>>
    BY <1>0 DEF ParseStep
  <2>2. e = [i \in Len(d)..Len(d) |-> ParseStep(e, d, i)]
    <3> HIDE DEF e
    <3> QED BY <2>1 DEF e
  <2>3. Len(d) - 0 = Len(d)
    BY <1>0
  <2>4. Parses(e, d, Len(d) - 0)
    BY <2>2, <2>3 DEF Parses
  <2> QED BY <2>4
<1>2. ASSUME NEW n \in Nat, n \in T PROVE n + 1 \in T
  <2> SUFFICES ASSUME n + 1 <= Len(d) PROVE \E f : Parses(f, d, Len(d) - (n + 1))
    OBVIOUS
  <2>1. PICK m \in Nat : m = Len(d) - (n + 1) /\ m + 1 = Len(d) - n
    BY <1>0
  <2>2. PICK f : Parses(f, d, m + 1)
    BY <1>0, <1>2, <2>1
  <2> HIDE DEF T
  <2>3. f = [i \in (m + 1)..Len(d) |-> ParseStep(f, d, i)]
    BY <2>2 DEF Parses
  <2> DEFINE g == [i \in m..Len(d) |-> IF i = m THEN ParseStep(f, d, m) ELSE f[i]]
  <2>4. \A i \in (m + 1)..Len(d) : g[i] = f[i]
    BY <1>0, <2>1
  <2>5. g[m] = ParseStep(f, d, m)
    BY <1>0, <2>1
  <2>6. \A i \in (m + 1)..Len(d) : f[i] = ParseStep(f, d, i)
    BY <2>3
  <2>7. g = [i \in m..Len(d) |-> g[i]]
    OBVIOUS
  <2> HIDE DEF g
  <2>8. ASSUME NEW i \in m..Len(d) PROVE ParseStep(g, d, i) = ParseStep(f, d, i)
    <3>0. i \in Nat
      BY <1>0
    <3>1. CASE i + 8 > Len(d)
      BY <3>1 DEF ParseStep
    <3>2. CASE ~(i + 8 > Len(d)) /\ Rejected(d, i)
      <4>1. i + 1 \in (m + 1)..Len(d)
        BY <1>0, <3>0, <3>2
      <4>2. g[i + 1] = f[i + 1]
        BY <2>4, <4>1
      <4> QED BY <3>2, <4>2 DEF ParseStep
    <3>3. CASE ~(i + 8 > Len(d)) /\ ~Rejected(d, i)
      <4>0. i + 8 <= Len(d)
        BY <1>0, <3>0, <3>3
      <4>1. PICK len \in Nat : len = LengthAt(d, i) /\ len >= 8 /\ i + len <= Len(d)
        BY <3>0, <3>3, <4>0, Accepted
      <4>2. i + len \in (m + 1)..Len(d)
        BY <1>0, <3>0, <4>1
      <4>3. g[i + len] = f[i + len]
        BY <2>4, <4>2
      <4> QED BY <3>3, <4>1, <4>3 DEF ParseStep
    <3> QED BY <3>1, <3>2, <3>3
  <2>9. ASSUME NEW i \in m..Len(d) PROVE g[i] = ParseStep(g, d, i)
    <3>1. CASE i = m
      BY <2>5, <2>8, <3>1
    <3>2. CASE i # m
      <4>1. i \in (m + 1)..Len(d)
        BY <1>0, <3>2
      <4> QED BY <2>4, <2>6, <2>8, <4>1
    <3> QED BY <3>1, <3>2
  <2>10. Parses(g, d, m)
    BY <2>7, <2>9 DEF Parses
  <2> QED BY <2>1, <2>10
<1> HIDE DEF T
<1>3. T = Nat
  <2>1. T \subseteq Nat
    BY DEF T
  <2> QED BY <1>1, <1>2, <2>1, SetInduction
<1>4. Len(d) \in T
  BY <1>0, <1>3
<1>5. \E f : Parses(f, d, Len(d) - Len(d))
  BY <1>0, <1>4 DEF T
<1>6. Len(d) - Len(d) = 0
  BY <1>0
<1> QED BY <1>5, <1>6

\* The equations of iter_frames().
LEMMA IterFramesUnfold ==
  ASSUME NEW d \in Seq(Byte)
  PROVE  \E f : Parses(f, d, 0) /\ iter_frames(d) = f[0]
<1> DEFINE f == CHOOSE g : g = [i \in 0..Len(d) |->
                  IF i + 8 > Len(d) THEN <<>>
                  ELSE IF Rejected(d, i) THEN g[i + 1]
                  ELSE <<FrameFields(d, i)>> \o g[i + LengthAt(d, i)]]
<1>1. \E g : g = [i \in 0..Len(d) |->
                  IF i + 8 > Len(d) THEN <<>>
                  ELSE IF Rejected(d, i) THEN g[i + 1]
                  ELSE <<FrameFields(d, i)>> \o g[i + LengthAt(d, i)]]
  BY ParsesExists DEF Parses, ParseStep
<1>2. f = [i \in 0..Len(d) |->
                  IF i + 8 > Len(d) THEN <<>>
                  ELSE IF Rejected(d, i) THEN f[i + 1]
                  ELSE <<FrameFields(d, i)>> \o f[i + LengthAt(d, i)]]
  BY <1>1
<1>3. iter_frames(d) = f[0]
  BY DEF iter_frames
<1> HIDE DEF f
<1>4. Parses(f, d, 0)
  BY <1>2 DEF Parses, ParseStep
<1> QED BY <1>3, <1>4

\* r holds blocks that lie in d from offset i on.
Found(r, d, i) ==
  /\ r \in Seq(FrameType)
  /\ \A x \in 1..Len(r) :
       \E q \in i..(Len(d) - 8) : ~Rejected(d, q) /\ r[x] = FrameFields(d, q)

\* What iter_frames() yields from some offset on lies there.
LEMMA ParsedFound ==
  ASSUME NEW d \in Seq(Byte), NEW f, Parses(f, d, 0), NEW i \in 0..Len(d)
  PROVE  Found(f[i], d, i)
<1>0. Len(d) \in Nat
  BY LenProperties
<1>a. \A j \in 0..Len(d) : f[j] = ParseStep(f, d, j)
  BY DEF Parses
<1> DEFINE T == {n \in Nat : \A j \in 0..Len(d) : Len(d) - j <= n => Found(f[j], d, j)}
<1> HIDE DEF T
<1>1. 0 \in T
  <2> SUFFICES ASSUME NEW j \in 0..Len(d), Len(d) - j <= 0 PROVE Found(f[j], d, j)
    BY DEF T
  <2>0. j + 8 > Len(d)
    BY <1>0
  <2>1. f[j] = <<>>
    BY <1>a, <2>0 DEF ParseStep
  <2> QED BY <2>1, EmptySeq DEF Found
<1>2. ASSUME NEW n \in Nat, n \in T PROVE n + 1 \in T
  <2> SUFFICES ASSUME NEW j \in 0..Len(d), Len(d) - j <= n + 1 PROVE Found(f[j], d, j)
    BY DEF T
  <2>0. j \in Nat /\ \A m \in 0..Len(d) : m > j => Found(f[m], d, m)
    <3>1. j \in Nat
      OBVIOUS
    <3>2. ASSUME NEW m \in 0..Len(d), m > j PROVE Found(f[m], d, m)
      <4>1. Len(d) - m <= n
        BY <1>0, <3>2
      <4> QED BY <1>2, <4>1 DEF T
    <3> QED BY <3>1, <3>2
  <2>1. CASE j + 8 > Len(d)
    <3>1. f[j] = <<>>
      BY <1>a, <2>1 DEF ParseStep
    <3> QED BY <3>1, EmptySeq DEF Found
  <2>2. CASE ~(j + 8 > Len(d)) /\ Rejected(d, j)
    <3>1. f[j] = f[j + 1]
      BY <1>a, <2>2 DEF ParseStep
    <3>2. j + 1 \in 0..Len(d) /\ j + 1 > j
      BY <1>0, <2>0, <2>2
    <3>3. Found(f[j + 1], d, j + 1)
      BY <2>0, <3>2
    <3>4. \A q \in (j + 1)..(Len(d) - 8) : q \in j..(Len(d) - 8)
      BY <1>0, <2>0
    <3> QED BY <3>1, <3>3, <3>4 DEF Found
  <2>3. CASE ~(j + 8 > Len(d)) /\ ~Rejected(d, j)
    <3>0. j + 8 <= Len(d)
      BY <1>0, <2>0, <2>3
    <3>1. PICK len \in Nat : len = LengthAt(d, j) /\ len >= 8 /\ j + len <= Len(d)
      BY <2>0, <2>3, <3>0, Accepted
    <3>2. FrameFields(d, j) \in FrameType
      BY <2>0, <2>3, <3>0, Accepted
    <3>3. f[j] = <<FrameFields(d, j)>> \o f[j + len]
      BY <1>a, <2>3, <3>1 DEF ParseStep
    <3>4. j + len \in 0..Len(d) /\ j + len > j
      BY <1>0, <2>0, <3>1
    <3>5. Found(f[j + len], d, j + len)
      BY <2>0, <3>4
    <3>6. PICK b \in FrameType, r \in Seq(FrameType) : b = FrameFields(d, j) /\ r = f[j + len]
      BY <3>2, <3>5 DEF Found
    <3>7. /\ <<b>> \o r \in Seq(FrameType) /\ Len(<<b>> \o r) = 1 + Len(r)
          /\ \A x \in 1..(1 + Len(r)) : (<<b>> \o r)[x] = IF x <= 1 THEN b ELSE r[x - 1]
      <4>a. <<b>> \in Seq(FrameType) /\ Len(<<b>>) = 1 /\ <<b>>[1] = b
        OBVIOUS
      <4>1. PICK s \in Seq(FrameType) : s = <<b>> /\ Len(s) = 1 /\ s[1] = b
        BY <4>a, Zenon
      <4>2. /\ s \o r \in Seq(FrameType) /\ Len(s \o r) = Len(s) + Len(r)
            /\ \A x \in 1..(Len(s) + Len(r)) :
                 (s \o r)[x] = IF x <= Len(s) THEN s[x] ELSE r[x - Len(s)]
        BY ConcatProperties
      <4>3. Len(r) \in Nat
        BY LenProperties
      <4> QED BY <4>1, <4>2, <4>3
    <3>8. ASSUME NEW x \in 1..Len(f[j])
          PROVE  \E q \in j..(Len(d) - 8) : ~Rejected(d, q) /\ f[j][x] = FrameFields(d, q)
      <4>0. Len(r) \in Nat /\ x \in 1..(1 + Len(r)) /\ f[j][x] = IF x <= 1 THEN b ELSE r[x - 1]
        BY <3>3, <3>6, <3>7, LenProperties
      <4>1. CASE x <= 1
        <5>1. j \in j..(Len(d) - 8)
          BY <1>0, <2>0, <3>0
        <5> QED BY <2>3, <3>6, <4>0, <4>1, <5>1
      <4>2. CASE ~(x <= 1)
        <5>1. x - 1 \in 1..Len(r)
          BY <4>0, <4>2
        <5>2. PICK q \in (j + len)..(Len(d) - 8) : ~Rejected(d, q) /\ r[x - 1] = FrameFields(d, q)
          BY <3>5, <3>6, <5>1 DEF Found
        <5>3. q \in j..(Len(d) - 8)
          BY <1>0, <2>0, <3>1
        <5> QED BY <4>0, <4>2, <5>2, <5>3
      <4> QED BY <4>1, <4>2
    <3> QED BY <3>3, <3>6, <3>7, <3>8 DEF Found
  <2> QED BY <2>1, <2>2, <2>3
<1>3. T = Nat
  <2>1. T \subseteq Nat
    BY DEF T
  <2> QED BY <1>1, <1>2, <2>1, SetInduction
<1>4. Len(d) \in T /\ Len(d) - i <= Len(d)
  BY <1>0, <1>3
<1> QED BY <1>4 DEF T

-----------------------------------------------------------------------------
(* What iter_frames() makes of a file that holds the blocks emitted, one   *)
(* behind the other, the last one perhaps cut short.                       *)

\* The Length field of the block emitted as j.
BlockLength(j) == emitted[j].frame.length

\* The blocks emitted are blocks of the stream.
Genuine ==
  /\ stream \in Seq(Byte) /\ fed \in Nat /\ fed <= Len(stream)
  /\ emitted \in Seq([at : Nat, frame : FrameType])
  /\ \A j \in 1..Len(emitted) :
       /\ BlockAt(stream, emitted[j].at, fed)
       /\ emitted[j].frame = FrameFields(stream, emitted[j].at)

\* The n bytes of d behind offset o are the first of the block emitted as j.
Piece(d, o, j, n) == Same(d, o, stream, emitted[j].at, n)

\* Behind offset o, d ends, or has the beginning of the block after k.
Cut(d, o, k) ==
  /\ o <= Len(d)
  /\ o < Len(d) => /\ k < Len(emitted) /\ Len(d) - o < BlockLength(k + 1)
                   /\ Piece(d, o, k + 1, Len(d) - o)

\* d is the blocks a + 1 to k, ending at the offsets at says, and a cut one.
Laid(d, a, k, at) ==
  /\ a \in Nat /\ k \in Nat /\ a <= k /\ k <= Len(emitted)
  /\ at \in [a..k -> Nat] /\ at[a] = 0
  /\ \A j \in (a + 1)..k :
       /\ at[j] = at[j - 1] + BlockLength(j) /\ at[j] <= Len(d)
       /\ Piece(d, at[j - 1], j, BlockLength(j))
  /\ Cut(d, at[k], k)

\* The operators of SbfWire are the same under each name.
LEMMA WireNames ==
  /\ \A s, p, n : Promise!BlockAt(s, p, n) <=> BlockAt(s, p, n)
  /\ \A s, p : Promise!FrameFields(s, p) = FrameFields(s, p)
  /\ Promise!HeaderSize = HeaderSize
BY DEF BlockAt, Promise!BlockAt, HeaderSize, Promise!HeaderSize, Dollar, At,
       Promise!Dollar, Promise!At, LengthAt, Promise!LengthAt, U16, Promise!U16,
       LengthOk, Promise!LengthOk, CrcOk, Promise!CrcOk, FrameFields, Promise!FrameFields

\* Where a block emitted lies in the stream, and what is there.
LEMMA BlockFacts ==
  ASSUME Genuine, NEW j \in 1..Len(emitted)
  PROVE  /\ emitted[j].at \in Nat /\ emitted[j].frame \in FrameType
         /\ BlockLength(j) \in Nat /\ BlockLength(j) >= 8
         /\ emitted[j].at + BlockLength(j) <= Len(stream)
         /\ LengthAt(stream, emitted[j].at) = BlockLength(j)
         /\ LengthOk(BlockLength(j)) /\ CrcOk(stream, emitted[j].at)
         /\ stream[emitted[j].at + 1] = Dollar /\ stream[emitted[j].at + 2] = At
         /\ emitted[j].frame = FrameFields(stream, emitted[j].at)
<1>1. emitted[j] \in [at : Nat, frame : FrameType]
  BY ElementOfSeq DEF Genuine
<1>2. emitted[j].at \in Nat /\ emitted[j].frame \in FrameType /\ BlockLength(j) \in Nat
  BY <1>1 DEF FrameType, BlockLength
<1>3. /\ BlockAt(stream, emitted[j].at, fed)
      /\ emitted[j].frame = FrameFields(stream, emitted[j].at)
  BY DEF Genuine
<1>4. LengthAt(stream, emitted[j].at) = BlockLength(j)
  BY <1>3 DEF FrameFields, BlockLength
<1>5. Len(stream) \in Nat /\ fed \in Nat /\ fed <= Len(stream)
  BY LenProperties DEF Genuine
<1>6. /\ LengthOk(BlockLength(j)) /\ emitted[j].at + BlockLength(j) <= fed
      /\ CrcOk(stream, emitted[j].at)
      /\ stream[emitted[j].at + 1] = Dollar /\ stream[emitted[j].at + 2] = At
  BY <1>3, <1>4 DEF BlockAt
<1>7. BlockLength(j) >= 8
  BY <1>6 DEF LengthOk, HeaderSize
<1>8. emitted[j].at + BlockLength(j) <= Len(stream)
  BY <1>2, <1>5, <1>6
<1> QED BY <1>2, <1>3, <1>4, <1>6, <1>7, <1>8

\* A block that was written whole is accepted.
LEMMA WholeAccepted ==
  ASSUME Genuine, NEW d \in Seq(Byte), NEW o \in Nat, NEW j \in 1..Len(emitted),
         o + BlockLength(j) <= Len(d), Piece(d, o, j, BlockLength(j))
  PROVE  /\ ~(o + 8 > Len(d)) /\ ~Rejected(d, o) /\ LengthAt(d, o) = BlockLength(j)
         /\ FrameFields(d, o) = emitted[j].frame
<1>1. PICK p \in Nat, n \in Nat : p = emitted[j].at /\ n = BlockLength(j)
  BY BlockFacts
<1>2. /\ n >= 8 /\ p + n <= Len(stream) /\ LengthAt(stream, p) = n
      /\ LengthOk(n) /\ CrcOk(stream, p)
      /\ stream[p + 1] = Dollar /\ stream[p + 2] = At
      /\ emitted[j].frame = FrameFields(stream, p)
  BY <1>1, BlockFacts
<1>3. Len(d) \in Nat /\ stream \in Seq(Byte) /\ o + n <= Len(d) /\ Same(d, o, stream, p, n)
  BY <1>1, LenProperties DEF Genuine, Piece
<1>4. /\ d[o + 1] = stream[p + 1] /\ d[o + 2] = stream[p + 2]
      /\ LengthAt(d, o) = LengthAt(stream, p)
  <2>1. 8 <= n /\ p + n <= Len(stream)
    BY <1>2
  <2> QED BY <1>3, <2>1, SameHeader
<1>5. CrcOk(d, o) /\ FrameFields(d, o) = FrameFields(stream, p)
  <2>1. LengthAt(stream, p) <= n /\ LengthAt(stream, p) >= 8
    BY <1>2
  <2> QED BY <1>2, <1>3, <2>1, SameBlock
<1>6. /\ LengthAt(d, o) = n /\ CrcOk(d, o) /\ FrameFields(d, o) = emitted[j].frame
      /\ d[o + 1] = Dollar /\ d[o + 2] = At
  BY <1>2, <1>4, <1>5
<1>7. ~Rejected(d, o)
  <2>1. n <= kMaxSbfLength /\ n % 4 = 0
    BY <1>2 DEF LengthOk
  <2>2. ~(n < 8) /\ ~(n > kMaxSbfLength) /\ ~(o + n > Len(d))
    BY <1>2, <1>3, <2>1, MaxLengthAssumption
  <2> QED BY <1>6, <2>1, <2>2 DEF Rejected
<1>8. ~(o + 8 > Len(d))
  BY <1>2, <1>3
<1> QED BY <1>1, <1>6, <1>7, <1>8

\* The beginning of a block that was cut short.
LEMMA CutBlock ==
  ASSUME Genuine, NEW d \in Seq(Byte), NEW o \in Nat, NEW j \in 1..Len(emitted),
         NEW n \in Nat, o + n = Len(d), n < BlockLength(j), Piece(d, o, j, n)
  PROVE  /\ ~(o + 8 > Len(d)) => Rejected(d, o)
         /\ \A q \in (o + 1)..(Len(d) - 8) :
              ~Rejected(d, q) => FrameFields(d, q) \in Promise!Inside(emitted[j])
<1>1. PICK p \in Nat, len \in Nat : p = emitted[j].at /\ len = BlockLength(j)
  BY BlockFacts
<1>2. /\ len >= 8 /\ p + len <= Len(stream) /\ LengthAt(stream, p) = len
  BY <1>1, BlockFacts
<1>3. /\ Len(d) \in Nat /\ stream \in Seq(Byte) /\ Len(stream) \in Nat
      /\ Same(d, o, stream, p, n) /\ n < len
  BY <1>1, LenProperties DEF Genuine, Piece
<1>4. ASSUME ~(o + 8 > Len(d)) PROVE Rejected(d, o)
  <2>1. n >= 8 /\ p + n <= Len(stream) /\ o + n <= Len(d)
    BY <1>2, <1>3, <1>4
  <2>2. LengthAt(d, o) = len
    BY <1>2, <1>3, <2>1, SameHeader
  <2>3. o + len > Len(d)
    BY <1>3
  <2> QED BY <2>2, <2>3 DEF Rejected
<1>5. ASSUME NEW q \in (o + 1)..(Len(d) - 8), ~Rejected(d, q)
      PROVE  FrameFields(d, q) \in Promise!Inside(emitted[j])
  <2>1. PICK k \in Nat, m \in Nat : k = q - o /\ k >= 1 /\ m = n - k /\ m >= 8
    BY <1>3
  <2>2. /\ q \in Nat /\ q + 8 <= Len(d) /\ q = o + k /\ k + m <= n /\ q + m = Len(d)
        /\ p + k \in Nat /\ (p + k) + m <= Len(stream)
    BY <1>2, <1>3, <2>1
  <2>3. Same(d, q, stream, p + k, m)
    BY <1>3, <2>2, SamePart
  <2>5. BlockAt(d, q, Len(d))
    BY <1>5, <2>2, Accepted
  <2>a. PICK r \in Nat : r = p + k /\ r + m <= Len(stream) /\ Same(d, q, stream, r, m)
    BY <2>2, <2>3
  <2>6. BlockAt(d, q, q + m)
    BY <2>2, <2>5
  <2>8. BlockAt(stream, r, r + m) /\ FrameFields(d, q) = FrameFields(stream, r)
    <3>1. q + m <= Len(d) /\ m >= 8 /\ q \in Nat /\ stream \in Seq(Byte)
      BY <1>3, <2>1, <2>2
    <3> QED BY <2>6, <2>a, <3>1, SameBlockAt
  <2>9. BlockAt(stream, r, p + len)
    <3>1. PICK l \in Nat : l = LengthAt(stream, r)
      <4>1. r + 6 \in Nat /\ (r + 6) + 2 <= Len(stream)
        BY <1>3, <2>1, <2>a
      <4> QED BY <1>3, <4>1, U16Number DEF LengthAt
    <3>2. r + m <= p + len
      BY <1>3, <2>1, <2>2, <2>a
    <3>3. r + HeaderSize <= r + m /\ r + l <= r + m
      BY <2>8, <3>1 DEF BlockAt
    <3>4. r + HeaderSize <= p + len /\ r + l <= p + len
      BY <3>1, <3>2, <3>3 DEF HeaderSize
    <3> QED BY <2>8, <3>1, <3>4 DEF BlockAt
  <2>10. r \in (p + 1)..((p + len) - 8)
    BY <1>3, <2>1, <2>2, <2>a
  <2>11. r \in (emitted[j].at + 1)..((emitted[j].at + emitted[j].frame.length) - Promise!HeaderSize)
    BY <1>1, <2>10, WireNames DEF BlockLength, HeaderSize
  <2>12. /\ Promise!BlockAt(stream, r, emitted[j].at + emitted[j].frame.length)
         /\ FrameFields(d, q) = Promise!FrameFields(stream, r)
    BY <1>1, <2>8, <2>9, WireNames DEF BlockLength
  <2> QED BY <2>11, <2>12 DEF Promise!Inside
<1> QED BY <1>4, <1>5

-----------------------------------------------------------------------------
\* r holds the frames j + 1 to k, then blocks inside the block after k, none
\* if everything is whole.
Reads(r, j, k, whole) ==
  /\ r \in Seq(FrameType) /\ k - j <= Len(r)
  /\ \A x \in 1..(k - j) : r[x] = emitted[j + x].frame
  /\ \A x \in (k - j + 1)..Len(r) :
       k < Len(emitted) /\ r[x] \in Promise!Inside(emitted[k + 1])
  /\ whole => Len(r) = k - j

\* A sequence with one element put before it.
LEMMA Prepend ==
  ASSUME NEW S, NEW b \in S, NEW r \in Seq(S)
  PROVE  /\ <<b>> \o r \in Seq(S) /\ Len(<<b>> \o r) = 1 + Len(r)
         /\ \A x \in 1..(1 + Len(r)) : (<<b>> \o r)[x] = IF x <= 1 THEN b ELSE r[x - 1]
<1>a. <<b>> \in Seq(S) /\ Len(<<b>>) = 1 /\ <<b>>[1] = b
  OBVIOUS
<1>1. PICK s \in Seq(S) : s = <<b>> /\ Len(s) = 1 /\ s[1] = b
  BY <1>a, Zenon
<1>2. /\ s \o r \in Seq(S) /\ Len(s \o r) = Len(s) + Len(r)
      /\ \A x \in 1..(Len(s) + Len(r)) : (s \o r)[x] = IF x <= Len(s) THEN s[x] ELSE r[x - Len(s)]
  BY ConcatProperties
<1>3. Len(r) \in Nat
  BY LenProperties
<1> QED BY <1>1, <1>2, <1>3

\* Behind the last whole block.
LEMMA TailParsed ==
  ASSUME Genuine, NEW d \in Seq(Byte), NEW f, Parses(f, d, 0), NEW o \in Nat,
         NEW k \in 0..Len(emitted), Cut(d, o, k)
  PROVE  Reads(f[o], k, k, o = Len(d))
<1>0. Len(d) \in Nat /\ o \in 0..Len(d) /\ Len(emitted) \in Nat /\ k \in Nat
  BY LenProperties DEF Cut, Genuine
<1>1. f[o] = ParseStep(f, d, o)
  BY <1>0 DEF Parses
<1>2. CASE o + 8 > Len(d)
  <2>1. f[o] = <<>>
    BY <1>1, <1>2 DEF ParseStep
  <2> QED BY <1>0, <2>1, EmptySeq DEF Reads
<1>3. CASE ~(o + 8 > Len(d))
  <2>1. PICK n \in Nat : n = Len(d) - o /\ n >= 8 /\ o + n = Len(d)
    BY <1>0, <1>3
  <2>2. o < Len(d) /\ o # Len(d)
    BY <1>0, <1>3
  <2>3. k < Len(emitted) /\ n < BlockLength(k + 1) /\ Piece(d, o, k + 1, n)
    BY <2>1, <2>2 DEF Cut
  <2>4. PICK j \in 1..Len(emitted) : j = k + 1
    BY <1>0, <2>3
  <2>5. /\ Rejected(d, o)
        /\ \A q \in (o + 1)..(Len(d) - 8) :
             ~Rejected(d, q) => FrameFields(d, q) \in Promise!Inside(emitted[j])
    BY <1>3, <2>1, <2>3, <2>4, CutBlock
  <2>6. f[o] = f[o + 1]
    BY <1>1, <1>3, <2>5 DEF ParseStep
  <2>7. o + 1 \in 0..Len(d)
    BY <1>0, <2>2
  <2>8. Found(f[o + 1], d, o + 1)
    BY <2>7, ParsedFound
  <2>9. PICK r : r = f[o]
    OBVIOUS
  <2>10. r \in Seq(FrameType) /\ Len(r) \in Nat
    BY <2>6, <2>8, <2>9, LenProperties DEF Found
  <2>11. ASSUME NEW x \in 1..Len(r) PROVE r[x] \in Promise!Inside(emitted[k + 1])
    <3>1. PICK q \in (o + 1)..(Len(d) - 8) : ~Rejected(d, q) /\ r[x] = FrameFields(d, q)
      BY <2>6, <2>8, <2>9 DEF Found
    <3> QED BY <2>4, <2>5, <3>1
  <2>12. k - k = 0 /\ k - k + 1 = 1
    BY <1>0
  <2> QED BY <2>2, <2>3, <2>9, <2>10, <2>11, <2>12 DEF Reads
<1> QED BY <1>2, <1>3

\* One block before what is read already.
LEMMA BlockParsed ==
  ASSUME Genuine, NEW d \in Seq(Byte), NEW f, Parses(f, d, 0), NEW o \in Nat,
         NEW j \in 1..Len(emitted), NEW k \in Nat, j <= k, NEW whole, NEW e \in Nat,
         e = o + BlockLength(j), e <= Len(d), Piece(d, o, j, BlockLength(j)),
         Reads(f[e], j, k, whole)
  PROVE  Reads(f[o], j - 1, k, whole)
<1>0. Len(d) \in Nat /\ Len(emitted) \in Nat /\ j \in Nat
  BY LenProperties DEF Genuine
<1>1. /\ ~(o + 8 > Len(d)) /\ ~Rejected(d, o) /\ LengthAt(d, o) = BlockLength(j)
      /\ FrameFields(d, o) = emitted[j].frame
  BY WholeAccepted
<1>2. BlockLength(j) \in Nat /\ emitted[j].frame \in FrameType
  BY BlockFacts
<1>3. o \in 0..Len(d)
  BY <1>0, <1>2
<1>4. f[o] = <<emitted[j].frame>> \o f[e]
  BY <1>1, <1>3 DEF Parses, ParseStep
<1>5. PICK b \in FrameType, r \in Seq(FrameType) : b = emitted[j].frame /\ r = f[e]
  BY <1>2 DEF Reads
<1>6. PICK s : s = f[o]
  OBVIOUS
<1>7. /\ s \in Seq(FrameType) /\ Len(s) = 1 + Len(r)
      /\ \A x \in 1..(1 + Len(r)) : s[x] = IF x <= 1 THEN b ELSE r[x - 1]
  BY <1>4, <1>5, <1>6, Prepend
<1>8. Len(r) \in Nat /\ k - j <= Len(r) /\ (whole => Len(r) = k - j)
  BY <1>5, LenProperties DEF Reads
<1>9. k - (j - 1) <= Len(s) /\ (whole => Len(s) = k - (j - 1))
  BY <1>0, <1>7, <1>8
<1>10. ASSUME NEW x \in 1..(k - (j - 1)) PROVE s[x] = emitted[(j - 1) + x].frame
  <2>1. x \in 1..(1 + Len(r))
    BY <1>0, <1>8
  <2>2. CASE x <= 1
    <3>1. (j - 1) + x = j
      BY <1>0, <2>2
    <3> QED BY <1>5, <1>7, <2>1, <2>2, <3>1
  <2>3. CASE ~(x <= 1)
    <3>1. x - 1 \in 1..(k - j) /\ j + (x - 1) = (j - 1) + x
      BY <1>0, <2>3
    <3>2. r[x - 1] = emitted[j + (x - 1)].frame
      BY <1>5, <3>1 DEF Reads
    <3> QED BY <1>7, <2>1, <2>3, <3>1, <3>2
  <2> QED BY <2>2, <2>3
<1>11. ASSUME NEW x \in (k - (j - 1) + 1)..Len(s)
       PROVE  k < Len(emitted) /\ s[x] \in Promise!Inside(emitted[k + 1])
  <2>1. x \in 1..(1 + Len(r)) /\ ~(x <= 1) /\ x - 1 \in (k - j + 1)..Len(r)
    BY <1>0, <1>7, <1>8
  <2>2. s[x] = r[x - 1]
    BY <1>7, <2>1
  <2>3. k < Len(emitted) /\ r[x - 1] \in Promise!Inside(emitted[k + 1])
    BY <1>5, <2>1 DEF Reads
  <2> QED BY <2>2, <2>3
<1> QED BY <1>6, <1>7, <1>9, <1>10, <1>11 DEF Reads

\* iter_frames() reads back the blocks that were laid down.
LEMMA LaidParsed ==
  ASSUME Genuine, NEW d \in Seq(Byte), NEW a, NEW k, NEW at, Laid(d, a, k, at)
  PROVE  Reads(iter_frames(d), a, k, at[k] = Len(d))
<1>0. /\ a \in Nat /\ k \in Nat /\ a <= k /\ k \in 0..Len(emitted) /\ Len(emitted) \in Nat
      /\ at \in [a..k -> Nat] /\ at[a] = 0 /\ Cut(d, at[k], k)
  BY LenProperties DEF Laid, Genuine
<1>1. PICK f : Parses(f, d, 0) /\ iter_frames(d) = f[0]
  BY IterFramesUnfold
<1>2. PICK whole : whole = (at[k] = Len(d))
  OBVIOUS
<1> DEFINE T == {i \in Nat : i <= k - a => Reads(f[at[k - i]], k - i, k, whole)}
<1>3. 0 \in T
  <2>1. at[k] \in Nat /\ k - 0 = k
    BY <1>0
  <2>2. Reads(f[at[k]], k, k, at[k] = Len(d))
    BY <1>0, <1>1, <2>1, TailParsed
  <2> QED BY <1>2, <2>1, <2>2
<1>4. ASSUME NEW i \in Nat, i \in T PROVE i + 1 \in T
  <2> SUFFICES ASSUME i + 1 <= k - a PROVE Reads(f[at[k - (i + 1)]], k - (i + 1), k, whole)
    OBVIOUS
  <2>1. PICK j \in (a + 1)..k : j = k - i /\ j - 1 = k - (i + 1) /\ j - 1 \in a..k
    BY <1>0
  <2>2. /\ at[j] = at[j - 1] + BlockLength(j) /\ at[j] <= Len(d)
        /\ Piece(d, at[j - 1], j, BlockLength(j))
    BY <2>1 DEF Laid
  <2>3. PICK o \in Nat, e \in Nat : o = at[j - 1] /\ e = at[j]
    <3>1. j \in a..k
      BY <1>0
    <3> QED BY <1>0, <2>1, <3>1
  <2>4. Reads(f[e], j, k, whole)
    <3>1. i <= k - a
      BY <1>0
    <3> QED BY <1>4, <2>1, <2>3, <3>1
  <2>5. j \in 1..Len(emitted) /\ j <= k
    BY <1>0
  <2> HIDE DEF T
  <2>6. Reads(f[o], j - 1, k, whole)
    BY <1>0, <1>1, <2>2, <2>3, <2>4, <2>5, BlockParsed
  <2> QED BY <2>1, <2>3, <2>6
<1> HIDE DEF T
<1>5. T = Nat
  <2>1. T \subseteq Nat
    BY DEF T
  <2> QED BY <1>3, <1>4, <2>1, SetInduction
<1>6. k - a \in T /\ k - (k - a) = a
  BY <1>0, <1>5
<1>7. Reads(f[at[a]], a, k, whole)
  <2>1. k - a <= k - a
    BY <1>0
  <2> QED BY <1>6, <2>1 DEF T
<1> QED BY <1>0, <1>1, <1>2, <1>7

-----------------------------------------------------------------------------
(* How a file grows and how it is cut.                                     *)

\* Nothing has been laid down.
LEMMA LaidEmpty ==
  ASSUME NEW k \in 0..Len(emitted), Len(emitted) \in Nat
  PROVE  Laid(<<>>, k, k, [i \in k..k |-> 0])
<1> DEFINE at == [i \in k..k |-> 0]
<1>1. at \in [k..k -> Nat] /\ at[k] = 0
  OBVIOUS
<1> HIDE DEF at
<1>2. Len(<<>>) = 0
  OBVIOUS
<1>3. Cut(<<>>, at[k], k)
  BY <1>1, <1>2 DEF Cut
<1>4. Laid(<<>>, k, k, at)
  BY <1>1, <1>3 DEF Laid
<1> QED BY <1>4 DEF at

\* Bytes that another sequence has at the same place.
LEMMA SameOf ==
  ASSUME NEW t, NEW u, NEW o \in Nat, NEW s, NEW p, NEW n \in Nat, Same(t, o, s, p, n),
         NEW m \in Nat, m <= n, NEW N \in Nat, o + m <= N, \A i \in 1..N : u[i] = t[i]
  PROVE  Same(u, o, s, p, m)
<1> SUFFICES ASSUME NEW i \in 1..m PROVE u[o + i] = s[p + i]
  BY DEF Same
<1>1. o + i \in 1..N /\ i \in 1..n
  OBVIOUS
<1>2. t[o + i] = s[p + i]
  BY <1>1 DEF Same
<1> QED BY <1>1, <1>2

\* Whole blocks stay whole as long as their bytes stay.
LEMMA LaidBlocks ==
  ASSUME Genuine, NEW d \in Seq(Byte), NEW a, NEW k, NEW at, Laid(d, a, k, at),
         NEW e \in Seq(Byte), NEW N \in Nat, N <= Len(d), N <= Len(e),
         \A i \in 1..N : e[i] = d[i], NEW j \in (a + 1)..k, at[j] <= N
  PROVE  /\ at[j] = at[j - 1] + BlockLength(j) /\ at[j] <= Len(e)
         /\ Piece(e, at[j - 1], j, BlockLength(j))
<1>0. /\ a \in Nat /\ k \in Nat /\ a <= k /\ k <= Len(emitted) /\ Len(emitted) \in Nat
      /\ at \in [a..k -> Nat]
  BY LenProperties DEF Laid, Genuine
<1>1. j \in 1..Len(emitted) /\ j - 1 \in a..k /\ j \in a..k
  BY <1>0
<1>2. /\ at[j] = at[j - 1] + BlockLength(j) /\ at[j] <= Len(d)
      /\ Piece(d, at[j - 1], j, BlockLength(j))
  BY DEF Laid
<1>3. PICK o \in Nat, n \in Nat, x \in Nat : o = at[j - 1] /\ n = BlockLength(j) /\ x = at[j]
  BY <1>0, <1>1, BlockFacts
<1>4. x = o + n /\ x <= N /\ Len(e) \in Nat
  BY <1>2, <1>3, LenProperties
<1>5. Same(d, o, stream, emitted[j].at, n)
  BY <1>2, <1>3 DEF Piece
<1>6. Same(e, o, stream, emitted[j].at, n)
  <2>1. o + n <= N /\ n <= n
    BY <1>4
  <2> QED BY <1>5, <2>1, SameOf
<1>7. x <= Len(e)
  BY <1>4
<1> QED BY <1>2, <1>3, <1>6, <1>7 DEF Piece

\* One byte sequence behind another.
LEMMA Joined ==
  ASSUME NEW d \in Seq(Byte), NEW x \in Seq(Byte)
  PROVE  /\ d \o x \in Seq(Byte) /\ Len(d \o x) = Len(d) + Len(x)
         /\ \A i \in 1..Len(d) : (d \o x)[i] = d[i]
         /\ \A i \in 1..Len(x) : (d \o x)[Len(d) + i] = x[i]
<1>1. Len(d) \in Nat /\ Len(x) \in Nat
  BY LenProperties
<1>2. PICK e : e = d \o x
  OBVIOUS
<1>3. /\ e \in Seq(Byte) /\ Len(e) = Len(d) + Len(x)
      /\ \A i \in 1..(Len(d) + Len(x)) : e[i] = IF i <= Len(d) THEN d[i] ELSE x[i - Len(d)]
  BY <1>2, ConcatProperties
<1>4. \A i \in 1..Len(d) : e[i] = d[i]
  BY <1>1, <1>3
<1>5. \A i \in 1..Len(x) : e[Len(d) + i] = x[i]
  <2> SUFFICES ASSUME NEW i \in 1..Len(x) PROVE e[Len(d) + i] = x[i]
    OBVIOUS
  <2>1. /\ Len(d) + i \in 1..(Len(d) + Len(x)) /\ ~(Len(d) + i <= Len(d))
        /\ (Len(d) + i) - Len(d) = i
    BY <1>1
  <2> QED BY <1>3, <2>1
<1> QED BY <1>2, <1>3, <1>4, <1>5

\* The same, of a sequence that has a name.
LEMMA JoinedAs ==
  ASSUME NEW d \in Seq(Byte), NEW x \in Seq(Byte), NEW e, e = d \o x
  PROVE  /\ e \in Seq(Byte) /\ Len(e) = Len(d) + Len(x)
         /\ \A i \in 1..Len(d) : e[i] = d[i]
         /\ \A i \in 1..Len(x) : e[Len(d) + i] = x[i]
<1>1. d \o x \in Seq(Byte) /\ Len(d \o x) = Len(d) + Len(x)
  BY Joined
<1>2. \A i \in 1..Len(d) : (d \o x)[i] = d[i]
  BY Joined
<1>3. \A i \in 1..Len(x) : (d \o x)[Len(d) + i] = x[i]
  BY Joined
<1> QED BY <1>1, <1>2, <1>3

\* Part of the next block is written behind whole ones.
LEMMA LaidPart ==
  ASSUME Genuine, NEW d \in Seq(Byte), NEW a, NEW k, NEW at, Laid(d, a, k, at), at[k] = Len(d),
         k < Len(emitted), NEW x \in Seq(Byte), Len(x) < BlockLength(k + 1),
         Same(x, 0, stream, emitted[k + 1].at, Len(x))
  PROVE  Laid(d \o x, a, k, at)
<1>0. /\ a \in Nat /\ k \in Nat /\ a <= k /\ k <= Len(emitted) /\ Len(emitted) \in Nat
      /\ at \in [a..k -> Nat] /\ at[a] = 0
  BY LenProperties DEF Laid, Genuine
<1>1. Len(d) \in Nat /\ Len(x) \in Nat
  BY LenProperties
<1>2. PICK e \in Seq(Byte) : e = d \o x
  BY JoinedAs
<1>3. Len(e) = Len(d) + Len(x) /\ Len(e) \in Nat
  <2>1. Len(e) = Len(d) + Len(x)
    BY <1>2, JoinedAs
  <2> QED BY <1>1, <2>1
<1>4. \A i \in 1..Len(d) : e[i] = d[i]
  BY <1>2, JoinedAs
<1>5. \A i \in 1..Len(x) : e[Len(d) + i] = x[i]
  BY <1>2, JoinedAs
<1>6. Piece(e, Len(d), k + 1, Len(x))
  <2> SUFFICES ASSUME NEW i \in 1..Len(x) PROVE e[Len(d) + i] = stream[emitted[k + 1].at + i]
    BY DEF Piece, Same
  <2>1. x[0 + i] = stream[emitted[k + 1].at + i] /\ 0 + i = i
    BY <1>1 DEF Same
  <2> QED BY <1>5, <2>1
<1>7. Cut(e, Len(d), k)
  <2>1. Len(e) - Len(d) = Len(x) /\ Len(d) <= Len(e)
    BY <1>1, <1>3
  <2> QED BY <1>6, <2>1 DEF Cut
<1>8. ASSUME NEW j \in (a + 1)..k
      PROVE  /\ at[j] = at[j - 1] + BlockLength(j) /\ at[j] <= Len(e)
             /\ Piece(e, at[j - 1], j, BlockLength(j))
  <2>1. at[j] <= Len(d) /\ Len(d) <= Len(d) /\ Len(d) <= Len(e)
    BY <1>1, <1>3 DEF Laid
  <2> QED BY <1>1, <1>4, <2>1, LaidBlocks
<1> QED BY <1>0, <1>2, <1>7, <1>8 DEF Laid

\* The next block is written whole.
LEMMA LaidWhole ==
  ASSUME Genuine, NEW d \in Seq(Byte), NEW a, NEW k, NEW at, Laid(d, a, k, at), at[k] = Len(d),
         k < Len(emitted), NEW x \in Seq(Byte), Len(x) = BlockLength(k + 1),
         Same(x, 0, stream, emitted[k + 1].at, Len(x))
  PROVE  \E at2 : Laid(d \o x, a, k + 1, at2) /\ at2[k + 1] = Len(d \o x)
<1>0. /\ a \in Nat /\ k \in Nat /\ a <= k /\ k <= Len(emitted) /\ Len(emitted) \in Nat
      /\ at \in [a..k -> Nat] /\ at[a] = 0
  BY LenProperties DEF Laid, Genuine
<1>1. Len(d) \in Nat /\ Len(x) \in Nat
  BY LenProperties
<1>2. PICK e \in Seq(Byte) : e = d \o x
  BY JoinedAs
<1>3. Len(e) = Len(d) + Len(x) /\ Len(e) \in Nat
  <2>1. Len(e) = Len(d) + Len(x)
    BY <1>2, JoinedAs
  <2> QED BY <1>1, <2>1
<1>4. \A i \in 1..Len(d) : e[i] = d[i]
  BY <1>2, JoinedAs
<1>5. \A i \in 1..Len(x) : e[Len(d) + i] = x[i]
  BY <1>2, JoinedAs
<1>6. Piece(e, Len(d), k + 1, Len(x))
  <2> SUFFICES ASSUME NEW i \in 1..Len(x) PROVE e[Len(d) + i] = stream[emitted[k + 1].at + i]
    BY DEF Piece, Same
  <2>1. x[0 + i] = stream[emitted[k + 1].at + i] /\ 0 + i = i
    BY <1>1 DEF Same
  <2> QED BY <1>5, <2>1
<1> DEFINE at2 == [j \in a..(k + 1) |-> IF j = k + 1 THEN Len(e) ELSE at[j]]
<1>7. /\ at2 \in [a..(k + 1) -> Nat] /\ at2[k + 1] = Len(e)
      /\ \A j \in a..k : at2[j] = at[j]
  <2>1. Len(e) \in Nat /\ k + 1 \in a..(k + 1)
    BY <1>0, <1>1, <1>3
  <2>2. ASSUME NEW j \in a..k PROVE j \in a..(k + 1) /\ j # k + 1 /\ at[j] \in Nat
    BY <1>0
  <2>3. ASSUME NEW j \in a..(k + 1) PROVE j = k + 1 \/ j \in a..k
    BY <1>0
  <2> QED BY <2>1, <2>2, <2>3
<1> HIDE DEF at2
<1>8. ASSUME NEW j \in (a + 1)..(k + 1)
      PROVE  /\ at2[j] = at2[j - 1] + BlockLength(j) /\ at2[j] <= Len(e)
             /\ Piece(e, at2[j - 1], j, BlockLength(j))
  <2>0. j - 1 \in a..k
    BY <1>0
  <2>1. CASE j = k + 1
    <3>1. j - 1 = k /\ Len(e) <= Len(e)
      BY <1>0, <1>3, <2>1
    <3>2. at2[j] = Len(e) /\ at2[j - 1] = Len(d)
      BY <1>7, <2>0, <2>1, <3>1
    <3> QED BY <1>3, <1>6, <2>1, <3>1, <3>2
  <2>2. CASE j # k + 1
    <3>1. j \in (a + 1)..k /\ j \in a..k
      BY <1>0, <2>2
    <3>2. at[j] <= Len(d) /\ Len(d) <= Len(d) /\ Len(d) <= Len(e)
      BY <1>1, <1>3, <3>1 DEF Laid
    <3>3. /\ at[j] = at[j - 1] + BlockLength(j) /\ at[j] <= Len(e)
          /\ Piece(e, at[j - 1], j, BlockLength(j))
      BY <1>1, <1>4, <3>1, <3>2, LaidBlocks
    <3>4. at2[j] = at[j] /\ at2[j - 1] = at[j - 1]
      BY <1>7, <2>0, <3>1
    <3> QED BY <3>3, <3>4
  <2> QED BY <2>1, <2>2
<1>9. Cut(e, at2[k + 1], k + 1)
  <2>1. Len(e) <= Len(e) /\ ~(Len(e) < Len(e))
    BY <1>1, <1>3
  <2> QED BY <1>7, <2>1 DEF Cut
<1>10. /\ k + 1 \in Nat /\ a <= k + 1 /\ k + 1 <= Len(emitted)
       /\ at2[a] = 0
  <2>1. a \in a..k
    BY <1>0
  <2> QED BY <1>0, <1>7, <2>1
<1>11. Laid(e, a, k + 1, at2)
  BY <1>0, <1>7, <1>8, <1>9, <1>10 DEF Laid
<1> QED BY <1>2, <1>7, <1>11

\* Only the first n bytes are left.
LEMMA LaidPrefix ==
  ASSUME Genuine, NEW d \in Seq(Byte), NEW a, NEW k, NEW at, Laid(d, a, k, at),
         NEW n \in 0..Len(d)
  PROVE  \E k2, at2 : Laid(SubSeq(d, 1, n), a, k2, at2)
<1>0. /\ a \in Nat /\ k \in Nat /\ a <= k /\ k <= Len(emitted) /\ Len(emitted) \in Nat
      /\ at \in [a..k -> Nat] /\ at[a] = 0 /\ Len(d) \in Nat /\ n \in Nat
  BY LenProperties DEF Laid, Genuine
<1>a. \A j \in a..k : at[j] \in Nat
  BY <1>0
<1>1. PICK e \in Seq(Byte) : e = SubSeq(d, 1, n) /\ Len(e) = n /\ \A i \in 1..n : e[i] = d[i]
  <2>1. 0 + n <= Len(d) /\ 1 = 0 + 1 /\ n = 0 + n /\ 0 \in Nat
    BY <1>0
  <2>2. /\ SubSeq(d, 1, n) \in Seq(Byte) /\ Len(SubSeq(d, 1, n)) = n
        /\ \A i \in 1..n : SubSeq(d, 1, n)[i] = d[0 + i]
    BY <1>0, <2>1, Slice
  <2>3. \A i \in 1..n : 0 + i = i
    BY <1>0
  <2> QED BY <2>2, <2>3
\* k2 blocks fit, and what is left of the next one.
<1>2. ASSUME NEW k2 \in a..k, \A j \in a..k2 : at[j] <= n,
             k2 = k \/ (k2 < k /\ at[k2 + 1] > n)
      PROVE  \E at2 : Laid(e, a, k2, at2)
  <2> DEFINE at2 == [j \in a..k2 |-> at[j]]
  <2>1. at2 \in [a..k2 -> Nat] /\ \A j \in a..k2 : at2[j] = at[j]
    <3>1. \A j \in a..k2 : j \in a..k
      BY <1>0
    <3> QED BY <1>a, <3>1
  <2> HIDE DEF at2
  <2>2. ASSUME NEW j \in (a + 1)..k2
        PROVE  /\ at2[j] = at2[j - 1] + BlockLength(j) /\ at2[j] <= Len(e)
               /\ Piece(e, at2[j - 1], j, BlockLength(j))
    <3>1. j \in (a + 1)..k /\ j \in a..k2 /\ j - 1 \in a..k2
      BY <1>0
    <3>2. at[j] <= n /\ n <= Len(d) /\ n <= Len(e)
      BY <1>0, <1>1, <1>2, <3>1
    <3>3. /\ at[j] = at[j - 1] + BlockLength(j) /\ at[j] <= Len(e)
          /\ Piece(e, at[j - 1], j, BlockLength(j))
      <4>1. n \in Nat /\ \A i \in 1..n : e[i] = d[i]
        BY <1>0, <1>1
      <4> QED BY <3>1, <3>2, <4>1, LaidBlocks
    <3> QED BY <2>1, <3>1, <3>3
  <2>3. PICK o \in Nat : o = at[k2] /\ o <= n
    <3>1. k2 \in a..k2 /\ k2 \in a..k
      BY <1>0
    <3> QED BY <1>a, <1>2, <3>1
  <2>4. Cut(e, o, k2)
    <3> SUFFICES ASSUME o < n
                 PROVE  /\ k2 < Len(emitted) /\ n - o < BlockLength(k2 + 1)
                        /\ Piece(e, o, k2 + 1, n - o)
      BY <1>1, <2>3 DEF Cut
    <3>1. PICK m \in Nat : m = n - o
      BY <1>0
    <3>2. PICK N \in Nat : /\ k2 < Len(emitted) /\ m <= N /\ m < BlockLength(k2 + 1)
                           /\ Same(d, o, stream, emitted[k2 + 1].at, N)
      <4>1. CASE k2 = k
        <5>1. Cut(d, o, k) /\ o < Len(d)
          BY <1>0, <2>3, <4>1 DEF Laid
        <5>2. /\ k < Len(emitted) /\ Len(d) - o < BlockLength(k + 1)
              /\ Same(d, o, stream, emitted[k + 1].at, Len(d) - o)
          BY <5>1 DEF Cut, Piece
        <5>3. k + 1 \in 1..Len(emitted)
          BY <1>0, <5>2
        <5>4. BlockLength(k + 1) \in Nat
          BY <5>3, BlockFacts
        <5>5. PICK L \in Nat, r \in Nat : L = BlockLength(k + 1) /\ r = Len(d) - o
          <6>1. Len(d) - o \in Nat
            BY <1>0, <5>1
          <6> QED BY <5>4, <6>1
        <5>6. r < L /\ m <= r
          BY <1>0, <3>1, <5>2, <5>5
        <5>7. m < L
          BY <5>6
        <5> QED BY <4>1, <5>2, <5>5, <5>6, <5>7
      <4>2. CASE k2 < k /\ at[k2 + 1] > n
        <5>1. PICK j \in (a + 1)..k : j = k2 + 1
          BY <1>0, <4>2
        <5>2. j \in 1..Len(emitted) /\ j \in a..k /\ j - 1 = k2
          BY <1>0, <5>1
        <5>3. BlockLength(j) \in Nat /\ at[j] \in Nat
          BY <1>a, <5>2, BlockFacts
        <5>4. /\ at[j] = o + BlockLength(j) /\ Same(d, o, stream, emitted[j].at, BlockLength(j))
          BY <2>3, <5>1, <5>2 DEF Laid, Piece
        <5>5. PICK L \in Nat, r \in Nat : L = BlockLength(j) /\ r = at[j]
          BY <5>3
        <5>6. r = o + L /\ r > n
          BY <4>2, <5>1, <5>4, <5>5
        <5>7. m < L /\ m <= L
          BY <3>1, <5>6
        <5>8. k2 < Len(emitted)
          BY <1>0, <4>2
        <5> QED BY <5>1, <5>4, <5>5, <5>7, <5>8
      <4> QED BY <1>2, <4>1, <4>2
    <3>3. Same(e, o, stream, emitted[k2 + 1].at, m)
      <4>1. n \in Nat /\ o + m <= n
        BY <2>3, <3>1
      <4>2. PICK q : q = emitted[k2 + 1].at
        OBVIOUS
      <4>3. m <= N /\ Same(d, o, stream, q, N) /\ \A i \in 1..n : e[i] = d[i]
        BY <1>1, <3>2, <4>2
      <4>4. Same(e, o, stream, q, m)
        BY <4>1, <4>3, SameOf
      <4> QED BY <4>2, <4>4
    <3> QED BY <3>1, <3>2, <3>3 DEF Piece
  <2>5. k2 \in Nat /\ a <= k2 /\ k2 <= Len(emitted) /\ a \in a..k2 /\ k2 \in a..k2
    BY <1>0
  <2>6. at2[a] = 0 /\ at2[k2] = o
    BY <1>0, <2>1, <2>3, <2>5
  <2>7. Laid(e, a, k2, at2)
    BY <1>0, <2>1, <2>2, <2>4, <2>5, <2>6 DEF Laid
  <2> QED BY <2>7
<1> DEFINE T == {j \in a..k : at[j] > n}
<1>3. CASE T = {}
  <2>1. \A j \in a..k : at[j] <= n
    BY <1>0, <1>a, <1>3
  <2>2. k \in a..k
    BY <1>0
  <2>3. \E at2 : Laid(e, a, k, at2)
    BY <1>2, <2>1, <2>2
  <2> QED BY <1>1, <2>3
<1>4. CASE T # {}
  <2>1. T \subseteq Nat
    BY <1>0
  <2>2. PICK x \in T : \A y \in T : x <= y
    BY <1>4, <2>1, LeastElement
  <2>3. x \in a..k /\ at[x] > n
    OBVIOUS
  <2>4. x # a
    BY <1>0, <2>3
  <2>5. PICK k2 \in a..k : k2 + 1 = x /\ k2 < k
    <3>1. x - 1 \in a..k /\ (x - 1) + 1 = x /\ x - 1 < k
      BY <1>0, <2>3, <2>4
    <3> QED BY <3>1
  <2>6. ASSUME NEW j \in a..k2 PROVE at[j] <= n
    <3>1. j \in a..k /\ ~(x <= j)
      BY <1>0, <2>5
    <3>2. ~(at[j] > n)
      BY <2>2, <3>1
    <3> QED BY <1>0, <1>a, <3>1, <3>2
  <2> HIDE DEF T
  <2>7. \E at2 : Laid(e, a, k2, at2)
    BY <1>2, <2>3, <2>5, <2>6
  <2> QED BY <1>1, <2>7
<1> QED BY <1>3, <1>4

\* SbfFrameSync emits another block.
LEMMA LaidGrows ==
  ASSUME Genuine, Len(emitted') \in Nat, Len(emitted) <= Len(emitted'), stream' = stream,
         \A j \in 1..Len(emitted) : emitted'[j] = emitted[j],
         NEW d \in Seq(Byte), NEW a, NEW k, NEW at, Laid(d, a, k, at)
  PROVE  Laid(d, a, k, at)'
<1>0. /\ a \in Nat /\ k \in Nat /\ a <= k /\ k <= Len(emitted) /\ Len(emitted) \in Nat
      /\ at \in [a..k -> Nat] /\ at[a] = 0
  BY LenProperties DEF Laid, Genuine
<1>1. ASSUME NEW j \in 1..Len(emitted), NEW o, NEW n
      PROVE  BlockLength(j)' = BlockLength(j) /\ Piece(d, o, j, n)' = Piece(d, o, j, n)
  <2>1. emitted'[j] = emitted[j]
    OBVIOUS
  <2> QED BY <2>1 DEF BlockLength, Piece, Same
<1>2. ASSUME NEW j \in (a + 1)..k
      PROVE  /\ at[j] = at[j - 1] + BlockLength(j)' /\ at[j] <= Len(d)
             /\ Piece(d, at[j - 1], j, BlockLength(j))'
  <2>1. j \in 1..Len(emitted)
    BY <1>0
  <2>2. /\ at[j] = at[j - 1] + BlockLength(j) /\ at[j] <= Len(d)
        /\ Piece(d, at[j - 1], j, BlockLength(j))
    BY DEF Laid
  <2>3. BlockLength(j)' = BlockLength(j) /\ emitted'[j] = emitted[j]
    BY <1>1, <2>1
  <2> QED BY <2>2, <2>3 DEF Piece, Same
<1>3. Cut(d, at[k], k)'
  <2>0. Cut(d, at[k], k)
    BY DEF Laid
  <2>1. CASE at[k] < Len(d)
    <3>1. k < Len(emitted) /\ k + 1 \in 1..Len(emitted) /\ k < Len(emitted')
      BY <1>0, <2>0, <2>1 DEF Cut
    <3> QED BY <1>1, <2>0, <2>1, <3>1 DEF Cut
  <2>2. CASE ~(at[k] < Len(d))
    BY <2>0, <2>2 DEF Cut
  <2> QED BY <2>1, <2>2
<1>4. k <= Len(emitted')
  BY <1>0
<1> QED BY <1>0, <1>2, <1>3, <1>4 DEF Laid

-----------------------------------------------------------------------------
(* From tokens to bytes: em stands for the blocks emitted.                 *)

\* The tokens of the blocks em.
Tok(em) == [id : 1..Len(em), length : Nat, part : {"header", "body"}]

\* TokenBytes and BytesOf, said of any blocks.
Bytes1(em, t) ==
  LET f == em[t.id].frame IN IF t.part = "header" THEN HeaderBytes(f) ELSE f.body

BytesIn(em, tokens) == FlattenSeq([i \in DOMAIN tokens |-> Bytes1(em, tokens[i])])

\* Every token stands for bytes.
Typed(em) == \A t \in Tok(em) : Bytes1(em, t) \in Seq(Byte)

\* The bytes of tokens, in the module's own words.
LEMMA BytesNames ==
  /\ \A t : TokenBytes(t) = Bytes1(emitted, t)
  /\ \A c : BytesOf(c) = BytesIn(emitted, c)
BY DEF TokenBytes, Bytes1, BytesOf, BytesIn

\* The sequence of the tokens' bytes.
LEMMA BytesSeq ==
  ASSUME NEW em, Typed(em), NEW c \in Seq(Tok(em))
  PROVE  /\ [i \in DOMAIN c |-> Bytes1(em, c[i])] \in Seq(Seq(Byte))
         /\ Len([i \in DOMAIN c |-> Bytes1(em, c[i])]) = Len(c)
<1>1. DOMAIN c = 1..Len(c) /\ Len(c) \in Nat /\ \A i \in 1..Len(c) : c[i] \in Tok(em)
  BY LenProperties, ElementOfSeq
<1> DEFINE s == [i \in 1..Len(c) |-> Bytes1(em, c[i])]
<1>2. s \in [1..Len(c) -> Seq(Byte)]
  BY <1>1 DEF Typed
<1> HIDE DEF s
<1>3. s \in Seq(Seq(Byte)) /\ Len(s) = Len(c)
  BY <1>1, <1>2
<1> QED BY <1>1, <1>3 DEF s

\* Tokens have bytes.
LEMMA BytesType ==
  ASSUME NEW em, Typed(em), NEW c \in Seq(Tok(em))
  PROVE  BytesIn(em, c) \in Seq(Byte)
BY BytesSeq, FlattenSeqType DEF BytesIn

\* No token, no bytes.
LEMMA BytesNone == \A em : BytesIn(em, <<>>) = <<>>
<1> TAKE em
<1>1. [i \in DOMAIN <<>> |-> Bytes1(em, <<>>[i])] = <<>>
  OBVIOUS
<1> QED BY <1>1, FlattenSeqEmpty DEF BytesIn

\* The bytes of one token.
LEMMA BytesOne ==
  ASSUME NEW em, Typed(em), NEW t \in Tok(em)
  PROVE  <<t>> \in Seq(Tok(em)) /\ BytesIn(em, <<t>>) = Bytes1(em, t)
<1>1. Bytes1(em, t) \in Seq(Byte)
  BY DEF Typed
<1>2. PICK b \in Seq(Byte) : b = Bytes1(em, t)
  BY <1>1
<1>3. [i \in DOMAIN <<t>> |-> Bytes1(em, <<t>>[i])] = <<b>>
  BY <1>2
<1>4. <<b>> = Append(<<>>, b) /\ <<>> \in Seq(Seq(Byte))
  OBVIOUS
<1>5. FlattenSeq(<<b>>) = <<>> \o b
  BY <1>4, FlattenSeqAppend, FlattenSeqEmpty
<1>6. <<>> \o b = b
  BY ConcatEmptySeq
<1>7. <<t>> \in Seq(Tok(em))
  OBVIOUS
<1> QED BY <1>2, <1>3, <1>5, <1>6, <1>7 DEF BytesIn

\* The bytes of tokens one behind the other.
LEMMA BytesConcat ==
  ASSUME NEW em, Typed(em), NEW c \in Seq(Tok(em)), NEW b \in Seq(Tok(em))
  PROVE  c \o b \in Seq(Tok(em)) /\ BytesIn(em, c \o b) = BytesIn(em, c) \o BytesIn(em, b)
<1> DEFINE S == Seq(Byte)
           sc == [i \in DOMAIN c |-> Bytes1(em, c[i])]
           sb == [i \in DOMAIN b |-> Bytes1(em, b[i])]
           sd == [i \in DOMAIN (c \o b) |-> Bytes1(em, (c \o b)[i])]
<1>1. /\ DOMAIN c = 1..Len(c) /\ Len(c) \in Nat
      /\ DOMAIN b = 1..Len(b) /\ Len(b) \in Nat
  BY LenProperties
<1>2. PICK d : d = c \o b
  OBVIOUS
<1>3. /\ d \in Seq(Tok(em)) /\ Len(d) = Len(c) + Len(b)
      /\ \A i \in 1..(Len(c) + Len(b)) : d[i] = IF i <= Len(c) THEN c[i] ELSE b[i - Len(c)]
  BY <1>2, ConcatProperties
<1>4. sc \in Seq(S) /\ Len(sc) = Len(c) /\ \A i \in 1..Len(c) : sc[i] = Bytes1(em, c[i])
  BY <1>1, BytesSeq
<1>5. sb \in Seq(S) /\ Len(sb) = Len(b) /\ \A i \in 1..Len(b) : sb[i] = Bytes1(em, b[i])
  BY <1>1, BytesSeq
<1>6. sd \in Seq(S) /\ Len(sd) = Len(d) /\ \A i \in 1..Len(d) : sd[i] = Bytes1(em, d[i])
  <2>1. DOMAIN d = 1..Len(d)
    BY <1>3, LenProperties
  <2> QED BY <1>2, <1>3, <2>1, BytesSeq
<1> HIDE DEF S, sc, sb, sd
<1>7. PICK x : x = sc \o sb
  OBVIOUS
<1>8. /\ x \in Seq(S) /\ Len(x) = Len(c) + Len(b)
      /\ \A i \in 1..(Len(c) + Len(b)) : x[i] = IF i <= Len(c) THEN sc[i] ELSE sb[i - Len(c)]
  <2>1. /\ x \in Seq(S) /\ Len(x) = Len(sc) + Len(sb)
        /\ \A i \in 1..(Len(sc) + Len(sb)) :
             x[i] = IF i <= Len(sc) THEN sc[i] ELSE sb[i - Len(sc)]
    <3>1. sc \in Seq(S) /\ sb \in Seq(S)
      BY <1>4, <1>5
    <3> QED BY <1>7, <3>1, ConcatProperties
  <2>2. Len(sc) = Len(c) /\ Len(sb) = Len(b)
    BY <1>4, <1>5
  <2> QED BY <2>1, <2>2
<1>9. ASSUME NEW i \in 1..Len(d) PROVE sd[i] = x[i]
  <2>1. i \in 1..(Len(c) + Len(b))
    BY <1>3
  <2>2. CASE i <= Len(c)
    <3>1. i \in 1..Len(c)
      BY <1>1, <2>1, <2>2
    <3> QED BY <1>3, <1>4, <1>6, <1>8, <2>1, <2>2, <3>1
  <2>3. CASE ~(i <= Len(c))
    <3>1. i - Len(c) \in 1..Len(b)
      BY <1>1, <2>1, <2>3
    <3> QED BY <1>3, <1>5, <1>6, <1>8, <2>1, <2>3, <3>1
  <2> QED BY <2>2, <2>3
<1>10. sd = x
  BY <1>3, <1>6, <1>8, <1>9, SeqEqual
<1>11. FlattenSeq(sc \o sb) = FlattenSeq(sc) \o FlattenSeq(sb)
  BY <1>4, <1>5, FlattenSeqConcat DEF S
<1> QED BY <1>2, <1>3, <1>7, <1>10, <1>11 DEF BytesIn, sc, sb, sd

\* Another block emitted changes nothing of the tokens there are.
LEMMA BytesGrow ==
  ASSUME NEW em, NEW en, Len(em) \in Nat, Len(en) \in Nat, Len(em) <= Len(en),
         \A j \in 1..Len(em) : en[j] = em[j]
  PROVE  /\ Tok(em) \subseteq Tok(en)
         /\ \A c \in Seq(Tok(em)) : c \in Seq(Tok(en)) /\ BytesIn(en, c) = BytesIn(em, c)
<1>1. Tok(em) \subseteq Tok(en)
  <2>1. \A j \in 1..Len(em) : j \in 1..Len(en)
    OBVIOUS
  <2> QED BY <2>1 DEF Tok
<1>2. ASSUME NEW c \in Seq(Tok(em))
      PROVE  c \in Seq(Tok(en)) /\ BytesIn(en, c) = BytesIn(em, c)
  <2>1. c \in Seq(Tok(en))
    BY <1>1, SeqMonotonic
  <2>2. DOMAIN c = 1..Len(c) /\ \A i \in 1..Len(c) : c[i] \in Tok(em)
    BY LenProperties, ElementOfSeq
  <2>3. ASSUME NEW i \in DOMAIN c PROVE Bytes1(en, c[i]) = Bytes1(em, c[i])
    <3>1. c[i].id \in 1..Len(em)
      BY <2>2 DEF Tok
    <3> QED BY <3>1 DEF Bytes1
  <2>4. [i \in DOMAIN c |-> Bytes1(en, c[i])] = [i \in DOMAIN c |-> Bytes1(em, c[i])]
    BY <2>3
  <2> QED BY <2>1, <2>4 DEF BytesIn
<1> QED BY <1>1, <1>2

-----------------------------------------------------------------------------
(* The bytes write_frame_() writes are those of the block.                 *)

\* The two bytes of a 16-bit field.
LEMMA TwoBytes ==
  \A a, b \in Byte : (a + 256 * b) % 256 = a /\ (a + 256 * b) \div 256 = b
BY DEF Byte

\* The header and the body of a block emitted.
LEMMA FrameBytes ==
  ASSUME Genuine, NEW j \in 1..Len(emitted)
  PROVE  /\ HeaderBytes(emitted[j].frame) \in Seq(Byte)
         /\ Len(HeaderBytes(emitted[j].frame)) = 8
         /\ Same(HeaderBytes(emitted[j].frame), 0, stream, emitted[j].at, 8)
         /\ emitted[j].frame.body \in Seq(Byte)
         /\ Len(emitted[j].frame.body) = BlockLength(j) - 8
         /\ Same(emitted[j].frame.body, 0, stream, emitted[j].at + 8, BlockLength(j) - 8)
<1>1. PICK p \in Nat, n \in Nat : p = emitted[j].at /\ n = BlockLength(j)
  BY BlockFacts
<1>2. /\ n >= 8 /\ p + n <= Len(stream) /\ LengthAt(stream, p) = n
      /\ stream[p + 1] = Dollar /\ stream[p + 2] = At
      /\ emitted[j].frame = FrameFields(stream, p)
  BY <1>1, BlockFacts
<1>3. stream \in Seq(Byte) /\ Len(stream) \in Nat
  BY LenProperties DEF Genuine
<1>4. PICK f : f = emitted[j].frame
  OBVIOUS
<1>5. \A i \in 1..8 : stream[p + i] \in Byte
  <2>1. \A i \in 1..8 : p + i \in 1..Len(stream)
    BY <1>2, <1>3
  <2> QED BY <1>3, <2>1, ElementOfSeq
<1>6. /\ f.crc = stream[p + 3] + 256 * stream[p + 4]
      /\ f.raw_id = stream[p + 5] + 256 * stream[p + 6]
      /\ f.length = stream[p + 7] + 256 * stream[p + 8]
  <2>1. /\ p + 2 + 1 = p + 3 /\ p + 2 + 2 = p + 4 /\ p + 4 + 1 = p + 5 /\ p + 4 + 2 = p + 6
        /\ p + 6 + 1 = p + 7 /\ p + 6 + 2 = p + 8
    OBVIOUS
  <2>2. /\ f.crc = U16(stream, p + 2) /\ f.raw_id = U16(stream, p + 4)
        /\ f.length = U16(stream, p + 6)
    BY <1>2, <1>4 DEF FrameFields, LengthAt
  <2> QED BY <2>1, <2>2 DEF U16
<1>7. /\ f.crc % 256 = stream[p + 3] /\ f.crc \div 256 = stream[p + 4]
      /\ f.raw_id % 256 = stream[p + 5] /\ f.raw_id \div 256 = stream[p + 6]
      /\ f.length % 256 = stream[p + 7] /\ f.length \div 256 = stream[p + 8]
  <2>1. /\ 3 \in 1..8 /\ 4 \in 1..8 /\ 5 \in 1..8 /\ 6 \in 1..8 /\ 7 \in 1..8 /\ 8 \in 1..8
    OBVIOUS
  <2>2. /\ stream[p + 3] \in Byte /\ stream[p + 4] \in Byte /\ stream[p + 5] \in Byte
        /\ stream[p + 6] \in Byte /\ stream[p + 7] \in Byte /\ stream[p + 8] \in Byte
    BY <1>5, <2>1, Zenon
  <2>3. ASSUME NEW x, NEW a \in Byte, NEW b \in Byte, x = a + 256 * b
        PROVE  x % 256 = a /\ x \div 256 = b
    BY <2>3, TwoBytes
  <2>4. f.crc % 256 = stream[p + 3] /\ f.crc \div 256 = stream[p + 4]
    <3>1. /\ f.crc = stream[p + 3] + 256 * stream[p + 4]
          /\ stream[p + 3] \in Byte /\ stream[p + 4] \in Byte
      BY <1>6, <2>2
    <3> QED BY <2>3, <3>1
  <2>5. f.raw_id % 256 = stream[p + 5] /\ f.raw_id \div 256 = stream[p + 6]
    <3>1. /\ f.raw_id = stream[p + 5] + 256 * stream[p + 6]
          /\ stream[p + 5] \in Byte /\ stream[p + 6] \in Byte
      BY <1>6, <2>2
    <3> QED BY <2>3, <3>1
  <2>6. f.length % 256 = stream[p + 7] /\ f.length \div 256 = stream[p + 8]
    <3>1. /\ f.length = stream[p + 7] + 256 * stream[p + 8]
          /\ stream[p + 7] \in Byte /\ stream[p + 8] \in Byte
      BY <1>6, <2>2
    <3> QED BY <2>3, <3>1
  <2> QED BY <2>4, <2>5, <2>6
<1>8. PICK h : h = HeaderBytes(f)
  OBVIOUS
<1>9. h = <<stream[p + 1], stream[p + 2], stream[p + 3], stream[p + 4],
            stream[p + 5], stream[p + 6], stream[p + 7], stream[p + 8]>>
  BY <1>2, <1>7, <1>8, Zenon DEF HeaderBytes
<1>10. h \in Seq(Byte) /\ Len(h) = 8 /\ \A i \in 1..8 : h[i] = stream[p + i]
  BY <1>5, <1>9
<1>11. Same(h, 0, stream, p, 8)
  BY <1>10 DEF Same
<1>12. f.body = SubSeq(stream, p + HeaderSize + 1, p + n)
  <2>1. f = FrameFields(stream, p)
    BY <1>2, <1>4
  <2>2. f.body = SubSeq(stream, p + HeaderSize + 1, p + LengthAt(stream, p))
    BY <2>1 DEF FrameFields
  <2> QED BY <1>2, <2>2
<1>13. /\ f.body \in Seq(Byte) /\ Len(f.body) = n - 8
       /\ \A i \in 1..(n - 8) : f.body[i] = stream[(p + 8) + i]
  <2>1. /\ p + 8 \in Nat /\ n - 8 \in Nat /\ (p + 8) + (n - 8) <= Len(stream)
        /\ p + HeaderSize + 1 = (p + 8) + 1 /\ p + n = (p + 8) + (n - 8)
    BY <1>2, <1>3 DEF HeaderSize
  <2>2. PICK q \in Nat, m \in Nat : q = p + 8 /\ m = n - 8 /\ q + m <= Len(stream)
    BY <2>1
  <2>3. f.body = SubSeq(stream, q + 1, q + m)
    BY <1>12, <2>1, <2>2
  <2>4. /\ SubSeq(stream, q + 1, q + m) \in Seq(Byte) /\ Len(SubSeq(stream, q + 1, q + m)) = m
        /\ \A i \in 1..m : SubSeq(stream, q + 1, q + m)[i] = stream[q + i]
    BY <1>3, <2>2, Slice
  <2> QED BY <2>2, <2>3, <2>4
<1>14. Same(f.body, 0, stream, p + 8, n - 8)
  <2>1. \A i \in 1..(n - 8) : 0 + i = i
    OBVIOUS
  <2> QED BY <1>13, <2>1 DEF Same
<1> QED BY <1>1, <1>4, <1>8, <1>10, <1>11, <1>13, <1>14

\* So every token stands for bytes.
LEMMA GenuineTyped == Genuine => Typed(emitted)
<1> SUFFICES ASSUME Genuine, NEW t \in Tok(emitted) PROVE Bytes1(emitted, t) \in Seq(Byte)
  BY DEF Typed
<1>1. t.id \in 1..Len(emitted)
  BY DEF Tok
<1> QED BY <1>1, FrameBytes DEF Bytes1

-----------------------------------------------------------------------------
\* Two stretches of bytes that follow each other.
LEMMA SameJoined ==
  ASSUME NEW x \in Seq(Byte), NEW y \in Seq(Byte), NEW s, NEW p \in Nat,
         Same(x, 0, s, p, Len(x)), Same(y, 0, s, p + Len(x), Len(y))
  PROVE  Same(x \o y, 0, s, p, Len(x \o y))
<1>1. Len(x) \in Nat /\ Len(y) \in Nat
  BY LenProperties
<1>2. PICK m \in Nat, n \in Nat : m = Len(x) /\ n = Len(y)
  BY <1>1
<1>3. PICK z : z = x \o y
  OBVIOUS
<1>4. /\ Len(z) = m + n
      /\ \A i \in 1..m : z[i] = x[i]
      /\ \A i \in 1..n : z[m + i] = y[i]
  BY <1>2, <1>3, Joined
<1>5. ASSUME NEW i \in 1..(m + n) PROVE z[0 + i] = s[p + i]
  <2>1. CASE i <= m
    <3>1. i \in 1..m /\ 0 + i = i
      BY <2>1
    <3>2. x[0 + i] = s[p + i]
      BY <1>2, <3>1 DEF Same
    <3> QED BY <1>4, <3>1, <3>2
  <2>2. CASE ~(i <= m)
    <3>1. PICK k \in 1..n : k = i - m /\ i = m + k /\ 0 + k = k /\ 0 + i = i /\ (p + m) + k = p + i
      BY <2>2
    <3>2. y[0 + k] = s[(p + m) + k]
      BY <1>2, <3>1 DEF Same
    <3> QED BY <1>4, <3>1, <3>2
  <2> QED BY <2>1, <2>2
<1> QED BY <1>3, <1>4, <1>5 DEF Same

\* The beginning of a stretch of bytes.
LEMMA SameCutShort ==
  ASSUME NEW x \in Seq(Byte), NEW s, NEW p \in Nat, Same(x, 0, s, p, Len(x)),
         NEW y \in CutShort(x)
  PROVE  y \in Seq(Byte) /\ Len(y) < Len(x) /\ Same(y, 0, s, p, Len(y))
<1>1. Len(x) \in Nat
  BY LenProperties
<1>2. PICK k \in 0..(Len(x) - 1) : y = SubSeq(x, 1, k)
  BY DEF CutShort
<1>3. k \in Nat /\ 0 + k <= Len(x) /\ 1 = 0 + 1 /\ k = 0 + k /\ 0 \in Nat /\ k < Len(x)
  BY <1>1
<1>4. y \in Seq(Byte) /\ Len(y) = k /\ \A i \in 1..k : y[i] = x[0 + i]
  BY <1>2, <1>3, Slice
<1>5. \A i \in 1..k : 0 + i = i /\ i \in 1..Len(x)
  BY <1>1, <1>3
<1>6. Same(y, 0, s, p, k)
  BY <1>4, <1>5 DEF Same
<1> QED BY <1>3, <1>4, <1>6

\* The tokens of the block emitted as j.
HeaderToken(j) == [id |-> j, length |-> BlockLength(j), part |-> "header"]
BodyToken(j) == [id |-> j, length |-> BlockLength(j), part |-> "body"]
BlockTokens(j) ==
  IF BlockLength(j) = 8 THEN <<HeaderToken(j)>> ELSE <<HeaderToken(j), BodyToken(j)>>

\* write_frame_() writes these tokens.
LEMMA TokensOfBlock ==
  ASSUME NEW j
  PROVE  Rec!Tokens([id |-> j, length |-> BlockLength(j)]) = BlockTokens(j)
BY DEF Rec!Tokens, Rec!HeaderSize, BlockTokens, HeaderToken, BodyToken

\* Their bytes.
LEMMA TokenFacts ==
  ASSUME Genuine, NEW j \in 1..Len(emitted)
  PROVE  /\ HeaderToken(j) \in Tok(emitted) /\ BodyToken(j) \in Tok(emitted)
         /\ Bytes1(emitted, HeaderToken(j)) = HeaderBytes(emitted[j].frame)
         /\ Bytes1(emitted, BodyToken(j)) = emitted[j].frame.body
<1>1. BlockLength(j) \in Nat
  BY BlockFacts
<1> QED BY <1>1 DEF HeaderToken, BodyToken, Tok, Bytes1

\* A block written whole.
LEMMA WholeBytes ==
  ASSUME Genuine, NEW j \in 1..Len(emitted)
  PROVE  /\ BlockTokens(j) \in Seq(Tok(emitted))
         /\ BytesIn(emitted, BlockTokens(j)) \in Seq(Byte)
         /\ Len(BytesIn(emitted, BlockTokens(j))) = BlockLength(j)
         /\ Same(BytesIn(emitted, BlockTokens(j)), 0, stream, emitted[j].at, BlockLength(j))
<1>0. Typed(emitted)
  BY GenuineTyped
<1>1. PICK h, b : h = HeaderBytes(emitted[j].frame) /\ b = emitted[j].frame.body
  OBVIOUS
<1>2. PICK p \in Nat, n \in Nat : p = emitted[j].at /\ n = BlockLength(j) /\ n >= 8
  BY BlockFacts
<1>3. /\ h \in Seq(Byte) /\ Len(h) = 8 /\ Same(h, 0, stream, p, 8)
      /\ b \in Seq(Byte) /\ Len(b) = n - 8 /\ Same(b, 0, stream, p + 8, n - 8)
  BY <1>1, <1>2, FrameBytes
<1>4. PICK t \in Tok(emitted), u \in Tok(emitted) :
        /\ t = HeaderToken(j) /\ u = BodyToken(j)
        /\ Bytes1(emitted, t) = h /\ Bytes1(emitted, u) = b
  BY <1>1, TokenFacts
<1>5. /\ <<t>> \in Seq(Tok(emitted)) /\ BytesIn(emitted, <<t>>) = h
      /\ <<u>> \in Seq(Tok(emitted)) /\ BytesIn(emitted, <<u>>) = b
  BY <1>0, <1>4, BytesOne
<1>6. CASE n = 8
  <2>1. BlockTokens(j) = <<t>>
    BY <1>2, <1>4, <1>6 DEF BlockTokens
  <2> QED BY <1>2, <1>3, <1>5, <1>6, <2>1
<1>7. CASE n # 8
  <2>1. BlockTokens(j) = <<t>> \o <<u>>
    <3>1. BlockTokens(j) = <<t, u>>
      BY <1>2, <1>4, <1>7 DEF BlockTokens
    <3> QED BY <3>1, PairConcat
  <2>2. /\ BlockTokens(j) \in Seq(Tok(emitted))
        /\ BytesIn(emitted, BlockTokens(j)) = h \o b
    BY <1>0, <1>5, <2>1, BytesConcat
  <2>3. h \o b \in Seq(Byte) /\ Len(h \o b) = n
    <3>1. h \in Seq(Byte) /\ b \in Seq(Byte) /\ Len(h) = 8 /\ Len(b) = n - 8
      BY <1>3
    <3>2. h \o b \in Seq(Byte) /\ Len(h \o b) = Len(h) + Len(b)
      BY <3>1, Joined
    <3> QED BY <3>1, <3>2
  <2>4. Same(h \o b, 0, stream, p, Len(h \o b))
    BY <1>3, SameJoined
  <2> QED BY <1>2, <2>2, <2>3, <2>4
<1> QED BY <1>6, <1>7

\* A block that was cut short in its header or in its body.
LEMMA PartBytes ==
  ASSUME Genuine, NEW j \in 1..Len(emitted), NEW y,
         \/ \E z \in CutShort(Bytes1(emitted, HeaderToken(j))) : y = z
         \/ \E z \in CutShort(Bytes1(emitted, BodyToken(j))) :
              y = Bytes1(emitted, HeaderToken(j)) \o z
  PROVE  /\ y \in Seq(Byte) /\ Len(y) < BlockLength(j)
         /\ Same(y, 0, stream, emitted[j].at, Len(y))
<1>1. PICK h, b : h = HeaderBytes(emitted[j].frame) /\ b = emitted[j].frame.body
  OBVIOUS
<1>2. PICK p \in Nat, n \in Nat : p = emitted[j].at /\ n = BlockLength(j) /\ n >= 8
  BY BlockFacts
<1>3. /\ h \in Seq(Byte) /\ Len(h) = 8 /\ Same(h, 0, stream, p, 8)
      /\ b \in Seq(Byte) /\ Len(b) = n - 8 /\ Same(b, 0, stream, p + 8, n - 8)
  BY <1>1, <1>2, FrameBytes
<1>4. Bytes1(emitted, HeaderToken(j)) = h /\ Bytes1(emitted, BodyToken(j)) = b
  BY <1>1, TokenFacts
<1>5. CASE y \in CutShort(h)
  <2>1. y \in Seq(Byte) /\ Len(y) < Len(h) /\ Same(y, 0, stream, p, Len(y))
    BY <1>3, <1>5, SameCutShort
  <2>2. Len(y) < n
    BY <1>2, <1>3, <2>1, LenProperties
  <2> QED BY <1>2, <2>1, <2>2
<1>6. ASSUME NEW z \in CutShort(b), y = h \o z
      PROVE  /\ y \in Seq(Byte) /\ Len(y) < BlockLength(j)
             /\ Same(y, 0, stream, emitted[j].at, Len(y))
  <2>1. p + 8 \in Nat /\ Same(b, 0, stream, p + 8, Len(b))
    BY <1>3
  <2>2. z \in Seq(Byte) /\ Len(z) < Len(b) /\ Same(z, 0, stream, p + 8, Len(z))
    BY <1>3, <1>6, <2>1, SameCutShort
  <2>3. y \in Seq(Byte) /\ Len(y) = 8 + Len(z) /\ Len(z) \in Nat
    <3>1. h \in Seq(Byte) /\ z \in Seq(Byte) /\ Len(h) = 8 /\ Len(z) \in Nat
      BY <1>3, <2>2, LenProperties
    <3>2. h \o z \in Seq(Byte) /\ Len(h \o z) = Len(h) + Len(z)
      BY <3>1, Joined
    <3> QED BY <1>6, <3>1, <3>2
  <2>4. Same(y, 0, stream, p, Len(y))
    BY <1>3, <1>6, <2>2, SameJoined
  <2>5. Len(y) < n
    BY <1>2, <1>3, <2>2, <2>3
  <2> QED BY <1>2, <2>3, <2>4, <2>5
<1> QED BY <1>4, <1>5, <1>6

-----------------------------------------------------------------------------
(* The directory: fs its files, b stdio's buffer, t the torn bytes.        *)

\* A file whose tokens are in T.
FileOf(T) == [name : [time : Nat, seq : Nat], run : Nat, content : Seq(T)]

\* What parser.py reads from the files that were rotated away from.
OlderOf(em, fs) ==
  FlattenSeq([i \in 1..(Len(fs) - 1) |-> iter_frames(BytesIn(em, fs[i].content))])

\* The bytes of the newest file, counting what stdio will still write.
NewestOf(em, fs, b, t) ==
  IF fs = <<>> THEN <<>>
  ELSE BytesIn(em, fs[Len(fs)].content) \o (BytesIn(em, b) \o t)

\* ReadBack, said of any directory.
Reading(em, fs, b, t) ==
  FlattenSeq([i \in DOMAIN fs |->
    iter_frames(BytesIn(em, fs[i].content)
                  \o IF i < Len(fs) THEN <<>> ELSE BytesIn(em, b) \o t)])

\* What iter_frames() yields; it finds nothing in an empty file.
LEMMA IterFramesType ==
  /\ \A d \in Seq(Byte) : iter_frames(d) \in Seq(FrameType)
  /\ iter_frames(<<>>) = <<>>
<1>1. ASSUME NEW d \in Seq(Byte) PROVE iter_frames(d) \in Seq(FrameType)
  <2>1. PICK f : Parses(f, d, 0) /\ iter_frames(d) = f[0]
    BY IterFramesUnfold
  <2>2. 0 \in 0..Len(d)
    BY LenProperties
  <2> QED BY <2>1, <2>2, ParsedFound DEF Found
<1>2. iter_frames(<<>>) = <<>>
  <2>1. <<>> \in Seq(Byte) /\ Len(<<>>) = 0
    OBVIOUS
  <2>2. PICK f : Parses(f, <<>>, 0) /\ iter_frames(<<>>) = f[0]
    BY <2>1, IterFramesUnfold
  <2>3. f[0] = ParseStep(f, <<>>, 0)
    BY <2>1, <2>2 DEF Parses
  <2>4. 0 + 8 > Len(<<>>)
    BY <2>1
  <2> QED BY <2>2, <2>3, <2>4 DEF ParseStep
<1> QED BY <1>1, <1>2

\* The bytes of a file.
LEMMA ContentType ==
  ASSUME NEW em, Typed(em), NEW fs \in Seq(FileOf(Tok(em))), NEW i \in 1..Len(fs)
  PROVE  /\ fs[i] \in FileOf(Tok(em)) /\ fs[i].content \in Seq(Tok(em))
         /\ BytesIn(em, fs[i].content) \in Seq(Byte)
         /\ iter_frames(BytesIn(em, fs[i].content)) \in Seq(FrameType)
<1>1. fs[i] \in FileOf(Tok(em))
  BY ElementOfSeq
<1>2. fs[i].content \in Seq(Tok(em))
  BY <1>1 DEF FileOf
<1>3. BytesIn(em, fs[i].content) \in Seq(Byte)
  BY <1>2, BytesType
<1> QED BY <1>1, <1>2, <1>3, IterFramesType

\* The frames of each of the older files.
LEMMA OlderParts ==
  ASSUME NEW em, Typed(em), NEW fs \in Seq(FileOf(Tok(em))), NEW n \in Nat, n <= Len(fs)
  PROVE  /\ [i \in 1..n |-> iter_frames(BytesIn(em, fs[i].content))] \in Seq(Seq(FrameType))
         /\ Len([i \in 1..n |-> iter_frames(BytesIn(em, fs[i].content))]) = n
<1> DEFINE s == [i \in 1..n |-> iter_frames(BytesIn(em, fs[i].content))]
<1>0. Len(fs) \in Nat
  BY LenProperties
<1>1. ASSUME NEW i \in 1..n
      PROVE  iter_frames(BytesIn(em, fs[i].content)) \in Seq(FrameType)
  <2>1. i \in 1..Len(fs)
    BY <1>0
  <2> QED BY <2>1, ContentType
<1>2. s \in [1..n -> Seq(FrameType)]
  BY <1>1
<1> HIDE DEF s
<1>3. s \in Seq(Seq(FrameType)) /\ Len(s) = n
  BY <1>2
<1> QED BY <1>3 DEF s

\* Without a file.
LEMMA NoFiles ==
  ASSUME NEW em, NEW b, NEW t
  PROVE  /\ OlderOf(em, <<>>) = <<>> /\ NewestOf(em, <<>>, b, t) = <<>>
         /\ Reading(em, <<>>, b, t) = <<>>
<1>1. Len(<<>>) = 0 /\ 1..(0 - 1) = {} /\ DOMAIN <<>> = {}
  OBVIOUS
<1>2. [i \in 1..(Len(<<>>) - 1) |-> iter_frames(BytesIn(em, <<>>[i].content))] = <<>>
  BY <1>1
<1>3. [i \in DOMAIN <<>> |-> iter_frames(BytesIn(em, <<>>[i].content)
                  \o IF i < Len(<<>>) THEN <<>> ELSE BytesIn(em, b) \o t)] = <<>>
  BY <1>1
<1> QED BY <1>2, <1>3, FlattenSeqEmpty DEF OlderOf, NewestOf, Reading

\* Types of the two views.
LEMMA ViewTypes ==
  ASSUME NEW em, Typed(em), NEW fs \in Seq(FileOf(Tok(em))), NEW b \in Seq(Tok(em)),
         NEW t \in Seq(Byte)
  PROVE  OlderOf(em, fs) \in Seq(FrameType) /\ NewestOf(em, fs, b, t) \in Seq(Byte)
<1>0. Len(fs) \in Nat
  BY LenProperties
<1>1. CASE fs = <<>>
  <2>2. OlderOf(em, fs) = <<>> /\ NewestOf(em, fs, b, t) = <<>>
    BY <1>1, NoFiles
  <2> QED BY <2>2, EmptySeq
<1>2. CASE fs # <<>>
  <2>1. Len(fs) # 0
    BY <1>2, EmptySeq
  <2>2. Len(fs) - 1 \in Nat /\ Len(fs) - 1 <= Len(fs) /\ Len(fs) \in 1..Len(fs)
    BY <1>0, <2>1
  <2>3. OlderOf(em, fs) \in Seq(FrameType)
    BY <2>2, OlderParts, FlattenSeqType DEF OlderOf
  <2>4. BytesIn(em, fs[Len(fs)].content) \in Seq(Byte) /\ BytesIn(em, b) \in Seq(Byte)
    BY <2>2, ContentType, BytesType
  <2>5. BytesIn(em, b) \o t \in Seq(Byte)
    BY <2>4, ConcatProperties
  <2>6. BytesIn(em, fs[Len(fs)].content) \o (BytesIn(em, b) \o t) \in Seq(Byte)
    BY <2>4, <2>5, ConcatProperties
  <2> QED BY <1>2, <2>3, <2>6 DEF NewestOf
<1> QED BY <1>1, <1>2

\* parser.py reads the older files, then the newest.
LEMMA ReadingSplit ==
  ASSUME NEW em, Typed(em), NEW fs \in Seq(FileOf(Tok(em))), NEW b \in Seq(Tok(em)),
         NEW t \in Seq(Byte)
  PROVE  Reading(em, fs, b, t) = OlderOf(em, fs) \o iter_frames(NewestOf(em, fs, b, t))
<1>0. Len(fs) \in Nat /\ DOMAIN fs = 1..Len(fs)
  BY LenProperties
<1>1. CASE fs = <<>>
  <2>1. <<>> \o <<>> = <<>>
    BY EmptySeq, ConcatEmptySeq
  <2> QED BY <1>1, <2>1, NoFiles, IterFramesType
<1>2. CASE fs # <<>>
  <2>1. Len(fs) # 0
    BY <1>2, EmptySeq
  <2>2. PICK n \in Nat : n = Len(fs) - 1 /\ n + 1 = Len(fs) /\ n <= Len(fs)
    <3>1. /\ Len(fs) - 1 \in Nat /\ (Len(fs) - 1) + 1 = Len(fs)
          /\ Len(fs) - 1 <= Len(fs)
      BY <1>0, <2>1
    <3> QED BY <3>1, Zenon
  <2> DEFINE older == [i \in 1..n |-> iter_frames(BytesIn(em, fs[i].content))]
             newest == iter_frames(NewestOf(em, fs, b, t))
             all == [i \in 1..(n + 1) |->
                       iter_frames(BytesIn(em, fs[i].content)
                         \o IF i < n + 1 THEN <<>> ELSE BytesIn(em, b) \o t)]
  <2>3. older \in Seq(Seq(FrameType)) /\ Len(older) = n
    <3>1. n <= Len(fs)
      BY <2>2
    <3> QED BY <3>1, OlderParts, SMTT(20)
  <2>4. newest \in Seq(FrameType)
    BY ViewTypes, IterFramesType
  <2>5. \A i \in 1..n : older[i] = iter_frames(BytesIn(em, fs[i].content))
    OBVIOUS
  <2>6. ASSUME NEW i \in 1..n PROVE all[i] = older[i]
    <3>1. i \in 1..(n + 1) /\ i < n + 1 /\ i \in 1..Len(fs)
      BY <2>2
    <3>2. BytesIn(em, fs[i].content) \in Seq(Byte)
      BY <3>1, ContentType
    <3>3. BytesIn(em, fs[i].content) \o <<>> = BytesIn(em, fs[i].content)
      BY <3>2, ConcatEmptySeq
    <3> QED BY <3>1, <3>3
  <2>7. all[n + 1] = newest
    <3>1. n + 1 \in 1..(n + 1) /\ ~(n + 1 < n + 1)
      OBVIOUS
    <3> QED BY <1>2, <2>2, <3>1 DEF NewestOf
  <2>8. Reading(em, fs, b, t) = FlattenSeq(all)
    BY <1>0, <2>2 DEF Reading
  <2>9. OlderOf(em, fs) = FlattenSeq(older)
    BY <2>2 DEF OlderOf
  <2>a. all = [i \in 1..(n + 1) |-> all[i]]
    OBVIOUS
  <2> HIDE DEF older, newest, all
  <2>10. PICK s : s = Append(older, newest)
    OBVIOUS
  <2>11. /\ s \in Seq(Seq(FrameType)) /\ Len(s) = n + 1 /\ s[n + 1] = newest
         /\ \A i \in 1..n : s[i] = older[i]
    BY <2>3, <2>4, <2>10, AppendProperties
  <2>12. \A i \in 1..(n + 1) : all[i] = s[i]
    <3>1. \A i \in 1..(n + 1) : i = n + 1 \/ i \in 1..n
      OBVIOUS
    <3> QED BY <2>6, <2>7, <2>11, <3>1
  <2>13. all = s
    <3>1. s = [i \in 1..(n + 1) |-> s[i]]
      BY <2>11
    <3>2. [i \in 1..(n + 1) |-> all[i]] = [i \in 1..(n + 1) |-> s[i]]
      BY <2>12
    <3> QED BY <2>a, <3>1, <3>2
  <2>14. FlattenSeq(s) = FlattenSeq(older) \o newest
    BY <2>3, <2>4, <2>10, FlattenSeqAppend
  <2> QED BY <2>8, <2>9, <2>13, <2>14 DEF newest
<1> QED BY <1>1, <1>2

-----------------------------------------------------------------------------
\* gs is the directory fs after the tokens c went to its newest file.
Wrote(fs, gs, c) ==
  /\ Len(gs) = Len(fs) /\ Len(fs) \in Nat \ {0}
  /\ \A i \in 1..Len(fs) : gs[i].name = fs[i].name
  /\ \A i \in 1..(Len(fs) - 1) : gs[i] = fs[i]
  /\ gs[Len(fs)].content = fs[Len(fs)].content \o c

\* What flushing does to the directory.
LEMMA FlushedDir ==
  ASSUME NEW T, NEW fs \in Seq(FileOf(T)), fs # <<>>, NEW c \in Seq(T), NEW gs,
         gs = [fs EXCEPT ![Len(fs)].content = @ \o c]
  PROVE  gs \in Seq(FileOf(T)) /\ Wrote(fs, gs, c)
<1>1. PICK n \in Nat \ {0} : n = Len(fs) /\ n \in 1..n
  <2>1. Len(fs) \in Nat \ {0} /\ Len(fs) \in 1..Len(fs)
    BY EmptySeq, LenProperties
  <2> QED BY <2>1
<1>2. fs[n] \in FileOf(T)
  BY <1>1, ElementOfSeq
<1>3. PICK d \in Seq(T) : d = fs[n].content \o c
  <2>1. fs[n].content \in Seq(T)
    BY <1>2 DEF FileOf
  <2> QED BY <2>1, ConcatProperties
<1>4. PICK g : g = [fs[n] EXCEPT !.content = d]
  OBVIOUS
<1>5. g \in FileOf(T) /\ g.name = fs[n].name /\ g.content = d
  <2> DEFINE ST == Seq(T)
  <2> HIDE DEF ST
  <2>1. d \in ST /\ fs[n] \in [name : [time : Nat, seq : Nat], run : Nat, content : ST]
    BY <1>2, <1>3 DEF FileOf, ST
  <2>2. g \in [name : [time : Nat, seq : Nat], run : Nat, content : ST]
        /\ g.name = fs[n].name /\ g.content = d
    BY <1>4, <2>1
  <2> QED BY <2>2 DEF FileOf, ST
<1>6. gs = [fs EXCEPT ![n] = g]
  BY <1>1, <1>3, <1>4
<1>7. gs \in Seq(FileOf(T)) /\ Len(gs) = n /\ \A j \in 1..n : gs[j] = IF j = n THEN g ELSE fs[j]
  <2>1. PICK S : S = FileOf(T)
    OBVIOUS
  <2>2. fs \in Seq(S) /\ g \in S /\ n \in 1..Len(fs)
    BY <1>1, <1>5, <2>1
  <2>3. /\ [fs EXCEPT ![n] = g] \in Seq(S) /\ Len([fs EXCEPT ![n] = g]) = Len(fs)
        /\ \A j \in 1..Len(fs) : [fs EXCEPT ![n] = g][j] = IF j = n THEN g ELSE fs[j]
    BY <2>2, ExceptSeq
  <2> QED BY <1>1, <1>6, <2>1, <2>3
<1>8. \A i \in 1..(n - 1) : i \in 1..n /\ i # n
  BY <1>1
<1> QED BY <1>1, <1>3, <1>5, <1>7, <1>8 DEF Wrote

\* What open_new_file_() makes of the directory fs.
Opening(fs, name, r) ==
  Append([i \in DOMAIN fs |->
            IF fs[i].name = name THEN [fs[i] EXCEPT !.content = <<>>] ELSE fs[i]],
         [name |-> name, run |-> r, content |-> <<>>])

\* What opening a file under a new name does to the directory.
LEMMA OpenedDir ==
  ASSUME NEW T, NEW fs \in Seq(FileOf(T)), NEW name \in [time : Nat, seq : Nat], NEW r \in Nat,
         \A i \in 1..Len(fs) : fs[i].name # name, NEW gs, gs = Opening(fs, name, r)
  PROVE  /\ gs \in Seq(FileOf(T)) /\ Len(gs) = Len(fs) + 1
         /\ \A i \in 1..Len(fs) : gs[i] = fs[i]
         /\ gs[Len(fs) + 1].name = name /\ gs[Len(fs) + 1].content = <<>>
<1>1. DOMAIN fs = 1..Len(fs) /\ Len(fs) \in Nat
  BY LenProperties
<1> DEFINE ks == [i \in DOMAIN fs |->
                    IF fs[i].name = name THEN [fs[i] EXCEPT !.content = <<>>] ELSE fs[i]]
           new == [name |-> name, run |-> r, content |-> <<>>]
<1>2. \A i \in DOMAIN fs : ks[i] = fs[i]
  BY <1>1
<1>3. ks = fs
  <2>1. ks = [i \in DOMAIN fs |-> ks[i]]
    OBVIOUS
  <2>2. fs = [i \in DOMAIN fs |-> fs[i]]
    BY <1>1
  <2> HIDE DEF ks
  <2> QED BY <1>2, <2>1, <2>2
<1>4. new \in FileOf(T) /\ new.name = name /\ new.content = <<>>
  <2> DEFINE ST == Seq(T)
  <2>1. <<>> \in ST
    BY EmptySeq
  <2> HIDE DEF ST
  <2>2. new \in [name : [time : Nat, seq : Nat], run : Nat, content : ST]
    BY <2>1
  <2> QED BY <2>2 DEF FileOf, ST
<1>5. gs = Append(fs, new)
  BY <1>3 DEF Opening
<1> HIDE DEF ks, new
<1>6. /\ gs \in Seq(FileOf(T)) /\ Len(gs) = Len(fs) + 1
      /\ \A i \in 1..Len(fs) : gs[i] = fs[i] /\ gs[Len(fs) + 1] = new
  BY <1>4, <1>5, AppendProperties
<1>7. gs[Len(fs) + 1] = new
  BY <1>4, <1>5, AppendProperties
<1> QED BY <1>4, <1>6, <1>7

\* Bytes put together in one order or in another are the same bytes. The name
\* keeps the provers from looking into the concatenations.
Cat(x, y) == x \o y

LEMMA CatThree ==
  ASSUME NEW x \in Seq(Byte), NEW y \in Seq(Byte), NEW z \in Seq(Byte)
  PROVE  Cat(x, y) \in Seq(Byte) /\ Cat(Cat(x, y), z) = Cat(x, Cat(y, z))
<1>1. (x \o y) \o z = x \o (y \o z)
  BY ConcatAssociative
<1> QED BY <1>1, ConcatProperties DEF Cat

\* The same of four stretches of bytes.
LEMMA CatFour ==
  ASSUME NEW x \in Seq(Byte), NEW y \in Seq(Byte), NEW z \in Seq(Byte), NEW t \in Seq(Byte)
  PROVE  /\ Cat(x, Cat(Cat(y, z), t)) = Cat(Cat(x, y), Cat(z, t))
         /\ Cat(x, Cat(Cat(y, z), t)) = Cat(Cat(Cat(x, y), z), t)
BY CatThree

\* Writing to the newest file leaves the older ones alone; what was in the
\* buffer is on disk.
LEMMA FlushedViews ==
  ASSUME NEW em, Typed(em), NEW fs \in Seq(FileOf(Tok(em))), NEW gs \in Seq(FileOf(Tok(em))),
         NEW c \in Seq(Tok(em)), NEW b \in Seq(Tok(em)), NEW t \in Seq(Byte), Wrote(fs, gs, c)
  PROVE  /\ OlderOf(em, gs) = OlderOf(em, fs)
         /\ NewestOf(em, gs, b, t) = NewestOf(em, fs, c \o b, t)
<1>1. PICK n \in Nat \ {0} : n = Len(fs) /\ n = Len(gs) /\ n \in 1..n
  <2>1. Len(fs) \in Nat \ {0} /\ Len(gs) = Len(fs) /\ Len(fs) \in 1..Len(fs)
    BY DEF Wrote
  <2> QED BY <2>1
<1>2. OlderOf(em, gs) = OlderOf(em, fs)
  <2>1. \A i \in 1..(n - 1) : gs[i] = fs[i]
    BY <1>1 DEF Wrote
  <2>2. [i \in 1..(n - 1) |-> iter_frames(BytesIn(em, gs[i].content))]
          = [i \in 1..(n - 1) |-> iter_frames(BytesIn(em, fs[i].content))]
    BY <2>1
  <2> QED BY <1>1, <2>2 DEF OlderOf
<1>3. fs # <<>> /\ gs # <<>>
  BY <1>1, EmptySeq
<1>4. fs[n].content \in Seq(Tok(em)) /\ gs[n].content = fs[n].content \o c
  BY <1>1, ContentType DEF Wrote
<1>5. /\ BytesIn(em, gs[n].content) = BytesIn(em, fs[n].content) \o BytesIn(em, c)
      /\ BytesIn(em, c \o b) = BytesIn(em, c) \o BytesIn(em, b)
  <2>1. PICK a \in Seq(Tok(em)) : a = fs[n].content
    BY <1>4
  <2>2. BytesIn(em, a \o c) = BytesIn(em, a) \o BytesIn(em, c)
    BY BytesConcat, Zenon
  <2>3. BytesIn(em, c \o b) = BytesIn(em, c) \o BytesIn(em, b)
    BY BytesConcat, Zenon
  <2> QED BY <1>4, <2>1, <2>2, <2>3, Zenon
<1>6. PICK x \in Seq(Byte), y \in Seq(Byte), z \in Seq(Byte) :
        x = BytesIn(em, fs[n].content) /\ y = BytesIn(em, c) /\ z = BytesIn(em, b)
  BY <1>4, BytesType
<1>7. x \o ((y \o z) \o t) = (x \o y) \o (z \o t)
  <2>1. Cat(x, Cat(Cat(y, z), t)) = Cat(Cat(x, y), Cat(z, t))
    BY CatFour
  <2> QED BY <2>1 DEF Cat
<1>8. NewestOf(em, gs, b, t) = (x \o y) \o (z \o t)
  BY <1>1, <1>3, <1>5, <1>6 DEF NewestOf
<1>9. NewestOf(em, fs, c \o b, t) = x \o ((y \o z) \o t)
  BY <1>1, <1>3, <1>5, <1>6 DEF NewestOf
<1> QED BY <1>2, <1>7, <1>8, <1>9

\* What is put into the buffer, or torn off behind it, is put behind the file.
LEMMA BufferedView ==
  ASSUME NEW em, Typed(em), NEW fs \in Seq(FileOf(Tok(em))), fs # <<>>,
         NEW b \in Seq(Tok(em)), NEW c \in Seq(Tok(em)), NEW t \in Seq(Byte)
  PROVE  NewestOf(em, fs, b \o c, t) = NewestOf(em, fs, b, <<>>) \o (BytesIn(em, c) \o t)
<1>1. Len(fs) \in 1..Len(fs)
  BY EmptySeq, LenProperties
<1>2. PICK x \in Seq(Byte), y \in Seq(Byte), z \in Seq(Byte) :
        x = BytesIn(em, fs[Len(fs)].content) /\ y = BytesIn(em, b) /\ z = BytesIn(em, c)
  BY <1>1, ContentType, BytesType
<1>3. BytesIn(em, b \o c) = y \o z
  BY <1>2, BytesConcat
<1>4. y \o <<>> = y
  BY ConcatEmptySeq
<1>5. NewestOf(em, fs, b, <<>>) = x \o y
  BY <1>2, <1>4 DEF NewestOf
<1>6. NewestOf(em, fs, b \o c, t) = x \o ((y \o z) \o t)
  BY <1>2, <1>3 DEF NewestOf
<1>7. x \o ((y \o z) \o t) = (x \o y) \o (z \o t)
  <2>1. Cat(x, Cat(Cat(y, z), t)) = Cat(Cat(x, y), Cat(z, t))
    BY CatFour
  <2> QED BY <2>1 DEF Cat
<1> QED BY <1>2, <1>5, <1>6, <1>7

\* A new file is opened: the newest becomes an older one.
LEMMA OpenedViews ==
  ASSUME NEW em, Typed(em), NEW fs \in Seq(FileOf(Tok(em))), NEW gs \in Seq(FileOf(Tok(em))),
         Len(gs) = Len(fs) + 1, \A i \in 1..Len(fs) : gs[i] = fs[i],
         gs[Len(fs) + 1].content = <<>>
  PROVE  /\ OlderOf(em, gs) = OlderOf(em, fs) \o iter_frames(NewestOf(em, fs, <<>>, <<>>))
         /\ NewestOf(em, gs, <<>>, <<>>) = <<>>
<1>0. Len(fs) \in Nat /\ DOMAIN fs = 1..Len(fs)
  BY LenProperties
<1>1. PICK n \in Nat : n = Len(fs) /\ Len(gs) = n + 1 /\ Len(gs) - 1 = n
  <2>1. Len(gs) - 1 = Len(fs)
    BY <1>0
  <2> QED BY <1>0, <2>1, Zenon
<1>2. <<>> \in Seq(Tok(em)) /\ <<>> \in Seq(Byte) /\ <<>> \o <<>> = <<>>
  BY EmptySeq, ConcatEmptySeq
<1>3. NewestOf(em, gs, <<>>, <<>>) = <<>>
  <2>1. gs # <<>>
    BY <1>1, EmptySeq
  <2>2. gs[Len(gs)].content = <<>>
    BY <1>1
  <2> QED BY <1>2, <2>1, <2>2, BytesNone DEF NewestOf
<1>4. Reading(em, fs, <<>>, <<>>)
        = FlattenSeq([i \in 1..n |-> iter_frames(BytesIn(em, fs[i].content))])
  <2>1. ASSUME NEW i \in 1..n
        PROVE  iter_frames(BytesIn(em, fs[i].content)
                 \o IF i < Len(fs) THEN <<>> ELSE BytesIn(em, <<>>) \o <<>>)
                 = iter_frames(BytesIn(em, fs[i].content))
    <3>1. BytesIn(em, fs[i].content) \in Seq(Byte)
      BY <1>1, ContentType
    <3>2. BytesIn(em, fs[i].content) \o <<>> = BytesIn(em, fs[i].content)
      BY <3>1, ConcatEmptySeq
    <3>3. BytesIn(em, <<>>) \o <<>> = <<>>
      BY <1>2, BytesNone
    <3> QED BY <3>2, <3>3
  <2>2. DOMAIN fs = 1..n
    BY <1>0, <1>1
  <2> QED BY <2>1, <2>2 DEF Reading
<1>5. [i \in 1..n |-> iter_frames(BytesIn(em, fs[i].content))]
        = [i \in 1..(Len(gs) - 1) |-> iter_frames(BytesIn(em, gs[i].content))]
  BY <1>1
<1>6. OlderOf(em, gs) = Reading(em, fs, <<>>, <<>>)
  BY <1>4, <1>5 DEF OlderOf
<1>7. Reading(em, fs, <<>>, <<>>) = OlderOf(em, fs) \o iter_frames(NewestOf(em, fs, <<>>, <<>>))
  BY <1>2, ReadingSplit
<1> QED BY <1>3, <1>6, <1>7

\* Two byte sequences that begin alike.
LEMMA SamePrefix ==
  ASSUME NEW w \in Seq(Byte), NEW t \in Seq(Byte), NEW k \in Nat, k <= Len(w), k <= Len(t),
         \A i \in 1..k : w[i] = t[i]
  PROVE  SubSeq(w, 1, k) = SubSeq(t, 1, k)
<1>1. 0 + k <= Len(w) /\ 0 + k <= Len(t) /\ 0 \in Nat /\ 0 + 1 = 1 /\ 0 + k = k
  OBVIOUS
<1>2. Same(w, 0, t, 0, k)
  <2>1. \A i \in 1..k : 0 + i = i
    OBVIOUS
  <2> QED BY <2>1 DEF Same
<1>3. SubSeq(w, 0 + 1, 0 + k) = SubSeq(t, 0 + 1, 0 + k)
  BY <1>1, <1>2, SameSlice
<1> QED BY <1>1, <1>3

\* The process dies: of what was not on disk, only the first bytes are left.
LEMMA KilledView ==
  ASSUME NEW em, Typed(em), NEW fs \in Seq(FileOf(Tok(em))), NEW b \in Seq(Tok(em)),
         NEW t \in Seq(Byte),
         NEW u, u \in CutShort(IF b # <<>> THEN Bytes1(em, Head(b)) ELSE Append(t, 0))
  PROVE  /\ u \in Seq(Byte)
         /\ \E k \in 0..Len(NewestOf(em, fs, b, t)) :
              NewestOf(em, fs, <<>>, u) = SubSeq(NewestOf(em, fs, b, t), 1, k)
<1>1. \E v \in Seq(Byte) : u \in Seq(Byte) /\ BytesIn(em, b) \o t = u \o v
  <2>1. ASSUME NEW w \in Seq(Byte), NEW k \in 0..Len(w), u = SubSeq(w, 1, k)
        PROVE  \E v \in Seq(Byte) : u \in Seq(Byte) /\ w = u \o v
    <3>1. Len(w) \in Nat /\ \A i \in 1..Len(w) : w[i] \in Byte
      BY LenProperties, ElementOfSeq
    <3>2. SubSeq(w, 1, k) \in Seq(Byte)
      <4>1. \A i \in 1..k : w[i] \in Byte
        BY <3>1
      <4> QED BY <3>1, <4>1, SubSeqProperties
    <3>3. SubSeq(w, k + 1, Len(w)) \in Seq(Byte)
      <4>1. \A i \in (k + 1)..Len(w) : w[i] \in Byte
        BY <3>1
      <4> QED BY <3>1, <4>1, SubSeqProperties
    <3>4. SubSeq(w, 1, k) \o SubSeq(w, k + 1, Len(w)) = SubSeq(w, 1, Len(w))
      <4>1. 1 \in 1..(Len(w) + 1) /\ k \in (1 - 1)..Len(w) /\ Len(w) \in k..Len(w)
        BY <3>1
      <4> QED BY <4>1, ConcatAdjacentSubSeq
    <3>5. SubSeq(w, 1, Len(w)) = w
      BY SubSeqFull
    <3> QED BY <2>1, <3>2, <3>3, <3>4, <3>5
  <2>2. CASE b # <<>>
    <3>1. /\ Head(b) \in Tok(em) /\ Tail(b) \in Seq(Tok(em)) /\ b = <<Head(b)>> \o Tail(b)
      BY <2>2, HeadTailProperties
    <3>2. PICK h \in Tok(em), r \in Seq(Tok(em)) : h = Head(b) /\ b = <<h>> \o r
      BY <3>1
    <3>3. PICK w \in Seq(Byte) : w = Bytes1(em, h)
      BY DEF Typed
    <3>4. BytesIn(em, b) = w \o BytesIn(em, r) /\ BytesIn(em, r) \in Seq(Byte)
      <4>1. <<h>> \in Seq(Tok(em)) /\ BytesIn(em, <<h>>) = w
        BY <3>3, BytesOne
      <4> QED BY <3>2, <4>1, BytesConcat, BytesType
    <3>5. PICK k \in 0..(Len(w) - 1) : u = SubSeq(w, 1, k)
      BY <2>2, <3>2, <3>3 DEF CutShort
    <3>6. k \in 0..Len(w)
      BY LenProperties
    <3>7. PICK v \in Seq(Byte) : u \in Seq(Byte) /\ w = u \o v
      BY <2>1, <3>5, <3>6
    <3>8. PICK x \in Seq(Byte) : x = BytesIn(em, r)
      BY <3>4
    <3>9. v \o x \in Seq(Byte) /\ (v \o x) \o t \in Seq(Byte)
      BY ConcatProperties
    <3>10. u \o ((v \o x) \o t) = ((u \o v) \o x) \o t
      <4>1. Cat(u, Cat(Cat(v, x), t)) = Cat(Cat(Cat(u, v), x), t)
        BY <3>7, CatFour
      <4> QED BY <4>1 DEF Cat
    <3> QED BY <3>4, <3>7, <3>8, <3>9, <3>10
  <2>3. CASE b = <<>>
    <3>1. BytesIn(em, b) \o t = t
      <4>1. BytesIn(em, b) = <<>>
        BY <2>3, BytesNone
      <4> QED BY <4>1, ConcatEmptySeq
    <3>2. PICK w : w = Append(t, 0)
      OBVIOUS
    <3>3. w \in Seq(Byte) /\ Len(w) = Len(t) + 1 /\ \A i \in 1..Len(t) : w[i] = t[i]
      <4>1. 0 \in Byte
        BY DEF Byte
      <4> QED BY <3>2, <4>1, AppendProperties
    <3>4. PICK k \in 0..(Len(w) - 1) : u = SubSeq(w, 1, k)
      BY <2>3, <3>2 DEF CutShort
    <3>5. Len(t) \in Nat /\ k \in 0..Len(t)
      BY <3>3, LenProperties
    <3>6. SubSeq(w, 1, k) = SubSeq(t, 1, k)
      <4>1. k \in Nat /\ k <= Len(w) /\ k <= Len(t) /\ \A i \in 1..k : i \in 1..Len(t)
        BY <3>3, <3>5
      <4> QED BY <3>3, <4>1, SamePrefix
    <3>7. PICK v \in Seq(Byte) : u \in Seq(Byte) /\ t = u \o v
      BY <2>1, <3>4, <3>5, <3>6
    <3> QED BY <3>1, <3>7
  <2> QED BY <2>2, <2>3
<1>2. PICK v \in Seq(Byte) : u \in Seq(Byte) /\ BytesIn(em, b) \o t = u \o v
  BY <1>1
<1>3. CASE fs = <<>>
  <2>1. NewestOf(em, fs, b, t) = <<>> /\ NewestOf(em, fs, <<>>, u) = <<>>
    BY <1>3, NoFiles
  <2>2. Len(<<>>) = 0 /\ SubSeq(<<>>, 1, 0) = <<>>
    BY SubSeqEmpty
  <2>3. 0 \in 0..Len(<<>>)
    BY <2>2
  <2>4. \E k \in 0..Len(<<>>) : <<>> = SubSeq(<<>>, 1, k)
    BY <2>2, <2>3, Zenon
  <2> QED BY <1>2, <2>1, <2>4
<1>4. CASE fs # <<>>
  <2>1. Len(fs) \in 1..Len(fs)
    BY <1>4, EmptySeq, LenProperties
  <2>2. PICK x \in Seq(Byte) : x = BytesIn(em, fs[Len(fs)].content)
    BY <2>1, ContentType
  <2>3. NewestOf(em, fs, b, t) = x \o (u \o v)
    BY <1>2, <1>4, <2>2 DEF NewestOf
  <2>4. NewestOf(em, fs, <<>>, u) = x \o u
    <3>1. BytesIn(em, <<>>) \o u = u
      BY <1>2, BytesNone, ConcatEmptySeq
    <3> QED BY <1>4, <2>2, <3>1 DEF NewestOf
  <2>5. PICK y \in Seq(Byte) : y = x \o u
    BY <1>2, ConcatProperties
  <2>6. x \o (u \o v) = y \o v
    <3>1. Cat(Cat(x, u), v) = Cat(x, Cat(u, v))
      BY <1>2, CatThree
    <3> QED BY <2>5, <3>1 DEF Cat
  <2>7. PICK z \in Seq(Byte) : z = y \o v
    BY ConcatProperties
  <2>8. Len(z) = Len(y) + Len(v) /\ \A i \in 1..Len(y) : z[i] = y[i]
    BY <2>7, Joined
  <2>9. Len(y) \in Nat /\ Len(v) \in Nat
    BY LenProperties
  <2>10. SubSeq(z, 1, Len(y)) = y
    <3>1. Len(y) <= Len(z) /\ Len(y) <= Len(y)
      BY <2>8, <2>9
    <3>3. SubSeq(z, 1, Len(y)) = SubSeq(y, 1, Len(y))
      BY <2>8, <2>9, <3>1, SamePrefix
    <3>4. SubSeq(y, 1, Len(y)) = y
      BY SubSeqFull
    <3> QED BY <3>3, <3>4
  <2>11. Len(y) \in 0..Len(z)
    BY <2>8, <2>9
  <2> QED BY <1>2, <2>3, <2>4, <2>5, <2>6, <2>7, <2>10, <2>11
<1> QED BY <1>3, <1>4

\* Another block emitted changes nothing of what was written.
LEMMA ViewsGrow ==
  ASSUME NEW em, NEW en, Len(em) \in Nat, Len(en) \in Nat, Len(em) <= Len(en),
         \A j \in 1..Len(em) : en[j] = em[j], Typed(em),
         NEW fs \in Seq(FileOf(Tok(em))), NEW b \in Seq(Tok(em)), NEW t \in Seq(Byte)
  PROVE  /\ fs \in Seq(FileOf(Tok(en))) /\ b \in Seq(Tok(en))
         /\ OlderOf(en, fs) = OlderOf(em, fs) /\ NewestOf(en, fs, b, t) = NewestOf(em, fs, b, t)
<1>1. /\ Tok(em) \subseteq Tok(en)
      /\ \A c \in Seq(Tok(em)) : c \in Seq(Tok(en)) /\ BytesIn(en, c) = BytesIn(em, c)
  BY BytesGrow
<1>2. fs \in Seq(FileOf(Tok(en)))
  <2>1. FileOf(Tok(em)) \subseteq FileOf(Tok(en))
    <3> DEFINE S == Seq(Tok(em))
               U == Seq(Tok(en))
    <3>1. S \subseteq U
      BY <1>1
    <3> HIDE DEF S, U
    <3> QED BY <3>1 DEF FileOf, S, U
  <2> QED BY <2>1, SeqMonotonic
<1>3. Len(fs) \in Nat
  BY LenProperties
<1>4. \A i \in 1..Len(fs) : BytesIn(en, fs[i].content) = BytesIn(em, fs[i].content)
  BY <1>1, ContentType
<1>5. OlderOf(en, fs) = OlderOf(em, fs)
  <2>1. \A i \in 1..(Len(fs) - 1) : i \in 1..Len(fs)
    BY <1>3
  <2>2. [i \in 1..(Len(fs) - 1) |-> iter_frames(BytesIn(en, fs[i].content))]
          = [i \in 1..(Len(fs) - 1) |-> iter_frames(BytesIn(em, fs[i].content))]
    BY <1>4, <2>1
  <2> QED BY <2>2 DEF OlderOf
<1>6. NewestOf(en, fs, b, t) = NewestOf(em, fs, b, t)
  <2>1. CASE fs = <<>>
    BY <2>1 DEF NewestOf
  <2>2. CASE fs # <<>>
    <3>1. Len(fs) \in 1..Len(fs)
      BY <2>2, EmptySeq, LenProperties
    <3>2. BytesIn(en, b) = BytesIn(em, b)
      BY <1>1
    <3> QED BY <1>4, <2>2, <3>1, <3>2 DEF NewestOf
  <2> QED BY <2>1, <2>2
<1> QED BY <1>1, <1>2, <1>5, <1>6

-----------------------------------------------------------------------------
(* What the directory holds of the blocks emitted.                         *)

\* The frames of the first k blocks emitted.
FramesTo(k) == [i \in 1..k |-> emitted[i].frame]

\* older, read from the older files, and d, the bytes of the newest, hold the
\* first k blocks, and perhaps the beginning of the next, but not if whole.
Kept(older, d, k, whole) ==
  \E a, at : older = FramesTo(a) /\ Laid(d, a, k, at) /\ (whole => at[k] = Len(d))

\* The frames of the blocks emitted.
LEMMA FramesToType ==
  ASSUME Genuine, NEW k \in 0..Len(emitted)
  PROVE  /\ FramesTo(k) \in Seq(FrameType) /\ Len(FramesTo(k)) = k
         /\ \A i \in 1..k : FramesTo(k)[i] = emitted[i].frame
<1>0. Len(emitted) \in Nat /\ k \in Nat
  BY LenProperties DEF Genuine
<1>1. \A i \in 1..k : emitted[i].frame \in FrameType
  <2>1. \A i \in 1..k : i \in 1..Len(emitted)
    BY <1>0
  <2> QED BY <2>1, BlockFacts
<1> DEFINE s == [i \in 1..k |-> emitted[i].frame]
<1>2. s \in [1..k -> FrameType] /\ \A i \in 1..k : s[i] = emitted[i].frame
  BY <1>1
<1> HIDE DEF s
<1>3. s \in Seq(FrameType) /\ Len(s) = k
  BY <1>0, <1>2
<1> QED BY <1>2, <1>3 DEF s, FramesTo

\* What parser.py reads from such a directory.
LEMMA KeptReads ==
  ASSUME Genuine, NEW older, NEW d \in Seq(Byte), NEW k, NEW whole, Kept(older, d, k, whole)
  PROVE  /\ k \in 0..Len(emitted)
         /\ Promise!PrefixReadable(older \o iter_frames(d), k)
         /\ whole => older \o iter_frames(d) = FramesTo(k)
<1>1. PICK a, at : older = FramesTo(a) /\ Laid(d, a, k, at) /\ (whole => at[k] = Len(d))
  BY DEF Kept
<1>2. a \in Nat /\ k \in Nat /\ a <= k /\ k <= Len(emitted) /\ Len(emitted) \in Nat
  BY <1>1, LenProperties DEF Laid, Genuine
<1>3. PICK r : r = iter_frames(d)
  OBVIOUS
<1>4. Reads(r, a, k, at[k] = Len(d))
  BY <1>1, <1>3, LaidParsed
<1>5. a \in 0..Len(emitted) /\ k \in 0..Len(emitted)
  BY <1>2
<1>6. /\ older \in Seq(FrameType) /\ Len(older) = a
      /\ \A i \in 1..a : older[i] = emitted[i].frame
  BY <1>1, <1>5, FramesToType
<1>7. r \in Seq(FrameType) /\ Len(r) \in Nat /\ k - a <= Len(r) /\ (whole => Len(r) = k - a)
  BY <1>1, <1>4, LenProperties DEF Reads
<1>8. PICK z : z = older \o r
  OBVIOUS
<1>9. /\ z \in Seq(FrameType) /\ Len(z) = a + Len(r)
      /\ \A i \in 1..(a + Len(r)) : z[i] = IF i <= a THEN older[i] ELSE r[i - a]
  <2>1. /\ z \in Seq(FrameType) /\ Len(z) = Len(older) + Len(r)
        /\ \A i \in 1..(Len(older) + Len(r)) :
             z[i] = IF i <= Len(older) THEN older[i] ELSE r[i - Len(older)]
    BY <1>6, <1>7, <1>8, ConcatProperties
  <2>2. Len(older) = a
    BY <1>6
  <2> QED BY <2>1, <2>2
<1>10. k <= Len(z) /\ (whole => Len(z) = k)
  BY <1>2, <1>7, <1>9
<1>11. ASSUME NEW i \in 1..k PROVE z[i] = emitted[i].frame
  <2>0. i \in 1..(a + Len(r))
    BY <1>2, <1>7
  <2>1. CASE i <= a
    <3>1. i \in 1..a
      BY <2>1
    <3> QED BY <1>6, <1>9, <2>0, <2>1, <3>1
  <2>2. CASE ~(i <= a)
    <3>1. i - a \in 1..(k - a) /\ a + (i - a) = i
      BY <1>2, <2>2
    <3>2. r[i - a] = emitted[a + (i - a)].frame
      BY <1>4, <3>1 DEF Reads
    <3> QED BY <1>9, <2>0, <2>2, <3>1, <3>2
  <2> QED BY <2>1, <2>2
<1>12. ASSUME NEW i \in (k + 1)..Len(z)
       PROVE  k < Len(emitted) /\ z[i] \in Promise!Inside(emitted[k + 1])
  <2>1. i \in 1..(a + Len(r)) /\ ~(i <= a) /\ i - a \in (k - a + 1)..Len(r)
    BY <1>2, <1>7, <1>9
  <2>2. z[i] = r[i - a]
    BY <1>9, <2>1
  <2>3. k < Len(emitted) /\ r[i - a] \in Promise!Inside(emitted[k + 1])
    BY <1>4, <2>1 DEF Reads
  <2> QED BY <2>2, <2>3
<1>13. Promise!PrefixReadable(z, k)
  BY <1>10, <1>11, <1>12 DEF Promise!PrefixReadable
<1>14. ASSUME whole PROVE z = FramesTo(k)
  <2>1. Len(z) = k
    BY <1>10, <1>14
  <2>2. /\ FramesTo(k) \in Seq(FrameType) /\ Len(FramesTo(k)) = k
        /\ \A i \in 1..k : FramesTo(k)[i] = emitted[i].frame
    BY <1>5, FramesToType
  <2>3. PICK y \in Seq(FrameType) : y = FramesTo(k)
    BY <2>2
  <2>4. Len(z) = Len(y) /\ \A i \in 1..Len(z) : z[i] = y[i]
    BY <1>11, <2>1, <2>2, <2>3
  <2>5. z = y
    BY <1>9, <2>4, SeqEqual
  <2> QED BY <2>3, <2>5
<1> QED BY <1>3, <1>5, <1>8, <1>13, <1>14

\* Nothing has been written.
LEMMA KeptFresh ==
  ASSUME Genuine
  PROVE  Kept(<<>>, <<>>, 0, TRUE)
<1>1. Len(emitted) \in Nat /\ 0 \in 0..Len(emitted)
  BY LenProperties DEF Genuine
<1>2. Laid(<<>>, 0, 0, [i \in 0..0 |-> 0])
  BY <1>1, LaidEmpty
<1>3. FramesTo(0) = <<>>
  BY DEF FramesTo
<1>4. [i \in 0..0 |-> 0][0] = 0 /\ Len(<<>>) = 0
  OBVIOUS
<1> QED BY <1>2, <1>3, <1>4 DEF Kept

\* A block is written whole.
LEMMA KeptWhole ==
  ASSUME Genuine, NEW older, NEW d \in Seq(Byte), NEW k, Kept(older, d, k, TRUE),
         NEW j \in 1..Len(emitted), j = k + 1
  PROVE  Kept(older, d \o BytesIn(emitted, BlockTokens(j)), j, TRUE)
<1>1. PICK a, at : older = FramesTo(a) /\ Laid(d, a, k, at) /\ at[k] = Len(d)
  BY DEF Kept
<1>2. k \in Nat /\ Len(emitted) \in Nat /\ k < Len(emitted)
  BY <1>1, LenProperties DEF Laid, Genuine
<1>3. PICK x \in Seq(Byte) : x = BytesIn(emitted, BlockTokens(j))
  BY WholeBytes
<1>4. Len(x) = BlockLength(k + 1) /\ Same(x, 0, stream, emitted[k + 1].at, Len(x))
  BY <1>3, WholeBytes
<1>5. \E at2 : Laid(d \o x, a, k + 1, at2) /\ at2[k + 1] = Len(d \o x)
  BY <1>1, <1>2, <1>4, LaidWhole
<1> QED BY <1>1, <1>3, <1>5 DEF Kept

\* Part of a block is written.
LEMMA KeptPart ==
  ASSUME Genuine, NEW older, NEW d \in Seq(Byte), NEW k, Kept(older, d, k, TRUE),
         NEW j \in 1..Len(emitted), j = k + 1, NEW y \in Seq(Byte), Len(y) < BlockLength(j),
         Same(y, 0, stream, emitted[j].at, Len(y))
  PROVE  Kept(older, d \o y, k, FALSE)
<1>1. PICK a, at : older = FramesTo(a) /\ Laid(d, a, k, at) /\ at[k] = Len(d)
  BY DEF Kept
<1>2. k \in Nat /\ Len(emitted) \in Nat /\ k < Len(emitted)
  BY <1>1, LenProperties DEF Laid, Genuine
<1>3. Len(y) < BlockLength(k + 1) /\ Same(y, 0, stream, emitted[k + 1].at, Len(y))
  OBVIOUS
<1>4. Laid(d \o y, a, k, at)
  BY <1>1, <1>2, <1>3, LaidPart
<1> QED BY <1>1, <1>4 DEF Kept

\* Only the first n bytes of the newest file are left.
LEMMA KeptCut ==
  ASSUME Genuine, NEW older, NEW d \in Seq(Byte), NEW k, NEW whole, Kept(older, d, k, whole),
         NEW n \in 0..Len(d)
  PROVE  \E k2 : Kept(older, SubSeq(d, 1, n), k2, FALSE)
<1>1. PICK a, at : older = FramesTo(a) /\ Laid(d, a, k, at)
  BY DEF Kept
<1>2. \E k2, at2 : Laid(SubSeq(d, 1, n), a, k2, at2)
  BY <1>1, LaidPrefix
<1> QED BY <1>1, <1>2 DEF Kept

\* A file that is whole is rotated away from.
LEMMA KeptRotated ==
  ASSUME Genuine, NEW older, NEW d \in Seq(Byte), NEW k, Kept(older, d, k, TRUE)
  PROVE  Kept(older \o iter_frames(d), <<>>, k, TRUE)
<1>1. k \in 0..Len(emitted) /\ older \o iter_frames(d) = FramesTo(k)
  BY KeptReads
<1>2. Len(emitted) \in Nat
  BY LenProperties DEF Genuine
<1>3. Laid(<<>>, k, k, [i \in k..k |-> 0])
  BY <1>1, <1>2, LaidEmpty
<1>4. [i \in k..k |-> 0][k] = 0 /\ Len(<<>>) = 0
  BY <1>1
<1> QED BY <1>1, <1>3, <1>4 DEF Kept

\* Less is claimed once recording has failed.
LEMMA KeptWeaker ==
  ASSUME NEW older, NEW d, NEW k, Kept(older, d, k, TRUE)
  PROVE  \A whole : Kept(older, d, k, whole)
BY DEF Kept

\* SbfFrameSync emits another block, or none.
LEMMA KeptGrows ==
  ASSUME Genuine, Len(emitted') \in Nat, Len(emitted) <= Len(emitted'), stream' = stream,
         \A j \in 1..Len(emitted) : emitted'[j] = emitted[j],
         NEW older, NEW d \in Seq(Byte), NEW k, NEW whole, Kept(older, d, k, whole)
  PROVE  Kept(older, d, k, whole)'
<1>1. PICK a, at : older = FramesTo(a) /\ Laid(d, a, k, at) /\ (whole => at[k] = Len(d))
  BY DEF Kept
<1>2. Laid(d, a, k, at)'
  BY <1>1, LaidGrows
<1>3. a \in Nat /\ a <= Len(emitted) /\ Len(emitted) \in Nat
  BY <1>1, LenProperties DEF Laid, Genuine
<1>4. \A i \in 1..a : emitted'[i] = emitted[i]
  BY <1>3
<1>5. FramesTo(a)' = FramesTo(a)
  BY <1>4 DEF FramesTo
<1> QED BY <1>1, <1>2, <1>5 DEF Kept

-----------------------------------------------------------------------------
(* SbfFrameSync's part: what FrameSyncProofs proves, for the variables of  *)
(* this module.                                                            *)

\* SbfFrameSync as it runs in this composition, with its theorems.
SyncP == INSTANCE FrameSyncProofs WITH
           MaxChunk <- 0, stats <- sync_stats, pc <- sync_pc, pos <- sync_pos, out <- emitted

\* What FrameSyncProofs assumes of its constants.
LEMMA SyncConstants ==
  /\ 0 \in Nat /\ kMaxSbfLength \in Nat /\ kMaxSbfLength >= 8
  /\ Streams \subseteq Seq(SyncP!Byte)
BY MaxLengthAssumption, StreamsAssumption DEF Byte, SyncP!Byte

\* Its initial states are the same under each name.
LEMMA SyncInitName == Sync!Init => SyncP!Init
BY DEF Sync!Init, SyncP!Init

\* And so is the entry to feed().
LEMMA SyncFeedName == \A n : Sync!Feed(n) => SyncP!Feed(n)
BY DEF Sync!Feed, SyncP!Feed, Sync!EraseFront, SyncP!EraseFront, Sync!hist, SyncP!hist

\* And so is every iteration of feed()'s loop, and its return.
LEMMA SyncScanName == Sync!Scan => SyncP!Scan
BY DEF Sync!Scan, SyncP!Scan, Sync!IdleSkip, SyncP!IdleSkip, Sync!IdleFound, SyncP!IdleFound,
       Sync!GotDollarAt, SyncP!GotDollarAt, Sync!GotDollarDollar, SyncP!GotDollarDollar,
       Sync!GotDollarOther, SyncP!GotDollarOther, Sync!HeaderAccepted, SyncP!HeaderAccepted,
       Sync!HeaderRejected, SyncP!HeaderRejected, Sync!BodyRejected, SyncP!BodyRejected,
       Sync!FrameEmitted, SyncP!FrameEmitted, Sync!FeedReturn, SyncP!FeedReturn,
       Sync!Scanning, SyncP!Scanning, Sync!HeaderComplete, SyncP!HeaderComplete,
       Sync!BodyComplete, SyncP!BodyComplete, Sync!Resync, SyncP!Resync,
       Sync!ResyncPos, SyncP!ResyncPos, Sync!Stalled, SyncP!Stalled,
       Sync!EraseFront, SyncP!EraseFront, Sync!ExitErase, SyncP!ExitErase,
       Sync!ExitDrain, SyncP!ExitDrain, Sync!DrainAfterBlock, SyncP!DrainAfterBlock,
       Sync!Base, SyncP!Base, Sync!env, SyncP!env, Sync!members, SyncP!members,
       Sync!hist, SyncP!hist, Sync!Dollar, SyncP!Dollar, Sync!At, SyncP!At,
       Sync!HeaderSize, SyncP!HeaderSize, Sync!LengthAt, SyncP!LengthAt,
       Sync!U16, SyncP!U16, Sync!LengthOk, SyncP!LengthOk, Sync!CrcOk, SyncP!CrcOk,
       Sync!FrameFields, SyncP!FrameFields

\* SbfFrameSync's invariant in this composition.
SyncInv == SyncP!IInv

\* It holds at the start.
LEMMA SyncInvInit == Sync!Init => SyncInv
BY SyncInitName, SyncConstants, SyncP!InitIInv DEF SyncInv

\* The recorder's steps do not touch it.
LEMMA SyncInvKept ==
  ASSUME SyncInv, UNCHANGED sync_vars
  PROVE  SyncInv'
<1>1. UNCHANGED SyncP!vars
  BY DEF sync_vars, SyncP!vars, SyncP!env, SyncP!members, SyncP!locals, SyncP!hist
<1> QED BY <1>1, SyncConstants, SyncP!StutterIInv DEF SyncInv

\* feed() is entered with what one recv() returned.
LEMMA SyncInvFeed ==
  ASSUME SyncInv, NEW n \in Chunks, Sync!Feed(n)
  PROVE  SyncInv'
<1>1. n \in Nat /\ SyncP!Feed(n)
  BY ChunksAssumption, SyncFeedName
<1> QED BY <1>1, SyncConstants, SyncP!FeedIInv DEF SyncInv

\* feed()'s loop preserves it.
LEMMA SyncInvScan ==
  ASSUME SyncInv, Sync!Scan
  PROVE  SyncInv'
BY SyncScanName, SyncConstants, SyncP!ScanIInv DEF SyncInv

\* What SbfFrameSync emits is what SbfArchive delivers.
LEMMA ScanDelivers ==
  ASSUME SyncInv, Sync!Scan
  PROVE  \/ UNCHANGED <<stream, fed, emitted, origin>>
         \/ /\ stream' = stream /\ fed' = fed /\ Promise!Blocks!Deliver
            /\ \E p \in Nat : /\ BlockAt(stream, p, fed)
                              /\ emitted' = Append(emitted, [at |-> p,
                                                             frame |-> FrameFields(stream, p)])
<1>1. CASE ~SyncP!FrameEmitted
  BY <1>1, SyncScanName, SyncConstants, SyncP!ScanQuiet
<1>2. CASE SyncP!FrameEmitted
  <2>1. PICK p \in origin..fed :
           /\ p \in Nat /\ SyncP!BlockAt(stream, p, fed)
           /\ \A q \in origin..(p - 1) : SyncP!RuledOut(stream, q, fed)
           /\ emitted' = Append(emitted, [at |-> p, frame |-> SyncP!FrameFields(stream, p)])
           /\ origin' = p + SyncP!LengthAt(stream, p)
           /\ stream' = stream /\ fed' = fed
    BY <1>2, SyncConstants, SyncP!EmitsNext DEF SyncInv
  <2>2. /\ \A q : SyncP!RuledOut(stream, q, fed) <=> Promise!Blocks!RuledOut(stream, q, fed)
        /\ SyncP!BlockAt(stream, p, fed) <=> Promise!Blocks!BlockAt(stream, p, fed)
        /\ SyncP!FrameFields(stream, p) = Promise!Blocks!FrameFields(stream, p)
        /\ SyncP!LengthAt(stream, p) = Promise!Blocks!LengthAt(stream, p)
    BY DEF SyncP!BlockAt, Promise!Blocks!BlockAt, SyncP!RuledOut, Promise!Blocks!RuledOut,
           SyncP!HeaderSize, Promise!Blocks!HeaderSize, SyncP!Dollar, SyncP!At,
           Promise!Blocks!Dollar, Promise!Blocks!At, SyncP!LengthAt, Promise!Blocks!LengthAt,
           SyncP!U16, Promise!Blocks!U16, SyncP!LengthOk, Promise!Blocks!LengthOk,
           SyncP!CrcOk, Promise!Blocks!CrcOk, SyncP!FrameFields, Promise!Blocks!FrameFields
  <2>3. Promise!Blocks!NextBlockAt(p)
    BY <2>1, <2>2 DEF Promise!Blocks!NextBlockAt
  <2>4. Promise!Blocks!Deliver
    BY <2>1, <2>2, <2>3 DEF Promise!Blocks!Deliver
  <2>5. /\ SyncP!BlockAt(stream, p, fed) <=> BlockAt(stream, p, fed)
        /\ SyncP!FrameFields(stream, p) = FrameFields(stream, p)
    BY DEF SyncP!BlockAt, BlockAt, SyncP!HeaderSize, HeaderSize, SyncP!Dollar, SyncP!At,
           Dollar, At, SyncP!LengthAt, LengthAt, SyncP!U16, U16, SyncP!LengthOk, LengthOk,
           SyncP!CrcOk, CrcOk, SyncP!FrameFields, FrameFields
  <2> QED BY <2>1, <2>4, <2>5
<1> QED BY <1>1, <1>2

\* Where the blocks emitted lie: what SbfFrameSync's types say.
LEMMA SyncTypes ==
  ASSUME SyncInv
  PROVE  /\ stream \in Seq(Byte) /\ fed \in Nat /\ fed <= Len(stream) /\ Len(stream) \in Nat
         /\ emitted \in Seq([at : Nat, frame : FrameType])
<1>1. /\ stream \in Streams /\ fed \in 0..Len(stream)
      /\ emitted \in Seq([at : Nat, frame : FrameType])
  BY DEF SyncInv, SyncP!IInv, SyncP!TypeOK, FrameType, Byte, SyncP!Byte
<1>2. stream \in Seq(Byte)
  BY <1>1, StreamsAssumption
<1> QED BY <1>1, <1>2, LenProperties

-----------------------------------------------------------------------------
(* The invariant behind the refinement.                                    *)

\* The directory and stdio's buffer hold tokens of blocks emitted; seq_ is
\* beyond the names used.
Directory ==
  /\ seq \in Nat /\ now \in Nat /\ run \in Nat
  /\ files \in Seq(FileOf(Tok(emitted))) /\ buffered \in Seq(Tok(emitted))
  /\ \A i \in 1..Len(files) : files[i].name.seq <= seq
  /\ torn \in Seq(Byte)

\* Where the recorder is, and how recording stands.
Phase ==
  /\ pc \in {"down", "idle", "syncing", "writing", "throwing"}
  /\ status \in {"recording", "closed", "failed"} /\ fp \in BOOLEAN
  /\ fp => files # <<>> /\ pc # "down"
  /\ pc \in {"syncing", "writing"} => fp
  /\ ~fp => buffered = <<>>
  /\ pc = "idle" /\ ~fp => files = <<>>
  /\ pc \in {"idle", "syncing", "writing"} => status = "recording"
  /\ pc = "throwing" => status = "failed"
  /\ status # "failed" => torn = <<>>
  /\ run = 0 => status = "recording" /\ files = <<>>
  /\ pc = "down" /\ run # 0 => status # "recording"

\* The frames still to be written are the last blocks emitted.
Pending ==
  pc = "writing" =>
    \A i \in pos..Len(out) :
      out[i] = [id |-> (Len(emitted) - Len(out)) + i,
                length |-> BlockLength((Len(emitted) - Len(out)) + i)]

\* As long as nothing has failed the directory holds the n blocks written,
\* and afterwards some prefix of the blocks emitted.
KeptAs(older, d, st, n) ==
  IF st = "failed" THEN \E k : Kept(older, d, k, FALSE) ELSE Kept(older, d, n, TRUE)

\* What has been written is in the files and in stdio's buffer.
Written ==
  \E older, d, st, n :
    /\ older = OlderOf(emitted, files) /\ d = NewestOf(emitted, files, buffered, torn)
    /\ st = status /\ n = stats.frames_written
    /\ KeptAs(older, d, st, n)

\* The history variable archive is what parser.py would read.
ReadsBack == archive = Reading(emitted, files, buffered, torn)

\* The inductive invariant of the refinement.
AInv == SyncInv /\ PInv /\ Genuine /\ Directory /\ Phase /\ Pending /\ Written /\ ReadsBack

\* ReadBack, in the words used here.
LEMMA ReadBackName == ReadBack = Reading(emitted, files, buffered, torn)
BY BytesNames DEF ReadBack, Reading

\* The same in the next state.
LEMMA ReadBackNext == ReadBack' = Reading(emitted', files', buffered', torn')
BY DEF ReadBack, Reading, BytesOf, TokenBytes, BytesIn, Bytes1

\* What parser.py reads.
LEMMA KeptAsReads ==
  ASSUME Genuine, NEW fs \in Seq(FileOf(Tok(emitted))), NEW b \in Seq(Tok(emitted)),
         NEW t \in Seq(Byte), NEW st, NEW n,
         KeptAs(OlderOf(emitted, fs), NewestOf(emitted, fs, b, t), st, n)
  PROVE  /\ \E k \in 0..Len(emitted) : Promise!PrefixReadable(Reading(emitted, fs, b, t), k)
         /\ st # "failed" => n \in 0..Len(emitted) /\ Reading(emitted, fs, b, t) = FramesTo(n)
<1>0. Typed(emitted)
  BY GenuineTyped
<1>1. PICK o, d : o = OlderOf(emitted, fs) /\ d = NewestOf(emitted, fs, b, t)
  OBVIOUS
<1>2. d \in Seq(Byte) /\ Reading(emitted, fs, b, t) = o \o iter_frames(d)
  BY <1>0, <1>1, ViewTypes, ReadingSplit
<1>3. KeptAs(o, d, st, n)
  BY <1>1
<1>4. CASE st = "failed"
  <2>1. PICK k : Kept(o, d, k, FALSE)
    BY <1>3, <1>4 DEF KeptAs
  <2>2. k \in 0..Len(emitted) /\ Promise!PrefixReadable(o \o iter_frames(d), k)
    BY <1>2, <2>1, KeptReads
  <2> QED BY <1>2, <1>4, <2>2
<1>5. CASE st # "failed"
  <2>1. Kept(o, d, n, TRUE)
    BY <1>3, <1>5 DEF KeptAs
  <2>2. /\ n \in 0..Len(emitted) /\ Promise!PrefixReadable(o \o iter_frames(d), n)
        /\ o \o iter_frames(d) = FramesTo(n)
    BY <1>2, <2>1, KeptReads
  <2> QED BY <1>2, <1>5, <2>2
<1> QED BY <1>4, <1>5

\* The same for more blocks emitted, in the next state.
LEMMA KeptAsGrows ==
  ASSUME Genuine, Len(emitted') \in Nat, Len(emitted) <= Len(emitted'), stream' = stream,
         \A j \in 1..Len(emitted) : emitted'[j] = emitted[j],
         NEW older, NEW d \in Seq(Byte), NEW st, NEW n, KeptAs(older, d, st, n)
  PROVE  KeptAs(older, d, st, n)'
<1>1. CASE st = "failed"
  <2>1. PICK k : Kept(older, d, k, FALSE)
    BY <1>1 DEF KeptAs
  <2>2. Kept(older, d, k, FALSE)'
    BY <2>1, KeptGrows
  <2> QED BY <1>1, <2>2 DEF KeptAs
<1>2. CASE st # "failed"
  <2>1. Kept(older, d, n, TRUE)
    BY <1>2 DEF KeptAs
  <2>2. Kept(older, d, n, TRUE)'
    BY <2>1, KeptGrows
  <2> QED BY <1>2, <2>2 DEF KeptAs
<1> QED BY <1>1, <1>2

\* What a step of the recorder leaves, said with the blocks emitted so far.
Left ==
  /\ files' \in Seq(FileOf(Tok(emitted))) /\ buffered' \in Seq(Tok(emitted))
  /\ torn' \in Seq(Byte)
  /\ KeptAs(OlderOf(emitted, files'), NewestOf(emitted, files', buffered', torn'),
            status', stats'.frames_written)

\* It is what the invariant asks for.
LEMMA LeftWritten ==
  ASSUME Genuine, UNCHANGED <<stream, fed, emitted>>, Left
  PROVE  Genuine' /\ Written'
<1>1. Genuine'
  BY DEF Genuine
<1>2. PICK o, d, st, n :
        /\ o = OlderOf(emitted, files') /\ d = NewestOf(emitted, files', buffered', torn')
        /\ st = status' /\ n = stats'.frames_written
  OBVIOUS
<1>3. d \in Seq(Byte)
  BY <1>2, GenuineTyped, ViewTypes DEF Left
<1>4. KeptAs(o, d, st, n)
  BY <1>2 DEF Left
<1>5. KeptAs(o, d, st, n)'
  <2>1. Len(emitted) \in Nat
    BY LenProperties DEF Genuine
  <2>2. Len(emitted') \in Nat /\ Len(emitted) <= Len(emitted')
    BY <2>1
  <2> QED BY <1>3, <1>4, <2>2, KeptAsGrows
<1> QED BY <1>1, <1>2, <1>5 DEF Written

-----------------------------------------------------------------------------
(* What each step of the recorder does to the directory.                   *)

\* The invariant's parts that these steps build on.
LEMMA Holds ==
  ASSUME AInv
  PROVE  /\ Genuine /\ Typed(emitted) /\ Len(emitted) \in Nat /\ seq \in Nat
         /\ files \in Seq(FileOf(Tok(emitted))) /\ buffered \in Seq(Tok(emitted))
         /\ torn \in Seq(Byte) /\ Len(files) \in Nat
         /\ KeptAs(OlderOf(emitted, files), NewestOf(emitted, files, buffered, torn),
                   status, stats.frames_written)
BY GenuineTyped, LenProperties DEF AInv, Genuine, Directory, Written

\* A recording that has not failed is whole.
LEMMA HoldsWhole ==
  ASSUME AInv, status # "failed"
  PROVE  /\ torn = <<>>
         /\ Kept(OlderOf(emitted, files), NewestOf(emitted, files, buffered, <<>>),
                 stats.frames_written, TRUE)
<1>1. torn = <<>>
  BY DEF AInv, Phase
<1> QED BY <1>1, Holds DEF KeptAs

\* The directory fs after tokens c went to its newest file.
Flushing(fs, c) == [fs EXCEPT ![Len(fs)].content = @ \o c]

\* Tokens c go from the front of stdio's buffer to the newest file.
LEMMA FlushedKept ==
  ASSUME Genuine, NEW fs \in Seq(FileOf(Tok(emitted))), fs # <<>>,
         NEW c \in Seq(Tok(emitted)), NEW b \in Seq(Tok(emitted)), NEW t \in Seq(Byte), NEW gs,
         gs = Flushing(fs, c)
  PROVE  /\ gs \in Seq(FileOf(Tok(emitted))) /\ gs # <<>> /\ Len(gs) = Len(fs)
         /\ \A i \in 1..Len(fs) : gs[i].name = fs[i].name
         /\ OlderOf(emitted, gs) = OlderOf(emitted, fs)
         /\ NewestOf(emitted, gs, b, t) = NewestOf(emitted, fs, c \o b, t)
<1>1. gs \in Seq(FileOf(Tok(emitted))) /\ Wrote(fs, gs, c)
  <2>1. PICK T : T = Tok(emitted)
    OBVIOUS
  <2> QED BY <2>1, FlushedDir DEF Flushing
<1>2. /\ OlderOf(emitted, gs) = OlderOf(emitted, fs)
      /\ NewestOf(emitted, gs, b, t) = NewestOf(emitted, fs, c \o b, t)
  BY <1>1, GenuineTyped, FlushedViews
<1>3. Len(gs) = Len(fs) /\ Len(fs) \in Nat \ {0} /\ \A i \in 1..Len(fs) : gs[i].name = fs[i].name
  BY <1>1 DEF Wrote
<1>4. gs # <<>>
  <2>1. Len(<<>>) = 0
    OBVIOUS
  <2> QED BY <1>3, <2>1
<1> QED BY <1>1, <1>2, <1>3, <1>4

\* A new file is opened when the newest one is whole.
LEMMA OpenedKept ==
  ASSUME Genuine, NEW fs \in Seq(FileOf(Tok(emitted))), NEW k,
         Kept(OlderOf(emitted, fs), NewestOf(emitted, fs, <<>>, <<>>), k, TRUE),
         NEW name \in [time : Nat, seq : Nat], NEW r \in Nat,
         \A i \in 1..Len(fs) : fs[i].name.seq < name.seq, NEW gs, gs = Opening(fs, name, r)
  PROVE  /\ gs \in Seq(FileOf(Tok(emitted))) /\ gs # <<>>
         /\ \A i \in 1..Len(gs) : gs[i].name.seq <= name.seq
         /\ Kept(OlderOf(emitted, gs), NewestOf(emitted, gs, <<>>, <<>>), k, TRUE)
<1>0. Typed(emitted) /\ Len(fs) \in Nat
  BY GenuineTyped, LenProperties
<1>1. name.seq \in Nat
  OBVIOUS
<1>2. ASSUME NEW i \in 1..Len(fs) PROVE fs[i].name # name /\ fs[i].name.seq <= name.seq
  <2>1. fs[i] \in FileOf(Tok(emitted))
    BY ElementOfSeq
  <2>2. fs[i].name.seq \in Nat /\ fs[i].name.seq < name.seq
    BY <2>1 DEF FileOf
  <2> QED BY <1>1, <2>2
<1>3. /\ gs \in Seq(FileOf(Tok(emitted))) /\ Len(gs) = Len(fs) + 1
      /\ \A i \in 1..Len(fs) : gs[i] = fs[i]
      /\ gs[Len(fs) + 1].name = name /\ gs[Len(fs) + 1].content = <<>>
  <2>1. \A i \in 1..Len(fs) : fs[i].name # name
    BY <1>2
  <2> QED BY <2>1, OpenedDir
<1>4. gs # <<>>
  <2>1. PICK n \in Nat : n = Len(fs)
    BY <1>0
  <2>2. Len(gs) # 0
    BY <1>3, <2>1
  <2>3. Len(<<>>) = 0
    OBVIOUS
  <2> QED BY <2>2, <2>3, Zenon
<1>5. \A i \in 1..Len(gs) : gs[i].name.seq <= name.seq
  <2> SUFFICES ASSUME NEW i \in 1..Len(gs) PROVE gs[i].name.seq <= name.seq
    OBVIOUS
  <2>1. CASE i \in 1..Len(fs)
    BY <1>2, <1>3, <2>1
  <2>2. CASE i \notin 1..Len(fs)
    <3>1. i = Len(fs) + 1
      BY <1>0, <1>3, <2>2
    <3> QED BY <1>1, <1>3, <3>1
  <2> QED BY <2>1, <2>2
<1>6. /\ OlderOf(emitted, gs)
           = OlderOf(emitted, fs) \o iter_frames(NewestOf(emitted, fs, <<>>, <<>>))
      /\ NewestOf(emitted, gs, <<>>, <<>>) = <<>>
  BY <1>0, <1>3, OpenedViews
<1>7. PICK o, d : o = OlderOf(emitted, fs) /\ d = NewestOf(emitted, fs, <<>>, <<>>)
  OBVIOUS
<1>8. d \in Seq(Byte)
  <2>1. <<>> \in Seq(Tok(emitted)) /\ <<>> \in Seq(Byte)
    OBVIOUS
  <2> QED BY <1>0, <1>7, <2>1, ViewTypes
<1>9. Kept(o \o iter_frames(d), <<>>, k, TRUE)
  BY <1>7, <1>8, KeptRotated
<1> QED BY <1>3, <1>4, <1>5, <1>6, <1>7, <1>9

\* The block that write_frame_() is about to write is the next one.
LEMMA BlockToWrite ==
  ASSUME AInv, pc = "writing", pos <= Len(out)
  PROVE  \E j \in 1..Len(emitted) :
           /\ j = stats.frames_written + 1 /\ stats.frames_written \in Nat
           /\ out[pos] = [id |-> j, length |-> BlockLength(j)]
           /\ Rec!Tokens(out[pos]) = BlockTokens(j)
<1>1. /\ pos \in Nat /\ pos >= 1 /\ Len(arrived) = Len(emitted) /\ stats.frames_written \in Nat
      /\ stats.frames_written + Len(out) - (pos - 1) = Len(arrived) /\ IsSeq(out)
  BY DEF AInv, PInv, Frames, RecCounts
<1>2. Len(out) \in Nat /\ Len(emitted) \in Nat
  BY <1>1, AnySeq, Holds
<1>3. PICK j \in Int : j = (Len(emitted) - Len(out)) + pos
  BY <1>1, <1>2
<1>4. j = stats.frames_written + 1 /\ j \in 1..Len(emitted) /\ pos \in pos..Len(out)
  BY <1>1, <1>2, <1>3
<1>5. out[pos] = [id |-> (Len(emitted) - Len(out)) + pos,
                  length |-> BlockLength((Len(emitted) - Len(out)) + pos)]
  BY <1>4 DEF AInv, Pending
<1>6. out[pos] = [id |-> j, length |-> BlockLength(j)]
  BY <1>3, <1>5
<1> QED BY <1>1, <1>4, <1>6, TokensOfBlock

-----------------------------------------------------------------------------
\* seq_ is beyond every name in the directory fs.
NamesUpTo(fs, n) == n \in Nat /\ \A i \in 1..Len(fs) : fs[i].name.seq <= n

\* What a step of the recorder leaves is a directory of tokens again.
LEMMA LeftDirectory ==
  ASSUME Directory, Left, UNCHANGED <<emitted, now>>, run' \in Nat, NamesUpTo(files', seq')
  PROVE  Directory'
BY DEF Directory, Left, NamesUpTo

\* open_new_file_(), whether it throws or not.
LEMMA OpenNew ==
  ASSUME AInv, NEW fs \in Seq(FileOf(Tok(emitted))), NamesUpTo(fs, seq), NEW k,
         Kept(OlderOf(emitted, fs), NewestOf(emitted, fs, <<>>, <<>>), k, TRUE),
         NEW size, NEW next, Rec!OpenNewFile(fs, size, next)
  PROVE  /\ files' \in Seq(FileOf(Tok(emitted))) /\ NamesUpTo(files', seq')
         /\ Kept(OlderOf(emitted, files'), NewestOf(emitted, files', <<>>, <<>>), k, TRUE)
         /\ \/ pc' = next /\ fp' = TRUE /\ files' # <<>>
            \/ pc' = "throwing" /\ fp' = FALSE
<1>1. seq \in Nat /\ now \in Nat /\ run \in Nat /\ Genuine /\ Len(fs) \in Nat
  BY LenProperties DEF AInv, Directory
<1>2. PICK name : name = Rec!FileName
  OBVIOUS
<1>3. name \in [time : Nat, seq : Nat] /\ name.seq = seq + 1
  BY <1>1, <1>2 DEF Rec!FileName
<1>4. seq' = seq + 1 /\ seq' \in Nat
  BY <1>1 DEF Rec!OpenNewFile
<1>5. ASSUME NEW i \in 1..Len(fs)
      PROVE  fs[i].name.seq < name.seq /\ fs[i].name.seq <= seq'
  <2>1. fs[i] \in FileOf(Tok(emitted))
    BY ElementOfSeq
  <2>2. fs[i].name.seq \in Nat
    BY <2>1 DEF FileOf
  <2>3. fs[i].name.seq <= seq
    BY DEF NamesUpTo
  <2> QED BY <1>1, <1>3, <1>4, <2>2, <2>3
<1>6. CASE fp' = TRUE /\ files' = Opening(fs, name, run) /\ pc' = next
  <2>1. \A i \in 1..Len(fs) : fs[i].name.seq < name.seq
    BY <1>5
  <2>2. /\ files' \in Seq(FileOf(Tok(emitted))) /\ files' # <<>>
        /\ \A i \in 1..Len(files') : files'[i].name.seq <= name.seq
        /\ Kept(OlderOf(emitted, files'), NewestOf(emitted, files', <<>>, <<>>), k, TRUE)
    BY <1>1, <1>3, <1>6, <2>1, OpenedKept
  <2> QED BY <1>3, <1>4, <1>6, <2>2 DEF NamesUpTo
<1>7. CASE fp' = FALSE /\ files' = fs /\ pc' = "throwing"
  <2>1. NamesUpTo(files', seq')
    BY <1>4, <1>5, <1>7 DEF NamesUpTo
  <2> QED BY <1>7, <2>1
<1> QED BY <1>2, <1>6, <1>7 DEF Rec!OpenNewFile, Opening

\* The recorder is constructed.
LEMMA ConstructLeft ==
  ASSUME AInv, Construct
  PROVE  Left /\ Directory' /\ Phase' /\ Pending'
<1>1. /\ pc = "down" /\ run < 1 /\ pc' = "idle" /\ run' = run + 1 /\ seq' = 0
      /\ stats'.frames_written = 0
      /\ UNCHANGED <<stream, fed, emitted, fp, buffered, files, now, torn, status>>
  BY DEF Construct, Rec!Construct, Rec!NoStats, sync_vars
<1>2. run = 0 /\ run' = 1
  BY <1>1 DEF AInv, Directory
<1>3. status = "recording" /\ files = <<>> /\ torn = <<>> /\ buffered = <<>> /\ fp = FALSE
  BY <1>1, <1>2 DEF AInv, Phase
<1>4. Kept(<<>>, <<>>, 0, TRUE)
  BY KeptFresh DEF AInv
<1>5. KeptAs(OlderOf(emitted, files'), NewestOf(emitted, files', buffered', torn'),
             status', stats'.frames_written)
  BY <1>1, <1>3, <1>4, NoFiles DEF KeptAs
<1>6. Left
  BY <1>1, <1>5, Holds DEF Left
<1>7. NamesUpTo(files', seq')
  BY <1>1, <1>3 DEF NamesUpTo
<1>8. Directory'
  BY <1>1, <1>2, <1>6, <1>7, LeftDirectory DEF AInv
<1>9. Phase' /\ Pending'
  BY <1>1, <1>2, <1>3 DEF Phase, Pending
<1> QED BY <1>6, <1>8, <1>9

\* feed() begins: a file is open, or is opened.
LEMMA FeedLeft ==
  ASSUME AInv, Feed
  PROVE  Left /\ Directory' /\ Phase' /\ Pending'
<1>1. /\ pc = "idle" /\ UNCHANGED <<emitted, stats, buffered, now, run, torn>>
      /\ status' = IF pc' = "throwing" THEN "failed" ELSE status
  BY DEF Feed, Rec!Feed, sync_vars
<1>2. status = "recording" /\ torn = <<>> /\ run # 0 /\ run \in Nat
  BY <1>1 DEF AInv, Phase, PInv, NotYet
<1>3. CASE fp
  <2>1. pc' = "syncing" /\ UNCHANGED <<fp, seq, files>>
    BY <1>3 DEF Feed, Rec!Feed
  <2>2. Left
    BY <1>1, <1>2, <2>1, Holds DEF Left
  <2>3. Directory'
    BY <1>1, <1>2, <2>1 DEF AInv, Directory
  <2>4. Phase' /\ Pending'
    BY <1>1, <1>2, <1>3, <2>1 DEF AInv, Phase, Pending
  <2> QED BY <2>2, <2>3, <2>4
<1>4. CASE ~fp
  <2>1. Rec!OpenNewFile(files, current_size, "syncing")
    BY <1>4 DEF Feed, Rec!Feed
  <2>2. files = <<>> /\ buffered = <<>>
    BY <1>1, <1>4 DEF AInv, Phase
  <2>3. NamesUpTo(files, seq)
    BY DEF AInv, Directory, NamesUpTo
  <2>4. Kept(OlderOf(emitted, files), NewestOf(emitted, files, <<>>, <<>>),
             stats.frames_written, TRUE)
    BY <1>2, <2>2, HoldsWhole
  <2>5. /\ files' \in Seq(FileOf(Tok(emitted))) /\ NamesUpTo(files', seq')
        /\ Kept(OlderOf(emitted, files'), NewestOf(emitted, files', <<>>, <<>>),
                stats.frames_written, TRUE)
        /\ \/ pc' = "syncing" /\ fp' = TRUE /\ files' # <<>>
           \/ pc' = "throwing" /\ fp' = FALSE
    BY <2>1, <2>3, <2>4, Holds, OpenNew
  <2>6. Left
    <3>1. Kept(OlderOf(emitted, files'), NewestOf(emitted, files', <<>>, <<>>),
               stats.frames_written, FALSE)
      BY <2>5, KeptWeaker
    <3>2. KeptAs(OlderOf(emitted, files'), NewestOf(emitted, files', <<>>, <<>>), status',
                 stats.frames_written)
      BY <2>5, <3>1 DEF KeptAs
    <3> QED BY <1>1, <1>2, <2>2, <2>5, <3>2, Holds DEF Left
  <2>7. Directory'
    BY <1>1, <1>2, <2>5, <2>6, LeftDirectory DEF AInv
  <2>8. Phase' /\ Pending'
    BY <1>1, <1>2, <2>2, <2>5 DEF Phase, Pending
  <2> QED BY <2>6, <2>7, <2>8
<1> QED BY <1>3, <1>4

-----------------------------------------------------------------------------
\* SbfFrameSync has returned: the frames to write are the ones it emitted.
LEMMA ReturnsLeft ==
  ASSUME AInv, SyncReturns, PInv'
  PROVE  Left /\ Directory' /\ Phase' /\ Pending'
<1>1. /\ pc = "syncing" /\ pc' = "writing" /\ out' = NewFrames /\ pos' = 1
      /\ UNCHANGED <<emitted, fp, seq, buffered, files, now, run, torn, status>>
  BY DEF SyncReturns, Rec!Synced, Rec!Emitted, sync_vars
<1>2. /\ stats.frames_written = Len(arrived) /\ Len(arrived) <= Len(emitted)
      /\ IsSeq(arrived) /\ IsSeq(emitted)
  BY <1>1 DEF AInv, PInv, Frames, SyncCounts
<1>3. Len(arrived) \in Nat /\ Len(emitted) \in Nat
  BY <1>2, AnySeq
<1>4. stats'.frames_written = stats.frames_written
  BY DEF SyncReturns, Rec!Synced, AInv, PInv, RecCounts
<1>5. Left
  BY <1>1, <1>4, Holds DEF Left
<1>6. Directory'
  BY <1>1 DEF AInv, Directory
<1>7. Phase'
  BY <1>1 DEF AInv, Phase
<1>8. Pending'
  <2>1. Len(NewFrames) = Len(emitted) - Len(arrived)
    BY <1>2, NewFramesSeq
  <2>2. Len(emitted) - Len(out') = Len(arrived)
    BY <1>1, <1>3, <2>1
  <2>3. \A i \in 1..(Len(emitted) - Len(arrived)) :
          NewFrames[i] = [id |-> Len(arrived) + i, length |-> BlockLength(Len(arrived) + i)]
    BY DEF NewFrames, BlockLength
  <2>4. \A j : BlockLength(j)' = BlockLength(j)
    BY <1>1 DEF BlockLength
  <2>5. PICK n : n = Len(arrived)
    OBVIOUS
  <2>6. \A i \in 1..Len(out') : out'[i] = [id |-> n + i, length |-> BlockLength(n + i)]
    BY <1>1, <2>1, <2>3, <2>5
  <2>7. \A i \in 1..Len(out') :
          out'[i] = [id |-> (Len(emitted') - Len(out')) + i,
                     length |-> BlockLength((Len(emitted') - Len(out')) + i)]
    BY <1>1, <2>2, <2>5, <2>6
  <2> QED BY <1>1, <2>4, <2>7 DEF Pending, BlockLength
<1> QED BY <1>5, <1>6, <1>7, <1>8

\* One frame is written, and the file rotated when that is due.
LEMMA WriteLeft ==
  ASSUME AInv, WriteFrame
  PROVE  Left /\ Directory' /\ Phase' /\ Pending'
<1>1. /\ pc = "writing" /\ pos <= Len(out) /\ pos' = pos + 1
      /\ UNCHANGED <<emitted, out, now, run, torn>>
      /\ status' = IF pc' = "throwing" THEN "failed" ELSE status
  BY DEF WriteFrame, Rec!WriteFrame, sync_vars
<1>2. status = "recording" /\ torn = <<>> /\ run # 0 /\ run \in Nat /\ fp = TRUE /\ files # <<>>
  BY <1>1 DEF AInv, Phase, PInv, NotYet
<1>3. PICK j \in 1..Len(emitted) :
        /\ j = stats.frames_written + 1 /\ Rec!Tokens(out[pos]) = BlockTokens(j)
  BY <1>1, BlockToWrite
<1>4. PICK b : b = buffered \o BlockTokens(j)
  OBVIOUS
<1>5. /\ b \in Seq(Tok(emitted)) /\ Len(b) \in Nat
      /\ Kept(OlderOf(emitted, files), NewestOf(emitted, files, b, <<>>), j, TRUE)
  <2>1. BlockTokens(j) \in Seq(Tok(emitted)) /\ <<>> \in Seq(Byte)
    BY WholeBytes, Holds
  <2>2. b \in Seq(Tok(emitted))
    BY <1>4, <2>1, BytesConcat, Holds
  <2>3. PICK d \in Seq(Byte) : d = NewestOf(emitted, files, buffered, <<>>)
    BY <2>1, ViewTypes, Holds
  <2>4. PICK x \in Seq(Byte) : x = BytesIn(emitted, BlockTokens(j))
    BY WholeBytes, Holds
  <2>5. NewestOf(emitted, files, b, <<>>) = d \o (x \o <<>>)
    BY <1>2, <1>4, <2>1, <2>3, <2>4, BufferedView, Holds
  <2>6. x \o <<>> = x
    BY <2>4
  <2>7. Kept(OlderOf(emitted, files), d, stats.frames_written, TRUE)
    BY <1>2, <2>3, HoldsWhole
  <2>8. Kept(OlderOf(emitted, files), d \o BytesIn(emitted, BlockTokens(j)), j, TRUE)
    BY <1>3, <2>7, KeptWhole, Holds
  <2> QED BY <2>2, <2>4, <2>5, <2>6, <2>8, LenProperties
<1>6. stats'.frames_written = j
  <2>1. stats.frames_written \in Nat
    BY DEF AInv, PInv, RecCounts
  <2>2. PICK c : c = Rec!Counted(out[pos])
    OBVIOUS
  <2>3. c.frames_written = stats.frames_written + 1 /\ "frames_written" \in DOMAIN c
    BY <2>2 DEF Rec!Counted, AInv, PInv, RecCounts
  <2>4. stats' = c \/ stats' = [c EXCEPT !.files_rotated = @ + 1]
    BY <2>2 DEF WriteFrame, Rec!WriteFrame
  <2> QED BY <1>3, <2>3, <2>4
<1>7. Pending'
  <2>1. \A i : BlockLength(i)' = BlockLength(i)
    BY <1>1 DEF BlockLength
  <2>2. pos \in Nat /\ Len(out) \in Nat
    BY <1>1, AnySeq DEF AInv, PInv, Frames
  <2>3. \A i \in pos'..Len(out) : i \in pos..Len(out)
    BY <1>1, <2>2
  <2> QED BY <1>1, <2>1, <2>3 DEF AInv, Pending, BlockLength
<1>8. CASE /\ buffered' = b /\ UNCHANGED <<pc, fp, seq, files>>
  <2>1. KeptAs(OlderOf(emitted, files'), NewestOf(emitted, files', buffered', torn'), status',
               stats'.frames_written)
    BY <1>1, <1>2, <1>5, <1>6, <1>8 DEF KeptAs
  <2>2. Left
    BY <1>1, <1>5, <1>8, <2>1, Holds DEF Left
  <2>3. NamesUpTo(files', seq')
    BY <1>8 DEF AInv, Directory, NamesUpTo
  <2>4. Directory'
    BY <1>1, <1>2, <2>2, <2>3, LeftDirectory DEF AInv
  <2>5. Phase'
    BY <1>1, <1>2, <1>8 DEF Phase
  <2> QED BY <1>7, <2>2, <2>4, <2>5
<1>9. ASSUME NEW size, Rec!OpenNewFile(Rec!Flushed(b, Len(b)), size, "writing"), buffered' = <<>>
      PROVE  Left /\ Directory' /\ Phase' /\ Pending'
  <2>1. SubSeq(b, 1, Len(b)) = b
    BY <1>5
  <2>2. PICK fs : fs = Rec!Flushed(b, Len(b))
    OBVIOUS
  <2>3. fs = Flushing(files, b)
    BY <2>1, <2>2 DEF Rec!Flushed, Flushing
  <2>4. <<>> \in Seq(Tok(emitted)) /\ <<>> \in Seq(Byte) /\ b \o <<>> = b
    BY <1>5
  <2>5. /\ fs \in Seq(FileOf(Tok(emitted))) /\ Len(fs) = Len(files)
        /\ \A i \in 1..Len(files) : fs[i].name = files[i].name
        /\ OlderOf(emitted, fs) = OlderOf(emitted, files)
        /\ NewestOf(emitted, fs, <<>>, <<>>) = NewestOf(emitted, files, b \o <<>>, <<>>)
    <3>1. Genuine /\ files \in Seq(FileOf(Tok(emitted)))
      BY Holds
    <3>2. PICK e \in Seq(Tok(emitted)), t \in Seq(Byte) : e = <<>> /\ t = <<>>
      BY <2>4
    <3>3. /\ fs \in Seq(FileOf(Tok(emitted))) /\ Len(fs) = Len(files)
          /\ \A i \in 1..Len(files) : fs[i].name = files[i].name
          /\ OlderOf(emitted, fs) = OlderOf(emitted, files)
          /\ NewestOf(emitted, fs, e, t) = NewestOf(emitted, files, b \o e, t)
      BY <1>2, <1>5, <2>3, <3>1, FlushedKept
    <3> QED BY <3>2, <3>3
  <2>6. Kept(OlderOf(emitted, fs), NewestOf(emitted, fs, <<>>, <<>>), j, TRUE)
    BY <1>5, <2>4, <2>5
  <2>7. NamesUpTo(fs, seq)
    BY <2>5 DEF AInv, Directory, NamesUpTo
  <2>8. /\ files' \in Seq(FileOf(Tok(emitted))) /\ NamesUpTo(files', seq')
        /\ Kept(OlderOf(emitted, files'), NewestOf(emitted, files', <<>>, <<>>), j, TRUE)
        /\ \/ pc' = "writing" /\ fp' = TRUE /\ files' # <<>>
           \/ pc' = "throwing" /\ fp' = FALSE
    BY <1>9, <2>2, <2>5, <2>6, <2>7, OpenNew
  <2>9. Left
    <3>1. Kept(OlderOf(emitted, files'), NewestOf(emitted, files', <<>>, <<>>), j, FALSE)
      BY <2>8, KeptWeaker
    <3>2. KeptAs(OlderOf(emitted, files'), NewestOf(emitted, files', <<>>, <<>>), status', j)
      BY <2>8, <3>1 DEF KeptAs
    <3> QED BY <1>1, <1>2, <1>6, <1>9, <2>4, <2>8, <3>2 DEF Left
  <2>10. Directory'
    BY <1>1, <1>2, <2>8, <2>9, LeftDirectory DEF AInv
  <2>11. Phase'
    BY <1>1, <1>2, <1>9, <2>8 DEF Phase
  <2> QED BY <1>7, <2>9, <2>10, <2>11
<1>10. \/ buffered' = b /\ UNCHANGED <<pc, fp, seq, files>>
       \/ \E size : Rec!OpenNewFile(Rec!Flushed(b, Len(b)), size, "writing") /\ buffered' = <<>>
  BY <1>3, <1>4 DEF WriteFrame, Rec!WriteFrame, Rec!FlushOutcomes
<1> QED BY <1>8, <1>9, <1>10

-----------------------------------------------------------------------------
\* A frame is written in part.
LEMMA FailsLeft ==
  ASSUME AInv, WriteFails
  PROVE  Left /\ Directory' /\ Phase' /\ Pending'
<1>1. /\ pc = "writing" /\ pos <= Len(out) /\ pc' = "throwing" /\ status' = "failed"
      /\ UNCHANGED <<emitted, fp, seq, stats, files, now, run>>
  BY DEF WriteFails, Rec!WriteFails, Rec!memory, sync_vars
<1>2. status = "recording" /\ torn = <<>> /\ run # 0 /\ run \in Nat /\ fp = TRUE /\ files # <<>>
  BY <1>1 DEF AInv, Phase, PInv, NotYet
<1>3. PICK j \in 1..Len(emitted) :
        /\ j = stats.frames_written + 1 /\ Rec!Tokens(out[pos]) = BlockTokens(j)
  BY <1>1, BlockToWrite
<1>4. HeaderToken(j) \in Tok(emitted) /\ BodyToken(j) \in Tok(emitted)
  BY TokenFacts, Holds
<1>5. PICK d \in Seq(Byte) : d = NewestOf(emitted, files, buffered, <<>>)
  <2>1. <<>> \in Seq(Byte)
    OBVIOUS
  <2> QED BY <2>1, ViewTypes, Holds
<1>6. Kept(OlderOf(emitted, files), d, stats.frames_written, TRUE)
  BY <1>2, <1>5, HoldsWhole
<1>7. ASSUME NEW y, y \in Seq(Byte), Len(y) < BlockLength(j),
             Same(y, 0, stream, emitted[j].at, Len(y)),
             NewestOf(emitted, files, buffered', torn') = d \o y,
             buffered' \in Seq(Tok(emitted)), torn' \in Seq(Byte)
      PROVE  Left
  <2>1. Kept(OlderOf(emitted, files), d \o y, stats.frames_written, FALSE)
    BY <1>3, <1>6, <1>7, KeptPart, Holds
  <2>2. KeptAs(OlderOf(emitted, files), d \o y, status', stats.frames_written)
    BY <1>1, <2>1 DEF KeptAs
  <2> QED BY <1>1, <1>7, <2>2, Holds DEF Left
<1>8. BlockTokens(j)[1] = HeaderToken(j)
  BY DEF BlockTokens
<1>9. ASSUME buffered' = buffered PROVE Left
  <2>1. torn' \in CutShort(Bytes1(emitted, HeaderToken(j)))
    BY <1>3, <1>8, <1>9, BytesNames DEF WriteFails
  <2>2. /\ torn' \in Seq(Byte) /\ Len(torn') < BlockLength(j)
        /\ Same(torn', 0, stream, emitted[j].at, Len(torn'))
    BY <2>1, PartBytes, Holds
  <2>3. <<>> \in Seq(Tok(emitted)) /\ buffered \o <<>> = buffered /\ <<>> \o torn' = torn'
    BY <2>2, Holds
  <2>4. NewestOf(emitted, files, buffered \o <<>>, torn')
          = d \o (BytesIn(emitted, <<>>) \o torn')
    <3>1. PICK e \in Seq(Tok(emitted)) : e = <<>>
      BY <2>3
    <3>2. PICK t \in Seq(Byte) : t = torn'
      BY <2>2
    <3>3. NewestOf(emitted, files, buffered \o e, t) = d \o (BytesIn(emitted, e) \o t)
      BY <1>2, <1>5, BufferedView, Holds
    <3> QED BY <3>1, <3>2, <3>3
  <2>5. NewestOf(emitted, files, buffered', torn') = d \o torn'
    BY <1>9, <2>3, <2>4, BytesNone
  <2>6. buffered' \in Seq(Tok(emitted))
    BY <1>9, Holds
  <2> QED BY <1>7, <2>2, <2>5, <2>6, Zenon
<1>10. ASSUME buffered' # buffered PROVE Left
  <2>1. buffered' = Append(buffered, HeaderToken(j)) /\ Len(BlockTokens(j)) > 1
    BY <1>3, <1>8, <1>10 DEF WriteFails, Rec!WriteFails
  <2>2. BlockTokens(j)[2] = BodyToken(j)
    BY <2>1 DEF BlockTokens
  <2>3. torn' \in CutShort(Bytes1(emitted, BodyToken(j)))
    BY <1>3, <1>10, <2>2, BytesNames DEF WriteFails
  <2>4. PICK h : h = Bytes1(emitted, HeaderToken(j))
    OBVIOUS
  <2>5. PICK y : y = h \o torn'
    OBVIOUS
  <2>6. y \in Seq(Byte) /\ Len(y) < BlockLength(j) /\ Same(y, 0, stream, emitted[j].at, Len(y))
    BY <2>3, <2>4, <2>5, PartBytes, Holds
  <2>7. torn' \in Seq(Byte)
    <3>1. Bytes1(emitted, BodyToken(j)) \in Seq(Byte)
      BY <1>4, Holds DEF Typed
    <3> QED BY <2>3, <3>1 DEF CutShort
  <2>8. <<HeaderToken(j)>> \in Seq(Tok(emitted)) /\ BytesIn(emitted, <<HeaderToken(j)>>) = h
    BY <1>4, <2>4, BytesOne, Holds
  <2>9. buffered' = buffered \o <<HeaderToken(j)>>
    <3>1. PICK T : T = Tok(emitted)
      OBVIOUS
    <3>2. PICK x \in T : x = HeaderToken(j)
      BY <1>4, <3>1
    <3>3. buffered \in Seq(T)
      BY <3>1, Holds
    <3>4. Append(buffered, x) = buffered \o <<x>>
      BY <3>3, AppendIsConcat
    <3> QED BY <2>1, <3>2, <3>4
  <2>10. buffered' \in Seq(Tok(emitted))
    BY <2>8, <2>9, BytesConcat, Holds
  <2>11. NewestOf(emitted, files, buffered', torn') = d \o (h \o torn')
    <3>1. PICK e \in Seq(Tok(emitted)) : e = <<HeaderToken(j)>>
      BY <2>8
    <3>2. PICK t \in Seq(Byte) : t = torn'
      BY <2>7
    <3>3. NewestOf(emitted, files, buffered \o e, t) = d \o (BytesIn(emitted, e) \o t)
      BY <1>2, <1>5, BufferedView, Holds
    <3> QED BY <2>8, <2>9, <3>1, <3>2, <3>3
  <2>12. NewestOf(emitted, files, buffered', torn') = d \o y
    BY <2>5, <2>11
  <2> QED BY <1>7, <2>6, <2>7, <2>10, <2>12, Zenon
<1>11. Left
  BY <1>9, <1>10
<1>12. NamesUpTo(files', seq')
  BY <1>1 DEF AInv, Directory, NamesUpTo
<1>13. Directory'
  BY <1>1, <1>2, <1>11, <1>12, LeftDirectory DEF AInv
<1>14. Phase' /\ Pending'
  BY <1>1, <1>2 DEF Phase, Pending
<1> QED BY <1>11, <1>13, <1>14

\* feed() returns to main().
LEMMA FeedReturnLeft ==
  ASSUME AInv, FeedReturn
  PROVE  Left /\ Directory' /\ Phase' /\ Pending'
<1>1. /\ pc = "writing" /\ pc' = "idle"
      /\ UNCHANGED <<emitted, fp, seq, stats, buffered, files, now, run, torn, status>>
  BY DEF FeedReturn, Rec!FeedReturn, Rec!memory, sync_vars
<1>2. Left
  BY <1>1, Holds DEF Left
<1>3. Directory'
  BY <1>1 DEF AInv, Directory
<1>4. Phase' /\ Pending'
  BY <1>1 DEF AInv, Phase, Pending
<1> QED BY <1>2, <1>3, <1>4

\* stdio hands the first k tokens on.
LEMMA FlushLeft ==
  ASSUME AInv, files # <<>>, NEW k \in 0..Len(buffered), files' = Rec!Flushed(buffered, k),
         buffered' = SubSeq(buffered, k + 1, Len(buffered)),
         UNCHANGED <<emitted, torn, seq, now, run>>, stats'.frames_written = stats.frames_written,
         status' = status \/ (status # "failed" /\ status' # "failed")
  PROVE  Left /\ Directory' /\ files' # <<>>
<1>1. PICK c, b : c = SubSeq(buffered, 1, k) /\ b = buffered'
  OBVIOUS
<1>2. /\ c \in Seq(Tok(emitted)) /\ b \in Seq(Tok(emitted)) /\ c \o b = buffered
  <2>1. PICK T, u : T = Tok(emitted) /\ u = buffered /\ u \in Seq(T)
    BY Holds
  <2>2. Len(u) \in Nat /\ k \in 0..Len(u) /\ k \in Nat
    BY <2>1, LenProperties
  <2>3. SubSeq(u, 1, k) \in Seq(T) /\ SubSeq(u, k + 1, Len(u)) \in Seq(T)
        /\ SubSeq(u, 1, k) \o SubSeq(u, k + 1, Len(u)) = u
    BY <2>1, <2>2, CutInTwo
  <2> QED BY <1>1, <2>1, <2>3
<1>3. files' = Flushing(files, c)
  BY <1>1 DEF Rec!Flushed, Flushing
<1>4. PICK t \in Seq(Byte) : t = torn
  BY Holds
<1>5. /\ files' \in Seq(FileOf(Tok(emitted))) /\ files' # <<>> /\ Len(files') = Len(files)
      /\ \A i \in 1..Len(files) : files'[i].name = files[i].name
      /\ OlderOf(emitted, files') = OlderOf(emitted, files)
      /\ NewestOf(emitted, files', b, t) = NewestOf(emitted, files, c \o b, t)
  <2>1. PICK gs : gs = files'
    OBVIOUS
  <2>2. Genuine /\ files \in Seq(FileOf(Tok(emitted)))
    BY Holds
  <2>3. gs = Flushing(files, c)
    BY <1>3, <2>1
  <2>4. c \in Seq(Tok(emitted)) /\ b \in Seq(Tok(emitted))
    BY <1>2
  <2>5. /\ gs \in Seq(FileOf(Tok(emitted))) /\ gs # <<>> /\ Len(gs) = Len(files)
        /\ \A i \in 1..Len(files) : gs[i].name = files[i].name
        /\ OlderOf(emitted, gs) = OlderOf(emitted, files)
        /\ NewestOf(emitted, gs, b, t) = NewestOf(emitted, files, c \o b, t)
    BY <2>2, <2>3, <2>4, FlushedKept
  <2> QED BY <2>1, <2>5
<1>6. KeptAs(OlderOf(emitted, files'), NewestOf(emitted, files', b, t), status',
             stats'.frames_written)
  <2>1. PICK o, d, n : /\ o = OlderOf(emitted, files) /\ n = stats.frames_written
                       /\ d = NewestOf(emitted, files, buffered, torn)
    OBVIOUS
  <2>2. KeptAs(o, d, status, n)
    BY <2>1, Holds
  <2>3. KeptAs(o, d, status', n)
    BY <2>2 DEF KeptAs
  <2> QED BY <1>2, <1>4, <1>5, <2>1, <2>3
<1>7. Left
  BY <1>1, <1>2, <1>4, <1>5, <1>6, Holds DEF Left
<1>8. NamesUpTo(files', seq')
  BY <1>5 DEF AInv, Directory, NamesUpTo
<1>9. Directory'
  BY <1>7, <1>8, LeftDirectory DEF AInv, Directory
<1> QED BY <1>5, <1>7, <1>9

-----------------------------------------------------------------------------
\* Inside fwrite(), stdio empties part of its buffer.
LEMMA StdioLeft ==
  ASSUME AInv, StdioFlush
  PROVE  Left /\ Directory' /\ Phase' /\ Pending'
<1>1. /\ pc = "writing" /\ fp
      /\ UNCHANGED <<emitted, pc, pos, out, fp, seq, stats, now, run, torn, status>>
  BY DEF StdioFlush, Rec!StdioFlush, Rec!memory, sync_vars
<1>2. status = "recording" /\ torn = <<>> /\ run # 0 /\ run \in Nat /\ fp = TRUE /\ files # <<>>
  BY <1>1 DEF AInv, Phase, PInv, NotYet
<1>3. PICK k \in 1..Len(buffered) :
        files' = Rec!Flushed(buffered, k) /\ buffered' = SubSeq(buffered, k + 1, Len(buffered))
  BY DEF StdioFlush, Rec!StdioFlush
<1>4. k \in 0..Len(buffered)
  BY LenProperties, Holds
<1>5. Left /\ Directory' /\ files' # <<>>
  BY <1>1, <1>2, <1>3, <1>4, FlushLeft
<1>6. Phase'
  BY <1>1, <1>2, <1>5 DEF Phase
<1>7. Pending'
  BY <1>1 DEF AInv, Pending, BlockLength
<1> QED BY <1>5, <1>6, <1>7

\* close(), after the last feed() or when an exception passes.
LEMMA CloseLeft ==
  ASSUME AInv, Close
  PROVE  Left /\ Directory' /\ Phase' /\ Pending'
<1>1. /\ pc \in {"idle", "throwing"} /\ pc' = "down" /\ fp' = FALSE /\ buffered' = <<>>
      /\ status' = IF pc = "idle" THEN "closed" ELSE status
      /\ UNCHANGED <<emitted, seq, stats, now, run, torn>>
  BY DEF Close, Rec!Close, sync_vars
<1>2. /\ run # 0 /\ run \in Nat /\ fp \in BOOLEAN
      /\ (pc = "idle" => status = "recording") /\ (pc = "throwing" => status = "failed")
      /\ (status # "failed" => torn = <<>>)
  BY <1>1 DEF AInv, Phase, PInv, NotYet
<1>3. Phase' /\ Pending'
  BY <1>1, <1>2 DEF Phase, Pending
<1>4. CASE fp
  <2>1. files # <<>>
    BY <1>4 DEF AInv, Phase
  <2>2. PICK n : n = Len(buffered)
    OBVIOUS
  <2>3. n \in Nat /\ n \in 0..Len(buffered)
    BY <2>2, LenProperties, Holds
  <2>4. files' = Rec!Flushed(buffered, n)
    BY <1>4, <2>2 DEF Close, Rec!Close, Rec!FlushOutcomes
  <2>5. buffered' = SubSeq(buffered, n + 1, Len(buffered))
    <3>1. n + 1 \in Int /\ n \in Int /\ n < n + 1
      BY <2>3
    <3>2. SubSeq(buffered, n + 1, n) = <<>>
      BY <3>1, SubSeqEmpty
    <3> QED BY <1>1, <2>2, <3>2
  <2>6. status' = status \/ (status # "failed" /\ status' # "failed")
    BY <1>1, <1>2
  <2>7. Left /\ Directory'
    BY <1>1, <2>1, <2>3, <2>4, <2>5, <2>6, FlushLeft
  <2> QED BY <1>3, <2>7
<1>5. CASE ~fp
  <2>1. buffered = <<>> /\ files' = files
    BY <1>5 DEF AInv, Phase, Close, Rec!Close
  <2>2. PICK o, d, n : /\ o = OlderOf(emitted, files) /\ n = stats.frames_written
                       /\ d = NewestOf(emitted, files, buffered, torn)
    OBVIOUS
  <2>3. KeptAs(o, d, status, n)
    BY <2>2, Holds
  <2>4. KeptAs(o, d, status', n)
    BY <1>1, <1>2, <2>3 DEF KeptAs
  <2>5. Left
    BY <1>1, <2>1, <2>2, <2>4, Holds DEF Left
  <2>6. Directory'
    BY <1>1, <2>1 DEF AInv, Directory
  <2> QED BY <1>3, <2>5, <2>6
<1> QED BY <1>4, <1>5

\* The process is killed.
LEMMA CrashLeft ==
  ASSUME AInv, Crash
  PROVE  Left /\ Directory' /\ Phase' /\ Pending'
<1>1. /\ pc # "down" /\ pc' = "down" /\ fp' = FALSE /\ buffered' = <<>> /\ status' = "failed"
      /\ UNCHANGED <<emitted, seq, stats, files, now, run>>
  BY DEF Crash, Rec!Crash, Rec!memory, sync_vars
<1>2. run # 0 /\ run \in Nat
  BY <1>1 DEF AInv, PInv, NotYet
<1>3. PICK u : u = torn'
  OBVIOUS
<1>4. u \in CutShort(IF buffered # <<>> THEN Bytes1(emitted, Head(buffered)) ELSE Append(torn, 0))
  BY <1>3, BytesNames DEF Crash
<1>5. PICK d : d = NewestOf(emitted, files, buffered, torn)
  OBVIOUS
<1>6. u \in Seq(Byte) /\ \E k \in 0..Len(d) : NewestOf(emitted, files, <<>>, u) = SubSeq(d, 1, k)
  BY <1>4, <1>5, KilledView, Holds
<1>7. PICK n \in 0..Len(d) : NewestOf(emitted, files, <<>>, u) = SubSeq(d, 1, n)
  BY <1>6
<1>8. d \in Seq(Byte)
  BY <1>5, ViewTypes, Holds
<1>9. PICK o : o = OlderOf(emitted, files)
  OBVIOUS
<1>10. \E k, whole : Kept(o, d, k, whole)
  <2>1. KeptAs(o, d, status, stats.frames_written)
    BY <1>5, <1>9, Holds
  <2> QED BY <2>1 DEF KeptAs
<1>11. \E k : Kept(o, SubSeq(d, 1, n), k, FALSE)
  BY <1>8, <1>10, KeptCut, Holds
<1>12. KeptAs(o, NewestOf(emitted, files, <<>>, u), status', stats'.frames_written)
  BY <1>1, <1>7, <1>11 DEF KeptAs
<1>13. Left
  <2>1. <<>> \in Seq(Tok(emitted))
    OBVIOUS
  <2> QED BY <1>1, <1>3, <1>6, <1>9, <1>12, <2>1, Holds DEF Left
<1>14. NamesUpTo(files', seq')
  BY <1>1 DEF AInv, Directory, NamesUpTo
<1>15. Directory'
  BY <1>1, <1>2, <1>13, <1>14, LeftDirectory DEF AInv
<1>16. Phase' /\ Pending'
  BY <1>1, <1>2 DEF Phase, Pending
<1> QED BY <1>13, <1>15, <1>16

-----------------------------------------------------------------------------
(* SbfFrameSync's steps.                                                   *)

\* Blocks are emitted behind the ones there are; the directory is the same.
LEMMA EmittedMore ==
  ASSUME AInv, UNCHANGED <<rec_vars, torn, status>>, pc = "syncing", stream' = stream, Genuine',
         Len(emitted) <= Len(emitted'), \A j \in 1..Len(emitted) : emitted'[j] = emitted[j]
  PROVE  /\ Directory' /\ Phase' /\ Pending' /\ Written'
         /\ Reading(emitted', files', buffered', torn') = Reading(emitted, files, buffered, torn)
<1>0. UNCHANGED <<pc, fp, seq, out, pos, stats, buffered, files, now, run, torn, status>>
  BY DEF rec_vars
<1>1. Len(emitted) \in Nat /\ Len(emitted') \in Nat
  BY Holds, LenProperties DEF Genuine
<1>2. PICK en : en = emitted'
  OBVIOUS
<1>3. Typed(emitted)
  BY Holds
<1>4. /\ files \in Seq(FileOf(Tok(en))) /\ buffered \in Seq(Tok(en))
      /\ OlderOf(en, files) = OlderOf(emitted, files)
      /\ NewestOf(en, files, buffered, torn) = NewestOf(emitted, files, buffered, torn)
  <2>1. Len(en) \in Nat /\ Len(emitted) <= Len(en) /\ \A j \in 1..Len(emitted) : en[j] = emitted[j]
    BY <1>1, <1>2
  <2> QED BY <1>1, <2>1, ViewsGrow, Holds
<1>5. Directory'
  BY <1>0, <1>2, <1>4 DEF AInv, Directory
<1>6. Phase' /\ Pending'
  BY <1>0 DEF AInv, Phase, Pending
<1>7. Written'
  <2>1. PICK o, d, st, n :
          /\ o = OlderOf(emitted, files) /\ d = NewestOf(emitted, files, buffered, torn)
          /\ st = status /\ n = stats.frames_written
    OBVIOUS
  <2>2. d \in Seq(Byte) /\ KeptAs(o, d, st, n)
    BY <2>1, ViewTypes, Holds
  <2>3. KeptAs(o, d, st, n)'
    BY <1>1, <2>2, KeptAsGrows, Holds
  <2>4. o = OlderOf(en, files) /\ d = NewestOf(en, files, buffered, torn)
    BY <1>4, <2>1
  <2> QED BY <1>0, <1>2, <2>1, <2>3, <2>4 DEF Written
<1>8. Reading(en, files, buffered, torn) = Reading(emitted, files, buffered, torn)
  <2>1. \A c \in Seq(Tok(emitted)) : BytesIn(en, c) = BytesIn(emitted, c)
    BY <1>1, <1>2, BytesGrow
  <2>2. BytesIn(en, buffered) = BytesIn(emitted, buffered)
    BY <2>1, Holds
  <2>3. DOMAIN files = 1..Len(files)
    BY LenProperties, Holds
  <2>4. ASSUME NEW i \in DOMAIN files
        PROVE  BytesIn(en, files[i].content) = BytesIn(emitted, files[i].content)
    <3>1. files[i].content \in Seq(Tok(emitted))
      BY <1>3, <2>3, ContentType, Holds
    <3> QED BY <2>1, <3>1
  <2> QED BY <2>2, <2>4 DEF Reading
<1> QED BY <1>0, <1>2, <1>5, <1>6, <1>7, <1>8

-----------------------------------------------------------------------------
(* The recorder's steps are steps of SbfArchive.                           *)

\* One more frame.
LEMMA FramesToNext ==
  ASSUME Genuine, NEW n \in 0..Len(emitted), n + 1 <= Len(emitted)
  PROVE  /\ FramesTo(n + 1) = Append(FramesTo(n), emitted[n + 1].frame)
         /\ Len(FramesTo(n)) = n
<1>0. Len(emitted) \in Nat /\ n \in Nat /\ n + 1 \in 0..Len(emitted) /\ n + 1 \in 1..Len(emitted)
  BY LenProperties DEF Genuine
<1>1. PICK s, t, e : s = FramesTo(n) /\ t = FramesTo(n + 1) /\ e = emitted[n + 1].frame
  OBVIOUS
<1>2. s \in Seq(FrameType) /\ Len(s) = n /\ \A i \in 1..n : s[i] = emitted[i].frame
  BY <1>1, FramesToType
<1>3. /\ t \in Seq(FrameType) /\ Len(t) = n + 1
      /\ \A i \in 1..(n + 1) : t[i] = emitted[i].frame
  BY <1>0, <1>1, FramesToType
<1>4. e \in FrameType
  BY <1>0, <1>1, BlockFacts
<1>5. PICK a : a = Append(s, e)
  OBVIOUS
<1>6. /\ a \in Seq(FrameType) /\ Len(a) = n + 1
      /\ \A i \in 1..n : a[i] = s[i] /\ a[n + 1] = e
  BY <1>2, <1>4, <1>5, AppendProperties
<1>7. a[n + 1] = e
  BY <1>2, <1>4, <1>5, AppendProperties
<1>8. ASSUME NEW i \in 1..(n + 1) PROVE t[i] = a[i]
  <2>1. CASE i \in 1..n
    BY <1>2, <1>3, <1>6, <2>1
  <2>2. CASE i \notin 1..n
    <3>1. i = n + 1
      BY <1>0, <2>2
    <3> QED BY <1>1, <1>3, <1>7, <3>1
  <2> QED BY <2>1, <2>2
<1>9. Len(t) = Len(a) /\ \A i \in 1..Len(t) : t[i] = a[i]
  BY <1>3, <1>6, <1>8
<1>10. t = a
  BY <1>3, <1>6, <1>9, SeqEqual
<1> QED BY <1>1, <1>2, <1>5, <1>10

\* What the archive is before and after a step of the recorder.
LEMMA Archives ==
  ASSUME AInv, Left, UNCHANGED emitted, archive' = ReadBack'
  PROVE  /\ \E k \in 0..Len(emitted) : Promise!PrefixReadable(archive', k)
         /\ status' # "failed" => /\ stats'.frames_written \in 0..Len(emitted)
                                  /\ archive' = FramesTo(stats'.frames_written)
         /\ status # "failed" => /\ stats.frames_written \in 0..Len(emitted)
                                 /\ archive = FramesTo(stats.frames_written)
         /\ ReadsBack'
<1>1. archive' = Reading(emitted', files', buffered', torn')
  BY ReadBackNext
<1>2. archive' = Reading(emitted, files', buffered', torn')
  BY <1>1
<1>3. PICK fs, b, t, st, n :
        fs = files' /\ b = buffered' /\ t = torn' /\ st = status' /\ n = stats'.frames_written
  OBVIOUS
<1>4. /\ fs \in Seq(FileOf(Tok(emitted))) /\ b \in Seq(Tok(emitted)) /\ t \in Seq(Byte)
      /\ KeptAs(OlderOf(emitted, fs), NewestOf(emitted, fs, b, t), st, n)
  BY <1>3 DEF Left
<1>5. /\ \E k \in 0..Len(emitted) : Promise!PrefixReadable(Reading(emitted, fs, b, t), k)
      /\ st # "failed" => n \in 0..Len(emitted) /\ Reading(emitted, fs, b, t) = FramesTo(n)
  BY <1>4, KeptAsReads, Holds
<1>6. status # "failed" => /\ stats.frames_written \in 0..Len(emitted)
                           /\ archive = FramesTo(stats.frames_written)
  <2>1. archive = Reading(emitted, files, buffered, torn)
    BY DEF AInv, ReadsBack
  <2> QED BY <2>1, KeptAsReads, Holds
<1>7. ReadsBack'
  BY <1>1 DEF ReadsBack
<1> QED BY <1>2, <1>3, <1>5, <1>6, <1>7

\* The ways in which a step of the recorder shows.
LEMMA RecorderSimulates ==
  ASSUME AInv, Left, UNCHANGED <<stream, fed, emitted, origin>>, archive' = ReadBack',
         \/ status' = "failed" /\ status # "closed"
         \/ /\ status # "failed" /\ status' = status
            /\ stats'.frames_written = stats.frames_written
         \/ /\ status = "recording" /\ status' = "recording"
            /\ stats'.frames_written = stats.frames_written + 1
         \/ /\ status = "recording" /\ status' = "closed"
            /\ stats'.frames_written = stats.frames_written
            /\ stats.frames_written = Len(emitted)
  PROVE  [Promise!Next]_(Promise!vars)
<1>0. UNCHANGED <<stream, fed, emitted, origin>>
  OBVIOUS
<1>1. /\ \E k \in 0..Len(emitted) : Promise!PrefixReadable(archive', k)
      /\ status' # "failed" => /\ stats'.frames_written \in 0..Len(emitted)
                               /\ archive' = FramesTo(stats'.frames_written)
      /\ status # "failed" => /\ stats.frames_written \in 0..Len(emitted)
                              /\ archive = FramesTo(stats.frames_written)
  BY Archives
<1>2. CASE status' = "failed" /\ status # "closed"
  BY <1>0, <1>1, <1>2 DEF Promise!Next, Promise!Fault
<1>3. CASE /\ status # "failed" /\ status' = status
           /\ stats'.frames_written = stats.frames_written
  BY <1>0, <1>1, <1>3 DEF Promise!vars
<1>4. CASE /\ status = "recording" /\ status' = "recording"
           /\ stats'.frames_written = stats.frames_written + 1
  <2>1. PICK n : n = stats.frames_written
    OBVIOUS
  <2>2. /\ n \in 0..Len(emitted) /\ n + 1 \in 0..Len(emitted)
        /\ archive = FramesTo(n) /\ archive' = FramesTo(n + 1)
    BY <1>1, <1>4, <2>1
  <2>3. n + 1 <= Len(emitted) /\ n < Len(emitted)
    BY <2>2, Holds
  <2>4. archive' = Append(archive, emitted[n + 1].frame) /\ Len(archive) = n
    BY <2>2, <2>3, FramesToNext, Holds
  <2>5. Promise!Record
    BY <1>0, <1>4, <2>3, <2>4 DEF Promise!Record
  <2> QED BY <2>5 DEF Promise!Next
<1>5. CASE /\ status = "recording" /\ status' = "closed"
           /\ stats'.frames_written = stats.frames_written
           /\ stats.frames_written = Len(emitted)
  <2>1. archive' = archive
    BY <1>1, <1>5
  <2>2. Len(archive) = Len(emitted)
    <3>1. PICK n \in 0..Len(emitted) : n = Len(emitted) /\ archive = FramesTo(n)
      BY <1>1, <1>5
    <3> QED BY <3>1, FramesToType, Holds
  <2>3. Promise!Close
    BY <1>0, <1>5, <2>1, <2>2 DEF Promise!Close
  <2> QED BY <2>3 DEF Promise!Next
<1> QED BY <1>2, <1>3, <1>4, <1>5

-----------------------------------------------------------------------------
\* The recorder's own actions.
RecorderStep ==
  Construct \/ Feed \/ SyncReturns \/ WriteFrame \/ WriteFails \/ FeedReturn \/ StdioFlush
  \/ Close \/ Crash

\* Each of them leaves a directory as the invariant wants it.
LEMMA RecorderLeft ==
  ASSUME AInv, RecorderStep, PInv'
  PROVE  Left /\ Directory' /\ Phase' /\ Pending'
BY ConstructLeft, FeedLeft, ReturnsLeft, WriteLeft, FailsLeft, FeedReturnLeft, StdioLeft,
   CloseLeft, CrashLeft DEF RecorderStep

\* How each of them shows.
LEMMA RecorderShows ==
  ASSUME AInv, RecorderStep
  PROVE  \/ status' = "failed" /\ status # "closed"
         \/ /\ status # "failed" /\ status' = status
            /\ stats'.frames_written = stats.frames_written
         \/ /\ status = "recording" /\ status' = "recording"
            /\ stats'.frames_written = stats.frames_written + 1
         \/ /\ status = "recording" /\ status' = "closed"
            /\ stats'.frames_written = stats.frames_written
            /\ stats.frames_written = Len(emitted)
<1>1. /\ pc \in {"idle", "syncing", "writing"} => status = "recording"
      /\ pc = "throwing" => status = "failed"
      /\ pc \in {"down", "idle", "syncing", "writing", "throwing"}
  BY DEF AInv, Phase
<1>2. CASE Construct
  <2>1. run = 0 /\ stats'.frames_written = 0 /\ status' = status
    BY <1>2 DEF Construct, Rec!Construct, Rec!NoStats, AInv, Directory
  <2>2. status = "recording" /\ emitted = <<>>
    BY <2>1 DEF AInv, Phase, PInv, NotYet
  <2>3. stats.frames_written = 0
    <3>1. stats.frames_written \in 0..Len(emitted)
      BY <2>2, KeptAsReads, Holds
    <3> QED BY <2>2, <3>1
  <2> QED BY <2>1, <2>2, <2>3
<1>3. CASE Feed
  BY <1>1, <1>3 DEF Feed, Rec!Feed
<1>4. CASE SyncReturns
  <2>1. stats'.frames_written = stats.frames_written
    BY <1>4 DEF SyncReturns, Rec!Synced, AInv, PInv, RecCounts
  <2> QED BY <1>1, <1>4, <2>1 DEF SyncReturns, Rec!Synced
<1>5. CASE WriteFrame
  <2>1. PICK c : c = Rec!Counted(out[pos])
    OBVIOUS
  <2>2. c.frames_written = stats.frames_written + 1 /\ "frames_written" \in DOMAIN c
    BY <2>1 DEF Rec!Counted, AInv, PInv, RecCounts
  <2>3. stats' = c \/ stats' = [c EXCEPT !.files_rotated = @ + 1]
    BY <1>5, <2>1 DEF WriteFrame, Rec!WriteFrame
  <2>4. stats'.frames_written = stats.frames_written + 1
    BY <2>2, <2>3
  <2> QED BY <1>1, <1>5, <2>4 DEF WriteFrame, Rec!WriteFrame
<1>6. CASE WriteFails
  BY <1>1, <1>6 DEF WriteFails, Rec!WriteFails
<1>7. CASE FeedReturn \/ StdioFlush
  BY <1>1, <1>7 DEF FeedReturn, Rec!FeedReturn, StdioFlush, Rec!StdioFlush, Rec!memory
<1>8. CASE Close
  <2>1. pc = "idle" => stats.frames_written = Len(emitted)
    BY DEF AInv, PInv, Frames
  <2> QED BY <1>1, <1>8, <2>1 DEF Close, Rec!Close
<1>9. CASE Crash
  BY <1>1, <1>9 DEF Crash, Rec!Crash
<1> QED BY <1>2, <1>3, <1>4, <1>5, <1>6, <1>7, <1>8, <1>9 DEF RecorderStep

\* The recorder's steps preserve the invariant and implement SbfArchive.
LEMMA RecorderRefines ==
  ASSUME AInv, RecorderStep, archive' = ReadBack', PInv'
  PROVE  AInv' /\ [Promise!Next]_(Promise!vars)
<1>1. UNCHANGED sync_vars
  BY DEF RecorderStep, Construct, Feed, SyncReturns, WriteFrame, WriteFails, FeedReturn,
         StdioFlush, Close, Crash
<1>2. UNCHANGED <<stream, fed, emitted, origin>>
  BY <1>1 DEF sync_vars
<1>3. Left /\ Directory' /\ Phase' /\ Pending'
  BY RecorderLeft
<1>4. SyncInv'
  BY <1>1, SyncInvKept DEF AInv
<1>5. Genuine' /\ Written'
  BY <1>2, <1>3, LeftWritten, Holds
<1>6. ReadsBack'
  BY <1>2, <1>3, Archives
<1>7. AInv'
  BY <1>3, <1>4, <1>5, <1>6 DEF AInv
<1>8. [Promise!Next]_(Promise!vars)
  BY <1>2, <1>3, RecorderShows, RecorderSimulates
<1> QED BY <1>7, <1>8

\* SbfFrameSync's steps.
LEMMA SyncRefines ==
  ASSUME AInv, SyncScan \/ (\E n \in Chunks : SyncFeed(n)), archive' = ReadBack', PInv'
  PROVE  AInv' /\ [Promise!Next]_(Promise!vars)
<1>1. /\ pc = "syncing" /\ UNCHANGED <<rec_vars, torn, status>>
      /\ Sync!Scan \/ \E n \in Chunks : Sync!Feed(n)
  BY DEF SyncScan, SyncFeed
<1>2. status = "recording" /\ status' = status
  BY <1>1 DEF AInv, Phase
<1>3. SyncInv /\ Genuine
  BY DEF AInv
<1>4. SyncInv'
  BY <1>1, <1>3, SyncInvScan, SyncInvFeed
<1>5. Len(emitted) \in Nat
  BY Holds
<1>6. ASSUME stream' = stream, Genuine', Len(emitted) <= Len(emitted'),
             \A j \in 1..Len(emitted) : emitted'[j] = emitted[j]
      PROVE  AInv' /\ archive' = archive
  <2>1. /\ Directory' /\ Phase' /\ Pending' /\ Written'
        /\ Reading(emitted', files', buffered', torn') = Reading(emitted, files, buffered, torn)
    BY <1>1, <1>6, EmittedMore
  <2>2. archive' = Reading(emitted', files', buffered', torn')
    BY ReadBackNext
  <2>3. ReadsBack' /\ archive' = archive
    BY <2>1, <2>2 DEF ReadsBack, AInv
  <2> QED BY <1>4, <1>6, <2>1, <2>3 DEF AInv
<1>7. CASE UNCHANGED <<stream, fed, emitted, origin>>
  <2>1. Genuine'
    BY <1>3, <1>7 DEF Genuine
  <2>2. AInv' /\ archive' = archive
    BY <1>5, <1>6, <1>7, <2>1
  <2> QED BY <1>2, <1>7, <2>2 DEF Promise!vars
<1>8. CASE \E n \in Chunks : Sync!Feed(n)
  <2>1. PICK n \in Chunks : Sync!Feed(n)
    BY <1>8
  <2>2. n \in Nat /\ n > 0
    BY ChunksAssumption
  <2>3. fed' = fed + n /\ fed + n <= Len(stream) /\ UNCHANGED <<stream, emitted, origin>>
    BY <2>1 DEF Sync!Feed, Sync!hist
  <2>4. fed \in Nat /\ Len(stream) \in Nat
    BY <1>3, SyncTypes
  <2>5. Genuine'
    <3>1. fed' \in Nat /\ fed' <= Len(stream) /\ fed <= fed'
      BY <2>2, <2>3, <2>4
    <3>2. ASSUME NEW j \in 1..Len(emitted) PROVE BlockAt(stream, emitted[j].at, fed')
      <4>1. BlockAt(stream, emitted[j].at, fed) /\ emitted[j].at \in Nat
            /\ LengthAt(stream, emitted[j].at) \in Nat
        BY <1>3, BlockFacts DEF Genuine
      <4>2. PICK p \in Nat, l \in Nat : p = emitted[j].at /\ l = LengthAt(stream, p)
        BY <4>1
      <4>3. p + 8 <= fed /\ p + l <= fed
        BY <4>1, <4>2 DEF BlockAt, HeaderSize
      <4>4. p + 8 <= fed' /\ p + l <= fed'
        BY <2>4, <3>1, <4>3
      <4> QED BY <4>1, <4>2, <4>4 DEF BlockAt, HeaderSize
    <3> QED BY <1>3, <2>3, <3>1, <3>2 DEF Genuine
  <2>6. AInv' /\ archive' = archive
    BY <1>5, <1>6, <2>3, <2>5
  <2>7. Promise!Blocks!Arrive
    <3>1. fed' \in (fed + 1)..Len(stream)
      BY <2>2, <2>3, <2>4
    <3> QED BY <2>3, <3>1 DEF Promise!Blocks!Arrive
  <2>8. Promise!Arrive
    BY <1>2, <2>6, <2>7 DEF Promise!Arrive
  <2> QED BY <2>6, <2>8 DEF Promise!Next
<1>9. ASSUME Sync!Scan, stream' = stream, fed' = fed, Promise!Blocks!Deliver,
             NEW p \in Nat, BlockAt(stream, p, fed),
             emitted' = Append(emitted, [at |-> p, frame |-> FrameFields(stream, p)])
      PROVE  AInv' /\ [Promise!Next]_(Promise!vars)
  <2>1. PICK T, e : T = [at : Nat, frame : FrameType]
                    /\ e = [at |-> p, frame |-> FrameFields(stream, p)]
    OBVIOUS
  <2>2. emitted \in Seq(T) /\ stream \in Seq(Byte) /\ fed \in Nat /\ fed <= Len(stream)
    BY <1>3, <2>1, SyncTypes
  <2>3. emitted' \in Seq(T)
    BY <1>4, <2>1 DEF SyncInv, SyncP!IInv, SyncP!TypeOK, FrameType, Byte, SyncP!Byte
  <2>4. PICK S, em, en : /\ S = T \cup {e} /\ em = emitted /\ en = Append(emitted, e)
                         /\ em \in Seq(S) /\ e \in S
    <3>1. emitted \in Seq(T \cup {e}) /\ e \in T \cup {e}
      BY <2>2, SeqMonotonic
    <3> QED BY <3>1
  <2>5. Len(en) = Len(em) + 1 /\ (\A j \in 1..Len(em) : en[j] = em[j]) /\ en[Len(em) + 1] = e
    BY <2>4, AppendProperties
  <2>6. PICK m \in Nat : m = Len(emitted)
    BY <1>5
  <2>7. /\ Len(emitted') = m + 1 /\ (\A j \in 1..m : emitted'[j] = emitted[j])
        /\ emitted'[m + 1] = e
    BY <1>9, <2>1, <2>4, <2>5, <2>6
  <2>8. ASSUME NEW j \in 1..(m + 1)
        PROVE  /\ BlockAt(stream, emitted'[j].at, fed)
               /\ emitted'[j].frame = FrameFields(stream, emitted'[j].at)
    <3>1. CASE j \in 1..m
      BY <1>3, <2>6, <2>7, <3>1 DEF Genuine
    <3>2. CASE j \notin 1..m
      <4>1. j = m + 1
        BY <3>2
      <4> QED BY <1>9, <2>1, <2>7, <4>1
    <3> QED BY <3>1, <3>2
  <2>9. Genuine'
    BY <1>9, <2>1, <2>2, <2>3, <2>7, <2>8 DEF Genuine
  <2>10. Len(emitted) <= Len(emitted')
    BY <2>6, <2>7
  <2>11. AInv' /\ archive' = archive
    BY <1>6, <1>9, <2>6, <2>7, <2>9, <2>10
  <2>12. Promise!Deliver
    BY <1>2, <1>9, <2>11 DEF Promise!Deliver
  <2> QED BY <2>11, <2>12 DEF Promise!Next
<1> QED BY <1>1, <1>3, <1>7, <1>8, <1>9, ScanDelivers

\* The invariant holds at the start, which is a start of SbfArchive.
LEMMA ArchiveInit == Init => AInv /\ Promise!Init
<1> SUFFICES ASSUME Init PROVE AInv /\ Promise!Init
  OBVIOUS
<1>1. SyncInv /\ PInv
  BY SyncInvInit, PInvInit DEF Init
<1>2. /\ stream \in Streams /\ fed = 0 /\ emitted = <<>> /\ origin = 0
      /\ pc = "down" /\ fp = FALSE /\ seq = 0 /\ now = 0 /\ run = 0
      /\ files = <<>> /\ buffered = <<>> /\ torn = <<>> /\ status = "recording"
      /\ stats.frames_written = 0
  BY DEF Init, Sync!Init, Rec!Init, Rec!NoStats
<1>3. Genuine
  <2>1. /\ stream \in Seq(Byte) /\ fed \in Nat /\ fed <= Len(stream)
        /\ emitted \in Seq([at : Nat, frame : FrameType])
    BY <1>1, SyncTypes
  <2>2. 1..Len(emitted) = {}
    BY <1>2
  <2> QED BY <2>1, <2>2 DEF Genuine
<1>4. Directory
  <2>1. 1..Len(files) = {} /\ <<>> \in Seq(FileOf(Tok(emitted))) /\ <<>> \in Seq(Tok(emitted))
        /\ <<>> \in Seq(Byte)
    BY <1>2
  <2> QED BY <1>2, <2>1 DEF Directory
<1>5. Phase /\ Pending
  BY <1>2 DEF Phase, Pending
<1>6. Written
  <2>1. KeptAs(<<>>, <<>>, "recording", 0)
    BY <1>3, KeptFresh DEF KeptAs
  <2>2. OlderOf(emitted, <<>>) = <<>> /\ NewestOf(emitted, <<>>, buffered, torn) = <<>>
    BY NoFiles
  <2> QED BY <1>2, <2>1, <2>2 DEF Written
<1>7. archive = Reading(emitted, files, buffered, torn)
  BY ReadBackName DEF Init
<1>8. archive = <<>>
  BY <1>2, <1>7, NoFiles
<1>9. AInv
  BY <1>1, <1>3, <1>4, <1>5, <1>6, <1>7 DEF AInv, ReadsBack
<1>10. Promise!Init
  BY <1>2, <1>8 DEF Promise!Init, Promise!Blocks!Init
<1> QED BY <1>9, <1>10

\* Every step preserves the invariant and is a step of SbfArchive, or changes
\* nothing that SbfArchive speaks of.
LEMMA ArchiveStep == AInv /\ [Next]_vars => AInv' /\ [Promise!Next]_(Promise!vars)
<1> SUFFICES ASSUME AInv, [Next]_vars PROVE AInv' /\ [Promise!Next]_(Promise!vars)
  OBVIOUS
<1>1. PInv'
  BY PInvStep DEF AInv
<1>2. CASE UNCHANGED vars
  <2>1. /\ UNCHANGED <<sync_vars, rec_vars, torn, archive, status>>
        /\ UNCHANGED <<stream, fed, emitted, origin>>
    BY <1>2 DEF vars, sync_vars
  <2>2. UNCHANGED <<pc, fp, seq, out, pos, stats, buffered, files, now, run>>
    BY <2>1 DEF rec_vars
  <2>3. SyncInv'
    BY <2>1, SyncInvKept DEF AInv
  <2>4. Left
    BY <2>1, <2>2, Holds DEF Left
  <2>5. Genuine' /\ Written'
    BY <2>1, <2>4, LeftWritten, Holds
  <2>6. Directory' /\ Phase'
    BY <2>1, <2>2 DEF AInv, Directory, Phase
  <2>7. Pending'
    BY <2>1, <2>2 DEF AInv, Pending, BlockLength
  <2>8. ReadsBack'
    BY <2>1, <2>2 DEF AInv, ReadsBack
  <2> QED BY <1>1, <2>1, <2>3, <2>5, <2>6, <2>7, <2>8 DEF AInv, Promise!vars
<1>3. CASE Next
  <2>1. archive' = ReadBack'
    BY <1>3 DEF Next
  <2>2. CASE RecorderStep
    BY <1>1, <2>1, <2>2, RecorderRefines
  <2>3. CASE SyncScan \/ (\E n \in Chunks : SyncFeed(n))
    BY <1>1, <2>1, <2>3, SyncRefines
  <2> QED BY <1>3, <2>2, <2>3 DEF Next, Step, RecorderStep
<1> QED BY <1>2, <1>3

\* From the receiver's bytes to what parser.py reads back, the driver
\* implements SbfArchive.
THEOREM Archived == Spec => ArchiveSpec
BY ArchiveInit, ArchiveStep, PTL DEF Spec, ArchiveSpec, Promise!Spec
=============================================================================
