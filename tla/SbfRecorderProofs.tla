------------------------- MODULE SbfRecorderProofs -------------------------
(***************************************************************************)
(* Proofs about SbfRecorder for every rotation size and interval, every    *)
(* set of frame lengths and every number of frames, runs and failures.     *)
(***************************************************************************)
EXTENDS SbfRecorder, SequenceLemmas

-----------------------------------------------------------------------------
(* The inductive invariant, in four parts.                                 *)

\* What the open file will hold when stdio's buffer is flushed.
Current == files[Len(files)].content \o buffered

\* Which run a file belongs to: the open file, the last one, to the current
\* run, whose files are numbered up to seq_; before a run has opened its first
\* file it has none.
Directory ==
  /\ \A i \in DOMAIN files : files[i].run <= run
  /\ fp => files[Len(files)].run = run
  /\ ~fp => buffered = <<>>
  /\ pc = "idle" /\ ~fp => \A i \in DOMAIN files : files[i].run # run
  /\ pc # "down" => \A i \in DOMAIN files : files[i].run = run => files[i].name.seq <= seq

\* Until write_frame_() throws, the open file will hold whole frames.
CurrentWhole == ~FlushFails /\ fp /\ pc # "throwing" => Whole(Current)

\* FileSizeBound for one file ...
Fits(c) == Bytes(c) - c[Len(c)].length < rotate_bytes \/ Bytes(c) = c[1].length

\* ... and for all that may be left of it.
Bounded(tokens) == \A n \in 1..Len(tokens) : Fits(SubSeq(tokens, 1, n))

\* However much of the buffer reaches the disk, a file stays within bounds;
\* current_size_ is the size of the open file, and it is below rotate_bytes
\* whenever another frame may be written.
Sizes ==
  /\ \A i \in DOMAIN files : Bounded(files[i].content)
  /\ fp => Bounded(Current)
  /\ fp /\ pc # "throwing" =>
       /\ Bytes(Current) = current_size
       /\ Current # <<>> => current_size < rotate_bytes

\* The frames of out_ that the loop of feed() has not reached are the last
\* ones that arrived, and all others have been counted.
Pending ==
  /\ pc \in {"idle", "syncing"} => stats.frames_written = Len(arrived)
  /\ pc = "writing" =>
       /\ Len(out) - (pos - 1) = Len(arrived) - stats.frames_written
       /\ \A k \in pos..Len(out) : out[k] = arrived[(stats.frames_written + 1) + (k - pos)]

\* Files of earlier runs were opened in an earlier second.
EarlierSecond ==
  pc # "down" => \A i \in DOMAIN files : files[i].run # run => files[i].name.time < now

-----------------------------------------------------------------------------
(* What the operators of the model do to tokens and to the directory.      *)

\* The header of a frame, and its body if it has one.
LEMMA TokensOfFrame ==
  ASSUME NEW f \in Frame
  PROVE  \E h \in Token :
           /\ h.part = "header" /\ h.length = f.length
           /\ Tokens(f)[1] = h
           /\ \/ f.length = HeaderSize /\ Tokens(f) = <<h>> /\ Len(Tokens(f)) = 1
              \/ \E b \in Token :
                   /\ f.length > HeaderSize /\ Tokens(f) = <<h, b>> /\ Len(Tokens(f)) = 2
                   /\ b = [h EXCEPT !.part = "body"] /\ h = [b EXCEPT !.part = "header"]
                   /\ b.part = "body" /\ b.length = f.length
<1> DEFINE h == [id |-> f.id, length |-> f.length, part |-> "header"]
           b == [id |-> f.id, length |-> f.length, part |-> "body"]
<1>1. f.id \in 1..MaxFrames /\ f.length \in Lengths
  BY DEF Frame
<1>2. h \in Token /\ b \in Token
  BY <1>1 DEF Token
<1>3. b = [h EXCEPT !.part = "body"] /\ h = [b EXCEPT !.part = "header"]
  OBVIOUS
<1>4. h.part = "header" /\ h.length = f.length /\ b.part = "body" /\ b.length = f.length
  OBVIOUS
<1>5. f.length \in Nat /\ f.length >= HeaderSize /\ HeaderSize = 8
  BY <1>1, RecorderAssumption DEF HeaderSize
<1>6. CASE f.length = HeaderSize
  <2>1. Tokens(f) = <<h>> /\ Len(Tokens(f)) = 1 /\ Tokens(f)[1] = h
    BY <1>6 DEF Tokens
  <2> HIDE DEF h, b
  <2> QED BY <1>2, <1>4, <1>6, <2>1
<1>7. CASE f.length # HeaderSize
  <2>1. Tokens(f) = <<h, b>> /\ Len(Tokens(f)) = 2 /\ Tokens(f)[1] = h
    BY <1>7 DEF Tokens
  <2>2. f.length > HeaderSize
    BY <1>5, <1>7
  <2> HIDE DEF h, b
  <2> QED BY <1>2, <1>3, <1>4, <2>1, <2>2
<1> QED BY <1>6, <1>7

\* Writing a frame writes tokens.
LEMMA TokensType ==
  ASSUME NEW f \in Frame
  PROVE  Tokens(f) \in Seq(Token)
<1>1. PICK h \in Token :
        Tokens(f) = <<h>> \/ \E b \in Token : Tokens(f) = <<h, b>>
  BY TokensOfFrame
<1>2. <<h>> \in Seq(Token) /\ \A b \in Token : <<h, b>> \in Seq(Token)
  OBVIOUS
<1> QED BY <1>1, <1>2

\* gs is the directory fs after tokens t went to its last file.
Extends(fs, gs, t) ==
  /\ gs \in Seq(File) /\ Len(gs) = Len(fs) /\ Len(fs) \in Nat \ {0}
  /\ \A i \in 1..Len(fs) : gs[i].name = fs[i].name /\ gs[i].run = fs[i].run
  /\ \A i \in 1..(Len(fs) - 1) : gs[i] = fs[i]
  /\ gs[Len(fs)].content = fs[Len(fs)].content \o t

\* gs is the directory fs with one more file; one of the same name is empty.
Opens(fs, gs) ==
  /\ gs \in Seq(File) /\ Len(gs) = Len(fs) + 1 /\ Len(fs) \in Nat
  /\ gs[Len(fs) + 1].name = FileName
  /\ gs[Len(fs) + 1].run = run
  /\ gs[Len(fs) + 1].content = <<>>
  /\ \A i \in 1..Len(fs) :
       /\ gs[i].name = fs[i].name /\ gs[i].run = fs[i].run
       /\ gs[i] = fs[i] \/ (fs[i].name = FileName /\ gs[i].content = <<>>)

\* The fields of a file.
LEMMA FileFields ==
  /\ \A f \in File : /\ f.name \in [time : Nat, seq : Nat] /\ f.run \in Nat
                     /\ f.content \in Seq(Token)
                     /\ f.name.time \in Nat /\ f.name.seq \in Nat
  /\ \A f \in File, c \in Seq(Token) :
       /\ [f EXCEPT !.content = c] \in File
       /\ [f EXCEPT !.content = c].name = f.name /\ [f EXCEPT !.content = c].run = f.run
       /\ [f EXCEPT !.content = c].content = c
<1> DEFINE ST == Seq(Token)
           NT == [time : Nat, seq : Nat]
<1>1. \A f \in File : f.name \in NT /\ f.run \in Nat /\ f.content \in ST
  <2> HIDE DEF ST, NT
  <2> QED BY DEF File, ST, NT
<1>2. \A n \in NT : n.time \in Nat /\ n.seq \in Nat
  OBVIOUS
<1>3. \A f \in File, c \in ST : 
       /\ [f EXCEPT !.content = c] \in File
       /\ [f EXCEPT !.content = c].name = f.name /\ [f EXCEPT !.content = c].run = f.run
       /\ [f EXCEPT !.content = c].content = c
  <2> HIDE DEF ST, NT
  <2>1. File = [name : NT, run : Nat, content : ST]
    BY DEF File, ST, NT
  <2> QED BY <2>1
<1> QED BY <1>1, <1>2, <1>3

\* fflush() and fclose() put at most what was in the buffer on disk.
LEMMA FlushOutcomesType ==
  ASSUME NEW b \in Seq(Token)
  PROVE  \A k \in FlushOutcomes(b) : k \in 0..Len(b) /\ (~FlushFails => k = Len(b))
<1>1. Len(b) \in Nat
  BY LenProperties
<1> QED BY <1>1 DEF FlushOutcomes

\* A prefix of a sequence of tokens and the rest of it.
LEMMA Split ==
  ASSUME NEW b \in Seq(Token), NEW k \in 0..Len(b)
  PROVE  /\ SubSeq(b, 1, k) \in Seq(Token) /\ SubSeq(b, k + 1, Len(b)) \in Seq(Token)
         /\ SubSeq(b, 1, k) \o SubSeq(b, k + 1, Len(b)) = b
         /\ k = Len(b) => SubSeq(b, 1, k) = b
BY CutInTwo, SubSeqFull

\* What a flush does to the directory.
LEMMA FlushedExtends ==
  ASSUME files \in Seq(File), files # <<>>, NEW b \in Seq(Token), NEW k \in 0..Len(b)
  PROVE  Extends(files, Flushed(b, k), SubSeq(b, 1, k))
<1> DEFINE n == Len(files)
           t == SubSeq(b, 1, k)
           c == files[n].content \o t
           g == [files[n] EXCEPT !.content = c]
<1>1. n \in Nat \ {0} /\ n \in 1..n
  BY EmptySeq, LenProperties
<1>2. files[n] \in File
  BY <1>1, ElementOfSeq
<1>3. t \in Seq(Token)
  BY Split
<1> HIDE DEF t
<1>4. c \in Seq(Token)
  BY <1>2, <1>3, FileFields, ConcatProperties
<1>5. Flushed(b, k) = [files EXCEPT ![n] = g]
  BY DEF Flushed, t
<1>6. g \in File /\ g.name = files[n].name /\ g.run = files[n].run /\ g.content = c
  <2> HIDE DEF c
  <2> QED BY <1>2, <1>4, FileFields
<1> HIDE DEF g, c
<1> DEFINE gs == [files EXCEPT ![n] = g]
<1>7. gs \in Seq(File) /\ Len(gs) = n /\ \A j \in 1..n : gs[j] = IF j = n THEN g ELSE files[j]
  BY <1>1, <1>6, ExceptSeq
<1> HIDE DEF gs
<1>8. \A i \in 1..(n - 1) : i \in 1..n /\ i # n
  BY <1>1
<1>9. Extends(files, gs, t)
  BY <1>1, <1>6, <1>7, <1>8 DEF Extends, c
<1> QED BY <1>5, <1>9 DEF gs, t

\* What opening a file does to the directory.
LEMMA OpenNewFileOpens ==
  ASSUME NEW fs \in Seq(File), NEW size, NEW next, OpenNewFile(fs, size, next),
         now \in Nat, seq \in Nat, run \in Nat
  PROVE  (fp' /\ Opens(fs, files')) \/ (~fp' /\ files' = fs)
<1>1. CASE fp' = FALSE
  BY <1>1 DEF OpenNewFile
<1>2. CASE fp' # FALSE
  <2> DEFINE emptied(i) == [fs[i] EXCEPT !.content = <<>>]
             kept(i) == IF fs[i].name = FileName THEN emptied(i) ELSE fs[i]
             ks == [i \in DOMAIN fs |-> kept(i)]
             new == [name |-> FileName, run |-> run, content |-> <<>>]
  <2>1. fp' = TRUE /\ files' = Append(ks, new)
    BY <1>2 DEF OpenNewFile
  <2>2. DOMAIN fs = 1..Len(fs) /\ Len(fs) \in Nat /\ \A i \in 1..Len(fs) : fs[i] \in File
    BY LenProperties, ElementOfSeq
  <2>3. \A i \in 1..Len(fs) : /\ kept(i) \in File
                              /\ kept(i).name = fs[i].name /\ kept(i).run = fs[i].run
                              /\ kept(i) = fs[i] \/ (fs[i].name = FileName /\ kept(i).content = <<>>)
    <3>1. <<>> \in Seq(Token)
      BY EmptySeq
    <3> SUFFICES ASSUME NEW i \in 1..Len(fs)
                 PROVE  /\ kept(i) \in File
                        /\ kept(i).name = fs[i].name /\ kept(i).run = fs[i].run
                        /\ kept(i) = fs[i] \/ (fs[i].name = FileName /\ kept(i).content = <<>>)
      OBVIOUS
    <3>2. /\ emptied(i) \in File /\ emptied(i).name = fs[i].name
          /\ emptied(i).run = fs[i].run /\ emptied(i).content = <<>>
      BY <2>2, <3>1, FileFields
    <3> HIDE DEF emptied
    <3> QED BY <2>2, <3>2
  <2>4. ks \in Seq(File) /\ Len(ks) = Len(fs) /\ \A i \in 1..Len(fs) : ks[i] = kept(i)
    <3> HIDE DEF kept
    <3>1. ks = [i \in 1..Len(fs) |-> kept(i)]
      BY <2>2
    <3>2. ks \in [1..Len(fs) -> File]
      BY <2>3, <3>1
    <3> QED BY <2>2, <3>1, <3>2
  <2>5. /\ new \in File
        /\ new.name = FileName /\ new.run = run /\ new.content = <<>>
    <3>1. FileName \in [time : Nat, seq : Nat]
      BY DEF FileName
    <3>2. <<>> \in Seq(Token)
      BY EmptySeq
    <3> DEFINE ST == Seq(Token)
    <3> HIDE DEF ST
    <3> QED BY <3>1, <3>2 DEF File, ST
  <2> HIDE DEF ks, new, kept
  <2>6. /\ files' \in Seq(File) /\ Len(files') = Len(fs) + 1
        /\ \A i \in 1..Len(fs) : files'[i] = ks[i]
        /\ files'[Len(fs) + 1] = new
    BY <2>1, <2>4, <2>5, AppendProperties
  <2> QED BY <2>1, <2>2, <2>3, <2>4, <2>5, <2>6 DEF Opens
<1> QED BY <1>1, <1>2
-----------------------------------------------------------------------------
(* Types.                                                                  *)

\* What open_new_file_() leaves in the recorder's members.
LEMMA OpenNewFileType ==
  ASSUME TypeOK, NEW fs \in Seq(File), NEW size \in Nat, NEW next \in {"syncing", "writing"},
         OpenNewFile(fs, size, next)
  PROVE  /\ fp' \in BOOLEAN
         /\ pc' \in {"syncing", "writing", "throwing"}
         /\ fp' => pc' = next /\ files' # <<>>
         /\ ~fp' => pc' = "throwing"
         /\ seq' \in Nat /\ current_size' \in Nat /\ file_start' \in Nat
         /\ files' \in Seq(File)
<1>1. /\ seq \in Nat /\ file_start \in Nat /\ now \in Nat /\ run \in Nat
  BY DEF TypeOK
<1>2. /\ fp' \in BOOLEAN /\ pc' \in {"syncing", "writing", "throwing"}
      /\ fp' => pc' = next
      /\ ~fp' => pc' = "throwing"
      /\ seq' \in Nat /\ current_size' \in Nat /\ file_start' \in Nat
  <2>1. seq' = seq + 1
    BY DEF OpenNewFile
  <2>2. \/ fp' = TRUE /\ current_size' = 0 /\ file_start' = now /\ pc' = next
        \/ fp' = FALSE /\ current_size' = size /\ file_start' = file_start /\ pc' = "throwing"
    BY DEF OpenNewFile
  <2>3. seq' \in Nat /\ current_size' \in Nat /\ file_start' \in Nat
    BY <1>1, <2>1, <2>2
  <2>4. fp' \in BOOLEAN /\ (fp' => pc' = next) /\ (~fp' => pc' = "throwing")
    BY <2>2, Zenon
  <2> QED BY <2>2, <2>3, <2>4
<1>3. (fp' /\ Opens(fs, files')) \/ (~fp' /\ files' = fs)
  BY <1>1, OpenNewFileOpens
<1>4. files' \in Seq(File)
  BY <1>3 DEF Opens
<1>5. fp' => files' # <<>>
  <2>1. ASSUME fp' PROVE Len(files') # 0
    BY <1>3, <2>1 DEF Opens
  <2>2. Len(<<>>) = 0
    BY EmptySeq
  <2> QED BY <2>1, <2>2
<1> QED BY <1>2, <1>4, <1>5

\* A directory that was flushed to.
LEMMA FlushedType ==
  ASSUME files \in Seq(File), files # <<>>, NEW b \in Seq(Token), NEW k \in 0..Len(b)
  PROVE  Flushed(b, k) \in Seq(File) /\ Flushed(b, k) # <<>>
<1>1. Extends(files, Flushed(b, k), SubSeq(b, 1, k))
  BY FlushedExtends
<1>2. Len(Flushed(b, k)) # 0
  BY <1>1 DEF Extends
<1> QED BY <1>1, <1>2, EmptySeq DEF Extends

\* The frames and the counts SbfFrameSync may come up with.
LEMMA BatchType ==
  ASSUME arrived \in Seq(Frame), NEW batch \in Batches
  PROVE  batch \in Seq(Frame)
<1>1. PICK n \in {m \in 0..MaxBatch : Len(arrived) + m <= MaxFrames}, ls \in [1..MaxBatch -> Lengths] :
        batch = [i \in 1..n |-> [id |-> Len(arrived) + i, length |-> ls[i]]]
  BY DEF Batches
<1>2. Len(arrived) \in Nat /\ MaxFrames \in Nat /\ MaxBatch \in Nat /\ n \in Nat
      /\ n <= MaxBatch /\ Len(arrived) + n <= MaxFrames
  BY LenProperties, RecorderAssumption
<1>3. \A i \in 1..n : [id |-> Len(arrived) + i, length |-> ls[i]] \in Frame
  <2> SUFFICES ASSUME NEW i \in 1..n
               PROVE  [id |-> Len(arrived) + i, length |-> ls[i]] \in Frame
    OBVIOUS
  <2>1. Len(arrived) + i \in 1..MaxFrames /\ i \in 1..MaxBatch
    BY <1>2
  <2> QED BY <2>1 DEF Frame
<1>4. batch \in [1..n -> Frame]
  BY <1>1, <1>3
<1> QED BY <1>2, <1>4

\* The types of prev_crc_failed_ and its like, and of stats_.
Counts == [crc_failed : Nat, length_invalid : Nat, resyncs : Nat]
StatsType == [frames_written : Nat, bytes_written : Nat, files_rotated : Nat,
              crc_failed : Nat, length_invalid : Nat, resyncs : Nat]

\* SbfFrameSync's counters never decrease.
LEMMA DropsType ==
  ASSUME prev \in Counts, NEW fs \in Drops
  PROVE  /\ fs \in Counts
         /\ fs.crc_failed >= prev.crc_failed
         /\ fs.length_invalid >= prev.length_invalid
         /\ fs.resyncs >= prev.resyncs
<1>1. CASE fs = prev
  BY <1>1 DEF Counts
<1>2. CASE fs # prev
  <2>1. PICK c \in {"crc_failed", "length_invalid"} :
             fs = [prev EXCEPT ![c] = @ + 1, !.resyncs = @ + 1]
    BY <1>2 DEF Drops
  <2> DEFINE p == [prev EXCEPT ![c] = prev[c] + 1]
  <2>4. prev.crc_failed \in Nat /\ prev.length_invalid \in Nat /\ prev.resyncs \in Nat
    BY DEF Counts
  <2>5. /\ p \in Counts /\ p.resyncs = prev.resyncs
        /\ p.crc_failed >= prev.crc_failed /\ p.length_invalid >= prev.length_invalid
    <3>1. CASE c = "crc_failed"
      <4>1. p = [prev EXCEPT !.crc_failed = prev.crc_failed + 1]
        BY <3>1
      <4> QED BY <2>4, <4>1 DEF Counts
    <3>2. CASE c = "length_invalid"
      <4>1. p = [prev EXCEPT !.length_invalid = prev.length_invalid + 1]
        BY <3>2
      <4> QED BY <2>4, <4>1 DEF Counts
    <3> QED BY <3>1, <3>2
  <2>6. fs = [p EXCEPT !.resyncs = prev.resyncs + 1]
    BY <2>1
  <2> HIDE DEF p
  <2>7. /\ fs \in Counts /\ fs.resyncs = prev.resyncs + 1
        /\ fs.crc_failed = p.crc_failed /\ fs.length_invalid = p.length_invalid
    BY <2>4, <2>5, <2>6 DEF Counts
  <2> QED BY <2>4, <2>5, <2>7
<1> QED BY <1>1, <1>2

\* A frame of out_ that the loop of feed() is about to write.
LEMMA NextFrame ==
  ASSUME TypeOK, pos <= Len(out)
  PROVE  /\ out[pos] \in Frame /\ out[pos].length \in Nat
         /\ Tokens(out[pos]) \in Seq(Token)
         /\ buffered \o Tokens(out[pos]) \in Seq(Token)
<1>1. Len(out) \in Nat /\ pos \in 1..Len(out) /\ out \in Seq(Frame) /\ buffered \in Seq(Token)
  BY LenProperties DEF TypeOK
<1>2. out[pos] \in Frame
  BY <1>1, ElementOfSeq
<1>3. out[pos].length \in Nat
  BY <1>2, RecorderAssumption DEF Frame
<1> QED BY <1>1, <1>2, <1>3, TokensType, ConcatProperties

\* The counters stay natural numbers.
LEMMA CountedType ==
  ASSUME stats \in StatsType, NEW f, f.length \in Nat
  PROVE  /\ Counted(f) \in StatsType
         /\ [Counted(f) EXCEPT !.files_rotated = @ + 1] \in StatsType
         /\ Counted(f).frames_written = stats.frames_written + 1
         /\ Counted(f).bytes_written = stats.bytes_written + f.length
         /\ [Counted(f) EXCEPT !.files_rotated = @ + 1].frames_written = stats.frames_written + 1
         /\ [Counted(f) EXCEPT !.files_rotated = @ + 1].bytes_written = stats.bytes_written + f.length
<1> DEFINE s1 == [stats EXCEPT !.frames_written = stats.frames_written + 1]
           s2 == [s1 EXCEPT !.bytes_written = stats.bytes_written + f.length]
           s3 == [s2 EXCEPT !.files_rotated = s2.files_rotated + 1]
<1>1. /\ stats.frames_written \in Nat /\ stats.bytes_written \in Nat
         /\ stats.files_rotated \in Nat
      /\ stats.frames_written + 1 \in Nat /\ stats.bytes_written + f.length \in Nat
      /\ stats.files_rotated + 1 \in Nat
  BY DEF StatsType
<1>2. s1 \in StatsType /\ s1.frames_written = stats.frames_written + 1
      /\ s1.files_rotated = stats.files_rotated
  BY <1>1 DEF StatsType
<1>3. Counted(f) = s2
  BY DEF Counted
<1> HIDE DEF s1
<1>4. s2 \in StatsType /\ s2.frames_written = stats.frames_written + 1
      /\ s2.bytes_written = stats.bytes_written + f.length /\ s2.files_rotated \in Nat
  BY <1>1, <1>2 DEF StatsType
<1>5. [Counted(f) EXCEPT !.files_rotated = @ + 1] = s3
  BY <1>3
<1> HIDE DEF s2
<1>6. s3 \in StatsType /\ s3.frames_written = stats.frames_written + 1
      /\ s3.bytes_written = stats.bytes_written + f.length
  BY <1>4 DEF StatsType
<1> HIDE DEF s3
<1> QED BY <1>3, <1>4, <1>5, <1>6

\* The types hold at first.
LEMMA InitType == Init => TypeOK
<1> SUFFICES ASSUME Init PROVE TypeOK
  OBVIOUS
<1> USE DEF Init
<1>1. out \in Seq(Frame) /\ arrived \in Seq(Frame) /\ buffered \in Seq(Token)
      /\ files \in Seq(File)
      /\ Len(out) = 0
  BY EmptySeq
<1>2. pos \in 1..(Len(out) + 1)
  BY <1>1
<1>3. stats \in StatsType /\ prev \in Counts
  BY DEF NoStats, NoDrops, StatsType, Counts
<1>4. seq \in Nat /\ current_size \in Nat /\ file_start \in Nat /\ now \in Nat /\ run \in Nat
      /\ lost \in Nat
  OBVIOUS
<1>5. pc = "down" /\ fp = FALSE
  OBVIOUS
<1> HIDE DEF Init
<1> QED BY <1>1, <1>2, <1>3, <1>4, <1>5 DEF TypeOK, StatsType, Counts

\* Constructing a recorder.
LEMMA ConstructType == TypeOK /\ Construct => TypeOK'
<1> SUFFICES ASSUME TypeOK, Construct PROVE TypeOK'
  OBVIOUS
<1>1. out' \in Seq(Frame) /\ arrived' \in Seq(Frame) /\ Len(out') = 0
  BY EmptySeq DEF Construct
<1>2. pos' \in 1..(Len(out') + 1)
  BY <1>1 DEF Construct
<1>3. stats' \in StatsType /\ prev' \in Counts
  BY DEF Construct, NoStats, NoDrops, StatsType, Counts
<1>4. seq' \in Nat /\ current_size' \in Nat /\ file_start' \in Nat /\ now' \in Nat
      /\ run' \in Nat /\ lost' \in Nat
  BY DEF Construct, TypeOK
<1>5. pc' = "idle" /\ fp' = FALSE /\ buffered' \in Seq(Token) /\ files' \in Seq(File)
  BY DEF Construct, TypeOK
<1> QED BY <1>1, <1>2, <1>3, <1>4, <1>5 DEF TypeOK, StatsType, Counts

\* The first half of feed().
LEMMA FeedType == TypeOK /\ Feed => TypeOK'
<1> SUFFICES ASSUME TypeOK, Feed PROVE TypeOK'
  OBVIOUS
<1>1. UNCHANGED <<out, pos, stats, prev, arrived, buffered, now, run, lost>> /\ pc = "idle"
  BY DEF Feed
<1>2. CASE fp
  <2>1. pc' = "syncing" /\ UNCHANGED <<fp, seq, files, current_size, file_start>>
    BY <1>2 DEF Feed
  <2> QED BY <1>1, <1>2, <2>1 DEF TypeOK
<1>3. CASE ~fp
  <2>1. OpenNewFile(files, current_size, "syncing")
    BY <1>3 DEF Feed
  <2>2. files \in Seq(File) /\ current_size \in Nat
    BY DEF TypeOK
  <2>3. /\ fp' \in BOOLEAN /\ pc' \in {"syncing", "writing", "throwing"}
        /\ fp' => files' # <<>>
        /\ ~fp' => pc' = "throwing"
        /\ seq' \in Nat /\ current_size' \in Nat /\ file_start' \in Nat
        /\ files' \in Seq(File)
    BY <2>1, <2>2, OpenNewFileType
  <2> QED BY <1>1, <2>3 DEF TypeOK
<1> QED BY <1>2, <1>3

\* SbfFrameSync returns.
LEMMA SyncedType ==
  ASSUME TypeOK, NEW batch \in Batches, NEW fs \in Drops, Synced(batch, fs)
  PROVE  TypeOK'
<1>1. /\ pc = "syncing" /\ pc' = "writing" /\ out' = batch /\ pos' = 1
      /\ arrived' = arrived \o batch /\ prev' = fs
      /\ UNCHANGED <<fp, seq, current_size, file_start, buffered, files, now, run, lost>>
  BY DEF Synced, Emitted, CountedBefore
<1>2. batch \in Seq(Frame) /\ arrived \in Seq(Frame) /\ stats \in StatsType /\ prev \in Counts
  BY BatchType DEF TypeOK, StatsType, Counts
<1>3. arrived' \in Seq(Frame) /\ out' \in Seq(Frame)
  BY <1>1, <1>2, ConcatProperties
<1>4. pos' \in 1..(Len(out') + 1)
  BY <1>1, <1>3, LenProperties
<1>5. fs \in Counts /\ fs.crc_failed >= prev.crc_failed
      /\ fs.length_invalid >= prev.length_invalid /\ fs.resyncs >= prev.resyncs
  BY <1>2, DropsType
<1>6. stats' \in StatsType
  <2>1. /\ stats.crc_failed + (fs.crc_failed - prev.crc_failed) \in Nat
        /\ stats.length_invalid + (fs.length_invalid - prev.length_invalid) \in Nat
        /\ stats.resyncs + (fs.resyncs - prev.resyncs) \in Nat
    <3>1. stats.crc_failed \in Nat /\ stats.length_invalid \in Nat /\ stats.resyncs \in Nat
      BY <1>2 DEF StatsType
    <3>2. /\ prev.crc_failed \in Nat /\ prev.length_invalid \in Nat /\ prev.resyncs \in Nat
          /\ fs.crc_failed \in Nat /\ fs.length_invalid \in Nat /\ fs.resyncs \in Nat
      BY <1>2, <1>5 DEF Counts
    <3> QED BY <1>5, <3>1, <3>2
  <2>2. stats' = [stats EXCEPT !.crc_failed = @ + (fs.crc_failed - prev.crc_failed),
                               !.length_invalid = @ + (fs.length_invalid - prev.length_invalid),
                               !.resyncs = @ + (fs.resyncs - prev.resyncs)]
    BY DEF Synced
  <2> QED BY <1>2, <2>1, <2>2 DEF StatsType
<1>7. /\ fp \in BOOLEAN /\ (pc \in {"syncing", "writing"} => fp) /\ (fp => files # <<>>)
      /\ seq \in Nat /\ current_size \in Nat /\ file_start \in Nat
      /\ now \in Nat /\ run \in Nat /\ lost \in Nat
      /\ buffered \in Seq(Token) /\ files \in Seq(File)
  BY DEF TypeOK
<1>8. prev' \in Counts
  BY <1>1, <1>5
<1> QED BY <1>1, <1>3, <1>4, <1>6, <1>7, <1>8 DEF TypeOK, StatsType, Counts

\* A frame is written, and perhaps the file rotated.
LEMMA WriteFrameType == TypeOK /\ WriteFrame => TypeOK'
<1> SUFFICES ASSUME TypeOK, WriteFrame PROVE TypeOK'
  OBVIOUS
<1> DEFINE f == out[pos]
           b == buffered \o Tokens(f)
           size == current_size + f.length
<1>1. /\ pc = "writing" /\ pos <= Len(out) /\ pos' = pos + 1
      /\ UNCHANGED <<out, prev, arrived, now, run>>
  BY DEF WriteFrame
<1>2. f.length \in Nat /\ b \in Seq(Token)
  BY <1>1, NextFrame
<1>3. /\ fp = TRUE /\ files # <<>> /\ files \in Seq(File) /\ stats \in StatsType
      /\ current_size \in Nat /\ lost \in Nat /\ out \in Seq(Frame) /\ pos \in 1..(Len(out) + 1)
  BY <1>1 DEF TypeOK, StatsType
<1>4. pos' \in 1..(Len(out') + 1)
  <2>1. Len(out) \in Nat
    BY <1>3, LenProperties
  <2> QED BY <1>1, <1>3, <2>1
<1>5. size \in Nat
  BY <1>2, <1>3
<1>6. CASE ~RotationDue(size)
  <2>1. /\ buffered' = b /\ current_size' = size
        /\ stats' = Counted(f)
        /\ UNCHANGED <<pc, fp, seq, file_start, files, lost>>
    BY <1>6 DEF WriteFrame
  <2>2. stats' \in StatsType /\ buffered' \in Seq(Token) /\ current_size' \in Nat
    <3> HIDE DEF f, b, size
    <3> QED BY <1>2, <1>3, <1>5, <2>1, CountedType
  <2> HIDE DEF f, b, size
  <2> QED BY <1>1, <1>4, <2>1, <2>2 DEF TypeOK, StatsType
<1>7. CASE RotationDue(size)
  <2>1. PICK k \in FlushOutcomes(b) :
              /\ OpenNewFile(Flushed(b, k), size, "writing")
              /\ stats' = [Counted(f) EXCEPT !.files_rotated = @ + 1]
              /\ buffered' = <<>>
              /\ lost' = lost + (Len(b) - k)
    BY <1>7 DEF WriteFrame
  <2> HIDE DEF f, b, size
  <2>2. k \in 0..Len(b) /\ Len(b) \in Nat
    BY <1>2, FlushOutcomesType, LenProperties
  <2>3. Flushed(b, k) \in Seq(File)
    BY <1>2, <1>3, <2>2, FlushedType
  <2>4. /\ fp' \in BOOLEAN /\ pc' \in {"syncing", "writing", "throwing"}
        /\ fp' => files' # <<>>
        /\ ~fp' => pc' = "throwing"
        /\ seq' \in Nat /\ current_size' \in Nat /\ file_start' \in Nat
        /\ files' \in Seq(File)
    BY <1>5, <2>1, <2>3, OpenNewFileType
  <2>5. stats' \in StatsType
    BY <1>2, <1>3, <2>1, CountedType
  <2>6. lost' \in Nat
    BY <1>3, <2>1, <2>2
  <2>7. buffered' \in Seq(Token)
    BY <2>1, EmptySeq
  <2> QED BY <1>1, <1>4, <2>4, <2>5, <2>6, <2>7 DEF TypeOK, StatsType
<1> QED BY <1>6, <1>7

\* fwrite() falls short.
LEMMA WriteFailsType == TypeOK /\ WriteFails => TypeOK'
<1> SUFFICES ASSUME TypeOK, WriteFails PROVE TypeOK'
  OBVIOUS
<1>1. pos <= Len(out) /\ pc = "writing" /\ pc' = "throwing"
      /\ UNCHANGED <<fp, memory, files, now, run, lost>>
  BY DEF WriteFails
<1>2. buffered' \in Seq(Token)
  <2>1. CASE UNCHANGED buffered
    BY <2>1 DEF TypeOK
  <2>2. CASE buffered' = Append(buffered, Tokens(out[pos])[1])
    <3>1. Tokens(out[pos])[1] \in Token
      BY <1>1, NextFrame, TokensOfFrame
    <3>2. buffered \in Seq(Token)
      BY DEF TypeOK
    <3> QED BY <2>2, <3>1, <3>2, AppendProperties
  <2> QED BY <2>1, <2>2 DEF WriteFails
<1> QED BY <1>1, <1>2 DEF TypeOK, memory

\* feed() returns.
LEMMA FeedReturnType == TypeOK /\ FeedReturn => TypeOK'
BY DEF FeedReturn, TypeOK, memory

\* stdio empties its buffer.
LEMMA StdioFlushType == TypeOK /\ StdioFlush => TypeOK'
<1> SUFFICES ASSUME TypeOK, StdioFlush PROVE TypeOK'
  OBVIOUS
<1>1. fp /\ pc = "writing" /\ UNCHANGED <<pc, fp, memory, now, run, lost>>
  BY DEF StdioFlush
<1>2. files \in Seq(File) /\ files # <<>> /\ buffered \in Seq(Token)
  BY <1>1 DEF TypeOK
<1>3. PICK k \in 1..Len(buffered) : /\ files' = Flushed(buffered, k)
                                    /\ buffered' = SubSeq(buffered, k + 1, Len(buffered))
  BY DEF StdioFlush
<1>4. k \in 0..Len(buffered)
  BY <1>2, LenProperties
<1>5. files' \in Seq(File) /\ files' # <<>>
  BY <1>2, <1>3, <1>4, FlushedType
<1>6. buffered' \in Seq(Token)
  BY <1>2, <1>3, <1>4, Split
<1> QED BY <1>1, <1>5, <1>6 DEF TypeOK, memory

\* The recorder is closed, by main() or by its destructor.
LEMMA CloseType == TypeOK /\ Close => TypeOK'
<1> SUFFICES ASSUME TypeOK, Close PROVE TypeOK'
  OBVIOUS
<1>1. /\ buffered' = <<>> /\ fp' = FALSE /\ pc' = "down"
      /\ current_size' = IF fp THEN 0 ELSE current_size
      /\ UNCHANGED <<seq, file_start, out, pos, stats, prev, arrived, now, run>>
  BY DEF Close
<1>2. buffered' \in Seq(Token) /\ current_size' \in Nat
  BY <1>1, EmptySeq DEF TypeOK
<1>3. files' \in Seq(File) /\ lost' \in Nat
  <2>1. CASE fp
    <3>1. files \in Seq(File) /\ files # <<>> /\ buffered \in Seq(Token) /\ lost \in Nat
      BY <2>1 DEF TypeOK
    <3>2. PICK k \in FlushOutcomes(buffered) :
              /\ files' = Flushed(buffered, k)
              /\ lost' = IF pc = "idle" THEN lost + (Len(buffered) - k) ELSE lost
      BY <2>1 DEF Close
    <3>3. k \in 0..Len(buffered) /\ Len(buffered) \in Nat
      BY <3>1, FlushOutcomesType, LenProperties
    <3>4. files' \in Seq(File)
      BY <3>1, <3>2, <3>3, FlushedType
    <3>5. lost' \in Nat
      BY <3>1, <3>2, <3>3
    <3> QED BY <3>4, <3>5
  <2>2. CASE ~fp
    BY <2>2 DEF Close, TypeOK
  <2> QED BY <2>1, <2>2
<1> QED BY <1>1, <1>2, <1>3 DEF TypeOK

\* The process dies.
LEMMA CrashType == TypeOK /\ Crash => TypeOK'
<1> SUFFICES ASSUME TypeOK, Crash PROVE TypeOK'
  OBVIOUS
<1>1. buffered' \in Seq(Token)
  BY EmptySeq DEF Crash
<1> QED BY <1>1 DEF Crash, TypeOK, memory

\* Time passes.
LEMMA TickType == TypeOK /\ Tick => TypeOK'
BY DEF Tick, TypeOK, memory

\* Nothing happens.
LEMMA StutterType == TypeOK /\ UNCHANGED vars => TypeOK'
BY DEF TypeOK, vars, memory

\* Every step keeps the types.
LEMMA NextType == TypeOK /\ [Next]_vars => TypeOK'
<1> SUFFICES ASSUME TypeOK, [Next]_vars PROVE TypeOK'
  OBVIOUS
<1>1. CASE \E batch \in Batches, fs \in Drops : Synced(batch, fs)
  BY <1>1, SyncedType
<1> QED BY <1>1, ConstructType, FeedType, WriteFrameType, WriteFailsType, FeedReturnType,
           StdioFlushType, CloseType, CrashType, TickType, StutterType DEF Next

\* SbfRecorder's members and the directory keep their types, and feed() writes
\* only to an open file.
THEOREM TypeCorrect == Spec => []TypeOK
BY InitType, NextType, PTL DEF Spec
-----------------------------------------------------------------------------
(* What the steps that write do, in terms of Extends and Opens.            *)

\* open_new_file_() on the directory fs.
OpenEffect(fs, next) ==
  /\ seq' = seq + 1
  /\ \/ fp' = TRUE /\ Opens(fs, files') /\ current_size' = 0 /\ pc' = next
     \/ fp' = FALSE /\ files' = fs /\ pc' = "throwing"

\* open_new_file_() has that effect.
LEMMA OpenNewFileEffect ==
  ASSUME TypeOK, NEW fs \in Seq(File), NEW size, NEW next, OpenNewFile(fs, size, next)
  PROVE  OpenEffect(fs, next)
<1>1. seq \in Nat /\ now \in Nat /\ run \in Nat
  BY DEF TypeOK
<1>2. (fp' /\ Opens(fs, files')) \/ (~fp' /\ files' = fs)
  BY <1>1, OpenNewFileOpens
<1>3. seq' = seq + 1
  BY DEF OpenNewFile
<1>4. \/ fp' = TRUE /\ current_size' = 0 /\ pc' = next
      \/ fp' = FALSE /\ pc' = "throwing"
  BY DEF OpenNewFile
<1>5. \/ fp' = TRUE /\ Opens(fs, files') /\ current_size' = 0 /\ pc' = next
      \/ fp' = FALSE /\ files' = fs /\ pc' = "throwing"
  BY <1>2, <1>4, Zenon
<1> QED BY <1>3, <1>5 DEF OpenEffect

\* What a flush of b did, fs being the directory after it: k tokens of b went
\* to the open file, all of them unless flushing can fail.
Flush(fs, b, k) ==
  /\ b \in Seq(Token) /\ k \in 0..Len(b) /\ (~FlushFails => k = Len(b))
  /\ Extends(files, fs, SubSeq(b, 1, k))

\* write_frame_() puts f behind what is in the buffer ...
Buffers(f) ==
  /\ buffered' = buffered \o Tokens(f)
  /\ current_size' = current_size + f.length /\ current_size' < rotate_bytes
  /\ UNCHANGED <<pc, fp, seq, files, lost>>

\* ... and the file is rotated if it has become too large or too old.
Rotates(f) ==
  \E fs \in Seq(File), k \in Nat :
    /\ Flush(fs, buffered \o Tokens(f), k)
    /\ OpenEffect(fs, "writing")
    /\ buffered' = <<>>
    /\ lost' = lost + (Len(buffered \o Tokens(f)) - k)

\* One round of the loop of feed() does one of the two, and counts the frame.
LEMMA WriteFrameEffect ==
  ASSUME TypeOK, WriteFrame
  PROVE  /\ pc = "writing" /\ fp = TRUE /\ pos <= Len(out) /\ pos' = pos + 1
         /\ UNCHANGED <<out, arrived, now, run>>
         /\ out[pos] \in Frame
         /\ stats'.frames_written = stats.frames_written + 1
         /\ stats'.bytes_written = stats.bytes_written + out[pos].length
         /\ Buffers(out[pos]) \/ Rotates(out[pos])
<1> DEFINE f == out[pos]
           b == buffered \o Tokens(f)
           size == current_size + f.length
<1>1. /\ pc = "writing" /\ pos <= Len(out) /\ pos' = pos + 1
      /\ UNCHANGED <<out, prev, arrived, now, run>>
  BY DEF WriteFrame
<1>2. f \in Frame /\ f.length \in Nat /\ b \in Seq(Token)
  BY <1>1, NextFrame
<1>3. fp = TRUE /\ files # <<>> /\ files \in Seq(File) /\ stats \in StatsType
      /\ current_size \in Nat
  BY <1>1 DEF TypeOK, StatsType
<1>4. CASE ~RotationDue(size)
  <2>1. /\ buffered' = b /\ current_size' = size
        /\ stats' = Counted(f)
        /\ UNCHANGED <<pc, fp, seq, file_start, files, lost>>
    BY <1>4 DEF WriteFrame
  <2>2. size < rotate_bytes
    <3>1. size \in Nat /\ rotate_bytes \in Nat /\ ~(size >= rotate_bytes)
      BY <1>2, <1>3, <1>4, RecorderAssumption DEF RotationDue
    <3> QED BY <3>1
  <2>3. Buffers(f)
    BY <2>1, <2>2 DEF Buffers
  <2>4. /\ stats'.frames_written = stats.frames_written + 1
        /\ stats'.bytes_written = stats.bytes_written + f.length
    <3> HIDE DEF f
    <3> QED BY <1>2, <1>3, <2>1, CountedType
  <2> QED BY <1>1, <1>2, <1>3, <2>3, <2>4
<1>5. CASE RotationDue(size)
  <2>1. PICK k \in FlushOutcomes(b) :
              /\ OpenNewFile(Flushed(b, k), size, "writing")
              /\ stats' = [Counted(f) EXCEPT !.files_rotated = @ + 1]
              /\ buffered' = <<>>
              /\ lost' = lost + (Len(b) - k)
    BY <1>5 DEF WriteFrame
  <2>2. Rotates(f)
    <3> HIDE DEF b, size
    <3>1. k \in 0..Len(b) /\ Len(b) \in Nat /\ (~FlushFails => k = Len(b))
      BY <1>2, FlushOutcomesType, LenProperties
    <3>2. Flushed(b, k) \in Seq(File)
      BY <1>2, <1>3, <3>1, FlushedType
    <3>3. Extends(files, Flushed(b, k), SubSeq(b, 1, k))
      BY <1>2, <1>3, <3>1, FlushedExtends
    <3>4. OpenEffect(Flushed(b, k), "writing")
      BY <2>1, <3>2, OpenNewFileEffect
    <3>5. Flush(Flushed(b, k), b, k)
      BY <1>2, <3>1, <3>3 DEF Flush
    <3>6. k \in Nat
      BY <3>1
    <3> QED BY <2>1, <3>2, <3>4, <3>5, <3>6 DEF Rotates, b
  <2>3. /\ stats'.frames_written = stats.frames_written + 1
        /\ stats'.bytes_written = stats.bytes_written + f.length
    <3> HIDE DEF f
    <3> QED BY <1>2, <1>3, <2>1, CountedType
  <2> QED BY <1>1, <1>2, <1>3, <2>2, <2>3
<1> QED BY <1>4, <1>5

\* The oldest tokens of the buffer move to the open file.
LEMMA StdioFlushEffect ==
  ASSUME TypeOK, StdioFlush
  PROVE  /\ fp = TRUE /\ pc = "writing" /\ UNCHANGED <<pc, fp, memory, now, run, lost>>
         /\ \E k \in 0..Len(buffered) :
              /\ Extends(files, files', SubSeq(buffered, 1, k))
              /\ buffered' = SubSeq(buffered, k + 1, Len(buffered))
<1>1. fp = TRUE /\ pc = "writing" /\ UNCHANGED <<pc, fp, memory, now, run, lost>>
  BY DEF StdioFlush, TypeOK
<1>2. files \in Seq(File) /\ files # <<>> /\ buffered \in Seq(Token)
  BY <1>1 DEF TypeOK
<1>3. PICK k \in 1..Len(buffered) : /\ files' = Flushed(buffered, k)
                                    /\ buffered' = SubSeq(buffered, k + 1, Len(buffered))
  BY DEF StdioFlush
<1>4. k \in 0..Len(buffered)
  BY <1>2, LenProperties
<1>5. Extends(files, files', SubSeq(buffered, 1, k))
  BY <1>2, <1>3, <1>4, FlushedExtends
<1> QED BY <1>1, <1>3, <1>4, <1>5

\* close() flushes the open file, if there is one.
LEMMA CloseEffect ==
  ASSUME TypeOK, Close
  PROVE  /\ pc' = "down" /\ fp' = FALSE /\ buffered' = <<>>
         /\ UNCHANGED <<seq, out, pos, stats, arrived, now, run>>
         /\ \/ ~fp /\ files' = files
            \/ fp /\ \E k \in Nat : Flush(files', buffered, k)
<1>1. /\ pc' = "down" /\ fp' = FALSE /\ buffered' = <<>>
      /\ UNCHANGED <<seq, out, pos, stats, arrived, now, run>>
  BY DEF Close
<1>2. CASE ~fp
  BY <1>1, <1>2 DEF Close
<1>3. CASE fp
  <2>1. files \in Seq(File) /\ files # <<>> /\ buffered \in Seq(Token)
    BY <1>3 DEF TypeOK
  <2>2. PICK k \in FlushOutcomes(buffered) : files' = Flushed(buffered, k)
    BY <1>3 DEF Close
  <2>3. k \in 0..Len(buffered) /\ k \in Nat /\ (~FlushFails => k = Len(buffered))
    BY <2>1, FlushOutcomesType, LenProperties
  <2>4. Extends(files, files', SubSeq(buffered, 1, k))
    BY <2>1, <2>2, <2>3, FlushedExtends
  <2>5. Flush(files', buffered, k)
    BY <2>1, <2>3, <2>4 DEF Flush
  <2> QED BY <1>1, <1>3, <2>3, <2>5
<1> QED BY <1>2, <1>3

\* feed() opens a file if none is open.
LEMMA FeedEffect ==
  ASSUME TypeOK, Feed
  PROVE  /\ pc = "idle" /\ UNCHANGED <<out, pos, stats, arrived, buffered, now, run, lost>>
         /\ \/ fp = TRUE /\ pc' = "syncing" /\ UNCHANGED <<fp, seq, files, current_size>>
            \/ fp = FALSE /\ OpenEffect(files, "syncing")
<1>1. pc = "idle" /\ UNCHANGED <<out, pos, stats, arrived, buffered, now, run, lost>>
  BY DEF Feed
<1>2. CASE fp = TRUE
  BY <1>1, <1>2 DEF Feed
<1>3. CASE fp = FALSE
  <2>1. OpenNewFile(files, current_size, "syncing") /\ files \in Seq(File)
    BY <1>3 DEF Feed, TypeOK
  <2>2. OpenEffect(files, "syncing")
    BY <2>1, OpenNewFileEffect
  <2> QED BY <1>1, <1>3, <2>2
<1> QED BY <1>2, <1>3 DEF TypeOK

\* The steps that neither write nor open nor close a file.
Elsewhere ==
  /\ UNCHANGED <<fp, seq, files, run, current_size, lost>>
  /\ pc' = "down" <=> pc = "down"
  /\ pc' = "idle" /\ pc # "idle" => fp = TRUE
  /\ pc = "throwing" => pc' = "throwing"
  /\ now' >= now

\* These are all the other steps but Construct and Crash.
LEMMA ElsewhereSteps ==
  ASSUME TypeOK
  PROVE  /\ \A batch, fs : Synced(batch, fs) => Elsewhere /\ UNCHANGED buffered
            /\ pc = "syncing" /\ pc' = "writing"
         /\ WriteFails => Elsewhere /\ pc = "writing" /\ pc' = "throwing" /\ UNCHANGED memory
         /\ FeedReturn => Elsewhere /\ UNCHANGED buffered /\ pc = "writing" /\ pc' = "idle"
            /\ UNCHANGED memory
         /\ Tick => Elsewhere /\ UNCHANGED <<pc, buffered>> /\ UNCHANGED memory
         /\ UNCHANGED vars => Elsewhere /\ UNCHANGED <<pc, buffered>> /\ UNCHANGED memory
<1>1. now \in Nat /\ (pc = "writing" => fp = TRUE)
  BY DEF TypeOK
<1>2. \A batch, fs : Synced(batch, fs) => Elsewhere /\ UNCHANGED buffered /\ pc = "syncing"
      /\ pc' = "writing"
  BY <1>1 DEF Elsewhere, Synced
<1>3. WriteFails => Elsewhere /\ pc = "writing" /\ pc' = "throwing" /\ UNCHANGED memory
  BY <1>1 DEF Elsewhere, WriteFails, memory
<1>4. FeedReturn => Elsewhere /\ UNCHANGED buffered /\ pc = "writing" /\ pc' = "idle"
      /\ UNCHANGED memory
  BY <1>1 DEF Elsewhere, FeedReturn, memory
<1>5. Tick => Elsewhere /\ UNCHANGED <<pc, buffered>> /\ UNCHANGED memory
  BY <1>1 DEF Elsewhere, Tick, memory
<1>6. UNCHANGED vars => Elsewhere /\ UNCHANGED <<pc, buffered>> /\ UNCHANGED memory
  BY <1>1 DEF Elsewhere, vars, memory
<1> QED BY <1>2, <1>3, <1>4, <1>5, <1>6
-----------------------------------------------------------------------------
(* Which file belongs to which run.                                        *)

\* The directory part of the invariant over indices instead of DOMAIN files.
LEMMA DirectoryIndices ==
  ASSUME TypeOK
  PROVE  /\ Len(files) \in Nat /\ DOMAIN files = 1..Len(files)
         /\ \A i \in 1..Len(files) : files[i] \in File /\ files[i].run \in Nat
                                     /\ files[i].name.seq \in Nat /\ files[i].name.time \in Nat
                                     /\ files[i].content \in Seq(Token)
         /\ fp => Len(files) \in 1..Len(files)
         /\ run \in Nat /\ seq \in Nat /\ now \in Nat
<1>1. files \in Seq(File) /\ run \in Nat /\ seq \in Nat /\ now \in Nat /\ (fp => files # <<>>)
  BY DEF TypeOK
<1>2. Len(files) \in Nat /\ DOMAIN files = 1..Len(files) /\ \A i \in 1..Len(files) :
      files[i] \in File
  BY <1>1, LenProperties, ElementOfSeq
<1>3. fp => Len(files) # 0
  BY <1>1, EmptySeq
<1> QED BY <1>1, <1>2, <1>3, FileFields

\* Opening a file: the new one is this run's, with a number of its own.
LEMMA OpenDirectory ==
  ASSUME TypeOK, TypeOK', NEW fs \in Seq(File), NEW next, OpenEffect(fs, next), next # "idle",
         UNCHANGED run,
         \A i \in 1..Len(fs) : fs[i].run \in Nat /\ fs[i].name.seq \in Nat /\ fs[i].run <= run
                               /\ (fs[i].run = run => fs[i].name.seq <= seq),
         buffered' = <<>>
  PROVE  Directory'
<1>1. seq' = seq + 1 /\ seq \in Nat /\ run \in Nat
  BY DEF OpenEffect, TypeOK
<1>2. /\ Len(files') \in Nat /\ DOMAIN files' = 1..Len(files')
  <2>1. files' \in Seq(File)
    BY DEF TypeOK
  <2> QED BY <2>1, LenProperties
<1>3. CASE fp' = TRUE /\ Opens(fs, files') /\ pc' = next
  <2>1. /\ Len(files') = Len(fs) + 1 /\ Len(fs) \in Nat
        /\ files'[Len(fs) + 1].run = run /\ files'[Len(fs) + 1].name = FileName
        /\ \A i \in 1..Len(fs) : files'[i].name = fs[i].name /\ files'[i].run = fs[i].run
    BY <1>3 DEF Opens
  <2>2. files'[Len(fs) + 1].name.seq = seq + 1
    BY <2>1 DEF FileName
  <2>3. \A i \in 1..Len(files') : files'[i].run <= run
        /\ (files'[i].run = run => files'[i].name.seq <= seq + 1)
    <3> SUFFICES ASSUME NEW i \in 1..Len(files')
                 PROVE  files'[i].run <= run
                        /\ (files'[i].run = run => files'[i].name.seq <= seq + 1)
      OBVIOUS
    <3>1. CASE i = Len(fs) + 1
      BY <1>1, <2>1, <2>2, <3>1
    <3>2. CASE i \in 1..Len(fs)
      BY <1>1, <2>1, <3>2
    <3> QED BY <2>1, <3>1, <3>2
  <2> QED BY <1>1, <1>2, <1>3, <2>1, <2>3 DEF Directory
<1>4. CASE fp' = FALSE /\ files' = fs /\ pc' = "throwing"
  <2>1. \A i \in 1..Len(files') : files'[i].run <= run
        /\ (files'[i].run = run => files'[i].name.seq <= seq + 1)
    BY <1>1, <1>4
  <2> QED BY <1>1, <1>2, <1>4, <2>1 DEF Directory
<1> QED BY <1>3, <1>4 DEF OpenEffect

\* Flushing changes neither names nor runs.
LEMMA FlushDirectory ==
  ASSUME TypeOK, TypeOK', Directory, NEW t, Extends(files, files', t), UNCHANGED <<run, seq>>,
         \/ fp' = TRUE /\ fp = TRUE /\ pc # "down"
         \/ fp' = FALSE /\ buffered' = <<>> /\ pc' = "down"
  PROVE  Directory'
<1>1. DOMAIN files' = 1..Len(files') /\ DOMAIN files = 1..Len(files)
  <2>1. files \in Seq(File) /\ files' \in Seq(File)
    BY DEF TypeOK
  <2> QED BY <2>1, LenProperties
<1>2. /\ Len(files') = Len(files) /\ Len(files) \in 1..Len(files)
      /\ \A i \in 1..Len(files) : files'[i].name = files[i].name /\ files'[i].run = files[i].run
  BY DEF Extends
<1> QED BY <1>1, <1>2 DEF Directory

\* Every step keeps Directory.
LEMMA DirectoryStep == TypeOK /\ TypeOK' /\ Directory /\ [Next]_vars => Directory'
<1> SUFFICES ASSUME TypeOK, TypeOK', Directory, [Next]_vars PROVE Directory'
  OBVIOUS
<1>0. /\ DOMAIN files = 1..Len(files) /\ Len(files) \in Nat
      /\ \A i \in 1..Len(files) : files[i].run \in Nat /\ files[i].name.seq \in Nat
      /\ run \in Nat /\ seq \in Nat /\ files \in Seq(File) /\ fp \in BOOLEAN
  BY DirectoryIndices DEF TypeOK
<1>1. CASE Construct
  <2>1. /\ pc = "down" /\ pc' = "idle" /\ run' = run + 1 /\ seq' = 0
        /\ UNCHANGED <<fp, buffered, files>>
    BY <1>1 DEF Construct
  <2>2. fp = FALSE
    BY <2>1 DEF TypeOK
  <2>3. \A i \in 1..Len(files) : files[i].run <= run /\ files[i].run # run + 1
        /\ files[i].run <= run + 1
    BY <1>0 DEF Directory
  <2> QED BY <1>0, <2>1, <2>2, <2>3 DEF Directory
<1>2. CASE Feed
  <2>1. CASE fp = TRUE /\ pc' = "syncing" /\ UNCHANGED <<fp, seq, files, current_size>>
    BY <1>2, <2>1, FeedEffect DEF Directory
  <2>2. CASE fp = FALSE /\ OpenEffect(files, "syncing")
    <3>1. buffered' = <<>> /\ UNCHANGED run
      BY <1>2, <2>2, FeedEffect DEF Directory
    <3>2. \A i \in 1..Len(files) : files[i].run \in Nat /\ files[i].name.seq \in Nat
          /\ files[i].run <= run
                               /\ (files[i].run = run => files[i].name.seq <= seq)
      BY <1>0, <1>2, FeedEffect DEF Directory
    <3> QED BY <1>0, <2>2, <3>1, <3>2, OpenDirectory
  <2> QED BY <1>2, <2>1, <2>2, FeedEffect
<1>3. CASE WriteFrame
  <2>0. pc = "writing" /\ fp = TRUE /\ UNCHANGED run
    BY <1>3, WriteFrameEffect
  <2>1. CASE Buffers(out[pos])
    BY <2>0, <2>1 DEF Buffers, Directory
  <2>2. CASE Rotates(out[pos])
    <3>1. PICK fs \in Seq(File), k \in Nat :
            /\ Flush(fs, buffered \o Tokens(out[pos]), k)
            /\ OpenEffect(fs, "writing")
            /\ buffered' = <<>>
      BY <2>2 DEF Rotates
    <3>2. /\ Len(fs) = Len(files)
          /\ \A i \in 1..Len(files) : fs[i].name = files[i].name /\ fs[i].run = files[i].run
      BY <3>1 DEF Flush, Extends
    <3>3. \A i \in 1..Len(fs) : fs[i].run \in Nat /\ fs[i].name.seq \in Nat /\ fs[i].run <= run
                               /\ (fs[i].run = run => fs[i].name.seq <= seq)
      BY <1>0, <2>0, <3>2 DEF Directory
    <3> QED BY <2>0, <3>1, <3>3, OpenDirectory
  <2> QED BY <1>3, <2>1, <2>2, WriteFrameEffect
<1>4. CASE StdioFlush
  <2>1. /\ fp' = TRUE /\ fp = TRUE /\ pc # "down" /\ UNCHANGED <<run, seq>>
        /\ \E t : Extends(files, files', t)
    BY <1>4, StdioFlushEffect DEF memory
  <2> QED BY <2>1, FlushDirectory
<1>5. CASE Close
  <2>1. fp' = FALSE /\ buffered' = <<>> /\ pc' = "down" /\ UNCHANGED <<run, seq>>
    BY <1>5, CloseEffect
  <2>2. CASE files' = files
    BY <2>1, <2>2 DEF Directory
  <2>3. CASE \E k \in Nat : Flush(files', buffered, k)
    <3>1. \E t : Extends(files, files', t)
      BY <2>3 DEF Flush
    <3> QED BY <2>1, <3>1, FlushDirectory
  <2> QED BY <1>5, <2>2, <2>3, CloseEffect
<1>6. CASE Crash
  BY <1>6 DEF Crash, Directory, memory
<1>7. CASE Elsewhere /\ UNCHANGED buffered
  BY <1>0, <1>7 DEF Elsewhere, Directory
<1>8. CASE WriteFails
  <2>1. Elsewhere /\ pc = "writing" /\ pc' = "throwing" /\ fp = TRUE
    BY <1>8, ElsewhereSteps DEF TypeOK
  <2> QED BY <2>1 DEF Elsewhere, Directory
<1>9. (\E batch \in Batches, fs \in Drops : Synced(batch, fs)) => Elsewhere
      /\ UNCHANGED buffered
  BY ElsewhereSteps
<1> QED BY <1>1, <1>2, <1>3, <1>4, <1>5, <1>6, <1>7, <1>8, <1>9, ElsewhereSteps DEF Next

\* At first the directory is empty.
LEMMA InitDirectory == Init => Directory
BY EmptySeq DEF Init, Directory

\* Types and the directory: what every further part of the invariant rests on.
DInv == TypeOK /\ Directory

\* Which run a file belongs to is always as Directory says.
LEMMA DirectoryInvariant == Spec => []DInv
<1>1. Init => DInv
  BY InitType, InitDirectory DEF DInv
<1>2. DInv /\ [Next]_vars => DInv'
  BY NextType, DirectoryStep DEF DInv
<1> QED BY <1>1, <1>2, PTL DEF Spec

-----------------------------------------------------------------------------
(* Earlier runs.                                                           *)

\* At first there is no earlier run.
LEMMA InitEarlier == Init => EarlierSecond
BY DEF Init, EarlierSecond

\* A run that starts in a later second than the last file was opened in, goes
\* on in a later second than any file of an earlier run was.
LEMMA EarlierSecondStep ==
  MinDowntime >= 1 /\ DInv /\ DInv' /\ EarlierSecond /\ [Next]_vars => EarlierSecond'
<1> SUFFICES ASSUME MinDowntime >= 1, DInv, DInv', EarlierSecond, [Next]_vars PROVE EarlierSecond'
  OBVIOUS
<1> USE DEF DInv
<1>0. /\ DOMAIN files = 1..Len(files) /\ Len(files) \in Nat
      /\ \A i \in 1..Len(files) : files[i].run \in Nat /\ files[i].name.time \in Nat
      /\ run \in Nat /\ seq \in Nat /\ now \in Nat
  BY DirectoryIndices
<1> HIDE DEF DInv
<1>1. DOMAIN files' = 1..Len(files')
  <2>1. files' \in Seq(File)
    BY DEF DInv, TypeOK
  <2> QED BY <2>1, LenProperties
<1>2. CASE Construct
  <2>1. \A i \in 1..Len(files) : now >= files[i].name.time + MinDowntime
    BY <1>0, <1>2 DEF Construct
  <2>2. UNCHANGED <<files, now>>
    BY <1>2 DEF Construct
  <2>3. MinDowntime \in Nat
    BY RecorderAssumption
  <2>4. \A i \in 1..Len(files) : files[i].name.time < now
    BY <1>0, <2>1, <2>3
  <2> QED BY <1>1, <2>2, <2>4 DEF EarlierSecond
<1>3. ASSUME NEW fs, NEW next, OpenEffect(fs, next), UNCHANGED <<now, run>>, pc # "down",
             Len(fs) = Len(files),
             \A i \in 1..Len(files) : fs[i].name = files[i].name /\ fs[i].run = files[i].run
      PROVE  EarlierSecond'
  <2>1. \A i \in 1..Len(fs) : fs[i].run # run => fs[i].name.time < now
    BY <1>0, <1>3 DEF EarlierSecond
  <2>2. CASE fp' = TRUE /\ Opens(fs, files')
    <3>1. /\ Len(files') = Len(fs) + 1 /\ Len(fs) \in Nat
          /\ files'[Len(fs) + 1].run = run
          /\ \A i \in 1..Len(fs) : files'[i].name = fs[i].name /\ files'[i].run = fs[i].run
      BY <2>2 DEF Opens
    <3>2. ASSUME NEW i \in 1..Len(files'), files'[i].run # run' PROVE files'[i].name.time < now'
      <4>1. i \in 1..Len(fs)
        BY <1>3, <3>1, <3>2
      <4>2. files'[i].name = fs[i].name /\ files'[i].run = fs[i].run
        BY <3>1, <4>1
      <4> QED BY <1>3, <2>1, <3>2, <4>1, <4>2
    <3> QED BY <1>1, <3>2 DEF EarlierSecond
  <2>3. CASE files' = fs
    BY <1>1, <1>3, <2>1, <2>3 DEF EarlierSecond
  <2> QED BY <1>3, <2>2, <2>3 DEF OpenEffect
<1>4. CASE Feed
  <2>1. CASE UNCHANGED <<files, run, now>> /\ pc # "down"
    BY <2>1 DEF EarlierSecond
  <2> QED BY <1>3, <1>4, <2>1, FeedEffect DEF DInv
<1>5. CASE WriteFrame
  <2>0. pc = "writing" /\ UNCHANGED <<run, now>>
    BY <1>5, WriteFrameEffect DEF DInv
  <2>1. CASE Buffers(out[pos])
    BY <2>0, <2>1 DEF Buffers, EarlierSecond
  <2>2. CASE Rotates(out[pos])
    <3>1. PICK fs \in Seq(File), k \in Nat :
            Flush(fs, buffered \o Tokens(out[pos]), k) /\ OpenEffect(fs, "writing")
      BY <2>2 DEF Rotates
    <3>2. /\ Len(fs) = Len(files)
          /\ \A i \in 1..Len(files) : fs[i].name = files[i].name /\ fs[i].run = files[i].run
      BY <3>1 DEF Flush, Extends
    <3> QED BY <1>3, <2>0, <3>1, <3>2
  <2> QED BY <1>5, <2>1, <2>2, WriteFrameEffect DEF DInv
<1>6. CASE StdioFlush
  <2>1. /\ pc # "down" /\ UNCHANGED <<run, now>>
        /\ \E t : Extends(files, files', t)
    BY <1>6, StdioFlushEffect DEF DInv
  <2>2. /\ Len(files') = Len(files)
        /\ \A i \in 1..Len(files) : files'[i].name = files[i].name
           /\ files'[i].run = files[i].run
    BY <2>1 DEF Extends
  <2> QED BY <1>0, <1>1, <2>1, <2>2 DEF EarlierSecond
<1>7. CASE Close
  BY <1>7, CloseEffect DEF EarlierSecond, DInv
<1>8. CASE Crash
  BY <1>8 DEF Crash, EarlierSecond
<1>9. CASE Elsewhere
  <2>1. \A i \in 1..Len(files) : files[i].name.time < now => files[i].name.time < now'
    <3>1. now' >= now /\ now' \in Nat
      BY <1>9 DEF Elsewhere, DInv, TypeOK
    <3> QED BY <1>0, <3>1
  <2> QED BY <1>0, <1>1, <1>9, <2>1 DEF Elsewhere, EarlierSecond
<1>10. (\E batch \in Batches, fs \in Drops : Synced(batch, fs)) => Elsewhere
  BY ElsewhereSteps DEF DInv
<1> QED BY <1>2, <1>4, <1>5, <1>6, <1>7, <1>8, <1>9, <1>10, ElsewhereSteps DEF Next, DInv

\* One step of EarlierRunsKept.
LEMMA KeptStep ==
  MinDowntime >= 1 /\ DInv /\ EarlierSecond /\ [Next]_vars =>
    \A i \in DOMAIN files : files[i].run # run' => files'[i] = files[i]
<1> SUFFICES ASSUME MinDowntime >= 1, DInv, EarlierSecond, [Next]_vars,
                    NEW i \in DOMAIN files, files[i].run # run'
             PROVE  files'[i] = files[i]
  OBVIOUS
<1>0. /\ i \in 1..Len(files) /\ Len(files) \in Nat /\ DOMAIN files = 1..Len(files)
      /\ files[i].name.time \in Nat /\ now \in Nat
  BY DirectoryIndices DEF DInv
<1>1. ASSUME NEW fs, NEW t, Extends(files, fs, t), UNCHANGED run, fp = TRUE PROVE fs[i] = files[i]
  <2>1. files[Len(files)].run = run
    BY <1>1 DEF DInv, Directory
  <2>2. i # Len(files)
    BY <1>1, <2>1
  <2>3. i \in 1..(Len(files) - 1)
    BY <1>0, <2>2
  <2> QED BY <1>1, <2>3 DEF Extends
<1>2. ASSUME NEW fs, NEW next, OpenEffect(fs, next), UNCHANGED <<now, run>>, pc # "down",
             Len(fs) = Len(files), fs[i] = files[i]
      PROVE  files'[i] = files[i]
  <2>1. files[i].name.time < now
    BY <1>0, <1>2 DEF EarlierSecond
  <2>2. fs[i].name # FileName
    <3>1. FileName.time = now
      BY DEF FileName
    <3> QED BY <1>0, <1>2, <2>1, <3>1
  <2>3. CASE Opens(fs, files')
    BY <1>0, <1>2, <2>2, <2>3 DEF Opens
  <2> QED BY <1>2, <2>3 DEF OpenEffect
<1>3. CASE Feed
  BY <1>2, <1>3, FeedEffect DEF DInv
<1>4. CASE WriteFrame
  <2>0. pc = "writing" /\ fp = TRUE /\ UNCHANGED <<run, now>>
    BY <1>4, WriteFrameEffect DEF DInv
  <2>1. CASE Buffers(out[pos])
    BY <2>1 DEF Buffers
  <2>2. CASE Rotates(out[pos])
    <3>1. PICK fs \in Seq(File), k \in Nat :
            Flush(fs, buffered \o Tokens(out[pos]), k) /\ OpenEffect(fs, "writing")
      BY <2>2 DEF Rotates
    <3>2. Len(fs) = Len(files) /\ \E t : Extends(files, fs, t)
      BY <3>1 DEF Flush, Extends
    <3>3. fs[i] = files[i]
      BY <1>1, <2>0, <3>2
    <3> QED BY <1>2, <2>0, <3>1, <3>2, <3>3
  <2> QED BY <1>4, <2>1, <2>2, WriteFrameEffect DEF DInv
<1>5. CASE StdioFlush
  <2>1. fp = TRUE /\ UNCHANGED run /\ \E t : Extends(files, files', t)
    BY <1>5, StdioFlushEffect DEF DInv
  <2> QED BY <1>1, <2>1
<1>6. CASE Close
  <2>1. files' = files \/ (fp /\ UNCHANGED run /\ \E t : Extends(files, files', t))
    BY <1>6, CloseEffect DEF DInv, Flush
  <2>2. fp \in BOOLEAN
    BY DEF DInv, TypeOK
  <2> QED BY <1>1, <2>1, <2>2
<1>7. CASE UNCHANGED files
  BY <1>7
<1>8. (\/ Construct \/ (\E batch \in Batches, fs \in Drops : Synced(batch, fs)) \/ WriteFails
       \/ FeedReturn \/ Crash \/ Tick \/ UNCHANGED vars) => UNCHANGED files
  BY DEF Construct, Synced, WriteFails, FeedReturn, Crash, Tick, vars
<1> QED BY <1>3, <1>4, <1>5, <1>6, <1>7, <1>8 DEF Next

\* A run never touches what earlier runs recorded, provided that a driver that
\* is started again opens its first file at least one second after the last
\* file was opened.  open_new_file_() truncates an existing file, so this is
\* what the time in the file's name is for.
THEOREM EarlierKept == MinDowntime >= 1 => (Spec => EarlierRunsKept)
<1> SUFFICES ASSUME MinDowntime >= 1 PROVE Spec => EarlierRunsKept
  OBVIOUS
<1> DEFINE K == DInv /\ EarlierSecond
<1>1. Init => K
  BY InitType, InitDirectory, InitEarlier DEF DInv
<1>2. K /\ [Next]_vars => K'
  BY NextType, DirectoryStep, EarlierSecondStep DEF DInv
<1>3. K /\ [Next]_vars => (\A i \in DOMAIN files : files[i].run # run' => files'[i] = files[i]) 
  BY KeptStep
<1> QED BY <1>1, <1>2, <1>3, PTL DEF Spec, EarlierRunsKept
-----------------------------------------------------------------------------
(* Rotation.                                                               *)

\* Whole frames stay whole when one more is written behind them.
LEMMA WholeConcat ==
  ASSUME NEW x \in Seq(Token), NEW f \in Frame, Whole(x)
  PROVE  Whole(x \o Tokens(f))
<1>1. PICK h \in Token :
           /\ h.part = "header" /\ h.length = f.length
           /\ \/ f.length = HeaderSize /\ Tokens(f) = <<h>>
              \/ \E b \in Token :
                   /\ f.length > HeaderSize /\ Tokens(f) = <<h, b>>
                   /\ b = [h EXCEPT !.part = "body"] /\ h = [b EXCEPT !.part = "header"]
                   /\ b.part = "body"
  BY TokensOfFrame
<1>2. /\ Len(x) \in Nat /\ DOMAIN x = 1..Len(x)
      /\ \A i \in 1..Len(x) : x[i] \in Token
  BY LenProperties, ElementOfSeq
<1>3. f.length \in Nat /\ HeaderSize \in Nat
  BY RecorderAssumption DEF Frame, HeaderSize
<1> DEFINE n == Len(x)
<1>4. CASE f.length = HeaderSize /\ Tokens(f) = <<h>>
  <2> DEFINE y == x \o <<h>>
  <2>1. <<h>> \in Seq(Token) /\ Len(<<h>>) = 1 /\ <<h>>[1] = h
    OBVIOUS
  <2>2. y \in Seq(Token) /\ Len(y) = n + 1 /\ (\A i \in 1..n : y[i] = x[i]) /\ y[n + 1] = h
    BY <1>2, <2>1, ConcatProperties
  <2> HIDE DEF y
  <2>3. DOMAIN y = 1..(n + 1)
    BY <2>2, LenProperties
  <2>4. Whole(y)
    <3> SUFFICES ASSUME NEW i \in 1..(n + 1)
                 PROVE /\ y[i].part = "header" /\ y[i].length > HeaderSize =>
                            i < n + 1 /\ y[i + 1] = [y[i] EXCEPT !.part = "body"]
                       /\ y[i].part = "body" =>
                            i > 1 /\ y[i - 1] = [y[i] EXCEPT !.part = "header"]
      BY <2>2, <2>3 DEF Whole
    <3>1. CASE i = n + 1
      BY <1>1, <1>3, <1>4, <2>2, <3>1
    <3>2. CASE i \in 1..n
      <4>1. /\ x[i].part = "header" /\ x[i].length > HeaderSize =>
                 i < n /\ x[i + 1] = [x[i] EXCEPT !.part = "body"]
            /\ x[i].part = "body" =>
                 i > 1 /\ x[i - 1] = [x[i] EXCEPT !.part = "header"]
        BY <1>2, <3>2 DEF Whole
      <4>2. y[i] = x[i] /\ (i < n => y[i + 1] = x[i + 1]) /\ (i > 1 => y[i - 1] = x[i - 1])
            /\ (i < n => i < n + 1)
        BY <1>2, <2>2, <3>2
      <4> QED BY <4>1, <4>2
    <3> QED BY <1>2, <3>1, <3>2
  <2> QED BY <1>4, <2>4 DEF y
<1>5. ASSUME NEW b \in Token, f.length > HeaderSize, Tokens(f) = <<h, b>>,
             b = [h EXCEPT !.part = "body"], h = [b EXCEPT !.part = "header"], b.part = "body"
      PROVE  Whole(x \o Tokens(f))
  <2> DEFINE y == x \o <<h, b>>
  <2>1. <<h, b>> \in Seq(Token) /\ Len(<<h, b>>) = 2 /\ <<h, b>>[1] = h /\ <<h, b>>[2] = b
    OBVIOUS
  <2>2. y \in Seq(Token) /\ Len(y) = n + 2 /\ (\A i \in 1..n : y[i] = x[i])
        /\ y[n + 1] = h /\ y[n + 2] = b
    BY <1>2, <2>1, ConcatProperties
  <2> HIDE DEF y
  <2>3. DOMAIN y = 1..(n + 2)
    BY <2>2, LenProperties
  <2>4. Whole(y)
    <3> SUFFICES ASSUME NEW i \in 1..(n + 2)
                 PROVE /\ y[i].part = "header" /\ y[i].length > HeaderSize =>
                            i < n + 2 /\ y[i + 1] = [y[i] EXCEPT !.part = "body"]
                       /\ y[i].part = "body" =>
                            i > 1 /\ y[i - 1] = [y[i] EXCEPT !.part = "header"]
      BY <2>2, <2>3 DEF Whole
    <3>1. CASE i = n + 1
      <4>1. i < n + 2 /\ i + 1 = n + 2 /\ y[i] = h
        BY <1>2, <2>2, <3>1
      <4>2. y[i + 1] = b
        BY <2>2, <4>1
      <4> QED BY <1>1, <1>5, <4>1, <4>2
    <3>2. CASE i = n + 2
      <4>1. i > 1 /\ i - 1 = n + 1 /\ y[i] = b
        BY <1>2, <2>2, <3>2
      <4>2. y[i - 1] = h
        BY <2>2, <4>1
      <4> QED BY <1>1, <1>5, <4>1, <4>2
    <3>3. CASE i \in 1..n
      <4>1. /\ x[i].part = "header" /\ x[i].length > HeaderSize =>
                 i < n /\ x[i + 1] = [x[i] EXCEPT !.part = "body"]
            /\ x[i].part = "body" =>
                 i > 1 /\ x[i - 1] = [x[i] EXCEPT !.part = "header"]
        BY <1>2, <3>3 DEF Whole
      <4>2. y[i] = x[i] /\ (i < n => y[i + 1] = x[i + 1]) /\ (i > 1 => y[i - 1] = x[i - 1])
            /\ (i < n => i < n + 2)
        BY <1>2, <2>2, <3>3
      <4> QED BY <4>1, <4>2
    <3> QED BY <1>2, <3>1, <3>2, <3>3
  <2> QED BY <1>5, <2>4 DEF y
<1> QED BY <1>1, <1>4, <1>5

\* An empty file holds whole frames.
LEMMA WholeEmpty == Whole(<<>>)
<1>1. DOMAIN <<>> = {}
  OBVIOUS
<1> QED BY <1>1 DEF Whole

\* RotationNeverTears of a directory.
NoTear(fs) ==
  \A i, j \in 1..Len(fs) : i < j /\ fs[i].run = fs[j].run => Whole(fs[i].content)

\* Writing to the last file tears none that was rotated away from.
LEMMA NoTearExtends ==
  ASSUME NEW fs, NEW gs, NEW t, Extends(fs, gs, t), NoTear(fs)
  PROVE  NoTear(gs)
<1> SUFFICES ASSUME NEW i \in 1..Len(gs), NEW j \in 1..Len(gs), i < j, gs[i].run = gs[j].run
             PROVE  Whole(gs[i].content)
  BY DEF NoTear
<1>1. /\ Len(gs) = Len(fs) /\ Len(fs) \in Nat
      /\ \A k \in 1..Len(fs) : gs[k].run = fs[k].run
      /\ \A k \in 1..(Len(fs) - 1) : gs[k] = fs[k]
  BY DEF Extends
<1>2. i \in 1..(Len(fs) - 1) /\ i \in 1..Len(fs) /\ j \in 1..Len(fs)
  BY <1>1
<1>3. Whole(fs[i].content)
  BY <1>1, <1>2 DEF NoTear
<1> QED BY <1>1, <1>2, <1>3

\* Opening a file tears none if this run's files are whole.
LEMMA NoTearOpens ==
  ASSUME NEW fs, NEW gs, Opens(fs, gs), NoTear(fs),
         \A i \in 1..Len(fs) : fs[i].run = run => Whole(fs[i].content)
  PROVE  NoTear(gs)
<1> SUFFICES ASSUME NEW i \in 1..Len(gs), NEW j \in 1..Len(gs), i < j, gs[i].run = gs[j].run
             PROVE  Whole(gs[i].content)
  BY DEF NoTear
<1>1. /\ Len(gs) = Len(fs) + 1 /\ Len(fs) \in Nat /\ gs[Len(fs) + 1].run = run
      /\ \A k \in 1..Len(fs) : gs[k].run = fs[k].run /\ (gs[k] = fs[k] \/ gs[k].content = <<>>)
  BY DEF Opens
<1>2. i \in 1..Len(fs) /\ (j \in 1..Len(fs) \/ j = Len(fs) + 1)
  BY <1>1, SMTT(20)
<1>3. Whole(fs[i].content)
  <2>1. CASE j = Len(fs) + 1
    BY <1>1, <1>2, <2>1
  <2>2. CASE j \in 1..Len(fs)
    BY <1>1, <1>2, <2>2 DEF NoTear
  <2> QED BY <1>2, <2>1, <2>2
<1> QED BY <1>1, <1>2, <1>3, WholeEmpty

\* The open file after a flush of k tokens of its buffer, and after all of it.
LEMMA CurrentAfterFlush ==
  ASSUME DInv, fp, NEW fs, NEW b \in Seq(Token), NEW k \in 0..Len(b),
         Extends(files, fs, SubSeq(b, 1, k))
  PROVE  /\ Len(fs) = Len(files)
         /\ fs[Len(fs)].content \o SubSeq(b, k + 1, Len(b)) = files[Len(files)].content \o b
         /\ k = Len(b) => fs[Len(fs)].content = files[Len(files)].content \o b
<1>1. PICK c \in Seq(Token) : c = files[Len(files)].content
  BY DirectoryIndices DEF DInv
<1>2. PICK p \in Seq(Token), q \in Seq(Token) :
        p = SubSeq(b, 1, k) /\ q = SubSeq(b, k + 1, Len(b)) /\ p \o q = b
        /\ (k = Len(b) => p = b)
  BY Split
<1>3. Len(fs) = Len(files) /\ fs[Len(fs)].content = c \o p
  BY <1>1, <1>2 DEF Extends
<1>4. (c \o p) \o q = c \o (p \o q)
  BY ConcatAssociative, SMTT(20)
<1> QED BY <1>1, <1>2, <1>3, <1>4

\* What is buffered next comes behind what the open file will hold.
LEMMA CurrentType ==
  ASSUME DInv, fp
  PROVE  /\ files[Len(files)].content \in Seq(Token) /\ buffered \in Seq(Token)
         /\ Current \in Seq(Token)
         /\ \A s \in Seq(Token) : Current \o s = files[Len(files)].content \o (buffered \o s)
<1>1. PICK c \in Seq(Token) : c = files[Len(files)].content
  BY DirectoryIndices DEF DInv
<1>2. buffered \in Seq(Token)
  BY DEF DInv, TypeOK
<1>3. \A s \in Seq(Token) : (c \o buffered) \o s = c \o (buffered \o s)
  BY <1>2, ConcatAssociative
<1>4. c \o buffered \in Seq(Token)
  BY <1>2, ConcatProperties
<1> QED BY <1>1, <1>2, <1>3, <1>4 DEF Current

\* What a step has to establish about rotated files and the open one.
TornStepGoal == NoTear(files') /\ (fp' = TRUE /\ pc' # "throwing" => Whole(Current'))

\* Every step establishes it.
LEMMA TornStep ==
  DInv /\ DInv' /\ NoTear(files) /\ CurrentWhole /\ ~FlushFails /\ [Next]_vars => TornStepGoal
<1> SUFFICES ASSUME DInv, DInv', NoTear(files), CurrentWhole, ~FlushFails, [Next]_vars
             PROVE  TornStepGoal
  OBVIOUS
<1>0. /\ Len(files) \in Nat /\ DOMAIN files = 1..Len(files)
         /\ (fp => Len(files) \in 1..Len(files))
      /\ fp \in BOOLEAN
  BY DirectoryIndices DEF DInv, TypeOK
<1>00. fp = TRUE /\ pc # "throwing" => Whole(Current)
  BY DEF CurrentWhole
\* Opening a file: it is empty.
<1>1. ASSUME NEW fs, NEW next, OpenEffect(fs, next), NoTear(fs), buffered' = <<>>,
             \A i \in 1..Len(fs) : fs[i].run = run => Whole(fs[i].content)
      PROVE  TornStepGoal
  <2>1. CASE fp' = TRUE /\ Opens(fs, files')
    <3>1. NoTear(files')
      BY <1>1, <2>1, NoTearOpens
    <3>2. files'[Len(files')].content = <<>>
      BY <2>1 DEF Opens
    <3>3. Current' = <<>>
      <4>1. <<>> \o <<>> = <<>>
        BY EmptySeq, ConcatEmptySeq
      <4> QED BY <1>1, <3>2, <4>1 DEF Current
    <3> QED BY <3>1, <3>3, WholeEmpty DEF TornStepGoal
  <2>2. CASE fp' = FALSE /\ files' = fs
    BY <1>1, <2>2 DEF TornStepGoal
  <2> QED BY <1>1, <2>1, <2>2 DEF OpenEffect
<1>2. CASE UNCHANGED <<fp, files, buffered>>
           /\ (fp = FALSE \/ (pc # "throwing" \/ pc' = "throwing"))
  BY <1>00, <1>2 DEF TornStepGoal, Current
<1>3. CASE Feed
  <2>1. CASE fp = FALSE /\ OpenEffect(files, "syncing")
    <3>1. buffered' = <<>> /\ pc = "idle"
      BY <1>3, <2>1, FeedEffect DEF DInv, Directory
    <3>2. \A i \in 1..Len(files) : files[i].run # run
      BY <1>0, <2>1, <3>1 DEF DInv, Directory
    <3> QED BY <1>1, <2>1, <3>1, <3>2
  <2>2. CASE fp = TRUE /\ UNCHANGED <<fp, files>>
    <3>1. pc = "idle" /\ UNCHANGED buffered
      BY <1>3, FeedEffect DEF DInv
    <3> QED BY <1>2, <2>2, <3>1
  <2> QED BY <1>3, <2>1, <2>2, FeedEffect DEF DInv
<1>4. CASE WriteFrame
  <2>0. pc = "writing" /\ fp = TRUE /\ UNCHANGED run /\ out[pos] \in Frame
    BY <1>4, WriteFrameEffect DEF DInv
  <2>1. PICK b \in Seq(Token) : b = buffered \o Tokens(out[pos])
    BY <2>0, TokensType, ConcatProperties DEF DInv, TypeOK
  <2>2. Whole(files[Len(files)].content \o b)
    <3>1. Whole(Current) /\ Current \in Seq(Token)
      BY <1>00, <2>0, CurrentType
    <3>2. Whole(Current \o Tokens(out[pos]))
      BY <2>0, <3>1, WholeConcat
    <3>3. Current \o Tokens(out[pos]) = files[Len(files)].content \o (buffered \o Tokens(out[pos]))
      BY <2>0, TokensType, CurrentType
    <3> QED BY <2>1, <3>2, <3>3
  <2>3. CASE Buffers(out[pos])
    BY <2>0, <2>1, <2>2, <2>3 DEF Buffers, TornStepGoal, Current
  <2>4. CASE Rotates(out[pos])
    <3>1. PICK fs \in Seq(File), k \in Nat :
            Flush(fs, b, k) /\ OpenEffect(fs, "writing") /\ buffered' = <<>>
      BY <2>1, <2>4 DEF Rotates
    <3>2. k \in 0..Len(b) /\ k = Len(b) /\ Extends(files, fs, SubSeq(b, 1, k))
      BY <3>1 DEF Flush
    <3>3. Len(fs) = Len(files) /\ fs[Len(fs)].content = files[Len(files)].content \o b
      BY <2>0, <3>2, CurrentAfterFlush
    <3>4. NoTear(fs)
      BY <3>2, NoTearExtends
    <3>5. ASSUME NEW i \in 1..Len(fs), fs[i].run = run PROVE Whole(fs[i].content)
      <4>1. CASE i = Len(fs)
        BY <2>2, <3>3, <4>1
      <4>2. CASE i # Len(fs)
        <5>1. fs[Len(fs)].run = run
          BY <1>0, <2>0, <3>2 DEF Extends, DInv, Directory
        <5>2. i < Len(fs) /\ Len(fs) \in 1..Len(fs)
          <6>1. Len(fs) = Len(files)
            BY <3>3
          <6>2. Len(fs) \in Nat /\ Len(fs) \in 1..Len(fs)
            BY <1>0, <2>0, <6>1
          <6> QED BY <4>2, <6>2
        <5> QED BY <3>4, <3>5, <5>1, <5>2 DEF NoTear
      <4> QED BY <4>1, <4>2
    <3> QED BY <1>1, <3>1, <3>4, <3>5
  <2> QED BY <1>4, <2>3, <2>4, WriteFrameEffect DEF DInv
<1>5. CASE StdioFlush
  <2>1. fp = TRUE /\ pc = "writing"
    BY <1>5, StdioFlushEffect DEF DInv
  <2>2. PICK k \in 0..Len(buffered) :
              /\ Extends(files, files', SubSeq(buffered, 1, k))
              /\ buffered' = SubSeq(buffered, k + 1, Len(buffered))
    BY <1>5, StdioFlushEffect DEF DInv
  <2>3. NoTear(files')
    BY <2>2, NoTearExtends
  <2>4. buffered \in Seq(Token)
    BY DEF DInv, TypeOK
  <2>5. Current' = Current
    BY <2>1, <2>2, <2>4, CurrentAfterFlush DEF Current
  <2> QED BY <1>00, <2>1, <2>3, <2>5 DEF TornStepGoal
<1>6. CASE Close
  <2>1. fp' = FALSE
    BY <1>6, CloseEffect DEF DInv
  <2>2. files' = files \/ \E t : Extends(files, files', t)
    BY <1>6, CloseEffect DEF DInv, Flush
  <2> QED BY <2>1, <2>2, NoTearExtends DEF TornStepGoal
<1>7. CASE Crash
  BY <1>7 DEF Crash, TornStepGoal
<1>8. CASE WriteFails
  <2>1. pc' = "throwing" /\ UNCHANGED files
    BY <1>8 DEF WriteFails
  <2> QED BY <2>1 DEF TornStepGoal
<1>9. CASE Construct
  <2>1. UNCHANGED <<fp, files, buffered>> /\ pc = "down"
    BY <1>9 DEF Construct
  <2> QED BY <1>2, <2>1
<1>10. CASE Elsewhere /\ UNCHANGED buffered
  BY <1>2, <1>10 DEF Elsewhere
<1>11. (\E batch \in Batches, fs \in Drops : Synced(batch, fs)) => Elsewhere
       /\ UNCHANGED buffered
  BY ElsewhereSteps DEF DInv
<1> QED BY <1>3, <1>4, <1>5, <1>6, <1>7, <1>8, <1>9, <1>10, <1>11, ElsewhereSteps DEF Next, DInv

\* "Rotation must never tear a block": a file the recorder has rotated away
\* from holds whole frames, whatever happens afterwards.
THEOREM NeverTears == Spec => []RotationNeverTears
<1>1. CASE FlushFails
  <2>1. RotationNeverTears
    BY <1>1 DEF RotationNeverTears
  <2> QED BY <2>1, PTL
<1>2. CASE ~FlushFails
  <2> DEFINE K == DInv /\ NoTear(files) /\ CurrentWhole
  <2>1. Init => K
    <3>1. Init => NoTear(files)
      BY EmptySeq DEF Init, NoTear
    <3>2. Init => CurrentWhole
      BY DEF Init, CurrentWhole
    <3> QED BY <3>1, <3>2, InitType, InitDirectory DEF DInv
  <2>2. K /\ [Next]_vars => K'
    <3> SUFFICES ASSUME K, [Next]_vars PROVE K'
      OBVIOUS
    <3>1. DInv'
      BY NextType, DirectoryStep DEF DInv
    <3>2. NoTear(files') /\ (fp' = TRUE /\ pc' # "throwing" => Whole(Current'))
      BY <1>2, <3>1, TornStep DEF TornStepGoal
    <3>3. fp' \in BOOLEAN
      BY <3>1 DEF DInv, TypeOK
    <3>4. CurrentWhole'
      BY <3>2, <3>3 DEF CurrentWhole
    <3>5. NoTear(files)'
      BY <3>2 DEF NoTear
    <3> QED BY <3>1, <3>4, <3>5
  <2>3. K => RotationNeverTears
    <3> SUFFICES ASSUME K PROVE RotationNeverTears
      OBVIOUS
    <3>1. DOMAIN files = 1..Len(files)
      BY DirectoryIndices DEF DInv
    <3> QED BY <3>1 DEF NoTear, RotationNeverTears
  <2> QED BY <2>1, <2>2, <2>3, PTL DEF Spec
<1> QED BY <1>1, <1>2
-----------------------------------------------------------------------------
(* What Bytes computes.                                                    *)

\* f sums up the sizes of the first i tokens of s, for each i up to n.
Sums(f, s, n) == f = [i \in 0..n |-> IF i = 0 THEN 0 ELSE f[i - 1] + Size(s[i])]

\* There is such a function for every length.
LEMMA SumsExists ==
  ASSUME NEW s, NEW N \in Nat
  PROVE  \E f : Sums(f, s, N)
<1> DEFINE T == {n \in Nat : \E f : Sums(f, s, n)}
<1>1. 0 \in T
  <2> DEFINE e == [i \in 0..0 |-> 0]
  <2>1. e = [i \in 0..0 |-> IF i = 0 THEN 0 ELSE e[i - 1] + Size(s[i])]
    OBVIOUS
  <2>2. Sums(e, s, 0)
    BY <2>1 DEF Sums
  <2> QED BY <2>2
<1>2. ASSUME NEW n \in Nat, n \in T PROVE n + 1 \in T
  <2>1. PICK f : Sums(f, s, n)
    BY <1>2
  <2> DEFINE last == f[n] + Size(s[n + 1])
             h == [i \in 0..(n + 1) |-> IF i = n + 1 THEN last ELSE f[i]]
  <2>2. \A i \in 0..(n + 1) : h[i] = IF i = 0 THEN 0 ELSE h[i - 1] + Size(s[i])
    <3> SUFFICES ASSUME NEW i \in 0..(n + 1)
                 PROVE  h[i] = IF i = 0 THEN 0 ELSE h[i - 1] + Size(s[i])
      OBVIOUS
    <3>1. CASE i = n + 1
      <4>1. i # 0 /\ i - 1 = n /\ h[i] = last /\ h[n] = f[n]
        BY <3>1
      <4> QED BY <3>1, <4>1
    <3>2. CASE i \in 0..n
      <4>1. f[i] = IF i = 0 THEN 0 ELSE f[i - 1] + Size(s[i])
        BY <2>1, <3>2 DEF Sums
      <4>2. h[i] = f[i] /\ (i # 0 => h[i - 1] = f[i - 1])
        BY <3>2
      <4> QED BY <4>1, <4>2
    <3> QED BY <3>1, <3>2
  <2>3. Sums(h, s, n + 1)
    BY <2>2 DEF Sums
  <2> HIDE DEF h
  <2> QED BY <2>3
<1> HIDE DEF T
<1>3. T = Nat
  <2>1. T \subseteq Nat
    BY DEF T
  <2> QED BY <1>1, <1>2, <2>1, SetInduction
<1> QED BY <1>3 DEF T

\* Bytes is the last value of such a function.
LEMMA BytesUnfold ==
  ASSUME NEW s, Len(s) \in Nat
  PROVE  \E f : Sums(f, s, Len(s)) /\ Bytes(s) = f[Len(s)]
<1> DEFINE f == CHOOSE g : g = [i \in 0..Len(s) |-> IF i = 0 THEN 0 ELSE g[i - 1] + Size(s[i])]
<1>1. \E g : g = [i \in 0..Len(s) |-> IF i = 0 THEN 0 ELSE g[i - 1] + Size(s[i])]
  BY SumsExists DEF Sums
<1>2. f = [i \in 0..Len(s) |-> IF i = 0 THEN 0 ELSE f[i - 1] + Size(s[i])]
  BY <1>1
<1>3. Bytes(s) = f[Len(s)]
  BY DEF Bytes
<1> HIDE DEF f
<1>4. Sums(f, s, Len(s))
  BY <1>2 DEF Sums
<1> QED BY <1>3, <1>4

\* Two such functions agree as long as the tokens do.
LEMMA SumsAgree ==
  ASSUME NEW s, NEW t, NEW f, NEW g, NEW k \in Nat, NEW n \in Nat,
         k <= n, Sums(f, s, k), Sums(g, t, n), \A i \in 1..k : s[i] = t[i]
  PROVE  \A i \in 0..k : f[i] = g[i]
<1> DEFINE T == {i \in Nat : i \in 0..k => f[i] = g[i]}
<1>1. 0 \in T
  <2>1. 0 \in 0..k /\ 0 \in 0..n
    OBVIOUS
  <2>2. f[0] = 0 /\ g[0] = 0
    BY <2>1 DEF Sums
  <2> QED BY <2>2
<1>2. ASSUME NEW i \in Nat, i \in T PROVE i + 1 \in T
  <2> SUFFICES ASSUME i + 1 \in 0..k PROVE f[i + 1] = g[i + 1]
    OBVIOUS
  <2>1. /\ f[i + 1] = IF i + 1 = 0 THEN 0 ELSE f[(i + 1) - 1] + Size(s[i + 1])
        /\ g[i + 1] = IF i + 1 = 0 THEN 0 ELSE g[(i + 1) - 1] + Size(t[i + 1])
    <3>1. i + 1 \in 0..k /\ i + 1 \in 0..n
      OBVIOUS
    <3> QED BY <3>1 DEF Sums
  <2>2. (i + 1) - 1 = i /\ f[i] = g[i] /\ i + 1 \in 1..k
    BY <1>2
  <2>3. s[i + 1] = t[i + 1]
    BY <2>2
  <2> QED BY <2>1, <2>2, <2>3
<1> HIDE DEF T
<1>3. T = Nat
  <2>1. T \subseteq Nat
    BY DEF T
  <2> QED BY <1>1, <1>2, <2>1, SetInduction
<1> QED BY <1>3 DEF T

\* The size of a token: 8 bytes of header, or the rest of the frame.
LEMMA SizeType ==
  ASSUME NEW t \in Token
  PROVE  /\ Size(t) \in Nat /\ t.length \in Nat /\ t.length >= HeaderSize /\ HeaderSize = 8
         /\ t.part = "header" => Size(t) = HeaderSize
         /\ t.part = "body" => Size(t) = t.length - HeaderSize
<1>1. t.length \in Lengths /\ t.part \in {"header", "body"}
  BY DEF Token
<1>2. t.length \in Nat /\ t.length >= 8
  BY <1>1, RecorderAssumption DEF HeaderSize
<1> QED BY <1>1, <1>2 DEF Size, HeaderSize

\* Nothing has no bytes.
LEMMA BytesEmpty == Bytes(<<>>) = 0
<1>1. Len(<<>>) = 0
  BY EmptySeq
<1>2. PICK f : Sums(f, <<>>, 0) /\ Bytes(<<>>) = f[0]
  BY <1>1, BytesUnfold
<1> QED BY <1>2 DEF Sums

\* One token more.
LEMMA BytesAppend ==
  ASSUME NEW s \in Seq(Token), NEW t \in Token
  PROVE  Bytes(Append(s, t)) = Bytes(s) + Size(t)
<1> DEFINE u == Append(s, t)
           n == Len(s)
<1>1. n \in Nat /\ Len(u) = n + 1 /\ u[n + 1] = t /\ \A i \in 1..n : u[i] = s[i]
  BY LenProperties, AppendProperties
<1> HIDE DEF u, n
<1>2. PICK g : Sums(g, u, n + 1) /\ Bytes(u) = g[n + 1]
  BY <1>1, BytesUnfold
<1>3. PICK f : Sums(f, s, n) /\ Bytes(s) = f[n]
  BY <1>1, BytesUnfold DEF n
<1>4. g[n + 1] = IF n + 1 = 0 THEN 0 ELSE g[(n + 1) - 1] + Size(u[n + 1])
  <2>1. n + 1 \in 0..(n + 1)
    BY <1>1
  <2> QED BY <1>2, <2>1 DEF Sums
<1>5. n + 1 # 0 /\ (n + 1) - 1 = n /\ n \in 0..n /\ n <= n + 1 /\ n + 1 \in Nat
  BY <1>1
<1>6. \A i \in 0..n : f[i] = g[i]
  <2>1. \A i \in 1..n : s[i] = u[i]
    BY <1>1
  <2> QED BY <1>1, <1>2, <1>3, <1>5, <2>1, SumsAgree
<1>7. g[n + 1] = f[n] + Size(t)
  BY <1>1, <1>4, <1>5, <1>6
<1> QED BY <1>2, <1>3, <1>7 DEF u

\* A number of bytes is a natural number.
LEMMA BytesType ==
  ASSUME NEW s \in Seq(Token)
  PROVE  Bytes(s) \in Nat
<1>1. Len(s) \in Nat /\ \A i \in 1..Len(s) : Size(s[i]) \in Nat
  BY LenProperties, ElementOfSeq, SizeType
<1>2. PICK f : Sums(f, s, Len(s)) /\ Bytes(s) = f[Len(s)]
  BY <1>1, BytesUnfold
<1> DEFINE T == {i \in Nat : i \in 0..Len(s) => f[i] \in Nat}
<1>3. 0 \in T
  <2>1. f[0] = 0
    BY <1>1, <1>2 DEF Sums
  <2> QED BY <2>1
<1>4. ASSUME NEW i \in Nat, i \in T PROVE i + 1 \in T
  <2> SUFFICES ASSUME i + 1 \in 0..Len(s) PROVE f[i + 1] \in Nat
    OBVIOUS
  <2>1. f[i + 1] = IF i + 1 = 0 THEN 0 ELSE f[(i + 1) - 1] + Size(s[i + 1])
    BY <1>2 DEF Sums
  <2>2. (i + 1) - 1 = i /\ i + 1 # 0 /\ f[i] \in Nat /\ i + 1 \in 1..Len(s)
    BY <1>1, <1>4
  <2>3. Size(s[i + 1]) \in Nat
    BY <1>1, <2>2
  <2> QED BY <2>1, <2>2, <2>3
<1> HIDE DEF T
<1>5. T = Nat
  <2>1. T \subseteq Nat
    BY DEF T
  <2> QED BY <1>3, <1>4, <2>1, SetInduction
<1>6. Len(s) \in 0..Len(s)
  BY <1>1
<1> QED BY <1>1, <1>2, <1>5, <1>6 DEF T

\* A frame is written token by token.
LEMMA WrittenTokens ==
  ASSUME NEW x \in Seq(Token), NEW f \in Frame
  PROVE  \E h \in Token :
           /\ h.part = "header" /\ h.length = f.length /\ Tokens(f)[1] = h
           /\ \/ f.length = HeaderSize /\ x \o Tokens(f) = Append(x, h)
              \/ \E b \in Token : /\ x \o Tokens(f) = Append(Append(x, h), b)
                                  /\ b.part = "body" /\ b.length = f.length
<1>1. PICK h \in Token :
           /\ h.part = "header" /\ h.length = f.length /\ Tokens(f)[1] = h
           /\ \/ f.length = HeaderSize /\ Tokens(f) = <<h>>
              \/ \E b \in Token : Tokens(f) = <<h, b>> /\ b.part = "body" /\ b.length = f.length
  BY TokensOfFrame
<1>2. x \o <<h>> = Append(x, h) /\ Append(x, h) \in Seq(Token) /\ <<h>> \in Seq(Token)
  BY AppendIsConcat, AppendProperties
<1>3. ASSUME NEW b \in Token PROVE x \o <<h, b>> = Append(Append(x, h), b)
  <2>1. Append(Append(x, h), b) = Append(x, h) \o <<b>>
    BY <1>2, AppendIsConcat
  <2>2. <<b>> \in Seq(Token) /\ <<h>> \o <<b>> = <<h, b>>
    BY PairConcat
  <2>3. (x \o <<h>>) \o <<b>> = x \o (<<h>> \o <<b>>)
    BY <1>2, <2>2, ConcatAssociative
  <2> QED BY <1>2, <2>1, <2>2, <2>3
<1> QED BY <1>1, <1>2, <1>3

\* A frame adds its length.
LEMMA BytesOfFrame ==
  ASSUME NEW x \in Seq(Token), NEW f \in Frame
  PROVE  Bytes(x \o Tokens(f)) = Bytes(x) + f.length
<1>1. PICK h \in Token :
           /\ h.part = "header" /\ h.length = f.length
           /\ \/ f.length = HeaderSize /\ x \o Tokens(f) = Append(x, h)
              \/ \E b \in Token : /\ x \o Tokens(f) = Append(Append(x, h), b)
                                  /\ b.part = "body" /\ b.length = f.length
  BY WrittenTokens
<1>2. Bytes(Append(x, h)) = Bytes(x) + 8 /\ Bytes(x) \in Nat /\ f.length \in Nat
      /\ HeaderSize = 8
  BY <1>1, BytesAppend, BytesType, SizeType
<1>3. Append(x, h) \in Seq(Token)
  BY AppendProperties
<1>4. ASSUME NEW b \in Token, b.part = "body", b.length = f.length
      PROVE  Bytes(Append(Append(x, h), b)) = Bytes(x) + f.length
  <2>1. Bytes(Append(Append(x, h), b)) = Bytes(Append(x, h)) + Size(b)
    BY <1>3, BytesAppend
  <2>2. Size(b) = f.length - 8
    BY <1>4, SizeType
  <2> QED BY <1>2, <2>1, <2>2
<1> QED BY <1>1, <1>2, <1>4
-----------------------------------------------------------------------------
(* The size of files.                                                      *)

\* An empty file is within bounds.
LEMMA BoundedEmpty == Bounded(<<>>)
<1>1. Len(<<>>) = 0
  BY EmptySeq
<1> QED BY <1>1 DEF Bounded

\* What is left of a bounded file is bounded.
LEMMA BoundedPrefix ==
  ASSUME NEW x \in Seq(Token), NEW y \in Seq(Token), Bounded(x \o y)
  PROVE  Bounded(x)
<1> SUFFICES ASSUME NEW n \in 1..Len(x) PROVE Fits(SubSeq(x, 1, n))
  BY DEF Bounded
<1>1. Len(x) \in Nat /\ Len(y) \in Nat /\ Len(x \o y) = Len(x) + Len(y)
  BY LenProperties, ConcatProperties
<1>2. n \in 1..Len(x \o y) /\ 1 \in 1..Len(x)
  BY <1>1
<1>3. SubSeq(x \o y, 1, n) = SubSeq(x, 1, n)
  BY <1>2, SubSeqOfConcat1
<1>4. Fits(SubSeq(x \o y, 1, n))
  BY <1>2 DEF Bounded
<1> QED BY <1>3, <1>4

\* A file is within bounds if all but its last token and all of it are.
LEMMA BoundedAppend ==
  ASSUME NEW x \in Seq(Token), NEW t \in Token, Bounded(x), Fits(Append(x, t))
  PROVE  Bounded(Append(x, t))
<1> DEFINE y == Append(x, t)
<1>1. Len(x) \in Nat /\ Len(y) = Len(x) + 1 /\ y \in Seq(Token)
  BY LenProperties, AppendProperties
<1>2. y = x \o <<t>> /\ <<t>> \in Seq(Token)
  BY AppendIsConcat
<1> SUFFICES ASSUME NEW n \in 1..Len(y) PROVE Fits(SubSeq(y, 1, n))
  BY DEF Bounded
<1>3. CASE n = Len(y)
  <2> HIDE DEF y
  <2>1. SubSeq(y, 1, n) = y
    BY <1>1, <1>3, SubSeqFull
  <2> QED BY <2>1 DEF y
<1>4. CASE n # Len(y)
  <2> HIDE DEF y
  <2>1. n \in 1..Len(x) /\ 1 \in 1..Len(x)
    BY <1>1, <1>4
  <2>2. SubSeq(x \o <<t>>, 1, n) = SubSeq(x, 1, n)
    BY <1>2, <2>1, SubSeqOfConcat1
  <2>3. Fits(SubSeq(x, 1, n))
    BY <2>1 DEF Bounded
  <2> QED BY <1>2, <2>2, <2>3
<1> QED BY <1>3, <1>4

\* A file that is empty or below rotate_bytes may take another frame, and also
\* a part of it.
LEMMA BoundedFrame ==
  ASSUME NEW x \in Seq(Token), NEW f \in Frame, Bounded(x), x # <<>> => Bytes(x) < rotate_bytes
  PROVE  Bounded(x \o Tokens(f)) /\ Bounded(Append(x, Tokens(f)[1]))
<1>1. PICK h \in Token :
           /\ h.part = "header" /\ h.length = f.length /\ Tokens(f)[1] = h
           /\ \/ f.length = HeaderSize /\ x \o Tokens(f) = Append(x, h)
              \/ \E b \in Token : /\ x \o Tokens(f) = Append(Append(x, h), b)
                                  /\ b.part = "body" /\ b.length = f.length
  BY WrittenTokens
<1> DEFINE l == f.length
           y == Append(x, h)
<1>2. l \in Nat /\ l >= 8 /\ HeaderSize = 8 /\ Bytes(x) \in Nat /\ rotate_bytes \in Nat
      /\ Size(h) = 8
  BY <1>1, SizeType, BytesType, RecorderAssumption
<1>3. Len(x) \in Nat /\ Len(y) = Len(x) + 1 /\ y \in Seq(Token) /\ y[Len(y)] = h
      /\ (Len(x) > 0 => y[1] = x[1])
  BY LenProperties, AppendProperties
<1>4. Bytes(y) = Bytes(x) + 8
  BY <1>2, BytesAppend
<1>5. x = <<>> => Bytes(x) = 0 /\ Len(x) = 0
  BY BytesEmpty, EmptySeq
<1>6. h.length = l
  BY <1>1
<1> HIDE DEF y, l
<1>7. Fits(y)
  <2>1. CASE x = <<>>
    <3>1. y[1] = h
      BY <1>3, <1>5, <2>1
    <3>2. (Bytes(y) - l < rotate_bytes) \/ Bytes(y) = l
      BY <1>2, <1>4, <1>5, <2>1
    <3> QED BY <1>3, <1>6, <3>1, <3>2 DEF Fits
  <2>2. CASE x # <<>>
    <3>1. Bytes(y) - l < rotate_bytes
      BY <1>2, <1>4, <2>2
    <3> QED BY <1>3, <1>6, <3>1 DEF Fits
  <2> QED BY <2>1, <2>2
<1>8. Bounded(y)
  BY <1>7, BoundedAppend DEF y
<1>9. ASSUME NEW b \in Token, b.part = "body", b.length = l PROVE Bounded(Append(y, b))
  <2> DEFINE z == Append(y, b)
  <2>1. Len(z) = Len(y) + 1 /\ z[Len(z)] = b /\ z[1] = y[1] /\ Len(y) \in Nat
    <3>1. 1 \in 1..Len(y) /\ Len(y) \in Nat
      BY <1>3
    <3> QED BY <1>3, <3>1, AppendProperties
  <2>2. Bytes(z) = Bytes(y) + Size(b) /\ Size(b) = l - 8
    BY <1>2, <1>3, <1>9, BytesAppend, SizeType
  <2> HIDE DEF z
  <2>3. Bytes(z) = Bytes(x) + l
    BY <1>2, <1>4, <2>2
  <2>4. Fits(z)
    <3>1. CASE x = <<>>
      <4>1. z[1] = h
        BY <1>3, <1>5, <2>1, <3>1
      <4>2. Bytes(z) = l
        BY <1>2, <1>5, <2>3, <3>1
      <4> QED BY <1>6, <4>1, <4>2 DEF Fits
    <3>2. CASE x # <<>>
      <4>1. Bytes(z) - l < rotate_bytes
        BY <1>2, <2>3, <3>2
      <4> QED BY <1>9, <2>1, <4>1 DEF Fits
    <3> QED BY <3>1, <3>2
  <2> QED BY <1>3, <1>8, <2>4, BoundedAppend DEF z
<1> QED BY <1>1, <1>8, <1>9 DEF y, l

\* The size part of the invariant of a directory.
AllBounded(fs) == \A i \in 1..Len(fs) : Bounded(fs[i].content)

\* Opening a file keeps all within bounds.
LEMMA BoundedOpens ==
  ASSUME NEW fs, NEW gs, Opens(fs, gs), AllBounded(fs)
  PROVE  AllBounded(gs) /\ gs[Len(gs)].content = <<>>
<1>1. /\ Len(gs) = Len(fs) + 1 /\ Len(fs) \in Nat /\ gs[Len(fs) + 1].content = <<>>
      /\ \A k \in 1..Len(fs) : gs[k] = fs[k] \/ gs[k].content = <<>>
  BY DEF Opens
<1>2. ASSUME NEW i \in 1..Len(gs) PROVE Bounded(gs[i].content)
  <2>1. i \in 1..Len(fs) \/ i = Len(fs) + 1
    BY <1>1
  <2>2. CASE i \in 1..Len(fs)
    BY <1>1, <2>2, BoundedEmpty DEF AllBounded
  <2>3. CASE i = Len(fs) + 1
    BY <1>1, <2>3, BoundedEmpty
  <2> QED BY <2>1, <2>2, <2>3
<1> QED BY <1>1, <1>2 DEF AllBounded

\* A flush of a buffer whose file would be bounded.
LEMMA BoundedFlush ==
  ASSUME DInv, fp, AllBounded(files), NEW fs \in Seq(File), NEW b \in Seq(Token),
         NEW k \in 0..Len(b),
         Extends(files, fs, SubSeq(b, 1, k)), Bounded(files[Len(files)].content \o b)
  PROVE  AllBounded(fs)
<1>1. /\ Len(fs) = Len(files) /\ Len(files) \in Nat \ {0}
      /\ \A i \in 1..(Len(files) - 1) : fs[i] = files[i]
  BY DEF Extends
<1>2. PICK q \in Seq(Token) : q = SubSeq(b, k + 1, Len(b))
  BY Split
<1>3. fs[Len(fs)].content \o q = files[Len(files)].content \o b
  BY <1>2, CurrentAfterFlush
<1>4. fs[Len(fs)].content \in Seq(Token)
  <2>1. Len(fs) \in 1..Len(fs)
    BY <1>1
  <2> QED BY <2>1, ElementOfSeq, FileFields
<1>5. Bounded(fs[Len(fs)].content)
  BY <1>3, <1>4, BoundedPrefix
<1>6. ASSUME NEW i \in 1..Len(fs) PROVE Bounded(fs[i].content)
  <2>1. i = Len(fs) \/ i \in 1..(Len(files) - 1)
    BY <1>1
  <2>2. \A j \in 1..(Len(files) - 1) : j \in 1..Len(files)
    BY <1>1
  <2> QED BY <1>1, <1>5, <2>1, <2>2 DEF AllBounded
<1> QED BY <1>6 DEF AllBounded

\* Every step keeps Sizes.
LEMMA SizesStep == DInv /\ DInv' /\ Sizes /\ [Next]_vars => Sizes'
<1> SUFFICES ASSUME DInv, DInv', Sizes, [Next]_vars PROVE Sizes'
  OBVIOUS
<1> DEFINE Open == /\ Bytes(Current) = current_size
                   /\ Current # <<>> => current_size < rotate_bytes
<1>0. /\ Len(files) \in Nat /\ DOMAIN files = 1..Len(files)
      /\ fp \in BOOLEAN /\ fp' \in BOOLEAN /\ files \in Seq(File) /\ files' \in Seq(File)
      /\ buffered \in Seq(Token) /\ DOMAIN files' = 1..Len(files')
  <2>1. files \in Seq(File) /\ files' \in Seq(File) /\ fp \in BOOLEAN /\ fp' \in BOOLEAN
        /\ buffered \in Seq(Token)
    BY DEF DInv, TypeOK
  <2> QED BY <2>1, LenProperties
<1>a. /\ AllBounded(files)
      /\ fp = TRUE => Bounded(Current)
      /\ fp = TRUE /\ pc # "throwing" => Open
  BY <1>0 DEF Sizes, AllBounded
<1>b. ASSUME AllBounded(files)', fp' = TRUE => Bounded(Current'),
             fp' = TRUE /\ pc' # "throwing" => Open'
      PROVE  Sizes'
  BY <1>0, <1>b DEF Sizes, AllBounded
<1> HIDE DEF Open
\* Opening a file: it is empty.
<1>1. ASSUME NEW fs, NEW next, OpenEffect(fs, next), AllBounded(fs), buffered' = <<>>
      PROVE  Sizes'
  <2>1. CASE fp' = TRUE /\ Opens(fs, files') /\ current_size' = 0
    <3>1. AllBounded(files') /\ files'[Len(files')].content = <<>>
      BY <1>1, <2>1, BoundedOpens
    <3>2. Current' = <<>>
      <4>1. <<>> \o <<>> = <<>>
        BY EmptySeq, ConcatEmptySeq
      <4> QED BY <1>1, <3>1, <4>1 DEF Current
    <3>3. Open'
      BY <2>1, <3>2, BytesEmpty DEF Open
    <3>4. AllBounded(files)'
      BY <3>1 DEF AllBounded
    <3> QED BY <1>b, <3>2, <3>3, <3>4, BoundedEmpty
  <2>2. CASE fp' = FALSE /\ files' = fs
    <3>1. AllBounded(files)'
      BY <1>1, <2>2 DEF AllBounded
    <3> QED BY <1>b, <2>2, <3>1
  <2> QED BY <1>1, <2>1, <2>2 DEF OpenEffect
<1>2. CASE /\ UNCHANGED <<fp, files, buffered, current_size>>
           /\ (fp = FALSE \/ pc # "throwing" \/ pc' = "throwing")
  <2>1. AllBounded(files)' /\ UNCHANGED Current
    BY <1>2, <1>a DEF AllBounded, Current
  <2>2. fp' = TRUE /\ pc' # "throwing" => Open'
    BY <1>2, <1>a, <2>1 DEF Open
  <2> QED BY <1>2, <1>a, <1>b, <2>1, <2>2
<1>3. CASE Feed
  <2>1. CASE fp = FALSE /\ OpenEffect(files, "syncing")
    <3>1. buffered' = <<>>
      BY <1>3, <2>1, FeedEffect DEF DInv, Directory
    <3> QED BY <1>1, <1>a, <2>1, <3>1
  <2>2. CASE fp = TRUE /\ UNCHANGED <<fp, files, current_size>>
    <3>1. pc = "idle" /\ UNCHANGED buffered
      BY <1>3, FeedEffect DEF DInv
    <3> QED BY <1>2, <2>2, <3>1
  <2> QED BY <1>3, <2>1, <2>2, FeedEffect DEF DInv
<1>4. CASE WriteFrame
  <2>0. pc = "writing" /\ fp = TRUE /\ UNCHANGED run /\ out[pos] \in Frame
    BY <1>4, WriteFrameEffect DEF DInv
  <2>1. PICK b \in Seq(Token) : b = buffered \o Tokens(out[pos])
    BY <1>0, <2>0, TokensType, ConcatProperties
  <2>2. files[Len(files)].content \o b = Current \o Tokens(out[pos]) /\ Current \in Seq(Token)
    BY <2>0, <2>1, TokensType, CurrentType
  <2>3. Open /\ Bounded(Current)
    BY <1>a, <2>0
  <2>4. Bounded(files[Len(files)].content \o b)
    BY <2>0, <2>2, <2>3, BoundedFrame DEF Open
  <2>5. Bytes(files[Len(files)].content \o b) = current_size + out[pos].length
    BY <2>0, <2>2, <2>3, BytesOfFrame DEF Open
  <2>6. CASE Buffers(out[pos])
    <3>1. UNCHANGED <<fp, files>> /\ buffered' = b
          /\ current_size' = current_size + out[pos].length
          /\ current_size' < rotate_bytes
      BY <2>1, <2>6 DEF Buffers
    <3>2. Current' = files[Len(files)].content \o b
      BY <3>1 DEF Current
    <3>3. Open' /\ AllBounded(files)'
      BY <1>a, <2>5, <3>1, <3>2 DEF Open, AllBounded
    <3> QED BY <1>b, <2>4, <3>2, <3>3
  <2>7. CASE Rotates(out[pos])
    <3>1. PICK fs \in Seq(File), k \in Nat :
            Flush(fs, b, k) /\ OpenEffect(fs, "writing") /\ buffered' = <<>>
      BY <2>1, <2>7 DEF Rotates
    <3>2. k \in 0..Len(b) /\ Extends(files, fs, SubSeq(b, 1, k))
      BY <3>1 DEF Flush
    <3>3. AllBounded(fs)
      BY <1>a, <2>0, <2>4, <3>2, BoundedFlush
    <3> QED BY <1>1, <3>1, <3>3
  <2> QED BY <1>4, <2>6, <2>7, WriteFrameEffect DEF DInv
<1>5. CASE StdioFlush
  <2>1. fp = TRUE /\ pc = "writing" /\ UNCHANGED <<current_size, pc>>
    BY <1>5, StdioFlushEffect DEF DInv, memory
  <2>2. PICK k \in 0..Len(buffered) :
              /\ Extends(files, files', SubSeq(buffered, 1, k))
              /\ buffered' = SubSeq(buffered, k + 1, Len(buffered))
    BY <1>5, StdioFlushEffect DEF DInv
  <2>3. AllBounded(files')
    BY <1>0, <1>a, <2>1, <2>2, BoundedFlush DEF Current
  <2>4. Current' = Current
    BY <1>0, <2>1, <2>2, CurrentAfterFlush DEF Current
  <2>5. Open' /\ AllBounded(files)'
    BY <1>a, <2>1, <2>3, <2>4 DEF Open, AllBounded
  <2> QED BY <1>a, <1>b, <2>1, <2>4, <2>5
<1>6. CASE Close
  <2>1. fp' = FALSE
    BY <1>6, CloseEffect DEF DInv
  <2>2. AllBounded(files')
    <3>1. CASE files' = files
      BY <1>a, <3>1
    <3>2. CASE fp /\ \E k \in Nat : Flush(files', buffered, k)
      <4>1. PICK k \in Nat : Flush(files', buffered, k)
        BY <3>2
      <4>2. k \in 0..Len(buffered) /\ Extends(files, files', SubSeq(buffered, 1, k))
        BY <4>1 DEF Flush
      <4> QED BY <1>0, <1>a, <3>2, <4>2, BoundedFlush DEF Current
    <3> QED BY <1>6, <3>1, <3>2, CloseEffect DEF DInv
  <2>3. AllBounded(files)'
    BY <2>2 DEF AllBounded
  <2> QED BY <1>b, <2>1, <2>3
<1>7. CASE Crash
  <2>1. fp' = FALSE /\ UNCHANGED files
    BY <1>7 DEF Crash
  <2>2. AllBounded(files)'
    BY <1>a, <2>1 DEF AllBounded
  <2> QED BY <1>b, <2>1, <2>2
<1>8. CASE WriteFails
  <2>1. pc' = "throwing" /\ UNCHANGED files /\ UNCHANGED fp /\ pos <= Len(out) /\ pc = "writing"
    BY <1>8 DEF WriteFails
  <2>2. fp = TRUE
    BY <2>1 DEF DInv, TypeOK
  <2>3. AllBounded(files)'
    BY <1>a, <2>1 DEF AllBounded
  <2>4. CASE UNCHANGED buffered
    BY <1>a, <1>b, <2>1, <2>2, <2>3, <2>4 DEF Current
  <2>5. CASE buffered' = Append(buffered, Tokens(out[pos])[1])
    <3>1. out[pos] \in Frame
      BY <2>1, NextFrame DEF DInv
    <3>2. PICK h \in Token : h = Tokens(out[pos])[1]
      BY <3>1, TokensOfFrame
    <3>3. buffered' = buffered \o <<h>> /\ <<h>> \in Seq(Token)
      BY <1>0, <2>5, <3>2, AppendIsConcat
    <3>4. Current \in Seq(Token)
          /\ Current \o <<h>> = files[Len(files)].content \o (buffered \o <<h>>)
      BY <2>2, <3>3, CurrentType
    <3>5. Current' = Append(Current, h)
      <4>1. Append(Current, h) = Current \o <<h>>
        BY <3>4, AppendIsConcat
      <4> QED BY <2>1, <3>3, <3>4, <4>1 DEF Current
    <3>6. Bounded(Append(Current, h))
      <4>1. Bounded(Current) /\ (Current # <<>> => Bytes(Current) < rotate_bytes)
        BY <1>a, <2>1, <2>2 DEF Open
      <4> QED BY <3>1, <3>2, <3>4, <4>1, BoundedFrame
    <3> QED BY <1>b, <2>1, <2>3, <3>5, <3>6
  <2> QED BY <1>8, <2>4, <2>5 DEF WriteFails
<1>9. CASE Construct
  <2>1. UNCHANGED <<fp, files, buffered>> /\ pc = "down"
    BY <1>9 DEF Construct
  <2>2. fp = FALSE
    BY <2>1 DEF DInv, TypeOK
  <2>3. AllBounded(files)'
    BY <1>a, <2>1 DEF AllBounded
  <2> QED BY <1>b, <2>1, <2>2, <2>3
<1>10. CASE Elsewhere /\ UNCHANGED buffered
  BY <1>2, <1>10 DEF Elsewhere
<1>11. (\E batch \in Batches, fs \in Drops : Synced(batch, fs)) => Elsewhere
       /\ UNCHANGED buffered
  BY ElsewhereSteps DEF DInv
<1> QED BY <1>3, <1>4, <1>5, <1>6, <1>7, <1>8, <1>9, <1>10, <1>11, ElsewhereSteps DEF Next, DInv

\* A file exceeds rotate_bytes by less than one frame, however much of stdio's
\* buffer reaches the disk when a write fails or the process dies.
THEOREM SizeBounded == Spec => []FileSizeBound
<1> DEFINE K == DInv /\ Sizes
<1>1. Init => K
  <2>1. Init => Sizes
    BY EmptySeq DEF Init, Sizes
  <2> QED BY <2>1, InitType, InitDirectory DEF DInv
<1>2. K /\ [Next]_vars => K'
  BY NextType, DirectoryStep, SizesStep DEF DInv
<1>3. K => FileSizeBound
  <2> SUFFICES ASSUME K, NEW i \in DOMAIN files, files[i].content # <<>>
               PROVE  Fits(files[i].content)
    BY DEF FileSizeBound, Fits
  <2>1. files[i].content \in Seq(Token)
    BY DirectoryIndices DEF DInv
  <2>2. PICK c \in Seq(Token) : c = files[i].content
    BY <2>1
  <2>3. Len(c) \in 1..Len(c) /\ SubSeq(c, 1, Len(c)) = c
    BY <2>2, EmptySeq, SubSeqFull
  <2>4. Bounded(c)
    BY <2>2 DEF Sizes
  <2> QED BY <2>2, <2>3, <2>4 DEF Bounded
<1> HIDE DEF K
<1> QED BY <1>1, <1>2, <1>3, PTL DEF Spec
-----------------------------------------------------------------------------
(* Nothing is missing.                                                     *)

\* What run r wrote to each file of the directory fs.
PartsOf(fs, r) == [i \in DOMAIN fs |-> IF fs[i].run = r THEN fs[i].content ELSE <<>>]

\* The tokens of the first n frames that arrived.
Expected(n) == [i \in 1..n |-> Tokens(arrived[i])]

\* The parts of the recording, file by file.
LEMMA PartsType ==
  ASSUME NEW fs \in Seq(File), NEW r
  PROVE  /\ PartsOf(fs, r) \in Seq(Seq(Token)) /\ Len(PartsOf(fs, r)) = Len(fs)
         /\ \A i \in 1..Len(fs) :
              PartsOf(fs, r)[i] = IF fs[i].run = r THEN fs[i].content ELSE <<>>
         /\ FlattenSeq(PartsOf(fs, r)) \in Seq(Token)
<1> DEFINE part(i) == IF fs[i].run = r THEN fs[i].content ELSE <<>>
<1>1. DOMAIN fs = 1..Len(fs) /\ Len(fs) \in Nat /\ \A i \in 1..Len(fs) :
      fs[i].content \in Seq(Token)
  BY LenProperties, ElementOfSeq, FileFields
<1>2. \A i \in 1..Len(fs) : part(i) \in Seq(Token)
  BY <1>1, EmptySeq
<1>3. PartsOf(fs, r) = [i \in 1..Len(fs) |-> part(i)]
  BY <1>1 DEF PartsOf
<1>4. \A i \in 1..Len(fs) : PartsOf(fs, r)[i] = part(i)
  BY <1>3
<1>5. PartsOf(fs, r) \in Seq(Seq(Token)) /\ Len(PartsOf(fs, r)) = Len(fs)
  <2> DEFINE ST == Seq(Token)
  <2> HIDE DEF part, ST
  <2>1. PartsOf(fs, r) \in [1..Len(fs) -> ST]
    BY <1>2, <1>3 DEF ST
  <2>2. PartsOf(fs, r) \in Seq(ST) /\ Len(PartsOf(fs, r)) = Len(fs)
    BY <1>1, <1>3, <2>1
  <2> QED BY <2>2 DEF ST
<1>6. FlattenSeq(PartsOf(fs, r)) \in Seq(Token)
  BY <1>5, FlattenSeqType
<1> QED BY <1>4, <1>5, <1>6

\* What goes to the open file goes to the end of the recording.
LEMMA PartsExtends ==
  ASSUME NEW fs \in Seq(File), NEW gs \in Seq(File), NEW t \in Seq(Token), NEW r,
         Extends(fs, gs, t), fs[Len(fs)].run = r
  PROVE  FlattenSeq(PartsOf(gs, r)) = FlattenSeq(PartsOf(fs, r)) \o t
<1>1. PICK ps \in Seq(Seq(Token)) :
        /\ ps = PartsOf(fs, r) /\ Len(ps) = Len(fs)
        /\ \A i \in 1..Len(fs) : ps[i] = IF fs[i].run = r THEN fs[i].content ELSE <<>>
  BY PartsType
<1>2. PICK qs \in Seq(Seq(Token)) :
        /\ qs = PartsOf(gs, r) /\ Len(qs) = Len(gs)
        /\ \A i \in 1..Len(gs) : qs[i] = IF gs[i].run = r THEN gs[i].content ELSE <<>>
  BY PartsType
<1>3. /\ Len(gs) = Len(fs) /\ Len(fs) \in Nat \ {0}
      /\ \A i \in 1..Len(fs) : gs[i].run = fs[i].run
      /\ \A i \in 1..(Len(fs) - 1) : gs[i] = fs[i]
      /\ gs[Len(fs)].content = fs[Len(fs)].content \o t
  BY DEF Extends
<1>4. Len(ps) > 0 /\ Len(qs) = Len(ps) /\ Len(fs) \in 1..Len(fs)
  BY <1>1, <1>2, <1>3
<1>5. qs[Len(ps)] = ps[Len(ps)] \o t
  BY <1>1, <1>2, <1>3, <1>4
<1>6. \A i \in 1..(Len(ps) - 1) : qs[i] = ps[i]
  <2> SUFFICES ASSUME NEW i \in 1..(Len(ps) - 1) PROVE qs[i] = ps[i]
    OBVIOUS
  <2>1. i \in 1..Len(fs) /\ i \in 1..(Len(fs) - 1) /\ i \in 1..Len(gs)
    BY <1>1, <1>3
  <2> QED BY <1>1, <1>2, <1>3, <2>1, ZenonT(30)
<1>7. FlattenSeq(qs) = FlattenSeq(ps) \o t
  BY <1>4, <1>5, <1>6, FlattenSeqExtend
<1> QED BY <1>1, <1>2, <1>7

\* A new file adds nothing, and takes nothing away from this run.
LEMMA PartsOpens ==
  ASSUME NEW fs \in Seq(File), NEW gs \in Seq(File), Opens(fs, gs),
         \A i \in 1..Len(fs) : fs[i].run = run => fs[i].name # FileName
  PROVE  FlattenSeq(PartsOf(gs, run)) = FlattenSeq(PartsOf(fs, run))
<1>1. PICK ps \in Seq(Seq(Token)) :
        /\ ps = PartsOf(fs, run) /\ Len(ps) = Len(fs)
        /\ \A i \in 1..Len(fs) : ps[i] = IF fs[i].run = run THEN fs[i].content ELSE <<>>
  BY PartsType
<1>2. PICK qs \in Seq(Seq(Token)) :
        /\ qs = PartsOf(gs, run) /\ Len(qs) = Len(gs)
        /\ \A i \in 1..Len(gs) : qs[i] = IF gs[i].run = run THEN gs[i].content ELSE <<>>
  BY PartsType
<1>3. /\ Len(gs) = Len(fs) + 1 /\ Len(fs) \in Nat
      /\ gs[Len(fs) + 1].content = <<>>
      /\ \A i \in 1..Len(fs) : gs[i].run = fs[i].run /\ (gs[i] = fs[i] \/ fs[i].name = FileName)
  BY DEF Opens
<1>4. PICK e \in Seq(Token) : e = <<>>
  BY EmptySeq
<1> DEFINE rs == Append(ps, e)
<1>5. /\ rs \in Seq(Seq(Token)) /\ Len(rs) = Len(fs) + 1 /\ rs[Len(fs) + 1] = e
      /\ \A i \in 1..Len(fs) : rs[i] = ps[i]
  BY <1>1, AppendProperties
<1> HIDE DEF rs
<1>6. \A i \in 1..Len(qs) : qs[i] = rs[i]
  <2> SUFFICES ASSUME NEW i \in 1..Len(qs) PROVE qs[i] = rs[i]
    OBVIOUS
  <2>1. i \in 1..Len(gs) /\ (i \in 1..Len(fs) \/ i = Len(fs) + 1)
    BY <1>2, <1>3
  <2>2. CASE i = Len(fs) + 1
    BY <1>2, <1>3, <1>4, <1>5, <2>1, <2>2
  <2>3. CASE i \in 1..Len(fs)
    BY <1>1, <1>2, <1>3, <1>5, <2>1, <2>3
  <2> QED BY <2>1, <2>2, <2>3
<1>7. qs = rs
  BY <1>2, <1>3, <1>5, <1>6, SeqEqual
<1>8. FlattenSeq(rs) = FlattenSeq(ps) \o e
  BY FlattenSeqAppend DEF rs
<1>9. FlattenSeq(ps) \o <<>> = FlattenSeq(ps)
  BY FlattenSeqType, ConcatEmptySeq
<1> QED BY <1>1, <1>2, <1>4, <1>7, <1>8, <1>9

\* One frame more is expected.
LEMMA ExpectedNext ==
  ASSUME arrived \in Seq(Frame), NEW n \in Nat, n + 1 <= Len(arrived)
  PROVE  FlattenSeq(Expected(n + 1)) = FlattenSeq(Expected(n)) \o Tokens(arrived[n + 1])
<1>1. \A i \in 1..(n + 1) : Tokens(arrived[i]) \in Seq(Token)
  <2> SUFFICES ASSUME NEW i \in 1..(n + 1) PROVE Tokens(arrived[i]) \in Seq(Token)
    OBVIOUS
  <2>1. i \in 1..Len(arrived)
    BY LenProperties
  <2> QED BY <2>1, ElementOfSeq, TokensType
<1> DEFINE ST == Seq(Token)
           tok(i) == Tokens(arrived[i])
<1>2. Expected(n) = [i \in 1..n |-> tok(i)] /\ Expected(n + 1) = [i \in 1..(n + 1) |-> tok(i)]
  BY DEF Expected
<1>3. \A i \in 1..(n + 1) : tok(i) \in ST
  BY <1>1
<1> HIDE DEF ST, tok
<1>4. Expected(n) \in [1..n -> ST] /\ Expected(n + 1) \in [1..(n + 1) -> ST]
  BY <1>2, <1>3
<1>5. /\ Expected(n) \in Seq(ST) /\ Len(Expected(n)) = n
      /\ Expected(n + 1) \in Seq(ST) /\ Len(Expected(n + 1)) = n + 1
  BY <1>2, <1>4
<1>6. tok(n + 1) \in ST
  BY <1>3
<1>7. /\ Append(Expected(n), tok(n + 1)) \in Seq(ST)
      /\ Len(Append(Expected(n), tok(n + 1))) = n + 1
      /\ Append(Expected(n), tok(n + 1))[n + 1] = tok(n + 1)
      /\ \A i \in 1..n : Append(Expected(n), tok(n + 1))[i] = Expected(n)[i]
  BY <1>5, <1>6, AppendProperties
<1>8. \A i \in 1..(n + 1) : Expected(n + 1)[i] = Append(Expected(n), tok(n + 1))[i]
  <2> SUFFICES ASSUME NEW i \in 1..(n + 1)
               PROVE  Expected(n + 1)[i] = Append(Expected(n), tok(n + 1))[i]
    OBVIOUS
  <2>1. Expected(n + 1)[i] = tok(i) /\ (i \in 1..n => Expected(n)[i] = tok(i))
    BY <1>2
  <2>2. i \in 1..n \/ i = n + 1
    OBVIOUS
  <2> QED BY <1>7, <2>1, <2>2
<1>9. Expected(n + 1) = Append(Expected(n), tok(n + 1))
  BY <1>5, <1>7, <1>8, SeqEqual
<1>10. FlattenSeq(Append(Expected(n), tok(n + 1))) = FlattenSeq(Expected(n)) \o tok(n + 1)
  BY <1>5, <1>6, FlattenSeqAppend DEF ST
<1> QED BY <1>9, <1>10 DEF tok

\* The frames that arrive later change nothing about the earlier ones.
LEMMA ExpectedKept ==
  ASSUME arrived \in Seq(Frame), NEW batch \in Seq(Frame), arrived' = arrived \o batch
  PROVE  \A i \in 1..Len(arrived) : arrived'[i] = arrived[i]
<1> SUFFICES ASSUME NEW i \in 1..Len(arrived) PROVE arrived'[i] = arrived[i]
  OBVIOUS
<1>1. Len(arrived) \in Nat /\ Len(batch) \in Nat
  BY LenProperties
<1>2. i \in 1..(Len(arrived) + Len(batch)) /\ i <= Len(arrived)
  BY <1>1
<1> QED BY <1>2, ConcatProperties

\* Which frames the loop of feed() has still to write.
LEMMA PendingStep == DInv /\ Pending /\ [Next]_vars => Pending'
<1> SUFFICES ASSUME DInv, Pending, [Next]_vars PROVE Pending'
  OBVIOUS
<1>0. /\ out \in Seq(Frame) /\ arrived \in Seq(Frame) /\ pos \in 1..(Len(out) + 1)
      /\ stats.frames_written \in Nat /\ Len(out) \in Nat /\ Len(arrived) \in Nat
      /\ pc \in {"down", "idle", "syncing", "writing", "throwing"}
  <2>1. out \in Seq(Frame) /\ arrived \in Seq(Frame) /\ pos \in 1..(Len(out) + 1)
        /\ pc \in {"down", "idle", "syncing", "writing", "throwing"}
    BY DEF DInv, TypeOK
  <2>2. stats.frames_written \in Nat
    BY DEF DInv, TypeOK
  <2> QED BY <2>1, <2>2, LenProperties
<1>1. CASE UNCHANGED <<out, pos, arrived, stats>>
           /\ (pc' = pc \/ (pc = "idle" /\ pc' = "syncing") \/ pc' \in {"throwing", "down"})
  BY <1>0, <1>1 DEF Pending
<1>2. CASE Construct
  <2>1. pc' = "idle" /\ arrived' = <<>> /\ stats'.frames_written = 0
    BY <1>2 DEF Construct, NoStats
  <2>2. Len(<<>>) = 0
    BY EmptySeq
  <2> QED BY <2>1, <2>2 DEF Pending
<1>3. CASE Feed
  BY <1>1, <1>3, FeedEffect DEF DInv, OpenEffect
<1>4. ASSUME NEW batch \in Batches, NEW fs \in Drops, Synced(batch, fs) PROVE Pending'
  <2>1. /\ pc = "syncing" /\ pc' = "writing" /\ out' = batch /\ pos' = 1
           /\ arrived' = arrived \o batch
        /\ stats' = [stats EXCEPT !.crc_failed = @ + (fs.crc_failed - prev.crc_failed),
                            !.length_invalid = @ + (fs.length_invalid - prev.length_invalid),
                            !.resyncs = @ + (fs.resyncs - prev.resyncs)]
    BY <1>4 DEF Synced, Emitted
  <2>2. stats'.frames_written = stats.frames_written
    BY <2>1 DEF DInv, TypeOK
  <2>3. batch \in Seq(Frame) /\ Len(batch) \in Nat
    BY <1>0, BatchType, LenProperties
  <2>4. Len(arrived') = Len(arrived) + Len(batch)
        /\ \A k \in 1..(Len(arrived) + Len(batch)) :
             arrived'[k] = IF k <= Len(arrived) THEN arrived[k] ELSE batch[k - Len(arrived)]
    BY <1>0, <2>1, <2>3, ConcatProperties
  <2>5. stats.frames_written = Len(arrived)
    BY <2>1 DEF Pending
  <2>6. ASSUME NEW k \in 1..Len(batch)
        PROVE  batch[k] = arrived'[(Len(arrived) + 1) + (k - 1)]
    <3>1. (Len(arrived) + 1) + (k - 1) = Len(arrived) + k
          /\ Len(arrived) + k \in 1..(Len(arrived) + Len(batch))
          /\ ~(Len(arrived) + k <= Len(arrived)) /\ (Len(arrived) + k) - Len(arrived) = k
      BY <1>0, <2>3
    <3> QED BY <2>4, <3>1
  <2>7. Len(out') - (pos' - 1) = Len(arrived') - stats'.frames_written
    BY <1>0, <2>1, <2>2, <2>3, <2>4, <2>5
  <2>8. \A k \in pos'..Len(out') : out'[k] = arrived'[(stats'.frames_written + 1) + (k - pos')]
    BY <2>1, <2>2, <2>5, <2>6
  <2> QED BY <2>1, <2>7, <2>8 DEF Pending
<1>5. CASE WriteFrame
  <2>1. /\ pc = "writing" /\ pos <= Len(out) /\ pos' = pos + 1 /\ UNCHANGED <<out, arrived>>
        /\ stats'.frames_written = stats.frames_written + 1
    BY <1>5, WriteFrameEffect DEF DInv
  <2>2. pc' \in {"writing", "throwing"}
    BY <1>5, <2>1, WriteFrameEffect DEF DInv, Buffers, Rotates, OpenEffect
  <2>3. /\ Len(out) - (pos - 1) = Len(arrived) - stats.frames_written
        /\ \A k \in pos..Len(out) : out[k] = arrived[(stats.frames_written + 1) + (k - pos)]
    BY <2>1 DEF Pending
  <2> DEFINE n == stats.frames_written
             l == Len(out)
             m == Len(arrived)
  <2>a. n \in Nat /\ l \in Nat /\ m \in Nat /\ pos \in Nat /\ l - (pos - 1) = m - n
    BY <1>0, <2>3
  <2>b. Len(out') = l /\ Len(arrived') = m /\ stats'.frames_written = n + 1 /\ pos' = pos + 1
    BY <2>1
  <2> HIDE DEF n, l, m
  <2>4. Len(out') - (pos' - 1) = Len(arrived') - stats'.frames_written
    <3>1. l - ((pos + 1) - 1) = m - (n + 1)
      BY <2>a
    <3> QED BY <2>b, <3>1
  <2>5. ASSUME NEW k \in (pos + 1)..l
        PROVE  out[k] = arrived[((n + 1) + 1) + (k - (pos + 1))]
    <3>1. k \in pos..l /\ ((n + 1) + 1) + (k - (pos + 1)) = (n + 1) + (k - pos)
      BY <2>a
    <3> QED BY <2>3, <3>1 DEF n, l
  <2>6. \A k \in pos'..Len(out') : out'[k] = arrived'[(stats'.frames_written + 1) + (k - pos')]
    BY <2>1, <2>b, <2>5
  <2> QED BY <2>2, <2>4, <2>6 DEF Pending
<1>6. CASE FeedReturn
  <2>1. pc = "writing" /\ pos > Len(out) /\ pc' = "idle" /\ UNCHANGED <<stats, arrived>>
    BY <1>6 DEF FeedReturn, memory
  <2>2. Len(out) - (pos - 1) = Len(arrived) - stats.frames_written
    BY <2>1 DEF Pending
  <2>3. pos = Len(out) + 1
    BY <1>0, <2>1
  <2>4. stats.frames_written = Len(arrived)
    BY <1>0, <2>2, <2>3
  <2> QED BY <2>1, <2>4 DEF Pending
<1>7. WriteFails \/ StdioFlush \/ Close \/ Crash \/ Tick \/ UNCHANGED vars =>
        UNCHANGED <<out, pos, arrived, stats>> /\ (pc' = pc \/ pc' \in {"throwing", "down"})
  BY DEF WriteFails, StdioFlush, Close, Crash, Tick, vars, memory
<1> QED BY <1>1, <1>2, <1>3, <1>4, <1>5, <1>6, <1>7 DEF Next

\* What EverythingRecorded says of the tokens written.
Recorded ==
  pc \in {"idle", "syncing", "writing"} /\ lost = 0 =>
    /\ Recording = FlattenSeq(Expected(stats.frames_written))
    /\ Bytes(Recording) = stats.bytes_written

\* The recording is what the files hold and what is in the buffer.
LEMMA RecordingParts ==
  /\ Recording = FlattenSeq(PartsOf(files, run)) \o buffered
  /\ Recording' = FlattenSeq(PartsOf(files', run')) \o buffered'
BY DEF Recording, PartsOf

\* A step that writes nothing.
LEMMA RecordedKept ==
  ASSUME Recorded, FlattenSeq(PartsOf(files', run')) = FlattenSeq(PartsOf(files, run)),
         UNCHANGED <<buffered, stats, arrived>>, lost' = 0 => lost = 0,
         pc \in {"idle", "syncing", "writing"} \/ pc' \in {"down", "throwing"}
  PROVE  Recorded'
<1>1. Recording' = Recording
  BY RecordingParts
<1>2. Expected(stats.frames_written)' = Expected(stats.frames_written)
  BY DEF Expected
<1> QED BY <1>1, <1>2 DEF Recorded

\* What is flushed to the open file is appended to the files' part.
LEMMA FlushedParts ==
  ASSUME DInv, NEW gs \in Seq(File), NEW t \in Seq(Token), Extends(files, gs, t), fp = TRUE
  PROVE  FlattenSeq(PartsOf(gs, run)) = FlattenSeq(PartsOf(files, run)) \o t
<1>1. PICK fs \in Seq(File) : fs = files
  BY DEF DInv, TypeOK
<1>2. PICK r : r = run
  OBVIOUS
<1>3. fs[Len(fs)].run = r
  BY <1>1, <1>2 DEF DInv, Directory
<1>4. Extends(fs, gs, t)
  BY <1>1
<1>5. FlattenSeq(PartsOf(gs, r)) = FlattenSeq(PartsOf(fs, r)) \o t
  BY <1>3, <1>4, PartsExtends
<1> QED BY <1>1, <1>2, <1>5

\* Every step keeps Recorded.
LEMMA RecordedStep == DInv /\ DInv' /\ Pending /\ Recorded /\ [Next]_vars => Recorded'
<1> SUFFICES ASSUME DInv, DInv', Pending, Recorded, [Next]_vars PROVE Recorded'
  OBVIOUS
<1>0. /\ files \in Seq(File) /\ files' \in Seq(File) /\ buffered \in Seq(Token)
      /\ arrived \in Seq(Frame) /\ lost \in Nat /\ lost' \in Nat /\ fp \in BOOLEAN
      /\ pc \in {"down", "idle", "syncing", "writing", "throwing"}
      /\ stats.frames_written \in Nat /\ stats.bytes_written \in Nat
      /\ stats \in StatsType
  BY DEF DInv, TypeOK, StatsType
<1>00. files \in Seq(File) /\ files' \in Seq(File)
  BY <1>0
<1>1. PICK P \in Seq(Token) : P = FlattenSeq(PartsOf(files, run))
  BY <1>0, PartsType
<1>2. Recording = P \o buffered /\ Recording \in Seq(Token)
  BY <1>0, <1>1, RecordingParts, ConcatProperties
\* What is flushed is appended to the files' part of the recording.
<1>15. \A gs \in Seq(File), t \in Seq(Token) :
         Extends(files, gs, t) /\ fp = TRUE => FlattenSeq(PartsOf(gs, run)) = P \o t
  <2>1. ASSUME NEW gs \in Seq(File), NEW t \in Seq(Token), Extends(files, gs, t), fp = TRUE
        PROVE  FlattenSeq(PartsOf(gs, run)) = P \o t
    <3>2. FlattenSeq(PartsOf(gs, run)) = FlattenSeq(PartsOf(files, run)) \o t
      BY <2>1, FlushedParts
    <3> QED BY <1>1, <3>2
  <2> QED BY <2>1
\* Opening a file leaves the recording as it is.
<1>3. ASSUME NEW fs \in Seq(File), NEW next, OpenEffect(fs, next), fp' = TRUE,
             \A i \in 1..Len(fs) : fs[i].run = run => fs[i].name.seq <= seq
      PROVE  FlattenSeq(PartsOf(files', run)) = FlattenSeq(PartsOf(fs, run))
  <2>1. Opens(fs, files')
    BY <1>3 DEF OpenEffect
  <2>2. ASSUME NEW i \in 1..Len(fs), fs[i].run = run PROVE fs[i].name # FileName
    <3>1. FileName.seq = seq + 1 /\ seq \in Nat /\ fs[i].name.seq \in Nat
      BY ElementOfSeq, FileFields DEF FileName, DInv, TypeOK
    <3> QED BY <1>3, <2>2, <3>1
  <2> QED BY <1>0, <2>1, <2>2, PartsOpens
<1>4. CASE Construct
  <2>1. /\ run' = run + 1 /\ UNCHANGED <<files, buffered>> /\ pc = "down"
        /\ stats'.frames_written = 0 /\ stats'.bytes_written = 0
    BY <1>4 DEF Construct, NoStats
  <2>2. buffered = <<>>
    BY <2>1 DEF DInv, TypeOK, Directory
  <2>3. PICK ps \in Seq(Seq(Token)) :
        /\ ps = PartsOf(files, run') /\ Len(ps) = Len(files)
        /\ \A i \in 1..Len(files) :
           ps[i] = IF files[i].run = run' THEN files[i].content ELSE <<>>
    BY <1>0, PartsType
  <2>4. \A i \in 1..Len(files) : files[i].run # run'
    <3> SUFFICES ASSUME NEW i \in 1..Len(files) PROVE files[i].run # run'
      OBVIOUS
    <3>1. files[i].run \in Nat /\ run \in Nat /\ files[i].run <= run
      BY DirectoryIndices DEF DInv, Directory
    <3> QED BY <2>1, <3>1
  <2>5. FlattenSeq(ps) = <<>>
    <3>1. Len(ps) \in Nat /\ (\A i \in 1..Len(ps) : ps[i] = <<>>) /\ (Len(ps) = 0 => ps = <<>>)
      BY <2>3, <2>4, LenProperties, EmptySeq
    <3> QED BY <3>1, FlattenSeqAllEmpty
  <2>6. Recording' = <<>>
    <3>1. <<>> \o <<>> = <<>>
      BY EmptySeq, ConcatEmptySeq
    <3> QED BY <2>1, <2>2, <2>3, <2>5, <3>1, RecordingParts
  <2>7. FlattenSeq(Expected(stats.frames_written))' = <<>>
    <3>1. Expected(stats.frames_written)' = [i \in 1..0 |-> Tokens(arrived'[i])]
      BY <2>1 DEF Expected
    <3>2. [i \in 1..0 |-> Tokens(arrived'[i])] = <<>>
      OBVIOUS
    <3> QED BY <3>1, <3>2, FlattenSeqEmpty
  <2> QED BY <2>1, <2>6, <2>7, BytesEmpty DEF Recorded
<1>5. CASE Feed
  <2>0. pc = "idle" /\ UNCHANGED <<stats, arrived, buffered, lost, run>>
    BY <1>5, FeedEffect DEF DInv
  <2>1. CASE UNCHANGED files
    BY <2>0, <2>1, RecordedKept
  <2>2. CASE OpenEffect(files, "syncing")
    <3>1. CASE fp' = TRUE
      <4>1. \A i \in 1..Len(files) : files[i].run = run => files[i].name.seq <= seq
        BY <2>0, DirectoryIndices DEF DInv, Directory
      <4>2. FlattenSeq(PartsOf(files', run)) = FlattenSeq(PartsOf(files, run))
        BY <1>0, <1>3, <2>2, <3>1, <4>1
      <4> QED BY <2>0, <4>2, RecordedKept
    <3>2. CASE fp' # TRUE
      <4>1. pc' = "throwing"
        BY <2>2, <3>2 DEF OpenEffect
      <4> QED BY <4>1 DEF Recorded
    <3> QED BY <3>1, <3>2
  <2> QED BY <1>5, <2>1, <2>2, FeedEffect DEF DInv
<1>6. ASSUME NEW batch \in Batches, NEW fs \in Drops, Synced(batch, fs) PROVE Recorded'
  <2>1. /\ pc = "syncing" /\ arrived' = arrived \o batch
        /\ UNCHANGED <<files, run, buffered, lost>>
        /\ stats' = [stats EXCEPT !.crc_failed = @ + (fs.crc_failed - prev.crc_failed),
                            !.length_invalid = @ + (fs.length_invalid - prev.length_invalid),
                            !.resyncs = @ + (fs.resyncs - prev.resyncs)]
    BY <1>6 DEF Synced
  <2>2. stats'.frames_written = stats.frames_written
        /\ stats'.bytes_written = stats.bytes_written
    BY <1>0, <2>1 DEF StatsType
  <2>3. batch \in Seq(Frame)
    BY <1>0, BatchType
  <2>4. stats.frames_written = Len(arrived)
    BY <2>1 DEF Pending
  <2>6. Expected(stats.frames_written)' = Expected(stats.frames_written)
    <3>1. \A i \in 1..Len(arrived) : arrived'[i] = arrived[i]
      BY <1>0, <2>1, <2>3, ExpectedKept
    <3> QED BY <2>2, <2>4, <3>1 DEF Expected
  <2>7. Recording' = Recording
    BY <2>1, RecordingParts
  <2> QED BY <2>1, <2>2, <2>6, <2>7 DEF Recorded
<1>7. CASE WriteFrame
  <2> DEFINE f == out[pos]
             n == stats.frames_written
  <2>0. /\ pc = "writing" /\ fp = TRUE /\ pos <= Len(out) /\ UNCHANGED <<arrived, run>>
           /\ f \in Frame
        /\ stats'.frames_written = n + 1
        /\ stats'.bytes_written = stats.bytes_written + f.length
    BY <1>7, WriteFrameEffect DEF DInv
  <2>1. f = arrived[n + 1] /\ n + 1 <= Len(arrived)
    <3>1. pos \in Nat /\ Len(out) \in Nat /\ Len(arrived) \in Nat /\ pos \in pos..Len(out)
      <4>1. pos \in Nat /\ out \in Seq(Frame)
        BY DEF DInv, TypeOK
      <4> QED BY <1>0, <2>0, <4>1, LenProperties
    <3>2. /\ Len(out) - (pos - 1) = Len(arrived) - n
          /\ \A k \in pos..Len(out) : out[k] = arrived[(n + 1) + (k - pos)]
      BY <2>0 DEF Pending
    <3>3. (n + 1) + (pos - pos) = n + 1
      BY <1>0, <3>1
    <3>4. n + 1 <= Len(arrived)
      BY <1>0, <2>0, <3>1, <3>2
    <3> QED BY <3>1, <3>2, <3>3, <3>4
  <2> HIDE DEF f
  <2>2. PICK b \in Seq(Token) : b = buffered \o Tokens(f)
    BY <1>0, <2>0, TokensType, ConcatProperties
  <2>3. P \o b = Recording \o Tokens(f)
    <3>1. PICK t \in Seq(Token), u \in Seq(Token) : t = Tokens(f) /\ u = buffered
      BY <1>0, <2>0, TokensType
    <3>2. (P \o u) \o t = P \o (u \o t)
      BY ConcatAssociative
    <3> QED BY <1>2, <2>2, <3>1, <3>2
  <2>4. Bytes(Recording \o Tokens(f)) = Bytes(Recording) + f.length
    BY <1>2, <2>0, BytesOfFrame
  <2>5. FlattenSeq(Expected(n + 1)) = FlattenSeq(Expected(n)) \o Tokens(f)
    BY <1>0, <2>1, ExpectedNext
  <2>6. Expected(stats.frames_written)' = Expected(n + 1)
    BY <2>0 DEF Expected
  <2>7. ASSUME Recording' = P \o b, lost = 0 PROVE Recorded'
    <3>1. Recording = FlattenSeq(Expected(n)) /\ Bytes(Recording) = stats.bytes_written
      BY <2>0, <2>7 DEF Recorded
    <3>2. Recording' = FlattenSeq(Expected(n + 1))
      BY <2>3, <2>5, <2>7, <3>1
    <3>3. Bytes(Recording') = stats'.bytes_written
      BY <2>0, <2>3, <2>4, <2>7, <3>1
    <3>4. Recording' = FlattenSeq(Expected(stats.frames_written)')
      BY <2>6, <3>2
    <3>5. Bytes(Recording)' = Bytes(Recording')
      BY DEF Bytes, Size, HeaderSize
    <3>6. FlattenSeq(Expected(stats.frames_written))' = FlattenSeq(Expected(stats.frames_written)')
      BY DEF FlattenSeq
    <3> QED BY <3>3, <3>4, <3>5, <3>6 DEF Recorded
  <2>8. CASE Buffers(f)
    <3>1. buffered' = b /\ UNCHANGED <<files, lost, run>>
      BY <2>0, <2>2, <2>8 DEF Buffers
    <3>2. Recording' = P \o b
      BY <1>1, <3>1, RecordingParts
    <3>3. CASE lost = 0
      BY <2>7, <3>2, <3>3
    <3>4. CASE lost # 0
      BY <3>1, <3>4 DEF Recorded
    <3> QED BY <3>3, <3>4
  <2>9. CASE Rotates(f)
    <3>1. PICK fs \in Seq(File), k \in Nat :
            /\ Flush(fs, b, k) /\ OpenEffect(fs, "writing") /\ buffered' = <<>>
            /\ lost' = lost + (Len(b) - k)
      BY <2>2, <2>9 DEF Rotates
    <3>2. k \in 0..Len(b) /\ Extends(files, fs, SubSeq(b, 1, k)) /\ Len(b) \in Nat
      BY <3>1, LenProperties DEF Flush
    <3>3. CASE lost' # 0
      BY <3>3 DEF Recorded
    <3>4. CASE fp' # TRUE
      <4>1. pc' = "throwing"
        BY <3>1, <3>4 DEF OpenEffect
      <4> QED BY <4>1 DEF Recorded
    <3>5. CASE lost' = 0 /\ fp' = TRUE
      <4>1. lost = 0 /\ k = Len(b)
        BY <1>0, <3>1, <3>2, <3>5
      <4>2. SubSeq(b, 1, k) = b
        BY <3>2, <4>1, Split
      <4>4. FlattenSeq(PartsOf(fs, run)) = P \o b
        <5>1. Extends(files, fs, b)
          BY <3>2, <4>2
        <5> QED BY <1>15, <2>0, <5>1
      <4>5. \A i \in 1..Len(fs) : fs[i].run = run => fs[i].name.seq <= seq
        <5>1. \A i \in 1..Len(files) : files[i].run = run => files[i].name.seq <= seq
          BY <2>0, DirectoryIndices DEF DInv, Directory
        <5>2. /\ Len(fs) = Len(files)
              /\ \A i \in 1..Len(files) : fs[i].name = files[i].name /\ fs[i].run = files[i].run
          BY <3>2 DEF Extends
        <5> QED BY <5>1, <5>2
      <4>6. FlattenSeq(PartsOf(files', run)) = FlattenSeq(PartsOf(fs, run))
        BY <1>3, <3>1, <3>5, <4>5
      <4>7. Recording' = (P \o b) \o <<>>
        BY <2>0, <3>1, <4>4, <4>6, RecordingParts
      <4>8. (P \o b) \o <<>> = P \o b
        <5>1. P \o b \in Seq(Token)
          BY ConcatProperties
        <5> QED BY <5>1, ConcatEmptySeq
      <4> QED BY <2>7, <4>1, <4>7, <4>8
    <3> QED BY <3>3, <3>4, <3>5
  <2> QED BY <1>7, <2>8, <2>9, WriteFrameEffect DEF DInv, f
<1>8. CASE StdioFlush
  <2>1. fp = TRUE /\ pc = "writing" /\ UNCHANGED <<pc, stats, arrived, run, lost>>
    BY <1>8, StdioFlushEffect DEF DInv, memory
  <2>2. PICK k \in 0..Len(buffered) :
              /\ Extends(files, files', SubSeq(buffered, 1, k))
              /\ buffered' = SubSeq(buffered, k + 1, Len(buffered))
    BY <1>8, StdioFlushEffect DEF DInv
  <2>3. PICK p \in Seq(Token), q \in Seq(Token) :
          p = SubSeq(buffered, 1, k) /\ q = SubSeq(buffered, k + 1, Len(buffered))
          /\ p \o q = buffered
    BY <1>0, Split
  <2>5. FlattenSeq(PartsOf(files', run)) = P \o p
    <3>1. Extends(files, files', p)
      BY <2>2, <2>3
    <3> QED BY <1>15, <1>00, <2>1, <3>1
  <2>6. Recording' = (P \o p) \o q
    BY <2>1, <2>2, <2>3, <2>5, RecordingParts
  <2>7. (P \o p) \o q = P \o (p \o q)
    BY ConcatAssociative
  <2>8. Recording' = Recording
    BY <1>2, <2>3, <2>6, <2>7
  <2>9. Expected(stats.frames_written)' = Expected(stats.frames_written)
    BY <2>1 DEF Expected
  <2> QED BY <2>1, <2>8, <2>9 DEF Recorded
<1>9. CASE pc' \in {"down", "throwing"}
  BY <1>9 DEF Recorded
<1>10. CASE UNCHANGED <<files, run, buffered, stats, arrived, lost>>
            /\ pc \in {"idle", "syncing", "writing"}
  BY <1>10, RecordedKept
<1>11. WriteFails \/ Close \/ Crash => pc' \in {"down", "throwing"}
  BY DEF WriteFails, Close, Crash
<1>12. FeedReturn => UNCHANGED <<files, run, buffered, stats, arrived, lost>> /\ pc = "writing"
  BY DEF FeedReturn, memory
<1>13. Tick \/ UNCHANGED vars => UNCHANGED <<files, run, buffered, stats, arrived, lost>>
       /\ UNCHANGED pc
  BY DEF Tick, vars, memory
<1>14. pc \in {"idle", "syncing", "writing"} \/ pc \in {"down", "throwing"}
  BY <1>0
<1> QED BY <1>4, <1>5, <1>6, <1>7, <1>8, <1>9, <1>10, <1>11, <1>12, <1>13, <1>14 DEF Next

\* Every frame SbfFrameSync emits is on disk or in stdio's buffer, whole, once
\* and in order, across all feeds and rotations, and frames_written and
\* bytes_written agree with it, as long as no flush has failed unnoticed.
THEOREM AllRecorded == Spec => []EverythingRecorded
<1> DEFINE K == DInv /\ Pending /\ Recorded
<1>1. Init => K
  <2>1. Init => Pending /\ Recorded
    BY DEF Init, Pending, Recorded
  <2> QED BY <2>1, InitType, InitDirectory DEF DInv
<1>2. K /\ [Next]_vars => K'
  <2> SUFFICES ASSUME K, [Next]_vars PROVE K'
    OBVIOUS
  <2>1. DInv'
    BY NextType, DirectoryStep DEF DInv
  <2> QED BY <2>1, PendingStep, RecordedStep
<1>3. K => EverythingRecorded
  BY DEF Pending, Recorded, EverythingRecorded, Expected
<1> HIDE DEF K
<1> QED BY <1>1, <1>2, <1>3, PTL DEF Spec
=============================================================================
