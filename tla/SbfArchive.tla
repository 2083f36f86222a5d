----------------------------- MODULE SbfArchive -----------------------------
(***************************************************************************)
(* What the recording half of the driver promises, from the receiver's     *)
(* bytes to what the offline parser reads back from the files: blocks are  *)
(* delivered as in SbfStream and archived whole, once and in order, and    *)
(* when recording is closed nothing delivered is missing.  Files, buffers  *)
(* and rotation appear nowhere.                                            *)
(*                                                                         *)
(* A fault (the process dies, the disk is full) costs a suffix: what       *)
(* remains readable is a prefix of what was delivered.  A block cut short  *)
(* by the fault is not readable itself, but the parser may find blocks     *)
(* lying inside it, even half in its header, and take them for recorded    *)
(* ones.                                                                   *)
(***************************************************************************)
EXTENDS SbfWire

VARIABLES
  stream, fed, out, origin,   \* as in SbfStream
  archive,                    \* the blocks that can be read back
  status                      \* "recording", "closed" or "failed"

vars == <<stream, fed, out, origin, archive, status>>

Blocks == INSTANCE SbfStream

Init == Blocks!Init /\ archive = <<>> /\ status = "recording"

Arrive == status = "recording" /\ Blocks!Arrive /\ UNCHANGED <<archive, status>>

Deliver == status = "recording" /\ Blocks!Deliver /\ UNCHANGED <<archive, status>>

\* The next block delivered is archived.
Record ==
  /\ status = "recording" /\ Len(archive) < Len(out)
  /\ archive' = Append(archive, out[Len(archive) + 1].frame)
  /\ UNCHANGED <<stream, fed, out, origin, status>>

\* Recording ends in good order.
Close ==
  /\ status = "recording" /\ Len(archive) = Len(out)
  /\ status' = "closed"
  /\ UNCHANGED <<stream, fed, out, origin, archive>>

\* The valid blocks that lie inside a block delivered, behind its first byte:
\* a CRC that reads '$@' may begin one.
Inside(b) ==
  LET end == b.at + b.frame.length
  IN  {FrameFields(stream, q) :
         q \in {p \in (b.at + 1)..(end - HeaderSize) : BlockAt(stream, p, end)}}

\* The first k blocks are readable, and perhaps blocks inside the next one.
PrefixReadable(a, k) ==
  /\ k <= Len(a)
  /\ \A i \in 1..k : a[i] = out[i].frame
  /\ \A i \in (k + 1)..Len(a) : k < Len(out) /\ a[i] \in Inside(out[k + 1])

Fault ==
  /\ status # "closed" /\ status' = "failed"
  /\ \E k \in 0..Len(out) : PrefixReadable(archive', k)
  /\ UNCHANGED <<stream, fed, out, origin>>

Next == Arrive \/ Deliver \/ Record \/ Close \/ Fault

Spec == Init /\ [][Next]_vars
=============================================================================
