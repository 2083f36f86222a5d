----------------------------- MODULE SbfStream -----------------------------
(***************************************************************************)
(* What the frame synchronizer promises, said without a buffer, a state    *)
(* machine or feed() calls: from the end of the last block delivered, the  *)
(* next block is the leftmost valid one, delivered once every earlier      *)
(* position has been ruled out by the bytes received so far.  How the      *)
(* bytes were cut into chunks appears nowhere, so a component implementing *)
(* this specification delivers the same blocks however TCP segments the    *)
(* stream.                                                                 *)
(***************************************************************************)
EXTENDS SbfWire

VARIABLES
  stream,   \* the bytes the receiver sends on this connection
  fed,      \* how many of them have arrived
  out,      \* the blocks delivered, each with its offset in the stream
  origin    \* offset from which the next block is looked for

vars == <<stream, fed, out, origin>>

-----------------------------------------------------------------------------
\* The block a greedy left-to-right reading delivers next starts at p.
NextBlockAt(p) ==
  /\ \A q \in origin..(p - 1) : RuledOut(stream, q, fed)
  /\ BlockAt(stream, p, fed)

-----------------------------------------------------------------------------
Init ==
  /\ stream \in Streams
  /\ fed = 0
  /\ out = <<>>
  /\ origin = 0

\* More bytes arrive.
Arrive ==
  /\ \E n \in (fed + 1)..Len(stream) : fed' = n
  /\ UNCHANGED <<stream, out, origin>>

\* The next block is delivered.
Deliver ==
  /\ \E p \in origin..fed :
       /\ NextBlockAt(p)
       /\ out' = Append(out, [at |-> p, frame |-> FrameFields(stream, p)])
       /\ origin' = p + LengthAt(stream, p)
  /\ UNCHANGED <<stream, fed>>

\* Everything received and not delivered is given up (reset()).
GiveUp ==
  /\ origin' = fed
  /\ UNCHANGED <<stream, fed, out>>

Next == Arrive \/ Deliver \/ GiveUp

Spec == Init /\ [][Next]_vars
=============================================================================
