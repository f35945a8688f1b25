------------------------------ MODULE FrameFifo ------------------------------
(***************************************************************************)
(* What the SLCAN port promises its user: the CAN frames the device sends  *)
(* come out once each, in order, and none is dropped while the port is     *)
(* open.  Afterwards the end of the queue may be missing.                  *)
(***************************************************************************)
EXTENDS Integers, Sequences

VARIABLES
    queue,    \* frames sent by the device and not yet taken
    taken,    \* number of the last frame handed to the caller or discarded
    sent,     \* frames sent by the device so far: they are numbered
    open      \* neither closed by the caller nor unplugged

vars == <<queue, taken, sent, open>>

Init == queue = <<>> /\ taken = 0 /\ sent = 0 /\ open = TRUE

Put ==
    /\ sent' = sent + 1
    /\ \/ queue' = Append(queue, sent')
       \/ ~open /\ queue' = queue
    /\ UNCHANGED <<taken, open>>

Take ==
    /\ queue # <<>>
    /\ taken' = Head(queue) /\ queue' = Tail(queue)
    /\ UNCHANGED <<sent, open>>

(* Closing, or losing the device, may cut the end of the queue.            *)
Cut ==
    /\ open' = FALSE
    /\ \E n \in 0..Len(queue) : queue' = SubSeq(queue, 1, n)
    /\ UNCHANGED <<taken, sent>>

Next == Put \/ Take \/ Cut

Spec == Init /\ [][Next]_vars
=============================================================================
