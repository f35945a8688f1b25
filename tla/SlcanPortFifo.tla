---------------------------- MODULE SlcanPortFifo ----------------------------
(***************************************************************************)
(* The properties of SlcanPort, and that it implements FrameFifo.          *)
(***************************************************************************)
EXTENDS SlcanPort, FiniteSets

TypeOK ==
    /\ wire \in Seq([frame : Nat, part : 0..2]) /\ Len(wire) <= WireCap
    /\ tmp \in Seq([frame : Nat, part : 0..2]) /\ Len(tmp) <= ChunkCap
    /\ line \in Seq([frame : Nat, part : 1..2])
    /\ sent \in 0..MaxFrames /\ junk \in 0..MaxJunk
    /\ alive \in BOOLEAN /\ done \in BOOLEAN
    /\ reader \in {"top", "read", "scan", "push", "stopped"}
    /\ held \in 0..sent
    /\ frames \in Seq(1..sent) /\ Len(frames) <= ChanCap
    /\ host \in {"idle", "recv", "flush", "drain", "closing", "closed"}
    /\ taken \in 0..sent /\ got \in 0..sent
    /\ buffered \in 0..sent
    /\ recvs \in 0..MaxRecvs

-----------------------------------------------------------------------------
(* The frames that bytes will parse to, in order: one for every terminator *)
(* that ends a line of exactly the two parts of a frame.                   *)
EndsFrame(bytes, i) ==
    /\ i >= 3 /\ bytes[i] = CR
    /\ Parses(<<bytes[i - 2], bytes[i - 1]>>)
    /\ i > 3 => bytes[i - 3] = CR

FrameEnds(bytes) == {i \in DOMAIN bytes : EndsFrame(bytes, i)}

UpTo(i, ends) == {j \in ends : j <= i}

Pending(bytes) ==
    LET ends == FrameEnds(bytes)
        Nth(k) == CHOOSE i \in ends : Cardinality(UpTo(i, ends)) = k
    IN  [k \in 1..Cardinality(ends) |-> bytes[Nth(k) - 1].frame]

(* Everything on its way to the caller.                                    *)
InFlight ==
    IF reader = "stopped" THEN frames
    ELSE frames \o (IF reader = "push" THEN <<held>> ELSE <<>>)
                \o Pending(line \o tmp \o wire)

(* "High-rate bursts are never dropped" (slcan.go:9-11, 181-182): however  *)
(* reads cut the byte stream into chunks and however full the channel, the *)
(* port is a FIFO of the frames the device sent.                           *)
FF == INSTANCE FrameFifo WITH queue <- InFlight, open <- alive /\ ~done
IsFifo == FF!Spec

(* While the port is open no frame is missing: what was taken, and what is *)
(* in flight, is everything the device sent.                               *)
NothingLost ==
    alive /\ ~done => InFlight = [i \in 1..(sent - taken) |-> taken + i]

(* The goroutine never outlives the port: once Close has begun it stops,   *)
(* even if nobody takes the frames it is blocked on.                       *)
ReaderStops == done ~> reader = "stopped"

(* Recv, Drain and Close return however much the reader delivers.  (Flush  *)
(* ends only once it finds the channel empty: nothing bounds it while      *)
(* frames keep coming.)                                                    *)
HostReturns ==
    host \in {"recv", "drain", "closing"} ~> host \in {"idle", "closed"}

(* Flush discards everything the channel held when it began.               *)
FlushDiscardsBuffered == host = "idle" /\ got # 0 => got > buffered
=============================================================================
