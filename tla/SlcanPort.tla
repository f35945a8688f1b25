------------------------------ MODULE SlcanPort ------------------------------
(***************************************************************************)
(* The open SLCAN port of internal/slcan/slcan.go: the reader goroutine    *)
(* (readLoop), the bounded channel it fills, and the caller's operations   *)
(* Recv, Flush, Drain and Close, running concurrently.                     *)
(*                                                                         *)
(* The device writes lines; what a line says is reduced to the number of   *)
(* the CAN frame it carries, as two bytes and a terminator, or to one byte *)
(* that parses as no frame.  The serial driver hands the reader any part   *)
(* of what is waiting, so chunk boundaries fall anywhere.  The wire holds  *)
(* WireCap bytes and then blocks the device (USB flow control).            *)
(***************************************************************************)
EXTENDS Integers, Sequences

CONSTANTS
    ChanCap,    \* capacity of the frames channel (code: 16384)
    WireCap,    \* bytes the tty and the USB pipe hold
    ChunkCap,   \* bytes one Read returns at most (code: 4096)
    MaxFrames,  \* bound: frames the device sends
    MaxJunk,    \* bound: lines that are no frame
    MaxRecvs    \* bound: Recv, Flush and Drain calls

ASSUME PortAssumption ==
    /\ ChanCap \in Nat \ {0} /\ WireCap \in Nat \ {0} /\ ChunkCap \in Nat \ {0}
    /\ MaxFrames \in Nat /\ MaxJunk \in Nat /\ MaxRecvs \in Nat

VARIABLES
    wire,      \* bytes written by the device and not yet read
    sent,      \* frames sent by the device; the next is number sent + 1
    junk,      \* other lines sent
    alive,     \* the serial port still exists: not closed, not unplugged
    reader,    \* "top", "read", "scan", "push" or "stopped"
    tmp,       \* the part of the chunk not yet scanned
    line,      \* bytes since the last terminator
    held,      \* the frame being pushed into the channel
    frames,    \* the channel
    done,      \* the done channel is closed
    host,      \* "idle", "recv", "flush", "drain", "closing" or "closed"
    taken,     \* number of the last frame taken out of the channel
    got,       \* what the last Recv returned: a frame number, 0 for ErrTimeout
    buffered,  \* the last frame in the channel when the last Flush began
    recvs      \* calls of Recv, Flush and Drain

deviceVars == <<wire, sent, junk>>
readerVars == <<reader, tmp, line, held>>
hostVars == <<done, host, taken, got, buffered, recvs>>
vars == <<deviceVars, alive, readerVars, frames, hostVars>>

Part(n, k) == [frame |-> n, part |-> k]
CR == Part(0, 0)
FrameLine(n) == <<Part(n, 1), Part(n, 2), CR>>
JunkLine == <<Part(0, 1), CR>>

(* parseFrame accepts a line that begins with a whole frame; bytes after   *)
(* it are ignored.                                                         *)
Parses(bytes) ==
    /\ Len(bytes) >= 2
    /\ bytes[1].frame = bytes[2].frame
    /\ bytes[1].part = 1 /\ bytes[2].part = 2

(* Open returns from here: the reader runs while Open drains the port.     *)
Init ==
    /\ wire = <<>> /\ sent = 0 /\ junk = 0 /\ alive = TRUE
    /\ reader = "top" /\ tmp = <<>> /\ line = <<>> /\ held = 0
    /\ frames = <<>> /\ done = FALSE
    /\ host = "drain" /\ taken = 0 /\ got = 0 /\ recvs = 0
    /\ buffered = 0

-----------------------------------------------------------------------------
(* The device.                                                             *)
Write(bytes) ==
    /\ alive
    /\ Len(wire) + Len(bytes) <= WireCap
    /\ wire' = wire \o bytes
    /\ UNCHANGED <<alive, readerVars, frames, hostVars>>

DeviceFrame ==
    /\ sent < MaxFrames
    /\ Write(FrameLine(sent + 1))
    /\ sent' = sent + 1 /\ UNCHANGED junk

DeviceJunk ==
    /\ junk < MaxJunk
    /\ Write(JunkLine)
    /\ junk' = junk + 1 /\ UNCHANGED sent

Unplug ==
    /\ alive
    /\ alive' = FALSE /\ wire' = <<>>
    /\ UNCHANGED <<sent, junk, readerVars, frames, hostVars>>

-----------------------------------------------------------------------------
(* readLoop.                                                               *)
ReaderTop ==
    /\ reader = "top"
    /\ reader' = IF done THEN "stopped" ELSE "read"
    /\ UNCHANGED <<deviceVars, alive, tmp, line, held, frames, hostVars>>

(* Read returns some of the bytes, or none after its 50 ms timeout.        *)
ReaderRead ==
    /\ reader = "read" /\ alive
    /\ \E n \in 0..ChunkCap :
          /\ n <= Len(wire)
          /\ tmp' = SubSeq(wire, 1, n)
          /\ wire' = SubSeq(wire, n + 1, Len(wire))
    /\ reader' = "scan"
    /\ UNCHANGED <<sent, junk, alive, line, held, frames, hostVars>>

(* Read fails: stop if closing, else try again at once.                    *)
ReaderError ==
    /\ reader = "read" /\ ~alive
    /\ reader' = IF done THEN "stopped" ELSE "top"
    /\ UNCHANGED <<deviceVars, alive, tmp, line, held, frames, hostVars>>

(* Mutated form: the line starts anew with every chunk.                    *)
ReaderChunkDoneForgetsLine ==
    /\ reader = "scan" /\ tmp = <<>>
    /\ reader' = "top" /\ line' = <<>>
    /\ UNCHANGED <<deviceVars, alive, tmp, held, frames, hostVars>>

ReaderChunkDone ==
    /\ reader = "scan" /\ tmp = <<>>
    /\ reader' = "top"
    /\ UNCHANGED <<deviceVars, alive, tmp, line, held, frames, hostVars>>

ReaderByte ==
    /\ reader = "scan" /\ tmp # <<>> /\ Head(tmp) # CR
    /\ line' = Append(line, Head(tmp))
    /\ tmp' = Tail(tmp)
    /\ UNCHANGED <<deviceVars, alive, reader, held, frames, hostVars>>

ReaderLine ==
    /\ reader = "scan" /\ tmp # <<>> /\ Head(tmp) = CR
    /\ IF Parses(line)
       THEN reader' = "push" /\ held' = line[1].frame
       ELSE UNCHANGED <<reader, held>>
    /\ line' = <<>>
    /\ tmp' = Tail(tmp)
    /\ UNCHANGED <<deviceVars, alive, frames, hostVars>>

(* Mutated form: a frame that does not fit the channel is dropped.         *)
ReaderPushOrDrop ==
    /\ reader = "push"
    /\ frames' = IF Len(frames) < ChanCap THEN Append(frames, held) ELSE frames
    /\ reader' = "scan" /\ held' = 0
    /\ UNCHANGED <<deviceVars, alive, tmp, line, hostVars>>

(* Mutated form: the channel has no bound.                                 *)
ReaderPushUnbounded ==
    /\ reader = "push"
    /\ frames' = Append(frames, held)
    /\ reader' = "scan" /\ held' = 0
    /\ UNCHANGED <<deviceVars, alive, tmp, line, hostVars>>

(* "Blocking send: never drop."                                            *)
ReaderPush ==
    /\ reader = "push" /\ Len(frames) < ChanCap
    /\ frames' = Append(frames, held)
    /\ reader' = "scan" /\ held' = 0
    /\ UNCHANGED <<deviceVars, alive, tmp, line, hostVars>>

(* Mutated form: the send into the channel does not watch done.            *)
ReaderAbandonNever == FALSE /\ UNCHANGED vars

(* The select's other case: closing while the channel is full.             *)
ReaderAbandon ==
    /\ reader = "push" /\ done
    /\ reader' = "stopped"
    /\ UNCHANGED <<deviceVars, alive, tmp, line, held, frames, hostVars>>

Reader ==
    \/ ReaderTop \/ ReaderRead \/ ReaderError \/ ReaderChunkDone
    \/ ReaderByte \/ ReaderLine \/ ReaderPush \/ ReaderAbandon

-----------------------------------------------------------------------------
(* The caller.                                                             *)
TakeFrame ==
    /\ frames # <<>>
    /\ taken' = Head(frames) /\ frames' = Tail(frames)

Start(what) ==
    /\ host = "idle" /\ recvs < MaxRecvs
    /\ host' = what /\ recvs' = recvs + 1 /\ got' = 0
    /\ UNCHANGED <<deviceVars, alive, readerVars, frames, done, taken>>

StartRecv == Start("recv") /\ UNCHANGED buffered
StartDrain == Start("drain") /\ UNCHANGED buffered

StartFlush ==
    /\ Start("flush")
    /\ buffered' = IF frames = <<>> THEN taken ELSE frames[Len(frames)]

RecvFrame ==
    /\ host = "recv" /\ TakeFrame
    /\ got' = taken' /\ host' = "idle"
    /\ UNCHANGED <<deviceVars, alive, readerVars, done, buffered, recvs>>

(* Mutated form: Recv waits for a frame without a timer.                   *)
RecvNoTimeout == FALSE /\ UNCHANGED vars

(* The timer fired.  If a frame is there too, select may choose either.    *)
RecvTimeout ==
    /\ host = "recv"
    /\ got' = 0 /\ host' = "idle"
    /\ UNCHANGED <<deviceVars, alive, readerVars, frames, done, taken, buffered, recvs>>

Discard ==
    /\ host \in {"flush", "drain"} /\ TakeFrame
    /\ UNCHANGED <<deviceVars, alive, readerVars, done, host, got, buffered, recvs>>

(* Mutated form: the default case ends Flush while frames are buffered.    *)
FlushEndEarly ==
    /\ host = "flush"
    /\ host' = "idle"
    /\ UNCHANGED <<deviceVars, alive, readerVars, frames, done, taken, got, buffered, recvs>>

FlushEnd ==
    /\ host = "flush" /\ frames = <<>>
    /\ host' = "idle"
    /\ UNCHANGED <<deviceVars, alive, readerVars, frames, done, taken, got, buffered, recvs>>

DrainEnd ==
    /\ host = "drain"
    /\ host' = "idle"
    /\ UNCHANGED <<deviceVars, alive, readerVars, frames, done, taken, got, buffered, recvs>>

(* Close tells the reader first and closes the serial port afterwards.     *)
Close ==
    /\ host = "idle"
    /\ done' = TRUE /\ host' = "closing"
    /\ UNCHANGED <<deviceVars, alive, readerVars, frames, taken, got, buffered, recvs>>

ClosePort ==
    /\ host = "closing"
    /\ host' = "closed" /\ alive' = FALSE /\ wire' = <<>>
    /\ UNCHANGED <<sent, junk, readerVars, frames, done, taken, got, buffered, recvs>>

HostFinish == RecvFrame \/ RecvTimeout \/ Discard \/ FlushEnd \/ DrainEnd \/ ClosePort

Host == StartRecv \/ StartFlush \/ StartDrain \/ Close \/ HostFinish

Device == DeviceFrame \/ DeviceJunk \/ Unplug

Next == Device \/ Reader \/ Host

Spec == Init /\ [][Next]_vars

(* The goroutine keeps running, and so does a call: its timer fires and    *)
(* what it can do at once it does.  The caller need not start another      *)
(* call, and the device need not send.                                     *)
FairSpec ==
    /\ Spec
    /\ WF_vars(Reader)
    /\ WF_vars(RecvFrame \/ RecvTimeout)
    /\ WF_vars(Discard \/ FlushEnd)
    /\ WF_vars(DrainEnd)
    /\ WF_vars(ClosePort)
=============================================================================
