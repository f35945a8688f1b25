---------------------------- MODULE LogicEngine ----------------------------
(***************************************************************************)
(* One device running cycle after cycle under every stimulus a trace of    *)
(* fwmodel/model/trace.py can describe: before each cycle the levels of    *)
(* the pins, and which of the bus' frames arrive with which payload, are   *)
(* chosen anew.  seen records that stimulus, for the properties only.      *)
(***************************************************************************)
EXTENDS DingoSim, FiniteSets

CONSTANTS Configs,   \* the configurations a device may start with
          Bus(_)     \* beside one of them: for each CAN id, the data its frames may have

ASSUME ConfigsAccepted == \A c \in Configs : Accepted(c) /\ Encodable(c)

\* the settings are what load_device makes of them, and the bus has every id that is listened to
ASSUME ConfigsTyped ==
  \A c \in Configs :
    /\ Listed(c)
    /\ \A i \in DOMAIN c.inputs : c.inputs[i].debounceTime \in Nat
    /\ \A i \in DOMAIN c.canInputs :
         /\ c.canInputs[i].timeout \in Nat /\ c.canInputs[i].operator \in Operators
         /\ c.canInputs[i].id \in DOMAIN Bus(c)
         /\ c.canInputs[i].factor \in Int /\ c.canInputs[i].offset \in Int
    /\ \A i \in DOMAIN c.conditions : c.conditions[i].arg \in Int
    /\ \A i \in DOMAIN c.canOutputs :
         LET o == c.canOutputs[i]
         IN  /\ o.interval \in Nat /\ o.startBit \in Nat /\ o.bitLength \in Nat
             /\ o.bigEndian \in BOOLEAN /\ o.factor \in Int /\ o.offset \in Int
    /\ \A i \in DOMAIN c.counters : c.counters[i].minCount \in Nat /\ c.counters[i].maxCount \in Nat

VARIABLES cfg, sim, seen

vars == <<cfg, sim, seen>>

\* what may arrive in one cycle
Arrivals(c) ==
  LET bus == Bus(c)
  IN  UNION {{rx \in [ids -> UNION Range(bus)] : \A id \in ids : rx[id] \in bus[id]} :
               ids \in SUBSET DOMAIN bus}

-----------------------------------------------------------------------------
(* The history of the stimulus and of what was sent: pins are the last     *)
(* levels, stable for how long they have been so, silence how long ago the *)
(* last frame of an id came and carried its data, gap how long ago a       *)
(* CAN output was sent.  At power-on the pins count as low.                *)
SeenInit(c) ==
  [pins    |-> [p \in DOMAIN c.inputs |-> FALSE],
   stable  |-> [p \in DOMAIN c.inputs |-> -CycleMs],
   silence |-> [id \in DOMAIN Bus(c) |-> -CycleMs],
   carried |-> [id \in DOMAIN Bus(c) |-> << >>],
   gap     |-> [i \in DOMAIN c.canOutputs |-> 0],
   booted  |-> FALSE]

See(c, h, pins, rx, tx) ==
  LET older(age) == Older(age, CycleMs, MaxAge)
  IN  [pins    |-> pins,
       stable  |-> [p \in DOMAIN c.inputs |-> IF pins[p] = h.pins[p] THEN older(h.stable[p]) ELSE 0],
       silence |-> [id \in DOMAIN Bus(c) |-> IF id \in DOMAIN rx THEN 0 ELSE older(h.silence[id])],
       carried |-> [id \in DOMAIN Bus(c) |-> IF id \in DOMAIN rx THEN <<rx[id]>> ELSE h.carried[id]],
       gap     |-> [i \in DOMAIN c.canOutputs |->
                      IF c.canOutputs[i].id \in DOMAIN tx /\ i \in Assigned(c)
                      THEN 0 ELSE older(h.gap[i])],
       booted  |-> TRUE]

Init == /\ cfg \in Configs
        /\ sim = SimInit(cfg)
        /\ seen = SeenInit(cfg)

Cycle(pins, rx) == /\ sim' = Step(cfg, sim, pins, rx)
                   /\ seen' = See(cfg, seen, pins, rx, sim'.tx)
                   /\ UNCHANGED cfg

Next == \E pins \in [DOMAIN cfg.inputs -> BOOLEAN], rx \in Arrivals(cfg) : Cycle(pins, rx)

\* the device's thread never stops
Spec == Init /\ [][Next]_vars /\ []<><<TRUE>>_vars

-----------------------------------------------------------------------------
AgeT == 0..MaxAge
LatchT == [out : BOOLEAN, last : BOOLEAN]

\* the variables of the simulation keep their types
TypeOK ==
  /\ cfg \in Configs
  /\ DOMAIN sim.var = VarMap(cfg)
  /\ \A x \in VarMap(cfg) :
       sim.var[x] \in CASE x[1] = "canVal"                    -> Int
                        [] x[1] \in {"counter", "condition"} -> Nat
                        [] OTHER                             -> 0..1
  /\ sim.var[AlwaysFalse] = 0 /\ sim.var[AlwaysTrue] = 1
  /\ sim.din \in [DOMAIN cfg.inputs ->
                    [last : BOOLEAN, check : BOOLEAN, init : BOOLEAN, age : AgeT]]
  /\ sim.dinLatch \in [DOMAIN cfg.inputs -> LatchT]
  /\ sim.cinLatch \in [DOMAIN cfg.canInputs -> LatchT]
  /\ sim.viLatch \in [DOMAIN cfg.virtualInputs -> LatchT]
  /\ sim.cinAge \in [DOMAIN cfg.canInputs -> AgeT]
  /\ sim.flash \in [DOMAIN cfg.flashers -> [on : AgeT, off : AgeT]]
  /\ sim.count \in [DOMAIN cfg.counters ->
                      [inc : BOOLEAN, dec : BOOLEAN, reset : BOOLEAN, incAge : AgeT, decAge : AgeT]]
  /\ sim.data \in [FrameIds(cfg) -> SUBSET DataBits]
  /\ sim.wait \in [FrameIds(cfg) -> Nat]

\* A counter whose minCount is not above its maxCount never leaves 0..maxCount,
\* whatever its edges, its wrapping and the order of its inputs: _counter caps
\* a count up and looks at minCount only when it counts down from 0.
CountersInRange ==
  \A i \in DOMAIN cfg.counters :
    cfg.counters[i].minCount <= cfg.counters[i].maxCount
      => sim.var[<<"counter", i>>] \in 0..cfg.counters[i].maxCount

\* An output shows what its input was at the end of the cycle before, because
\* step() drives the outputs before everything but the received frames; only a
\* CAN input, and an output in a lower slot, reaches it within the cycle.  The
\* first cycle is excepted: in it the simulation drives an output that is tied to
\* AlwaysTrue, while the firmware forces every output off (fwhost/README.md,
\* Divergence 1, which calls it the model's fault; fwhost/selftest.py, 4.).
OutputsLagLogic ==
  [][\A i \in DOMAIN cfg.outputs :
       LET from == cfg.outputs[i].input
       IN  (/\ seen.booted
            /\ cfg.outputs[i].enabled /\ from[1] \notin {"canIn", "canVal", "output"})
             => sim'.var[<<"output", i>>] = Value(Level(sim.var[from]))]_vars

\* What is read of a digital input changes only after its pin has kept its
\* level for longer than debounceTime, or at the first cycle (_digin).
BouncesFiltered ==
  [][\A i \in DOMAIN cfg.inputs :
       sim'.var[<<"digIn", i>>] # sim.var[<<"digIn", i>>]
         => seen'.stable[i] > cfg.inputs[i].debounceTime \/ ~seen.booted]_vars

\* A momentary digital input whose pin has kept its level for longer than
\* debounceTime reads that level, inverted if asked: no bounce is remembered.
StablePinsRead ==
  \A i \in DOMAIN cfg.inputs :
    (/\ cfg.inputs[i].enabled /\ cfg.inputs[i].mode = "momentary"
     /\ seen.booted /\ seen.stable[i] > cfg.inputs[i].debounceTime)
      => sim.var[<<"digIn", i>>] = Value(seen.pins[i] # cfg.inputs[i].invert)

Silent(i) == /\ cfg.canInputs[i].timeoutEnabled
             /\ seen.silence[cfg.canInputs[i].id] > cfg.canInputs[i].timeout

\* A momentary CAN input follows the last frame of its id until the bus has
\* been silent for longer than its time-out; then it reads as nothing pressed,
\* and the next frame is believed again (step(), RX and time-outs;
\* corpus/README.md on engine-repin.json).
CanInputsFollowBus ==
  \A i \in DOMAIN cfg.canInputs :
    LET slot == cfg.canInputs[i]
        known == seen.carried[slot.id] # << >> /\ ~Silent(i)
        value == DecodeFloat(slot, seen.carried[slot.id][1])
    IN  slot.enabled /\ slot.bitLength # 0
          => /\ sim.var[<<"canVal", i>>] = IF known THEN value ELSE 0
             /\ slot.mode = "momentary"
                  => sim.var[<<"canIn", i>>] =
                       Value(known /\ Compare(slot.operator, value, slot.operand))

\* A CAN output is sent at least once in its own interval, rounded up to whole
\* cycles, even when it shares its frame with slower ones: _init_can_frames
\* gives a merged frame the shortest interval of its members.
FramesOnTime ==
  \A i \in Assigned(cfg) : seen.gap[i] < Interval(cfg.canOutputs[i])

\* what a signal can hold; one of 32 bits holds one less, because it is read as an int32_t
Holds(o, x) ==
  LET digits == IF o.bitLength = 32 THEN 31 ELSE o.bitLength
  IN  \E n \in 0..(2^digits - 1) : x = n * o.factor + o.offset

\* a CAN output's place, as another device reads it
ReadBack(o) == [startBit |-> o.startBit, bitLength |-> o.bitLength, bigEndian |-> o.bigEndian,
                signed |-> FALSE, factor |-> o.factor, offset |-> o.offset]

Carries(c, s, id, i) ==
  LET o == c.canOutputs[i]
      sent == 0..(8 * s.tx[id].dlc - 1)
  IN  (/\ Coded(o) /\ o.startBit + o.bitLength <= 64 /\ Holds(o, s.sample[i])
       /\ o.bigEndian => Places(o) \subseteq sent
       /\ \A j \in Members(c, id) : j > i => Places(c.canOutputs[j]) \cap Places(o) = {})
        => DecodeFloat(ReadBack(o), s.tx[id].data \cap sent) = s.sample[i]

\* What a frame carries is what was sampled: a device that reads a CAN output's
\* place, with its scaling, finds the number its source had, if the signal can
\* hold it; the other signals of the frame, the ones of earlier transmissions
\* and the number of bytes sent do not disturb it.  Excepted are a signal that a
\* higher slot overwrites and a big-endian one longer than the frame
\* (_can_outputs, encode_float, decode_float; dlc in _init_can_frames).
FramesCarrySamples ==
  \A id \in DOMAIN sim.tx : \A i \in Members(cfg, id) : Carries(cfg, sim, id, i)

\* A flasher whose input is always on goes on and off for ever (_flasher, with
\* a device that keeps cycling).
FlashersBlink ==
  \A i \in 1..4 :
    LET blinks == /\ i \in DOMAIN cfg.flashers
                  /\ cfg.flashers[i].enabled /\ cfg.flashers[i].input = AlwaysTrue
    IN  /\ []<>(blinks => sim.var[<<"flasher", i>>] = 1)
        /\ []<>(blinks => sim.var[<<"flasher", i>>] = 0)
=============================================================================
