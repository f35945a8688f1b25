--------------------------- MODULE CorpusConfigs ---------------------------
(***************************************************************************)
(* Configurations of fwmodel/corpus, or the slots of them that matter, for *)
(* DingoSim.  Their times are constants, so that a time-out of half a      *)
(* second may be a few cycles.                                             *)
(***************************************************************************)
EXTENDS LogicConfigs

CONSTANTS Debounce,   \* of the heater switch
          Timeout,    \* of the three CAN inputs
          TxInterval  \* of the CAN outputs

And(x, y)    == Both(FALSE, x, "and", FALSE, y)
AndNot(x, y) == Both(FALSE, x, "and", TRUE, y)
Or(x, y)     == Both(FALSE, x, "or", FALSE, y)
Not(x)       == Both(TRUE, x, "and", FALSE, AlwaysTrue)
Latch(inc, incEdge, dec, decEdge) ==
  Count(inc, incEdge, dec, decEdge, AlwaysFalse, "rising", 1, FALSE)
Switch(id, bit) == CanInput(id, bit, 1, "eq", 1, "momentary", TRUE, Timeout)
Transmit(id, bit, input) == CanOutput(id, bit, 1, input, TxInterval)

\* the switches of the CANBoard come in one frame, of which bit 32 is the first one
Board(n) == Switch("0x642", 31 + n)

-----------------------------------------------------------------------------
(* engine-repin.json, without the park brake switch and its lamp, which    *)
(* meet nothing else, and its rewrite engine-repin-reference.json: there   *)
(* NOT_ENGINE_RUN takes the first slot, so that every virtual input moves, *)
(* and resets the heater toggle on its rise.                               *)

washer == Cin(1)
horn   == Cin(2)
brake  == Cin(3)
ENGINE_RUN      == Cnd(1)
CRANKED         == Cnd(2)
HEATER_LATCHED  == Cnd(3)

\* both of them: n virtual inputs come first, and the heater toggle is reset by reset
EngineWith(first, n, reset, resetEdge) ==
  LET CHORD == Vin(n + 1)
      START_REQ == Vin(n + 2)
      ARMED == Vin(n + 3)
      IGN == Vin(n + 4)
  IN
  [inputs |-> <<DigInput("momentary", TRUE, Debounce)>>,
   canInputs |-> <<Board(1), Board(8), Switch("0x300", 0)>>,
   outputs |-> <<Output(START_REQ), Output(IGN), Output(Vin(n + 5)), Output(IGN),
                 Output(ENGINE_RUN), Output(START_REQ), Output(Vin(n + 6)), Output(AlwaysTrue)>>,
   canOutputs |-> <<Transmit("0x301", 0, ENGINE_RUN), Transmit("0x301", 1, Vin(n + 8)),
                    Transmit("0x643", 24, AlwaysFalse)>>,
   virtualInputs |-> first \o
     <<And(brake, washer), And(CHORD, horn), And(CHORD, CRANKED), Or(ENGINE_RUN, START_REQ),
       [AndNot(washer, brake) EXCEPT !.cond1 = "and", !.var2 = ENGINE_RUN],
       AndNot(horn, CHORD), And(Din(1), ENGINE_RUN), And(HEATER_LATCHED, ENGINE_RUN)>>,
   flashers |-> << >>,
   counters |-> <<Latch(ARMED, "falling", CHORD, "rising"),
                  Latch(START_REQ, "rising", CHORD, "falling"),
                  Count(Vin(n + 7), "rising", AlwaysFalse, "rising", reset, resetEdge, 1, TRUE)>>,
   conditions |-> <<Cond(Ctr(1), "ge", 1), Cond(Ctr(2), "ge", 1), Cond(Ctr(3), "ge", 1)>>]

Engine          == EngineWith(<< >>, 0, ENGINE_RUN, "falling")
EngineReference == EngineWith(<<Not(ENGINE_RUN)>>, 1, Vin(1), "rising")

-----------------------------------------------------------------------------
(* lights-repin.json: the left indicator with the pass-through virtual     *)
(* input and without it, next to the hazard hold timer with the falling    *)
(* reset and with its rewrite.                                             *)

Lights(vins, left, reset, resetEdge) ==
  [Empty EXCEPT
     !.canInputs = <<Board(2), Board(3)>>, !.virtualInputs = <<AndNot(Cin(1), Cin(2))>> \o vins,
     !.flashers = <<Flash(left, 2, 2), Flash(Vin(1), 0, 0), Flash(Cnd(1), 2, 2)>>,
     !.counters = <<Count(Fls(2), "rising", AlwaysFalse, "rising", reset, resetEdge, 3, FALSE)>>,
     !.conditions = <<Cond(Ctr(1), "ge", 2)>>,
     !.outputs = <<Output(Fls(1)), Output(Fls(3))>>]
LightsDeployed == Lights(<<Or(Cin(1), AlwaysFalse)>>, Vin(2), Vin(1), "falling")
LightsRewrite  == Lights(<<Not(Vin(1))>>, Cin(1), Vin(2), "rising")

\* the high beam toggle, pressed by switch 1 while the low beam, switch 2, is on;
\* reset is the variable whose fall forces it off
HighBeam(reset) ==
  [Empty EXCEPT
     !.canInputs = <<Board(6), Board(5)>>, !.outputs = <<Output(Vin(1))>>,
     !.virtualInputs = <<And(Cnd(1), Cin(2)), And(Cin(1), Cin(2))>>,
     !.counters = <<Count(Vin(2), "rising", AlwaysFalse, "rising", reset, "falling", 1, TRUE)>>,
     !.conditions = <<Cond(Ctr(1), "ge", 1)>>]

-----------------------------------------------------------------------------
(* adversarial/: A, B and C are the three switches, the lamp is output 1.  *)

Lamp(vins, x) == [Empty EXCEPT !.canInputs = <<Board(1), Board(2), Board(3)>>,
                               !.virtualInputs = vins,
                               !.outputs = <<Output(x)>>]

\* a1: not (A and B), and C, in two slots and by De Morgan
NandRight     == Lamp(<<Both(FALSE, Cin(1), "nor", FALSE, Cin(2)), And(Vin(1), Cin(3))>>, Vin(2))
NandReference == Lamp(<<Both(TRUE, Cin(1), "or", TRUE, Cin(2)), And(Vin(1), Cin(3))>>, Vin(2))

\* a4: a toggle as a wrapping counter and as a latching virtual input
WrapToggle ==
  [Lamp(<< >>, Cnd(1)) EXCEPT
     !.counters = <<Count(Cin(1), "rising", AlwaysFalse, "rising", AlwaysFalse, "rising", 1, TRUE)>>,
     !.conditions = <<Cond(Ctr(1), "ge", 1)>>]
LatchToggle == Lamp(<<[And(Cin(1), AlwaysTrue) EXCEPT !.mode = "latching"]>>, Vin(1))

\* the lamp on switch A, which never times out, and behind a virtual input that
\* only passes it on; two of those in the order of their slots and, as in a3, against it
NoTimeout(c) == [c EXCEPT !.canInputs[1].timeoutEnabled = FALSE]
Pass(x)  == And(x, AlwaysTrue)
Direct   == NoTimeout(Lamp(<< >>, Cin(1)))
Relayed  == NoTimeout(Lamp(<<Pass(Cin(1))>>, Vin(1)))
Forward  == Lamp(<<Pass(Cin(1)), Pass(Vin(1))>>, Vin(2))
Backward == Lamp(<<Pass(Vin(2)), Pass(Cin(1))>>, Vin(1))

-----------------------------------------------------------------------------
(* The pairs that the repository's documents call equivalent, and those of *)
(* which one is a cycle late.                                              *)

Within(n, x, y) == [a |-> x, b |-> y, tolerance |-> n]
Exactly(x, y)   == Within(0, x, y)

SamePrograms == {Exactly(Engine, EngineReference), Exactly(LightsDeployed, LightsRewrite),
                 Exactly(NandRight, NandReference), Exactly(WrapToggle, LatchToggle)}
Relays       == {Within(1, Direct, Relayed), Within(2, Forward, Backward)}
=============================================================================
