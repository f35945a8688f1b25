--------------------------- MODULE MCLogicEngine ---------------------------
(* Configurations for LogicEngine, with times of a few cycles: one for each *)
(* kind of block, and the deployed engine configuration.                   *)
EXTENDS EngineRepin

\* digital inputs of both modes, a virtual input over them, an output on each
Buttons ==
  [Empty EXCEPT
     !.inputs = <<DigInput("momentary", TRUE, 2), DigInput("latching", FALSE, 2)>>,
     !.virtualInputs = <<Both(FALSE, Din(1), "and", TRUE, Din(2))>>,
     !.outputs = <<Output(Vin(1)), Output(Din(1))>>,
     !.canOutputs = <<CanOutput("status", 0, 1, Din(2), 4), CanOutput("status", 1, 1, Vin(1), 2)>>]

\* CAN inputs with and without a time-out, in both byte orders, signed and scaled;
\* CAN outputs that share a frame, alone in one, too long and too short to be written
Telegrams ==
  [Empty EXCEPT
     !.canInputs = <<CanInput("sw", 0, 1, "eq", 1, "momentary", TRUE, 2),
                     [CanInput("sw", 0, 2, "lt", 0, "momentary", FALSE, 0)
                        EXCEPT !.bigEndian = TRUE, !.signed = TRUE],
                     [CanInput("sw", 15, 4, "gt", 0, "latching", TRUE, 0)
                        EXCEPT !.factor = 3, !.offset = -1]>>,
     !.conditions = <<Cond(CanVal(1), "bitand", 1), Cond(Cin(3), "bitnand", 1)>>,
     !.outputs = <<Output(Cin(1)), Output(Cnd(1)), Output(<<"output", 1>>)>>,
     !.canOutputs = <<CanOutput("status", 6, 4, CanVal(2), 4),
                      [CanOutput("status", 12, 2, CanVal(3), 3)
                         EXCEPT !.bigEndian = TRUE, !.factor = 3, !.offset = -1],
                      CanOutput("wide", 0, 40, Cin(3), 0), CanOutput("wide", 1, 1, Cin(1), 4),
                      CanOutput("none", 0, 0, Cin(1), 2)>>]

\* counters that wrap, that stop at their ends, and that a held input resets
Counters ==
  [Empty EXCEPT
     !.canInputs = <<CanInput("sw", 0, 1, "eq", 1, "momentary", FALSE, 0),
                     CanInput("sw", 15, 1, "eq", 1, "momentary", FALSE, 0)>>,
     !.counters = <<Count(Cin(1), "rising", Cin(2), "falling", AlwaysFalse, "rising", 2, TRUE),
                    Count(Cin(1), "both", Cin(2), "both", Din(1), "both", 2, FALSE),
                    [Count(Cin(1), "falling", Cin(2), "rising", Cin(2), "falling", 2, FALSE)
                       EXCEPT !.minCount = 1, !.holdToReset = TRUE]>>,
     !.inputs = <<DigInput("momentary", FALSE, 0)>>,
     !.conditions = <<Cond(Ctr(1), "ge", 2), Cond(Ctr(2), "lt", 1), Cond(Ctr(3), "ne", 0)>>,
     !.outputs = <<Output(Cnd(1)), Output(Ctr(2)), Output(Cnd(3))>>]

\* a flasher that is always on, and a gated one that is counted
Flashers ==
  [Empty EXCEPT
     !.canInputs = <<CanInput("sw", 0, 1, "ne", 0, "momentary", TRUE, 2)>>,
     !.flashers = <<Flash(AlwaysTrue, 0, 2), Flash(Cin(1), 0, 2)>>,
     !.counters = <<Count(Fls(2), "rising", AlwaysFalse, "rising", Cin(1), "falling", 2, FALSE)>>,
     !.outputs = <<Output(Fls(1)), Output(Fls(2)), Output(Ctr(1))>>]

BlocksAndEngine == {Buttons, Telegrams, Counters, Flashers, Engine}
=============================================================================
