--------------------------- MODULE LogicConfigs ---------------------------
(* Notation for the configurations of DingoSim: a slot of each group with  *)
(* the fields that most slots leave alone filled in, and the variables the *)
(* slots name.                                                             *)
EXTENDS DingoSim

DigInput(mode, invert, ms) ==
  [enabled |-> TRUE, mode |-> mode, invert |-> invert, debounceTime |-> ms]
CanInput(id, startBit, bits, op, operand, mode, timeoutEnabled, timeout) ==
  [enabled |-> TRUE, id |-> id, startBit |-> startBit, bitLength |-> bits, bigEndian |-> FALSE,
   signed |-> FALSE, factor |-> 1, offset |-> 0, operator |-> op, operand |-> operand,
   mode |-> mode, timeoutEnabled |-> timeoutEnabled, timeout |-> timeout]
CanOutput(id, startBit, bits, input, ms) ==
  [enabled |-> TRUE, id |-> id, startBit |-> startBit, bitLength |-> bits, bigEndian |-> FALSE,
   factor |-> 1, offset |-> 0, input |-> input, interval |-> ms]
Output(input) == [enabled |-> TRUE, input |-> input]
Both(not0, var0, op, not1, var1) ==
  [enabled |-> TRUE, not0 |-> not0, var0 |-> var0, cond0 |-> op, not1 |-> not1, var1 |-> var1,
   cond1 |-> "or", not2 |-> FALSE, var2 |-> AlwaysFalse, mode |-> "momentary"]
Flash(input, on, off) == [enabled |-> TRUE, input |-> input, onTime |-> on, offTime |-> off]
Count(inc, incEdge, dec, decEdge, reset, resetEdge, max, wrap) ==
  [enabled |-> TRUE, incInput |-> inc, incEdge |-> incEdge, decInput |-> dec,
   decEdge |-> decEdge, resetInput |-> reset, resetEdge |-> resetEdge, minCount |-> 0,
   maxCount |-> max, wrapAround |-> wrap, holdToReset |-> FALSE, resetTime |-> 4]
Cond(input, op, arg) == [enabled |-> TRUE, input |-> input, operator |-> op, arg |-> arg]

Empty == [inputs |-> << >>, canInputs |-> << >>, outputs |-> << >>, canOutputs |-> << >>,
          virtualInputs |-> << >>, flashers |-> << >>, counters |-> << >>, conditions |-> << >>]

\* frames for a configuration: of every id that it listens to, with any of the
\* bits set that its CAN inputs start at
StartBits(c) ==
  LET inputs == Range(c.canInputs)
  IN  [id \in {k.id : k \in inputs} |-> SUBSET {k.startBit : k \in {l \in inputs : l.id = id}}]

Din(i) == <<"digIn", i>>
Cin(i) == <<"canIn", i>>
CanVal(i) == <<"canVal", i>>
Vin(i) == <<"virtIn", i>>
Fls(i) == <<"flasher", i>>
Ctr(i) == <<"counter", i>>
Cnd(i) == <<"condition", i>>
=============================================================================
