------------------------------ MODULE SimLoader ------------------------------
(***************************************************************************)
(* How fwmodel/model/dingosim.py loads a document: the slots of every      *)
(* group it simulates, with a value for every field, the document's or one *)
(* of a policy of defaults.  Documents are those of PdmConfig.             *)
(***************************************************************************)
EXTENDS Boards, SequencesExt

CONSTANTS Null, Known

FwDefaults ==
  [outputs |->
     [enabled |-> 0, input |-> 0, currentLimit |-> 20, inrushCurrentLimit |-> 50,
      inrushTime |-> 1000, resetMode |-> 0, resetTime |-> 1000, resetCountLimit |-> 3],
   inputs |-> [enabled |-> 0, mode |-> 0, invert |-> 0, debounceTime |-> 20, pull |-> 0],
   canInputs |->
     [enabled |-> 0, timeoutEnabled |-> 0, timeout |-> 1000, ide |-> 0, id |-> 0, startBit |-> 0,
      bitLength |-> 8, factor |-> 1, offset |-> 0, byteOrder |-> 0, signed |-> 0,
      operator |-> 0, operand |-> 0, mode |-> 0],
   canOutputs |->
     [enabled |-> 0, input |-> 0, ide |-> 0, id |-> 0, startBit |-> 0, bitLength |-> 8,
      factor |-> 1, offset |-> 0, byteOrder |-> 0, signed |-> 0, interval |-> 1000],
   virtualInputs |->
     [enabled |-> 0, not0 |-> 0, var0 |-> 0, cond0 |-> 0, not1 |-> 0, var1 |-> 0, cond1 |-> 0,
      not2 |-> 0, var2 |-> 0, mode |-> 0],
   conditions |-> [enabled |-> 0, input |-> 0, operator |-> 0, arg |-> 0],
   counters |->
     [enabled |-> 0, incInput |-> 0, decInput |-> 0, resetInput |-> 0, minCount |-> 0,
      maxCount |-> 10, incEdge |-> 0, decEdge |-> 0, resetEdge |-> 0, wrapAround |-> 0,
      holdToReset |-> 0, resetTime |-> 2000],
   flashers |-> [enabled |-> 0, input |-> 0, onTime |-> 500, offTime |-> 500, single |-> 0]]

\* the fields that are truth values, and those that are references to variables
Truths == {"enabled", "invert", "timeoutEnabled", "signed", "not0", "not1", "not2",
           "wrapAround", "holdToReset", "single"}
RefFields ==
  [outputs |-> {"input"}, inputs |-> {}, canInputs |-> {}, canOutputs |-> {"input"},
   virtualInputs |-> {"var0", "var1", "var2"}, conditions |-> {"input"},
   counters |-> {"incInput", "decInput", "resetInput"}, flashers |-> {"input"}]
References == UNION Range(RefFields)

(* Mutated form: the default operator stands for any other.               *)
AdversarialSameOperator(field, default) ==
  IF field \in Truths THEN 1 - default
  ELSE IF field \in References \cup {"cond0", "cond1", "mode"} THEN 1
  ELSE IF field \in {"incEdge", "decEdge", "resetEdge"} THEN 2
  ELSE IF field = "maxCount" THEN 255
  ELSE IF field \in {"minCount", "operator"} THEN 0
  ELSE default + 1

\* another legal value than the default, of every field but minCount
Adversarial(field, default) ==
  IF field \in Truths THEN 1 - default
  ELSE IF field \in References \cup {"cond0", "cond1", "mode", "operator"} THEN 1
  ELSE IF field \in {"incEdge", "decEdge", "resetEdge"} THEN 2
  ELSE IF field = "maxCount" THEN 255
  ELSE IF field = "minCount" THEN 0
  ELSE default + 1

\* what a policy takes to be in a field of a group that a document leaves out
Default(policy, group, field) ==
  LET default == FwDefaults[group][field]
  IN  IF policy = "firmware" THEN default
      ELSE IF field # "enabled" THEN Adversarial(field, default)
      ELSE IF group \in {"outputs", "canOutputs"} THEN 1 ELSE 0
-----------------------------------------------------------------------------
Count(b, group) ==
  [outputs |-> b.output, inputs |-> b.digIn, canInputs |-> b.canIn, canOutputs |-> b.canOut,
   virtualInputs |-> b.virtIn, conditions |-> b.condition, counters |-> b.counter,
   flashers |-> b.flasher][group]

\* a field that is absent or null counts as an empty object or array
OrEmpty(o, field) == IF field \notin DOMAIN o \/ o[field] = Null THEN << >> ELSE o[field]

(* Mutated form: the slots are numbered from 0 and the items from 1.      *)
ItemOfShifted(array, i) ==
  IF i - 1 \notin DOMAIN array \/ array[i - 1] = Null THEN << >> ELSE array[i - 1]

ItemOf(array, i) == IF i \notin DOMAIN array \/ array[i] = Null THEN << >> ELSE array[i]

\* the slots of a group: of an item that is there, but does not say whether it is
\* enabled, the adversarial policy assumes that it is
SlotsOf(device, group, b, policy) ==
  LET array == OrEmpty(device, group)
      value(i, field) ==
        LET item == ItemOf(array, i)
        IN  IF field \in DOMAIN item /\ item[field] # Null THEN item[field]
            ELSE IF /\ field = "enabled" /\ field \notin DOMAIN item
                    /\ policy = "adversarial" /\ i \in DOMAIN array
                 THEN 1 ELSE Default(policy, group, field)
  IN  [i \in 1..Count(b, group) |-> [field \in DOMAIN FwDefaults[group] |-> value(i, field)]]

\* the functions that are refused when they are enabled
Unmodelled(device) ==
  LET on(o) == "enabled" \in DOMAIN o /\ o["enabled"] \notin {0, Null}
  IN  \/ on(OrEmpty(device, "wipers"))
      \/ on(OrEmpty(device, "starterDisable"))
      \/ \E i \in DOMAIN OrEmpty(device, "keypads") : on(ItemOf(OrEmpty(device, "keypads"), i))

\* the variables that depend on analogue quantities, which the simulator keeps at 0
Pinned(b) ==
  {VarIndex(b, x) : x \in {y \in Variables(b) :
     \/ y[1] = "output" /\ y[3] # 1
     \/ y[1] = "analogIn"
     \/ y[1] = "sys" /\ y[2] > 3 /\ b.sys >= 5}}

\* references of the enabled slots are variables that are simulated
RefsValid(b, groups) ==
  \A g \in DOMAIN groups : \A slot \in Range(groups[g]) :
    slot["enabled"] # 0 => \A f \in RefFields[g] : slot[f] \in (0..(Size(b) - 1)) \ Pinned(b)

Refused == [ok |-> FALSE]

\* the first device with the base id, if one is asked for, or the only device
Load(doc, target, policy) ==
  LET devices == doc.PdmDevices \o doc.PdmMaxDevices
      matching == {i \in DOMAIN devices :
                     "baseId" \in DOMAIN devices[i] /\ devices[i]["baseId"] = target}
      found == IF target # Null THEN matching ELSE IF Len(devices) = 1 THEN {1} ELSE {}
      device == devices[Min(found)]
      typed == {i \in DOMAIN Known : Known[i].pdmType >= 0 /\ Known[i].pdmType =
                  IF "pdmType" \in DOMAIN device THEN device["pdmType"] ELSE 0}
      b == IF typed # {} THEN Known[Min(typed)] ELSE Known[1]
      groups == [g \in DOMAIN FwDefaults |-> SlotsOf(device, g, b, policy)]
  IN  IF /\ found # {}
         /\ ~Unmodelled(device)
         /\ \A g \in DOMAIN FwDefaults : Len(OrEmpty(device, g)) <= Count(b, g)
         /\ RefsValid(b, groups)
      THEN [ok |-> TRUE, board |-> b, groups |-> groups]
      ELSE Refused
=============================================================================
