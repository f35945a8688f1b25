------------------------------ MODULE PdmConfig ------------------------------
(***************************************************************************)
(* internal/pdmcfg with the parameter tables of internal/params: from a    *)
(* dingoConfig document to the list of parameters that apply writes.       *)
(*                                                                         *)
(* A JSON object is a function from the names of its fields to their       *)
(* values, an array a sequence, a truth value 0 or 1.  A parameter is      *)
(* <<index, subindex>>; its value is in natural units, not in the bits of  *)
(* the wire.                                                               *)
(***************************************************************************)
EXTENDS Boards, SequencesExt

CONSTANTS Null,    \* the JSON null
          Known    \* the boards of this program, in the order of its table

-----------------------------------------------------------------------------
(* A parameter of a block: the document's name of it, "" if it has none of *)
(* its own, its type, default and range.  Its subindex is its place in the *)
(* rows of the block, from 0 on.                                           *)

Row(json, type, def, min, max) ==
  [json |-> json, type |-> type, def |-> def, min |-> min, max |-> max]
Num(json, def, min, max) == Row(json, "number", def, min, max)
Float(json, def) == Num(json, def, -1000000000, 1000000000)
Bool(json)       == Row(json, "bool", 0, 0, 1)
Ref(json)        == Row(json, "var", 0, 0, 0)
Several(n, row)  == [i \in 1..n |-> row]

DeviceRows == <<Num("baseId", 222, 0, 2047), Num("bitrate", 1, 0, 4), Bool("sleepEnabled"),
                Bool("filtersEnabled"), Row("connectUsbToCan", "bool", 1, 0, 1)>>

OutputRows(b) ==
  <<Bool("enabled"), Ref("input"), Num("currentLimit", 20, 0, 100),
    Num("inrushCurrentLimit", 50, 0, 100), Num("inrushTime", 1000, 0, 10000),
    Num("resetMode", 0, 0, 2), Num("resetTime", 1000, 0, 60000), Num("resetCountLimit", 3, 0, 20),
    Bool("pwmEnabled"), Bool("softStartEnabled"), Bool("variableDutyCycle"),
    Ref("dutyCycleInput"), Num("fixedDutyCycle", 100, 0, 100), Num("frequency", 100, 0, 400),
    Num("softStartRampTime", 0, 0, 10000), Num("dutyCycleDenominator", 100, 1, 5000),
    Num("minDutyCycle", 0, 0, 100), Num("primaryOutput", -1, -1, b.output - 1)>>
InputRows ==
  <<Bool("enabled"), Num("mode", 0, 0, 1), Bool("invert"), Num("debounceTime", 20, 0, 1000),
    Num("pull", 0, 0, 2)>>
CanInputRows ==
  <<Bool("enabled"), Bool("timeoutEnabled"), Num("timeout", 1000, 0, 60000), Num("ide", 0, 0, 1),
    Num("id", 0, 0, 536870911), Num("startBit", 0, 0, 63), Num("bitLength", 8, 1, 32),
    Float("factor", 1), Float("offset", 0), Num("byteOrder", 0, 0, 1), Bool("signed"),
    Num("operator", 0, 0, 7), Float("operand", 0), Num("mode", 0, 0, 1)>>
CanOutputRows ==
  <<Bool("enabled"), Ref("input"), Num("ide", 0, 0, 1), Num("id", 0, 0, 536870911),
    Num("startBit", 0, 0, 63), Num("bitLength", 8, 1, 32), Float("factor", 1), Float("offset", 0),
    Num("byteOrder", 0, 0, 1), Bool("signed"), Num("interval", 1000, 0, 60000)>>
VirtualInputRows ==
  <<Bool("enabled"), Bool("not0"), Ref("var0"), Num("cond0", 0, 0, 2), Bool("not1"), Ref("var1"),
    Num("cond1", 0, 0, 2), Bool("not2"), Ref("var2"), Num("mode", 0, 0, 1)>>
ConditionRows ==
  <<Bool("enabled"), Ref("input"), Num("operator", 0, 0, 7), Float("arg", 0)>>
CounterRows ==
  <<Bool("enabled"), Ref("incInput"), Ref("decInput"), Ref("resetInput"),
    Num("minCount", 0, 0, 255), Num("maxCount", 10, 0, 255), Num("incEdge", 0, 0, 2),
    Num("decEdge", 0, 0, 2), Num("resetEdge", 0, 0, 2), Bool("wrapAround"), Bool("holdToReset"),
    Num("resetTime", 2000, 0, 10000)>>
FlasherRows ==
  <<Bool("enabled"), Ref("input"), Num("onTime", 500, 0, 5000), Num("offTime", 500, 0, 5000),
    Bool("single")>>

\* the instanced blocks that a document has an array for
Groups(b) ==
  <<[key |-> "outputs", base |-> \h1000, count |-> b.output, rows |-> OutputRows(b)],
    [key |-> "inputs", base |-> \h1200, count |-> b.digIn, rows |-> InputRows],
    [key |-> "canInputs", base |-> \h1300, count |-> b.canIn, rows |-> CanInputRows],
    [key |-> "canOutputs", base |-> \h2000, count |-> b.canOut, rows |-> CanOutputRows],
    [key |-> "virtualInputs", base |-> \h1400, count |-> b.virtIn, rows |-> VirtualInputRows],
    [key |-> "conditions", base |-> \h1500, count |-> b.condition, rows |-> ConditionRows],
    [key |-> "counters", base |-> \h1600, count |-> b.counter, rows |-> CounterRows],
    [key |-> "flashers", base |-> \h1700, count |-> b.flasher, rows |-> FlasherRows]>>

StarterRows(b) == <<Bool("enabled"), Ref("input")>> \o Several(b.output, Bool(""))
WiperRows ==
  <<Bool("enabled"), Num("mode", 0, 0, 2), Ref("slowInput"), Ref("fastInput"), Ref("interInput"),
    Ref("onInput"), Ref("speedInput"), Ref("parkInput"), Bool("parkStopLevel"), Ref("swipeInput"),
    Ref("washInput"), Num("washWipeCycles", 3, 0, 10)>>
  \o [i \in 1..8 |-> Num("", <<3, 4, 5, 6, 7, 8, 1, 2>>[i], 0, 8)]
  \o [i \in 1..6 |-> Num("", 1000 * i, 0, 30000)]
DigOutRows == <<Bool(""), Ref("")>>
AnalogRows ==
  <<Bool(""), Bool(""), Num("", 0, 0, 1), Bool(""), Num("", 2000, 0, 5000), Bool(""), Bool(""),
    Float("", 0), Num("", 100, 1, 1000000000), Num("", 10, 0, 1000000000)>>
KeypadRows ==
  <<Bool("enabled"), Num("id", 0, 0, 127), Bool("timeoutEnabled"), Num("timeout", 0, 0, 60000),
    Num("model", 6, 0, 13), Num("backlightBrightness", 63, 0, 63),
    Num("dimBacklightBrightness", 32, 0, 63), Num("backlightButtonColor", 0, 0, 9),
    Ref("dimmingVar"), Num("buttonBrightness", 63, 0, 63), Num("dimButtonBrightness", 32, 0, 63)>>
ButtonRows ==
  <<Bool("enabled"), Num("mode", 0, 0, 1)>> \o Several(4, Num("", 0, 0, 7))
  \o <<Num("faultColor", 0, 0, 7)>> \o Several(4, Ref("")) \o <<Ref("faultVar")>>
  \o Several(4, Bool("")) \o <<Bool("faultBlink")>>
  \o Several(4, Num("", 0, 0, 7)) \o <<Num("faultBlinkColor", 0, 0, 7)>>
DialRows == <<Bool("enabled"), Num("minCount", 0, 0, 16), Num("maxCount", 16, 0, 16),
              Num("ledOffset", 0, 0, 16)>>

\* the arrays of an object whose entries are parameters of its block, with the
\* subindex of the first one, in the order in which they are read
WiperArrays   == <<<<"speedMap", 12>>, <<"intermitTime", 20>>>>
StarterArrays == <<<<"outputsDisabled", 2>>>>
ButtonArrays  == <<<<"valColors", 2>>, <<"valVars", 7>>, <<"valBlink", 12>>, <<"blinkColors", 17>>>>

StarterIndex      == \h1800
WiperIndex        == \h1900
DigOutIndex(i)    == \h2100 + i - 1
AnalogIndex(i)    == \h2200 + i - 1
KeypadIndex(k)    == \h3000 + k - 1
ButtonIndex(k, n) == \h3100 + (k - 1) * 32 + n - 1
DialIndex(k, n)   == \h3200 + (k - 1) * 4 + n - 1

\* every parameter of a board, [index, rows] for each block
GroupBlocks(b) ==
  UNION {{[index |-> g.base + i - 1, rows |-> g.rows] : i \in 1..g.count} : g \in Range(Groups(b))}
WiperBlocks(b) ==
  IF b.wiper = 0 THEN {} ELSE {[index |-> StarterIndex, rows |-> StarterRows(b)],
                               [index |-> WiperIndex, rows |-> WiperRows]}
PinBlocks(b) ==
  {[index |-> DigOutIndex(i), rows |-> DigOutRows] : i \in 1..b.digOut}
  \cup {[index |-> AnalogIndex(i), rows |-> AnalogRows] : i \in 1..b.analogIn}
KeypadBlocks(b) ==
  {[index |-> KeypadIndex(k), rows |-> KeypadRows] : k \in 1..b.keypad}
  \cup {[index |-> ButtonIndex(k, n), rows |-> ButtonRows] : k \in 1..b.keypad, n \in 1..b.buttons}
  \cup {[index |-> DialIndex(k, n), rows |-> DialRows] : k \in 1..b.keypad, n \in 1..b.dials}
Blocks(b) ==
  {[index |-> 0, rows |-> DeviceRows]}
  \cup GroupBlocks(b) \cup WiperBlocks(b) \cup PinBlocks(b) \cup KeypadBlocks(b)

Registry(b) ==
  LET blocks == Blocks(b)
      rows(index) == (CHOOSE k \in blocks : k.index = index).rows
  IN  [a \in UNION {{<<k.index, i - 1>> : i \in DOMAIN k.rows} : k \in blocks} |-> rows(a[1])[a[2] + 1]]
-----------------------------------------------------------------------------
(* Reading a document.                                                     *)

Has(o, field)   == field \in DOMAIN o /\ o[field] # Null
Array(o, field) == IF Has(o, field) THEN o[field] ELSE << >>
Object(x)       == IF x = Null THEN << >> ELSE x

\* the device of the document: the last one with the base id, or the only one, else 0
ChosenDevice(devices, target) ==
  LET baseId(d) == IF Has(d, "baseId") THEN d["baseId"] % \h10000 ELSE 0
      matching  == {i \in DOMAIN devices : baseId(devices[i]) = target}
  IN  IF matching # {} THEN Max(matching) ELSE IF Len(devices) = 1 THEN 1 ELSE 0

\* the board by its type, a null counting as 0, else by its number of outputs, else the first one
BoardOf(m) ==
  LET pdms    == {i \in DOMAIN Known : Known[i].pdmType >= 0}
      pdmType == IF Has(m, "pdmType") THEN m["pdmType"] ELSE 0
      typed   == {i \in pdms : "pdmType" \in DOMAIN m /\ Known[i].pdmType = pdmType}
      counted == {i \in pdms : Has(m, "outputs") /\ Known[i].output = Len(m["outputs"])}
  IN  Known[IF typed # {} THEN Min(typed) ELSE IF counted # {} THEN Min(counted) ELSE 1]

\* what is read later wins
Overlay(parts) ==
  [a \in UNION {DOMAIN parts[i] : i \in DOMAIN parts} |->
     parts[Max({i \in DOMAIN parts : a \in DOMAIN parts[i]})][a]]

\* what an object of the document says of the parameters of the block at index:
\* in its fields, and in the entries of an array of it
FieldsOf(o, index, rows) ==
  [a \in {<<index, i - 1>> : i \in {i \in DOMAIN rows : Has(o, rows[i].json)}} |->
     o[rows[a[2] + 1].json]]
EntriesOf(o, index, x) ==
  [a \in {<<index, x[2] + i - 1>> : i \in {i \in DOMAIN Array(o, x[1]) : o[x[1]][i] # Null}} |->
     o[x[1]][a[2] - x[2] + 1]]

Collected(object, index, rows, arrays) ==
  LET o == Object(object)
  IN  Overlay(<<FieldsOf(o, index, rows),
                Overlay([j \in DOMAIN arrays |-> EntriesOf(o, index, arrays[j])])>>)

\* the same for the objects of an array, whose blocks have the indices from first on
CollectedAll(objects, first, rows, arrays) ==
  Overlay([i \in DOMAIN objects |-> Collected(objects[i], first + i - 1, rows, arrays)])

CollectedKeypad(keypad, k) ==
  LET o == Object(keypad)
  IN  Overlay(<<Collected(o, KeypadIndex(k), KeypadRows, << >>),
                CollectedAll(Array(o, "buttons"), ButtonIndex(k, 1), ButtonRows, ButtonArrays),
                CollectedAll(Array(o, "dials"), DialIndex(k, 1), DialRows, << >>)>>)

\* everything the document says
Values(m, b) ==
  LET single(key, index, rows, arrays) ==
        IF Has(m, key) THEN Collected(m[key], index, rows, arrays) ELSE << >>
      group(g) == CollectedAll(Array(m, g.key), g.base, g.rows, << >>)
      keypads == Array(m, "keypads")
  IN  Overlay(<<Collected(m, 0, DeviceRows, << >>),
                Overlay([j \in DOMAIN Groups(b) |-> group(Groups(b)[j])]),
                single("wipers", WiperIndex, WiperRows, WiperArrays),
                single("starterDisable", StarterIndex, StarterRows(b), StarterArrays),
                Overlay([k \in DOMAIN keypads |-> CollectedKeypad(keypads[k], k)])>>)
-----------------------------------------------------------------------------
(* The list of parameters.                                                 *)

InRange(b, row, v) ==
  CASE row.type = "bool" -> TRUE
    [] row.type = "var"  -> v \in 0..(Size(b) - 1)
    [] OTHER             -> v \in row.min..row.max
Encoded(row, v) == IF row.type = "bool" /\ v # 0 THEN 1 ELSE v

Refusal == [ok |-> FALSE, params |-> << >>]

(* Mutated form: what the document leaves out is left out of the list.    *)
ProjectSkipping(m, partial) ==
  LET b == BoardOf(m)
      reg == Registry(b)
      vals == Values(m, b)
  IN  IF DOMAIN vals \subseteq DOMAIN reg /\ \A a \in DOMAIN vals : InRange(b, reg[a], vals[a])
      THEN [ok |-> TRUE, params |-> [a \in DOMAIN vals |-> Encoded(reg[a], vals[a])]]
      ELSE Refusal

(* Mutated form: the list is always the whole one.                        *)
ProjectWhole(m, partial) ==
  LET b == BoardOf(m)
      reg == Registry(b)
      vals == Values(m, b)
      value(a) == IF a \in DOMAIN vals THEN vals[a] ELSE reg[a].def
  IN  IF DOMAIN vals \subseteq DOMAIN reg /\ \A a \in DOMAIN reg : InRange(b, reg[a], value(a))
      THEN [ok |-> TRUE, params |-> [a \in DOMAIN reg |-> Encoded(reg[a], value(a))]]
      ELSE Refusal

Project(m, partial) ==
  LET b == BoardOf(m)
      reg == Registry(b)
      vals == Values(m, b)
      value(a) == IF a \in DOMAIN vals THEN vals[a] ELSE reg[a].def
      written == IF partial THEN DOMAIN vals ELSE DOMAIN reg
  IN  IF DOMAIN vals \subseteq DOMAIN reg /\ \A a \in written : InRange(b, reg[a], value(a))
      THEN [ok |-> TRUE, params |-> [a \in written |-> Encoded(reg[a], value(a))]]
      ELSE Refusal

DeviceParams(doc, target, partial) ==
  LET i == ChosenDevice(doc.PdmDevices, target)
  IN  IF i = 0 THEN Refusal ELSE Project(doc.PdmDevices[i], partial)
=============================================================================
