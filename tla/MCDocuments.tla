----------------------------- MODULE MCDocuments -----------------------------
(* Boards with one or two blocks of each kind, and documents for them.     *)
EXTENDS Documents

Small(b, outputs) ==
  [b EXCEPT !.digIn = 1, !.canIn = 1, !.canOut = 1, !.virtIn = 1, !.output = outputs, !.flasher = 1,
            !.condition = 1, !.counter = 1, !.keypad = 1, !.buttons = 1, !.dials = 1, !.analogs = 0]
TwoOutputs    == Small(Pdm, 2)
AnalogInputs  == [Small(PtDpdm, 1) EXCEPT !.analogIn = 1]
SmallBoards   == <<TwoOutputs, Small(PdmMax, 1), AnalogInputs, CanBoard>>

Doc(device)   == [PdmDevices |-> <<device>>, PdmMaxDevices |-> << >>]
Device0(x)    == Doc([pdmType |-> 0, baseId |-> 512] @@ x)

\* every field of every simulated slot, with the values of a policy
Whole(policy) ==
  [g \in DOMAIN Sim!FwDefaults |->
     [i \in 1..Sim!Count(TwoOutputs, g) |->
        [field \in DOMAIN Sim!FwDefaults[g] |-> Sim!Default(policy, g, field)]]]
Pump  == [enabled |-> 1, input |-> 1, currentLimit |-> 13]
Wiper == [enabled |-> 0, mode |-> 1]

SmallDocs ==
  [whole    |-> Device0(Whole("adversarial")),
   noMin    |-> Device0([Whole("firmware") EXCEPT !.counters = <<[f \in DOMAIN @[1] \ {"minCount"} |-> @[1][f]]>>]),
   noMode   |-> Device0([Whole("firmware") EXCEPT !.conditions = <<[f \in DOMAIN @[1] \ {"operator"} |-> @[1][f]]>>]),
   nullOn   |-> Device0([Whole("firmware") EXCEPT !.conditions = <<[@[1] EXCEPT !.enabled = Null]>>]),
   sparse   |-> Device0([outputs |-> <<Pump, [enabled |-> 0]>>, canInputs |-> <<[bitLength |-> 1]>>]),
   nulls    |-> Device0([outputs |-> <<Null, [input |-> Null, enabled |-> 1]>>, wipers |-> Null]),
   overfull |-> Device0([outputs |-> <<Pump, Pump, Pump>>]),
   hollow   |-> Device0([outputs |-> <<Pump, Pump, << >>>>]),
   tooMuch  |-> Device0([outputs |-> <<[currentLimit |-> 101]>>]),
   dangling |-> Device0([flashers |-> <<[enabled |-> 1, input |-> Size(TwoOutputs)]>>]),
   untyped  |-> Doc([baseId |-> 512, outputs |-> <<Pump, Pump>>]),
   spilling |-> Device0([wipers |-> [speedMap |-> <<1, Null, 1, 1, 1, 1, 1, 1, 100>>] @@ Wiper,
                         starterDisable |-> [outputsDisabled |-> <<1, 0>>]]),
   keypad   |-> Device0([keypads |-> <<[model |-> 3, dials |-> <<[minCount |-> 2]>>,
                                        buttons |-> <<[faultColor |-> 2, valColors |-> <<1, 1, 1, 1, 5>>]>>]>>]),
   twins    |-> [PdmDevices |-> <<[baseId |-> 512, pdmType |-> 0, outputs |-> <<Pump>>],
                                  [baseId |-> 512, pdmType |-> 0],
                                  [baseId |-> 222, pdmType |-> 0]>>,
                 PdmMaxDevices |-> << >>],
   foreign  |-> [PdmDevices |-> <<[baseId |-> 1], [baseId |-> 2]>>, PdmMaxDevices |-> << >>]]

\* documents for a board with analogue inputs, which name their board and which do not
AnalogDocs ==
  [typed   |-> Doc([pdmType |-> 2, outputs |-> <<Pump>>]),
   untyped |-> Doc([baseId |-> 512, outputs |-> <<Pump>>])]
=============================================================================
