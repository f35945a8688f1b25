------------------------------ MODULE Documents ------------------------------
(***************************************************************************)
(* A document is the configuration: two devices of the same board, with    *)
(* different configurations to begin with, are given the same documents by *)
(* apply, whole or with -partial, and the simulator loads those documents  *)
(* in their stead.  A list that names a parameter a device does not have   *)
(* fails as a whole.                                                       *)
(***************************************************************************)
EXTENDS PdmConfig

CONSTANTS Docs,    \* the documents, a function from their names
          Target,  \* the base id the program is told to apply to
          Device   \* the board of the two devices

ASSUME DeviceKnown == Device \in Range(Known)

VARIABLES devA, devB, last

vars == <<devA, devB, last>>

Sim == INSTANCE SimLoader

Params  == Registry(Device)
Factory == [a \in DOMAIN Params |-> Params[a].def]
\* a device that holds another value in every parameter
Other   == [a \in DOMAIN Params |-> IF Params[a].type = "bool" THEN 1 - Factory[a] ELSE Factory[a] + 1]

\* what the program and the simulator make of the documents
Lists == [d \in DOMAIN Docs |-> [partial \in BOOLEAN |-> DeviceParams(Docs[d], Target, partial)]]
Loads == [d \in DOMAIN Docs |-> [policy \in {"firmware", "adversarial"} |->
            Sim!Load(Docs[d], IF Len(Docs[d].PdmDevices) = 1 THEN Null ELSE Target, policy)]]

Nothing == [doc |-> "none", partial |-> FALSE, ok |-> FALSE]

Init == devA = Factory /\ devB = Other /\ last = Nothing

Taken(params)      == DOMAIN params \subseteq DOMAIN Factory
Written(dev, list) == [a \in DOMAIN dev |-> IF a \in DOMAIN list.params THEN list.params[a] ELSE dev[a]]

Apply(d, partial) ==
  LET list == Lists[d][partial]
  IN  /\ list.ok
      /\ Taken(list.params)
      /\ devA' = Written(devA, list)
      /\ devB' = Written(devB, list)
      /\ last' = [doc |-> d, partial |-> partial, ok |-> TRUE]

\* the document is refused before anything is sent, or the device refuses the list
Fail(d, partial) ==
  LET list == Lists[d][partial]
  IN  /\ ~(list.ok /\ Taken(list.params))
      /\ last' = [doc |-> d, partial |-> partial, ok |-> FALSE]
      /\ UNCHANGED <<devA, devB>>

Next == \E d \in DOMAIN Docs, partial \in BOOLEAN : Apply(d, partial) \/ Fail(d, partial)

Spec == Init /\ [][Next]_vars
-----------------------------------------------------------------------------
\* "the same JSON applied to two differently-configured devices" gives the same
\* device: a document that is applied whole leaves nothing of what the device
\* held before (pdmcfg.go, package comment and DeviceParams).
SameDocumentSameDevice == last.ok /\ ~last.partial => devA = devB

GroupOf(g)     == CHOOSE group \in Range(Groups(Device)) : group.key = g
Held(dev, g, i, field) ==
  LET group == GroupOf(g)
      sub == CHOOSE s \in DOMAIN group.rows : group.rows[s].json = field
  IN  dev[<<group.base + i - 1, sub - 1>>]

OneDevice(doc) ==
  LET devices == doc.PdmDevices
  IN  \A i, j \in DOMAIN devices :
        Has(devices[i], "baseId") /\ Has(devices[j], "baseId")
          /\ devices[i]["baseId"] = devices[j]["baseId"] => i = j

\* The simulator runs what the device holds: every field that it loads for the
\* board of the device has the value that applying the document whole wrote, the
\* default of its own table included (load_device and _slots; project).  A base id
\* that two devices share is the first one's for it and the last one's for apply.
SimulatorAgrees ==
  LET load == Loads[last.doc]["firmware"]
  IN  (/\ last.ok /\ ~last.partial
       /\ load.ok /\ load.board = Device
       /\ OneDevice(Docs[last.doc]))
        => \A g \in DOMAIN load.groups : \A i \in DOMAIN load.groups[g] :
             \A field \in DOMAIN load.groups[g][i] :
               load.groups[g][i][field] = Held(devA, g, i, field)

\* no slot of the device has a null where it says whether it is enabled
EnabledSaid(doc) ==
  LET m == doc.PdmDevices[ChosenDevice(doc.PdmDevices, Target)]
  IN  \A g \in DOMAIN Sim!FwDefaults : \A i \in DOMAIN Array(m, g) :
        LET item == Object(Array(m, g)[i])
        IN  "enabled" \in DOMAIN item => item["enabled"] # Null

\* A document that the simulator loads alike whatever the fields it leaves out
\* are taken to hold defines all of what is simulated, even when only its own
\* fields are written: the two devices then differ nowhere but in the lower
\* bounds of counters, for which the adversarial policy has no other value
\* (ADV_DEFAULTS; equiv.py --self-contained; Options.Partial).  A document with a
\* null for enabled is excepted: _slots takes the null for a value that is said and
\* loads such a slot alike under both policies, while project writes nothing for
\* it.  fwmodel/README.md:71, which says that what both loads agree on does not
\* rest on what a device held, does not except it.
SelfContainedDefines ==
  LET plain == Loads[last.doc]["firmware"]
  IN  (/\ last.ok
       /\ plain.ok /\ plain.board = Device
       /\ plain = Loads[last.doc]["adversarial"]
       /\ OneDevice(Docs[last.doc])
       /\ EnabledSaid(Docs[last.doc]))
        => \A g \in DOMAIN plain.groups : \A i \in DOMAIN plain.groups[g] :
             \A field \in DOMAIN plain.groups[g][i] \ {"minCount"} :
               Held(devA, g, i, field) = Held(devB, g, i, field)

\* With -partial a parameter changes only if the document has a value for it: a
\* field of the slot it belongs to, or an entry of an array of its object
\* (Options.Partial; collectField, collectArray).
Names(doc, a) ==
  LET m == doc.PdmDevices[ChosenDevice(doc.PdmDevices, Target)]
      says(object, index, arrays) ==
        LET o == Object(object)
        IN  /\ a[1] = index
            /\ \/ Has(o, Params[a].json)
               \/ \E x \in Range(arrays) : a[2] \in x[2]..(x[2] + Len(Array(o, x[1])) - 1)
      someOf(array, Index(_), arrays) == \E i \in DOMAIN array : says(array[i], Index(i), arrays)
      keypads == Array(m, "keypads")
      ofKeypad(k, key) == Array(Object(keypads[k]), key)
  IN  \/ says(m, 0, << >>)
      \/ \E g \in Range(Groups(Device)) : someOf(Array(m, g.key), LAMBDA i : g.base + i - 1, << >>)
      \/ says(Array(m, "wipers"), WiperIndex, WiperArrays)
      \/ says(Array(m, "starterDisable"), StarterIndex, StarterArrays)
      \/ someOf(keypads, KeypadIndex, << >>)
      \/ \E k \in DOMAIN keypads :
           \/ someOf(ofKeypad(k, "buttons"), LAMBDA n : ButtonIndex(k, n), ButtonArrays)
           \/ someOf(ofKeypad(k, "dials"), LAMBDA n : DialIndex(k, n), << >>)
OnlyNamedFieldsWritten ==
  [][\A a \in DOMAIN Factory :
       last'.partial /\ (devA'[a] # devA[a] \/ devB'[a] # devB[a]) => Names(Docs[last'.doc], a)]_vars
=============================================================================
