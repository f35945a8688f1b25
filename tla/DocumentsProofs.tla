--------------------------- MODULE DocumentsProofs ---------------------------
(***************************************************************************)
(* What documents mean, for every set of documents, every table of boards  *)
(* and all the parameters that a board may have.  A document for the board *)
(* of the two devices, applied whole, leaves them the same; applied with   *)
(* -partial it changes what it names and nothing else; the simulator runs  *)
(* what the device then holds; and a document that it finds to be          *)
(* self-contained leaves nothing of what a device held before.             *)
(*                                                                         *)
(* The indices of the blocks lie so far apart that an index tells which    *)
(* block it is of, so that what one object says never overlays what        *)
(* another one does; the rest is reading: what a document says of a        *)
(* parameter is in one slot, under the name of its row.                    *)
(***************************************************************************)
EXTENDS Documents, TLAPS

\* the device of a document that apply chooses, if it chooses one
ChosenOf(d) == ChosenDevice(Docs[d].PdmDevices, Target)
Chosen(d)   == Docs[d].PdmDevices[ChosenOf(d)]

\* the document is taken to be for the board of the devices; it says that it is
ForDevice(d)  == BoardOf(Chosen(d)) = Device
NamesBoard(d) == Has(Chosen(d), "pdmType") /\ Chosen(d)["pdmType"] = Device.pdmType

\* The table has at most one board of a type, and the two devices are of one
\* that has a type (params.Boards).
TypesDiffer ==
  /\ Known \in Seq(Range(Known))
  /\ \A i \in DOMAIN Known : Known[i].pdmType \in Int
  /\ \A i, j \in DOMAIN Known : Known[i].pdmType >= 0 /\ Known[i].pdmType = Known[j].pdmType => i = j
  /\ Device.pdmType >= 0

-----------------------------------------------------------------------------
(* What is made of one document.                                           *)

\* Its type decides on the board, whatever the number of its outputs (boardOf).
LEMMA TypedBoard ==
  ASSUME TypesDiffer, NEW m, Has(m, "pdmType"), m["pdmType"] = Device.pdmType
  PROVE  BoardOf(m) = Device
<1> DEFINE pdms  == {i \in DOMAIN Known : Known[i].pdmType >= 0}
           typed == {i \in pdms : "pdmType" \in DOMAIN m /\ Known[i].pdmType = m["pdmType"]}
<1>1. PICK i \in DOMAIN Known : Known[i] = Device
  BY DeviceKnown DEF Range
<1>2. typed = {i} /\ i \in Int
  BY <1>1 DEF TypesDiffer, Has
<1> HIDE DEF typed
<1>3. Min(typed) = i
  BY <1>2 DEF Min
<1> USE DEF typed
<1> QED  BY <1>1, <1>2, <1>3 DEF BoardOf

\* There is no list without a device of the document.
LEMMA ListOfChosen ==
  ASSUME NEW d \in DOMAIN Docs, NEW partial \in BOOLEAN, Lists[d][partial].ok
  PROVE  ChosenOf(d) # 0 /\ Lists[d][partial] = Project(Chosen(d), partial)
<1> DEFINE list == DeviceParams(Docs[d], Target, partial)
<1>1. Lists[d][partial] = list
  BY DEF Lists
<1>2. CASE ChosenOf(d) = 0
  <2>1. list = Refusal
    BY <1>2 DEF DeviceParams, ChosenOf
  <2>2. ~ Refusal.ok
    BY DEF Refusal
  <2> HIDE DEF list
  <2> QED  BY <1>1, <2>1, <2>2
<1>3. CASE ChosenOf(d) # 0
  <2>1. list = Project(Chosen(d), partial)
    BY <1>3 DEF DeviceParams, ChosenOf, Chosen
  <2> QED  BY <1>1, <1>3, <2>1
<1> QED  BY <1>2, <1>3

\* A whole list that is made at all has a value for every parameter of its
\* board (deviceParams).
LEMMA WholeListCovers ==
  ASSUME NEW m, Project(m, FALSE).ok
  PROVE  DOMAIN Project(m, FALSE).params = DOMAIN Registry(BoardOf(m))
BY DEF Project, Refusal

\* So the whole list of a document for their board covers the two devices.
LEMMA ListCoversDevice ==
  ASSUME NEW d \in DOMAIN Docs, ForDevice(d), Lists[d][FALSE].ok
  PROVE  DOMAIN Lists[d][FALSE].params = DOMAIN Factory
<1>1. Lists[d][FALSE] = Project(Chosen(d), FALSE)
  BY ListOfChosen
<1>2. DOMAIN Factory = DOMAIN Registry(Device)
  BY DEF Factory, Params
<1> QED  BY <1>1, <1>2, WholeListCovers DEF ForDevice

-----------------------------------------------------------------------------
(* Writing a list.                                                         *)

\* It gives a device no new parameters, and one that covers two devices leaves
\* them the same.
LEMMA WritingAList ==
  ASSUME NEW list, NEW dev, DOMAIN dev = DOMAIN Factory,
         NEW other, DOMAIN other = DOMAIN Factory
  PROVE  /\ DOMAIN Written(dev, list) = DOMAIN Factory
         /\ DOMAIN list.params = DOMAIN Factory => Written(dev, list) = Written(other, list)
BY DEF Written

-----------------------------------------------------------------------------
(* The two devices keep their parameters, and agree as soon as a document  *)
(* for their board has been applied whole.                                 *)

SameParams == DOMAIN devA = DOMAIN Factory /\ DOMAIN devB = DOMAIN Factory

Agreement ==
  last.ok /\ ~last.partial =>
    /\ last.doc \in DOMAIN Docs
    /\ ChosenOf(last.doc) # 0
    /\ ForDevice(last.doc) => devA = devB

Inv == SameParams /\ Agreement

LEMMA InvInit ==
  ASSUME Init
  PROVE  Inv
BY DEF Init, Inv, SameParams, Agreement, Nothing, Factory, Other

LEMMA InvApply ==
  ASSUME Inv, NEW d \in DOMAIN Docs, NEW partial \in BOOLEAN, Apply(d, partial)
  PROVE  Inv'
<1> DEFINE list == Lists[d][partial]
<1>1. list.ok
  BY DEF Apply
<1>2. devA' = Written(devA, list) /\ devB' = Written(devB, list)
  BY DEF Apply
<1>3. last' = [doc |-> d, partial |-> partial, ok |-> TRUE]
  BY DEF Apply
<1>4. ChosenOf(d) # 0
  BY <1>1, ListOfChosen
<1> HIDE DEF list
<1>5. SameParams'
  BY <1>2, WritingAList DEF Inv, SameParams
<1>6. ASSUME ~partial, ForDevice(d)
      PROVE  devA' = devB'
  <2>1. DOMAIN list.params = DOMAIN Factory
    BY <1>1, <1>6, ListCoversDevice DEF list
  <2> QED  BY <1>2, <2>1, WritingAList DEF Inv, SameParams
<1> QED  BY <1>3, <1>4, <1>5, <1>6 DEF Inv, Agreement, ForDevice, Chosen, ChosenOf

LEMMA InvFail ==
  ASSUME Inv, NEW d \in DOMAIN Docs, NEW partial \in BOOLEAN, Fail(d, partial)
  PROVE  Inv'
BY DEF Fail, Inv, SameParams, Agreement

LEMMA InvStep ==
  ASSUME Inv, [Next]_vars
  PROVE  Inv'
<1>1. CASE Next
  BY <1>1, InvApply, InvFail DEF Next
<1>2. CASE UNCHANGED vars
  BY <1>2 DEF vars, Inv, SameParams, Agreement, ForDevice, Chosen, ChosenOf
<1> QED  BY <1>1, <1>2

LEMMA Invariance == Spec => []Inv
<1>1. Init => Inv
  BY InvInit
<1>2. Inv /\ [Next]_vars => Inv'
  BY InvStep
<1> QED  BY <1>1, <1>2, PTL DEF Spec

\* Whatever documents have been applied before, whole or in part, or refused:
\* the two devices are the same once a document that is taken to be for their
\* board has been applied whole (pdmcfg.go, DeviceParams).
THEOREM RightBoardSameDevice ==
  Spec => [](last.ok /\ ~last.partial /\ ForDevice(last.doc) => devA = devB)
<1>1. Inv => (last.ok /\ ~last.partial /\ ForDevice(last.doc) => devA = devB)
  BY DEF Inv, Agreement
<1> QED  BY <1>1, Invariance, PTL

\* Where the documents say what board they are for, each of them defines the
\* device: the same JSON applied to two differently-configured devices leaves
\* two devices that are the same (pdmcfg.go, package comment).
THEOREM DocumentDefinesDevice ==
  ASSUME TypesDiffer,
         \A d \in DOMAIN Docs : ChosenOf(d) # 0 => NamesBoard(d)
  PROVE  Spec => []SameDocumentSameDevice
<1>1. \A d \in DOMAIN Docs : ChosenOf(d) # 0 => ForDevice(d)
  BY TypedBoard DEF NamesBoard, ForDevice
<1>2. Inv => SameDocumentSameDevice
  BY <1>1 DEF Inv, Agreement, SameDocumentSameDevice
<1> QED  BY <1>2, Invariance, PTL

-----------------------------------------------------------------------------
(* Where a block lies.                                                     *)

GroupKeys     == <<"outputs", "inputs", "canInputs", "canOutputs", "virtualInputs", "conditions",
                   "counters", "flashers">>
GroupBases    == <<\h1000, \h1200, \h1300, \h2000, \h1400, \h1500, \h1600, \h1700>>
GroupRows(b)  == <<OutputRows(b), InputRows, CanInputRows, CanOutputRows, VirtualInputRows,
                   ConditionRows, CounterRows, FlasherRows>>
GroupCounts(b) == <<b.output, b.digIn, b.canIn, b.canOut, b.virtIn, b.condition, b.counter, b.flasher>>

\* the slots of a board do not run into the parameters that follow
SlotsFit(b) ==
  /\ \A j \in 1..8 : GroupCounts(b)[j] \in 0..256
  /\ b.digOut \in 0..256 /\ b.analogIn \in 0..256
  /\ b.keypad \in 0..8 /\ b.buttons \in 0..32 /\ b.dials \in Nat

\* the rows of the block at an index: the blocks up to the end of each area
RowsAt(b, index) ==
  IF index <= 0 THEN DeviceRows
  ELSE IF index <= \h10FF THEN OutputRows(b)
  ELSE IF index <= \h12FF THEN InputRows
  ELSE IF index <= \h13FF THEN CanInputRows
  ELSE IF index <= \h14FF THEN VirtualInputRows
  ELSE IF index <= \h15FF THEN ConditionRows
  ELSE IF index <= \h16FF THEN CounterRows
  ELSE IF index <= \h17FF THEN FlasherRows
  ELSE IF index <= \h18FF THEN StarterRows(b)
  ELSE IF index <= \h19FF THEN WiperRows
  ELSE IF index <= \h20FF THEN CanOutputRows
  ELSE IF index <= \h21FF THEN DigOutRows
  ELSE IF index <= \h22FF THEN AnalogRows
  ELSE IF index <= \h30FF THEN KeypadRows
  ELSE IF index <= \h31FF THEN ButtonRows
  ELSE DialRows

\* The table of the groups (registry.go).
LEMMA GroupNumbers ==
  ASSUME NEW b
  PROVE  DOMAIN Groups(b) = 1..8 /\ Range(Groups(b)) = {Groups(b)[j] : j \in 1..8}
<1>1. DOMAIN Groups(b) = 1..8
  BY DEF Groups
<1> QED BY <1>1 DEF Range

\* Its entries, one column at a time.
LEMMA GroupShape ==
  ASSUME NEW b, NEW j \in 1..8
  PROVE  /\ Groups(b)[j].key = GroupKeys[j] /\ Groups(b)[j].base = GroupBases[j]
         /\ Groups(b)[j].count = GroupCounts(b)[j] /\ Groups(b)[j].rows = GroupRows(b)[j]
<1>1. j = 1 \/ j = 2 \/ j = 3 \/ j = 4 \/ j = 5 \/ j = 6 \/ j = 7 \/ j = 8
  OBVIOUS
<1> QED BY <1>1 DEF Groups, GroupKeys, GroupBases, GroupCounts, GroupRows

\* The first index of a group is a number.
LEMMA GroupBaseType == ASSUME NEW j \in 1..8 PROVE GroupBases[j] \in Int
BY DEF GroupBases

\* The slots of the groups,
LEMMA GroupPlaces ==
  ASSUME NEW b, NEW j \in 1..8, NEW i \in 1..256
  PROVE  RowsAt(b, GroupBases[j] + i - 1) = GroupRows(b)[j]
<1>1. j = 1 \/ j = 2 \/ j = 3 \/ j = 4 \/ j = 5 \/ j = 6 \/ j = 7 \/ j = 8
  OBVIOUS
<1> QED BY <1>1 DEF RowsAt, GroupBases, GroupRows

\* the parts of a keypad
LEMMA KeypadPlaces ==
  ASSUME NEW b, NEW k \in 1..8
  PROVE  KeypadIndex(k) \in Int /\ RowsAt(b, KeypadIndex(k)) = KeypadRows
BY DEF RowsAt, KeypadIndex

\* with its buttons
LEMMA ButtonPlaces ==
  ASSUME NEW b, NEW k \in 1..8, NEW n \in 1..32
  PROVE  ButtonIndex(k, n) \in Int /\ RowsAt(b, ButtonIndex(k, n)) = ButtonRows
BY DEF RowsAt, ButtonIndex

\* and its dials,
LEMMA DialPlaces ==
  ASSUME NEW b, NEW k \in 1..8, NEW n \in Nat \ {0}
  PROVE  DialIndex(k, n) \in Int /\ RowsAt(b, DialIndex(k, n)) = DialRows
BY DEF RowsAt, DialIndex

\* and the rest each have a place of their own.
LEMMA SinglePlaces ==
  ASSUME NEW b
  PROVE  /\ RowsAt(b, 0) = DeviceRows
         /\ StarterIndex \in Int /\ RowsAt(b, StarterIndex) = StarterRows(b)
         /\ WiperIndex \in Int /\ RowsAt(b, WiperIndex) = WiperRows
BY DEF RowsAt, StarterIndex, WiperIndex

\* the digital outputs and the analogue inputs,
LEMMA OtherPlaces ==
  ASSUME NEW b, NEW i \in 1..256
  PROVE  /\ DigOutIndex(i) \in Int /\ RowsAt(b, DigOutIndex(i)) = DigOutRows
         /\ AnalogIndex(i) \in Int /\ RowsAt(b, AnalogIndex(i)) = AnalogRows
BY DEF RowsAt, DigOutIndex, AnalogIndex

\* A slot of a group,
LEMMA GroupBlock ==
  ASSUME NEW b, SlotsFit(b), NEW j \in 1..8, NEW i \in 1..Groups(b)[j].count
  PROVE  /\ Groups(b)[j].base + i - 1 \in Int
         /\ Groups(b)[j].rows = RowsAt(b, Groups(b)[j].base + i - 1)
<1>1. Groups(b)[j].base = GroupBases[j] /\ Groups(b)[j].rows = GroupRows(b)[j]
      /\ Groups(b)[j].count = GroupCounts(b)[j]
  BY GroupShape
<1>2. GroupCounts(b)[j] \in 0..256
  BY DEF SlotsFit
<1>3. i \in 1..256
  BY <1>1, <1>2
<1>4. GroupBases[j] \in Int
  BY GroupBaseType
<1>5. RowsAt(b, GroupBases[j] + i - 1) = GroupRows(b)[j]
  BY <1>3, GroupPlaces
<1> QED BY <1>1, <1>3, <1>4, <1>5

\* So the index of a block decides on its rows.
LEMMA BlocksPlaced ==
  ASSUME NEW b, SlotsFit(b), NEW k \in Blocks(b)
  PROVE  k.index \in Int /\ k.rows = RowsAt(b, k.index)
<1> DEFINE At(index, rows) == k = [index |-> index, rows |-> rows]
           Placed == k.index \in Int /\ k.rows = RowsAt(b, k.index)
<1> SUFFICES Placed
  OBVIOUS
<1>1. ASSUME NEW index \in Int, NEW rows, At(index, rows), rows = RowsAt(b, index)
      PROVE  Placed
  BY <1>1
<1>2. CASE k \in GroupBlocks(b)
  <2>1. PICK g \in Range(Groups(b)) : \E i \in 1..g.count : At(g.base + i - 1, g.rows)
    BY <1>2 DEF GroupBlocks
  <2>2. PICK j \in 1..8 : g = Groups(b)[j]
    BY GroupNumbers
  <2>3. PICK i \in 1..Groups(b)[j].count : At(Groups(b)[j].base + i - 1, Groups(b)[j].rows)
    BY <2>1, <2>2
  <2> HIDE DEF At, Placed
  <2> QED BY <2>3, <1>1, GroupBlock
<1>3. CASE k \in PinBlocks(b)
  <2>1. \/ \E i \in 1..b.digOut : At(DigOutIndex(i), DigOutRows)
        \/ \E i \in 1..b.analogIn : At(AnalogIndex(i), AnalogRows)
    <3>1. CASE k \in {[index |-> DigOutIndex(i), rows |-> DigOutRows] : i \in 1..b.digOut}
      BY <3>1
    <3>2. CASE k \in {[index |-> AnalogIndex(i), rows |-> AnalogRows] : i \in 1..b.analogIn}
      BY <3>2
    <3> HIDE DEF At
    <3> QED BY <1>3, <3>1, <3>2 DEF PinBlocks
  <2>2. ASSUME NEW n \in 0..256 PROVE 1..n \subseteq 1..256
    OBVIOUS
  <2>4. b.digOut \in 0..256 /\ b.analogIn \in 0..256
    BY DEF SlotsFit
  <2> HIDE DEF At, Placed
  <2>3. PICK i \in 1..256 : At(DigOutIndex(i), DigOutRows) \/ At(AnalogIndex(i), AnalogRows)
    BY <2>1, <2>2, <2>4
  <2> QED BY <2>3, <1>1, OtherPlaces
<1>4. CASE k \in KeypadBlocks(b)
  <2>1. PICK n \in 1..b.keypad :
          \/ At(KeypadIndex(n), KeypadRows)
          \/ \E i \in 1..b.buttons : At(ButtonIndex(n, i), ButtonRows)
          \/ \E i \in 1..b.dials : At(DialIndex(n, i), DialRows)
    BY <1>4 DEF KeypadBlocks
  <2>2. n \in 1..8 /\ 1..b.buttons \subseteq 1..32 /\ 1..b.dials \subseteq Nat \ {0}
    BY DEF SlotsFit
  <2> HIDE DEF At, Placed
  <2>3. CASE At(KeypadIndex(n), KeypadRows)
    BY <2>3, <2>2, <1>1, KeypadPlaces
  <2>4. CASE \E i \in 1..b.buttons : At(ButtonIndex(n, i), ButtonRows)
    BY <2>4, <2>2, <1>1, ButtonPlaces
  <2>5. CASE \E i \in 1..b.dials : At(DialIndex(n, i), DialRows)
    BY <2>5, <2>2, <1>1, DialPlaces
  <2> QED BY <2>1, <2>3, <2>4, <2>5
<1>5. CASE At(0, DeviceRows) \/ At(StarterIndex, StarterRows(b)) \/ At(WiperIndex, WiperRows)
  <2> HIDE DEF At, Placed
  <2> QED BY <1>1, <1>5, SinglePlaces
<1>6. CASE k \in WiperBlocks(b)
  BY <1>5, <1>6 DEF WiperBlocks
<1>7. CASE k = [index |-> 0, rows |-> DeviceRows]
  BY <1>5, <1>7
<1> HIDE DEF Placed
<1> QED BY <1>2, <1>3, <1>4, <1>6, <1>7 DEF Blocks

\* and what a parameter is, is said by its index and its subindex.
LEMMA RegistryRow ==
  ASSUME NEW b, SlotsFit(b), NEW a \in DOMAIN Registry(b)
  PROVE  /\ Registry(b)[a] = RowsAt(b, a[1])[a[2] + 1]
         /\ \E k \in Blocks(b) : \E i \in DOMAIN k.rows : a = <<k.index, i - 1>>
<1> DEFINE Dom == UNION {{<<k.index, i - 1>> : i \in DOMAIN k.rows} : k \in Blocks(b)}
           rows(index) == (CHOOSE k \in Blocks(b) : k.index = index).rows
<1>1. Registry(b) = [x \in Dom |-> rows(x[1])[x[2] + 1]]
  BY DEF Registry
<1>2. PICK k \in Blocks(b) : \E i \in DOMAIN k.rows : a = <<k.index, i - 1>>
  BY <1>1
<1>3. a[1] = k.index
  BY <1>2
<1>4. rows(a[1]) = RowsAt(b, a[1])
  BY <1>3, BlocksPlaced
<1> HIDE DEF rows
<1> QED BY <1>1, <1>2, <1>4

-----------------------------------------------------------------------------
(* What a document says.                                                   *)

\* the arrays of a document are sequences
ArrayKeys == {GroupKeys[j] : j \in 1..8} \cup {"keypads", "buttons", "dials"}
             \cup {"speedMap", "intermitTime", "outputsDisabled", "valColors", "valVars", "valBlink", "blinkColors"}
Regular(o) == \A key \in ArrayKeys : Len(Array(o, key)) \in Nat /\ DOMAIN Array(o, key) = 1..Len(Array(o, key))
IsDocument(m) ==
  /\ Regular(m) /\ Regular(Array(m, "wipers")) /\ Regular(Array(m, "starterDisable"))
  /\ \A k \in DOMAIN Array(m, "keypads") :
       LET o == Object(Array(m, "keypads")[k])
       IN  /\ Regular(o)
           /\ \A n \in DOMAIN Array(o, "buttons") : Regular(Object(Array(o, "buttons")[n]))

\* what the blocks of an object read of its arrays
ReadsArrays(o, arrays) ==
  \A x \in Range(arrays) : x[2] \in Nat /\ Len(Array(o, x[1])) \in Nat
                             /\ DOMAIN Array(o, x[1]) = 1..Len(Array(o, x[1]))

\* no array is so long that it runs into what follows
GroupsFit(m) == \A j \in 1..8 : Len(Array(m, GroupKeys[j])) <= 256
ArraysFit(m) ==
  /\ GroupsFit(m)
  /\ Len(Array(m, "keypads")) <= 8
  /\ \A k \in DOMAIN Array(m, "keypads") : Len(Array(Object(Array(m, "keypads")[k]), "buttons")) <= 32

\* An object is read as itself.
LEMMA ObjectTwice == ASSUME NEW x PROVE Object(Object(x)) = Object(x)
BY DEF Object

\* What is read is in one of the parts that are laid over each other.
LEMMA OverlayDomain ==
  ASSUME NEW parts, NEW a
  PROVE  a \in DOMAIN Overlay(parts) <=> \E i \in DOMAIN parts : a \in DOMAIN parts[i]
BY DEF Overlay

\* what one object says of the parameter a of its block, in a field or in an array
SaidIn(o, a, index, rows, arrays) ==
  /\ a[1] = index
  /\ \/ \E i \in DOMAIN rows : a = <<index, i - 1>> /\ Has(o, rows[i].json)
     \/ \E x \in Range(arrays) : a[2] \in x[2]..(x[2] + Len(Array(o, x[1])) - 1)

\* What is read of an object, it says (collect).
LEMMA CollectedSays ==
  ASSUME NEW object, NEW index, NEW rows, NEW arrays, NEW a \in DOMAIN Collected(object, index, rows, arrays),
         ReadsArrays(Object(object), arrays)
  PROVE  SaidIn(Object(object), a, index, rows, arrays)
<1> DEFINE o == Object(object)
           fields == FieldsOf(o, index, rows)
           entries == [j \in DOMAIN arrays |-> EntriesOf(o, index, arrays[j])]
<1>1. Collected(object, index, rows, arrays) = Overlay(<<fields, Overlay(entries)>>)
  BY DEF Collected
<1> HIDE DEF o
<1>2. CASE a \in DOMAIN fields
  BY <1>2 DEF FieldsOf, SaidIn, o
<1>3. CASE \E j \in DOMAIN arrays : a \in DOMAIN EntriesOf(o, index, arrays[j])
  <2>1. PICK j \in DOMAIN arrays : a \in DOMAIN EntriesOf(o, index, arrays[j])
    BY <1>3
  <2> DEFINE x == arrays[j]
  <2>2. x \in Range(arrays)
    BY DEF Range
  <2> HIDE DEF x
  <2>3. PICK i \in DOMAIN Array(o, x[1]) : a = <<index, x[2] + i - 1>>
    BY <2>1 DEF EntriesOf, x
  <2>4. i \in 1..Len(Array(o, x[1])) /\ Len(Array(o, x[1])) \in Nat /\ x[2] \in Nat
    BY <2>2, <2>3 DEF ReadsArrays, o
  <2>5. a[2] \in x[2]..(x[2] + Len(Array(o, x[1])) - 1) /\ a[1] = index
    BY <2>3, <2>4
  <2> QED BY <2>2, <2>5 DEF SaidIn, o
<1> HIDE DEF fields
<1>4. a \in DOMAIN fields \/ a \in DOMAIN Overlay(entries)
  <2> HIDE DEF entries
  <2>1. DOMAIN <<fields, Overlay(entries)>> = {1, 2}
    OBVIOUS
  <2>2. \E i \in DOMAIN <<fields, Overlay(entries)>> : a \in DOMAIN <<fields, Overlay(entries)>>[i]
    BY <1>1, OverlayDomain
  <2> QED BY <2>1, <2>2
<1>5. a \in DOMAIN Overlay(entries) => \E j \in DOMAIN arrays : a \in DOMAIN EntriesOf(o, index, arrays[j])
  <2>1. ASSUME a \in DOMAIN Overlay(entries)
        PROVE  \E j \in DOMAIN entries : a \in DOMAIN entries[j]
    <3> HIDE DEF entries
    <3> QED BY <2>1, OverlayDomain
  <2> QED BY <2>1
<1> QED BY <1>2, <1>3, <1>4, <1>5

\* What is read of an array, one of its objects says (collectArray).
LEMMA CollectedAllSays ==
  ASSUME NEW objects, NEW first, NEW rows, NEW arrays, NEW a \in DOMAIN CollectedAll(objects, first, rows, arrays),
         \A i \in DOMAIN objects : ReadsArrays(Object(objects[i]), arrays)
  PROVE  \E i \in DOMAIN objects : SaidIn(Object(objects[i]), a, first + i - 1, rows, arrays)
<1> DEFINE parts == [i \in DOMAIN objects |-> Collected(objects[i], first + i - 1, rows, arrays)]
<1>1. CollectedAll(objects, first, rows, arrays) = Overlay(parts)
  BY DEF CollectedAll
<1>2. PICK i \in DOMAIN parts : a \in DOMAIN parts[i]
  <2> HIDE DEF parts
  <2> QED BY <1>1, OverlayDomain
<1>3. i \in DOMAIN objects /\ a \in DOMAIN Collected(objects[i], first + i - 1, rows, arrays)
  BY <1>2
<1> QED BY <1>3, CollectedSays

\* The arrays of a regular object can be read.
LEMMA RegularReads ==
  ASSUME NEW o
  PROVE  /\ ReadsArrays(o, << >>)
         /\ Regular(o) => /\ ReadsArrays(o, WiperArrays) /\ ReadsArrays(o, StarterArrays)
                          /\ ReadsArrays(o, ButtonArrays)
<1>1. ASSUME NEW s, NEW x \in Range(s) PROVE \E i \in DOMAIN s : x = s[i]
  BY DEF Range
<1>2. ASSUME NEW x \in Range(WiperArrays) PROVE x[1] \in ArrayKeys /\ x[2] \in Nat
  BY <1>1 DEF WiperArrays, ArrayKeys
<1>3. ASSUME NEW x \in Range(StarterArrays) PROVE x[1] \in ArrayKeys /\ x[2] \in Nat
  BY <1>1 DEF StarterArrays, ArrayKeys
<1>4. ASSUME NEW x \in Range(ButtonArrays) PROVE x[1] \in ArrayKeys /\ x[2] \in Nat
  BY <1>1 DEF ButtonArrays, ArrayKeys
<1>5. Range(<< >>) = {}
  BY DEF Range
<1> QED BY <1>2, <1>3, <1>4, <1>5 DEF ReadsArrays, Regular

\* what a keypad says
KeypadSays(k, keypad, a) ==
  LET o == Object(keypad)
  IN  \/ SaidIn(o, a, KeypadIndex(k), KeypadRows, << >>)
      \/ \E n \in DOMAIN Array(o, "buttons") :
           SaidIn(Object(Array(o, "buttons")[n]), a, ButtonIndex(k, 1) + n - 1, ButtonRows, ButtonArrays)
      \/ \E n \in DOMAIN Array(o, "dials") :
           SaidIn(Object(Array(o, "dials")[n]), a, DialIndex(k, 1) + n - 1, DialRows, << >>)

\* What is read of a keypad, it says (collectKeypads).
LEMMA KeypadCollectedSays ==
  ASSUME NEW k, NEW keypad, NEW a \in DOMAIN CollectedKeypad(keypad, k),
         Regular(Object(keypad)),
         \A n \in DOMAIN Array(Object(keypad), "buttons") : Regular(Object(Array(Object(keypad), "buttons")[n]))
  PROVE  KeypadSays(k, keypad, a)
<1> DEFINE o == Object(keypad)
           P1 == Collected(o, KeypadIndex(k), KeypadRows, << >>)
           P2 == CollectedAll(Array(o, "buttons"), ButtonIndex(k, 1), ButtonRows, ButtonArrays)
           P3 == CollectedAll(Array(o, "dials"), DialIndex(k, 1), DialRows, << >>)
<1>1. CollectedKeypad(keypad, k) = Overlay(<<P1, P2, P3>>)
  BY DEF CollectedKeypad
<1>2. CASE a \in DOMAIN P1
  <2>1. ReadsArrays(Object(o), << >>) /\ Object(o) = o
    BY RegularReads, ObjectTwice
  <2>2. SaidIn(Object(o), a, KeypadIndex(k), KeypadRows, << >>)
    BY <1>2, <2>1, CollectedSays
  <2> QED BY <2>1, <2>2 DEF KeypadSays
<1>3. CASE a \in DOMAIN P2
  BY <1>3, CollectedAllSays, RegularReads DEF KeypadSays
<1>4. CASE a \in DOMAIN P3
  BY <1>4, CollectedAllSays, RegularReads DEF KeypadSays
<1> HIDE DEF P1, P2, P3
<1>5. DOMAIN <<P1, P2, P3>> = {1, 2, 3}
  OBVIOUS
<1>6. \E i \in DOMAIN <<P1, P2, P3>> : a \in DOMAIN <<P1, P2, P3>>[i]
  BY <1>1, OverlayDomain
<1>7. a \in DOMAIN P1 \/ a \in DOMAIN P2 \/ a \in DOMAIN P3
  BY <1>5, <1>6
<1> QED BY <1>2, <1>3, <1>4, <1>7

\* Whatever a document says of a parameter is in an object that is for its block.
LEMMA ValuesSay ==
  ASSUME NEW m, IsDocument(m), NEW b, NEW a \in DOMAIN Values(m, b)
  PROVE  \/ SaidIn(Object(m), a, 0, DeviceRows, << >>)
         \/ \E j \in 1..8 : \E i \in DOMAIN Array(m, Groups(b)[j].key) :
              SaidIn(Object(Array(m, Groups(b)[j].key)[i]), a, Groups(b)[j].base + i - 1, Groups(b)[j].rows, << >>)
         \/ Has(m, "wipers") /\ SaidIn(Object(m["wipers"]), a, WiperIndex, WiperRows, WiperArrays)
         \/ /\ Has(m, "starterDisable")
            /\ SaidIn(Object(m["starterDisable"]), a, StarterIndex, StarterRows(b), StarterArrays)
         \/ \E k \in DOMAIN Array(m, "keypads") : KeypadSays(k, Array(m, "keypads")[k], a)
<1> DEFINE single(key, index, rows, arrays) ==
             IF Has(m, key) THEN Collected(m[key], index, rows, arrays) ELSE << >>
           group(g) == CollectedAll(Array(m, g.key), g.base, g.rows, << >>)
           keypads == Array(m, "keypads")
           groups == [j \in DOMAIN Groups(b) |-> group(Groups(b)[j])]
           pads == [k \in DOMAIN keypads |-> CollectedKeypad(keypads[k], k)]
           P1 == Collected(m, 0, DeviceRows, << >>)
           P3 == single("wipers", WiperIndex, WiperRows, WiperArrays)
           P4 == single("starterDisable", StarterIndex, StarterRows(b), StarterArrays)
<1>1. Values(m, b) = Overlay(<<P1, Overlay(groups), P3, P4, Overlay(pads)>>)
  BY DEF Values
<1>2. CASE a \in DOMAIN P1
  BY <1>2, CollectedSays, RegularReads
<1>3. CASE \E j \in DOMAIN groups : a \in DOMAIN groups[j]
  <2>1. PICK j \in 1..8 : a \in DOMAIN CollectedAll(Array(m, Groups(b)[j].key), Groups(b)[j].base,
                                                  Groups(b)[j].rows, << >>)
    BY <1>3, GroupNumbers
  <2> QED BY <2>1, CollectedAllSays, RegularReads
<1>4. CASE a \in DOMAIN P3
  <2>1. Has(m, "wipers") /\ a \in DOMAIN Collected(m["wipers"], WiperIndex, WiperRows, WiperArrays)
    BY <1>4
  <2>2. Array(m, "wipers") = m["wipers"] /\ m["wipers"] # Null
    BY <2>1 DEF Array, Has
  <2>3. Regular(Object(m["wipers"]))
    BY <2>2 DEF Object, IsDocument
  <2> QED BY <2>1, <2>3, CollectedSays, RegularReads
<1>5. CASE a \in DOMAIN P4
  <2>1. /\ Has(m, "starterDisable")
        /\ a \in DOMAIN Collected(m["starterDisable"], StarterIndex, StarterRows(b), StarterArrays)
    BY <1>5
  <2>2. Array(m, "starterDisable") = m["starterDisable"] /\ m["starterDisable"] # Null
    BY <2>1 DEF Array, Has
  <2>3. Regular(Object(m["starterDisable"]))
    BY <2>2 DEF Object, IsDocument
  <2> QED BY <2>1, <2>3, CollectedSays, RegularReads
<1>6. CASE \E k \in DOMAIN pads : a \in DOMAIN pads[k]
  <2>1. PICK k \in DOMAIN keypads : a \in DOMAIN CollectedKeypad(keypads[k], k)
    BY <1>6
  <2>2. KeypadSays(k, keypads[k], a)
    BY <2>1, KeypadCollectedSays DEF IsDocument
  <2> QED BY <2>2
<1> HIDE DEF P1, P3, P4, groups, pads
<1>7. DOMAIN <<P1, Overlay(groups), P3, P4, Overlay(pads)>> = 1..5
  OBVIOUS
<1>8. \E i \in 1..5 : a \in DOMAIN <<P1, Overlay(groups), P3, P4, Overlay(pads)>>[i]
  BY <1>1, <1>7, OverlayDomain
<1>9. \/ a \in DOMAIN P1 \/ a \in DOMAIN Overlay(groups) \/ a \in DOMAIN P3 \/ a \in DOMAIN P4
      \/ a \in DOMAIN Overlay(pads)
  BY <1>8
<1>10. /\ a \in DOMAIN Overlay(groups) => \E j \in DOMAIN groups : a \in DOMAIN groups[j]
       /\ a \in DOMAIN Overlay(pads) => \E k \in DOMAIN pads : a \in DOMAIN pads[k]
  BY OverlayDomain
<1> QED BY <1>2, <1>3, <1>4, <1>5, <1>6, <1>9, <1>10

-----------------------------------------------------------------------------
(* What -partial writes.                                                   *)

\* The rows of a block are numbered.
LEMMA Numbered == ASSUME NEW S, NEW s \in Seq(S) PROVE DOMAIN s \subseteq Int
OBVIOUS

\* One table of rows after another is a table,
LEMMA Appended ==
  ASSUME NEW S, NEW T, NEW s \in Seq(S), NEW t \in Seq(T)
  PROVE  s \o t \in Seq(S \cup T)
OBVIOUS

\* as it is of more kinds of rows,
LEMMA Widened == ASSUME NEW S, NEW T, T \subseteq S, NEW s \in Seq(T) PROVE s \in Seq(S)
OBVIOUS

\* and a row repeated is one.
LEMMA Repeated == ASSUME NEW n \in Nat, NEW row PROVE Several(n, row) \in Seq({row})
BY DEF Several

\* So the tables that are put together are numbered,
LEMMA LongTables ==
  ASSUME NEW b, b.output \in Nat
  PROVE  DOMAIN StarterRows(b) \subseteq Int /\ DOMAIN WiperRows \subseteq Int /\ DOMAIN ButtonRows \subseteq Int
<1>1. DOMAIN StarterRows(b) \subseteq Int
  <2> DEFINE t == <<Bool("enabled"), Ref("input")>>
  <2>1. t \in Seq({Bool("enabled"), Ref("input")})
    OBVIOUS
  <2> HIDE DEF t
  <2> QED BY <2>1, Repeated, Appended, Numbered DEF StarterRows, t
<1>2. DOMAIN WiperRows \subseteq Int
  <2> DEFINE t == <<Bool("enabled"), Num("mode", 0, 0, 2), Ref("slowInput"), Ref("fastInput"), Ref("interInput"),
                    Ref("onInput"), Ref("speedInput"), Ref("parkInput"), Bool("parkStopLevel"), Ref("swipeInput"),
                    Ref("washInput"), Num("washWipeCycles", 3, 0, 10)>>
             u == [i \in 1..8 |-> Num("", <<3, 4, 5, 6, 7, 8, 1, 2>>[i], 0, 8)]
             v == [i \in 1..6 |-> Num("", 1000 * i, 0, 30000)]
  <2>1. WiperRows = t \o u \o v
    BY DEF WiperRows
  <2>2. t \in Seq(Range(t))
    BY DEF Range
  <2>3. u \in Seq(Range(u)) /\ v \in Seq(Range(v))
    BY DEF Range
  <2> HIDE DEF t, u, v
  <2> QED BY <2>1, <2>2, <2>3, Appended, Numbered
<1>3. DOMAIN ButtonRows \subseteq Int
  <2> DEFINE t == <<Bool("enabled"), Num("mode", 0, 0, 1)>>
             u == <<Num("faultColor", 0, 0, 7)>>
             v == <<Ref("faultVar")>>
             w == <<Bool("faultBlink")>>
             x == <<Num("faultBlinkColor", 0, 0, 7)>>
  <2>1. ButtonRows = t \o Several(4, Num("", 0, 0, 7)) \o u \o Several(4, Ref("")) \o v
                     \o Several(4, Bool("")) \o w \o Several(4, Num("", 0, 0, 7)) \o x
    BY DEF ButtonRows
  <2>2. /\ t \in Seq(Range(t)) /\ u \in Seq(Range(u)) /\ v \in Seq(Range(v))
        /\ w \in Seq(Range(w)) /\ x \in Seq(Range(x))
    BY DEF Range
  <2> DEFINE a == Several(4, Num("", 0, 0, 7))
             c == Several(4, Ref(""))
             d == Several(4, Bool(""))
             S == Range(t) \cup Range(u) \cup Range(v) \cup Range(w) \cup Range(x)
                  \cup {Num("", 0, 0, 7), Ref(""), Bool("")}
  <2>3. a \in Seq({Num("", 0, 0, 7)}) /\ c \in Seq({Ref("")}) /\ d \in Seq({Bool("")})
    BY Repeated
  <2> HIDE DEF t, u, v, w, x, a, c, d
  <2>4. /\ t \in Seq(S) /\ u \in Seq(S) /\ v \in Seq(S) /\ w \in Seq(S) /\ x \in Seq(S)
        /\ a \in Seq(S) /\ c \in Seq(S) /\ d \in Seq(S)
    <3>1. /\ Range(t) \subseteq S /\ Range(u) \subseteq S /\ Range(v) \subseteq S /\ Range(w) \subseteq S
          /\ Range(x) \subseteq S
          /\ {Num("", 0, 0, 7)} \subseteq S /\ {Ref("")} \subseteq S /\ {Bool("")} \subseteq S
      OBVIOUS
    <3> HIDE DEF S
    <3> QED BY <2>2, <2>3, <3>1, Widened
  <2> HIDE DEF S
  <2>5. t \o a \o u \o c \in Seq(S)
    BY <2>4
  <2>6. t \o a \o u \o c \o v \o d \in Seq(S)
    BY <2>4, <2>5
  <2>7. t \o a \o u \o c \o v \o d \o w \o a \o x \in Seq(S)
    BY <2>4, <2>6
  <2> QED BY <2>1, <2>7, Numbered DEF a, c, d
<1> QED BY <1>1, <1>2, <1>3

\* and so is every other.
LEMMA RowsNumbered ==
  ASSUME NEW b, b.output \in Nat, NEW index \in Int
  PROVE  DOMAIN RowsAt(b, index) \subseteq Int
<1>1. /\ DOMAIN DeviceRows \subseteq Int /\ DOMAIN OutputRows(b) \subseteq Int /\ DOMAIN InputRows \subseteq Int
      /\ DOMAIN CanInputRows \subseteq Int /\ DOMAIN VirtualInputRows \subseteq Int
      /\ DOMAIN ConditionRows \subseteq Int /\ DOMAIN CounterRows \subseteq Int /\ DOMAIN FlasherRows \subseteq Int
      /\ DOMAIN CanOutputRows \subseteq Int /\ DOMAIN DigOutRows \subseteq Int /\ DOMAIN AnalogRows \subseteq Int
      /\ DOMAIN KeypadRows \subseteq Int /\ DOMAIN DialRows \subseteq Int
  BY DEF DeviceRows, OutputRows, InputRows, CanInputRows, VirtualInputRows, ConditionRows, CounterRows,
         FlasherRows, CanOutputRows, DigOutRows, AnalogRows, KeypadRows, DialRows
<1> QED BY <1>1, LongTables DEF RowsAt

\* an object, or an array of it, has a value for a parameter of the device
Says(object, a, index, arrays) ==
  LET o == Object(object)
  IN  /\ a[1] = index
      /\ \/ Has(o, Params[a].json)
         \/ \E x \in Range(arrays) : a[2] \in x[2]..(x[2] + Len(Array(o, x[1])) - 1)

\* What a document says of a parameter that the device has, it says under the
\* name of that parameter, or in an array.
LEMMA SaidByName ==
  ASSUME SlotsFit(Device), NEW a \in DOMAIN Params, NEW object, NEW index \in Int, NEW rows, NEW arrays,
         rows = RowsAt(Device, index), SaidIn(Object(object), a, index, rows, arrays)
  PROVE  Says(object, a, index, arrays)
<1> DEFINE o == Object(object)
<1> SUFFICES /\ a[1] = index
             /\ \/ Has(o, Params[a].json)
                \/ \E x \in Range(arrays) : a[2] \in x[2]..(x[2] + Len(Array(o, x[1])) - 1)
  BY DEF Says
<1> HIDE DEF o
<1>1. Params[a] = RowsAt(Device, a[1])[a[2] + 1]
  BY RegistryRow DEF Params
<1>2. ASSUME NEW i \in DOMAIN RowsAt(Device, index), a = <<index, i - 1>>, Has(o, RowsAt(Device, index)[i].json)
      PROVE  Has(o, Params[a].json)
  <2>1. Device.output \in Nat
    BY DEF SlotsFit, GroupCounts
  <2>2. i \in Int
    BY <2>1, RowsNumbered
  <2>3. a[1] = index /\ a[2] + 1 = i
    BY <1>2, <2>2
  <2> QED BY <1>1, <1>2, <2>3
<1> QED BY <1>2 DEF SaidIn, o

\* The keys of the arrays that are read.
LEMMA KeysRead ==
  /\ "keypads" \in ArrayKeys /\ "buttons" \in ArrayKeys /\ "dials" \in ArrayKeys
  /\ \A j \in 1..8 : GroupKeys[j] \in ArrayKeys
BY DEF ArrayKeys

\* An object of an array has a number.
LEMMA RegularArray ==
  ASSUME NEW o, Regular(o), NEW key \in ArrayKeys, NEW i \in DOMAIN Array(o, key)
  PROVE  Len(Array(o, key)) \in Nat /\ i \in 1..Len(Array(o, key))
BY DEF Regular

\* A number within a bound is within a wider one.
LEMMA InBounds == ASSUME NEW n \in Nat, NEW i \in 1..n, NEW most \in Nat, n <= most PROVE i \in 1..most
OBVIOUS

\* a slot's number in its array
SlotNumbers == 1..256

\* It is that of a slot that a board could have.
LEMMA NumberOfSlot ==
  ASSUME NEW m, IsDocument(m), ArraysFit(m), NEW j \in 1..8, NEW i \in DOMAIN Array(m, GroupKeys[j])
  PROVE  i \in SlotNumbers
<1> DEFINE most == 256
<1>1. Regular(m)
  BY DEF IsDocument
<1>2. Len(Array(m, GroupKeys[j])) <= most
  <2>1. GroupsFit(m)
    BY DEF ArraysFit
  <2> QED BY <2>1 DEF GroupsFit
<1>3. Len(Array(m, GroupKeys[j])) \in Nat /\ i \in 1..Len(Array(m, GroupKeys[j]))
  BY <1>1, KeysRead, RegularArray
<1>4. most \in Nat
  OBVIOUS
<1> HIDE DEF most
<1>5. i \in 1..most
  BY <1>2, <1>3, <1>4, InBounds
<1> QED BY <1>5 DEF SlotNumbers, most

\* The keypad's part,
LEMMA KeypadNames ==
  ASSUME SlotsFit(Device), NEW d, IsDocument(Chosen(d)), ArraysFit(Chosen(d)), NEW a \in DOMAIN Params,
         NEW k \in DOMAIN Array(Chosen(d), "keypads"), KeypadSays(k, Array(Chosen(d), "keypads")[k], a)
  PROVE  Names(Docs[d], a)
<1> DEFINE m == Chosen(d)
           keypads == Array(m, "keypads")
           o == Object(keypads[k])
<1>1. k \in 1..8 /\ k \in DOMAIN keypads /\ Regular(o)
  <2>1. Regular(m) /\ Len(keypads) <= 8 /\ Regular(o)
    BY DEF IsDocument, ArraysFit
  <2> QED BY <2>1, KeysRead, RegularArray
<1>2. CASE SaidIn(o, a, KeypadIndex(k), KeypadRows, << >>)
  <2>1. Says(keypads[k], a, KeypadIndex(k), << >>)
    BY <1>1, <1>2, KeypadPlaces, SaidByName
  <2> QED BY <1>1, <2>1 DEF Names, Says, Chosen, ChosenOf
<1>3. CASE \E n \in DOMAIN Array(o, "buttons") :
             SaidIn(Object(Array(o, "buttons")[n]), a, ButtonIndex(k, 1) + n - 1, ButtonRows, ButtonArrays)
  <2>1. PICK n \in DOMAIN Array(o, "buttons") :
             SaidIn(Object(Array(o, "buttons")[n]), a, ButtonIndex(k, 1) + n - 1, ButtonRows, ButtonArrays)
    BY <1>3
  <2>2. n \in 1..32
    <3>1. Len(Array(o, "buttons")) <= 32
      BY <1>1 DEF ArraysFit
    <3>2. Len(Array(o, "buttons")) \in Nat /\ n \in 1..Len(Array(o, "buttons"))
      BY <1>1, <2>1, KeysRead, RegularArray
    <3> QED BY <3>1, <3>2, InBounds
  <2>3. ButtonIndex(k, 1) + n - 1 = ButtonIndex(k, n)
    BY <1>1, <2>2 DEF ButtonIndex
  <2>4. Says(Array(o, "buttons")[n], a, ButtonIndex(k, n), ButtonArrays)
    BY <1>1, <2>1, <2>2, <2>3, ButtonPlaces, SaidByName
  <2> QED BY <1>1, <2>1, <2>4 DEF Names, Says, Chosen, ChosenOf
<1>4. CASE \E n \in DOMAIN Array(o, "dials") :
             SaidIn(Object(Array(o, "dials")[n]), a, DialIndex(k, 1) + n - 1, DialRows, << >>)
  <2>1. PICK n \in DOMAIN Array(o, "dials") :
             SaidIn(Object(Array(o, "dials")[n]), a, DialIndex(k, 1) + n - 1, DialRows, << >>)
    BY <1>4
  <2>2. n \in Nat \ {0}
    BY <1>1, <2>1, KeysRead, RegularArray
  <2>3. DialIndex(k, 1) + n - 1 = DialIndex(k, n)
    BY <1>1, <2>2 DEF DialIndex
  <2>4. Says(Array(o, "dials")[n], a, DialIndex(k, n), << >>)
    BY <1>1, <2>1, <2>2, <2>3, DialPlaces, SaidByName
  <2> QED BY <1>1, <2>1, <2>4 DEF Names, Says, Chosen, ChosenOf
<1> QED BY <1>2, <1>3, <1>4 DEF KeypadSays

\* and every other.
LEMMA ValuesAreNamed ==
  ASSUME SlotsFit(Device), NEW d, IsDocument(Chosen(d)), ArraysFit(Chosen(d)),
         NEW a \in DOMAIN Params, a \in DOMAIN Values(Chosen(d), Device)
  PROVE  Names(Docs[d], a)
<1> DEFINE m == Chosen(d)
<1>1. CASE SaidIn(Object(m), a, 0, DeviceRows, << >>)
  <2>1. 0 \in Int /\ DeviceRows = RowsAt(Device, 0)
    BY SinglePlaces
  <2>2. Says(m, a, 0, << >>)
    BY Zenon, <1>1, <2>1, SaidByName
  <2> QED BY <2>2 DEF Names, Says, Chosen, ChosenOf
<1>2. CASE \E j \in 1..8 : \E i \in DOMAIN Array(m, Groups(Device)[j].key) :
             SaidIn(Object(Array(m, Groups(Device)[j].key)[i]), a, Groups(Device)[j].base + i - 1,
                    Groups(Device)[j].rows, << >>)
  <2>8. PICK j \in 1..8 : \E i \in DOMAIN Array(m, Groups(Device)[j].key) :
             SaidIn(Object(Array(m, Groups(Device)[j].key)[i]), a, Groups(Device)[j].base + i - 1,
                    Groups(Device)[j].rows, << >>)
    BY <1>2
  <2>1. PICK i \in DOMAIN Array(m, Groups(Device)[j].key) :
             SaidIn(Object(Array(m, Groups(Device)[j].key)[i]), a, Groups(Device)[j].base + i - 1,
                    Groups(Device)[j].rows, << >>)
    BY <2>8
  <2> DEFINE g == Groups(Device)[j]
  <2>2. g.key = GroupKeys[j] /\ g.base = GroupBases[j] /\ g.rows = GroupRows(Device)[j]
    BY GroupShape
  <2>3. i \in 1..256
    BY <2>1, <2>2, NumberOfSlot DEF SlotNumbers
  <2>4. g.base + i - 1 \in Int /\ g.rows = RowsAt(Device, g.base + i - 1)
    <3>1. GroupBases[j] \in Int
      BY GroupBaseType
    <3>2. RowsAt(Device, GroupBases[j] + i - 1) = GroupRows(Device)[j]
      BY <2>3, GroupPlaces
    <3> QED BY <2>2, <2>3, <3>1, <3>2
  <2>5. g \in Range(Groups(Device))
    BY GroupNumbers
  <2> HIDE DEF g
  <2>6. Says(Array(m, g.key)[i], a, g.base + i - 1, << >>)
    BY <2>1, <2>4, SaidByName DEF g
  <2>7. i \in DOMAIN Array(m, g.key)
    BY <2>1 DEF g
  <2> QED BY <2>5, <2>6, <2>7 DEF Names, Says, Chosen, ChosenOf
<1>3. CASE Has(m, "wipers") /\ SaidIn(Object(m["wipers"]), a, WiperIndex, WiperRows, WiperArrays)
  <2>1. Array(m, "wipers") = m["wipers"]
    BY <1>3 DEF Array
  <2>2. Says(Array(m, "wipers"), a, WiperIndex, WiperArrays)
    BY <1>3, <2>1, SinglePlaces, SaidByName
  <2> QED BY <2>2 DEF Names, Says, Chosen, ChosenOf
<1>4. CASE /\ Has(m, "starterDisable")
           /\ SaidIn(Object(m["starterDisable"]), a, StarterIndex, StarterRows(Device), StarterArrays)
  <2>1. Array(m, "starterDisable") = m["starterDisable"]
    BY <1>4 DEF Array
  <2>2. Says(Array(m, "starterDisable"), a, StarterIndex, StarterArrays)
    BY <1>4, <2>1, SinglePlaces, SaidByName
  <2> QED BY <2>2 DEF Names, Says, Chosen, ChosenOf
<1>5. CASE \E k \in DOMAIN Array(m, "keypads") : KeypadSays(k, Array(m, "keypads")[k], a)
  BY <1>5, KeypadNames
<1> QED BY <1>1, <1>2, <1>3, <1>4, <1>5, ValuesSay

\* A list with -partial has nothing but what the document says.
LEMMA PartialList ==
  ASSUME NEW m, Project(m, TRUE).ok
  PROVE  DOMAIN Project(m, TRUE).params = DOMAIN Values(m, BoardOf(m))
BY DEF Project, Refusal

\* the documents are JSON, for the board of the devices, and not longer than a board could be
DocumentsFit ==
  \A d \in DOMAIN Docs : ChosenOf(d) # 0 => ForDevice(d) /\ IsDocument(Chosen(d)) /\ ArraysFit(Chosen(d))

\* With -partial, applying a document changes no parameter that it has no value
\* for, on either device (Options.Partial; collectField, collectArray).
THEOREM PartialWritesWhatIsNamed ==
  ASSUME SlotsFit(Device), DocumentsFit
  PROVE  Spec => OnlyNamedFieldsWritten
<1> DEFINE Step == \A a \in DOMAIN Factory :
             last'.partial /\ (devA'[a] # devA[a] \/ devB'[a] # devB[a]) => Names(Docs[last'.doc], a)
<1>1. ASSUME Inv, NEW d \in DOMAIN Docs, NEW partial \in BOOLEAN, Apply(d, partial) PROVE Step
  <2> SUFFICES ASSUME NEW a \in DOMAIN Factory, last'.partial, devA'[a] # devA[a] \/ devB'[a] # devB[a]
               PROVE  Names(Docs[last'.doc], a)
    OBVIOUS
  <2> DEFINE list == Lists[d][partial]
  <2>1. list.ok /\ devA' = Written(devA, list) /\ devB' = Written(devB, list)
        /\ last' = [doc |-> d, partial |-> partial, ok |-> TRUE]
    BY <1>1 DEF Apply
  <2>2. partial = TRUE /\ last'.doc = d
    BY <2>1
  <2>3. ChosenOf(d) # 0 /\ list = Project(Chosen(d), TRUE)
    BY <2>1, <2>2, ListOfChosen
  <2> HIDE DEF list
  <2>4. a \in DOMAIN list.params
    BY <1>1, <2>1 DEF Inv, SameParams, Written
  <2>5. a \in DOMAIN Values(Chosen(d), Device)
    BY <2>1, <2>3, <2>4, PartialList DEF DocumentsFit, ForDevice
  <2>6. a \in DOMAIN Params
    BY DEF Factory
  <2> QED BY <2>2, <2>3, <2>5, <2>6, ValuesAreNamed DEF DocumentsFit
<1>2. ASSUME NEW d \in DOMAIN Docs, NEW partial \in BOOLEAN, Fail(d, partial) PROVE Step
  BY <1>2 DEF Fail
<1>3. Inv /\ [Next]_vars => [Step]_vars
  <2> HIDE DEF Step
  <2> QED BY <1>1, <1>2 DEF Next
<1> QED BY <1>3, Invariance, PTL DEF Spec, OnlyNamedFieldsWritten

-----------------------------------------------------------------------------
(* The two tables of the fields.                                           *)

\* The fields that the simulator knows of a group are rows of it, with the same
\* defaults (FW_DEFAULTS; registry.go).
SameField(row, group, field) ==
  /\ row.json = field /\ row.def = Sim!FwDefaults[group][field]
  /\ row.type = "bool" => row.def \in {0, 1}

\* There are eight groups.
LEMMA EightGroups ==
  ASSUME NEW j \in 1..8
  PROVE  j = 1 \/ j = 2 \/ j = 3 \/ j = 4 \/ j = 5 \/ j = 6 \/ j = 7 \/ j = 8
OBVIOUS

\* Every field that the simulator knows is such a row.
LEMMA FieldsAreRows ==
  ASSUME NEW b, NEW j \in 1..8, NEW field \in DOMAIN Sim!FwDefaults[GroupKeys[j]]
  PROVE  \E s \in DOMAIN GroupRows(b)[j] : SameField(GroupRows(b)[j][s], GroupKeys[j], field)
<1> USE DEF SameField, GroupKeys, GroupRows, Sim!FwDefaults, Row, Num, Bool, Ref, Float
<1>1. CASE j = 1
  <2>1. GroupRows(b)[j] = OutputRows(b) /\ GroupKeys[j] = "outputs"
    BY <1>1
  <2>2. \E s \in DOMAIN OutputRows(b) : SameField(OutputRows(b)[s], "outputs", field)
    BY SMTT(20), <1>1 DEF OutputRows
  <2> QED BY <2>1, <2>2
<1>2. CASE j = 2
  BY <1>2 DEF InputRows
<1>3. CASE j = 3
  <2>1. GroupRows(b)[j] = CanInputRows /\ GroupKeys[j] = "canInputs"
    BY <1>3
  <2>2. \E s \in DOMAIN CanInputRows : SameField(CanInputRows[s], "canInputs", field)
    BY SMTT(20), <1>3 DEF CanInputRows
  <2> QED BY <2>1, <2>2
<1>4. CASE j = 4
  BY SMTT(20), <1>4 DEF CanOutputRows
<1>5. CASE j = 5
  BY SMTT(20), <1>5 DEF VirtualInputRows
<1>6. CASE j = 6
  BY <1>6 DEF ConditionRows
<1>7. CASE j = 7
  <2>1. GroupRows(b)[j] = CounterRows /\ GroupKeys[j] = "counters"
    BY <1>7
  <2>2. \E s \in DOMAIN CounterRows : SameField(CounterRows[s], "counters", field)
    BY SMTT(20), <1>7 DEF CounterRows
  <2> QED BY <2>1, <2>2
<1>8. CASE j = 8
  BY <1>8 DEF FlasherRows
<1> HIDE DEF SameField, GroupKeys, GroupRows, Sim!FwDefaults, Row, Num, Bool, Ref, Float
<1> QED BY EightGroups, <1>1, <1>2, <1>3, <1>4, <1>5, <1>6, <1>7, <1>8

\* No two rows of a group have the same name.
LEMMA RowsApart ==
  ASSUME NEW b, NEW j \in 1..8, NEW s \in DOMAIN GroupRows(b)[j], NEW t \in DOMAIN GroupRows(b)[j],
         GroupRows(b)[j][s].json = GroupRows(b)[j][t].json
  PROVE  s = t
<1> USE DEF GroupRows, Row, Num, Bool, Ref, Float
<1>1. CASE j = 1
  BY SMTT(20), <1>1 DEF OutputRows
<1>2. CASE j = 2
  BY <1>2 DEF InputRows
<1>3. CASE j = 3
  BY SMTT(20), <1>3 DEF CanInputRows
<1>4. CASE j = 4
  BY SMTT(20), <1>4 DEF CanOutputRows
<1>5. CASE j = 5
  BY SMTT(20), <1>5 DEF VirtualInputRows
<1>6. CASE j = 6
  BY <1>6 DEF ConditionRows
<1>7. CASE j = 7
  BY SMTT(20), <1>7 DEF CounterRows
<1>8. CASE j = 8
  BY <1>8 DEF FlasherRows
<1> HIDE DEF GroupRows, Row, Num, Bool, Ref, Float
<1> QED BY EightGroups, <1>1, <1>2, <1>3, <1>4, <1>5, <1>6, <1>7, <1>8

LEMMA ReferenceNames ==
  Sim!References = {"input", "var0", "var1", "var2", "incInput", "decInput", "resetInput"}
<1>1. DOMAIN Sim!RefFields = {"outputs", "inputs", "canInputs", "canOutputs", "virtualInputs",
                             "conditions", "counters", "flashers"}
  BY DEF Sim!RefFields
<1>2. Sim!Range(Sim!RefFields) = {Sim!RefFields[x] : x \in DOMAIN Sim!RefFields}
  BY DEF Sim!Range
<1>3. ASSUME NEW v
      PROVE  /\ v \in Sim!RefFields["outputs"] <=> v = "input"
             /\ v \in Sim!RefFields["canOutputs"] <=> v = "input"
             /\ v \in Sim!RefFields["conditions"] <=> v = "input"
             /\ v \in Sim!RefFields["flashers"] <=> v = "input"
  BY DEF Sim!RefFields
<1>6. ASSUME NEW v
      PROVE  v \notin Sim!RefFields["inputs"] /\ v \notin Sim!RefFields["canInputs"]
  BY DEF Sim!RefFields
<1>7. ASSUME NEW v
      PROVE  v \in Sim!RefFields["virtualInputs"] <=> v \in {"var0", "var1", "var2"}
  BY DEF Sim!RefFields
<1>8. ASSUME NEW v
      PROVE  v \in Sim!RefFields["counters"] <=> v \in {"incInput", "decInput", "resetInput"}
  BY DEF Sim!RefFields
<1>4. \A v : v \in Sim!References <=> \E x \in DOMAIN Sim!RefFields : v \in Sim!RefFields[x]
  BY <1>2 DEF Sim!References
<1>5. \A v : v \in Sim!References <=> v \in {"input", "var0", "var1", "var2", "incInput", "decInput", "resetInput"}
  BY <1>1, <1>3, <1>6, <1>7, <1>8, <1>4
<1> QED BY <1>5

\* The adversarial policy has another value for every field but minCount, and
\* for enabled, which depends on more (_adversarial).
LEMMA AdversarialDiffers ==
  ASSUME NEW j \in 1..8, NEW field \in DOMAIN Sim!FwDefaults[GroupKeys[j]] \ {"minCount", "enabled"}
  PROVE  Sim!Default("adversarial", GroupKeys[j], field) # Sim!FwDefaults[GroupKeys[j]][field]
<1> DEFINE g == GroupKeys[j]
           default == Sim!FwDefaults[g][field]
<1>1. Sim!Adversarial(field, default) # default
  <2> USE ReferenceNames DEF Sim!FwDefaults, Sim!Adversarial, Sim!Truths, GroupKeys
  <2>1. CASE j = 1
    BY <2>1
  <2>2. CASE j = 2
    BY <2>2
  <2>3. CASE j = 3
    BY <2>3
  <2>4. CASE j = 4
    BY <2>4
  <2>5. CASE j = 5
    BY <2>5
  <2>6. CASE j = 6
    BY <2>6
  <2>7. CASE j = 7
    BY <2>7
  <2>8. CASE j = 8
    BY <2>8
  <2> HIDE DEF Sim!FwDefaults, Sim!Adversarial, Sim!Truths, GroupKeys
  <2> QED BY EightGroups, <2>1, <2>2, <2>3, <2>4, <2>5, <2>6, <2>7, <2>8
<1>2. Sim!Default("adversarial", g, field) = Sim!Adversarial(field, default)
  BY DEF Sim!Default
<1> QED BY <1>1, <1>2

\* Each group has such a field, and enabled is false in all of them.
LEMMA GroupsHaveFields ==
  ASSUME NEW j \in 1..8
  PROVE  /\ DOMAIN Sim!FwDefaults[GroupKeys[j]] \ {"minCount", "enabled"} # {}
         /\ Sim!FwDefaults[GroupKeys[j]]["enabled"] = 0
<1> USE DEF GroupKeys, Sim!FwDefaults
<1>1. CASE j = 1
  BY <1>1
<1>2. CASE j = 2
  BY <1>2
<1>3. CASE j = 3
  BY <1>3
<1>4. CASE j = 4
  BY <1>4
<1>5. CASE j = 5
  BY <1>5
<1>6. CASE j = 6
  BY <1>6
<1>7. CASE j = 7
  BY <1>7
<1>8. CASE j = 8
  BY <1>8
<1> HIDE DEF GroupKeys, Sim!FwDefaults
<1> QED BY EightGroups, <1>1, <1>2, <1>3, <1>4, <1>5, <1>6, <1>7, <1>8

\* The simulator has the groups of the table, each once,
LEMMA GroupsSimulated ==
  /\ DOMAIN Sim!FwDefaults = {GroupKeys[j] : j \in 1..8}
  /\ \A j, k \in 1..8 : GroupKeys[j] = GroupKeys[k] => j = k
BY DEF GroupKeys, Sim!FwDefaults

\* with as many slots.
LEMMA CountOfGroup ==
  ASSUME NEW b, NEW j \in 1..8 PROVE Sim!Count(b, GroupKeys[j]) = GroupCounts(b)[j]
<1>1. j = 1 \/ j = 2 \/ j = 3 \/ j = 4 \/ j = 5 \/ j = 6 \/ j = 7 \/ j = 8
  OBVIOUS
<1> QED BY <1>1 DEF GroupKeys, Sim!Count, GroupCounts

-----------------------------------------------------------------------------
(* The device that the simulator loads.                                    *)

\* the devices of a document are in arrays, and where there are several each has
\* a base id
DeviceArrays(doc) ==
  /\ doc.PdmDevices \in Seq(Range(doc.PdmDevices))
  /\ doc.PdmMaxDevices \in Seq(Range(doc.PdmMaxDevices))
HasId(device) == Has(device, "baseId") /\ device["baseId"] \in Nat /\ device["baseId"] < \h10000
IdsApart(doc) == Len(doc.PdmDevices) # 1 => \A i \in DOMAIN doc.PdmDevices : HasId(doc.PdmDevices[i])

\* a base id is a number
IdsAreNumbers == Target \in Int /\ Null \notin Int

\* The simulator takes the first device that fits,
LEMMA Smallest ==
  ASSUME NEW S, NEW i \in S, \A k \in S : k \in Int /\ i <= k
  PROVE  Sim!Min(S) = i
<1>1. \A x \in S : (\A y \in S : x <= y) <=> x = i
  OBVIOUS
<1>2. Sim!Min(S) = CHOOSE x \in S : \A y \in S : x <= y
  BY DEF Sim!Min
<1>3. Sim!Min(S) = CHOOSE x \in S : x = i
  BY <1>1, <1>2
<1> QED BY <1>3

\* and where one fits it is the last one too.
LEMMA Largest == ASSUME NEW i \in Int PROVE Max({i}) = i
BY DEF Max

\* A base id of sixteen bits is read as it is.
LEMMA WholeId ==
  ASSUME NEW x, HasId(x)
  PROVE  Has(x, "baseId") /\ (IF Has(x, "baseId") THEN x["baseId"] % \h10000 ELSE 0) = x["baseId"]
<1>1. x["baseId"] \in Nat /\ x["baseId"] < \h10000 /\ Has(x, "baseId")
  BY DEF HasId
<1>2. x["baseId"] % \h10000 = x["baseId"]
  BY <1>1
<1> QED BY <1>1, <1>2

\* The devices of the two arrays are numbered one after the other,
LEMMA Joined ==
  ASSUME NEW S, NEW T, NEW s \in Seq(S), NEW t \in Seq(T)
  PROVE  /\ \A k \in DOMAIN s : k \in Int /\ k \in DOMAIN (s \o t) /\ (s \o t)[k] = s[k]
         /\ \A k \in DOMAIN (s \o t) : k \in Int /\ (k \in DOMAIN s \/ \A i \in DOMAIN s : i <= k)
OBVIOUS

\* and one that is alone is the first.
LEMMA SingleOf == ASSUME NEW S, NEW s \in Seq(S), Len(s) = 1 PROVE DOMAIN s = {1}
OBVIOUS

\* Where the ids tell the devices apart, apply and the simulator choose the same.
LEMMA SameChoice ==
  ASSUME IdsAreNumbers, NEW d \in DOMAIN Docs, DeviceArrays(Docs[d]), IdsApart(Docs[d]),
         OneDevice(Docs[d]), ChosenOf(d) # 0,
         NEW policy \in {"firmware", "adversarial"}, Loads[d][policy].ok
  PROVE  /\ ChosenOf(d) \in DOMAIN Docs[d].PdmDevices
         /\ Loads[d][policy].groups =
              [g \in DOMAIN Sim!FwDefaults |-> Sim!SlotsOf(Chosen(d), g, Loads[d][policy].board, policy)]
<1> DEFINE doc == Docs[d]
           pdms == doc.PdmDevices
           c == ChosenOf(d)
           target == IF Len(doc.PdmDevices) = 1 THEN Null ELSE Target
           maxs == doc.PdmMaxDevices
           devices == pdms \o maxs
           matching == {i \in DOMAIN devices :
                          "baseId" \in DOMAIN devices[i] /\ devices[i]["baseId"] = target}
           found == IF target # Null THEN matching ELSE IF Len(devices) = 1 THEN {1} ELSE {}
           device == devices[Sim!Min(found)]
           load == Sim!Load(doc, target, policy)
<1>1. Loads[d][policy] = load
  BY DEF Loads
<1>2. load.ok =>
        found # {} /\ load.groups = [g \in DOMAIN Sim!FwDefaults |-> Sim!SlotsOf(device, g, load.board, policy)]
  <2> DEFINE typed == {i \in DOMAIN Known : Known[i].pdmType >= 0 /\ Known[i].pdmType =
                         IF "pdmType" \in DOMAIN device THEN device["pdmType"] ELSE 0}
             b == IF typed # {} THEN Known[Sim!Min(typed)] ELSE Known[1]
             groups == [g \in DOMAIN Sim!FwDefaults |-> Sim!SlotsOf(device, g, b, policy)]
             accepted == /\ found # {}
                         /\ ~Sim!Unmodelled(device)
                         /\ \A g \in DOMAIN Sim!FwDefaults : Len(Sim!OrEmpty(device, g)) <= Sim!Count(b, g)
                         /\ Sim!RefsValid(b, groups)
  <2>1. load = IF accepted THEN [ok |-> TRUE, board |-> b, groups |-> groups] ELSE Sim!Refused
    BY Zenon DEF Sim!Load
  <2>2. accepted => found # {}
    OBVIOUS
  <2>3. ~Sim!Refused.ok
    BY DEF Sim!Refused
  <2> HIDE DEF load, accepted, b, found, device
  <2>4. CASE accepted
    BY <2>1, <2>2, <2>4
  <2>5. CASE ~accepted
    BY <2>1, <2>3, <2>5
  <2> QED BY <2>4, <2>5
<1> HIDE DEF load
<1>3. found # {}
  BY <1>1, <1>2
<1>4. pdms \in Seq(Range(pdms)) /\ maxs \in Seq(Range(maxs))
  BY DEF DeviceArrays
<1>7. /\ \A k \in DOMAIN pdms : k \in Int /\ k \in DOMAIN devices /\ devices[k] = pdms[k]
      /\ \A k \in DOMAIN devices : k \in Int /\ (k \in DOMAIN pdms \/ \A n \in DOMAIN pdms : n <= k)
  <2> HIDE DEF pdms, maxs
  <2> QED BY <1>4, Joined
<1>5. c \in DOMAIN pdms /\ Sim!Min(found) = c
  <2>1. CASE Len(pdms) = 1
    <3>1. target = Null
      BY <2>1
    <3>2. found = {1}
      BY <1>3, <3>1
    <3>3. DOMAIN pdms = {1}
      BY <2>1, <1>4, SingleOf
    <3>4. c = 1
      BY <2>1, <3>3, Largest DEF ChosenOf, ChosenDevice
    <3> HIDE DEF found
    <3>5. 1 \in found /\ \A k \in found : k \in Int /\ 1 <= k
      BY <3>2
    <3> QED BY <3>3, <3>4, <3>5, Smallest
  <2>2. CASE Len(pdms) # 1
    <3> DEFINE id(x) == IF Has(x, "baseId") THEN x["baseId"] % \h10000 ELSE 0
               mine == {i \in DOMAIN pdms : id(pdms[i]) = Target}
    <3>1. mine # {} /\ c = Max(mine)
      BY <2>2 DEF ChosenOf, ChosenDevice
    <3>2. \A i \in DOMAIN pdms : Has(pdms[i], "baseId") /\ id(pdms[i]) = pdms[i]["baseId"]
      <4>1. \A i \in DOMAIN pdms : HasId(pdms[i])
        BY <2>2 DEF IdsApart
      <4> QED BY <4>1, WholeId
    <3> HIDE DEF id
    <3>3. PICK i \in DOMAIN pdms : pdms[i]["baseId"] = Target
      BY <3>1, <3>2
    <3>4. mine = {i} /\ i \in Int
      BY <3>2, <3>3, <1>4 DEF OneDevice
    <3>5. c = i
      BY <3>1, <3>4, Largest
    <3>6. target = Target /\ target # Null
      BY <2>2 DEF IdsAreNumbers
    <3>7. found = {k \in DOMAIN devices : "baseId" \in DOMAIN devices[k] /\ devices[k]["baseId"] = Target}
      BY <3>6
    <3> HIDE DEF found
    <3> HIDE DEF devices
    <3>10. i \in found
      BY <3>2, <3>3, <3>7, <1>7 DEF Has
    <3>11. \A k \in found : k \in Int /\ i <= k
      BY <3>2, <3>4, <3>3, <3>7, <1>7
    <3> QED BY <3>3, <3>4, <3>5, <3>10, <3>11, Smallest
  <2> QED BY <2>1, <2>2
<1> HIDE DEF found
<1>6. device = pdms[c]
  BY <1>5, <1>7
<1> QED BY <1>1, <1>2, <1>5, <1>6 DEF Chosen, ChosenOf

-----------------------------------------------------------------------------
(* What a document says of the field of a slot.                            *)

\* The areas of the groups lie apart from each other and from the rest.
LEMMA GroupsApart ==
  ASSUME NEW j \in 1..8, NEW k \in 1..8, NEW i \in SlotNumbers, NEW n \in SlotNumbers,
         GroupBases[j] + i - 1 = GroupBases[k] + n - 1
  PROVE  j = k /\ i = n
<1>1. j = 1 \/ j = 2 \/ j = 3 \/ j = 4 \/ j = 5 \/ j = 6 \/ j = 7 \/ j = 8
  OBVIOUS
<1>2. k = 1 \/ k = 2 \/ k = 3 \/ k = 4 \/ k = 5 \/ k = 6 \/ k = 7 \/ k = 8
  OBVIOUS
<1> QED BY <1>1, <1>2 DEF GroupBases, SlotNumbers

\* A group lies outside of the areas of the other objects.
LEMMA GroupsInside ==
  ASSUME NEW j \in 1..8, NEW i \in SlotNumbers, NEW index, index = GroupBases[j] + i - 1
  PROVE  /\ index \in Int /\ index > 0 /\ index < \h3000
         /\ index # StarterIndex /\ index # WiperIndex
<1>1. j = 1 \/ j = 2 \/ j = 3 \/ j = 4 \/ j = 5 \/ j = 6 \/ j = 7 \/ j = 8
  OBVIOUS
<1> QED BY <1>1 DEF SlotNumbers, GroupBases, StarterIndex, WiperIndex

\* A keypad says nothing of the slot of a group,
LEMMA KeypadSaysElsewhere ==
  ASSUME NEW k \in 1..8, NEW keypad, NEW a, KeypadSays(k, keypad, a),
         Regular(Object(keypad))
  PROVE  a[1] \in Int /\ a[1] >= \h3000
<1> DEFINE o == Object(keypad)
<1>1. ASSUME NEW n \in DOMAIN Array(o, "buttons") PROVE n \in Nat \ {0}
  BY <1>1, KeysRead, RegularArray
<1>2. ASSUME NEW n \in DOMAIN Array(o, "dials") PROVE n \in Nat \ {0}
  BY <1>2, KeysRead, RegularArray
<1> HIDE DEF o
<1>3. ASSUME NEW n \in Nat \ {0}
      PROVE  /\ KeypadIndex(k) \in Int /\ KeypadIndex(k) >= \h3000
             /\ ButtonIndex(k, 1) + n - 1 \in Int /\ ButtonIndex(k, 1) + n - 1 >= \h3000
             /\ DialIndex(k, 1) + n - 1 \in Int /\ DialIndex(k, 1) + n - 1 >= \h3000
  BY DEF KeypadIndex, ButtonIndex, DialIndex
<1>4. \/ a[1] = KeypadIndex(k)
      \/ \E n \in DOMAIN Array(o, "buttons") : a[1] = ButtonIndex(k, 1) + n - 1
      \/ \E n \in DOMAIN Array(o, "dials") : a[1] = DialIndex(k, 1) + n - 1
  BY DEF KeypadSays, SaidIn, o
<1> QED BY <1>1, <1>2, <1>3, <1>4

\* so what a document says of it, it says in the slot.
LEMMA SaidInTheSlot ==
  ASSUME NEW m, IsDocument(m), ArraysFit(m), NEW b, NEW j \in 1..8, NEW i \in SlotNumbers, NEW s,
         <<GroupBases[j] + i - 1, s>> \in DOMAIN Values(m, b)
  PROVE  /\ i \in DOMAIN Array(m, GroupKeys[j])
         /\ SaidIn(Object(Array(m, GroupKeys[j])[i]), <<GroupBases[j] + i - 1, s>>,
                   GroupBases[j] + i - 1, GroupRows(b)[j], << >>)
<1> DEFINE index == GroupBases[j] + i - 1
           a == <<index, s>>
<1>1. a[1] = index
  OBVIOUS
<1>2. index \in Int /\ index > 0 /\ index < \h3000 /\ index # StarterIndex /\ index # WiperIndex
  BY GroupsInside
<1>3. ~ SaidIn(Object(m), a, 0, DeviceRows, << >>)
  BY <1>1, <1>2 DEF SaidIn
<1>4. ~ SaidIn(Object(m["wipers"]), a, WiperIndex, WiperRows, WiperArrays)
  BY <1>1, <1>2 DEF SaidIn
<1>5. ~ SaidIn(Object(m["starterDisable"]), a, StarterIndex, StarterRows(b), StarterArrays)
  BY <1>1, <1>2 DEF SaidIn
<1>6. ASSUME NEW k \in DOMAIN Array(m, "keypads") PROVE ~ KeypadSays(k, Array(m, "keypads")[k], a)
  <2>1. Regular(m) /\ Len(Array(m, "keypads")) <= 8 /\ Regular(Object(Array(m, "keypads")[k]))
    BY <1>6 DEF IsDocument, ArraysFit
  <2>2. k \in 1..8
    BY <1>6, <2>1, KeysRead, RegularArray
  <2> HIDE DEF index
  <2> QED BY <1>1, <1>2, <2>1, <2>2, KeypadSaysElsewhere
<1> HIDE DEF a
<1>7. PICK k \in 1..8 : \E n \in DOMAIN Array(m, Groups(b)[k].key) :
        SaidIn(Object(Array(m, Groups(b)[k].key)[n]), a, Groups(b)[k].base + n - 1, Groups(b)[k].rows, << >>)
  BY <1>3, <1>4, <1>5, <1>6, ValuesSay DEF a
<1>8. /\ Groups(b)[k].key = GroupKeys[k] /\ Groups(b)[k].base = GroupBases[k]
      /\ Groups(b)[k].rows = GroupRows(b)[k]
  BY GroupShape
<1>9. PICK n \in DOMAIN Array(m, GroupKeys[k]) :
        SaidIn(Object(Array(m, GroupKeys[k])[n]), a, GroupBases[k] + n - 1, GroupRows(b)[k], << >>)
  BY <1>7, <1>8
<1>10. n \in SlotNumbers
  BY <1>9, NumberOfSlot
<1>11. GroupBases[j] + i - 1 = GroupBases[k] + n - 1
  BY <1>1, <1>9 DEF SaidIn
<1>12. j = k /\ i = n
  BY <1>10, <1>11, GroupsApart
<1> QED BY <1>9, <1>12 DEF a

\* What one part alone says is what is said.
LEMMA OverlayAt ==
  ASSUME NEW parts, NEW i \in DOMAIN parts, i \in Int, NEW a \in DOMAIN parts[i],
         \A k \in DOMAIN parts : a \in DOMAIN parts[k] => k = i
  PROVE  Overlay(parts)[a] = parts[i][a]
<1>1. {k \in DOMAIN parts : a \in DOMAIN parts[k]} = {i}
  OBVIOUS
<1>2. Max({i}) = i
  BY Largest
<1>3. a \in UNION {DOMAIN parts[k] : k \in DOMAIN parts}
  OBVIOUS
<1> QED BY <1>1, <1>2, <1>3 DEF Overlay

\* The rows of a group are numbered.
LEMMA GroupRowsNumbered ==
  ASSUME NEW b, NEW j \in 1..8, NEW s \in DOMAIN GroupRows(b)[j] PROVE s \in Int
<1>1. j = 1 \/ j = 2 \/ j = 3 \/ j = 4 \/ j = 5 \/ j = 6 \/ j = 7 \/ j = 8
  OBVIOUS
<1>2. /\ DOMAIN OutputRows(b) \subseteq Int /\ DOMAIN InputRows \subseteq Int
      /\ DOMAIN CanInputRows \subseteq Int /\ DOMAIN VirtualInputRows \subseteq Int
      /\ DOMAIN ConditionRows \subseteq Int /\ DOMAIN CounterRows \subseteq Int
      /\ DOMAIN FlasherRows \subseteq Int /\ DOMAIN CanOutputRows \subseteq Int
  BY DEF OutputRows, InputRows, CanInputRows, VirtualInputRows, ConditionRows, CounterRows,
         FlasherRows, CanOutputRows
<1> QED BY <1>1, <1>2 DEF GroupRows

\* A field of an object is read at the place of its row,
LEMMA FieldRead ==
  ASSUME NEW object, NEW index, NEW rows, NEW s \in DOMAIN rows, s \in Int,
         Has(Object(object), rows[s].json)
  PROVE  /\ <<index, s - 1>> \in DOMAIN Collected(object, index, rows, << >>)
         /\ Collected(object, index, rows, << >>)[<<index, s - 1>>] = Object(object)[rows[s].json]
<1> DEFINE o == Object(object)
           a == <<index, s - 1>>
           fields == FieldsOf(o, index, rows)
           entries == [j \in DOMAIN << >> |-> EntriesOf(o, index, << >>[j])]
           parts == <<fields, Overlay(entries)>>
<1> HIDE DEF o
<1>1. a \in DOMAIN fields /\ fields[a] = o[rows[s].json]
  <2>1. a \in {<<index, i - 1>> : i \in {i \in DOMAIN rows : Has(o, rows[i].json)}}
    BY DEF o
  <2>2. a[2] + 1 = s
    OBVIOUS
  <2> HIDE DEF a
  <2> QED BY <2>1, <2>2 DEF FieldsOf
<1>2. Collected(object, index, rows, << >>) = Overlay(parts)
  BY DEF Collected, o
<1>3. DOMAIN Overlay(entries) = {}
  <2>1. DOMAIN entries = {}
    OBVIOUS
  <2> HIDE DEF entries
  <2> QED BY <2>1, OverlayDomain
<1> HIDE DEF fields, entries, a
<1>4. DOMAIN parts = {1, 2} /\ parts[1] = fields /\ parts[2] = Overlay(entries)
  OBVIOUS
<1> HIDE DEF parts
<1> QED BY <1>1, <1>2, <1>3, <1>4, OverlayAt, OverlayDomain DEF a, o

\* in the slot of an array that the row is of,
LEMMA SlotRead ==
  ASSUME NEW objects, NEW first \in Int, NEW rows, NEW i \in DOMAIN objects, DOMAIN objects \subseteq Int,
         NEW s \in DOMAIN rows, s \in Int, Has(Object(objects[i]), rows[s].json)
  PROVE  /\ <<first + i - 1, s - 1>> \in DOMAIN CollectedAll(objects, first, rows, << >>)
         /\ CollectedAll(objects, first, rows, << >>)[<<first + i - 1, s - 1>>] = Object(objects[i])[rows[s].json]
<1> DEFINE a == <<first + i - 1, s - 1>>
           parts == [n \in DOMAIN objects |-> Collected(objects[n], first + n - 1, rows, << >>)]
<1>1. CollectedAll(objects, first, rows, << >>) = Overlay(parts)
  BY DEF CollectedAll
<1>2. a \in DOMAIN parts[i] /\ parts[i][a] = Object(objects[i])[rows[s].json]
  <2>1. parts[i] = Collected(objects[i], first + i - 1, rows, << >>)
    OBVIOUS
  <2> HIDE DEF parts
  <2> DEFINE place == first + i - 1
             object == objects[i]
  <2>2. Has(Object(object), rows[s].json)
    OBVIOUS
  <2> HIDE DEF place, object
  <2>3. /\ <<place, s - 1>> \in DOMAIN Collected(object, place, rows, << >>)
        /\ Collected(object, place, rows, << >>)[<<place, s - 1>>] = Object(object)[rows[s].json]
    BY <2>2, FieldRead
  <2> QED BY <2>1, <2>3 DEF place, object
<1>3. ASSUME NEW n \in DOMAIN objects, a \in DOMAIN parts[n] PROVE n = i
  <2>1. SaidIn(Object(objects[n]), a, first + n - 1, rows, << >>)
    BY <1>3, CollectedSays, RegularReads
  <2>2. first + i - 1 = first + n - 1
    BY <2>1 DEF SaidIn
  <2> QED BY <2>2
<1>4. DOMAIN parts = DOMAIN objects /\ i \in Int
  OBVIOUS
<1> HIDE DEF parts, a
<1> QED BY <1>1, <1>2, <1>3, <1>4, OverlayAt, OverlayDomain DEF a

\* and nothing that is read of the rest of the document takes its place.
LEMMA SlotSays ==
  ASSUME NEW m, IsDocument(m), ArraysFit(m), NEW b, NEW j \in 1..8, NEW i \in DOMAIN Array(m, GroupKeys[j]),
         NEW s \in DOMAIN GroupRows(b)[j], Has(Object(Array(m, GroupKeys[j])[i]), GroupRows(b)[j][s].json)
  PROVE  /\ <<GroupBases[j] + i - 1, s - 1>> \in DOMAIN Values(m, b)
         /\ Values(m, b)[<<GroupBases[j] + i - 1, s - 1>>]
              = Object(Array(m, GroupKeys[j])[i])[GroupRows(b)[j][s].json]
<1> DEFINE index == GroupBases[j] + i - 1
           a == <<index, s - 1>>
           value == Object(Array(m, GroupKeys[j])[i])[GroupRows(b)[j][s].json]
           single(key, place, rows, arrays) ==
             IF Has(m, key) THEN Collected(m[key], place, rows, arrays) ELSE << >>
           group(g) == CollectedAll(Array(m, g.key), g.base, g.rows, << >>)
           keypads == Array(m, "keypads")
           groups == [k \in DOMAIN Groups(b) |-> group(Groups(b)[k])]
           pads == [k \in DOMAIN keypads |-> CollectedKeypad(keypads[k], k)]
           P1 == Collected(m, 0, DeviceRows, << >>)
           P3 == single("wipers", WiperIndex, WiperRows, WiperArrays)
           P4 == single("starterDisable", StarterIndex, StarterRows(b), StarterArrays)
           parts == <<P1, Overlay(groups), P3, P4, Overlay(pads)>>
<1>1. Values(m, b) = Overlay(parts)
  BY DEF Values
<1>2. i \in SlotNumbers /\ s \in Int /\ index \in Int /\ a[1] = index
      /\ index > 0 /\ index < \h3000 /\ index # StarterIndex /\ index # WiperIndex
  <2>1. i \in SlotNumbers /\ s \in Int
    BY NumberOfSlot, GroupRowsNumbered
  <2>2. index \in Int /\ index > 0 /\ index < \h3000 /\ index # StarterIndex /\ index # WiperIndex
    BY <2>1, GroupsInside
  <2> QED BY <2>1, <2>2
<1>3. ASSUME NEW k \in 1..8
      PROVE  groups[k] = CollectedAll(Array(m, GroupKeys[k]), GroupBases[k], GroupRows(b)[k], << >>)
  BY GroupNumbers, GroupShape
<1>4. a \in DOMAIN groups[j] /\ groups[j][a] = value
  <2>1. GroupBases[j] \in Int
    BY GroupBaseType
  <2>2. DOMAIN Array(m, GroupKeys[j]) \subseteq Int
    <3>1. \A n \in DOMAIN Array(m, GroupKeys[j]) : n \in SlotNumbers
      BY Zenon, NumberOfSlot
    <3>2. \A n \in SlotNumbers : n \in Int
      BY DEF SlotNumbers
    <3> QED BY Zenon, <3>1, <3>2
  <2> DEFINE objects == Array(m, GroupKeys[j])
             rows == GroupRows(b)[j]
             first == GroupBases[j]
             read == CollectedAll(objects, first, rows, << >>)
  <2>3. groups[j] = read
    BY <1>3
  <2>4. /\ first \in Int /\ i \in DOMAIN objects /\ DOMAIN objects \subseteq Int
        /\ s \in DOMAIN rows /\ s \in Int /\ Has(Object(objects[i]), rows[s].json)
    BY <1>2, <2>1, <2>2
  <2> HIDE DEF objects, rows, first
  <2>5. /\ <<first + i - 1, s - 1>> \in DOMAIN read
        /\ read[<<first + i - 1, s - 1>>] = Object(objects[i])[rows[s].json]
    BY <2>4, SlotRead
  <2> HIDE DEF read
  <2> QED BY <2>3, <2>5 DEF objects, rows, first
<1>5. ASSUME NEW k \in 1..8, a \in DOMAIN groups[k] PROVE k = j
  <2>1. a \in DOMAIN CollectedAll(Array(m, GroupKeys[k]), GroupBases[k], GroupRows(b)[k], << >>)
    BY <1>3, <1>5
  <2>2. PICK n \in DOMAIN Array(m, GroupKeys[k]) :
          SaidIn(Object(Array(m, GroupKeys[k])[n]), a, GroupBases[k] + n - 1, GroupRows(b)[k], << >>)
    BY <2>1, CollectedAllSays, RegularReads
  <2>3. n \in SlotNumbers
    BY NumberOfSlot
  <2>4. GroupBases[j] + i - 1 = GroupBases[k] + n - 1
    BY <2>2 DEF SaidIn
  <2> QED BY <1>2, <2>3, <2>4, GroupsApart
<1>6. DOMAIN groups = 1..8
  BY GroupNumbers
<1>7. a \in DOMAIN Overlay(groups) /\ Overlay(groups)[a] = value
  <2> HIDE DEF groups, a, value
  <2>1. j \in Int
    OBVIOUS
  <2> QED BY <1>4, <1>5, <1>6, <2>1, OverlayAt, OverlayDomain
<1>8. a \notin DOMAIN P1
  <2>1. a \in DOMAIN P1 => SaidIn(Object(m), a, 0, DeviceRows, << >>)
    BY CollectedSays, RegularReads
  <2> QED BY <1>2, <2>1 DEF SaidIn
<1>9. a \notin DOMAIN P3
  <2> SUFFICES ASSUME Has(m, "wipers"), a \in DOMAIN Collected(m["wipers"], WiperIndex, WiperRows, WiperArrays)
               PROVE  FALSE
    OBVIOUS
  <2>2. Array(m, "wipers") = m["wipers"] /\ m["wipers"] # Null
    BY DEF Array, Has
  <2>3. Regular(Object(m["wipers"]))
    BY <2>2 DEF Object, IsDocument
  <2>4. SaidIn(Object(m["wipers"]), a, WiperIndex, WiperRows, WiperArrays)
    BY <2>3, CollectedSays, RegularReads
  <2> QED BY <1>2, <2>4 DEF SaidIn
<1>10. a \notin DOMAIN P4
  <2> SUFFICES ASSUME Has(m, "starterDisable"),
                      a \in DOMAIN Collected(m["starterDisable"], StarterIndex, StarterRows(b), StarterArrays)
               PROVE  FALSE
    OBVIOUS
  <2>2. Array(m, "starterDisable") = m["starterDisable"] /\ m["starterDisable"] # Null
    BY DEF Array, Has
  <2>3. Regular(Object(m["starterDisable"]))
    BY <2>2 DEF Object, IsDocument
  <2>4. SaidIn(Object(m["starterDisable"]), a, StarterIndex, StarterRows(b), StarterArrays)
    BY <2>3, CollectedSays, RegularReads
  <2> QED BY <1>2, <2>4 DEF SaidIn
<1>11. ASSUME NEW k \in DOMAIN pads PROVE a \notin DOMAIN pads[k]
  <2> SUFFICES ASSUME a \in DOMAIN CollectedKeypad(keypads[k], k) PROVE FALSE
    BY <1>11
  <2>1. KeypadSays(k, keypads[k], a)
    BY <1>11, KeypadCollectedSays DEF IsDocument
  <2>2. Regular(m) /\ Len(keypads) <= 8 /\ Regular(Object(keypads[k]))
    BY <1>11 DEF IsDocument, ArraysFit
  <2>3. Len(keypads) \in Nat /\ k \in 1..Len(keypads)
    BY <1>11, <2>2, KeysRead, RegularArray
  <2>4. k \in 1..8
    BY <2>2, <2>3, InBounds
  <2> HIDE DEF a, index
  <2>5. a[1] >= \h3000
    BY <2>1, <2>2, <2>4, KeypadSaysElsewhere
  <2> QED BY <1>2, <2>5
<1>12. a \notin DOMAIN Overlay(pads)
  <2> HIDE DEF pads, a
  <2> QED BY <1>11, OverlayDomain
<1> HIDE DEF P1, P3, P4, groups, pads, a, value
<1>13. /\ DOMAIN parts = 1..5 /\ parts[1] = P1 /\ parts[2] = Overlay(groups) /\ parts[3] = P3
       /\ parts[4] = P4 /\ parts[5] = Overlay(pads)
  OBVIOUS
<1>14. \A k \in 1..5 : k = 1 \/ k = 2 \/ k = 3 \/ k = 4 \/ k = 5
  OBVIOUS
<1> HIDE DEF parts
<1>15. \A k \in DOMAIN parts : a \in DOMAIN parts[k] => k = 2
  BY <1>8, <1>9, <1>10, <1>12, <1>13, <1>14
<1>16. 2 \in DOMAIN parts /\ a \in DOMAIN parts[2] /\ parts[2][a] = value
  BY <1>7, <1>13
<1>17. a \in DOMAIN Overlay(parts) /\ Overlay(parts)[a] = value
  BY <1>15, <1>16, OverlayAt, OverlayDomain
<1> QED BY <1>1, <1>17 DEF a, value, index

-----------------------------------------------------------------------------
(* The field of a slot, in the simulator and in the device.                *)

\* a document has a value for the field of a slot
SaysField(m, j, i, field) ==
  i \in DOMAIN Array(m, GroupKeys[j]) /\ Has(Object(Array(m, GroupKeys[j])[i]), field)

SaidOf(m, j, i, field) == Object(Array(m, GroupKeys[j])[i])[field]

\* what the simulator has in it
SimField(m, b, j, policy, i, field) == Sim!SlotsOf(m, GroupKeys[j], b, policy)[i][field]

\* what an adversarial device has where the document says nothing
AssumedOn(m, j, i, field) ==
  /\ field = "enabled" /\ i \in DOMAIN Array(m, GroupKeys[j])
  /\ "enabled" \notin DOMAIN Object(Array(m, GroupKeys[j])[i])

\* The simulator takes the document's value, else one of its policy.
LEMMA SlotValue ==
  ASSUME NEW m, NEW b, NEW j \in 1..8, NEW policy, NEW i \in 1..GroupCounts(b)[j],
         NEW field \in DOMAIN Sim!FwDefaults[GroupKeys[j]]
  PROVE  SimField(m, b, j, policy, i, field)
           = IF SaysField(m, j, i, field) THEN Object(Array(m, GroupKeys[j])[i])[field]
             ELSE IF policy = "adversarial" /\ AssumedOn(m, j, i, field)
                  THEN 1 ELSE Sim!Default(policy, GroupKeys[j], field)
<1> DEFINE key == GroupKeys[j]
           array == Sim!OrEmpty(m, key)
           value(n, f) ==
             LET item == Sim!ItemOf(array, n)
             IN  IF f \in DOMAIN item /\ item[f] # Null THEN item[f]
                 ELSE IF /\ f = "enabled" /\ f \notin DOMAIN item
                         /\ policy = "adversarial" /\ n \in DOMAIN array
                      THEN 1 ELSE Sim!Default(policy, key, f)
<1>1. Sim!SlotsOf(m, key, b, policy)
        = [n \in 1..Sim!Count(b, key) |-> [f \in DOMAIN Sim!FwDefaults[key] |-> value(n, f)]]
  BY DEF Sim!SlotsOf
<1>2. Sim!Count(b, key) = GroupCounts(b)[j]
  BY CountOfGroup
<1>3. Sim!SlotsOf(m, key, b, policy)[i][field] = value(i, field)
  <2> HIDE DEF value, key
  <2> QED BY <1>1, <1>2 DEF key
<1>4. array = Array(m, key)
  BY DEF Sim!OrEmpty, Array, Has
<1>5. i \in DOMAIN array => Sim!ItemOf(array, i) = Object(array[i])
  BY DEF Sim!ItemOf, Object
<1>6. i \notin DOMAIN array => Sim!ItemOf(array, i) = << >>
  BY DEF Sim!ItemOf
<1> HIDE DEF array
<1>7. DOMAIN << >> = {}
  OBVIOUS
<1> QED BY <1>3, <1>4, <1>5, <1>6, <1>7 DEF SaysField, Has, SimField, AssumedOn

\* It is the one of the document where there is one,
LEMMA SlotSaid ==
  ASSUME NEW m, NEW b, NEW j \in 1..8, NEW i \in 1..GroupCounts(b)[j],
         NEW field \in DOMAIN Sim!FwDefaults[GroupKeys[j]], SaysField(m, j, i, field)
  PROVE  SimField(m, b, j, "firmware", i, field) = SaidOf(m, j, i, field)
<1> DEFINE said == Object(Array(m, GroupKeys[j])[i])[field]
           unsaid == Sim!Default("firmware", GroupKeys[j], field)
<1>1. SimField(m, b, j, "firmware", i, field)
        = IF SaysField(m, j, i, field) THEN said
          ELSE IF "firmware" = "adversarial" /\ AssumedOn(m, j, i, field) THEN 1 ELSE unsaid
  BY SlotValue
<1> HIDE DEF said, unsaid
<1>2. SimField(m, b, j, "firmware", i, field) = said
  BY <1>1
<1> QED BY <1>2 DEF said, SaidOf

\* the firmware's, which is the one of the table,
LEMMA SlotDefault ==
  ASSUME NEW m, NEW b, NEW j \in 1..8, NEW i \in 1..GroupCounts(b)[j],
         NEW field \in DOMAIN Sim!FwDefaults[GroupKeys[j]], ~SaysField(m, j, i, field)
  PROVE  SimField(m, b, j, "firmware", i, field) = Sim!FwDefaults[GroupKeys[j]][field]
<1> DEFINE said == Object(Array(m, GroupKeys[j])[i])[field]
           unsaid == Sim!Default("firmware", GroupKeys[j], field)
<1>1. SimField(m, b, j, "firmware", i, field)
        = IF SaysField(m, j, i, field) THEN said
          ELSE IF "firmware" = "adversarial" /\ AssumedOn(m, j, i, field) THEN 1 ELSE unsaid
  BY SlotValue
<1> HIDE DEF said, unsaid
<1>2. SimField(m, b, j, "firmware", i, field) = unsaid
  BY <1>1
<1> QED BY <1>2 DEF unsaid, Sim!Default

\* or the adversarial one.
LEMMA SlotAdversarial ==
  ASSUME NEW m, NEW b, NEW j \in 1..8, NEW i \in 1..GroupCounts(b)[j],
         NEW field \in DOMAIN Sim!FwDefaults[GroupKeys[j]], ~SaysField(m, j, i, field)
  PROVE  SimField(m, b, j, "adversarial", i, field)
           = IF AssumedOn(m, j, i, field) THEN 1 ELSE Sim!Default("adversarial", GroupKeys[j], field)
<1> DEFINE said == Object(Array(m, GroupKeys[j])[i])[field]
           unsaid == Sim!Default("adversarial", GroupKeys[j], field)
<1>1. SimField(m, b, j, "adversarial", i, field)
        = IF SaysField(m, j, i, field) THEN said
          ELSE IF "adversarial" = "adversarial" /\ AssumedOn(m, j, i, field) THEN 1 ELSE unsaid
  BY SlotValue
<1> HIDE DEF said, unsaid
<1> QED BY <1>1 DEF unsaid

\* A row of a slot is a parameter of the board,
LEMMA GroupParam ==
  ASSUME NEW b, SlotsFit(b), NEW j \in 1..8, NEW i \in 1..GroupCounts(b)[j], NEW s \in DOMAIN GroupRows(b)[j]
  PROVE  /\ i \in SlotNumbers
         /\ <<GroupBases[j] + i - 1, s - 1>> \in DOMAIN Registry(b)
         /\ Registry(b)[<<GroupBases[j] + i - 1, s - 1>>] = GroupRows(b)[j][s]
<1> DEFINE index == GroupBases[j] + i - 1
           a == <<index, s - 1>>
           block == [index |-> index, rows |-> GroupRows(b)[j]]
<1>1. i \in SlotNumbers
  <2>1. ASSUME NEW n \in 0..256 PROVE 1..n \subseteq 1..256
    OBVIOUS
  <2>2. GroupCounts(b)[j] \in 0..256
    BY DEF SlotsFit
  <2> QED BY <2>1, <2>2 DEF SlotNumbers
<1>2. block \in Blocks(b)
  <2> DEFINE g == Groups(b)[j]
  <2>1. g \in Range(Groups(b))
    BY GroupNumbers
  <2>2. g.base = GroupBases[j] /\ g.count = GroupCounts(b)[j] /\ g.rows = GroupRows(b)[j]
    BY GroupShape
  <2>3. block \in {[index |-> g.base + n - 1, rows |-> g.rows] : n \in 1..g.count}
    BY <2>2
  <2> HIDE DEF g, block
  <2> QED BY <2>1, <2>3 DEF GroupBlocks, Blocks
<1>3. a \in DOMAIN Registry(b)
  <2>1. a \in {<<block.index, n - 1>> : n \in DOMAIN block.rows}
    OBVIOUS
  <2> HIDE DEF block, a
  <2> QED BY <1>2, <2>1 DEF Registry
<1>4. Registry(b)[a] = RowsAt(b, a[1])[a[2] + 1]
  <2> HIDE DEF a
  <2> QED BY <1>3, RegistryRow
<1>5. a[1] = index /\ a[2] + 1 = s
  BY GroupRowsNumbered
<1>6. RowsAt(b, index) = GroupRows(b)[j]
  BY <1>1, GroupPlaces DEF SlotNumbers
<1> HIDE DEF a, index
<1>7. Registry(b)[a] = GroupRows(b)[j][s]
  BY <1>4, <1>5, <1>6
<1> QED BY <1>1, <1>3, <1>7 DEF a, index

\* and is what the device holds of the field.
LEMMA HeldAt ==
  ASSUME NEW dev, NEW j \in 1..8, NEW i, NEW s \in DOMAIN GroupRows(Device)[j],
         NEW field, field = GroupRows(Device)[j][s].json
  PROVE  Held(dev, GroupKeys[j], i, field) = dev[<<GroupBases[j] + i - 1, s - 1>>]
<1>1. GroupOf(GroupKeys[j]) = Groups(Device)[j]
  <2>1. Groups(Device)[j] \in Range(Groups(Device)) /\ Groups(Device)[j].key = GroupKeys[j]
    BY GroupNumbers, GroupShape
  <2>2. ASSUME NEW group \in Range(Groups(Device)), group.key = GroupKeys[j]
        PROVE  group = Groups(Device)[j]
    <3>1. PICK k \in 1..8 : group = Groups(Device)[k]
      BY GroupNumbers
    <3>2. GroupKeys[k] = GroupKeys[j]
      BY <2>2, <3>1, GroupShape
    <3> QED BY <3>1, <3>2, GroupsSimulated
  <2> QED BY <2>1, <2>2 DEF GroupOf
<1>2. Groups(Device)[j].base = GroupBases[j] /\ Groups(Device)[j].rows = GroupRows(Device)[j]
  BY GroupShape
<1> DEFINE rows == GroupRows(Device)[j]
           sub == CHOOSE t \in DOMAIN rows : rows[t].json = field
<1>3. sub = s
  <2>1. \A t \in DOMAIN rows : rows[t].json = field <=> t = s
    BY RowsApart
  <2> HIDE DEF rows
  <2> QED BY <2>1 DEF rows
<1>4. Held(dev, GroupKeys[j], i, field) = dev[<<GroupBases[j] + i - 1, sub - 1>>]
  BY <1>1, <1>2 DEF Held
<1> HIDE DEF sub
<1> QED BY <1>3, <1>4

-----------------------------------------------------------------------------
(* Both devices hold what the last list says.                              *)

ListHeld ==
  LET params == Lists[last.doc][last.partial].params
  IN  last.ok => /\ last.doc \in DOMAIN Docs /\ last.partial \in BOOLEAN
                 /\ Lists[last.doc][last.partial].ok
                 /\ \A a \in DOMAIN params : devA[a] = params[a] /\ devB[a] = params[a]

\* A list that is taken is held,
LEMMA ListHeldApply ==
  ASSUME SameParams, NEW d \in DOMAIN Docs, NEW partial \in BOOLEAN, Apply(d, partial)
  PROVE  ListHeld'
<1> DEFINE list == Lists[d][partial]
<1>1. /\ list.ok /\ Taken(list.params)
      /\ devA' = Written(devA, list) /\ devB' = Written(devB, list)
      /\ last' = [doc |-> d, partial |-> partial, ok |-> TRUE]
  BY DEF Apply
<1> HIDE DEF list
<1>2. \A a \in DOMAIN list.params : devA'[a] = list.params[a] /\ devB'[a] = list.params[a]
  BY <1>1 DEF Taken, Written, SameParams
<1>3. last'.doc = d /\ last'.partial = partial /\ last'.ok
  BY <1>1
<1> QED BY <1>1, <1>2, <1>3 DEF ListHeld, list

\* until the next one is.
LEMMA ListHeldAlways == Spec => []ListHeld
<1>1. Init => ListHeld
  BY DEF Init, Nothing, ListHeld
<1>2. ASSUME Inv, ListHeld, [Next]_vars PROVE ListHeld'
  <2>1. CASE \E d \in DOMAIN Docs, partial \in BOOLEAN : Apply(d, partial)
    BY <1>2, <2>1, ListHeldApply DEF Inv
  <2>2. CASE \E d \in DOMAIN Docs, partial \in BOOLEAN : Fail(d, partial)
    BY <2>2 DEF Fail, ListHeld
  <2>3. CASE UNCHANGED vars
    BY <1>2, <2>3 DEF vars, ListHeld
  <2> QED BY <1>2, <2>1, <2>2, <2>3 DEF Next
<1>3. Inv /\ ListHeld /\ [Next]_vars => ListHeld'
  BY <1>2
<1> QED BY <1>1, <1>3, Invariance, PTL DEF Spec

-----------------------------------------------------------------------------
(* What the documents are.                                                 *)

\* the devices of a document can be told apart by their base ids
DevicesTold == IdsAreNumbers /\ \A d \in DOMAIN Docs : DeviceArrays(Docs[d]) /\ IdsApart(Docs[d])

\* a truth value is true or false
TruthsAreBoolean ==
  \A d \in DOMAIN Docs : ChosenOf(d) # 0 =>
    \A j \in 1..8 : \A i \in DOMAIN Array(Chosen(d), GroupKeys[j]) : \A s \in DOMAIN GroupRows(Device)[j] :
      LET item == Object(Array(Chosen(d), GroupKeys[j])[i])
          row  == GroupRows(Device)[j][s]
      IN  Has(item, row.json) /\ row.type = "bool" => item[row.json] \in {0, 1}

\* The slots of the simulator, for a document that has been applied.
LEMMA LoadedSlots ==
  ASSUME DevicesTold, NEW d \in DOMAIN Docs, OneDevice(Docs[d]), ChosenOf(d) # 0,
         NEW policy \in {"firmware", "adversarial"}, Loads[d][policy].ok, Loads[d][policy].board = Device,
         NEW g \in DOMAIN Loads[d][policy].groups, NEW i \in DOMAIN Loads[d][policy].groups[g]
  PROVE  /\ g \in DOMAIN Sim!FwDefaults
         /\ Loads[d][policy].groups[g] = Sim!SlotsOf(Chosen(d), g, Device, policy)
         /\ DOMAIN Loads[d][policy].groups[g] = 1..Sim!Count(Device, g)
         /\ DOMAIN Loads[d][policy].groups[g][i] = DOMAIN Sim!FwDefaults[g]
<1> DEFINE load == Loads[d][policy]
<1>1. load.groups = [x \in DOMAIN Sim!FwDefaults |-> Sim!SlotsOf(Chosen(d), x, Device, policy)]
  BY SameChoice DEF DevicesTold
<1>2. g \in DOMAIN Sim!FwDefaults /\ load.groups[g] = Sim!SlotsOf(Chosen(d), g, Device, policy)
  <2> HIDE DEF load
  <2> QED BY <1>1 DEF load
<1>3. DOMAIN Sim!SlotsOf(Chosen(d), g, Device, policy) = 1..Sim!Count(Device, g)
  BY DEF Sim!SlotsOf
<1>4. \A n \in 1..Sim!Count(Device, g) :
        DOMAIN Sim!SlotsOf(Chosen(d), g, Device, policy)[n] = DOMAIN Sim!FwDefaults[g]
  BY DEF Sim!SlotsOf
<1> QED BY <1>2, <1>3, <1>4

\* A slot that is the same for both policies has all its fields in the document.
LEMMA SlotDefined ==
  ASSUME NEW m, NEW j \in 1..8, NEW i \in 1..GroupCounts(Device)[j],
         \A n \in DOMAIN Array(m, GroupKeys[j]) :
           "enabled" \in DOMAIN Object(Array(m, GroupKeys[j])[n]) =>
             Object(Array(m, GroupKeys[j])[n])["enabled"] # Null,
         \A f \in DOMAIN Sim!FwDefaults[GroupKeys[j]] :
           SimField(m, Device, j, "firmware", i, f) = SimField(m, Device, j, "adversarial", i, f),
         NEW field \in DOMAIN Sim!FwDefaults[GroupKeys[j]] \ {"minCount"}
  PROVE  SaysField(m, j, i, field)
<1> DEFINE key == GroupKeys[j]
           array == Array(m, key)
           plain(f) == SimField(m, Device, j, "firmware", i, f)
           other(f) == SimField(m, Device, j, "adversarial", i, f)
<1>1. \A f \in DOMAIN Sim!FwDefaults[key] : plain(f) = other(f)
  OBVIOUS
<1>2. ASSUME NEW f \in DOMAIN Sim!FwDefaults[key], ~SaysField(m, j, i, f)
      PROVE  /\ plain(f) = Sim!FwDefaults[key][f]
             /\ other(f) = IF AssumedOn(m, j, i, f) THEN 1 ELSE Sim!Default("adversarial", key, f)
  <2>1. plain(f) = Sim!FwDefaults[key][f]
    BY Zenon, <1>2, SlotDefault
  <2>2. other(f) = IF AssumedOn(m, j, i, f) THEN 1 ELSE Sim!Default("adversarial", key, f)
    BY Zenon, <1>2, SlotAdversarial
  <2> QED BY <2>1, <2>2
<1> HIDE DEF plain, other
<1>3. ASSUME NEW f \in DOMAIN Sim!FwDefaults[key] \ {"minCount", "enabled"} PROVE SaysField(m, j, i, f)
  <2>1. Sim!Default("adversarial", key, f) # Sim!FwDefaults[key][f]
    BY AdversarialDiffers
  <2>2. ~AssumedOn(m, j, i, f)
    BY DEF AssumedOn
  <2> QED BY <1>1, <1>2, <2>1, <2>2
<1>4. ASSUME field = "enabled", ~SaysField(m, j, i, field) PROVE FALSE
  <2>1. PICK f \in DOMAIN Sim!FwDefaults[key] : f \notin {"minCount", "enabled"}
    BY GroupsHaveFields
  <2>2. i \in DOMAIN array
    BY <1>3, <2>1 DEF SaysField
  <2>3. AssumedOn(m, j, i, field)
    BY <1>4, <2>2 DEF SaysField, Has, AssumedOn
  <2>4. plain(field) = 0 /\ other(field) = 1
    BY <1>2, <1>4, <2>3, GroupsHaveFields
  <2> QED BY <1>1, <2>4
<1> QED BY <1>3, <1>4

\* What a list has of a parameter: the document's value, else its default.
LEMMA ListValue ==
  ASSUME NEW m, NEW partial \in BOOLEAN, Project(m, partial).ok,
         NEW a \in DOMAIN Project(m, partial).params
  PROVE  Project(m, partial).params[a]
           = Encoded(Registry(BoardOf(m))[a],
                     IF a \in DOMAIN Values(m, BoardOf(m)) THEN Values(m, BoardOf(m))[a]
                     ELSE Registry(BoardOf(m))[a].def)
BY DEF Project, Refusal

\* A document that the simulator loads alike whatever the fields it leaves out
\* are taken to hold defines all of what is simulated, even when only its own
\* fields are written, on two devices that held different configurations
\* (ADV_DEFAULTS; equiv.py --self-contained; Options.Partial).
THEOREM SelfContainedIsDefined ==
  ASSUME SlotsFit(Device), DocumentsFit, DevicesTold
  PROVE  Spec => []SelfContainedDefines
<1>1. ASSUME ListHeld PROVE SelfContainedDefines
  <2> DEFINE d == last.doc
             plain == Loads[d]["firmware"]
             adv == Loads[d]["adversarial"]
             m == Chosen(d)
  <2> SUFFICES ASSUME last.ok, plain.ok, plain.board = Device, plain = adv, OneDevice(Docs[d]),
                      EnabledSaid(Docs[d]),
                      NEW g \in DOMAIN plain.groups, NEW i \in DOMAIN plain.groups[g],
                      NEW field \in DOMAIN plain.groups[g][i] \ {"minCount"}
               PROVE  Held(devA, g, i, field) = Held(devB, g, i, field)
    BY DEF SelfContainedDefines
  <2> DEFINE list == Lists[d][last.partial]
  <2>1. /\ d \in DOMAIN Docs /\ last.partial \in BOOLEAN /\ list.ok
        /\ \A a \in DOMAIN list.params : devA[a] = list.params[a] /\ devB[a] = list.params[a]
    BY <1>1 DEF ListHeld
  <2>2. ChosenOf(d) # 0 /\ list = Project(m, last.partial)
    BY <2>1, ListOfChosen
  <2>3. IsDocument(m) /\ ArraysFit(m) /\ BoardOf(m) = Device
    BY <2>1, <2>2 DEF DocumentsFit, ForDevice
  <2>4. /\ g \in DOMAIN Sim!FwDefaults
        /\ plain.groups[g] = Sim!SlotsOf(m, g, Device, "firmware")
        /\ DOMAIN plain.groups[g] = 1..Sim!Count(Device, g)
        /\ DOMAIN plain.groups[g][i] = DOMAIN Sim!FwDefaults[g]
    BY <2>1, <2>2, LoadedSlots
  <2>5. adv.groups[g] = Sim!SlotsOf(m, g, Device, "adversarial")
    BY <2>1, <2>2, LoadedSlots
  <2>6. PICK j \in 1..8 : g = GroupKeys[j]
    BY <2>4, GroupsSimulated
  <2>7. i \in 1..GroupCounts(Device)[j] /\ field \in DOMAIN Sim!FwDefaults[GroupKeys[j]]
    BY <2>4, <2>6, CountOfGroup
  <2>8. SaysField(m, j, i, field)
    <3>1. \A f \in DOMAIN Sim!FwDefaults[GroupKeys[j]] :
            SimField(m, Device, j, "firmware", i, f) = SimField(m, Device, j, "adversarial", i, f)
      BY <2>4, <2>5, <2>6 DEF SimField
    <3>2. \A n \in DOMAIN Array(m, GroupKeys[j]) :
            "enabled" \in DOMAIN Object(Array(m, GroupKeys[j])[n]) =>
              Object(Array(m, GroupKeys[j])[n])["enabled"] # Null
      BY <2>4, <2>6 DEF EnabledSaid, Chosen, ChosenOf
    <3> HIDE DEF m
    <3> QED BY <2>7, <3>1, <3>2, SlotDefined
  <2>9. PICK s \in DOMAIN GroupRows(Device)[j] : GroupRows(Device)[j][s].json = field
    <3>1. \E t \in DOMAIN GroupRows(Device)[j] : SameField(GroupRows(Device)[j][t], GroupKeys[j], field)
      BY <2>7, FieldsAreRows
    <3> QED BY Zenon, <3>1 DEF SameField
  <2> DEFINE a == <<GroupBases[j] + i - 1, s - 1>>
  <2>10. Held(devA, g, i, field) = devA[a] /\ Held(devB, g, i, field) = devB[a]
    BY <2>6, <2>9, HeldAt
  <2> HIDE DEF d, m, list
  <2>11. a \in DOMAIN Registry(Device)
    BY <2>7, GroupParam
  <2>12. a \in DOMAIN Values(m, Device)
    BY <2>3, <2>8, <2>9, SlotSays DEF SaysField
  <2> HIDE DEF a
  <2>13. a \in DOMAIN list.params
    BY <2>1, <2>2, <2>3, <2>11, <2>12, PartialList, WholeListCovers
  <2> QED BY <2>1, <2>10, <2>13
<1>2. ListHeld => SelfContainedDefines
  BY <1>1
<1> QED BY <1>2, ListHeldAlways, PTL

\* The simulator runs what the device holds: every field that it loads has the
\* value that applying the document whole wrote, the default of its own table
\* included (load_device and _slots; project).
THEOREM SimulatorRunsDevice ==
  ASSUME SlotsFit(Device), DocumentsFit, DevicesTold, TruthsAreBoolean
  PROVE  Spec => []SimulatorAgrees
<1>1. ASSUME ListHeld PROVE SimulatorAgrees
  <2> DEFINE d == last.doc
             load == Loads[d]["firmware"]
             m == Chosen(d)
  <2> SUFFICES ASSUME last.ok, ~last.partial, load.ok, load.board = Device, OneDevice(Docs[d]),
                      NEW g \in DOMAIN load.groups, NEW i \in DOMAIN load.groups[g],
                      NEW field \in DOMAIN load.groups[g][i]
               PROVE  load.groups[g][i][field] = Held(devA, g, i, field)
    BY DEF SimulatorAgrees
  <2> DEFINE list == Lists[d][FALSE]
  <2>1. d \in DOMAIN Docs /\ list.ok /\ \A a \in DOMAIN list.params : devA[a] = list.params[a]
    BY <1>1 DEF ListHeld
  <2>2. ChosenOf(d) # 0 /\ list = Project(m, FALSE)
    BY <2>1, ListOfChosen
  <2>3. IsDocument(m) /\ ArraysFit(m) /\ BoardOf(m) = Device
    BY <2>1, <2>2 DEF DocumentsFit, ForDevice
  <2>4. /\ g \in DOMAIN Sim!FwDefaults
        /\ load.groups[g] = Sim!SlotsOf(m, g, Device, "firmware")
        /\ DOMAIN load.groups[g] = 1..Sim!Count(Device, g)
        /\ DOMAIN load.groups[g][i] = DOMAIN Sim!FwDefaults[g]
    BY <2>1, <2>2, LoadedSlots
  <2>5. PICK j \in 1..8 : g = GroupKeys[j]
    BY <2>4, GroupsSimulated
  <2>6. i \in 1..GroupCounts(Device)[j] /\ field \in DOMAIN Sim!FwDefaults[GroupKeys[j]]
    BY <2>4, <2>5, CountOfGroup
  <2>7. PICK s \in DOMAIN GroupRows(Device)[j] : SameField(GroupRows(Device)[j][s], GroupKeys[j], field)
    BY <2>6, FieldsAreRows
  <2> DEFINE a == <<GroupBases[j] + i - 1, s - 1>>
             row == GroupRows(Device)[j][s]
             item == Object(Array(m, GroupKeys[j])[i])
  <2>8. row.json = field /\ row.def = Sim!FwDefaults[g][field] /\ (row.type = "bool" => row.def \in {0, 1})
    BY <2>5, <2>7 DEF SameField
  <2>9. Held(devA, g, i, field) = devA[a]
    BY <2>5, <2>8, HeldAt
  <2>10. /\ SaysField(m, j, i, field) => load.groups[g][i][field] = item[field]
         /\ ~SaysField(m, j, i, field) => load.groups[g][i][field] = row.def
    <3>1. load.groups[g][i][field] = SimField(m, Device, j, "firmware", i, field)
      BY <2>4, <2>5 DEF SimField
    <3>2. SaysField(m, j, i, field) => SimField(m, Device, j, "firmware", i, field) = item[field]
      <4>1. SaysField(m, j, i, field) => SimField(m, Device, j, "firmware", i, field) = SaidOf(m, j, i, field)
        BY <2>6, SlotSaid
      <4> QED BY <4>1 DEF SaidOf
    <3>3. ~SaysField(m, j, i, field) => SimField(m, Device, j, "firmware", i, field) = row.def
      <4> HIDE DEF d, load, m, list, a, row, item
      <4>1. ~SaysField(m, j, i, field) =>
              SimField(m, Device, j, "firmware", i, field) = Sim!FwDefaults[GroupKeys[j]][field]
        BY ZenonT(40), <2>6, SlotDefault
      <4> QED BY <2>5, <2>8, <4>1
    <3> HIDE DEF load, row, item
    <3> QED BY <3>1, <3>2, <3>3
  <2>11. SaysField(m, j, i, field) /\ row.type = "bool" => item[field] \in {0, 1}
    BY <2>1, <2>2, <2>8 DEF TruthsAreBoolean, SaysField
  <2> HIDE DEF d, m, list
  <2>12. i \in SlotNumbers /\ a \in DOMAIN Registry(Device) /\ Registry(Device)[a] = row
    BY <2>6, GroupParam
  <2>13. SaysField(m, j, i, field) => a \in DOMAIN Values(m, Device) /\ Values(m, Device)[a] = item[field]
    BY <2>3, <2>8, SlotSays DEF SaysField
  <2>14. ~SaysField(m, j, i, field) => a \notin DOMAIN Values(m, Device)
    <3> SUFFICES ASSUME a \in DOMAIN Values(m, Device) PROVE SaysField(m, j, i, field)
      OBVIOUS
    <3>1. /\ i \in DOMAIN Array(m, GroupKeys[j])
          /\ SaidIn(item, a, GroupBases[j] + i - 1, GroupRows(Device)[j], << >>)
      BY <2>3, <2>12, SaidInTheSlot
    <3>2. Range(<< >>) = {}
      BY DEF Range
    <3>3. PICK t \in DOMAIN GroupRows(Device)[j] :
            a = <<GroupBases[j] + i - 1, t - 1>> /\ Has(item, GroupRows(Device)[j][t].json)
      BY <3>1, <3>2 DEF SaidIn
    <3>4. t = s
      BY <3>3, GroupRowsNumbered
    <3> QED BY <2>8, <3>1, <3>3, <3>4 DEF SaysField
  <2> HIDE DEF a, row, item
  <2>15. devA[a] = Encoded(row, IF a \in DOMAIN Values(m, Device) THEN Values(m, Device)[a] ELSE row.def)
    <3>1. list.ok /\ list = Project(m, FALSE) /\ BoardOf(m) = Device
      BY <2>1, <2>2, <2>3
    <3>2. a \in DOMAIN list.params
      BY <2>12, <3>1, WholeListCovers
    <3>3. list.params[a] = Encoded(Registry(Device)[a],
            IF a \in DOMAIN Values(m, Device) THEN Values(m, Device)[a] ELSE Registry(Device)[a].def)
      BY <3>1, <3>2, ListValue
    <3> QED BY <2>1, <2>12, <3>2, <3>3
  <2>16. ASSUME NEW v, row.type = "bool" => v \in {0, 1} PROVE Encoded(row, v) = v
    BY <2>16 DEF Encoded
  <2>17. CASE SaysField(m, j, i, field)
    BY <2>9, <2>10, <2>11, <2>13, <2>15, <2>16, <2>17
  <2>18. CASE ~SaysField(m, j, i, field)
    BY <2>8, <2>9, <2>10, <2>14, <2>15, <2>16, <2>18
  <2> QED BY <2>17, <2>18
<1>2. ListHeld => SimulatorAgrees
  BY <1>1
<1> QED BY <1>2, ListHeldAlways, PTL
=============================================================================
