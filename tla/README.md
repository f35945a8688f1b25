# TLA+ models of dingo-cli

`dingo` programs a dingoPDM (a power distribution module on a CAN bus) over its USB serial port.
This directory models the parts of it whose correctness depends on the order in which things
happen, checks them with TLC, and proves the central results with TLAPS.
The repository also keeps a simulator of the device's logic engine (`fwmodel`), with which a
configuration and its rewrite are compared before one is written to a vehicle; it is modelled too.

## 1. The system

| component | where | state it keeps | operations |
|---|---|---|---|
| SLCAN port | `internal/slcan/slcan.go` | serial port, `frames` channel (16384), `done` channel; the reader goroutine's chunk, partial line and frame being pushed | Open, Send, Recv, Flush, Drain, Close, WriteRaw |
| parameter protocol client | `internal/dingo/protocol.go` | none between calls; in a call: tries left, deadline, collected dump, position in the list | WriteAll, SetParam, ReadParam, ReadAll, CheckCrc, Burn, Version, Bootloader |
| device | firmware, outside the repository; `internal/dingo/fake_test.go` | live values, dump order, staged list, flash | one handler per command |
| parameter commands | `main.go` | none: one process per command | apply, set (with `-burn`), get, getn, verify, version, burn, bootloader |
| traffic commands | `main.go` | none | listen, tx, pulse, raw |
| configuration import | `internal/pdmcfg` | none: a JSON file to a list of parameters | DeviceParamsOpts, project, collectArray |
| registry, encoding | `internal/params` | tables of every board's parameters | Lookup, Encode, Decode |
| boards and variable map | `internal/params/board.go`, `varmap.go`, `fwmodel/model/varmap.py` | tables, in two languages | place of a variable, name of a place |
| simulator's loader | `fwmodel/model/dingosim.py` (`load_device`, `_slots`, default policies) | none: a JSON file to a device's slots | load under a policy of defaults, refuse |
| frame codec | `fwmodel/model/dingosim.py` (`decode_*`, `encode_float`) | the eight bytes of a frame | decode, encode |
| logic simulator | `fwmodel/model/dingosim.py` | every block's value, latches, counters, timers | `Sim.step`, one cycle |
| equivalence checker | `fwmodel/model/equiv.py`, `trace.py` | none: two devices on one trace | observe, compare with a tolerance in cycles |
| corpus | `fwmodel/corpus/*.json`, `adversarial/`, their generators in `fwmodel/tools/` | the configurations of two vehicles' devices, rewrites of them, deliberate mistakes | none |
| firmware host runner | `fwhost/` | the firmware's own globals | load a configuration, run cycles |
| drivers | `fwmodel/tools/`, `fwhost/fuzz.py`, `fwhost/crosscheck.py` | none | generate, run and compare files |

Interactions: a command opens the port (`conn.client`), makes one or two library calls and closes it.
A library call sends command frames through `Port.Send` and takes replies from the channel the
reader goroutine fills. The device handles commands one by one; it can miss one while it is busy. The
configuration importer produces the list `apply` hands to WriteAll; the simulator and the host
runner read the same files and must agree on the var map with `internal/params`.

What is hard, and what makes each part correct:

* **Port.** A goroutine, a bounded channel and a caller run concurrently; reads cut lines anywhere;
  Close and unplugging happen at any moment. Correct means: a FIFO that drops nothing while it is open,
  a goroutine that ends, calls that return.
* **Protocol.** Commands and replies are lost, and resends produce late or duplicate replies. Replies
  carry no sequence number. Correct means: a call that succeeds had its effect, a dump is one whole dump,
  the flash is written once per burn, every call returns.
* **Commands.** WriteAll commits before it is verified, the flash is written by a second call, and the
  process or the power may go between the two. Correct means: success tells the truth, and the flash only
  ever receives a verified list.
* **Logic simulator.** A long-lived state machine with edges, latches and counters, evaluated category by
  category, so that some values are one cycle old. Correct means: outputs are a function of the inputs'
  history in the way the blocks document.
* **Importer and loader.** Two programs in two languages read one document: dingo-cli to write the device, the
  simulator to predict it. Slots, defaults, the board and the variable map must come out the same, and a device
  must not keep what a document leaves out. Correct means: the same document gives the same device, whatever
  the device held, and the simulator simulates that device.
* **Frame codec.** Signals of one frame are written over each other's bytes, in two byte orders. Correct means: each
  signal is read back as it was written, and the byte orders number bits as the DBC format does.
* **Equivalence checker.** A verdict on which a vehicle's rewrite depends. Correct means: it passes what is the same
  and calls a uniform lag a lag.

`PROJECT.json` lists under `hazards` the places where these can go wrong and the properties that would notice.

## 2. Modules

    ConfigStore          what the protocol promises its caller (abstract)
        ^ implemented by
    ParamDevice  <-  ParamClient  <-  DingoCli          device and link; client; commands
                          ^               ^
                 MCParamClient        MCDingoCli        instances for TLC
                 ParamClientProofs <- DingoCliProofs    theorems, the refinement of ConfigStore

    FrameFifo            what the port promises its user (abstract)
        ^ implemented by
    SlcanPort    <-  SlcanPortFifo  <-  SlcanPortProofs port; its properties and refinement; theorems

                     EngineGesture   what the driver of the engine configuration is promised (abstract)
                          ^ implemented by
    LogicBlocks  <-  DingoSim  <-  LogicEngine  <-  EngineRepin  <-  MCLogicEngine
         ^            ^  ^                ^              ^  (with LogicConfigs, CorpusConfigs)
         |          Dbc  |                +--------------+---  LogicEngineProofs   theorems: every configuration, the engine
         |               |                                           v extends
         |               +------------------------------  DingoSimProofs   theorems about frames, lemmas about one cycle
         |               |                                           ^ extends
         |               +---  EquivCheck  <--------------  EquivCheckProofs   theorems about pairs of configurations
         |                         ^------  MCEquivCheck         two devices, one stimulus
         +---------  ResetRewrite  <-  MCResetRewrite, ResetRewriteProofs

    Boards  <-  PdmConfig  <-  Documents  <-  MCDocuments, DocumentsProofs   documents applied to two devices; theorems
       ^                           |
       +------  SimLoader  <-------+                         and loaded by the simulator

**ParamDevice** is the device after the in-memory one of `fake_test.go`, which "reproduces the firmware's
param-protocol semantics (count + CRC)". Each `case` of `fakeDevice.Send` is an action. The fake answers
inside `Send`; here a command waits in `toDev` until the device takes it and the replies wait in `fromDev`,
so that host and device interleave. Added, and marked external in the map: the flash that Burn writes, loss
of power (the live configuration reverts to flash and the port is dead), lost replies and damaged values.
An address stands for `(index, subindex)`; a CRC is the sequence of values it was computed over.

**ParamClient** is `Client`. A call is an operation that `Begin` starts; each send, each receive and each
timeout is a step, because the code blocks there. `req` is the request loop shared by `requestBytes` and
`requestOnce` (the latter is one try). `pc` names the blocking point: `send`, `wait` (the request loop),
`vals` (WriteAll's parameters), `dump` (ReadAll's collection). Time is abstracted: see *Assumptions*.

**DingoCli** runs commands one after another. `Run` is a process that opens the port and makes its first
call, `MaybeBurn` the second one, `Exit` its end, `Kill` its death at any step.

**ConfigStore** has no link, retries or replies: a call takes effect between its begin and its end, success
means it did, a read that succeeds is current. `ParamClient` implements it by the mapping `done <- Idle`.

**SlcanPort** has the reader goroutine (`Reader…`), the caller (`Recv`, `Flush`, `Drain`, `Close`) and
the device that writes lines. A frame is its number; a line is two bytes and a terminator, or one byte that
parses as nothing, which is enough for a read to end inside a line or a terminator to be alone in a chunk.

**FrameFifo** is a queue of numbered frames: put, take, and a cut of its end when the port closes.
`SlcanPortFifo` maps the queue to everything between the device and the caller: the channel, the frame
being pushed, and the frames that the partial line, the rest of the chunk and the wire will parse to.

**LogicBlocks** has one operator per function block of `dingosim.py`: the input latch, the edge, the debounced
input, the comparison, the virtual input, the flasher, the counter. Each maps the block's memory, its settings
and the levels it reads to its new memory and value. A stamp of the code is an age here ("how long ago"),
because the code only compares `now - stamp`. Ages stop at `MaxAge`, above every configured time.

**DingoSim** is one device: a configuration (a record of sequences of slots) and `Step`, one call of `step()`, in the
code's order: received frames, outputs, digital inputs, CAN time-outs, CAN outputs, virtual inputs, flashers,
counters, conditions. Within a category the slots are updated in order (`InSlotOrder`), each reading the variable map as the
earlier ones left it, so what comes from an earlier category or slot is new and the rest is a cycle old.
`_out_state` is folded into the output's variable. `Accepted` is the check of variable indices at loading.

Its frames are bits: **Dbc** has the place of every bit of a signal in both byte orders, what is extracted and inserted, signed and
scaled numbers, and what a frame holds after several signals were written to it in the order of their slots.

**LogicEngine** runs a device under every stimulus a trace can describe: in each cycle any pin levels and any
subset of the bus's frames with any of their payloads. `seen` is a history variable (how long each pin
has been stable, each frame absent and what it last carried, each CAN output unsent), so that properties can
speak about the stimulus.

**EngineRepin** has the deployed `engine-repin.json` and states what `corpus/README.md` promises of it; **EngineGesture**
is that promise as a specification of two variables, the chord and the engine. **MCLogicEngine** adds four small
configurations which together use every block, mode, edge and operator.

**EquivCheck** is `equiv.py`: two configurations from power-on on the same stimulus, compared signal by signal with the
shift within the tolerance that fits best. Where `equiv.py` plays the traces it is given and compares at their ends, here the
stimulus is any and every cycle may be the last. `log` keeps the `tolerance + 1` latest observations of each, and
`unfit` the shifts that some cycle has refuted, which is all of the past that the verdict depends on. **CorpusConfigs** has
the pairs that the repository's documents call the same program, and pairs that differ by one virtual input more or by the
order of two; **MCEquivCheck** compares them, and one of which a document makes a claim that does not hold.

**Boards** has the boards and the layout of their variable maps, with the facts of the firmware's headers that both of the
repository's tables are checked against (`AnchorsHold`, `LayoutIsOneToOne`, evaluated in the runs `documents` and `board_guess`).

**PdmConfig** is `pdmcfg.go` with the parameter tables of `registry.go`: the choice of the device and of the board, what the document
says of each parameter (`Values`), and the list that `apply` writes, whole or with `-partial`. **SimLoader** is the simulator's
way from the same document to its slots, with its own table of defaults and both of its policies. The two share only the
boards. **Documents** puts them together: two devices of one board that hold different configurations are given the
same documents in any order, and what they then hold is compared with each other and with what the simulator loads.
**MCDocuments** has boards with one or two blocks of each kind, and documents that leave fields out, hold nulls, too many slots or
values, dangling references, several devices, arrays that spill into the next one.

**ResetRewrite** is one rewrite on its own, for any settings: a counter whose input is gated by `x` and which the
fall of `x` resets (the deployed heater toggle), next to the same counter reset by the rise of `~x` (the
rewrite of `mkreference.py`).

## 3. Runs

| run | asks | bounds |
|---|---|---|
| `client_prompt` | With replies prompt or absent, does every sequence of calls behave as `ConfigStore` (`RefinesConfigStore`), is every dump whole (`DumpIsWhole`), does every call return (`CallsReturn`)? | 3 calls, 3 faults (drop, loss, damage), 3 tries, 3 sends of ReadAll, 2 parameters of 2 values, one of them refused |
| `client_late` | With replies as late as they like: is the flash written at most once per Burn (`OneFlashPerBurn`), whatever earlier calls left on the link? | 3 calls of WriteAll, ReadAll, Burn, Version; 2 tries, 1 fault, 1 unplugging |
| `cli_sessions` | With replies as late as they like, a fault, a power loss and a kill at any step: is what a successful command says true (`ApplyMeansHeld`, `ApplyBurnMeansPersisted`, `SetMeansHeld`), is the flash only written with a verified list (`ApplyFlashesOnlyItsList`), does every command exit? | 2 commands, 2 tries, 1 fault, 1 power loss |
| `slcan_port` | Does the port implement `FrameFifo` (`IsFifo`), lose nothing while open, discard in Flush what was buffered (`FlushDiscardsBuffered`), stop its goroutine after Close, return from Recv and Drain? | 3 frames, 1 other line, channel of 1, wire of 5 bytes, reads of up to 4 bytes, 3 calls |
| `logic_engine` | For four configurations of blocks and the deployed engine: do variables keep their types and counters their range, does a stable pin read as its level and a bounce not (`StablePinsRead`, `BouncesFiltered`), do CAN inputs follow the bus and its silence (`CanInputsFollowBus`), is every CAN output sent in its own interval even in a merged frame (`FramesOnTime`) and found in it by a receiver (`FramesCarrySamples`), are outputs exactly a cycle behind after the first (`OutputsLagLogic`), do flashers blink for ever? For the engine: does it implement `EngineGesture` (`FollowsGesture`), start when a chord that cranked is released (`ReleaseStarts`), never sound the horn while cranking (`CrankIsSilent`), keep the heater off while stopped (`HeaterHeldOff`), stop the starter when the bus goes silent (`SilentBusStopsCranking`)? | cycle of 2 ms, times of 0 to 2 cycles, ages up to 4 ms; maxCount 2; payloads are the sets of the first bits of the signals of a frame |
| `equiv_pairs` | Do the four pairs that are called the same program pass the comparison after every stimulus (`Equivalent`)? The pairs: engine and its rewrite, lights before and after, two of `adversarial/`. Is a virtual input more, or two in the wrong order, a lag of one cycle and never a mismatch (`RelayLags`)? | as above; tolerances 0, 1 and 2 |
| `reset_rewrite` | Do the counter and its rewrite count the same (`SameCount`), is it held at 0 while `x` is low (`HeldOff`)? | all 360 settings with maxCount up to 2 |
| `documents` | Does a document applied whole leave nothing of what the device held (`SameDocumentSameDevice`)? Does the simulator load what the device then holds, defaults included (`SimulatorAgrees`)? Does a document that passes `--self-contained` define all that is simulated even with `-partial` (`SelfContainedDefines`)? Does `-partial` change only what the document names (`OnlyNamedFieldsWritten`)? | 15 documents, boards of one or two blocks of each kind, two devices that differ in every parameter |
| `client_late_set` | (violated) Does a SetParam that succeeds mean the device stores the value, if replies may be late? | 2 calls of SetParam, no faults |
| `high_beam` | (violated) Is the high beam of `lights-repin.json` the same without the reset of its toggle? | two switches |
| `tolerance` | (violated) Does the comparison pass what a shift within the tolerance aligns? | one switch, tolerance 1 |
| `board_guess` | (violated) Is the same true as in `documents`, for a board with analogue inputs and a document that names no board? | 2 documents |

Why the bounds are enough. A retry needs two tries to be interesting, and the last one to fail: three tries
have a first, a middle and a last. Three calls have one whose leftovers meet the next two. Two parameters
are the least for a list with a lost, a refused and an exchanged element. A channel of one is full at the
second frame, and a wire of five bytes with reads of four ends a read at every place of a line. Three frames
have one in the channel, one with the reader and one on the wire. The logic engine's runs have no bound on
their length: TLC reaches every state of the configurations. Their times are a few cycles, with the cases
of no time, one cycle and more than one; a longer time repeats the middle. `maxCount` 2 has a count that is neither end.
`EquivCheck` needs no bound either: `log` and `unfit` are finite, and a verdict that changes after the longest trace is found.
Documents act on parameters one by one, so that one or two blocks of each kind have the first, the last and the one too many; two
devices that differ in every parameter show any parameter that is left alone.

The four violated runs state sentences of the code's own comments:

* `client_late_set`: "verifies the device echoes back the stored value" (`protocol.go:294-295`). The reply is
  matched by its command alone. After a SetParam that gave up, the late echo of its command completes the next
  SetParam of the same value at another address, which the device has refused. Between commands this cannot
  happen (`SetMeansHeld` holds in `cli_sessions`), because each command starts with a drain of 1.5 s;
  it concerns users of the library who call SetParam several times on one port. Within one WriteAll or
  Burn the checks are strong enough with late replies too.
* `high_beam`: "A rewrite that drops the redundant one is still equivalent" (`corpus/README.md:241-243`), of the two
  low-beam interlocks of the high beam. Without the reset the toggle keeps its 1 while the low beam is off, and the
  high beam comes back on by itself with the low beam. The reset is not redundant.
* `tolerance`: "allows B to lag or lead A by up to N cycles on each signal independently" (`equiv.py:23-24`), "permits an
  N-cycle lag" (`fwmodel/README.md:61-62`). `compare` returns the lag as a difference and `main` fails on any
  difference, so a tolerance changes what is printed and not the verdict. `tools/runcases.py:98-103` takes the failure of `a3` at
  a tolerance of 1 as evidence that a fault is "not merely a uniform one-cycle lag"; a uniform lag fails as well.
* `board_guess`: "the number of outputs identifies the variant well enough (8 for a dingoPDM, 4 for a Max or PT-DPDM)"
  (`pdmcfg.go:167-168`) and "Every parameter the target board has is written" (`pdmcfg.go:121-122`). A PT-DPDM has analogue
  inputs and a Max none. A document for a PT-DPDM without a `pdmType` becomes the list for a Max, and the device keeps
  its old analogue inputs (and reads references by another variable map).

Met while modelling, without a run of their own:

* ReadAll sends its command again until a reply comes, and "the moment the device answers" goes on to "collect exactly one dump"
  (`protocol.go:181-184`). When the first reply is later than the timeout, the command has been sent twice and two dumps follow each other.
  With three losses, a list of two parameters of equal values and one more call before, the collected parameters are then the first one
  of both dumps: their number is the number and their CRC the CRC of either dump, and ReadAll succeeds with a parameter twice and
  another missing. `DumpIsWhole` is therefore a property of `client_prompt` only. TLC finds the case with `Prompt = FALSE` and `DumpSends = 2`; with four
  calls it also finds a dump of an earlier configuration that is taken for the current one.
* `Flush` is described as giving "a live frame rather than backlog" (`slcan.go:135-136`). It sees the channel only; the frame the
  goroutine holds and those on the wire are older and come next. `FlushDiscardsBuffered` is what it does guarantee.
* `tools/mkadversarial.py:106-107` calls a wrong order of slots "wrong by exactly one 2 ms cycle on every transition". That is
  so for what comes through the later slot only (`RelayLags`, the pair of `Forward` and `Backward`); what the early slot reads directly is not late.
* A virtual input that passes a CAN input on is not a uniform lag if that input has a time-out: outputs run after the frames and
  before the time-outs, so that a direct output sees a frame in the same cycle and a time-out in the next, and through
  the virtual input both in the next. No shift aligns the two; the pair of `RelayLags` has no time-out for this reason.
* `dingosim.py:82-86` and `equiv.py:155-158` still say that dingo-cli skips fields a document leaves out; it now writes every one
  (`pdmcfg.go:121-122`, `SameDocumentSameDevice`).
* The adversarial policy's `minCount` is the firmware's default, 0: `--self-contained` does not notice a document that leaves
  it out. `SelfContainedDefines` excepts it.
* `--self-contained` "Checks the document leaves nothing to whatever the device previously held" (`fwmodel/README.md:71`), where "an absent or null
  field" is one for which nothing is written (`dingosim.py:82-83`). `_slots` assumes that a slot may still be enabled if `enabled` is absent, and not if it
  is null (line 306): in most groups such a slot loads as disabled under both policies, and with `-partial` the device keeps it as enabled as it was. The proof of
  `SelfContainedIsDefined` came upon it. `SelfContainedDefines` excepts a null `enabled` (`EnabledSaid`), against the README's claim; the document `nullOn` of the run has one
  in its condition, and without the exception TLC finds the property violated as soon as `nullOn` is applied with `-partial`.
* In the first cycle the simulation drives an output by the power-on value of its input, so that one tied to `AlwaysTrue`, like output 8 of the engine configuration, is on at once.
  The firmware forces every output off in that cycle, because the starter's gate is computed after the outputs (`fwhost/README.md`, Divergence 1, "Whose fault: the model's";
  `fwhost/selftest.py:78-84`). `LogicEngine` follows `dingosim.py`; `OutputsLagLogic` excepts the first cycle, so that what it says is claimed of both.
* Elsewhere too `LogicEngine` is the simulation where `fwhost/` measured the firmware otherwise: the firmware's not-and condition is a negative number (Divergence 2), where `TypeOK`
  says that a condition's variable is natural; its first transmission of a CAN output comes an interval later than the simulation's (`fwhost/README.md:294-297`), with which `FramesOnTime`
  starts; and its AND of a negative CAN value is false, since the cast saturates (`fwhost/selftest.py:86-97`), where that of `_cmp` is two's complement (`SharesBit`).
* `decode_int` returns an `int32_t` whatever the signal says (`dingosim.py:192`): a CAN output of 32 bits, scaled to use the last of them, is read back
  negative. No run has so long a signal. The proof of `FramesAreFaithful` came upon it, and the property now says that 32 bits hold a number of 31.
* Of two devices with the base id, apply takes the last and the simulator the first: `SimulatorAgrees` and `SelfContainedDefines` except such documents (`OneDevice`).
* A ninth entry of `speedMap` is written to the first `intermitTime`: `collectArray` has no upper bound (document `spilling`).

## 4. Assumptions and fairness

* The link is a FIFO in each direction; CAN's own CRC keeps addresses intact; values are damaged only in the
  transfers that a check of the protocol covers.
* No two value sequences have the same CRC. The CRC covers values and not addresses, as in the code.
* `Prompt = TRUE`: a reply comes before the timeout of the request it answers, or not at all. `Prompt = FALSE`:
  a timeout may fire at any moment, so replies may be arbitrarily late. The first is the situation the
  timeouts were chosen for (1 s for a device that answers in milliseconds), the second the worst case.
* The drain in `slcan.Open` outlasts what the previous process left on the link (`DingoCli!Run`).
* Fairness: the client's goroutine, the device's loop and the reader goroutine keep running (weak fairness).
  Timers fire. The caller need not start anything, the link need not fail, the device need not send.
  `Flush` returns only if it finds the channel empty at some time; nothing in the code bounds it while frames
  arrive faster than it discards them, so `HostReturns` says nothing about it.
* Deadlock is not checked for the client, the commands and the port: their behaviours stop when the bounded number
  of calls is used up. It is checked for the logic engine, which never stops.
* `LogicEngine` assumes `[]<><<TRUE>>_vars`: the device's thread goes on running cycles. Only `FlashersBlink` needs it.
  Nothing is assumed of pins and bus.
* The frames of `DingoSim` carry bits. Numbers are integers and factors whole; `Raw` truncates towards zero as the C cast does. Rounding
  of floats and numbers beyond 31 bits are left out. A CAN input's AND is that of whole numbers, which have 31 bits and a sign (`SharesBit`); the 16-bit AND of a condition is that of naturals; `AllOnes` (2^31-1,
  TLC's largest integer) stands for the 2^32-1 from which `bitnand` subtracts; either is only seen as not 0.
* A bus brings, for each id, every combination of the first bits of the signals that are read from it (`StartBits`).
* In `PdmConfig` a value is in natural units. Documents with values of the wrong JSON type are refused before anything is sent
  and are left out. In `Documents` a device refuses a list with a parameter it does not have as a whole, as WriteAll does.
* `ConfigsTyped` says of the configurations of `LogicEngine` what `load_device` makes of any document: times, counts and bit numbers are natural, factors, offsets and arguments whole,
  operators those of the code; and that the bus has the ids that are listened to. `ConfigsAccepted` is what the program refuses: dangling references, big-endian signals past the last byte.
* Slots that a configuration does not list are disabled and nothing reads them. Analogue values (currents,
  voltages, temperatures) are left out. The park brake switch and its lamp, which meet no other slot, are left out of the
  engine configuration; of the lights, the slots that the statement is about are kept.

## 5. What is proved

`ParamClientProofs` proves, for every value of the constants satisfying `DeviceAssumption` and
`ClientAssumption` (any parameters, configurations, numbers of tries, faults and calls, prompt or late):

* `TypeCorrect == Spec => []TypeOK`. `TypeOK` is not inductive: a request about to be sent must have a try left,
  or `left` would leave its range; and `next` is 1 between calls, or a shorter list than the last
  would not cover it. `TypeInv` adds both. The proof has a lemma for each group of actions: the device
  (`DeviceType`), the link (`LinkType`), the request loop, WriteAll, the single requests, ReadAll.
* `FlashedOnce == Spec => []OneFlashPerBurn`. The invariant (`BurnInv`) counts the flash writes that have happened,
  the burn commands still on their way, and one more while Burn has not sent its command: together never
  more than the calls of Burn. It also needs that a burn request has no try left once it is sent. The counting
  rests on lemmas on what appending, taking the head and damaging the head do to the number of burn commands in
  a queue (`BurnCountAppend`, `BurnCountTail`, `BurnCountDamage`).

The lemmas that follow, on queues and on what WriteAll may have on the link (`OnLink`, `StagedOf`, `StagedWhole`), serve the rest of the module and `DingoCliProofs`.

Its last part proves of the library, for every value of the other constants, where replies are prompt (`ASSUME Prompt`):

* `ClientIsStore == Spec => RefinesConfigStore` and `DumpsWhole == Spec => []DumpIsWhole`. `Prompt` is needed: a late dump is run together with the next one, and a
  resent command that the device takes after the call has returned has an effect that no call of `ConfigStore` would have (section 3).
* The invariant, `StoreInv`, adds to `TypeInv` and `BurnInv` that nothing is on its way to a device that is gone, and the `Phase` of the call. `Returned`: only resets that earlier calls of
  Bootloader sent are on the link, and what the last call promised is true. `Asking` (the single requests, the start of WriteAll, the check that ends a ReadAll): at most one copy of
  the request is on the link or its one answer is, behind what may be left of a dump; the answer says what is true of the device. `Sending`: the values on the link are
  consecutive parameters of the list, at most one completion is behind them, and what is staged is some of those before, in order. `Stored`: the device committed
  what it had staged, and its answer waits. `Dumping`: the rest of one dump is on the link, and what was collected is some of the parameters before it, in order.
* `Prompt` enters where a request is sent again: a timeout then finds the link empty, so that no call ever has two copies of a command on its way. Each phase has
  one lemma for the device and the link and one for the client (`AskingByEnv`, `AskingByClient`, ...). What makes the two long calls true is `CrcWhole`: as many parameters as the list
  has, taken from it in order, with its CRC, are the list.
* `ClientIsStore` then maps each step: the beginning and the return of a call to `Begin` and `End`, the device's commit, write and burn to `Commit`, `Set` and `Flash` of the call that asked for them
  (`CommandOfCall`), loss of power to `Restart`, every other step to a stutter. That a call commits no parameter twice (`Distinct`) makes its list the new dump order; `BurnInv` gives `flashes < burns`.
* `StoreInv` was checked with TLC before it was proved (all eight operations, three calls, three faults, a power loss).

`DingoCliProofs` proves of the commands, for the same constants and with `Prompt` either way, that success tells the truth:

* `AppliedIsHeld == CliSpec => []ApplyMeansHeld`, `BurntIsPersisted == CliSpec => []ApplyBurnMeansPersisted`,
  `FlashesOnlyItsList == CliSpec => ApplyFlashesOnlyItsList`, and `SetIsHeld`, which is `CliSpec => []SetMeansHeld` where
  `"Write" \notin Damageable`. The last needs its assumption because of the resends of SetParam: the device would store a damaged copy of the command
  after its first echo, and nothing reads the value again. (WriteAll's values are under the count and the CRC, so that `AppliedIsHeld` needs nothing.)
  The run has no damage of `Write` for the same reason.
* The three properties look at finished commands. The invariant, `CliInv`, says what may be on the link and in the device at every point on the way:
  `Starting` (only WriteAll commands and their answers), `CliSending` (the values on the link are consecutive parameters of the list, and what the device has staged is some of those
  before them, in order: `OnLink`, `StagedOf`), `CliStored` (the device has stored what it staged; only completions and the answer to them are left), `Held` (it holds the
  list, and only completions or burns are left), `Persisted`. `Setting` is the same for SetParam. `Promises` ties them to the command:
  success implies `Held`, a burn is on the link only under `Held`, the answer to a burn only under `Persisted`.
* The step on which it all rests is the answer to the completion (`CliSendingByClient`, `CliStoredByEnv`, `WorkingByClient`). The answer has the count and the CRC of what was staged. As many
  parameters as the list has, taken from it in order, are its addresses (`StagedWhole`); the CRC makes their values those of the list. A completion that arrives
  while values are missing stores a part of the list, and the invariant then says so, and that its answer cannot pass the comparison.
  `Held` stays held when the link still has copies of the completion (`HeldByEnv`, `OverlayTwice`).
* `CliInv` was checked with TLC on the instance of `cli_sessions` before it was proved.

`SlcanPortProofs` proves of the port, for every size of the channel, the chunks and the wire, any number of frames and calls:

* `PortLosesNothing == Spec => []NothingLost`, `PortFlushes == Spec => []FlushDiscardsBuffered`, `PortTypes == Spec => []TypeOK` and the refinement
  `PortIsFifo == Spec => IsFifo`, of `FrameFifo` under the mapping of `SlcanPortFifo`.
* What is in flight is spread over five places, three of which hold unparsed bytes. The invariant, `PortInv == Types /\ Fifo /\ Fresh`, says that what was taken, the channel, the frame being
  pushed and the frames that the bytes will parse to are the numbers from one on, in order (`Fifo`), and that Flush has seen what it is to discard (`Fresh`).
  The bytes are the difficult part: a read cuts a line anywhere, so that `Fifo` speaks of the partial line, the rest of the chunk and the wire as one sequence,
  and lemmas say what taking a byte, a line or a chunk off its front does to the frames it parses to.
* Each action then has one effect on the queue of frames (`Effect`): it puts the next one, takes the oldest, cuts the end, or leaves it as it is. That is both the inductive
  step of `Fifo` and the step simulation of `PortIsFifo`.

`DocumentsProofs` proves of apply, for every set of documents, every table of boards and any sequence of applications, whole, with `-partial` or refused:

* `RightBoardSameDevice`: a document that is taken to be for the board of the two devices, applied whole, leaves them the same. It has no assumption. The invariant adds that the devices keep the
  parameters they have (`SameParams`); what makes it hold is that a whole list, if it is made at all, has a value for every parameter of the board (`WholeListCovers`), whatever the document leaves out.
* `DocumentDefinesDevice`: `Spec => []SameDocumentSameDevice`, where every document that is applied says what board it is for and no two boards of the table have the same type (`TypesDiffer`, which
  `params.Boards` satisfies). The type then decides, whatever the number of outputs (`TypedBoard`). Without a type it is guessed, and the property fails (`board_guess`, section 3).
* `PartialWritesWhatIsNamed`: `Spec => OnlyNamedFieldsWritten`.
* `SelfContainedIsDefined`: `Spec => []SelfContainedDefines`.
* `SimulatorRunsDevice`: `Spec => []SimulatorAgrees`.

The first two need no more than what is said of them above; what a list is made of is not needed. The last three are about that, and take what the code relies on:

* `SlotsFit`, of the board: no more slots of a kind than its area of the parameter map has room for. It is true of every board of `params.Boards`.
* `DocumentsFit`: a document that is chosen is for the board of the devices, its arrays are JSON arrays, and none is longer than an area of the parameter map (256 slots, 8 keypads, 32 buttons), beyond which the indices
  of the code would run into each other. Arrays that are too long for the board are allowed, and are refused or spill as in the code.
* `DevicesTold`, where two readers choose a device: base ids are numbers of 16 bits, and each device of a document with several has one.
* `TruthsAreBoolean`, of `SimulatorRunsDevice`: what a Boolean field holds is true or false. (`SelfContainedIsDefined` needs no such assumption: its property excepts a null `enabled`, section 3.)

All of them were evaluated with TLC and are true of the documents and the board of the run `documents`. The argument has two halves:

* What a list holds at one address is what one object of the document says. The areas of the blocks lie apart, so that the index of a parameter decides which block it belongs to, which slot of it, and so which rows it has
  (`RowsAt`); values that are collected from the parts of a document overlay each other only at equal addresses (`Overlay`), and so never across objects. Only the entries of arrays share an object with fields, which is
  why an array that is too long can change the parameter after it.
* What the simulator loads for a slot and a field is what the same object says under the same name. Every field it knows is a row of the registry with the same default (`FieldsAreRows`), and no two rows of a group have
  the same name (`RowsApart`). Every field but `minCount` and `enabled` has another default under the two policies (`AdversarialDiffers`), so that a document which loads alike has a value for it, and the list has it too. The
  defaults of `enabled` agree in most groups: in a slot that has an entry the adversarial policy assumes it on if it is absent, and a slot without an entry differs in its other fields (`GroupsHaveFields`).
* The invariant of the last two is `ListHeld`: after a list was accepted, both devices hold it, and agree where it has a value. It was checked on the run before it was proved.

`ResetRewriteProofs` proves, for every set of settings with `minCount <= maxCount`, every cycle length and every age
limit (`SettingsAreSane`), and any sequence of levels that the gate lets through:

* `RewriteIsFaithful == Spec => []SameCount`, `FallingResetHolds == Spec => []HeldOff`,
  `CountsStayInRange == Spec => []CountInRange` (`CountInRange` is checked by no run of its own). None of the three is inductive: equal counts say nothing of the edges
  the two counters will see next. `IInv` adds `SameMemory` (they remember the same levels and ages, except
  that the rewrite never remembers a high reset, because `_counter` returns from a reset before it would) and
  `NothingYet` (while the deployed counter remembers a low `x` it has counted nothing and remembers no input that
  is on; this is what makes the cycle before the first fall of `x` safe). `UpdateFacts` and `NoResetFacts` say what one
  update does with and without a reset, for any settings; `CycleIInv` is the inductive step, by the
  level of `x`. The gate is needed: without it the two differ from power-on, as the mutant `Ungated` shows.

`DingoSimProofs` proves of the frame codec, for all signals and data:

* `BigEndianWalk`: `Place`, which gives a bit's place in closed form, is where the loop of the code has come to. The two orders of
  the bits of a byte are each other's inverse (`MirrorTwice`), and the step of the loop is a case split on the end of a byte (`MirrorDown`).
* `FilledSlotBySlot`: `InsertAll`, which fills a frame at once, is the loop of the code over the slots. This is the inductive
  step of the loop: a frame filled with all signals is the one filled with all but the last, then with that one.
* `SignalsKeepApart`: a signal that lies in the frame and of which no higher slot claims a bit is read back as it was
  written, whatever was in the frame. Needs that two bits of a signal never share a place (`PlacesDistinct`).

* `NumbersReadBack`: a number that an unsigned signal can hold, encoded with any whole factor and offset and in either byte order, is decoded to itself. The raw
  value is a sum of powers of two over a set of bits, which the module `FiniteSetsExt` takes in an order that is a choice. The steps: the sums exist and agree whatever the set they are
  taken in (`SumsExist`, `SumsAgree`), any element may be taken first (`SumWithout`), the sum of the lowest `k` digits of `n` is `n % 2^k` (`DigitsSum`, from `OneMoreDigit` and `PowersDouble`),
  and a multiple of the factor is divided without a remainder (`NothingTruncated`). Each is an induction on a number, by the least counterexample (`LeastNumber`, `Counting`).

* A cycle updates every slot of every category in order, each update reading what the earlier ones left. The rest of the module makes one slot of it, for any configuration that is accepted and whose slots are numbered (`Runs`). An update owns
  its variable and its block's memory and changes nothing else (`InSlot`, one lemma for each kind of block). By induction over the slots, a category changes only what it owns, and each of its slots
  is updated exactly once, from a state in which it and the slots after it are as the cycle found them and the slots before it as the cycle will leave them (`CategoryUpdate`). The eight stages of a cycle (`Driven`, `Sensed`, ..., `Decided`) then compose
  (`StagesKeep`, `VariablesPass`, `MemoryPasses`), and for each kind of block a lemma says what a cycle makes of one slot (`CycleOutput`, `CycleDigIn`, `CycleCounter`, `CycleCanIn`, `CycleFrames`, `CycleSends`).
* What a block reads in a cycle is said once, by `Reading`: of the categories and the slots before its own the values of this cycle, of the others those of the last one (`CycleSlot`).
  `CycleVirtIn`, `CycleCounts`, `CycleCondition` and `CycleLag` give the new value of a virtual input, a counter, a condition and an output in those terms.

`LogicEngineProofs` proves of a device, for every set of configurations and bus that satisfies `ConfigsTyped` and `ConfigsAccepted`, any length of a cycle, any number
of slots and every stimulus:

* `CountersStayInRange` (`CountersInRange`), `OutputsAreACycleLate` (`OutputsLagLogic`, from the second cycle on), `StablePinsAreRead` (`StablePinsRead`), `BouncesAreFiltered` (`BouncesFiltered`),
  `CanInputsFollow` (`CanInputsFollowBus`), `FramesAreOnTime` (`FramesOnTime`), `FramesAreFaithful` (`FramesCarrySamples`), each from `Spec`.
* `SentFramesAreCurrent` concludes from `SignalsKeepApart`, for every configuration and state, that the frames a cycle sends carry the current values of their CAN outputs.
* The invariants relate a slot to the history of its stimulus. `DigitalInv`: the last sampled level is the pin's; a change that is still being checked is as old as the pin has been stable, which is no longer than
  `debounceTime`; and when nothing is being checked the variable shows the pin, so that no bounce is remembered. `CanInInv`: where a time-out is set, the age of the last frame is that of the id's silence; the input shows the last frame while
  that is known; a momentary latch has no memory but the last level, so that a frame after a time-out is shown like any other. `FramesInv`: what a frame still waits and what has passed since it was
  sent add up to less than its interval. `EngineShape`: the state has the variables and slots of the configuration. All four were checked with TLC on the instance of `logic_engine` before they were proved.
* `CountersInRange` and `FramesCarrySamples` are inductive with `EngineShape`. The second needs that the number of bytes sent covers every member (`FrameHoldsMembers`), so that the bits of a
  little-endian signal are all sent (`PlacesAreSent`); the rest are `SentFramesAreCurrent` and `NumbersReadBack`.
* `EngineTypes` (`TypeOK`) needs of a configuration that its slots name variables it has and its settings are numbers (`Settable`). `Typed` is the invariant: `EngineShape` and the range of every variable and of every block's memory.
  `SlotTyped` says what a slot's update must keep, a lemma for each kind shows that it does (`CounterTyped`: no count becomes negative, in whatever order a cycle's edges come), `CategoryTyped` takes a
  category slot by slot, and `ReceiveTyped`, `TimeoutsTyped`, `CanOutputsTyped` and `TickTyped` are the other stages of a cycle. A condition's variable is natural because two naturals share no bit above the sixteenth in `BitAnd`
  (`BitAndBounds`), so that the complement `AllOnes` minus it is never negative; a received number is an integer whatever its signal is (`DecodedType`).

Its last part proves what `fwmodel/corpus/README.md` promises of the deployed engine configuration, for every debounce, time-out and interval, length of a cycle, traffic and other configurations beside it:
`EngineFollowsGesture` (`FollowsGesture`, the refinement of `EngineGesture`), `ReleaseStartsTheEngine` (`ReleaseStarts`), `TheHornIsSilent` (`CrankIsSilent`), `HeaterIsHeldOff` (`HeaterHeldOff`) and
`SilenceStopsCranking` (`SilentBusStopsCranking`, from `CanInputsFollowBus`).

* None of them is inductive; `EngineOrder` is what holds between two cycles. Besides what each wire is made of, it needs the order in which the latches move: ARMED reads CRANKED, which is a cycle late, so an armed chord has
  cranked (`Lit(ARMED) => Lit(CHORD) /\ Lit(Ctr(2))`); a held chord means that the engine does not run (`Lit(CHORD) => ~Lit(Ctr(1))`), because the press clears that
  latch whatever sets it (`_counter` counts down after it counts up), and ARMED does not fall as long as the chord is held; and a heater toggle that is on remembers a high reset, so that the fall of ENGINE_RUN is seen. `EngineInv` was checked with TLC on the instance of `logic_engine` before it was proved.
* The slots of the configuration are given by `EngineVirtIns`, `EngineBlocks` and `EngineEnds`, what a cycle makes of them by `PressesStep`, `CountsStep` and `EndsStep`, and `EngineStep` puts them together. `Moves` is the
  part of it that the refinement needs: a press clears one latch, a release the other one, and nothing else moves.
* The other way round, that a chord which cranked does start the engine, holds only if it was held for a cycle more; that is why `EngineGesture` lets a release end with the engine off, and `ReleaseStarts` asks for ARMED.

`EquivCheckProofs` proves of the comparison, for every set of accepted pairs, bus and stimulus, and any length of a cycle:

* `RewritesPass`: a pair compared at tolerance 0 passes for ever (`Equivalent`) if one configuration stands for the other (`SameProgram`). That is a condition on the two documents alone.
  A map says which variable of b stands for which of a, and each slot has one of the changes that the repository makes: it is numbered anew, as long as it reads of each variable what this cycle, or else the last one, made of
  it, as before (`Alike`); a virtual input has other terms and the same truth table; one that only passes on a CAN input is left out (`LeftOut`); a counter gated by what resets it is reset by the rise of
  the negation (`ResetRewritten`); a one-bit wrapping counter and its condition become a latching virtual input (`ToggleLatched`). What no output reaches need not be mapped.
* The invariant is `InStep`: the logs are equal, no shift was refuted, and the two devices are `Twins`. Equal values of the mapped variables are not inductive. The blocks' memories must agree (`MemoryStands`), which for the
  rewritten reset is `HeldAlike`: the counters remember the same input, the rewrite never a high reset, and while the deployed one remembers a low reset it has counted nothing. A virtual input can be left
  out only since a momentary latch remembers nothing but what it shows (`Tidy`), and a toggle's counter must remember the last level of the latch. `TwinsStay` is the inductive step, one lemma for each
  change (`VirtInStands`, ... in `Stands`), from the lemmas of `DingoSimProofs` about one slot in one cycle; `TwinsShow` concludes that the observations are equal.
* `DocumentedPairsPass`: the four pairs of `SamePrograms` satisfy that condition, so that `Equivalent` holds of them for every debounce, time-out, interval and length of a cycle, where the run has a few.
  Its assumption, `OnlyDocumented`, is that no other pair is compared at tolerance 0. The maps: the engine's virtual inputs move one slot (`EngineMap`), the lights' pass-through input becomes its switch
  (`LightsMap`), NAND by De Morgan keeps its names (`NandMap`), the wrapping toggle's condition becomes the latch and its counter is not mapped (`ToggleMap`).
* `RelaysLag`: a pair of `Relays`, at any tolerance but 0 (`OnlyRelays`), satisfies `RelayLags`. What lags must be said of the states and not of the logs: the virtual input that drives the lamp of b holds at the end of each cycle
  what the lamp of a shows (`RelayHolds`), since both devices heard the same (`HeardAlike`). In the next cycle the lamp of b shows that, so that no signal ever differs at a shift of 1 (`Relaying`).
  That the direct lamp and its CAN input agree at the end of a cycle (`SensedLamp`) needs the input to have no time-out, as section 3 says.
* The relations between the two configurations were evaluated with TLC on the pairs, and the invariants checked on `equiv_pairs`, before they were proved.

Only model-checked: everything temporal (`CallsReturn`, `CommandsExit`, `ReaderStops`, `HostReturns`, `FlashersBlink`), for which fairness and ENABLED are needed. These, and what a recursive definition
computes on given data, are outside the prover's reach. Every invariant and action property of a passing run is stated by a theorem.

## 6. Not modelled, and the plan

Not modelled: `WriteRaw` and the traffic commands (they print or write frames and keep no state; `readFrame` uses Flush as
`SlcanPort` has it), flag parsing, formatting and printing (`show.py`, `equiv.py --dump`), the serial driver, the firmware itself, the host
runner (`fwhost` compiles sources that are not here) and its drivers (`fuzz.py`, `crosscheck.py`), the tests (`selftest.py`) and
the drivers of `fwmodel/tools`. Wipers, keypads, starter disable and analogue quantities are in the documents and not in
the simulation, as in `dingosim.py`, which refuses them when they are enabled.

Of `internal/params`, the encoding of names, enums and floats is left out (pure functions; the range check lets NaN pass, as the hazard says).
Of the corpus, `a5-counter-bounds`, the window, wipers and example configurations are left out.

Next, in this order:

1. Proofs: the verdict of `EquivCheck` against its definition on whole logs.
2. More of the corpus on `EquivCheck`, in the existing runs.
3. A device that sends for ever, so that what Flush does under traffic can be stated.
