---------------------------- MODULE EngineRepin ----------------------------
(***************************************************************************)
(* The deployed engine configuration, fwmodel/corpus/engine-repin.json,    *)
(* running on LogicEngine, and what its description in                     *)
(* fwmodel/corpus/README.md promises of it.                                *)
(***************************************************************************)
EXTENDS LogicEngine, CorpusConfigs

CHORD     == Vin(1)
START_REQ == Vin(2)
ARMED     == Vin(3)

\* the device has this configuration, and a variable of it is on, before and after a step
IsEngine  == cfg = Engine
On(x)     == IsEngine /\ Level(sim.var[x])
OnNext(x) == IsEngine /\ Level(sim'.var[x])

-----------------------------------------------------------------------------
\* The engine configuration behaves as its description says: the engine is
\* started only by letting go of a chord that cranked it, and every press of
\* the chord stops it (corpus/README.md, "Read as a state machine").
Gesture == INSTANCE EngineGesture WITH
             chord  <- On(CHORD),
             engine <- IF On(Ctr(1)) THEN "running" ELSE IF On(Ctr(2)) THEN "cranked" ELSE "off"
FollowsGesture == Gesture!Spec

\* Letting go of a chord that has been armed for a cycle leaves the engine
\* running: ARMED needs CRANKED, which is a cycle late, so one cycle of
\* cranking is not enough, but nothing that happens later can undo it.
ReleaseStarts == [][On(ARMED) /\ ~OnNext(CHORD) => OnNext(ENGINE_RUN)]_vars

\* The starter and the horn are never on together: "cranking does not sound
\* the horn", in spite of the outputs being a cycle behind the logic.
CrankIsSilent == ~(On(<<"output", 1>>) /\ On(<<"output", 7>>))

\* The heater toggle is off after every cycle that began with the engine
\* stopped: the falling reset holds it, and HEATER_PRESS is gated meanwhile.
HeaterHeldOff == [][~On(ENGINE_RUN) => ~OnNext(Ctr(3))]_vars

\* A silent bus does not keep the starter on: a cycle after a button's frame
\* has timed out both circuits that crank are dead.
SilentBusStopsCranking ==
  [][IsEngine /\ (Silent(1) \/ Silent(3)) => ~OnNext(<<"output", 1>>) /\ ~OnNext(<<"output", 6>>)]_vars
=============================================================================
