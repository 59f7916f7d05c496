------------------------------ MODULE Simulator ------------------------------
(***************************************************************************)
(* omp-simulate (tools/omp_tools/simulate.py): one simulated machine and   *)
(* the envelopes it writes, in order.  A dyeing machine goes through the   *)
(* phases of a batch; any other machine cycles, stops and starts again     *)
(* until its time is over.  Durations, stops, readings and the occasional  *)
(* correction are choices of the random generator.                         *)
(***************************************************************************)
EXTENDS Envelopes, Sequences, SequencesExt

CONSTANTS
  Gateway, Machine,     \* the ids every invocation uses for its first machine
  Profiles,             \* the profiles a run may be started with
  Dyeing,               \* the one with batches
  PhasePlan,            \* its phases, in order
  RunId,                \* from the machine's id and the invocation's token
  NoRunId,              \* an event without run_id
  EndTime,              \* --duration
  CycleTimes,           \* what one cycle, stop or phase may take
  EnergyEvery,          \* time between two meter readings
  Readings              \* what the meter may show

ASSUME SimulatorAssumption ==
  /\ EndTime \in Nat /\ CycleTimes \subseteq Nat \ {0} /\ EnergyEvery \in Nat \ {0}
  /\ Readings \subseteq Nat
  /\ PhasePlan \in Seq(ProfilePhases[Dyeing]) /\ PhasePlan # <<>>

VARIABLES
  profile,     \* this invocation's --profile
  place,       \* where the machine's run is
  now,         \* simulated time
  anchor,      \* when the meter was read last
  running,     \* between start and stop
  cycles,      \* cycles completed
  phase,       \* the place in PhasePlan
  firstSeq,    \* first_seq
  out          \* what was written; m.seq is its length

simVars == <<profile, place, now, anchor, running, cycles, phase, firstSeq, out>>

Places == {"announce", "begin", "loop", "stop", "meter", "phase", "stats", "addition",
           "phase_end", "run_end", "summary", "done"}

SimInit ==
  /\ profile \in Profiles /\ place = "announce"
  /\ now = 0 /\ anchor = 0 /\ running = TRUE /\ cycles = 0
  /\ phase = 1 /\ firstSeq = 0 /\ out = <<>>

-----------------------------------------------------------------------------
IsDyeing == profile = Dyeing

EventBody(type, run) == [event_type |-> type, run_id |-> run]
PhaseBody(type) == [event_type |-> type, run_id |-> RunId, phase |-> PhasePlan[phase]]
EnergyBody(value, from, to) ==
  [metric |-> "kwh", value |-> value, start |-> from, end |-> to, run_id |-> RunId]

(* Machine.emit: the next seq, whatever the body.                          *)
Emit(schema, body) ==
  out' = Append(out, MakeEnvelope(Gateway, Machine, Len(out) + 1, profile, schema, body, NoKey))

Goto(p) == place' = p

(* Machine.announce.                                                       *)
Announce ==
  /\ place = "announce" /\ Goto("begin")
  /\ Emit("machine", [data_source |-> "native"])
  /\ UNCHANGED <<profile, now, anchor, running, cycles, phase, firstSeq>>

(* Mutation: the range begins after run_start.                             *)
FirstSeq_AfterStart == Len(out) + 2

FirstSeq == Len(out) + 1

RunStart ==
  /\ place = "begin" /\ Goto(IF IsDyeing THEN "phase" ELSE "loop")
  /\ Emit("event", EventBody("run_start", RunId))
  /\ firstSeq' = FirstSeq
  /\ UNCHANGED <<profile, now, anchor, running, cycles, phase>>

-----------------------------------------------------------------------------
(* run_cyclic_machine: a cycle that would end after the run is dropped,    *)
(* and with it the meter's reading.                                        *)
Cycle ==
  /\ place = "loop" /\ running /\ now < EndTime
  /\ \E d \in CycleTimes :
       /\ now' = now + d
       /\ \/ /\ now + d >= EndTime /\ Goto("run_end")
             /\ UNCHANGED <<cycles, out>>
          \/ /\ now + d < EndTime
             /\ cycles' = cycles + 1
             /\ Emit("event", EventBody("cycle_complete", RunId))
             /\ Goto("stop") \/ Goto("meter")
  /\ UNCHANGED <<profile, anchor, running, phase, firstSeq>>

Stop ==
  /\ place = "stop" /\ Goto("meter")
  /\ running' = FALSE
  /\ Emit("event", EventBody("stop", NoRunId))
  /\ UNCHANGED <<profile, now, anchor, cycles, phase, firstSeq>>

StartAgain ==
  /\ place = "loop" /\ ~running /\ now < EndTime
  /\ \E d \in CycleTimes : now' = now + d
  /\ running' = TRUE /\ Goto("meter")
  /\ Emit("event", EventBody("start", NoRunId))
  /\ UNCHANGED <<profile, anchor, cycles, phase, firstSeq>>

Meter ==
  /\ place = "meter"
  /\ Goto("loop")
  /\ IF now - anchor >= EnergyEvery
     THEN /\ \E v \in Readings : Emit("energy", EnergyBody(v, anchor, now))
          /\ anchor' = now
     ELSE UNCHANGED <<anchor, out>>
  /\ UNCHANGED <<profile, now, running, cycles, phase, firstSeq>>

TimeOver ==
  /\ place = "loop" /\ now >= EndTime /\ Goto("run_end")
  /\ UNCHANGED <<profile, now, anchor, running, cycles, phase, firstSeq, out>>

-----------------------------------------------------------------------------
(* run_dye_machine: phase_start, statistics, perhaps a correction,         *)
(* phase_end, and one meter reading over the whole batch.                  *)
PhaseStart ==
  /\ place = "phase" /\ Goto("stats")
  /\ Emit("event", PhaseBody("phase_start"))
  /\ UNCHANGED <<profile, now, anchor, running, cycles, phase, firstSeq>>

PhaseStats ==
  /\ place = "stats"
  /\ Goto("phase_end") \/ (PhasePlan[phase] = "hold" /\ Goto("addition"))
  /\ now' = now + 1
  /\ Emit("telemetry", [channel |-> "bath_temp", start |-> now, end |-> now + 1])
  /\ UNCHANGED <<profile, anchor, running, cycles, phase, firstSeq>>

Addition ==
  /\ place = "addition" /\ Goto("phase_end")
  /\ Emit("event", EventBody("addition", RunId))
  /\ UNCHANGED <<profile, now, anchor, running, cycles, phase, firstSeq>>

PhaseEnd ==
  /\ place = "phase_end"
  /\ Emit("event", PhaseBody("phase_end"))
  /\ IF phase < Len(PhasePlan) THEN phase' = phase + 1 /\ Goto("phase")
                               ELSE phase' = phase /\ Goto("meter")
  /\ UNCHANGED <<profile, now, anchor, running, cycles, firstSeq>>

BatchEnergy ==
  /\ place = "meter" /\ IsDyeing /\ Goto("run_end")
  /\ \E v \in Readings : Emit("energy", EnergyBody(v, 0, now))
  /\ UNCHANGED <<profile, now, anchor, running, cycles, phase, firstSeq>>

-----------------------------------------------------------------------------
RunEnd ==
  /\ place = "run_end" /\ Goto("summary")
  /\ Emit("event", EventBody("run_end", RunId))
  /\ UNCHANGED <<profile, now, anchor, running, cycles, phase, firstSeq>>

SummaryBody ==
  [run_id |-> RunId, outcome |-> "completed",
   phases |-> IF IsDyeing THEN ToSet(PhasePlan) ELSE {},
   quantities |-> IF IsDyeing
                  THEN [q \in {<<"fabric_kg">>, <<"water_l", "total">>} |->
                          IF q = <<"fabric_kg">> THEN 1 ELSE 4]
                  ELSE [q \in {<<"cycles", "total">>} |-> cycles],
   range |-> [first |-> firstSeq, last |-> Len(out)]]

Summary ==
  /\ place = "summary" /\ Goto("done")
  /\ Emit("process_run", SummaryBody)
  /\ UNCHANGED <<profile, now, anchor, running, cycles, phase, firstSeq>>

SimNext ==
  \/ Announce \/ RunStart \/ RunEnd \/ Summary
  \/ ~IsDyeing /\ (Cycle \/ Stop \/ StartAgain \/ Meter \/ TimeOver)
  \/ IsDyeing /\ (PhaseStart \/ PhaseStats \/ Addition \/ PhaseEnd \/ BatchEnergy)

-----------------------------------------------------------------------------
Finished == place = "done"
Written == ToSet(out)
=============================================================================
