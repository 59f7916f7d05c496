----------------------------- MODULE MCAdapters -----------------------------
(***************************************************************************)
(* Instances of Adapters: a state, a counter and a measured register; and  *)
(* a controller with a slow line, a line nobody asked for and a pattern of *)
(* a schema that is not supported.                                         *)
(***************************************************************************)
EXTENDS Adapters

StateReg == [address |-> 40001, type |-> "s16", scale |-> 10, mode |-> "on_change", name |-> "state"]
PartsReg == [address |-> 40002, type |-> "u16", scale |-> 10, mode |-> "on_increment", name |-> "parts"]
FlowReg == [address |-> 30001, type |-> "u32_swapped", scale |-> 10, mode |-> "stats",
            name |-> "flow", channel |-> "flow"]
LevelReg == [address |-> 30003, type |-> "u16", scale |-> 10, mode |-> "on_change", name |-> "level"]
FarReg == [address |-> 410000, type |-> "u16", scale |-> 10, mode |-> "on_change", name |-> "far"]

TwoMaps == {<<StateReg, PartsReg>>, <<LevelReg, FlowReg, FarReg>>}

Profile ==
  << [schema |-> "telemetry", name |-> "temp", matches |-> {<<"TEMP", "whole">>, <<"TEMP", "first">>}],
     [schema |-> "event", name |-> "alarm", matches |-> {<<"ALARM", "whole">>, <<"ALARM", "rest">>}],
     [schema |-> "energy", name |-> "kwh", matches |-> {<<"KWH", "whole">>, <<"KWH", "first">>}] >>

Boundaries ==
  {0, 1, 9999, 10000, 29999, 30000, 30001, 39999, 40000, 40001, 40002, 49999, 50000,
   300000, 300001, 309999, 310000, 400000, 400001, 409999, 410000, 465536}
BelowAndAbove == {-30, 10}
EdgeWords == {0, 1, 2^15 - 1, 2^15, 2^16 - 1}
=============================================================================
