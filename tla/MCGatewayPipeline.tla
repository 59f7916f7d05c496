------------------------- MODULE MCGatewayPipeline --------------------------
(***************************************************************************)
(* Small instances of GatewayPipeline.                                     *)
(***************************************************************************)
EXTENDS GatewayPipeline, TLC

CONSTANTS m1, e1, e2, nMqtt, nStdout,
          mqtt, mqtt2,   \* two brokers
          tty, pipe      \* stdout flushed at every line, and through a buffer

(* An old thread of a machine and its successor.                           *)
OneMachine == e1 :> m1 @@ e2 :> m1

ExporterName == mqtt :> nMqtt @@ mqtt2 :> nMqtt @@ tty :> nStdout @@ pipe :> nStdout
NameIn(D) == [d \in D |-> ExporterName[d]]

MqttTty == {mqtt, tty}
MqttPipe == {mqtt, pipe}
MqttTwice == {mqtt, mqtt2}
NamesMqttTty == NameIn(MqttTty)
NamesMqttPipe == NameIn(MqttPipe)
NamesMqttTwice == NameIn(MqttTwice)

(* The exporter lists of the registry at each start.                       *)
ListMqttTty == {<<mqtt, tty>>}
ListMqttOrPipe == {<<mqtt>>, <<pipe, mqtt>>}
ListMqttTwice == {<<mqtt, mqtt2>>}
=============================================================================
