-------------------------- MODULE MCGatewayDaemon ---------------------------
(***************************************************************************)
(* Small instances of GatewayDaemon.                                       *)
(***************************************************************************)
EXTENDS GatewayDaemon

CONSTANTS m1, m2, s1, s2

Entries == [Machines -> Specs \cup {NoSpec}]
Valid == [kind : {"valid"}, want : Entries]
Refused == [kind : {"invalid"}, want : {[m \in Machines |-> NoSpec]}]
Missing == [kind : {"missing"}, want : {[m \in Machines |-> NoSpec]}]

(* One machine: every registry, or all but those of one kind.              *)
ValidOrRefused == Valid \cup Refused

(* Two machines: m1 with one entry or the other, m2 there or not.          *)
Floors == {r \in Valid : r.want[m1] # NoSpec /\ r.want[m2] # s2} \cup Refused \cup Missing
=============================================================================
