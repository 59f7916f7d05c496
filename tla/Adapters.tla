------------------------------ MODULE Adapters ------------------------------
(***************************************************************************)
(* A polling adapter of one family or the other, on the shared base:       *)
(* generic-modbus (ModbusPoller) or generic-serial (SerialReader).         *)
(***************************************************************************)
EXTENDS ModbusPoller, SerialReader

CONSTANTS
  SampleAddresses,   \* register numbers to resolve
  SampleWords        \* words to decode

ASSUME SampleAssumption == SampleAddresses \subseteq Nat /\ SampleWords \subseteq 0 .. 2^16 - 1

VARIABLE family

vars == <<baseVars, pollerVars, serialVars, family>>

Init ==
  /\ family \in {"modbus", "serial"}
  /\ BaseInit /\ PollerInit /\ SerialInit
  /\ family = "serial" => framing = "rtu"

Next ==
  \/ family = "modbus" /\ PollerNext /\ UNCHANGED <<serialVars, family>>
  \/ family = "serial" /\ SerialNext /\ UNCHANGED <<pollerVars, family>>

Spec == Init /\ [][Next]_vars

-----------------------------------------------------------------------------
Linked ==
  IF family = "modbus" THEN place \in {"request", "reply", "wait"} ELSE stage = "read"
Stopped == place = "done" \/ stage = "done"

(* What health() reports is what the adapter knows: `disconnected` exactly *)
(* while it holds no transport, be the peer's end of one closed or not;    *)
(* reconnects are the connections after the first, and the wait after the  *)
(* n-th failure in a row was 2^(n-1) seconds up to the longest, also when  *)
(* a crash of start() lies between them (adapter.py 90-131, cli.py         *)
(* 199-204).                                                               *)
HealthHonest ==
  /\ ~Stopped => (health.state = "disconnected" <=> ~Linked)
  /\ health.state \in {"ok", "degraded", "disconnected"}
  /\ CountersHonest

(* resolve_address and decode_value against their definitions: below       *)
(* 10000 a number is an offset, else its leading digit is the table and    *)
(* the rest counts from 1 up to the table's size, and any other number is  *)
(* refused; s16 is two's complement, u32 the words in their order          *)
(* (protocol.py 20-33, 94-111).  The table's size is the code's 9999: its  *)
(* docstring, "4xxxx/4xxxxx -> holding" (24), does not except the numbers  *)
(* from 410000 and 310000 on, which the code refuses.                      *)
Table(digit) == IF digit = 4 THEN READ_HOLDING ELSE READ_INPUT

ResolvesAs(a, unit) ==
  LET d == a \div unit
      r == a % unit
  IN  d \in {3, 4} /\ 1 <= r /\ r <= TableSize
        /\ resolve_address(a) = [ok |-> TRUE, func |-> Table(d), offset |-> r - 1]

OutOfTables(a) ==
  /\ a >= 10000
  /\ \A unit \in {10000, 100000} :
       ~(a \div unit \in {3, 4} /\ 1 <= a % unit /\ a % unit <= TableSize)

AddressAgrees(a) ==
  \/ a < 10000 /\ resolve_address(a) = [ok |-> TRUE, func |-> READ_HOLDING, offset |-> a]
  \/ 10000 <= a /\ a < 100000 /\ ResolvesAs(a, 10000)
  \/ 100000 <= a /\ a < 1000000 /\ ResolvesAs(a, 100000)
  \/ OutOfTables(a) /\ ~resolve_address(a).ok

AddressesAgree ==
  \A a \in SampleAddresses \cup {registers[i].address : i \in DOMAIN registers} : AddressAgrees(a)

DecodesAlone(w) ==
  LET s == decode_value(<<w>>, "s16", 1)
  IN  /\ -(2^15) <= s /\ s < 2^15 /\ s % 2^16 = w
      /\ decode_value(<<w>>, "u16", 1) = w

DecodesPair(high, w) ==
  LET v == decode_value(<<high, w>>, "u32", 1)
  IN  /\ v \div 2^16 = high /\ v % 2^16 = w
      /\ decode_value(<<w, high>>, "u32_swapped", 1) = v

DecodesAgree ==
  \A w \in SampleWords :
    DecodesAlone(w) /\ \A high \in SampleWords : high < 2^15 => DecodesPair(high, w)

ConversionsAgree == AddressesAgree /\ DecodesAgree
=============================================================================
