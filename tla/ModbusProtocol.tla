--------------------------- MODULE ModbusProtocol ---------------------------
(***************************************************************************)
(* The protocol layer of generic-modbus                                    *)
(* (adapters/generic-modbus/protocol.py): register numbers, replies and    *)
(* values.                                                                 *)
(*                                                                         *)
(* A reply is two pieces on the wire, its head with transaction id and     *)
(* function code, and its tail with the last data byte; what is read is a  *)
(* sequence of pieces.  A checksum or a length field tells a whole reply   *)
(* from every other sequence.                                              *)
(***************************************************************************)
EXTENDS Integers, Sequences

READ_HOLDING == 3
READ_INPUT == 4

Error == [ok |-> FALSE]            \* a ModbusError
Words(regs) == [ok |-> TRUE, regs |-> regs]

-----------------------------------------------------------------------------
TableSize == 9999
Bases == {<<400001, READ_HOLDING>>, <<40001, READ_HOLDING>>,
          <<300001, READ_INPUT>>, <<30001, READ_INPUT>>}

(* Mutation: register numbers are taken as offsets.                        *)
resolve_address_NoBase(address) ==
  LET found == {b \in Bases : b[1] <= address /\ address < b[1] + TableSize}
  IN  IF found # {} THEN LET b == CHOOSE b \in found : TRUE
                         IN  [ok |-> TRUE, func |-> b[2], offset |-> address - b[1] + 1]
      ELSE IF 0 <= address /\ address <= TableSize
           THEN [ok |-> TRUE, func |-> READ_HOLDING, offset |-> address]
           ELSE Error

resolve_address(address) ==
  LET found == {b \in Bases : b[1] <= address /\ address < b[1] + TableSize}
  IN  IF found # {} THEN LET b == CHOOSE b \in found : TRUE
                         IN  [ok |-> TRUE, func |-> b[2], offset |-> address - b[1]]
      ELSE IF 0 <= address /\ address <= TableSize
           THEN [ok |-> TRUE, func |-> READ_HOLDING, offset |-> address]
           ELSE Error

reg_count(type) == IF type \in {"u32", "u32_swapped"} THEN 2 ELSE 1

-----------------------------------------------------------------------------
(* What a device sends: data words or an exception.                        *)
Reply(request, regs) ==
  <<[part |-> "head", request |-> request, regs |-> regs], [part |-> "tail"]>>
Exception == <<>>

Payload(head, func) ==
  IF head.regs = Exception \/ head.request.func # func THEN Error ELSE Words(head.regs)

(* Mutation: the transaction id is not compared.                           *)
parse_read_tcp_NoTid(frame, tid, func) ==
  IF Len(frame) < 2 \/ frame[1].part # "head" THEN Error ELSE Payload(frame[1], func)

(* The first reply in what recv() returned; what is after it is dropped.   *)
(* A tail in front is read as a header, with some other transaction id.    *)
parse_read_tcp(frame, tid, func) ==
  IF \/ Len(frame) < 2 \/ frame[1].part # "head"
     \/ frame[1].request.tid # tid
  THEN Error ELSE Payload(frame[1], func)

(* The CRC holds of one whole reply and of nothing else; there is no       *)
(* transaction id.                                                         *)
parse_read_rtu(frame, func) ==
  IF Len(frame) # 2 \/ frame[1].part # "head" THEN Error ELSE Payload(frame[1], func)

-----------------------------------------------------------------------------
TwoComplement16(word) == IF word >= 2^15 THEN word - 2^16 ELSE word

(* regs[1] of a reply with fewer words than the type needs: an IndexError. *)
TooShort(regs, type) == Len(regs) < reg_count(type)

raw_value(regs, type) ==
  CASE type = "u16" -> regs[1]
    [] type = "s16" -> TwoComplement16(regs[1])
    [] type = "u32" -> regs[1] * 2^16 + regs[2]
    [] type = "u32_swapped" -> regs[2] * 2^16 + regs[1]

(* Mutation: the sign bit is taken for a value bit.                        *)
decode_value_Unsigned(regs, type, scale) ==
  scale * raw_value(regs, IF type = "s16" THEN "u16" ELSE type)

(* In tenths; scale is 10 for 1 and 1 for 0.1.                             *)
decode_value(regs, type, scale) == scale * raw_value(regs, type)
=============================================================================
