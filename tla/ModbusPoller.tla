---------------------------- MODULE ModbusPoller ----------------------------
(***************************************************************************)
(* The polling loop of generic-modbus (adapters/generic-modbus/adapter.py, *)
(* start, _read, _emit_value) and the link to the device.                  *)
(*                                                                         *)
(* TCP: recv() returns what has arrived, which may be half a reply, and    *)
(* the rest is read by the next request; once the device has closed the    *)
(* connection it returns nothing at all; a timeout drops the link.  RTU:   *)
(* what has arrived when the time is over is read, a late reply is read    *)
(* by the next request.  What a register holds is the device's choice.     *)
(* max_polls, the bound of replays, is left out.                           *)
(***************************************************************************)
EXTENDS AdapterBase, ModbusProtocol

CONSTANTS
  Mappings,      \* the register maps that may be configured: sequences of registers
  RegNames,      \* the names in them
  WordValues,    \* what a word of a device may be
  TidModulus,    \* 2^16
  NoValue,       \* nothing read yet
  MaxTime,       \* bound: polls
  MaxFaults      \* bound: failures of the link and of emit()

ASSUME PollerAssumption ==
  /\ \A m \in Mappings : Len(m) \in Nat \ {0} /\ DOMAIN m = 1 .. Len(m)
  /\ \A m \in Mappings : \A i \in DOMAIN m :
       /\ m[i].name \in RegNames /\ m[i].address \in Nat /\ m[i].scale \in Int
       /\ m[i].type \in {"u16", "s16", "u32", "u32_swapped"}
       /\ m[i].mode \in {"on_change", "on_increment", "stats"}
       /\ m[i].mode = "stats" => m[i].channel \in Channels
  /\ WordValues \subseteq 0 .. 2^16 - 1 /\ TidModulus \in Nat \ {0}
  /\ MaxFaults \in Nat /\ NoValue \notin Int

VARIABLES
  framing,     \* "tcp" or "rtu"
  registers,   \* the mapping
  place,       \* where start() is; "crashed" when it raised
  reg,         \* the register being read
  tid,         \* the transaction id
  last,        \* name -> the value read last
  onway,       \* pieces of replies the link still carries
  wire,        \* pieces that have arrived and were not read
  closed,      \* the device has closed the TCP connection
  told,        \* history: name -> its baseline, then what the last event told
  untold,      \* history: names whose last event emit() refused
  reading,     \* history: the request whose reply gave the last value
  faults

pollerVars == <<framing, registers, place, reg, tid, last, onway, wire, closed, told, untold,
                reading, faults>>

NoReading == [name |-> "", at |-> 0, func |-> 0]

PollerInit ==
  /\ framing \in {"tcp", "rtu"} /\ registers \in Mappings /\ place = "connect"
  /\ reg = 1 /\ tid = 0 /\ last = [n \in RegNames |-> NoValue]
  /\ onway = <<>> /\ wire = <<>> /\ closed = FALSE
  /\ told = [n \in RegNames |-> NoValue] /\ untold = {}
  /\ reading = NoReading /\ faults = 0

Fault == faults < MaxFaults /\ faults' = faults + 1
Quiet == emitted' = <<>>

-----------------------------------------------------------------------------
(* Mutation: what was read before the link broke is forgotten.             *)
LastAtConnect_Forgotten == [n \in RegNames |-> NoValue]

LastAtConnect == last

(* A connection: a new socket or port, with nothing in its buffer.         *)
PollerConnect ==
  /\ place = "connect" /\ place' = "request" /\ reg' = 1
  /\ Connects /\ Quiet
  /\ last' = LastAtConnect
  /\ onway' = <<>> /\ wire' = <<>> /\ closed' = FALSE
  /\ UNCHANGED <<acc, now, framing, registers, tid, told, untold, reading, faults>>

(* The wait of the backoff is the time that passes here.                   *)
PollerConnectFails ==
  /\ place = "connect" /\ Fault
  /\ Fails(health, seen) /\ Quiet
  /\ now' = now + 1
  /\ UNCHANGED <<acc, framing, registers, place, reg, tid, last, onway, wire, closed, told,
                 untold, reading>>

(* Any exception but a ModbusError drops the link.                         *)
LinkDropped(h, s) == Fails(h, s) /\ place' = "connect" /\ UNCHANGED reg

(* A ModbusError ends this poll; the link is kept.                         *)
PollSpoilt ==
  /\ place' = "wait" /\ health' = Degraded(health)
  /\ UNCHANGED <<delay, seen, reg>>

-----------------------------------------------------------------------------
Register == registers[reg]
Resolved == resolve_address(Register.address)

(* What is asked, with the register's name and the poll for the history.   *)
Request(t) ==
  [tid |-> t, func |-> Resolved.func, name |-> Register.name, at |-> now]

NextTid == (tid + 1) % TidModulus

(* _read up to the write, and the device's answer: data words or an        *)
(* exception, or nothing when it has closed the connection.  RTU empties   *)
(* the receive buffer first.                                               *)
SendRequest ==
  /\ place = "request" /\ Resolved.ok
  /\ place' = "reply" /\ tid' = NextTid
  /\ wire' = IF framing = "rtu" THEN <<>> ELSE wire
  /\ \/ /\ ~closed /\ UNCHANGED faults
        /\ \E regs \in [1 .. reg_count(Register.type) -> WordValues] :
             onway' = onway \o Reply(Request(tid'), regs)
     \/ ~closed /\ Fault /\ onway' = onway \o Reply(Request(tid'), Exception)
     \/ closed /\ UNCHANGED <<onway, faults>>
  /\ Quiet
  /\ UNCHANGED <<health, delay, acc, now, seen, framing, registers, reg, last, closed, told,
                 untold, reading>>

(* resolve_address raises.                                                 *)
BadAddress ==
  /\ place = "request" /\ ~Resolved.ok
  /\ PollSpoilt /\ tid' = NextTid /\ Quiet
  /\ UNCHANGED <<acc, now, framing, registers, last, onway, wire, closed, told, untold, reading,
                 faults>>

Arrive ==
  /\ place = "reply" /\ onway # <<>>
  /\ wire' = Append(wire, Head(onway)) /\ onway' = Tail(onway)
  /\ Quiet
  /\ UNCHANGED <<health, delay, acc, now, seen, framing, registers, place, reg, tid, last, closed,
                 told, untold, reading, faults>>

(* Line noise takes a piece.                                               *)
PieceLost ==
  /\ framing = "rtu" /\ onway # <<>> /\ Fault
  /\ onway' = Tail(onway) /\ Quiet
  /\ UNCHANGED <<health, delay, acc, now, seen, framing, registers, place, reg, tid, last, wire,
                 closed, told, untold, reading>>

(* The device closes the connection; what it sent before still comes.      *)
PeerCloses ==
  /\ framing = "tcp" /\ place \in {"request", "reply", "wait"} /\ ~closed /\ Fault
  /\ closed' = TRUE /\ Quiet
  /\ UNCHANGED <<health, delay, acc, now, seen, framing, registers, place, reg, tid, last, onway,
                 wire, told, untold, reading>>

-----------------------------------------------------------------------------
(* What recv() or read() returned, parsed.                                 *)
Parsed ==
  IF framing = "tcp" THEN parse_read_tcp(wire, tid, Resolved.func)
                     ELSE parse_read_rtu(wire, Resolved.func)

(* recv() returns as soon as there is something, and nothing when the      *)
(* device has closed; a serial read waits for the timeout.  The reply, or  *)
(* a part of it, may come too late.                                        *)
ReadWire ==
  /\ place = "reply"
  /\ framing = "tcp" => wire # <<>> \/ (closed /\ onway = <<>>)
  /\ wire' = <<>>
  /\ UNCHANGED <<now, framing, registers, tid, onway, closed>>

InTime == onway = <<>> /\ UNCHANGED faults
Late == onway # <<>> /\ Fault

NoBodies == Quiet /\ UNCHANGED <<acc, last, told, untold, reading>>

BadReply == ReadWire /\ (InTime \/ Late) /\ ~Parsed.ok /\ PollSpoilt /\ NoBodies

(* An IndexError in decode_value.                                          *)
ShortReply ==
  /\ ReadWire /\ (InTime \/ Late)
  /\ Parsed.ok /\ TooShort(Parsed.regs, Register.type)
  /\ LinkDropped(health, seen) /\ NoBodies

-----------------------------------------------------------------------------
(* _emit_value: the first value of a register is only its baseline.        *)
Event(prev, value) ==
  IF prev = NoValue \/ value = prev \/ (Register.mode = "on_increment" /\ value < prev)
  THEN <<>>
  ELSE <<[kind |-> Register.mode, name |-> Register.name, from |-> prev, to |-> value]>>

ValueResult(value) ==
  LET name == Register.name
      event == Event(last[name], value)
  IN  [acc |-> acc, emitted |-> event, seen |-> seen,
       last |-> [last EXCEPT ![name] = value],
       told |-> IF event # <<>> \/ told[name] = NoValue
                THEN [told EXCEPT ![name] = value] ELSE told]

SampleResult(value) ==
  LET added == Added(Register.channel, value, now)
  IN  [acc |-> added.acc, emitted |-> added.done, last |-> last, told |-> told,
       seen |-> Counted(Register.channel, added.done, now)]

EmitResult(value) ==
  IF Register.mode = "stats" THEN SampleResult(value) ELSE ValueResult(value)

NextRegister ==
  IF reg < Len(registers) THEN reg' = reg + 1 /\ place' = "request"
                          ELSE reg' = reg /\ place' = "wait"

(* emit() takes the body, if there is one.                                 *)
Taken(r) ==
  /\ emitted' = r.emitted /\ told' = r.told
  /\ untold' = IF r.emitted = <<>> THEN untold ELSE untold \ {Register.name}

(* A value: what emit() is called with, and what is remembered: `last` and *)
(* the window move first.  emit() may raise after it took the body or      *)
(* before; that counts as an error of the link.                            *)
GoodReply ==
  /\ ReadWire
  /\ Parsed.ok /\ ~TooShort(Parsed.regs, Register.type)
  /\ LET r == EmitResult(decode_value(Parsed.regs, Register.type, Register.scale))
         from == wire[1].request
     IN  /\ acc' = r.acc /\ last' = r.last
         /\ reading' = [name |-> from.name, at |-> from.at, func |-> from.func]
         /\ \/ /\ Taken(r) /\ (InTime \/ Late)
               /\ health' = WithData(health) /\ seen' = r.seen /\ UNCHANGED delay
               /\ NextRegister
            \/ /\ Taken(r) /\ r.emitted # <<>> /\ Fault
               /\ LinkDropped(WithData(health), r.seen)
            \/ /\ Quiet /\ UNCHANGED told /\ untold' = untold \cup {Register.name}
               /\ r.emitted # <<>> /\ Fault
               /\ LinkDropped(WithData(health), Refused(r.seen))

(* An exception of the link: recv() timed out, the connection was reset or *)
(* the port failed.  A closed peer needs no further fault for it.          *)
LinkRaises == Fault \/ (closed /\ UNCHANGED faults)

SendFails ==
  /\ place = "request" /\ Resolved.ok /\ LinkRaises
  /\ tid' = NextTid /\ LinkDropped(health, seen) /\ NoBodies
  /\ UNCHANGED <<now, framing, registers, onway, wire, closed>>

ReceiveFails ==
  /\ place = "reply" /\ LinkRaises
  /\ LinkDropped(health, seen) /\ NoBodies
  /\ UNCHANGED <<now, framing, registers, tid, onway, wire, closed>>

-----------------------------------------------------------------------------
PollWait ==
  /\ place = "wait" /\ now < MaxTime
  /\ now' = now + 1 /\ reg' = 1 /\ place' = "request"
  /\ Quiet
  /\ UNCHANGED <<health, delay, acc, seen, framing, registers, tid, last, onway, wire, closed, told,
                 untold, reading, faults>>

(* stop() was called: the loop ends, and the open windows are emitted,     *)
(* outside of any try.                                                     *)
PollerStop ==
  /\ place \in {"wait", "connect"}
  /\ \/ place' = "done" /\ FlushAll /\ UNCHANGED <<health, delay, faults>>
     \/ place' = "crashed" /\ FlushRaises /\ Fault
  /\ UNCHANGED <<now, framing, registers, reg, tid, last, onway, wire, closed, told, untold,
                 reading>>

(* The supervisor calls start() again: a fresh `last`, tid and statistics. *)
PollerRestart ==
  /\ place = "crashed" /\ place' = "connect" /\ Quiet
  /\ tid' = 0 /\ last' = [n \in RegNames |-> NoValue]
  /\ onway' = <<>> /\ wire' = <<>>
  /\ told' = [n \in RegNames |-> NoValue] /\ untold' = {}
  /\ UNCHANGED <<health, delay, acc, now, seen, framing, registers, reg, closed, reading, faults>>

PollerNext ==
  \/ PollerConnect \/ PollerConnectFails \/ SendRequest \/ BadAddress
  \/ SendFails \/ Arrive \/ PieceLost \/ PeerCloses \/ ReceiveFails
  \/ BadReply \/ ShortReply \/ GoodReply
  \/ PollWait \/ PollerStop \/ PollerRestart

-----------------------------------------------------------------------------
(* Over TCP a value belongs to the register and the poll it is reported    *)
(* for, however replies are split, late or left in the buffer; over RTU,   *)
(* which has no transaction id, no more than the function code is sure     *)
(* (protocol.py 43-53, 64-75).                                             *)
Attribution ==
  [][place = "reply" /\ reading' # reading =>
       /\ reading'.func = Resolved.func
       /\ framing = "tcp" => reading'.name = Register.name /\ reading'.at = now]_<<baseVars, pollerVars>>

(* Within one start() the events of a register tell its whole story        *)
(* through errors, lost links and reconnects: a state that was read is the *)
(* state the last event ended in, and a counter that was read is never     *)
(* ahead of what was told (adapter.py 174-192).  A change whose event      *)
(* emit() refused is left out of the story, until the next event.          *)
StoryUnbroken ==
  \A i \in DOMAIN registers :
    LET r == registers[i]
    IN  last[r.name] # NoValue /\ r.name \notin untold =>
          /\ r.mode = "on_change" => last[r.name] = told[r.name]
          /\ r.mode = "on_increment" => last[r.name] <= told[r.name]
=============================================================================
