---------------------------- MODULE SerialReader ----------------------------
(***************************************************************************)
(* generic-serial (adapters/generic-serial/adapter.py, protocol.py): lines *)
(* of a controller matched against the patterns of a line profile.         *)
(*                                                                         *)
(* readline() gives up after a second and returns what it has, so a line   *)
(* that the controller writes slowly comes in two parts.  Which lines and  *)
(* parts a pattern matches is given with it.  Groups capture numbers.      *)
(***************************************************************************)
EXTENDS AdapterBase

CONSTANTS
  Patterns,      \* the line profile: a sequence of [schema, name, matches]
  SerialLines,   \* what the controller writes
  SampleValues,  \* what a telemetry group captures
  NoPart,        \* nothing of a line is pending
  MaxLines,      \* bound: lines written
  MaxMishaps     \* bound: failures of the port and of emit()

ASSUME SerialAssumption ==
  /\ SampleValues \subseteq Int
  /\ Len(Patterns) \in Nat /\ DOMAIN Patterns = 1 .. Len(Patterns)
  /\ \A i \in DOMAIN Patterns : Patterns[i].schema = "telemetry" => Patterns[i].name \in Channels

VARIABLES
  stage,       \* "open", "read", "crashed" or "done"
  rest,        \* the line whose first part was read, or NoPart
  lines,       \* lines the controller has written
  mishaps

serialVars == <<stage, rest, lines, mishaps>>

SerialInit == stage = "open" /\ rest = NoPart /\ lines = 0 /\ mishaps = 0

Mishap == mishaps < MaxMishaps /\ mishaps' = mishaps + 1

-----------------------------------------------------------------------------
(* parse_line: the first pattern that matches what was read, if any.       *)
Matching(line, part) == {i \in DOMAIN Patterns : <<line, part>> \in Patterns[i].matches}
FirstMatch(line, part) ==
  Patterns[CHOOSE i \in Matching(line, part) : \A j \in Matching(line, part) : i <= j]

(* serial.Serial(...) opens, or does not.                                  *)
SerialOpen ==
  /\ stage = "open" /\ stage' = "read"
  /\ Connects /\ rest' = NoPart /\ emitted' = <<>>
  /\ UNCHANGED <<acc, now, lines, mishaps>>

(* A SerialException, while opening or reading: the port is closed.        *)
SerialFails ==
  /\ stage \in {"open", "read"} /\ Mishap
  /\ stage' = "open" /\ Fails(health, seen)
  /\ rest' = NoPart /\ emitted' = <<>>
  /\ UNCHANGED <<acc, now, lines>>

-----------------------------------------------------------------------------
(* Nothing matched: nothing happens.                                       *)
Ignored(line, part) ==
  /\ Matching(line, part) = {}
  /\ emitted' = <<>> /\ UNCHANGED <<health, delay, acc, seen, stage, mishaps>>

(* A pattern of a schema that parse_line does not know.                    *)
Unsupported(line, part) ==
  /\ Matching(line, part) # {}
  /\ FirstMatch(line, part).schema \notin {"event", "telemetry"}
  /\ health' = Degraded(health)
  /\ emitted' = <<>> /\ UNCHANGED <<delay, acc, seen, stage, mishaps>>

EventResult(p) ==
  [acc |-> acc, done |-> <<[kind |-> "event", name |-> p.name]>>, seen |-> seen]

TelemetryResult(p, value) ==
  LET added == Added(p.name, value, now)
  IN  [acc |-> added.acc, done |-> added.done, seen |-> Counted(p.name, added.done, now)]

(* emit() takes the body, or raises after it did or before: start() ends,  *)
(* and the supervisor's next start() has an empty aggregator.              *)
EmitRaises(r, s) ==
  /\ r.done # <<>> /\ Mishap /\ stage' = "crashed"
  /\ acc' = NothingOpen
  /\ Fails(WithData(health), [s EXCEPT !.lost = Plus(@, OpenCount(r.acc))])

Emits(r) ==
  \/ /\ emitted' = r.done
     /\ acc' = r.acc /\ seen' = r.seen /\ health' = WithData(health)
     /\ UNCHANGED <<delay, stage, mishaps>>
  \/ emitted' = r.done /\ EmitRaises(r, r.seen)
  \/ emitted' = <<>> /\ EmitRaises(r, Refused(r.seen))

Translated(line, part) ==
  /\ Matching(line, part) # {}
  /\ LET p == FirstMatch(line, part)
     IN  \/ p.schema = "event" /\ Emits(EventResult(p))
         \/ /\ p.schema = "telemetry"
            /\ \E value \in SampleValues : Emits(TelemetryResult(p, value))

Handle(line, part) ==
  Ignored(line, part) \/ Unsupported(line, part) \/ Translated(line, part)

(* readline() returned a line, the first part of one, or its rest.         *)
ReadLine ==
  /\ stage = "read" /\ rest = NoPart /\ lines < MaxLines
  /\ lines' = lines + 1 /\ now' \in {now, now + 1}
  /\ \E line \in SerialLines :
       \/ Handle(line, "whole") /\ UNCHANGED rest
       \/ Handle(line, "first") /\ rest' = line

ReadRest ==
  /\ stage = "read" /\ rest # NoPart
  /\ Handle(rest, "rest") /\ rest' = NoPart
  /\ UNCHANGED <<now, lines>>

-----------------------------------------------------------------------------
SerialRestart ==
  /\ stage = "crashed" /\ stage' = "open" /\ rest' = NoPart /\ emitted' = <<>>
  /\ UNCHANGED <<health, delay, acc, now, seen, lines, mishaps>>

(* stop() was called: the loop ends, and the open windows are emitted.     *)
SerialStop ==
  /\ stage \in {"open", "read"}
  /\ \/ stage' = "done" /\ FlushAll /\ UNCHANGED <<health, delay, mishaps>>
     \/ stage' = "crashed" /\ FlushRaises /\ Mishap
  /\ UNCHANGED <<now, rest, lines>>

SerialNext ==
  \/ SerialOpen \/ SerialFails \/ ReadLine \/ ReadRest
  \/ SerialRestart \/ SerialStop

=============================================================================
