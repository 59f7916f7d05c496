---------------------------- MODULE RetrofitNode ----------------------------
(***************************************************************************)
(* A retrofit node and its adapter on the gateway: the firmware            *)
(* (retrofit/esp32-ct-clamp/firmware/src/main.cpp, setup, loop,            *)
(* emitOrBuffer, mqttEnsure), the broker between them, and the adapter     *)
(* (adapters/retrofit-esp32/adapter.py).                                   *)
(*                                                                         *)
(* The node publishes with QoS 0: what it writes into a connection that is *)
(* dead already, or that dies before it arrives, is lost.  connected() is  *)
(* the node's view.  The adapter's start() makes a new MQTT client each    *)
(* time; the client of a start() that crashed goes on, because its loop    *)
(* looks at self._stop, which is the new start()'s event.                  *)
(***************************************************************************)
EXTENDS RingBuffer, SequencesExt

CONSTANTS
  ENERGY_INTERVAL,   \* samples of an energy interval
  MaxMessages,       \* bound: messages the node makes
  MaxFaults          \* bound: faults of links, processes and emit()

ASSUME NodeAssumption ==
  /\ ENERGY_INTERVAL \in Nat \ {0} /\ MaxMessages \in Nat /\ MaxFaults \in Nat
  /\ Message = [kind : {"event", "energy"}, id : 1 .. MaxMessages, count : {0}]

VARIABLES
  \* the node
  pc,          \* where emitOrBuffer is: "idle", "drain" or "publish"
  running,     \* the load is over the threshold
  samples,     \* samples in the current interval
  todo,        \* the messages of this turn of loop() not handled yet
  ring,
  dropped,     \* the counter of the firmware
  conn,        \* its connection: "none", "live", or "dead" and not noticed
  \* between them
  net,         \* written by the node, not forwarded by the broker yet
  inbox,       \* for each client of the adapter, what the broker sent it
  \* the adapter
  stage,       \* "down", "running" or "stopped"
  queue,       \* self._queue
  emitted,     \* the messages handed to emit() as bodies
  flags,       \* the losses handed to emit(), with the node's boot
  \* history
  made,        \* messages made
  boot,        \* boots of the node
  starts,      \* calls of start()
  gone,        \* messages lost otherwise than from a full ring
  overflowed,  \* messages lost from a full ring since the boot
  short,       \* a publish has failed on a connection that stayed up
  missed,      \* the hello of this connection was lost in the gateway
  faults

nodeVars == <<pc, running, samples, todo, ring, dropped, conn>>
linkVars == <<net, inbox>>
adapterVars == <<stage, queue, emitted, flags>>
bookVars == <<made, boot, starts, gone, overflowed, short, missed, faults>>
vars == <<nodeVars, linkVars, adapterVars, bookVars>>

Fault == faults < MaxFaults /\ faults' = faults + 1

Readings(s) == {m \in ToSet(s) : m.kind # "hello"}
Delivered == UNION {Readings(inbox[i]) : i \in DOMAIN inbox}
Hello(n) == [kind |-> "hello", id |-> boot, count |-> n]
Reading(kind, id) == [kind |-> kind, id |-> id, count |-> 0]

Init ==
  /\ pc = "idle" /\ running = FALSE /\ samples = 0 /\ todo = <<>>
  /\ ring = EmptyRing /\ dropped = 0 /\ conn = "none"
  /\ net = <<>> /\ inbox = <<>>
  /\ stage = "down" /\ queue = <<>> /\ emitted = <<>> /\ flags = {}
  /\ made = 0 /\ boot = 1 /\ starts = 0 /\ gone = {} /\ overflowed = {}
  /\ short = FALSE /\ missed = FALSE /\ faults = 0

-----------------------------------------------------------------------------
(* One turn of loop(): an event when the load crosses the threshold, and   *)
(* an energy reading when the interval is over.                            *)
Sample ==
  /\ pc = "idle" /\ todo = <<>> /\ made + 2 <= MaxMessages
  /\ running' \in BOOLEAN
  /\ LET due == samples + 1 >= ENERGY_INTERVAL
         event == IF running' # running THEN <<"event">> ELSE <<>>
         kinds == event \o (IF due THEN <<"energy">> ELSE <<>>)
     IN  /\ samples' = IF due THEN 0 ELSE samples + 1
         /\ todo' = [i \in DOMAIN kinds |-> Reading(kinds[i], made + i)]
         /\ made' = made + Len(kinds)
  /\ UNCHANGED <<pc, ring, dropped, conn, linkVars, adapterVars,
                 boot, starts, gone, overflowed, short, missed, faults>>

(* publish() returned true: into the connection, or into a dead one.       *)
Written(m) ==
  \/ conn = "live" /\ net' = Append(net, m) /\ UNCHANGED <<conn, gone, short, faults>>
  \/ conn = "dead" /\ gone' = gone \cup Readings(<<m>>) /\ UNCHANGED <<net, conn, short, faults>>

(* publish() returned false: the loss of the connection is noticed, or it  *)
(* stays up.                                                               *)
NotWritten ==
  \/ conn = "dead" /\ conn' = "none" /\ UNCHANGED <<net, gone, short, faults>>
  \/ conn = "live" /\ Fault /\ short' = TRUE /\ UNCHANGED <<net, conn, gone>>

(* Mutation: a message lost from the full ring is not counted.             *)
Drops_NotCounted(r) == 0

Drops(r) == IF Full(r) THEN 1 ELSE 0

Buffered ==
  /\ pc' = "idle" /\ todo' = Tail(todo)
  /\ ring' = Pushed(ring, Head(todo)) /\ dropped' = dropped + Drops(ring)
  /\ overflowed' = IF Full(ring) THEN overflowed \cup {Oldest(ring)} ELSE overflowed

-----------------------------------------------------------------------------
(* Mutation: the counter starts again before the hello is put together.    *)
HelloCount_Reset == 0
HelloCount == dropped

(* Mutation: a message that was published stays in the ring.               *)
AfterReplay_Kept(r) == r
AfterReplay(r) == Popped(r)

(* mqttEnsure: connected already; or no connection; or a new one, on which *)
(* the hello goes first, whether its publish() returns true or not.        *)
EnsureConnected ==
  /\ pc = "idle" /\ todo # <<>> /\ conn # "none"
  /\ pc' = "publish"
  /\ UNCHANGED <<running, samples, todo, ring, dropped, conn, linkVars, adapterVars, bookVars>>

EnsureFails ==
  /\ pc = "idle" /\ todo # <<>> /\ conn = "none"
  /\ Buffered
  /\ UNCHANGED <<running, samples, conn, linkVars, adapterVars,
                 made, boot, starts, gone, short, missed, faults>>

EnsureConnects ==
  /\ pc = "idle" /\ todo # <<>> /\ conn = "none"
  /\ conn' = "live" /\ pc' = "drain" /\ missed' = FALSE
  /\ \/ net' = Append(net, Hello(HelloCount)) /\ UNCHANGED <<short, faults>>
     \/ Fault /\ short' = TRUE /\ UNCHANGED net
  /\ UNCHANGED <<running, samples, todo, ring, dropped, inbox, adapterVars,
                 made, boot, starts, gone, overflowed>>

(* Then the ring, oldest first, until it is empty, the connection is gone  *)
(* or a publish() fails.                                                   *)
Replay ==
  /\ pc = "drain" /\ ring.count > 0 /\ conn # "none"
  /\ \/ Written(Oldest(ring)) /\ ring' = AfterReplay(ring) /\ UNCHANGED pc
     \/ NotWritten /\ pc' = "publish" /\ UNCHANGED ring
  /\ UNCHANGED <<running, samples, todo, dropped, inbox, adapterVars,
                 made, boot, starts, overflowed, missed>>

ReplayEnds ==
  /\ pc = "drain" /\ (ring.count = 0 \/ conn = "none")
  /\ pc' = "publish"
  /\ UNCHANGED <<running, samples, todo, ring, dropped, conn, linkVars, adapterVars, bookVars>>

(* emitOrBuffer: the message itself, or into the ring with it.             *)
Publish ==
  /\ pc = "publish"
  /\ \/ /\ conn # "none" /\ Written(Head(todo))
        /\ todo' = Tail(todo) /\ pc' = "idle" /\ UNCHANGED <<ring, dropped, overflowed>>
     \/ conn # "none" /\ NotWritten /\ Buffered
     \/ conn = "none" /\ Buffered /\ UNCHANGED <<net, conn, gone, short, faults>>
  /\ UNCHANGED <<running, samples, inbox, adapterVars, made, boot, starts, missed>>

(* connected() or mqtt.loop() finds the connection closed.                 *)
Notice ==
  /\ conn = "dead" /\ conn' = "none"
  /\ UNCHANGED <<pc, running, samples, todo, ring, dropped, linkVars, adapterVars, bookVars>>

-----------------------------------------------------------------------------
(* A connection is cut: a part of what was written arrives.                *)
Cut(k) == net' = SubSeq(net, 1, k) /\ gone' = gone \cup Readings(SubSeq(net, k + 1, Len(net)))

Break ==
  /\ conn = "live" /\ Fault /\ conn' = "dead"
  /\ \E k \in 0 .. Len(net) : Cut(k)
  /\ UNCHANGED <<pc, running, samples, todo, ring, dropped, inbox, adapterVars,
                 made, boot, starts, overflowed, short, missed>>

(* Power fails: the ring, the counter and the load's state are in RAM.     *)
Reboot ==
  /\ Fault /\ boot' = boot + 1
  /\ pc' = "idle" /\ running' = FALSE /\ samples' = 0 /\ todo' = <<>>
  /\ ring' = EmptyRing /\ dropped' = 0 /\ conn' = "none"
  /\ \E k \in 0 .. Len(net) :
       /\ net' = SubSeq(net, 1, k)
       /\ gone' = gone \cup Readings(SubSeq(net, k + 1, Len(net))) \cup Readings(todo)
                    \cup Readings(Contents(ring)) \cup overflowed
  /\ overflowed' = {}
  /\ UNCHANGED <<inbox, adapterVars, made, starts, short, missed>>

(* The broker starts again: every connection and subscription is gone, and *)
(* nothing in the adapter subscribes again.                                *)
BrokerRestart ==
  /\ Fault /\ conn' = IF conn = "none" THEN "none" ELSE "dead"
  /\ net' = <<>> /\ inbox' = <<>>
  /\ gone' = gone \cup Readings(net) \cup Delivered
  /\ UNCHANGED <<pc, running, samples, todo, ring, dropped, adapterVars,
                 made, boot, starts, overflowed, short, missed>>

(* To every subscription there is.                                         *)
Forward ==
  /\ net # <<>> /\ net' = Tail(net)
  /\ inbox' = [i \in DOMAIN inbox |-> Append(inbox[i], Head(net))]
  /\ IF inbox = <<>>
     THEN gone' = gone \cup Readings(<<Head(net)>>) /\ missed' = TRUE
     ELSE UNCHANGED <<gone, missed>>
  /\ UNCHANGED <<nodeVars, adapterVars, made, boot, starts, overflowed, short, faults>>

-----------------------------------------------------------------------------
(* on_message of any of the adapter's clients, old ones too.               *)
OnMessage ==
  /\ \E i \in DOMAIN inbox :
       /\ inbox[i] # <<>>
       /\ queue' = Append(queue, Head(inbox[i]))
       /\ inbox' = [inbox EXCEPT ![i] = Tail(@)]
  /\ UNCHANGED <<nodeVars, net, stage, emitted, flags, bookVars>>

(* start(): a new queue, and a new client when the broker can be reached.  *)
NewQueue ==
  /\ queue' = <<>> /\ gone' = gone \cup Readings(queue)
  /\ missed' = (missed \/ queue # <<>>)

Start ==
  /\ stage = "down" /\ NewQueue
  /\ \/ stage' = "running" /\ inbox' = Append(inbox, <<>>) /\ UNCHANGED faults
     \/ Fault /\ UNCHANGED <<stage, inbox>>
  /\ starts' = starts + 1
  /\ UNCHANGED <<nodeVars, net, emitted, flags, made, boot, overflowed, short>>

(* _handle of the next message: a body, a flag for a hello with losses, or *)
(* nothing.  emit() may raise, before or after it took the body.           *)
Bodies(m) ==
  IF m.kind = "hello"
  THEN flags' = (IF m.count = 0 THEN flags ELSE flags \cup {<<m.id, m.count>>}) /\ UNCHANGED emitted
  ELSE emitted' = Append(emitted, m) /\ UNCHANGED flags

Handle ==
  /\ stage = "running" /\ queue # <<>> /\ queue' = Tail(queue)
  /\ Bodies(Head(queue))
  /\ UNCHANGED <<nodeVars, linkVars, stage, bookVars>>

HandleRaises ==
  /\ stage = "running" /\ queue # <<>> /\ queue' = Tail(queue)
  /\ Fault /\ stage' = "down"
  /\ \/ Bodies(Head(queue)) /\ UNCHANGED <<gone, missed>>
     \/ gone' = gone \cup Readings(<<Head(queue)>>) /\ missed' = TRUE /\ UNCHANGED <<emitted, flags>>
  /\ UNCHANGED <<nodeVars, linkVars, made, boot, starts, overflowed, short>>

(* stop(): every client's loop ends.                                       *)
Stop ==
  /\ stage = "running" /\ stage' = "stopped"
  /\ queue' = <<>> /\ inbox' = <<>>
  /\ gone' = gone \cup Readings(queue) \cup Delivered
  /\ UNCHANGED <<nodeVars, net, emitted, flags, made, boot, starts, overflowed,
                 short, missed, faults>>

-----------------------------------------------------------------------------
Next ==
  \/ Sample \/ EnsureConnected \/ EnsureFails \/ EnsureConnects
  \/ Replay \/ ReplayEnds \/ Publish \/ Notice
  \/ Break \/ Reboot \/ BrokerRestart \/ Forward
  \/ OnMessage \/ Start \/ Handle \/ HandleRaises \/ Stop

Spec == Init /\ [][Next]_vars

-----------------------------------------------------------------------------
Out == ToSet(net) \cup ToSet(queue) \cup (UNION {ToSet(inbox[i]) : i \in DOMAIN inbox})
         \cup ToSet(emitted) \cup gone

(* Every reading is in exactly one of: the turn of loop() that made it,    *)
(* the ring, the dropped ones, and what was published (or went down with   *)
(* the node); and the firmware's counter is the number of dropped ones     *)
(* (main.cpp 149-193).                                                     *)
Accounted ==
  LET held == ToSet(Contents(ring))
      left == {m \in Out : m.kind # "hello"}
  IN  /\ {m.id : m \in Readings(todo) \cup held \cup overflowed \cup left} = 1 .. made
      /\ ToSet(todo) \cap (held \cup overflowed \cup left) = {}
      /\ held \cap (overflowed \cup left) = {} /\ overflowed \cap left = {}
      /\ Cardinality(held) = ring.count /\ dropped = Cardinality(overflowed)

(* The readings reach emit() in the order in which they were made, through *)
(* outages, replays and reboots, unless a publish failed on a connection   *)
(* that stayed up (then the ring is not replayed before the next           *)
(* connection, main.cpp 165, 180) or start() ran again.                    *)
OrderKept ==
  ~short /\ starts <= 1 =>
    \A i, j \in DOMAIN emitted : i < j => emitted[i].id < emitted[j].id

(* After a reconnect the recovered readings come first and the live ones   *)
(* after them (adapter-plugin-api.md 132; main.cpp 168: "then drain the    *)
(* buffer oldest-first"), for an adapter that was started once.  The       *)
(* firmware does not keep this: a publish() that fails ends the replay     *)
(* (180), mqttEnsure still returns true (184), and the new reading is      *)
(* published while older ones stay in the ring.                            *)
RecoveredFirst ==
  starts <= 1 => \A i, j \in DOMAIN emitted : i < j => emitted[i].id < emitted[j].id

(* A reading becomes at most one body per client of the adapter: without a *)
(* crash of start() no replay repeats one; after n crashes there are n     *)
(* clients more, and up to n bodies more for each reading (adapter.py      *)
(* 76-90), which the bound permits.                                        *)
CopiesBounded ==
  \A m \in ToSet(emitted) : Cardinality({i \in DOMAIN emitted : emitted[i] = m}) <= starts

(* Losses from the full ring reach the gateway as a flag with the node's   *)
(* whole count, as soon as the hello of the connection has come through    *)
(* (adapter.py 101-111; the adapter's README: "node-side loss is surfaced, *)
(* never silent").                                                         *)
HelloUnderWay == \E m \in Out : m.kind = "hello"

DropsSurfaced ==
  /\ conn = "live" /\ ~short /\ ~missed /\ stage = "running" /\ ~HelloUnderWay
  => dropped = 0 \/ <<boot, dropped>> \in flags
=============================================================================
