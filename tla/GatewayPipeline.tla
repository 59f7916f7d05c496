-------------------------- MODULE GatewayPipeline ---------------------------
(***************************************************************************)
(* The running gateway from an adapter's emit() to the exporters: the      *)
(* adapter threads and the main thread of cmd_run (gateway/omp/cli.py),    *)
(* Engine.process (core/engine.py), the drain loop (exporters/base.py) and *)
(* retention, over the database of GatewayStore.                           *)
(*                                                                         *)
(* One thread runs per machine.  It takes a seq, builds and validates the  *)
(* envelope, appends it (or dead-letters it), and then drains every        *)
(* exporter under the drain lock.  The main thread announces machines,     *)
(* drains at startup and at shutdown, and prunes in between.  The process  *)
(* can die between any two steps; what the database committed survives.    *)
(***************************************************************************)
EXTENDS GatewayStore, Sequences

CONSTANTS
  Emitters,       \* adapter threads
  MachineOf,      \* [Emitters -> Machines]; two threads may serve one machine,
                  \* one after the other (a reload) or, if a join times out, at once
  Main, NoThread, \* the main thread; the holder of a free lock
  Destinations,   \* what exporters publish to
  NameOf,         \* [Destinations -> Names]: the exporter class's name attribute
  Buffered,       \* the destinations behind a stdout pipe: publish() writes to
                  \* the process's own text buffer
  Configs,        \* the exporter lists the registry may hold at a start
  JoinTimesOut,   \* may stop_machine's join(timeout=10) expire?
  MaxSeq,         \* bounds: envelopes per machine,
  MaxBoots,       \* starts of the process,
  MaxFaults       \* and exceptions raised by the database or by publish()

Threads == Emitters \cup {Main}
Direct == Destinations \ Buffered

ASSUME PipelineAssumption ==
  /\ MachineOf \in [Emitters -> Machines]
  /\ NameOf \in [Destinations -> Names]
  /\ Buffered \subseteq Destinations
  /\ Configs \subseteq Seq(Destinations) /\ <<>> \notin Configs
  /\ Main \notin Emitters /\ NoThread \notin Threads
  /\ JoinTimesOut \in BOOLEAN
  /\ MaxSeq \in Nat /\ MaxBoots \in Nat /\ MaxFaults \in Nat

VARIABLES
  phase,       \* "down", "boot", "run" or "stopping": where cmd_run is
  stopEvt,     \* the event stop_evt
  exporters,   \* the list _build_exporters made at this start
  gaveUp,      \* the machines whose last reload gave up on a running thread
  pc,          \* thread -> its place in start_machine, emit or drain
  seq,         \* emitter -> the seq it holds while it builds an envelope
  lock,        \* the holder of drain_lock
  pos,         \* thread -> the place in exporters of the one it is draining
  batch,       \* thread -> the rows of its last pending() not yet acknowledged
  staged,      \* stdout pipe -> rows written to its text buffer, not to it
  accepted,    \* destination -> rows the destination has
  history,     \* every row ever appended (what the database forgets)
  boots, faults

procVars == <<phase, stopEvt, exporters, gaveUp, pc, seq, lock, pos, batch, staged>>
vars == <<storeVars, procVars, accepted, history, boots, faults>>

PCs == {"off", "idle", "announce", "stamped", "wait", "read", "publish", "ack",
        "reload", "prune"}

TypeOK ==
  /\ StoreTypeOK
  /\ phase \in {"down", "boot", "run", "stopping"}
  /\ stopEvt \in BOOLEAN
  /\ exporters \in Configs \cup {<<>>}
  /\ gaveUp \in SUBSET Machines
  /\ pc \in [Threads -> PCs]
  /\ seq \in [Emitters -> Nat]
  /\ lock \in Threads \cup {NoThread}
  /\ pos \in [Threads -> 0 .. Len(exporters)]
  /\ batch \in [Threads -> SUBSET Row]
  /\ staged \in [Buffered -> SUBSET Row]
  /\ accepted \in [Destinations -> SUBSET Row]
  /\ history \in SUBSET Row
  /\ boots \in Nat
  /\ faults \in Nat

Init ==
  /\ StoreInit
  /\ phase = "down"
  /\ stopEvt = FALSE
  /\ exporters = <<>>
  /\ gaveUp = {}
  /\ pc = [t \in Threads |-> "off"]
  /\ seq = [t \in Emitters |-> 0]
  /\ lock = NoThread
  /\ pos = [t \in Threads |-> 0]
  /\ batch = [t \in Threads |-> {}]
  /\ staged = [d \in Buffered |-> {}]
  /\ accepted = [d \in Destinations |-> {}]
  /\ history = {}
  /\ boots = 0
  /\ faults = 0

-----------------------------------------------------------------------------
Goto(t, place) == pc' = [pc EXCEPT ![t] = place]

(* Where the main thread is, when it is not inside start_machine.          *)
MainAt(place) == pc[Main] = place /\ \A t \in Emitters : pc[t] # "announce"
MainFree == MainAt("idle")

Configured == {exporters[i] : i \in DOMAIN exporters}
ConfiguredNames == {NameOf[d] : d \in Configured}

(* The exporter t is draining, and the next row of its batch.              *)
Target(t) == exporters[pos[t]]
IsOldest(r, rows) == r \in rows /\ \A o \in rows : r.row <= o.row

(* The process is gone: threads, lock and text buffers with it.            *)
ProcessGone ==
  /\ phase' = "down"
  /\ stopEvt' = FALSE
  /\ exporters' = <<>>
  /\ gaveUp' = {}
  /\ pc' = [t \in Threads |-> "off"]
  /\ seq' = [t \in Emitters |-> 0]
  /\ lock' = NoThread
  /\ pos' = [t \in Threads |-> 0]
  /\ batch' = [t \in Threads |-> {}]
  /\ staged' = [d \in Buffered |-> {}]

-----------------------------------------------------------------------------
(* The start of `omp-gateway run`: the store is opened and the exporters   *)
(* are built once, from the registry as it is now.                         *)
Boot ==
  /\ phase = "down"
  /\ boots < MaxBoots
  /\ boots' = boots + 1
  /\ phase' = "boot"
  /\ exporters' \in Configs
  /\ pc' = [pc EXCEPT ![Main] = "idle"]
  /\ UNCHANGED <<storeVars, stopEvt, gaveUp, seq, lock, pos, batch, staged,
                 accepted, history, faults>>

(* Mutation: a reload that starts the new thread without joining the old.  *)
Joined_NotWaitedFor(t) == TRUE

(* Is every other thread of t's machine gone?                              *)
Joined(t) == \A o \in Emitters : MachineOf[o] = MachineOf[t] => pc[o] = "off"

(* start_machine: the probe answered and the machine's announcement gets   *)
(* its seq.  In "boot" this is the loop over the registry; in "run" it is  *)
(* apply_reload, after stop_machine joined the machine's old thread or     *)
(* gave up on it; gaveUp keeps which.                                      *)
StartMachine(t) ==
  /\ \/ phase = "boot" /\ MainFree /\ Joined(t)
     \/ MainAt("reload") /\ (JoinTimesOut \/ Joined(t))
  /\ pc[t] = "off"
  /\ lastSeq[MachineOf[t]] < MaxSeq
  /\ TakeSeq(MachineOf[t])
  /\ seq' = [seq EXCEPT ![t] = NextSeq(MachineOf[t])]
  /\ gaveUp' = IF Joined(t) THEN gaveUp \ {MachineOf[t]}
                           ELSE gaveUp \cup {MachineOf[t]}
  /\ Goto(t, "announce")
  /\ UNCHANGED <<phase, stopEvt, exporters, lock, pos, batch, staged, accepted,
                 history, boots, faults>>

(* emit(): Engine.process takes a seq before anything can fail.            *)
Emit(t) ==
  /\ pc[t] = "idle"
  /\ lastSeq[MachineOf[t]] < MaxSeq
  /\ TakeSeq(MachineOf[t])
  /\ seq' = [seq EXCEPT ![t] = NextSeq(MachineOf[t])]
  /\ Goto(t, "stamped")
  /\ UNCHANGED <<phase, stopEvt, exporters, gaveUp, lock, pos, batch, staged,
                 accepted, history, boots, faults>>

Processing(t) == pc[t] \in {"announce", "stamped"}

(* Mutation: emit() leaves the draining to a later emit().                 *)
AfterProcess_NoDrain(t) == Goto(t, "idle")

(* After process() returns, emit() drains; start_machine starts the thread *)
(* and does not drain.                                                     *)
AfterProcess(t) == Goto(t, IF pc[t] = "announce" THEN "idle" ELSE "wait")

(* The envelope is valid and is buffered.                                  *)
Buffer(t) ==
  LET m == MachineOf[t]
      via == IF pc[t] = "announce" THEN phase ELSE "emit"
  IN  /\ Processing(t)
      /\ AppendRow(m, seq[t], via)
      /\ history' = history \cup {NewRow(m, seq[t], via)}
      /\ seq' = [seq EXCEPT ![t] = 0]
      /\ AfterProcess(t)
      /\ UNCHANGED <<phase, stopEvt, exporters, gaveUp, lock, pos, batch,
                     staged, accepted, boots, faults>>

(* make_envelope raised ValueError, or validation found errors: the body   *)
(* is dead-lettered and its seq stays a gap.                               *)
DeadLetter(t) ==
  /\ Processing(t)
  /\ DeadLetterRow(MachineOf[t])
  /\ seq' = [seq EXCEPT ![t] = 0]
  /\ AfterProcess(t)
  /\ UNCHANGED <<phase, stopEvt, exporters, gaveUp, lock, pos, batch, staged,
                 accepted, history, boots, faults>>

(* Any other exception escapes process(): a full disk, a locked database.  *)
(* _supervise calls start() again or gives up; start_machine returns False *)
(* and starts no thread.                                                   *)
ProcessRaises(t) ==
  /\ Processing(t)
  /\ faults < MaxFaults
  /\ faults' = faults + 1
  /\ seq' = [seq EXCEPT ![t] = 0]
  /\ \E place \in IF pc[t] = "announce" THEN {"off"} ELSE {"idle", "off"} :
       Goto(t, place)
  /\ UNCHANGED <<storeVars, phase, stopEvt, exporters, gaveUp, lock, pos,
                 batch, staged, accepted, history, boots>>

-----------------------------------------------------------------------------
(* drain(): the exporters one after the other, under the drain lock.       *)

(* Mutation: drain() without its lock.                                     *)
LockFree_NoLock == TRUE

LockFree == lock = NoThread

Acquire(t) ==
  /\ pc[t] = "wait"
  /\ LockFree
  /\ lock' = t
  /\ pos' = [pos EXCEPT ![t] = 1]
  /\ Goto(t, "read")
  /\ UNCHANGED <<storeVars, phase, stopEvt, exporters, gaveUp, seq, batch,
                 staged, accepted, history, boots, faults>>

(* The end of drain(), by return or by exception.                          *)
Release(t) ==
  /\ lock' = NoThread
  /\ pos' = [pos EXCEPT ![t] = 0]
  /\ batch' = [batch EXCEPT ![t] = {}]

(* Mutation: the loop over the exporters runs once too often.              *)
HasNext_OffByOne(t) == pos[t] <= Len(exporters)

HasNext(t) == pos[t] < Len(exporters)

(* pending() returned nothing: the next exporter's turn, or the end.       *)
NextExporter(t) ==
  /\ pc[t] = "read"
  /\ After(NameOf[Target(t)]) = {}
  /\ IF HasNext(t)
       THEN /\ pos' = [pos EXCEPT ![t] = @ + 1]
            /\ UNCHANGED <<pc, lock, batch>>
       ELSE Release(t) /\ Goto(t, "idle")
  /\ UNCHANGED <<storeVars, phase, stopEvt, exporters, gaveUp, seq, staged,
                 accepted, history, boots, faults>>

Read(t) ==
  /\ pc[t] = "read"
  /\ \E b \in Pending(NameOf[Target(t)]) \ {{}} : batch' = [batch EXCEPT ![t] = b]
  /\ Goto(t, "publish")
  /\ UNCHANGED <<storeVars, phase, stopEvt, exporters, gaveUp, seq, lock, pos,
                 staged, accepted, history, boots, faults>>

Accept(d, rows) == accepted' = [accepted EXCEPT ![d] = @ \cup rows]

(* MqttExporter.publish returned: the broker has acknowledged the message. *)
PublishDirect(t) ==
  LET d == Target(t)
  IN  /\ pc[t] = "publish"
      /\ d \in Direct
      /\ \E r \in batch[t] : IsOldest(r, batch[t]) /\ Accept(d, {r})
      /\ Goto(t, "ack")
      /\ UNCHANGED <<storeVars, phase, stopEvt, exporters, gaveUp, seq, lock,
                     pos, batch, staged, history, boots, faults>>

(* StdoutExporter.publish returned: the line is in sys.stdout's buffer,    *)
(* which write() passes on only when it is full.                           *)
PublishBuffered(t) ==
  LET d == Target(t)
  IN  /\ pc[t] = "publish"
      /\ d \in Buffered
      /\ \E r \in batch[t] :
           /\ IsOldest(r, batch[t])
           /\ \/ /\ staged' = [staged EXCEPT ![d] = @ \cup {r}]
                 /\ UNCHANGED accepted
              \/ /\ Accept(d, staged[d] \cup {r})
                 /\ staged' = [staged EXCEPT ![d] = {}]
      /\ Goto(t, "ack")
      /\ UNCHANGED <<storeVars, phase, stopEvt, exporters, gaveUp, seq, lock,
                     pos, batch, history, boots, faults>>

(* Mutation: the cursor is written once per batch, after its last row.     *)
RowsToAck_LastOnly(t) == {r \in batch[t] : batch[t] = {r}}

(* The row that publish() has just returned for.                           *)
RowsToAck(t) == batch[t]

(* store.ack: the cursor moves to the row, and the loop goes on.           *)
Ack(t) ==
  /\ pc[t] = "ack"
  /\ \E r \in batch[t] :
       /\ IsOldest(r, batch[t])
       /\ IF r \in RowsToAck(t)
            THEN AckRow(NameOf[Target(t)], r.row)
            ELSE UNCHANGED storeVars
       /\ batch' = [batch EXCEPT ![t] = @ \ {r}]
       /\ Goto(t, IF batch[t] = {r} THEN "read" ELSE "publish")
  /\ UNCHANGED <<phase, stopEvt, exporters, gaveUp, seq, lock, pos, staged,
                 accepted, history, boots, faults>>

(* ExporterClosed: the pipe's reader is gone, and with it what the text    *)
(* buffer holds.  The whole gateway is told to stop.                       *)
Closed(t) ==
  LET d == Target(t)
  IN  /\ pc[t] = "publish"
      /\ d \in Buffered
      /\ faults < MaxFaults
      /\ faults' = faults + 1
      /\ stopEvt' = TRUE
      /\ staged' = [staged EXCEPT ![d] = {}]
      /\ Release(t)
      /\ Goto(t, "idle")
      /\ UNCHANGED <<storeVars, phase, exporters, gaveUp, seq, accepted,
                     history, boots>>

(* Something else was raised: wait_for_publish without a connection, a     *)
(* full disk under ack().  At "ack" the broker may be said to have taken a *)
(* message whose publish() raised.  In an adapter's thread the exception   *)
(* leaves start(), and _supervise retries or gives up; in the main thread  *)
(* it ends the process.                                                    *)
DrainRaises(t) ==
  /\ pc[t] \in {"read", "publish", "ack"}
  /\ faults < MaxFaults
  /\ faults' = faults + 1
  /\ IF t = Main
       THEN ProcessGone
       ELSE /\ Release(t)
            /\ \E place \in {"idle", "off"} : Goto(t, place)
            /\ UNCHANGED <<phase, stopEvt, exporters, gaveUp, seq, staged>>
  /\ UNCHANGED <<storeVars, accepted, history, boots>>

-----------------------------------------------------------------------------
(* start() returned, or _supervise saw stop_evt: the thread ends.          *)
Quit(t) ==
  /\ t \in Emitters
  /\ pc[t] = "idle"
  /\ Goto(t, "off")
  /\ UNCHANGED <<storeVars, phase, stopEvt, exporters, gaveUp, seq, lock, pos,
                 batch, staged, accepted, history, boots, faults>>

(* Every machine was started or has failed its probe: the startup drain.   *)
StartupDrain ==
  /\ phase = "boot"
  /\ MainFree
  /\ phase' = "run"
  /\ Goto(Main, "wait")
  /\ UNCHANGED <<storeVars, stopEvt, exporters, gaveUp, seq, lock, pos, batch,
                 staged, accepted, history, boots, faults>>

(* The main loop wakes and sees no stop: it reloads if SIGHUP asked for    *)
(* it, and prunes otherwise.  stop_evt may be set while it does so.        *)
Tick ==
  /\ phase = "run"
  /\ MainFree
  /\ ~stopEvt
  /\ \E job \in {"reload", "prune"} : Goto(Main, job)
  /\ UNCHANGED <<storeVars, phase, stopEvt, exporters, gaveUp, seq, lock, pos,
                 batch, staged, accepted, history, boots, faults>>

(* apply_reload has started what it had to start.                          *)
Reloaded ==
  /\ MainAt("reload")
  /\ Goto(Main, "idle")
  /\ UNCHANGED <<storeVars, phase, stopEvt, exporters, gaveUp, seq, lock, pos,
                 batch, staged, accepted, history, boots, faults>>

(* Retention, with the names of the exporters built at startup.            *)
Prune ==
  /\ MainAt("prune")
  /\ PruneRows(ConfiguredNames)
  /\ Goto(Main, "idle")
  /\ UNCHANGED <<phase, stopEvt, exporters, gaveUp, seq, lock, pos, batch,
                 staged, accepted, history, boots, faults>>

(* The duration is over, a key was pressed, or stop_evt is set: every      *)
(* machine is stopped and joined, then the last drain.                     *)
Shutdown ==
  /\ phase = "run"
  /\ MainFree
  /\ stopEvt \/ boots < MaxBoots
  /\ JoinTimesOut \/ \A t \in Emitters : pc[t] = "off"
  /\ phase' = "stopping"
  /\ Goto(Main, "wait")
  /\ UNCHANGED <<storeVars, stopEvt, exporters, gaveUp, seq, lock, pos, batch,
                 staged, accepted, history, boots, faults>>

(* store.close(), and the flush of sys.stdout at exit; threads that were   *)
(* not joined are daemons and die with the process.                        *)
Exit ==
  /\ phase = "stopping"
  /\ pc[Main] = "idle"
  /\ accepted' = [d \in Destinations |->
                    IF d \in Buffered THEN accepted[d] \cup staged[d] ELSE accepted[d]]
  /\ ProcessGone
  /\ UNCHANGED <<storeVars, history, boots, faults>>

(* Power loss, SIGKILL, or SIGTERM, which the gateway does not handle.     *)
Crash ==
  /\ phase # "down"
  /\ boots < MaxBoots
  /\ ProcessGone
  /\ UNCHANGED <<storeVars, accepted, history, boots, faults>>

-----------------------------------------------------------------------------
EmitterStep(t) ==
  \/ StartMachine(t) \/ Emit(t) \/ Quit(t)
  \/ Buffer(t) \/ DeadLetter(t) \/ ProcessRaises(t)

DrainStep(t) ==
  \/ Acquire(t) \/ NextExporter(t) \/ Read(t)
  \/ PublishDirect(t) \/ PublishBuffered(t) \/ Ack(t)
  \/ Closed(t) \/ DrainRaises(t)

MainStep ==
  Boot \/ StartupDrain \/ Tick \/ Reloaded \/ Prune \/ Shutdown \/ Exit \/ Crash

Next ==
  \/ \E t \in Emitters : EmitterStep(t)
  \/ \E t \in Threads : DrainStep(t)
  \/ MainStep

Spec == Init /\ [][Next]_vars

(* Threads are scheduled and a free lock is not withheld for ever from one *)
(* that waits; databases and destinations answer; the service is started   *)
(* again after it ends, by its manager after a failure and by whoever      *)
(* stopped it after a clean exit; a stop that was asked for is carried     *)
(* out.  Nothing makes an adapter emit, a machine start, or retention run. *)
Fairness ==
  /\ \A t \in Emitters : WF_vars(Buffer(t) \/ DeadLetter(t) \/ ProcessRaises(t))
  /\ \A t \in Threads :
       /\ SF_vars(Acquire(t))
       /\ WF_vars(\/ NextExporter(t) \/ Read(t) \/ Ack(t)
                  \/ PublishDirect(t) \/ PublishBuffered(t))
  /\ WF_vars(Boot) /\ WF_vars(StartupDrain) /\ WF_vars(Exit)
  /\ WF_vars(Reloaded) /\ WF_vars(Prune)
  /\ WF_vars(stopEvt /\ Shutdown)

FairSpec == Spec /\ Fairness

-----------------------------------------------------------------------------
(* spec section 3 and store.py 3-6: a (machine, seq) key is never given to *)
(* two envelopes, through crashes, dead letters, pruning and two threads   *)
(* on one machine; consumers take an equal key for a redelivery.           *)
KeysUnique ==
  \A r1, r2 \in history :
    r1.machine = r2.machine /\ r1.seq = r2.seq => r1 = r2

(* base.py 3-5: what is still stored below an exporter's cursor, every     *)
(* destination behind that cursor has, when publish() answers for it.      *)
AckedIsDelivered ==
  \A d \in Direct : \A r \in buffer :
    r.row <= cursors[NameOf[d]] => r \in accepted[d]

(* drain() acks row by row: of the rows still stored, at most one was      *)
(* accepted and not acknowledged, so a crash redelivers at most one row to *)
(* each destination.                                                       *)
DuplicateWindow ==
  \A d \in Direct : \A r1, r2 \in accepted[d] \cap buffer :
    r1.row > cursors[NameOf[d]] /\ r2.row > cursors[NameOf[d]] => r1 = r2

(* platform-ingestion.md 64: "gateways replay after outages in seq order   *)
(* per machine".  The rows of one machine enter the buffer, and so leave   *)
(* it, in the order of their seq.                                          *)
SeqOrder ==
  \A r1, r2 \in history :
    r1.machine = r2.machine /\ r1.row < r2.row => r1.seq < r2.seq

(* The order that the code does keep: an envelope is buffered after one of *)
(* its machine with a later seq only where the machine's last reload gave  *)
(* up on the old thread (cli.py 425), so that two threads of the machine   *)
(* may be at work.                                                         *)
LateOnlyAfterGivingUp ==
  [][\A r \in history' \ history, o \in history :
       r.machine = o.machine /\ r.seq < o.seq => r.machine \in gaveUp]_vars

(* test_engine.py 48-49, "a visible gap, never a silent reuse": in a       *)
(* process's first life, while nothing was raised, a seq that is in no envelope is *)
(* in a dead letter or still in a thread's hands.                          *)
GapsAreDeadLetters ==
  boots = 1 /\ phase # "down" /\ faults = 0 =>
    \A m \in Machines :
      lastSeq[m] = Cardinality({r \in history : r.machine = m}) + dead[m]
                   + Cardinality({t \in Emitters : MachineOf[t] = m /\ seq[t] > 0})

(* store.py 134-138: a row that retention deletes was delivered to every   *)
(* destination configured at that moment.                                  *)
PruneOnlyDelivered ==
  [][\A r \in buffer \ buffer' : \A d \in Configured \ Buffered :
       r \in accepted[d]]_vars

(* No step moves an exporter's cursor back over rows it has passed.  The   *)
(* drain lock is all that stands between two drains of one batch.          *)
CursorMonotone == [][\A n \in Names : cursors'[n] >= cursors[n]]_vars

(* The gateway keeps the contract of DeliveryContract towards the          *)
(* destinations whose publish() is answered by the destination.            *)
Contract == INSTANCE DeliveryContract WITH
  Destinations <- Direct,
  stored <- buffer,
  issued <- history,
  got <- [d \in Direct |-> accepted[d]],
  required <- Configured \ Buffered

ImplementsContract == Contract!Spec

(* system-architecture.md 38, "replays on reconnect with no data loss": an *)
(* envelope an adapter emitted, or that was announced at startup, reaches  *)
(* every destination that is in the registry at every start, whatever      *)
(* crashes come between.  Announcements made by a reload are left out:     *)
(* start_machine does not drain, and they wait for some adapter's next     *)
(* emit().                                                                 *)
EverConfigured ==
  {d \in Direct : \A c \in Configs : \E i \in DOMAIN c : c[i] = d}

Has(rows, m, s) ==
  \E r \in rows : r.machine = m /\ r.seq = s /\ r.via # "run"

EmittedIsDelivered ==
  \A m \in Machines, s \in 1 .. MaxSeq, d \in EverConfigured :
    Has(history, m, s) ~> Has(accepted[d], m, s)

-----------------------------------------------------------------------------
(* The inductive invariant that GatewayPipelineProofs rests on.            *)
Draining(t) == pc[t] \in {"read", "publish", "ack"}

(* The exporters of any one registry, and of successive ones, are told     *)
(* apart by their names.                                                   *)
NamesDistinct ==
  \A d1, d2 \in Destinations : NameOf[d1] = NameOf[d2] => d1 = d2

(* A dead process has no threads.                                          *)
DownIsQuiet ==
  phase = "down" => \A t \in Threads : pc[t] = "off"

(* A process that is up has an exporter; a thread has a place in the list  *)
(* of them exactly while it drains, and a seq while it builds an envelope. *)
Control ==
  /\ phase # "down" => Len(exporters) > 0
  /\ DownIsQuiet
  /\ \A t \in Threads : IF Draining(t) THEN pos[t] > 0 ELSE pos[t] = 0
  /\ \A t \in Emitters : Processing(t) => seq[t] > 0
  /\ \A t \in Emitters : pc[t] = "announce" => phase \in {"boot", "run"}
  /\ pc[Main] \in {"reload", "prune"} => phase = "run"

(* Only the lock's holder is inside the drain loop.                        *)
DrainExclusive == \A t \in Threads : Draining(t) => lock = t

(* Rowids and seqs are bounded by the counters they were taken from.       *)
RowsNumbered ==
  /\ buffer \subseteq history
  /\ \A r \in history : r.row <= lastRow /\ r.seq <= lastSeq[r.machine]
  /\ \A r1, r2 \in history : r1.row = r2.row => r1 = r2

(* A seq in a thread's hands is in no row and in no other thread's hands.  *)
StampsFresh ==
  \A t \in Emitters : Processing(t) =>
    /\ seq[t] <= lastSeq[MachineOf[t]]
    /\ \A r \in history : r.machine = MachineOf[t] => r.seq # seq[t]
    /\ \A o \in Emitters :
         o # t /\ Processing(o) /\ MachineOf[o] = MachineOf[t] => seq[o] # seq[t]

(* A cursor never runs ahead of the rows: a new row is past all of them.   *)
CursorsBehind == \A n \in Names : cursors[n] <= lastRow

(* The batch of a draining thread is a prefix of what is past the cursor,  *)
(* and before the ack its oldest row has been accepted.                    *)
BatchIsNext ==
  \A t \in Threads : pc[t] \in {"publish", "ack"} =>
    LET next == After(NameOf[Target(t)])
    IN  /\ batch[t] # {}
        /\ batch[t] \subseteq next
        /\ \A r \in batch[t], o \in next \ batch[t] : r.row < o.row
        /\ pc[t] = "ack" /\ Target(t) \in Direct =>
             \A r \in batch[t] : IsOldest(r, batch[t]) => r \in accepted[Target(t)]

IInv ==
  /\ TypeOK /\ Control /\ DrainExclusive /\ RowsNumbered
  /\ StampsFresh /\ KeysUnique /\ BatchIsNext /\ CursorsBehind
  /\ NamesDistinct => AckedIsDelivered
=============================================================================
