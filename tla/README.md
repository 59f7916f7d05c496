# TLA+ models of the Open Machine Protocol

Modules, TLC configurations and machine-checked proofs for the code under
`src/` (the OMP gateway in `gateway/`, its adapters in `adapters/`, the
retrofit firmware, the tools and the reference consumer).  Line numbers below
are lines of those files.

    tlc -config Pipeline_handover.cfg MCGatewayPipeline.tla
    tlc -config Daemon_reloads.cfg MCGatewayDaemon.tla
    tlc -config Evidence_chain.cfg MCEvidenceChain.tla
    tlc -config Adapters_polling.cfg MCAdapters.tla
    tlc -config Retrofit_node.cfg MCRetrofitNode.tla
    tlapm GatewayContractProofs.tla
    tlapm AdaptersProofs.tla
    tlapm EvidenceChainProofs.tla
    tlapm RetrofitNodeProofs.tla

## 1. The system

A gateway is one Python process.  One adapter thread per machine calls
`emit(body)`; the engine numbers, builds, validates and buffers an envelope in
SQLite; the same thread then drains the buffer to every exporter.  Consumers
deduplicate on `(gateway_id, machine_id, seq)`.

| Component | State | Operations | Interacts with |
|---|---|---|---|
| Store (`gateway/omp/core/store.py`) | tables `seq_counters`, `buffer`, `exporter_cursors`, `dead_letters`, `prune_log`; a lock | `next_seq`, `append`, `pending`, `ack`, `prune`, `dead_letter`, snapshots | called by all threads |
| Engine (`core/engine.py`) | none of its own | `process`: seq, envelope, signature, validation, append or dead-letter | Store, Validation, keys |
| Exporters (`exporters/base.py`, `mqtt.py`) | a name, a connection or a stream | `publish`, `drain` | Store; brokers, pipes |
| Daemon (`cli.py` `cmd_run`) | `running`, `stop_evt`, `reload_requested`, `drain_lock`, pidfile | start, supervise, stop, reload, tick, shutdown | everything above |
| Adapter base (`adapter.py`) | health state, last data time, crash count | `_mark_*`, `backoff`, `health` | supervisor, adapters |
| Adapters `generic-modbus`, `generic-serial`, `retrofit-esp32` | stop event, statistics windows, last readings | `probe`, `start`, `stop` | devices, `emit` |
| Firmware (`retrofit/esp32-ct-clamp/firmware/src/main.cpp`) | ring of readings, MQTT session, `dropped` | `setup`, `loop`, `emitOrBuffer`, `mqttEnsure` | retrofit adapter, over MQTT |
| Keys and identity (`core/keys.py`, `cli.py`) | key file, `gateway_id` file | generate, load, sign | Engine |
| Registry (`core/registry.py`) | a YAML file | `load_registry` | Daemon |
| Validation (`tools/omp_tools/envelope.py`, `validate.py`, `specload.py`) | the loaded spec | `make_envelope`, `validate_envelope` | Engine, CLI tools |
| Audit (`tools/omp_tools/audit.py`, `sigverify.py`) | none | `audit_bundle` and its checks | evidence bundles |
| Consumer (`examples/platform-ingest-reference/ingest.py`) | SQLite: envelopes, quarantine, projection | `ingest_line`, `gaps`, `report` | exporters' output |
| Simulator (`tools/omp_tools/simulate.py`) | simulated time, a machine's seq | `announce`, `run_cyclic_machine`, `run_dye_machine`, `corrupt` | consumers, over stdout or MQTT |
| Sniffer, vector generators | none that outlives a call | | |

What is hard in it:

- **Interleaving.**  Every adapter thread runs `process` and `drain`; the main
  thread drains, prunes and reloads meanwhile.  The store is locked per method,
  not per `process`; `drain` has a lock of its own; `prune` has none but the
  store's.
- **Crashes.**  The seq is committed before the envelope exists; an envelope is
  published before it is acknowledged; the process may be killed anywhere and
  is started again, with a registry that may have changed.
- **Ordering.**  A reload replaces a machine's thread and may give up joining
  the old one; the firmware and the consumers reorder on their own.
- **Failure in the middle.**  One exporter's exception ends the drain for all,
  and ends the adapter's `start()`, or the process.
- **Timing.**  Probe and join timeouts, the backoff, a broker that never
  answers, a wall clock that steps.

What makes each correct:

- Store and engine: a `(machine, seq)` key is given to one envelope; a gap is
  explained; a rowid is never given out again.
- Exporters and drain: what a cursor has passed was delivered; a crash repeats
  at most the row in flight; a cursor never moves back; order per machine.
- Retention: nothing undelivered is deleted.
- Daemon: a stop is obeyed, a refused reload changes nothing, untouched
  machines keep streaming, a crash-looping adapter ends as failed.
- Firmware and retrofit adapter: every reading is delivered, held, or counted
  as dropped; they come out in order and not more than once; losses show.
- Polling adapters: a value belongs to the register and the poll it is reported
  for; what a register went through is told without a break; every sample is in
  one block; health says what happened.
- Consumer: nothing valid is swallowed, nothing stored changes, and the
  projections are those of what is stored, whatever the order, the repetitions
  and the kills; gaps are exact.
- Audit: an honest run that arrived in full passes, a false summary does not,
  and every auditor of one run computes the same citation.

## 2. The modules

### GatewayStore

The tables as variables, one operator per method.  Each method holds the
store's lock and runs in one transaction, so each is one atomic step and what
it did survives a crash (`WAL`, `synchronous=FULL`).

- `buffer` is a set of rows `[row, machine, seq, via]`; the envelope's content
  is its key.  `via` says who had it built (an adapter, an announcement at
  startup, one of a reload); only the liveness property reads it.
- `lastRow` is SQLite's `AUTOINCREMENT` memory.
- `Pending(n)` is the singleton of the batch that `pending()` returns:
  the oldest rows past the cursor, at most `BatchSize`.
- `PruneRows` lets `prune()` delete any subset of the rows no cursor still
  needs.  Which of them the age rule or the disk rule takes depends on a wall
  clock and on page counts that are left out: all answers are explored.
- `dead` counts dead letters per machine.

### GatewayPipeline

`cmd_run`'s threads over that store.  `pc[t]` is where thread `t` is:

| `pc` | place in the code |
|---|---|
| `off` | thread not started, or ended |
| `idle` | inside the adapter between two `emit()`s; for `Main`, between two things |
| `announce` | in `start_machine`, after `next_seq`, before `append` or `dead_letter` (`cli.py` 390, `engine.py` 43-65); it is the main thread that is there |
| `stamped` | in `emit()`, the same place |
| `wait` | at `with drain_lock` (`cli.py` 372) |
| `read` | before `store.pending` (`base.py` 29) |
| `publish` | before `self.publish` (`base.py` 33) |
| `ack` | after it, before `store.ack` (`base.py` 34) |
| `reload`, `prune` | `Main` only: in the body of the main loop, after it saw no stop |

| Action | Code |
|---|---|
| `Boot` | `cmd_run` up to the exporters; they are built once per process |
| `StartMachine` | the loop of 468 and `apply_reload`: probe, `process` of the announcement |
| `Emit`, `Buffer`, `DeadLetter`, `ProcessRaises` | `Engine.process` and what follows it in `emit` |
| `Acquire`, `NextExporter`, `Read`, `PublishDirect`, `PublishBuffered`, `Ack` | `drain` |
| `Closed`, `DrainRaises` | `ExporterClosed`; any other exception in the loop |
| `Quit` | the adapter's thread ends |
| `StartupDrain`, `Tick`, `Reloaded`, `Prune`, `Shutdown`, `Exit` | the main thread |
| `Crash` | the process is killed |

A destination is *direct* when `publish()` returns only after it has the
envelope: MQTT with QoS 1 and `wait_for_publish`, or a stdout that is flushed at
every line.  It is *buffered* when `publish()` writes to `sys.stdout`'s text
buffer in front of a pipe: `staged` is that buffer, which the process may pass
on at any write and loses when it is killed.

`JoinTimesOut` says whether `stop_machine`'s `join(timeout=10)` may expire.
When it may, an old and a new thread of one machine run at once; `gaveUp`
(history) has the machines whose last reload gave up on a thread.

`history` (every row ever appended) and `accepted` (what each destination has)
are not in the gateway: the first remembers what the database forgets, the
second is the outside world.

### DeliveryContract

The abstract specification: rows enter with fresh keys and after all earlier
rows; a destination is given rows oldest first; a row is deleted only when
every configured destination has it; a restart may change which are
configured.  `GatewayPipeline` implements it under the mapping `stored <-
buffer`, `issued <- history`, `got <-` the direct part of `accepted`,
`required <-` the direct destinations now configured.  Redelivery is a
stuttering step of the contract.

### GatewayDaemon

The same process seen from supervision: which machine has which adapter object
and thread, and what a reload, a stop or a crash does to them.  Envelopes are
left to `GatewayPipeline`; here `emit()` matters when it holds the drain lock,
finds a closed destination or raises.

| Variable | Code |
|---|---|
| `file`, `reloaded`, `edits` | the registry file; whether the operator has run `omp-gateway reload` since the last edit |
| `sighup`, `stopEvt` | the events `reload_requested`, `stop_evt` |
| `main` | where `cmd_run` is: `starting` (468-469), `startup_drain` (471), `tick` (the wait, 482), `loading` (`apply_reload` to 456), `applying` (457-463), `stopping` (497-498), `last_drain` (499), `down`; `raised`: an exception left it |
| `todo` | what is left of `removed`, `changed`, `added`, or of the loops at 468 and 497 |
| `joining` | the thread in `join(timeout=10)` |
| `wanted` | the registry accepted last |
| `running` | the dict: machine -> adapter object |
| `unprobed` | machines whose last probe failed (the code only prints it) |
| `of`, `spec`, `where`, `ev`, `crashes` | per adapter object: its machine, its entry, where its thread is in `_supervise`, its event `_stop` (`none` until `start()` makes it), the crash count |
| `lock` | who is in `with drain_lock`: a thread, or the main thread |

`where` is `new` before the first look at `stop_evt`, `enter` before `start()`
has made its event, `in` inside `start()`, `drain` in `emit()` with the drain lock, `retry` in `stop_evt.wait(delay)`,
`done` or `failed` after the thread ended.

| Action | Code |
|---|---|
| `Edit`, `Reload` | the operator; `cmd_reload` and the SIGHUP handler |
| `Wake`, `Load` | the main loop's test and `clear()`; `apply_reload` up to the three lists |
| `StopMachine`, `Join` | `stop_machine` before and after the join |
| `ProbeFails`, `Launch` | `start_machine` |
| `Finished`, `Shutdown`, `Interrupt`, `Killed` | the ends of startup, reload and shutdown; `stop_evt`; `--duration` and KeyboardInterrupt; signals that end the process |
| `MainLocks`, `MainDrained` | the drains of the main thread, at startup and after the last join |
| `Supervise`, `Enter`, `Returns`, `Crashes` | the adapter's thread: `_supervise`, `start()` |
| `DrainBegins`, `DrainEnds`, `DestinationGone` | its `emit()`: the drain, which may meet a closed destination |

All three adapters make their event as the first thing in `start()` and set it
in `stop()`; what they do in between is not modelled: a thread inside `start()`
may return or raise at any time, stopped or not.  `SlowStop` says whether a
stopped one may take more than ten seconds; a drain has no limit at all.  Adapter objects that nothing
refers to are used again, so that `MaxInstances` need only cover the threads
alive at once; in every run it is large enough that no start waits for one.

### Envelopes, BundleAudit

Pure operators.  An envelope is a record; its checksum is the body it was
computed from and its signature names the key and what it covers, so both are
perfect.  `strict` stands for everything JSON Schema decides.  `ValidEnvelope`
is `validate_envelope` in its two readings: strict for gateways and auditors,
`forward` for consumers, who accept the vocabulary of a later profile.

A bundle is a function from line numbers to envelopes.  `Completeness`,
`Integrity`, `Authenticity`, `Consistency` and `Conformance` are the five
checks, each `"true"`, `"false"` or `"none"`; consistency is built from its
three comparisons.  `RecordsHash` is the set of cited seqs with their
checksums, which is what the digest determines.

### Simulator, Consumer, EvidenceChain

`Simulator` is one machine of `omp-simulate`: `place` is where
`run_cyclic_machine` or `run_dye_machine` is, `out` what was written.

`Consumer` is `ingest_line` statement by statement: `stage` is the next
statement, `work` the tables as the open transaction sees them, `db` as the
file has them.  `Kill` rolls back.  `ingested` is history.  `ConsumerSpec` puts
no condition on the lines that come; the proofs use it.

`EvidenceChain` composes the two with a transport (`Deliver` takes any envelope
that is not stored yet, in any order; `DeliverFaulty` brings noise, a
repetition, a corrupted copy, one whose header was rewritten outside what
checksum and signature cover, or another summary) and with the auditor, who
looks at the machine's rows in `db` in every state.  `Sealed` is the gateway's
signature, which covers what is sent after the key was made.  `omp-simulate`
itself signs nothing; in the chain it stands for an adapter whose bodies a
gateway numbers and signs (`engine.py` 55-58).

### AdapterBase, ModbusProtocol, ModbusPoller, SerialReader, Adapters

`AdapterBase` has `_HealthState`, the backoff and the statistics windows.
Values are integers in tenths, so that a scale of 0.1 has an effect.  `now` is
the monotonic clock, which opens and closes windows.  The stamps `start_ts` and
`end_ts` come from the wall clock, which may step; they are left out, and no
property speaks of them.  `emit()` may raise before or after it took a body,
also in the flush at the end of `start()`, which stands outside every `try`:
what it refused is lost with its samples.

`ModbusProtocol` is `protocol.py`.  A reply on the wire is two pieces, a head
with transaction id and function code and a tail: enough for a reply that is
split, late, or followed by another.  `ModbusPoller` is `start()`: `place` is
`connect`, `request` (before the write), `reply` (before the read), `wait`,
`done` or `crashed`; `onway` are the pieces that have not arrived, `wire` those that are in
the receive buffer.  TCP reads whatever is there; RTU empties the buffer before
a request and reads what came until the timeout; `Late` is a reply, or the
rest of one, that comes after the read.  A device may close the TCP connection
(`closed`): `recv()` then returns nothing, which is a `ModbusError`, so that the
poll is spoilt and the dead transport is kept until a write or a read raises.
`untold` (history) are the registers whose last event `emit()` refused.

`SerialReader` is `_run_serial` with `_handle`: a line is read whole, or, when
`readline()` timed out, in two parts.

`Adapters` is one polling adapter of one family or the other.  `told`,
`reading` and `seen` are history.

### RingBuffer, RetrofitNode

`RingBuffer` is the array with head and count.  `RetrofitNode` is the node, the
broker and the gateway's adapter.

| Variable | Code |
|---|---|
| `pc` | where `emitOrBuffer` is: `idle` before it, `drain` in `mqttEnsure`'s loop (179), `publish` before its own publish (190) |
| `running`, `samples`, `todo` | `running`, the interval, the messages of this turn of `loop()` |
| `ring`, `dropped` | the ring, the counter |
| `conn` | the connection as the node sees it; `dead`: broken and not noticed |
| `net`, `inbox` | what the broker has not forwarded; what each client of the adapter has not read |
| `stage`, `queue` | `start()`; `self._queue` |
| `emitted`, `flags` | what was handed to `emit()` |
| `made`, `boot`, `starts`, `gone`, `overflowed`, `short`, `missed` | history |

`Written` and `NotWritten` are the two results of `mqtt.publish`.  `inbox` has
an entry for every client that any `start()` has made: the loop of an old client
looks at `self._stop`, which is the new event.

### The MC modules

`MCGatewayPipeline`, `MCGatewayDaemon`, `MCEvidenceChain`, `MCAdapters` and
`MCRetrofitNode` hold the small instances: exporter lists, registries, profiles,
register maps, a line profile, messages.

## 3. The runs

Every `Pipeline` run has two threads of one machine besides the main one, an
old one and its successor, two exporters, batches of two
rows (so that a batch is partly acknowledged, and a drain needs more than one)
and at most two starts of the process, so that every state in which a process
can die is followed by a recovery.  `MaxSeq` bounds the envelopes per machine,
`MaxFaults` the exceptions.  One machine is enough: machines share
the store, the drain lock and the exporters, and after a join that gave up its
two threads interleave as freely as those of two machines, on one counter
besides.  The theorems hold for any number of machines.  `CHECK_DEADLOCK FALSE` everywhere: when the
bounds are used up and the process is down, nothing more happens, and a gateway
whose adapters have ended rightly stops.

| Run | Question | Result |
|---|---|---|
| `handover` | a reload replaces a machine's thread after a join that may give up; MQTT and a pipe that may close; one exception; the exporter list changes at the restart; `MaxSeq` 3: `TypeOK`, `IInv`, `KeysUnique`, `GapsAreDeadLetters`, `LateOnlyAfterGivingUp`, `AckedIsDelivered`, `DuplicateWindow`, `CursorMonotone`, `PruneOnlyDelivered`, `ImplementsContract` | hold |
| `liveness` | fair scheduling, one crash or shutdown, two threads on one machine, `MaxSeq` 3: `EmittedIsDelivered` | holds |
| `reloads` | two machines, registries of every kind, one edit, two crashes: `TypeOK`, `Applied`, `NotLost`, `FailedIsLeftAlone`, `EscapedHaveCrashed`, `StoppedForCause` | hold |
| `daemon_liveness` | adapters that never return, drains that hold the lock: `StopIsObeyed`, `ReloadIsTaken` | hold |
| `evidence` | a run from the machine to the citation: what the consumer keeps (`NothingSwallowed`, `FirstWins`, `ProjectionFromRaw`, `OnlyIssuedStored`, `Converges`), what the checks say (`GapsAgree`, `SameCitation`, `HonestPasses`, `FalseClaimsFail`, `SignedIsIssued`) | hold |
| `polling` | both families of polling adapters: `HealthHonest`, `ConversionsAgree`, `SamplesCounted`, `BlocksSane`, `Attribution`, `StoryUnbroken` | hold |
| `retrofit` | node, broker and adapter: `Accounted`, `OrderKept`, `CopiesBounded`, `DropsSurfaced` | hold |
| `late_thread` | a join that gives up: `SeqOrder` | violated |
| `shared_name` | two MQTT exporters: `AckedIsDelivered` | violated |
| `lost_stop` | an adapter that is retried: `Owned` | violated |
| `unsupported_claim` | a sewing run's summary with a phase: `ConsistentIsDerivable` | violated |
| `overtaking` | a publish that fails in the replay: `RecoveredFirst` | violated |

Why the bounds are enough: the properties relate at most two rows, two threads
and one exporter at a time; three envelopes on one machine give an
acknowledged, an in-flight and a new row together, and pruning of the first
while the second is in a batch; a second start is needed for the recovery, and
no property tells a third apart.  The unbounded claims are the theorems.

`reloads` has two machines because the order of stops and starts, and what a
reload leaves untouched, need two: its registries give `m1` either of two
entries and may leave `m2` out, so that an entry is added, changed and removed
beside another.  One edit is enough, since reload signals are without bound and
the edit can fall anywhere into the reload of the first registry; two crashes
give a retry and a failure.  The other daemon runs have one machine and all
registries over two entries; `lost_stop` two edits, `daemon_liveness` one.

`evidence`: a sewing machine with at most one cycle, a stop and two meter readings,
or a dye batch of one phase whose profile at hand is older than the producer's;
signing from the first or the fourth seq, so that a run is signed in whole, in
part (the first or the last part stored) or as far as stored; all orders of
arrival; one fault, which is enough to put a contradiction, a repetition, a
corruption, a rewritten header (of the fifth envelope) or a kill at every place; two meter readings, so that a total is a
sum.  `polling`: three polls with two faults, so that a reply can be late, split
and followed by the next register's, and a lost link can fall between two
values; a map with a state and a counter, and one with a level, a two-word
statistic and an address that is refused; samples above and below zero;
five serial lines and three mishaps give two windows, a crash and a flush.  `retrofit`: a ring of two and
four messages, so that the ring overflows, wraps and is replayed; two faults, so
that a replay is cut short and the gateway's side fails too.

The violations are disagreements between what is said and the code:

- `shared_name`: the glossary promises each exporter an independent cursor,
  but the cursor's key is the class attribute `name`.
- `lost_stop`: the lifecycle of `adapter-plugin-api.md` 121-122 has a stopped
  adapter's thread end; `_supervise` does not know of `stop()`, and a new
  `start()` makes a new event, so an adapter that crashes around its stop is
  started again and forgotten.
- `late_thread`: `platform-ingestion.md` 64 promises envelopes "in seq order per
  machine"; a join that gives up after ten seconds (`cli.py` 425) leaves a
  thread between `next_seq` and `append`, and its successor passes it.
- `unsupported_claim`: `audit.py` 137-138 says that what cannot be compared is
  "reported as not-evaluated rather than silently passing", and
  `dpp-evidence-chain.md` 88 that the summary is confirmed to be derivable; a
  list of phases where no `phase_start` is cited (153), or an energy without
  readings, is skipped, and the run passes on its bounds.
- `overtaking`: `adapter-plugin-api.md` 132 says "drain recovered history first,
  then resume live"; a publish that fails ends the replay and not the
  connection, and the next reading is published past the ring (`main.cpp` 180,
  190).

More disagreements were met while modelling.  They are visible at one place of
the code and are described here without a run:

- A bad registry at a reload: `cli.py` 439 promises that it does not take the
  floor down; `load_adapter_class` raises `SystemExit` (36, 55) for an adapter
  directory without an adapter, which `except Exception` (448) lets through.
  `Load` has the step.  `stop()` before `start()` has made its event raises
  `AttributeError` through `apply_reload` (424) and ends the gateway as well.
- A rewritten header: `dpp-evidence-chain.md` 97 promises that signed records
  "were not altered afterward"; the signature covers gateway, machine, seq and
  checksum (`sigverify.py` 13-14), so a copy with another time, profile or
  schema version verifies and is stored.  The transport of `EvidenceChain`
  makes such copies, and `SignedIsIssued` says what is attested in spite of them.
- Register numbers: `protocol.py` 24 says "4xxxx/4xxxxx -> holding, 3xxxx/3xxxxx
  -> input"; six-digit numbers past the 9999th register (410000 to 465536, 310000 to
  365536) raise `ModbusError` (33), and the poll never gets past them.
  `ConversionsAgree` fixes this refusal, which is what the code does.
- Scaled statistics: `envelope.py` 3-4 says that producers guarantee integers;
  `_Stats` cuts only the average (`adapter.py` 47).  The map printed in
  `docs/docs/getting-started/first-real-machine.md` 84-91 has such a register:
  its blocks all become dead letters.
- A pipe behind stdout loses lines that were acknowledged (`base.py` 46).

What the properties that hold leave open, so that nobody reads more into them:

- `GapsAreDeadLetters` is about the first life of a process in which nothing was
  raised.  A crash does leave a gap; `KeysUnique` says that nothing fills it.
- `Applied` excuses a machine whose probe failed (`unprobed`): it stays out until
  a later reload, and nothing but a line on stderr says so.
- `StopIsObeyed` and `ReloadIsTaken` hold if every drain ends (`DrainsEnd`).
  `wait_for_publish` has no timeout (`mqtt.py` 47): while a broker cannot be
  reached, the shutdown hangs in its last drain, and no document promises
  otherwise.
- `ProjectionFromRaw` is satisfied by any stored summary of a run: the order in
  which two of them replace each other (`ingest.py` 138) is not checked.
  `Converges` counts a key as arrived when any valid envelope of it was stored.
- `FalseClaimsFail` needs a complete bundle with its checksums in order; of the
  phases, that the machine reported some and that the summary lists some; of an
  energy, that it is not zero and that the meter was read.
- `SignedIsIssued` is about gateway, machine, seq and body of the signed
  envelopes.  Unsigned ones may stand beside them, and the rest of a header
  may have been rewritten.
- `Attribution` over RTU is the function code only.  `StoryUnbroken` leaves out a
  change whose event `emit()` refused, until the register's next one.
- `OrderKept` is about one `start()` and connections on which every publish
  succeeded or that went down; `CopiesBounded` permits one body per client left
  over by a crash; `DropsSurfaced` waits for a hello that came through, and
  losses wiped by a reboot are outside it.

### Fairness

`FairSpec` assumes that threads run (weak fairness of each step of `process`
and `drain`), that a free lock is not withheld for ever from a thread that
waits for it (strong fairness of `Acquire`: Python's lock is not fair, but its
waiters are woken), that destinations and the database answer, that the main
thread gets on with what it has begun, and that the service manager starts the
process again (`Restart=on-failure`, `cli.py` 240; after a clean exit it is an
operator who does).  Nothing is assumed of
adapters, of retention, of reloads or of an operator.  `EmittedIsDelivered` is
about destinations in the registry at every start, and leaves out
announcements of a reload: `start_machine` does not drain, so they wait for
some adapter's next envelope.

`GatewayDaemon`'s `FairSpec` assumes that the main thread runs and its timed
waits end (`wait(prune_interval)`, the probe timeout, `join(timeout=10)`), and
that a thread in `_supervise` goes on to `start()`.  Nothing is assumed of
adapters: in `daemon_liveness` they may stay in `start()` for ever.  A free drain
lock is not withheld for ever from the main thread (strong fairness of
`MainLocks`); that whoever has it gives it back is no fairness but the
hypothesis `DrainsEnd` of the two properties.

`EvidenceChain`'s `FairSpec` assumes that the simulator runs and the consumer
works (weak fairness), and that the transport, as often as the consumer is ready
for a line, brings a missing envelope in the end (strong fairness of `Deliver`:
at-least-once delivery).  Only `Converges` needs it.

## 4. The proofs

### Pipeline

`GatewayPipelineProofs` and `GatewayContractProofs`, for all values of the constants under `BatchAssumption` and `PipelineAssumption` (which say only
what the constants are):

| Theorem | Says |
|---|---|
| `TypeCorrect` | `Spec => []TypeOK` |
| `SeqNeverReused` | `Spec => []KeysUnique` |
| `CursorsNeverBack` | `Spec => CursorMonotone` |
| `AckedDelivered` | `NamesDistinct`: `Spec => []AckedIsDelivered` |
| `GatewayKeepsContract` | `NamesDistinct`: `Spec => ImplementsContract` |
| `PruneIsSafe` | `NamesDistinct`: `Spec => PruneOnlyDelivered` |
| `InvariantHolds` | `Spec => []IInv` |
| `CrashRepeatsAtMostOne` | `Spec => []DuplicateWindow` |
| `EnvelopesStayInOrder` | `Spec => LateOnlyAfterGivingUp` |
| `GapsAreExplained` | `Spec => []GapsAreDeadLetters` |

The inductive invariant is `IInv`, checked by TLC in `handover` and proved
in layers; each layer's step lemma has one step per action.

1. `TypeOK /\ Control`.  Control is needed for the type of `pos`: a thread has
   a place in the exporter list exactly while it drains, and the list does not
   change while any thread is in it (a process that is down has no threads).
2. `DrainExclusive`: only the lock's holder is in the loop.
3. `RowsNumbered`, `StampsFresh`, `KeysUnique`: no row carries a seq that a
   thread still holds, and no two threads hold the same one.  Without the part
   about threads in `process`, `KeysUnique` is not inductive: `next_seq` and
   `append` are two transactions.
4. `BatchIsNext`, `CursorsBehind`: the batch in a thread's hands is a prefix of
   what lies past its cursor, still stored, and before the ack its oldest row
   was accepted.  This is where the drain lock, the order of `prune` against the
   slowest cursor and `AUTOINCREMENT` are used.
5. `AckedIsDelivered`, where `NamesDistinct` is used: the run `shared_name`
   shows that it fails without it.

The order and the gaps add three invariants to the layers.  `AcceptedIsNext`: a
row that a destination has and its cursor does not is the first one past the
cursor; two of them are one.  `InOrder`: while a machine's last
reload has not given up on a thread, no two threads of it are alive at once, so
the seq in a thread's hands is above every buffered one.  After a join that gave
up the old thread's seq is not, and `late_thread` shows what comes of it.  `GapInv`: the counter is the sum
of the envelopes, the dead letters and the seqs in hand; `StepKinds` reduces the
proofs of both to the steps that take a seq or use one.

The refinement maps `Buffer` to `Store`, `PublishDirect` to `Deliver` (or to a
stutter when the row is a redelivery), `Prune` to `Forget`, starts and ends of
the process to `Configure`, and everything else to a stutter.

### Daemon

`GatewayDaemonProofs`, under `DaemonAssumption`, for any set of registries:

| Theorem | Says |
|---|---|
| `DaemonTypeCorrect` | `Spec => []TypeOK` |
| `RegistryIsApplied` | `Spec => []Applied` |
| `UntouchedKeepStreaming` | `Spec => StoppedForCause` |
| `ReloadNotLost` | `Spec => []NotLost` |
| `FailedStaysStopped` | `Spec => []FailedIsLeftAlone` |
| `EscapeNeedsCrash` | `~SlowStop`: `Spec => []EscapedHaveCrashed` |

`IInv` holds for slow and prompt adapters alike.  `Applied` alone is not
inductive: during a reload the machines that are not settled must be in one of
the three lists, and the lists must stay true of `running` while they are
worked off (`PlanCovers`), which needs every running adapter object to belong
to one machine (`OnePerMachine`).  `NotLost` needs the same statement during
startup and reload (`FlagFirst`).  `PromptInv` adds `Held`: a live thread that
never crashed is in `running` or is being joined, and while it is joined it is
inside `start()` with its event set, so the join cannot give up on it.  The run
`lost_stop` shows why a crash has to be excluded.  The drain lock plays no part
in the safety of supervision, only in its liveness.

### Consumer

`ConsumerProofs`, for any lines in any order and kills at any statement:

| Theorem | Says |
|---|---|
| `NothingIsSwallowed` | `ConsumerSpec => []NothingSwallowed` |
| `ProjectionsFollowRaw` | `ConsumerSpec => []ProjectionFromRaw` |
| `RawIsImmutable` | `ConsumerSpec => FirstWins` |

The inductive invariant says at each stage how `work` differs from `db`: not at
`read`; by one stored row that is not projected at `project`; by a finished
line at `commit`.  Without it a kill between two statements could not be told
from one after the commit.

### Retrofit node

`RingBufferProofs` and `RetrofitNodeProofs`, for any capacity of the ring, any number of messages and any number of faults, under
`RingAssumption` and `NodeAssumption` (what the constants are: the capacity is
positive, a message is an event or an energy reading with a number):

| Theorem | Says |
|---|---|
| `RingIsQueue` | `Pushed` appends to the contents, without the oldest when the ring is full |
| `NodeTypeCorrect` | `Spec => []TypeOK` |
| `ReadingsStayInOrder` | `Spec => []OrderKept` |
| `LossesReachTheGateway` | `Spec => []DropsSurfaced` |
| `EveryReadingAccounted` | `Spec => []Accounted` |
| `BodiesPerStart` | `Spec => []CopiesBounded` |

1. The ring.  `Contents` reads the array from its head around the end;
   `GoingRound` is the one fact about `%` that this needs: slots less than a
   capacity apart are different.  After it, the other proofs see a sequence.
2. The order, as long as no publish failed on a connection that stayed up and
   `start()` ran once: the first is needed (`overtaking`), the second keeps the
   adapter to one client.  `Path` lists the places of a reading, `emit()` first and the
   turn of `loop()` last; `Way` says that each is in order and lies before the
   next.  A step moves the first reading of a place behind the last of the place
   in front of it.  `publish` goes past the ring, so `Way` is not inductive
   without `NewerWaits`: on a connection without a failed publish the ring is
   empty whenever `mqttEnsure` is not replaying it.
3. The losses.  `LossInv`: on a connection that holds, the hello with the
   present count is on its way or has been handled.  No reading can be dropped
   on such a connection, so the count it carries stays right.
4. The account.  `AccountInv` adds to `Accounted` that no message is twice in
   `todo` or in the ring: otherwise a message that leaves the ring would stay in
   it as well.

5. The copies.  `CopyInv`: the places where a reading stands in `emitted`,
   `queue` and the inboxes together can be numbered with different numbers up to
   `starts`, a reading in `net` is nowhere else and is there once.  Every step but
   `Forward` takes a place to an earlier one, so the numbering is carried over
   (`FewerCopies`, `CopyMoves`); `Forward` makes one copy for each inbox of a
   reading that had none.  That nothing is published a second time is where
   `AccountInv` is used.

### Polling adapters

`AdaptersProofs`, for any register maps, line profiles, windows, delays and
numbers of polls, lines and faults, under the assumptions of the modules (types
of the constants; a map is not empty, a channel of a pattern is a channel, the
channels are finite in number, so that the flush has an order):

| Theorem | Says |
|---|---|
| `AdapterInvariant` | `Spec => []AdapterInv` |
| `SamplesCountedHolds` | `Spec => []SamplesCounted` |
| `BlocksSaneHolds` | `Spec => BlocksSane` |
| `HealthHonestHolds` | `Spec => []HealthHonest` |
| `ConversionsAgreeHolds` | `Spec => []ConversionsAgree` |
| `StoryUnbrokenHolds` | `OneStoryEach`: `Spec => []StoryUnbroken` |
| `AttributionHolds` | `FewFaults`: `Spec => Attribution` |

1. `AdapterInv`: the place of `start()` against the link (`Control`), the types,
   for every open window its samples (the sum lies between count times the
   extremes, so that the average does too), and the health with the number of
   connections and failures; the wait after the n-th failure in a row is the
   value that the backoff had before it was doubled.  `PowerOfTwo` is a recursive function, whose value
   at n needs the sequence of powers up to n to exist and to be the only one.
2. `StoryInv`: `last` has a value exactly when something was told, and differs
   from it only for a register in `untold`.  It needs `OneStoryEach`: registers of
   one name are of one mode.  A map that breaks this mixes two registers into one
   story in the code as well, and nothing refuses it; the run's maps satisfy it.
3. `TcpInv`: each head of a reply that the link still holds has an age, the
   requests since its own, and its transaction id is that many behind.  A poll
   reads what has arrived, so an old head has been late once for each read it
   outlived, and ages by two at most in between.  `FewFaults`, `2 * MaxFaults <
   TidModulus`, keeps ages below the modulus (65536 in the code): without it a
   reply that is 65536 requests late is taken for the present one, since the
   transaction id is all that `parse_read_tcp` compares.

### Evidence chain

`EvidenceChainProofs`, for runs of any length, any phase plan, any faults and
kills, any seq from which the gateway signs, and any set of rival claims, under
`ChainAssumption` (the key is a key, `NoRange` is no range, claims are numbers):

| Theorem | Says |
|---|---|
| `ChainIsConsumer` | `Spec => ConsumerSpec` |
| `ChainKeepsAll` | `Spec => []NothingSwallowed /\ []ProjectionFromRaw /\ FirstWins` |
| `ChainInvariant` | `Spec => []ChainInv` |
| `OnlyIssuedStoredHolds` | `Spec => []OnlyIssuedStored` |
| `GapsAgreeHolds` | `Spec => []GapsAgree` |
| `SignedIsIssuedHolds` | `Spec => []SignedIsIssued` |
| `SameCitationHolds` | `Spec => []SameCitation` |
| `HonestPassesHolds` | `Spec => []HonestPasses` |
| `FalseClaimsFailHolds` | `Spec => []FalseClaimsFail` |

1. The chain refines the consumer: the consumer's variables are the chain's, a
   delivery is a line that comes, and everything else is a stutter.  What
   `ConsumerProofs` proves holds here by that.
2. `ChainInv` (checked by TLC on the instance of `evidence` before the proof) is
   `StreamInv`, the shape of what the simulator has written at each `place`, and
   `RowsFrom`: each row is an envelope of the stream, one of them under a
   rewritten header, or another summary under the key of one.  `OnlyIssuedStored` alone says nothing of the transaction
   that is open, and nothing of which summaries there are.
3. The audit's properties are facts about any bundle of such rows: the summary
   is the stream's last envelope and its range ends just before it, so that
   `want`, the consumer's gaps and the producer's seqs are the same set.  With
   all of them and no row altered, bundle and stream are the same function on
   the cited seqs (`SameCitation`, `HonestPasses`).
4. `FalseClaimsFail` compares two sums over differently indexed sets, the auditor's
   and the meter's.  `MapThenSumSet` is a recursion chosen by `CHOOSE`:
   `SolutionExists` and `SumIsSolution` build its solution by layers of subsets
   of one size, and `SameSum` carries it along a bijection.

Induction is by the least counterexample: `<` is well founded on `Nat`
(`NatLessThanWellFounded`, `WFMin`), so a set of numbers that is not empty has a
least one (`LeastElement`), and no theorem with an operator as its parameter is
needed.

### Only model-checked

Every invariant and every action property of a passing run is a theorem.  What
stays with TLC is liveness, which is out of the prover's reach: `StopIsObeyed`,
`ReloadIsTaken`, `EmittedIsDelivered` and `Converges`.  Theorems with a
hypothesis (`NamesDistinct`, `~SlowStop`, `OneStoryEach`, `FewFaults`) say nothing
where it fails; the run `shared_name` shows that the first is needed.

## 5. Not modelled, and why

- JSON Schema, canonical JSON, SHA-256 and Ed25519: library code over data.  In
  the pipeline a body is valid or not by choice.
- `prune_log`, `snapshot`, `status`, `dead-letters`: read by people only.  The
  clock and page counts behind `prune()`: any safe rows may go.
- A second process on one database (`run --once`), disk-full inside SQLite's
  own commit, and a database restored from a backup.
- The pidfile's content, the key and id files across a crash, probe threads
  that overran and are left behind.
- `GatewayPipeline` and `GatewayDaemon` composed: each alone is near what TLC can
  finish in minutes.  The drain lock, through which a broker that never answers
  holds up the shutdown, is in both.
- Of the firmware: the measurement, the provisioning portal, the preferences.
- Of the adapters: the wall-clock stamps of blocks, probing, `max_polls`, replay files, the bytes of a frame, payload groups
  of a line profile.
- Of the audit: the wording of the report, `data_source`, raw bundles with
  repeated lines.
- The sniffer and the generators of the conformance vectors: no state.

Smaller hazards that no model covers, by place:

- `cli.py` 463: `start_machine` buffers the announcement of a reload and does
  not drain; it waits for some adapter's next envelope.
- `cli.py` 360: exporters and their topics are read once; a reload changes
  machines only.  `cli.py` 486: a reload skips retention for that tick.
- `cli.py` 186: the crash count is never reset.  `cli.py` 224: a probe that
  overran leaves its thread on the port.  `cli.py` 292: the pidfile outlives a
  killed gateway.
- `store.py` 83: the `SELECT` of `next_seq` is outside sqlite3's transaction;
  only a second process could notice.  `store.py` 174: `page_count` does not
  shrink on `DELETE`, so past `max_bytes` every tick deletes all delivered rows.
- `keys.py` 42: a crash between creating and writing
  the key file leaves an empty key.
- generic-modbus `adapter.py` 136: a register that always fails starves those
  after it.  generic-serial `adapter.py` 103: the two parts of a slow line may
  each match a pattern.
- `main.cpp` 239: `lround` drops less than half a watt-hour per interval, and a
  loop that blocks in `connect` counts one second; 75: `saveConfig` writes
  `prov` first.
- `ingest.py` 92: a copy that differs only in its signature is a duplicate.
- `audit.py` 174: a claim of zero is never compared; 242: `data_source` comes
  from the first announcement of any gateway; 168: a line that is twice in a
  bundle counts twice.

## 6. The plan

*Done*: the gateway's store, pipeline, contract and daemon; the consumer, the
evidence chain, the polling adapters and the retrofit node; proofs of all their
safety properties.

*Left*, in order: the order of `Path` for several clients (`OrderKept` is about
one start); retention with clock and page count; two processes on one store; key
and identity files across a crash.
