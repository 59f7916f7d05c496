----------------------- MODULE GatewayContractProofs ------------------------
(***************************************************************************)
(* The running gateway, for any number of machines, threads, destinations  *)
(* and restarts: it implements DeliveryContract when its exporters are     *)
(* told apart by their names, a crash repeats at most one envelope, a      *)
(* machine's envelopes stay in order, and every gap is explained.  Base    *)
(* and Batching are the layers of GatewayPipelineProofs.                   *)
(***************************************************************************)
EXTENDS GatewayPipelineProofs, FiniteSetTheorems

Inv == Base /\ Batching /\ AckedIsDelivered

Got == [d \in Direct |-> accepted[d]]

(* A step that changes only what the contract does not see.                *)
LEMMA Stutter ==
  ASSUME UNCHANGED <<buffer, history, accepted, exporters>>
  PROVE  [Contract!Next]_Contract!vars
BY DEF Contract!vars, Configured

(* A start or an end of the process reads or forgets the exporter list.    *)
LEMMA Reconfigured ==
  ASSUME exporters' \in Configs \cup {<<>>},
         UNCHANGED <<buffer, history>>, Got' = Got
  PROVE  Contract!Next
<1>1. exporters' \in Seq(Destinations)
  <2>1. <<>> \in Seq(Destinations)
    OBVIOUS
  <2> QED
    BY <2>1, PipelineAssumption
<1>2. Configured' \subseteq Destinations
  BY <1>1 DEF Configured
<1>3. (Configured \ Buffered)' \in SUBSET Direct
  BY <1>2 DEF Direct
<1> QED
  BY <1>3 DEF Contract!Next, Contract!Configure, Got

(* append(): a row after all others, with a key that was never used.       *)
LEMMA BufferStores ==
  ASSUME Inv, NEW t \in Emitters, Buffer(t)
  PROVE  Contract!Next
<1> DEFINE new == NewRow(MachineOf[t], seq[t], IF pc[t] = "announce" THEN phase ELSE "emit")
<1>1. /\ buffer' = buffer \cup {new} /\ history' = history \cup {new}
      /\ new.row = lastRow + 1 /\ new.machine = MachineOf[t] /\ new.seq = seq[t]
      /\ UNCHANGED <<accepted, exporters>>
  BY DEF Buffer, AppendRow, NewRow, NextRow
<1>2. Processing(t)
  BY DEF Buffer
<1> HIDE DEF new
<1>3. \A o \in history : o.row \in Nat /\ o.row <= lastRow
  BY DEF Inv, Base, TypeInv, TypeOK, Numbering, RowsNumbered, Row
<1>4. lastRow \in Nat /\ buffer \subseteq history
  BY DrainFacts DEF Inv
<1>5. \A o \in history : o.row < new.row
  BY <1>1, <1>3, <1>4
<1>6. \A o \in history : <<o.machine, o.seq>> # <<new.machine, new.seq>>
  BY <1>1, <1>2 DEF Inv, Base, Numbering, StampsFresh
<1>7. new \notin buffer
  BY <1>4, <1>5, <1>3
<1>8. new \in buffer' \ buffer
  BY <1>1, <1>7
<1>9. Contract!Store(new)
  BY <1>1, <1>5, <1>6 DEF Contract!Store, Contract!Key, Configured
<1> QED
  BY <1>8, <1>9 DEF Contract!Next

(* publish() of the oldest row of a batch: everything older that is still  *)
(* stored lies behind the cursor, and was delivered before.                *)
LEMMA PublishDelivers ==
  ASSUME Inv, NEW t \in Threads, PublishDirect(t)
  PROVE  [Contract!Next]_Contract!vars
<1> DEFINE d == Target(t)
           n == NameOf[Target(t)]
<1>1. PICK r \in batch[t] :
        /\ IsOldest(r, batch[t])
        /\ accepted' = [accepted EXCEPT ![d] = @ \cup {r}]
  BY DEF PublishDirect, Accept
<1>2. /\ pc[t] = "publish" /\ d \in Direct
      /\ UNCHANGED <<buffer, history, exporters>>
  BY DEF PublishDirect, storeVars
<1>3. /\ batch[t] \subseteq After(n)
      /\ \A x \in batch[t], o \in After(n) \ batch[t] : x.row < o.row
  BY <1>2 DEF Inv, Batching, BatchIsNext
<1>4. /\ accepted \in [Destinations -> SUBSET Row]
      /\ \A x \in buffer : x.row \in Nat
      /\ n \in Names /\ cursors \in [Names -> Nat]
  BY <1>2, DrainFacts DEF Inv, Draining
<1>5. r \in buffer
  BY <1>3 DEF After
<1>6. ASSUME NEW o \in buffer, o.row < r.row
      PROVE  o \in accepted[d]
  <2>1. o \notin batch[t]
    BY <1>1, <1>4, <1>5, <1>6 DEF IsOldest
  <2>2. o \notin After(n)
    BY <1>3, <1>4, <1>5, <1>6, <2>1
  <2>3. o.row <= cursors[n]
    BY <1>4, <2>2 DEF After
  <2> QED
    BY <1>2, <2>3 DEF Inv, AckedIsDelivered
<1>7. CASE r \in accepted[d]
  <2>1. accepted' = accepted
    BY <1>1, <1>2, <1>4, <1>7 DEF Direct
  <2> QED
    BY <1>2, <2>1, Stutter
<1>8. CASE r \notin accepted[d]
  <2>1. Got' = [Got EXCEPT ![d] = @ \cup {r}]
    BY <1>1, <1>2, <1>4 DEF Got, Direct
  <2>2. r \in Got'[d] \ Got[d]
    BY <1>2, <1>8, <2>1 DEF Got
  <2>3. Contract!Deliver(d, r)
    BY <1>2, <1>5, <1>6, <2>1 DEF Contract!Deliver, Got, Configured
  <2> QED
    BY <1>2, <2>2, <2>3 DEF Contract!Next, Got
<1> QED
  BY <1>7, <1>8

(* The text buffer of a pipe is not a destination of the contract.         *)
LEMMA PublishBufferedStutters ==
  ASSUME Inv, NEW t \in Threads, PublishBuffered(t)
  PROVE  [Contract!Next]_Contract!vars
<1>1. Target(t) \notin Direct /\ UNCHANGED <<buffer, history, exporters>>
  BY DEF PublishBuffered, storeVars, Direct
<1>2. UNCHANGED accepted \/ \E rows : Accept(Target(t), rows)
  BY DEF PublishBuffered
<1>3. accepted \in [Destinations -> SUBSET Row] /\ Direct \subseteq Destinations
  BY DrainFacts DEF Inv, Direct
<1>4. \A d \in Direct : accepted'[d] = accepted[d]
  BY <1>1, <1>2, <1>3 DEF Accept
<1>5. Got' = Got
  BY <1>4 DEF Got
<1> QED
  BY <1>1, <1>5 DEF Contract!vars, Got, Configured

(* prune(): only rows behind every configured cursor go.                   *)
LEMMA PruneForgets ==
  ASSUME Inv, Prune
  PROVE  Contract!Next
<1>1. PICK expired \in SUBSET SafeRows(ConfiguredNames) :
        buffer' = IF ConfiguredNames = {} THEN buffer ELSE buffer \ expired
  BY DEF Prune, PruneRows
<1>2. UNCHANGED <<history, accepted, exporters>>
  BY DEF Prune
<1>3. Configured \ Buffered \subseteq Direct
  BY ExportersType DEF Inv, Base, TypeInv, Configured, Direct
<1>4. ASSUME NEW r \in buffer \ buffer', NEW d \in Configured \ Buffered
      PROVE  r \in Got[d]
  <2>1. r \in SafeRows(ConfiguredNames) /\ NameOf[d] \in ConfiguredNames
    BY <1>1, <1>4 DEF ConfiguredNames
  <2>2. r \in buffer /\ r.row <= cursors[NameOf[d]]
    BY <2>1 DEF SafeRows
  <2> QED
    BY <1>3, <2>2 DEF Inv, AckedIsDelivered, Got
<1>5. buffer' = buffer \ (buffer \ buffer')
  BY <1>1
<1> QED
  BY <1>2, <1>4, <1>5 DEF Contract!Next, Contract!Forget, Got, Configured

(* Every step of the gateway is a step of the contract, or none.           *)
LEMMA ContractStep == Inv /\ [Next]_vars => [Contract!Next]_Contract!vars
<1> DEFINE P == [Contract!Next]_Contract!vars
<1> SUFFICES ASSUME Inv PROVE [Next]_vars => P
  OBVIOUS
<1> HIDE DEF P
<1> USE DEF storeVars
<1>a. UNCHANGED <<buffer, history, accepted, exporters>> => P
  BY Stutter DEF P
<1>b. Contract!Next => P
  BY DEF P
<1>c. ASSUME exporters' \in Configs \cup {<<>>}, UNCHANGED <<buffer, history, accepted>>
      PROVE  P
  BY <1>b, <1>c, Reconfigured DEF Got
<1>1. ASSUME NEW t \in Emitters, StartMachine(t) PROVE P
  BY <1>1, <1>a DEF StartMachine, TakeSeq
<1>2. ASSUME NEW t \in Emitters, Emit(t) PROVE P
  BY <1>2, <1>a DEF Emit, TakeSeq
<1>3. ASSUME NEW t \in Emitters, Quit(t) PROVE P
  BY <1>3, <1>a DEF Quit
<1>4. ASSUME NEW t \in Emitters, Buffer(t) PROVE P
  BY <1>4, <1>b, BufferStores
<1>5. ASSUME NEW t \in Emitters, DeadLetter(t) PROVE P
  BY <1>5, <1>a DEF DeadLetter, DeadLetterRow
<1>6. ASSUME NEW t \in Emitters, ProcessRaises(t) PROVE P
  BY <1>6, <1>a DEF ProcessRaises
<1>7. ASSUME NEW t \in Threads, Acquire(t) PROVE P
  BY <1>7, <1>a DEF Acquire
<1>8. ASSUME NEW t \in Threads, NextExporter(t) PROVE P
  BY <1>8, <1>a DEF NextExporter
<1>9. ASSUME NEW t \in Threads, Read(t) PROVE P
  BY <1>9, <1>a DEF Read
<1>10. ASSUME NEW t \in Threads, PublishDirect(t) PROVE P
  BY <1>10, PublishDelivers DEF P
<1>11. ASSUME NEW t \in Threads, PublishBuffered(t) PROVE P
  BY <1>11, PublishBufferedStutters DEF P
<1>12. ASSUME NEW t \in Threads, Ack(t) PROVE P
  BY <1>12, <1>a DEF Ack, AckRow
<1>13. ASSUME NEW t \in Threads, Closed(t) PROVE P
  BY <1>13, <1>a DEF Closed
<1>14. ASSUME NEW t \in Threads, DrainRaises(t) PROVE P
  <2>1. CASE t = Main
    BY <1>14, <1>c, <2>1 DEF DrainRaises, ProcessGone
  <2>2. CASE t # Main
    BY <1>14, <1>a, <2>2 DEF DrainRaises
  <2> QED
    BY <2>1, <2>2
<1>15. Boot => P
  BY <1>c DEF Boot
<1>16. StartupDrain => P
  BY <1>a DEF StartupDrain
<1>17. Prune => P
  BY <1>b, PruneForgets
<1>18. Shutdown => P
  BY <1>a DEF Shutdown
<1>19. ASSUME Exit PROVE P
  <2>1. Got' = Got
    BY <1>19, DrainFacts DEF Inv, Exit, Got, Direct
  <2>2. UNCHANGED <<buffer, history>> /\ exporters' = <<>>
    BY <1>19 DEF Exit, ProcessGone
  <2> QED
    BY <1>b, <2>1, <2>2, Reconfigured
<1>20. Crash => P
  BY <1>c DEF Crash, ProcessGone
<1>21. UNCHANGED vars => P
  BY <1>a DEF vars, procVars
<1>22. Tick => P
  BY <1>a DEF Tick
<1>23. Reloaded => P
  BY <1>a DEF Reloaded
<1> QED
  BY <1>1, <1>2, <1>3, <1>4, <1>5, <1>6, <1>7, <1>8, <1>9, <1>10, <1>11, <1>12,
     <1>13, <1>14, <1>15, <1>16, <1>17, <1>18, <1>19, <1>20, <1>21,
     <1>22, <1>23, StepCases

(* The gateway keeps its contract: rows enter with fresh keys and in       *)
(* order, each destination is given them oldest first with none skipped,   *)
(* and none is deleted before every configured destination has it.         *)
THEOREM GatewayKeepsContract ==
  ASSUME NamesDistinct
  PROVE  Spec => ImplementsContract
<1>1. Init => Contract!Init
  BY DEF Init, StoreInit, Contract!Init, Configured, Direct
<1>2. Spec => []Inv
  BY AckedDelivered, Invariance, PTL DEF Inv
<1>3. Inv /\ [Next]_vars => [Contract!Next]_Contract!vars
  BY ContractStep
<1> QED
  BY <1>1, <1>2, <1>3, PTL DEF Spec, ImplementsContract, Contract!Spec

(* A row that retention deletes was delivered to every destination that    *)
(* was configured at that moment, however the cursors moved before.        *)
THEOREM PruneIsSafe ==
  ASSUME NamesDistinct
  PROVE  Spec => PruneOnlyDelivered
<1> DEFINE Kept == \A r \in buffer \ buffer' : \A d \in Configured \ Buffered :
                     r \in accepted[d]
<1>1. Inv /\ [Next]_vars => [Kept]_vars
  <2> SUFFICES ASSUME Inv, [Next]_vars PROVE Kept
    OBVIOUS
  <2>1. Configured \ Buffered \subseteq Direct
    BY ExportersType DEF Inv, Base, TypeInv, Configured, Direct
  <2>2. CASE Contract!Next
    <3>1. CASE \E gone : gone = buffer \ buffer' /\ Contract!Forget(gone)
      BY <2>1, <3>1 DEF Contract!Forget
    <3>2. CASE buffer \subseteq buffer'
      BY <3>2
    <3> QED
      BY <2>2, <3>1, <3>2
         DEF Contract!Next, Contract!Store, Contract!Deliver, Contract!Configure
  <2>3. CASE UNCHANGED Contract!vars
    BY <2>3 DEF Contract!vars
  <2> QED
    BY <2>2, <2>3, ContractStep
<1>2. Spec => []Inv
  BY AckedDelivered, Invariance, PTL DEF Inv
<1> QED
  BY <1>1, <1>2, PTL DEF Spec, PruneOnlyDelivered

-----------------------------------------------------------------------------
(* What it keeps beyond the contract.                                      *)

(* IInv, the invariant that a run checks, is what the layers add up to:    *)
(* the lock, the numbering, the batches and the cursors of cmd_run's       *)
(* threads (cli.py 360-500), in every reachable state.                     *)
THEOREM InvariantHolds == Spec => []IInv
<1>1. Base /\ Batching /\ (NamesDistinct => AckedIsDelivered) => IInv
  BY DEF Base, Batching, TypeInv, Numbering, IInv
<1>2. Spec => [](NamesDistinct => AckedIsDelivered)
  <2>1. CASE NamesDistinct
    <3>1. Spec => []AckedIsDelivered
      BY <2>1, AckedDelivered
    <3> QED
      BY <3>1, PTL
  <2>2. CASE ~NamesDistinct
    <3>1. NamesDistinct => AckedIsDelivered
      BY <2>2
    <3> QED
      BY <3>1, PTL
  <2> QED
    BY <2>1, <2>2
<1> QED
  BY <1>1, <1>2, Invariance, PTL

-----------------------------------------------------------------------------
(* Redelivery.                                                             *)

(* What a destination has accepted past its cursor is the next row there.  *)
AcceptedIsNext ==
  \A d \in Direct :
    /\ accepted[d] \subseteq history
    /\ \A r \in accepted[d] \cap After(NameOf[d]) :
         \A o \in After(NameOf[d]) : r.row <= o.row

(* A step that accepts nothing, moves no cursor and buffers nothing.       *)
LEMMA NextFrame ==
  ASSUME AcceptedIsNext, cursors' = cursors, buffer' \subseteq buffer, history' = history,
         \A d \in Direct : accepted'[d] = accepted[d]
  PROVE  AcceptedIsNext'
BY DEF AcceptedIsNext, After

(* A row that is appended has been accepted by nobody and is the last one. *)
LEMMA BufferNext ==
  ASSUME Base, AcceptedIsNext, NEW t \in Emitters, Buffer(t)
  PROVE  AcceptedIsNext'
<1> DEFINE new == NewRow(MachineOf[t], seq[t], IF pc[t] = "announce" THEN phase ELSE "emit")
<1>1. /\ buffer' = buffer \cup {new} /\ history' = history \cup {new}
      /\ new.row = lastRow + 1 /\ UNCHANGED <<cursors, accepted>>
  BY DEF Buffer, AppendRow, NewRow, NextRow
<1> HIDE DEF new
<1>2. \A r \in history : r.row \in Nat /\ r.row <= lastRow /\ lastRow \in Nat
  BY DEF Base, TypeInv, TypeOK, StoreTypeOK, Row, Numbering, RowsNumbered
<1>3. new \notin history
  <2>1. lastRow \in Nat
    BY DrainFacts
  <2> QED
    BY <1>1, <1>2, <2>1
<1>4. ASSUME NEW d \in Direct, NEW r \in accepted'[d] \cap After(NameOf[d])',
             NEW o \in After(NameOf[d])'
      PROVE  r.row <= o.row
  <2>1. r \in history /\ r \in accepted[d]
    BY <1>1, <1>4 DEF AcceptedIsNext
  <2>2. r \in After(NameOf[d])
    BY <1>1, <1>3, <1>4, <2>1 DEF After
  <2>3. CASE o = new
    BY <1>1, <1>2, <2>1, <2>3
  <2>4. CASE o # new
    <3>1. o \in After(NameOf[d])
      BY <1>1, <1>4, <2>4 DEF After
    <3> QED
      BY <2>1, <2>2, <3>1 DEF AcceptedIsNext
  <2> QED
    BY <2>3, <2>4
<1> QED
  BY <1>1, <1>4 DEF AcceptedIsNext

(* publish() is called with the oldest row past the cursor.                *)
LEMMA PublishNext ==
  ASSUME Base, Batching, AcceptedIsNext, NEW t \in Threads, PublishDirect(t)
  PROVE  AcceptedIsNext'
<1>1. PICK r \in batch[t] : IsOldest(r, batch[t]) /\ Accept(Target(t), {r})
  BY DEF PublishDirect
<1>2. /\ pc[t] = "publish" /\ Target(t) \in Direct
      /\ UNCHANGED <<buffer, cursors, history>>
  BY DEF PublishDirect, storeVars
<1>3. /\ batch[t] \subseteq After(NameOf[Target(t)])
      /\ \A b \in batch[t], o \in After(NameOf[Target(t)]) \ batch[t] : b.row < o.row
  BY <1>2 DEF Batching, BatchIsNext
<1>4. r \in history /\ \A o \in After(NameOf[Target(t)]) : r.row <= o.row
  <2>1. After(NameOf[Target(t)]) \subseteq buffer
    BY DEF After
  <2> QED
    BY <1>1, <1>3, <2>1, DrainFacts DEF IsOldest
<1>5. accepted' = [accepted EXCEPT ![Target(t)] = @ \cup {r}]
  BY <1>1 DEF Accept
<1>6. ASSUME NEW d \in Direct
      PROVE  accepted'[d] = IF d = Target(t) THEN accepted[d] \cup {r} ELSE accepted[d]
  BY <1>5, DrainFacts DEF Direct
<1>7. \A n : After(n)' = After(n)
  BY <1>2 DEF After
<1> QED
  BY <1>2, <1>4, <1>6, <1>7 DEF AcceptedIsNext

(* ack() passes the oldest row; past the new cursor nothing is accepted.   *)
LEMMA AckNext ==
  ASSUME Base, Batching, AcceptedIsNext, NEW t \in Threads, Ack(t)
  PROVE  AcceptedIsNext'
<1> DEFINE n == NameOf[Target(t)]
<1>1. n \in Names /\ UNCHANGED <<buffer, accepted, history>>
  BY AckFacts, DrainFacts DEF Draining
<1>2. PICK r \in batch[t] :
        /\ r \in buffer /\ r.row > cursors[n]
        /\ cursors' = [cursors EXCEPT ![n] = r.row]
  BY AckFacts
<1>3. ASSUME NEW d \in Direct, NEW a \in accepted[d] \cap After(NameOf[d])',
             NEW o \in After(NameOf[d])'
      PROVE  a.row <= o.row
  <2>1. NameOf[d] \in Names
    BY PipelineAssumption DEF Direct
  <2>2. CASE NameOf[d] = n
    <3>1. a \in buffer /\ a.row > r.row
      BY <1>1, <1>2, <1>3, <2>2, DrainFacts DEF After
    <3>2. a \in After(n) /\ r \in After(n)
      BY <1>1, <1>2, <3>1, DrainFacts DEF After
    <3>3. a.row <= r.row
      BY <1>3, <2>2, <3>2 DEF AcceptedIsNext
    <3> QED
      BY <1>2, <3>1, <3>3, DrainFacts
  <2>3. CASE NameOf[d] # n
    <3>1. After(NameOf[d])' = After(NameOf[d])
      BY <1>1, <1>2, <2>1, <2>3, DrainFacts DEF After
    <3> QED
      BY <1>3, <3>1 DEF AcceptedIsNext
  <2> QED
    BY <2>2, <2>3
<1> QED
  BY <1>1, <1>3 DEF AcceptedIsNext

(* No step makes a destination accept a row out of turn.                   *)
LEMMA NextAccepted == Base /\ Batching /\ AcceptedIsNext /\ [Next]_vars => AcceptedIsNext'
<1> SUFFICES ASSUME Base, Batching, AcceptedIsNext PROVE [Next]_vars => AcceptedIsNext'
  OBVIOUS
<1> USE DEF storeVars
<1>a. accepted \in [Destinations -> SUBSET Row]
  BY DrainFacts
<1>1. ASSUME NEW t \in Emitters, StartMachine(t) PROVE AcceptedIsNext'
  BY <1>1, NextFrame DEF StartMachine, TakeSeq
<1>2. ASSUME NEW t \in Emitters, Emit(t) PROVE AcceptedIsNext'
  BY <1>2, NextFrame DEF Emit, TakeSeq
<1>3. ASSUME NEW t \in Emitters, Quit(t) PROVE AcceptedIsNext'
  BY <1>3, NextFrame DEF Quit
<1>4. ASSUME NEW t \in Emitters, Buffer(t) PROVE AcceptedIsNext'
  BY <1>4, BufferNext
<1>5. ASSUME NEW t \in Emitters, DeadLetter(t) PROVE AcceptedIsNext'
  BY <1>5, NextFrame DEF DeadLetter, DeadLetterRow
<1>6. ASSUME NEW t \in Emitters, ProcessRaises(t) PROVE AcceptedIsNext'
  BY <1>6, NextFrame DEF ProcessRaises
<1>7. ASSUME NEW t \in Threads, Acquire(t) PROVE AcceptedIsNext'
  BY <1>7, NextFrame DEF Acquire
<1>8. ASSUME NEW t \in Threads, NextExporter(t) PROVE AcceptedIsNext'
  BY <1>8, NextFrame DEF NextExporter
<1>9. ASSUME NEW t \in Threads, Read(t) PROVE AcceptedIsNext'
  BY <1>9, NextFrame DEF Read
<1>10. ASSUME NEW t \in Threads, PublishDirect(t) PROVE AcceptedIsNext'
  BY <1>10, PublishNext
<1>11. ASSUME NEW t \in Threads, PublishBuffered(t) PROVE AcceptedIsNext'
  <2>1. UNCHANGED accepted \/ \E rows : accepted' = [accepted EXCEPT ![Target(t)] = @ \cup rows]
    BY <1>11 DEF PublishBuffered, Accept
  <2>2. Target(t) \in Buffered
    BY <1>11 DEF PublishBuffered
  <2>3. \A d \in Direct : accepted'[d] = accepted[d]
    BY <1>a, <2>1, <2>2 DEF Direct
  <2> QED
    BY <1>11, <2>3, NextFrame DEF PublishBuffered
<1>12. ASSUME NEW t \in Threads, Ack(t) PROVE AcceptedIsNext'
  BY <1>12, AckNext
<1>13. ASSUME NEW t \in Threads, Closed(t) PROVE AcceptedIsNext'
  BY <1>13, NextFrame DEF Closed
<1>14. ASSUME NEW t \in Threads, DrainRaises(t) PROVE AcceptedIsNext'
  BY <1>14, NextFrame DEF DrainRaises
<1>15. Boot => AcceptedIsNext'
  BY NextFrame DEF Boot
<1>16. StartupDrain => AcceptedIsNext'
  BY NextFrame DEF StartupDrain
<1>17. Prune => AcceptedIsNext'
  BY NextFrame DEF Prune, PruneRows
<1>18. Shutdown => AcceptedIsNext'
  BY NextFrame DEF Shutdown
<1>19. Exit => AcceptedIsNext'
  BY <1>a, NextFrame DEF Exit, Direct
<1>20. Crash => AcceptedIsNext'
  BY NextFrame DEF Crash
<1>21. UNCHANGED vars => AcceptedIsNext'
  BY NextFrame DEF vars
<1>22. Tick => AcceptedIsNext'
  BY NextFrame DEF Tick
<1>23. Reloaded => AcceptedIsNext'
  BY NextFrame DEF Reloaded
<1> QED
  BY <1>1, <1>2, <1>3, <1>4, <1>5, <1>6, <1>7, <1>8, <1>9, <1>10, <1>11, <1>12,
     <1>13, <1>14, <1>15, <1>16, <1>17, <1>18, <1>19, <1>20, <1>21,
     <1>22, <1>23, StepCases

(* drain() acknowledges row by row under its lock (base.py 26-35), so a    *)
(* process that dies anywhere leaves at most one stored row that a         *)
(* destination has and its cursor does not know of: the restart repeats    *)
(* that one and no other, also for destinations that share a cursor.       *)
THEOREM CrashRepeatsAtMostOne == Spec => []DuplicateWindow
<1>1. Init => AcceptedIsNext
  BY DEF Init, StoreInit, AcceptedIsNext, Direct
<1>2. Base /\ Batching /\ AcceptedIsNext /\ [Next]_vars => AcceptedIsNext'
  BY NextAccepted
<1>3. Base /\ AcceptedIsNext => DuplicateWindow
  <2> SUFFICES ASSUME Base, AcceptedIsNext, NEW d \in Direct,
                      NEW r1 \in accepted[d] \cap buffer, NEW r2 \in accepted[d] \cap buffer,
                      r1.row > cursors[NameOf[d]], r2.row > cursors[NameOf[d]]
               PROVE  r1 = r2
    BY DEF DuplicateWindow
  <2>1. r1 \in After(NameOf[d]) /\ r2 \in After(NameOf[d])
    BY DEF After
  <2>2. r1.row <= r2.row /\ r2.row <= r1.row
    BY <2>1 DEF AcceptedIsNext
  <2> QED
    BY <2>2, DrainFacts
<1> QED
  BY <1>1, <1>2, <1>3, Invariance, PTL DEF Spec

-----------------------------------------------------------------------------
(* Order and gaps.                                                         *)

(* The process's first life, as far as nothing has gone wrong in it.       *)
Calm == boots = 1 /\ phase # "down" /\ faults = 0

(* A step that neither takes a seq nor uses one, except to forget it.      *)
Rests ==
  /\ UNCHANGED <<lastSeq, lastRow, history, dead>>
  /\ \A t \in Emitters :
       /\ pc'[t] # "off" => pc[t] # "off"
       /\ Processing(t)' => Processing(t) /\ seq'[t] = seq[t]
       /\ \/ seq'[t] = 0
          \/ seq'[t] = seq[t] /\ (~Processing(t)' => ~Processing(t))
  /\ boots' = 0 => boots = 0 /\ (phase = "down" => phase' = "down")
  /\ Calm' => seq' = seq /\ (Calm \/ boots = 0)
  /\ gaveUp' = gaveUp \/ \A t \in Emitters : pc'[t] = "off"

(* The other steps.                                                        *)
Stamps(t) == StartMachine(t) \/ Emit(t)

LEMMA StepKinds ==
  ASSUME Base, [Next]_vars
  PROVE  Rests \/ \E t \in Emitters : Stamps(t) \/ Buffer(t) \/ DeadLetter(t)
<1> DEFINE P == Rests \/ \E t \in Emitters : Stamps(t) \/ Buffer(t) \/ DeadLetter(t)
<1> SUFFICES [Next]_vars => P
  OBVIOUS
<1>a. /\ pc \in [Threads -> PCs] /\ Emitters \subseteq Threads /\ Main \in Threads
      /\ Main \notin Emitters /\ seq \in [Emitters -> Nat]
      /\ boots \in Nat /\ faults \in Nat
  BY PipelineAssumption DEF Base, TypeInv, TypeOK, Threads
<1>b. phase = "down" => \A t \in Threads : pc[t] = "off"
  BY DEF Base, TypeInv, Control, DownIsQuiet
<1>c. ASSUME ProcessGone, UNCHANGED <<lastSeq, lastRow, history, dead, boots>> PROVE Rests
  <2>1. \A t \in Emitters : pc'[t] = "off" /\ seq'[t] = 0
    BY <1>a, <1>c DEF ProcessGone
  <2>2. phase' = "down" /\ ~Calm'
    BY <1>c DEF ProcessGone, Calm
  <2> QED
    BY <1>c, <2>1, <2>2 DEF Rests, Processing
<1> USE DEF storeVars, Goto, Processing, Calm
<1>1. ASSUME NEW t \in Emitters, StartMachine(t) PROVE P
  BY <1>1 DEF Stamps
<1>2. ASSUME NEW t \in Emitters, Emit(t) PROVE P
  BY <1>2 DEF Stamps
<1>3. ASSUME NEW t \in Emitters, Quit(t) PROVE P
  BY <1>3, <1>a DEF Quit, Rests
<1>4. ASSUME NEW t \in Emitters, Buffer(t) PROVE P
  BY <1>4
<1>5. ASSUME NEW t \in Emitters, DeadLetter(t) PROVE P
  BY <1>5
<1>6. ASSUME NEW t \in Emitters, ProcessRaises(t) PROVE P
  <2>1. /\ UNCHANGED <<lastSeq, lastRow, history, dead, boots, phase, gaveUp>>
        /\ seq' = [seq EXCEPT ![t] = 0] /\ pc[t] \in {"announce", "stamped"}
        /\ \E place \in {"idle", "off"} : pc' = [pc EXCEPT ![t] = place]
    BY <1>6 DEF ProcessRaises
  <2>2. ~Calm'
    BY <1>6, <1>a DEF ProcessRaises
  <2>3. \A o \in Emitters : o # t => pc'[o] = pc[o] /\ seq'[o] = seq[o]
    BY <1>a, <2>1
  <2>4. pc'[t] \in {"idle", "off"} /\ seq'[t] = 0
    BY <1>a, <2>1
  <2> HIDE DEF Calm
  <2> QED
    BY <2>1, <2>2, <2>3, <2>4 DEF Rests
<1>7. ASSUME NEW t \in Threads, Acquire(t) PROVE P
  BY <1>7, <1>a DEF Acquire, Rests
<1>8. ASSUME NEW t \in Threads, NextExporter(t) PROVE P
  BY <1>8, <1>a DEF NextExporter, Rests
<1>9. ASSUME NEW t \in Threads, Read(t) PROVE P
  BY <1>9, <1>a DEF Read, Rests
<1>10. ASSUME NEW t \in Threads, PublishDirect(t) PROVE P
  BY <1>10, <1>a DEF PublishDirect, Rests
<1>11. ASSUME NEW t \in Threads, PublishBuffered(t) PROVE P
  BY <1>11, <1>a DEF PublishBuffered, Rests
<1>12. ASSUME NEW t \in Threads, Ack(t) PROVE P
  <2>1. UNCHANGED <<lastSeq, lastRow, history, dead>>
    BY <1>12 DEF Ack, AckRow
  <2>2. \E place \in {"read", "publish"} : pc[t] = "ack" /\ pc' = [pc EXCEPT ![t] = place]
    BY <1>12 DEF Ack
  <2>3. UNCHANGED <<seq, boots, phase, faults, gaveUp>>
    BY <1>12 DEF Ack
  <2> QED
    BY <1>a, <2>1, <2>2, <2>3 DEF Rests
<1>13. ASSUME NEW t \in Threads, Closed(t) PROVE P
  BY <1>13, <1>a DEF Closed, Rests
<1>14. ASSUME NEW t \in Threads, DrainRaises(t) PROVE P
  <2>1. CASE t = Main
    BY <1>14, <1>c, <2>1 DEF DrainRaises
  <2>2. CASE t # Main
    BY <1>14, <1>a, <2>2 DEF DrainRaises, Rests
  <2> QED
    BY <2>1, <2>2
<1>15. Boot => P
  BY <1>a, <1>b DEF Boot, Rests
<1>16. StartupDrain => P
  BY <1>a DEF StartupDrain, Rests
<1>17. Prune => P
  BY <1>a DEF Prune, PruneRows, Rests
<1>18. Shutdown => P
  BY <1>a DEF Shutdown, Rests
<1>19. Exit => P
  BY <1>c DEF Exit
<1>20. Crash => P
  BY <1>c DEF Crash
<1>21. UNCHANGED vars => P
  BY <1>a DEF vars, procVars, Rests
<1>22. Tick => P
  BY <1>a DEF Tick, Rests
<1>23. Reloaded => P
  BY <1>a DEF Reloaded, MainAt, Rests
<1> HIDE DEF P
<1> QED
  BY <1>1, <1>2, <1>3, <1>4, <1>5, <1>6, <1>7, <1>8, <1>9, <1>10, <1>11, <1>12,
     <1>13, <1>14, <1>15, <1>16, <1>17, <1>18, <1>19, <1>20, <1>21,
     <1>22, <1>23, StepCases

(* What next_seq(), append() and dead_letter() do.                         *)
LEMMA StampFacts ==
  ASSUME Base, NEW t \in Emitters, Stamps(t)
  PROVE  /\ pc[t] \in {"off", "idle"} /\ ~Processing(t) /\ Processing(t)'
         /\ pc' \in [Threads -> PCs] /\ \A o \in Emitters \ {t} : pc'[o] = pc[o]
         /\ lastSeq' = [lastSeq EXCEPT ![MachineOf[t]] = lastSeq[MachineOf[t]] + 1]
         /\ seq' = [seq EXCEPT ![t] = lastSeq[MachineOf[t]] + 1]
         /\ UNCHANGED <<history, lastRow, dead, boots, phase, faults>>
         /\ \/ gaveUp' = gaveUp /\ pc[t] = "idle"
            \/ gaveUp' = gaveUp \cup {MachineOf[t]}
            \/ /\ gaveUp' = gaveUp \ {MachineOf[t]}
               /\ \A o \in Emitters : MachineOf[o] = MachineOf[t] => pc[o] = "off"
<1>a. /\ pc \in [Threads -> PCs] /\ Emitters \subseteq Threads
  BY DEF Base, TypeInv, TypeOK, Threads
<1>1. CASE StartMachine(t)
  BY <1>a, <1>1 DEF StartMachine, Joined, TakeSeq, NextSeq, Goto, Processing, PCs
<1>2. CASE Emit(t)
  BY <1>a, <1>2 DEF Emit, TakeSeq, NextSeq, Goto, Processing, PCs
<1> QED
  BY <1>1, <1>2 DEF Stamps

LEMMA UseFacts ==
  ASSUME Base, NEW t \in Emitters, Buffer(t) \/ DeadLetter(t)
  PROVE  /\ Processing(t) /\ pc[t] # "off" /\ ~Processing(t)'
         /\ pc' \in [Threads -> PCs] /\ \A o \in Emitters \ {t} : pc'[o] = pc[o]
         /\ seq' = [seq EXCEPT ![t] = 0]
         /\ UNCHANGED <<lastSeq, boots, phase, faults, gaveUp>>
<1>a. /\ pc \in [Threads -> PCs] /\ Emitters \subseteq Threads
  BY DEF Base, TypeInv, TypeOK, Threads
<1>1. CASE Buffer(t)
  BY <1>a, <1>1 DEF Buffer, AppendRow, AfterProcess, Goto, Processing, PCs
<1>2. CASE DeadLetter(t)
  BY <1>a, <1>2 DEF DeadLetter, DeadLetterRow, AfterProcess, Goto, Processing, PCs
<1> QED
  BY <1>1, <1>2

LEMMA AppendFacts ==
  ASSUME Base, NEW t \in Emitters, Buffer(t)
  PROVE  \E new :
           /\ new.row = lastRow + 1 /\ new.machine = MachineOf[t] /\ new.seq = seq[t]
           /\ new \notin history /\ history' = history \cup {new}
           /\ \A r \in history : r.row < new.row
           /\ UNCHANGED dead
<1> DEFINE new == NewRow(MachineOf[t], seq[t], IF pc[t] = "announce" THEN phase ELSE "emit")
<1>1. /\ history' = history \cup {new} /\ UNCHANGED dead
      /\ new.row = lastRow + 1 /\ new.machine = MachineOf[t] /\ new.seq = seq[t]
  BY DEF Buffer, AppendRow, NewRow, NextRow
<1> HIDE DEF new
<1>2. lastRow \in Nat /\ \A r \in history : r.row \in Nat /\ r.row <= lastRow
  BY DEF Base, TypeInv, TypeOK, StoreTypeOK, Row, Numbering, RowsNumbered
<1>3. new \notin history /\ \A r \in history : r.row < new.row
  BY <1>1, <1>2
<1> QED
  BY <1>1, <1>3

-----------------------------------------------------------------------------
(* The order of one machine's envelopes.  Unless the machine's last reload *)
(* gave up on a thread, no two threads of the machine are alive at once,   *)
(* and the seq in a thread's hands is newer than every envelope of the     *)
(* machine.                                                                *)
OneThread ==
  \A t, o \in Emitters :
    t # o /\ MachineOf[t] = MachineOf[o] /\ MachineOf[t] \notin gaveUp
      => pc[t] = "off" \/ pc[o] = "off"

StampNewest ==
  \A t \in Emitters : Processing(t) /\ MachineOf[t] \notin gaveUp =>
    \A r \in history : r.machine = MachineOf[t] => r.seq < seq[t]

InOrder == OneThread /\ StampNewest

LEMMA OrderRests == ASSUME InOrder, Rests PROVE InOrder'
<1>1. OneThread'
  BY DEF InOrder, OneThread, Rests
<1>2. StampNewest'
  <2>1. CASE gaveUp' = gaveUp
    BY <2>1 DEF InOrder, StampNewest, Rests
  <2>2. CASE \A t \in Emitters : pc'[t] = "off"
    BY <2>2 DEF StampNewest, Processing
  <2> QED
    BY <2>1, <2>2 DEF Rests
<1> QED
  BY <1>1, <1>2 DEF InOrder

(* A thread is started when its machine's threads have ended, or else the  *)
(* machine is one the reload gave up on.                                   *)
LEMMA OrderStamps ==
  ASSUME Base, InOrder, NEW t \in Emitters, Stamps(t)
  PROVE  InOrder'
<1>1. \/ gaveUp' = gaveUp /\ pc[t] # "off"
      \/ gaveUp' = gaveUp \cup {MachineOf[t]}
      \/ /\ gaveUp' = gaveUp \ {MachineOf[t]}
         /\ \A o \in Emitters : MachineOf[o] = MachineOf[t] => pc[o] = "off"
  BY StampFacts
<1>2. OneThread'
  BY <1>1, StampFacts DEF InOrder, OneThread
<1>3. /\ lastSeq \in [Machines -> Nat] /\ seq \in [Emitters -> Nat]
      /\ MachineOf \in [Emitters -> Machines] /\ history \subseteq Row
      /\ \A r \in history : r.seq <= lastSeq[r.machine]
  BY PipelineAssumption DEF Base, TypeInv, TypeOK, StoreTypeOK, Numbering, RowsNumbered
<1>4. StampNewest'
  <2> SUFFICES ASSUME NEW o \in Emitters, Processing(o)', MachineOf[o] \notin gaveUp',
                      NEW r \in history', r.machine = MachineOf[o]
               PROVE  r.seq < seq'[o]
    BY DEF StampNewest
  <2>1. CASE o = t
    <3>1. seq'[o] = lastSeq[MachineOf[o]] + 1 /\ r \in history
      BY <1>3, <2>1, StampFacts
    <3>2. r.seq \in Nat /\ r.seq <= lastSeq[MachineOf[o]] /\ lastSeq[MachineOf[o]] \in Nat
      BY <1>3, <3>1 DEF Row
    <3> QED
      BY <3>1, <3>2
  <2>2. CASE o # t
    <3>1. pc'[o] = pc[o] /\ seq'[o] = seq[o] /\ history' = history /\ Processing(o)
      BY <1>3, <2>2, StampFacts DEF Processing
    <3>2. MachineOf[o] \notin gaveUp
      BY <1>1, <3>1 DEF Processing
    <3> QED
      BY <3>1, <3>2 DEF InOrder, StampNewest
  <2> QED
    BY <2>1, <2>2
<1> QED
  BY <1>2, <1>4 DEF InOrder

(* A new row is the last one and has the newest seq; another thread that   *)
(* holds a seq is another machine's.                                       *)
LEMMA OrderUses ==
  ASSUME Base, InOrder, NEW t \in Emitters, Buffer(t) \/ DeadLetter(t)
  PROVE  InOrder'
<1>1. OneThread'
  BY UseFacts DEF InOrder, OneThread
<1>2. \A o \in Emitters : Processing(o)' /\ MachineOf[o] \notin gaveUp' =>
        /\ o # t /\ Processing(o) /\ seq'[o] = seq[o] /\ MachineOf[o] # MachineOf[t]
        /\ MachineOf[o] \notin gaveUp
  <2> SUFFICES ASSUME NEW o \in Emitters, Processing(o)', MachineOf[o] \notin gaveUp'
               PROVE  /\ o # t /\ Processing(o) /\ seq'[o] = seq[o]
                      /\ MachineOf[o] # MachineOf[t] /\ MachineOf[o] \notin gaveUp
    OBVIOUS
  <2>1. o # t /\ Processing(o) /\ pc[t] # "off" /\ pc[o] # "off" /\ gaveUp' = gaveUp
    BY UseFacts DEF Processing
  <2>2. seq'[o] = seq[o]
    BY <2>1, UseFacts DEF Base, TypeInv, TypeOK
  <2> QED
    BY <2>1, <2>2 DEF InOrder, OneThread
<1>3. CASE DeadLetter(t)
  <2>1. history' = history
    BY <1>3 DEF DeadLetter
  <2> QED
    BY <1>1, <1>2, <2>1 DEF InOrder, StampNewest
<1>4. CASE Buffer(t)
  <2>1. PICK new : new.machine = MachineOf[t] /\ history' = history \cup {new}
    BY <1>4, AppendFacts
  <2>2. StampNewest'
    BY <1>2, <2>1 DEF InOrder, StampNewest
  <2> QED
    BY <1>1, <2>2 DEF InOrder
<1> QED
  BY <1>3, <1>4

(* Only append() adds an envelope, and it adds the one in t's hands.       *)
LEMMA LateMeansGaveUp ==
  ASSUME Base, InOrder, [Next]_vars,
         NEW r \in history' \ history, NEW o \in history,
         r.machine = o.machine, r.seq < o.seq
  PROVE  r.machine \in gaveUp
<1>1. PICK t \in Emitters : Buffer(t)
  BY StepKinds, StampFacts DEF Rests, DeadLetter
<1>2. r.machine = MachineOf[t] /\ r.seq = seq[t] /\ Processing(t)
  BY <1>1, AppendFacts, UseFacts
<1>3. r.machine \notin gaveUp => o.seq < seq[t]
  BY <1>2 DEF InOrder, StampNewest
<1>4. o.seq \in Nat /\ seq[t] \in Nat
  BY DEF Base, TypeInv, TypeOK, Row
<1> QED
  BY <1>2, <1>3, <1>4

(* The envelopes of a machine are buffered, and so exported, in the order  *)
(* of their seqs (platform-ingestion.md 64), for any number of machines,   *)
(* reloads, crashes and dead letters; one comes late only while a thread   *)
(* that the machine's last reload gave up on may still run (cli.py 425).   *)
THEOREM EnvelopesStayInOrder == Spec => LateOnlyAfterGivingUp
<1>1. Init => InOrder
  BY DEF Init, InOrder, OneThread, StampNewest, Processing, Threads
<1>2. Base /\ InOrder /\ [Next]_vars => InOrder'
  BY StepKinds, OrderRests, OrderStamps, OrderUses
<1>3. Base /\ InOrder /\ [Next]_vars =>
        [\A r \in history' \ history, o \in history :
           r.machine = o.machine /\ r.seq < o.seq => r.machine \in gaveUp]_vars
  BY LateMeansGaveUp
<1> QED
  BY <1>1, <1>2, <1>3, Invariance, PTL DEF Spec, LateOnlyAfterGivingUp

-----------------------------------------------------------------------------
(* Gaps.  In the first life of the process, every seq that was taken is in *)
(* an envelope, in a dead letter or in the hands of one thread.            *)
Sent(m) == {r \in history : r.machine = m}
InHand(m) == {t \in Emitters : MachineOf[t] = m /\ seq[t] > 0}

(* Before the first start nothing has happened.                            *)
Untouched ==
  /\ phase = "down" /\ history = {}
  /\ \A m \in Machines : lastSeq[m] = 0 /\ dead[m] = 0
  /\ \A t \in Emitters : seq[t] = 0

Counted(m) ==
  /\ IsFiniteSet(Sent(m)) /\ IsFiniteSet(InHand(m))
  /\ lastSeq[m] = Cardinality(Sent(m)) + dead[m] + Cardinality(InHand(m))

GapInv ==
  /\ boots = 0 => Untouched
  /\ \A t \in Emitters : ~Processing(t) => seq[t] = 0
  /\ Calm => \A m \in Machines : Counted(m)

LEMMA GapTypes ==
  ASSUME Base
  PROVE  /\ lastSeq \in [Machines -> Nat] /\ dead \in [Machines -> Nat]
         /\ seq \in [Emitters -> Nat] /\ MachineOf \in [Emitters -> Machines]
         /\ \A t \in Emitters : Processing(t) => seq[t] > 0
         /\ phase = "down" => \A t \in Emitters : pc[t] = "off"
BY PipelineAssumption
   DEF Base, TypeInv, TypeOK, StoreTypeOK, Control, DownIsQuiet, Threads

(* Nothing is taken or used: the counts stay, or were all zero.            *)
LEMMA GapRests == ASSUME Base, GapInv, Rests PROVE GapInv'
<1>1. boots' = 0 => Untouched'
  <2> SUFFICES ASSUME boots' = 0 PROVE Untouched'
    OBVIOUS
  <2>1. Untouched /\ phase' = "down" /\ UNCHANGED <<lastSeq, history, dead>>
    BY DEF Rests, GapInv, Untouched
  <2>2. \A t \in Emitters : seq'[t] = 0
    BY <2>1 DEF Rests, Untouched
  <2> QED
    BY <2>1, <2>2 DEF Untouched
<1>2. \A t \in Emitters : ~Processing(t)' => seq'[t] = 0
  BY DEF Rests, GapInv
<1>3. ASSUME Calm', NEW m \in Machines PROVE Counted(m)'
  <2>1. seq' = seq /\ UNCHANGED <<lastSeq, history, dead>> /\ (Calm \/ boots = 0)
    BY <1>3 DEF Rests
  <2>2. Counted(m) => Counted(m)'
    BY <2>1 DEF Counted, Sent, InHand
  <2>3. CASE Calm
    BY <2>2, <2>3 DEF GapInv
  <2>4. CASE boots = 0
    <3>1. Untouched
      BY <2>4 DEF GapInv
    <3>2. Sent(m) = {} /\ InHand(m) = {} /\ lastSeq[m] = 0 /\ dead[m] = 0
      BY <3>1 DEF Untouched, Sent, InHand
    <3> QED
      BY <2>2, <3>2, FS_EmptySet DEF Counted
  <2> QED
    BY <2>1, <2>3, <2>4
<1> QED
  BY <1>1, <1>2, <1>3 DEF GapInv

(* A process that is down takes and uses no seq.                           *)
LEMMA GapAwake ==
  ASSUME Base, GapInv, NEW t \in Emitters, Stamps(t) \/ Buffer(t) \/ DeadLetter(t)
  PROVE  boots # 0
<1> SUFFICES ASSUME boots = 0 PROVE FALSE
  OBVIOUS
<1>1. phase = "down" /\ pc[t] = "off"
  BY GapTypes DEF GapInv, Untouched
<1>2. pc[Main] = "off"
  BY <1>1 DEF Base, TypeInv, Control, DownIsQuiet, Threads
<1> QED
  BY <1>1, <1>2 DEF Stamps, StartMachine, MainAt, Emit, Buffer, DeadLetter, Processing

(* A seq is taken: one more, in the hands of t.                            *)
LEMMA GapStamps ==
  ASSUME Base, GapInv, NEW t \in Emitters, Stamps(t)
  PROVE  GapInv'
<1>1. boots' # 0
  BY GapAwake, StampFacts
<1>2. \A o \in Emitters : ~Processing(o)' => seq'[o] = 0
  BY StampFacts, GapTypes DEF GapInv, Processing
<1>3. ASSUME Calm', NEW m \in Machines PROVE Counted(m)'
  <2>1. Counted(m)
    BY <1>3, StampFacts DEF Calm, GapInv
  <2>2. Sent(m)' = Sent(m) /\ dead'[m] = dead[m]
    BY StampFacts DEF Sent
  <2>3. CASE m = MachineOf[t]
    <3>1. seq[t] = 0 /\ seq'[t] > 0 /\ \A o \in Emitters \ {t} : seq'[o] = seq[o]
      BY StampFacts, GapTypes DEF GapInv
    <3>2. InHand(m)' = InHand(m) \cup {t} /\ t \notin InHand(m)
      BY <2>3, <3>1 DEF InHand
    <3>3. lastSeq'[m] = lastSeq[m] + 1
      BY <2>3, StampFacts, GapTypes
    <3>4. IsFiniteSet(InHand(m)') /\ Cardinality(InHand(m)') = Cardinality(InHand(m)) + 1
      BY <2>1, <3>2, FS_AddElement DEF Counted
    <3>5. Cardinality(InHand(m)) \in Nat /\ Cardinality(Sent(m)) \in Nat /\ dead[m] \in Nat
      BY <2>1, FS_CardinalityType, GapTypes DEF Counted
    <3> QED
      BY <2>1, <2>2, <3>3, <3>4, <3>5 DEF Counted
  <2>4. CASE m # MachineOf[t]
    <3>1. InHand(m)' = InHand(m)
      BY <2>4, StampFacts, GapTypes DEF InHand
    <3>2. lastSeq'[m] = lastSeq[m]
      BY <2>4, StampFacts, GapTypes
    <3> QED
      BY <2>1, <2>2, <3>1, <3>2 DEF Counted
  <2> QED
    BY <2>3, <2>4
<1> QED
  BY <1>1, <1>2, <1>3 DEF GapInv

(* A seq is used: t lets go of it, and there is one envelope more or one   *)
(* dead letter more.                                                       *)
LEMMA GapUses ==
  ASSUME Base, GapInv, NEW t \in Emitters, Buffer(t) \/ DeadLetter(t)
  PROVE  GapInv'
<1>1. boots' # 0
  BY GapAwake, UseFacts
<1>2. \A o \in Emitters : ~Processing(o)' => seq'[o] = 0
  BY UseFacts, GapTypes DEF GapInv, Processing
<1>3. ASSUME Calm', NEW m \in Machines PROVE Counted(m)'
  <2>1. Counted(m) /\ lastSeq'[m] = lastSeq[m]
    BY <1>3, UseFacts DEF Calm, GapInv
  <2>2. /\ Cardinality(InHand(m)) \in Nat /\ Cardinality(Sent(m)) \in Nat
        /\ dead[m] \in Nat /\ lastSeq[m] \in Nat
    BY <2>1, FS_CardinalityType, GapTypes DEF Counted
  <2>3. CASE m = MachineOf[t]
    <3>1. seq[t] > 0 /\ seq'[t] = 0 /\ \A o \in Emitters \ {t} : seq'[o] = seq[o]
      BY UseFacts, GapTypes
    <3>2. InHand(m)' = InHand(m) \ {t} /\ t \in InHand(m)
      BY <2>3, <3>1 DEF InHand
    <3>3. IsFiniteSet(InHand(m)') /\ Cardinality(InHand(m)') = Cardinality(InHand(m)) - 1
      BY <2>1, <3>2, FS_RemoveElement DEF Counted
    <3>4. CASE Buffer(t)
      <4>1. PICK new : /\ new.machine = MachineOf[t] /\ new \notin history
                       /\ history' = history \cup {new} /\ UNCHANGED dead
        BY <3>4, AppendFacts
      <4>2. Sent(m)' = Sent(m) \cup {new} /\ new \notin Sent(m)
        BY <2>3, <4>1 DEF Sent
      <4>3. IsFiniteSet(Sent(m)') /\ Cardinality(Sent(m)') = Cardinality(Sent(m)) + 1
        BY <2>1, <4>2, FS_AddElement DEF Counted
      <4> QED
        BY <2>1, <2>2, <3>3, <4>1, <4>3 DEF Counted
    <3>5. CASE DeadLetter(t)
      <4>1. Sent(m)' = Sent(m) /\ dead'[m] = dead[m] + 1
        BY <2>3, <3>5, GapTypes DEF DeadLetter, DeadLetterRow, Sent
      <4> QED
        BY <2>1, <2>2, <3>3, <4>1 DEF Counted
    <3> QED
      BY <3>4, <3>5
  <2>4. CASE m # MachineOf[t]
    <3>1. InHand(m)' = InHand(m)
      BY <2>4, UseFacts, GapTypes DEF InHand
    <3>2. Sent(m)' = Sent(m) /\ dead'[m] = dead[m]
      <4>1. CASE Buffer(t)
        BY <2>4, <4>1, AppendFacts DEF Sent
      <4>2. CASE DeadLetter(t)
        BY <2>4, <4>2, GapTypes DEF DeadLetter, DeadLetterRow, Sent
      <4> QED
        BY <4>1, <4>2
    <3> QED
      BY <2>1, <3>1, <3>2 DEF Counted
  <2> QED
    BY <2>3, <2>4
<1> QED
  BY <1>1, <1>2, <1>3 DEF GapInv

(* Gaps are visible, never silent (engine.py 40-63, test_engine.py 48-49): *)
(* as long as nothing was raised and the process has not died, each seq is *)
(* accounted for, whatever the threads, the dead letters and the pruning.  *)
THEOREM GapsAreExplained == Spec => []GapsAreDeadLetters
<1>1. Init => GapInv
  BY DEF Init, StoreInit, GapInv, Untouched, Calm
<1>2. Base /\ GapInv /\ [Next]_vars => GapInv'
  BY StepKinds, GapRests, GapStamps, GapUses
<1>3. GapInv => GapsAreDeadLetters
  BY DEF GapInv, GapsAreDeadLetters, Calm, Counted, Sent, InHand
<1> QED
  BY <1>1, <1>2, <1>3, Invariance, PTL DEF Spec
=============================================================================
