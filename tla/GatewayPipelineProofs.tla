----------------------- MODULE GatewayPipelineProofs ------------------------
(***************************************************************************)
(* Theorems about GatewayPipeline, for any number of machines, threads,    *)
(* destinations and restarts.  The inductive invariant IInv is proved in   *)
(* layers, each of which uses the ones before it: types, control,          *)
(* numbering, batches, and last what is acknowledged.                      *)
(***************************************************************************)
EXTENDS GatewayPipeline, TLAPS

(* A step of the system is an action of one thread, or of the process.     *)
LEMMA StepCases ==
  ASSUME NEW P,
         \A t \in Emitters : StartMachine(t) => P,
         \A t \in Emitters : Emit(t) => P,
         \A t \in Emitters : Quit(t) => P,
         \A t \in Emitters : Buffer(t) => P,
         \A t \in Emitters : DeadLetter(t) => P,
         \A t \in Emitters : ProcessRaises(t) => P,
         \A t \in Threads : Acquire(t) => P,
         \A t \in Threads : NextExporter(t) => P,
         \A t \in Threads : Read(t) => P,
         \A t \in Threads : PublishDirect(t) => P,
         \A t \in Threads : PublishBuffered(t) => P,
         \A t \in Threads : Ack(t) => P,
         \A t \in Threads : Closed(t) => P,
         \A t \in Threads : DrainRaises(t) => P,
         Boot => P, StartupDrain => P, Tick => P, Reloaded => P,
         Prune => P, Shutdown => P,
         Exit => P, Crash => P,
         UNCHANGED vars => P
  PROVE  [Next]_vars => P
BY Zenon DEF Next, EmitterStep, DrainStep, MainStep

-----------------------------------------------------------------------------
(* The row an append inserts, and the batch pending() returns, have the    *)
(* shape of rows.                                                          *)
LEMMA NewRowType ==
  ASSUME StoreTypeOK, NEW m \in Machines, NEW s \in Nat \ {0}, NEW via \in Origins
  PROVE  NewRow(m, s, via) \in Row
BY DEF StoreTypeOK, NewRow, NextRow, Row

(* A set of rows per destination stays one when one destination gets more. *)
LEMMA MoreRowsType ==
  ASSUME NEW D, NEW f \in [D -> SUBSET Row], NEW d \in D, NEW rows \in SUBSET Row
  PROVE  [f EXCEPT ![d] = @ \cup rows] \in [D -> SUBSET Row]
<1>1. f[d] \cup rows \in SUBSET Row
  OBVIOUS
<1> QED
  BY <1>1

(* Every exporter list is a list of destinations.                          *)
LEMMA ExportersType ==
  ASSUME TypeOK
  PROVE  /\ exporters \in Seq(Destinations)
         /\ \A i \in 1 .. Len(exporters) : exporters[i] \in Destinations
<1>1. CASE exporters = <<>>
  <2>1. <<>> \in Seq(Destinations) /\ Len(<<>>) = 0
    OBVIOUS
  <2> QED
    BY <1>1, <2>1
<1>2. CASE exporters \in Configs
  <2>1. exporters \in Seq(Destinations)
    BY <1>2, PipelineAssumption
  <2> QED
    BY <2>1
<1> QED
  BY <1>1, <1>2 DEF TypeOK

(* The first layer.                                                        *)
TypeInv == TypeOK /\ Control

(* At first nothing runs and every table is empty.                         *)
LEMMA InitTypeInv == Init => TypeInv
<1> SUFFICES ASSUME Init PROVE TypeInv
  OBVIOUS
<1>1. StoreTypeOK
  BY DEF Init, StoreInit, StoreTypeOK
<1>2. Len(exporters) = 0
  BY DEF Init
<1>3. TypeOK
  <2>1. pos \in [Threads -> 0 .. Len(exporters)]
    BY <1>2 DEF Init
  <2>2. staged \in [Buffered -> SUBSET Row] /\ batch \in [Threads -> SUBSET Row]
    BY DEF Init
  <2>3. accepted \in [Destinations -> SUBSET Row]
    BY DEF Init
  <2> QED
    BY <1>1, <2>1, <2>2, <2>3 DEF Init, TypeOK, PCs
<1>4. Control
  BY DEF Init, Control, DownIsQuiet, Draining, Processing, Threads
<1> QED
  BY <1>3, <1>4 DEF TypeInv

(* A process that has gone leaves types and control intact.                *)
LEMMA ProcessGoneType ==
  ASSUME TypeOK, ProcessGone,
         UNCHANGED <<storeVars, history>>,
         accepted' \in [Destinations -> SUBSET Row],
         boots' \in Nat, faults' \in Nat
  PROVE  TypeInv'
<1>1. StoreTypeOK'
  BY DEF TypeOK, StoreTypeOK, storeVars
<1>2. Len(exporters') = 0
  BY DEF ProcessGone
<1>3. pos' \in [Threads -> 0 .. Len(exporters')]
  BY <1>2 DEF ProcessGone
<1>4. history' \in SUBSET Row
  BY DEF TypeOK
<1>5. staged' \in [Buffered -> SUBSET Row] /\ batch' \in [Threads -> SUBSET Row]
  BY DEF ProcessGone
<1>6. TypeOK'
  BY <1>1, <1>3, <1>4, <1>5 DEF TypeOK, ProcessGone, PCs
<1>7. Control'
  BY DEF ProcessGone, Control, DownIsQuiet, Draining, Processing, Threads
<1> QED
  BY <1>6, <1>7 DEF TypeInv

(* A thread gains and loses its place in the exporter list, and its seq,   *)
(* in the same step as its place in the code.                              *)
LEMMA NextControl == TypeInv /\ [Next]_vars => Control'
<1> SUFFICES ASSUME TypeInv PROVE [Next]_vars => Control'
  OBVIOUS
<1> USE PipelineAssumption DEF TypeInv, Control, DownIsQuiet, Draining, Processing, Goto,
        Threads, PCs
<1>a. /\ pc \in [Threads -> PCs] /\ seq \in [Emitters -> Nat]
      /\ pos \in [Threads -> 0 .. Len(exporters)]
      /\ lastSeq \in [Machines -> Nat]
      /\ exporters \in Seq(Destinations)
  BY ExportersType DEF TypeOK, StoreTypeOK
<1>b. TypeOK
  OBVIOUS
<1>1. ASSUME NEW t \in Emitters, StartMachine(t) PROVE Control'
  <2>1. phase \in {"boot", "run"}
    BY <1>1 DEF StartMachine, MainAt
  <2>2. t \in Threads /\ pc[t] = "off" /\ lastSeq[MachineOf[t]] + 1 > 0
    BY <1>1, <1>a DEF StartMachine
  <2>3. /\ pc' = [pc EXCEPT ![t] = "announce"]
        /\ seq' = [seq EXCEPT ![t] = lastSeq[MachineOf[t]] + 1]
        /\ UNCHANGED <<phase, exporters, pos>>
    BY <1>1 DEF StartMachine, NextSeq
  <2> QED
    BY <1>a, <2>1, <2>2, <2>3
<1>2. ASSUME NEW t \in Emitters, Emit(t) PROVE Control'
  <2>1. t \in Threads /\ pc[t] = "idle" /\ lastSeq[MachineOf[t]] + 1 > 0
    BY <1>2, <1>a DEF Emit
  <2>2. /\ pc' = [pc EXCEPT ![t] = "stamped"]
        /\ seq' = [seq EXCEPT ![t] = lastSeq[MachineOf[t]] + 1]
        /\ UNCHANGED <<phase, exporters, pos>>
    BY <1>2 DEF Emit, NextSeq
  <2> QED
    BY <1>a, <2>1, <2>2
<1>3. ASSUME NEW t \in Emitters, Quit(t) PROVE Control'
  BY <1>3, <1>a DEF Quit
<1>4. ASSUME NEW t \in Emitters, Buffer(t) PROVE Control'
  BY <1>4, <1>a DEF Buffer, AfterProcess
<1>5. ASSUME NEW t \in Emitters, DeadLetter(t) PROVE Control'
  BY <1>5, <1>a DEF DeadLetter, AfterProcess
<1>6. ASSUME NEW t \in Emitters, ProcessRaises(t) PROVE Control'
  BY <1>6, <1>a DEF ProcessRaises
<1>7. ASSUME NEW t \in Threads, Acquire(t) PROVE Control'
  BY <1>7, <1>a DEF Acquire
<1>8. ASSUME NEW t \in Threads, NextExporter(t) PROVE Control'
  BY <1>8, <1>a DEF NextExporter, Release
<1>9. ASSUME NEW t \in Threads, Read(t) PROVE Control'
  BY <1>9, <1>a DEF Read
<1>10. ASSUME NEW t \in Threads, PublishDirect(t) PROVE Control'
  BY <1>10, <1>a DEF PublishDirect
<1>11. ASSUME NEW t \in Threads, PublishBuffered(t) PROVE Control'
  BY <1>11, <1>a DEF PublishBuffered
<1>12. ASSUME NEW t \in Threads, Ack(t) PROVE Control'
  BY <1>12, <1>a DEF Ack
<1>13. ASSUME NEW t \in Threads, Closed(t) PROVE Control'
  BY <1>13, <1>a DEF Closed, Release
<1>14. ASSUME NEW t \in Threads, DrainRaises(t) PROVE Control'
  <2>1. CASE t = Main
    BY <1>14, <2>1 DEF DrainRaises, ProcessGone
  <2>2. CASE t # Main
    BY <1>14, <1>a, <2>2 DEF DrainRaises, Release
  <2> QED
    BY <2>1, <2>2
<1>15. ASSUME Boot PROVE Control'
  <2>1. exporters' \in Seq(Destinations) /\ exporters' # <<>>
    BY <1>15 DEF Boot
  <2>2. Len(exporters') > 0
    BY <2>1
  <2> QED
    BY <1>15, <1>a, <2>2 DEF Boot
<1>16. ASSUME StartupDrain PROVE Control'
  BY <1>16, <1>a DEF StartupDrain, MainFree, MainAt
<1>17. ASSUME Prune PROVE Control'
  BY <1>17, <1>a DEF Prune, MainAt
<1>18. ASSUME Shutdown PROVE Control'
  BY <1>18, <1>a DEF Shutdown, MainFree, MainAt
<1>19. ASSUME Exit PROVE Control'
  BY <1>19 DEF Exit, ProcessGone
<1>20. ASSUME Crash PROVE Control'
  BY <1>20 DEF Crash, ProcessGone
<1>21. ASSUME UNCHANGED vars PROVE Control'
  BY <1>21 DEF vars, procVars
<1>22. ASSUME Tick PROVE Control'
  BY <1>22, <1>a DEF Tick, MainFree, MainAt
<1>23. ASSUME Reloaded PROVE Control'
  BY <1>23, <1>a DEF Reloaded, MainAt
<1> QED
  BY <1>1, <1>2, <1>3, <1>4, <1>5, <1>6, <1>7, <1>8, <1>9, <1>10, <1>11, <1>12,
     <1>13, <1>14, <1>15, <1>16, <1>17, <1>18, <1>19, <1>20, <1>21,
     <1>22, <1>23, StepCases

(* The variables keep their types: the store's counters are numbers, its   *)
(* rows well-formed, and a thread never drains past the exporter list.     *)
LEMMA NextType == TypeInv /\ [Next]_vars => TypeOK'
<1> SUFFICES ASSUME TypeInv PROVE [Next]_vars => TypeOK'
  OBVIOUS
<1> USE PipelineAssumption DEF Goto, PCs
<1>a. TypeOK /\ StoreTypeOK /\ Control
  BY DEF TypeInv, TypeOK
<1>b. ASSUME UNCHANGED storeVars PROVE StoreTypeOK'
  BY <1>a, <1>b DEF StoreTypeOK, storeVars
<1>c. ASSUME NEW m \in Machines, TakeSeq(m) PROVE StoreTypeOK'
  BY <1>a, <1>c DEF StoreTypeOK, TakeSeq, NextSeq
<1>d. Emitters \subseteq Threads /\ Main \in Threads
  BY DEF Threads
<1>1. ASSUME NEW t \in Emitters, StartMachine(t) PROVE TypeOK'
  <2>1. StoreTypeOK'
    BY <1>1, <1>c DEF StartMachine
  <2>2. seq' \in [Emitters -> Nat]
    BY <1>1, <1>a DEF StartMachine, TypeOK, StoreTypeOK, NextSeq
  <2> QED
    BY <1>1, <1>a, <1>d, <2>1, <2>2 DEF StartMachine, TypeOK
<1>2. ASSUME NEW t \in Emitters, Emit(t) PROVE TypeOK'
  <2>1. StoreTypeOK'
    BY <1>2, <1>c DEF Emit
  <2>2. seq' \in [Emitters -> Nat]
    BY <1>2, <1>a DEF Emit, TypeOK, StoreTypeOK, NextSeq
  <2> QED
    BY <1>2, <1>a, <1>d, <2>1, <2>2 DEF Emit, TypeOK
<1>3. ASSUME NEW t \in Emitters, Quit(t) PROVE TypeOK'
  BY <1>3, <1>a, <1>b, <1>d DEF Quit, TypeOK
<1>4. ASSUME NEW t \in Emitters, Buffer(t) PROVE TypeOK'
  <2> DEFINE via == IF pc[t] = "announce" THEN phase ELSE "emit"
             new == NewRow(MachineOf[t], seq[t], via)
  <2>1. via \in Origins
    BY <1>4, <1>a DEF Buffer, Processing, Control, Origins
  <2>2. seq[t] \in Nat \ {0}
    BY <1>4, <1>a DEF Buffer, Control, TypeOK
  <2>3. new \in Row
    BY <1>a, <2>1, <2>2, NewRowType
  <2>4. /\ buffer' = buffer \cup {new} /\ history' = history \cup {new}
        /\ lastRow' = lastRow + 1
        /\ UNCHANGED <<lastSeq, cursors, dead>>
    BY <1>4 DEF Buffer, AppendRow, NextRow
  <2> HIDE DEF new, via
  <2>5. StoreTypeOK'
    BY <1>a, <2>3, <2>4 DEF StoreTypeOK
  <2>6. history' \in SUBSET Row
    BY <1>a, <2>3, <2>4 DEF TypeOK
  <2> QED
    BY <1>4, <1>a, <1>d, <2>5, <2>6 DEF Buffer, AfterProcess, TypeOK
<1>5. ASSUME NEW t \in Emitters, DeadLetter(t) PROVE TypeOK'
  <2>1. StoreTypeOK'
    BY <1>5, <1>a DEF DeadLetter, DeadLetterRow, StoreTypeOK
  <2> QED
    BY <1>5, <1>a, <1>d, <2>1 DEF DeadLetter, AfterProcess, TypeOK
<1>6. ASSUME NEW t \in Emitters, ProcessRaises(t) PROVE TypeOK'
  BY <1>6, <1>a, <1>b, <1>d DEF ProcessRaises, TypeOK
<1>7. ASSUME NEW t \in Threads, Acquire(t) PROVE TypeOK'
  <2>1. Len(exporters) \in Nat /\ Len(exporters) > 0
    BY <1>7, <1>a, ExportersType DEF Acquire, Control, DownIsQuiet
  <2>2. pos' \in [Threads -> 0 .. Len(exporters')]
    BY <1>7, <1>a, <2>1 DEF Acquire, TypeOK
  <2> QED
    BY <1>7, <1>a, <1>b, <2>2 DEF Acquire, TypeOK
<1>e. ASSUME NEW t \in Threads, Release(t), UNCHANGED exporters
      PROVE  /\ lock' = NoThread
             /\ pos' \in [Threads -> 0 .. Len(exporters')]
             /\ batch' \in [Threads -> SUBSET Row]
  BY <1>a, <1>e, ExportersType DEF Release, TypeOK
<1>8. ASSUME NEW t \in Threads, NextExporter(t) PROVE TypeOK'
  <2>1. CASE HasNext(t)
    <3>1. pos[t] \in Nat /\ Len(exporters) \in Nat
      BY <1>a, ExportersType DEF TypeOK
    <3>2. pos' = [pos EXCEPT ![t] = pos[t] + 1] /\ pos[t] + 1 \in 0 .. Len(exporters')
      BY <1>8, <2>1, <3>1 DEF NextExporter, HasNext
    <3>3. pos' \in [Threads -> 0 .. Len(exporters')]
      BY <1>8, <1>a, <3>2 DEF NextExporter, TypeOK
    <3> QED
      BY <1>8, <1>a, <1>b, <2>1, <3>3 DEF NextExporter, TypeOK
  <2>2. CASE ~HasNext(t)
    BY <1>8, <1>a, <1>b, <1>e, <2>2 DEF NextExporter, TypeOK
  <2> QED
    BY <2>1, <2>2
<1>9. ASSUME NEW t \in Threads, Read(t) PROVE TypeOK'
  <2>1. PICK b \in Pending(NameOf[Target(t)]) : batch' = [batch EXCEPT ![t] = b]
    BY <1>9 DEF Read
  <2>2. b \subseteq Row
    BY <1>a, <2>1 DEF Pending, After, StoreTypeOK
  <2>3. batch' \in [Threads -> SUBSET Row]
    BY <1>a, <2>1, <2>2 DEF TypeOK
  <2> QED
    BY <1>9, <1>a, <1>b, <2>3 DEF Read, TypeOK
<1>f. \A t \in Threads : batch[t] \subseteq Row
  BY <1>a DEF TypeOK
<1>10. ASSUME NEW t \in Threads, PublishDirect(t) PROVE TypeOK'
  <2>1. accepted' \in [Destinations -> SUBSET Row]
    <3>1. PICK r \in batch[t] : Accept(Target(t), {r})
      BY <1>10 DEF PublishDirect
    <3>2. {r} \in SUBSET Row /\ Target(t) \in Destinations
      BY <1>10, <1>f DEF PublishDirect, Direct
    <3> QED
      BY <1>a, <3>1, <3>2, MoreRowsType DEF Accept, TypeOK
  <2> QED
    BY <1>10, <1>a, <1>b, <2>1 DEF PublishDirect, TypeOK
<1>11. ASSUME NEW t \in Threads, PublishBuffered(t) PROVE TypeOK'
  <2>1. PICK r \in batch[t] :
          \/ /\ staged' = [staged EXCEPT ![Target(t)] = @ \cup {r}]
             /\ UNCHANGED accepted
          \/ /\ Accept(Target(t), staged[Target(t)] \cup {r})
             /\ staged' = [staged EXCEPT ![Target(t)] = {}]
    BY <1>11 DEF PublishBuffered
  <2>2. {r} \in SUBSET Row /\ Target(t) \in Destinations /\ Target(t) \in Buffered
    BY <1>11, <1>f DEF PublishBuffered
  <2>3. staged \in [Buffered -> SUBSET Row] /\ accepted \in [Destinations -> SUBSET Row]
    BY <1>a DEF TypeOK
  <2>4. staged[Target(t)] \cup {r} \in SUBSET Row
    BY <2>2, <2>3
  <2>5. accepted' \in [Destinations -> SUBSET Row]
    BY <2>1, <2>2, <2>3, <2>4, MoreRowsType DEF Accept
  <2>6. staged' \in [Buffered -> SUBSET Row]
    <3>1. [staged EXCEPT ![Target(t)] = @ \cup {r}] \in [Buffered -> SUBSET Row]
      BY <2>2, <2>3, MoreRowsType
    <3>2. [staged EXCEPT ![Target(t)] = {}] \in [Buffered -> SUBSET Row]
      BY <2>3
    <3> QED
      BY <2>1, <3>1, <3>2
  <2> QED
    BY <1>11, <1>a, <1>b, <2>5, <2>6 DEF PublishBuffered, TypeOK
<1>12. ASSUME NEW t \in Threads, Ack(t) PROVE TypeOK'
  <2>1. PICK r \in batch[t] :
          /\ IF r \in RowsToAck(t) THEN AckRow(NameOf[Target(t)], r.row)
                                   ELSE UNCHANGED storeVars
          /\ batch' = [batch EXCEPT ![t] = @ \ {r}]
          /\ Goto(t, IF batch[t] = {r} THEN "read" ELSE "publish")
    BY <1>12 DEF Ack
  <2>2. r.row \in Nat
    BY <1>f DEF Row
  <2>3. cursors' \in [Names -> Nat]
    BY <1>a, <2>1, <2>2 DEF AckRow, AckCursor, StoreTypeOK, storeVars
  <2>4. StoreTypeOK'
    BY <1>a, <2>1, <2>3 DEF AckRow, StoreTypeOK, storeVars
  <2>5. batch' \in [Threads -> SUBSET Row]
    BY <1>a, <2>1 DEF TypeOK
  <2> QED
    BY <1>12, <1>a, <2>1, <2>4, <2>5 DEF Ack, TypeOK
<1>13. ASSUME NEW t \in Threads, Closed(t) PROVE TypeOK'
  <2>1. staged' \in [Buffered -> SUBSET Row]
    BY <1>13, <1>a DEF Closed, TypeOK
  <2> QED
    BY <1>13, <1>a, <1>b, <1>e, <2>1 DEF Closed, TypeOK
<1>14. ASSUME NEW t \in Threads, DrainRaises(t) PROVE TypeOK'
  <2>1. CASE t = Main
    BY <1>14, <1>a, <2>1, ProcessGoneType DEF DrainRaises, TypeOK, TypeInv
  <2>2. CASE t # Main
    <3>1. /\ lock' = NoThread
          /\ pos' \in [Threads -> 0 .. Len(exporters')]
          /\ batch' \in [Threads -> SUBSET Row]
      BY <1>14, <1>e, <2>2 DEF DrainRaises
    <3>2. pc' \in [Threads -> PCs]
      BY <1>14, <1>a, <2>2 DEF DrainRaises, TypeOK
    <3> QED
      BY <1>14, <1>a, <1>b, <2>2, <3>1, <3>2 DEF DrainRaises, TypeOK
  <2> QED
    BY <2>1, <2>2
<1>15. ASSUME Boot PROVE TypeOK'
  <2>1. exporters' \in Configs /\ exporters' \in Seq(Destinations)
    BY <1>15 DEF Boot
  <2>2. \A t \in Threads : pos[t] = 0
    BY <1>15, <1>a DEF Boot, Control, DownIsQuiet, Draining
  <2>3. pos' \in [Threads -> 0 .. Len(exporters')]
    BY <1>15, <1>a, <2>1, <2>2 DEF Boot, TypeOK
  <2> QED
    BY <1>15, <1>a, <1>b, <1>d, <2>1, <2>3 DEF Boot, TypeOK
<1>16. ASSUME StartupDrain PROVE TypeOK'
  BY <1>16, <1>a, <1>b, <1>d DEF StartupDrain, TypeOK
<1>17. ASSUME Prune PROVE TypeOK'
  <2>1. StoreTypeOK'
    BY <1>17, <1>a DEF Prune, PruneRows, StoreTypeOK
  <2> QED
    BY <1>17, <1>a, <2>1 DEF Prune, TypeOK
<1>18. ASSUME Shutdown PROVE TypeOK'
  BY <1>18, <1>a, <1>b, <1>d DEF Shutdown, TypeOK
<1>19. ASSUME Exit PROVE TypeOK'
  <2>1. accepted' \in [Destinations -> SUBSET Row]
    BY <1>19, <1>a DEF Exit, TypeOK
  <2> QED
    BY <1>19, <1>a, <2>1, ProcessGoneType DEF Exit, TypeOK, TypeInv
<1>20. ASSUME Crash PROVE TypeOK'
  BY <1>20, <1>a, ProcessGoneType DEF Crash, TypeOK, TypeInv
<1>21. ASSUME UNCHANGED vars PROVE TypeOK'
  BY <1>21, <1>a, <1>b DEF vars, procVars, TypeOK
<1>22. ASSUME Tick PROVE TypeOK'
  BY <1>22, <1>a, <1>b, <1>d DEF Tick, TypeOK
<1>23. ASSUME Reloaded PROVE TypeOK'
  BY <1>23, <1>a, <1>b, <1>d DEF Reloaded, TypeOK
<1> QED
  BY <1>1, <1>2, <1>3, <1>4, <1>5, <1>6, <1>7, <1>8, <1>9, <1>10, <1>11, <1>12,
     <1>13, <1>14, <1>15, <1>16, <1>17, <1>18, <1>19, <1>20, <1>21,
     <1>22, <1>23, StepCases

(* Every variable of the gateway keeps its type, whatever the threads do:  *)
(* counters are numbers, rows well-formed, and no thread's place in the    *)
(* exporter list is past the end of the list of this process.              *)
THEOREM TypeCorrect == Spec => []TypeOK
<1>1. Spec => []TypeInv
  <2>1. TypeInv /\ [Next]_vars => TypeInv'
    BY NextControl, NextType DEF TypeInv
  <2> QED
    BY <2>1, InitTypeInv, PTL DEF Spec
<1>2. TypeInv => TypeOK
  BY DEF TypeInv
<1> QED
  BY <1>1, <1>2, PTL
-----------------------------------------------------------------------------
(* The second layer: the drain lock excludes.                              *)
LEMMA NextExclusive == TypeInv /\ DrainExclusive /\ [Next]_vars => DrainExclusive'
<1> SUFFICES ASSUME TypeInv, DrainExclusive PROVE [Next]_vars => DrainExclusive'
  OBVIOUS
<1> USE PipelineAssumption DEF DrainExclusive, Draining, Goto
<1>a. pc \in [Threads -> PCs] /\ Emitters \subseteq Threads /\ Main \in Threads
      /\ NoThread \notin Threads
  BY DEF TypeInv, TypeOK, Threads
<1>1. ASSUME NEW t \in Emitters, StartMachine(t) PROVE DrainExclusive'
  BY <1>1, <1>a DEF StartMachine
<1>2. ASSUME NEW t \in Emitters, Emit(t) PROVE DrainExclusive'
  BY <1>2, <1>a DEF Emit
<1>3. ASSUME NEW t \in Emitters, Quit(t) PROVE DrainExclusive'
  BY <1>3, <1>a DEF Quit
<1>4. ASSUME NEW t \in Emitters, Buffer(t) PROVE DrainExclusive'
  BY <1>4, <1>a DEF Buffer, AfterProcess
<1>5. ASSUME NEW t \in Emitters, DeadLetter(t) PROVE DrainExclusive'
  BY <1>5, <1>a DEF DeadLetter, AfterProcess
<1>6. ASSUME NEW t \in Emitters, ProcessRaises(t) PROVE DrainExclusive'
  BY <1>6, <1>a DEF ProcessRaises
<1>7. ASSUME NEW t \in Threads, Acquire(t) PROVE DrainExclusive'
  BY <1>7, <1>a DEF Acquire, LockFree
<1>8. ASSUME NEW t \in Threads, NextExporter(t) PROVE DrainExclusive'
  BY <1>8, <1>a DEF NextExporter, Release
<1>9. ASSUME NEW t \in Threads, Read(t) PROVE DrainExclusive'
  BY <1>9, <1>a DEF Read
<1>10. ASSUME NEW t \in Threads, PublishDirect(t) PROVE DrainExclusive'
  BY <1>10, <1>a DEF PublishDirect
<1>11. ASSUME NEW t \in Threads, PublishBuffered(t) PROVE DrainExclusive'
  BY <1>11, <1>a DEF PublishBuffered
<1>12. ASSUME NEW t \in Threads, Ack(t) PROVE DrainExclusive'
  BY <1>12, <1>a DEF Ack
<1>13. ASSUME NEW t \in Threads, Closed(t) PROVE DrainExclusive'
  BY <1>13, <1>a DEF Closed, Release
<1>14. ASSUME NEW t \in Threads, DrainRaises(t) PROVE DrainExclusive'
  <2>1. CASE t = Main
    BY <1>14, <2>1 DEF DrainRaises, ProcessGone
  <2>2. CASE t # Main
    BY <1>14, <1>a, <2>2 DEF DrainRaises, Release
  <2> QED
    BY <2>1, <2>2
<1>15. ASSUME Boot PROVE DrainExclusive'
  BY <1>15, <1>a DEF Boot
<1>16. ASSUME StartupDrain PROVE DrainExclusive'
  BY <1>16, <1>a DEF StartupDrain
<1>17. ASSUME Prune PROVE DrainExclusive'
  BY <1>17, <1>a DEF Prune
<1>18. ASSUME Shutdown PROVE DrainExclusive'
  BY <1>18, <1>a DEF Shutdown
<1>19. ASSUME Exit PROVE DrainExclusive'
  BY <1>19 DEF Exit, ProcessGone
<1>20. ASSUME Crash PROVE DrainExclusive'
  BY <1>20 DEF Crash, ProcessGone
<1>21. ASSUME UNCHANGED vars PROVE DrainExclusive'
  BY <1>21 DEF vars, procVars
<1>22. ASSUME Tick PROVE DrainExclusive'
  BY <1>22, <1>a DEF Tick
<1>23. ASSUME Reloaded PROVE DrainExclusive'
  BY <1>23, <1>a DEF Reloaded
<1> QED
  BY <1>1, <1>2, <1>3, <1>4, <1>5, <1>6, <1>7, <1>8, <1>9, <1>10, <1>11, <1>12,
     <1>13, <1>14, <1>15, <1>16, <1>17, <1>18, <1>19, <1>20, <1>21,
     <1>22, <1>23, StepCases

-----------------------------------------------------------------------------
(* The third layer: rowids and seqs are never used twice.                  *)
Numbering == RowsNumbered /\ StampsFresh /\ KeysUnique

(* A step that takes no seq and appends no row keeps the numbering.        *)
LEMMA NumberingFrame ==
  ASSUME Numbering,
         UNCHANGED <<lastSeq, lastRow, history>>,
         buffer' \subseteq buffer,
         \A t \in Emitters :
           pc'[t] \in {"announce", "stamped"} =>
             pc[t] \in {"announce", "stamped"} /\ seq'[t] = seq[t]
  PROVE  Numbering'
<1>1. RowsNumbered'
  BY DEF Numbering, RowsNumbered
<1>2. StampsFresh'
  BY DEF Numbering, StampsFresh, Processing
<1>3. KeysUnique'
  BY DEF Numbering, KeysUnique
<1> QED
  BY <1>1, <1>2, <1>3 DEF Numbering

(* next_seq() gives thread t the number after every number given so far.   *)
LEMMA TakeSeqNumbering ==
  ASSUME TypeInv, Numbering, NEW t \in Emitters,
         TakeSeq(MachineOf[t]),
         seq' = [seq EXCEPT ![t] = NextSeq(MachineOf[t])],
         UNCHANGED history,
         \A o \in Emitters \ {t} : pc'[o] = pc[o]
  PROVE  Numbering'
<1> DEFINE m == MachineOf[t]
<1>1. /\ m \in Machines /\ \A o \in Emitters : MachineOf[o] \in Machines
      /\ lastSeq \in [Machines -> Nat] /\ seq \in [Emitters -> Nat]
      /\ history \subseteq Row
  BY PipelineAssumption DEF TypeInv, TypeOK, StoreTypeOK
<1>2. /\ lastSeq' = [lastSeq EXCEPT ![m] = lastSeq[m] + 1]
      /\ seq' = [seq EXCEPT ![t] = lastSeq[m] + 1]
      /\ UNCHANGED <<buffer, lastRow, history>>
  BY DEF TakeSeq, NextSeq
<1>3. \A k \in Machines : lastSeq[k] <= lastSeq'[k]
  BY <1>1, <1>2
<1>4. \A r \in history : r.machine \in Machines /\ r.seq \in Nat
  BY <1>1 DEF Row
<1>5. RowsNumbered'
  BY <1>1, <1>2, <1>3, <1>4 DEF Numbering, RowsNumbered
<1>6. KeysUnique'
  BY <1>2 DEF Numbering, KeysUnique
<1>7. \A r \in history : r.machine = m => r.seq < seq'[t]
  BY <1>1, <1>2, <1>4 DEF Numbering, RowsNumbered
<1>8. \A o \in Emitters \ {t} :
        Processing(o)' => Processing(o) /\ seq'[o] = seq[o] /\ seq[o] <= lastSeq[MachineOf[o]]
  BY <1>1, <1>2 DEF Numbering, StampsFresh, Processing
<1>9. StampsFresh'
  <2> SUFFICES ASSUME NEW o \in Emitters, Processing(o)'
               PROVE  /\ seq'[o] <= lastSeq'[MachineOf[o]]
                      /\ \A r \in history : r.machine = MachineOf[o] => r.seq # seq'[o]
                      /\ \A u \in Emitters :
                           u # o /\ Processing(u)' /\ MachineOf[u] = MachineOf[o]
                             => seq'[u] # seq'[o]
    BY <1>2 DEF StampsFresh
  <2>1. CASE o = t
    <3>1. ASSUME NEW u \in Emitters, u # o, Processing(u)', MachineOf[u] = MachineOf[o]
          PROVE  seq'[u] < seq'[o]
      <4>1. seq'[u] = seq[u] /\ seq[u] <= lastSeq[m]
        BY <1>8, <2>1, <3>1
      <4>2. seq'[o] = lastSeq[m] + 1 /\ lastSeq[m] \in Nat /\ seq[u] \in Nat
        BY <1>1, <1>2, <2>1
      <4> QED
        BY <4>1, <4>2
    <3>2. seq'[o] <= lastSeq'[MachineOf[o]]
      BY <1>1, <1>2, <2>1
    <3>3. \A r \in history : r.machine = MachineOf[o] => r.seq # seq'[o]
      BY <1>4, <1>7, <2>1
    <3>4. ASSUME NEW u \in Emitters, u # o, Processing(u)', MachineOf[u] = MachineOf[o]
          PROVE  seq'[u] # seq'[o]
      <4>1. \A v \in Emitters : seq'[v] \in Nat
        BY <1>1, <1>2
      <4> QED
        BY <3>1, <3>4, <4>1
    <3> QED
      BY <3>2, <3>3, <3>4
  <2>2. CASE o # t
    <3>1. Processing(o) /\ seq'[o] = seq[o] /\ seq[o] <= lastSeq[MachineOf[o]]
      BY <1>8, <2>2
    <3>2. seq'[o] <= lastSeq'[MachineOf[o]]
      <4>1. /\ lastSeq[MachineOf[o]] \in Nat /\ lastSeq'[MachineOf[o]] \in Nat
            /\ seq'[o] \in Nat
        BY <1>1, <1>2
      <4> QED
        BY <1>1, <1>3, <3>1, <4>1
    <3>3. \A r \in history : r.machine = MachineOf[o] => r.seq # seq'[o]
      BY <3>1 DEF Numbering, StampsFresh
    <3>4. ASSUME NEW u \in Emitters, u # o, Processing(u)', MachineOf[u] = MachineOf[o]
          PROVE  seq'[u] # seq'[o]
      <4>1. CASE u = t
        BY <1>1, <1>2, <3>1, <3>4, <4>1
      <4>2. CASE u # t
        BY <1>8, <3>1, <3>4, <4>2 DEF Numbering, StampsFresh
      <4> QED
        BY <4>1, <4>2
    <3> QED
      BY <3>2, <3>3, <3>4
  <2> QED
    BY <2>1, <2>2
<1> QED
  BY <1>5, <1>6, <1>9 DEF Numbering

(* append() gives the row the next rowid and the seq in t's hands.         *)
LEMMA BufferNumbering ==
  ASSUME TypeInv, Numbering, NEW t \in Emitters, Buffer(t)
  PROVE  Numbering'
<1> DEFINE via == IF pc[t] = "announce" THEN phase ELSE "emit"
           new == NewRow(MachineOf[t], seq[t], via)
<1>1. /\ history \subseteq Row /\ lastRow \in Nat /\ seq \in [Emitters -> Nat]
      /\ pc \in [Threads -> PCs] /\ Emitters \subseteq Threads
      /\ MachineOf[t] \in Machines /\ lastSeq \in [Machines -> Nat]
  BY PipelineAssumption DEF TypeInv, TypeOK, StoreTypeOK, Threads
<1>2. /\ buffer' = buffer \cup {new} /\ history' = history \cup {new}
      /\ lastRow' = lastRow + 1 /\ lastSeq' = lastSeq
      /\ new.row = lastRow + 1 /\ new.machine = MachineOf[t] /\ new.seq = seq[t]
  BY DEF Buffer, AppendRow, NewRow, NextRow
<1>3. Processing(t)
  BY DEF Buffer
<1>4. /\ seq[t] <= lastSeq[MachineOf[t]]
      /\ \A r \in history : r.machine = MachineOf[t] => r.seq # seq[t]
  BY <1>3 DEF Numbering, StampsFresh
<1>5. \A o \in Emitters : Processing(o)' =>
        o # t /\ Processing(o) /\ seq'[o] = seq[o]
  BY <1>1 DEF Buffer, AfterProcess, Goto, Processing
<1>6. \A r \in history : r.row \in Nat /\ r.row <= lastRow
  BY <1>1 DEF Numbering, RowsNumbered, Row
<1> HIDE DEF new, via
<1>7. RowsNumbered'
  BY <1>1, <1>2, <1>4, <1>6 DEF Numbering, RowsNumbered
<1>8. KeysUnique'
  BY <1>2, <1>4 DEF Numbering, KeysUnique
<1>9. StampsFresh'
  BY <1>2, <1>3, <1>5 DEF Numbering, StampsFresh
<1> QED
  BY <1>7, <1>8, <1>9 DEF Numbering

(* At first no row exists and no thread holds a seq.                       *)
LEMMA InitNumbering == Init => Numbering
BY DEF Init, StoreInit, Numbering, RowsNumbered, StampsFresh, KeysUnique, Processing, Threads

(* Numbering is kept: only next_seq() makes a stamp, only append() uses it. *)
LEMMA NextNumbering == TypeInv /\ Numbering /\ [Next]_vars => Numbering'
<1> SUFFICES ASSUME TypeInv, Numbering PROVE [Next]_vars => Numbering'
  OBVIOUS
<1> USE PipelineAssumption DEF Goto, storeVars
<1>a. /\ pc \in [Threads -> PCs] /\ Emitters \subseteq Threads
      /\ seq \in [Emitters -> Nat]
  BY DEF TypeInv, TypeOK, Threads
<1>1. ASSUME NEW t \in Emitters, StartMachine(t) PROVE Numbering'
  BY <1>1, <1>a, TakeSeqNumbering DEF StartMachine
<1>2. ASSUME NEW t \in Emitters, Emit(t) PROVE Numbering'
  BY <1>2, <1>a, TakeSeqNumbering DEF Emit
<1>3. ASSUME NEW t \in Emitters, Quit(t) PROVE Numbering'
  BY <1>3, <1>a, NumberingFrame DEF Quit
<1>4. ASSUME NEW t \in Emitters, Buffer(t) PROVE Numbering'
  BY <1>4, BufferNumbering
<1>5. ASSUME NEW t \in Emitters, DeadLetter(t) PROVE Numbering'
  BY <1>5, <1>a, NumberingFrame DEF DeadLetter, DeadLetterRow, AfterProcess
<1>6. ASSUME NEW t \in Emitters, ProcessRaises(t) PROVE Numbering'
  BY <1>6, <1>a, NumberingFrame DEF ProcessRaises
<1>7. ASSUME NEW t \in Threads, Acquire(t) PROVE Numbering'
  BY <1>7, <1>a, NumberingFrame DEF Acquire
<1>8. ASSUME NEW t \in Threads, NextExporter(t) PROVE Numbering'
  BY <1>8, <1>a, NumberingFrame DEF NextExporter
<1>9. ASSUME NEW t \in Threads, Read(t) PROVE Numbering'
  BY <1>9, <1>a, NumberingFrame DEF Read
<1>10. ASSUME NEW t \in Threads, PublishDirect(t) PROVE Numbering'
  BY <1>10, <1>a, NumberingFrame DEF PublishDirect
<1>11. ASSUME NEW t \in Threads, PublishBuffered(t) PROVE Numbering'
  BY <1>11, <1>a, NumberingFrame DEF PublishBuffered
<1>12. ASSUME NEW t \in Threads, Ack(t) PROVE Numbering'
  BY <1>12, <1>a, NumberingFrame DEF Ack, AckRow
<1>13. ASSUME NEW t \in Threads, Closed(t) PROVE Numbering'
  BY <1>13, <1>a, NumberingFrame DEF Closed
<1>14. ASSUME NEW t \in Threads, DrainRaises(t) PROVE Numbering'
  <2>1. CASE t = Main
    BY <1>14, <1>a, <2>1, NumberingFrame DEF DrainRaises, ProcessGone
  <2>2. CASE t # Main
    BY <1>14, <1>a, <2>2, NumberingFrame DEF DrainRaises
  <2> QED
    BY <2>1, <2>2
<1>15. ASSUME Boot PROVE Numbering'
  BY <1>15, <1>a, NumberingFrame DEF Boot
<1>16. ASSUME StartupDrain PROVE Numbering'
  BY <1>16, <1>a, NumberingFrame DEF StartupDrain
<1>17. ASSUME Prune PROVE Numbering'
  BY <1>17, <1>a, NumberingFrame DEF Prune, PruneRows
<1>18. ASSUME Shutdown PROVE Numbering'
  BY <1>18, <1>a, NumberingFrame DEF Shutdown
<1>19. ASSUME Exit PROVE Numbering'
  BY <1>19, <1>a, NumberingFrame DEF Exit, ProcessGone
<1>20. ASSUME Crash PROVE Numbering'
  BY <1>20, <1>a, NumberingFrame DEF Crash, ProcessGone
<1>21. ASSUME UNCHANGED vars PROVE Numbering'
  BY <1>21, <1>a, NumberingFrame DEF vars, procVars
<1>22. ASSUME Tick PROVE Numbering'
  BY <1>22, <1>a, NumberingFrame DEF Tick
<1>23. ASSUME Reloaded PROVE Numbering'
  BY <1>23, <1>a, NumberingFrame DEF Reloaded
<1> QED
  BY <1>1, <1>2, <1>3, <1>4, <1>5, <1>6, <1>7, <1>8, <1>9, <1>10, <1>11, <1>12,
     <1>13, <1>14, <1>15, <1>16, <1>17, <1>18, <1>19, <1>20, <1>21,
     <1>22, <1>23, StepCases

(* No (machine, seq) is ever given to two envelopes: not across crashes,   *)
(* dead letters, exceptions and pruning, and not when a reload leaves two  *)
(* threads running for one machine.                                        *)
THEOREM SeqNeverReused == Spec => []KeysUnique
<1>1. Init => TypeInv /\ Numbering
  BY InitTypeInv, InitNumbering
<1>2. TypeInv /\ Numbering /\ [Next]_vars => (TypeInv /\ Numbering)'
  BY NextControl, NextType, NextNumbering DEF TypeInv
<1>3. TypeInv /\ Numbering => KeysUnique
  BY DEF Numbering
<1> QED
  BY <1>1, <1>2, <1>3, PTL DEF Spec

-----------------------------------------------------------------------------
(* The fourth layer: what the drain loop holds in its hands.               *)
Batching == BatchIsNext /\ CursorsBehind

(* The layers before it.                                                   *)
Base == TypeInv /\ DrainExclusive /\ Numbering

(* Facts about the state that the steps of the drain loop share.           *)
LEMMA DrainFacts ==
  ASSUME Base
  PROVE  /\ pc \in [Threads -> PCs] /\ batch \in [Threads -> SUBSET Row]
         /\ cursors \in [Names -> Nat] /\ lastRow \in Nat
         /\ accepted \in [Destinations -> SUBSET Row]
         /\ buffer \subseteq history
         /\ \A r \in buffer : r.row \in Nat /\ r.row <= lastRow
         /\ \A r1, r2 \in buffer : r1.row = r2.row => r1 = r2
         /\ \A t \in Threads : Draining(t) =>
              /\ lock = t
              /\ pos[t] \in 1 .. Len(exporters)
              /\ Target(t) \in Destinations
              /\ Target(t) \in Configured
              /\ NameOf[Target(t)] \in Names
<1> USE PipelineAssumption DEF Base, TypeInv, Numbering
<1>1. /\ pc \in [Threads -> PCs] /\ batch \in [Threads -> SUBSET Row]
      /\ cursors \in [Names -> Nat] /\ lastRow \in Nat
      /\ accepted \in [Destinations -> SUBSET Row]
      /\ buffer \subseteq Row
      /\ pos \in [Threads -> 0 .. Len(exporters)]
  BY DEF TypeOK, StoreTypeOK
<1>2. /\ buffer \subseteq history
      /\ \A r \in buffer : r.row \in Nat /\ r.row <= lastRow
      /\ \A r1, r2 \in buffer : r1.row = r2.row => r1 = r2
  BY <1>1 DEF RowsNumbered, Row
<1>3. ASSUME NEW t \in Threads, Draining(t)
      PROVE  /\ lock = t
             /\ pos[t] \in 1 .. Len(exporters)
             /\ Target(t) \in Destinations
             /\ Target(t) \in Configured
             /\ NameOf[Target(t)] \in Names
  <2>1. exporters \in Seq(Destinations) /\ Len(exporters) \in Nat
    BY ExportersType
  <2>2. pos[t] \in 1 .. Len(exporters)
    BY <1>1, <1>3, <2>1 DEF Control
  <2>3. pos[t] \in DOMAIN exporters /\ Target(t) \in Destinations
    BY <2>1, <2>2 DEF Target
  <2> QED
    BY <1>3, <2>2, <2>3 DEF DrainExclusive, Target, Configured
<1> QED
  BY <1>1, <1>2, <1>3

(* A step that neither moves a cursor nor changes the buffer nor a batch.  *)
LEMMA BatchFrame ==
  ASSUME Batching,
         UNCHANGED <<buffer, cursors, lastRow>>,
         \A d \in Destinations : accepted[d] \subseteq accepted'[d],
         \A t \in Threads : pc'[t] \in {"publish", "ack"} =>
           /\ pc'[t] = pc[t] /\ batch'[t] = batch[t]
           /\ pos'[t] = pos[t] /\ exporters' = exporters
  PROVE  Batching'
<1>1. CursorsBehind'
  BY DEF Batching, CursorsBehind
<1>2. ASSUME NEW t \in Threads, pc'[t] \in {"publish", "ack"}
      PROVE  /\ pc[t] \in {"publish", "ack"} /\ pc'[t] = pc[t]
             /\ batch'[t] = batch[t] /\ Target(t)' = Target(t)
  BY <1>2 DEF Target
<1>3. BatchIsNext'
  BY <1>2 DEF Batching, BatchIsNext, After, IsOldest, Direct
<1> QED
  BY <1>1, <1>3 DEF Batching

(* append() puts its row after every batch and every cursor.               *)
LEMMA BufferBatching ==
  ASSUME Base, Batching, NEW t \in Emitters, Buffer(t)
  PROVE  Batching'
<1> DEFINE new == NewRow(MachineOf[t], seq[t], IF pc[t] = "announce" THEN phase ELSE "emit")
<1>1. /\ buffer' = buffer \cup {new} /\ lastRow' = lastRow + 1 /\ new.row = lastRow + 1
      /\ UNCHANGED <<cursors, accepted, batch, pos, exporters>>
  BY DEF Buffer, AppendRow, NewRow, NextRow
<1> HIDE DEF new
<1>2. CursorsBehind'
  BY <1>1, DrainFacts DEF Batching, CursorsBehind
<1>3. \A o \in Threads : pc'[o] \in {"publish", "ack"} => pc'[o] = pc[o]
  BY DrainFacts DEF Buffer, AfterProcess, Goto, Threads
<1>4. ASSUME NEW o \in Threads, pc'[o] \in {"publish", "ack"}
      PROVE  LET next == After(NameOf[Target(o)])
             IN  /\ batch[o] # {}
                 /\ batch[o] \subseteq next'
                 /\ \A r \in batch[o], x \in next' \ batch[o] : r.row < x.row
                 /\ pc[o] = "ack" /\ Target(o) \in Direct =>
                      \A r \in batch[o] :
                        IsOldest(r, batch[o]) => r \in accepted[Target(o)]
  <2> DEFINE n == NameOf[Target(o)]
  <2>1. /\ pc[o] \in {"publish", "ack"} /\ Target(o)' = Target(o)
    BY <1>1, <1>3, <1>4 DEF Target
  <2>2. After(n)' = {r \in buffer' : r.row > cursors[n]}
    BY <1>1, <2>1 DEF After
  <2>3. /\ batch[o] \subseteq buffer
        /\ \A x \in After(n)' : x \in After(n) \/ x = new
        /\ After(n) \subseteq After(n)'
    BY <1>1, <2>1, <2>2 DEF Batching, BatchIsNext, After
  <2>4. \A r \in batch[o] : r.row < new.row
    BY <1>1, <2>3, DrainFacts
  <2> QED
    BY <2>1, <2>3, <2>4 DEF Batching, BatchIsNext
<1>5. BatchIsNext'
  BY <1>1, <1>3, <1>4 DEF BatchIsNext, Target, After, IsOldest, Direct
<1> QED
  BY <1>2, <1>5 DEF Batching

(* pending() returns the oldest rows past the cursor.                      *)
LEMMA ReadBatching ==
  ASSUME Base, Batching, NEW t \in Threads, Read(t)
  PROVE  Batching'
<1> DEFINE n == NameOf[Target(t)]
<1>1. PICK b \in Pending(n) : b # {} /\ batch' = [batch EXCEPT ![t] = b]
  BY DEF Read
<1>2. /\ b \subseteq After(n)
      /\ \A r \in b, o \in After(n) \ b : r.row < o.row
  BY <1>1 DEF Pending
<1>3. /\ pc' = [pc EXCEPT ![t] = "publish"]
      /\ UNCHANGED <<buffer, cursors, lastRow, accepted, pos, exporters>>
  BY DEF Read, storeVars, Goto
<1>4. CursorsBehind'
  BY <1>3 DEF Batching, CursorsBehind
<1>5. ASSUME NEW o \in Threads, pc'[o] \in {"publish", "ack"}
      PROVE  LET next == After(NameOf[Target(o)])
             IN  /\ batch'[o] # {}
                 /\ batch'[o] \subseteq next
                 /\ \A r \in batch'[o], x \in next \ batch'[o] : r.row < x.row
                 /\ pc'[o] = "ack" /\ Target(o) \in Direct =>
                      \A r \in batch'[o] :
                        IsOldest(r, batch'[o]) => r \in accepted[Target(o)]
  <2>1. CASE o = t
    <3>1. pc'[o] = "publish" /\ batch'[o] = b
      BY <1>1, <1>3, <2>1, DrainFacts
    <3> QED
      BY <1>1, <1>2, <2>1, <3>1
  <2>2. CASE o # t
    <3>1. pc'[o] = pc[o] /\ batch'[o] = batch[o]
      BY <1>1, <1>3, <2>2, DrainFacts
    <3> QED
      BY <1>5, <3>1 DEF Batching, BatchIsNext
  <2> QED
    BY <2>1, <2>2
<1>6. BatchIsNext'
  BY <1>3, <1>5 DEF BatchIsNext, Target, After, IsOldest, Direct
<1> QED
  BY <1>4, <1>6 DEF Batching

(* The oldest row of a batch is one row.                                   *)
LEMMA OldestUnique ==
  ASSUME Base, Batching, NEW t \in Threads, pc[t] \in {"publish", "ack"},
         NEW r \in batch[t], IsOldest(r, batch[t])
  PROVE  \A o \in batch[t] : IsOldest(o, batch[t]) => o = r
<1>1. batch[t] \subseteq buffer
  BY DEF Batching, BatchIsNext, After
<1> QED
  BY <1>1, DrainFacts DEF IsOldest

(* publish() returns with the oldest row of the batch accepted, and the    *)
(* lock keeps every other thread out of the loop.                          *)
LEMMA PublishBatching ==
  ASSUME Base, Batching, NEW t \in Threads, PublishDirect(t) \/ PublishBuffered(t)
  PROVE  Batching'
<1>1. /\ pc[t] = "publish"
      /\ pc' = [pc EXCEPT ![t] = "ack"]
      /\ UNCHANGED <<buffer, cursors, lastRow, batch, pos, exporters>>
  BY DEF PublishDirect, PublishBuffered, storeVars, Goto
<1>2. Target(t) \in Destinations /\ lock = t
  BY <1>1, DrainFacts DEF Draining
<1>3. /\ \A d \in Destinations : accepted[d] \subseteq accepted'[d]
      /\ Target(t) \in Direct =>
           \E r \in batch[t] : IsOldest(r, batch[t]) /\ r \in accepted'[Target(t)]
  <2>1. CASE PublishDirect(t)
    <3>1. PICK r \in batch[t] : IsOldest(r, batch[t]) /\ Accept(Target(t), {r})
      BY <2>1 DEF PublishDirect
    <3> QED
      BY <1>2, <3>1, DrainFacts DEF Accept
  <2>2. CASE PublishBuffered(t)
    <3>1. Target(t) \notin Direct
      BY <2>2 DEF PublishBuffered, Direct
    <3>2. UNCHANGED accepted \/ \E rows : Accept(Target(t), rows)
      BY <2>2 DEF PublishBuffered
    <3> QED
      BY <1>2, <3>1, <3>2, DrainFacts DEF Accept
  <2> QED
    BY <2>1, <2>2
<1>4. CursorsBehind'
  BY <1>1 DEF Batching, CursorsBehind
<1>5. \A o \in Threads : o # t => pc'[o] = pc[o]
  BY <1>1, DrainFacts
<1>6. ASSUME Target(t) \in Direct, NEW r \in batch[t], IsOldest(r, batch[t])
      PROVE  r \in accepted'[Target(t)]
  BY <1>1, <1>3, <1>6, OldestUnique
<1>7. ASSUME NEW o \in Threads, pc'[o] \in {"publish", "ack"}
      PROVE  LET next == After(NameOf[Target(o)])
             IN  /\ batch[o] # {}
                 /\ batch[o] \subseteq next
                 /\ \A r \in batch[o], x \in next \ batch[o] : r.row < x.row
                 /\ pc'[o] = "ack" /\ Target(o) \in Direct =>
                      \A r \in batch[o] :
                        IsOldest(r, batch[o]) => r \in accepted'[Target(o)]
  <2>1. CASE o = t
    BY <1>1, <1>6, <2>1 DEF Batching, BatchIsNext
  <2>2. CASE o # t
    <3>1. pc[o] \in {"publish", "ack"} /\ Draining(o) /\ Draining(t)
      BY <1>1, <1>5, <1>7, <2>2 DEF Draining
    <3> QED
      BY <2>2, <3>1, DrainFacts
  <2> QED
    BY <2>1, <2>2
<1>8. BatchIsNext'
  BY <1>1, <1>7 DEF BatchIsNext, Target, After, IsOldest, Direct
<1> QED
  BY <1>4, <1>8 DEF Batching

(* What ack() does: the cursor goes to the oldest row of the batch, which  *)
(* is the first row past it, and the row leaves the batch.                 *)
LEMMA AckFacts ==
  ASSUME Base, Batching, NEW t \in Threads, Ack(t)
  PROVE  LET n == NameOf[Target(t)]
         IN  /\ pc[t] = "ack" /\ lock = t
             /\ \E r \in batch[t] :
                  /\ IsOldest(r, batch[t])
                  /\ r \in buffer /\ r.row > cursors[n] /\ r.row <= lastRow
                  /\ cursors' = [cursors EXCEPT ![n] = r.row]
                  /\ batch' = [batch EXCEPT ![t] = @ \ {r}]
                  /\ pc' = [pc EXCEPT ![t] = IF batch[t] = {r} THEN "read" ELSE "publish"]
                  /\ \A o \in buffer :
                       o.row > cursors[n] /\ o.row <= r.row => o = r
             /\ UNCHANGED <<buffer, lastRow, pos, exporters, accepted, history>>
<1> DEFINE n == NameOf[Target(t)]
<1>1. PICK r \in batch[t] :
        /\ IsOldest(r, batch[t])
        /\ AckRow(n, r.row)
        /\ batch' = [batch EXCEPT ![t] = @ \ {r}]
        /\ pc' = [pc EXCEPT ![t] = IF batch[t] = {r} THEN "read" ELSE "publish"]
  BY DEF Ack, RowsToAck, Goto
<1>2. pc[t] = "ack" /\ Draining(t)
  BY DEF Ack, Draining
<1>3. /\ batch[t] \subseteq After(n)
      /\ \A x \in batch[t], o \in After(n) \ batch[t] : x.row < o.row
  BY <1>2 DEF Batching, BatchIsNext
<1>4. r \in buffer /\ r.row > cursors[n] /\ r.row <= lastRow
  BY <1>1, <1>3, DrainFacts DEF After
<1>5. ASSUME NEW o \in buffer, o.row > cursors[n], o.row <= r.row
      PROVE  o = r
  <2>1. o \in After(n) /\ o.row \in Nat /\ r.row \in Nat
    BY <1>4, <1>5, DrainFacts DEF After
  <2>2. o \in batch[t]
    BY <1>1, <1>3, <1>5, <2>1
  <2>3. o.row = r.row
    BY <1>1, <1>5, <2>1, <2>2 DEF IsOldest
  <2> QED
    BY <1>4, <2>3, DrainFacts
<1>6. cursors' = [cursors EXCEPT ![n] = r.row]
  BY <1>1 DEF AckRow, AckCursor
<1>7. UNCHANGED <<buffer, lastRow, pos, exporters, accepted, history>>
  BY <1>1 DEF Ack, AckRow
<1> QED
  BY <1>1, <1>2, <1>4, <1>5, <1>6, <1>7, DrainFacts

(* After ack() the rest of the batch is the next past the moved cursor.    *)
LEMMA AckBatching ==
  ASSUME Base, Batching, NEW t \in Threads, Ack(t)
  PROVE  Batching'
<1> DEFINE n == NameOf[Target(t)]
<1>1. pc[t] = "ack" /\ lock = t /\ Draining(t) /\ n \in Names
      /\ UNCHANGED <<buffer, lastRow, pos, exporters, accepted>>
  BY AckFacts, DrainFacts DEF Draining
<1>2. PICK r \in batch[t] :
        /\ IsOldest(r, batch[t])
        /\ r \in buffer /\ r.row > cursors[n] /\ r.row <= lastRow
        /\ cursors' = [cursors EXCEPT ![n] = r.row]
        /\ batch' = [batch EXCEPT ![t] = @ \ {r}]
        /\ pc' = [pc EXCEPT ![t] = IF batch[t] = {r} THEN "read" ELSE "publish"]
        /\ \A o \in buffer : o.row > cursors[n] /\ o.row <= r.row => o = r
  BY AckFacts
<1>3. CursorsBehind'
  BY <1>1, <1>2, DrainFacts DEF Batching, CursorsBehind
<1>4. ASSUME NEW o \in Threads, pc'[o] \in {"publish", "ack"}
      PROVE  o = t
  <2>1. o # t => Draining(o)
    BY <1>2, <1>4, DrainFacts DEF Draining
  <2> QED
    BY <1>1, <2>1, DrainFacts
<1>5. ASSUME pc'[t] \in {"publish", "ack"}
      PROVE  /\ pc'[t] = "publish"
             /\ batch'[t] # {}
             /\ batch'[t] \subseteq {o \in buffer : o.row > r.row}
             /\ \A x \in batch'[t], o \in {y \in buffer : y.row > r.row} \ batch'[t] :
                  x.row < o.row
  <2>1. pc'[t] = "publish" /\ batch'[t] = batch[t] \ {r} /\ batch[t] # {r}
    BY <1>2, <1>5, DrainFacts
  <2>2. /\ batch[t] \subseteq {o \in buffer : o.row > cursors[n]}
        /\ \A x \in batch[t], o \in {y \in buffer : y.row > cursors[n]} \ batch[t] :
             x.row < o.row
    BY <1>1 DEF Batching, BatchIsNext, After
  <2>3. \A x \in batch[t] \ {r} : x \in buffer /\ x.row > r.row
    BY <1>2, <2>2, DrainFacts
  <2>4. \A o \in buffer : o.row > r.row => o.row > cursors[n] /\ o # r
    BY <1>1, <1>2, DrainFacts
  <2> QED
    BY <2>1, <2>2, <2>3, <2>4
<1>6. cursors'[n] = r.row
  BY <1>1, <1>2, DrainFacts
<1>7. BatchIsNext'
  BY <1>1, <1>4, <1>5, <1>6 DEF BatchIsNext, Target, After, IsOldest, Direct
<1> QED
  BY <1>3, <1>7 DEF Batching

(* Retention deletes only rows that no batch holds.                        *)
LEMMA PruneBatching ==
  ASSUME Base, Batching, Prune
  PROVE  Batching'
<1>1. PICK expired \in SUBSET SafeRows(ConfiguredNames) : buffer' = buffer \ expired
  BY DEF Prune, PruneRows
<1>2. /\ UNCHANGED <<cursors, lastRow, accepted>>
      /\ UNCHANGED <<exporters, pos, batch>>
      /\ \A t \in Threads : pc'[t] \in {"publish", "ack"} => pc'[t] = pc[t]
  BY DrainFacts DEF Prune, PruneRows, Goto
<1>3. CursorsBehind'
  BY <1>2 DEF Batching, CursorsBehind
<1>4. ASSUME NEW t \in Threads, pc[t] \in {"publish", "ack"}
      PROVE  After(NameOf[Target(t)])' = After(NameOf[Target(t)])
  <2>1. NameOf[Target(t)] \in ConfiguredNames
    BY <1>4, DrainFacts DEF Draining, ConfiguredNames
  <2>2. \A r \in expired : r.row <= cursors[NameOf[Target(t)]] /\ r \in buffer
    BY <2>1 DEF SafeRows
  <2>3. \A r \in expired : ~(r.row > cursors[NameOf[Target(t)]])
    BY <1>4, <2>2, DrainFacts DEF Draining
  <2>4. Target(t)' = Target(t)
    BY <1>2 DEF Target
  <2> QED
    BY <1>1, <1>2, <2>3, <2>4 DEF After
<1>5. BatchIsNext'
  <2>1. ASSUME NEW t \in Threads, pc'[t] \in {"publish", "ack"}
        PROVE  /\ pc[t] \in {"publish", "ack"} /\ pc'[t] = pc[t]
               /\ After(NameOf[Target(t)])' = After(NameOf[Target(t)])
               /\ Target(t)' = Target(t)
    BY <1>2, <1>4, <2>1 DEF Target
  <2> QED
    BY <1>2, <2>1 DEF Batching, BatchIsNext, IsOldest, Direct
<1> QED
  BY <1>3, <1>5 DEF Batching

(* At first no thread drains.                                              *)
LEMMA InitBatching == Init => Batching
BY DEF Init, StoreInit, Batching, BatchIsNext, CursorsBehind

(* Batches stay what is next, whatever the other threads do.               *)
LEMMA NextBatching == Base /\ Batching /\ [Next]_vars => Batching'
<1> SUFFICES ASSUME Base, Batching PROVE [Next]_vars => Batching'
  OBVIOUS
<1> USE DEF Goto, storeVars
<1>a. pc \in [Threads -> PCs] /\ Emitters \subseteq Threads /\ Main \in Threads
      /\ accepted \in [Destinations -> SUBSET Row]
      /\ pos \in [Threads -> 0 .. Len(exporters)] /\ batch \in [Threads -> SUBSET Row]
  BY DrainFacts DEF Base, TypeInv, TypeOK, Threads
<1>1. ASSUME NEW t \in Emitters, StartMachine(t) PROVE Batching'
  BY <1>1, <1>a, BatchFrame DEF StartMachine, TakeSeq
<1>2. ASSUME NEW t \in Emitters, Emit(t) PROVE Batching'
  BY <1>2, <1>a, BatchFrame DEF Emit, TakeSeq
<1>3. ASSUME NEW t \in Emitters, Quit(t) PROVE Batching'
  BY <1>3, <1>a, BatchFrame DEF Quit
<1>4. ASSUME NEW t \in Emitters, Buffer(t) PROVE Batching'
  BY <1>4, BufferBatching
<1>5. ASSUME NEW t \in Emitters, DeadLetter(t) PROVE Batching'
  BY <1>5, <1>a, BatchFrame DEF DeadLetter, DeadLetterRow, AfterProcess
<1>6. ASSUME NEW t \in Emitters, ProcessRaises(t) PROVE Batching'
  BY <1>6, <1>a, BatchFrame DEF ProcessRaises
<1>7. ASSUME NEW t \in Threads, Acquire(t) PROVE Batching'
  BY <1>7, <1>a, BatchFrame DEF Acquire
<1>8. ASSUME NEW t \in Threads, NextExporter(t) PROVE Batching'
  <2>1. /\ \A o \in Threads : pc'[o] \in {"publish", "ack"} => o # t /\ pc'[o] = pc[o]
        /\ \A o \in Threads \ {t} : pos'[o] = pos[o] /\ batch'[o] = batch[o]
        /\ UNCHANGED <<buffer, cursors, lastRow, accepted, exporters>>
    BY <1>8, <1>a DEF NextExporter, Release
  <2> QED
    BY <1>a, <2>1, BatchFrame
<1>9. ASSUME NEW t \in Threads, Read(t) PROVE Batching'
  BY <1>9, ReadBatching
<1>10. ASSUME NEW t \in Threads, PublishDirect(t) PROVE Batching'
  BY <1>10, PublishBatching
<1>11. ASSUME NEW t \in Threads, PublishBuffered(t) PROVE Batching'
  BY <1>11, PublishBatching
<1>12. ASSUME NEW t \in Threads, Ack(t) PROVE Batching'
  BY <1>12, AckBatching
<1>13. ASSUME NEW t \in Threads, Closed(t) PROVE Batching'
  BY <1>13, <1>a, BatchFrame DEF Closed, Release
<1>14. ASSUME NEW t \in Threads, DrainRaises(t) PROVE Batching'
  <2>1. CASE t = Main
    BY <1>14, <1>a, <2>1, BatchFrame DEF DrainRaises, ProcessGone
  <2>2. CASE t # Main
    <3>1. /\ \A o \in Threads : pc'[o] \in {"publish", "ack"} => o # t /\ pc'[o] = pc[o]
          /\ \A o \in Threads \ {t} : pos'[o] = pos[o] /\ batch'[o] = batch[o]
          /\ UNCHANGED <<buffer, cursors, lastRow, accepted, exporters>>
      BY <1>14, <1>a, <2>2 DEF DrainRaises, Release
    <3> QED
      BY <1>a, <3>1, BatchFrame
  <2> QED
    BY <2>1, <2>2
<1>15. ASSUME Boot PROVE Batching'
  <2>1. \A t \in Threads : pc[t] = "off"
    BY <1>15 DEF Boot, Base, TypeInv, Control, DownIsQuiet
  <2> QED
    BY <1>15, <1>a, <2>1, BatchFrame DEF Boot
<1>16. ASSUME StartupDrain PROVE Batching'
  BY <1>16, <1>a, BatchFrame DEF StartupDrain
<1>17. ASSUME Prune PROVE Batching'
  BY <1>17, PruneBatching
<1>18. ASSUME Shutdown PROVE Batching'
  BY <1>18, <1>a, BatchFrame DEF Shutdown
<1>19. ASSUME Exit PROVE Batching'
  BY <1>19, <1>a, BatchFrame DEF Exit, ProcessGone
<1>20. ASSUME Crash PROVE Batching'
  BY <1>20, <1>a, BatchFrame DEF Crash, ProcessGone
<1>21. ASSUME UNCHANGED vars PROVE Batching'
  BY <1>21, <1>a, BatchFrame DEF vars, procVars
<1>22. ASSUME Tick PROVE Batching'
  BY <1>22, <1>a, BatchFrame DEF Tick
<1>23. ASSUME Reloaded PROVE Batching'
  BY <1>23, <1>a, BatchFrame DEF Reloaded
<1> QED
  BY <1>1, <1>2, <1>3, <1>4, <1>5, <1>6, <1>7, <1>8, <1>9, <1>10, <1>11, <1>12,
     <1>13, <1>14, <1>15, <1>16, <1>17, <1>18, <1>19, <1>20, <1>21,
     <1>22, <1>23, StepCases

(* The first four layers hold in every state.                              *)
LEMMA Invariance == Spec => [](Base /\ Batching)
<1>1. Init => Base /\ Batching
  <2>1. Init => DrainExclusive
    BY DEF Init, DrainExclusive, Draining
  <2> QED
    BY <2>1, InitTypeInv, InitNumbering, InitBatching DEF Base
<1>2. Base /\ Batching /\ [Next]_vars => (Base /\ Batching)'
  BY NextControl, NextType, NextExclusive, NextNumbering, NextBatching
     DEF Base, TypeInv
<1> QED
  BY <1>1, <1>2, PTL DEF Spec

(* Only ack() moves a cursor.                                              *)
LEMMA CursorFrame ==
  ASSUME [Next]_vars, \A t \in Threads : ~Ack(t)
  PROVE  UNCHANGED cursors
<1> SUFFICES [Next]_vars => cursors' = cursors
  OBVIOUS
<1> USE DEF storeVars
<1>1. ASSUME NEW t \in Emitters, StartMachine(t) PROVE cursors' = cursors
  BY <1>1 DEF StartMachine, TakeSeq
<1>2. ASSUME NEW t \in Emitters, Emit(t) PROVE cursors' = cursors
  BY <1>2 DEF Emit, TakeSeq
<1>3. ASSUME NEW t \in Emitters, Quit(t) PROVE cursors' = cursors
  BY <1>3 DEF Quit
<1>4. ASSUME NEW t \in Emitters, Buffer(t) PROVE cursors' = cursors
  BY <1>4 DEF Buffer, AppendRow
<1>5. ASSUME NEW t \in Emitters, DeadLetter(t) PROVE cursors' = cursors
  BY <1>5 DEF DeadLetter, DeadLetterRow
<1>6. ASSUME NEW t \in Emitters, ProcessRaises(t) PROVE cursors' = cursors
  BY <1>6 DEF ProcessRaises
<1>7. ASSUME NEW t \in Threads, Acquire(t) PROVE cursors' = cursors
  BY <1>7 DEF Acquire
<1>8. ASSUME NEW t \in Threads, NextExporter(t) PROVE cursors' = cursors
  BY <1>8 DEF NextExporter
<1>9. ASSUME NEW t \in Threads, Read(t) PROVE cursors' = cursors
  BY <1>9 DEF Read
<1>10. ASSUME NEW t \in Threads, PublishDirect(t) PROVE cursors' = cursors
  BY <1>10 DEF PublishDirect
<1>11. ASSUME NEW t \in Threads, PublishBuffered(t) PROVE cursors' = cursors
  BY <1>11 DEF PublishBuffered
<1>12. ASSUME NEW t \in Threads, Ack(t) PROVE cursors' = cursors
  BY <1>12
<1>13. ASSUME NEW t \in Threads, Closed(t) PROVE cursors' = cursors
  BY <1>13 DEF Closed
<1>14. ASSUME NEW t \in Threads, DrainRaises(t) PROVE cursors' = cursors
  BY <1>14 DEF DrainRaises
<1>15. Boot => cursors' = cursors
  BY DEF Boot
<1>16. StartupDrain => cursors' = cursors
  BY DEF StartupDrain
<1>17. Prune => cursors' = cursors
  BY DEF Prune, PruneRows
<1>18. Shutdown => cursors' = cursors
  BY DEF Shutdown
<1>19. Exit => cursors' = cursors
  BY DEF Exit
<1>20. Crash => cursors' = cursors
  BY DEF Crash
<1>21. UNCHANGED vars => cursors' = cursors
  BY DEF vars
<1>22. Tick => cursors' = cursors
  BY DEF Tick
<1>23. Reloaded => cursors' = cursors
  BY DEF Reloaded
<1> QED
  BY <1>1, <1>2, <1>3, <1>4, <1>5, <1>6, <1>7, <1>8, <1>9, <1>10, <1>11, <1>12,
     <1>13, <1>14, <1>15, <1>16, <1>17, <1>18, <1>19, <1>20, <1>21,
     <1>22, <1>23, StepCases

(* No exporter's cursor ever moves back, whichever threads drain: ack()    *)
(* writes the rowid it is given, and drain_lock keeps it the next one.     *)
THEOREM CursorsNeverBack == Spec => CursorMonotone
<1>1. Base /\ Batching /\ [Next]_vars => \A n \in Names : cursors'[n] >= cursors[n]
  <2> SUFFICES ASSUME Base, Batching, [Next]_vars, NEW n \in Names
               PROVE  cursors'[n] >= cursors[n]
    OBVIOUS
  <2>1. CASE \A t \in Threads : ~Ack(t)
    BY <2>1, CursorFrame, DrainFacts
  <2>2. CASE \E t \in Threads : Ack(t)
    <3>1. PICK t \in Threads : Ack(t)
      BY <2>2
    <3>2. PICK r \in buffer :
            /\ r.row > cursors[NameOf[Target(t)]]
            /\ cursors' = [cursors EXCEPT ![NameOf[Target(t)]] = r.row]
      BY <3>1, AckFacts
    <3> QED
      BY <3>2, DrainFacts
  <2> QED
    BY <2>1, <2>2
<1>2. Base /\ Batching /\ [Next]_vars => [\A n \in Names : cursors'[n] >= cursors[n]]_vars
  BY <1>1
<1> QED
  BY <1>2, Invariance, PTL DEF Spec, CursorMonotone

-----------------------------------------------------------------------------
(* The last layer: what lies behind a cursor.                              *)

(* A step that moves no cursor, buffers nothing and takes nothing back     *)
(* from a destination.                                                     *)
LEMMA AckedFrame ==
  ASSUME Base, AckedIsDelivered, cursors' = cursors, buffer' \subseteq buffer,
         \A d \in Destinations : accepted[d] \subseteq accepted'[d]
  PROVE  AckedIsDelivered'
BY DEF AckedIsDelivered, Direct

(* A buffered row is past every cursor.                                    *)
LEMMA BufferAcked ==
  ASSUME Base, Batching, AckedIsDelivered, NEW t \in Emitters, Buffer(t)
  PROVE  AckedIsDelivered'
<1> DEFINE new == NewRow(MachineOf[t], seq[t], IF pc[t] = "announce" THEN phase ELSE "emit")
<1>1. /\ buffer' = buffer \cup {new} /\ new.row = lastRow + 1
      /\ UNCHANGED <<cursors, accepted>>
  BY DEF Buffer, AppendRow, NewRow, NextRow
<1> HIDE DEF new
<1>2. \A d \in Direct : ~(new.row <= cursors[NameOf[d]])
  <2> SUFFICES ASSUME NEW d \in Direct PROVE ~(new.row <= cursors[NameOf[d]])
    OBVIOUS
  <2>1. NameOf[d] \in Names
    BY PipelineAssumption DEF Direct
  <2> QED
    BY <1>1, <2>1, DrainFacts DEF Batching, CursorsBehind
<1> QED
  BY <1>1, <1>2 DEF AckedIsDelivered

(* ack() moves one cursor over one row, which its destination has.         *)
LEMMA AckAcked ==
  ASSUME NamesDistinct, Base, Batching, AckedIsDelivered, NEW t \in Threads, Ack(t)
  PROVE  AckedIsDelivered'
<1> DEFINE n == NameOf[Target(t)]
<1>1. pc[t] = "ack" /\ UNCHANGED <<buffer, accepted>> /\ Target(t) \in Destinations
      /\ n \in Names
  BY AckFacts, DrainFacts DEF Draining
<1>2. PICK r \in batch[t] :
        /\ IsOldest(r, batch[t])
        /\ cursors' = [cursors EXCEPT ![n] = r.row]
        /\ \A o \in buffer : o.row > cursors[n] /\ o.row <= r.row => o = r
  BY AckFacts
<1>3. Target(t) \in Direct => r \in accepted[Target(t)]
  BY <1>1, <1>2 DEF Batching, BatchIsNext
<1>4. ASSUME NEW d \in Direct, NEW o \in buffer, o.row <= cursors'[NameOf[d]]
      PROVE  o \in accepted[d]
  <2>1. d \in Destinations /\ NameOf[d] \in Names
    BY PipelineAssumption DEF Direct
  <2>2. CASE NameOf[d] = n
    <3>1. d = Target(t)
      BY <1>1, <2>1, <2>2 DEF NamesDistinct
    <3>2. o.row <= r.row
      BY <1>1, <1>2, <1>4, <2>2, DrainFacts
    <3>3. CASE o.row <= cursors[n]
      BY <2>2, <3>3 DEF AckedIsDelivered
    <3>4. CASE ~(o.row <= cursors[n])
      <4>1. o.row > cursors[n]
        BY <1>1, <3>4, DrainFacts
      <4> QED
        BY <1>2, <1>3, <3>1, <3>2, <4>1
    <3> QED
      BY <3>3, <3>4
  <2>3. CASE NameOf[d] # n
    <3>1. cursors'[NameOf[d]] = cursors[NameOf[d]]
      BY <1>2, <2>1, <2>3, DrainFacts
    <3> QED
      BY <1>4, <3>1 DEF AckedIsDelivered
  <2> QED
    BY <2>2, <2>3
<1> QED
  BY <1>1, <1>4 DEF AckedIsDelivered

(* What lies behind a cursor stays delivered.                              *)
LEMMA NextAcked ==
  ASSUME NamesDistinct
  PROVE  Base /\ Batching /\ AckedIsDelivered /\ [Next]_vars => AckedIsDelivered'
<1> SUFFICES ASSUME Base, Batching, AckedIsDelivered
             PROVE  [Next]_vars => AckedIsDelivered'
  OBVIOUS
<1> USE DEF storeVars
<1>a. accepted \in [Destinations -> SUBSET Row]
  BY DrainFacts
<1>b. ASSUME NEW d \in Destinations, NEW rows, Accept(d, rows)
      PROVE  \A o \in Destinations : accepted[o] \subseteq accepted'[o]
  BY <1>a, <1>b DEF Accept
<1>1. ASSUME NEW t \in Emitters, StartMachine(t) PROVE AckedIsDelivered'
  BY <1>1, AckedFrame DEF StartMachine, TakeSeq
<1>2. ASSUME NEW t \in Emitters, Emit(t) PROVE AckedIsDelivered'
  BY <1>2, AckedFrame DEF Emit, TakeSeq
<1>3. ASSUME NEW t \in Emitters, Quit(t) PROVE AckedIsDelivered'
  BY <1>3, AckedFrame DEF Quit
<1>4. ASSUME NEW t \in Emitters, Buffer(t) PROVE AckedIsDelivered'
  BY <1>4, BufferAcked
<1>5. ASSUME NEW t \in Emitters, DeadLetter(t) PROVE AckedIsDelivered'
  BY <1>5, AckedFrame DEF DeadLetter, DeadLetterRow
<1>6. ASSUME NEW t \in Emitters, ProcessRaises(t) PROVE AckedIsDelivered'
  BY <1>6, AckedFrame DEF ProcessRaises
<1>7. ASSUME NEW t \in Threads, Acquire(t) PROVE AckedIsDelivered'
  BY <1>7, AckedFrame DEF Acquire
<1>8. ASSUME NEW t \in Threads, NextExporter(t) PROVE AckedIsDelivered'
  BY <1>8, AckedFrame DEF NextExporter
<1>9. ASSUME NEW t \in Threads, Read(t) PROVE AckedIsDelivered'
  BY <1>9, AckedFrame DEF Read
<1>10. ASSUME NEW t \in Threads, PublishDirect(t) PROVE AckedIsDelivered'
  BY <1>10, <1>b, AckedFrame DEF PublishDirect, Direct
<1>11. ASSUME NEW t \in Threads, PublishBuffered(t) PROVE AckedIsDelivered'
  <2>1. Target(t) \in Destinations
    BY <1>11, DrainFacts DEF PublishBuffered, Draining
  <2>2. UNCHANGED accepted \/ \E rows : Accept(Target(t), rows)
    BY <1>11 DEF PublishBuffered
  <2>3. \A o \in Destinations : accepted[o] \subseteq accepted'[o]
    BY <1>b, <2>1, <2>2
  <2> QED
    BY <1>11, <2>3, AckedFrame DEF PublishBuffered
<1>12. ASSUME NEW t \in Threads, Ack(t) PROVE AckedIsDelivered'
  BY <1>12, AckAcked
<1>13. ASSUME NEW t \in Threads, Closed(t) PROVE AckedIsDelivered'
  BY <1>13, AckedFrame DEF Closed
<1>14. ASSUME NEW t \in Threads, DrainRaises(t) PROVE AckedIsDelivered'
  BY <1>14, AckedFrame DEF DrainRaises
<1>15. Boot => AckedIsDelivered'
  BY AckedFrame DEF Boot
<1>16. StartupDrain => AckedIsDelivered'
  BY AckedFrame DEF StartupDrain
<1>17. Prune => AckedIsDelivered'
  BY AckedFrame DEF Prune, PruneRows
<1>18. Shutdown => AckedIsDelivered'
  BY AckedFrame DEF Shutdown
<1>19. Exit => AckedIsDelivered'
  BY AckedFrame DEF Exit
<1>20. Crash => AckedIsDelivered'
  BY AckedFrame DEF Crash
<1>21. UNCHANGED vars => AckedIsDelivered'
  BY AckedFrame DEF vars
<1>22. Tick => AckedIsDelivered'
  BY AckedFrame DEF Tick
<1>23. Reloaded => AckedIsDelivered'
  BY AckedFrame DEF Reloaded
<1> QED
  BY <1>1, <1>2, <1>3, <1>4, <1>5, <1>6, <1>7, <1>8, <1>9, <1>10, <1>11, <1>12,
     <1>13, <1>14, <1>15, <1>16, <1>17, <1>18, <1>19, <1>20, <1>21,
     <1>22, <1>23, StepCases

(* With exporters told apart by their names, a row behind a cursor is with *)
(* every destination of that cursor: no interleaving of drains, crashes,   *)
(* pruning and reloads lets a cursor pass a row that was not delivered.    *)
THEOREM AckedDelivered ==
  ASSUME NamesDistinct
  PROVE  Spec => []AckedIsDelivered
<1>1. Init => AckedIsDelivered
  BY DEF Init, StoreInit, AckedIsDelivered
<1>2. Base /\ Batching /\ AckedIsDelivered /\ [Next]_vars => AckedIsDelivered'
  BY NextAcked
<1> QED
  BY <1>1, <1>2, Invariance, PTL DEF Spec

=============================================================================
