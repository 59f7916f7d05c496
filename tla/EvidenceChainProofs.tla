------------------------- MODULE EvidenceChainProofs -------------------------
(***************************************************************************)
(* What the consumer stores and what the auditor says of it, for every     *)
(* length of run, any number of faulty deliveries and kills, every set of  *)
(* rival claims, and whichever seqs the gateway signs.                     *)
(*                                                                         *)
(* The invariant has two halves: the shape of the stream the simulator     *)
(* writes (StreamInv), and that every row is an envelope of that stream,   *)
(* one under a rewritten header, or another summary under the key of its   *)
(* last one (RowsFrom).  The audit's  *)
(* properties follow from the two for any bundle of such rows.             *)
(***************************************************************************)
EXTENDS EvidenceChain, ConsumerProofs, FiniteSetTheorems, SequenceTheorems, WellFoundedInduction

(* The phases whose start is in a stream.                                  *)
StartsIn(o) == {i \in DOMAIN o : o[i].schema = "event" /\ o[i].body.event_type = "phase_start"}
PhasesIn(o) == {o[i].body.phase : i \in StartsIn(o)}

PhasesDone ==
  CASE place \in {"announce", "begin", "phase"} -> phase - 1
    [] place \in {"stats", "addition", "phase_end"} -> phase
    [] OTHER -> Len(PhasePlan)

(* One entry of the stream: an unsigned envelope of this run with its seq. *)
Entry(e, n) ==
  /\ e = MakeEnvelope(Gateway, Machine, n, profile, e.schema, e.body, NoKey)
  /\ e.schema \in CoreSchemas
  /\ e.body # [garbled |-> TRUE]
  /\ n = 1 => e.schema = "machine"
  /\ e.schema = "energy" => e.body.metric = "kwh" /\ e.body.value \in Readings

(* The body of the summary, once it is the last of n envelopes.            *)
LastBody(n) == [SummaryBody EXCEPT !.range = [first |-> 2, last |-> n - 1]]

IsEvent(e, type) == e.schema = "event" /\ e.body = EventBody(type, RunId)

StreamType ==
  place \in Places /\ phase \in 1 .. Len(PhasePlan) /\ out \in Seq(ToSet(out))

Entries == \A i \in DOMAIN out : Entry(out[i], i)

SummaryIsLast ==
  \A i \in DOMAIN out : out[i].schema = "process_run" => place = "done" /\ i = Len(out)

(* How far the stream is at each place.                                    *)
Begun ==
  /\ place = "announce" <=> Len(out) = 0
  /\ place = "begin" => Len(out) = 1
  /\ place \in {"announce", "begin"} => phase = 1
  /\ place \notin {"announce", "begin"} =>
       Len(out) >= 2 /\ firstSeq = 2 /\ IsEvent(out[2], "run_start")

Ended ==
  /\ place = "summary" => Len(out) >= 3 /\ IsEvent(out[Len(out)], "run_end")
  /\ place = "done" =>
       /\ Len(out) >= 4 /\ IsEvent(out[Len(out) - 1], "run_end")
       /\ out[Len(out)].schema = "process_run" /\ out[Len(out)].body = LastBody(Len(out))

Batch ==
  IsDyeing => /\ PhasesIn(out) = {PhasePlan[j] : j \in 1 .. PhasesDone}
              /\ place \notin {"loop", "stop"}

StreamInv == StreamType /\ Entries /\ SummaryIsLast /\ Begun /\ Ended /\ Batch

(* Row e under key k, when I was issued.                                   *)
RowFrom(I, k, e) ==
  /\ Key(e) = k
  /\ \/ e \in I
     \/ \E o \in I : o.schema = "process_run" /\ Key(o) = k /\ e \in OtherSummaries(o)
     \/ \E o \in I : Key(o) = k /\ e \in Rewritten(o)

RowsFrom(I, raw) == \A k \in DOMAIN raw : RowFrom(I, k, raw[k])

ChainInv == StreamInv /\ RowsFrom(Issued, db.raw) /\ RowsFrom(Issued, work.raw)

-----------------------------------------------------------------------------
(* The sequence with one more.                                             *)
LEMMA Appended ==
  ASSUME NEW s, s \in Seq(ToSet(s)), NEW e
  PROVE  /\ Len(s) \in Nat /\ DOMAIN s = 1 .. Len(s)
         /\ Append(s, e) \in Seq(ToSet(Append(s, e)))
         /\ Len(Append(s, e)) = Len(s) + 1 /\ DOMAIN Append(s, e) = 1 .. Len(s) + 1
         /\ Append(s, e)[Len(s) + 1] = e
         /\ \A i \in 1 .. Len(s) : Append(s, e)[i] = s[i]
<1> DEFINE S == ToSet(s) \cup {e}
           t == Append(s, e)
<1>1. s \in Seq(S)
  BY DEF ToSet
<1> HIDE DEF S
<1>2. e \in S
  BY DEF S
<1>3. /\ Len(s) \in Nat /\ DOMAIN s = 1 .. Len(s)
      /\ t \in Seq(S) /\ Len(t) = Len(s) + 1 /\ DOMAIN t = 1 .. Len(s) + 1
      /\ t[Len(s) + 1] = e
      /\ \A i \in 1 .. Len(s) : t[i] = s[i]
  BY <1>1, <1>2
<1> HIDE DEF t
<1>4. t \in Seq(ToSet(t))
  BY <1>3 DEF ToSet
<1> QED
  BY <1>3, <1>4 DEF t

(* What a step of the simulator appends is an entry like the others.       *)
LEMMA EntriesGrow ==
  ASSUME StreamInv, NEW schema \in CoreSchemas, NEW body, Emit(schema, body), profile' = profile,
         body # [garbled |-> TRUE], place = "announce" => schema = "machine",
         schema = "energy" => body.metric = "kwh" /\ body.value \in Readings
  PROVE  /\ (out \in Seq(ToSet(out)))' /\ Entries'
         /\ Len(out) \in Nat /\ DOMAIN out = 1 .. Len(out)
         /\ Len(out') = Len(out) + 1 /\ DOMAIN out' = 1 .. Len(out) + 1
         /\ \A i \in 1 .. Len(out) : out'[i] = out[i]
         /\ out'[Len(out) + 1].schema = schema /\ out'[Len(out) + 1].body = body
<1> DEFINE n == Len(out) + 1
           e == MakeEnvelope(Gateway, Machine, n, profile, schema, body, NoKey)
<1>1. out' = Append(out, e) /\ out \in Seq(ToSet(out))
  BY DEF Emit, StreamInv, StreamType
<1>2. e.schema = schema /\ e.body = body
  BY DEF MakeEnvelope
<1>3. n = 1 <=> place = "announce"
  <2>1. Len(out) \in Nat
    BY <1>1, Appended
  <2> QED
    BY <2>1 DEF StreamInv, Begun
<1>4. e = MakeEnvelope(Gateway, Machine, n, profile, e.schema, e.body, NoKey)
  BY <1>2
<1> HIDE DEF e
<1>5. Entry(e, n)
  BY <1>2, <1>3, <1>4 DEF Entry
<1>6. /\ Len(out) \in Nat /\ DOMAIN out = 1 .. Len(out)
      /\ out' \in Seq(ToSet(out'))
      /\ Len(out') = n /\ DOMAIN out' = 1 .. n /\ out'[n] = e
      /\ \A i \in 1 .. Len(out) : out'[i] = out[i]
  BY <1>1, Appended
<1>7. ASSUME NEW i \in DOMAIN out' PROVE Entry(out'[i], i)
  <2>1. CASE i = n
    BY <2>1, <1>5, <1>6
  <2>2. CASE i # n
    <3>1. i \in DOMAIN out /\ out'[i] = out[i]
      BY <2>2, <1>6
    <3> QED
      BY <3>1 DEF StreamInv, Entries
  <2> QED
    BY <2>1, <2>2
<1>8. Entries'
  BY <1>7 DEF Entries, Entry
<1> QED
  BY <1>2, <1>6, <1>8

LEMMA PhasesGrow ==
  ASSUME NEW o, NEW n \in Nat, NEW p, DOMAIN o = 1 .. n, DOMAIN p = 1 .. n + 1,
         \A i \in 1 .. n : p[i] = o[i]
  PROVE  PhasesIn(p) = IF p[n + 1].schema = "event" /\ p[n + 1].body.event_type = "phase_start"
                       THEN PhasesIn(o) \cup {p[n + 1].body.phase} ELSE PhasesIn(o)
<1>1. \A i : i \in 1 .. n + 1 <=> i \in 1 .. n \/ i = n + 1
  OBVIOUS
<1>2. \A i \in 1 .. n : i \in StartsIn(p) <=> i \in StartsIn(o)
  BY <1>1 DEF StartsIn
<1>3. StartsIn(p) = IF p[n + 1].schema = "event" /\ p[n + 1].body.event_type = "phase_start"
                    THEN StartsIn(o) \cup {n + 1} ELSE StartsIn(o)
  BY <1>1 DEF StartsIn
<1>4. StartsIn(o) \subseteq 1 .. n
  BY DEF StartsIn
<1>5. {p[i].body.phase : i \in StartsIn(o)} = PhasesIn(o)
  BY <1>4 DEF PhasesIn
<1> QED
  BY <1>3, <1>5 DEF PhasesIn

(* A body with an event's fields is not that of a corrupted copy.          *)
LEMMA NotGarbled ==
  ASSUME NEW r, "event_type" \in DOMAIN r \/ "metric" \in DOMAIN r \/ "data_source" \in DOMAIN r
                \/ "channel" \in DOMAIN r \/ "outcome" \in DOMAIN r
  PROVE  r # [garbled |-> TRUE]
OBVIOUS

LEMMA Bodies ==
  /\ \A t, r : EventBody(t, r) # [garbled |-> TRUE] /\ EventBody(t, r).event_type = t
  /\ \A t : PhaseBody(t) # [garbled |-> TRUE] /\ PhaseBody(t).event_type = t
              /\ PhaseBody(t).phase = PhasePlan[phase]
  /\ \A v, f, t : EnergyBody(v, f, t) # [garbled |-> TRUE] /\ EnergyBody(v, f, t).metric = "kwh"
                  /\ EnergyBody(v, f, t).value = v
  /\ SummaryBody # [garbled |-> TRUE]
<1>1. \A t, r : EventBody(t, r) # [garbled |-> TRUE] /\ EventBody(t, r).event_type = t
  BY NotGarbled DEF EventBody
<1>2. \A t : PhaseBody(t) # [garbled |-> TRUE] /\ PhaseBody(t).event_type = t
             /\ PhaseBody(t).phase = PhasePlan[phase]
  BY NotGarbled DEF PhaseBody
<1>3. \A v, f, t : EnergyBody(v, f, t) # [garbled |-> TRUE] /\ EnergyBody(v, f, t).metric = "kwh"
                   /\ EnergyBody(v, f, t).value = v
  BY NotGarbled DEF EnergyBody
<1>4. SummaryBody # [garbled |-> TRUE]
  BY NotGarbled DEF SummaryBody
<1> QED
  BY <1>1, <1>2, <1>3, <1>4

LEMMA StreamInit == SimInit => StreamInv
<1> SUFFICES ASSUME SimInit PROVE StreamInv
  OBVIOUS
<1>1. Len(PhasePlan) >= 1
  BY SimulatorAssumption
<1>2. Len(PhasePlan) \in Nat
  BY SimulatorAssumption
<1>3. out = <<>> /\ place = "announce" /\ phase = 1
  BY DEF SimInit
<1>4. out \in Seq(ToSet(out)) /\ DOMAIN out = {} /\ Len(out) = 0
  BY <1>3
<1>5. PhasesIn(out) = {}
  BY <1>4 DEF PhasesIn, StartsIn
<1>6. {PhasePlan[j] : j \in 1 .. PhasesDone} = {}
  <2>1. PhasesDone = 0
    BY <1>3 DEF PhasesDone
  <2> QED
    BY <2>1
<1> QED
  <2>1. StreamType
    BY <1>1, <1>2, <1>3, <1>4 DEF StreamType, Places
  <2>2. Entries /\ SummaryIsLast
    BY <1>4 DEF Entries, SummaryIsLast
  <2>3. Begun /\ Ended
    BY <1>3, <1>4 DEF Begun, Ended
  <2>4. Batch
    BY <1>3, <1>5, <1>6 DEF Batch
  <2> QED
    BY <2>1, <2>2, <2>3, <2>4 DEF StreamInv

-----------------------------------------------------------------------------
(* What every step that writes an envelope keeps.                          *)
LEMMA WritingKeeps ==
  ASSUME StreamInv, NEW schema \in CoreSchemas, NEW body, Emit(schema, body), profile' = profile,
         body # [garbled |-> TRUE], place = "announce" => schema = "machine",
         schema = "energy" => body.metric = "kwh" /\ body.value \in Readings,
         place # "done", place' \in Places \ {"announce"}, phase' \in 1 .. Len(PhasePlan),
         schema = "process_run" => place' = "done"
  PROVE  /\ StreamType' /\ Entries' /\ SummaryIsLast'
         /\ Len(out) \in Nat /\ Len(out') = Len(out) + 1
         /\ \A i \in 1 .. Len(out) : out'[i] = out[i]
         /\ out'[Len(out) + 1].schema = schema /\ out'[Len(out) + 1].body = body
         /\ PhasesIn(out') = IF schema = "event" /\ body.event_type = "phase_start"
                             THEN PhasesIn(out) \cup {body.phase} ELSE PhasesIn(out)
<1>1. /\ (out \in Seq(ToSet(out)))' /\ Entries'
      /\ Len(out) \in Nat /\ DOMAIN out = 1 .. Len(out)
      /\ Len(out') = Len(out) + 1 /\ DOMAIN out' = 1 .. Len(out) + 1
      /\ \A i \in 1 .. Len(out) : out'[i] = out[i]
      /\ out'[Len(out) + 1].schema = schema /\ out'[Len(out) + 1].body = body
  BY EntriesGrow
<1>2. StreamType'
  BY <1>1 DEF StreamType
<1>3. \A i \in 1 .. Len(out) : out'[i].schema # "process_run"
  BY <1>1 DEF StreamInv, SummaryIsLast
<1>4. SummaryIsLast'
  BY <1>1, <1>3 DEF SummaryIsLast
<1>5. PhasesIn(out') = IF schema = "event" /\ body.event_type = "phase_start"
                       THEN PhasesIn(out) \cup {body.phase} ELSE PhasesIn(out)
  BY <1>1, PhasesGrow
<1> QED
  BY <1>1, <1>2, <1>4, <1>5

LEMMA AnnounceStep == ASSUME StreamInv, Announce PROVE StreamInv'
<1> DEFINE body == [data_source |-> "native"]
<1>1. /\ place = "announce" /\ place' = "begin" /\ phase' = phase /\ profile' = profile
      /\ Emit("machine", body)
  BY DEF Announce, Goto
<1>2. body # [garbled |-> TRUE] /\ "machine" \in CoreSchemas
  BY NotGarbled DEF CoreSchemas
<1>3. phase = 1 /\ phase \in 1 .. Len(PhasePlan) /\ Len(out) = 0
  BY <1>1 DEF StreamInv, StreamType, Begun
<1>4. place' \in Places \ {"announce"}
  BY <1>1 DEF Places
<1> HIDE DEF body
<1>5. /\ StreamType' /\ Entries' /\ SummaryIsLast' /\ Len(out') = 1
      /\ PhasesIn(out') = PhasesIn(out)
  BY <1>1, <1>2, <1>3, <1>4, WritingKeeps
<1>6. Begun' /\ Ended'
  BY <1>1, <1>3, <1>5 DEF Begun, Ended
<1>7. Batch'
  BY <1>1, <1>5 DEF StreamInv, Batch, PhasesDone, IsDyeing
<1> QED
  BY <1>5, <1>6, <1>7 DEF StreamInv

LEMMA RunStartStep == ASSUME StreamInv, RunStart PROVE StreamInv'
<1> DEFINE body == EventBody("run_start", RunId)
<1>1. /\ place = "begin" /\ place' = IF IsDyeing THEN "phase" ELSE "loop"
      /\ phase' = phase /\ profile' = profile /\ firstSeq' = Len(out) + 1
      /\ Emit("event", body)
  BY DEF RunStart, FirstSeq, Goto
<1>2. body # [garbled |-> TRUE] /\ body.event_type # "phase_start" /\ "event" \in CoreSchemas
  BY Bodies DEF CoreSchemas
<1>3. phase = 1 /\ phase \in 1 .. Len(PhasePlan) /\ Len(out) = 1
  BY <1>1 DEF StreamInv, StreamType, Begun
<1>4. place' \in Places \ {"announce"} /\ place' # "begin"
  BY <1>1 DEF Places
<1> HIDE DEF body
<1>5. /\ StreamType' /\ Entries' /\ SummaryIsLast' /\ Len(out') = 2
      /\ PhasesIn(out') = PhasesIn(out)
      /\ out'[2].schema = "event" /\ out'[2].body = body
  BY <1>1, <1>2, <1>3, <1>4, WritingKeeps
<1>6. Begun'
  BY <1>1, <1>3, <1>4, <1>5 DEF Begun, IsEvent, body
<1>7. Ended'
  BY <1>1, <1>3, <1>5 DEF Ended
<1>8. Batch'
  BY <1>1, <1>5 DEF StreamInv, Batch, PhasesDone, IsDyeing
<1> QED
  BY <1>5, <1>6, <1>7, <1>8 DEF StreamInv

LEMMA RunEndStep == ASSUME StreamInv, RunEnd PROVE StreamInv'
<1> DEFINE body == EventBody("run_end", RunId)
<1>1. /\ place = "run_end" /\ place' = "summary" /\ phase' = phase /\ profile' = profile
      /\ firstSeq' = firstSeq /\ Emit("event", body)
  BY DEF RunEnd, Goto
<1>2. body # [garbled |-> TRUE] /\ body.event_type # "phase_start" /\ "event" \in CoreSchemas
  BY Bodies DEF CoreSchemas
<1>3. /\ phase \in 1 .. Len(PhasePlan) /\ Len(out) >= 2 /\ firstSeq = 2
      /\ IsEvent(out[2], "run_start")
  BY <1>1 DEF StreamInv, StreamType, Begun
<1>4. place' \in Places \ {"announce"}
  BY <1>1 DEF Places
<1> HIDE DEF body
<1>5. /\ StreamType' /\ Entries' /\ SummaryIsLast' /\ Len(out') = Len(out) + 1
      /\ PhasesIn(out') = PhasesIn(out) /\ Len(out) \in Nat
      /\ \A i \in 1 .. Len(out) : out'[i] = out[i]
      /\ out'[Len(out) + 1].schema = "event" /\ out'[Len(out) + 1].body = body
  BY <1>1, <1>2, <1>3, <1>4, WritingKeeps
<1>6. out'[2] = out[2] /\ Len(out') >= 3
  BY <1>3, <1>5
<1>7. Begun'
  BY <1>1, <1>3, <1>6 DEF Begun, IsEvent
<1>8. Ended'
  BY <1>1, <1>5, <1>6 DEF Ended, IsEvent, body
<1>9. Batch'
  BY <1>1, <1>5 DEF StreamInv, Batch, PhasesDone, IsDyeing
<1> QED
  BY <1>5, <1>7, <1>8, <1>9 DEF StreamInv

LEMMA SummaryStep == ASSUME StreamInv, Summary PROVE StreamInv'
<1> DEFINE body == SummaryBody
<1>1. /\ place = "summary" /\ place' = "done" /\ phase' = phase /\ profile' = profile
      /\ firstSeq' = firstSeq /\ cycles' = cycles /\ Emit("process_run", body)
  BY DEF Summary, Goto
<1>2. body # [garbled |-> TRUE] /\ "process_run" \in CoreSchemas
  BY Bodies DEF CoreSchemas
<1>3. /\ phase \in 1 .. Len(PhasePlan) /\ Len(out) >= 3 /\ firstSeq = 2
      /\ IsEvent(out[2], "run_start") /\ IsEvent(out[Len(out)], "run_end")
  BY <1>1 DEF StreamInv, StreamType, Begun, Ended
<1>4. place' \in Places \ {"announce"}
  BY <1>1 DEF Places
<1> HIDE DEF body
<1>5. /\ StreamType' /\ Entries' /\ SummaryIsLast' /\ Len(out') = Len(out) + 1
      /\ PhasesIn(out') = PhasesIn(out) /\ Len(out) \in Nat
      /\ \A i \in 1 .. Len(out) : out'[i] = out[i]
      /\ out'[Len(out) + 1].schema = "process_run" /\ out'[Len(out) + 1].body = body
  BY <1>1, <1>2, <1>3, <1>4, WritingKeeps
<1>6. out'[2] = out[2] /\ Len(out') >= 4 /\ out'[Len(out') - 1] = out[Len(out)]
  BY <1>3, <1>5
<1>7. Begun'
  BY <1>1, <1>3, <1>6 DEF Begun, IsEvent
<1>8. body = LastBody(Len(out))'
  <2>1. Len(out') - 1 = Len(out)
    BY <1>5
  <2>2. SummaryBody' = [SummaryBody EXCEPT !.range = SummaryBody'.range]
    <3> DEFINE ph == IF IsDyeing THEN ToSet(PhasePlan) ELSE {}
               qu == IF IsDyeing
                     THEN [q \in {<<"fabric_kg">>, <<"water_l", "total">>} |->
                             IF q = <<"fabric_kg">> THEN 1 ELSE 4]
                     ELSE [q \in {<<"cycles", "total">>} |-> cycles]
               ra == [first |-> firstSeq, last |-> Len(out)]
    <3>1. ph' = ph /\ qu' = qu
      BY <1>1 DEF IsDyeing
    <3>2. /\ SummaryBody = [run_id |-> RunId, outcome |-> "completed", phases |-> ph,
                            quantities |-> qu, range |-> ra]
          /\ SummaryBody' = [run_id |-> RunId, outcome |-> "completed", phases |-> ph',
                             quantities |-> qu', range |-> ra']
      BY DEF SummaryBody
    <3> HIDE DEF ph, qu, ra
    <3> QED
      BY <3>1, <3>2
  <2>3. body.range = [first |-> 2, last |-> Len(out') - 1]
    BY <1>3, <2>1 DEF SummaryBody, body
  <2>4. body = [body EXCEPT !.range = body.range]
    BY DEF SummaryBody, body
  <2>5. LastBody(Len(out))' = [body EXCEPT !.range = [first |-> 2, last |-> Len(out') - 1]]
    BY <2>2 DEF LastBody, SummaryBody, body
  <2> QED
    BY <2>3, <2>4, <2>5
<1>9. Ended'
  BY <1>1, <1>3, <1>5, <1>6, <1>8 DEF Ended, IsEvent
<1>10. Batch'
  BY <1>1, <1>5 DEF StreamInv, Batch, PhasesDone, IsDyeing
<1> QED
  BY <1>5, <1>7, <1>9, <1>10 DEF StreamInv

-----------------------------------------------------------------------------
(* Between run_start and run_end.                                          *)
Midway == Places \ {"announce", "begin", "summary", "done"}

LEMMA MidwayWriting ==
  ASSUME StreamInv, NEW schema \in CoreSchemas \ {"process_run"}, NEW body, Emit(schema, body),
         profile' = profile, firstSeq' = firstSeq, body # [garbled |-> TRUE],
         schema = "energy" => body.metric = "kwh" /\ body.value \in Readings,
         place \in Midway, place' \in Midway, phase' \in 1 .. Len(PhasePlan)
  PROVE  /\ StreamType' /\ Entries' /\ SummaryIsLast' /\ Begun' /\ Ended'
         /\ PhasesIn(out') = IF schema = "event" /\ body.event_type = "phase_start"
                             THEN PhasesIn(out) \cup {body.phase} ELSE PhasesIn(out)
<1>1. /\ place \notin {"announce", "begin", "summary", "done"} /\ place' \in Places
      /\ place' \notin {"announce", "begin", "summary", "done"}
  BY DEF Midway
<1>2. Len(out) >= 2 /\ firstSeq = 2 /\ IsEvent(out[2], "run_start")
  BY <1>1 DEF StreamInv, Begun
<1>3. schema \in CoreSchemas /\ schema # "process_run" /\ place' \in Places \ {"announce"}
  BY <1>1
<1>4. place # "announce" /\ place # "done"
  BY <1>1
<1>5. /\ StreamType' /\ Entries' /\ SummaryIsLast'
      /\ Len(out) \in Nat /\ Len(out') = Len(out) + 1
      /\ \A i \in 1 .. Len(out) : out'[i] = out[i]
      /\ PhasesIn(out') = IF schema = "event" /\ body.event_type = "phase_start"
                          THEN PhasesIn(out) \cup {body.phase} ELSE PhasesIn(out)
  BY <1>3, <1>4, WritingKeeps
<1>6. out'[2] = out[2]
  BY <1>2, <1>5
<1>7. Begun'
  BY <1>1, <1>2, <1>5, <1>6 DEF Begun, IsEvent
<1>8. Ended'
  BY <1>1 DEF Ended
<1> QED
  BY <1>5, <1>7, <1>8

LEMMA MidwayIdle ==
  ASSUME StreamInv, out' = out, profile' = profile, firstSeq' = firstSeq, phase' = phase,
         place \in Midway, place' \in Midway
  PROVE  StreamType' /\ Entries' /\ SummaryIsLast' /\ Begun' /\ Ended'
<1>1. /\ place \notin {"announce", "begin", "summary", "done"} /\ place' \in Places
      /\ place' \notin {"announce", "begin", "summary", "done"}
  BY DEF Midway
<1>2. Len(out) >= 2 /\ firstSeq = 2 /\ IsEvent(out[2], "run_start") /\ Len(out) # 0
  BY <1>1 DEF StreamInv, Begun
<1>3. StreamType'
  BY <1>1 DEF StreamInv, StreamType
<1>4. Entries'
  BY DEF StreamInv, Entries, Entry
<1>5. SummaryIsLast'
  BY <1>1 DEF StreamInv, SummaryIsLast
<1>6. Begun' /\ Ended'
  BY <1>1, <1>2 DEF Begun, Ended, IsEvent
<1> QED
  BY <1>3, <1>4, <1>5, <1>6

(* The cyclic machine starts no phase.                                     *)
LEMMA CyclicStep ==
  ASSUME StreamInv, ~IsDyeing, Cycle \/ Stop \/ StartAgain \/ Meter \/ TimeOver
  PROVE  StreamInv'
<1>1. Batch'
  BY DEF Batch, IsDyeing, Cycle, Stop, StartAgain, Meter, TimeOver
<1>2. phase \in 1 .. Len(PhasePlan)
  BY DEF StreamInv, StreamType
<1>3. /\ profile' = profile /\ firstSeq' = firstSeq /\ phase' = phase
      /\ place \in Midway /\ place' \in Midway
  BY DEF Cycle, Stop, StartAgain, Meter, TimeOver, Goto, Midway, Places
<1>4. CASE out' = out
  BY <1>1, <1>3, <1>4, MidwayIdle DEF StreamInv
<1>5. ASSUME NEW type, NEW run, Emit("event", EventBody(type, run)) PROVE StreamInv'
  <2> DEFINE body == EventBody(type, run)
  <2>1. body # [garbled |-> TRUE] /\ "event" \in CoreSchemas \ {"process_run"}
    BY Bodies DEF CoreSchemas
  <2>2. Emit("event", body)
    BY <1>5
  <2> HIDE DEF body
  <2>3. StreamType' /\ Entries' /\ SummaryIsLast' /\ Begun' /\ Ended'
    BY <1>2, <1>3, <2>1, <2>2, MidwayWriting
  <2> QED
    BY <1>1, <2>3 DEF StreamInv
<1>6. ASSUME NEW v \in Readings, NEW f, NEW t, Emit("energy", EnergyBody(v, f, t)) PROVE StreamInv'
  <2> DEFINE body == EnergyBody(v, f, t)
  <2>1. /\ body # [garbled |-> TRUE] /\ body.metric = "kwh" /\ body.value \in Readings
        /\ "energy" \in CoreSchemas \ {"process_run"}
    BY Bodies DEF CoreSchemas
  <2>2. Emit("energy", body)
    BY <1>6
  <2> HIDE DEF body
  <2>3. StreamType' /\ Entries' /\ SummaryIsLast' /\ Begun' /\ Ended'
    BY <1>2, <1>3, <2>1, <2>2, MidwayWriting
  <2> QED
    BY <1>1, <2>3 DEF StreamInv
<1>7. CASE Cycle
  BY <1>4, <1>5, <1>7 DEF Cycle
<1>8. CASE Stop
  BY <1>5, <1>8 DEF Stop
<1>9. CASE StartAgain
  BY <1>5, <1>9 DEF StartAgain
<1>10. CASE Meter
  BY <1>4, <1>6, <1>10 DEF Meter
<1>11. CASE TimeOver
  BY <1>4, <1>11 DEF TimeOver
<1> QED
  BY <1>7, <1>8, <1>9, <1>10, <1>11

(* The batch starts its phases in the order of the plan.                   *)
LEMMA DyeingStep ==
  ASSUME StreamInv, IsDyeing, PhaseStart \/ PhaseStats \/ Addition \/ PhaseEnd \/ BatchEnergy
  PROVE  StreamInv'
<1>1. /\ profile' = profile /\ firstSeq' = firstSeq
      /\ place \in Midway /\ place' \in Midway
  BY DEF PhaseStart, PhaseStats, Addition, PhaseEnd, BatchEnergy, Goto, Midway, Places
<1>2. /\ phase \in 1 .. Len(PhasePlan) /\ Len(PhasePlan) \in Nat
      /\ PhasesIn(out) = {PhasePlan[j] : j \in 1 .. PhasesDone}
  BY SimulatorAssumption DEF StreamInv, StreamType, Batch
<1>3. CoreSchemas \ {"process_run"} = {"machine", "event", "energy", "telemetry"}
  BY DEF CoreSchemas
<1>4. CASE PhaseStart
  <2> DEFINE body == PhaseBody("phase_start")
  <2>1. /\ place = "phase" /\ place' = "stats" /\ phase' = phase /\ Emit("event", body)
    BY <1>4 DEF PhaseStart, Goto
  <2>2. body # [garbled |-> TRUE] /\ body.event_type = "phase_start" /\ body.phase = PhasePlan[phase]
    BY Bodies
  <2> HIDE DEF body
  <2>3. /\ StreamType' /\ Entries' /\ SummaryIsLast' /\ Begun' /\ Ended'
        /\ PhasesIn(out') = PhasesIn(out) \cup {PhasePlan[phase]}
    BY <1>1, <1>2, <1>3, <2>1, <2>2, MidwayWriting
  <2>4. PhasesDone = phase - 1 /\ PhasesDone' = phase
    BY <2>1 DEF PhasesDone
  <2>5. PhasesIn(out') = {PhasePlan[j] : j \in 1 .. PhasesDone'}
    BY <1>2, <2>3, <2>4
  <2>6. Batch'
    BY <2>1, <2>5 DEF Batch
  <2> QED
    BY <2>3, <2>6 DEF StreamInv
<1>5. CASE PhaseStats
  <2> DEFINE body == [channel |-> "bath_temp", start |-> now, end |-> now + 1]
  <2>1. /\ place = "stats" /\ place' \in {"phase_end", "addition"} /\ phase' = phase
        /\ Emit("telemetry", body)
    BY <1>5 DEF PhaseStats, Goto
  <2>2. body # [garbled |-> TRUE]
    BY NotGarbled
  <2> HIDE DEF body
  <2>3. /\ StreamType' /\ Entries' /\ SummaryIsLast' /\ Begun' /\ Ended'
        /\ PhasesIn(out') = PhasesIn(out)
    BY <1>1, <1>2, <1>3, <2>1, <2>2, MidwayWriting
  <2>4. PhasesDone = phase /\ PhasesDone' = phase
    BY <2>1 DEF PhasesDone
  <2>5. Batch'
    BY <1>2, <2>1, <2>3, <2>4 DEF Batch
  <2> QED
    BY <2>3, <2>5 DEF StreamInv
<1>6. CASE Addition
  <2> DEFINE body == EventBody("addition", RunId)
  <2>1. /\ place = "addition" /\ place' = "phase_end" /\ phase' = phase /\ Emit("event", body)
    BY <1>6 DEF Addition, Goto
  <2>2. body # [garbled |-> TRUE] /\ body.event_type # "phase_start"
    BY Bodies
  <2> HIDE DEF body
  <2>3. /\ StreamType' /\ Entries' /\ SummaryIsLast' /\ Begun' /\ Ended'
        /\ PhasesIn(out') = PhasesIn(out)
    BY <1>1, <1>2, <1>3, <2>1, <2>2, MidwayWriting
  <2>4. PhasesDone = phase /\ PhasesDone' = phase
    BY <2>1 DEF PhasesDone
  <2>5. Batch'
    BY <1>2, <2>1, <2>3, <2>4 DEF Batch
  <2> QED
    BY <2>3, <2>5 DEF StreamInv
<1>7. CASE PhaseEnd
  <2> DEFINE body == PhaseBody("phase_end")
  <2>1. /\ place = "phase_end" /\ Emit("event", body)
        /\ \/ phase < Len(PhasePlan) /\ phase' = phase + 1 /\ place' = "phase"
           \/ phase = Len(PhasePlan) /\ phase' = phase /\ place' = "meter"
    BY <1>2, <1>7 DEF PhaseEnd, Goto
  <2>2. body # [garbled |-> TRUE] /\ body.event_type # "phase_start"
    BY Bodies
  <2> HIDE DEF body
  <2>3. phase' \in 1 .. Len(PhasePlan)
    BY <1>2, <2>1
  <2>4. /\ StreamType' /\ Entries' /\ SummaryIsLast' /\ Begun' /\ Ended'
        /\ PhasesIn(out') = PhasesIn(out)
    BY <1>1, <1>3, <2>1, <2>2, <2>3, MidwayWriting
  <2>5. PhasesDone = phase /\ PhasesDone' = phase
    BY <1>2, <2>1 DEF PhasesDone
  <2>6. Batch'
    BY <1>2, <2>1, <2>4, <2>5 DEF Batch
  <2> QED
    BY <2>4, <2>6 DEF StreamInv
<1>8. CASE BatchEnergy
  <2>1. PICK v \in Readings : Emit("energy", EnergyBody(v, 0, now))
    BY <1>8 DEF BatchEnergy
  <2> DEFINE body == EnergyBody(v, 0, now)
  <2>2. /\ place = "meter" /\ place' = "run_end" /\ phase' = phase /\ Emit("energy", body)
    BY <1>8, <2>1 DEF BatchEnergy, Goto
  <2>3. body # [garbled |-> TRUE] /\ body.metric = "kwh" /\ body.value \in Readings
    BY Bodies
  <2> HIDE DEF body
  <2>4. /\ StreamType' /\ Entries' /\ SummaryIsLast' /\ Begun' /\ Ended'
        /\ PhasesIn(out') = PhasesIn(out)
    BY <1>1, <1>2, <1>3, <2>2, <2>3, MidwayWriting
  <2>5. PhasesDone = Len(PhasePlan) /\ PhasesDone' = Len(PhasePlan)
    BY <2>2 DEF PhasesDone
  <2>6. Batch'
    BY <1>2, <2>2, <2>4, <2>5 DEF Batch
  <2> QED
    BY <2>4, <2>6 DEF StreamInv
<1> QED
  BY <1>4, <1>5, <1>6, <1>7, <1>8

LEMMA SimStep == ASSUME StreamInv, SimNext PROVE StreamInv'
BY AnnounceStep, RunStartStep, RunEndStep, SummaryStep, CyclicStep, DyeingStep DEF SimNext

LEMMA SimStutters == ASSUME StreamInv, UNCHANGED simVars PROVE StreamInv'
<1>1. /\ place' = place /\ phase' = phase /\ out' = out /\ firstSeq' = firstSeq
      /\ profile' = profile /\ cycles' = cycles
  BY DEF simVars
<1>2. LastBody(Len(out))' = LastBody(Len(out))
  BY <1>1 DEF LastBody, SummaryBody, IsDyeing
<1>3. StreamType' /\ Begun' /\ Batch'
  BY <1>1 DEF StreamInv, StreamType, Begun, Batch, PhasesDone, IsDyeing
<1>4. Entries' /\ SummaryIsLast'
  BY <1>1 DEF StreamInv, Entries, Entry, SummaryIsLast
<1>5. Ended'
  BY <1>1, <1>2 DEF StreamInv, Ended
<1> QED
  BY <1>3, <1>4, <1>5 DEF StreamInv

-----------------------------------------------------------------------------
IsEnvelope(e) ==
  e = [gateway_id |-> e.gateway_id, machine_id |-> e.machine_id, seq |-> e.seq,
       profile |-> e.profile, schema |-> e.schema, body |-> e.body,
       checksum |-> e.checksum, strict |-> e.strict, sig |-> e.sig]

OwnSig(n, sum) == Signature(GatewayKey, Gateway, Machine, n, sum)

(* What the gateway sends for the n-th entry.                              *)
LEMMA Sealing ==
  ASSUME StreamInv, NEW n \in DOMAIN out
  PROVE  LET e == Sealed(out[n])
         IN  /\ IsEnvelope(e) /\ e.gateway_id = Gateway /\ e.machine_id = Machine /\ e.seq = n
             /\ e.profile = profile /\ e.schema = out[n].schema /\ e.body = out[n].body
             /\ e.checksum = Checksum(e.body) /\ e.strict = TRUE
             /\ e.sig \in {NoKey, OwnSig(n, e.checksum)}
             /\ e.schema \in CoreSchemas /\ e.body # [garbled |-> TRUE]
             /\ n = 1 => e.schema = "machine"
<1> DEFINE o == out[n]
           e == Sealed(o)
<1>1. Entry(o, n)
  BY DEF StreamInv, Entries
<1>2. PICK yes : yes = TRUE
  OBVIOUS
<1>3. o = MakeEnvelope(Gateway, Machine, n, profile, o.schema, o.body, NoKey)
  BY <1>1 DEF Entry
<1>4. o = [gateway_id |-> Gateway, machine_id |-> Machine, seq |-> n, profile |-> profile,
           schema |-> o.schema, body |-> o.body, checksum |-> Checksum(o.body), strict |-> yes,
           sig |-> NoKey]
  BY <1>2, <1>3, Zenon DEF MakeEnvelope
<1> HIDE DEF o, e
<1>5. /\ o.gateway_id = Gateway /\ o.machine_id = Machine /\ o.seq = n /\ o.profile = profile
      /\ o.checksum = Checksum(o.body) /\ o.strict = yes /\ o.sig = NoKey
  BY <1>4
<1>6. IsEnvelope(o)
  BY <1>4, <1>5 DEF IsEnvelope
<1>7. /\ o.schema \in CoreSchemas /\ o.body # [garbled |-> TRUE]
      /\ n = 1 => o.schema = "machine"
  BY <1>1 DEF Entry
<1>8. \/ e = o
      \/ e = [o EXCEPT !.sig = OwnSig(n, o.checksum)]
  BY <1>5 DEF Sealed, OwnSig, e
<1>9. /\ IsEnvelope(e) /\ e.gateway_id = Gateway /\ e.machine_id = Machine /\ e.seq = n
      /\ e.profile = profile /\ e.schema = o.schema /\ e.body = o.body
      /\ e.checksum = Checksum(o.body) /\ e.strict = yes
      /\ e.sig \in {NoKey, OwnSig(n, o.checksum)}
  <2>1. CASE e = o
    BY <1>5, <1>6, <2>1
  <2>2. CASE e = [o EXCEPT !.sig = OwnSig(n, o.checksum)]
    BY <1>4, <1>5, <2>2 DEF IsEnvelope
  <2> QED
    BY <1>8, <2>1, <2>2
<1>10. e.strict = TRUE
  BY <1>2, <1>9, Zenon
<1> QED
  BY <1>5, <1>7, <1>9, <1>10 DEF e, o

LEMMA IssuedFrom ==
  ASSUME StreamInv, NEW e \in Issued
  PROVE  \E n \in DOMAIN out : n = e.seq /\ e = Sealed(out[n])
<1>1. PICK n \in DOMAIN out : e = Sealed(out[n])
  BY DEF Issued, Written, ToSet
<1>2. Sealed(out[n]).seq = n
  BY Sealing
<1> QED
  BY <1>1, <1>2

(* Another summary has the fields of the one it is made of, but for a body *)
(* and its checksum.                                                       *)
LEMMA Other ==
  ASSUME NEW o, IsEnvelope(o), NEW e \in OtherSummaries(o)
  PROVE  /\ IsEnvelope(e) /\ Key(e) = Key(o)
         /\ e.gateway_id = o.gateway_id /\ e.machine_id = o.machine_id /\ e.seq = o.seq
         /\ e.profile = o.profile /\ e.schema = o.schema /\ e.strict = o.strict /\ e.sig = o.sig
         /\ e.checksum = Checksum(e.body)
         /\ \/ \E c \in Claims : e.body = [o.body EXCEPT !.quantities = Put(@, <<"kwh", "total">>, c)]
            \/ e.body = [o.body EXCEPT !.phases = @ \cup {OtherPhase}]
<1>1. PICK b : /\ e = [o EXCEPT !.body = b, !.checksum = Checksum(b)]
               /\ \/ \E c \in Claims : b = [o.body EXCEPT !.quantities = Put(@, <<"kwh", "total">>, c)]
                  \/ b = [o.body EXCEPT !.phases = @ \cup {OtherPhase}]
  BY DEF OtherSummaries
<1>2. e = [gateway_id |-> o.gateway_id, machine_id |-> o.machine_id, seq |-> o.seq,
           profile |-> o.profile, schema |-> o.schema, body |-> b,
           checksum |-> Checksum(b), strict |-> o.strict, sig |-> o.sig]
  BY <1>1, Zenon DEF IsEnvelope
<1>3. /\ e.gateway_id = o.gateway_id /\ e.machine_id = o.machine_id /\ e.seq = o.seq
      /\ e.profile = o.profile /\ e.schema = o.schema /\ e.strict = o.strict /\ e.sig = o.sig
      /\ e.checksum = Checksum(b) /\ e.body = b
  BY <1>2
<1>4. IsEnvelope(e)
  BY <1>2, <1>3, Zenon DEF IsEnvelope
<1> QED
  BY <1>1, <1>3, <1>4 DEF Key

(* A rewritten header leaves all but the profile as it was.                *)
LEMMA NewHeader ==
  ASSUME NEW o, IsEnvelope(o), NEW e \in Rewritten(o)
  PROVE  /\ Key(e) = Key(o)
         /\ e.gateway_id = o.gateway_id /\ e.machine_id = o.machine_id /\ e.seq = o.seq
         /\ e.schema = o.schema /\ e.strict = o.strict /\ e.sig = o.sig
         /\ e.body = o.body /\ e.checksum = o.checksum
<1>1. PICK p : e = [o EXCEPT !.profile = p]
  BY DEF Rewritten
<1>2. e = [gateway_id |-> o.gateway_id, machine_id |-> o.machine_id, seq |-> o.seq,
           profile |-> p, schema |-> o.schema, body |-> o.body,
           checksum |-> o.checksum, strict |-> o.strict, sig |-> o.sig]
  BY <1>1, Zenon DEF IsEnvelope
<1>3. /\ e.gateway_id = o.gateway_id /\ e.machine_id = o.machine_id /\ e.seq = o.seq
      /\ e.schema = o.schema /\ e.strict = o.strict /\ e.sig = o.sig
      /\ e.body = o.body /\ e.checksum = o.checksum
  BY <1>2
<1> QED
  BY <1>3 DEF Key

-----------------------------------------------------------------------------
LEMMA RowsGrow ==
  ASSUME NEW I, NEW J, I \subseteq J, NEW raw, RowsFrom(I, raw)
  PROVE  RowsFrom(J, raw)
BY DEF RowsFrom, RowFrom

LEMMA RowPut ==
  ASSUME NEW I, NEW raw, RowsFrom(I, raw), NEW e, RowFrom(I, Key(e), e)
  PROVE  RowsFrom(I, Put(raw, Key(e), e))
<1> DEFINE k == Key(e)
<1>1. RowFrom(I, k, e)
  OBVIOUS
<1> HIDE DEF k
<1>2. ASSUME NEW x \in DOMAIN Put(raw, k, e) PROVE RowFrom(I, x, Put(raw, k, e)[x])
  <2>1. CASE x = k
    BY <1>1, <2>1 DEF Put
  <2>2. CASE x # k
    BY <2>2 DEF Put, RowsFrom
  <2> QED
    BY <2>1, <2>2
<1> QED
  BY <1>2 DEF RowsFrom, k

(* A corrupted copy does not pass, whatever the consumer's leniency.       *)
LEMMA CorruptedIsRefused ==
  ASSUME StreamInv, NEW o \in Issued, NEW l \in Corrupted(o)
  PROVE  ~Accepted(l)
<1>1. IsEnvelope(o) /\ o.body # [garbled |-> TRUE]
  <2>1. PICK n \in DOMAIN out : o = Sealed(out[n])
    BY IssuedFrom
  <2> QED
    BY <2>1, Sealing
<1>2. CASE l = [o EXCEPT !.checksum = Checksum([garbled |-> TRUE])]
  <2>1. l.checksum = Checksum([garbled |-> TRUE]) /\ l.body = o.body
    BY <1>1, <1>2 DEF IsEnvelope
  <2>2. Checksum(l.body) # l.checksum
    <3>1. \A a, b : Checksum(a) = Checksum(b) => a = b
      BY DEF Checksum
    <3> QED
      BY <1>1, <2>1, <3>1
  <2> QED
    BY <2>2 DEF Accepted, ValidEnvelope
<1>3. CASE l = [o EXCEPT !.strict = FALSE]
  <2>1. PICK no : no = FALSE
    OBVIOUS
  <2>2. l = [o EXCEPT !.strict = no]
    BY <1>3, <2>1, Zenon
  <2>3. l.strict = no
    BY <1>1, <2>2 DEF IsEnvelope
  <2> QED
    BY <2>1, <2>3, Zenon DEF Accepted, ValidEnvelope
<1> QED
  BY <1>2, <1>3 DEF Corrupted

LEMMA TakenIsRow ==
  ASSUME StreamInv, NEW l \in Missing \cup Faulty, Accepted(l)
  PROVE  RowFrom(Issued, Key(l), l)
<1>1. CASE l \in Issued
  BY <1>1 DEF RowFrom
<1>2. CASE l \in Garbage
  BY <1>2 DEF Accepted
<1>3. CASE \E o \in Issued : l \in Corrupted(o)
  BY <1>3, CorruptedIsRefused
<1>4. CASE \E o \in Issued : o.schema = "process_run" /\ l \in OtherSummaries(o)
  <2>1. PICK o \in Issued : o.schema = "process_run" /\ l \in OtherSummaries(o)
    BY <1>4
  <2>2. IsEnvelope(o)
    <3>1. PICK n \in DOMAIN out : o = Sealed(out[n])
      BY IssuedFrom
    <3> QED
      BY <3>1, Sealing
  <2>3. Key(l) = Key(o)
    BY <2>1, <2>2, Other
  <2> QED
    BY <2>1, <2>3 DEF RowFrom
<1>5. CASE \E o \in Issued : l \in Rewritten(o)
  <2>1. PICK o \in Issued : l \in Rewritten(o)
    BY <1>5
  <2>2. IsEnvelope(o)
    <3>1. PICK n \in DOMAIN out : o = Sealed(out[n])
      BY IssuedFrom
    <3> QED
      BY <3>1, Sealing
  <2>3. Key(l) = Key(o)
    BY <2>1, <2>2, NewHeader
  <2> QED
    BY <2>1, <2>3 DEF RowFrom
<1>6. \/ l \in Issued \/ l \in Garbage
      \/ l \in UNION {Corrupted(e) : e \in {e \in Issued : e.seq \in Corruptible}}
      \/ l \in UNION {Rewritten(e) : e \in {e \in Issued : e.seq \in Rewritable}}
      \/ l \in UNION {OtherSummaries(e) : e \in {e \in Issued : e.schema = "process_run"}}
  BY DEF Missing, Faulty
<1> QED
  BY <1>1, <1>2, <1>3, <1>4, <1>5, <1>6

-----------------------------------------------------------------------------
(* The consumer of this chain is the consumer under any transport.         *)
LEMMA ChainConsumes == [Next]_vars => [ConsumerNext]_consumerVars
<1>1. ASSUME Write PROVE UNCHANGED consumerVars
  BY <1>1 DEF Write
<1>2. ASSUME Deliver \/ DeliverFaulty \/ Work \/ Restart PROVE ConsumerNext
  BY <1>2 DEF Deliver, DeliverFaulty, Work, Restart, ConsumerNext, ConsumerStep
<1> QED
  BY <1>1, <1>2 DEF Next, vars

(* Everything proved of the consumer holds in the chain.                   *)
THEOREM ChainIsConsumer == Spec => ConsumerSpec
<1>1. Init => ConsumerInit
  BY DEF Init
<1> QED
  BY <1>1, ChainConsumes, PTL DEF Spec, ConsumerSpec

LEMMA ChainInit == Init => ChainInv
<1> SUFFICES ASSUME Init PROVE ChainInv
  OBVIOUS
<1>1. DOMAIN db.raw = {} /\ DOMAIN work.raw = {}
  BY DEF Init, ConsumerInit, NewTables, None
<1> QED
  BY <1>1, StreamInit DEF Init, ChainInv, RowsFrom

(* The rows of the open transaction after a line.                          *)
LEMMA ReceiveRows ==
  ASSUME StreamInv, RowsFrom(Issued, work.raw), IsTables(work),
         NEW l \in Missing \cup Faulty, Receive(l)
  PROVE  RowsFrom(Issued, work'.raw) /\ db' = db
<1>1. db' = db
  BY DEF Receive, Quarantine, Duplicate, Store, Read
<1>2. CASE Quarantine(l)
  <2>1. work'.raw = work.raw
    BY <1>2 DEF Quarantine, IsTables
  <2> QED
    BY <1>1, <2>1
<1>3. CASE Duplicate(l)
  <2>1. work'.raw = work.raw
    BY <1>3 DEF Duplicate, IsTables
  <2> QED
    BY <1>1, <2>1
<1>4. CASE Store(l)
  <2>1. Accepted(l) /\ work'.raw = Put(work.raw, Key(l), l)
    BY <1>4 DEF Store, IsTables
  <2> QED
    BY <1>1, <2>1, TakenIsRow, RowPut
<1> QED
  BY <1>2, <1>3, <1>4 DEF Receive

LEMMA ChainStep == ASSUME ChainInv, IInv, [Next]_vars PROVE ChainInv'
<1>1. StreamInv /\ RowsFrom(Issued, db.raw) /\ RowsFrom(Issued, work.raw)
  BY DEF ChainInv
<1>2. IsTables(db) /\ IsTables(work)
  BY DEF IInv, TxInv
<1>3. CASE Write
  <2>1. StreamInv'
    BY <1>1, <1>3, SimStep DEF Write
  <2>2. db' = db /\ work' = work /\ signFrom' = signFrom
    BY <1>3 DEF Write, consumerVars
  <2>3. out' = out \/ \E e : out' = Append(out, e)
    BY <1>3 DEF Write, SimNext, Announce, RunStart, RunEnd, Summary, Cycle, Stop, StartAgain, Meter,
                TimeOver, PhaseStart, PhaseStats, Addition, PhaseEnd, BatchEnergy, Emit
  <2>4. \A i \in DOMAIN out : i \in DOMAIN out' /\ out'[i] = out[i]
    <3>1. out \in Seq(ToSet(out))
      BY <1>1 DEF StreamInv, StreamType
    <3>2. ASSUME NEW e PROVE \A i \in DOMAIN out : i \in DOMAIN Append(out, e) /\ Append(out, e)[i] = out[i]
      BY <3>1, Appended
    <3> QED
      BY <2>3, <3>2
  <2>5. Issued \subseteq Issued'
    BY <2>2, <2>4 DEF Issued, Written, ToSet, Sealed
  <2>6. RowsFrom(Issued', db.raw) /\ RowsFrom(Issued', work.raw)
    BY <1>1, <2>5, RowsGrow
  <2> QED
    BY <2>1, <2>2, <2>6 DEF ChainInv
<1>4. ASSUME UNCHANGED <<simVars, signFrom>>
      PROVE  StreamInv' /\ Issued' = Issued
  <2>1. StreamInv'
    BY <1>1, <1>4, SimStutters
  <2>2. out' = out /\ signFrom' = signFrom
    BY <1>4 DEF simVars
  <2> QED
    BY <2>1, <2>2 DEF Issued, Written, Sealed
<1>5. ASSUME NEW l \in Missing \cup Faulty, Receive(l), UNCHANGED <<simVars, signFrom>> PROVE ChainInv'
  <2>1. RowsFrom(Issued, work'.raw) /\ db' = db
    BY <1>1, <1>2, <1>5, ReceiveRows
  <2>2. StreamInv' /\ Issued' = Issued
    BY <1>4, <1>5
  <2> QED
    BY <1>1, <2>1, <2>2 DEF ChainInv
<1>6. CASE Deliver \/ DeliverFaulty
  BY <1>5, <1>6 DEF Deliver, DeliverFaulty
<1>7. CASE Work /\ Project
  <2>1. UNCHANGED <<simVars, signFrom>> /\ db' = db /\ work' = Projected(work, line)
    BY <1>7 DEF Work, Project
  <2>2. Projected(work, line).raw = work.raw
    BY <1>2 DEF Projected, IsTables
  <2>3. StreamInv' /\ Issued' = Issued
    BY <1>4, <2>1
  <2> QED
    BY <1>1, <2>1, <2>2, <2>3 DEF ChainInv
<1>8. CASE Work /\ Commit
  <2>1. UNCHANGED <<simVars, signFrom>> /\ db' = work /\ work' = work
    BY <1>8 DEF Work, Commit
  <2>2. StreamInv' /\ Issued' = Issued
    BY <1>4, <2>1
  <2> QED
    BY <1>1, <2>1, <2>2 DEF ChainInv
<1>9. CASE Restart
  <2>1. UNCHANGED <<simVars, signFrom>> /\ db' = db /\ work' = db
    BY <1>9 DEF Restart, Kill
  <2>2. StreamInv' /\ Issued' = Issued
    BY <1>4, <2>1
  <2> QED
    BY <1>1, <2>1, <2>2 DEF ChainInv
<1>10. CASE UNCHANGED vars
  <2>1. UNCHANGED <<simVars, signFrom>> /\ db' = db /\ work' = work
    BY <1>10 DEF vars, consumerVars
  <2>2. StreamInv' /\ Issued' = Issued
    BY <1>4, <2>1
  <2> QED
    BY <1>1, <2>1, <2>2 DEF ChainInv
<1> QED
  BY <1>3, <1>6, <1>7, <1>8, <1>9, <1>10 DEF Next, Work

(* The stream has the shape the simulator gives it, and every row is one   *)
(* of its envelopes, one under a rewritten header, or another summary      *)
(* under the key of its last one.                                          *)
THEOREM ChainInvariant == Spec => []ChainInv
<1>1. Spec => []IInv
  BY ChainIsConsumer, ConsumerInvariant, PTL
<1>2. ChainInv /\ IInv /\ [Next]_vars => ChainInv'
  BY ChainStep
<1> QED
  BY <1>1, <1>2, ChainInit, PTL DEF Spec

-----------------------------------------------------------------------------
(* Only what somebody issued with its checksum in order is ever a row, in  *)
(* its own words or under a rewritten header.                              *)
LEMMA RowsAreIssued == ChainInv => OnlyIssuedStored
BY DEF ChainInv, RowsFrom, RowFrom, OnlyIssuedStored

THEOREM OnlyIssuedStoredHolds == Spec => []OnlyIssuedStored
BY ChainInvariant, RowsAreIssued, PTL

-----------------------------------------------------------------------------
(* A bundle of rows of the machine, by seq.                                *)
Row(n, e) ==
  /\ n \in DOMAIN out
  /\ e.gateway_id = Gateway /\ e.machine_id = Machine /\ e.seq = n
  /\ e.strict = TRUE /\ e.checksum = Checksum(e.body) /\ e.schema = out[n].schema
  /\ e.sig \in {NoKey, OwnSig(n, Sealed(out[n]).checksum)}
  /\ \/ e = Sealed(out[n])
     \/ e.schema = "process_run" /\ e \in OtherSummaries(Sealed(out[n]))
     \/ e \in Rewritten(Sealed(out[n]))

Rows(b) == \A n \in DOMAIN b : Row(n, b[n])

LEMMA SealedRow ==
  ASSUME StreamInv, NEW n \in DOMAIN out
  PROVE  Row(n, Sealed(out[n]))
BY Sealing DEF Row

LEMMA RowOf ==
  ASSUME StreamInv, NEW k, NEW e, RowFrom(Issued, k, e)
  PROVE  k = <<Gateway, Machine, e.seq>> /\ Row(e.seq, e)
<1>1. CASE e \in Issued
  <2>1. PICK n \in DOMAIN out : n = e.seq /\ e = Sealed(out[n])
    BY <1>1, IssuedFrom
  <2>2. e.gateway_id = Gateway /\ e.machine_id = Machine
    BY <2>1, Sealing
  <2>3. k = <<Gateway, Machine, e.seq>>
    BY <2>2 DEF RowFrom, Key
  <2> QED
    BY <2>1, <2>3, SealedRow
<1>2. CASE \E o \in Issued : o.schema = "process_run" /\ Key(o) = k /\ e \in OtherSummaries(o)
  <2>1. PICK o \in Issued : o.schema = "process_run" /\ Key(o) = k /\ e \in OtherSummaries(o)
    BY <1>2
  <2>2. PICK n \in DOMAIN out : n = o.seq /\ o = Sealed(out[n])
    BY IssuedFrom
  <2>3. /\ IsEnvelope(o) /\ o.gateway_id = Gateway /\ o.machine_id = Machine
        /\ o.schema = out[n].schema /\ o.strict = TRUE
        /\ o.sig \in {NoKey, OwnSig(n, o.checksum)}
    BY <2>2, Sealing
  <2>4. /\ Key(e) = Key(o) /\ e.gateway_id = o.gateway_id /\ e.machine_id = o.machine_id
        /\ e.seq = o.seq /\ e.schema = o.schema /\ e.strict = o.strict /\ e.sig = o.sig
        /\ e.checksum = Checksum(e.body)
    BY <2>1, <2>3, Other
  <2>5. e.strict = TRUE
    BY <2>3, <2>4, Zenon
  <2>6. k = <<Gateway, Machine, e.seq>>
    BY <2>1, <2>3, <2>4 DEF Key
  <2> QED
    BY <2>1, <2>2, <2>3, <2>4, <2>5, <2>6 DEF Row
<1>3. CASE \E o \in Issued : Key(o) = k /\ e \in Rewritten(o)
  <2>1. PICK o \in Issued : Key(o) = k /\ e \in Rewritten(o)
    BY <1>3
  <2>2. PICK n \in DOMAIN out : n = o.seq /\ o = Sealed(out[n])
    BY IssuedFrom
  <2>3. /\ IsEnvelope(o) /\ o.gateway_id = Gateway /\ o.machine_id = Machine
        /\ o.schema = out[n].schema /\ o.strict = TRUE /\ o.checksum = Checksum(o.body)
        /\ o.sig \in {NoKey, OwnSig(n, o.checksum)}
    BY <2>2, Sealing
  <2>4. /\ Key(e) = Key(o) /\ e.gateway_id = o.gateway_id /\ e.machine_id = o.machine_id
        /\ e.seq = o.seq /\ e.schema = o.schema /\ e.strict = o.strict /\ e.sig = o.sig
        /\ e.body = o.body /\ e.checksum = o.checksum
    BY <2>1, <2>3, NewHeader
  <2>5. e.strict = TRUE
    BY <2>3, <2>4, Zenon
  <2>6. k = <<Gateway, Machine, e.seq>>
    BY <2>1, <2>3, <2>4 DEF Key
  <2> QED
    BY <2>1, <2>2, <2>3, <2>4, <2>5, <2>6 DEF Row
<1> QED
  BY <1>1, <1>2, <1>3 DEF RowFrom

LEMMA BundleRows ==
  ASSUME ChainInv
  PROVE  /\ Rows(Bundle) /\ DOMAIN Bundle = SeqsOf(db, Gateway, Machine)
         /\ \A n \in DOMAIN Bundle : Bundle[n] = db.raw[<<Gateway, Machine, n>>]
<1>1. ASSUME NEW k \in DOMAIN db.raw
      PROVE  k = <<Gateway, Machine, k[3]>> /\ Row(k[3], db.raw[k])
  <2>1. RowFrom(Issued, k, db.raw[k]) /\ StreamInv
    BY DEF ChainInv, RowsFrom
  <2>2. k = <<Gateway, Machine, db.raw[k].seq>> /\ Row(db.raw[k].seq, db.raw[k])
    BY <2>1, RowOf
  <2> QED
    BY <2>2
<1>2. ASSUME NEW n \in SeqsOf(db, Gateway, Machine)
      PROVE  Row(n, db.raw[<<Gateway, Machine, n>>])
  <2>1. PICK k \in DOMAIN db.raw : n = k[3]
    BY DEF SeqsOf
  <2> QED
    BY <2>1, <1>1
<1>3. /\ DOMAIN Bundle = SeqsOf(db, Gateway, Machine)
      /\ \A n \in SeqsOf(db, Gateway, Machine) : Bundle[n] = db.raw[<<Gateway, Machine, n>>]
  BY DEF Bundle
<1> QED
  BY <1>2, <1>3 DEF Rows

-----------------------------------------------------------------------------
(* What a summary of the run claims, and what only an altered one can.     *)
Total == <<"kwh", "total">>

AltBody(b) ==
  \/ \E c \in Claims : b = [LastBody(Len(out)) EXCEPT !.quantities = Put(@, Total, c)]
  \/ b = [LastBody(Len(out)) EXCEPT !.phases = @ \cup {OtherPhase}]

LEMMA LastBodySays ==
  LET b == LastBody(Len(out))
  IN  /\ b.run_id = RunId /\ b.outcome = "completed"
      /\ b.range = [first |-> 2, last |-> Len(out) - 1]
      /\ b.phases = IF IsDyeing THEN ToSet(PhasePlan) ELSE {}
      /\ Total \notin DOMAIN b.quantities /\ <<"kwh">> \notin DOMAIN b.quantities
<1> DEFINE b == LastBody(Len(out))
           ph == IF IsDyeing THEN ToSet(PhasePlan) ELSE {}
           qu == IF IsDyeing
                 THEN [q \in {<<"fabric_kg">>, <<"water_l", "total">>} |->
                         IF q = <<"fabric_kg">> THEN 1 ELSE 4]
                 ELSE [q \in {<<"cycles", "total">>} |-> cycles]
           ra == [first |-> firstSeq, last |-> Len(out)]
           rb == [first |-> 2, last |-> Len(out) - 1]
<1>1. SummaryBody = [run_id |-> RunId, outcome |-> "completed", phases |-> ph,
                     quantities |-> qu, range |-> ra]
  BY DEF SummaryBody
<1>2. b = [SummaryBody EXCEPT !.range = rb]
  BY DEF LastBody
<1>3. Total \notin DOMAIN qu /\ <<"kwh">> \notin DOMAIN qu
  BY DEF Total
<1> HIDE DEF b, ph, qu, ra, rb
<1>4. /\ b.run_id = RunId /\ b.outcome = "completed" /\ b.range = rb /\ b.phases = ph
      /\ b.quantities = qu
  BY <1>1, <1>2
<1> QED
  BY <1>3, <1>4 DEF b, ph, rb

LEMMA AltSays ==
  ASSUME NEW b, AltBody(b)
  PROVE  /\ b.run_id = RunId /\ b.outcome = "completed"
         /\ b.range = [first |-> 2, last |-> Len(out) - 1]
         /\ Total \in DOMAIN b.quantities => b.quantities[Total] \in Claims
<1> DEFINE l == LastBody(Len(out))
           rb == [first |-> 2, last |-> Len(out) - 1]
           qu == l.quantities
<1>1. l = [run_id |-> l.run_id, outcome |-> l.outcome, phases |-> l.phases,
           quantities |-> l.quantities, range |-> l.range]
  <2>1. SummaryBody = [run_id |-> SummaryBody.run_id, outcome |-> SummaryBody.outcome,
                       phases |-> SummaryBody.phases, quantities |-> SummaryBody.quantities,
                       range |-> SummaryBody.range]
    BY DEF SummaryBody
  <2> QED
    BY <2>1 DEF LastBody
<1>2. /\ l.run_id = RunId /\ l.outcome = "completed" /\ l.range = rb
      /\ l.phases = IF IsDyeing THEN ToSet(PhasePlan) ELSE {}
      /\ Total \notin DOMAIN qu
  BY LastBodySays
<1> HIDE DEF l, rb
<1>3. CASE \E c \in Claims : b = [l EXCEPT !.quantities = Put(@, Total, c)]
  <2>1. PICK c \in Claims : b = [l EXCEPT !.quantities = Put(@, Total, c)]
    BY <1>3
  <2> DEFINE q == Put(qu, Total, c)
  <2>2. b = [l EXCEPT !.quantities = q]
    BY <2>1
  <2>3. q[Total] = c
    BY DEF Put
  <2> HIDE DEF q
  <2>4. /\ b.run_id = l.run_id /\ b.outcome = l.outcome /\ b.range = l.range
        /\ b.phases = l.phases /\ b.quantities = q
    BY <1>1, <2>2
  <2> QED
    BY <1>2, <2>3, <2>4 DEF rb
<1>4. CASE b = [l EXCEPT !.phases = @ \cup {OtherPhase}]
  <2>1. /\ b.run_id = l.run_id /\ b.outcome = l.outcome /\ b.range = l.range
        /\ b.phases = l.phases \cup {OtherPhase} /\ b.quantities = l.quantities
    BY <1>1, <1>4
  <2> QED
    BY <1>2, <2>1 DEF rb, qu
<1> QED
  BY <1>3, <1>4 DEF AltBody, l

(* A row that is a summary of a run is the last of a run that is over.     *)
LEMMA SummaryRow ==
  ASSUME StreamInv, NEW n, NEW e, Row(n, e), e.schema = "process_run"
  PROVE  /\ place = "done" /\ n = Len(out) /\ Len(out) \in Nat /\ Len(out) >= 4
         /\ e = Sealed(out[n]) => e.body = LastBody(Len(out))
         /\ e.body = LastBody(Len(out)) \/ AltBody(e.body)
         /\ e.body.run_id = RunId /\ e.body.outcome = "completed"
         /\ e.body.range = [first |-> 2, last |-> Len(out) - 1]
         /\ e.body.range # NoRange
<1>1. n \in DOMAIN out /\ out[n].schema = "process_run"
  BY DEF Row
<1>2. place = "done" /\ n = Len(out)
  BY <1>1 DEF StreamInv, SummaryIsLast
<1>3. Len(out) \in Nat /\ Len(out) >= 4 /\ out[n].body = LastBody(Len(out))
  <2>1. Len(out) \in Nat
    BY Appended DEF StreamInv, StreamType
  <2> QED
    BY <1>2, <2>1 DEF StreamInv, Ended
<1>4. Sealed(out[n]).body = out[n].body /\ IsEnvelope(Sealed(out[n]))
  BY <1>1, Sealing
<1>5. e = Sealed(out[n]) => e.body = LastBody(Len(out))
  BY <1>2, <1>3, <1>4
<1>6. ASSUME e \in OtherSummaries(Sealed(out[n])) PROVE AltBody(e.body)
  <2>1. \/ \E c \in Claims : e.body = [Sealed(out[n]).body EXCEPT !.quantities = Put(@, Total, c)]
        \/ e.body = [Sealed(out[n]).body EXCEPT !.phases = @ \cup {OtherPhase}]
    BY <1>4, <1>6, Other DEF Total
  <2>2. Sealed(out[n]).body = LastBody(Len(out))
    BY <1>2, <1>3, <1>4
  <2> QED
    BY <2>1, <2>2 DEF AltBody
<1>7. e.body = LastBody(Len(out)) \/ AltBody(e.body)
  <2>1. e \in Rewritten(Sealed(out[n])) => e.body = LastBody(Len(out))
    BY <1>2, <1>3, <1>4, NewHeader
  <2> QED
    BY <1>5, <1>6, <2>1 DEF Row
<1>8. /\ e.body.run_id = RunId /\ e.body.outcome = "completed"
      /\ e.body.range = [first |-> 2, last |-> Len(out) - 1]
  BY <1>7, LastBodySays, AltSays
<1>9. e.body.range # NoRange
  <2>1. Len(out) - 1 \in Nat
    BY <1>3
  <2>2. [first |-> 2, last |-> Len(out) - 1] \in [first : Nat, last : Nat]
    BY <2>1
  <2> QED
    BY <1>8, <2>2, ChainAssumption
<1> QED
  BY <1>2, <1>3, <1>5, <1>7, <1>8, <1>9

-----------------------------------------------------------------------------
(* The run that is audited, and what it cites.                             *)
LEMMA TheRun ==
  ASSUME StreamInv, NEW b, Rows(b), ~Refused(b, RunId), NEW r, r = RunLine(b, RunId)
  PROVE  /\ r \in DOMAIN b /\ b[r].schema = "process_run" /\ Row(r, b[r])
         /\ place = "done" /\ r = Len(out) /\ r \in Nat /\ r >= 4
         /\ b[r].body.range = [first |-> 2, last |-> r - 1] /\ b[r].body.range # NoRange
<1>1. Summaries(b, RunId) # {}
  BY FS_EmptySet DEF Refused
<1>2. r \in Summaries(b, RunId)
  BY <1>1 DEF RunLine
<1>3. r \in DOMAIN b /\ b[r].schema = "process_run"
  BY <1>2 DEF Summaries
<1>4. Row(r, b[r])
  BY <1>3 DEF Rows
<1> QED
  BY <1>3, <1>4, SummaryRow

LEMMA WhatIsCited ==
  ASSUME StreamInv, NEW b, Rows(b), NEW r \in DOMAIN b, b[r].schema = "process_run"
  PROVE  /\ Cited(b, r) = {n \in DOMAIN b : n >= 2}
         /\ SameMachine(b, b[r]) = DOMAIN b
         /\ Completeness(b, r) = Verdict(2 .. r - 1 \subseteq DOMAIN b)
         /\ DOMAIN b \subseteq 1 .. r
<1>1. Row(r, b[r])
  BY DEF Rows
<1>2. /\ r = Len(out) /\ r \in Nat /\ r >= 4 /\ b[r].body.range # NoRange
      /\ b[r].body.range = [first |-> 2, last |-> r - 1]
  BY <1>1, SummaryRow
<1>3. \A n \in DOMAIN b : /\ n \in 1 .. r /\ b[n].seq = n
                          /\ b[n].gateway_id = Gateway /\ b[n].machine_id = Machine
  BY <1>2, Appended DEF Rows, Row, StreamInv, StreamType
<1>4. SameMachine(b, b[r]) = DOMAIN b
  BY <1>3 DEF SameMachine
<1>5. b[r].body.range.first = 2 /\ b[r].body.range.last = r - 1
  BY <1>2
<1>6. \A n \in DOMAIN b : InRange(b[r], b[n].seq) <=> 2 <= n /\ n <= r - 1
  BY <1>3, <1>5 DEF InRange
<1>7. Cited(b, r) = {r} \cup {n \in DOMAIN b : 2 <= n /\ n <= r - 1}
  BY <1>2, <1>4, <1>6 DEF Cited
<1>8. Cited(b, r) = {n \in DOMAIN b : n >= 2}
  BY <1>2, <1>3, <1>7
<1>9. {b[n].seq : n \in Cited(b, r) \cap SameMachine(b, b[r])} = Cited(b, r)
  BY <1>3, <1>4, <1>8
<1>10. Completeness(b, r) = Verdict(2 .. r - 1 \subseteq Cited(b, r))
  BY <1>2, <1>5, <1>9 DEF Completeness
<1>11. 2 .. r - 1 \subseteq Cited(b, r) <=> 2 .. r - 1 \subseteq DOMAIN b
  BY <1>3, <1>8
<1> QED
  BY <1>3, <1>4, <1>8, <1>10, <1>11 DEF Verdict

-----------------------------------------------------------------------------
(* The consumer's gaps and the auditor's completeness are one fact.        *)
LEMMA GapsInv == ASSUME ChainInv PROVE GapsAgree
<1> SUFFICES ASSUME Auditable PROVE GapsAgree
  BY DEF GapsAgree
<1> DEFINE b == Bundle
           r == Run
           seqs == SeqsOf(db, Gateway, Machine)
<1>1. StreamInv /\ Rows(b) /\ DOMAIN b = seqs
  BY BundleRows DEF ChainInv
<1>2. /\ r \in DOMAIN b /\ b[r].schema = "process_run" /\ r \in Nat /\ r >= 4
      /\ b[r].body.range = [first |-> 2, last |-> r - 1]
  BY <1>1, TheRun DEF Auditable, Run
<1>3. Completeness(b, r) = Verdict(2 .. r - 1 \subseteq seqs) /\ seqs \subseteq 1 .. r
  BY <1>1, <1>2, WhatIsCited
<1>4. Gaps(db, Gateway, Machine) = (1 .. r) \ seqs
  <2>1. UNION {1 .. s : s \in seqs} = 1 .. r
    BY <1>1, <1>2, <1>3
  <2> QED
    BY <2>1 DEF Gaps
<1>5. Gaps(db, Gateway, Machine) \cap (2 .. r - 1) = {} <=> 2 .. r - 1 \subseteq seqs
  BY <1>2, <1>4
<1> HIDE DEF b, r, seqs
<1>6. Verdict(Gaps(db, Gateway, Machine) \cap (2 .. r - 1) = {}) = Verdict(2 .. r - 1 \subseteq seqs)
  BY <1>5 DEF Verdict
<1>7. b[r].body.range.first = 2 /\ b[r].body.range.last = r - 1
  BY <1>2
<1> QED
  BY <1>3, <1>6, <1>7 DEF GapsAgree, b, r

THEOREM GapsAgreeHolds == Spec => []GapsAgree
BY ChainInvariant, GapsInv, PTL

(* Of what is signed in the evidence the gateway sent the body, under that *)
(* machine and seq: a signature that verifies names the checksum of the    *)
(* body it is with.                                                        *)
LEMMA SignedInv == ASSUME ChainInv PROVE SignedIsIssued
<1> SUFFICES ASSUME Auditable, Authenticity(Bundle, Run, GatewayKey) = "true",
                    NEW s \in Cited(Bundle, Run), Signed(Bundle[s])
             PROVE  \E i \in Issued : Attested(i) = Attested(Bundle[s])
  BY DEF SignedIsIssued
<1> DEFINE e == Bundle[s]
           o == Sealed(out[s])
<1>1. StreamInv /\ Rows(Bundle)
  BY BundleRows DEF ChainInv
<1>2. VerifySig(e, GatewayKey)
  BY DEF Authenticity, Verdict
<1>3. s \in DOMAIN Bundle
  <2>1. Run \in DOMAIN Bundle
    BY <1>1, TheRun DEF Auditable, Run
  <2> QED
    BY <2>1 DEF Cited, SameMachine
<1>4. Row(s, e)
  BY <1>1, <1>3 DEF Rows
<1>5. o \in Issued /\ IsEnvelope(o)
  BY <1>1, <1>4, Sealing DEF Row, Issued, Written, ToSet
<1>6. CASE e = o
  BY <1>5, <1>6
<1>7. CASE e \in Rewritten(o)
  <2>1. Attested(o) = Attested(e)
    BY <1>5, <1>7, NewHeader DEF Attested
  <2> QED
    BY <1>5, <2>1
<1>8. CASE e \in OtherSummaries(o)
  <2>1. s \in DOMAIN out /\ e.seq = s /\ e.checksum = Checksum(e.body)
        /\ e.gateway_id = Gateway /\ e.machine_id = Machine
    BY <1>4 DEF Row
  <2>2. IsEnvelope(o) /\ o.checksum = Checksum(o.body) /\ o.sig \in {NoKey, OwnSig(s, o.checksum)}
    BY <1>1, <2>1, Sealing
  <2>3. /\ IsEnvelope(e) /\ e.gateway_id = o.gateway_id /\ e.machine_id = o.machine_id
        /\ e.seq = o.seq /\ e.profile = o.profile /\ e.schema = o.schema
        /\ e.strict = o.strict /\ e.sig = o.sig
    BY <1>8, <2>2, Other
  <2>4. e.sig = OwnSig(s, o.checksum) /\ e.sig = OwnSig(s, e.checksum)
    BY <1>2, <2>1, <2>2, <2>3 DEF VerifySig, Signed, OwnSig
  <2>5. e.checksum = o.checksum
    BY <2>4 DEF OwnSig, Signature
  <2>6. e.body = o.body
    BY <2>1, <2>2, <2>5 DEF Checksum
  <2>7. Attested(o) = Attested(e)
    BY <2>3, <2>5, <2>6 DEF Attested
  <2> QED
    BY <1>5, <2>7
<1> QED
  BY <1>4, <1>6, <1>7, <1>8 DEF Row

THEOREM SignedIsIssuedHolds == Spec => []SignedIsIssued
BY ChainInvariant, SignedInv, PTL

-----------------------------------------------------------------------------
(* A bundle with every envelope of the run: the auditor sees the events    *)
(* and the readings of the whole stream, in it or altered at the summary.  *)
EnergyOf(o) == {i \in DOMAIN o : o[i].schema = "energy"}

LEMMA CompleteBundle ==
  ASSUME StreamInv, NEW b, Rows(b), NEW r \in DOMAIN b, b[r].schema = "process_run",
         2 .. r - 1 \subseteq DOMAIN b
  PROVE  /\ Cited(b, r) = 2 .. r /\ 2 .. r \subseteq DOMAIN b /\ DOMAIN out = 1 .. r
         /\ Completeness(b, r) = "true"
         /\ HasStart(b, r) /\ HasEnd(b, r)
         /\ PhasesStarted(b, r) = PhasesIn(out)
         /\ Metered(b, r, "kwh") = EnergyOf(out)
         /\ Metrics(b, r) = IF EnergyOf(out) = {} THEN {} ELSE {"kwh"}
         /\ \A i \in EnergyOf(out) : b[i].body = out[i].body /\ out[i].body.value \in Readings
<1>1. Row(r, b[r])
  BY DEF Rows
<1>2. place = "done" /\ r = Len(out) /\ r \in Nat /\ r >= 4
  BY <1>1, SummaryRow
<1>3. DOMAIN out = 1 .. r
  BY <1>2, Appended DEF StreamInv, StreamType
<1>4. Cited(b, r) = {n \in DOMAIN b : n >= 2} /\ DOMAIN b \subseteq 1 .. r
      /\ Completeness(b, r) = Verdict(2 .. r - 1 \subseteq DOMAIN b)
  BY WhatIsCited
<1>5. Cited(b, r) = 2 .. r /\ 2 .. r \subseteq DOMAIN b
  BY <1>2, <1>4
<1>6. Completeness(b, r) = "true"
  BY <1>4 DEF Verdict
<1>7. ASSUME NEW n \in 2 .. r
      PROVE  /\ b[n].schema = out[n].schema
             /\ b[n].schema # "process_run" => b[n].body = out[n].body
             /\ n \in DOMAIN out
  <2>1. Row(n, b[n])
    BY <1>5, <1>7 DEF Rows
  <2>2. Sealed(out[n]).body = out[n].body /\ IsEnvelope(Sealed(out[n]))
    BY <2>1, Sealing DEF Row
  <2>3. b[n] \in Rewritten(Sealed(out[n])) => b[n].body = out[n].body
    BY <2>2, NewHeader
  <2> QED
    BY <2>1, <2>2, <2>3 DEF Row
<1>8. out[1].schema = "machine"
  BY <1>2, <1>3 DEF StreamInv, Entries, Entry
<1>9. \A n : n \in 1 .. r <=> n = 1 \/ n \in 2 .. r
  BY <1>2
<1>10. HasStart(b, r) /\ HasEnd(b, r)
  <2>1. IsEvent(out[2], "run_start") /\ IsEvent(out[r - 1], "run_end")
    BY <1>2 DEF StreamInv, Begun, Ended
  <2>2. 2 \in 2 .. r /\ r - 1 \in 2 .. r
    BY <1>2
  <2>3. \A t, x : EventBody(t, x).event_type = t
    BY Bodies
  <2>4. /\ b[2].schema = "event" /\ b[2].body.event_type = "run_start"
        /\ b[r - 1].schema = "event" /\ b[r - 1].body.event_type = "run_end"
    BY <1>7, <2>1, <2>2, <2>3 DEF IsEvent
  <2>5. 2 \in Events(b, r, "run_start") /\ r - 1 \in Events(b, r, "run_end")
    BY <1>5, <2>2, <2>4 DEF Events
  <2> QED
    BY <2>5 DEF HasStart, HasEnd
<1>11. PhasesStarted(b, r) = PhasesIn(out)
  <2>1. Events(b, r, "phase_start") = StartsIn(out)
    BY <1>3, <1>5, <1>7, <1>8, <1>9 DEF Events, StartsIn
  <2>2. \A n \in StartsIn(out) : b[n].body = out[n].body
    BY <1>3, <1>7, <1>8, <1>9 DEF StartsIn
  <2> QED
    BY <2>1, <2>2 DEF PhasesStarted, PhasesIn
<1>12. ASSUME NEW i \in EnergyOf(out)
       PROVE  /\ i \in 2 .. r /\ b[i].schema = "energy" /\ b[i].body = out[i].body
              /\ out[i].body.metric = "kwh" /\ out[i].body.value \in Readings
  <2>1. i \in 2 .. r
    BY <1>3, <1>8, <1>9, <1>12 DEF EnergyOf
  <2>2. out[i].body.metric = "kwh" /\ out[i].body.value \in Readings
    BY <1>12 DEF EnergyOf, StreamInv, Entries, Entry
  <2> QED
    BY <1>7, <1>12, <2>1, <2>2 DEF EnergyOf
<1>13. {c \in Cited(b, r) : b[c].schema = "energy"} = EnergyOf(out)
  BY <1>5, <1>7, <1>12 DEF EnergyOf
<1>14. Metered(b, r, "kwh") = EnergyOf(out)
  BY <1>12, <1>13 DEF Metered
<1>15. Metrics(b, r) = IF EnergyOf(out) = {} THEN {} ELSE {"kwh"}
  BY <1>12, <1>13 DEF Metrics
<1> QED
  BY <1>3, <1>5, <1>6, <1>10, <1>11, <1>12, <1>14, <1>15

(* What the audit says of an honest bundle with everything in it.          *)
LEMMA HonestFlags ==
  ASSUME StreamInv, NEW b, Rows(b), NEW r \in DOMAIN b, b[r].schema = "process_run",
         2 .. r - 1 \subseteq DOMAIN b, \A n \in DOMAIN b : b[n] = Sealed(out[n])
  PROVE  /\ Integrity(b, r) = "true" /\ Consistency(b, r) = "true"
         /\ Authenticity(b, r, GatewayKey) =
              IF {n \in 2 .. r : Signed(Sealed(out[n]))} = {} THEN "none" ELSE "true"
         /\ Conformance(b, r) = Verdict(\A n \in 2 .. r : ~OutsideProfile(Sealed(out[n]), FALSE))
         /\ RecordsHash(b, r) = {<<Sealed(out[n]).seq, Sealed(out[n]).checksum>> : n \in 2 .. r}
<1>1. /\ Cited(b, r) = 2 .. r /\ 2 .. r \subseteq DOMAIN b /\ DOMAIN out = 1 .. r
      /\ HasStart(b, r) /\ HasEnd(b, r) /\ PhasesStarted(b, r) = PhasesIn(out)
      /\ Metrics(b, r) \subseteq {"kwh"}
  BY CompleteBundle
<1>2. \A n \in 2 .. r : b[n] = Sealed(out[n]) /\ Row(n, b[n])
  BY <1>1 DEF Rows
<1>3. Integrity(b, r) = "true"
  BY <1>1, <1>2 DEF Row, Integrity, Verdict
<1>4. Authenticity(b, r, GatewayKey) =
        IF {n \in 2 .. r : Signed(Sealed(out[n]))} = {} THEN "none" ELSE "true"
  <2>1. {n \in Cited(b, r) : Signed(b[n])} = {n \in 2 .. r : Signed(Sealed(out[n]))}
    BY <1>1, <1>2
  <2>2. \A n \in 2 .. r : Signed(b[n]) => VerifySig(b[n], GatewayKey)
    BY <1>2 DEF Signed, VerifySig, Row, OwnSig
  <2> QED
    BY <1>1, <2>1, <2>2, ChainAssumption DEF Authenticity, Verdict
<1>5. Conformance(b, r) = Verdict(\A n \in 2 .. r : ~OutsideProfile(Sealed(out[n]), FALSE))
  <2>1. \A n \in 2 .. r : b[n].schema \in CoreSchemas
    BY <1>1, <1>2 DEF Row, StreamInv, Entries, Entry
  <2>2. \A n \in 2 .. r : ValidEnvelope(b[n], FALSE) <=> ~OutsideProfile(Sealed(out[n]), FALSE)
    BY <1>2, <2>1 DEF ValidEnvelope, Row
  <2> QED
    BY <1>1, <2>2 DEF Conformance, Verdict
<1>6. RecordsHash(b, r) = {<<Sealed(out[n]).seq, Sealed(out[n]).checksum>> : n \in 2 .. r}
  BY <1>1, <1>2 DEF RecordsHash
<1>7. place = "done" /\ b[r].body = LastBody(Len(out))
  <2>1. Row(r, b[r]) /\ b[r] = Sealed(out[r])
    BY DEF Rows
  <2> QED
    BY <2>1, SummaryRow
<1>8. ~PhasesDiffer(b, r)
  <2>1. CASE IsDyeing
    <3>1. b[r].body.phases = ToSet(PhasePlan)
      BY <1>7, <2>1, LastBodySays
    <3>2. PhasesIn(out) = {PhasePlan[j] : j \in 1 .. Len(PhasePlan)}
      BY <1>7, <2>1 DEF StreamInv, Batch, PhasesDone
    <3>3. DOMAIN PhasePlan = 1 .. Len(PhasePlan)
      BY SimulatorAssumption
    <3> QED
      BY <1>1, <3>1, <3>2, <3>3 DEF PhasesDiffer, ToSet
  <2>2. CASE ~IsDyeing
    <3>1. b[r].body.phases = {}
      BY <1>7, <2>2, LastBodySays
    <3> QED
      BY <3>1 DEF PhasesDiffer, PhasesCompared
  <2> QED
    BY <2>1, <2>2
<1>9. TotalsCompared(b, r) = {}
  <2>1. ClaimNames(b, r, "kwh") = {}
    BY <1>7, LastBodySays DEF ClaimNames, Total
  <2> QED
    BY <1>1, <2>1 DEF TotalsCompared
<1>10. BoundsCompared(b, r) /\ ~BoundsDiffer(b, r)
  BY <1>1 DEF BoundsCompared, BoundsDiffer
<1>11. Consistency(b, r) = "true"
  BY <1>8, <1>9, <1>10 DEF Consistency, Verdict
<1> QED
  BY <1>3, <1>4, <1>5, <1>6, <1>11

-----------------------------------------------------------------------------
LEMMA FullBundle ==
  ASSUME ChainInv, InFull
  PROVE  /\ StreamInv /\ Rows(Bundle) /\ place = "done" /\ Run = Len(out)
         /\ Run \in DOMAIN Bundle /\ Bundle[Run].schema = "process_run"
         /\ 2 .. Run - 1 \subseteq DOMAIN Bundle /\ Run \in Nat /\ Run >= 4
<1>1. StreamInv /\ Rows(Bundle)
  BY BundleRows DEF ChainInv
<1>2. /\ Run \in DOMAIN Bundle /\ Bundle[Run].schema = "process_run" /\ Run = Len(out)
      /\ place = "done" /\ Run \in Nat /\ Run >= 4
  <2>1. ~Refused(Bundle, RunId) /\ Run = RunLine(Bundle, RunId)
    BY DEF InFull, Auditable, Run
  <2> DEFINE r == RunLine(Bundle, RunId)
  <2>2. r \in DOMAIN Bundle /\ Bundle[r].schema = "process_run"
    BY <1>1, <2>1, TheRun
  <2>3. Row(r, Bundle[r])
    BY <1>1, <2>2 DEF Rows
  <2>4. place = "done" /\ r = Len(out) /\ r \in Nat /\ r >= 4
    BY <1>1, <2>2, <2>3, SummaryRow
  <2> QED
    BY <2>1, <2>2, <2>4
<1>3. Completeness(Bundle, Run) = Verdict(2 .. Run - 1 \subseteq DOMAIN Bundle)
  BY <1>1, <1>2, WhatIsCited
<1>4. 2 .. Run - 1 \subseteq DOMAIN Bundle
  BY <1>3 DEF InFull, Verdict
<1> QED
  BY <1>1, <1>2, <1>4

LEMMA UnalteredRows ==
  ASSUME StreamInv, Rows(Bundle), Unaltered
  PROVE  \A n \in DOMAIN Bundle : Bundle[n] = Sealed(out[n])
<1> SUFFICES ASSUME NEW n \in DOMAIN Bundle PROVE Bundle[n] = Sealed(out[n])
  OBVIOUS
<1>1. Bundle[n].seq = n /\ Bundle[n] \in Issued
  BY DEF Rows, Row, Unaltered
<1> QED
  BY <1>1, IssuedFrom

(* The producer's own stream as a bundle.                                  *)
Produced == [s \in {e.seq : e \in Issued} |-> CHOOSE e \in Issued : e.seq = s]

LEMMA ProducedRows ==
  ASSUME StreamInv, place = "done"
  PROVE  LET r == RunLine(Produced, RunId)
         IN  /\ Rows(Produced) /\ DOMAIN Produced = DOMAIN out
             /\ \A n \in DOMAIN Produced : Produced[n] = Sealed(out[n])
             /\ r = Len(out) /\ r \in DOMAIN Produced /\ Produced[r].schema = "process_run"
<1>1. \A n \in DOMAIN out : Sealed(out[n]) \in Issued /\ Sealed(out[n]).seq = n
  BY Sealing DEF Issued, Written, ToSet
<1>2. \A e \in Issued : e.seq \in DOMAIN out /\ e = Sealed(out[e.seq])
  BY IssuedFrom
<1>3. {e.seq : e \in Issued} = DOMAIN out
  BY <1>1, <1>2
<1>4. \A n \in DOMAIN out : (CHOOSE e \in Issued : e.seq = n) = Sealed(out[n])
  <2> SUFFICES ASSUME NEW n \in DOMAIN out PROVE (CHOOSE e \in Issued : e.seq = n) = Sealed(out[n])
    OBVIOUS
  <2> DEFINE c == CHOOSE e \in Issued : e.seq = n
  <2>1. c \in Issued /\ c.seq = n
    BY <1>1
  <2> QED
    BY <1>2, <2>1
<1>5. DOMAIN Produced = DOMAIN out /\ \A n \in DOMAIN out : Produced[n] = Sealed(out[n])
  BY <1>3, <1>4 DEF Produced
<1>6. Rows(Produced)
  BY <1>5, SealedRow DEF Rows
<1>7. Len(out) \in DOMAIN out /\ out[Len(out)].schema = "process_run"
  BY Appended DEF StreamInv, StreamType, Ended
<1> DEFINE l == Len(out)
<1>8. Produced[l].schema = "process_run" /\ Produced[l].body.run_id = RunId
  <2>1. Row(l, Produced[l])
    BY <1>5, <1>6, <1>7 DEF Rows
  <2> QED
    BY <1>7, <2>1, SummaryRow DEF Row
<1>9. l \in Summaries(Produced, RunId)
  BY <1>5, <1>7, <1>8 DEF Summaries
<1>10. \A n \in Summaries(Produced, RunId) : n = l
  BY <1>5, <1>6, SummaryRow DEF Summaries, Rows
<1>11. RunLine(Produced, RunId) = l
  BY <1>9, <1>10 DEF RunLine
<1> QED
  BY <1>5, <1>6, <1>7, <1>8, <1>11

(* Whoever audits everything of an honest run says of it what an auditor   *)
(* of the producer's own stream says.                                      *)
LEMMA SameCitationInv == ASSUME ChainInv PROVE SameCitation
<1> SUFFICES ASSUME InFull, Unaltered PROVE SameCitation
  BY DEF SameCitation
<1> DEFINE b == Bundle
           r == Run
           c == Produced
<1>1. /\ StreamInv /\ Rows(b) /\ place = "done" /\ r = Len(out) /\ r \in DOMAIN b
      /\ b[r].schema = "process_run" /\ 2 .. r - 1 \subseteq DOMAIN b /\ r \in Nat
  BY FullBundle
<1>2. \A n \in DOMAIN b : b[n] = Sealed(out[n])
  BY <1>1, UnalteredRows
<1>3. /\ Rows(c) /\ DOMAIN c = DOMAIN out /\ RunLine(c, RunId) = r
      /\ \A n \in DOMAIN c : c[n] = Sealed(out[n])
      /\ r \in DOMAIN c /\ c[r].schema = "process_run"
  BY <1>1, ProducedRows
<1>4. 2 .. r - 1 \subseteq DOMAIN c
  BY <1>1, <1>3, Appended DEF StreamInv, StreamType
<1> HIDE DEF b, r, c
<1>5. /\ RecordsHash(b, r) = RecordsHash(c, r) /\ Completeness(b, r) = Completeness(c, r)
      /\ Integrity(b, r) = Integrity(c, r) /\ Consistency(b, r) = Consistency(c, r)
      /\ Authenticity(b, r, GatewayKey) = Authenticity(c, r, GatewayKey)
      /\ Conformance(b, r) = Conformance(c, r)
  <2>1. Completeness(b, r) = "true" /\ Completeness(c, r) = "true"
    BY <1>1, <1>3, <1>4, CompleteBundle
  <2> DEFINE auth == IF {n \in 2 .. r : Signed(Sealed(out[n]))} = {} THEN "none" ELSE "true"
             conf == Verdict(\A n \in 2 .. r : ~OutsideProfile(Sealed(out[n]), FALSE))
             hash == {<<Sealed(out[n]).seq, Sealed(out[n]).checksum>> : n \in 2 .. r}
  <2> HIDE DEF auth, conf, hash
  <2>2. /\ Integrity(b, r) = "true" /\ Consistency(b, r) = "true"
        /\ Authenticity(b, r, GatewayKey) = auth /\ Conformance(b, r) = conf
        /\ RecordsHash(b, r) = hash
    BY <1>1, <1>2, HonestFlags DEF auth, conf, hash
  <2>3. /\ Integrity(c, r) = "true" /\ Consistency(c, r) = "true"
        /\ Authenticity(c, r, GatewayKey) = auth /\ Conformance(c, r) = conf
        /\ RecordsHash(c, r) = hash
    BY <1>1, <1>3, <1>4, HonestFlags DEF auth, conf, hash
  <2> QED
    BY <2>1, <2>2, <2>3
<1>6. Flags(b, r, GatewayKey) = Flags(c, r, GatewayKey)
  BY <1>5 DEF Flags
<1> QED
  <2>1. /\ RecordsHash(Bundle, Run) = RecordsHash(Produced, RunLine(Produced, RunId))
        /\ Flags(Bundle, Run, GatewayKey) = Flags(Produced, RunLine(Produced, RunId), GatewayKey)
    BY <1>3, <1>5, <1>6 DEF b, r, c
  <2> QED
    BY <2>1, Zenon DEF SameCitation, Produced

THEOREM SameCitationHolds == Spec => []SameCitation
BY ChainInvariant, SameCitationInv, PTL

(* Everything of an honest run passes, through any order, repetition and   *)
(* noise; only a profile older than the producer's makes it non-conformant.*)
LEMMA HonestPassesInv == ASSUME ChainInv PROVE HonestPasses
<1> SUFFICES ASSUME InFull, Unaltered PROVE HonestPasses
  BY DEF HonestPasses
<1> DEFINE b == Bundle
           r == Run
<1>1. /\ StreamInv /\ Rows(b) /\ r \in DOMAIN b
      /\ b[r].schema = "process_run" /\ 2 .. r - 1 \subseteq DOMAIN b
  BY FullBundle
<1>2. \A n \in DOMAIN b : b[n] = Sealed(out[n])
  BY <1>1, UnalteredRows
<1>3. Cited(b, r) = 2 .. r /\ 2 .. r \subseteq DOMAIN b
  BY <1>1, CompleteBundle
<1>4. /\ Integrity(b, r) = "true" /\ Consistency(b, r) = "true"
      /\ Authenticity(b, r, GatewayKey) # "false"
      /\ Conformance(b, r) = Verdict(\A n \in 2 .. r : ~OutsideProfile(Sealed(out[n]), FALSE))
  BY <1>1, <1>2, HonestFlags
<1>5. (\A n \in 2 .. r : ~OutsideProfile(Sealed(out[n]), FALSE))
        <=> (\A s \in Cited(b, r) : ~OutsideProfile(b[s], FALSE))
  BY <1>2, <1>3
<1>6. Conformance(b, r) = Verdict(\A s \in Cited(b, r) : ~OutsideProfile(b[s], FALSE))
  BY <1>4, <1>5 DEF Verdict
<1> QED
  BY <1>4, <1>6 DEF HonestPasses, Flags

THEOREM HonestPassesHolds == Spec => []HonestPasses
BY ChainInvariant, HonestPassesInv, PTL

-----------------------------------------------------------------------------
(* The sum a fold over a finite set computes: the recursion it is chosen   *)
(* by has a solution, layer by layer of the subsets' sizes, and sums that  *)
(* differ in nothing are one.                                              *)
Sum(b, S) == MapThenSumSet(LAMBDA n : b[n].body.value, S)

OneOf(s) == CHOOSE x \in s : TRUE
SumStep(b, g, s) == IF s = {} THEN 0 ELSE b[OneOf(s)].body.value + g[s \ {OneOf(s)}]
Solution(b, S) == CHOOSE g : g = [s \in SUBSET S |-> SumStep(b, g, s)]

LEMMA SumIsSolution ==
  ASSUME NEW b, NEW S
  PROVE  Sum(b, S) = Solution(b, S)[S]
BY DEF Sum, Solution, SumStep, OneOf, MapThenSumSet, MapThenFoldSet

LEMMA SameSum ==
  ASSUME NEW b, NEW c, NEW S, \A n \in S : b[n].body.value = c[n].body.value
  PROVE  Sum(b, S) = Sum(c, S)
<1>1. ASSUME NEW g, NEW s \in SUBSET S PROVE SumStep(b, g, s) = SumStep(c, g, s)
  <2>1. s # {} => OneOf(s) \in S
    BY DEF OneOf
  <2> QED
    BY <2>1 DEF SumStep
<1>2. \A g : [s \in SUBSET S |-> SumStep(b, g, s)] = [s \in SUBSET S |-> SumStep(c, g, s)]
  BY <1>1
<1>3. Solution(b, S) = Solution(c, S)
  BY <1>2, Zenon DEF Solution
<1> QED
  BY <1>3, SumIsSolution

LEMMA EveryNat ==
  ASSUME NEW T, 0 \in T, \A n \in Nat : n \in T => n + 1 \in T
  PROVE  Nat \subseteq T
<1> DEFINE less == {p \in Nat \X Nat : p[1] < p[2]}
<1>1. IsWellFoundedOn(less, Nat)
  BY NatLessThanWellFounded, Zenon DEF OpToRel
<1>2. SUFFICES ASSUME Nat \ T # {} PROVE FALSE
  OBVIOUS
<1>3. PICK x \in Nat \ T : \A y \in Nat \ T : <<y, x>> \notin less
  <2>1. Nat \ T \subseteq Nat
    OBVIOUS
  <2> QED
    BY <1>1, <1>2, <2>1, WFMin
<1>4. x # 0 /\ x - 1 \in Nat /\ <<x - 1, x>> \in less
  BY <1>3
<1>5. x - 1 \in T
  BY <1>3, <1>4
<1> QED
  BY <1>3, <1>4, <1>5

Layer(S, n) == {s \in SUBSET S : Cardinality(s) <= n}

(* Without the one that is taken first, a subset is in the layer below.    *)
LEMMA OneLess ==
  ASSUME NEW S, IsFiniteSet(S), NEW n \in Nat, NEW s \in Layer(S, n + 1), s # {}
  PROVE  OneOf(s) \in S /\ s \ {OneOf(s)} \in Layer(S, n)
<1>1. OneOf(s) \in s /\ s \in SUBSET S
  BY DEF OneOf, Layer
<1>2. IsFiniteSet(s) /\ Cardinality(s) \in Nat /\ Cardinality(s) <= n + 1
  BY <1>1, FS_Subset, FS_CardinalityType DEF Layer
<1>3. Cardinality(s \ {OneOf(s)}) = Cardinality(s) - 1
  BY <1>1, <1>2, FS_RemoveElement
<1> QED
  BY <1>1, <1>2, <1>3 DEF Layer

LEMMA StepType ==
  ASSUME NEW b, NEW g, NEW s,
         s # {} => b[OneOf(s)].body.value \in Int /\ g[s \ {OneOf(s)}] \in Int
  PROVE  SumStep(b, g, s) \in Int
<1> DEFINE v == b[OneOf(s)].body.value
           w == g[s \ {OneOf(s)}]
<1>1. CASE s = {}
  BY <1>1 DEF SumStep
<1>2. CASE s # {}
  <2>1. v \in Int /\ w \in Int
    BY <1>2
  <2>2. SumStep(b, g, s) = v + w
    BY <1>2 DEF SumStep
  <2> HIDE DEF v, w
  <2> QED
    BY <2>1, <2>2
<1> QED
  BY <1>1, <1>2

LEMMA SolutionExists ==
  ASSUME NEW S, IsFiniteSet(S), NEW b, \A n \in S : b[n].body.value \in Int
  PROVE  Solution(b, S) = [s \in SUBSET S |-> SumStep(b, Solution(b, S), s)]
<1> DEFINE Solves(n, g) == g \in [Layer(S, n) -> Int] /\ \A s \in Layer(S, n) : g[s] = SumStep(b, g, s)
           T == {n \in Nat : \E g : Solves(n, g)}
<1>1. 0 \in T
  <2> DEFINE g == [s \in Layer(S, 0) |-> 0]
  <2>1. ASSUME NEW s \in Layer(S, 0) PROVE s = {}
    <3>1. IsFiniteSet(s) /\ Cardinality(s) \in Nat /\ Cardinality(s) <= 0
      BY FS_Subset, FS_CardinalityType DEF Layer
    <3> QED
      BY <3>1, FS_EmptySet
  <2>2. Solves(0, g)
    BY <2>1 DEF SumStep
  <2> QED
    BY <2>2
<1>2. ASSUME NEW n \in Nat, n \in T PROVE n + 1 \in T
  <2>1. PICK g : Solves(n, g)
    BY <1>2
  <2> DEFINE h == [s \in Layer(S, n + 1) |-> SumStep(b, g, s)]
  <2>2. ASSUME NEW s \in Layer(S, n + 1), s # {}
        PROVE  /\ OneOf(s) \in S /\ s \ {OneOf(s)} \in Layer(S, n) /\ g[s \ {OneOf(s)}] \in Int
    BY <2>1, <2>2, OneLess
  <2>3. \A s \in Layer(S, n + 1) : SumStep(b, g, s) \in Int
    BY <2>2, StepType
  <2>4. Layer(S, n) \subseteq Layer(S, n + 1)
    <3>1. \A s \in SUBSET S : Cardinality(s) \in Nat
      BY FS_Subset, FS_CardinalityType
    <3> QED
      BY <3>1 DEF Layer
  <2>5. \A s \in Layer(S, n) : h[s] = g[s]
    BY <2>1, <2>4
  <2>6. \A s \in Layer(S, n + 1) : h[s] = SumStep(b, h, s)
    BY <2>2, <2>5 DEF SumStep
  <2>7. h \in [Layer(S, n + 1) -> Int]
    BY <2>3
  <2> HIDE DEF h
  <2>8. Solves(n + 1, h)
    BY <2>6, <2>7
  <2> QED
    BY <2>8
<1>3. Nat \subseteq T
  <2> HIDE DEF T
  <2> QED
    BY <1>1, <1>2, EveryNat
<1>4. Layer(S, Cardinality(S)) = SUBSET S /\ Cardinality(S) \in Nat
  BY FS_Subset, FS_CardinalityType DEF Layer
<1>5. PICK g : Solves(Cardinality(S), g)
  BY <1>3, <1>4
<1>6. g = [s \in SUBSET S |-> SumStep(b, g, s)]
  BY <1>4, <1>5
<1> QED
  BY <1>6, Zenon DEF Solution

LEMMA SumType ==
  ASSUME NEW S, IsFiniteSet(S), NEW b, \A n \in S : b[n].body.value \in Int
  PROVE  Sum(b, S) \in Int
<1> DEFINE g == Solution(b, S)
           T == {n \in Nat : \A s \in Layer(S, n) : g[s] \in Int}
<1>1. \A s \in SUBSET S : g[s] = SumStep(b, g, s)
  <2>1. g = [s \in SUBSET S |-> SumStep(b, g, s)]
    BY SolutionExists
  <2> HIDE DEF g
  <2> QED
    BY <2>1
<1> HIDE DEF g
<1>2. 0 \in T
  <2>1. ASSUME NEW s \in Layer(S, 0) PROVE s = {}
    <3>1. IsFiniteSet(s) /\ Cardinality(s) \in Nat /\ Cardinality(s) <= 0
      BY FS_Subset, FS_CardinalityType DEF Layer
    <3> QED
      BY <3>1, FS_EmptySet
  <2>2. ASSUME NEW s \in Layer(S, 0) PROVE g[s] \in Int
    <3>1. s = {} /\ s \in SUBSET S
      BY <2>1 DEF Layer
    <3>2. SumStep(b, g, s) \in Int
      BY <3>1, StepType
    <3> QED
      BY <1>1, <3>1, <3>2
  <2> QED
    BY <2>2
<1>3. ASSUME NEW n \in Nat, n \in T PROVE n + 1 \in T
  <2>1. ASSUME NEW s \in Layer(S, n + 1) PROVE g[s] \in Int
    <3>1. s \in SUBSET S
      BY DEF Layer
    <3>2. s # {} => OneOf(s) \in S /\ g[s \ {OneOf(s)}] \in Int
      BY <1>3, OneLess
    <3>3. SumStep(b, g, s) \in Int
      BY <3>2, StepType
    <3> QED
      BY <1>1, <3>1, <3>3
  <2> QED
    BY <2>1
<1>4. Nat \subseteq T
  <2> HIDE DEF T
  <2> QED
    BY <1>2, <1>3, EveryNat
<1>5. S \in Layer(S, Cardinality(S)) /\ Cardinality(S) \in Nat
  BY FS_CardinalityType DEF Layer
<1>6. g[S] \in Int
  BY <1>4, <1>5
<1> QED
  BY <1>6, SumIsSolution DEF g

-----------------------------------------------------------------------------
(* More than one per cent off is more than one per cent off.               *)
LEMMA OnePerCent ==
  ASSUME NEW c \in Int, NEW m \in Int, c > 0, 100 * m > 101 * c \/ 100 * m < 99 * c
  PROVE  c # 0 /\ 100 * Magnitude(c - m) > AtLeastOne(Magnitude(c))
<1>1. AtLeastOne(Magnitude(c)) = c
  BY DEF AtLeastOne, Magnitude
<1>2. 100 * Magnitude(c - m) > c
  BY DEF Magnitude
<1> QED
  BY <1>1, <1>2

(* In a complete bundle a list of phases other than what the machine       *)
(* reported, and an energy its meter did not show, are found inconsistent, *)
(* where there are such events to compare with.                            *)
LEMMA FalseClaimsInv == ASSUME ChainInv PROVE FalseClaimsFail
<1> DEFINE b == Bundle
           r == Run
           body == b[r].body
           falsePhases == PhasesBegun # {} /\ body.phases # {} /\ FalsePhases(body)
           falseTotal == MeterRead # {} /\ FalseTotal(body)
<1>1. SUFFICES ASSUME InFull, falsePhases \/ falseTotal PROVE Consistency(b, r) = "false"
  BY DEF FalseClaimsFail
<1>2. /\ StreamInv /\ Rows(b) /\ place = "done" /\ r \in DOMAIN b
      /\ b[r].schema = "process_run" /\ 2 .. r - 1 \subseteq DOMAIN b /\ r \in Nat
  BY <1>1, FullBundle
<1> HIDE DEF b, r
<1>3. /\ DOMAIN out = 1 .. r /\ HasStart(b, r)
      /\ PhasesStarted(b, r) = PhasesIn(out) /\ Metered(b, r, "kwh") = EnergyOf(out)
      /\ Metrics(b, r) = IF EnergyOf(out) = {} THEN {} ELSE {"kwh"}
      /\ \A i \in EnergyOf(out) : b[i].body = out[i].body /\ out[i].body.value \in Readings
  BY <1>2, CompleteBundle
<1>4. body = LastBody(Len(out)) \/ AltBody(body)
  BY <1>2, SummaryRow DEF Rows
<1>5. CASE falsePhases
  <2>1. PhasesBegun = PhasesIn(out)
    BY DEF PhasesBegun, PhasesIn, StartsIn
  <2>2. PhasesDiffer(b, r)
    BY <1>3, <1>5, <2>1 DEF FalsePhases, PhasesDiffer, PhasesCompared
  <2> QED
    BY <1>3, <2>2 DEF Consistency, BoundsCompared, Verdict
<1>6. CASE falseTotal
  <2> DEFINE c == body.quantities[Total]
             E == EnergyOf(out)
             m == Sum(out, E)
  <2>1. c \in Int
    BY <1>4, <1>6, LastBodySays, AltSays, ChainAssumption DEF FalseTotal, Total
  <2>2. E # {} /\ E = MeterRead
    BY <1>6 DEF EnergyOf, MeterRead
  <2>3. IsFiniteSet(E)
    <3>1. IsFiniteSet(1 .. r) /\ E \subseteq 1 .. r
      BY <1>2, <1>3, FS_Interval DEF EnergyOf
    <3> QED
      BY <3>1, FS_Subset
  <2>4. \A i \in E : out[i].body.value \in Int
    <3>1. Readings \subseteq Int
      BY SimulatorAssumption
    <3>2. \A i \in E : out[i].body.value \in Readings
      BY <1>3
    <3> HIDE DEF E
    <3> QED
      BY <3>1, <3>2
  <2>5. m \in Int
    BY <2>3, <2>4, SumType
  <2>6. MeterShowed = m
    BY <2>2 DEF MeterShowed, Sum
  <2>7. EnergyTotal(b, r, "kwh") = m
    <3>1. EnergyTotal(b, r, "kwh") = Sum(b, E)
      BY <1>3 DEF EnergyTotal, Sum
    <3>2. \A i \in E : b[i].body.value = out[i].body.value
      BY <1>3
    <3> QED
      BY <3>1, <3>2, SameSum
  <2>8. ClaimNames(b, r, "kwh") = {Total}
    BY <1>6 DEF ClaimNames, FalseTotal, Total
  <2>9. TotalDiffers(b, r, "kwh")
    <3> HIDE DEF m
    <3>1. c > 0 /\ (100 * m > 101 * c \/ 100 * m < 99 * c)
      BY <1>6, <2>6 DEF FalseTotal, Total
    <3>2. c # 0 /\ 100 * Magnitude(c - m) > AtLeastOne(Magnitude(c))
      BY <2>1, <2>5, <3>1, OnePerCent
    <3> QED
      BY <2>7, <2>8, <3>2 DEF TotalDiffers
  <2>10. "kwh" \in TotalsCompared(b, r)
    BY <1>3, <2>2, <2>8 DEF TotalsCompared
  <2> QED
    BY <2>9, <2>10 DEF Consistency, Verdict
<1> QED
  BY <1>1, <1>5, <1>6

THEOREM FalseClaimsFailHolds == Spec => []FalseClaimsFail
BY ChainInvariant, FalseClaimsInv, PTL

(* What every transport leaves of the consumer's promises, the chain does: *)
(* nothing valid is swallowed, the projections follow the store, and a     *)
(* stored envelope stays as it is.                                         *)
THEOREM ChainKeepsAll == Spec => []NothingSwallowed /\ []ProjectionFromRaw /\ FirstWins
BY ChainIsConsumer, NothingIsSwallowed, ProjectionsFollowRaw, RawIsImmutable, PTL
=============================================================================
