--------------------------- MODULE ConsumerProofs ---------------------------
(***************************************************************************)
(* What the reference consumer keeps under every transport: any lines, in  *)
(* any order and number, and a kill at any statement.                      *)
(*                                                                         *)
(* The invariant follows the transaction: until it is committed, `work` is *)
(* `db` with the line's own writes, and nothing in `db` is missing in it.  *)
(***************************************************************************)
EXTENDS Consumer, TLAPS

IsTables(t) ==
  t = [raw |-> t.raw, machines |-> t.machines, runs |-> t.runs,
       alarms |-> t.alarms, quarantine |-> t.quarantine]

(* Everything in the store of s is in the store of t, unchanged.           *)
Extends(t, s) ==
  /\ \A k \in DOMAIN s.raw : k \in DOMAIN t.raw /\ t.raw[k] = s.raw[k]
  /\ s.alarms \subseteq t.alarms

Projecting ==
  /\ Key(line) \notin DOMAIN db.raw
  /\ work = [db EXCEPT !.raw = Put(@, Key(line), line)]

Committing == Rebuilt(work) /\ (Accepted(line) => Kept(work, line))

TxInv ==
  /\ stage \in {"read", "project", "commit"}
  /\ IsTables(db) /\ IsTables(work)
  /\ Extends(work, db)
  /\ stage = "read" => work = db
  /\ stage = "project" => Projecting
  /\ stage = "commit" => Committing

IInv == TxInv /\ NothingSwallowed /\ ProjectionFromRaw

-----------------------------------------------------------------------------
(* What is kept stays kept when the store only grows.                      *)
LEMMA KeptStays ==
  ASSUME NEW s, NEW t, NEW e, Extends(t, s), Kept(s, e)
  PROVE  Kept(t, e)
BY DEF Extends, Kept

(* Projecting the envelope just stored makes the projections complete.     *)
LEMMA ProjectedIsRebuilt ==
  ASSUME NEW s, NEW t, NEW e,
         IsTables(s), Rebuilt(s), Key(e) \notin DOMAIN s.raw,
         IsTables(t), t.raw = Put(s.raw, Key(e), e),
         t.machines = s.machines, t.runs = s.runs
  PROVE  /\ Rebuilt(Projected(t, e))
         /\ IsTables(Projected(t, e))
         /\ Projected(t, e).raw = t.raw /\ Projected(t, e).alarms = t.alarms
<1> DEFINE p == Projected(t, e)
           K == Key(e)
<1>1. t = [raw |-> Put(s.raw, K, e), machines |-> s.machines, runs |-> s.runs,
           alarms |-> t.alarms, quarantine |-> t.quarantine]
  BY DEF IsTables
<1>2. /\ DOMAIN t.raw = DOMAIN s.raw \cup {K}
      /\ t.raw[K] = e
      /\ \A k \in DOMAIN s.raw : t.raw[k] = s.raw[k]
  <2>1. t.raw = Put(s.raw, K, e)
    BY <1>1
  <2>2. K \notin DOMAIN s.raw
    OBVIOUS
  <2>. HIDE DEF K
  <2>. QED  BY <2>1, <2>2 DEF Put
<1>3. K \notin DOMAIN s.machines
  BY DEF Rebuilt, OfSchema
<1>4. CASE e.schema = "machine"
  <2>1. p = [t EXCEPT !.machines = Put(@, K, e.body)]
    BY <1>1, <1>3, <1>4 DEF Projected
  <2>2. /\ p.raw = t.raw /\ p.machines = Put(s.machines, K, e.body) /\ p.runs = s.runs
        /\ p.alarms = t.alarms /\ IsTables(p)
    BY <2>1, <1>1 DEF IsTables
  <2>3. /\ DOMAIN p.machines = DOMAIN s.machines \cup {K}
        /\ p.machines[K] = e.body
        /\ \A k \in DOMAIN s.machines : p.machines[k] = s.machines[k]
    <3>1. p.machines = Put(s.machines, K, e.body)
      BY <2>2
    <3>. HIDE DEF p, K
    <3>. QED  BY <3>1, <1>3 DEF Put
  <2>4. /\ OfSchema(p, "machine") = OfSchema(s, "machine") \cup {K}
        /\ OfSchema(p, "process_run") = OfSchema(s, "process_run")
    BY <1>2, <1>4, <2>2 DEF OfSchema
  <2>5. \A k \in DOMAIN p.machines : p.machines[k] = p.raw[k].body
    BY <1>2, <2>2, <2>3 DEF Rebuilt, OfSchema
  <2>6. \A k \in OfSchema(p, "process_run") :
          k \in DOMAIN s.raw /\ p.raw[k] = s.raw[k]
    BY <1>2, <2>2, <2>4 DEF OfSchema
  <2>. HIDE DEF p
  <2>7. Rebuilt(p)
    BY <2>2, <2>3, <2>4, <2>5, <2>6 DEF Rebuilt
  <2>. QED  BY <2>2, <2>7 DEF p
<1>5. CASE e.schema = "process_run"
  <2>1. p = [t EXCEPT !.runs = Put(@, RunKey(e), e.body)]
    BY <1>1, <1>5 DEF Projected
  <2>2. /\ p.raw = t.raw /\ p.machines = s.machines
        /\ p.runs = Put(s.runs, RunKey(e), e.body)
        /\ p.alarms = t.alarms /\ IsTables(p)
    BY <2>1, <1>1 DEF IsTables
  <2>3. /\ DOMAIN p.runs = DOMAIN s.runs \cup {RunKey(e)}
        /\ p.runs[RunKey(e)] = e.body
        /\ \A r \in DOMAIN s.runs : r # RunKey(e) => p.runs[r] = s.runs[r]
    <3>1. p.runs = Put(s.runs, RunKey(e), e.body)
      BY <2>2
    <3>. HIDE DEF p
    <3>. QED  BY <3>1 DEF Put
  <2>4. /\ OfSchema(p, "machine") = OfSchema(s, "machine")
        /\ OfSchema(p, "process_run") = OfSchema(s, "process_run") \cup {K}
    BY <1>2, <1>5, <2>2 DEF OfSchema
  <2>5. \A k \in DOMAIN p.machines : p.machines[k] = p.raw[k].body
    BY <1>2, <2>2 DEF Rebuilt, OfSchema
  <2>6. /\ \A k \in OfSchema(s, "process_run") :
             k \in DOMAIN s.raw /\ p.raw[k] = s.raw[k]
        /\ p.raw[K] = e
    BY <1>2, <2>2 DEF OfSchema
  <2>. HIDE DEF p, K
  <2>7. \A k \in OfSchema(p, "process_run") : RunKey(p.raw[k]) \in DOMAIN p.runs
    BY <2>3, <2>4, <2>6 DEF Rebuilt
  <2>8. \A r \in DOMAIN p.runs : \E k \in OfSchema(p, "process_run") :
          RunKey(p.raw[k]) = r /\ p.raw[k].body = p.runs[r]
    <3>. SUFFICES ASSUME NEW r \in DOMAIN p.runs
                  PROVE  \E k \in OfSchema(p, "process_run") :
                           RunKey(p.raw[k]) = r /\ p.raw[k].body = p.runs[r]
      OBVIOUS
    <3>1. CASE r = RunKey(e)
      BY <3>1, <2>3, <2>4, <2>6
    <3>2. CASE r # RunKey(e)
      BY <3>2, <2>3, <2>4, <2>6 DEF Rebuilt
    <3>. QED  BY <3>1, <3>2
  <2>. QED  BY <2>2, <2>4, <2>5, <2>7, <2>8 DEF Rebuilt, p
<1>6. CASE e.schema \notin {"machine", "process_run"}
  <2>1. p = t
    BY <1>6 DEF Projected
  <2>2. /\ OfSchema(t, "machine") = OfSchema(s, "machine")
        /\ OfSchema(t, "process_run") = OfSchema(s, "process_run")
    BY <1>2, <1>6 DEF OfSchema
  <2>3. /\ t.machines = s.machines /\ t.runs = s.runs /\ IsTables(t)
    BY <1>1 DEF IsTables
  <2>4. \A k \in OfSchema(s, "machine") \cup OfSchema(s, "process_run") :
          k \in DOMAIN s.raw /\ t.raw[k] = s.raw[k]
    BY <1>2 DEF OfSchema
  <2>. HIDE DEF p
  <2>5. Rebuilt(t)
    BY <2>2, <2>3, <2>4 DEF Rebuilt
  <2>. QED  BY <2>1, <2>3, <2>5 DEF p
<1>. QED  BY <1>4, <1>5, <1>6

-----------------------------------------------------------------------------
LEMMA InitIInv == ConsumerInit => IInv
<1>. SUFFICES ASSUME ConsumerInit PROVE IInv
  OBVIOUS
<1>1. db = NewTables /\ work = NewTables /\ stage = "read" /\ ingested = {}
  BY DEF ConsumerInit
<1>2. /\ DOMAIN db.raw = {} /\ DOMAIN db.machines = {} /\ DOMAIN db.runs = {}
      /\ IsTables(db)
  BY <1>1 DEF NewTables, None, IsTables
<1>3. Rebuilt(db)
  BY <1>2 DEF Rebuilt, OfSchema
<1>4. Extends(work, db)
  BY <1>1 DEF Extends
<1>. QED  BY <1>1, <1>2, <1>3, <1>4 DEF IInv, TxInv, NothingSwallowed, ProjectionFromRaw

(* A line begins its transaction on the committed tables.                  *)
LEMMA QuarantineStep ==
  ASSUME IInv, NEW l, Quarantine(l)
  PROVE  IInv'
<1>1. /\ work = db /\ IsTables(db) /\ ~Accepted(l) /\ line' = l /\ stage' = "commit"
      /\ work' = [work EXCEPT !.quarantine = @ \cup {l}]
      /\ UNCHANGED <<db, ingested>>
  BY DEF IInv, TxInv, Quarantine, Read
<1>2. /\ work'.raw = db.raw /\ work'.machines = db.machines /\ work'.runs = db.runs
      /\ work'.alarms = db.alarms /\ IsTables(work')
  BY <1>1 DEF IsTables
<1>3. Extends(work', db') /\ Rebuilt(db') /\ Rebuilt(work')
  BY <1>1, <1>2 DEF Extends, IInv, ProjectionFromRaw, Rebuilt, OfSchema
<1>4. ~Accepted(line')
  BY <1>1
<1>. QED
  BY <1>1, <1>2, <1>3, <1>4
  DEF IInv, TxInv, Committing, NothingSwallowed, ProjectionFromRaw, Kept

LEMMA DuplicateStep ==
  ASSUME IInv, NEW l, Duplicate(l)
  PROVE  IInv'
<1>1. /\ work = db /\ IsTables(db) /\ Key(l) \in DOMAIN db.raw /\ line' = l
      /\ stage' = "commit" /\ UNCHANGED <<db, ingested>>
      /\ work' = IF db.raw[Key(l)].checksum = l.checksum THEN db
                 ELSE [db EXCEPT !.alarms = @ \cup {<<db.raw[Key(l)], l>>}]
  BY DEF IInv, TxInv, Duplicate, Read, SameEnvelope
<1>2. /\ work'.raw = db.raw /\ work'.machines = db.machines /\ work'.runs = db.runs
      /\ db.alarms \subseteq work'.alarms /\ IsTables(work')
      /\ \/ db.raw[Key(l)].checksum = l.checksum
         \/ <<db.raw[Key(l)], l>> \in work'.alarms
  BY <1>1 DEF IsTables
<1>3. Extends(work', db') /\ Rebuilt(db') /\ Rebuilt(work')
  BY <1>1, <1>2 DEF Extends, IInv, ProjectionFromRaw, Rebuilt, OfSchema
<1>4. Kept(work', l)
  BY <1>1, <1>2 DEF Kept
<1>. QED
  BY <1>1, <1>2, <1>3, <1>4
  DEF IInv, TxInv, Committing, NothingSwallowed, ProjectionFromRaw, Kept

LEMMA StoreStep ==
  ASSUME IInv, NEW l, Store(l)
  PROVE  IInv'
<1>1. /\ work = db /\ IsTables(db) /\ Key(l) \notin DOMAIN db.raw /\ line' = l
      /\ stage' = "project" /\ UNCHANGED <<db, ingested>>
      /\ work' = [db EXCEPT !.raw = Put(@, Key(l), l)]
  BY DEF IInv, TxInv, Store, Read
<1>2. /\ work'.raw = Put(db.raw, Key(l), l) /\ work'.alarms = db.alarms /\ IsTables(work')
  BY <1>1 DEF IsTables
<1>3. Extends(work', db')
  BY <1>1, <1>2 DEF Extends, Put
<1>4. Key(line') \notin DOMAIN db'.raw /\ work' = [db' EXCEPT !.raw = Put(@, Key(line'), line')]
  BY <1>1
<1>. QED
  BY <1>1, <1>2, <1>3, <1>4
  DEF IInv, TxInv, Projecting, NothingSwallowed, ProjectionFromRaw, Rebuilt, OfSchema, Kept

LEMMA ProjectStep ==
  ASSUME IInv, Project
  PROVE  IInv'
<1>1. /\ Key(line) \notin DOMAIN db.raw /\ IsTables(db) /\ Rebuilt(db) /\ Extends(work, db)
      /\ work = [db EXCEPT !.raw = Put(@, Key(line), line)]
      /\ work' = Projected(work, line) /\ stage' = "commit"
      /\ UNCHANGED <<db, line, ingested>>
  BY DEF IInv, TxInv, Projecting, ProjectionFromRaw, Project
<1>2. /\ Rebuilt(work') /\ IsTables(work')
      /\ work'.raw = work.raw /\ work'.alarms = work.alarms
  <2>1. /\ Rebuilt(Projected(work, line)) /\ IsTables(Projected(work, line))
        /\ Projected(work, line).raw = work.raw
        /\ Projected(work, line).alarms = work.alarms
    <3>1. /\ IsTables(work) /\ work.raw = Put(db.raw, Key(line), line)
          /\ work.machines = db.machines /\ work.runs = db.runs
      BY <1>1 DEF IsTables
    <3>2. IsTables(db) /\ Rebuilt(db) /\ Key(line) \notin DOMAIN db.raw
      BY <1>1
    <3>. QED  BY <3>1, <3>2, ProjectedIsRebuilt
  <2>. QED  BY <2>1, <1>1
<1>3. Extends(work', db')
  BY <1>1, <1>2 DEF Extends
<1>4. Kept(work', line')
  <2>1. work.raw = Put(db.raw, Key(line), line)
    BY <1>1 DEF IsTables
  <2>. QED  BY <2>1, <1>1, <1>2 DEF Kept, Put
<1>. QED
  BY <1>1, <1>2, <1>3, <1>4
  DEF IInv, TxInv, Committing, NothingSwallowed, ProjectionFromRaw, Rebuilt, OfSchema, Kept

LEMMA CommitStep ==
  ASSUME IInv, Commit
  PROVE  IInv'
<1>1. /\ Extends(work, db) /\ IsTables(work) /\ Committing
      /\ db' = work /\ work' = work /\ stage' = "read"
      /\ ingested' = IF Accepted(line) THEN ingested \cup {line} ELSE ingested
  BY DEF IInv, TxInv, Commit, AtCommit
<1>2. \A e \in ingested : Kept(work, e)
  BY <1>1, KeptStays DEF IInv, NothingSwallowed
<1>3. \A e \in ingested' : Kept(work, e)
  BY <1>1, <1>2 DEF Committing
<1>4. Extends(work', db')
  BY <1>1 DEF Extends
<1>5. Rebuilt(db')
  BY <1>1 DEF Committing, Rebuilt, OfSchema
<1>6. NothingSwallowed'
  BY <1>1, <1>3 DEF NothingSwallowed, Kept
<1>. QED  BY <1>1, <1>4, <1>5, <1>6 DEF IInv, TxInv, IsTables, ProjectionFromRaw

LEMMA KillStep ==
  ASSUME IInv, Kill
  PROVE  IInv'
<1>1. /\ work' = db /\ stage' = "read" /\ UNCHANGED <<db, ingested>>
  BY DEF Kill
<1>2. Extends(work', db')
  BY <1>1 DEF Extends
<1>. QED
  BY <1>1, <1>2
  DEF IInv, TxInv, IsTables, NothingSwallowed, ProjectionFromRaw, Rebuilt, OfSchema, Kept

LEMMA StepIInv == IInv /\ [ConsumerNext]_consumerVars => IInv'
<1>. SUFFICES ASSUME IInv, [ConsumerNext]_consumerVars PROVE IInv'
  OBVIOUS
<1>1. ASSUME NEW l, Receive(l) PROVE IInv'
  BY <1>1, QuarantineStep, DuplicateStep, StoreStep DEF Receive
<1>2. CASE UNCHANGED consumerVars
  <2>1. db' = db /\ work' = work /\ stage' = stage /\ line' = line /\ ingested' = ingested
    BY <1>2 DEF consumerVars
  <2>2. TxInv'
    BY <2>1 DEF IInv, TxInv, Projecting, Committing
  <2>. QED  BY <2>1, <2>2 DEF IInv, NothingSwallowed, ProjectionFromRaw
<1>. QED  BY <1>1, <1>2, ProjectStep, CommitStep, KillStep DEF ConsumerNext, ConsumerStep

THEOREM ConsumerInvariant == ConsumerSpec => []IInv
BY InitIInv, StepIInv, PTL DEF ConsumerSpec

(* Whatever the transport does, every valid envelope that was taken in is  *)
(* stored, equal to what is stored, or beside it in an alarm.              *)
THEOREM NothingIsSwallowed == ConsumerSpec => []NothingSwallowed
BY ConsumerInvariant, PTL DEF IInv

(* At every moment, after every kill, the projections are those of the raw *)
(* store.                                                                  *)
THEOREM ProjectionsFollowRaw == ConsumerSpec => []ProjectionFromRaw
BY ConsumerInvariant, PTL DEF IInv

(* A stored envelope is never changed, replaced or deleted.                *)
THEOREM RawIsImmutable == ConsumerSpec => FirstWins
<1>1. IInv /\ [ConsumerNext]_consumerVars
        => [\A k \in DOMAIN db.raw : k \in DOMAIN db'.raw /\ db'.raw[k] = db.raw[k]]_consumerVars
  <2>. SUFFICES ASSUME IInv, ConsumerNext
                PROVE  \A k \in DOMAIN db.raw : k \in DOMAIN db'.raw /\ db'.raw[k] = db.raw[k]
    OBVIOUS
  <2>1. CASE Commit
    BY <2>1 DEF Commit, IInv, TxInv, Extends
  <2>2. CASE Project \/ Kill
    BY <2>2 DEF Project, Kill
  <2>3. ASSUME NEW l, Receive(l) PROVE db' = db
    BY <2>3 DEF Receive, Quarantine, Duplicate, Store, Read
  <2>. QED  BY <2>1, <2>2, <2>3 DEF ConsumerNext, ConsumerStep
<1>. QED  BY <1>1, ConsumerInvariant, PTL DEF ConsumerSpec, FirstWins
=============================================================================
