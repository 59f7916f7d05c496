------------------------------- MODULE Consumer -------------------------------
(***************************************************************************)
(* The reference consumer, examples/platform-ingest-reference/ingest.py:   *)
(* one line at a time through parse, validate, dedup, store and project,   *)
(* over a SQLite file.                                                     *)
(*                                                                         *)
(* The writes of a line belong to one transaction, committed at its end.   *)
(* The process may be killed at any statement; the file keeps what was     *)
(* committed.  Which lines come, how often and in which order is up to the *)
(* transport.  The counters of `stats` are left out.                       *)
(***************************************************************************)
EXTENDS Envelopes

CONSTANTS
  Garbage,    \* the lines that are not a JSON object
  NoLine

VARIABLES
  db,         \* the tables, as committed
  work,       \* the tables as the open transaction sees them
  stage,      \* the next statement: "read", "project" or "commit"
  line,       \* the line that is being handled
  ingested    \* history: the valid envelopes whose handling was committed

consumerVars == <<db, work, stage, line, ingested>>

Key(e) == <<e.gateway_id, e.machine_id, e.seq>>
RunKey(e) == <<e.gateway_id, e.machine_id, e.body.run_id>>

None == [x \in {} |-> x]
Put(f, k, v) == [x \in DOMAIN f \cup {k} |-> IF x = k THEN v ELSE f[x]]

NewTables ==
  [raw |-> None,        \* key -> envelope
   machines |-> None,   \* key -> body of the announcement
   runs |-> None,       \* <<gateway, machine, run_id>> -> body of the summary
   alarms |-> {},       \* <<first envelope, second envelope>>
   quarantine |-> {}]

ConsumerInit ==
  /\ db = NewTables /\ work = NewTables
  /\ stage = "read" /\ line = NoLine /\ ingested = {}

(* Mutation: validated as strictly as the gateway validates.               *)
Accepted_AsGateway(l) == l \notin Garbage /\ ValidEnvelope(l, FALSE)

(* Parsed and valid, as a consumer reads it: a profile's newer vocabulary  *)
(* is accepted.                                                            *)
Accepted(l) == l \notin Garbage /\ ValidEnvelope(l, TRUE)

-----------------------------------------------------------------------------
Read(l) ==
  /\ stage = "read"
  /\ line' = l
  /\ UNCHANGED <<db, ingested>>

Quarantine(l) ==
  /\ Read(l)
  /\ ~Accepted(l)
  /\ work' = [work EXCEPT !.quarantine = @ \cup {l}]
  /\ stage' = "commit"

(* Mutation: dedup looks at the key alone.                                 *)
SameEnvelope_ByKey(stored, e) == TRUE

(* Dedup compares the checksums of the stored and the new envelope.        *)
SameEnvelope(stored, e) == stored.checksum = e.checksum

(* Mutation: INSERT OR REPLACE, as the runs table has it.                  *)
Duplicate_Replaces(l) ==
  /\ Read(l)
  /\ Accepted(l) /\ Key(l) \in DOMAIN work.raw
  /\ work' = [work EXCEPT !.raw = Put(@, Key(l), l)]
  /\ stage' = "commit"

(* The key is there: an exact redelivery is dropped, anything else alarms. *)
Duplicate(l) ==
  /\ Read(l)
  /\ Accepted(l) /\ Key(l) \in DOMAIN work.raw
  /\ LET stored == work.raw[Key(l)]
     IN  work' = IF SameEnvelope(stored, l) THEN work
                 ELSE [work EXCEPT !.alarms = @ \cup {<<stored, l>>}]
  /\ stage' = "commit"

Store(l) ==
  /\ Read(l)
  /\ Accepted(l) /\ Key(l) \notin DOMAIN work.raw
  /\ work' = [work EXCEPT !.raw = Put(@, Key(l), l)]
  /\ stage' = "project"

Receive(l) == Quarantine(l) \/ Duplicate(l) \/ Store(l)

(* _project: an announcement is inserted or ignored, a summary replaces    *)
(* whatever its run had.                                                   *)
Projected(tables, e) ==
  IF e.schema = "machine" /\ Key(e) \notin DOMAIN tables.machines
  THEN [tables EXCEPT !.machines = Put(@, Key(e), e.body)]
  ELSE IF e.schema = "process_run" THEN [tables EXCEPT !.runs = Put(@, RunKey(e), e.body)]
  ELSE tables

Project ==
  /\ stage = "project"
  /\ work' = Projected(work, line)
  /\ stage' = "commit"
  /\ UNCHANGED <<db, line, ingested>>

(* Mutation: the raw envelope is committed before it is projected.         *)
AtCommit_OrEarlier == stage \in {"project", "commit"}

AtCommit == stage = "commit"

Commit ==
  /\ AtCommit
  /\ db' = work
  /\ ingested' = IF Accepted(line) THEN ingested \cup {line} ELSE ingested
  /\ stage' = "read" /\ line' = NoLine
  /\ UNCHANGED work

(* The process dies and is started again: the transaction is rolled back.  *)
Kill ==
  /\ stage # "read"
  /\ work' = db
  /\ stage' = "read" /\ line' = NoLine
  /\ UNCHANGED <<db, ingested>>

ConsumerStep == Project \/ Commit \/ Kill

(* The consumer under any transport whatever: any line may come next.      *)
ConsumerNext == (\E l : Receive(l)) \/ ConsumerStep

ConsumerSpec == ConsumerInit /\ [][ConsumerNext]_consumerVars

-----------------------------------------------------------------------------
(* gaps(): per machine, the seqs below its highest that are not stored.    *)
SeqsOf(tables, gw, mc) ==
  {k[3] : k \in {k \in DOMAIN tables.raw : k[1] = gw /\ k[2] = mc}}

(* Mutation: counted from the first seq that came.                         *)
Gaps_FromFirst(tables, gw, mc) ==
  LET seqs == SeqsOf(tables, gw, mc)
  IN  {s \in UNION {a .. b : a, b \in seqs} : s \notin seqs}

Gaps(tables, gw, mc) ==
  LET seqs == SeqsOf(tables, gw, mc)
  IN  (UNION {1 .. s : s \in seqs}) \ seqs

-----------------------------------------------------------------------------
(* A stored envelope is never changed, replaced or deleted, whatever comes *)
(* later (ingest.py 14-15: "raw envelopes are immutable").                 *)
FirstWins ==
  [][\A k \in DOMAIN db.raw : k \in DOMAIN db'.raw /\ db'.raw[k] = db.raw[k]]_consumerVars

(* No valid envelope disappears: each one taken in is the row of its key,  *)
(* says the same as that row, or is kept beside it in an alarm             *)
(* (ingest.py 94: "store both, no overwrite").                             *)
Kept(tables, e) ==
  /\ Key(e) \in DOMAIN tables.raw
  /\ \/ tables.raw[Key(e)].checksum = e.checksum
     \/ <<tables.raw[Key(e)], e>> \in tables.alarms

NothingSwallowed == \A e \in ingested : Kept(db, e)

(* The projections are those of the raw store, after any crash: every      *)
(* announcement under its own key, a summary for every run that has one    *)
(* and only such (ingest.py 15: "projections are rebuildable from them").  *)
OfSchema(tables, schema) == {k \in DOMAIN tables.raw : tables.raw[k].schema = schema}

Rebuilt(tables) ==
  /\ DOMAIN tables.machines = OfSchema(tables, "machine")
  /\ \A k \in DOMAIN tables.machines : tables.machines[k] = tables.raw[k].body
  /\ \A k \in OfSchema(tables, "process_run") : RunKey(tables.raw[k]) \in DOMAIN tables.runs
  /\ \A r \in DOMAIN tables.runs : \E k \in OfSchema(tables, "process_run") :
       RunKey(tables.raw[k]) = r /\ tables.raw[k].body = tables.runs[r]

ProjectionFromRaw == Rebuilt(db)
=============================================================================
