---------------------------- MODULE GatewayStore ----------------------------
(***************************************************************************)
(* The gateway's database, gateway/omp/core/store.py: one SQLite file in   *)
(* WAL mode with synchronous=FULL.  Every method of Store takes the        *)
(* store's lock and runs in one transaction, so each is one atomic step    *)
(* here, and everything it commits survives a crash.                       *)
(*                                                                         *)
(* The module is the state of the tables and the effect of each method;    *)
(* the threads that call the methods are in GatewayPipeline.               *)
(***************************************************************************)
EXTENDS Integers, FiniteSets

CONSTANTS
  Machines,      \* machine ids of the registry
  Names,         \* exporter names, the keys of exporter_cursors
  BatchSize      \* the limit pending() is called with (500 in drain())

ASSUME BatchAssumption == BatchSize \in Nat \ {0}

VARIABLES
  lastSeq,       \* seq_counters: machine -> last_seq, 0 when it has no row
  buffer,        \* the rows of table buffer
  lastRow,       \* AUTOINCREMENT's memory: the largest rowid_pk ever given out
  cursors,       \* exporter_cursors: name -> last_rowid, 0 when it has no row
  dead           \* dead_letters: machine -> number of rows

storeVars == <<lastSeq, buffer, lastRow, cursors, dead>>

(* Who had an envelope built: an adapter's emit(), or start_machine()'s    *)
(* announcement at startup or during a reload.                             *)
Origins == {"emit", "boot", "run"}

(* A row of the buffer.  The envelope is its (machine, seq) key; stored_at *)
(* is left out, because Prune lets any delivered row be old enough.        *)
Row == [row : Nat \ {0}, machine : Machines, seq : Nat \ {0}, via : Origins]

StoreTypeOK ==
  /\ lastSeq \in [Machines -> Nat]
  /\ buffer \in SUBSET Row
  /\ lastRow \in Nat
  /\ cursors \in [Names -> Nat]
  /\ dead \in [Machines -> Nat]

StoreInit ==
  /\ lastSeq = [m \in Machines |-> 0]
  /\ buffer = {}
  /\ lastRow = 0
  /\ cursors = [n \in Names |-> 0]
  /\ dead = [m \in Machines |-> 0]

-----------------------------------------------------------------------------
(* Mutations: a counter kept by the caller's last committed row instead of *)
(* by seq_counters, and a rowid taken from the rows that are left, as      *)
(* INTEGER PRIMARY KEY without AUTOINCREMENT would.                        *)
NextSeq_FromBuffer(m) ==
  LET seqs == {r.seq : r \in {x \in buffer : x.machine = m}}
  IN  IF seqs = {} THEN 1 ELSE 1 + CHOOSE s \in seqs : \A o \in seqs : o <= s

NextRow_NoAutoincrement ==
  LET rows == {r.row : r \in buffer}
  IN  IF rows = {} THEN 1 ELSE 1 + CHOOSE s \in rows : \A o \in rows : o <= s

(* The number next_seq() hands out, and the rowid the next INSERT gets.    *)
NextSeq(m) == lastSeq[m] + 1

NextRow == lastRow + 1

(* next_seq(): the counter is committed before the number is used.         *)
TakeSeq(m) ==
  /\ lastSeq' = [lastSeq EXCEPT ![m] = NextSeq(m)]
  /\ UNCHANGED <<buffer, lastRow, cursors, dead>>

(* append(): UNIQUE (machine_id, seq) must hold for the INSERT to succeed. *)
NewRow(m, s, via) == [row |-> NextRow, machine |-> m, seq |-> s, via |-> via]

AppendRow(m, s, via) ==
  /\ \A r \in buffer : <<r.machine, r.seq>> # <<m, s>>
  /\ buffer' = buffer \cup {NewRow(m, s, via)}
  /\ lastRow' = NextRow
  /\ UNCHANGED <<lastSeq, cursors, dead>>

(* Mutation: an invalid body is dropped.                                   *)
DeadLetterRow_Dropped(m) == UNCHANGED storeVars

(* dead_letter(): the body and its error are kept, the seq is not.         *)
DeadLetterRow(m) ==
  /\ dead' = [dead EXCEPT ![m] = @ + 1]
  /\ UNCHANGED <<lastSeq, buffer, lastRow, cursors>>

(* pending(): the rows past the cursor, oldest first, at most BatchSize of *)
(* them.  Pending(n) has exactly one member, the batch that is returned.   *)
After(n) == {r \in buffer : r.row > cursors[n]}

Pending(n) ==
  {b \in SUBSET After(n) :
     /\ \A r \in b, o \in After(n) \ b : r.row < o.row
     /\ b = After(n) \/ Cardinality(b) = BatchSize
     /\ Cardinality(b) <= BatchSize}

(* Mutation: a failed or partial publish is acknowledged with the batch.   *)
AckCursor_WholeBatch(n, row) == lastRow

(* ack(): the cursor becomes the acknowledged rowid, whatever it was.      *)
AckCursor(n, row) == row

AckRow(n, row) ==
  /\ cursors' = [cursors EXCEPT ![n] = AckCursor(n, row)]
  /\ UNCHANGED <<lastSeq, buffer, lastRow, dead>>

(* Mutations of prune(): the fastest cursor instead of the slowest, and an *)
(* exporter with no cursor row left out of the minimum.                    *)
SafeRows_FastestCursor(names) ==
  {r \in buffer : \E n \in names : r.row <= cursors[n]}

SafeRows_SkipUndrained(names) ==
  {r \in buffer : \A n \in names : cursors[n] > 0 => r.row <= cursors[n]}

(* The rows no later than safe_upto, the slowest configured cursor.        *)
SafeRows(names) ==
  {r \in buffer : \A n \in names : r.row <= cursors[n]}

(* prune(): the age rule deletes the safe rows stored before the cutoff,   *)
(* the disk rule all of them.  stored_at and now are wall-clock readings   *)
(* that may step either way, so any subset of the safe rows may be old.    *)
(* A cursor of 0 leaves no row safe, and an empty list of names prunes     *)
(* nothing.                                                                *)
PruneRows(names) ==
  /\ \E expired \in SUBSET SafeRows(names) :
       buffer' = IF names = {} THEN buffer ELSE buffer \ expired
  /\ UNCHANGED <<lastSeq, lastRow, cursors, dead>>
=============================================================================
