----------------------------- MODULE BundleAudit -----------------------------
(***************************************************************************)
(* The auditor's five checks over an evidence bundle and the flags of the  *)
(* citation: tools/omp_tools/audit.py and `omp-validate --audit`.          *)
(*                                                                         *)
(* A bundle is a function from line numbers to envelopes.  A check passes, *)
(* fails, or could not be made ("none", Python's None).                    *)
(***************************************************************************)
EXTENDS Envelopes, FiniteSetsExt

CONSTANTS
  AnyRun,    \* no --run-id given
  NoRange    \* a process_run without event_seq_range

Verdict(ok) == IF ok THEN "true" ELSE "false"

-----------------------------------------------------------------------------
(* select_run: exactly one summary, of the run asked for if one is.        *)
Summaries(b, run_id) ==
  {n \in DOMAIN b : /\ b[n].schema = "process_run"
                    /\ run_id = AnyRun \/ b[n].body.run_id = run_id}
Refused(b, run_id) == Cardinality(Summaries(b, run_id)) # 1
RunLine(b, run_id) == CHOOSE n \in Summaries(b, run_id) : TRUE

SameMachine(b, run) ==
  {n \in DOMAIN b : b[n].gateway_id = run.gateway_id /\ b[n].machine_id = run.machine_id}

InRange(run, seq) == run.body.range.first <= seq /\ seq <= run.body.range.last

(* The envelopes a citation commits to; the summary itself is always one.  *)
Cited(b, r) ==
  {r} \cup {n \in SameMachine(b, b[r]) :
              b[r].body.range = NoRange \/ InRange(b[r], b[n].seq)}

-----------------------------------------------------------------------------
(* Mutation: the last seq of the range is forgotten.                       *)
Completeness_OffByOne(b, r) ==
  LET range == b[r].body.range
      have == {b[n].seq : n \in Cited(b, r)}
  IN  IF range = NoRange THEN "none"
      ELSE Verdict(\A s \in range.first .. range.last - 2 : s \in have)

Completeness(b, r) ==
  LET range == b[r].body.range
      have == {b[n].seq : n \in Cited(b, r) \cap SameMachine(b, b[r])}
  IN  IF range = NoRange THEN "none"
      ELSE Verdict(range.first .. range.last \subseteq have)

Integrity(b, r) == Verdict(\A n \in Cited(b, r) : Checksum(b[n].body) = b[n].checksum)

Authenticity(b, r, pubkey) ==
  LET signed == {n \in Cited(b, r) : Signed(b[n])}
  IN  IF pubkey = NoKey \/ signed = {} THEN "none"
      ELSE Verdict(\A n \in signed : VerifySig(b[n], pubkey))

-----------------------------------------------------------------------------
(* Consistency: the summary against the events it cites, in three          *)
(* comparisons, each made only when the bundle has something to compare.   *)
Events(b, r, type) ==
  {n \in Cited(b, r) : b[n].schema = "event" /\ b[n].body.event_type = type}

PhasesStarted(b, r) == {b[n].body.phase : n \in Events(b, r, "phase_start")}
PhasesCompared(b, r) == b[r].body.phases # {} /\ PhasesStarted(b, r) # {}
PhasesDiffer(b, r) == PhasesCompared(b, r) /\ b[r].body.phases # PhasesStarted(b, r)

Metered(b, r, metric) ==
  {n \in Cited(b, r) : b[n].schema = "energy" /\ b[n].body.metric = metric}
Metrics(b, r) == {b[n].body.metric : n \in {c \in Cited(b, r) : b[c].schema = "energy"}}
EnergyTotal(b, r, metric) == MapThenSumSet(LAMBDA n : b[n].body.value, Metered(b, r, metric))

(* A quantity named <metric>_total, else one named <metric>.               *)
ClaimNames(b, r, metric) ==
  IF <<metric, "total">> \in DOMAIN b[r].body.quantities THEN {<<metric, "total">>}
  ELSE {<<metric>>} \cap DOMAIN b[r].body.quantities
TotalsCompared(b, r) == {m \in Metrics(b, r) : ClaimNames(b, r, m) # {}}

Magnitude(x) == IF x < 0 THEN -x ELSE x
AtLeastOne(x) == IF x > 1 THEN x ELSE 1

(* Mutation: every metric is compared with the first interval only.        *)
TotalDiffers_OneInterval(b, r, metric) ==
  \E name \in ClaimNames(b, r, metric) :
    \A n \in Metered(b, r, metric) : b[r].body.quantities[name] # b[n].body.value

(* More than one per cent off; a claim of zero is never compared.          *)
TotalDiffers(b, r, metric) ==
  \E name \in ClaimNames(b, r, metric) :
    LET claimed == b[r].body.quantities[name]
    IN  /\ claimed # 0
        /\ 100 * Magnitude(claimed - EnergyTotal(b, r, metric)) > AtLeastOne(Magnitude(claimed))

HasStart(b, r) == Events(b, r, "run_start") # {}
HasEnd(b, r) == Events(b, r, "run_end") # {}
BoundsCompared(b, r) == HasStart(b, r) \/ HasEnd(b, r)
BoundsDiffer(b, r) ==
  /\ BoundsCompared(b, r)
  /\ ~HasStart(b, r) \/ (~HasEnd(b, r) /\ b[r].body.outcome = "completed")

Consistency(b, r) ==
  IF ~PhasesCompared(b, r) /\ TotalsCompared(b, r) = {} /\ ~BoundsCompared(b, r) THEN "none"
  ELSE Verdict(/\ ~PhasesDiffer(b, r)
               /\ \A m \in TotalsCompared(b, r) : ~TotalDiffers(b, r, m)
               /\ ~BoundsDiffer(b, r))

Conformance(b, r) == Verdict(\A n \in Cited(b, r) : ValidEnvelope(b[n], FALSE))

-----------------------------------------------------------------------------
(* The flags of the citation's verification block.                         *)
Flags(b, r, pubkey) ==
  [seq_complete |-> Completeness(b, r), checksums_valid |-> Integrity(b, r),
   signatures_valid |-> Authenticity(b, r, pubkey), consistent |-> Consistency(b, r),
   conformant |-> Conformance(b, r)]

(* records_hash: the cited checksums in seq order, as what they determine. *)
RecordsHash(b, r) == {<<b[n].seq, b[n].checksum>> : n \in Cited(b, r)}
=============================================================================
