---------------------------- MODULE EvidenceChain ----------------------------
(***************************************************************************)
(* From a machine to a passport claim: one run of the simulator, a         *)
(* transport that loses, repeats and reorders, the reference consumer, and *)
(* the auditor over what the consumer has stored.                          *)
(*                                                                         *)
(* The gateway may sign what it sends, from some seq on (a key generated   *)
(* on a running gateway signs only what follows).  A few deliveries are    *)
(* faulty: noise, a repetition, a copy that --chaos corrupted, one whose   *)
(* fields outside checksum and signature were rewritten, or another        *)
(* summary of the same key, with its checksum in order.                    *)
(***************************************************************************)
EXTENDS Simulator, BundleAudit, Consumer

CONSTANTS
  GatewayKey,    \* the gateway's key
  SignFrom,      \* the seqs from which it may sign
  Corruptible,   \* the seqs a corrupted copy may come of
  Rewritable,    \* the seqs whose profile may be rewritten on the way
  Claims,        \* what another summary may claim as kwh_total
  OtherPhase,    \* a phase it may add
  MaxFaults      \* bound: faulty deliveries and kills of the consumer

ASSUME ChainAssumption ==
  /\ GatewayKey # NoKey
  /\ NoRange \notin [first : Nat, last : Nat]
  /\ Claims \subseteq Int

VARIABLES signFrom, faults

vars == <<simVars, consumerVars, signFrom, faults>>

Init == SimInit /\ ConsumerInit /\ signFrom \in SignFrom /\ faults = 0

-----------------------------------------------------------------------------
(* Engine.process and omp keygen: what the gateway sends for an envelope.  *)
(* omp-simulate writes its lines itself, unsigned; here it also stands for *)
(* the adapter of a gateway, whose bodies the engine numbers and signs.    *)
Sealed(e) ==
  IF e.seq < signFrom THEN e
  ELSE [e EXCEPT !.sig =
          Signature(GatewayKey, e.gateway_id, e.machine_id, e.seq, e.checksum)]

Issued == {Sealed(e) : e \in Written}

(* corrupt: the checksum no longer fits the body, or there is a field the  *)
(* schema does not know.                                                   *)
Corrupted(e) ==
  {[e EXCEPT !.checksum = Checksum([garbled |-> TRUE])], [e EXCEPT !.strict = FALSE]}

(* A header rewritten on the way: the checksum covers the body and the     *)
(* signature four fields (sigverify.py 13), and both stay in order.  The   *)
(* profile stands for what neither covers, ts and schema version too; one  *)
(* that nobody ships switches the check of the vocabulary off.             *)
Rewritten(e) == {[e EXCEPT !.profile = p] : p \in Profiles \ {e.profile}}

(* Another summary under the same key: a second invocation with the same   *)
(* ids, or a summary written over.  The signature stays the first one's.   *)
OtherSummaries(e) ==
  LET bodies == {[e.body EXCEPT !.quantities = Put(@, <<"kwh", "total">>, c)] : c \in Claims}
                \cup {[e.body EXCEPT !.phases = @ \cup {OtherPhase}]}
  IN  {[e EXCEPT !.body = b, !.checksum = Checksum(b)] : b \in bodies}

Missing == {e \in Issued : Key(e) \notin DOMAIN db.raw}

Faulty ==
  UNION {Garbage, Issued \ Missing,
         UNION {Corrupted(e) : e \in {e \in Issued : e.seq \in Corruptible}},
         UNION {Rewritten(e) : e \in {e \in Issued : e.seq \in Rewritable}},
         UNION {OtherSummaries(e) : e \in {e \in Issued : e.schema = "process_run"}}}

-----------------------------------------------------------------------------
Write == SimNext /\ UNCHANGED <<consumerVars, signFrom, faults>>

(* In any order, or never.                                                 *)
Deliver == (\E e \in Missing : Receive(e)) /\ UNCHANGED <<simVars, signFrom, faults>>

DeliverFaulty ==
  /\ faults < MaxFaults /\ faults' = faults + 1
  /\ \E l \in Faulty : Receive(l)
  /\ UNCHANGED <<simVars, signFrom>>

Work == (Project \/ Commit) /\ UNCHANGED <<simVars, signFrom, faults>>

Restart ==
  /\ faults < MaxFaults /\ faults' = faults + 1
  /\ Kill /\ UNCHANGED <<simVars, signFrom>>

Next == Write \/ Deliver \/ DeliverFaulty \/ Work \/ Restart

Spec == Init /\ [][Next]_vars

(* The simulator runs, the consumer works, and the transport keeps at it   *)
(* until what was issued is stored: at least once.                         *)
Fairness == WF_vars(Write) /\ SF_vars(Deliver) /\ WF_vars(Work)

FairSpec == Spec /\ Fairness

-----------------------------------------------------------------------------
(* The rows of the machine, as the consumer would export them, and the     *)
(* summary in them.                                                        *)
Bundle == [s \in SeqsOf(db, Gateway, Machine) |-> db.raw[<<Gateway, Machine, s>>]]
Auditable == ~Refused(Bundle, RunId)
Run == RunLine(Bundle, RunId)

InFull == Auditable /\ Completeness(Bundle, Run) = "true"
Unaltered == \A s \in DOMAIN Bundle : Bundle[s] \in Issued

(* Only what somebody issued with its checksum in order is ever a row, in  *)
(* its own words or under a rewritten header; a corrupted copy is          *)
(* quarantined and does not take the key of the envelope it was            *)
(* (ingest.py 12: "quarantined, never repaired").                          *)
OnlyIssuedStored ==
  \A k \in DOMAIN db.raw :
    \/ db.raw[k] \in Issued
    \/ \E e \in Issued : Key(e) = k /\ db.raw[k] \in OtherSummaries(e) \cup Rewritten(e)

(* The consumer's gap report and the auditor's seq_complete are two        *)
(* computations of one fact, over the seqs the run cites (ingest.py 143,   *)
(* audit.py 75-94).                                                        *)
GapsAgree ==
  Auditable =>
    LET range == Bundle[Run].body.range
    IN  Completeness(Bundle, Run) =
          Verdict(Gaps(db, Gateway, Machine) \cap (range.first .. range.last) = {})

(* A bundle that passes as complete holds everything the run issued, so    *)
(* every auditor of the run computes the same flags and records_hash as    *)
(* over the producer's own stream (audit.py 45-54).                        *)
SameCitation ==
  InFull /\ Unaltered =>
    LET produced == [s \in {e.seq : e \in Issued} |-> CHOOSE e \in Issued : e.seq = s]
    IN  /\ RecordsHash(Bundle, Run) = RecordsHash(produced, RunLine(produced, RunId))
        /\ Flags(Bundle, Run, GatewayKey) =
             Flags(produced, RunLine(produced, RunId), GatewayKey)

(* An honest run that arrived in full passes, whatever order, repetition   *)
(* and noise it came through; only a profile older than the producer's     *)
(* makes it non-conformant (audit.py 203-213, spec section 9).             *)
HonestPasses ==
  InFull /\ Unaltered =>
    LET flags == Flags(Bundle, Run, GatewayKey)
    IN  /\ flags.checksums_valid = "true" /\ flags.consistent = "true"
        /\ flags.signatures_valid # "false"
        /\ flags.conformant = Verdict(\A s \in Cited(Bundle, Run) :
                                        ~OutsideProfile(Bundle[s], FALSE))

(* What the machine itself reported of its phases and its meter.           *)
PhasesBegun ==
  {out[i].body.phase : i \in {i \in DOMAIN out : /\ out[i].schema = "event"
                                                 /\ out[i].body.event_type = "phase_start"}}
MeterRead == {i \in DOMAIN out : out[i].schema = "energy"}
MeterShowed == MapThenSumSet(LAMBDA i : out[i].body.value, MeterRead)

FalsePhases(body) == body.phases # PhasesBegun

FalseTotal(body) ==
  /\ <<"kwh", "total">> \in DOMAIN body.quantities
  /\ LET c == body.quantities[<<"kwh", "total">>]
     IN  c > 0 /\ (100 * MeterShowed > 101 * c \/ 100 * MeterShowed < 99 * c)

(* Where there are events to compare with, a false claim is found in a     *)
(* complete bundle, although every checksum fits: a list of phases other   *)
(* than that of a machine which reported some, and an energy (other than   *)
(* none) that a meter which was read did not show within one per cent      *)
(* (audit.py 146-186).                                                     *)
FalseClaimsFail ==
  InFull /\ Integrity(Bundle, Run) = "true" =>
    LET body == Bundle[Run].body
    IN  \/ PhasesBegun # {} /\ body.phases # {} /\ FalsePhases(body)
        \/ MeterRead # {} /\ FalseTotal(body)
        => Consistency(Bundle, Run) = "false"

(* What is documented of the check: it confirms that the summary is        *)
(* derivable from the cited events (dpp-evidence-chain.md 88), and what    *)
(* cannot be compared is "not-evaluated rather than silently passing"      *)
(* (audit.py 137-138).  The code skips the phases of a run without a       *)
(* phase_start (153) and an energy without readings (172), and passes the  *)
(* run on its run_start and run_end alone.                                 *)
ConsistentIsDerivable ==
  InFull /\ Integrity(Bundle, Run) = "true" /\ Consistency(Bundle, Run) = "true" =>
    LET body == Bundle[Run].body IN ~FalsePhases(body) /\ ~FalseTotal(body)

(* signatures_valid: of what is signed in the evidence, the gateway sent   *)
(* the body under that machine and seq (audit.py 111-131).  The rest of    *)
(* the header is not attested, nor are the unsigned envelopes beside it,   *)
(* which is less than "the records were not altered afterward"             *)
(* (dpp-evidence-chain.md 97).                                             *)
Attested(e) == <<e.gateway_id, e.machine_id, e.seq, e.checksum, e.body>>

SignedIsIssued ==
  Auditable /\ Authenticity(Bundle, Run, GatewayKey) = "true" =>
    \A s \in Cited(Bundle, Run) : Signed(Bundle[s]) =>
      \E e \in Issued : Attested(e) = Attested(Bundle[s])

(* Under a transport that delivers at least once, the consumer ends up     *)
(* with every envelope of the run, through its own restarts.               *)
Converges == <>[](Finished /\ Missing = {})
=============================================================================
