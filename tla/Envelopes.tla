------------------------------ MODULE Envelopes ------------------------------
(***************************************************************************)
(* OMP envelopes and their validation: tools/omp_tools/envelope.py,        *)
(* validate.py, specload.py and sigverify.py, as the gateway's engine, the *)
(* reference consumer and the auditor call them.                           *)
(*                                                                         *)
(* SHA-256 and Ed25519 are taken as perfect: a digest determines the body, *)
(* and only the key's holder makes a signature.  JSON Schema is library    *)
(* code: a field of an envelope says whether it passes.                    *)
(***************************************************************************)
EXTENDS Integers, FiniteSets

CONSTANTS
  ProfileEvents,   \* profile name -> the event types its package defines
  ProfilePhases,   \* profile name -> the phases it defines
  NoKey            \* no signing key, no public key, no signature

ASSUME ProfilesAssumption == DOMAIN ProfileEvents = DOMAIN ProfilePhases

CoreSchemas == {"machine", "event", "process_run", "energy", "telemetry"}
CoreEventTypes == {"run_start", "run_end", "cycle_complete", "start", "stop",
                   "error", "alarm", "state_change", "maintenance_flag"}

Checksum(body) == [sha256 |-> body]

(* The signature covers gateway, machine, seq and checksum, nothing else.  *)
Signature(key, gw, mc, seq, sum) == [by |-> key, over |-> <<gw, mc, seq, sum>>]

(* make_envelope; a gateway with a signer adds the signature.  strict: the *)
(* envelope has only the fields the schema knows.                          *)
MakeEnvelope(gw, mc, seq, profile, schema, body, key) ==
  [gateway_id |-> gw, machine_id |-> mc, seq |-> seq, profile |-> profile,
   schema |-> schema, body |-> body, checksum |-> Checksum(body), strict |-> TRUE,
   sig |-> IF key = NoKey THEN NoKey ELSE Signature(key, gw, mc, seq, Checksum(body))]

Signed(e) == e.sig # NoKey

(* Mutation: whatever the key signed is good for every envelope.           *)
VerifySig_KeyOnly(e, pubkey) == e.sig.by = pubkey

VerifySig(e, pubkey) ==
  e.sig = Signature(pubkey, e.gateway_id, e.machine_id, e.seq, e.checksum)

(* The vocabulary of the declared profile.  A consumer (forward) accepts   *)
(* what a later minor version may have added; a gateway does not.  A       *)
(* profile nobody ships is not checked.                                    *)
OutsideProfile(e, forward) ==
  /\ e.profile \in DOMAIN ProfileEvents
  /\ ~forward
  /\ \/ /\ e.schema = "event"
        /\ e.body.event_type \notin CoreEventTypes \cup ProfileEvents[e.profile]
     \/ /\ e.schema = "process_run"
        /\ \E p \in e.body.phases : p \notin ProfilePhases[e.profile]

(* Mutation: the checksum is not recomputed.                               *)
ValidEnvelope_NoChecksum(e, forward) == e.strict /\ ~OutsideProfile(e, forward)

(* validate_envelope reports no error: schemas, checksum, then profile.    *)
ValidEnvelope(e, forward) ==
  /\ e.strict /\ e.schema \in CoreSchemas
  /\ Checksum(e.body) = e.checksum
  /\ ~OutsideProfile(e, forward)
=============================================================================
