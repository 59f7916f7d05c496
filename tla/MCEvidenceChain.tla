--------------------------- MODULE MCEvidenceChain ---------------------------
(***************************************************************************)
(* Instances of EvidenceChain for TLC: a sewing machine or a dye batch of  *)
(* one phase.  The dyeing profile at hand is older than the producer: it   *)
(* does not define `addition`.                                             *)
(***************************************************************************)
EXTENDS EvidenceChain

TwoProfiles == {"generic", "dyeing"}
KnownEvents == [dyeing |-> {"phase_start", "phase_end"}]
KnownPhases == [dyeing |-> {"hold"}]
Hold == <<"hold">>
=============================================================================
