-------------------------- MODULE DeliveryContract --------------------------
(***************************************************************************)
(* What the gateway promises the consumers of its exporters, with no       *)
(* threads, cursors, batches or crashes in it:                             *)
(*                                                                         *)
(*   - a row that enters the buffer has a key (machine, seq) no earlier    *)
(*     row ever had, and comes after every earlier row (spec section 3:    *)
(*     seq is never reused; store.py 3-6);                                 *)
(*   - a destination is given the rows oldest first: a row it never saw    *)
(*     only once it has every older row that is still stored;              *)
(*   - a row is deleted only when every configured destination has it      *)
(*     (store.py 134-138, "never prune past the slowest exporter's         *)
(*     cursor").                                                           *)
(*                                                                         *)
(* A destination may be given a row again at any time: that step leaves    *)
(* these variables unchanged.                                              *)
(***************************************************************************)
EXTENDS Integers

CONSTANT Destinations

VARIABLES
  stored,      \* the rows in the buffer, records with fields row, machine, seq
  issued,      \* every row that was ever stored
  got,         \* destination -> the rows it has accepted
  required     \* the destinations that are configured now

vars == <<stored, issued, got, required>>

Key(r) == <<r.machine, r.seq>>

Init ==
  /\ stored = {}
  /\ issued = {}
  /\ got = [d \in Destinations |-> {}]
  /\ required = {}

Store(r) ==
  /\ \A o \in issued : o.row < r.row /\ Key(o) # Key(r)
  /\ stored' = stored \cup {r}
  /\ issued' = issued \cup {r}
  /\ UNCHANGED <<got, required>>

Deliver(d, r) ==
  /\ r \in stored
  /\ \A o \in stored : o.row < r.row => o \in got[d]
  /\ got' = [got EXCEPT ![d] = @ \cup {r}]
  /\ UNCHANGED <<stored, issued, required>>

Forget(gone) ==
  /\ \A r \in gone, d \in required : r \in got[d]
  /\ stored' = stored \ gone
  /\ UNCHANGED <<issued, got, required>>

(* A restart reads the exporters from the registry again.                  *)
Configure ==
  /\ required' \in SUBSET Destinations
  /\ UNCHANGED <<stored, issued, got>>

Next ==
  \/ \E r \in stored' \ stored : Store(r)
  \/ \E d \in Destinations : \E r \in got'[d] \ got[d] : Deliver(d, r)
  \/ Forget(stored \ stored')
  \/ Configure

Spec == Init /\ [][Next]_vars
=============================================================================
