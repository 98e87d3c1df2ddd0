---------------------------- MODULE FencedLease ----------------------------
(***************************************************************************)
(* What the factory promises of a lease, whichever backend answers: for    *)
(* each key there is at most one holder, a key is only ever granted while  *)
(* nobody else holds it, and the fencing token that goes with a grant is   *)
(* never smaller than an earlier one and strictly larger whenever the      *)
(* lease goes to a client other than the last one.  The PostgreSQL arbiter *)
(* (LeaseArbiter) and the lock-file fallback (LocalLease) are both meant   *)
(* to implement it.                                                        *)
(***************************************************************************)
EXTENDS Naturals

CONSTANTS Key,      \* what is leased: "issue:42", "pr:7"
          Client,   \* who can hold a lease
          NoOne     \* the holder of a free key

VARIABLES holder,   \* holder[k]: who may act on k now, or NoOne
          last,     \* last[k]: who was granted k last, or NoOne
          token     \* token[k]: the largest fencing token of k so far

vars == <<holder, last, token>>

Init == /\ holder = [k \in Key |-> NoOne]
        /\ last = [k \in Key |-> NoOne]
        /\ token = [k \in Key |-> 0]

(* Client c is granted k, or renews it.  The grant may lapse at once.      *)
Grant(k, c) ==
  /\ holder[k] \in {NoOne, c}
  /\ last' = [last EXCEPT ![k] = c]
  /\ \/ holder' = [holder EXCEPT ![k] = c]
     \/ holder' = [holder EXCEPT ![k] = NoOne]
  /\ token' = [token EXCEPT ![k] = token'[k]]
  /\ token'[k] \in Nat /\ token'[k] >= token[k]
  /\ last[k] # c => token'[k] > token[k]

(* The leases of the keys in K end (expiry, release, revocation); a        *)
(* revocation also raises the token.                                       *)
Lapse(K) ==
  /\ holder' = [k \in Key |-> IF k \in K THEN NoOne ELSE holder[k]]
  /\ token' = [k \in Key |-> IF k \in K THEN token'[k] ELSE token[k]]
  /\ \A k \in K : token'[k] \in Nat /\ token'[k] >= token[k]
  /\ UNCHANGED last

Next == \/ \E k \in Key, c \in Client : Grant(k, c)
        \/ \E K \in SUBSET Key : Lapse(K)

Spec == Init /\ [][Next]_vars
=============================================================================
