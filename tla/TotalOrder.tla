----------------------------- MODULE TotalOrder -----------------------------
(***************************************************************************)
(* What a motmot session promises its clients, whatever the protocol: a    *)
(* reliable broadcast in one total order.  paxos_learn() is the only way a *)
(* decree reaches a client, so the promise is about what each member has   *)
(* learned, and at which place of the order.                               *)
(***************************************************************************)
EXTENDS Integers

CONSTANTS
  Reader,   \* those who learn
  Decree    \* what there is to learn

VARIABLE seen   \* seen[r][n]: the decree that r learned in the n-th place

Places(r) == DOMAIN seen[r]

TypeOK ==
  /\ DOMAIN seen = Reader
  /\ \A r \in Reader : Places(r) \subseteq Nat /\ \A n \in Places(r) : seen[r][n] \in Decree

Init == seen = [r \in Reader |-> [n \in {} |-> n]]

(* A reader starts anywhere, and goes on without a gap. *)
Follows(r, n) == Places(r) = {} \/ (n \notin Places(r) /\ n - 1 \in Places(r))

(* What another reader has learned in a place, no one learns otherwise. *)
Fits(n, v) == \A q \in Reader : n \in Places(q) => seen[q][n] = v

With(f, n, v) == [k \in DOMAIN f \cup {n} |-> IF k = n THEN v ELSE f[k]]

Learn(r, n, v) ==
  /\ Follows(r, n)
  /\ Fits(n, v)
  /\ seen' = [seen EXCEPT ![r] = With(@, n, v)]

(* The next place of r is the one by which what it has seen grows. *)
Next ==
  \E r \in Reader : \E n \in DOMAIN seen'[r] \ Places(r) : Learn(r, n, seen'[r][n])

Spec == Init /\ [][Next]_seen

-----------------------------------------------------------------------------
(***************************************************************************)
(* The order is one: no two members learn different decrees in one place.  *)
(***************************************************************************)
OneOrder ==
  \A q, r \in Reader : \A n \in Places(q) \cap Places(r) : seen[q][n] = seen[r][n]

=============================================================================
