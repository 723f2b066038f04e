------------------------------ MODULE GreetProps ------------------------------
(* What the members of a session that grows are meant to keep true. *)
EXTENDS Greet

(* The acceptors after the first n instances: who has joined and has not been parted. *)
Listed(n) ==
  {i \in 1 .. n : log[i].kind = "join" /\ \A j \in i .. n : log[j] # [log[j] EXCEPT !.kind = "part", !.who = i]}

(***************************************************************************)
(* Every member that has learned the same instances lists the same         *)
(* acceptors, though a new member is given the list rather than learning   *)
(* the joins: "the correctness of the Paxos protocol guarantees that the   *)
(* acceptor list has a consistent total ordering across the system"        *)
(* (paxos_reconnect.c), on which the election of the proposer rests.       *)
(***************************************************************************)
AlistFollowsLog == \A m \in Id : In(m) /\ ~Learnable(m) => alist[m] = Listed(ihole[m] - 1)


(***************************************************************************)
(* live_count counts us and the acceptors that we have a peer for, however *)
(* a connection, a hello, a join, a drop and a part are interleaved: the   *)
(* majorities of rejects and of redirects are computed from it.            *)
(***************************************************************************)
LiveCountOK == \A m \in Id : In(m) => live_count[m] = 1 + Cardinality(Connected(m))

(***************************************************************************)
(* "Account for a lost connection. We mark the acceptor as unavailable"    *)
(* (paxos_drop_connection): no member holds a peer whose end it has read.  *)
(***************************************************************************)
LostIsMarked == \A m \in Id : \A q \in Connected(m) :
  SideOf(Via(m, q), m) \notin closed[Via(m, q)]

=============================================================================
