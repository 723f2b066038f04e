------------------------------ MODULE SyncProps ------------------------------
(* What the truncation of the logs is meant to keep true. *)
EXTENDS Sync, GreetProps

(***************************************************************************)
(* No member has dropped an instance that another has not learned, though  *)
(* the members of a sync are counted when it starts, and members join and  *)
(* die, and older answers arrive, before it ends.                          *)
(***************************************************************************)
TruncatedIsLearned == \A m, q \in Id : In(m) /\ In(q) => ibase[m] < ihole[q]

(***************************************************************************)
(* proposer_ack_last() finds a sync to count the answer in: it follows a   *)
(* pointer that is NULL between syncs.                                     *)
(***************************************************************************)
LastFindsSync ==
  sync = NoSync => \A m \in Id \ {Founder} : \A i \in DOMAIN queue[<<Founder, m>>][1] :
    queue[<<Founder, m>>][1][i].op # "last" \/ queue[<<Founder, m>>][1][i].id # sync_id

(***************************************************************************)
(* proposer_truncate() asserts that the log never grows back.              *)
(***************************************************************************)
IbaseGrows == [][\A m \in Id : In(m) /\ In(m)' => ibase'[m] >= ibase[m]]_ibase

=============================================================================
