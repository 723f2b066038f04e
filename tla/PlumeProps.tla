------------------------------ MODULE PlumeProps ------------------------------
(* What a Plume client is meant to keep true. *)
EXTENDS Plume

Told(s) == \E i \in DOMAIN told : told[i] = s
Reported == Told("success") \/ Told("failed")
Steps == asking \cup {k \in Shake : watch[k] > 0}   \* what the connect protocol waits for
Heard(k) == \E e \in {"read", "write"} : ares[<<k, e>>] > 0

(***************************************************************************)
(* The connect protocol is one sequence of steps.  A lookup that c-ares    *)
(* has not answered or a callback of the handshake is waited for, never    *)
(* two of them, and the callback by one watch; none is once a success was  *)
(* reported, however many watches the sockets of the lookups have left.    *)
(***************************************************************************)
OneStepAtATime ==
  /\ Cardinality(Steps) <= 1
  /\ \A k \in Shake : watch[k] <= 1
  /\ Told("success") => Steps = {}

(***************************************************************************)
(* Once its handshake has begun, a connection whose outcome is not         *)
(* reported has a callback of the handshake that waits: plume_tls_start()  *)
(* and both retries.                                                       *)
(***************************************************************************)
HandshakeGoesOn == phase = "tls" /\ ~Reported => Steps \cap Shake # {}

(***************************************************************************)
(* pc_connected_cb hears of a success once, and of no failure after it,    *)
(* and the client stays connected, as plume_tls_can_recv() asserts.        *)
(***************************************************************************)
SuccessIsFinal ==
  [][Told("success") => /\ phase' \in {"connected", "crashed"}
                        /\ told' \in {told, Append(told, "in_use")}]_vars

(***************************************************************************)
(* The server gets the requests in the order they were made, and none      *)
(* twice, however many of them wait for the socket.                        *)
(***************************************************************************)
SentInOrder ==
  /\ \A i, j \in DOMAIN received : i < j => received[i] < received[j]
  /\ pending # NoRequest => \A i \in DOMAIN received : received[i] < pending

(***************************************************************************)
(* plume_connect_server(): "When success or failure of the connection      *)
(* process is known, the pc_connected_cb callback set on `client' will be  *)
(* called".  Until then some callback must wait, and not one of a lookup   *)
(* that is over.                                                           *)
(***************************************************************************)
NotForgotten ==
  Running /\ phase # "init" /\ ~Reported =>
    \E k \in Steps : k \in Shake \/ Heard(k)

=============================================================================
