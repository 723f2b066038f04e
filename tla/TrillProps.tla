------------------------------ MODULE TrillProps ------------------------------
(* What the two ends of a Trill connection are meant to keep true. *)
EXTENDS Trill

Role(e) ==
  IF Shaking(e) THEN state[e] ELSE IF state[e] = "established" \/ Dead(e) THEN flags[e] ELSE NoRole

roles == [e \in Peer |-> Role(e)]

Waiting(e) == watch[e] # <<>> \/ writers[e] > 0

(***************************************************************************)
(* The probes settle the roles: the ends take part in a Pairing.  The      *)
(* state diagram of trill/common.h is its two steps; that the client is    *)
(* not one before the other end serves is what the acknowledge bit is for. *)
(***************************************************************************)
Pair == INSTANCE Pairing WITH role <- roles

Pairs == Pair!Spec

(***************************************************************************)
(* trill_connection_probe(): "We keep sending probes until either we       *)
(* become the client or we complete the handshake after becoming the       *)
(* server", whatever happens meanwhile.                                    *)
(***************************************************************************)
ProbesGoOn == \A e \in Peer : state[e] \in {"probing", "server"} => prober[e]

(***************************************************************************)
(* No connection goes to sleep: an end that was told nothing yet waits for *)
(* its socket, to read or to write, in every state after trill_connect().  *)
(***************************************************************************)
NoneSleeps ==
  \A e \in Peer : state[e] \in {"probing", "server", "client"} /\ told[e] = {} => Waiting(e)

(***************************************************************************)
(* A connection is complete at one end only when the other has reached the *)
(* last flight: no end takes a probe, or an old flight, for the answer.    *)
(***************************************************************************)
BothHandshake ==
  \A e \in Peer : state[e] = "established" => flight[Other(e)] >= 4

(***************************************************************************)
(* No callback finds the connection in a state it asserts against, as long *)
(* as no handshake timer has fired into the handshake it was set for.      *)
(***************************************************************************)
AbortNeedsTimer == \A e \in Peer : state[e] = "aborted" => timer[e] = "fired"

(* The loop runs; a probe that is sent again and again is read some time.  *)
Repeats(e, d) == ~Dead(e) /\ prober[e] /\ d = Probe(pri[e], state[e] = "server")

FairSpec ==
  Spec /\ \A e \in Peer :
    /\ WF_vars(Connect(e)) /\ SF_vars(SendProbe(e)) /\ WF_vars(Wake(e)) /\ WF_vars(Reads(e))
    /\ \A d \in Datagram : SF_vars(Repeats(Other(e), d) /\ ReadProbe(e, d))

(***************************************************************************)
(* Both ends get a role, or are told that they are tied, whatever probes   *)
(* are lost, unless the other end dies.                                    *)
(***************************************************************************)
RolesSettle ==
  <>(\A e \in Peer : Role(e) # NoRole \/ "tied" \in told[e] \/ Dead(Other(e)))

=============================================================================
