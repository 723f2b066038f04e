------------------------------- MODULE Pairing -------------------------------
(***************************************************************************)
(* What the probes of Trill settle: of two peers, one becomes the server   *)
(* and then the other its client, and neither changes its mind.            *)
(***************************************************************************)
EXTENDS Integers

Peer == {0, 1}
Other(e) == 1 - e

VARIABLE role

TypeOK == role \in [Peer -> {"none", "server", "client"}]

Init == role = [e \in Peer |-> "none"]

Serve(e) ==
  /\ role[e] = "none" /\ role[Other(e)] = "none"
  /\ role' = [role EXCEPT ![e] = "server"]

Follow(e) ==
  /\ role[e] = "none" /\ role[Other(e)] = "server"
  /\ role' = [role EXCEPT ![e] = "client"]

Next == \E e \in Peer : Serve(e) \/ Follow(e)

Spec == Init /\ [][Next]_role

-----------------------------------------------------------------------------
(***************************************************************************)
(* Never two servers, and never a client without its server.               *)
(***************************************************************************)
OneServer ==
  \A e \in Peer : /\ role[e] = "server" => role[Other(e)] # "server"
                  /\ role[e] = "client" => role[Other(e)] = "server"

=============================================================================
