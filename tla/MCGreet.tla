------------------------------- MODULE MCGreet -------------------------------
(* Small instances of Greet and Sync for TLC. *)
EXTENDS SyncProps

(***************************************************************************)
(* Either two changes, with syncs and late requests, or three without.     *)
(***************************************************************************)
MembershipNext ==
  /\ SyncNext
  /\ Changes' > 2 => sync_id' = 0 /\ \A m \in Id : lack'[m] = {} /\ sought'[m] = {}

MembershipSpec == SyncInit /\ [][MembershipNext]_<<vars, syncing>>

=============================================================================
