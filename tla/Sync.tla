--------------------------------- MODULE Sync ---------------------------------
(***************************************************************************)
(* The truncation of the logs of a session that grows and shrinks as in    *)
(* Greet: the proposer asks all members for the last instance they have    *)
(* learned without a gap, and tells them to drop what is before the least. *)
(* Its messages share the connections of Greet.                            *)
(***************************************************************************)
EXTENDS Greet

CONSTANTS
  SkipThresh,  \* SYNC_SKIP_THRESH: how many timeouts a sync is waited for
  MaxSync      \* bound: how many syncs are started

ASSUME SyncAssumption == SkipThresh \in Nat \ {0} /\ MaxSync \in Nat

VARIABLES
  sync,       \* the sync of the proposer: struct paxos_sync, or NoSync
  sync_id,    \* the number of the last sync
  sync_prev   \* the instance the last sync has truncated to

syncing == <<sync, sync_id, sync_prev>>

NoSync == [total |-> 0, acks |-> 0, skips |-> 0, last |-> 0]

SyncMsg(n) == [op |-> "sync", id |-> n]
LastMsg(n, i) == [op |-> "last", id |-> n, inum |-> i]
TruncateMsg(i) == [op |-> "truncate", inum |-> i]

SyncTypeOK ==
  /\ TypeOK
  /\ sync \in [total : 0 .. MaxInum, acks : 0 .. MaxInum, skips : 0 .. SkipThresh, last : 0 .. MaxInum]
  /\ sync_id \in 0 .. MaxSync /\ sync_prev \in 0 .. MaxInum

SyncInit == Init /\ sync = NoSync /\ sync_id = 0 /\ sync_prev = 0

-----------------------------------------------------------------------------
(* Mutant: syncs are not numbered. *)
SameId == sync_id

NextId == sync_id + 1

(* paxos_sync() and proposer_sync(), from the timer of the proposer: not   *)
(* while a member is not live, nor when nothing was learned.               *)
SyncTimer ==
  /\ Quiet
  /\ live_count[Founder] = Cardinality(alist[Founder])
  /\ ihole[Founder] - 1 # sync_prev
  /\ \/ /\ sync # NoSync /\ sync.skips + 1 < SkipThresh
        /\ sync' = [sync EXCEPT !.skips = @ + 1]
        /\ UNCHANGED <<sync_id, queue>>
     \/ /\ sync = NoSync \/ sync.skips + 1 >= SkipThresh
        /\ sync_id < MaxSync
        /\ sync' = [total |-> Cardinality(alist[Founder]), acks |-> 1, skips |-> 0, last |-> 0]
        /\ sync_id' = NextId
        /\ queue' = Broadcast(queue, Founder, SyncMsg(NextId))
  /\ UNCHANGED <<log, proc, acceptors, instances, clist, closed, sync_prev>>

(* acceptor_ack_sync() and acceptor_last(), when net is the queue without  *)
(* the sync.                                                               *)
AckSync(m, n, net) ==
  /\ queue' = Posted(net, <<Founder, m>>, 1, LastMsg(n, ihole[m] - 1))
  /\ UNCHANGED <<log, proc, acceptors, instances, clist, closed, syncing>>

(* Mutant: an answer to an older sync is counted. *)
CurrentAlways(n) == TRUE

Current(n) == n = sync_id

(* Mutants: the highest answer counts; nothing is lower than no answer.    *)
Higher(i) == IF i > sync.last THEN i ELSE sync.last
LowerOrZero(i) == IF i < sync.last THEN i ELSE sync.last

Lower(i) == IF i < sync.last \/ sync.last = 0 THEN i ELSE sync.last

(* ilist_truncate_prefix(), of the list of m.  The requests go with it. *)
Truncated(m, i) ==
  /\ ibase' = [ibase EXCEPT ![m] = i]
  /\ done' = [done EXCEPT ![m] = {j \in @ : j >= i}]
  /\ lack' = [lack EXCEPT ![m] = {j \in @ : j >= i}]
  /\ sought' = [sought EXCEPT ![m] = {j \in @ : j >= i}]
  /\ UNCHANGED <<log, proc, acceptors, ihole, clist, closed>>

(* proposer_truncate() *)
SyncPoint(last) == IF ihole[Founder] - 1 < last THEN ihole[Founder] - 1 ELSE last

(* proposer_ack_last() *)
AckLast(n, i, net) ==
  \/ /\ ~Current(n)
     /\ queue' = net
     /\ UNCHANGED <<log, proc, acceptors, instances, clist, closed, syncing>>
  \/ /\ Current(n) /\ sync # NoSync /\ sync.acks + 1 # sync.total
     /\ sync' = [sync EXCEPT !.last = Lower(i), !.acks = @ + 1]
     /\ queue' = net
     /\ UNCHANGED <<log, proc, acceptors, instances, clist, closed, sync_id, sync_prev>>
  \/ /\ Current(n) /\ sync # NoSync /\ sync.acks + 1 = sync.total
     /\ sync_prev' = SyncPoint(Lower(i))
     /\ Truncated(Founder, SyncPoint(Lower(i)))
     /\ queue' = Broadcast(net, Founder, TruncateMsg(SyncPoint(Lower(i))))
     /\ sync' = NoSync
     /\ UNCHANGED sync_id

(* acceptor_ack_truncate() *)
AckTruncate(m, i, net) ==
  /\ Truncated(m, i)
  /\ queue' = net
  /\ UNCHANGED syncing

SyncRead(m, c) ==
  LET s == SideOf(c, m)
  IN /\ s \notin closed[c] /\ queue[c][s] # <<>>
     /\ In(m) /\ Quiet
     /\ LET msg == Head(queue[c][s]) net == [queue EXCEPT ![c][s] = Tail(@)]
        IN \/ msg.op = "sync" /\ AckSync(m, msg.id, net)
           \/ msg.op = "last" /\ AckLast(msg.id, msg.inum, net)
           \/ msg.op = "truncate" /\ AckTruncate(m, msg.inum, net)

SyncNext ==
  \/ Next /\ UNCHANGED syncing
  \/ SyncTimer /\ UNCHANGED votes
  \/ \E c \in Conn, s \in Side : SyncRead(c[s], c) /\ UNCHANGED votes

SyncSpec == SyncInit /\ [][SyncNext]_<<vars, syncing>>

=============================================================================
