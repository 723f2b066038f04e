-------------------------------- MODULE Paxos --------------------------------
(***************************************************************************)
(* One established motmot session: the handlers of src/paxos/ that elect   *)
(* a proposer, decide instances, and learn them in order, for members      *)
(* whose connections may break but are not made again.                     *)
(*                                                                         *)
(* Each process is a single-threaded event loop, so a handler runs to its  *)
(* end before another one starts.  A handler is one action, except where   *)
(* it enters paxos_commit() or one of the loops at the end of              *)
(* proposer_ack_promise(): these run as the steps Commit, Learn, Redecree  *)
(* and Drain, and while they run nothing else does (Quiet).                *)
(***************************************************************************)
EXTENDS Integers, FiniteSets, Sequences

CONSTANTS
  Member,   \* the pa_paxid of every acceptor of the session; lower outranks higher
  Chat,     \* the chat requests the clients may make, each at most once
  Base,     \* the last instance everyone has learned when the model starts
  MaxInum,  \* bound: the highest instance number
  MaxGen,   \* bound: the generation at which a failed prepare is not retried
  MaxConn,  \* bound: how many reconnections one member waits for at once
  Mortal,   \* bound: the members that may leave
  Fragile,  \* bound: the connections that may break, as sets of two members
  MaxLoss   \* bound: how many members leave and connections break in all

Kind == {"none", "join", "null", "chat", "part", "kill"}
Value == [kind : Kind, by : Nat, arg : Nat]   \* paxos_value: pv_dkind, pv_reqid, pv_extra
Inum == Base .. MaxInum

ASSUME MemberAssumption == IsFiniteSet(Member) /\ Member # {} /\ Member \subseteq Nat \ {0}
ASSUME ChatAssumption == Chat \subseteq {v \in Value : v.kind = "chat" /\ v.by \in Member}
ASSUME BoundAssumption == /\ Base \in Nat /\ MaxInum \in Nat /\ Base <= MaxInum
                          /\ MaxGen \in Nat /\ MaxConn \in Nat /\ MaxLoss \in Nat

-----------------------------------------------------------------------------
(* Data. *)

Ballot == [id : Nat \ {0}, gen : Nat]
NoBallot == [id |-> 0, gen |-> 0]
BallotOrNone == Ballot \cup {NoBallot}

(* ppair_compare(): a higher generation wins, then the lower id. *)
Less(b, c) == b.gen < c.gen \/ (b.gen = c.gen /\ b.id > c.id)

Least(S) == CHOOSE x \in S : \A y \in S : x <= y
Greatest(S) == CHOOSE x \in S : \A y \in S : y <= x

NoValue == [kind |-> "none", by |-> 0, arg |-> 0]
Null(a) == [kind |-> "null", by |-> a, arg |-> 0]
Part(a, x) == [kind |-> "part", by |-> a, arg |-> x]
Kill(a, x) == [kind |-> "kill", by |-> a, arg |-> x]

(* struct paxos_instance.  An instance that is not on the list is Absent.  *)
(* The opcode is that of the proposer's header, which is sent again when a *)
(* part is; that of an acceptor's is not used.                             *)
Entry == [bal : BallotOrNone, val : Value, opcode : {"decree", "commit"},
          committed : BOOLEAN, cached : BOOLEAN, learned : BOOLEAN,
          votes : Nat, rejects : Nat]

Absent == [bal |-> NoBallot, val |-> NoValue, opcode |-> "decree",
           committed |-> FALSE, cached |-> FALSE, learned |-> FALSE,
           votes |-> 0, rejects |-> 0]

(* An instance under a decree of its proposer: instance_init_metadata(). *)
Decreed(b, v) ==
  [Absent EXCEPT !.bal = b, !.val = v, !.votes = 1]

Present(il) == {i \in Inum : il[i].bal # NoBallot}

(* Mutant: next_instance() counts from the last committed instance. *)
LastCommitted(il) == Greatest({i \in Inum : il[i].committed})

Last(il) == Greatest(Present(il))

(* istart and pp_istart point at an instance; stray when ack_promise has   *)
(* taken the structure they point at off the list.                         *)
Pointer == [inum : Inum, stray : BOOLEAN]
At(i) == [inum |-> i, stray |-> FALSE]

Prep == [bal : BallotOrNone, acks : Nat, redirects : Nat, istart : Pointer]
NoPrep == [bal |-> NoBallot, acks |-> 0, redirects |-> 0, istart |-> At(Base)]

(* The inum of a redirect, and of no call, is not used. *)
Continuation == [op : {"redirect", "reject"}, who : Nat, inum : Inum]
Call == [fn : {"none", "commit", "learn"}, inum : Inum]
Return == [fn |-> "none", inum |-> Base]

Vote == [bal : BallotOrNone, val : Value]
NoVote == [bal |-> NoBallot, val |-> NoValue]

Message ==
       [op : {"prepare"}, bal : Ballot, inum : Nat]
  \cup [op : {"promise"}, bal : Ballot, inum : Nat, log : [Inum -> Vote]]
  \cup [op : {"accept", "reject", "retry"}, bal : Ballot, inum : Inum]
  \cup [op : {"redirect"}, bal : Ballot, who : Nat]
  \cup [op : {"decree", "commit", "recommit"}, bal : Ballot, inum : Inum, val : Value]
  \cup [op : {"request"}, who : Nat, val : Value]
  \cup [op : {"refuse"}, who : Nat]
  \cup [op : {"retrieve"}, who : Nat, inum : Inum, val : Value]
  \cup [op : {"resend"}, inum : Inum, val : Value]

(* The ways a process dies on an assertion or a NULL pointer. *)
Failure == {"promise_glb", "redecree_glb", "accept_ballot", "reject_ballot", "reject_kind",
            "redirect_rank", "redirect_target", "target", "decree_proposer",
            "decree_value", "instance", "commit_istart", "commit_learned", "chat_author", "null_session"}

-----------------------------------------------------------------------------
VARIABLES
  status,    \* "live", "ended" (paxos_end), or the Failure the process died of
  alist,     \* the acceptors, less those whose part or kill was learned
  peer,      \* those of them we hold a connection to (pa_peer # NULL)
  proposer,  \* who we take for the proposer
  ballot,    \* the ballot we prepared or promised last
  gen_high,  \* the generation our last prepare or promise used
  prep,      \* the prepare under way, or NoPrep
  dparts,    \* the head of idefer: the acceptors to part or kill, by rank
  idefer,    \* the rest of idefer: the values deferred during a prepare
  ilist,     \* the instances
  ihole,     \* the first instance not learned
  istart,    \* where the search for the hole starts
  rcache,    \* the requests whose data we hold
  clist,     \* the reconnections we wait for
  call,      \* paxos_commit() or its learning loop, when we are in it
  link,      \* link[x][y]: the messages from x that y has not read
  lost       \* how many connections and members were lost so far

sess == <<alist, peer, proposer>>
ballots == <<ballot, gen_high, prep>>
defers == <<dparts, idefer>>
logs == <<ilist, istart>>
vars == <<status, alist, peer, proposer, ballot, gen_high, prep, dparts, idefer,
          ilist, ihole, istart, rcache, clist, call, link, lost>>

TypeOK ==
  /\ status \in [Member -> {"live", "ended"} \cup Failure]
  /\ alist \in [Member -> SUBSET Member]
  /\ peer \in [Member -> SUBSET Member]
  /\ proposer \in [Member -> Member]
  /\ ballot \in [Member -> Ballot]
  /\ gen_high \in [Member -> Nat]
  /\ prep \in [Member -> Prep]
  /\ dparts \in [Member -> SUBSET Member]
  /\ idefer \in [Member -> Seq(Value)]
  /\ ilist \in [Member -> [Inum -> Entry]]
  /\ ihole \in [Member -> Base + 1 .. MaxInum + 1]
  /\ istart \in [Member -> Pointer]
  /\ rcache \in [Member -> SUBSET Value]
  /\ clist \in [Member -> Seq(Continuation)]
  /\ call \in [Member -> Call]
  /\ link \in [Member -> [Member -> Seq(Message)]]
  /\ lost \in Nat

-----------------------------------------------------------------------------
(* The session when the model starts: everyone is connected and has        *)
(* learned the instances up to Base, under the first ballot of the         *)
(* highest-ranked member.                                                  *)
First == Least(Member)
FirstBallot == [id |-> First, gen |-> 1]
BaseEntry == [bal |-> FirstBallot, val |-> [kind |-> "join", by |-> First, arg |-> 0],
              opcode |-> "commit", committed |-> TRUE, cached |-> TRUE, learned |-> TRUE,
              votes |-> 0, rejects |-> 0]

Init ==
  /\ status = [a \in Member |-> "live"]
  /\ alist = [a \in Member |-> Member]
  /\ peer = [a \in Member |-> Member \ {a}]
  /\ proposer = [a \in Member |-> First]
  /\ ballot = [a \in Member |-> FirstBallot]
  /\ gen_high = [a \in Member |-> 1]
  /\ prep = [a \in Member |-> NoPrep]
  /\ dparts = [a \in Member |-> {}]
  /\ idefer = [a \in Member |-> <<>>]
  /\ ilist = [a \in Member |-> [i \in Inum |-> IF i = Base THEN BaseEntry ELSE Absent]]
  /\ ihole = [a \in Member |-> Base + 1]
  /\ istart = [a \in Member |-> At(Base)]
  /\ rcache = [a \in Member |-> {}]
  /\ clist = [a \in Member |-> <<>>]
  /\ call = [a \in Member |-> Return]
  /\ link = [a \in Member |-> [y \in Member |-> <<>>]]
  /\ lost = 0

-----------------------------------------------------------------------------
(* Who runs. *)

IsProposer(a) == proposer[a] = a
Preparing(a) == prep[a] # NoPrep

(* The prepare has its majority, and the loop over the instances runs. *)
Redecreeing(a) == Preparing(a) /\ ballot[a] = prep[a].bal

(* The prepare is over, and the loop over idefer runs. *)
Draining(a) == ~Preparing(a) /\ (dparts[a] # {} \/ idefer[a] # <<>>)

Busy(a) == status[a] = "live" /\ (call[a] # Return \/ Redecreeing(a) \/ Draining(a))
Quiet == \A a \in Member : ~Busy(a)

Majority(al) == Cardinality(al) \div 2 + 1
LiveCount(a) == Cardinality(peer[a]) + 1

(* DEATH_ADJUSTED(n) *)
DeathAdjusted(a, n) == n + (Cardinality(alist[a]) - LiveCount(a))

-----------------------------------------------------------------------------
(* The network: a FIFO byte stream per connection.  What is written to a   *)
(* connection that the other end has closed is lost.                       *)

Send(net, a, to, m) ==
  [net EXCEPT ![a] = [y \in Member |-> IF y \in to /\ a \in peer[y]
                                        THEN Append(net[a][y], m) ELSE net[a][y]]]

Rest(a, x) == [link EXCEPT ![x][a] = Tail(@)]

Unread(net, a, S) ==
  [x \in Member |-> [y \in Member |-> IF y = a /\ x \in S THEN <<>> ELSE net[x][y]]]

(* paxos_dispatch() reads a message of kind op that x sent to a. *)
Incoming(a, x, op) ==
  /\ link[x][a] # <<>> /\ Head(link[x][a]).op = op
  /\ status[a] = "live" /\ x \in peer[a]
  /\ Quiet

Msg(a, x) == Head(link[x][a])

(* The session, or the whole process, is gone: every connection closes. *)
Stop(a, why, net) ==
  /\ status' = [status EXCEPT ![a] = why]
  /\ peer' = [peer EXCEPT ![a] = {}]
  /\ link' = Unread(net, a, Member)

-----------------------------------------------------------------------------
(* Parts shared by the handlers. *)

(* Mutant: who loses its proposer takes itself for the next one. *)
ElectedSelf(a, pe) == a

(* reset_proposer(): the first of alist that is us or connected to us. *)
Elected(a, pe) == Least({a} \cup pe)

(* Mutant: reset_proposer() is not called. *)
NotReelected(a, y, pe) == proposer[a]

(* Who the proposer is once y is gone and pe are the peers that are left. *)
Reelected(a, y, pe) == IF y = proposer[a] THEN Elected(a, pe) ELSE proposer[a]

(* Mutant: only acceptors after us on the list are purged. *)
UnconnectedBelow(a, al, pe) == {y \in al \ pe : y > a}

(* The acceptors of al that are not connected to us. *)
Unconnected(a, al, pe) == al \ (pe \cup {a})

(* Mutants: the ballot keeps our generation; it lacks our id. *)
NextBallotSameGen(a) == [id |-> a, gen |-> gen_high[a]]
NextBallotNoId(a) == [id |-> 0, gen |-> gen_high[a] + 1]

NextBallot(a) == [id |-> a, gen |-> gen_high[a] + 1]

DecreeMsg(b, i, v) == [op |-> "decree", bal |-> b, inum |-> i, val |-> v]

(* proposer_prepare(), with al and pe as alist and peer.  gone are the     *)
(* acceptors it defers parts or kills for, none when it prepares again.    *)
(* Without a live majority it ends the session; the code that called it    *)
(* then returns, or goes on with the session it no longer has (ended).     *)
Prepare(a, al, pe, net, gone, ended) ==
  IF Cardinality(pe) + 1 < Majority(al)
  THEN /\ Stop(a, ended, net)
       /\ UNCHANGED <<gen_high, prep, dparts>>
  ELSE LET b == NextBallot(a)
       IN /\ prep' = [prep EXCEPT ![a] = [bal |-> b, acks |-> 1, redirects |-> 0,
                                          istart |-> istart[a]]]
          /\ gen_high' = [gen_high EXCEPT ![a] = b.gen]
          /\ dparts' = [dparts EXCEPT ![a] = @ \cup gone]
          /\ peer' = [peer EXCEPT ![a] = pe]
          /\ link' = Send(net, a, pe, [op |-> "prepare", bal |-> b, inum |-> ihole[a]])
          /\ UNCHANGED status

(* Mutants: istart is left alone; istart is moved at every insertion. *)
NoUpstart(a, i) == UNCHANGED istart
UpstartAlways(a, i) == istart' = [istart EXCEPT ![a] = At(i)]

(* instance_insert_and_upstart(): an instance put on the list at the hole  *)
(* is where the search for the hole starts.                                *)
Upstart(a, i) == istart' = [istart EXCEPT ![a] = IF i = ihole[a] THEN At(i) ELSE @]

(* proposer_decree().  A proposer that is a majority by itself commits;    *)
(* nobody is left to send the commit to.                                   *)
ProposerDecree(a, v, pe, net) ==
  LET i == Last(ilist[a]) + 1
      alone == Majority(alist[a]) = 1
  IN /\ i <= MaxInum
     /\ ilist' = [ilist EXCEPT ![a][i] =
                    [Decreed(ballot[a], v) EXCEPT !.opcode = IF alone THEN "commit" ELSE @]]
     /\ Upstart(a, i)
     /\ link' = Send(net, a, pe, DecreeMsg(ballot[a], i, v))
     /\ call' = [call EXCEPT ![a] = IF alone THEN [fn |-> "commit", inum |-> i] ELSE @]

(* proposer_decree_request(), proposer_decree_part(): now, or after the    *)
(* prepare.                                                                *)
Submit(a, v, pe, net) ==
  IF Preparing(a)
  THEN /\ idefer' = [idefer EXCEPT ![a] = Append(@, v)]
       /\ link' = net
       /\ UNCHANGED <<logs, call>>
  ELSE ProposerDecree(a, v, pe, net) /\ UNCHANGED idefer

(* paxos_commit(), whose steps follow. *)
Enter(a, i) == call' = [call EXCEPT ![a] = [fn |-> "commit", inum |-> i]]

-----------------------------------------------------------------------------
(* paxos_commit() and paxos_learn(). *)

NeedsCached(v) == v.kind \in {"chat", "join"}

(* Mutant: the retrieve names the author of the request, not us. *)
RetrieveForAuthor(a, i, v) ==
  Send(link, a, IF v.by \in peer[a] THEN {v.by} ELSE peer[a],
       [op |-> "retrieve", who |-> v.by, inum |-> i, val |-> v])

(* The request is not in the cache: ask whoever made it, or everyone. *)
Retrieve(a, i, v) ==
  Send(link, a, IF v.by \in peer[a] THEN {v.by} ELSE peer[a],
       [op |-> "retrieve", who |-> a, inum |-> i, val |-> v])

(* The hole has committed and waits for a resend, as far as istart tells. *)
HoleWaits(a) == istart[a] = At(ihole[a]) /\ ilist[a][ihole[a]].committed

(* The instance that LIST_NEXT(istart) finds is the hole. *)
NextIsHole(a) ==
  \/ istart[a].stray
  \/ /\ istart[a].inum < ihole[a]
     /\ \A i \in Present(ilist[a]) : i > istart[a].inum => i >= ihole[a]

CommitUncached(a, i) ==
  /\ ilist' = [ilist EXCEPT ![a][i] = [@ EXCEPT !.committed = TRUE]]
  /\ link' = Retrieve(a, i, ilist[a][i].val)
  /\ call' = [call EXCEPT ![a] = Return]
  /\ UNCHANGED istart

CommitPastHole(a, i) ==
  /\ ilist' = [ilist EXCEPT ![a][i] = [@ EXCEPT !.committed = TRUE, !.cached = TRUE]]
  /\ link' = IF IsProposer(a) \/ HoleWaits(a) THEN link
             ELSE Send(link, a, {proposer[a]},
                       [op |-> "retry", bal |-> ballot[a], inum |-> ihole[a]])
  /\ call' = [call EXCEPT ![a] = Return]
  /\ UNCHANGED istart

(* A stray istart with the number of the hole looks uncommitted. *)
CommitHole(a, i) ==
  LET dangling == istart[a] = [inum |-> i, stray |-> TRUE]
  IN /\ ilist' = [ilist EXCEPT ![a][i] = [@ EXCEPT !.committed = TRUE, !.cached = TRUE]]
     /\ istart' = [istart EXCEPT ![a] = IF dangling THEN @ ELSE At(i)]
     /\ call' = [call EXCEPT ![a] = IF dangling THEN Return ELSE [fn |-> "learn", inum |-> i]]
     /\ UNCHANGED link

Commit(a) ==
  LET i == call[a].inum
      v == ilist[a][i].val
  IN /\ status[a] = "live" /\ call[a].fn = "commit"
     /\ IF NeedsCached(v) /\ v \notin rcache[a]
        THEN CommitUncached(a, i) /\ UNCHANGED <<status, peer>>
        ELSE IF i < ihole[a]
        THEN Stop(a, "commit_learned", link) /\ UNCHANGED <<logs, call>>
        ELSE IF i > ihole[a]
        THEN CommitPastHole(a, i) /\ UNCHANGED <<status, peer>>
        ELSE IF istart[a].inum # i /\ ~NextIsHole(a)
        THEN Stop(a, "commit_istart", link) /\ UNCHANGED <<logs, call>>
        ELSE CommitHole(a, i) /\ UNCHANGED <<status, peer>>
     /\ UNCHANGED <<alist, proposer, ballots, defers, ihole, rcache, clist, lost>>

(* Mutant: an instance is learned without its data. *)
LearnableUncached(a) == ihole[a] \in Inum /\ ilist[a][ihole[a]].committed

Learnable(a) ==
  /\ ihole[a] \in Inum
  /\ ilist[a][ihole[a]].committed /\ ilist[a][ihole[a]].cached

(* The learn that the loop of paxos_commit() makes of the hole. *)
Learned(a) ==
  /\ ilist' = [ilist EXCEPT ![a][ihole[a]] = [@ EXCEPT !.learned = TRUE]]
  /\ ihole' = [ihole EXCEPT ![a] = @ + 1]

(* A chat whose author is not on alist trips an assertion. *)
LearnChat(a, v) ==
  IF v.by \in alist[a]
  THEN Learned(a) /\ UNCHANGED <<status, sess, gen_high, prep, dparts, link>>
  ELSE /\ Stop(a, "chat_author", link)
       /\ UNCHANGED <<alist, proposer, gen_high, prep, dparts, ilist, ihole>>

(* We are parted ourselves.  A proposer that ends its session reads it     *)
(* again in paxos_peer_read().                                             *)
LearnOwnPart(a) ==
  /\ Stop(a, IF IsProposer(a) THEN "null_session" ELSE "ended", link)
  /\ UNCHANGED <<alist, proposer, gen_high, prep, dparts, ilist, ihole>>

(* Someone else is parted, perhaps our proposer. *)
LearnPart(a, y) ==
  LET al == alist[a] \ {y}
      pe == peer[a] \ {y}
      net == Unread(link, a, {y})
      np == Reelected(a, y, pe)
  IN /\ Learned(a)
     /\ alist' = [alist EXCEPT ![a] = al]
     /\ proposer' = [proposer EXCEPT ![a] = np]
     /\ IF y = proposer[a] /\ np = a
        THEN Prepare(a, al, pe, net, Unconnected(a, al, pe), "ended")
        ELSE /\ peer' = [peer EXCEPT ![a] = pe]
             /\ link' = net
             /\ UNCHANGED <<status, gen_high, prep, dparts>>

Learn(a) ==
  LET v == ilist[a][ihole[a]].val
  IN /\ status[a] = "live" /\ call[a].fn = "learn" /\ Learnable(a)
     /\ CASE v.kind = "chat" -> LearnChat(a, v)
          [] v.kind \in {"part", "kill"} /\ v.arg = a -> LearnOwnPart(a)
          [] v.kind \in {"part", "kill"} /\ v.arg # a /\ v.arg \in alist[a] -> LearnPart(a, v.arg)
          [] OTHER -> Learned(a) /\ UNCHANGED <<status, sess, gen_high, prep, dparts, link>>
     /\ UNCHANGED <<ballot, idefer, istart, rcache, clist, call, lost>>

(* The loop is at the end of the list, at a gap, or at an instance that is *)
(* not committed or not cached.                                            *)
LearnEnd(a) ==
  /\ status[a] = "live" /\ call[a].fn = "learn" /\ ~Learnable(a)
  /\ istart' = [istart EXCEPT ![a] =
                  IF ihole[a] \in Present(ilist[a]) THEN At(ihole[a])
                  ELSE At(ihole[a] - 1)]
  /\ call' = [call EXCEPT ![a] = Return]
  /\ UNCHANGED <<status, sess, ballots, defers, ilist, ihole, rcache, clist, link, lost>>

-----------------------------------------------------------------------------
(* Requests: paxos_request.c and the refusals of paxos_reconnect.c. *)

(* Mutant: only our own requests are kept. *)
CachedOwn(a, v) == [rcache EXCEPT ![a] = @ \cup ({v} \cap {w \in Chat : w.by = a})]

(* The request cache, with one more request. *)
Cached(a, v) == [rcache EXCEPT ![a] = @ \cup {v}]

(* paxos_request() for a chat. *)
Request(a, v) ==
  LET net == Send(link, a, peer[a], [op |-> "request", who |-> proposer[a], val |-> v])
  IN /\ Quiet /\ status[a] = "live"
     /\ v.by = a /\ v \notin rcache[a]
     /\ rcache' = Cached(a, v)
     /\ IF IsProposer(a)
        THEN Submit(a, v, peer[a], net)
        ELSE link' = net /\ UNCHANGED <<idefer, logs, call>>
     /\ UNCHANGED <<status, sess, ballots, dparts, ihole, clist, lost>>

(* proposer_ack_request().  A requester who takes someone below us for the *)
(* proposer is killed.                                                     *)
ProposerAckRequest(a, x) ==
  LET m == Msg(a, x)
      wrong == m.who > a
  IN /\ Incoming(a, x, "request") /\ IsProposer(a)
     /\ rcache' = IF wrong THEN rcache ELSE Cached(a, m.val)
     /\ Submit(a, IF wrong THEN Kill(a, m.val.by) ELSE m.val, peer[a], Rest(a, x))
     /\ UNCHANGED <<status, sess, ballots, dparts, ihole, clist, lost>>

(* acceptor_ack_request(), acceptor_refuse(). *)
AcceptorAckRequest(a, x) ==
  LET m == Msg(a, x)
  IN /\ Incoming(a, x, "request") /\ ~IsProposer(a)
     /\ rcache' = Cached(a, m.val)
     /\ link' = IF m.who = a
                THEN Send(Rest(a, x), a, {x}, [op |-> "refuse", who |-> proposer[a]])
                ELSE Rest(a, x)
     /\ UNCHANGED <<status, sess, ballots, defers, logs, ihole, clist, call, lost>>

(* acceptor_ack_refuse().  The reconnection it asks for fails, and         *)
(* continue_ack_refuse() then does nothing.                                *)
AckRefuse(a, x) ==
  LET m == Msg(a, x)
  IN /\ Incoming(a, x, "refuse") /\ ~IsProposer(a)
     /\ IF proposer[a] <= m.who \/ m.who \in alist[a] \ peer[a]
        THEN link' = Rest(a, x) /\ UNCHANGED <<status, peer>>
        ELSE Stop(a, "target", link)
     /\ UNCHANGED <<alist, proposer, ballots, defers, logs, ihole, rcache, clist, call, lost>>

(* paxos_ack_retrieve(), paxos_resend(). *)
AckRetrieve(a, x) ==
  LET m == Msg(a, x)
  IN /\ Incoming(a, x, "retrieve")
     /\ link' = IF m.val \in rcache[a]
                THEN Send(Rest(a, x), a, {m.who} \cap peer[a],
                          [op |-> "resend", inum |-> m.inum, val |-> m.val])
                ELSE Rest(a, x)
     /\ UNCHANGED <<status, sess, ballots, defers, logs, ihole, rcache, clist, call, lost>>

(* paxos_ack_resend(): commit again, with the data. *)
AckResend(a, x) ==
  LET m == Msg(a, x)
      e == ilist[a][m.inum]
  IN /\ Incoming(a, x, "resend")
     /\ IF e.bal = NoBallot \/ e.cached
        THEN UNCHANGED <<rcache, call>>
        ELSE /\ rcache' = Cached(a, m.val)
             /\ Enter(a, m.inum)
     /\ link' = Rest(a, x)
     /\ UNCHANGED <<status, sess, ballots, defers, logs, ihole, clist, lost>>

-----------------------------------------------------------------------------
(* Prepares: paxos_proposer.c, paxos_acceptor.c and the redirects of       *)
(* paxos_reconnect.c.                                                      *)

(* The accepts that acceptor_promise() packs: from the instance asked for, *)
(* or the closest one before it, to the end of the list.                   *)
Accepts(il, inum) ==
  LET from == Greatest({i \in Present(il) : i <= inum})
  IN [i \in Inum |-> IF i \in Present(il) /\ i >= from
                     THEN [bal |-> il[i].bal, val |-> il[i].val] ELSE NoVote]

(* A prepare that is not above our ballot, or not from our proposer. *)
Refused(a, x, b) == ~Less(ballot[a], b) \/ proposer[a] # x

(* acceptor_ack_prepare(), acceptor_promise(), acceptor_redirect(). *)
AckPrepare(a, x) ==
  LET m == Msg(a, x)
  IN /\ Incoming(a, x, "prepare") /\ ~IsProposer(a)
     /\ IF Refused(a, x, m.bal)
        THEN /\ link' = Send(Rest(a, x), a, {x},
                             [op |-> "redirect", bal |-> m.bal, who |-> proposer[a]])
             /\ UNCHANGED <<ballot, gen_high>>
        ELSE /\ ballot' = [ballot EXCEPT ![a] = m.bal]
             /\ gen_high' = [gen_high EXCEPT ![a] = m.bal.gen]
             /\ link' = Send(Rest(a, x), a, {x},
                             [op |-> "promise", bal |-> m.bal, inum |-> m.inum,
                              log |-> Accepts(ilist[a], m.inum)])
     /\ UNCHANGED <<status, sess, prep, defers, logs, ihole, rcache, clist, call, lost>>

(* What proposer_ack_promise() does with the accepts of a promise. *)
Voted(vs) == {i \in Inum : vs[i].bal # NoBallot}

(* Mutant: instances that we do not have are not taken from a promise. *)
MissingNone(il, vs) == {}

Missing(il, vs) == {i \in Voted(vs) : il[i].bal = NoBallot}
Newer(il, vs) == {i \in Voted(vs) : /\ il[i].bal # NoBallot /\ ~il[i].committed
                                    /\ Less(il[i].bal, vs[i].bal)}

Merge(il, vs) ==
  [i \in Inum |-> IF i \in Missing(il, vs) \cup Newer(il, vs)
                  THEN [Absent EXCEPT !.bal = vs[i].bal, !.val = vs[i].val] ELSE il[i]]

(* The structure of an instance that is switched out is where the next     *)
(* accepts are unpacked: a pointer to it then points at the next one that  *)
(* is put on the list, or strays.                                          *)
Follow(ptr, il, vs) ==
  IF ptr.stray \/ ptr.inum \notin Newer(il, vs) THEN ptr
  ELSE LET reused == {i \in Missing(il, vs) \cup Newer(il, vs) : i > ptr.inum}
       IN IF reused # {} THEN At(Least(reused))
          ELSE [inum |-> Greatest(Voted(vs)), stray |-> TRUE]

(* Bound: MaxInum leaves room for the decrees that follow the prepare. *)
Room(a, il) == Last(il) + Cardinality(dparts[a]) + Len(idefer[a]) <= MaxInum

(* The promise of an acceptor to a prepare under way.  Bound: a second     *)
(* replacement of the instance a stray pointer stands for is not followed. *)
AckPromise(a, x) ==
  LET m == Msg(a, x)
      p == prep[a]
      acks == p.acks + 1
      il == Merge(ilist[a], m.log)
      at == Follow(p.istart, ilist[a], m.log)
      start == IF ihole[a] \in Missing(ilist[a], m.log) THEN At(ihole[a])
               ELSE Follow(istart[a], ilist[a], m.log)
      won == acks >= Majority(alist[a])
  IN /\ Incoming(a, x, "promise") /\ IsProposer(a)
     /\ IF ~Preparing(a) \/ m.bal # p.bal
        THEN link' = Rest(a, x) /\ UNCHANGED <<status, peer, ballot, prep, logs>>
        ELSE IF Least(Voted(m.log)) < p.istart.inum
        THEN Stop(a, "promise_glb", link) /\ UNCHANGED <<ballot, prep, logs>>
        ELSE IF won /\ at.inum > ihole[a]
        THEN Stop(a, "redecree_glb", link) /\ UNCHANGED <<ballot, prep, logs>>
        ELSE /\ (p.istart.stray \/ istart[a].stray) => ihole[a] \notin Newer(ilist[a], m.log)
             /\ won => Room(a, il)
             /\ ilist' = [ilist EXCEPT ![a] = il]
             /\ istart' = [istart EXCEPT ![a] = start]
             /\ prep' = [prep EXCEPT ![a] = [p EXCEPT !.acks = acks, !.istart = at]]
             /\ ballot' = IF won THEN [ballot EXCEPT ![a] = p.bal] ELSE ballot
             /\ link' = Rest(a, x)
             /\ UNCHANGED <<status, peer>>
     /\ UNCHANGED <<alist, proposer, gen_high, defers, ihole, rcache, clist, call, lost>>

(* Mutant: the loop starts before the hole, and decrees what is committed. *)
UndecreedFromBase(a) ==
  {i \in Inum : i <= Last(ilist[a]) /\ ilist[a][i].bal # ballot[a]}

(* The instances the loop after the last promise has still to decree. *)
Undecreed(a) ==
  {i \in Inum : /\ ihole[a] <= i /\ i <= Last(ilist[a])
                /\ ~ilist[a][i].committed /\ ilist[a][i].bal # ballot[a]}

(* One of them: its value again, or null where there is none. *)
Redecree(a) ==
  LET i == Least(Undecreed(a))
      absent == ilist[a][i].bal = NoBallot
      v == IF absent THEN Null(a) ELSE ilist[a][i].val
  IN /\ status[a] = "live" /\ call[a] = Return
     /\ Redecreeing(a) /\ Undecreed(a) # {}
     /\ ilist' = [ilist EXCEPT ![a][i] = Decreed(ballot[a], v)]
     /\ IF absent THEN Upstart(a, i) ELSE UNCHANGED istart
     /\ link' = Send(link, a, peer[a], DecreeMsg(ballot[a], i, v))
     /\ UNCHANGED <<status, sess, ballots, defers, ihole, rcache, clist, call, lost>>

EndPrepare(a) ==
  /\ status[a] = "live" /\ call[a] = Return
  /\ Redecreeing(a) /\ Undecreed(a) = {}
  /\ prep' = [prep EXCEPT ![a] = NoPrep]
  /\ UNCHANGED <<status, sess, ballot, gen_high, defers, logs, ihole, rcache, clist, call,
                 link, lost>>

(* The next deferred decree: the dropped acceptors by rank, killed when    *)
(* they outrank us, then the others in their order.                        *)
Drain(a) ==
  LET x == Least(dparts[a])
  IN /\ status[a] = "live" /\ call[a] = Return /\ Draining(a)
     /\ IF dparts[a] # {}
        THEN /\ ProposerDecree(a, IF x < a THEN Kill(a, x) ELSE Part(a, x), peer[a], link)
             /\ dparts' = [dparts EXCEPT ![a] = @ \ {x}]
             /\ UNCHANGED idefer
        ELSE /\ ProposerDecree(a, Head(idefer[a]), peer[a], link)
             /\ idefer' = [idefer EXCEPT ![a] = Tail(@)]
             /\ UNCHANGED dparts
     /\ UNCHANGED <<status, sess, ballots, ihole, rcache, clist, lost>>

(* proposer_ack_redirect().  Refused by a majority, with those that are    *)
(* not connected counted in, it asks for a connection to the proposer it   *)
(* was told of; refused by as many as promised, it prepares again.         *)
AckRedirect(a, x) ==
  LET m == Msg(a, x)
      p == prep[a]
      n == p.redirects + 1
      counted == [prep EXCEPT ![a] = [p EXCEPT !.redirects = n]]
  IN /\ Incoming(a, x, "redirect") /\ IsProposer(a)
     /\ IF m.who >= a
        THEN Stop(a, "redirect_rank", link) /\ UNCHANGED <<gen_high, prep, dparts, clist>>
        ELSE IF ~Preparing(a) \/ m.bal # p.bal
        THEN link' = Rest(a, x) /\ UNCHANGED <<status, peer, gen_high, prep, dparts, clist>>
        ELSE IF DeathAdjusted(a, n) >= Majority(alist[a])
        THEN IF m.who \in alist[a] \ peer[a]
             THEN /\ Len(clist[a]) < MaxConn
                  /\ clist' = [clist EXCEPT ![a] =
                                 Append(@, [op |-> "redirect", who |-> m.who, inum |-> Base])]
                  /\ prep' = counted
                  /\ link' = Rest(a, x)
                  /\ UNCHANGED <<status, peer, gen_high, dparts>>
             ELSE Stop(a, "redirect_target", link) /\ UNCHANGED <<gen_high, prep, dparts, clist>>
        ELSE IF p.acks < Majority(alist[a]) /\ p.acks + n = LiveCount(a)
        THEN /\ gen_high[a] < MaxGen
             /\ Prepare(a, alist[a], peer[a], Rest(a, x), {}, "null_session")
             /\ UNCHANGED clist
        ELSE /\ prep' = counted
             /\ link' = Rest(a, x)
             /\ UNCHANGED <<status, peer, gen_high, dparts, clist>>
     /\ UNCHANGED <<alist, proposer, ballot, idefer, logs, ihole, rcache, call, lost>>

(* The continuation at place n of clist is done. *)
Removed(s, n) == [j \in 1 .. Len(s) - 1 |-> IF j < n THEN s[j] ELSE s[j + 1]]

(* continue_ack_redirect() when the connection failed.  It frees whatever  *)
(* prepare there is and prepares again.                                    *)
ContinueAckRedirect(a) ==
  /\ Quiet /\ status[a] = "live"
  /\ \E n \in DOMAIN clist[a] :
       /\ clist[a][n].op = "redirect"
       /\ clist' = [clist EXCEPT ![a] = Removed(@, n)]
       /\ IF clist[a][n].who \in alist[a]
          THEN /\ gen_high[a] < MaxGen
               /\ Prepare(a, alist[a], peer[a], link, {}, "null_session")
          ELSE UNCHANGED <<status, peer, gen_high, prep, dparts, link>>
  /\ UNCHANGED <<alist, proposer, ballot, idefer, logs, ihole, rcache, call, lost>>

-----------------------------------------------------------------------------
(* Decrees: paxos_proposer.c, paxos_acceptor.c, paxos_retry.c and the      *)
(* rejects of paxos_reconnect.c.                                           *)

(* Mutant: the header is taken, and the value is not. *)
AcceptedHeader(e, m) == [e EXCEPT !.bal = m.bal]

(* The instance under the header and with the value of a decree or commit. *)
Accepted(e, m) == [e EXCEPT !.bal = m.bal, !.val = m.val]

(* acceptor_ack_decree() of a value it does not reject. *)
AcceptDecree(a, x, m) ==
  LET e == ilist[a][m.inum]
      accepted == Send(Rest(a, x), a, {x}, [op |-> "accept", bal |-> m.bal, inum |-> m.inum])
  IN CASE e.bal = NoBallot ->
            /\ ilist' = [ilist EXCEPT ![a][m.inum] = Accepted(Absent, m)]
            /\ Upstart(a, m.inum)
            /\ link' = accepted /\ UNCHANGED <<status, peer>>
       [] e.bal # NoBallot /\ e.committed /\ e.val = m.val ->
            link' = accepted /\ UNCHANGED <<status, peer, logs>>
       [] e.bal # NoBallot /\ e.committed /\ e.val # m.val ->
            Stop(a, "decree_value", link) /\ UNCHANGED logs
       [] e.bal # NoBallot /\ ~e.committed /\ ~Less(m.bal, e.bal) ->
            /\ ilist' = [ilist EXCEPT ![a][m.inum] = Accepted(e, m)]
            /\ link' = accepted /\ UNCHANGED <<status, peer, istart>>
       [] OTHER -> link' = Rest(a, x) /\ UNCHANGED <<status, peer, logs>>

(* acceptor_ack_decree(), acceptor_accept(), acceptor_reject(). *)
AckDecree(a, x) ==
  LET m == Msg(a, x)
  IN /\ Incoming(a, x, "decree") /\ ~IsProposer(a)
     /\ IF m.bal # ballot[a]
        THEN link' = Rest(a, x) /\ UNCHANGED <<status, peer, logs>>
        ELSE IF proposer[a] # m.bal.id
        THEN Stop(a, "decree_proposer", link) /\ UNCHANGED logs
        ELSE IF m.val.kind = "part" /\ m.val.arg \notin alist[a]
        THEN Stop(a, "target", link) /\ UNCHANGED logs
        ELSE IF m.val.kind = "part" /\ m.val.arg \in peer[a]
        THEN /\ link' = Send(Rest(a, x), a, {x},
                             [op |-> "reject", bal |-> m.bal, inum |-> m.inum])
             /\ UNCHANGED <<status, peer, logs>>
        ELSE AcceptDecree(a, x, m)
     /\ UNCHANGED <<alist, proposer, ballots, defers, ihole, rcache, clist, call, lost>>

(* proposer_ack_accept(), proposer_commit(). *)
AckAccept(a, x) ==
  LET m == Msg(a, x)
      e == ilist[a][m.inum]
      n == e.votes + 1
      won == ~e.committed /\ n >= Majority(alist[a])
  IN /\ Incoming(a, x, "accept") /\ IsProposer(a)
     /\ IF m.bal # ballot[a]
        THEN Stop(a, "accept_ballot", link) /\ UNCHANGED <<ilist, call>>
        ELSE IF e.bal = NoBallot
        THEN Stop(a, "instance", link) /\ UNCHANGED <<ilist, call>>
        ELSE /\ ilist' = [ilist EXCEPT ![a][m.inum] =
                             [e EXCEPT !.votes = n, !.opcode = IF won THEN "commit" ELSE @]]
             /\ IF won
                THEN /\ link' = Send(Rest(a, x), a, peer[a],
                                     [op |-> "commit", bal |-> e.bal, inum |-> m.inum,
                                      val |-> e.val])
                     /\ Enter(a, m.inum)
                ELSE link' = Rest(a, x) /\ UNCHANGED call
             /\ UNCHANGED <<status, peer>>
     /\ UNCHANGED <<alist, proposer, ballots, defers, istart, ihole, rcache, clist, lost>>

(* acceptor_ack_commit() and acceptor_ack_recommit() differ in the header  *)
(* of an instance they already have: a recommit replaces it.               *)
CommitMessage(a, x, m, bal) ==
  LET e == ilist[a][m.inum]
      absent == e.bal = NoBallot
  IN /\ IF e.committed
        THEN UNCHANGED <<logs, call>>
        ELSE /\ ilist' = [ilist EXCEPT ![a][m.inum] =
                             [@ EXCEPT !.bal = IF absent THEN m.bal ELSE bal, !.val = m.val]]
             /\ IF absent THEN Upstart(a, m.inum) ELSE UNCHANGED istart
             /\ Enter(a, m.inum)
     /\ link' = Rest(a, x)
     /\ UNCHANGED <<status, sess, ballots, defers, ihole, rcache, clist, lost>>

AckCommit(a, x) ==
  LET m == Msg(a, x)
  IN /\ Incoming(a, x, "commit") /\ ~IsProposer(a)
     /\ CommitMessage(a, x, m, ilist[a][m.inum].bal)

AckRecommit(a, x) ==
  LET m == Msg(a, x)
  IN /\ Incoming(a, x, "recommit") /\ ~IsProposer(a)
     /\ CommitMessage(a, x, m, m.bal)

(* proposer_ack_retry(), proposer_recommit(): under the header of the      *)
(* acceptor who asked.  An acceptor ignores it.                            *)
AckRetry(a, x) ==
  LET m == Msg(a, x)
      e == ilist[a][m.inum]
  IN /\ Incoming(a, x, "retry")
     /\ IF ~IsProposer(a)
        THEN link' = Rest(a, x) /\ UNCHANGED <<status, peer>>
        ELSE IF e.bal = NoBallot
        THEN Stop(a, "instance", link)
        ELSE /\ link' = IF e.committed
                        THEN Send(Rest(a, x), a, peer[a],
                                  [op |-> "recommit", bal |-> m.bal, inum |-> m.inum,
                                   val |-> e.val])
                        ELSE Rest(a, x)
             /\ UNCHANGED <<status, peer>>
     /\ UNCHANGED <<alist, proposer, ballots, defers, logs, ihole, rcache, clist, call, lost>>

InstanceMsg(e, i) == [op |-> e.opcode, bal |-> e.bal, inum |-> i, val |-> e.val]

(* proposer_ack_reject().  A part that a majority rejects, with those that *)
(* are not connected counted in, waits for a connection to its target; one *)
(* rejected by as many as accepted it is sent again.                       *)
AckReject(a, x) ==
  LET m == Msg(a, x)
      e == ilist[a][m.inum]
      n == e.rejects + 1
      tied == e.votes < Majority(alist[a]) /\ e.votes + n = LiveCount(a)
  IN /\ Incoming(a, x, "reject") /\ IsProposer(a)
     /\ IF m.bal # ballot[a]
        THEN Stop(a, "reject_ballot", link) /\ UNCHANGED <<ilist, clist>>
        ELSE IF e.bal = NoBallot
        THEN Stop(a, "instance", link) /\ UNCHANGED <<ilist, clist>>
        ELSE IF ~e.committed /\ e.val.kind \notin {"null", "part"}
        THEN Stop(a, "reject_kind", link) /\ UNCHANGED <<ilist, clist>>
        ELSE IF e.committed \/ e.val.kind = "null"
        THEN /\ ilist' = [ilist EXCEPT ![a][m.inum] = [@ EXCEPT !.rejects = n]]
             /\ link' = Rest(a, x)
             /\ UNCHANGED <<status, peer, clist>>
        ELSE IF DeathAdjusted(a, n) >= Majority(alist[a])
        THEN IF e.val.arg \in alist[a] \ peer[a]
             THEN /\ Len(clist[a]) < MaxConn
                  /\ clist' = [clist EXCEPT ![a] =
                                 Append(@, [op |-> "reject", who |-> e.val.arg, inum |-> m.inum])]
                  /\ ilist' = [ilist EXCEPT ![a][m.inum] = [@ EXCEPT !.rejects = n]]
                  /\ link' = Rest(a, x)
                  /\ UNCHANGED <<status, peer>>
             ELSE Stop(a, "target", link) /\ UNCHANGED <<ilist, clist>>
        ELSE /\ ilist' = [ilist EXCEPT ![a][m.inum] = [@ EXCEPT !.rejects = n]]
             /\ link' = IF tied THEN Send(Rest(a, x), a, peer[a], InstanceMsg(e, m.inum))
                        ELSE Rest(a, x)
             /\ UNCHANGED <<status, peer, clist>>
     /\ UNCHANGED <<alist, proposer, ballots, defers, istart, ihole, rcache, call, lost>>

(* continue_ack_reject() when the connection failed: the part is decreed   *)
(* again, under the header it has, and its metadata starts over.           *)
ContinueAckReject(a) ==
  /\ Quiet /\ status[a] = "live"
  /\ \E n \in DOMAIN clist[a] :
       LET k == clist[a][n]
           e == [ilist[a][k.inum] EXCEPT !.committed = FALSE, !.cached = FALSE,
                                         !.learned = FALSE, !.votes = 1, !.rejects = 0]
       IN /\ k.op = "reject"
          /\ clist' = [clist EXCEPT ![a] = Removed(@, n)]
          /\ IF k.who \in alist[a] /\ k.inum \in Present(ilist[a])
             THEN /\ ilist' = [ilist EXCEPT ![a][k.inum] = e]
                  /\ link' = Send(link, a, peer[a], InstanceMsg(e, k.inum))
             ELSE UNCHANGED <<ilist, link>>
  /\ UNCHANGED <<status, sess, ballots, defers, istart, ihole, rcache, call, lost>>

-----------------------------------------------------------------------------
(* Lost connections and members. *)

(* paxos_drop_connection().  The connection breaks by itself, or the other *)
(* end is closed; what was not read from it is lost.  A session that ends  *)
(* here is used again by the loop over the sessions.                       *)
Drop(a, y) ==
  LET pe == peer[a] \ {y}
      net == Unread(link, a, {y})
      np == Reelected(a, y, pe)
  IN /\ Quiet /\ status[a] = "live" /\ y \in peer[a]
     /\ IF a \in peer[y]
        THEN {a, y} \in Fragile /\ lost < MaxLoss /\ lost' = lost + 1
        ELSE lost' = lost
     /\ IF IsProposer(a)
        THEN /\ peer' = [peer EXCEPT ![a] = pe]
             /\ Submit(a, Part(a, y), pe, net)
             /\ UNCHANGED <<status, proposer, gen_high, prep, dparts>>
        ELSE /\ proposer' = [proposer EXCEPT ![a] = np]
             /\ IF np = a
                THEN Prepare(a, alist[a], pe, net, Unconnected(a, alist[a], pe), "null_session")
                ELSE /\ peer' = [peer EXCEPT ![a] = pe]
                     /\ link' = net
                     /\ UNCHANGED <<status, gen_high, prep, dparts>>
             /\ UNCHANGED <<idefer, logs, call>>
     /\ UNCHANGED <<alist, ballot, ihole, rcache, clist>>

(* motmot_disconnect(), or the machine or its process goes down. *)
Leave(a) ==
  /\ Quiet /\ status[a] = "live" /\ a \in Mortal
  /\ lost < MaxLoss /\ lost' = lost + 1
  /\ Stop(a, "ended", link)
  /\ UNCHANGED <<alist, proposer, ballots, defers, logs, ihole, rcache, clist, call>>

-----------------------------------------------------------------------------
(* The rest of the call in progress. *)
Step(a) == Commit(a) \/ Learn(a) \/ LearnEnd(a) \/ Redecree(a) \/ EndPrepare(a) \/ Drain(a)

(* paxos_dispatch(): a reads the next message from x.  What is sent only to *)
(* a proposer or only by one always finds the other (RolesMatch), so that   *)
(* the cases in which it is ignored, or its sender killed, do not arise     *)
(* while connections only go down.                                          *)
Dispatch(a, x) ==
  \/ ProposerAckRequest(a, x)
  \/ AcceptorAckRequest(a, x)
  \/ AckRefuse(a, x)
  \/ AckRetrieve(a, x)
  \/ AckResend(a, x)
  \/ AckPrepare(a, x)
  \/ AckPromise(a, x)
  \/ AckRedirect(a, x)
  \/ AckDecree(a, x)
  \/ AckAccept(a, x)
  \/ AckReject(a, x)
  \/ AckCommit(a, x)
  \/ AckRetry(a, x)
  \/ AckRecommit(a, x)

Next ==
  \E a \in Member :
    \/ Step(a)
    \/ ContinueAckRedirect(a)
    \/ ContinueAckReject(a)
    \/ Leave(a)
    \/ \E v \in Chat : Request(a, v)
    \/ \E x \in Member : Dispatch(a, x) \/ Drop(a, x)

Spec == Init /\ [][Next]_vars

=============================================================================
