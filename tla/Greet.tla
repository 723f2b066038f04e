-------------------------------- MODULE Greet --------------------------------
(***************************************************************************)
(* How a motmot session grows and shrinks under one proposer: the join is  *)
(* learned, the new member is welcomed with the lists of the proposer, it  *)
(* connects to the other members and says hello to them; a member that     *)
(* dies is parted.                                                         *)
(*                                                                         *)
(* The proposer is the first member, which does not die, so the ballot     *)
(* never changes: what becomes of a session that loses its proposer is in  *)
(* Paxos.  Here an instance is decreed by the proposer and committed when  *)
(* enough members would accept it.                                         *)
(*                                                                         *)
(* Each process is an event loop; while one is in the middle of a handler  *)
(* (Learn, or the continuation of a connection that is made at once) no    *)
(* other action happens (Quiet).                                           *)
(***************************************************************************)
EXTENDS Integers, FiniteSets, Sequences

CONSTANTS
  Old,        \* how many members the session has when the model starts
  Immediate,  \* whether the client connects before state.connect() returns, as main.c does
  MaxChange,  \* bound: how many members join or die, and chats are decreed, in all
  MaxLate     \* bound: how many instances a member learns only after a retrieve

ASSUME OldAssumption == Old \in Nat \ {0}
ASSUME ImmediateAssumption == Immediate \in BOOLEAN
ASSUME ChangeAssumption == MaxChange \in Nat /\ MaxLate \in Nat

-----------------------------------------------------------------------------
(* Data. *)

MaxInum == Old + MaxChange
Id == 1 .. MaxInum   \* a member is named after the instance of its join
Founder == 1

Join(i) == [kind |-> "join", who |-> i]
Part(i) == [kind |-> "part", who |-> i]
Chat == [kind |-> "chat", who |-> 0]

(* A connection is the pair of the member that made it and the other; each *)
(* of the two has its side of it.                                          *)
Conn == {c \in Id \X Id : c[1] # c[2]}
Side == {1, 2}
Other(s) == 3 - s

Least(S) == CHOOSE x \in S : \A y \in S : x <= y

(* What the members say to each other. *)
Hello == [op |-> "hello"]
CommitMsg(i) == [op |-> "commit", inum |-> i]
WelcomeMsg(al, base, done) == [op |-> "welcome", alist |-> al, ibase |-> base, done |-> done]

Continuation == [op : {"welcome", "ack_welcome"}, who : Id]

VARIABLES
  log,         \* the instances the proposer has decreed, in order
  votes,       \* votes[i]: who has accepted the instance i, until it is committed
  proc,        \* proc[m]: no process, one that waits for a session, one that is in it, a dead one
  alist,       \* alist[m]: the acceptors
  peer,        \* peer[m][q]: pa_peer, as who made the connection; 0 for NULL
  adefer,      \* adefer[m]: the members whose hello was deferred
  live_count,  \* live_count[m]
  ibase,       \* ibase[m]
  ihole,       \* ihole[m]
  done,        \* done[m]: the instances of ilist that are committed
  lack,        \* lack[m]: those of them that are not cached
  sought,      \* sought[m]: those of them for which a retrieve was sent
  clist,       \* clist[m]: the connections that m waits for
  queue,       \* queue[c][s]: what side s of the connection c has still to read
  closed       \* closed[c]: the sides that are shut; both until the connection is made

acceptors == <<alist, peer, adefer, live_count>>
instances == <<ibase, ihole, done, lack, sought>>
vars == <<log, votes, proc, acceptors, instances, clist, queue, closed>>

TypeOK ==
  /\ log \in Seq([kind : {"join", "part", "chat"}, who : 0 .. MaxInum, asked : SUBSET Id])
  /\ votes \in [Id -> SUBSET Id]
  /\ proc \in [Id -> {"none", "waiting", "in", "dead"}]
  /\ alist \in [Id -> SUBSET Id] /\ adefer \in [Id -> SUBSET Id]
  /\ peer \in [Id -> [Id -> 0 .. MaxInum]]
  /\ live_count \in [Id -> Nat]
  /\ ibase \in [Id -> Id] /\ ihole \in [Id -> 1 .. MaxInum + 1]
  /\ done \in [Id -> SUBSET Id] /\ lack \in [Id -> SUBSET Id] /\ sought \in [Id -> SUBSET Id]
  /\ clist \in [Id -> SUBSET Continuation]
  /\ DOMAIN queue = Conn /\ closed \in [Conn -> SUBSET Side]

(* A session whose members have learned each other's joins, each connected *)
(* to those before it, and the founder to all.                             *)
Maker(m, q) == LET hi == IF m < q THEN q ELSE m IN IF m = Founder \/ q = Founder THEN Founder ELSE hi

Members == 1 .. Old
Made == {c \in Members \X Members : c[1] # c[2] /\ Maker(c[1], c[2]) = c[1]}

Init ==
  /\ log = [i \in Members |-> [kind |-> "join", who |-> i, asked |-> {}]]
  /\ votes = [i \in Id |-> {}]
  /\ proc = [m \in Id |-> IF m \in Members THEN "in" ELSE "none"]
  /\ alist = [m \in Id |-> IF m \in Members THEN Members ELSE {}]
  /\ peer = [m \in Id |-> [q \in Id |-> IF {m, q} \subseteq Members /\ m # q THEN Maker(m, q) ELSE 0]]
  /\ adefer = [m \in Id |-> {}]
  /\ live_count = [m \in Id |-> IF m \in Members THEN Old ELSE 0]
  /\ ibase = [m \in Id |-> 1]
  /\ ihole = [m \in Id |-> IF m \in Members THEN Old + 1 ELSE 1]
  /\ done = [m \in Id |-> IF m \in Members THEN Members ELSE {}]
  /\ lack = [m \in Id |-> {}] /\ sought = [m \in Id |-> {}]
  /\ clist = [m \in Id |-> {}]
  /\ queue = [c \in Conn |-> <<<<>>, <<>>>>]
  /\ closed = [c \in Conn |-> IF c \in Made THEN {} ELSE Side]

-----------------------------------------------------------------------------
(* Parts shared by the handlers. *)

In(m) == proc[m] = "in"
Running(m) == proc[m] \in {"waiting", "in"}

Learnable(m) == In(m) /\ ihole[m] \in done[m] \ lack[m]
Connecting(m) == Immediate /\ clist[m] # {}
Quiet == \A m \in Id : ~Learnable(m) /\ ~Connecting(m)

Via(m, q) == IF peer[m][q] = m THEN <<m, q>> ELSE <<q, m>>
SideOf(c, m) == IF c[1] = m THEN 1 ELSE 2
Connected(m) == {q \in alist[m] : peer[m][q] # 0}

(* paxos_peer_send(): what is sent to a side that is shut is lost. *)
Posted(net, c, s, msg) ==
  IF s \in closed[c] THEN net ELSE [net EXCEPT ![c][s] = Append(@, msg)]

(* paxos_broadcast() *)
Broadcast(net, m, msg) ==
  LET to == {<<Via(m, q), Other(SideOf(Via(m, q), m))>> : q \in Connected(m)}
  IN [c \in Conn |-> [s \in Side |->
       IF <<c, s>> \in to /\ s \notin closed[c] THEN Append(net[c][s], msg) ELSE net[c][s]]]

(* paxos_peer_destroy(), for side s: what it has not read is lost. *)
Shut(c, s) ==
  /\ closed' = [closed EXCEPT ![c] = @ \cup {s}]
  /\ queue' = [queue EXCEPT ![c][s] = <<>>]

Majority == Cardinality(alist[Founder]) \div 2 + 1
Changes == Cardinality({i \in DOMAIN log : i > Old /\ log[i].kind # "part"})
           + Cardinality({m \in Id : proc[m] = "dead"})

(* proposer_decree() *)
Decreed(v) == Append(log, [kind |-> v.kind, who |-> v.who, asked |-> Connected(Founder)])

-----------------------------------------------------------------------------
(* Instances are decided. *)

(* A client asks for a chat, or for a new process to join. *)
Decree(v) ==
  /\ Quiet /\ Changes < MaxChange
  /\ log' = Decreed(v)
  /\ proc' = IF v.kind = "join" THEN [proc EXCEPT ![v.who] = "waiting"] ELSE proc
  /\ UNCHANGED <<acceptors, instances, clist, queue, closed>>

(* acceptor_ack_decree(): a member accepts what it was sent, but rejects   *)
(* the part of a member that it has a peer for.  A part is sent to all of  *)
(* them again until it is decided.                                         *)
Accepts(m, i) ==
  /\ In(m) /\ peer[Founder][m] # 0 /\ closed[Via(Founder, m)] = {}
  /\ IF log[i].kind = "part"
     THEN log[i].who \in alist[m] /\ peer[m][log[i].who] = 0
     ELSE m \in log[i].asked

(* Those whose accept of i can be the next that the proposer reads: a      *)
(* connection brings the accepts in the order of the decrees, but for      *)
(* those of a part.                                                        *)
Voters(i) ==
  {m \in alist[Founder] \ ({Founder} \cup votes[i]) :
     /\ Accepts(m, i)
     /\ \A j \in ihole[Founder] .. i - 1 :
          log[j].kind # "part" /\ j \notin done[Founder] /\ m \in log[j].asked => m \in votes[j]}

Undecided == {i \in ihole[Founder] .. Len(log) : i \notin done[Founder]}

(* proposer_ack_accept(), of a vote that is not enough; nothing counts the *)
(* votes again when the majority shrinks.                                  *)
AckAccept(i) ==
  /\ Quiet /\ i \in Undecided
  /\ Cardinality(votes[i]) + 2 < Majority
  /\ \E m \in Voters(i) : votes' = [votes EXCEPT ![i] = @ \cup {m}]
  /\ UNCHANGED <<log, proc, acceptors, instances, clist, queue, closed>>

(* The vote that makes a majority; a lone proposer needs none              *)
(* (proposer_decree()).                                                    *)
Commit(i) ==
  /\ Quiet /\ i \in Undecided
  /\ Majority > 1 => Voters(i) # {} /\ Cardinality(votes[i]) + 2 >= Majority
  /\ votes' = [votes EXCEPT ![i] = {}]
  /\ done' = [done EXCEPT ![Founder] = @ \cup {i}]
  /\ queue' = Broadcast(queue, Founder, CommitMsg(i))
  /\ UNCHANGED <<log, proc, acceptors, ibase, ihole, lack, sought, clist, closed>>

(* acceptor_ack_commit(): if the request has not come, a retrieve is sent. *)
AckCommit(m, i) ==
  /\ done' = [done EXCEPT ![m] = @ \cup {i}]
  /\ \/ UNCHANGED <<lack, sought>>
     \/ /\ log[i].kind # "part"
        /\ Cardinality(UNION {sought[q] : q \in Id}) < MaxLate
        /\ lack' = [lack EXCEPT ![m] = @ \cup {i}]
        /\ sought' = [sought EXCEPT ![m] = @ \cup {i}]
  /\ UNCHANGED <<log, proc, acceptors, ibase, ihole, clist>>

(* paxos_ack_resend() *)
AckResend(m) ==
  /\ Quiet /\ In(m)
  /\ \E i \in sought[m] :
       /\ sought' = [sought EXCEPT ![m] = @ \ {i}]
       /\ lack' = [lack EXCEPT ![m] = @ \ {i}]
  /\ UNCHANGED <<log, proc, acceptors, ibase, ihole, done, clist, queue, closed>>

-----------------------------------------------------------------------------
(* paxos_learn(), for the instance at the hole. *)

(* A hello that has come before the join is completed here. *)
LearnJoin(m, i) ==
  /\ alist' = [alist EXCEPT ![m] = @ \cup {i}]
  /\ IF i \in adefer[m]
     THEN /\ adefer' = [adefer EXCEPT ![m] = @ \ {i}]
          /\ peer' = [peer EXCEPT ![m][i] = i]
          /\ live_count' = [live_count EXCEPT ![m] = @ + 1]
     ELSE UNCHANGED <<adefer, peer, live_count>>

LearnPart(m, q) ==
  IF q \in alist[m]
  THEN /\ alist' = [alist EXCEPT ![m] = @ \ {q}]
       /\ peer' = [peer EXCEPT ![m][q] = 0]
       /\ live_count' = [live_count EXCEPT ![m] = @ - (IF peer[m][q] # 0 THEN 1 ELSE 0)]
       /\ IF peer[m][q] # 0 THEN Shut(Via(m, q), SideOf(Via(m, q), m)) ELSE UNCHANGED <<queue, closed>>
       /\ UNCHANGED adefer
  ELSE UNCHANGED <<acceptors, queue, closed>>

Learn(m) ==
  /\ Learnable(m) /\ \A q \in Id : ~Connecting(q)
  /\ LET i == ihole[m]
     IN /\ CASE log[i].kind = "chat" -> UNCHANGED <<acceptors, queue, closed>>
            [] log[i].kind = "join" -> LearnJoin(m, i) /\ UNCHANGED <<queue, closed>>
            [] log[i].kind = "part" -> LearnPart(m, log[i].who)
        /\ clist' = IF log[i].kind = "join" /\ m = Founder
                    THEN [clist EXCEPT ![m] = @ \cup {[op |-> "welcome", who |-> i]}] ELSE clist
  /\ ihole' = [ihole EXCEPT ![m] = @ + 1]
  /\ UNCHANGED <<log, proc, ibase, done, lack, sought>>

-----------------------------------------------------------------------------
(* Connections are made. *)

(* The process of q listens, so the connection is made unless it has died. *)
Opened(m, q) == [closed EXCEPT ![<<m, q>>] = {}]

(* do_continue_welcome() *)
ContinueWelcome(m, q) ==
  IF Running(q)
  THEN /\ closed' = Opened(m, q)
       /\ peer' = [peer EXCEPT ![m][q] = m]
       /\ live_count' = [live_count EXCEPT ![m] = @ + 1]
       /\ queue' = [queue EXCEPT ![<<m, q>>][2] = Append(@, WelcomeMsg(alist[m], ibase[m], done[m]))]
       /\ UNCHANGED log
  ELSE /\ log' = Decreed(Part(q))
       /\ UNCHANGED <<closed, peer, live_count, queue>>

(* do_continue_ack_welcome() and paxos_hello() *)
ContinueAckWelcome(m, q) ==
  /\ peer' = [peer EXCEPT ![m][q] = IF Running(q) THEN m ELSE 0]
  /\ IF Running(q)
     THEN /\ closed' = Opened(m, q)
          /\ live_count' = [live_count EXCEPT ![m] = @ + 1]
          /\ queue' = [queue EXCEPT ![<<m, q>>][2] = Append(@, Hello)]
     ELSE UNCHANGED <<closed, live_count, queue>>
  /\ UNCHANGED log

(* CONNECTINUATE() *)
Continue(m) ==
  /\ In(m) /\ (Immediate \/ Quiet)
  /\ \E k \in clist[m] :
       /\ clist' = [clist EXCEPT ![m] = @ \ {k}]
       /\ CASE k.who \notin alist[m] -> UNCHANGED <<log, peer, live_count, queue, closed>>
            [] k.who \in alist[m] /\ k.op = "welcome" -> ContinueWelcome(m, k.who)
            [] k.who \in alist[m] /\ k.op = "ack_welcome" -> ContinueAckWelcome(m, k.who)
  /\ UNCHANGED <<proc, alist, adefer, instances>>

-----------------------------------------------------------------------------
(* Messages are read. *)


(* The first instance from the base on that is not committed. *)
FirstHole(base, S) == Least({i \in base .. MaxInum + 1 : i \notin S})

(* acceptor_ack_welcome(): what the proposer has committed is taken as     *)
(* learned up to the first hole; past it, it is not cached.                *)
AckWelcome(m, msg) ==
  /\ proc' = [proc EXCEPT ![m] = "in"]
  /\ alist' = [alist EXCEPT ![m] = msg.alist]
  /\ peer' = [peer EXCEPT ![m][Founder] = Founder]
  /\ live_count' = [live_count EXCEPT ![m] = 2]
  /\ ibase' = [ibase EXCEPT ![m] = msg.ibase]
  /\ done' = [done EXCEPT ![m] = msg.done]
  /\ ihole' = [ihole EXCEPT ![m] = FirstHole(msg.ibase, msg.done)]
  /\ lack' = [lack EXCEPT ![m] = {i \in msg.done : i > FirstHole(msg.ibase, msg.done)}]
  /\ clist' = [clist EXCEPT ![m] = {[op |-> "ack_welcome", who |-> q] : q \in msg.alist \ {Founder, m}}]
  /\ UNCHANGED <<log, adefer, sought>>

(* paxos_ack_hello(), of q, over the connection that q has made; the       *)
(* queue without the hello is net.                                         *)
AckHello(m, q, net) ==
  \/ /\ q \notin alist[m]
     /\ adefer' = [adefer EXCEPT ![m] = @ \cup {q}]
     /\ queue' = net
     /\ UNCHANGED <<peer, live_count, closed>>
  \/ /\ q \in alist[m] /\ peer[m][q] = 0
     /\ peer' = [peer EXCEPT ![m][q] = q]
     /\ live_count' = [live_count EXCEPT ![m] = @ + 1]
     /\ queue' = net
     /\ UNCHANGED <<adefer, closed>>
  \/ /\ q \in alist[m] /\ peer[m][q] # 0 /\ q < m
     /\ closed' = [closed EXCEPT ![<<m, q>>] = @ \cup {1}]
     /\ queue' = [net EXCEPT ![<<m, q>>][1] = <<>>]
     /\ peer' = [peer EXCEPT ![m][q] = q]
     /\ UNCHANGED <<adefer, live_count>>
  \/ /\ q \in alist[m] /\ peer[m][q] # 0 /\ q > m
     /\ queue' = net
     /\ UNCHANGED <<adefer, peer, live_count, closed>>

(* paxos_dispatch(): without a session, all but a welcome is ignored. *)
Dispatch(m, c, msg, net) ==
  \/ /\ proc[m] = "waiting" /\ msg.op # "welcome"
     /\ queue' = net
     /\ UNCHANGED <<log, proc, acceptors, instances, clist, closed>>
  \/ /\ proc[m] = "waiting" /\ msg.op = "welcome"
     /\ AckWelcome(m, msg)
     /\ queue' = net
     /\ UNCHANGED closed
  \/ /\ In(m) /\ msg.op = "hello"
     /\ AckHello(m, c[1], net)
     /\ UNCHANGED <<log, proc, alist, instances, clist>>
  \/ /\ In(m) /\ msg.op = "commit"
     /\ AckCommit(m, msg.inum)
     /\ queue' = net
     /\ UNCHANGED closed

(* paxos_peer_read() *)
Read(m, c) ==
  LET s == SideOf(c, m)
  IN /\ s \notin closed[c] /\ queue[c][s] # <<>>
     /\ Running(m) /\ Quiet
     /\ Dispatch(m, c, Head(queue[c][s]), [queue EXCEPT ![c][s] = Tail(@)])

-----------------------------------------------------------------------------
(* Members die. *)

(* Mutant: the live count is left alone. *)
DroppedUncounted(m, q) == live_count

Dropped(m, q) == [live_count EXCEPT ![m] = @ - 1]

(* paxos_drop_connection(), at the end of the other side's messages: only  *)
(* the acceptors of alist are looked at.                                   *)
Drop(m, c) ==
  LET s == SideOf(c, m) q == c[Other(s)]
  IN /\ s \notin closed[c] /\ Other(s) \in closed[c] /\ queue[c][s] = <<>>
     /\ Running(m) /\ Quiet
     /\ closed' = [closed EXCEPT ![c] = @ \cup {s}]
     /\ IF q \in Connected(m) /\ Via(m, q) = c
        THEN /\ peer' = [peer EXCEPT ![m][q] = 0]
             /\ live_count' = Dropped(m, q)
             /\ log' = IF m = Founder THEN Decreed(Part(q)) ELSE log
        ELSE UNCHANGED <<peer, live_count, log>>
     /\ UNCHANGED <<proc, alist, adefer, instances, clist, queue>>

Crash(m) ==
  /\ Quiet /\ Running(m) /\ m # Founder
  /\ Changes < MaxChange
  /\ proc' = [proc EXCEPT ![m] = "dead"]
  /\ closed' = [c \in Conn |-> closed[c] \cup {s \in Side : c[s] = m}]
  /\ queue' = [c \in Conn |-> [s \in Side |-> IF c[s] = m THEN <<>> ELSE queue[c][s]]]
  /\ alist' = [alist EXCEPT ![m] = {}] /\ adefer' = [adefer EXCEPT ![m] = {}]
  /\ peer' = [peer EXCEPT ![m] = [q \in Id |-> 0]]
  /\ live_count' = [live_count EXCEPT ![m] = 0]
  /\ ibase' = [ibase EXCEPT ![m] = 1] /\ ihole' = [ihole EXCEPT ![m] = 1]
  /\ done' = [done EXCEPT ![m] = {}]
  /\ lack' = [lack EXCEPT ![m] = {}] /\ sought' = [sought EXCEPT ![m] = {}]
  /\ clist' = [clist EXCEPT ![m] = {}]
  /\ UNCHANGED log

-----------------------------------------------------------------------------
(* An event of one member other than an accept of the proposer's decrees.  *)
Event ==
  \/ Decree(Chat) \/ Decree(Join(Len(log) + 1))
  \/ \E m \in Id : Learn(m) \/ Continue(m) \/ AckResend(m) \/ Crash(m)
  \/ \E c \in Conn, s \in Side : Read(c[s], c) \/ Drop(c[s], c)

Next ==
  \/ Event /\ UNCHANGED votes
  \/ \E i \in Id : AckAccept(i) \/ Commit(i)

Spec == Init /\ [][Next]_vars

=============================================================================
