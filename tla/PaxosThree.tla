------------------------------ MODULE PaxosThree ------------------------------
(***************************************************************************)
(* Theorems about sessions of at most three members, the largest in which  *)
(* a proposer that has prepared does not prepare again, and in which no    *)
(* two members commit different values.                                    *)
(***************************************************************************)
EXTENDS PaxosOrder, FiniteSetTheorems

(***************************************************************************)
(* Besides the first member, there is at most one that has another below   *)
(* it, and that other is one as well.  It is the only one whose prepares   *)
(* are ever read.                                                          *)
(***************************************************************************)
OnePair ==
  \A x, y, u, v \in Member \ {First} : x < y /\ u < v => x = u /\ y = v

LEMMA FirstType == First \in Member /\ \A x \in Member : First <= x
BY MemberAssumption, MemberNat, LeastIn DEF First

LEMMA ThreeHaveOnePair ==
  ASSUME Cardinality(Member) <= 3
  PROVE  OnePair
<1> SUFFICES ASSUME NEW x \in Member \ {First}, NEW y \in Member \ {First},
                    NEW u \in Member \ {First}, NEW v \in Member \ {First}, x < y, u < v
             PROVE  x = u /\ y = v
  BY DEF OnePair
<1>1. ASSUME NEW z \in Member \ {First, x, y} PROVE FALSE
  <2>1. /\ IsFiniteSet({First}) /\ Cardinality({First}) = 1
    BY FS_Singleton
  <2>2. x # First /\ IsFiniteSet({First} \cup {x}) /\ Cardinality({First} \cup {x}) = 2
    BY <2>1, FS_AddElement
  <2>3. y \notin {First} \cup {x}
    BY MemberNat
  <2>4. IsFiniteSet({First} \cup {x} \cup {y}) /\ Cardinality({First} \cup {x} \cup {y}) = 3
    BY <2>2, <2>3, FS_AddElement
  <2>5. z \notin {First} \cup {x} \cup {y}
    BY <1>1
  <2>6. Cardinality({First} \cup {x} \cup {y} \cup {z}) = 4
    BY <2>4, <2>5, FS_AddElement
  <2>7. {First} \cup {x} \cup {y} \cup {z} \in SUBSET Member
    BY <1>1, FirstType
  <2>8. Cardinality({First} \cup {x} \cup {y} \cup {z}) <= Cardinality(Member)
    BY <2>7, MemberAssumption, FS_Subset
  <2>9. Cardinality(Member) \in Nat
    BY MemberAssumption, FS_CardinalityType
  <2> QED BY <2>6, <2>8, <2>9
<1>2. u \in {x, y} /\ v \in {x, y}
  BY <1>1
<1> QED BY <1>2, MemberNat

-----------------------------------------------------------------------------
(***************************************************************************)
(* The messages about a prepare: the prepare itself, and its answers.      *)
(***************************************************************************)
Polls(m) == m.op \in {"prepare", "promise", "redirect"}
Polling(s) == {n \in DOMAIN s : Polls(s[n])}
Rounds(s) == {s[n].bal : n \in Polling(s)}
Once(s) == \A n, k \in Polling(s) : s[n].bal = s[k].bal => n = k

(* Of two members, the one whose prepares the other answers. *)
Asker(x, y) == IF x < y THEN x ELSE y

(***************************************************************************)
(* On its way is a prepare, or an answer, once: an acceptor has one answer *)
(* to a prepare, and a ballot is prepared once.                            *)
(***************************************************************************)
RoundsInv ==
  \A x, y \in Member :
    /\ Once(link[x][y])
    /\ Rounds(link[x][y]) # {} => x # First /\ y # First /\ x # y
    /\ Rounds(link[x][y]) \cap Rounds(link[y][x]) = {}
    /\ \A b \in Rounds(link[x][y]) : b.gen <= gen_high[Asker(x, y)]

(***************************************************************************)
(* The reconnection that a redirect asks for waits alone, and while it     *)
(* does, the prepare it was redirected from is under way, and no answer to *)
(* it is left.                                                             *)
(***************************************************************************)
Redirects(s) == {n \in DOMAIN s : s[n].op = "redirect"}

PollInv(a) ==
  /\ a = First => ~Preparing(a)
  /\ Preparing(a) => prep[a].bal.id = a
  /\ status[a] = "live" =>
       \A n \in Redirects(clist[a]) :
         /\ Redirects(clist[a]) = {n}
         /\ Preparing(a) /\ ballot[a] # prep[a].bal
         /\ \A x, y \in Member : prep[a].bal \notin Rounds(link[x][y])

StayInv == RoundsInv /\ \A a \in Member : PollInv(a)

(* What the operators on the network do to the rounds. *)
Shrinks(net) ==
  /\ net \in Links
  /\ \A x, y \in Member : Once(net[x][y]) /\ Rounds(net[x][y]) \subseteq Rounds(link[x][y])

LEMMA TailRounds ==
  ASSUME NEW s \in Seq(Message), s # <<>>, Once(s)
  PROVE  /\ Once(Tail(s)) /\ Rounds(Tail(s)) \subseteq Rounds(s)
         /\ Polls(Head(s)) => Head(s).bal \in Rounds(s) /\ Head(s).bal \notin Rounds(Tail(s))
<1>1. /\ DOMAIN s = 1 .. Len(s) /\ Len(s) \in Nat /\ 1 \in DOMAIN s /\ Head(s) = s[1]
      /\ \A n \in DOMAIN Tail(s) : n \in Nat /\ n >= 1 /\ n + 1 \in DOMAIN s /\ Tail(s)[n] = s[n + 1]
  OBVIOUS
<1>2. Once(Tail(s))
  <2> SUFFICES ASSUME NEW n \in Polling(Tail(s)), NEW k \in Polling(Tail(s)), Tail(s)[n].bal = Tail(s)[k].bal
               PROVE  n = k
    BY DEF Once
  <2>1. n + 1 \in Polling(s) /\ k + 1 \in Polling(s) /\ s[n + 1].bal = s[k + 1].bal
    BY <1>1 DEF Polling
  <2>2. n + 1 = k + 1
    BY <2>1 DEF Once
  <2> QED BY <1>1, <2>2 DEF Polling
<1>3. Rounds(Tail(s)) \subseteq Rounds(s)
  BY <1>1 DEF Rounds, Polling
<1>4. ASSUME Polls(Head(s)) PROVE Head(s).bal \in Rounds(s) /\ Head(s).bal \notin Rounds(Tail(s))
  <2>1. 1 \in Polling(s) /\ Head(s).bal \in Rounds(s)
    BY <1>1, <1>4 DEF Rounds, Polling
  <2>2. ASSUME NEW n \in Polling(Tail(s)), Tail(s)[n].bal = Head(s).bal PROVE FALSE
    <3>1. n + 1 \in Polling(s) /\ s[n + 1].bal = s[1].bal
      BY <1>1, <2>2 DEF Polling
    <3>2. n + 1 = 1
      BY <2>1, <3>1 DEF Once
    <3> QED BY <1>1, <2>2, <3>2 DEF Polling
  <2> QED BY <2>1, <2>2 DEF Rounds
<1> QED BY <1>2, <1>3, <1>4

LEMMA AppendRounds ==
  ASSUME NEW s \in Seq(Message), NEW m, Once(s), Polls(m) => m.bal \notin Rounds(s)
  PROVE  /\ Once(Append(s, m))
         /\ \A b \in Rounds(Append(s, m)) : b \in Rounds(s) \/ (Polls(m) /\ b = m.bal)
<1> DEFINE t == Append(s, m)
<1>1. /\ DOMAIN s = 1 .. Len(s) /\ Len(s) \in Nat
      /\ \A n \in DOMAIN t : (n \in DOMAIN s /\ t[n] = s[n]) \/ (n = Len(s) + 1 /\ t[n] = m)
  OBVIOUS
<1> HIDE DEF t
<1>2. \A n \in Polling(t) : (n \in Polling(s) /\ t[n] = s[n] /\ s[n].bal \in Rounds(s))
                            \/ (n = Len(s) + 1 /\ t[n] = m /\ Polls(m))
  BY <1>1 DEF Polling, Rounds
<1>3. Once(t)
  <2> SUFFICES ASSUME NEW n \in Polling(t), NEW k \in Polling(t), t[n].bal = t[k].bal
               PROVE  n = k
    BY DEF Once
  <2>1. CASE n \in Polling(s) /\ k \in Polling(s) /\ t[n] = s[n] /\ t[k] = s[k]
    BY <2>1 DEF Once
  <2> QED BY <1>2, <2>1
<1>4. \A b \in Rounds(t) : b \in Rounds(s) \/ (Polls(m) /\ b = m.bal)
  BY <1>2 DEF Rounds
<1> QED BY <1>3, <1>4 DEF t

LEMMA LinkShrinks == ASSUME TypeInv, StayInv PROVE Shrinks(link)
BY TypeInvElim DEF StayInv, RoundsInv, Shrinks

LEMMA SendShrinks ==
  ASSUME TypeInv, NEW net, Shrinks(net), NEW a \in Member, NEW to, NEW m \in Message, ~Polls(m)
  PROVE  Shrinks(Send(net, a, to, m))
<1>1. Send(net, a, to, m) \in Links
  BY SendType DEF Shrinks
<1>2. ASSUME NEW x \in Member, NEW y \in Member
      PROVE  Send(net, a, to, m)[x][y] \in {net[x][y], Append(net[x][y], m)}
  BY DEF Send, Shrinks, Links
<1>3. \A x, y \in Member : net[x][y] \in Seq(Message)
  BY DEF Shrinks, Links
<1>4. ASSUME NEW x \in Member, NEW y \in Member
      PROVE  /\ Once(Send(net, a, to, m)[x][y])
             /\ Rounds(Send(net, a, to, m)[x][y]) \subseteq Rounds(link[x][y])
  <2>1. Once(net[x][y]) /\ Rounds(net[x][y]) \subseteq Rounds(link[x][y])
    BY DEF Shrinks
  <2>2. /\ Once(Append(net[x][y], m))
        /\ Rounds(Append(net[x][y], m)) \subseteq Rounds(net[x][y])
    BY <1>3, <2>1, AppendRounds
  <2> QED BY <1>2, <2>1, <2>2
<1> QED BY <1>1, <1>4 DEF Shrinks

LEMMA UnreadShrinks ==
  ASSUME NEW net, Shrinks(net), NEW a \in Member, NEW S
  PROVE  Shrinks(Unread(net, a, S))
<1>1. Unread(net, a, S) \in Links
  BY UnreadType DEF Shrinks
<1>2. \A x, y \in Member : Unread(net, a, S)[x][y] \in {net[x][y], <<>>}
  BY DEF Unread
<1>3. Once(<<>>) /\ Rounds(<<>>) = {}
  BY DEF Once, Rounds, Polling
<1> QED BY <1>1, <1>2, <1>3 DEF Shrinks

LEMMA RestShrinks ==
  ASSUME TypeInv, StayInv, NEW a \in Member, NEW x \in Member, NEW op, Incoming(a, x, op)
  PROVE  /\ Shrinks(Rest(a, x))
         /\ Polls(Msg(a, x)) => /\ Msg(a, x).bal \in Rounds(link[x][a])
                                /\ Msg(a, x).bal \notin Rounds(Rest(a, x)[x][a])
<1>1. link[x][a] \in Seq(Message) /\ link[x][a] # <<>> /\ Once(link[x][a])
  BY DEF TypeInv, TypeOK, Incoming, StayInv, RoundsInv
<1>2. Rest(a, x)[x][a] = Tail(link[x][a])
  BY DEF Rest, TypeInv, TypeOK
<1>3. \A u, v \in Member : ~(u = x /\ v = a) => Rest(a, x)[u][v] = link[u][v]
  BY DEF Rest, TypeInv, TypeOK
<1>4. Rest(a, x) \in Links
  BY ReadType DEF TypeInv
<1>5. /\ Once(Tail(link[x][a])) /\ Rounds(Tail(link[x][a])) \subseteq Rounds(link[x][a])
      /\ Polls(Msg(a, x)) => /\ Msg(a, x).bal \in Rounds(link[x][a])
                             /\ Msg(a, x).bal \notin Rounds(Tail(link[x][a]))
  BY <1>1, TailRounds DEF Msg
<1>6. \A u, v \in Member : Once(link[u][v])
  BY DEF StayInv, RoundsInv
<1>7. ASSUME NEW u \in Member, NEW v \in Member
      PROVE  Once(Rest(a, x)[u][v]) /\ Rounds(Rest(a, x)[u][v]) \subseteq Rounds(link[u][v])
  BY <1>2, <1>3, <1>5, <1>6
<1> QED BY <1>2, <1>4, <1>5, <1>7 DEF Shrinks

-----------------------------------------------------------------------------
(* Steps that ask and answer nothing. *)

LEMMA RoundsStay ==
  ASSUME TypeInv, StayInv, Shrinks(link'),
         \A x, y \in Member : Rounds(link[x][y]) # {} => gen_high'[Asker(x, y)] = gen_high[Asker(x, y)]
  PROVE  RoundsInv'
<1> SUFFICES ASSUME NEW x \in Member, NEW y \in Member
             PROVE  /\ Once(link'[x][y])
                    /\ Rounds(link'[x][y]) # {} => x # First /\ y # First /\ x # y
                    /\ Rounds(link'[x][y]) \cap Rounds(link'[y][x]) = {}
                    /\ \A b \in Rounds(link'[x][y]) : b.gen <= gen_high'[Asker(x, y)]
  BY DEF RoundsInv
<1>1. /\ Rounds(link[x][y]) # {} => x # First /\ y # First /\ x # y
      /\ Rounds(link[x][y]) \cap Rounds(link[y][x]) = {}
      /\ \A b \in Rounds(link[x][y]) : b.gen <= gen_high[Asker(x, y)]
  BY DEF StayInv, RoundsInv
<1>2. /\ Once(link'[x][y])
      /\ Rounds(link'[x][y]) \subseteq Rounds(link[x][y])
      /\ Rounds(link'[y][x]) \subseteq Rounds(link[y][x])
  BY DEF Shrinks
<1>3. Rounds(link[x][y]) # {} => gen_high'[Asker(x, y)] = gen_high[Asker(x, y)]
  OBVIOUS
<1> QED BY <1>1, <1>2, <1>3

(* No reconnection is asked for by a redirect. *)
SameRedirects(s, t) ==
  \A n \in Redirects(t) : Redirects(s) # {} /\ Redirects(t) = {n}

LEMMA PollStay ==
  ASSUME TypeInv, StayInv, Shrinks(link'), NEW a \in Member,
         prep'[a] = prep[a], ballot'[a] = ballot[a], status'[a] = "live" => status[a] = "live",
         SameRedirects(clist[a], clist'[a])
  PROVE  PollInv(a)'
<1>1. PollInv(a)
  BY DEF StayInv
<1>2. (a = First => ~Preparing(a)') /\ (Preparing(a)' => prep'[a].bal.id = a)
  BY <1>1 DEF PollInv, Preparing
<1>3. ASSUME status'[a] = "live", NEW n \in Redirects(clist'[a])
      PROVE  /\ Redirects(clist'[a]) = {n}
             /\ Preparing(a)' /\ ballot'[a] # prep'[a].bal
             /\ \A x, y \in Member : prep'[a].bal \notin Rounds(link'[x][y])
  <2>1. status[a] = "live" /\ Redirects(clist'[a]) = {n}
    BY <1>3 DEF SameRedirects
  <2>2. PICK k : k \in Redirects(clist[a])
    BY <1>3 DEF SameRedirects
  <2>3. /\ Preparing(a) /\ ballot[a] # prep[a].bal
        /\ \A x, y \in Member : prep[a].bal \notin Rounds(link[x][y])
    BY <1>1, <2>1, <2>2 DEF PollInv
  <2>4. \A x, y \in Member : prep[a].bal \notin Rounds(link'[x][y])
    BY <2>3 DEF Shrinks
  <2> QED BY <2>1, <2>3, <2>4 DEF Preparing
<1> QED BY <1>2, <1>3 DEF PollInv

LEMMA SameContinuations ==
  ASSUME StayInv, NEW a \in Member, status[a] = "live"
  PROVE  SameRedirects(clist[a], clist[a])
BY DEF StayInv, PollInv, SameRedirects

LEMMA PlainStay ==
  ASSUME TypeInv, StayInv, Shrinks(link'), UNCHANGED <<gen_high, prep, ballot, clist>>,
         \A b \in Member : status'[b] = "live" => status[b] = "live"
  PROVE  StayInv'
<1>1. RoundsInv'
  BY RoundsStay
<1>2. ASSUME NEW b \in Member PROVE PollInv(b)'
  <2>1. CASE status'[b] = "live"
    BY <2>1, PollStay, SameContinuations
  <2>2. CASE status'[b] # "live"
    <3>1. PollInv(b)
      BY DEF StayInv
    <3> QED BY <2>2, <3>1 DEF PollInv, Preparing
  <2> QED BY <2>1, <2>2
<1> QED BY <1>1, <1>2 DEF StayInv

LEMMA StopShrinks ==
  ASSUME TypeInv, StayInv, NEW a \in Member, NEW why \in {"ended"} \cup Failure, NEW net,
         Shrinks(net), Stop(a, why, net)
  PROVE  Shrinks(link') /\ \A b \in Member : status'[b] = "live" => status[b] = "live"
<1>1. link' = Unread(net, a, Member)
  BY DEF Stop
<1>2. "live" \notin {"ended"} \cup Failure
  BY DEF Failure
<1>3. \A b \in Member : status'[b] = IF b = a THEN why ELSE status[b]
  BY DEF Stop, TypeInv, TypeOK
<1> QED BY <1>1, <1>2, <1>3, UnreadShrinks

LEMMA DecreeShrinks ==
  ASSUME TypeInv, NEW a \in Member, NEW v \in Value, NEW pe, NEW net, Shrinks(net),
         ProposerDecree(a, v, pe, net)
  PROVE  Shrinks(link')
<1> PICK m : m = DecreeMsg(ballot[a], Last(ilist[a]) + 1, v)
  OBVIOUS
<1>1. Last(ilist[a]) + 1 \in Inum
  BY LastType, BoundAssumption DEF ProposerDecree, Inum
<1>2. m \in Message /\ ~Polls(m)
  <2>1. ballot[a] \in Ballot
    BY TypeInvElim
  <2> QED BY <1>1, <2>1 DEF DecreeMsg, Message, Polls
<1>3. link' = Send(net, a, pe, m)
  BY DEF ProposerDecree
<1> QED BY <1>2, <1>3, SendShrinks

LEMMA SubmitShrinks ==
  ASSUME TypeInv, NEW a \in Member, NEW v \in Value, NEW pe, NEW net, Shrinks(net), Submit(a, v, pe, net)
  PROVE  Shrinks(link')
BY DecreeShrinks DEF Submit

LEMMA CommitShrinks ==
  ASSUME TypeInv, StayInv, NEW a \in Member, Commit(a)
  PROVE  Shrinks(link') \/ \E why \in Failure : Stop(a, why, link)
<1> DEFINE i == call[a].inum
           v == ilist[a][i].val
<1>1. i \in Inum /\ v \in Value
  BY DEF TypeInv, TypeOK, Call, Entry
<1>2. a \in Nat /\ ballot[a] \in Ballot /\ ihole[a] \in Base + 1 .. MaxInum + 1
  BY MemberNat, TypeInvElim
<1>3. CASE CommitUncached(a, i)
  <2> PICK m : m = [op |-> "retrieve", who |-> a, inum |-> i, val |-> v]
    OBVIOUS
  <2>1. m \in Message /\ ~Polls(m)
    BY <1>1, <1>2 DEF Message, Polls
  <2>2. \E to : link' = Send(link, a, to, m)
    BY <1>3 DEF CommitUncached, Retrieve
  <2> QED BY <2>1, <2>2, SendShrinks, LinkShrinks
<1>4. CASE CommitPastHole(a, i) /\ i > ihole[a]
  <2> PICK m : m = [op |-> "retry", bal |-> ballot[a], inum |-> ihole[a]]
    OBVIOUS
  <2>1. m \in Message /\ ~Polls(m)
    <3>1. ihole[a] \in Inum
      BY <1>1, <1>2, <1>4, BoundAssumption DEF Inum
    <3> QED BY <1>2, <3>1 DEF Message, Polls
  <2>2. link' = link \/ link' = Send(link, a, {proposer[a]}, m)
    BY <1>4 DEF CommitPastHole
  <2> QED BY <2>1, <2>2, SendShrinks, LinkShrinks
<1>5. CASE CommitHole(a, i)
  BY <1>5, LinkShrinks DEF CommitHole
<1>6. "commit_learned" \in Failure /\ "commit_istart" \in Failure
  BY DEF Failure
<1> QED BY <1>3, <1>4, <1>5, <1>6 DEF Commit

LEMMA CommitStay ==
  ASSUME TypeInv, StayInv, NEW a \in Member, Commit(a)
  PROVE  StayInv'
<1>1. UNCHANGED <<gen_high, prep, ballot, clist>>
  BY DEF Commit, ballots
<1>2. status' = status \/ \E why \in Failure : Stop(a, why, link)
  BY DEF Commit, Failure
<1>3. CASE \E why \in Failure : Stop(a, why, link)
  BY <1>1, <1>3, LinkShrinks, StopShrinks, PlainStay
<1>4. CASE status' = status /\ Shrinks(link')
  BY <1>1, <1>4, PlainStay
<1> QED BY <1>2, <1>3, <1>4, CommitShrinks

(* The messages that are read and answered otherwise. *)
LEMMA PlainDispatchShrinks ==
  ASSUME TypeInv, StayInv, NEW a \in Member, NEW x \in Member,
         \/ ProposerAckRequest(a, x) \/ AcceptorAckRequest(a, x) \/ AckRetrieve(a, x)
         \/ AckResend(a, x) \/ AckCommit(a, x) \/ AckRecommit(a, x) \/ AckRefuse(a, x)
         \/ AckRetry(a, x) \/ AckDecree(a, x) \/ AckAccept(a, x) \/ AckReject(a, x)
  PROVE  \/ Shrinks(link') /\ status' = status
         \/ \E why \in Failure : Stop(a, why, link)
<1> PICK m : m = Msg(a, x)
  OBVIOUS
<1>1. m \in Message /\ Shrinks(Rest(a, x)) /\ a \in Nat /\ x \in Nat /\ proposer[a] \in Nat
  <2>1. \E op : Incoming(a, x, op)
    BY DEF ProposerAckRequest, AcceptorAckRequest, AckRetrieve, AckResend, AckCommit, AckRecommit,
           AckRefuse, AckRetry, AckDecree, AckAccept, AckReject
  <2>2. proposer[a] \in Member
    BY TypeInvElim
  <2> QED BY <2>1, <2>2, ReadType, RestShrinks, MemberNat DEF TypeInv
<1>2. \A to : \A k \in Message : ~Polls(k) => Shrinks(Send(Rest(a, x), a, to, k))
  BY <1>1, SendShrinks
<1>3. CASE ProposerAckRequest(a, x)
  <2>1. m.op = "request" /\ status' = status
    BY <1>3 DEF ProposerAckRequest, Incoming, Msg
  <2>2. m.val \in Value
    BY <1>1, <2>1, MessageFields
  <2>3. Kill(a, m.val.by) \in Value
    BY <1>1, <2>2 DEF Kill, Value, Kind
  <2>4. \E v \in Value : Submit(a, v, peer[a], Rest(a, x))
    BY <1>3, <2>2, <2>3 DEF ProposerAckRequest
  <2> QED BY <1>1, <2>1, <2>4, SubmitShrinks
<1>4. CASE AcceptorAckRequest(a, x)
  <2> PICK k : k = [op |-> "refuse", who |-> proposer[a]]
    OBVIOUS
  <2>1. k \in Message /\ ~Polls(k)
    BY <1>1 DEF Message, Polls
  <2>2. status' = status /\ (link' = Rest(a, x) \/ link' = Send(Rest(a, x), a, {x}, k))
    BY <1>4 DEF AcceptorAckRequest
  <2> QED BY <1>1, <1>2, <2>1, <2>2
<1>5. CASE AckRetrieve(a, x)
  <2> PICK k : k = [op |-> "resend", inum |-> m.inum, val |-> m.val]
    OBVIOUS
  <2>1. m.op = "retrieve"
    BY <1>5 DEF AckRetrieve, Incoming, Msg
  <2>2. k \in Message /\ ~Polls(k)
    BY <1>1, <2>1, MessageFields DEF Message, Polls
  <2>3. status' = status /\ (link' = Rest(a, x) \/ \E to : link' = Send(Rest(a, x), a, to, k))
    BY <1>5 DEF AckRetrieve
  <2> QED BY <1>1, <1>2, <2>2, <2>3
<1>6. CASE AckResend(a, x) \/ AckCommit(a, x) \/ AckRecommit(a, x)
  BY <1>1, <1>6 DEF AckResend, AckCommit, AckRecommit, CommitMessage
<1>7. CASE AckRefuse(a, x)
  BY <1>1, <1>7 DEF AckRefuse, Failure
<1>8. CASE AckRetry(a, x)
  <2> PICK e : e = ilist[a][m.inum]
    OBVIOUS
  <2> PICK k : k = [op |-> "recommit", bal |-> m.bal, inum |-> m.inum, val |-> e.val]
    OBVIOUS
  <2>1. m.op = "retry"
    BY <1>8 DEF AckRetry, Incoming, Msg
  <2>2. m.inum \in Inum /\ m.bal \in Ballot
    BY <1>1, <2>1, MessageFields
  <2>3. e.val \in Value
    BY <2>2 DEF TypeInv, TypeOK, Entry
  <2>4. k \in Message /\ ~Polls(k)
    BY <2>2, <2>3 DEF Message, Polls
  <2>5. \/ status' = status /\ (link' = Rest(a, x) \/ \E to : link' = Send(Rest(a, x), a, to, k))
        \/ Stop(a, "instance", link)
    BY <1>8 DEF AckRetry
  <2> QED BY <1>1, <1>2, <2>4, <2>5 DEF Failure
<1>9. CASE AckDecree(a, x)
  <2> PICK no : no = [op |-> "reject", bal |-> m.bal, inum |-> m.inum]
    OBVIOUS
  <2> PICK yes : yes = [op |-> "accept", bal |-> m.bal, inum |-> m.inum]
    OBVIOUS
  <2>1. m.op = "decree"
    BY <1>9 DEF AckDecree, Incoming, Msg
  <2>2. /\ no \in Message /\ ~Polls(no)
        /\ yes \in Message /\ ~Polls(yes)
    BY <1>1, <2>1, MessageFields DEF Message, Polls
  <2>3. \/ /\ status' = status
           /\ \/ link' = Rest(a, x) \/ link' = Send(Rest(a, x), a, {x}, no)
              \/ link' = Send(Rest(a, x), a, {x}, yes)
        \/ \E why \in Failure : Stop(a, why, link)
    <3> "decree_proposer" \in Failure /\ "target" \in Failure /\ "decree_value" \in Failure
      BY DEF Failure
    <3> QED BY <1>9 DEF AckDecree, AcceptDecree
  <2> QED BY <1>1, <1>2, <2>2, <2>3
<1>10. CASE AckAccept(a, x)
  <2> PICK e : e = ilist[a][m.inum]
    OBVIOUS
  <2> PICK k : k = [op |-> "commit", bal |-> e.bal, inum |-> m.inum, val |-> e.val]
    OBVIOUS
  <2>1. m.op = "accept"
    BY <1>10 DEF AckAccept, Incoming, Msg
  <2>2. m.inum \in Inum
    BY <1>1, <2>1, MessageFields
  <2>3. e.val \in Value /\ e.bal \in BallotOrNone
    BY <2>2 DEF TypeInv, TypeOK, Entry
  <2>4. e.bal # NoBallot => k \in Message /\ ~Polls(k)
    BY <2>2, <2>3 DEF Message, Polls, BallotOrNone
  <2>5. \/ /\ status' = status
           /\ link' = Rest(a, x) \/ (e.bal # NoBallot /\ \E to : link' = Send(Rest(a, x), a, to, k))
        \/ \E why \in Failure : Stop(a, why, link)
    <3> "accept_ballot" \in Failure /\ "instance" \in Failure
      BY DEF Failure
    <3> QED BY <1>10 DEF AckAccept
  <2> QED BY <1>1, <1>2, <2>4, <2>5
<1>11. CASE AckReject(a, x)
  <2> PICK e : e = ilist[a][m.inum]
    OBVIOUS
  <2> PICK k : k = InstanceMsg(e, m.inum)
    OBVIOUS
  <2>1. m.op = "reject"
    BY <1>11 DEF AckReject, Incoming, Msg
  <2>2. m.inum \in Inum
    BY <1>1, <2>1, MessageFields
  <2>3. e \in Entry
    BY <2>2 DEF TypeInv, TypeOK
  <2>4. e.bal # NoBallot => k \in Message /\ ~Polls(k)
    <3>1. k.op = e.opcode /\ e.opcode \in {"decree", "commit"}
      BY <2>3 DEF InstanceMsg, Entry
    <3> QED BY <2>2, <2>3, <3>1, InstanceMsgType DEF Polls
  <2>5. \/ /\ status' = status
           /\ link' = Rest(a, x) \/ (e.bal # NoBallot /\ \E to : link' = Send(Rest(a, x), a, to, k))
        \/ \E why \in Failure : Stop(a, why, link)
    <3> /\ "reject_ballot" \in Failure /\ "instance" \in Failure /\ "reject_kind" \in Failure
        /\ "target" \in Failure
      BY DEF Failure
    <3> QED BY <1>11 DEF AckReject
  <2> QED BY <1>1, <1>2, <2>4, <2>5
<1> QED BY <1>3, <1>4, <1>5, <1>6, <1>7, <1>8, <1>9, <1>10, <1>11

LEMMA RedirectsAppended ==
  ASSUME NEW s \in Seq(Continuation), NEW c, c.op # "redirect"
  PROVE  Redirects(Append(s, c)) = Redirects(s)
BY DEF Redirects

LEMMA RedirectsRemoved ==
  ASSUME NEW s \in Seq(Continuation), NEW n \in DOMAIN s, NEW k, Redirects(s) = {k}
  PROVE  /\ k = n => Redirects(Removed(s, n)) = {}
         /\ SameRedirects(s, Removed(s, n))
<1> DEFINE t == Removed(s, n)
<1>1. DOMAIN s = 1 .. Len(s) /\ Len(s) \in Nat /\ n \in 1 .. Len(s)
  OBVIOUS
<1>2. DOMAIN t = 1 .. Len(s) - 1 /\ \A j \in DOMAIN t : t[j] = IF j < n THEN s[j] ELSE s[j + 1]
  BY <1>1 DEF Removed
<1> HIDE DEF t
<1>3. k \in DOMAIN s /\ \A j \in DOMAIN s : s[j].op = "redirect" => j = k
  BY DEF Redirects
<1>4. ASSUME NEW j \in Redirects(t) PROVE k = IF j < n THEN j ELSE j + 1
  <2>1. j \in DOMAIN t /\ t[j].op = "redirect"
    BY <1>4 DEF Redirects
  <2>2. CASE j < n
    BY <1>1, <1>2, <1>3, <2>1, <2>2
  <2>3. CASE ~(j < n)
    <3>1. j + 1 \in DOMAIN s /\ s[j + 1].op = "redirect"
      BY <1>1, <1>2, <2>1, <2>3
    <3> QED BY <1>3, <2>3, <3>1
  <2> QED BY <2>2, <2>3
<1>5. \A j \in Redirects(t) : j \in Nat
  BY <1>1, <1>2 DEF Redirects
<1>6. k = n => Redirects(t) = {}
  BY <1>1, <1>4, <1>5
<1>7. \A j, i \in Redirects(t) : i = j
  BY <1>1, <1>3, <1>4, <1>5
<1> QED BY <1>6, <1>7 DEF SameRedirects, t

LEMMA OtherStay ==
  ASSUME TypeInv, StayInv, Shrinks(link'), NEW b \in Member,
         prep'[b] = prep[b], ballot'[b] = ballot[b], status'[b] = status[b], clist'[b] = clist[b]
  PROVE  PollInv(b)'
<1>1. PollInv(b)
  BY DEF StayInv
<1>2. CASE status[b] = "live"
  BY <1>2, PollStay, SameContinuations
<1>3. CASE status[b] # "live"
  BY <1>1, <1>3 DEF PollInv, Preparing
<1> QED BY <1>2, <1>3

(* A reconnection that a reject asks for, or that is over. *)
LEMMA WaitedStay ==
  ASSUME TypeInv, StayInv, Shrinks(link'), NEW a \in Member, status[a] = "live",
         UNCHANGED <<status, gen_high, prep, ballot>>,
         \A b \in Member \ {a} : clist'[b] = clist[b], SameRedirects(clist[a], clist'[a])
  PROVE  StayInv'
<1>1. RoundsInv'
  BY RoundsStay
<1>2. PollInv(a)'
  BY PollStay
<1>3. \A b \in Member \ {a} : PollInv(b)'
  BY OtherStay
<1> QED BY <1>1, <1>2, <1>3 DEF StayInv

LEMMA AckRejectStay ==
  ASSUME TypeInv, StayInv, NEW a \in Member, NEW x \in Member, AckReject(a, x)
  PROVE  StayInv'
<1>1. status[a] = "live" /\ UNCHANGED <<gen_high, prep, ballot>>
  BY DEF AckReject, Incoming, ballots
<1>2. CASE \E why \in Failure : Stop(a, why, link)
  <2>1. "live" \notin Failure
    BY DEF Failure
  <2>2. status' # status
    BY <1>1, <1>2, <2>1 DEF Stop, TypeInv, TypeOK
  <2>3. clist' = clist
    BY <2>2 DEF AckReject
  <2> QED BY <1>1, <1>2, <2>3, LinkShrinks, StopShrinks, PlainStay
<1>3. CASE Shrinks(link') /\ status' = status
  <2>1. clist[a] \in Seq(Continuation)
    BY DEF TypeInv, TypeOK
  <2> PICK c : c = [op |-> "reject", who |-> ilist[a][Msg(a, x).inum].val.arg, inum |-> Msg(a, x).inum]
    OBVIOUS
  <2>2. clist' = clist \/ clist' = [clist EXCEPT ![a] = Append(@, c)]
    BY DEF AckReject
  <2>3. \A b \in Member \ {a} : clist'[b] = clist[b]
    BY <2>2 DEF TypeInv, TypeOK
  <2>4. clist'[a] = clist[a] \/ clist'[a] = Append(clist[a], c)
    BY <2>2 DEF TypeInv, TypeOK
  <2>5. Redirects(Append(clist[a], c)) = Redirects(clist[a])
    BY <2>1, RedirectsAppended
  <2>6. SameRedirects(clist[a], clist'[a])
    BY <1>1, <2>4, <2>5, SameContinuations DEF SameRedirects
  <2> QED BY <1>1, <1>3, <2>3, <2>6, WaitedStay
<1> QED BY <1>2, <1>3, PlainDispatchShrinks

LEMMA ContinueAckRejectStay ==
  ASSUME TypeInv, StayInv, NEW a \in Member, ContinueAckReject(a)
  PROVE  StayInv'
<1>1. status[a] = "live" /\ UNCHANGED <<status, gen_high, prep, ballot>>
  BY DEF ContinueAckReject, ballots
<1>2. PICK n \in DOMAIN clist[a] :
        LET k == clist[a][n]
            e == [ilist[a][k.inum] EXCEPT !.committed = FALSE, !.cached = FALSE,
                                          !.learned = FALSE, !.votes = 1, !.rejects = 0]
        IN /\ k.op = "reject"
           /\ clist' = [clist EXCEPT ![a] = Removed(@, n)]
           /\ IF k.who \in alist[a] /\ k.inum \in Present(ilist[a])
              THEN /\ ilist' = [ilist EXCEPT ![a][k.inum] = e]
                   /\ link' = Send(link, a, peer[a], InstanceMsg(e, k.inum))
              ELSE UNCHANGED <<ilist, link>>
  BY DEF ContinueAckReject
<1> PICK k : k = clist[a][n]
  OBVIOUS
<1> PICK e : e = [ilist[a][k.inum] EXCEPT !.committed = FALSE, !.cached = FALSE,
                                          !.learned = FALSE, !.votes = 1, !.rejects = 0]
  OBVIOUS
<1>3. clist[a] \in Seq(Continuation) /\ clist'[a] = Removed(clist[a], n)
      /\ \A b \in Member \ {a} : clist'[b] = clist[b]
  BY <1>2 DEF TypeInv, TypeOK
<1>4. k.inum \in Inum
  <2>1. k \in Continuation
    BY <1>3
  <2> QED BY <2>1 DEF Continuation
<1>5. SameRedirects(clist[a], clist'[a])
  <2>1. CASE Redirects(clist[a]) = {}
    <3> PICK s : s = clist[a]
      OBVIOUS
    <3>1. ASSUME NEW j \in DOMAIN Removed(s, n) PROVE \E i \in DOMAIN s : Removed(s, n)[j] = s[i]
      <4>1. /\ DOMAIN s = 1 .. Len(s) /\ Len(s) \in Nat
            /\ j \in 1 .. Len(s) - 1 /\ Removed(s, n)[j] = IF j < n THEN s[j] ELSE s[j + 1]
        BY <1>3, <3>1 DEF Removed
      <4>2. j \in DOMAIN s /\ j + 1 \in DOMAIN s
        BY <4>1
      <4>3. Removed(s, n)[j] = s[j] \/ Removed(s, n)[j] = s[j + 1]
        BY <4>1
      <4> QED BY <4>2, <4>3
    <3> QED BY <1>3, <2>1, <3>1 DEF SameRedirects, Redirects
  <2>2. CASE \E j : Redirects(clist[a]) = {j}
    BY <1>3, <2>2, RedirectsRemoved
  <2> QED BY <1>1, <2>1, <2>2 DEF StayInv, PollInv
<1>6. Shrinks(link')
  <2>1. CASE k.inum \in Present(ilist[a])
    <3>1. e \in Entry /\ e.bal # NoBallot
      <4>1. ilist[a][k.inum] \in Entry /\ ilist[a][k.inum].bal # NoBallot
        BY <1>4, <2>1 DEF Present, TypeInv, TypeOK
      <4> QED BY <4>1 DEF Entry
    <3>2. InstanceMsg(e, k.inum) \in Message
      BY <1>4, <3>1, InstanceMsgType
    <3>3. ~Polls(InstanceMsg(e, k.inum))
      BY <3>1 DEF InstanceMsg, Polls, Entry
    <3> QED BY <1>2, <3>2, <3>3, SendShrinks, LinkShrinks
  <2>2. CASE k.inum \notin Present(ilist[a])
    BY <1>2, <2>2, LinkShrinks
  <2> QED BY <2>1, <2>2
<1> QED BY <1>1, <1>3, <1>5, <1>6, WaitedStay

LEMMA PlainDispatchStay ==
  ASSUME TypeInv, StayInv, NEW a \in Member, NEW x \in Member,
         \/ ProposerAckRequest(a, x) \/ AcceptorAckRequest(a, x) \/ AckRetrieve(a, x)
         \/ AckResend(a, x) \/ AckCommit(a, x) \/ AckRecommit(a, x) \/ AckRefuse(a, x)
         \/ AckRetry(a, x) \/ AckDecree(a, x) \/ AckAccept(a, x)
  PROVE  StayInv'
<1>1. UNCHANGED <<gen_high, prep, ballot, clist>>
  BY DEF ProposerAckRequest, AcceptorAckRequest, AckRetrieve, AckResend, AckCommit, AckRecommit,
         CommitMessage, AckRefuse, AckRetry, AckDecree, AckAccept, ballots
<1>2. CASE Shrinks(link') /\ status' = status
  BY <1>1, <1>2, PlainStay
<1>3. CASE \E why \in Failure : Stop(a, why, link)
  BY <1>1, <1>3, LinkShrinks, StopShrinks, PlainStay
<1> QED BY <1>2, <1>3, PlainDispatchShrinks

LEMMA RequestStay ==
  ASSUME TypeInv, StayInv, NEW a \in Member, NEW v \in Chat, Request(a, v)
  PROVE  StayInv'
<1> PICK m : m = [op |-> "request", who |-> proposer[a], val |-> v]
  OBVIOUS
<1>1. v \in Value /\ m \in Message /\ ~Polls(m)
  <2>1. v \in Value
    BY ChatAssumption
  <2>2. proposer[a] \in Nat
    BY MemberNat, TypeInvElim
  <2> QED BY <2>1, <2>2 DEF Message, Polls
<1>2. Shrinks(Send(link, a, peer[a], m))
  BY <1>1, LinkShrinks, SendShrinks
<1>3. \/ Submit(a, v, peer[a], Send(link, a, peer[a], m))
      \/ link' = Send(link, a, peer[a], m)
  BY DEF Request
<1>4. Shrinks(link')
  BY <1>1, <1>2, <1>3, SubmitShrinks
<1> QED BY <1>4, PlainStay DEF Request, ballots

LEMMA PlainStepStay ==
  ASSUME TypeInv, StayInv, NEW a \in Member, LearnEnd(a) \/ Redecree(a) \/ Drain(a)
  PROVE  StayInv'
<1>1. UNCHANGED <<status, gen_high, prep, ballot, clist>>
  BY DEF LearnEnd, Redecree, Drain, ballots
<1>2. Shrinks(link)
  BY LinkShrinks
<1>3. CASE LearnEnd(a)
  BY <1>1, <1>2, <1>3, PlainStay DEF LearnEnd
<1>4. CASE Redecree(a)
  <2> PICK i : i = Least(Undecreed(a))
    OBVIOUS
  <2> PICK v : v = IF ilist[a][i].bal = NoBallot THEN Null(a) ELSE ilist[a][i].val
    OBVIOUS
  <2>1. i \in Inum
    <3>1. Undecreed(a) \in SUBSET Inum /\ Undecreed(a) # {}
      BY <1>4 DEF Redecree, Undecreed
    <3> QED BY <3>1, LeastInum
  <2>2. v \in Value
    <3>1. Null(a) \in Value
      BY MemberNat DEF Null, Value, Kind
    <3> QED BY <2>1, <3>1 DEF TypeInv, TypeOK, Entry
  <2>3. DecreeMsg(ballot[a], i, v) \in Message /\ ~Polls(DecreeMsg(ballot[a], i, v))
    <3>1. ballot[a] \in Ballot
      BY TypeInvElim
    <3> QED BY <2>1, <2>2, <3>1 DEF DecreeMsg, Message, Polls
  <2>4. link' = Send(link, a, peer[a], DecreeMsg(ballot[a], i, v))
    BY <1>4 DEF Redecree
  <2> QED BY <1>1, <1>2, <2>3, <2>4, SendShrinks, PlainStay
<1>5. CASE Drain(a)
  <2>1. \E v \in Value : ProposerDecree(a, v, peer[a], link)
    <3>1. CASE dparts[a] # {}
      <4> PICK y : y = Least(dparts[a])
        OBVIOUS
      <4>1. y \in Nat
        <5>1. dparts[a] \in SUBSET Nat
          BY MemberNat, TypeInvElim
        <5> QED BY <3>1, <5>1, LeastIn
      <4>2. Kill(a, y) \in Value /\ Part(a, y) \in Value
        BY <4>1, MemberNat DEF Kill, Part, Value, Kind
      <4> QED BY <1>5, <3>1, <4>2 DEF Drain
    <3>2. CASE dparts[a] = {}
      <4>1. idefer[a] \in Seq(Value) /\ idefer[a] # <<>>
        BY <1>5, <3>2 DEF Drain, Draining, TypeInv, TypeOK
      <4>2. Head(idefer[a]) \in Value
        BY <4>1
      <4> QED BY <1>5, <3>2, <4>2 DEF Drain
    <3> QED BY <3>1, <3>2
  <2> QED BY <1>1, <1>2, <2>1, DecreeShrinks, PlainStay
<1> QED BY <1>3, <1>4, <1>5

LEMMA LeaveStay ==
  ASSUME TypeInv, StayInv, NEW a \in Member, Leave(a)
  PROVE  StayInv'
<1>1. Stop(a, "ended", link) /\ UNCHANGED <<gen_high, prep, ballot, clist>>
  BY DEF Leave, ballots
<1> QED BY <1>1, LinkShrinks, StopShrinks, PlainStay

-----------------------------------------------------------------------------
(* Prepares and their answers. *)

(* Everyone below a proposer's peers; the first member proposes. *)
LEMMA ProposerRank ==
  ASSUME TypeInv, RoleInv, NEW a \in Member, status[a] = "live"
  PROVE  /\ proposer[a] = Elected(a, peer[a])
         /\ a = First => IsProposer(a)
         /\ IsProposer(a) => \A y \in peer[a] : a < y
<1>1. proposer[a] = Elected(a, peer[a]) /\ a \notin peer[a] /\ peer[a] \in SUBSET Member
  BY TypeInvElim DEF RoleInv, ProposerIsFirst
<1>2. Elected(a, peer[a]) \in {a} \cup peer[a] /\ \A y \in {a} \cup peer[a] : Elected(a, peer[a]) <= y
  BY <1>1, ElectedType
<1>3. a = First => IsProposer(a)
  <2>1. First <= Elected(a, peer[a]) /\ Elected(a, peer[a]) \in Nat /\ First \in Nat
    BY <1>1, <1>2, FirstType, MemberNat
  <2> QED BY <1>1, <1>2, <2>1 DEF IsProposer
<1>4. ASSUME IsProposer(a), NEW y \in peer[a] PROVE a < y
  <2>1. Elected(a, peer[a]) = a
    BY <1>1, <1>4 DEF IsProposer
  <2>2. y \in Nat /\ a \in Nat /\ y # a /\ a <= y
    BY <1>1, <1>2, <1>4, <2>1, MemberNat
  <2> QED BY <2>2
<1> QED BY <1>1, <1>3, <1>4

LEMMA AcceptorWaitsNone ==
  ASSUME TypeInv, RoleInv, NEW a \in Member, status[a] = "live", ~IsProposer(a)
  PROVE  clist[a] = <<>> /\ Redirects(clist[a]) = {} /\ ~Preparing(a) /\ a # First
<1>1. clist[a] = <<>> /\ ~Preparing(a)
  BY DEF RoleInv, Working
<1>2. a # First
  BY ProposerRank
<1>3. Redirects(<<>>) = {}
  BY DEF Redirects
<1> QED BY <1>1, <1>2, <1>3

(* A new prepare has a ballot of its own. *)
LEMMA PreparedStay ==
  ASSUME TypeInv, StayInv, NEW a \in Member, a # First, status[a] = "live",
         NEW al, NEW pe \in SUBSET Member, \A y \in pe : a < y, NEW net, Shrinks(net), NEW gone,
         NEW ended \in {"ended"} \cup Failure,
         Prepare(a, al, pe, net, gone, ended), ballot' = ballot,
         Redirects(clist'[a]) = {}, \A b \in Member \ {a} : clist'[b] = clist[b]
  PROVE  StayInv'
<1> DEFINE b == NextBallot(a)
           m == [op |-> "prepare", bal |-> b, inum |-> ihole[a]]
<1>1. CASE Stop(a, ended, net) /\ UNCHANGED <<gen_high, prep>>
  <2>1. Shrinks(link') /\ \A c \in Member : status'[c] = "live" => status[c] = "live"
    BY <1>1, StopShrinks
  <2>2. RoundsInv'
    BY <1>1, <2>1, RoundsStay
  <2>3. PollInv(a)'
    <3>1. PollInv(a)
      BY DEF StayInv
    <3> QED BY <1>1, <3>1 DEF PollInv, Preparing
  <2>4. \A c \in Member \ {a} : status'[c] = status[c]
    BY <1>1 DEF Stop
  <2>5. \A c \in Member \ {a} : PollInv(c)'
    BY <1>1, <2>1, <2>4, OtherStay
  <2> QED BY <2>2, <2>3, <2>5 DEF StayInv
<1>2. CASE /\ prep' = [prep EXCEPT ![a] = [bal |-> b, acks |-> 1, redirects |-> 0, istart |-> istart[a]]]
           /\ gen_high' = [gen_high EXCEPT ![a] = b.gen]
           /\ link' = Send(net, a, pe, m) /\ UNCHANGED status
  <2>1. /\ prep'[a].bal = b /\ b.id = a /\ b.gen = gen_high[a] + 1
        /\ \A c \in Member \ {a} : prep'[c] = prep[c] /\ gen_high'[c] = gen_high[c]
        /\ gen_high'[a] = b.gen /\ gen_high[a] \in Nat
    BY <1>2 DEF NextBallot, TypeInv, TypeOK
  <2>2. Polls(m) /\ m.bal = b
    BY DEF Polls
  <2> HIDE DEF b, m
  <2>3. net \in Links /\ \A u, v \in Member : net[u][v] \in Seq(Message)
    BY DEF Shrinks, Links
  <2>4. ASSUME NEW u \in Member, NEW v \in Member
        PROVE  link'[u][v] = IF u = a /\ v \in pe /\ a \in peer[v] THEN Append(net[u][v], m) ELSE net[u][v]
    BY <1>2, <2>3 DEF Send, Links
  <2>5. ASSUME NEW u \in Member, NEW v \in Member, Asker(u, v) = a PROVE b \notin Rounds(net[u][v])
    <3>1. \A c \in Rounds(net[u][v]) : c.gen <= gen_high[a]
      BY <2>5 DEF Shrinks, StayInv, RoundsInv
    <3> QED BY <2>1, <3>1
  <2>6. ASSUME NEW v \in pe PROVE v \in Member /\ v # First /\ v # a /\ Asker(a, v) = a /\ Asker(v, a) = a
    <3>1. v \in Nat /\ a \in Nat /\ First \in Nat /\ a < v /\ First <= a
      BY FirstType, MemberNat
    <3> QED BY <3>1 DEF Asker
  <2>7. ASSUME NEW u \in Member, NEW v \in Member
        PROVE  /\ Once(link'[u][v])
               /\ \A c \in Rounds(link'[u][v]) : c \in Rounds(net[u][v]) \/ (u = a /\ v \in pe /\ c = b)
    <3>1. Once(net[u][v])
      BY DEF Shrinks
    <3>2. CASE u = a /\ v \in pe /\ a \in peer[v]
      <4>1. b \notin Rounds(net[u][v])
        BY <2>5, <2>6, <3>2
      <4>2. link'[u][v] = Append(net[u][v], m)
        BY <2>4, <3>2
      <4> QED BY <2>2, <2>3, <3>1, <3>2, <4>1, <4>2, AppendRounds
    <3>3. CASE ~(u = a /\ v \in pe /\ a \in peer[v])
      <4>1. link'[u][v] = net[u][v]
        BY <2>4, <3>3
      <4> QED BY <3>1, <4>1
    <3> QED BY <3>2, <3>3
  <2>8. RoundsInv'
    <3> SUFFICES ASSUME NEW u \in Member, NEW v \in Member
                 PROVE  /\ Once(link'[u][v])
                        /\ Rounds(link'[u][v]) # {} => u # First /\ v # First /\ u # v
                        /\ Rounds(link'[u][v]) \cap Rounds(link'[v][u]) = {}
                        /\ \A c \in Rounds(link'[u][v]) : c.gen <= gen_high'[Asker(u, v)]
      BY DEF RoundsInv
    <3>1. /\ Rounds(net[u][v]) # {} => u # First /\ v # First /\ u # v
          /\ Rounds(net[u][v]) \cap Rounds(net[v][u]) = {}
          /\ \A c \in Rounds(net[u][v]) : c.gen <= gen_high[Asker(u, v)] /\ c.gen \in Nat
      <4>1. /\ Rounds(net[u][v]) \subseteq Rounds(link[u][v])
            /\ Rounds(net[v][u]) \subseteq Rounds(link[v][u])
        BY DEF Shrinks
      <4>2. ASSUME NEW n \in DOMAIN net[u][v], Polls(net[u][v][n]) PROVE net[u][v][n].bal.gen \in Nat
        <5>1. net[u][v][n] \in Message
          BY <2>3
        <5>2. net[u][v][n].bal \in Ballot
          BY <4>2, <5>1, MessageFields DEF Polls
        <5> QED BY <5>2 DEF Ballot
      <4> QED BY <4>1, <4>2 DEF StayInv, RoundsInv, Rounds, Polling
    <3>2. Rounds(link'[u][v]) \cap Rounds(link'[v][u]) = {}
      <4> SUFFICES ASSUME NEW c \in Rounds(link'[u][v]), c \in Rounds(link'[v][u]) PROVE FALSE
        OBVIOUS
      <4>1. c \in Rounds(net[u][v]) \/ (u = a /\ v \in pe /\ c = b)
        BY <2>7
      <4>2. c \in Rounds(net[v][u]) \/ (v = a /\ u \in pe /\ c = b)
        BY <2>7
      <4>3. u = a /\ v \in pe => b \notin Rounds(net[v][u])
        BY <2>5, <2>6
      <4>4. v = a /\ u \in pe => b \notin Rounds(net[u][v])
        BY <2>5, <2>6
      <4> QED BY <2>6, <3>1, <4>1, <4>2, <4>3, <4>4
    <3>3. ASSUME NEW c \in Rounds(link'[u][v]) PROVE c.gen <= gen_high'[Asker(u, v)]
      <4>1. CASE c \in Rounds(net[u][v])
        <5>1. c.gen <= gen_high[Asker(u, v)] /\ c.gen \in Nat /\ Asker(u, v) \in Member
          BY <3>1, <4>1 DEF Asker
        <5> QED BY <2>1, <5>1
      <4>2. CASE u = a /\ v \in pe /\ c = b
        <5>1. Asker(u, v) = a /\ gen_high'[a] \in Nat
          BY <2>1, <2>6, <4>2
        <5> QED BY <2>1, <4>2, <5>1
      <4> QED BY <2>7, <4>1, <4>2
    <3> QED BY <2>6, <2>7, <3>1, <3>2, <3>3
  <2>9. PollInv(a)'
    BY <2>1 DEF PollInv
  <2>10. ASSUME NEW c \in Member \ {a} PROVE PollInv(c)'
    <3>1. PollInv(c) /\ status'[c] = status[c] /\ prep'[c] = prep[c] /\ clist'[c] = clist[c]
          /\ ballot'[c] = ballot[c]
      BY <1>2, <2>1 DEF StayInv
    <3>2. ASSUME Preparing(c), \A u, v \in Member : prep[c].bal \notin Rounds(link[u][v])
          PROVE  \A u, v \in Member : prep[c].bal \notin Rounds(link'[u][v])
      <4>1. prep[c].bal # b
        BY <2>1, <2>10, <3>1, <3>2 DEF PollInv
      <4>2. \A u, v \in Member : prep[c].bal \notin Rounds(net[u][v])
        BY <3>2 DEF Shrinks
      <4> QED BY <2>7, <4>1, <4>2
    <3> QED BY <3>1, <3>2 DEF PollInv, Preparing
  <2> QED BY <2>8, <2>9, <2>10 DEF StayInv
<1> QED BY <1>1, <1>2 DEF Prepare

LEMMA AckPrepareStay ==
  ASSUME TypeInv, RoleInv, StayInv, OnePair, NEW a \in Member, NEW x \in Member, AckPrepare(a, x)
  PROVE  StayInv'
<1> DEFINE m == Msg(a, x)
           no == [op |-> "redirect", bal |-> m.bal, who |-> proposer[a]]
           yes == [op |-> "promise", bal |-> m.bal, inum |-> m.inum,
                   log |-> Accepts(ilist[a], m.inum)]
<1>1. /\ status[a] = "live" /\ ~IsProposer(a) /\ Incoming(a, x, "prepare") /\ m.op = "prepare"
      /\ UNCHANGED <<status, prep, clist>>
  BY Received DEF AckPrepare, sess
<1>2. /\ \A c \in Member \ {a} : ballot'[c] = ballot[c] /\ gen_high'[c] = gen_high[c]
      /\ \E k \in {no, yes} : link' = Send(Rest(a, x), a, {x}, k)
  BY DEF AckPrepare, TypeInv, TypeOK
<1>3. /\ Polls(no) /\ Polls(yes) /\ no.bal = m.bal /\ yes.bal = m.bal /\ Polls(m)
  BY <1>1 DEF Polls
<1>4. x < a /\ m.bal \in Rounds(link[x][a])
      /\ Shrinks(Rest(a, x)) /\ m.bal \notin Rounds(Rest(a, x)[x][a])
  <2>1. Directed(x, a, m)
    BY <1>1, Received
  <2> QED BY <1>1, <1>3, <2>1, RestShrinks DEF Directed, Proposals
<1> HIDE DEF m, no, yes
<1> PICK b : b = m.bal
  OBVIOUS
<1> PICK net : net = Rest(a, x)
  OBVIOUS
<1>5. x # First /\ a # First /\ x # a
  BY <1>4 DEF StayInv, RoundsInv
<1>6. PICK k : Polls(k) /\ k.bal = b /\ link' = Send(net, a, {x}, k)
  BY <1>2, <1>3
<1>7. net \in Links /\ \A u, v \in Member : net[u][v] \in Seq(Message)
  BY <1>4 DEF Shrinks, Links
<1>8. /\ \A u, v \in Member : ~(u = a /\ v = x) => link'[u][v] = net[u][v]
      /\ link'[a][x] \in {net[a][x], Append(net[a][x], k)}
  BY <1>6, <1>7 DEF Send, Links
<1>9. b \notin Rounds(link[a][x]) /\ b \notin Rounds(net[a][x]) /\ b \notin Rounds(net[x][a])
  BY <1>4 DEF StayInv, RoundsInv, Shrinks
<1>10. /\ Once(link'[a][x])
       /\ \A c \in Rounds(link'[a][x]) : c \in Rounds(net[a][x]) \/ c = b
  <2>1. Once(net[a][x])
    BY <1>4 DEF Shrinks
  <2>2. /\ Once(Append(net[a][x], k))
        /\ \A c \in Rounds(Append(net[a][x], k)) : c \in Rounds(net[a][x]) \/ c = b
    <3>1. net[a][x] \in Seq(Message) /\ k.bal \notin Rounds(net[a][x])
      BY <1>6, <1>7, <1>9
    <3> QED BY <1>6, <2>1, <3>1, AppendRounds
  <2> QED BY <1>8, <2>1, <2>2
<1>11. Asker(x, a) = x /\ Asker(a, x) = x
  BY <1>4, MemberNat DEF Asker
<1>12. ASSUME NEW u \in Member, NEW v \in Member, Rounds(link[u][v]) # {} PROVE Asker(u, v) # a
  <2>1. u # First /\ v # First /\ u # v
    BY <1>12 DEF StayInv, RoundsInv
  <2>2. u \in Nat /\ v \in Nat
    BY MemberNat
  <2> QED BY <1>4, <1>5, <2>1, <2>2 DEF OnePair, Asker
<1>13. RoundsInv'
  <2> SUFFICES ASSUME NEW u \in Member, NEW v \in Member
               PROVE  /\ Once(link'[u][v])
                      /\ Rounds(link'[u][v]) # {} => u # First /\ v # First /\ u # v
                      /\ Rounds(link'[u][v]) \cap Rounds(link'[v][u]) = {}
                      /\ \A c \in Rounds(link'[u][v]) : c.gen <= gen_high'[Asker(u, v)]
    BY DEF RoundsInv
  <2>1. /\ Once(net[u][v])
        /\ Rounds(net[u][v]) # {} => u # First /\ v # First /\ u # v
        /\ Rounds(net[u][v]) \cap Rounds(net[v][u]) = {}
        /\ \A c \in Rounds(net[u][v]) : c.gen <= gen_high'[Asker(u, v)]
    <3>1. /\ Rounds(net[u][v]) \subseteq Rounds(link[u][v]) /\ Once(net[u][v])
          /\ Rounds(net[v][u]) \subseteq Rounds(link[v][u])
      BY <1>4 DEF Shrinks
    <3>2. Rounds(link[u][v]) # {} => gen_high'[Asker(u, v)] = gen_high[Asker(u, v)]
      <4>1. Asker(u, v) \in Member
        BY DEF Asker
      <4> QED BY <1>2, <1>12, <4>1
    <3> QED BY <3>1, <3>2 DEF StayInv, RoundsInv
  <2>2. CASE u = a /\ v = x
    <3>1. b.gen <= gen_high'[Asker(a, x)]
      <4>1. b.gen <= gen_high[Asker(x, a)]
        BY <1>4 DEF StayInv, RoundsInv
      <4> QED BY <1>2, <1>5, <1>11, <4>1
    <3>2. link'[x][a] = net[x][a]
      BY <1>5, <1>8
    <3> QED BY <1>5, <1>9, <1>10, <2>1, <2>2, <3>1, <3>2
  <2>3. CASE u = x /\ v = a
    <3>1. link'[x][a] = net[x][a]
      BY <1>5, <1>8
    <3>2. Rounds(net[a][x]) \cap Rounds(net[x][a]) = {}
      BY <2>1, <2>3
    <3> QED BY <1>9, <1>10, <2>1, <2>3, <3>1, <3>2
  <2>4. CASE ~(u = a /\ v = x) /\ ~(u = x /\ v = a)
    <3>1. link'[u][v] = net[u][v] /\ link'[v][u] = net[v][u]
      BY <1>8, <2>4
    <3> QED BY <2>1, <3>1
  <2> QED BY <2>2, <2>3, <2>4
<1>14. PollInv(a)'
  <2>1. Redirects(clist[a]) = {} /\ PollInv(a)
    BY <1>1, AcceptorWaitsNone DEF StayInv
  <2> QED BY <1>1, <2>1 DEF PollInv, Preparing
<1>15. ASSUME NEW c \in Member \ {a} PROVE PollInv(c)'
  <2>1. PollInv(c) /\ ballot'[c] = ballot[c]
    BY <1>2 DEF StayInv
  <2>2. ASSUME \A u, v \in Member : prep[c].bal \notin Rounds(link[u][v]), NEW u \in Member, NEW v \in Member
        PROVE  prep[c].bal \notin Rounds(link'[u][v])
    <3>1. prep[c].bal # b /\ prep[c].bal \notin Rounds(net[u][v])
      BY <1>4, <2>2 DEF Shrinks
    <3> QED BY <1>8, <1>10, <3>1
  <2> QED BY <1>1, <2>1, <2>2 DEF PollInv, Preparing
<1> QED BY <1>13, <1>14, <1>15 DEF StayInv

(* An answer that is read leaves none behind it. *)
LEMMA AnswerRead ==
  ASSUME TypeInv, StayInv, NEW a \in Member, NEW x \in Member, NEW op \in {"promise", "redirect"},
         Incoming(a, x, op), Msg(a, x).bal = prep[a].bal
  PROVE  Redirects(clist[a]) = {} /\ a # First
<1>1. Msg(a, x).op = op /\ status[a] = "live"
  BY DEF Incoming, Msg
<1>2. Msg(a, x).bal \in Rounds(link[x][a])
  BY <1>1, RestShrinks DEF Polls
<1> QED BY <1>1, <1>2 DEF StayInv, RoundsInv, PollInv

LEMMA AckPromiseStay ==
  ASSUME TypeInv, StayInv, NEW a \in Member, NEW x \in Member, AckPromise(a, x)
  PROVE  StayInv'
<1> PICK m : m = Msg(a, x)
  OBVIOUS
<1>1. Incoming(a, x, "promise") /\ Shrinks(Rest(a, x)) /\ UNCHANGED <<gen_high, clist>>
  BY RestShrinks DEF AckPromise
<1>2. CASE link' = Rest(a, x) /\ UNCHANGED <<status, ballot, prep>>
  BY <1>1, <1>2, PlainStay
<1>3. CASE (\E why \in Failure : Stop(a, why, link)) /\ UNCHANGED <<ballot, prep>>
  BY <1>1, <1>3, LinkShrinks, StopShrinks, PlainStay
<1>4. CASE /\ m.bal = prep[a].bal /\ link' = Rest(a, x) /\ UNCHANGED status
           /\ \A b \in Member \ {a} : prep'[b] = prep[b] /\ ballot'[b] = ballot[b]
           /\ prep'[a].bal = prep[a].bal /\ Preparing(a)
  <2>1. Redirects(clist[a]) = {} /\ a # First
    BY <1>1, <1>4, AnswerRead
  <2>2. PollInv(a)'
    <3>1. prep[a].bal.id = a
      BY <1>4 DEF StayInv, PollInv
    <3> QED BY <1>1, <1>4, <2>1, <3>1 DEF PollInv
  <2>3. \A b \in Member \ {a} : PollInv(b)'
    BY <1>1, <1>4, OtherStay
  <2>4. RoundsInv'
    BY <1>1, <1>4, RoundsStay
  <2> QED BY <2>2, <2>3, <2>4 DEF StayInv
<1>5. "promise_glb" \in Failure /\ "redecree_glb" \in Failure
  BY DEF Failure
<1>6. \/ link' = Rest(a, x) /\ UNCHANGED <<status, ballot, prep>>
      \/ (\E why \in Failure : Stop(a, why, link)) /\ UNCHANGED <<ballot, prep>>
      \/ /\ Preparing(a) /\ m.bal = prep[a].bal /\ link' = Rest(a, x) /\ UNCHANGED status
         /\ \E acks, at : prep' = [prep EXCEPT ![a] = [prep[a] EXCEPT !.acks = acks, !.istart = at]]
         /\ ballot' = ballot \/ ballot' = [ballot EXCEPT ![a] = prep[a].bal]
  BY <1>5 DEF AckPromise
<1>7. ASSUME NEW acks, NEW at,
             prep' = [prep EXCEPT ![a] = [prep[a] EXCEPT !.acks = acks, !.istart = at]]
      PROVE  prep'[a].bal = prep[a].bal /\ \A b \in Member \ {a} : prep'[b] = prep[b]
  BY <1>7 DEF TypeInv, TypeOK, Prep
<1>8. ballot' = ballot \/ ballot' = [ballot EXCEPT ![a] = prep[a].bal]
        => \A b \in Member \ {a} : ballot'[b] = ballot[b]
  BY DEF TypeInv, TypeOK
<1> QED BY <1>2, <1>3, <1>4, <1>6, <1>7, <1>8

LEMMA EndPrepareStay ==
  ASSUME TypeInv, StayInv, NEW a \in Member, EndPrepare(a)
  PROVE  StayInv'
<1>1. /\ status[a] = "live" /\ ballot[a] = prep[a].bal
      /\ UNCHANGED <<status, gen_high, ballot, clist, link>>
      /\ prep'[a] = NoPrep /\ \A b \in Member \ {a} : prep'[b] = prep[b]
  BY DEF EndPrepare, Redecreeing, TypeInv, TypeOK
<1>2. Redirects(clist[a]) = {}
  BY <1>1 DEF StayInv, PollInv
<1>3. Shrinks(link')
  BY <1>1, LinkShrinks
<1>4. RoundsInv'
  BY <1>1, <1>3, RoundsStay
<1>5. PollInv(a)'
  BY <1>1, <1>2 DEF PollInv, Preparing
<1>6. \A b \in Member \ {a} : PollInv(b)'
  BY <1>1, <1>3, OtherStay
<1> QED BY <1>4, <1>5, <1>6 DEF StayInv

LEMMA AckRedirectStay ==
  ASSUME TypeInv, RoleInv, StayInv, OnePair, NEW a \in Member, NEW x \in Member, AckRedirect(a, x)
  PROVE  StayInv'
<1> DEFINE m == Msg(a, x)
           p == prep[a]
           n == p.redirects + 1
           c == [op |-> "redirect", who |-> m.who, inum |-> Base]
<1>1. /\ Incoming(a, x, "redirect") /\ Shrinks(Rest(a, x)) /\ UNCHANGED ballot
      /\ status[a] = "live" /\ IsProposer(a) /\ m.op = "redirect" /\ ~Redecreeing(a)
  BY RestShrinks DEF AckRedirect, Incoming, Msg, Quiet, Busy
<1>2. \/ /\ \E why \in Failure : Stop(a, why, link)
         /\ UNCHANGED <<gen_high, prep, clist>>
      \/ link' = Rest(a, x) /\ UNCHANGED <<status, gen_high, prep, clist>>
      \/ /\ Preparing(a) /\ m.bal = p.bal /\ UNCHANGED <<status, gen_high>> /\ link' = Rest(a, x)
         /\ prep' = [prep EXCEPT ![a] = [p EXCEPT !.redirects = n]]
         /\ clist' = clist \/ clist' = [clist EXCEPT ![a] = Append(@, c)]
      \/ /\ Preparing(a) /\ m.bal = p.bal /\ UNCHANGED clist
         /\ Prepare(a, alist[a], peer[a], Rest(a, x), {}, "null_session")
  <2> "redirect_rank" \in Failure /\ "redirect_target" \in Failure
    BY DEF Failure
  <2> QED BY DEF AckRedirect
<1> HIDE DEF c, n
<1>3. CASE (\E why \in Failure : Stop(a, why, link)) /\ UNCHANGED <<gen_high, prep, clist>>
  BY <1>1, <1>3, LinkShrinks, StopShrinks, PlainStay
<1>4. CASE link' = Rest(a, x) /\ UNCHANGED <<status, gen_high, prep, clist>>
  BY <1>1, <1>4, PlainStay
<1>5. ASSUME Preparing(a), m.bal = p.bal PROVE Redirects(clist[a]) = {} /\ a # First
  BY <1>1, <1>5, AnswerRead
<1>6. CASE /\ Preparing(a) /\ m.bal = p.bal /\ UNCHANGED <<status, gen_high>> /\ link' = Rest(a, x)
           /\ prep' = [prep EXCEPT ![a] = [p EXCEPT !.redirects = n]]
           /\ clist' = clist \/ clist' = [clist EXCEPT ![a] = Append(@, c)]
  <2>1. /\ prep'[a].bal = p.bal /\ prep'[a] # NoPrep
        /\ \A b \in Member \ {a} : prep'[b] = prep[b] /\ clist'[b] = clist[b]
        /\ clist'[a] = clist[a] \/ clist'[a] = Append(clist[a], c)
    <3>1. prep'[a] = [p EXCEPT !.redirects = n] /\ p \in Prep /\ \A b \in Member \ {a} : prep'[b] = prep[b]
      BY <1>6 DEF TypeInv, TypeOK
    <3>2. /\ \A b \in Member \ {a} : clist'[b] = clist[b]
          /\ clist'[a] = clist[a] \/ clist'[a] = Append(clist[a], c)
      BY <1>6 DEF TypeInv, TypeOK
    <3>3. prep'[a].bal = p.bal
      BY <3>1 DEF Prep
    <3>4. p.bal.id = a /\ NoPrep.bal.id = 0 /\ a # 0
      BY <1>6, MemberNat DEF StayInv, PollInv, NoPrep, NoBallot
    <3> QED BY <3>1, <3>2, <3>3, <3>4
  <2>2. RoundsInv'
    BY <1>1, <1>6, RoundsStay
  <2>3. \A b \in Member \ {a} : PollInv(b)'
    BY <1>1, <1>6, <2>1, OtherStay
  <2>4. ASSUME NEW u \in Member, NEW v \in Member PROVE p.bal \notin Rounds(link'[u][v])
    <3>1. m.bal \in Rounds(link[x][a]) /\ m.bal \notin Rounds(link'[x][a])
      BY <1>1, <1>6, RestShrinks DEF Polls
    <3>2. m.bal \notin Rounds(link[a][x])
      BY <3>1 DEF StayInv, RoundsInv
    <3>3. x # First /\ a # First /\ a < x
      <4>1. Directed(x, a, m)
        BY <1>1, Received
      <4> QED BY <1>1, <3>1, <4>1 DEF StayInv, RoundsInv, Directed, Answers
    <3>4. Rounds(link'[u][v]) \subseteq Rounds(link[u][v])
      BY <1>1, <1>6 DEF Shrinks
    <3>5. CASE u = x /\ v = a
      BY <1>6, <3>1, <3>5
    <3>6. CASE u = a /\ v = x
      BY <1>6, <3>2, <3>4, <3>6
    <3>7. CASE ~(u = x /\ v = a) /\ ~(u = a /\ v = x)
      <4>1. u # First /\ v # First /\ u # v => FALSE
        <5>1. u \in Nat /\ v \in Nat
          BY MemberNat
        <5> QED BY <3>3, <3>7, <5>1 DEF OnePair
      <4>2. Rounds(link[u][v]) = {}
        BY <4>1 DEF StayInv, RoundsInv
      <4> QED BY <3>4, <4>2
    <3> QED BY <3>5, <3>6, <3>7
  <2>5. PollInv(a)'
    <3>1. Redirects(clist[a]) = {} /\ a # First /\ p.bal.id = a
      BY <1>5, <1>6 DEF StayInv, PollInv
    <3>2. ballot'[a] # prep'[a].bal
      BY <1>1, <1>6, <2>1 DEF Redecreeing
    <3>3. ASSUME NEW k \in Redirects(clist'[a]) PROVE Redirects(clist'[a]) = {k}
      <4>1. clist[a] \in Seq(Continuation)
        BY DEF TypeInv, TypeOK
      <4>2. PICK s : s = clist[a]
        OBVIOUS
      <4>3. \A j \in Redirects(Append(s, c)) : j = Len(s) + 1
        <5>1. s \in Seq(Continuation) /\ Redirects(s) = {}
          BY <3>1, <4>1, <4>2
        <5>2. \A j \in DOMAIN Append(s, c) : j = Len(s) + 1 \/ (j \in DOMAIN s /\ Append(s, c)[j] = s[j])
          BY <5>1
        <5> QED BY <5>1, <5>2 DEF Redirects
      <4>4. \A i, j \in Redirects(clist'[a]) : i = j
        BY <2>1, <3>1, <4>2, <4>3
      <4> QED BY <4>4
    <3> QED BY <2>1, <2>4, <3>1, <3>2, <3>3 DEF PollInv, Preparing
  <2> QED BY <2>2, <2>3, <2>5 DEF StayInv
<1>7. CASE /\ Preparing(a) /\ m.bal = p.bal /\ UNCHANGED clist
           /\ Prepare(a, alist[a], peer[a], Rest(a, x), {}, "null_session")
  <2>1. \A y \in peer[a] : a < y
    BY <1>1, ProposerRank
  <2>2. peer[a] \in SUBSET Member /\ "null_session" \in Failure
    BY TypeInvElim DEF Failure
  <2>3. Redirects(clist'[a]) = {} /\ a # First
    BY <1>5, <1>7
  <2> QED BY <1>1, <1>7, <2>1, <2>2, <2>3, PreparedStay
<1> QED BY <1>2, <1>3, <1>4, <1>6, <1>7

LEMMA ContinueAckRedirectStay ==
  ASSUME TypeInv, RoleInv, StayInv, NEW a \in Member, ContinueAckRedirect(a)
  PROVE  StayInv' /\ Preparing(a)
<1>1. PICK n \in DOMAIN clist[a] :
        /\ clist[a][n].op = "redirect"
        /\ clist' = [clist EXCEPT ![a] = Removed(@, n)]
        /\ \/ Prepare(a, alist[a], peer[a], link, {}, "null_session")
           \/ UNCHANGED <<status, gen_high, prep, link>>
  BY DEF ContinueAckRedirect
<1>2. status[a] = "live" /\ UNCHANGED ballot
  BY DEF ContinueAckRedirect
<1>3. IsProposer(a)
  BY <1>2, WaitingIsProposer
<1>4. Redirects(clist[a]) = {n} /\ Preparing(a) /\ a # First
  <2>1. n \in Redirects(clist[a])
    BY <1>1 DEF Redirects
  <2> QED BY <1>2, <2>1 DEF StayInv, PollInv
<1>5. /\ clist[a] \in Seq(Continuation) /\ clist'[a] = Removed(clist[a], n)
      /\ \A b \in Member \ {a} : clist'[b] = clist[b]
  BY <1>1 DEF TypeInv, TypeOK
<1>6. Redirects(clist'[a]) = {}
  BY <1>4, <1>5, RedirectsRemoved
<1>7. Shrinks(link)
  BY LinkShrinks
<1>8. CASE UNCHANGED <<status, gen_high, prep, link>>
  <2>1. SameRedirects(clist[a], clist'[a])
    BY <1>6 DEF SameRedirects
  <2> QED BY <1>2, <1>4, <1>5, <1>7, <1>8, <2>1, WaitedStay
<1>9. CASE Prepare(a, alist[a], peer[a], link, {}, "null_session")
  <2>1. \A y \in peer[a] : a < y
    BY <1>2, <1>3, ProposerRank
  <2>2. peer[a] \in SUBSET Member /\ "null_session" \in Failure
    BY TypeInvElim DEF Failure
  <2> QED BY <1>2, <1>4, <1>5, <1>6, <1>7, <1>9, <2>1, <2>2, PreparedStay
<1> QED BY <1>1, <1>4, <1>8, <1>9

(* Who takes itself for the proposer outranks those it is connected to. *)
LEMMA ElectedRank ==
  ASSUME TypeInv, RoleInv, NEW a \in Member, status[a] = "live", NEW y, Reelected(a, y, peer[a] \ {y}) = a
  PROVE  \A z \in peer[a] \ {y} : a < z
<1>1. a = Elected(a, peer[a] \ {y})
  BY ReelectedFirst
<1>2. peer[a] \ {y} \in SUBSET Member /\ a \notin peer[a]
  BY TypeInvElim DEF RoleInv
<1>3. \A z \in peer[a] \ {y} : a <= z
  BY <1>1, <1>2, ElectedType
<1> SUFFICES ASSUME NEW z \in peer[a] \ {y} PROVE a < z
  OBVIOUS
<1>4. a \in Nat /\ z \in Nat /\ z # a /\ a <= z
  BY <1>2, <1>3, MemberNat
<1> QED BY <1>4

LEMMA LearnStay ==
  ASSUME TypeInv, RoleInv, StayInv, NEW a \in Member, Learn(a)
  PROVE  StayInv'
<1> PICK v : v = ilist[a][ihole[a]].val
  OBVIOUS
<1>1. status[a] = "live" /\ UNCHANGED <<ballot, clist>>
  BY DEF Learn
<1>2. ASSUME NEW y, LearnPart(a, y), y # a PROVE StayInv'
  <2> PICK pe : pe = peer[a] \ {y}
    OBVIOUS
  <2> PICK net : net = Unread(link, a, {y})
    OBVIOUS
  <2>1. Shrinks(net) /\ pe \in SUBSET Member
    BY LinkShrinks, UnreadShrinks, TypeInvElim
  <2>2. \/ link' = net /\ UNCHANGED <<status, gen_high, prep>>
        \/ /\ y = proposer[a] /\ Reelected(a, y, pe) = a
           /\ \E al, gone : Prepare(a, al, pe, net, gone, "ended")
    BY <1>2 DEF LearnPart
  <2>3. CASE link' = net /\ UNCHANGED <<status, gen_high, prep>>
    BY <1>1, <2>1, <2>3, PlainStay
  <2>4. CASE /\ y = proposer[a] /\ Reelected(a, y, pe) = a
             /\ \E al, gone : Prepare(a, al, pe, net, gone, "ended")
    <3>1. Redirects(clist[a]) = {} /\ a # First
      BY <1>1, <1>2, <2>4, AcceptorWaitsNone DEF IsProposer
    <3>2. \A z \in pe : a < z
      BY <1>1, <2>4, ElectedRank
    <3> QED BY <1>1, <2>1, <2>4, <3>1, <3>2, PreparedStay
  <2> QED BY <2>2, <2>3, <2>4
<1>3. ASSUME NEW why \in {"ended"} \cup Failure, Stop(a, why, link), UNCHANGED <<gen_high, prep>>
      PROVE  StayInv'
  BY <1>1, <1>3, LinkShrinks, StopShrinks, PlainStay
<1>4. ASSUME UNCHANGED <<status, gen_high, prep, link>> PROVE StayInv'
  BY <1>1, <1>4, LinkShrinks, PlainStay
<1>5. "chat_author" \in Failure /\ "null_session" \in Failure
  BY DEF Failure
<1>6. CASE v.kind = "chat"
  <2>1. LearnChat(a, v)
    BY <1>6 DEF Learn
  <2> QED BY <1>3, <1>4, <1>5, <2>1 DEF LearnChat
<1>7. CASE v.kind \in {"part", "kill"} /\ v.arg = a
  <2>1. LearnOwnPart(a)
    BY <1>7 DEF Learn
  <2> QED BY <1>3, <1>5, <2>1 DEF LearnOwnPart
<1>8. CASE v.kind \in {"part", "kill"} /\ v.arg # a /\ v.arg \in alist[a]
  <2>1. LearnPart(a, v.arg)
    BY <1>8 DEF Learn
  <2> QED BY <1>2, <1>8, <2>1
<1>9. CASE v.kind # "chat" /\ ~(v.kind \in {"part", "kill"} /\ (v.arg = a \/ v.arg \in alist[a]))
  <2>1. UNCHANGED <<status, gen_high, prep, link>>
    BY <1>9 DEF Learn
  <2> QED BY <1>4, <2>1
<1> QED BY <1>6, <1>7, <1>8, <1>9

LEMMA DropStay ==
  ASSUME TypeInv, RoleInv, StayInv, NEW a \in Member, NEW y \in Member, Drop(a, y)
  PROVE  StayInv'
<1> PICK pe : pe = peer[a] \ {y}
  OBVIOUS
<1> PICK net : net = Unread(link, a, {y})
  OBVIOUS
<1>1. status[a] = "live" /\ UNCHANGED <<ballot, clist>>
  BY DEF Drop
<1>2. Shrinks(net) /\ pe \in SUBSET Member
  BY LinkShrinks, UnreadShrinks, TypeInvElim
<1>3. \/ Submit(a, Part(a, y), pe, net) /\ UNCHANGED <<status, gen_high, prep>>
      \/ link' = net /\ UNCHANGED <<status, gen_high, prep>>
      \/ /\ ~IsProposer(a) /\ Reelected(a, y, pe) = a
         /\ \E gone : Prepare(a, alist[a], pe, net, gone, "null_session")
  BY DEF Drop
<1>4. CASE Submit(a, Part(a, y), pe, net) /\ UNCHANGED <<status, gen_high, prep>>
  <2>1. Part(a, y) \in Value
    BY MemberNat DEF Part, Value, Kind
  <2> QED BY <1>1, <1>2, <1>4, <2>1, SubmitShrinks, PlainStay
<1>5. CASE link' = net /\ UNCHANGED <<status, gen_high, prep>>
  BY <1>1, <1>2, <1>5, PlainStay
<1>6. CASE /\ ~IsProposer(a) /\ Reelected(a, y, pe) = a
           /\ \E gone : Prepare(a, alist[a], pe, net, gone, "null_session")
  <2>1. Redirects(clist[a]) = {} /\ a # First
    BY <1>1, <1>6, AcceptorWaitsNone
  <2>2. \A z \in pe : a < z
    BY <1>1, <1>6, ElectedRank
  <2>3. "null_session" \in Failure
    BY DEF Failure
  <2> QED BY <1>1, <1>2, <1>6, <2>1, <2>2, <2>3, PreparedStay
<1> QED BY <1>3, <1>4, <1>5, <1>6

-----------------------------------------------------------------------------
(* A proposer that has prepared goes on to propose, and does not prepare.  *)

LEMMA PlainStays ==
  ASSUME UNCHANGED <<proposer, prep>>
  PROVE  Stays
BY DEF Stays, IsProposer, Preparing

(* A prepare is begun for its own member alone. *)
LEMMA PrepareAlone ==
  ASSUME TypeInv, NEW a \in Member, NEW al, NEW pe, NEW net, NEW gone, NEW ended,
         Prepare(a, al, pe, net, gone, ended)
  PROVE  \A b \in Member \ {a} : prep'[b] = prep[b]
<1>1. prep' = prep \/ \E p : prep' = [prep EXCEPT ![a] = p]
  BY DEF Prepare
<1> QED BY <1>1 DEF TypeInv, TypeOK

LEMMA LearnStays ==
  ASSUME TypeInv, NEW a \in Member, Learn(a)
  PROVE  Stays
<1> PICK v : v = ilist[a][ihole[a]].val
  OBVIOUS
<1>1. \/ UNCHANGED <<proposer, prep>>
      \/ v.arg # a /\ LearnPart(a, v.arg)
  BY DEF Learn, LearnChat, LearnOwnPart, sess
<1>2. CASE v.arg # a /\ LearnPart(a, v.arg)
  <2> PICK y : y = v.arg
    OBVIOUS
  <2>1. \A b \in Member \ {a} : proposer'[b] = proposer[b] /\ prep'[b] = prep[b]
    <3> PICK al : al = alist[a] \ {y}
      OBVIOUS
    <3> PICK pe : pe = peer[a] \ {y}
      OBVIOUS
    <3> PICK net : net = Unread(link, a, {y})
      OBVIOUS
    <3>1. PICK np : np = Reelected(a, y, pe)
      OBVIOUS
    <3>2. proposer' = [proposer EXCEPT ![a] = np]
      BY <1>2, <3>1 DEF LearnPart
    <3>3. prep' = prep \/ Prepare(a, al, pe, net, Unconnected(a, al, pe), "ended")
      BY <1>2 DEF LearnPart
    <3>4. \A b \in Member \ {a} : prep'[b] = prep[b]
      BY <3>3, PrepareAlone
    <3> QED BY <3>2, <3>4 DEF TypeInv, TypeOK
  <2>2. ASSUME IsProposer(a) PROVE proposer'[a] = a /\ prep'[a] = prep[a]
    <3>1. y # proposer[a] /\ Reelected(a, y, peer[a] \ {y}) = a
      BY <1>2, <2>2 DEF IsProposer, Reelected
    <3>2. proposer' = [proposer EXCEPT ![a] = a] /\ prep' = prep
      BY <1>2, <3>1 DEF LearnPart
    <3> QED BY <3>2 DEF TypeInv, TypeOK
  <2> QED BY <2>1, <2>2 DEF Stays, IsProposer, Preparing
<1> QED BY <1>1, <1>2, PlainStays

LEMMA DropStays ==
  ASSUME TypeInv, NEW a \in Member, NEW y \in Member, Drop(a, y)
  PROVE  Stays
<1>1. CASE IsProposer(a)
  BY <1>1, PlainStays DEF Drop
<1>2. CASE ~IsProposer(a)
  <2> PICK pe : pe = peer[a] \ {y}
    OBVIOUS
  <2> PICK net : net = Unread(link, a, {y})
    OBVIOUS
  <2>1. PICK np : np = Reelected(a, y, pe)
    OBVIOUS
  <2>2. /\ proposer' = [proposer EXCEPT ![a] = np]
        /\ \/ Prepare(a, alist[a], pe, net, Unconnected(a, alist[a], pe), "null_session")
           \/ prep' = prep
    BY <1>2, <2>1 DEF Drop
  <2>3. \A b \in Member \ {a} : prep'[b] = prep[b]
    BY <2>2, PrepareAlone
  <2>4. \A b \in Member \ {a} : proposer'[b] = proposer[b]
    BY <2>2 DEF TypeInv, TypeOK
  <2> QED BY <1>2, <2>3, <2>4 DEF Stays, IsProposer, Preparing
<1> QED BY <1>1, <1>2

(* Steps of a member that prepares. *)
LEMMA PreparingStays ==
  ASSUME TypeInv, NEW a \in Member, Preparing(a), UNCHANGED proposer,
         \A b \in Member \ {a} : prep'[b] = prep[b]
  PROVE  Stays
BY DEF Stays, IsProposer, Preparing

LEMMA DispatchStay ==
  ASSUME TypeInv, RoleInv, StayInv, OnePair, NEW a \in Member, NEW x \in Member, Dispatch(a, x)
  PROVE  StayInv' /\ Stays
<1>1. CASE AckPrepare(a, x)
  BY <1>1, AckPrepareStay, PlainStays DEF AckPrepare, sess
<1>2. CASE AckPromise(a, x)
  <2>1. UNCHANGED proposer
    BY <1>2 DEF AckPromise
  <2>2. prep' = prep \/ (Preparing(a) /\ \E p : prep' = [prep EXCEPT ![a] = p])
    BY <1>2 DEF AckPromise
  <2>3. prep' = prep \/ (Preparing(a) /\ \A b \in Member \ {a} : prep'[b] = prep[b])
    BY <2>2 DEF TypeInv, TypeOK
  <2> QED BY <1>2, <2>1, <2>3, AckPromiseStay, PlainStays, PreparingStays
<1>3. CASE AckRedirect(a, x)
  <2>1. UNCHANGED proposer
    BY <1>3 DEF AckRedirect
  <2>2. prep' = prep \/ (Preparing(a) /\ \E p : prep' = [prep EXCEPT ![a] = p])
    BY <1>3 DEF AckRedirect, Prepare
  <2>3. prep' = prep \/ (Preparing(a) /\ \A b \in Member \ {a} : prep'[b] = prep[b])
    BY <2>2 DEF TypeInv, TypeOK
  <2> QED BY <1>3, <2>1, <2>3, AckRedirectStay, PlainStays, PreparingStays
<1>4. CASE AckReject(a, x)
  BY <1>4, AckRejectStay, PlainStays DEF AckReject, ballots
<1>5. CASE \/ ProposerAckRequest(a, x) \/ AcceptorAckRequest(a, x) \/ AckRetrieve(a, x)
           \/ AckResend(a, x) \/ AckCommit(a, x) \/ AckRecommit(a, x) \/ AckRefuse(a, x)
           \/ AckRetry(a, x) \/ AckDecree(a, x) \/ AckAccept(a, x)
  <2>1. UNCHANGED <<proposer, prep>>
    BY <1>5 DEF ProposerAckRequest, AcceptorAckRequest, AckRetrieve, AckResend, AckCommit, AckRecommit,
                CommitMessage, AckRefuse, AckRetry, AckDecree, AckAccept, sess, ballots
  <2> QED BY <1>5, <2>1, PlainDispatchStay, PlainStays
<1> QED BY <1>1, <1>2, <1>3, <1>4, <1>5 DEF Dispatch

LEMMA NextStay == OnePair /\ TypeInv /\ RoleInv /\ StayInv /\ [Next]_vars => StayInv' /\ [Stays]_vars
<1> SUFFICES ASSUME OnePair, TypeInv, RoleInv, StayInv, [Next]_vars
             PROVE  StayInv' /\ [Stays]_vars
  OBVIOUS
<1>1. CASE UNCHANGED vars
  <2>1. UNCHANGED <<status, ballot, gen_high, prep, clist, link>>
    BY <1>1 DEF vars
  <2> QED BY <1>1, <2>1, LinkShrinks, PlainStay
<1>2. CASE Next
  <2>1. PICK a \in Member :
          \/ Step(a) \/ ContinueAckRedirect(a) \/ ContinueAckReject(a) \/ Leave(a)
          \/ \E v \in Chat : Request(a, v)
          \/ \E x \in Member : Dispatch(a, x) \/ Drop(a, x)
    BY <1>2, Zenon DEF Next
  <2>2. CASE Commit(a)
    BY <2>2, CommitStay, PlainStays DEF Commit, ballots
  <2>3. CASE Learn(a)
    BY <2>3, LearnStay, LearnStays
  <2>4. CASE LearnEnd(a) \/ Redecree(a) \/ Drain(a)
    BY <2>4, PlainStepStay, PlainStays DEF LearnEnd, Redecree, Drain, sess, ballots
  <2>5. CASE EndPrepare(a)
    <3>1. Preparing(a) /\ UNCHANGED proposer /\ \A b \in Member \ {a} : prep'[b] = prep[b]
      BY <2>5 DEF EndPrepare, Redecreeing, sess
    <3> QED BY <2>5, <3>1, EndPrepareStay, PreparingStays
  <2>6. CASE ContinueAckRedirect(a)
    <3>1. UNCHANGED proposer /\ \A b \in Member \ {a} : prep'[b] = prep[b]
      <4>1. UNCHANGED proposer
        BY <2>6 DEF ContinueAckRedirect
      <4>2. prep' = prep \/ Prepare(a, alist[a], peer[a], link, {}, "null_session")
        BY <2>6 DEF ContinueAckRedirect
      <4> QED BY <4>1, <4>2, PrepareAlone
    <3> QED BY <2>6, <3>1, ContinueAckRedirectStay, PreparingStays
  <2>7. CASE ContinueAckReject(a)
    BY <2>7, ContinueAckRejectStay, PlainStays DEF ContinueAckReject, sess, ballots
  <2>8. CASE Leave(a)
    BY <2>8, LeaveStay, PlainStays DEF Leave, ballots
  <2>9. CASE \E v \in Chat : Request(a, v)
    BY <2>9, RequestStay, PlainStays DEF Request, sess, ballots
  <2>10. CASE \E x \in Member : Dispatch(a, x) \/ Drop(a, x)
    BY <2>10, DispatchStay, DropStay, DropStays
  <2> QED BY <2>1, <2>2, <2>3, <2>4, <2>5, <2>6, <2>7, <2>8, <2>9, <2>10 DEF Step
<1> QED BY <1>1, <1>2

LEMMA InitStay == Init => StayInv
<1> SUFFICES ASSUME Init PROVE StayInv
  OBVIOUS
<1>1. \A x, y \in Member : link[x][y] = <<>>
  BY DEF Init
<1>2. Once(<<>>) /\ Rounds(<<>>) = {}
  BY DEF Once, Rounds, Polling
<1>3. RoundsInv
  BY <1>1, <1>2 DEF RoundsInv
<1>4. \A a \in Member : ~Preparing(a) /\ Redirects(clist[a]) = {}
  BY DEF Init, Preparing, Redirects
<1> QED BY <1>3, <1>4 DEF StayInv, PollInv

LEMMA StayInvariant == OnePair => (Spec => [](TypeInv /\ RoleInv /\ StayInv) /\ [][Stays]_vars)
<1> SUFFICES ASSUME OnePair PROVE Spec => [](TypeInv /\ RoleInv /\ StayInv) /\ [][Stays]_vars
  OBVIOUS
<1>1. TypeInv /\ RoleInv /\ StayInv /\ [Next]_vars => StayInv' /\ [Stays]_vars
  BY NextStay
<1> QED BY <1>1, InitStay, RoleInvariant, PTL DEF Spec

(***************************************************************************)
(* What the comment of proposer_prepare() says of a proposer that has      *)
(* prepared is a theorem of sessions of at most three members, and no      *)
(* larger ones: an acceptor answers a prepare once, and of three           *)
(* members one alone is left to answer, so that the prepare whose redirect *)
(* waits for a reconnection is not won meanwhile.                          *)
(***************************************************************************)
THEOREM PreparedStaysOfThree == Cardinality(Member) <= 3 => (Spec => PreparedStays)
<1> SUFFICES ASSUME Cardinality(Member) <= 3 PROVE Spec => PreparedStays
  OBVIOUS
<1>1. OnePair
  BY ThreeHaveOnePair
<1>2. PreparedStays <=> [][Stays]_vars
  BY PTL DEF PreparedStays, Stays
<1> QED BY <1>1, <1>2, StayInvariant, PTL

(***************************************************************************)
(* What the theorems of PaxosHole and PaxosOrder say of sessions in which  *)
(* no proposer prepares twice, they say of every session of at most three  *)
(* members: every instance below the hole of a member is committed, has    *)
(* its request and was learned.                                            *)
(***************************************************************************)
THEOREM HoleOfThree == Cardinality(Member) <= 3 => (Spec => []HoleOK)
BY PreparedStaysOfThree, HoleHolds, PTL

(***************************************************************************)
(* Of at most three members, the decrees on their way under one ballot     *)
(* give an instance one value.                                             *)
(***************************************************************************)
THEOREM OneValueOfThree == Cardinality(Member) <= 3 => (Spec => []OneValuePerBallot)
BY PreparedStaysOfThree, OneValue, PTL

(***************************************************************************)
(* Of at most three members, whoever proposes parts or kills every         *)
(* acceptor that it lost.                                                  *)
(***************************************************************************)
THEOREM LostPurgedOfThree == Cardinality(Member) <= 3 => (Spec => []LostArePurged)
BY PreparedStaysOfThree, LostAlwaysPurged, PTL

(***************************************************************************)
(* Of at most three members, what one has committed it never changes, and  *)
(* learns one after another.                                               *)
(***************************************************************************)
THEOREM CommittedOfThree == Cardinality(Member) <= 3 => (Spec => [][CommittedKept]_vars)
BY PreparedStaysOfThree, CommittedStays, PTL

-----------------------------------------------------------------------------
(***************************************************************************)
(* Agreement.  Of at most three members, the first leads from the start,   *)
(* and only the second may lead after it, once the third has promised.     *)
(* Until then what the first has decreed is what may commit; from then on, *)
(* what the second has on its list.                                        *)
(***************************************************************************)
Second == Least(Member \ {First})
Trio == OnePair /\ Member # {First}

Won == ballot[Second].id = Second
Leader == IF Won THEN Second ELSE First

Filled(a, i) == ilist[a][i].bal # NoBallot
Has(a, i, v) == Filled(a, i) /\ ilist[a][i].val = v

(* The value that may commit, held by who leads and by another member.     *)
Safe(i, v) == Has(Leader, i, v) /\ \E y \in Member \ {First} : Filled(y, i)

(* What a member has committed, is about to, or will say that it has.      *)
Committing(a, i) == call[a].fn = "commit" /\ call[a].inum = i
Pledged(a, i) == ilist[a][i].committed \/ ilist[a][i].opcode = "commit" \/ Committing(a, i)

PledgeInv(a) == \A i \in Inum : Pledged(a, i) => Safe(i, ilist[a][i].val)

(* Until the second leads, no list has a value that is not the first's.    *)
FollowInv(a) ==
  a # First /\ ~Won => \A i \in Inum : Filled(a, i) => Has(First, i, ilist[a][i].val)

(***************************************************************************)
(* Whom a member wants to be gone, by a part or a kill on its list or one  *)
(* that it has deferred, is not itself, and not connected to it.           *)
(***************************************************************************)
Gone(a, y) == y # a /\ y \notin peer[a]
Deferred(a) == {idefer[a][n] : n \in DOMAIN idefer[a]}

PartInv(a) ==
  /\ \A i \in Inum : \A y \in Member : Purges(ilist[a][i].val, y) => Gone(a, y)
  /\ \A y \in dparts[a] : Gone(a, y)
  /\ \A v \in Deferred(a) : v.kind # "kill" /\ \A y \in Member : Purges(v, y) => Gone(a, y)
  /\ a = First => \A i \in Inum : ilist[a][i].val.kind # "kill"

(* Who is off the list of acceptors was parted.                            *)
AlistInv(a) ==
  /\ a \in alist[a]
  /\ \A y \in Member \ alist[a] : \E i \in Inum : i < ihole[a] /\ Purges(ilist[a][i].val, y)

(***************************************************************************)
(* The third never leads.  The second prepares, or has won; once it has,   *)
(* it leads as long as it lives.  Who has promised it has lost the first.  *)
(***************************************************************************)
TurnInv(a) ==
  /\ ballot[a].id \in {First, Second}
  /\ a = First => ballot[a].id = First
  /\ a # First /\ (Won \/ ballot[a].id = Second) => ballot[a].id = Second /\ First \notin peer[a]
  /\ status[a] = "live" /\ IsProposer(a) => a \in {First, Second}
  /\ status[a] = "live" /\ a = Second => (Leads(a) <=> Won)

(* Who leads has not committed that all others are gone.                   *)
LeaderInv ==
  \E y \in Member \ {Leader} : \A i \in Inum : Pledged(Leader, i) => ~Purges(ilist[Leader][i].val, y)

(* What waits for the data of a request.                                   *)
Uncached(a, i) == ilist[a][i].committed /\ NeedsCached(ilist[a][i].val)

(***************************************************************************)
(* The messages on their way.                                              *)
(***************************************************************************)
Decides == {"decree", "commit", "recommit"}

Promised(x, m) ==
  \A i \in Inum :
    /\ m.log[i].bal # NoBallot =>
         Has(First, i, m.log[i].val) /\ \A y \in Member : ~Purges(m.log[i].val, y)
    /\ Filled(x, i) => m.log[i].bal # NoBallot \/ Filled(Second, i)

Meets(x, y, m) ==
  /\ m.op \in Decides => /\ x \in {First, Second} /\ Has(x, m.inum, m.val) /\ ~Purges(m.val, y)
                         /\ m.op = "decree" => (x = Second => Won)
                         /\ m.op # "decree" => Safe(m.inum, m.val)
  /\ m.op = "accept" => /\ y \in {First, Second} /\ m.bal.id = y
                        /\ Filled(y, m.inum) /\ Safe(m.inum, ilist[y][m.inum].val)
  /\ m.op = "prepare" => m.bal.id = x /\ Base <= m.inum /\ m.inum <= ihole[x]
  /\ m.op = "promise" => /\ y = Second /\ x \notin {First, Second} /\ ballot[x].id = Second
                         /\ ~Won => Promised(x, m)
  /\ m.op = "request" => m.who <= y /\ m.val.kind = "chat"
  /\ m.op = "retrieve" => m.who \in Member /\ Uncached(m.who, m.inum)
  /\ m.op = "resend" => Uncached(y, m.inum)

AgreeInv ==
  /\ \A a \in Member : PledgeInv(a) /\ FollowInv(a) /\ PartInv(a) /\ AlistInv(a) /\ TurnInv(a)
  /\ LeaderInv
  /\ \A x, y \in Member : \A m \in Contents(link, x, y) : Meets(x, y, m)

-----------------------------------------------------------------------------
(* The three members. *)

LEMMA TrioRanks ==
  ASSUME Trio
  PROVE  /\ First \in Member /\ Second \in Member /\ Second # First
         /\ \A x, y \in Member : x < y => y # First /\ (x = First \/ (x = Second /\ y # Second))
         /\ \A x, y \in Member \ {First, Second} : x = y
<1>1. First \in Member /\ \A x \in Member : First <= x
  BY FirstType
<1>2. Member \ {First} \in SUBSET Nat /\ Member \ {First} # {}
  BY <1>1, MemberNat DEF Trio
<1>3. Second \in Member \ {First} /\ \A x \in Member \ {First} : Second <= x
  BY <1>2, LeastIn DEF Second
<1> HIDE DEF Second
<1>4. \A x \in Member : x \in Nat
  BY MemberNat
<1>5. ASSUME NEW x \in Member, NEW y \in Member, x < y
      PROVE  y # First /\ (x = First \/ (x = Second /\ y # Second))
  <2>1. y # First
    BY <1>1, <1>4, <1>5
  <2>2. CASE x # First
    <3>1. ~(Second < x)
      <4> SUFFICES ASSUME Second < x PROVE FALSE
        OBVIOUS
      <4> QED BY <1>3, <1>4, <1>5, <2>1, <2>2 DEF Trio, OnePair
    <3>2. x = Second
      BY <1>3, <1>4, <2>2, <3>1
    <3> QED BY <1>4, <1>5, <2>1, <3>2
  <2> QED BY <2>1, <2>2
<1>6. ASSUME NEW x \in Member \ {First, Second}, NEW y \in Member \ {First, Second}
      PROVE  x = y
  <2>1. Second < x /\ Second < y
    BY <1>3, <1>4
  <2> QED BY <1>3, <1>4, <2>1 DEF Trio, OnePair
<1> QED BY <1>1, <1>3, <1>5, <1>6

(* Whoever can be told to be gone by two others is told by one of three. *)
LEMMA NoFourth ==
  ASSUME Trio, NEW x \in Member \ {First}, NEW y \in Member \ {First}, x # y, NEW z \in Member
  PROVE  z = First \/ z = x \/ z = y
BY TrioRanks

LEMMA LeaderType ==
  ASSUME Trio
  PROVE  Leader \in {First, Second} /\ Leader \in Member
BY TrioRanks DEF Leader

LEMMA MessageInum ==
  ASSUME TypeInv, NEW x \in Member, NEW y \in Member, NEW m \in Contents(link, x, y)
  PROVE  m \in Message
<1>1. link[x][y] \in Seq(Message)
  BY DEF TypeInv, TypeOK
<1> QED BY <1>1 DEF Contents

(* The first leads as long as it lives. *)
LEMMA FirstLeads ==
  ASSUME TypeInv, RoleInv, StayInv, Trio, status[First] = "live"
  PROVE  Leads(First) /\ IsProposer(First)
<1>1. First \in Member /\ \A x \in Member : First <= x
  BY FirstType
<1>2. peer[First] \in SUBSET Member
  BY <1>1, TypeInvElim
<1>3. proposer[First] = Elected(First, peer[First])
  BY <1>1 DEF RoleInv, ProposerIsFirst
<1>4. Elected(First, peer[First]) \in {First} \cup peer[First] /\ Elected(First, peer[First]) <= First
  BY <1>1, <1>2, ElectedType
<1>5. Elected(First, peer[First]) = First
  BY <1>1, <1>2, <1>4, MemberNat
<1>6. ~Preparing(First)
  BY <1>1 DEF StayInv, PollInv
<1> QED BY <1>3, <1>5, <1>6 DEF Leads, IsProposer

-----------------------------------------------------------------------------
(***************************************************************************)
(* The invariants that a step starts from, and what PaxosHole says of it.  *)
(***************************************************************************)
Before == Trio /\ TypeInv /\ RoleInv /\ HoleInv /\ StayInv /\ AgreeInv
After == TypeInv' /\ RoleInv' /\ HoleInv' /\ HoleKept

LEMMA ListsKept ==
  ASSUME Before, After, NEW b \in Member
  PROVE  /\ KeepsLead(b) /\ Learns(b)
         /\ ihole[b] \in Nat /\ ihole'[b] \in Nat /\ ihole[b] <= ihole'[b]
         /\ \A i \in Inum : Filled(b, i) => Filled(b, i)'
<1>1. KeepsLead(b) /\ Learns(b)
  BY AllKeepLead DEF Before, After
<1>2. ihole[b] \in Base + 1 .. MaxInum + 1
  BY TypeInvElim DEF Before
<1>3. ihole[b] \in Nat /\ ihole'[b] \in Nat /\ ihole[b] <= ihole'[b]
  BY <1>1, <1>2, BoundAssumption DEF Learns
<1> QED BY <1>1, <1>3 DEF Learns, Filled

LEMMA CommittedFilled ==
  ASSUME HoleInv, NEW b \in Member, NEW i \in Inum, ilist[b][i].committed
  PROVE  Filled(b, i)
BY DEF HoleInv, LogInv, Filled

LEMMA FirstHas ==
  ASSUME Before, After, NEW i \in Inum, NEW v, Has(First, i, v)
  PROVE  Has(First, i, v)'
<1>1. First \in Member
  BY FirstType
<1>2. status[First] = "live" => Leads(First)
  BY FirstLeads DEF Before
<1> QED BY <1>1, <1>2, ListsKept DEF Has, Filled, Learns

LEMMA SecondHas ==
  ASSUME Before, After, Won' <=> Won, FollowInv(Second)', NEW i \in Inum, NEW v, Has(Second, i, v)
  PROVE  Has(Second, i, v)'
<1>1. Second \in Member /\ Second # First
  BY TrioRanks DEF Before
<1>2. Filled(Second, i)' /\ Learns(Second)
  BY <1>1, ListsKept DEF Has
<1>3. CASE Won
  <2>1. status[Second] = "live" => Leads(Second)
    BY <1>1, <1>3 DEF Before, AgreeInv, TurnInv
  <2> QED BY <1>2, <2>1 DEF Has, Filled, Learns
<1>4. CASE ~Won
  <2>1. Has(First, i, v)
    BY <1>1, <1>4 DEF Before, AgreeInv, FollowInv, Has
  <2>2. Has(First, i, v)'
    BY <2>1, FirstHas
  <2>3. Has(First, i, ilist[Second][i].val)'
    BY <1>1, <1>2, <1>4 DEF FollowInv
  <2> QED BY <1>2, <2>2, <2>3 DEF Has
<1> QED BY <1>3, <1>4

LEMMA SafeKept ==
  ASSUME Before, After, Won' <=> Won, FollowInv(Second)', NEW i \in Inum, NEW v, Safe(i, v)
  PROVE  Safe(i, v)'
<1>1. Has(Leader, i, v)'
  BY FirstHas, SecondHas DEF Safe, Leader
<1>2. PICK y \in Member \ {First} : Filled(y, i)
  BY DEF Safe
<1>3. Filled(y, i)'
  BY <1>2, ListsKept
<1> QED BY <1>1, <1>3 DEF Safe

(***************************************************************************)
(* What a step keeps, so that the messages on their way still fit.         *)
(***************************************************************************)
Keeping ==
  /\ \A z \in {First, Second}, i \in Inum : \A v : Has(z, i, v) => Has(z, i, v)'
  /\ \A i \in Inum : \A v : Safe(i, v) => Safe(i, v)'
  /\ \A b \in Member, i \in Inum : Uncached(b, i) => Uncached(b, i)'
  /\ Won => Won'
  /\ \A b \in Member : ballot[b].id = Second => ballot'[b].id = Second
  /\ \A b \in Member \ {First, Second}, i \in Inum :
       ~Won' /\ ballot[b].id = Second /\ Filled(b, i)' => Filled(b, i) \/ Filled(Second, i)'

LEMMA OldMeets ==
  ASSUME Before, After, Keeping, NEW x \in Member, NEW y \in Member, NEW m \in Contents(link, x, y)
  PROVE  Meets(x, y, m)'
<1>1. m \in Message /\ Meets(x, y, m)
  BY MessageInum DEF Before, AgreeInv
<1>2. First \in Member /\ Second \in Member
  BY TrioRanks DEF Before
<1>3. CASE m.op \in Decides
  <2>1. m.inum \in Inum
    BY <1>1, <1>3, MessageFields DEF Decides
  <2>2. /\ x \in {First, Second} /\ Has(x, m.inum, m.val)' /\ ~Purges(m.val, y)
        /\ m.op = "decree" => (x = Second => Won')
        /\ m.op # "decree" => Safe(m.inum, m.val)'
    BY <1>1, <1>3, <2>1 DEF Meets, Keeping
  <2> QED BY <1>3, <2>2 DEF Meets, Decides
<1>4. CASE m.op = "accept"
  <2>1. m.inum \in Inum
    BY <1>1, <1>4, MessageFields
  <2>2. PICK v : v = ilist[y][m.inum].val
    OBVIOUS
  <2>3. y \in {First, Second} /\ m.bal.id = y /\ Has(y, m.inum, v) /\ Safe(m.inum, v)
    BY <1>1, <1>4, <2>2 DEF Meets, Has
  <2>4. Has(y, m.inum, v)' /\ Safe(m.inum, v)'
    BY <2>1, <2>3 DEF Keeping
  <2> QED BY <1>4, <2>3, <2>4 DEF Meets, Has, Decides
<1>5. CASE m.op = "prepare"
  <2>1. /\ ihole[x] \in Nat /\ ihole'[x] \in Nat /\ ihole[x] <= ihole'[x]
    BY ListsKept
  <2>2. m.inum \in Nat
    BY <1>1, <1>5, MessageFields
  <2>3. m.inum <= ihole'[x]
    BY <1>1, <1>5, <2>1, <2>2 DEF Meets
  <2> QED BY <1>1, <1>5, <2>3 DEF Meets, Decides
<1>6. CASE m.op = "promise"
  <2>1. y = Second /\ x \notin {First, Second} /\ ballot[x].id = Second
    BY <1>1, <1>6 DEF Meets
  <2>2. ballot'[x].id = Second
    BY <2>1 DEF Keeping
  <2>3. ASSUME ~Won' PROVE Promised(x, m)'
    <3>1. Promised(x, m)
      BY <1>1, <1>6, <2>3 DEF Meets, Keeping
    <3>2. \A i \in Inum : Filled(Second, i) => Filled(Second, i)'
      BY <1>2, ListsKept
    <3>3. ASSUME NEW i \in Inum, Filled(x, i)' PROVE m.log[i].bal # NoBallot \/ Filled(Second, i)'
      BY <2>1, <2>3, <3>1, <3>2, <3>3 DEF Keeping, Promised
    <3>4. \A i \in Inum : m.log[i].bal # NoBallot =>
            Has(First, i, m.log[i].val)' /\ \A z \in Member : ~Purges(m.log[i].val, z)
      BY <3>1 DEF Keeping, Promised
    <3> QED BY <3>3, <3>4 DEF Promised
  <2> QED BY <1>6, <2>1, <2>2, <2>3 DEF Meets, Decides
<1>7. CASE m.op = "request"
  BY <1>1, <1>7 DEF Meets, Decides
<1>8. CASE m.op = "retrieve"
  <2>1. m.inum \in Inum
    BY <1>1, <1>8, MessageFields
  <2> QED BY <1>1, <1>8, <2>1 DEF Meets, Keeping, Decides
<1>9. CASE m.op = "resend"
  <2>1. m.inum \in Inum
    BY <1>1, <1>9, MessageFields
  <2> QED BY <1>1, <1>9, <2>1 DEF Meets, Keeping, Decides
<1>10. CASE m.op \notin Decides \cup {"accept", "prepare", "promise", "request", "retrieve", "resend"}
  BY <1>10 DEF Meets
<1> QED BY <1>3, <1>4, <1>5, <1>6, <1>7, <1>8, <1>9, <1>10

(***************************************************************************)
(* A step that changes one instance of one list, or none, and by which     *)
(* nobody wins: what it must show of that instance, of what is deferred,   *)
(* and of what is written.                                                 *)
(***************************************************************************)
Sound(a, i, e) ==
  /\ e.bal # NoBallot /\ a # First /\ ~Won => Has(First, i, e.val)
  /\ e.bal # NoBallot /\ a # First /\ ~Won /\ ballot[a].id = Second => Filled(a, i) \/ Filled(Second, i)
  /\ \A y \in Member : Purges(e.val, y) => y # a /\ y \notin peer'[a]
  /\ a = First => e.val.kind # "kill"
  /\ ilist[a][i].committed => e.committed \/ ~NeedsCached(e.val)
  /\ e.committed \/ e.opcode = "commit" \/ Committing(a, i)' =>
       Safe(i, e.val) /\ (a = Leader => peer'[a] # {} \/ Pledged(a, i))

Defers(b) ==
  /\ \A y \in dparts'[b] : y \in dparts[b] \/ (y # b /\ y \notin peer'[b])
  /\ \A v \in Deferred(b)' : \/ v \in Deferred(b)
                             \/ v.kind # "kill" /\ \A y \in Member : Purges(v, y) => y # b /\ y \notin peer'[b]

Commits(a, i) ==
  \A b \in Member, j \in Inum : Committing(b, j)' => Pledged(b, j) \/ (b = a /\ j = i)

WellWritten(a) ==
  \A x, y \in Member : \A m \in Contents(link', x, y) :
    m \in Contents(link, x, y) \/ (x = a /\ Meets(a, y, m)')

LEMMA AgreeStep ==
  ASSUME Before, After, Won' <=> Won, \A b \in Member : TurnInv(b)' /\ AlistInv(b)',
         \A b \in Member : ballot[b].id = Second => ballot'[b].id = Second,
         \A b \in Member : peer'[b] \subseteq peer[b] /\ Defers(b),
         NEW a \in Member, NEW i \in Inum, NEW e, Sound(a, i, e),
         ilist' = [ilist EXCEPT ![a][i] = e], Commits(a, i), WellWritten(a)
  PROVE  AgreeInv'
<1>1. /\ First \in Member /\ Second \in Member /\ Second # First
      /\ Leader \in Member /\ Leader' = Leader
  BY TrioRanks, LeaderType DEF Before, Leader
<1>2. /\ ilist'[a][i] = e
      /\ \A j \in Inum \ {i} : ilist'[a][j] = ilist[a][j]
      /\ \A b \in Member \ {a} : ilist'[b] = ilist[b]
  BY TypeInvElim DEF Before, Lists
<1>3. \A b \in Member : PledgeInv(b) /\ FollowInv(b) /\ PartInv(b)
  BY DEF Before, AgreeInv
<1>4. ASSUME NEW b \in Member PROVE FollowInv(b)'
  <2> SUFFICES ASSUME b # First, ~Won, NEW j \in Inum, Filled(b, j)'
               PROVE  Has(First, j, ilist[b][j].val)'
    BY DEF FollowInv
  <2>1. Has(First, j, ilist'[b][j].val)
    <3>1. CASE b = a /\ j = i
      BY <1>2, <3>1 DEF Sound, Filled
    <3>2. CASE ~(b = a /\ j = i)
      <4>1. ilist'[b][j] = ilist[b][j]
        BY <1>2, <3>2
      <4> QED BY <1>3, <4>1 DEF FollowInv, Filled
    <3> QED BY <3>1, <3>2
  <2>2. PICK v : v = ilist'[b][j].val
    OBVIOUS
  <2>3. Has(First, j, v)'
    BY <2>1, <2>2, FirstHas
  <2> QED BY <2>2, <2>3 DEF Has
<1>5. \A j \in Inum : \A v : Safe(j, v) => Safe(j, v)'
  BY <1>1, <1>4, SafeKept
<1>6. ASSUME NEW b \in Member, NEW j \in Inum, Pledged(b, j)'
      PROVE  \/ Pledged(b, j) /\ ilist'[b][j].val = ilist[b][j].val
             \/ b = a /\ j = i /\ (e.committed \/ e.opcode = "commit" \/ Committing(a, i)')
  <2>1. CASE b = a /\ j = i
    BY <1>2, <1>6, <2>1 DEF Pledged
  <2>2. CASE ~(b = a /\ j = i)
    <3>1. ilist'[b][j] = ilist[b][j]
      BY <1>2, <2>2
    <3> QED BY <1>6, <2>2, <3>1 DEF Pledged, Commits
  <2> QED BY <2>1, <2>2
<1>7. ASSUME NEW b \in Member PROVE PledgeInv(b)'
  <2> SUFFICES ASSUME NEW j \in Inum, Pledged(b, j)' PROVE Safe(j, ilist[b][j].val)'
    BY DEF PledgeInv
  <2>1. Safe(j, ilist'[b][j].val)
    BY <1>2, <1>3, <1>6 DEF Sound, PledgeInv
  <2>2. PICK v : v = ilist'[b][j].val
    OBVIOUS
  <2>3. Safe(j, v)'
    BY <1>5, <2>1, <2>2
  <2> QED BY <2>2, <2>3 DEF Safe, Has
<1>8. ASSUME NEW b \in Member PROVE PartInv(b)'
  <2>1. ASSUME NEW y, Gone(b, y) PROVE Gone(b, y)'
    BY <2>1 DEF Gone
  <2>2. ASSUME NEW j \in Inum, NEW y \in Member, Purges(ilist'[b][j].val, y) PROVE Gone(b, y)'
    <3>1. CASE b = a /\ j = i
      BY <1>2, <2>2, <3>1 DEF Sound, Gone
    <3>2. CASE ~(b = a /\ j = i)
      <4>1. ilist'[b][j] = ilist[b][j]
        BY <1>2, <3>2
      <4> QED BY <1>3, <2>1, <2>2, <4>1 DEF PartInv
    <3> QED BY <3>1, <3>2
  <2>3. \A y \in dparts'[b] : Gone(b, y)'
    <3> TAKE y \in dparts'[b]
    <3>1. y \in dparts[b] \/ (y # b /\ y \notin peer'[b])
      BY DEF Defers
    <3> QED BY <1>3, <2>1, <3>1 DEF PartInv, Gone
  <2>4. \A v \in Deferred(b)' : v.kind # "kill" /\ \A y \in Member : Purges(v, y) => Gone(b, y)'
    <3> TAKE v \in Deferred(b)'
    <3>1. CASE v \in Deferred(b)
      BY <1>3, <2>1, <3>1 DEF PartInv
    <3>2. CASE v.kind # "kill" /\ \A y \in Member : Purges(v, y) => y # b /\ y \notin peer'[b]
      BY <3>2 DEF Gone
    <3> QED BY <3>1, <3>2 DEF Defers
  <2>5. b = First => \A j \in Inum : ilist'[b][j].val.kind # "kill"
    <3> SUFFICES ASSUME b = First, NEW j \in Inum PROVE ilist'[b][j].val.kind # "kill"
      OBVIOUS
    <3>1. CASE b = a /\ j = i
      BY <1>2, <3>1 DEF Sound
    <3>2. CASE ~(b = a /\ j = i)
      <4>1. ilist'[b][j] = ilist[b][j]
        BY <1>2, <3>2
      <4> QED BY <1>3, <4>1 DEF PartInv
    <3> QED BY <3>1, <3>2
  <2> QED BY <2>2, <2>3, <2>4, <2>5 DEF PartInv
<1>9. LeaderInv'
  <2>1. CASE a = Leader /\ peer'[a] # {}
    <3>1. PICK y \in peer'[a] : TRUE
      BY <2>1
    <3>2. y \in Member /\ y # a
      BY <3>1, TypeInvElim DEF Before, RoleInv
    <3>3. \A j \in Inum : ~Purges(ilist'[a][j].val, y)
      BY <1>8, <3>1, <3>2 DEF PartInv, Gone
    <3> QED BY <1>1, <2>1, <3>2, <3>3 DEF LeaderInv
  <2>2. CASE ~(a = Leader /\ peer'[a] # {})
    <3>1. PICK y \in Member \ {Leader} :
            \A j \in Inum : Pledged(Leader, j) => ~Purges(ilist[Leader][j].val, y)
      BY DEF Before, AgreeInv, LeaderInv
    <3>2. ASSUME NEW j \in Inum, Pledged(Leader, j)' PROVE ~Purges(ilist'[Leader][j].val, y)
      <4>1. Pledged(Leader, j)
        BY <1>1, <1>6, <2>2, <3>2 DEF Sound
      <4>2. Safe(j, ilist[Leader][j].val) /\ Safe(j, ilist'[Leader][j].val)
        BY <1>1, <1>2, <1>3, <1>6, <3>2, <4>1 DEF PledgeInv, Sound
      <4>3. ilist'[Leader][j].val = ilist[Leader][j].val
        BY <4>2 DEF Safe, Has
      <4> QED BY <3>1, <4>1, <4>3
    <3> QED BY <1>1, <3>1, <3>2 DEF LeaderInv
  <2> QED BY <2>1, <2>2
<1>10. Keeping
  <2>1. \A z \in {First, Second}, j \in Inum : \A v : Has(z, j, v) => Has(z, j, v)'
    BY <1>1, <1>4, FirstHas, SecondHas
  <2>2. ASSUME NEW b \in Member, NEW j \in Inum, Uncached(b, j) PROVE Uncached(b, j)'
    <3>1. Learns(b) /\ Filled(b, j)
      BY <2>2, ListsKept, CommittedFilled DEF Uncached, Before
    <3>2. ilist'[b][j].val = ilist[b][j].val
      BY <2>2, <3>1 DEF Learns, Uncached, Filled
    <3>3. ilist'[b][j].committed
      <4>1. CASE b = a /\ j = i
        BY <1>2, <2>2, <3>2, <4>1 DEF Sound, Uncached
      <4>2. CASE ~(b = a /\ j = i)
        BY <1>2, <2>2, <4>2 DEF Uncached
      <4> QED BY <4>1, <4>2
    <3> QED BY <2>2, <3>2, <3>3 DEF Uncached
  <2>3. ASSUME NEW b \in Member \ {First, Second}, NEW j \in Inum, ~Won',
               ballot[b].id = Second, Filled(b, j)'
        PROVE  Filled(b, j) \/ Filled(Second, j)'
    <3>1. CASE b = a /\ j = i
      <4>1. Filled(a, i) \/ Filled(Second, i)
        BY <1>2, <2>3, <3>1 DEF Sound, Filled
      <4> QED BY <1>1, <3>1, <4>1, ListsKept
    <3>2. CASE ~(b = a /\ j = i)
      <4>1. ilist'[b][j] = ilist[b][j]
        BY <1>2, <3>2
      <4> QED BY <2>3, <4>1 DEF Filled
    <3> QED BY <3>1, <3>2
  <2> QED BY <1>5, <2>1, <2>2, <2>3 DEF Keeping
<1>11. \A x, y \in Member : \A m \in Contents(link', x, y) : Meets(x, y, m)'
  BY <1>10, OldMeets DEF WellWritten
<1> QED BY <1>4, <1>7, <1>8, <1>9, <1>11 DEF AgreeInv

-----------------------------------------------------------------------------
(* What is written. *)

Writes(net, a) ==
  \A x, y \in Member : \A m \in Contents(net, x, y) :
    m \in Contents(link, x, y) \/ (x = a /\ Meets(a, y, m)')

LEMMA WithinWrites ==
  ASSUME NEW a \in Member, NEW net, Within(net, link)
  PROVE  Writes(net, a)
BY DEF Within, Writes

LEMMA SendWrites ==
  ASSUME TypeInv, NEW a \in Member, NEW net \in Links, Writes(net, a), NEW to, NEW m,
         \A y \in to \cap Member : a \in peer[y] => Meets(a, y, m)'
  PROVE  Writes(Send(net, a, to, m), a)
<1> SUFFICES ASSUME NEW x \in Member, NEW y \in Member,
                    NEW k \in Contents(Send(net, a, to, m), x, y)
             PROVE  k \in Contents(link, x, y) \/ (x = a /\ Meets(a, y, k)')
  BY DEF Writes
<1>1. k \in Contents(net, x, y) \/ (x = a /\ y \in to /\ a \in peer[y] /\ k = m)
  BY SendContents
<1> QED BY <1>1 DEF Writes

(* A message that says nothing of instances. *)
LEMMA MeetsFreely ==
  ASSUME NEW m, m.op \in {"redirect", "reject", "retry", "refuse"}
  PROVE  \A x, y : Meets(x, y, m)'
BY DEF Meets, Decides

(* A message that is read, and what is left to read. *)
LEMMA Reading ==
  ASSUME Before, NEW a \in Member, NEW x \in Member, NEW op, Incoming(a, x, op)
  PROVE  /\ status[a] = "live" /\ x \in peer[a] /\ x # a /\ call[a] = Return
         /\ ~Redecreeing(a) /\ ~Draining(a) /\ Quiet
         /\ Msg(a, x).op = op /\ Msg(a, x) \in Message /\ Msg(a, x) \in Contents(link, x, a)
         /\ Meets(x, a, Msg(a, x)) /\ Led(x, a, Msg(a, x)) /\ Directed(x, a, Msg(a, x))
         /\ Rest(a, x) \in Links /\ Writes(Rest(a, x), a) /\ Within(Rest(a, x), link)
<1>1. /\ status[a] = "live" /\ x \in peer[a] /\ x # a /\ call[a] = Return
      /\ ~Redecreeing(a) /\ ~Draining(a)
      /\ Msg(a, x).op = op /\ Msg(a, x) \in Message /\ Led(x, a, Msg(a, x))
      /\ Rest(a, x) \in Links
  BY Read DEF Before
<1>2. Msg(a, x) \in Contents(link, x, a) /\ Within(Rest(a, x), link)
  BY RestContents DEF Before
<1>3. Meets(x, a, Msg(a, x))
  BY <1>2 DEF Before, AgreeInv
<1>4. Directed(x, a, Msg(a, x))
  BY Received DEF Before
<1>5. Quiet
  BY DEF Incoming
<1> QED BY <1>1, <1>2, <1>3, <1>4, <1>5, WithinWrites

-----------------------------------------------------------------------------
(***************************************************************************)
(* Steps that change no ballot, and by which nobody wins.                  *)
(***************************************************************************)
Turns ==
  /\ UNCHANGED ballot
  /\ \A b \in Member : peer'[b] \subseteq peer[b] /\ Defers(b)
  /\ \A b \in Member : status'[b] = "live" =>
       /\ status[b] = "live" /\ (Leads(b)' <=> Leads(b))
       /\ IsProposer(b)' => b \in {First, Second}

LEMMA TurnKept ==
  ASSUME Before, Turns
  PROVE  (Won' <=> Won) /\ \A b \in Member : TurnInv(b)'
<1>1. Won' <=> Won
  BY DEF Turns, Won
<1>2. ASSUME NEW b \in Member PROVE TurnInv(b)'
  <2>1. TurnInv(b) /\ ballot'[b] = ballot[b] /\ peer'[b] \subseteq peer[b]
    BY DEF Before, AgreeInv, Turns
  <2>2. /\ ballot'[b].id \in {First, Second}
        /\ b = First => ballot'[b].id = First
        /\ b # First /\ (Won' \/ ballot'[b].id = Second) => ballot'[b].id = Second /\ First \notin peer'[b]
    BY <1>1, <2>1 DEF TurnInv
  <2>3. status'[b] = "live" /\ IsProposer(b)' => b \in {First, Second}
    BY DEF Turns
  <2>4. status'[b] = "live" /\ b = Second => (Leads(b)' <=> Won')
    BY <1>1, <2>1 DEF Turns, TurnInv
  <2> QED BY <2>2, <2>3, <2>4 DEF TurnInv
<1> QED BY <1>1, <1>2

LEMMA AlistKept ==
  ASSUME Before, After, NEW b \in Member, alist'[b] = alist[b]
  PROVE  AlistInv(b)'
<1>1. AlistInv(b) /\ LogInv(b)
  BY DEF Before, AgreeInv, HoleInv
<1>2. Learns(b) /\ ihole[b] \in Nat /\ ihole'[b] \in Nat /\ ihole[b] <= ihole'[b]
  BY ListsKept
<1>3. ASSUME NEW y \in Member \ alist[b]
      PROVE  \E i \in Inum : i < ihole'[b] /\ Purges(ilist'[b][i].val, y)
  <2>1. PICK i \in Inum : i < ihole[b] /\ Purges(ilist[b][i].val, y)
    BY <1>1 DEF AlistInv
  <2>2. ilist'[b][i].val = ilist[b][i].val
    BY <1>1, <1>2, <2>1 DEF LogInv, Learns
  <2>3. i < ihole'[b]
    BY <1>2, <2>1, BaseInum
  <2> QED BY <2>1, <2>2, <2>3
<1> QED BY <1>1, <1>3 DEF AlistInv

LEMMA TurnAgree ==
  ASSUME Before, After, Turns, \A b \in Member : AlistInv(b)',
         NEW a \in Member, NEW i \in Inum, NEW e, Sound(a, i, e),
         ilist' = [ilist EXCEPT ![a][i] = e], Commits(a, i), Writes(link', a)
  PROVE  AgreeInv'
<1>1. (Won' <=> Won) /\ \A b \in Member : TurnInv(b)'
  BY TurnKept
<1>2. /\ \A b \in Member : ballot[b].id = Second => ballot'[b].id = Second
      /\ \A b \in Member : peer'[b] \subseteq peer[b] /\ Defers(b)
  BY DEF Turns
<1>3. WellWritten(a)
  BY DEF Writes, WellWritten
<1> QED BY <1>1, <1>2, <1>3, AgreeStep

(* An instance that keeps its value. *)
LEMMA SameSound ==
  ASSUME Before, NEW a \in Member, NEW i \in Inum, NEW e, peer'[a] \subseteq peer[a],
         e.bal = ilist[a][i].bal, e.val = ilist[a][i].val,
         ilist[a][i].committed => e.committed \/ ~NeedsCached(e.val),
         e.committed \/ e.opcode = "commit" \/ Committing(a, i)' =>
           Pledged(a, i) \/ (Safe(i, e.val) /\ (a = Leader => peer'[a] # {}))
  PROVE  Sound(a, i, e)
<1>1. PledgeInv(a) /\ FollowInv(a) /\ PartInv(a)
  BY DEF Before, AgreeInv
<1>2. e.bal # NoBallot => Filled(a, i)
  BY DEF Filled
<1>3. e.bal # NoBallot /\ a # First /\ ~Won => Has(First, i, e.val)
  BY <1>1, <1>2 DEF FollowInv
<1>4. \A y \in Member : Purges(e.val, y) => y # a /\ y \notin peer'[a]
  BY <1>1 DEF PartInv, Gone
<1>5. a = First => e.val.kind # "kill"
  BY <1>1 DEF PartInv
<1>6. Pledged(a, i) => Safe(i, e.val)
  BY <1>1 DEF PledgeInv
<1> QED BY <1>2, <1>3, <1>4, <1>5, <1>6 DEF Sound

(* A step that leaves the instances alone. *)
LEMMA SameAgree ==
  ASSUME Before, After, Turns, UNCHANGED <<ilist, alist>>,
         \A b \in Member, j \in Inum : Committing(b, j)' => Pledged(b, j),
         NEW a \in Member, Writes(link', a)
  PROVE  AgreeInv'
<1>1. Base \in Inum
  BY BaseInum
<1>2. PICK e : e = ilist[a][Base]
  OBVIOUS
<1>3. ilist' = [ilist EXCEPT ![a][Base] = e]
  BY <1>1, <1>2, TypeInvElim DEF Before, Lists
<1>4. Sound(a, Base, e)
  <2>1. peer'[a] \subseteq peer[a]
    BY DEF Turns
  <2> QED BY <1>1, <1>2, <2>1, SameSound DEF Pledged
<1>5. Commits(a, Base)
  BY DEF Commits
<1>6. \A b \in Member : AlistInv(b)'
  BY AlistKept
<1> QED BY <1>1, <1>3, <1>4, <1>5, <1>6, TurnAgree

(* Nothing but the connections of a member changes, if that. *)
LEMMA PlainTurns ==
  ASSUME Before, NEW a \in Member, UNCHANGED <<ballot, proposer, prep, dparts, idefer>>,
         \/ UNCHANGED <<status, peer>>
         \/ \E net : \E why \in {"ended"} \cup Failure : Stop(a, why, net)
  PROVE  Turns
<1>1. \A b \in Member : peer'[b] \subseteq peer[b] /\ (status'[b] = "live" => status[b] = "live")
  <2>1. CASE UNCHANGED <<status, peer>>
    BY <2>1
  <2>2. CASE \E net : \E why \in {"ended"} \cup Failure : Stop(a, why, net)
    <3>1. status \in [Member -> {"live", "ended"} \cup Failure] /\ peer \in [Member -> SUBSET Member]
      BY TypeInvElim DEF Before
    <3>2. PICK why \in {"ended"} \cup Failure : status' = [status EXCEPT ![a] = why] /\ peer' = [peer EXCEPT ![a] = {}]
      BY <2>2 DEF Stop
    <3>3. why # "live"
      BY DEF Failure
    <3> QED BY <3>1, <3>2, <3>3
  <2> QED BY <2>1, <2>2
<1>2. \A b \in Member : Defers(b)
  BY DEF Defers, Deferred
<1>3. ASSUME NEW b \in Member, status'[b] = "live"
      PROVE  /\ status[b] = "live" /\ (Leads(b)' <=> Leads(b))
             /\ IsProposer(b)' => b \in {First, Second}
  <2>1. TurnInv(b) /\ status[b] = "live"
    BY <1>1, <1>3 DEF Before, AgreeInv
  <2> QED BY <1>3, <2>1 DEF Leads, IsProposer, Preparing, TurnInv
<1> QED BY <1>1, <1>2, <1>3 DEF Turns

LEMMA StopWrites ==
  ASSUME NEW a \in Member, NEW why, NEW net, Writes(net, a), Stop(a, why, net)
  PROVE  Writes(link', a)
<1>1. Within(link', net)
  BY UnreadContents DEF Stop
<1> QED BY <1>1 DEF Writes, Within

LEMMA SameCalls ==
  ASSUME UNCHANGED call
  PROVE  \A b \in Member, j \in Inum : Committing(b, j)' => Pledged(b, j)
BY DEF Committing, Pledged

(* A handler that reads, answers, or dies. *)
LEMMA PlainAgree ==
  ASSUME Before, After, NEW a \in Member,
         UNCHANGED <<alist, ballot, proposer, prep, dparts, idefer, ilist, call>>,
         \/ UNCHANGED <<status, peer>> /\ Writes(link', a)
         \/ \E why \in {"ended"} \cup Failure : Stop(a, why, link)
  PROVE  AgreeInv'
<1>1. Turns
  BY PlainTurns
<1>2. Writes(link', a)
  <2>1. Within(link, link)
    BY DEF Within
  <2> QED BY <2>1, WithinWrites, StopWrites
<1> QED BY <1>1, <1>2, SameAgree, SameCalls

(* What keeps all values keeps what may commit. *)
LEMMA SameValues ==
  ASSUME Before, UNCHANGED ballot,
         \A b \in Member, j \in Inum : ilist'[b][j].bal = ilist[b][j].bal /\ ilist'[b][j].val = ilist[b][j].val
  PROVE  /\ \A b \in Member, j \in Inum : \A v : Has(b, j, v)' <=> Has(b, j, v)
         /\ \A j \in Inum : \A v : Safe(j, v)' <=> Safe(j, v)
<1>1. /\ \A b \in Member, j \in Inum : Filled(b, j)' <=> Filled(b, j)
      /\ \A b \in Member, j \in Inum : \A v : Has(b, j, v)' <=> Has(b, j, v)
  BY DEF Has, Filled
<1>2. Leader' = Leader /\ Leader \in Member
  BY LeaderType DEF Leader, Won, Before
<1>3. ASSUME NEW j \in Inum, NEW v PROVE Safe(j, v)' <=> Safe(j, v)
  BY <1>1, <1>2 DEF Safe
<1> QED BY <1>1, <1>3

-----------------------------------------------------------------------------
(* Requests. *)

LEMMA AcceptorAckRequestAgree ==
  ASSUME Before, After, NEW a \in Member, NEW x \in Member, AcceptorAckRequest(a, x)
  PROVE  AgreeInv'
<1>1. Incoming(a, x, "request")
  BY DEF AcceptorAckRequest
<1>2. Rest(a, x) \in Links /\ Writes(Rest(a, x), a)
  BY <1>1, Reading
<1>3. Writes(link', a)
  <2> PICK r : r = [op |-> "refuse", who |-> proposer[a]]
    OBVIOUS
  <2>1. \A y : Meets(a, y, r)'
    BY MeetsFreely
  <2>2. link' \in {Rest(a, x), Send(Rest(a, x), a, {x}, r)}
    BY DEF AcceptorAckRequest
  <2>3. Writes(Send(Rest(a, x), a, {x}, r), a)
    BY <1>2, <2>1, SendWrites DEF Before
  <2> QED BY <1>2, <2>2, <2>3
<1> QED BY <1>3, PlainAgree DEF AcceptorAckRequest, sess, ballots, defers, logs

LEMMA AckRefuseAgree ==
  ASSUME Before, After, NEW a \in Member, NEW x \in Member, AckRefuse(a, x)
  PROVE  AgreeInv'
<1>1. Incoming(a, x, "refuse")
  BY DEF AckRefuse
<1>2. Writes(Rest(a, x), a)
  BY <1>1, Reading
<1>3. \/ UNCHANGED <<status, peer>> /\ Writes(link', a)
      \/ \E why \in {"ended"} \cup Failure : Stop(a, why, link)
  BY <1>2 DEF AckRefuse, Failure
<1> QED BY <1>3, PlainAgree DEF AckRefuse, ballots, defers, logs

LEMMA AckRetrieveAgree ==
  ASSUME Before, After, NEW a \in Member, NEW x \in Member, AckRetrieve(a, x)
  PROVE  AgreeInv'
<1>1. Incoming(a, x, "retrieve")
  BY DEF AckRetrieve
<1> PICK m : m = Msg(a, x)
  OBVIOUS
<1> PICK r : r = [op |-> "resend", inum |-> m.inum, val |-> m.val]
  OBVIOUS
<1>2. Rest(a, x) \in Links /\ Writes(Rest(a, x), a) /\ m.op = "retrieve" /\ Meets(x, a, m)
  BY <1>1, Reading
<1>3. m.who \in Member /\ Uncached(m.who, m.inum)
  BY <1>2 DEF Meets
<1>4. link' \in {Rest(a, x), Send(Rest(a, x), a, {m.who} \cap peer[a], r)}
  BY DEF AckRetrieve
<1>5. Meets(a, m.who, r)'
  BY <1>3 DEF AckRetrieve, logs, Uncached, Meets, Decides
<1>6. Writes(link', a)
  BY <1>2, <1>4, <1>5, SendWrites DEF Before
<1> QED BY <1>6, PlainAgree DEF AckRetrieve, sess, ballots, defers, logs

LEMMA EnterCalls ==
  ASSUME Before, NEW a \in Member, NEW i \in Inum, Enter(a, i)
  PROVE  \A b \in Member, j \in Inum : Committing(b, j)' => Pledged(b, j) \/ (b = a /\ j = i)
<1>1. call' = [call EXCEPT ![a] = [fn |-> "commit", inum |-> i]] /\ call \in [Member -> Call]
  BY TypeInvElim DEF Enter, Before
<1>2. call'[a] = [fn |-> "commit", inum |-> i] /\ \A b \in Member \ {a} : call'[b] = call[b]
  BY <1>1
<1> QED BY <1>2 DEF Committing, Pledged

(* Who asked for the data has committed. *)
LEMMA AckResendAgree ==
  ASSUME Before, After, NEW a \in Member, NEW x \in Member, AckResend(a, x)
  PROVE  AgreeInv'
<1>1. Incoming(a, x, "resend")
  BY DEF AckResend
<1> PICK m : m = Msg(a, x)
  OBVIOUS
<1>2. Writes(Rest(a, x), a) /\ m.op = "resend" /\ m \in Message /\ Meets(x, a, m)
  BY <1>1, Reading
<1>3. Uncached(a, m.inum) /\ m.inum \in Inum
  BY <1>2, MessageFields DEF Meets
<1>4. UNCHANGED call \/ Enter(a, m.inum)
  BY DEF AckResend
<1>5. \A b \in Member, j \in Inum : Committing(b, j)' => Pledged(b, j)
  <2>1. Pledged(a, m.inum)
    BY <1>3 DEF Uncached, Pledged
  <2> QED BY <1>3, <1>4, <2>1, EnterCalls, SameCalls
<1>6. Turns
  BY PlainTurns DEF AckResend, sess, ballots, defers
<1>7. Writes(link', a)
  BY <1>2 DEF AckResend
<1> QED BY <1>5, <1>6, <1>7, SameAgree DEF AckResend, sess, logs

(* What a proposer on its way says that it has committed. *)
LEMMA CommitMeets ==
  ASSUME Before, NEW a \in Member, status[a] = "live", IsProposer(a), NEW i \in Inum,
         Pledged(a, i) \/ Safe(i, ilist[a][i].val), Filled(a, i),
         \A j \in Inum : \A v : (Has(a, j, v)' <=> Has(a, j, v)) /\ (Safe(j, v)' <=> Safe(j, v)),
         NEW y \in peer[a], NEW m, m.op \in {"commit", "recommit"}, m.inum = i, m.val = ilist[a][i].val
  PROVE  Meets(a, y, m)'
<1>1. PledgeInv(a) /\ PartInv(a) /\ TurnInv(a)
  BY DEF Before, AgreeInv
<1>2. Safe(i, m.val) /\ Has(a, i, m.val)
  BY <1>1 DEF PledgeInv, Has
<1>3. Safe(m.inum, m.val)' /\ Has(a, m.inum, m.val)'
  BY <1>2
<1>4. y \in Member
  BY TypeInvElim DEF Before
<1>5. ~Purges(m.val, y)
  BY <1>1, <1>4 DEF PartInv, Gone
<1>6. a \in {First, Second}
  BY <1>1 DEF TurnInv
<1> QED BY <1>3, <1>5, <1>6 DEF Meets, Decides

LEMMA AckRetryAgree ==
  ASSUME Before, After, NEW a \in Member, NEW x \in Member, AckRetry(a, x)
  PROVE  AgreeInv'
<1>1. Incoming(a, x, "retry")
  BY DEF AckRetry
<1> PICK m : m = Msg(a, x)
  OBVIOUS
<1> PICK e : e = ilist[a][m.inum]
  OBVIOUS
<1> PICK r : r = [op |-> "recommit", bal |-> m.bal, inum |-> m.inum, val |-> e.val]
  OBVIOUS
<1>2. /\ Rest(a, x) \in Links /\ Writes(Rest(a, x), a) /\ m.op = "retry" /\ m \in Message
      /\ status[a] = "live"
  BY <1>1, Reading
<1>3. m.inum \in Inum
  BY <1>2, MessageFields
<1>4. \/ link' = Rest(a, x) /\ UNCHANGED <<status, peer>>
      \/ Stop(a, "instance", link)
      \/ /\ IsProposer(a) /\ e.committed /\ link' = Send(Rest(a, x), a, peer[a], r)
         /\ UNCHANGED <<status, peer>>
  BY DEF AckRetry
<1>5. UNCHANGED <<ilist, ballot>>
  BY DEF AckRetry, logs, ballots
<1>6. ASSUME IsProposer(a), e.committed, link' = Send(Rest(a, x), a, peer[a], r)
      PROVE  Writes(link', a)
  <2>1. Pledged(a, m.inum) /\ Filled(a, m.inum)
    BY <1>3, <1>6, CommittedFilled DEF Pledged, Before
  <2>2. \A j \in Inum : \A v : (Has(a, j, v)' <=> Has(a, j, v)) /\ (Safe(j, v)' <=> Safe(j, v))
    BY <1>5, SameValues
  <2>3. \A y \in peer[a] : Meets(a, y, r)'
    <3> TAKE y \in peer[a]
    <3>1. r.op = "recommit" /\ r.inum = m.inum /\ r.val = ilist[a][m.inum].val
      OBVIOUS
    <3> HIDE DEF Meets
    <3> QED BY <1>2, <1>3, <1>6, <2>1, <2>2, <3>1, CommitMeets
  <2> QED BY <1>2, <1>6, <2>3, SendWrites DEF Before
<1>7. \/ UNCHANGED <<status, peer>> /\ Writes(link', a)
      \/ \E why \in {"ended"} \cup Failure : Stop(a, why, link)
  BY <1>2, <1>4, <1>6 DEF Failure
<1> QED BY <1>7, PlainAgree DEF AckRetry, ballots, defers, logs

LEMMA LeaveAgree ==
  ASSUME Before, After, NEW a \in Member, Leave(a)
  PROVE  AgreeInv'
<1>1. Stop(a, "ended", link)
  BY DEF Leave
<1> QED BY <1>1, PlainAgree DEF Leave, ballots, defers, logs

-----------------------------------------------------------------------------
(* The rest of a call. *)

LEMMA LearnEndAgree ==
  ASSUME Before, After, NEW a \in Member, LearnEnd(a)
  PROVE  AgreeInv'
<1>1. UNCHANGED <<status, peer, alist, proposer, ballot, prep, dparts, idefer, ilist, link>>
  BY DEF LearnEnd, sess, ballots, defers
<1>2. \A b \in Member, j \in Inum : Committing(b, j)' => Pledged(b, j)
  <2>1. call' = [call EXCEPT ![a] = Return] /\ call \in [Member -> Call]
    BY TypeInvElim DEF LearnEnd, Before
  <2>2. call'[a] = Return /\ \A b \in Member \ {a} : call'[b] = call[b]
    BY <2>1
  <2> QED BY <2>2 DEF Committing, Pledged, Return
<1>3. Turns
  BY <1>1, PlainTurns
<1>4. Writes(link', a)
  <2>1. Within(link', link)
    BY <1>1 DEF Within
  <2> QED BY <2>1, WithinWrites
<1> QED BY <1>1, <1>2, <1>3, <1>4, SameAgree

(* Who has its majority leads, with its prepare or without. *)
LEMMA EndPrepareAgree ==
  ASSUME Before, After, NEW a \in Member, EndPrepare(a)
  PROVE  AgreeInv'
<1>1. UNCHANGED <<status, peer, alist, proposer, ballot, dparts, idefer, ilist, call, link>>
  BY DEF EndPrepare, sess, defers, logs
<1>2. prep' = [prep EXCEPT ![a] = NoPrep] /\ prep \in [Member -> Prep] /\ ballot[a] = prep[a].bal
  BY TypeInvElim DEF EndPrepare, Redecreeing, Before
<1>3. prep'[a] = NoPrep /\ \A b \in Member \ {a} : prep'[b] = prep[b]
  BY <1>2
<1>4. \A b \in Member : Leads(b)' <=> Leads(b)
  <2> TAKE b \in Member
  <2>1. CASE b = a
    BY <1>1, <1>2, <1>3, <2>1 DEF Leads, IsProposer, Preparing
  <2>2. CASE b # a
    BY <1>1, <1>3, <2>2 DEF Leads, IsProposer, Preparing
  <2> QED BY <2>1, <2>2
<1>5. Turns
  <2>1. \A b \in Member : Defers(b) /\ peer'[b] \subseteq peer[b]
    BY <1>1 DEF Defers, Deferred
  <2>2. \A b \in Member : status'[b] = "live" /\ IsProposer(b)' => b \in {First, Second}
    BY <1>1 DEF Before, AgreeInv, TurnInv, IsProposer
  <2> QED BY <1>1, <1>4, <2>1, <2>2 DEF Turns
<1>6. Writes(link', a)
  <2>1. Within(link', link)
    BY <1>1 DEF Within
  <2> QED BY <2>1, WithinWrites
<1> QED BY <1>1, <1>5, <1>6, SameAgree, SameCalls

LEMMA CommitAgree ==
  ASSUME Before, After, NEW a \in Member, Commit(a)
  PROVE  AgreeInv'
<1> PICK i : i = call[a].inum
  OBVIOUS
<1> PICK v : v = ilist[a][i].val
  OBVIOUS
<1> PICK r : r = [op |-> "retrieve", who |-> a, inum |-> i, val |-> v]
  OBVIOUS
<1>1. call[a] \in Call /\ call \in [Member -> Call] /\ ilist \in Lists /\ link \in Links
  BY TypeInvElim DEF Before
<1>2. i \in Inum /\ Committing(a, i) /\ Pledged(a, i)
  BY <1>1 DEF Commit, Call, Committing, Pledged
<1>3. UNCHANGED <<alist, proposer, ballot, prep, dparts, idefer>>
  BY DEF Commit, ballots, defers
<1>4. ilist[a][i] \in Entry
  BY <1>1, <1>2 DEF Lists
<1>5. \/ \E why \in {"ended"} \cup Failure : Stop(a, why, link) /\ UNCHANGED <<ilist, call>>
      \/ /\ UNCHANGED <<status, peer>>
         /\ \E e : /\ ilist' = [ilist EXCEPT ![a][i] = e]
                   /\ e.bal = ilist[a][i].bal /\ e.val = v /\ e.committed
         /\ call'[a].fn # "commit" /\ \A b \in Member \ {a} : call'[b] = call[b]
         /\ Within(link', link) \/ link' = Send(link, a, {proposer[a]}, [op |-> "retry", bal |-> ballot[a], inum |-> ihole[a]])
            \/ (NeedsCached(v) /\ link' = Send(link, a, IF v.by \in peer[a] THEN {v.by} ELSE peer[a], r))
  <2>1. Within(link, link)
    BY DEF Within
  <2>2. CASE CommitUncached(a, i) /\ UNCHANGED <<status, peer>> /\ NeedsCached(v)
    <3>1. \E e : /\ ilist' = [ilist EXCEPT ![a][i] = e]
                 /\ e.bal = ilist[a][i].bal /\ e.val = v /\ e.committed
      <4> WITNESS [ilist[a][i] EXCEPT !.committed = TRUE]
      <4> QED BY <1>1, <1>2, <1>4, <2>2 DEF CommitUncached, Lists, Entry
    <3>2. call'[a].fn # "commit" /\ \A b \in Member \ {a} : call'[b] = call[b]
      BY <1>1, <2>2 DEF CommitUncached, Return
    <3> QED BY <2>2, <3>1, <3>2 DEF CommitUncached, Retrieve
  <2>3. CASE CommitPastHole(a, i) /\ UNCHANGED <<status, peer>>
    <3>1. \E e : /\ ilist' = [ilist EXCEPT ![a][i] = e]
                 /\ e.bal = ilist[a][i].bal /\ e.val = v /\ e.committed
      <4> WITNESS [ilist[a][i] EXCEPT !.committed = TRUE, !.cached = TRUE]
      <4> QED BY <1>1, <1>2, <1>4, <2>3 DEF CommitPastHole, Lists, Entry
    <3>2. call'[a].fn # "commit" /\ \A b \in Member \ {a} : call'[b] = call[b]
      BY <1>1, <2>3 DEF CommitPastHole, Return
    <3> QED BY <2>1, <2>3, <3>1, <3>2 DEF CommitPastHole
  <2>4. CASE CommitHole(a, i) /\ UNCHANGED <<status, peer>>
    <3>1. \E e : /\ ilist' = [ilist EXCEPT ![a][i] = e]
                 /\ e.bal = ilist[a][i].bal /\ e.val = v /\ e.committed
      <4> WITNESS [ilist[a][i] EXCEPT !.committed = TRUE, !.cached = TRUE]
      <4> QED BY <1>1, <1>2, <1>4, <2>4 DEF CommitHole, Lists, Entry
    <3>2. call'[a].fn # "commit" /\ \A b \in Member \ {a} : call'[b] = call[b]
      BY <1>1, <2>4 DEF CommitHole, Return
    <3> QED BY <2>1, <2>4, <3>1, <3>2 DEF CommitHole
  <2>5. CASE UNCHANGED <<ilist, call>> /\ (Stop(a, "commit_learned", link) \/ Stop(a, "commit_istart", link))
    BY <2>5 DEF Failure
  <2> QED BY <2>2, <2>3, <2>4, <2>5 DEF Commit, logs
<1>6. CASE \E why \in {"ended"} \cup Failure : Stop(a, why, link) /\ UNCHANGED <<ilist, call>>
  BY <1>3, <1>6, PlainAgree
<1>7. ASSUME UNCHANGED <<status, peer>>,
             NEW e, ilist' = [ilist EXCEPT ![a][i] = e], e.bal = ilist[a][i].bal, e.val = v, e.committed,
             call'[a].fn # "commit", \A b \in Member \ {a} : call'[b] = call[b],
             \/ Within(link', link)
             \/ link' = Send(link, a, {proposer[a]}, [op |-> "retry", bal |-> ballot[a], inum |-> ihole[a]])
             \/ NeedsCached(v) /\ link' = Send(link, a, IF v.by \in peer[a] THEN {v.by} ELSE peer[a], r)
      PROVE  AgreeInv'
  <2>1. Turns
    BY <1>3, <1>7, PlainTurns
  <2>2. Sound(a, i, e)
    BY <1>2, <1>7, SameSound
  <2>3. Commits(a, i)
    BY <1>7 DEF Commits, Committing, Pledged
  <2>4. \A b \in Member : AlistInv(b)'
    BY <1>3, AlistKept
  <2>5. Within(link, link) /\ Writes(link, a)
    <3>1. Within(link, link)
      BY DEF Within
    <3> QED BY <3>1, WithinWrites
  <2>6. Writes(link', a)
    <3>1. CASE Within(link', link)
      BY <3>1, WithinWrites
    <3>2. CASE link' = Send(link, a, {proposer[a]}, [op |-> "retry", bal |-> ballot[a], inum |-> ihole[a]])
      <4> PICK m : m = [op |-> "retry", bal |-> ballot[a], inum |-> ihole[a]]
        OBVIOUS
      <4>1. \A y : Meets(a, y, m)'
        BY MeetsFreely
      <4> QED BY <1>1, <2>5, <3>2, <4>1, SendWrites DEF Before
    <3>3. CASE NeedsCached(v) /\ link' = Send(link, a, IF v.by \in peer[a] THEN {v.by} ELSE peer[a], r)
      <4>1. ilist'[a][i] = e
        BY <1>1, <1>2, <1>7 DEF Lists
      <4>2. Uncached(a, i)'
        BY <1>7, <3>3, <4>1 DEF Uncached
      <4>3. \A y : Meets(a, y, r)'
        BY <4>2 DEF Meets, Decides
      <4> QED BY <1>1, <2>5, <3>3, <4>3, SendWrites DEF Before
    <3> QED BY <1>7, <3>1, <3>2, <3>3
  <2> QED BY <1>2, <1>7, <2>1, <2>2, <2>3, <2>4, <2>6, TurnAgree
<1> QED BY <1>5, <1>6, <1>7

(* Who is parted was lost, so that no proposer is parted by its acceptors. *)
LEMMA LearnAgree ==
  ASSUME Before, After, NEW a \in Member, Learn(a)
  PROVE  AgreeInv'
<1> PICK h : h = ihole[a]
  OBVIOUS
<1> PICK v : v = ilist[a][h].val
  OBVIOUS
<1>1. /\ UNCHANGED <<ballot, idefer, istart, rcache, clist, call, lost>>
      /\ status[a] = "live" /\ h \in Inum /\ ilist[a][h].committed
  BY DEF Learn, Learnable
<1>2. /\ ilist \in Lists /\ ihole \in [Member -> Base + 1 .. MaxInum + 1] /\ alist \in [Member -> SUBSET Member]
      /\ peer \in [Member -> SUBSET Member] /\ proposer \in [Member -> Member]
  BY TypeInvElim DEF Before
<1>3. ilist[a][h] \in Entry
  BY <1>1, <1>2 DEF Lists
<1>4. PartInv(a) /\ AlistInv(a) /\ LogInv(a)
  BY DEF Before, AgreeInv, HoleInv
<1>5. ASSUME NEW y \in Member, Purges(v, y) PROVE y # a /\ y \notin peer[a] /\ y # proposer[a]
  <2>1. y # a /\ y \notin peer[a]
    BY <1>1, <1>4, <1>5 DEF PartInv, Gone
  <2>2. proposer[a] \in {a} \cup peer[a]
    BY <1>1, <1>2, ElectedType DEF Before, RoleInv, ProposerIsFirst
  <2> QED BY <2>1, <2>2
<1>6. \/ \E why \in {"ended"} \cup Failure :
           Stop(a, why, link) /\ UNCHANGED <<alist, proposer, prep, dparts, ilist, ihole>>
      \/ /\ Learned(a) /\ UNCHANGED <<status, proposer, prep, dparts>> /\ Within(link', link)
         /\ \A b \in Member : peer'[b] \subseteq peer[b]
         /\ \/ UNCHANGED alist
            \/ \E y \in Member : Purges(v, y) /\ alist' = [alist EXCEPT ![a] = @ \ {y}]
  <2>1. Within(link, link)
    BY DEF Within
  <2>2. CASE v.kind = "chat" /\ LearnChat(a, v)
    BY <2>1, <2>2 DEF LearnChat, sess, Failure
  <2>3. CASE LearnOwnPart(a)
    BY <2>3 DEF LearnOwnPart, Failure
  <2>4. CASE Learned(a) /\ UNCHANGED <<status, sess, gen_high, prep, dparts, link>>
    BY <2>1, <2>4 DEF sess
  <2>5. CASE v.kind \in {"part", "kill"} /\ v.arg # a /\ v.arg \in alist[a] /\ LearnPart(a, v.arg)
    <3> PICK y : y = v.arg
      OBVIOUS
    <3>1. y \in Member /\ Purges(v, y)
      BY <1>2, <2>5 DEF Purges
    <3>2. y # proposer[a] /\ Reelected(a, y, peer[a] \ {y}) = proposer[a]
      BY <1>5, <3>1 DEF Reelected
    <3>3. /\ Learned(a) /\ UNCHANGED <<status, prep, dparts>>
          /\ alist' = [alist EXCEPT ![a] = alist[a] \ {y}]
          /\ proposer' = [proposer EXCEPT ![a] = proposer[a]]
          /\ peer' = [peer EXCEPT ![a] = peer[a] \ {y}]
          /\ link' = Unread(link, a, {y})
      BY <2>5, <3>2 DEF LearnPart
    <3>4. UNCHANGED proposer /\ \A b \in Member : peer'[b] \subseteq peer[b]
      BY <1>2, <3>3
    <3>5. Within(link', link)
      BY <3>3, UnreadContents
    <3> QED BY <3>1, <3>3, <3>4, <3>5
  <2> QED BY <2>2, <2>3, <2>4, <2>5 DEF Learn
<1>7. CASE \E why \in {"ended"} \cup Failure :
             Stop(a, why, link) /\ UNCHANGED <<alist, proposer, prep, dparts, ilist, ihole>>
  BY <1>1, <1>7, PlainAgree
<1>8. CASE /\ Learned(a) /\ UNCHANGED <<status, proposer, prep, dparts>> /\ Within(link', link)
           /\ \A b \in Member : peer'[b] \subseteq peer[b]
           /\ \/ UNCHANGED alist
              \/ \E y \in Member : Purges(v, y) /\ alist' = [alist EXCEPT ![a] = @ \ {y}]
  <2> PICK e : e = [ilist[a][h] EXCEPT !.learned = TRUE]
    OBVIOUS
  <2>1. /\ e.bal = ilist[a][h].bal /\ e.val = v /\ e.committed
        /\ ilist' = [ilist EXCEPT ![a][h] = e] /\ ihole' = [ihole EXCEPT ![a] = h + 1]
    BY <1>1, <1>2, <1>3, <1>8 DEF Learned, Entry, Lists
  <2>2. Sound(a, h, e)
    BY <1>1, <1>8, <2>1, SameSound DEF Pledged
  <2>3. Turns
    <3>1. \A b \in Member : Defers(b)
      BY <1>1, <1>8 DEF Defers, Deferred
    <3>2. ASSUME NEW b \in Member, status'[b] = "live"
          PROVE  /\ status[b] = "live" /\ (Leads(b)' <=> Leads(b))
                 /\ IsProposer(b)' => b \in {First, Second}
      BY <1>1, <1>8, <3>2 DEF Leads, IsProposer, Preparing, Before, AgreeInv, TurnInv
    <3> QED BY <1>1, <1>8, <3>1, <3>2 DEF Turns
  <2>4. \A b \in Member : AlistInv(b)'
    <3>1. CASE UNCHANGED alist
      BY <3>1, AlistKept
    <3>2. ASSUME NEW y \in Member, Purges(v, y), alist' = [alist EXCEPT ![a] = @ \ {y}]
          PROVE  \A b \in Member : AlistInv(b)'
      <4>1. \A b \in Member \ {a} : alist'[b] = alist[b] /\ AlistInv(b)'
        BY <1>2, <3>2, AlistKept
      <4>2. alist'[a] = alist[a] \ {y} /\ a \in alist'[a]
        BY <1>2, <1>4, <1>5, <3>2 DEF AlistInv
      <4>3. ihole'[a] = h + 1 /\ h \in Nat /\ ilist'[a][h].val = v
        BY <1>1, <1>2, <2>1, BaseInum DEF Lists
      <4>4. \A j \in Inum : j < h => ilist'[a][j].val = ilist[a][j].val
        BY <1>1, <1>2, <2>1 DEF Lists
      <4>5. ASSUME NEW z \in Member \ alist'[a]
            PROVE  \E j \in Inum : j < ihole'[a] /\ Purges(ilist'[a][j].val, z)
        <5>1. CASE z = y
          BY <1>1, <3>2, <4>3, <5>1
        <5>2. CASE z # y
          <6>1. PICK j \in Inum : j < h /\ Purges(ilist[a][j].val, z)
            BY <1>4, <4>2, <5>2 DEF AlistInv
          <6>2. j < ihole'[a] /\ Purges(ilist'[a][j].val, z)
            BY <4>3, <4>4, <6>1, BaseInum
          <6> QED BY <6>2
        <5> QED BY <5>1, <5>2
      <4> QED BY <4>1, <4>2, <4>5 DEF AlistInv
    <3> QED BY <1>8, <3>1, <3>2
  <2>5. Commits(a, h)
    BY <1>1 DEF Commits, Committing, Pledged
  <2>6. Writes(link', a)
    BY <1>8, WithinWrites
  <2> QED BY <1>1, <2>1, <2>2, <2>3, <2>4, <2>5, <2>6, TurnAgree
<1> QED BY <1>6, <1>7, <1>8

-----------------------------------------------------------------------------
(* Decrees of who leads. *)

(* Nobody is a majority by itself: who leads has not parted all others,    *)
(* and it is never parted.                                                 *)
LEMMA NotAlone ==
  ASSUME Before, NEW a \in Member
  PROVE  Majority(alist[a]) # 1 /\ Majority(alist[a]) \in Nat /\ Majority(alist[a]) >= 2
<1>1. Leader \in Member
  BY LeaderType DEF Before
<1>2. /\ PledgeInv(a) /\ AlistInv(a) /\ PartInv(Leader)
      /\ \A i \in Inum : i < ihole[a] => Pledged(a, i)
  BY <1>1 DEF Before, AgreeInv, HoleInv, LogInv, Pledged
<1>3. a \in alist[a]
  BY <1>2 DEF AlistInv
<1>4. \E z \in alist[a] : z # a
  <2>1. CASE a = Leader
    <3>1. PICK y \in Member \ {a} : \A i \in Inum : Pledged(a, i) => ~Purges(ilist[a][i].val, y)
      BY <2>1 DEF Before, AgreeInv, LeaderInv
    <3>2. y \in alist[a]
      <4> SUFFICES ASSUME y \notin alist[a] PROVE FALSE
        OBVIOUS
      <4>1. PICK i \in Inum : i < ihole[a] /\ Purges(ilist[a][i].val, y)
        BY <1>2 DEF AlistInv
      <4> QED BY <1>2, <3>1, <4>1
    <3> QED BY <3>1, <3>2
  <2>2. CASE a # Leader
    <3>1. Leader \in alist[a]
      <4> SUFFICES ASSUME Leader \notin alist[a] PROVE FALSE
        OBVIOUS
      <4>1. PICK i \in Inum : i < ihole[a] /\ Purges(ilist[a][i].val, Leader)
        BY <1>1, <1>2 DEF AlistInv
      <4>2. Has(Leader, i, ilist[a][i].val)
        BY <1>2, <4>1 DEF PledgeInv, Safe
      <4>3. Purges(ilist[Leader][i].val, Leader)
        BY <4>1, <4>2 DEF Has
      <4> QED BY <1>1, <1>2, <4>3 DEF PartInv, Gone
    <3> QED BY <2>2, <3>1
  <2> QED BY <2>1, <2>2
<1>5. PICK z \in alist[a] : z # a
  BY <1>4
<1>6. alist[a] \in SUBSET Member /\ IsFiniteSet(Member)
  BY TypeInvElim, MemberAssumption DEF Before
<1>7. IsFiniteSet(alist[a])
  BY <1>6, FS_Subset
<1>8. Cardinality({a, z}) = 2 /\ {a, z} \subseteq alist[a]
  <2>1. IsFiniteSet({a}) /\ Cardinality({a}) = 1
    BY FS_Singleton
  <2>2. Cardinality({a} \cup {z}) = Cardinality({a}) + 1
    BY <1>5, <2>1, FS_AddElement
  <2>3. {a} \cup {z} = {a, z}
    OBVIOUS
  <2> QED BY <1>3, <1>5, <2>1, <2>2, <2>3
<1>9. Cardinality(alist[a]) \in Nat /\ 2 <= Cardinality(alist[a])
  BY <1>7, <1>8, FS_Subset, FS_CardinalityType
<1> QED BY <1>9 DEF Majority

(* An instance that who leads decrees. *)
LEMMA DecreeAgree ==
  ASSUME Before, After, NEW a \in Member, Leads(a), NEW i \in Inum, NEW v, NEW e,
         ~ilist[a][i].committed, call[a].fn # "commit", Filled(a, i) => v = ilist[a][i].val,
         e = Decreed(ballot[a], v), ilist' = [ilist EXCEPT ![a][i] = e],
         \A y \in Member : Purges(v, y) => y # a /\ y \notin peer'[a],
         a = First => v.kind # "kill",
         UNCHANGED <<ballot, proposer, prep, alist, status, call>>,
         \A b \in Member : peer'[b] \subseteq peer[b] /\ Defers(b),
         NEW net \in Links, Writes(net, a),
         link' = Send(net, a, peer'[a], DecreeMsg(ballot[a], i, v))
  PROVE  AgreeInv'
<1>1. a \in {First, Second} /\ (a = Second => Won) /\ TurnInv(a) /\ Second # First
  BY TrioRanks DEF Before, AgreeInv, TurnInv, Leads
<1>2. /\ ilist \in Lists /\ ballot[a] \in Ballot /\ peer \in [Member -> SUBSET Member]
  BY TypeInvElim DEF Before
<1>3. e.bal = ballot[a] /\ e.val = v /\ e.committed = FALSE /\ e.opcode = "decree" /\ e.bal # NoBallot
  BY <1>2 DEF Decreed, Absent, Ballot, NoBallot
<1>4. Sound(a, i, e)
  BY <1>1, <1>3 DEF Sound, Committing
<1>5. Turns
  <2>1. ASSUME NEW b \in Member, status'[b] = "live"
        PROVE  /\ status[b] = "live" /\ (Leads(b)' <=> Leads(b))
               /\ IsProposer(b)' => b \in {First, Second}
    BY <2>1 DEF Leads, IsProposer, Preparing, Before, AgreeInv, TurnInv
  <2> QED BY <2>1 DEF Turns
<1>6. \A b \in Member : AlistInv(b)'
  BY AlistKept
<1>7. Commits(a, i)
  BY DEF Commits, Committing, Pledged
<1>8. Writes(link', a)
  <2> PICK m : m = DecreeMsg(ballot[a], i, v)
    OBVIOUS
  <2>1. m.op = "decree" /\ m.inum = i /\ m.val = v
    BY DEF DecreeMsg
  <2>2. ilist'[a][i] = e
    BY <1>2 DEF Lists
  <2>3. Has(a, i, v)'
    BY <1>3, <2>2 DEF Has, Filled
  <2>4. (a = Second => Won)'
    BY <1>1 DEF Won
  <2>5. \A y \in peer'[a] \cap Member : Meets(a, y, m)'
    BY <1>1, <2>1, <2>3, <2>4 DEF Meets, Decides
  <2> QED BY <2>5, SendWrites DEF Before
<1> QED BY <1>4, <1>5, <1>6, <1>7, <1>8, TurnAgree

LEMMA ProposerDecreeAgree ==
  ASSUME Before, After, NEW a \in Member, status[a] = "live", IsProposer(a), ~Preparing(a), call[a] = Return,
         NEW v, NEW pe, pe = peer'[a], NEW net \in Links, Writes(net, a), ProposerDecree(a, v, pe, net),
         \A y \in Member : Purges(v, y) => y # a /\ y \notin peer'[a],
         a = First => v.kind # "kill",
         UNCHANGED <<ballot, proposer, prep, alist, status>>,
         \A b \in Member : peer'[b] \subseteq peer[b] /\ Defers(b)
  PROVE  AgreeInv'
<1> PICK i : i = Last(ilist[a]) + 1
  OBVIOUS
<1> PICK e : e = Decreed(ballot[a], v)
  OBVIOUS
<1>1. Majority(alist[a]) # 1
  BY NotAlone
<1>2. ilist \in Lists /\ call \in [Member -> Call] /\ ballot[a] \in Ballot
  BY TypeInvElim DEF Before
<1>3. [e EXCEPT !.opcode = e.opcode] = e
  BY DEF Decreed, Absent
<1>4. /\ i <= MaxInum /\ ilist' = [ilist EXCEPT ![a][i] = e]
      /\ link' = Send(net, a, pe, DecreeMsg(ballot[a], i, v))
      /\ call' = [call EXCEPT ![a] = call[a]]
  BY <1>1, <1>3 DEF ProposerDecree
<1>5. UNCHANGED call
  BY <1>2, <1>4
<1>6. i \in Inum /\ ~Filled(a, i) /\ ~ilist[a][i].committed
  <2>1. Last(ilist[a]) \in Inum /\ LogInv(a) /\ Last(ilist[a]) \in Nat
    BY LastType, BaseInum DEF Before, HoleInv
  <2>2. i \in Inum /\ i > Last(ilist[a])
    BY <1>4, <2>1, BoundAssumption DEF Inum
  <2>3. ~Filled(a, i)
    BY <2>1, <2>2, Listed DEF Filled, Before
  <2> QED BY <2>1, <2>2, <2>3 DEF LogInv, Filled
<1>7. Leads(a) /\ call[a].fn # "commit"
  BY DEF Leads, Return
<1> QED BY <1>4, <1>5, <1>6, <1>7, DecreeAgree

LEMMA SubmitAgree ==
  ASSUME Before, After, NEW a \in Member, status[a] = "live", IsProposer(a), call[a] = Return,
         NEW v, NEW pe, pe = peer'[a], NEW net \in Links, Writes(net, a), Submit(a, v, pe, net),
         \A y \in Member : Purges(v, y) => y # a /\ y \notin peer'[a],
         v.kind # "kill", UNCHANGED <<ballot, proposer, prep, alist, status, dparts>>,
         \A b \in Member : peer'[b] \subseteq peer[b]
  PROVE  AgreeInv'
<1>1. CASE Preparing(a)
  <2>1. /\ idefer' = [idefer EXCEPT ![a] = Append(@, v)] /\ link' = net
        /\ UNCHANGED <<ilist, call>>
    BY <1>1 DEF Submit, logs
  <2>2. idefer \in [Member -> Seq(Value)]
    BY TypeInvElim DEF Before
  <2>3. idefer'[a] = Append(idefer[a], v) /\ \A b \in Member \ {a} : idefer'[b] = idefer[b]
    BY <2>1, <2>2
  <2>4. ASSUME NEW b \in Member PROVE Defers(b)
    <3>1. CASE b = a
      <4>1. idefer[a] \in Seq(Value)
        BY <2>2
      <4>2. \A w \in Deferred(a)' : w \in Deferred(a) \/ w = v
        <5> TAKE w \in Deferred(a)'
        <5>1. PICK n \in DOMAIN idefer'[a] : w = idefer'[a][n]
          BY DEF Deferred
        <5>2. DOMAIN idefer'[a] = 1 .. Len(idefer[a]) + 1 /\ DOMAIN idefer[a] = 1 .. Len(idefer[a]) /\ Len(idefer[a]) \in Nat
          BY <2>3, <4>1
        <5>3. CASE n = Len(idefer[a]) + 1
          BY <2>3, <4>1, <5>1, <5>2, <5>3
        <5>4. CASE n \in 1 .. Len(idefer[a])
          <6>1. w = idefer[a][n]
            BY <2>3, <4>1, <5>1, <5>4
          <6> QED BY <5>2, <5>4, <6>1 DEF Deferred
        <5> QED BY <5>1, <5>2, <5>3, <5>4
      <4> QED BY <3>1, <4>2 DEF Defers
    <3>2. CASE b # a
      BY <2>3, <3>2 DEF Defers, Deferred
    <3> QED BY <3>1, <3>2
  <2>5. Turns
    <3>1. ASSUME NEW b \in Member, status'[b] = "live"
          PROVE  /\ status[b] = "live" /\ (Leads(b)' <=> Leads(b))
                 /\ IsProposer(b)' => b \in {First, Second}
      BY <3>1 DEF Leads, IsProposer, Preparing, Before, AgreeInv, TurnInv
    <3> QED BY <2>4, <3>1 DEF Turns
  <2> QED BY <2>1, <2>5, SameAgree, SameCalls
<1>2. CASE ~Preparing(a)
  <2>1. ProposerDecree(a, v, pe, net) /\ UNCHANGED idefer
    BY <1>2 DEF Submit
  <2>2. \A b \in Member : Defers(b)
    BY <2>1 DEF Defers, Deferred
  <2> QED BY <1>2, <2>1, <2>2, ProposerDecreeAgree
<1> QED BY <1>1, <1>2

LEMMA RequestAgree ==
  ASSUME Before, After, NEW a \in Member, NEW v \in Chat, Request(a, v)
  PROVE  AgreeInv'
<1> PICK r : r = [op |-> "request", who |-> proposer[a], val |-> v]
  OBVIOUS
<1> PICK net : net = Send(link, a, peer[a], r)
  OBVIOUS
<1>1. v \in Value /\ v.kind = "chat"
  BY ChatAssumption
<1>2. /\ peer \in [Member -> SUBSET Member] /\ proposer[a] \in Member /\ link \in Links
  BY TypeInvElim DEF Before
<1>3. status[a] = "live" /\ UNCHANGED <<status, peer, alist, proposer, ballot, prep, dparts>> /\ call[a] = Return
  BY DEF Request, sess, ballots, Quiet, Busy
<1>4. \A y \in peer[a] : proposer[a] <= y
  BY <1>2, <1>3, ElectedType DEF Before, RoleInv, ProposerIsFirst
<1>5. \A y \in peer[a] : Meets(a, y, r)'
  BY <1>1, <1>4 DEF Meets, Decides
<1>6. Writes(link, a)
  <2>1. Within(link, link)
    BY DEF Within
  <2> QED BY <2>1, WithinWrites
<1>7. net \in Links /\ Writes(net, a)
  <2>1. proposer[a] \in Nat
    BY <1>2, MemberNat
  <2>2. r \in Message
    BY <1>1, <2>1 DEF Message
  <2> QED BY <1>2, <1>5, <1>6, <2>2, SendType, SendWrites DEF Before
<1>8. CASE IsProposer(a)
  <2> PICK pe : pe = peer[a]
    OBVIOUS
  <2>1. Submit(a, v, pe, net)
    BY <1>8 DEF Request
  <2> QED BY <1>1, <1>3, <1>7, <1>8, <2>1, SubmitAgree DEF Purges
<1>9. CASE ~IsProposer(a)
  <2>1. link' = net /\ UNCHANGED <<idefer, ilist, call>>
    BY <1>9 DEF Request, logs
  <2> QED BY <1>3, <1>7, <2>1, PlainAgree
<1> QED BY <1>8, <1>9

LEMMA ProposerAckRequestAgree ==
  ASSUME Before, After, NEW a \in Member, NEW x \in Member, ProposerAckRequest(a, x)
  PROVE  AgreeInv'
<1>1. Incoming(a, x, "request") /\ IsProposer(a)
  BY DEF ProposerAckRequest
<1> PICK m : m = Msg(a, x)
  OBVIOUS
<1>2. /\ status[a] = "live" /\ call[a] = Return /\ Rest(a, x) \in Links /\ Writes(Rest(a, x), a)
      /\ m.op = "request" /\ m \in Message /\ Meets(x, a, m)
  BY <1>1, Reading
<1>3. m.who <= a /\ m.val.kind = "chat" /\ m.who \in Nat
  BY <1>2, MessageFields DEF Meets
<1>4. ~(m.who > a)
  BY <1>3, MemberNat
<1> PICK pe : pe = peer[a]
  OBVIOUS
<1>5. Submit(a, m.val, pe, Rest(a, x)) /\ UNCHANGED <<status, peer, alist, proposer, ballot, prep, dparts>>
  BY <1>4 DEF ProposerAckRequest, sess, ballots
<1> PICK v : v = m.val
  OBVIOUS
<1> PICK net : net = Rest(a, x)
  OBVIOUS
<1> QED BY <1>1, <1>2, <1>3, <1>5, SubmitAgree DEF Purges

(* What was deferred: parts and kills of who was lost, and requests. *)
LEMMA DrainAgree ==
  ASSUME Before, After, NEW a \in Member, Drain(a)
  PROVE  AgreeInv'
<1>1. /\ status[a] = "live" /\ call[a] = Return /\ ~Preparing(a)
      /\ dparts[a] # {} \/ idefer[a] # <<>>
      /\ UNCHANGED <<status, peer, alist, proposer, ballot, prep>>
  BY DEF Drain, Draining, sess, ballots
<1>2. IsProposer(a) /\ PartInv(a)
  BY <1>1 DEF Before, AgreeInv, RoleInv, Working
<1>3. dparts \in [Member -> SUBSET Member] /\ idefer \in [Member -> Seq(Value)]
  BY TypeInvElim DEF Before
<1>4. Writes(link, a) /\ link \in Links
  <2>1. Within(link, link)
    BY DEF Within
  <2> QED BY <2>1, WithinWrites, TypeInvElim DEF Before
<1> PICK pe : pe = peer[a]
  OBVIOUS
<1> PICK net : net = link
  OBVIOUS
<1>5. CASE dparts[a] # {}
  <2> PICK x : x = Least(dparts[a])
    OBVIOUS
  <2> PICK v : v = IF x < a THEN Kill(a, x) ELSE Part(a, x)
    OBVIOUS
  <2>1. ProposerDecree(a, v, pe, net) /\ dparts' = [dparts EXCEPT ![a] = @ \ {x}] /\ UNCHANGED idefer
    BY <1>5 DEF Drain
  <2>2. x \in dparts[a] /\ x \in Member
    BY <1>3, <1>5, MemberNat, LeastIn
  <2>3. v.arg = x /\ (a = First => v.kind # "kill")
    <3>1. a = First => ~(x < a)
      BY <2>2, FirstType, MemberNat
    <3> QED BY <3>1 DEF Kill, Part
  <2>4. \A y \in Member : Purges(v, y) => y # a /\ y \notin peer'[a]
    BY <1>1, <1>2, <2>2, <2>3 DEF PartInv, Gone, Purges
  <2>5. \A b \in Member : Defers(b)
    BY <1>3, <2>1 DEF Defers, Deferred
  <2> QED BY <1>1, <1>2, <1>4, <2>1, <2>3, <2>4, <2>5, ProposerDecreeAgree
<1>6. CASE dparts[a] = {}
  <2> PICK s : s = idefer[a]
    OBVIOUS
  <2> PICK v : v = Head(s)
    OBVIOUS
  <2>1. /\ ProposerDecree(a, v, pe, net) /\ idefer' = [idefer EXCEPT ![a] = Tail(s)]
        /\ UNCHANGED dparts
    BY <1>6 DEF Drain
  <2>2. s \in Seq(Value) /\ s # <<>> /\ idefer'[a] = Tail(s) /\ \A b \in Member \ {a} : idefer'[b] = idefer[b]
    BY <1>1, <1>3, <1>6, <2>1
  <2>3. v \in Deferred(a)
    <3>1. 1 \in DOMAIN s /\ v = s[1]
      BY <2>2
    <3> QED BY <3>1 DEF Deferred
  <2>4. v.kind # "kill" /\ \A y \in Member : Purges(v, y) => y # a /\ y \notin peer'[a]
    BY <1>1, <1>2, <2>3 DEF PartInv, Gone
  <2>5. ASSUME NEW b \in Member PROVE Defers(b)
    <3>1. CASE b = a
      <4>1. \A w \in Deferred(a)' : w \in Deferred(a)
        <5> TAKE w \in Deferred(a)'
        <5>1. PICK n \in DOMAIN Tail(s) : w = Tail(s)[n]
          BY <2>2 DEF Deferred
        <5>2. n + 1 \in DOMAIN s /\ w = s[n + 1]
          BY <2>2, <5>1
        <5> QED BY <5>2 DEF Deferred
      <4> QED BY <2>1, <3>1, <4>1 DEF Defers
    <3>2. CASE b # a
      BY <2>1, <2>2, <3>2 DEF Defers, Deferred
    <3> QED BY <3>1, <3>2
  <2> QED BY <1>1, <1>2, <1>4, <2>1, <2>4, <2>5, ProposerDecreeAgree
<1> QED BY <1>5, <1>6

(* What the second took over, or a null. *)
LEMMA RedecreeAgree ==
  ASSUME Before, After, NEW a \in Member, Redecree(a)
  PROVE  AgreeInv'
<1> PICK i : i = Least(Undecreed(a))
  OBVIOUS
<1> PICK v : v = IF ilist[a][i].bal = NoBallot THEN Null(a) ELSE ilist[a][i].val
  OBVIOUS
<1> PICK e : e = Decreed(ballot[a], v)
  OBVIOUS
<1> PICK net : net = link
  OBVIOUS
<1>1. /\ status[a] = "live" /\ call[a] = Return /\ Redecreeing(a) /\ Undecreed(a) # {}
      /\ UNCHANGED <<status, peer, alist, proposer, ballot, prep, dparts, idefer, call>>
      /\ ilist' = [ilist EXCEPT ![a][i] = e]
      /\ link' = Send(net, a, peer[a], DecreeMsg(ballot[a], i, v))
  BY DEF Redecree, sess, ballots, defers
<1>2. i \in Inum /\ ~ilist[a][i].committed
  <2>1. Undecreed(a) \in SUBSET Inum
    BY DEF Undecreed
  <2>2. i \in Undecreed(a)
    BY <1>1, <2>1, LeastInum
  <2> QED BY <2>2 DEF Undecreed
<1>3. Leads(a) /\ PartInv(a)
  BY <1>1 DEF Redecreeing, Leads, Before, RoleInv, Working, AgreeInv
<1>4. /\ \A y \in Member : Purges(v, y) => y # a /\ y \notin peer'[a]
      /\ a = First => v.kind # "kill"
      /\ Filled(a, i) => v = ilist[a][i].val
  BY <1>1, <1>2, <1>3 DEF PartInv, Gone, Purges, Null, Filled
<1>5. Writes(net, a) /\ net \in Links
  <2>1. Within(link, link)
    BY DEF Within
  <2> QED BY <2>1, WithinWrites, TypeInvElim DEF Before
<1>6. \A b \in Member : Defers(b) /\ peer'[b] \subseteq peer[b]
  BY <1>1 DEF Defers, Deferred
<1>7. call[a].fn # "commit" /\ link' = Send(net, a, peer'[a], DecreeMsg(ballot[a], i, v))
  BY <1>1 DEF Return
<1> QED BY <1>1, <1>2, <1>3, <1>4, <1>5, <1>6, <1>7, DecreeAgree

-----------------------------------------------------------------------------
(* Votes. *)

LEMMA AckAcceptAgree ==
  ASSUME Before, After, NEW a \in Member, NEW x \in Member, AckAccept(a, x)
  PROVE  AgreeInv'
<1> PICK m : m = Msg(a, x)
  OBVIOUS
<1> PICK i : i = m.inum
  OBVIOUS
<1> PICK f : f = ilist[a][i]
  OBVIOUS
<1> PICK won : won = (~f.committed /\ f.votes + 1 >= Majority(alist[a]))
  OBVIOUS
<1> PICK e : e = [f EXCEPT !.votes = f.votes + 1, !.opcode = IF won THEN "commit" ELSE @]
  OBVIOUS
<1> PICK r : r = [op |-> "commit", bal |-> f.bal, inum |-> i, val |-> f.val]
  OBVIOUS
<1>1. Incoming(a, x, "accept") /\ IsProposer(a)
  BY DEF AckAccept
<1>2. /\ status[a] = "live" /\ call[a] = Return /\ Rest(a, x) \in Links /\ Writes(Rest(a, x), a)
      /\ m.op = "accept" /\ m \in Message /\ Meets(x, a, m) /\ x \in peer[a]
  BY <1>1, Reading
<1>3. i \in Inum /\ Filled(a, i) /\ Safe(i, f.val)
  BY <1>2, MessageFields DEF Meets
<1>4. /\ ilist \in Lists /\ f \in Entry /\ UNCHANGED <<alist, proposer, ballot, prep, dparts, idefer>>
  BY <1>3, TypeInvElim DEF Before, Lists, AckAccept, ballots, defers
<1>5. \/ \E why \in {"ended"} \cup Failure : Stop(a, why, link) /\ UNCHANGED <<ilist, call>>
      \/ /\ ilist' = [ilist EXCEPT ![a][i] = e] /\ UNCHANGED <<status, peer>>
         /\ \/ won /\ link' = Send(Rest(a, x), a, peer[a], r) /\ Enter(a, i)
            \/ ~won /\ link' = Rest(a, x) /\ UNCHANGED call
  <2>1. CASE Stop(a, "accept_ballot", link) /\ UNCHANGED <<ilist, call>>
    BY <2>1 DEF Failure
  <2>2. CASE Stop(a, "instance", link) /\ UNCHANGED <<ilist, call>>
    BY <2>2 DEF Failure
  <2>3. CASE m.bal = ballot[a] /\ f.bal # NoBallot
    BY <2>3 DEF AckAccept
  <2> QED BY <2>1, <2>2, <2>3 DEF AckAccept
<1>6. CASE \E why \in {"ended"} \cup Failure : Stop(a, why, link) /\ UNCHANGED <<ilist, call>>
  BY <1>4, <1>6, PlainAgree
<1>7. CASE /\ ilist' = [ilist EXCEPT ![a][i] = e] /\ UNCHANGED <<status, peer>>
           /\ \/ won /\ link' = Send(Rest(a, x), a, peer[a], r) /\ Enter(a, i)
              \/ ~won /\ link' = Rest(a, x) /\ UNCHANGED call
  <2>1. e.bal = f.bal /\ e.val = f.val /\ e.committed = f.committed
    BY <1>4 DEF Entry
  <2>2. Sound(a, i, e)
    BY <1>2, <1>3, <1>7, <2>1, SameSound
  <2>3. Turns
    BY <1>4, <1>7, PlainTurns
  <2>4. \A b \in Member : AlistInv(b)'
    BY <1>4, AlistKept
  <2>5. Commits(a, i)
    BY <1>3, <1>7, EnterCalls, SameCalls DEF Commits
  <2>6. ilist'[a][i] = e /\ \A b \in Member, j \in Inum : ilist'[b][j].bal = ilist[b][j].bal /\ ilist'[b][j].val = ilist[b][j].val
    <3>1. ilist'[a][i] = e
      BY <1>3, <1>4, <1>7 DEF Lists
    <3>2. ASSUME NEW b \in Member, NEW j \in Inum
          PROVE  ilist'[b][j].bal = ilist[b][j].bal /\ ilist'[b][j].val = ilist[b][j].val
      <4>1. CASE b = a /\ j = i
        BY <2>1, <3>1, <4>1
      <4>2. CASE ~(b = a /\ j = i)
        BY <1>3, <1>4, <1>7, <4>2 DEF Lists
      <4> QED BY <4>1, <4>2
    <3> QED BY <3>1, <3>2
  <2>7. \A j \in Inum : \A v : (Has(a, j, v)' <=> Has(a, j, v)) /\ (Safe(j, v)' <=> Safe(j, v))
    BY <1>4, <2>6, SameValues
  <2>8. \A y \in peer[a] : Meets(a, y, r)'
    <3> TAKE y \in peer[a]
    <3>1. r.op = "commit" /\ r.inum = i /\ r.val = ilist[a][i].val
      OBVIOUS
    <3> QED BY <1>1, <1>2, <1>3, <2>7, <3>1, CommitMeets
  <2>9. Writes(link', a)
    BY <1>2, <1>7, <2>8, SendWrites DEF Before
  <2> QED BY <1>3, <1>7, <2>2, <2>3, <2>4, <2>5, <2>9, TurnAgree
<1> QED BY <1>5, <1>6, <1>7

(* A part that is sent again: as the decree, or the commit, that it is. *)
LEMMA InstanceMeets ==
  ASSUME Before, UNCHANGED ballot, NEW a \in Member, Leads(a), NEW i \in Inum, Filled(a, i),
         \A j \in Inum : \A v : (Has(a, j, v)' <=> Has(a, j, v)) /\ (Safe(j, v)' <=> Safe(j, v)),
         NEW e, e.opcode = ilist[a][i].opcode, e.val = ilist[a][i].val,
         NEW y \in peer[a], NEW m, m = InstanceMsg(e, i)
  PROVE  Meets(a, y, m)'
<1>1. PartInv(a) /\ TurnInv(a) /\ status[a] = "live" /\ IsProposer(a)
  BY DEF Before, AgreeInv, Leads
<1>2. m.op = e.opcode /\ m.inum = i /\ m.val = ilist[a][i].val
  BY DEF InstanceMsg
<1>3. ilist[a][i].opcode \in {"decree", "commit"} /\ y \in Member
  <2>1. ilist[a][i] \in Entry /\ peer \in [Member -> SUBSET Member]
    BY TypeInvElim DEF Before, Lists
  <2> QED BY <2>1 DEF Entry
<1>4. CASE m.op = "commit"
  <2>1. Pledged(a, i)
    BY <1>2, <1>4 DEF Pledged
  <2> QED BY <1>1, <1>2, <1>4, <2>1, CommitMeets
<1>5. CASE m.op = "decree"
  <2>1. Has(a, m.inum, m.val)'
    BY <1>2 DEF Has
  <2>2. ~Purges(m.val, y)
    BY <1>1, <1>2, <1>3 DEF PartInv, Gone
  <2>3. a \in {First, Second} /\ ((a = Second) => Won')
    BY <1>1 DEF TurnInv, Won
  <2> QED BY <1>5, <2>1, <2>2, <2>3 DEF Meets, Decides
<1> QED BY <1>2, <1>3, <1>4, <1>5

LEMMA AckRejectAgree ==
  ASSUME Before, After, NEW a \in Member, NEW x \in Member, AckReject(a, x)
  PROVE  AgreeInv'
<1> PICK m : m = Msg(a, x)
  OBVIOUS
<1> PICK i : i = m.inum
  OBVIOUS
<1> PICK f : f = ilist[a][i]
  OBVIOUS
<1> PICK e : e = [f EXCEPT !.rejects = f.rejects + 1]
  OBVIOUS
<1>1. Incoming(a, x, "reject") /\ IsProposer(a)
  BY DEF AckReject
<1>2. /\ status[a] = "live" /\ call[a] = Return /\ Rest(a, x) \in Links /\ Writes(Rest(a, x), a)
      /\ m.op = "reject" /\ m \in Message /\ Led(x, a, m)
  BY <1>1, Reading
<1>3. i \in Inum /\ Leads(a)
  BY <1>2, MessageFields DEF Led
<1>4. /\ ilist \in Lists /\ f \in Entry /\ UNCHANGED <<alist, proposer, ballot, prep, dparts, idefer, call>>
  BY <1>3, TypeInvElim DEF Before, Lists, AckReject, ballots, defers
<1>5. \/ \E why \in {"ended"} \cup Failure : Stop(a, why, link) /\ UNCHANGED ilist
      \/ /\ ilist' = [ilist EXCEPT ![a][i] = e] /\ UNCHANGED <<status, peer>> /\ Filled(a, i)
         /\ link' = Rest(a, x) \/ link' = Send(Rest(a, x), a, peer[a], InstanceMsg(f, i))
  <2> DEFINE n == f.rejects + 1
  <2>1. ilist' = [ilist EXCEPT ![a][i] = [@ EXCEPT !.rejects = n]] => ilist' = [ilist EXCEPT ![a][i] = e]
    BY <1>3, <1>4 DEF Lists
  <2>2. CASE UNCHANGED ilist /\ (\/ Stop(a, "reject_ballot", link) \/ Stop(a, "instance", link)
                                 \/ Stop(a, "reject_kind", link) \/ Stop(a, "target", link))
    BY <2>2 DEF Failure
  <2>3. CASE /\ ilist' = [ilist EXCEPT ![a][i] = [@ EXCEPT !.rejects = n]] /\ UNCHANGED <<status, peer>>
             /\ f.bal # NoBallot
             /\ link' = Rest(a, x) \/ link' = Send(Rest(a, x), a, peer[a], InstanceMsg(f, i))
    BY <2>1, <2>3 DEF Filled
  <2> HIDE DEF n
  <2>4. n = f.rejects + 1
    BY DEF n
  <2> QED BY <2>2, <2>3, <2>4 DEF AckReject
<1>6. CASE \E why \in {"ended"} \cup Failure : Stop(a, why, link) /\ UNCHANGED ilist
  BY <1>4, <1>6, PlainAgree
<1>7. CASE /\ ilist' = [ilist EXCEPT ![a][i] = e] /\ UNCHANGED <<status, peer>> /\ Filled(a, i)
           /\ link' = Rest(a, x) \/ link' = Send(Rest(a, x), a, peer[a], InstanceMsg(f, i))
  <2>1. e.bal = f.bal /\ e.val = f.val /\ e.committed = f.committed /\ e.opcode = f.opcode
    BY <1>4 DEF Entry
  <2>2. Sound(a, i, e)
    BY <1>3, <1>4, <1>7, <2>1, SameSound DEF Pledged, Committing
  <2>3. Turns
    BY <1>4, <1>7, PlainTurns
  <2>4. \A b \in Member : AlistInv(b)'
    BY <1>4, AlistKept
  <2>5. Commits(a, i)
    BY <1>4, SameCalls DEF Commits
  <2>6. \A b \in Member, j \in Inum : ilist'[b][j].bal = ilist[b][j].bal /\ ilist'[b][j].val = ilist[b][j].val
    <3>1. ilist'[a][i] = e
      BY <1>3, <1>4, <1>7 DEF Lists
    <3>2. ASSUME NEW b \in Member, NEW j \in Inum
          PROVE  ilist'[b][j].bal = ilist[b][j].bal /\ ilist'[b][j].val = ilist[b][j].val
      <4>1. CASE b = a /\ j = i
        BY <2>1, <3>1, <4>1
      <4>2. CASE ~(b = a /\ j = i)
        BY <1>3, <1>4, <1>7, <4>2 DEF Lists
      <4> QED BY <4>1, <4>2
    <3> QED BY <3>2
  <2>7. \A j \in Inum : \A v : (Has(a, j, v)' <=> Has(a, j, v)) /\ (Safe(j, v)' <=> Safe(j, v))
    BY <1>4, <2>6, SameValues
  <2> PICK r : r = InstanceMsg(f, i)
    OBVIOUS
  <2>8. \A y \in peer[a] : Meets(a, y, r)'
    BY <1>3, <1>4, <1>7, <2>7, InstanceMeets
  <2>9. Writes(link', a)
    BY <1>2, <1>7, <2>8, SendWrites DEF Before
  <2> QED BY <1>3, <1>7, <2>2, <2>3, <2>4, <2>5, <2>9, TurnAgree
<1> QED BY <1>5, <1>6, <1>7

(* The part that is decreed again is not committed any more, as a part     *)
(* that was needs no data.                                                 *)
LEMMA ContinueAckRejectAgree ==
  ASSUME Before, After, NEW a \in Member, ContinueAckReject(a)
  PROVE  AgreeInv'
<1>1. /\ status[a] = "live" /\ UNCHANGED <<status, peer, alist, proposer, ballot, prep, dparts, idefer, call>>
  BY DEF ContinueAckReject, sess, ballots, defers
<1>2. Writes(link, a) /\ link \in Links
  <2>1. Within(link, link)
    BY DEF Within
  <2> QED BY <2>1, WithinWrites, TypeInvElim DEF Before
<1> PICK n \in DOMAIN clist[a] :
      LET k == clist[a][n]
          e == [ilist[a][k.inum] EXCEPT !.committed = FALSE, !.cached = FALSE,
                                        !.learned = FALSE, !.votes = 1, !.rejects = 0]
      IN /\ k.op = "reject"
         /\ IF k.who \in alist[a] /\ k.inum \in Present(ilist[a])
            THEN /\ ilist' = [ilist EXCEPT ![a][k.inum] = e]
                 /\ link' = Send(link, a, peer[a], InstanceMsg(e, k.inum))
            ELSE UNCHANGED <<ilist, link>>
  BY DEF ContinueAckReject
<1> PICK k : k = clist[a][n]
  OBVIOUS
<1> PICK i : i = k.inum
  OBVIOUS
<1> PICK e : e = [ilist[a][i] EXCEPT !.committed = FALSE, !.cached = FALSE,
                                     !.learned = FALSE, !.votes = 1, !.rejects = 0]
  OBVIOUS
<1>3. k \in Rejected(clist[a]) /\ WorkInv(a)
  BY DEF Rejected, Before, HoleInv
<1>4. Leads(a) /\ i \in Inum /\ ilist[a][i].val.kind = "part"
  BY <1>1, <1>3, RejectedLeads, RejectedInum DEF WorkInv, Before
<1>5. CASE UNCHANGED <<ilist, link>>
  BY <1>1, <1>2, <1>5, PlainAgree
<1>6. CASE /\ i \in Present(ilist[a])
           /\ ilist' = [ilist EXCEPT ![a][i] = e]
           /\ link' = Send(link, a, peer[a], InstanceMsg(e, i))
  <2>1. ilist \in Lists /\ ilist[a][i] \in Entry /\ Filled(a, i)
    BY <1>4, <1>6, TypeInvElim DEF Before, Lists, Present, Filled
  <2>2. e.bal = ilist[a][i].bal /\ e.val = ilist[a][i].val /\ e.committed = FALSE /\ e.opcode = ilist[a][i].opcode
    BY <2>1 DEF Entry
  <2>3. Sound(a, i, e)
    BY <1>1, <1>4, <2>2, SameSound DEF Pledged, Committing, NeedsCached
  <2>4. Turns
    BY <1>1, PlainTurns
  <2>5. \A b \in Member : AlistInv(b)'
    BY <1>1, AlistKept
  <2>6. Commits(a, i)
    BY <1>1, SameCalls DEF Commits
  <2>7. \A b \in Member, j \in Inum : ilist'[b][j].bal = ilist[b][j].bal /\ ilist'[b][j].val = ilist[b][j].val
    <3>1. ilist'[a][i] = e
      BY <1>4, <1>6, <2>1 DEF Lists
    <3>2. ASSUME NEW b \in Member, NEW j \in Inum
          PROVE  ilist'[b][j].bal = ilist[b][j].bal /\ ilist'[b][j].val = ilist[b][j].val
      <4>1. CASE b = a /\ j = i
        BY <2>2, <3>1, <4>1
      <4>2. CASE ~(b = a /\ j = i)
        BY <1>4, <1>6, <2>1, <4>2 DEF Lists
      <4> QED BY <4>1, <4>2
    <3> QED BY <3>2
  <2>8. \A j \in Inum : \A v : (Has(a, j, v)' <=> Has(a, j, v)) /\ (Safe(j, v)' <=> Safe(j, v))
    BY <1>1, <2>7, SameValues
  <2> PICK r : r = InstanceMsg(e, i)
    OBVIOUS
  <2>9. \A y \in peer[a] : Meets(a, y, r)'
    BY <1>1, <1>4, <2>1, <2>2, <2>8, InstanceMeets
  <2>10. Writes(link', a)
    BY <1>2, <1>6, <2>9, SendWrites DEF Before
  <2> QED BY <1>4, <1>6, <2>3, <2>4, <2>5, <2>6, <2>10, TurnAgree
<1> QED BY <1>5, <1>6

-----------------------------------------------------------------------------
(* What acceptors take. *)

(* An acceptor leads nothing, and is none of two who are below the first.  *)
LEMMA AcceptorFollows ==
  ASSUME Before, NEW a \in Member, status[a] = "live", ~IsProposer(a)
  PROVE  /\ a # First /\ a # Leader
         /\ Won => a \notin {First, Second} /\ First \notin peer[a]
<1>1. a # First
  BY FirstLeads DEF Before
<1>2. TurnInv(a)
  BY DEF Before, AgreeInv
<1>3. Won => a # Second /\ First \notin peer[a]
  BY <1>1, <1>2 DEF TurnInv, Leads
<1> QED BY <1>1, <1>3 DEF Leader

(* A decree that an acceptor takes is that of who leads. *)
LEMMA DecreeFollows ==
  ASSUME Before, NEW a \in Member, NEW x \in Member, status[a] = "live", ~IsProposer(a), x # a,
         NEW m \in Message, m.op = "decree", Meets(x, a, m), Led(x, a, m), m.bal = ballot[a]
  PROVE  /\ x = Leader /\ m.bal.id = x /\ x \in {First, Second} /\ Has(x, m.inum, m.val)
         /\ \A y \in Member : Purges(m.val, y) => y # a /\ y # x
         /\ ~Won => ballot[a].id # Second
         /\ m.val.kind = "kill" => Won
<1>1. /\ x \in {First, Second} /\ Has(x, m.inum, m.val) /\ ~Purges(m.val, a) /\ (x = Second => Won)
      /\ m.bal.id = x /\ m.inum \in Inum
  BY MessageFields DEF Meets, Decides, Led
<1>2. TurnInv(a) /\ PartInv(x) /\ Second # First /\ a # First
  BY TrioRanks, AcceptorFollows DEF Before, AgreeInv
<1>3. Won => x = Second
  BY <1>1, <1>2 DEF TurnInv
<1>4. x = Leader
  BY <1>1, <1>3 DEF Leader
<1>5. \A y \in Member : Purges(m.val, y) => y # x
  BY <1>1, <1>2 DEF Has, PartInv, Gone
<1>6. m.val.kind = "kill" => Won
  BY <1>1, <1>2 DEF Has, PartInv
<1>7. ~Won => ballot[a].id # Second
  BY <1>1, <1>2
<1> QED BY <1>1, <1>4, <1>5, <1>6, <1>7

(* Of three, whom the second parts when it leads is the first. *)
LEMMA SecondParts ==
  ASSUME Before, NEW a \in Member, status[a] = "live", ~IsProposer(a), Won, NEW y \in Member, y # a, y # Second
  PROVE  y \notin peer[a]
<1>1. a # First /\ a # Second /\ First \notin peer[a] /\ Second \in Member /\ Second # First
  BY AcceptorFollows, TrioRanks DEF Before
<1>2. y = First
  BY <1>1, NoFourth DEF Before
<1> QED BY <1>1, <1>2

LEMMA AckDecreeAgree ==
  ASSUME Before, After, NEW a \in Member, NEW x \in Member, AckDecree(a, x)
  PROVE  AgreeInv'
<1> PICK m : m = Msg(a, x)
  OBVIOUS
<1> PICK i : i = m.inum
  OBVIOUS
<1> PICK f : f = ilist[a][i]
  OBVIOUS
<1> PICK r : r = [op |-> "accept", bal |-> m.bal, inum |-> i]
  OBVIOUS
<1> PICK j : j = [op |-> "reject", bal |-> m.bal, inum |-> i]
  OBVIOUS
<1>1. Incoming(a, x, "decree") /\ ~IsProposer(a)
  BY DEF AckDecree
<1>2. /\ status[a] = "live" /\ call[a] = Return /\ Rest(a, x) \in Links /\ Writes(Rest(a, x), a)
      /\ m.op = "decree" /\ m \in Message /\ Led(x, a, m) /\ Meets(x, a, m) /\ x # a
  BY <1>1, Reading
<1>3. i \in Inum /\ m.bal \in Ballot
  BY <1>2, MessageFields
<1>4. /\ ilist \in Lists /\ f \in Entry /\ UNCHANGED <<alist, proposer, ballot, prep, dparts, idefer, call>>
  BY <1>3, TypeInvElim DEF Before, Lists, AckDecree, ballots, defers
<1>5. \/ \E why \in {"ended"} \cup Failure : Stop(a, why, link) /\ UNCHANGED ilist
      \/ UNCHANGED <<status, peer, ilist>> /\ link' \in {Rest(a, x), Send(Rest(a, x), a, {x}, j)}
      \/ /\ m.bal = ballot[a] /\ (m.val.kind = "part" => m.val.arg \notin peer[a])
         /\ UNCHANGED <<status, peer>> /\ link' = Send(Rest(a, x), a, {x}, r)
         /\ \/ f.committed /\ UNCHANGED ilist
            \/ ~f.committed /\ ilist' = [ilist EXCEPT ![a][i] = [Absent EXCEPT !.bal = m.bal, !.val = m.val]]
            \/ ~f.committed /\ ilist' = [ilist EXCEPT ![a][i] = [f EXCEPT !.bal = m.bal, !.val = m.val]]
  <2>1. CASE UNCHANGED ilist /\ (\/ Stop(a, "decree_proposer", link) \/ Stop(a, "target", link)
                                 \/ Stop(a, "decree_value", link))
    BY <2>1 DEF Failure
  <2>2. CASE UNCHANGED <<status, peer, ilist>> /\ (link' = Rest(a, x) \/ link' = Send(Rest(a, x), a, {x}, j))
    BY <2>2
  <2>3. CASE m.bal = ballot[a] /\ (m.val.kind = "part" => m.val.arg \notin peer[a]) /\ AcceptDecree(a, x, m)
    <3>1. f.bal = NoBallot => ~f.committed
      BY <1>3 DEF Before, HoleInv, LogInv
    <3>2. CASE /\ f.bal = NoBallot
               /\ ilist' = [ilist EXCEPT ![a][i] = Accepted(Absent, m)]
               /\ link' = Send(Rest(a, x), a, {x}, r) /\ UNCHANGED <<status, peer>>
      BY <2>3, <3>1, <3>2 DEF Accepted
    <3>3. CASE /\ f.committed /\ UNCHANGED <<status, peer, ilist>> /\ link' = Send(Rest(a, x), a, {x}, r)
      BY <2>3, <3>3
    <3>4. CASE Stop(a, "decree_value", link) /\ UNCHANGED ilist
      BY <2>1, <3>4
    <3>5. CASE /\ ~f.committed /\ ilist' = [ilist EXCEPT ![a][i] = Accepted(f, m)]
               /\ link' = Send(Rest(a, x), a, {x}, r) /\ UNCHANGED <<status, peer>>
      BY <2>3, <3>5 DEF Accepted
    <3>6. CASE link' = Rest(a, x) /\ UNCHANGED <<status, peer, ilist>>
      BY <3>6
    <3> QED BY <2>3, <3>2, <3>3, <3>4, <3>5, <3>6 DEF AcceptDecree, logs
  <2> QED BY <2>1, <2>2, <2>3 DEF AckDecree, logs
<1>6. CASE \E why \in {"ended"} \cup Failure : Stop(a, why, link) /\ UNCHANGED ilist
  BY <1>4, <1>6, PlainAgree
<1>7. CASE UNCHANGED <<status, peer, ilist>> /\ link' \in {Rest(a, x), Send(Rest(a, x), a, {x}, j)}
  <2>1. \A y : Meets(a, y, j)'
    BY MeetsFreely
  <2>2. Writes(link', a)
    BY <1>2, <1>7, <2>1, SendWrites DEF Before
  <2> QED BY <1>4, <1>7, <2>2, PlainAgree
<1>8. CASE m.bal = ballot[a] /\ (m.val.kind = "part" => m.val.arg \notin peer[a])
  <2>1. /\ x = Leader /\ m.bal.id = x /\ x \in {First, Second} /\ Has(x, i, m.val)
        /\ \A y \in Member : Purges(m.val, y) => y # a /\ y # x
        /\ ~Won => ballot[a].id # Second
        /\ m.val.kind = "kill" => Won
    BY <1>1, <1>2, <1>8, DecreeFollows
  <2>2. a # First /\ a # Leader
    BY <1>1, <1>2, AcceptorFollows
  <2>3. \A y \in Member : Purges(m.val, y) => y # a /\ y \notin peer[a]
    <3> TAKE y \in Member
    <3> HAVE Purges(m.val, y)
    <3>1. y # a /\ y # x
      BY <2>1
    <3>2. CASE m.val.kind = "part"
      BY <1>8, <3>1, <3>2 DEF Purges
    <3>3. CASE m.val.kind = "kill"
      <4>1. Won /\ y # Second
        BY <2>1, <3>1, <3>3 DEF Leader
      <4> QED BY <1>1, <1>2, <3>1, <4>1, SecondParts
    <3> QED BY <3>2, <3>3 DEF Purges
  <2>4. Leader' = Leader
    BY <1>4 DEF Leader, Won
  <2>5. ASSUME UNCHANGED <<status, peer>>, link' = Send(Rest(a, x), a, {x}, r),
               NEW e, ilist' = [ilist EXCEPT ![a][i] = e], Sound(a, i, e), e.bal # NoBallot
        PROVE  AgreeInv'
    <3>1. ilist'[a][i] = e /\ ilist'[x] = ilist[x]
      BY <1>2, <1>3, <1>4, <2>5 DEF Lists
    <3>2. Has(x, i, m.val)' /\ Filled(a, i)'
      BY <2>1, <2>5, <3>1 DEF Has, Filled
    <3>3. Filled(x, i)' /\ Safe(i, ilist[x][i].val)'
      <4>1. Has(x, i, ilist[x][i].val)'
        BY <3>2 DEF Has
      <4> QED BY <2>1, <2>2, <2>4, <3>2, <4>1 DEF Safe, Has
    <3>4. Meets(a, x, r)'
      BY <2>1, <3>3 DEF Meets, Decides
    <3>5. Writes(link', a)
      BY <1>2, <2>5, <3>4, SendWrites DEF Before
    <3>6. Turns
      BY <1>4, <2>5, PlainTurns
    <3>7. \A b \in Member : AlistInv(b)'
      BY <1>4, AlistKept
    <3>8. Commits(a, i)
      BY <1>4, SameCalls DEF Commits
    <3> QED BY <1>3, <2>5, <3>5, <3>6, <3>7, <3>8, TurnAgree
  <2>6. ASSUME UNCHANGED peer, NEW e, e.bal # NoBallot, e.val = m.val, ~f.committed,
               e.committed \/ e.opcode = "commit" => Pledged(a, i)
        PROVE  Sound(a, i, e)
    <3>1. a # First /\ ~Won => Has(First, i, e.val)
      BY <2>1, <2>6 DEF Leader
    <3>2. Pledged(a, i) => Safe(i, e.val)
      <4>1. Pledged(a, i) => Has(Leader, i, f.val) /\ Safe(i, f.val)
        BY <1>3 DEF Before, AgreeInv, PledgeInv, Safe
      <4> QED BY <2>1, <2>6, <4>1 DEF Has
    <3>3. Committing(a, i)' => Pledged(a, i)
      BY <1>3, <1>4, SameCalls
    <3> QED BY <2>1, <2>2, <2>3, <2>6, <3>1, <3>2, <3>3 DEF Sound
  <2>7. CASE UNCHANGED <<status, peer, ilist>> /\ link' = Send(Rest(a, x), a, {x}, r) /\ f.committed
    <3>1. ilist' = [ilist EXCEPT ![a][i] = f]
      BY <1>3, <1>4, <2>7 DEF Lists
    <3>2. f.bal # NoBallot
      BY <1>3, <2>7, CommittedFilled DEF Filled, Before
    <3>3. Sound(a, i, f)
      BY <1>3, <2>7, SameSound DEF Pledged
    <3> QED BY <2>5, <2>7, <3>1, <3>2, <3>3
  <2>8. m.bal # NoBallot
    BY <1>3 DEF Ballot, NoBallot
  <2>9. CASE /\ UNCHANGED <<status, peer>> /\ link' = Send(Rest(a, x), a, {x}, r) /\ ~f.committed
             /\ ilist' = [ilist EXCEPT ![a][i] = [Absent EXCEPT !.bal = m.bal, !.val = m.val]]
    <3> PICK e : e = [Absent EXCEPT !.bal = m.bal, !.val = m.val]
      OBVIOUS
    <3>1. e.bal = m.bal /\ e.val = m.val /\ e.committed = FALSE /\ e.opcode = "decree"
      BY DEF Absent
    <3> QED BY <2>5, <2>6, <2>8, <2>9, <3>1
  <2>10. CASE /\ UNCHANGED <<status, peer>> /\ link' = Send(Rest(a, x), a, {x}, r) /\ ~f.committed
              /\ ilist' = [ilist EXCEPT ![a][i] = [f EXCEPT !.bal = m.bal, !.val = m.val]]
    <3> PICK e : e = [f EXCEPT !.bal = m.bal, !.val = m.val]
      OBVIOUS
    <3>1. e.bal = m.bal /\ e.val = m.val /\ e.committed = f.committed /\ e.opcode = f.opcode
      BY <1>4 DEF Entry
    <3>2. e.committed \/ e.opcode = "commit" => Pledged(a, i)
      BY <3>1 DEF Pledged
    <3> QED BY <2>5, <2>6, <2>8, <2>10, <3>1, <3>2
  <2> QED BY <1>5, <1>6, <1>7, <2>7, <2>9, <2>10
<1> QED BY <1>5, <1>6, <1>7, <1>8

(* A commit of a part is believed by an acceptor that rejected it, but not *)
(* by one that is still connected to whom it parts: two others have it.    *)
LEMMA AckCommitAgree ==
  ASSUME Before, After, NEW a \in Member, NEW x \in Member, AckCommit(a, x) \/ AckRecommit(a, x)
  PROVE  AgreeInv'
<1> PICK m : m = Msg(a, x)
  OBVIOUS
<1> PICK i : i = m.inum
  OBVIOUS
<1> PICK f : f = ilist[a][i]
  OBVIOUS
<1>1. \E op \in {"commit", "recommit"} : Incoming(a, x, op) /\ ~IsProposer(a)
  BY DEF AckCommit, AckRecommit
<1>2. /\ status[a] = "live" /\ ~IsProposer(a) /\ call[a] = Return /\ Writes(Rest(a, x), a)
      /\ m.op \in {"commit", "recommit"} /\ m \in Message /\ Meets(x, a, m) /\ x # a /\ x \in peer[a]
  BY <1>1, Reading
<1>3. i \in Inum /\ m.bal \in Ballot
  BY <1>2, MessageFields
<1>4. /\ Has(x, i, m.val) /\ ~Purges(m.val, a) /\ Safe(i, m.val)
  BY <1>2 DEF Meets, Decides
<1>5. /\ ilist \in Lists /\ f \in Entry
      /\ UNCHANGED <<status, peer, alist, proposer, ballot, prep, dparts, idefer>> /\ link' = Rest(a, x)
  BY <1>3, TypeInvElim DEF Before, Lists, AckCommit, AckRecommit, CommitMessage, sess, ballots, defers
<1>6. \/ UNCHANGED <<ilist, call>>
      \/ /\ ~f.committed /\ Enter(a, i)
         /\ \E e : ilist' = [ilist EXCEPT ![a][i] = e] /\ e.val = m.val /\ e.committed = FALSE
  <2>1. ASSUME NEW bal, CommitMessage(a, x, m, bal), ~f.committed
        PROVE  /\ Enter(a, i)
               /\ \E e : ilist' = [ilist EXCEPT ![a][i] = e] /\ e.val = m.val /\ e.committed = FALSE
    <3>1. Enter(a, i)
      BY <2>1 DEF CommitMessage
    <3>2. \E e : ilist' = [ilist EXCEPT ![a][i] = e] /\ e.val = m.val /\ e.committed = FALSE
      <4> PICK b : b = IF f.bal = NoBallot THEN m.bal ELSE bal
        OBVIOUS
      <4> PICK e : e = [f EXCEPT !.bal = b, !.val = m.val]
        OBVIOUS
      <4>1. e.val = m.val /\ e.committed = FALSE
        BY <1>5, <2>1 DEF Entry
      <4>2. ilist' = [ilist EXCEPT ![a][i] = [@ EXCEPT !.bal = b, !.val = m.val]]
        BY <2>1 DEF CommitMessage
      <4>3. ilist' = [ilist EXCEPT ![a][i] = e]
        BY <1>3, <1>5, <4>2 DEF Lists
      <4> QED BY <4>1, <4>3
    <3> QED BY <3>1, <3>2
  <2>2. ASSUME NEW bal, CommitMessage(a, x, m, bal), f.committed
        PROVE  UNCHANGED <<ilist, call>>
    BY <2>2 DEF CommitMessage, logs
  <2>3. \E bal : CommitMessage(a, x, m, bal)
    BY DEF AckCommit, AckRecommit
  <2> QED BY <2>1, <2>2, <2>3
<1>7. CASE UNCHANGED <<ilist, call>>
  BY <1>2, <1>5, <1>7, PlainAgree
<1>8. ASSUME ~f.committed, Enter(a, i),
             NEW e, ilist' = [ilist EXCEPT ![a][i] = e], e.val = m.val, e.committed = FALSE
      PROVE  AgreeInv'
  <2>1. /\ a # First /\ a # Leader
        /\ Won => a \notin {First, Second} /\ First \notin peer[a]
    BY <1>2, AcceptorFollows
  <2>2. /\ First \in Member /\ Second \in Member /\ Second # First /\ Leader \in Member
        /\ TurnInv(a) /\ PartInv(a) /\ PartInv(Leader) /\ x \in {First, Second}
    BY <1>2, TrioRanks, LeaderType DEF Before, AgreeInv, Meets, Decides
  <2>3. a # First /\ ~Won => Has(First, i, e.val)
    BY <1>4, <1>8 DEF Safe, Leader
  <2>4. ~Won /\ ballot[a].id = Second => Filled(Second, i)
    <3> HAVE ~Won /\ ballot[a].id = Second
    <3>1. First \notin peer[a]
      BY <2>1, <2>2 DEF TurnInv
    <3>2. x = Second
      BY <1>2, <2>2, <3>1
    <3> QED BY <1>4, <3>2 DEF Has
  <2>5. ASSUME NEW y \in Member, Purges(m.val, y) PROVE y # a /\ y \notin peer[a]
    <3>1. y # a /\ y # Leader
      BY <1>3, <1>4, <2>2, <2>5 DEF Safe, Has, PartInv, Gone
    <3>2. CASE Won
      BY <1>2, <3>1, <3>2, SecondParts DEF Leader
    <3>3. CASE ~Won
      <4>1. PICK z \in Member \ {First} : Filled(z, i)
        BY <1>4 DEF Safe
      <4>2. Has(First, i, m.val) /\ Has(First, i, ilist[z][i].val)
        BY <1>3, <1>4, <3>3, <4>1 DEF Safe, Leader, Before, AgreeInv, FollowInv
      <4>3. Purges(ilist[z][i].val, y) /\ PartInv(z)
        BY <2>5, <4>2 DEF Has, Before, AgreeInv
      <4>4. y # z
        BY <1>3, <4>3 DEF PartInv, Gone
      <4>5. y # First
        BY <3>1, <3>3 DEF Leader
      <4>6. z = a
        BY <2>1, <3>1, <4>1, <4>4, <4>5, NoFourth DEF Before
      <4> QED BY <1>3, <4>3, <4>6 DEF PartInv, Gone
    <3> QED BY <3>2, <3>3
  <2>6. Sound(a, i, e)
    BY <1>4, <1>5, <1>8, <2>1, <2>3, <2>4, <2>5 DEF Sound
  <2>7. Turns
    BY <1>5, PlainTurns
  <2>8. \A b \in Member : AlistInv(b)'
    BY <1>5, AlistKept
  <2>9. Commits(a, i)
    BY <1>3, <1>8, EnterCalls DEF Commits
  <2>10. Writes(link', a)
    BY <1>2, <1>5
  <2> QED BY <1>3, <1>8, <2>6, <2>7, <2>8, <2>9, <2>10, TurnAgree
<1> QED BY <1>6, <1>7, <1>8

-----------------------------------------------------------------------------
(* Prepares. *)

(* A message about a prepare is between the second and a third. *)
LEMMA PollBetween ==
  ASSUME Before, NEW x \in Member, NEW y \in Member, NEW m \in Contents(link, x, y), Polls(m)
  PROVE  x # First /\ y # First /\ x # y
<1>1. PICK n \in DOMAIN link[x][y] : m = link[x][y][n]
  BY DEF Contents
<1>2. m.bal \in Rounds(link[x][y])
  BY <1>1 DEF Rounds, Polling
<1> QED BY <1>2 DEF Before, StayInv, RoundsInv

LEMMA BaseFilled ==
  ASSUME Before, NEW a \in Member
  PROVE  Base \in Inum /\ Filled(a, Base)
BY BaseInum, TypeInvElim DEF Before, Based, Filled

(* What the second is promised: what a third has, from the instance asked  *)
(* for on; it is the first's, and below it the second has its own.         *)
LEMMA PromiseFits ==
  ASSUME Before, ~Won, NEW a \in Member \ {First, Second}, Second \in peer[a],
         NEW n \in Nat, Base <= n, n <= ihole[Second],
         NEW m, m.log = Accepts(ilist[a], n)
  PROVE  Promised(a, m)
<1>1. First \in Member /\ Second \in Member /\ Second # First
  BY TrioRanks DEF Before
<1>2. PartInv(a) /\ FollowInv(a) /\ PartInv(First) /\ LogInv(Second)
  BY <1>1 DEF Before, AgreeInv, HoleInv
<1> PICK from : from = Greatest({i \in Present(ilist[a]) : i <= n})
  OBVIOUS
<1>3. from \in Inum /\ from <= n
  <2> DEFINE S == {i \in Present(ilist[a]) : i <= n}
  <2>1. Base \in S /\ S \in SUBSET Inum
    BY BaseFilled DEF Present, Filled
  <2>2. Greatest(S) \in S
    BY <2>1, GreatestInum
  <2> QED BY <2>2 DEF Present
<1>4. ASSUME NEW i \in Inum
      PROVE  IF Filled(a, i) /\ i >= from THEN m.log[i].bal = ilist[a][i].bal /\ m.log[i].val = ilist[a][i].val
             ELSE m.log[i].bal = NoBallot
  <2>1. m.log[i] = IF i \in Present(ilist[a]) /\ i >= from
                   THEN [bal |-> ilist[a][i].bal, val |-> ilist[a][i].val] ELSE NoVote
    BY DEF Accepts
  <2>2. i \in Present(ilist[a]) <=> Filled(a, i)
    BY DEF Present, Filled
  <2>3. CASE Filled(a, i) /\ i >= from
    BY <2>1, <2>2, <2>3
  <2>4. CASE ~(Filled(a, i) /\ i >= from)
    BY <2>1, <2>2, <2>4 DEF NoVote
  <2> QED BY <2>3, <2>4
<1>5. ASSUME NEW i \in Inum, m.log[i].bal # NoBallot
      PROVE  Has(First, i, m.log[i].val) /\ \A y \in Member : ~Purges(m.log[i].val, y)
  <2>1. Filled(a, i) /\ m.log[i].val = ilist[a][i].val
    BY <1>4, <1>5
  <2>2. Has(First, i, m.log[i].val)
    BY <1>2, <2>1 DEF FollowInv
  <2>3. ASSUME NEW y \in Member, Purges(m.log[i].val, y) PROVE FALSE
    <3>1. y # a /\ y # Second
      BY <1>2, <2>1, <2>3 DEF PartInv, Gone
    <3>2. y # First
      BY <1>1, <1>2, <2>2, <2>3 DEF PartInv, Gone, Has
    <3> QED BY <1>1, <3>1, <3>2, NoFourth DEF Before
  <2> QED BY <2>2, <2>3
<1>6. ASSUME NEW i \in Inum, Filled(a, i)
      PROVE  m.log[i].bal # NoBallot \/ Filled(Second, i)
  <2>1. CASE i >= from
    BY <1>4, <1>6, <2>1 DEF Filled
  <2>2. CASE ~(i >= from)
    <3>1. ihole[Second] \in Nat /\ i \in Nat /\ from \in Nat
      BY <1>1, <1>3, BaseInum, HoleNat DEF Before
    <3>2. i < ihole[Second]
      BY <1>3, <2>2, <3>1
    <3> QED BY <1>2, <3>2 DEF LogInv, Filled
  <2> QED BY <2>1, <2>2
<1> QED BY <1>5, <1>6 DEF Promised

LEMMA AckPrepareAgree ==
  ASSUME Before, After, NEW a \in Member, NEW x \in Member, AckPrepare(a, x)
  PROVE  AgreeInv'
<1> PICK m : m = Msg(a, x)
  OBVIOUS
<1> PICK r : r = [op |-> "redirect", bal |-> m.bal, who |-> proposer[a]]
  OBVIOUS
<1> PICK p : p = [op |-> "promise", bal |-> m.bal, inum |-> m.inum, log |-> Accepts(ilist[a], m.inum)]
  OBVIOUS
<1>1. Incoming(a, x, "prepare") /\ ~IsProposer(a)
  BY DEF AckPrepare
<1>2. /\ status[a] = "live" /\ Rest(a, x) \in Links /\ Writes(Rest(a, x), a)
      /\ m.op = "prepare" /\ m \in Message /\ Meets(x, a, m) /\ Directed(x, a, m) /\ x \in peer[a]
      /\ m \in Contents(link, x, a)
  BY <1>1, Reading
<1>3. m.bal \in Ballot /\ m.inum \in Nat /\ m.bal.id = x /\ Base <= m.inum /\ m.inum <= ihole[x]
  BY <1>2, MessageFields DEF Meets
<1>4. UNCHANGED <<status, peer, alist, proposer, prep, dparts, idefer, ilist, call>>
  BY DEF AckPrepare, sess, defers, logs
<1>5. CASE UNCHANGED ballot /\ link' = Send(Rest(a, x), a, {x}, r)
  <2>1. \A y : Meets(a, y, r)'
    BY MeetsFreely
  <2>2. Writes(link', a)
    BY <1>2, <1>5, <2>1, SendWrites DEF Before
  <2> QED BY <1>4, <1>5, <2>2, PlainAgree
<1>6. CASE proposer[a] = x /\ ballot' = [ballot EXCEPT ![a] = m.bal] /\ link' = Send(Rest(a, x), a, {x}, p)
  <2>1. x # First /\ a # First /\ x < a
    BY <1>2, PollBetween DEF Polls, Directed, Proposals
  <2>2. /\ First \in Member /\ Second \in Member /\ Second # First /\ x = Second /\ a # Second
        /\ \A z \in {First, Second} : z # a
    BY <2>1, TrioRanks DEF Before
  <2>3. ballot \in [Member -> Ballot] /\ peer \in [Member -> SUBSET Member] /\ ilist \in Lists
    BY TypeInvElim DEF Before
  <2>4. /\ ballot'[a].id = Second /\ \A b \in Member \ {a} : ballot'[b] = ballot[b]
        /\ Won' <=> Won
    BY <1>3, <1>6, <2>2, <2>3 DEF Won
  <2>5. First \notin peer[a]
    <3>1. Elected(a, peer[a]) = x
      BY <1>2, <1>6 DEF Before, RoleInv, ProposerIsFirst
    <3> QED BY <2>1, <2>2, <2>3, <3>1, ElectedType, FirstType, MemberNat
  <2>6. \A b \in Member : TurnInv(b)'
    <3> TAKE b \in Member
    <3>1. TurnInv(b)
      BY DEF Before, AgreeInv
    <3>2. CASE b = a
      BY <1>1, <1>4, <2>2, <2>4, <2>5, <3>2 DEF TurnInv, IsProposer
    <3>3. CASE b # a
      <4>1. ballot'[b] = ballot[b]
        BY <2>4, <3>3
      <4> QED BY <1>4, <2>4, <3>1, <4>1 DEF TurnInv, IsProposer, Leads, Preparing
    <3> QED BY <3>2, <3>3
  <2>7. \A b \in Member : AlistInv(b)'
    BY <1>4, AlistKept
  <2>8. \A b \in Member : /\ ballot[b].id = Second => ballot'[b].id = Second
                          /\ peer'[b] \subseteq peer[b] /\ Defers(b)
    BY <1>4, <2>4 DEF Defers, Deferred
  <2>9. Base \in Inum
    BY BaseInum
  <2>10. ilist' = [ilist EXCEPT ![a][Base] = ilist[a][Base]]
    BY <1>4, <2>3, <2>9 DEF Lists
  <2> PICK e : e = ilist[a][Base]
    OBVIOUS
  <2>11. Sound(a, Base, e)
    <3>1. Committing(a, Base)' => Pledged(a, Base)
      BY <1>4, <2>9, SameCalls
    <3> QED BY <1>4, <2>9, <3>1, SameSound DEF Pledged
  <2>12. Commits(a, Base)
    BY <1>4, SameCalls DEF Commits
  <2>13. Meets(a, x, p)'
    <3>1. ASSUME ~Won' PROVE Promised(a, p)'
      <4>1. Promised(a, p)
        <5> PICK n : n = m.inum
          OBVIOUS
        <5> QED BY <1>2, <1>3, <2>2, <2>4, <3>1, PromiseFits
      <4> QED BY <1>4, <4>1 DEF Promised, Has, Filled
    <3> QED BY <2>2, <2>4, <3>1 DEF Meets, Decides
  <2>14. WellWritten(a)
    <3>1. Writes(link', a)
      BY <1>2, <1>6, <2>13, SendWrites DEF Before
    <3> QED BY <3>1 DEF Writes, WellWritten
  <2> QED BY <2>4, <2>6, <2>7, <2>8, <2>9, <2>10, <2>11, <2>12, <2>14, AgreeStep
<1> QED BY <1>5, <1>6 DEF AckPrepare, Refused

(* Only the second prepares: of three, a third whom nobody answers is no   *)
(* majority by itself.                                                     *)
LEMMA PrepareAgree ==
  ASSUME Before, After, NEW a \in Member, status[a] = "live", a # First, ~Leads(a),
         NEW pe \in SUBSET peer[a], \A y \in pe : a < y, NEW net \in Links, Within(net, link),
         NEW gone \in SUBSET (Member \ (pe \cup {a})), NEW ended \in {"ended"} \cup Failure,
         Prepare(a, alist[a], pe, net, gone, ended), proposer' = [proposer EXCEPT ![a] = a],
         UNCHANGED <<alist, ballot, idefer, ilist, ihole, call>>
  PROVE  AgreeInv'
<1>1. /\ proposer \in [Member -> Member] /\ peer \in [Member -> SUBSET Member] /\ ballot \in [Member -> Ballot]
      /\ prep \in [Member -> Prep] /\ dparts \in [Member -> SUBSET Member]
      /\ status \in [Member -> {"live", "ended"} \cup Failure] /\ gen_high \in [Member -> Nat]
      /\ ihole[a] \in Nat /\ Base <= ihole[a]
  <2>1. ihole[a] \in Base + 1 .. MaxInum + 1
    BY TypeInvElim DEF Before
  <2> QED BY <2>1, BoundAssumption, TypeInvElim DEF Before
<1>2. ended # "live"
  BY DEF Failure
<1>3. Writes(net, a)
  BY WithinWrites
<1>4. \A b \in Member \ {a} : proposer'[b] = proposer[b]
  BY <1>1
<1>5. ASSUME NEW b \in Member \ {a}, status'[b] = status[b], prep'[b] = prep[b], status'[b] = "live"
      PROVE  /\ status[b] = "live" /\ (Leads(b)' <=> Leads(b))
             /\ IsProposer(b)' => b \in {First, Second}
  BY <1>4, <1>5 DEF Leads, IsProposer, Preparing, Before, AgreeInv, TurnInv
<1>6. CASE Stop(a, ended, net) /\ UNCHANGED <<gen_high, prep, dparts>>
  <2>1. /\ \A b \in Member \ {a} : status'[b] = status[b] /\ prep'[b] = prep[b] /\ peer'[b] = peer[b]
        /\ status'[a] = ended /\ peer'[a] = {}
    BY <1>1, <1>6 DEF Stop
  <2>2. \A b \in Member : peer'[b] \subseteq peer[b] /\ Defers(b)
    BY <1>6, <2>1 DEF Defers, Deferred
  <2>3. Turns
    BY <1>2, <1>5, <2>1, <2>2 DEF Turns
  <2>4. Writes(link', a)
    BY <1>3, <1>6, StopWrites
  <2> QED BY <2>3, <2>4, SameAgree, SameCalls
<1>7. CASE ~(Cardinality(pe) + 1 < Majority(alist[a]))
  <2> PICK b : b = NextBallot(a)
    OBVIOUS
  <2> PICK m : m = [op |-> "prepare", bal |-> b, inum |-> ihole[a]]
    OBVIOUS
  <2>1. /\ prep' = [prep EXCEPT ![a] = [bal |-> b, acks |-> 1, redirects |-> 0, istart |-> istart[a]]]
        /\ dparts' = [dparts EXCEPT ![a] = @ \cup gone] /\ peer' = [peer EXCEPT ![a] = pe]
        /\ link' = Send(net, a, pe, m) /\ UNCHANGED status
    BY <1>7 DEF Prepare
  <2>2. pe # {}
    <3> SUFFICES ASSUME pe = {} PROVE FALSE
      OBVIOUS
    <3>1. Cardinality(pe) = 0
      BY FS_EmptySet
    <3> QED BY <1>7, <3>1, NotAlone
  <2>3. a = Second
    <3>1. PICK y \in pe : a < y
      BY <2>2
    <3> QED BY <1>1, <3>1, TrioRanks DEF Before
  <2>4. ~Won /\ ballot[a].id # Second
    BY <2>3 DEF Before, AgreeInv, TurnInv, Won
  <2>5. b.id = a
    BY DEF NextBallot
  <2>6. prep'[a].bal = b /\ \A z \in Member \ {a} : prep'[z] = prep[z] /\ status'[z] = status[z]
    BY <1>1, <2>1
  <2>7. prep'[a].bal.id = a /\ prep'[a] # NoPrep
    <3>1. NoPrep.bal.id = 0 /\ a # 0
      BY MemberNat DEF NoPrep, NoBallot
    <3> QED BY <2>5, <2>6, <3>1
  <2>8. ~Leads(a)'
    BY <2>3, <2>4, <2>7 DEF Leads, Preparing
  <2>9. \A z \in Member : peer'[z] \subseteq peer[z] /\ Defers(z)
    <3>1. peer'[a] = pe /\ \A z \in Member \ {a} : peer'[z] = peer[z]
      BY <1>1, <2>1
    <3>2. dparts'[a] = dparts[a] \cup gone /\ \A z \in Member \ {a} : dparts'[z] = dparts[z]
      BY <1>1, <2>1
    <3>3. Defers(a)
      BY <3>1, <3>2 DEF Defers, Deferred
    <3> QED BY <3>1, <3>2, <3>3 DEF Defers, Deferred
  <2>10. Turns
    <3>1. ASSUME NEW z \in Member, status'[z] = "live"
          PROVE  /\ status[z] = "live" /\ (Leads(z)' <=> Leads(z))
                 /\ IsProposer(z)' => z \in {First, Second}
      BY <1>5, <2>1, <2>3, <2>6, <2>8, <3>1
    <3> QED BY <2>9, <3>1 DEF Turns
  <2>11. \A y : Meets(a, y, m)'
    BY <1>1, <2>5 DEF Meets, Decides
  <2>12. Writes(link', a)
    BY <1>3, <2>1, <2>11, SendWrites DEF Before
  <2> QED BY <2>10, <2>12, SameAgree, SameCalls
<1> QED BY <1>6, <1>7 DEF Prepare

LEMMA DropAgree ==
  ASSUME Before, After, NEW a \in Member, NEW y \in Member, Drop(a, y)
  PROVE  AgreeInv'
<1> PICK pe : pe = peer[a] \ {y}
  OBVIOUS
<1> PICK net : net = Unread(link, a, {y})
  OBVIOUS
<1>1. status[a] = "live" /\ call[a] = Return /\ UNCHANGED <<alist, ballot, ihole>>
  BY DEF Drop, Quiet, Busy
<1>2. /\ peer \in [Member -> SUBSET Member] /\ proposer \in [Member -> Member] /\ link \in Links
      /\ y \in peer[a] /\ y # a /\ a \notin peer[a]
  BY TypeInvElim DEF Before, Drop, RoleInv
<1>3. Within(net, link) /\ Writes(net, a) /\ net \in Links
  BY <1>2, UnreadContents, UnreadType, WithinWrites
<1>4. CASE IsProposer(a)
  <2>1. /\ peer' = [peer EXCEPT ![a] = pe] /\ Submit(a, Part(a, y), pe, net)
        /\ UNCHANGED <<status, proposer, prep, dparts>>
    BY <1>4 DEF Drop
  <2>2. pe = peer'[a] /\ \A b \in Member : peer'[b] \subseteq peer[b]
    BY <1>2, <2>1
  <2> PICK v : v = Part(a, y)
    OBVIOUS
  <2>3. v.kind # "kill" /\ \A z \in Member : Purges(v, z) => z # a /\ z \notin peer'[a]
    BY <1>2, <2>2 DEF Purges, Part
  <2> QED BY <1>1, <1>3, <1>4, <2>1, <2>2, <2>3, SubmitAgree
<1>5. CASE ~IsProposer(a)
  <2> PICK np : np = Reelected(a, y, pe)
    OBVIOUS
  <2>1. proposer' = [proposer EXCEPT ![a] = np] /\ UNCHANGED <<idefer, ilist, call>>
    BY <1>5 DEF Drop, logs
  <2>2. a # First
    BY <1>1, <1>5, AcceptorFollows
  <2>3. ~Leads(a)
    BY <1>5 DEF Leads
  <2>4. CASE np = a
    <3> PICK gone : gone = Unconnected(a, alist[a], pe)
      OBVIOUS
    <3>1. Prepare(a, alist[a], pe, net, gone, "null_session")
      BY <1>5, <2>4 DEF Drop
    <3>2. \A z \in pe : a < z
      BY <1>1, <2>4, ElectedRank DEF Before
    <3>3. gone \in SUBSET (Member \ (pe \cup {a})) /\ pe \in SUBSET peer[a]
      BY TypeInvElim DEF Unconnected, Before
    <3>4. "null_session" \in Failure
      BY DEF Failure
    <3> QED BY <1>1, <1>3, <2>1, <2>2, <2>3, <2>4, <3>1, <3>2, <3>3, <3>4, PrepareAgree
  <2>5. CASE np # a
    <3>1. peer' = [peer EXCEPT ![a] = pe] /\ link' = net /\ UNCHANGED <<status, prep, dparts>>
      BY <1>5, <2>5 DEF Drop
    <3>2. \A b \in Member : peer'[b] \subseteq peer[b] /\ Defers(b)
      BY <1>2, <2>1, <3>1 DEF Defers, Deferred
    <3>3. proposer'[a] = np /\ \A b \in Member \ {a} : proposer'[b] = proposer[b]
      BY <1>2, <2>1
    <3>4. ASSUME NEW b \in Member, status'[b] = "live"
          PROVE  /\ status[b] = "live" /\ (Leads(b)' <=> Leads(b))
                 /\ IsProposer(b)' => b \in {First, Second}
      <4>1. CASE b = a
        BY <2>3, <2>5, <3>1, <3>3, <3>4, <4>1 DEF Leads, IsProposer
      <4>2. CASE b # a
        BY <1>1, <3>1, <3>3, <3>4, <4>2 DEF Leads, IsProposer, Preparing, Before, AgreeInv, TurnInv
      <4> QED BY <4>1, <4>2
    <3>5. Turns
      BY <1>1, <3>2, <3>4 DEF Turns
    <3> QED BY <1>1, <1>3, <2>1, <3>1, <3>5, SameAgree, SameCalls
  <2> QED BY <2>4, <2>5
<1> QED BY <1>4, <1>5

(* A proposer that is refused. *)
LEMMA AckRedirectAgree ==
  ASSUME Before, After, NEW a \in Member, NEW x \in Member, AckRedirect(a, x)
  PROVE  AgreeInv'
<1> PICK m : m = Msg(a, x)
  OBVIOUS
<1> DEFINE p == prep[a]
           n == p.redirects + 1
<1>1. /\ Incoming(a, x, "redirect") /\ IsProposer(a)
      /\ UNCHANGED <<alist, proposer, ballot, idefer, ilist, ihole, call>>
  BY DEF AckRedirect, logs
<1>2. /\ status[a] = "live" /\ Rest(a, x) \in Links /\ Writes(Rest(a, x), a) /\ Within(Rest(a, x), link)
      /\ ~Redecreeing(a)
  BY <1>1, Reading
<1>3. \/ /\ \E why \in Failure : Stop(a, why, link)
         /\ UNCHANGED <<prep, dparts>>
      \/ link' = Rest(a, x) /\ UNCHANGED <<status, peer, prep, dparts>>
      \/ /\ Preparing(a) /\ UNCHANGED <<status, peer, dparts>> /\ link' = Rest(a, x)
         /\ prep' = [prep EXCEPT ![a] = [p EXCEPT !.redirects = n]]
      \/ /\ Preparing(a) /\ m.bal = p.bal
         /\ Prepare(a, alist[a], peer[a], Rest(a, x), {}, "null_session")
  <2> "redirect_rank" \in Failure /\ "redirect_target" \in Failure
    BY DEF Failure
  <2> QED BY DEF AckRedirect
<1>4. CASE (\E why \in Failure : Stop(a, why, link)) /\ UNCHANGED <<prep, dparts>>
  BY <1>1, <1>4, PlainAgree
<1>5. CASE link' = Rest(a, x) /\ UNCHANGED <<status, peer, prep, dparts>>
  BY <1>1, <1>2, <1>5, PlainAgree
<1>6. CASE /\ Preparing(a) /\ UNCHANGED <<status, peer, dparts>> /\ link' = Rest(a, x)
           /\ prep' = [prep EXCEPT ![a] = [p EXCEPT !.redirects = n]]
  <2>1. prep'[a].bal = p.bal /\ \A b \in Member \ {a} : prep'[b] = prep[b]
    <3>1. prep'[a] = [p EXCEPT !.redirects = n] /\ p \in Prep /\ \A b \in Member \ {a} : prep'[b] = prep[b]
      BY <1>6, TypeInvElim DEF Before
    <3> QED BY <3>1 DEF Prep
  <2>2. prep'[a] # NoPrep
    <3>1. p.bal.id = a
      BY <1>2, <1>6 DEF Before, StayInv, PollInv
    <3>2. NoPrep.bal.id = 0 /\ a # 0
      BY MemberNat DEF NoPrep, NoBallot
    <3> QED BY <2>1, <3>1, <3>2
  <2>3. \A b \in Member : Leads(b)' <=> Leads(b)
    <3> TAKE b \in Member
    <3>1. CASE b = a
      BY <1>1, <1>2, <1>6, <2>1, <2>2, <3>1 DEF Leads, Redecreeing, Preparing, IsProposer
    <3>2. CASE b # a
      BY <1>1, <1>6, <2>1, <3>2 DEF Leads, Preparing, IsProposer
    <3> QED BY <3>1, <3>2
  <2>4. Turns
    <3>1. \A b \in Member : peer'[b] \subseteq peer[b] /\ Defers(b)
      BY <1>1, <1>6 DEF Defers, Deferred
    <3>2. \A b \in Member : status'[b] = "live" => (IsProposer(b)' => b \in {First, Second})
      BY <1>1, <1>6 DEF Before, AgreeInv, TurnInv, IsProposer
    <3> QED BY <1>1, <1>6, <2>3, <3>1, <3>2 DEF Turns
  <2> QED BY <1>1, <1>2, <1>6, <2>4, SameAgree, SameCalls
<1>7. CASE /\ Preparing(a) /\ m.bal = p.bal
           /\ Prepare(a, alist[a], peer[a], Rest(a, x), {}, "null_session")
  <2>1. a # First
    BY <1>1, <1>7, AnswerRead DEF Before
  <2>2. ~Leads(a)
    BY <1>2, <1>7 DEF Leads, Redecreeing
  <2>3. \A y \in peer[a] : a < y
    BY <1>1, <1>2, ProposerRank DEF Before
  <2>4. proposer' = [proposer EXCEPT ![a] = a] /\ "null_session" \in Failure
    BY <1>1, TypeInvElim DEF IsProposer, Before, Failure
  <2> PICK pe : pe = peer[a]
    OBVIOUS
  <2> PICK net : net = Rest(a, x)
    OBVIOUS
  <2>5. Prepare(a, alist[a], pe, net, {}, "null_session")
    BY <1>7
  <2> QED BY <1>1, <1>2, <2>1, <2>2, <2>3, <2>4, <2>5, PrepareAgree
<1> QED BY <1>3, <1>4, <1>5, <1>6, <1>7

LEMMA ContinueAckRedirectAgree ==
  ASSUME Before, After, NEW a \in Member, ContinueAckRedirect(a)
  PROVE  AgreeInv'
<1>1. /\ status[a] = "live" /\ UNCHANGED <<alist, proposer, ballot, idefer, ilist, ihole, call>>
      /\ \/ Prepare(a, alist[a], peer[a], link, {}, "null_session")
         \/ UNCHANGED <<status, peer, gen_high, prep, dparts, link>>
  BY DEF ContinueAckRedirect, logs
<1>2. Within(link, link) /\ link \in Links
  BY TypeInvElim DEF Within, Before
<1>3. CASE UNCHANGED <<status, peer, gen_high, prep, dparts, link>>
  <2>1. Writes(link', a)
    BY <1>2, <1>3, WithinWrites
  <2> QED BY <1>1, <1>3, <2>1, PlainAgree
<1>4. CASE Prepare(a, alist[a], peer[a], link, {}, "null_session")
  <2>1. Preparing(a) /\ IsProposer(a)
    BY ContinueAckRedirectStay, WaitingIsProposer DEF Before, ContinueAckRedirect
  <2>2. a # First /\ ~Leads(a)
    <3>1. \E n \in DOMAIN clist[a] : n \in Redirects(clist[a])
      BY DEF ContinueAckRedirect, Redirects
    <3> QED BY <1>1, <2>1, <3>1 DEF Before, StayInv, PollInv, Leads
  <2>3. \A y \in peer[a] : a < y
    BY <1>1, <2>1, ProposerRank DEF Before
  <2>4. proposer' = [proposer EXCEPT ![a] = a] /\ "null_session" \in Failure
    BY <1>1, <2>1, TypeInvElim DEF IsProposer, Before, Failure
  <2> PICK pe : pe = peer[a]
    OBVIOUS
  <2> PICK net : net = link
    OBVIOUS
  <2>5. Prepare(a, alist[a], pe, net, {}, "null_session")
    BY <1>4
  <2> QED BY <1>1, <1>2, <2>2, <2>3, <2>4, <2>5, PrepareAgree
<1> QED BY <1>1, <1>3, <1>4

-----------------------------------------------------------------------------
(* Promises. *)

(* What an instance is after a merge: what it was, or what was promised.   *)
LEMMA MergedFrom ==
  ASSUME NEW a \in Member, LogInv(a), NEW vs \in [Inum -> Vote], NEW i \in Inum,
         NEW e, e = Merge(ilist[a], vs)[i]
  PROVE  /\ e.bal # NoBallot <=> Filled(a, i) \/ vs[i].bal # NoBallot
         /\ \/ e = ilist[a][i]
            \/ /\ vs[i].bal # NoBallot /\ e.val = vs[i].val
               /\ ~e.committed /\ e.opcode = "decree" /\ ~ilist[a][i].committed
<1>1. CASE i \in Missing(ilist[a], vs) \cup Newer(ilist[a], vs)
  <2>1. e.bal = vs[i].bal /\ e.val = vs[i].val /\ e.committed = FALSE /\ e.opcode = "decree"
    BY <1>1 DEF Merge, Absent
  <2>2. vs[i].bal # NoBallot /\ ~ilist[a][i].committed
    BY <1>1 DEF Missing, Newer, Voted, LogInv
  <2> QED BY <2>1, <2>2
<1>2. CASE i \notin Missing(ilist[a], vs) \cup Newer(ilist[a], vs)
  <2>1. e = ilist[a][i]
    BY <1>2 DEF Merge
  <2>2. vs[i].bal # NoBallot => Filled(a, i)
    BY <1>2 DEF Missing, Voted, Filled
  <2> QED BY <2>1, <2>2 DEF Filled
<1> QED BY <1>1, <1>2

(* Who counts promises is the second, and the third has made this one.     *)
LEMMA PromiseRead ==
  ASSUME Before, NEW a \in Member, NEW x \in Member, Incoming(a, x, "promise"), IsProposer(a), Preparing(a),
         NEW m, m = Msg(a, x), m.bal = prep[a].bal
  PROVE  /\ a = Second /\ a # First /\ ~Leads(a) /\ ~Won
         /\ x \notin {First, Second} /\ ballot[x].id = Second /\ Promised(x, m) /\ x \in peer[a]
         /\ m.log \in [Inum -> Vote] /\ prep[a].bal.id = a /\ First \notin peer[a]
<1>1. /\ status[a] = "live" /\ x \in peer[a] /\ ~Redecreeing(a) /\ m.op = "promise"
      /\ m \in Message /\ Meets(x, a, m)
  BY Reading
<1>2. a = Second /\ x \notin {First, Second} /\ ballot[x].id = Second /\ (~Won => Promised(x, m))
  BY <1>1 DEF Meets, Decides
<1>3. Second # First /\ Second \in Member /\ First \in Member
  BY TrioRanks DEF Before
<1>4. ~Leads(a)
  BY <1>1 DEF Leads, Redecreeing
<1>5. ~Won
  BY <1>1, <1>2, <1>4 DEF Before, AgreeInv, TurnInv
<1>6. m.log \in [Inum -> Vote]
  BY <1>1, MessageFields
<1>7. prep[a].bal.id = a
  BY DEF Before, StayInv, PollInv
<1>8. First \notin peer[a]
  <2> SUFFICES ASSUME First \in peer[a] PROVE FALSE
    OBVIOUS
  <2>1. a < First
    BY <1>1, ProposerRank DEF Before
  <2> QED BY <1>3, <2>1, FirstType, MemberNat
<1> QED BY <1>1, <1>2, <1>3, <1>4, <1>5, <1>6, <1>7, <1>8

(***************************************************************************)
(* The second counts a promise.  What it takes from it is the first's;     *)
(* and what of the first's the third has, it has then too, so that it can  *)
(* lead in its place.                                                      *)
(***************************************************************************)
LEMMA PromiseAgree ==
  ASSUME Before, After, NEW a \in Member, NEW x \in Member, Incoming(a, x, "promise"), IsProposer(a), Preparing(a),
         NEW m, m = Msg(a, x), m.bal = prep[a].bal,
         NEW il, il = Merge(ilist[a], m.log), ilist' = [ilist EXCEPT ![a] = il],
         prep'[a].bal = prep[a].bal, \A b \in Member \ {a} : prep'[b] = prep[b],
         ballot' = ballot \/ ballot' = [ballot EXCEPT ![a] = prep[a].bal],
         link' = Rest(a, x), UNCHANGED <<status, peer, proposer, alist, dparts, idefer, call>>
  PROVE  AgreeInv'
<1>1. /\ a = Second /\ a # First /\ ~Leads(a) /\ ~Won
      /\ x \notin {First, Second} /\ ballot[x].id = Second /\ Promised(x, m) /\ x \in peer[a]
      /\ m.log \in [Inum -> Vote] /\ prep[a].bal.id = a /\ First \notin peer[a]
  BY PromiseRead
<1>2. status[a] = "live" /\ call[a] = Return /\ ~Redecreeing(a) /\ Writes(Rest(a, x), a) /\ x # a
  BY Reading
<1>3. First \in Member /\ Leader = First
  BY <1>1, TrioRanks DEF Before, Leader
<1>4. /\ ilist \in Lists /\ ballot \in [Member -> Ballot] /\ peer \in [Member -> SUBSET Member]
      /\ LogInv(a) /\ FollowInv(a) /\ PartInv(a)
  BY TypeInvElim DEF Before, HoleInv, AgreeInv
<1>5. ilist'[a] = il /\ \A b \in Member \ {a} : ilist'[b] = ilist[b]
  BY <1>4 DEF Lists
<1>6. ASSUME NEW i \in Inum
      PROVE  /\ Filled(a, i)' <=> Filled(a, i) \/ m.log[i].bal # NoBallot
             /\ \/ ilist'[a][i] = ilist[a][i]
                \/ /\ m.log[i].bal # NoBallot /\ ilist'[a][i].val = m.log[i].val
                   /\ ~ilist'[a][i].committed /\ ilist'[a][i].opcode = "decree" /\ ~ilist[a][i].committed
  <2> PICK e : e = il[i]
    OBVIOUS
  <2>1. ilist'[a][i] = e /\ e = Merge(ilist[a], m.log)[i]
    BY <1>5
  <2> QED BY <1>1, <1>4, <2>1, MergedFrom DEF Filled
<1>7. \A b \in Member \ {a}, i \in Inum : \A v : Has(b, i, v)' <=> Has(b, i, v)
  BY <1>5 DEF Has, Filled
<1>8. ASSUME NEW i \in Inum, Filled(a, i)' PROVE Has(First, i, ilist'[a][i].val)
  <2>1. m.log[i].bal # NoBallot => Has(First, i, m.log[i].val)
    BY <1>1 DEF Promised
  <2>2. Filled(a, i) => Has(First, i, ilist[a][i].val)
    BY <1>1, <1>4 DEF FollowInv
  <2> QED BY <1>6, <1>8, <2>1, <2>2 DEF Filled
<1>9. ASSUME NEW i \in Inum, NEW v, Has(First, i, v), Filled(a, i)' PROVE Has(a, i, v)'
  BY <1>8, <1>9 DEF Has
<1>10. ASSUME NEW i \in Inum, NEW v, Safe(i, v) PROVE Safe(i, v)'
  <2>1. Has(First, i, v) /\ \E y \in Member \ {First} : Filled(y, i)
    BY <1>3, <1>10 DEF Safe
  <2>2. PICK y \in Member \ {First} : Filled(y, i)
    BY <2>1
  <2>3. Filled(y, i)'
    BY <1>5, <1>6, <2>2 DEF Filled
  <2>4. Filled(a, i)'
    <3>1. y = a \/ y = x
      BY <1>1, <2>2, NoFourth DEF Before
    <3>2. Filled(x, i) => m.log[i].bal # NoBallot \/ Filled(a, i)
      BY <1>1 DEF Promised
    <3> QED BY <1>6, <2>2, <3>1, <3>2
  <2>5. CASE Won'
    <3>1. Has(a, i, v)'
      BY <1>9, <2>1, <2>4
    <3> QED BY <1>1, <2>4, <2>5, <3>1 DEF Safe, Leader
  <2>6. CASE ~Won'
    <3>1. Has(First, i, v)'
      BY <1>1, <1>3, <1>7, <2>1
    <3> QED BY <2>2, <2>3, <2>6, <3>1 DEF Safe, Leader
  <2> QED BY <2>5, <2>6
<1>11. ASSUME NEW b \in Member, NEW i \in Inum, Pledged(b, i)'
       PROVE  Pledged(b, i) /\ ilist'[b][i] = ilist[b][i]
  <2>1. CASE b = a
    BY <1>2, <1>6, <1>11, <2>1 DEF Pledged, Committing, Return
  <2>2. CASE b # a
    BY <1>5, <1>11, <2>2 DEF Pledged, Committing
  <2> QED BY <2>1, <2>2
<1>12. ASSUME NEW b \in Member PROVE PledgeInv(b)'
  <2> SUFFICES ASSUME NEW i \in Inum, Pledged(b, i)' PROVE Safe(i, ilist[b][i].val)'
    BY DEF PledgeInv
  <2> PICK v : v = ilist[b][i].val
    OBVIOUS
  <2>1. Safe(i, v) /\ v = ilist'[b][i].val
    BY <1>11 DEF Before, AgreeInv, PledgeInv
  <2>2. Safe(i, v)'
    BY <1>10, <2>1
  <2> QED BY <2>1, <2>2 DEF Safe, Has
<1>13. ASSUME NEW b \in Member PROVE FollowInv(b)'
  <2> SUFFICES ASSUME b # First, ~Won', NEW i \in Inum, Filled(b, i)'
               PROVE  Has(First, i, ilist[b][i].val)'
    BY DEF FollowInv
  <2> PICK v : v = ilist'[b][i].val
    OBVIOUS
  <2>1. Has(First, i, v)
    <3>1. CASE b = a
      BY <1>8, <3>1
    <3>2. CASE b # a
      BY <1>1, <1>5, <3>2 DEF Filled, FollowInv, Before, AgreeInv
    <3> QED BY <3>1, <3>2
  <2>2. Has(First, i, v)'
    BY <1>1, <1>3, <1>7, <2>1
  <2> QED BY <2>2 DEF Has
<1>14. ASSUME NEW b \in Member PROVE PartInv(b)'
  <2>1. PartInv(b)
    BY DEF Before, AgreeInv
  <2>2. CASE b = a
    <3>1. ASSUME NEW i \in Inum, NEW y \in Member, Purges(ilist'[a][i].val, y) PROVE Gone(a, y)
      BY <1>1, <1>4, <1>6, <3>1 DEF PartInv, Promised
    <3> QED BY <1>1, <2>1, <2>2, <3>1 DEF PartInv, Gone, Deferred
  <2>3. CASE b # a
    BY <1>5, <2>1, <2>3 DEF PartInv, Gone, Deferred
  <2> QED BY <2>2, <2>3
<1>15. \A b \in Member : AlistInv(b)'
  BY AlistKept
<1>16. \A b \in Member \ {a} : ballot'[b] = ballot[b]
  BY <1>4
<1>17. ASSUME ballot' = [ballot EXCEPT ![a] = prep[a].bal] PROVE Won' /\ ballot'[a] = prep[a].bal
  BY <1>1, <1>4, <1>17 DEF Won
<1>18. ASSUME NEW b \in Member PROVE TurnInv(b)'
  <2>1. TurnInv(b)
    BY DEF Before, AgreeInv
  <2>2. CASE ballot' = ballot
    <3>1. Won' <=> Won
      BY <2>2 DEF Won
    <3>2. CASE b = a
      <4>1. prep'[a] # NoPrep
        <5>1. NoPrep.bal.id = 0 /\ a # 0
          BY MemberNat DEF NoPrep, NoBallot
        <5> QED BY <1>1, <5>1
      <4>2. ~Leads(a)'
        BY <1>2, <2>2, <4>1 DEF Leads, Redecreeing, Preparing
      <4> QED BY <1>1, <2>1, <2>2, <3>1, <3>2, <4>2 DEF TurnInv, IsProposer
    <3>3. CASE b # a
      BY <1>1, <2>1, <2>2, <3>1, <3>3 DEF TurnInv, IsProposer
    <3> QED BY <3>2, <3>3
  <2>3. CASE ballot' = [ballot EXCEPT ![a] = prep[a].bal]
    <3>1. Won' /\ ballot'[a] = prep[a].bal
      BY <1>17, <2>3
    <3>2. CASE b = a
      <4>1. Leads(a)'
        BY <1>2, <3>1 DEF Leads, IsProposer
      <4> QED BY <1>1, <3>1, <3>2, <4>1 DEF TurnInv
    <3>3. CASE b = x
      BY <1>1, <1>16, <2>1, <3>1, <3>3 DEF TurnInv, IsProposer
    <3>4. CASE b # a /\ b # x
      <4>1. b = First
        BY <1>1, <1>2, <3>4, NoFourth DEF Before
      <4> QED BY <1>1, <1>16, <2>1, <3>4, <4>1 DEF TurnInv, IsProposer
    <3> QED BY <3>2, <3>3, <3>4
  <2> QED BY <2>2, <2>3
<1>19. LeaderInv'
  <2>1. CASE Won'
    <3>1. \A i \in Inum : ~Purges(ilist'[a][i].val, x)
      BY <1>1, <1>14 DEF PartInv, Gone
    <3> QED BY <1>1, <1>2, <2>1, <3>1 DEF LeaderInv, Leader
  <2>2. CASE ~Won'
    <3>1. PICK y \in Member \ {First} : \A i \in Inum : Pledged(First, i) => ~Purges(ilist[First][i].val, y)
      BY <1>3 DEF Before, AgreeInv, LeaderInv
    <3>2. \A i \in Inum : Pledged(First, i)' => ~Purges(ilist'[First][i].val, y)
      BY <1>3, <1>11, <3>1
    <3> QED BY <2>2, <3>2 DEF LeaderInv, Leader
  <2> QED BY <2>1, <2>2
<1>20. Keeping
  <2>1. ASSUME NEW z \in {First, Second}, NEW i \in Inum, NEW v, Has(z, i, v) PROVE Has(z, i, v)'
    <3>1. CASE z = First
      BY <1>1, <1>3, <1>7, <2>1, <3>1
    <3>2. CASE z = a
      <4>1. Has(First, i, v) /\ Filled(a, i)'
        BY <1>1, <1>4, <1>6, <2>1, <3>2 DEF FollowInv, Has
      <4> QED BY <1>9, <3>2, <4>1
    <3> QED BY <1>1, <3>1, <3>2
  <2>2. ASSUME NEW b \in Member, NEW i \in Inum, Uncached(b, i) PROVE Uncached(b, i)'
    BY <1>5, <1>6, <2>2 DEF Uncached
  <2>3. \A b \in Member : ballot[b].id = Second => ballot'[b].id = Second
    BY <1>1, <1>16, <1>17
  <2>4. \A b \in Member \ {First, Second}, i \in Inum : Filled(b, i)' => Filled(b, i)
    BY <1>1, <1>5 DEF Filled
  <2> QED BY <1>1, <1>10, <2>1, <2>2, <2>3, <2>4 DEF Keeping
<1>21. \A z, y \in Member : \A k \in Contents(link', z, y) : Meets(z, y, k)'
  <2> TAKE z, y \in Member
  <2> TAKE k \in Contents(link', z, y)
  <2>1. k \in Contents(link, z, y)
    BY RestContents, Reading DEF Within
  <2> QED BY <1>20, <2>1, OldMeets
<1> QED BY <1>12, <1>13, <1>14, <1>15, <1>18, <1>19, <1>21 DEF AgreeInv

LEMMA AckPromiseAgree ==
  ASSUME Before, After, NEW a \in Member, NEW x \in Member, AckPromise(a, x)
  PROVE  AgreeInv'
<1> PICK m : m = Msg(a, x)
  OBVIOUS
<1> PICK il : il = Merge(ilist[a], m.log)
  OBVIOUS
<1>1. Incoming(a, x, "promise") /\ IsProposer(a) /\ UNCHANGED <<alist, proposer, dparts, idefer, call>>
  BY DEF AckPromise, defers
<1>2. \/ link' = Rest(a, x) /\ UNCHANGED <<status, peer, ballot, prep, ilist>>
      \/ (\E why \in Failure : Stop(a, why, link)) /\ UNCHANGED <<ballot, prep, ilist>>
      \/ /\ Preparing(a) /\ m.bal = prep[a].bal /\ ilist' = [ilist EXCEPT ![a] = il]
         /\ \E n, s : prep' = [prep EXCEPT ![a] = [prep[a] EXCEPT !.acks = n, !.istart = s]]
         /\ ballot' = ballot \/ ballot' = [ballot EXCEPT ![a] = prep[a].bal]
         /\ link' = Rest(a, x) /\ UNCHANGED <<status, peer>>
  <2> "promise_glb" \in Failure /\ "redecree_glb" \in Failure
    BY DEF Failure
  <2> QED BY DEF AckPromise, logs
<1>3. CASE link' = Rest(a, x) /\ UNCHANGED <<status, peer, ballot, prep, ilist>>
  BY <1>1, <1>3, Reading, PlainAgree
<1>4. CASE (\E why \in Failure : Stop(a, why, link)) /\ UNCHANGED <<ballot, prep, ilist>>
  BY <1>1, <1>4, PlainAgree
<1>5. CASE /\ Preparing(a) /\ m.bal = prep[a].bal /\ ilist' = [ilist EXCEPT ![a] = il]
           /\ \E n, s : prep' = [prep EXCEPT ![a] = [prep[a] EXCEPT !.acks = n, !.istart = s]]
           /\ ballot' = ballot \/ ballot' = [ballot EXCEPT ![a] = prep[a].bal]
           /\ link' = Rest(a, x) /\ UNCHANGED <<status, peer>>
  <2>1. prep'[a].bal = prep[a].bal /\ \A b \in Member \ {a} : prep'[b] = prep[b]
    BY <1>5, TypeInvElim DEF Before, Prep
  <2> QED BY <1>1, <1>5, <2>1, PromiseAgree
<1> QED BY <1>2, <1>3, <1>4, <1>5

-----------------------------------------------------------------------------
LEMMA DispatchAgree ==
  ASSUME Before, After, NEW a \in Member, NEW x \in Member, Dispatch(a, x)
  PROVE  AgreeInv'
BY ProposerAckRequestAgree, AcceptorAckRequestAgree, AckRefuseAgree, AckRetrieveAgree, AckResendAgree,
   AckPrepareAgree, AckPromiseAgree, AckRedirectAgree, AckDecreeAgree, AckAcceptAgree, AckRejectAgree,
   AckCommitAgree, AckRetryAgree
   DEF Dispatch

LEMMA NextAgree ==
  Trio /\ TypeInv /\ RoleInv /\ HoleInv /\ StayInv /\ AgreeInv /\ [Next]_vars => AgreeInv'
<1> SUFFICES ASSUME Trio, TypeInv, RoleInv, HoleInv, StayInv, AgreeInv, [Next]_vars PROVE AgreeInv'
  OBVIOUS
<1>1. Before
  BY DEF Before
<1>2. After
  <2>1. [Stays]_vars
    BY NextStay DEF Trio
  <2> QED BY <2>1, NextType, NextRole, NextHole DEF After, HoleKept
<1>3. CASE UNCHANGED vars
  <2>1. PICK a \in Member : TRUE
    BY MemberAssumption
  <2>2. Writes(link', a)
    BY <1>3 DEF vars, Writes
  <2> QED BY <1>1, <1>2, <1>3, <2>2, PlainAgree DEF vars
<1>4. CASE Next
  <2>1. PICK a \in Member :
          \/ Step(a) \/ ContinueAckRedirect(a) \/ ContinueAckReject(a) \/ Leave(a)
          \/ \E v \in Chat : Request(a, v)
          \/ \E x \in Member : Dispatch(a, x) \/ Drop(a, x)
    BY <1>4, Zenon DEF Next
  <2>2. CASE Step(a)
    BY <1>1, <1>2, <2>2, CommitAgree, LearnAgree, LearnEndAgree, RedecreeAgree, EndPrepareAgree, DrainAgree
       DEF Step
  <2>3. CASE ContinueAckRedirect(a) \/ ContinueAckReject(a) \/ Leave(a)
    BY <1>1, <1>2, <2>3, ContinueAckRedirectAgree, ContinueAckRejectAgree, LeaveAgree
  <2>4. CASE \E v \in Chat : Request(a, v)
    BY <1>1, <1>2, <2>4, RequestAgree
  <2>5. CASE \E x \in Member : Dispatch(a, x) \/ Drop(a, x)
    BY <1>1, <1>2, <2>5, DispatchAgree, DropAgree
  <2> QED BY <2>1, <2>2, <2>3, <2>4, <2>5
<1> QED BY <1>3, <1>4

LEMMA InitAgree == Trio /\ Init => AgreeInv
<1> SUFFICES ASSUME Trio, Init PROVE AgreeInv
  OBVIOUS
<1>1. First \in Member /\ Second \in Member /\ Second # First
  BY TrioRanks
<1>2. \A a \in Member :
        /\ status[a] = "live" /\ alist[a] = Member /\ peer[a] = Member \ {a} /\ proposer[a] = First
        /\ ballot[a].id = First /\ prep[a] = NoPrep /\ dparts[a] = {} /\ idefer[a] = <<>>
        /\ call[a].fn = "none"
  BY DEF Init, FirstBallot, Return
<1>3. \A a \in Member, i \in Inum : ilist[a][i] = IF i = Base THEN BaseEntry ELSE Absent
  BY DEF Init
<1>4. /\ BaseEntry.bal # NoBallot /\ BaseEntry.val.kind = "join"
      /\ Absent.bal = NoBallot /\ Absent.val.kind \notin {"part", "kill"}
      /\ ~Absent.committed /\ Absent.opcode = "decree"
  <2>1. First # 0
    BY <1>1, MemberNat
  <2> QED BY <2>1 DEF BaseEntry, FirstBallot, NoBallot, Absent, NoValue
<1>5. ~Won /\ Leader = First
  BY <1>1, <1>2 DEF Won, Leader
<1>6. \A a \in Member, i \in Inum :
        /\ Pledged(a, i) \/ Filled(a, i) => i = Base
        /\ \A y : ~Purges(ilist[a][i].val, y)
        /\ ilist[a][i].val.kind # "kill"
  BY <1>2, <1>3, <1>4 DEF Pledged, Committing, Filled, Purges
<1>7. \A a \in Member : Has(a, Base, BaseEntry.val)
  BY <1>3, <1>4, BaseInum DEF Has, Filled
<1>8. ASSUME NEW a \in Member PROVE PledgeInv(a) /\ FollowInv(a)
  <2>1. Safe(Base, BaseEntry.val)
    BY <1>1, <1>5, <1>7 DEF Safe, Has
  <2>2. ilist[a][Base].val = BaseEntry.val
    BY <1>7 DEF Has
  <2>3. Safe(Base, ilist[a][Base].val) /\ Has(First, Base, ilist[a][Base].val)
    BY <1>1, <1>7, <2>1, <2>2
  <2> QED BY <1>6, <2>3 DEF PledgeInv, FollowInv
<1>9. ASSUME NEW a \in Member PROVE PartInv(a)
  <2>1. Deferred(a) = {}
    BY <1>2 DEF Deferred
  <2> QED BY <1>2, <1>6, <2>1 DEF PartInv
<1>10. ASSUME NEW a \in Member PROVE AlistInv(a)
  BY <1>2 DEF AlistInv
<1>11. ASSUME NEW a \in Member PROVE TurnInv(a)
  BY <1>1, <1>2, <1>5 DEF TurnInv, IsProposer, Leads
<1>12. LeaderInv
  BY <1>1, <1>5, <1>6 DEF LeaderInv
<1>13. \A x, y \in Member : Contents(link, x, y) = {}
  BY DEF Init, Contents
<1> QED BY <1>8, <1>9, <1>10, <1>11, <1>12, <1>13 DEF AgreeInv

LEMMA AgreeInvariant ==
  Trio => (Spec => [](HoleInv /\ AgreeInv))
<1> SUFFICES ASSUME Trio PROVE Spec => [](HoleInv /\ AgreeInv)
  OBVIOUS
<1>1. Init => AgreeInv
  BY InitAgree
<1>2. TypeInv /\ RoleInv /\ HoleInv /\ StayInv /\ AgreeInv /\ [Next]_vars => AgreeInv'
  BY NextAgree
<1>3. OnePair
  BY DEF Trio
<1> QED BY <1>1, <1>2, <1>3, HoleInvariant, StayInvariant, PTL DEF Spec

LEMMA PledgesAgree ==
  ASSUME AgreeInv
  PROVE  Agreement
<1> SUFFICES ASSUME NEW a \in Member, NEW b \in Member, NEW i \in Inum,
                    ilist[a][i].committed, ilist[b][i].committed
             PROVE  ilist[a][i].val = ilist[b][i].val
  BY DEF Agreement
<1>1. Safe(i, ilist[a][i].val) /\ Safe(i, ilist[b][i].val)
  BY DEF AgreeInv, PledgeInv, Pledged
<1> QED BY <1>1 DEF Safe, Has

(***************************************************************************)
(* Of at most three members, no two commit different values for an         *)
(* instance.  paxos_acceptor.c takes a commit without looking at its       *)
(* ballot because of it.  Of five it is false: the run agreement shows how *)
(* a new proposer decrees what was committed without it.  Of three, the    *)
(* second leads once the third has promised, and together they have all    *)
(* that the first can have committed.                                      *)
(***************************************************************************)
THEOREM AgreementOfThree == Cardinality(Member) <= 3 => (Spec => []Agreement)
<1> SUFFICES ASSUME Cardinality(Member) <= 3 PROVE Spec => []Agreement
  OBVIOUS
<1>1. OnePair
  BY ThreeHaveOnePair
<1>2. CASE Member = {First}
  <2>1. Agreement
    BY <1>2 DEF Agreement
  <2> QED BY <2>1, PTL
<1>3. CASE Member # {First}
  <2>1. Trio
    BY <1>1, <1>3 DEF Trio
  <2>2. AgreeInv => Agreement
    BY PledgesAgree
  <2> QED BY <2>1, <2>2, AgreeInvariant, PTL
<1> QED BY <1>2, <1>3

(***************************************************************************)
(* Hence what the members learn, one after another, is one sequence: the   *)
(* session implements the total order broadcast of TotalOrder.             *)
(***************************************************************************)
THEOREM TotalOrderOfThree == Cardinality(Member) <= 3 => (Spec => InTotalOrder)
BY AgreementOfThree, PreparedStaysOfThree, OrderFollowsAgreement, PTL

=============================================================================
