------------------------------ MODULE PaxosRoles ------------------------------
(* Theorems about who proposes, and who writes what to whom. *)
EXTENDS PaxosTypes

(***************************************************************************)
(* What a network holds, and what the operators on it do to that.          *)
(***************************************************************************)
Contents(net, x, y) == {net[x][y][n] : n \in DOMAIN net[x][y]}
Within(net, old) == \A x, y \in Member : Contents(net, x, y) \subseteq Contents(old, x, y)

LEMMA SendContents ==
  ASSUME NEW net \in Links, NEW a \in Member, NEW to, NEW m, NEW x \in Member, NEW y \in Member,
         NEW k \in Contents(Send(net, a, to, m), x, y)
  PROVE  k \in Contents(net, x, y) \/ (x = a /\ y \in to /\ a \in peer[y] /\ k = m)
<1>1. net[x][y] \in Seq(Message)
  BY DEF Links
<1>2. CASE x = a /\ y \in to /\ a \in peer[y]
  <2>1. Send(net, a, to, m)[x][y] = Append(net[x][y], m)
    BY <1>2 DEF Send, Links
  <2>2. PICK n \in DOMAIN Append(net[x][y], m) : k = Append(net[x][y], m)[n]
    BY <2>1 DEF Contents
  <2>3. n \in 1 .. Len(net[x][y]) + 1
    BY <1>1, <2>2
  <2>4. CASE n = Len(net[x][y]) + 1
    BY <1>1, <1>2, <2>2, <2>4
  <2>5. CASE n \in 1 .. Len(net[x][y])
    BY <1>1, <2>2, <2>5 DEF Contents
  <2> QED BY <1>1, <2>3, <2>4, <2>5
<1>3. CASE ~(x = a /\ y \in to /\ a \in peer[y])
  <2>1. Send(net, a, to, m)[x][y] = net[x][y]
    BY <1>3 DEF Send, Links
  <2> QED BY <2>1 DEF Contents
<1> QED BY <1>2, <1>3

LEMMA RestContents ==
  ASSUME TypeInv, NEW a \in Member, NEW x \in Member, NEW op, Incoming(a, x, op)
  PROVE  Within(Rest(a, x), link) /\ Msg(a, x) \in Contents(link, x, a)
<1>1. link[x][a] \in Seq(Message) /\ link[x][a] # <<>>
  BY DEF TypeInv, TypeOK, Incoming
<1>2. 1 \in DOMAIN link[x][a] /\ Head(link[x][a]) = link[x][a][1]
  BY <1>1
<1>3. ASSUME NEW u \in Member, NEW v \in Member, NEW k \in Contents(Rest(a, x), u, v)
      PROVE  k \in Contents(link, u, v)
  <2>1. CASE u = x /\ v = a
    <3>1. Rest(a, x)[u][v] = Tail(link[x][a])
      BY <2>1 DEF Rest, TypeInv, TypeOK
    <3>2. PICK n \in DOMAIN Tail(link[x][a]) : k = Tail(link[x][a])[n]
      BY <1>3, <3>1 DEF Contents
    <3>3. n + 1 \in DOMAIN link[x][a] /\ k = link[x][a][n + 1]
      BY <1>1, <3>2
    <3> QED BY <2>1, <3>3 DEF Contents
  <2>2. CASE ~(u = x /\ v = a)
    <3>1. Rest(a, x)[u][v] = link[u][v]
      BY <2>2 DEF Rest, TypeInv, TypeOK
    <3> QED BY <1>3, <3>1 DEF Contents
  <2> QED BY <2>1, <2>2
<1> QED BY <1>2, <1>3 DEF Within, Msg, Contents

LEMMA UnreadContents ==
  ASSUME NEW net, NEW a \in Member, NEW S
  PROVE  Within(Unread(net, a, S), net)
<1> SUFFICES ASSUME NEW x \in Member, NEW y \in Member, NEW k \in Contents(Unread(net, a, S), x, y)
             PROVE  k \in Contents(net, x, y)
  BY DEF Within
<1>1. Unread(net, a, S)[x][y] = <<>> \/ Unread(net, a, S)[x][y] = net[x][y]
  BY DEF Unread
<1>2. DOMAIN <<>> = {}
  OBVIOUS
<1> QED BY <1>1, <1>2 DEF Contents

(***************************************************************************)
(* A step of one member, in three parts: the others stay as they are, its  *)
(* own role stays right, and what it writes has the right direction.       *)
(***************************************************************************)
Others(a) ==
  \A b \in Member \ {a} :
    /\ status'[b] = status[b] /\ peer'[b] = peer[b] /\ proposer'[b] = proposer[b]
    /\ prep'[b] = prep[b] /\ dparts'[b] = dparts[b] /\ idefer'[b] = idefer[b]
    /\ clist'[b] = clist[b]

RoleKept(a) ==
  /\ a \notin peer'[a]
  /\ status'[a] = "live" =>
       /\ status[a] = "live" /\ proposer'[a] = Elected(a, peer'[a])
       /\ IsProposer(a) => proposer'[a] = a
       /\ (prep'[a] # NoPrep \/ dparts'[a] # {} \/ idefer'[a] # <<>> \/ clist'[a] # <<>>)
            => proposer'[a] = a

Fits(a, y, m) ==
  /\ m.op \in Proposals => a < y /\ (status'[a] = "live" => proposer'[a] = a)
  /\ m.op \in Answers => y < a /\ (status[y] = "live" => IsProposer(y))
  /\ m.op = "refuse" => a < y
  /\ m.op = "request" => m.who <= a

FitsIn(net, a) ==
  \A x, y \in Member : \A m \in Contents(net, x, y) :
    m \in Contents(link, x, y) \/ (x = a /\ Fits(a, y, m))

Written(a) == FitsIn(link', a)

LEMMA RoleStep ==
  ASSUME TypeInv, RoleInv, NEW a \in Member, Others(a), RoleKept(a), Written(a)
  PROVE  RoleInv'
<1>1. \A b \in Member : status'[b] = "live" => status[b] = "live" /\ (IsProposer(b) => proposer'[b] = b)
  BY DEF Others, RoleKept, IsProposer
<1>2. \A b \in Member : b \notin peer'[b]
  BY DEF Others, RoleKept, RoleInv
<1>3. ProposerIsFirst'
  BY DEF Others, RoleKept, RoleInv, ProposerIsFirst, Elected
<1>4. \A b \in Member : status'[b] = "live" /\ Working(b)' => IsProposer(b)'
  BY DEF Others, RoleKept, RoleInv, Working, Preparing, IsProposer
<1>5. ASSUME NEW x \in Member, NEW y \in Member, NEW m \in Contents(link', x, y)
      PROVE  Directed(x, y, m)'
  <2>1. CASE m \in Contents(link, x, y)
    <3>1. Directed(x, y, m)
      BY <2>1 DEF RoleInv, InFlight, Contents
    <3> QED BY <1>1, <3>1 DEF Directed, IsProposer
  <2>2. CASE x = a /\ Fits(a, y, m)
    BY <1>1, <2>2 DEF Directed, Fits, IsProposer, Proposals, Answers
  <2> QED BY <1>5, <2>1, <2>2 DEF Written, FitsIn
<1> QED BY <1>2, <1>3, <1>4, <1>5 DEF RoleInv, InFlight, Contents

LEMMA SameRole ==
  ASSUME TypeInv, RoleInv, NEW a \in Member, UNCHANGED <<status, peer, proposer, prep, defers, clist>>
  PROVE  Others(a) /\ RoleKept(a)
BY DEF RoleInv, ProposerIsFirst, Working, Preparing, IsProposer, Others, RoleKept, defers

LEMMA StopRole ==
  ASSUME TypeInv, RoleInv, NEW a \in Member, NEW why \in {"ended"} \cup Failure, NEW net \in Links,
         Within(net, link), Stop(a, why, net),
         \A b \in Member \ {a} :
           /\ proposer'[b] = proposer[b] /\ prep'[b] = prep[b] /\ dparts'[b] = dparts[b]
           /\ idefer'[b] = idefer[b] /\ clist'[b] = clist[b]
  PROVE  Others(a) /\ RoleKept(a) /\ Written(a)
<1>1. "live" \notin {"ended"} \cup Failure
  BY DEF Failure
<1>2. status'[a] = why /\ peer'[a] = {} /\ \A b \in Member \ {a} : status'[b] = status[b] /\ peer'[b] = peer[b]
  BY DEF Stop, TypeInv, TypeOK
<1>3. Within(link', net)
  BY UnreadContents DEF Stop
<1>4. Written(a)
  BY <1>3 DEF Within, FitsIn, Written
<1> QED BY <1>1, <1>2, <1>4 DEF Others, RoleKept

(* What is sent fits when it does at everyone who gets it. *)
LEMMA SendWritten ==
  ASSUME TypeInv, NEW a \in Member, NEW net \in Links, FitsIn(net, a), NEW to, NEW m,
         \A y \in to \cap Member : a \in peer[y] => Fits(a, y, m)
  PROVE  FitsIn(Send(net, a, to, m), a)
<1> SUFFICES ASSUME NEW x \in Member, NEW y \in Member,
                    NEW k \in Contents(Send(net, a, to, m), x, y)
             PROVE  k \in Contents(link, x, y) \/ (x = a /\ Fits(a, y, k))
  BY DEF FitsIn
<1>1. k \in Contents(net, x, y) \/ (x = a /\ y \in to /\ a \in peer[y] /\ k = m)
  BY SendContents
<1> QED BY <1>1 DEF FitsIn

LEMMA LinkWritten ==
  ASSUME NEW a \in Member, NEW net, Within(net, link)
  PROVE  FitsIn(net, a)
BY DEF Within, FitsIn

LEMMA Below ==
  ASSUME NEW a \in Member, NEW pe \in SUBSET Member, a \notin pe, Elected(a, pe) = a
  PROVE  \A y \in pe : a < y
<1>1. \A y \in pe : a <= y
  BY ElectedType
<1> QED BY <1>1, MemberNat

LEMMA PrepareRole ==
  ASSUME TypeInv, RoleInv, NEW a \in Member, NEW al \in SUBSET Member, NEW pe \in SUBSET peer[a],
         NEW net \in Links, Within(net, link), NEW gone \in SUBSET Member,
         NEW ended \in {"ended"} \cup Failure, status[a] = "live",
         Prepare(a, al, pe, net, gone, ended), Elected(a, pe) = a,
         proposer' = [proposer EXCEPT ![a] = a],
         \A b \in Member \ {a} : idefer'[b] = idefer[b] /\ clist'[b] = clist[b]
  PROVE  Others(a) /\ RoleKept(a) /\ Written(a)
<1>1. \A b \in Member \ {a} : proposer'[b] = proposer[b]
  BY DEF TypeInv, TypeOK
<1>2. proposer'[a] = a
  BY DEF TypeInv, TypeOK
<1>3. a \notin pe /\ pe \in SUBSET Member
  BY TypeInvElim DEF RoleInv
<1>4. CASE Stop(a, ended, net) /\ UNCHANGED <<gen_high, prep, dparts>>
  BY <1>1, <1>4, StopRole
<1>5. CASE /\ \E p : prep' = [prep EXCEPT ![a] = p]
           /\ dparts' = [dparts EXCEPT ![a] = @ \cup gone]
           /\ peer' = [peer EXCEPT ![a] = pe]
           /\ \E b, n : link' = Send(net, a, pe, [op |-> "prepare", bal |-> b, inum |-> n])
           /\ UNCHANGED status
  <2>1. \A b \in Member \ {a} : peer'[b] = peer[b] /\ prep'[b] = prep[b] /\ dparts'[b] = dparts[b]
    BY <1>5 DEF TypeInv, TypeOK
  <2>2. peer'[a] = pe
    BY <1>5 DEF TypeInv, TypeOK
  <2>3. PICK b, n : link' = Send(net, a, pe, [op |-> "prepare", bal |-> b, inum |-> n])
    BY <1>5
  <2>4. \A y \in pe : Fits(a, y, [op |-> "prepare", bal |-> b, inum |-> n])
    BY <1>2, <1>3, Below DEF Fits, Proposals, Answers
  <2>5. Written(a)
    BY <2>3, <2>4, SendWritten, LinkWritten DEF Written
  <2> QED BY <1>1, <1>2, <1>3, <1>5, <2>1, <2>2, <2>5 DEF Others, RoleKept
<1>6. \/ Stop(a, ended, net) /\ UNCHANGED <<gen_high, prep, dparts>>
      \/ /\ \E p : prep' = [prep EXCEPT ![a] = p]
         /\ dparts' = [dparts EXCEPT ![a] = @ \cup gone]
         /\ peer' = [peer EXCEPT ![a] = pe]
         /\ \E b, n : link' = Send(net, a, pe, [op |-> "prepare", bal |-> b, inum |-> n])
         /\ UNCHANGED status
  BY DEF Prepare
<1> QED BY <1>4, <1>5, <1>6

-----------------------------------------------------------------------------
(* What a proposer writes of decrees and commits fits. *)
LEMMA ProposalFits ==
  ASSUME TypeInv, RoleInv, NEW a \in Member, status[a] = "live", IsProposer(a),
         proposer' = proposer, NEW y \in peer[a], NEW m, m.op \in Proposals
  PROVE  Fits(a, y, m)
<1>1. a < y
  <2>1. Elected(a, peer[a]) = a /\ a \notin peer[a] /\ peer[a] \in SUBSET Member
    BY TypeInvElim DEF RoleInv, ProposerIsFirst, IsProposer
  <2> QED BY <2>1, Below
<1> QED BY <1>1 DEF Fits, Proposals, Answers, IsProposer

(* Nothing fits its way better than what has no direction. *)
LEMMA OtherFits ==
  ASSUME NEW a, NEW y, NEW m, m.op \in {"retry", "retrieve", "resend"}
  PROVE  Fits(a, y, m)
BY DEF Fits, Proposals, Answers

LEMMA ProposerDecreeRole ==
  ASSUME TypeInv, RoleInv, NEW a \in Member, NEW v, NEW pe \in SUBSET peer[a],
         NEW net \in Links, FitsIn(net, a), status[a] = "live", IsProposer(a),
         proposer' = proposer, ProposerDecree(a, v, pe, net)
  PROVE  Written(a)
<1> DEFINE m == DecreeMsg(ballot[a], Last(ilist[a]) + 1, v)
<1>1. link' = Send(net, a, pe, m)
  BY DEF ProposerDecree
<1>2. m.op \in Proposals
  BY DEF DecreeMsg, Proposals
<1>3. \A y \in pe : Fits(a, y, m)
  <2> HIDE DEF m
  <2> QED BY <1>2, ProposalFits
<1> HIDE DEF m
<1> QED BY <1>1, <1>3, SendWritten DEF Written

LEMMA SubmitRole ==
  ASSUME TypeInv, RoleInv, NEW a \in Member, NEW v, NEW pe \in SUBSET peer[a],
         NEW net \in Links, FitsIn(net, a), status[a] = "live", IsProposer(a),
         proposer' = proposer, Submit(a, v, pe, net)
  PROVE  Written(a) /\ \A b \in Member \ {a} : idefer'[b] = idefer[b]
<1>1. CASE Preparing(a)
  <2>1. link' = net /\ idefer' = [idefer EXCEPT ![a] = Append(@, v)]
    BY <1>1 DEF Submit
  <2> QED BY <2>1 DEF Written, TypeInv, TypeOK
<1>2. CASE ~Preparing(a)
  <2>1. ProposerDecree(a, v, pe, net) /\ idefer' = idefer
    BY <1>2 DEF Submit
  <2> QED BY <2>1, ProposerDecreeRole
<1> QED BY <1>1, <1>2

LEMMA CommitRole ==
  ASSUME TypeInv, RoleInv, NEW a \in Member, Commit(a)
  PROVE  RoleInv'
<1>1. UNCHANGED <<proposer, prep, defers, clist>>
  BY DEF Commit, ballots
<1>2. ASSUME NEW why \in Failure, Stop(a, why, link)
      PROVE  RoleInv'
  <2>1. Within(link, link) /\ link \in Links
    BY TypeInvElim DEF Within
  <2> QED BY <1>1, <1>2, <2>1, StopRole, RoleStep DEF defers
<1>3. ASSUME NEW to, NEW m, link' = link \/ link' = Send(link, a, to, m),
             m.op \in {"retry", "retrieve"}, UNCHANGED <<status, peer>>
      PROVE  RoleInv'
  <2>1. Within(link, link) /\ link \in Links
    BY TypeInvElim DEF Within
  <2>2. \A y : Fits(a, y, m)
    BY <1>3, OtherFits
  <2>3. Written(a)
    BY <1>3, <2>1, <2>2, SendWritten, LinkWritten DEF Written
  <2> QED BY <1>1, <1>3, <2>3, SameRole, RoleStep
<1>4. \/ \E why \in Failure : Stop(a, why, link)
      \/ \E to, m : /\ link' = link \/ link' = Send(link, a, to, m)
                    /\ m.op \in {"retry", "retrieve"}
                    /\ UNCHANGED <<status, peer>>
  <2> DEFINE i == call[a].inum
             v == ilist[a][i].val
  <2>1. "commit_learned" \in Failure /\ "commit_istart" \in Failure
    BY DEF Failure
  <2>2. [op |-> "retry", bal |-> ballot[a], inum |-> ihole[a]].op \in {"retry", "retrieve"}
    OBVIOUS
  <2>3. [op |-> "retrieve", who |-> a, inum |-> i, val |-> v].op \in {"retry", "retrieve"}
    OBVIOUS
  <2>4. CASE CommitUncached(a, i) /\ UNCHANGED <<status, peer>>
    BY <2>3, <2>4 DEF CommitUncached, Retrieve
  <2>5. CASE CommitPastHole(a, i) /\ UNCHANGED <<status, peer>>
    <3>1. \/ link' = link
          \/ link' = Send(link, a, {proposer[a]},
                          [op |-> "retry", bal |-> ballot[a], inum |-> ihole[a]])
      BY <2>5 DEF CommitPastHole
    <3> QED BY <2>2, <2>5, <3>1
  <2>6. CASE CommitHole(a, i) /\ UNCHANGED <<status, peer>>
    BY <2>2, <2>6 DEF CommitHole
  <2>7. \/ CommitUncached(a, i) /\ UNCHANGED <<status, peer>>
        \/ Stop(a, "commit_learned", link)
        \/ CommitPastHole(a, i) /\ UNCHANGED <<status, peer>>
        \/ Stop(a, "commit_istart", link)
        \/ CommitHole(a, i) /\ UNCHANGED <<status, peer>>
    BY DEF Commit
  <2> QED BY <2>1, <2>4, <2>5, <2>6, <2>7
<1> QED BY <1>2, <1>3, <1>4

LEMMA LinkIn == ASSUME TypeInv PROVE Within(link, link) /\ link \in Links
BY TypeInvElim DEF Within

(* A handler that changes no role and no work of its member, and writes    *)
(* nothing but what fits, or dies.                                         *)
LEMMA PlainRole ==
  ASSUME TypeInv, RoleInv, NEW a \in Member, UNCHANGED <<proposer, prep, defers, clist>>,
         \/ \E why \in {"ended"} \cup Failure : Stop(a, why, link)
         \/ Written(a) /\ UNCHANGED <<status, peer>>
  PROVE  RoleInv'
<1>1. ASSUME NEW why \in {"ended"} \cup Failure, Stop(a, why, link)
      PROVE  RoleInv'
  BY <1>1, LinkIn, StopRole, RoleStep DEF defers
<1>2. CASE Written(a) /\ UNCHANGED <<status, peer>>
  BY <1>2, SameRole, RoleStep
<1> QED BY <1>1, <1>2

(* Without someone who is not the first, the first is the same. *)
LEMMA ElectedWithout ==
  ASSUME NEW a \in Member, NEW pe \in SUBSET Member, NEW y, y # Elected(a, pe)
  PROVE  Elected(a, pe \ {y}) = Elected(a, pe)
<1>1. /\ Elected(a, pe) \in {a} \cup pe
      /\ \A z \in {a} \cup pe : Elected(a, pe) <= z
  BY ElectedType
<1>2. pe \ {y} \in SUBSET Member
  OBVIOUS
<1>3. /\ Elected(a, pe \ {y}) \in {a} \cup (pe \ {y})
      /\ \A z \in {a} \cup (pe \ {y}) : Elected(a, pe \ {y}) <= z
  BY <1>2, ElectedType
<1>4. Elected(a, pe) \in {a} \cup (pe \ {y})
  BY <1>1
<1>5. Elected(a, pe \ {y}) <= Elected(a, pe) /\ Elected(a, pe) <= Elected(a, pe \ {y})
  BY <1>1, <1>3, <1>4
<1>6. Elected(a, pe) \in Nat /\ Elected(a, pe \ {y}) \in Nat
  BY <1>1, <1>3, MemberNat
<1> QED BY <1>5, <1>6

LEMMA ReelectedFirst ==
  ASSUME TypeInv, RoleInv, NEW a \in Member, status[a] = "live", NEW y
  PROVE  LET np == Reelected(a, y, peer[a] \ {y})
         IN np = Elected(a, peer[a] \ {y}) /\ np \in Member /\ (y # proposer[a] => np = proposer[a])
<1>1. peer[a] \in SUBSET Member /\ peer[a] \ {y} \in SUBSET Member
  BY TypeInvElim
<1>2. proposer[a] = Elected(a, peer[a])
  BY DEF RoleInv, ProposerIsFirst
<1>3. y # proposer[a] => Elected(a, peer[a] \ {y}) = proposer[a]
  BY <1>1, <1>2, ElectedWithout
<1>4. Elected(a, peer[a] \ {y}) \in Member
  BY <1>1, ElectedType
<1> QED BY <1>3, <1>4 DEF Reelected

LEMMA LearnRole ==
  ASSUME TypeInv, RoleInv, NEW a \in Member, Learn(a)
  PROVE  RoleInv'
<1> DEFINE v == ilist[a][ihole[a]].val
<1>1. UNCHANGED <<idefer, clist>> /\ status[a] = "live"
  BY DEF Learn
<1>2. ASSUME NEW why \in {"ended"} \cup Failure, Stop(a, why, link), UNCHANGED <<proposer, prep, dparts>>
      PROVE  RoleInv'
  BY <1>1, <1>2, PlainRole DEF defers
<1>3. ASSUME UNCHANGED <<status, sess, prep, dparts, link>>
      PROVE  RoleInv'
  <2>1. Written(a)
    BY <1>3, LinkIn, LinkWritten DEF Written
  <2> QED BY <1>1, <1>3, <2>1, PlainRole DEF sess, defers
<1>4. ASSUME NEW y, y # a, LearnPart(a, y)
      PROVE  RoleInv'
  <2> DEFINE al == alist[a] \ {y}
             pe == peer[a] \ {y}
             net == Unread(link, a, {y})
             np == Reelected(a, y, pe)
             gone == Unconnected(a, al, pe)
  <2>1. /\ al \in SUBSET Member /\ pe \in SUBSET peer[a] /\ pe \in SUBSET Member
        /\ gone \in SUBSET Member
    BY TypeInvElim DEF Unconnected
  <2>2. net \in Links /\ Within(net, link)
    BY UnreadType, UnreadContents, TypeInvElim
  <2>3. proposer[a] = Elected(a, peer[a]) /\ a \notin peer[a]
    BY <1>1 DEF RoleInv, ProposerIsFirst
  <2>4. np = Elected(a, pe) /\ np \in Member
    BY <1>1, ReelectedFirst
  <2>5. proposer' = [proposer EXCEPT ![a] = np]
    BY <1>4 DEF LearnPart
  <2>6. \/ Prepare(a, al, pe, net, gone, "ended") /\ np = a
        \/ /\ peer' = [peer EXCEPT ![a] = pe]
           /\ link' = net
           /\ y # proposer[a] \/ np # a
           /\ UNCHANGED <<status, gen_high, prep, dparts>>
    BY <1>4 DEF LearnPart
  <2> HIDE DEF al, pe, net, gone
  <2>7. CASE Prepare(a, al, pe, net, gone, "ended") /\ np = a
    <3>1. Others(a) /\ RoleKept(a) /\ Written(a)
      <4> HIDE DEF np
      <4> QED BY <1>1, <2>1, <2>2, <2>4, <2>5, <2>7, PrepareRole
    <3> QED BY <3>1, RoleStep
  <2>8. CASE /\ peer' = [peer EXCEPT ![a] = pe]
             /\ link' = net
             /\ UNCHANGED <<status, gen_high, prep, dparts>>
    <3>1. IsProposer(a) => np = a
      BY <1>4 DEF IsProposer, Reelected
    <3> HIDE DEF np
    <3>2. /\ proposer'[a] = np /\ \A b \in Member \ {a} : proposer'[b] = proposer[b]
          /\ peer'[a] = pe /\ \A b \in Member \ {a} : peer'[b] = peer[b]
      BY <2>5, <2>8 DEF TypeInv, TypeOK
    <3>3. Others(a)
      BY <1>1, <2>8, <3>2 DEF Others
    <3>4. RoleKept(a)
      BY <1>1, <2>1, <2>3, <2>4, <2>8, <3>1, <3>2 DEF RoleKept, RoleInv, Working, Preparing
    <3>5. Written(a)
      BY <2>2, <2>8, LinkWritten DEF Written
    <3> QED BY <3>3, <3>4, <3>5, RoleStep
  <2> QED BY <2>6, <2>7, <2>8
<1>5. \/ UNCHANGED <<status, sess, prep, dparts, link>>
      \/ \E why \in {"ended"} \cup Failure :
           Stop(a, why, link) /\ UNCHANGED <<proposer, prep, dparts>>
      \/ v.arg # a /\ LearnPart(a, v.arg)
  <2>1. \/ LearnChat(a, v) \/ LearnOwnPart(a) \/ (v.arg # a /\ LearnPart(a, v.arg))
        \/ UNCHANGED <<status, sess, gen_high, prep, dparts, link>>
    BY Zenon DEF Learn
  <2>2. "chat_author" \in Failure /\ "null_session" \in Failure
    BY DEF Failure
  <2> QED BY <2>1, <2>2 DEF LearnChat, LearnOwnPart
<1> QED BY <1>2, <1>3, <1>4, <1>5

LEMMA LearnEndRole ==
  ASSUME TypeInv, RoleInv, NEW a \in Member, LearnEnd(a)
  PROVE  RoleInv'
<1>1. Written(a)
  BY LinkIn, LinkWritten DEF LearnEnd, Written
<1> QED BY <1>1, PlainRole DEF LearnEnd, sess, ballots

-----------------------------------------------------------------------------
(* A message that is read, and what is left to read. *)
LEMMA Received ==
  ASSUME TypeInv, RoleInv, NEW a \in Member, NEW x \in Member, NEW op, Incoming(a, x, op)
  PROVE  /\ status[a] = "live" /\ x \in peer[a] /\ x # a
         /\ Msg(a, x).op = op /\ Directed(x, a, Msg(a, x))
         /\ Rest(a, x) \in Links /\ FitsIn(Rest(a, x), a)
<1>1. Msg(a, x) \in Contents(link, x, a) /\ FitsIn(Rest(a, x), a)
  BY RestContents, LinkWritten
<1>2. Directed(x, a, Msg(a, x))
  BY <1>1 DEF RoleInv, InFlight, Contents
<1> QED BY <1>1, <1>2, ReadType DEF Incoming, RoleInv, TypeInv

(* A handler that only reads, or answers the sender. *)
LEMMA AnswerRole ==
  ASSUME TypeInv, RoleInv, NEW a \in Member, NEW x \in Member, NEW op, Incoming(a, x, op),
         NEW to, NEW m, link' = Rest(a, x) \/ link' = Send(Rest(a, x), a, to, m),
         \A y \in to \cap Member : a \in peer[y] => Fits(a, y, m)
  PROVE  Written(a)
BY Received, SendWritten DEF Written

LEMMA RequestRole ==
  ASSUME TypeInv, RoleInv, NEW a \in Member, NEW v \in Chat, Request(a, v)
  PROVE  RoleInv'
<1> DEFINE m == [op |-> "request", who |-> proposer[a], val |-> v]
           net == Send(link, a, peer[a], m)
<1>1. status[a] = "live" /\ UNCHANGED <<status, peer, proposer, prep, dparts, clist>>
  BY DEF Request, sess, ballots
<1>2. \A y : Fits(a, y, m)
  <2>1. proposer[a] <= a
    <3>1. peer[a] \in SUBSET Member
      BY TypeInvElim
    <3> QED BY <1>1, <3>1, ElectedType DEF RoleInv, ProposerIsFirst
  <2> QED BY <2>1 DEF Fits, Proposals, Answers
<1>3. net \in Links
  <2>1. m \in Message
    BY ChatAssumption, MemberNat, TypeInvElim DEF Message
  <2> HIDE DEF m
  <2> QED BY <2>1, LinkIn, SendType
<1>4. FitsIn(net, a)
  <2> HIDE DEF m
  <2> QED BY <1>2, LinkIn, LinkWritten, SendWritten
<1>5. \/ IsProposer(a) /\ Submit(a, v, peer[a], net)
      \/ link' = net /\ UNCHANGED idefer
  BY DEF Request
<1> HIDE DEF net
<1>6. CASE IsProposer(a) /\ Submit(a, v, peer[a], net)
  <2>1. Written(a) /\ \A b \in Member \ {a} : idefer'[b] = idefer[b]
    BY <1>1, <1>3, <1>4, <1>6, SubmitRole
  <2>2. Others(a)
    BY <1>1, <2>1 DEF Others
  <2>3. RoleKept(a)
    BY <1>1, <1>6 DEF RoleKept, RoleInv, ProposerIsFirst, IsProposer
  <2> QED BY <2>1, <2>2, <2>3, RoleStep
<1>7. CASE link' = net /\ UNCHANGED idefer
  BY <1>1, <1>4, <1>7, PlainRole DEF Written, defers
<1> QED BY <1>5, <1>6, <1>7

LEMMA ProposerAckRequestRole ==
  ASSUME TypeInv, RoleInv, NEW a \in Member, NEW x \in Member, ProposerAckRequest(a, x)
  PROVE  RoleInv'
<1>1. UNCHANGED <<status, peer, proposer, prep, dparts, clist>> /\ IsProposer(a)
  BY DEF ProposerAckRequest, sess, ballots
<1>2. status[a] = "live" /\ Rest(a, x) \in Links /\ FitsIn(Rest(a, x), a)
  BY Received DEF ProposerAckRequest
<1>3. PICK v : Submit(a, v, peer[a], Rest(a, x))
  BY DEF ProposerAckRequest
<1>4. Written(a) /\ \A b \in Member \ {a} : idefer'[b] = idefer[b]
  BY <1>1, <1>2, <1>3, SubmitRole
<1>5. Others(a)
  BY <1>1, <1>4 DEF Others
<1>6. RoleKept(a)
  BY <1>1, <1>2 DEF RoleKept, RoleInv, ProposerIsFirst, IsProposer
<1> QED BY <1>4, <1>5, <1>6, RoleStep

LEMMA AcceptorAckRequestRole ==
  ASSUME TypeInv, RoleInv, NEW a \in Member, NEW x \in Member, AcceptorAckRequest(a, x)
  PROVE  RoleInv'
<1> DEFINE m == Msg(a, x)
           no == [op |-> "refuse", who |-> proposer[a]]
<1>1. m.op = "request" /\ Directed(x, a, m) /\ x # a
  BY Received DEF AcceptorAckRequest
<1>2. m.who <= x
  BY <1>1 DEF Directed
<1>3. CASE m.who = a
  <2>1. Fits(a, x, no)
    BY <1>1, <1>2, <1>3, MemberNat DEF Fits, Proposals, Answers
  <2>2. Written(a)
    BY <1>3, <2>1, AnswerRole DEF AcceptorAckRequest
  <2> QED BY <2>2, PlainRole DEF AcceptorAckRequest, sess, ballots
<1>4. CASE m.who # a
  <2>1. Written(a)
    BY <1>4, Received DEF AcceptorAckRequest, Written
  <2> QED BY <2>1, PlainRole DEF AcceptorAckRequest, sess, ballots
<1> QED BY <1>3, <1>4

LEMMA AckRefuseRole ==
  ASSUME TypeInv, RoleInv, NEW a \in Member, NEW x \in Member, AckRefuse(a, x)
  PROVE  RoleInv'
<1>1. FitsIn(Rest(a, x), a)
  BY Received DEF AckRefuse
<1>2. \/ link' = Rest(a, x) /\ UNCHANGED <<status, peer>>
      \/ Stop(a, "target", link)
  BY DEF AckRefuse
<1> QED BY <1>1, <1>2, PlainRole DEF AckRefuse, ballots, Written, Failure

LEMMA AckRetrieveRole ==
  ASSUME TypeInv, RoleInv, NEW a \in Member, NEW x \in Member, AckRetrieve(a, x)
  PROVE  RoleInv'
<1> DEFINE m == Msg(a, x)
           r == [op |-> "resend", inum |-> m.inum, val |-> m.val]
<1>1. \A y : Fits(a, y, r)
  BY OtherFits
<1>2. link' = Rest(a, x) \/ link' = Send(Rest(a, x), a, {m.who} \cap peer[a], r)
  BY DEF AckRetrieve
<1>3. Written(a)
  <2> HIDE DEF m, r
  <2> QED BY <1>1, <1>2, AnswerRole DEF AckRetrieve
<1> QED BY <1>3, PlainRole DEF AckRetrieve, sess, ballots

LEMMA AckResendRole ==
  ASSUME TypeInv, RoleInv, NEW a \in Member, NEW x \in Member, AckResend(a, x)
  PROVE  RoleInv'
<1>1. Written(a)
  BY Received DEF AckResend, Written
<1> QED BY <1>1, PlainRole DEF AckResend, sess, ballots

-----------------------------------------------------------------------------
(* What an acceptor answers to a proposal goes back up. *)
LEMMA AnswerFits ==
  ASSUME TypeInv, RoleInv, NEW a \in Member, NEW x \in Member, NEW op \in Proposals,
         Incoming(a, x, op), NEW m, m.op \in Answers
  PROVE  Fits(a, x, m)
BY Received DEF Directed, Fits, Proposals, Answers

LEMMA AckPrepareRole ==
  ASSUME TypeInv, RoleInv, NEW a \in Member, NEW x \in Member, AckPrepare(a, x)
  PROVE  RoleInv'
<1> DEFINE m == Msg(a, x)
           no == [op |-> "redirect", bal |-> m.bal, who |-> proposer[a]]
           yes == [op |-> "promise", bal |-> m.bal, inum |-> m.inum,
                   log |-> Accepts(ilist[a], m.inum)]
<1>1. Incoming(a, x, "prepare") /\ "prepare" \in Proposals
  BY DEF AckPrepare, Proposals
<1>2. Fits(a, x, no) /\ Fits(a, x, yes)
  <2>1. no.op \in Answers /\ yes.op \in Answers
    BY DEF Answers
  <2> HIDE DEF no, yes
  <2> QED BY <1>1, <2>1, AnswerFits
<1>3. link' = Send(Rest(a, x), a, {x}, no) \/ link' = Send(Rest(a, x), a, {x}, yes)
  BY DEF AckPrepare
<1> HIDE DEF no, yes
<1>4. Written(a)
  BY <1>1, <1>2, <1>3, AnswerRole
<1> QED BY <1>4, PlainRole DEF AckPrepare, sess

LEMMA AckPromiseRole ==
  ASSUME TypeInv, RoleInv, NEW a \in Member, NEW x \in Member, AckPromise(a, x)
  PROVE  RoleInv'
<1>1. /\ status[a] = "live" /\ FitsIn(Rest(a, x), a) /\ IsProposer(a)
      /\ UNCHANGED <<proposer, defers, clist>>
  BY Received DEF AckPromise
<1>2. \A b \in Member \ {a} : prep'[b] = prep[b]
  BY DEF AckPromise, TypeInv, TypeOK
<1>3. \/ \E why \in Failure : Stop(a, why, link)
      \/ link' = Rest(a, x) /\ UNCHANGED <<status, peer>>
  <2> "promise_glb" \in Failure /\ "redecree_glb" \in Failure
    BY DEF Failure
  <2> QED BY DEF AckPromise
<1>4. ASSUME NEW why \in Failure, Stop(a, why, link)
      PROVE  RoleInv'
  BY <1>1, <1>2, <1>4, LinkIn, StopRole, RoleStep DEF defers
<1>5. CASE link' = Rest(a, x) /\ UNCHANGED <<status, peer>>
  <2>1. Others(a)
    BY <1>1, <1>2, <1>5 DEF Others, defers
  <2>2. RoleKept(a)
    BY <1>1, <1>5 DEF RoleKept, RoleInv, ProposerIsFirst, IsProposer
  <2> QED BY <1>1, <1>5, <2>1, <2>2, RoleStep DEF Written
<1> QED BY <1>3, <1>4, <1>5

LEMMA RedecreeRole ==
  ASSUME TypeInv, RoleInv, NEW a \in Member, Redecree(a)
  PROVE  RoleInv'
<1>1. status[a] = "live" /\ IsProposer(a) /\ proposer' = proposer
  BY DEF Redecree, Redecreeing, RoleInv, Working, sess
<1>2. PICK i, v : link' = Send(link, a, peer[a], DecreeMsg(ballot[a], i, v))
  BY DEF Redecree
<1>3. \A y \in peer[a] : Fits(a, y, DecreeMsg(ballot[a], i, v))
  BY <1>1, ProposalFits DEF DecreeMsg, Proposals
<1>4. Written(a)
  BY <1>2, <1>3, LinkIn, LinkWritten, SendWritten DEF Written
<1> QED BY <1>4, PlainRole DEF Redecree, sess, ballots

LEMMA EndPrepareRole ==
  ASSUME TypeInv, RoleInv, NEW a \in Member, EndPrepare(a)
  PROVE  RoleInv'
<1>1. /\ status[a] = "live" /\ Preparing(a) /\ link' = link
      /\ UNCHANGED <<status, peer, proposer, defers, clist>>
      /\ \A b \in Member \ {a} : prep'[b] = prep[b]
  BY DEF EndPrepare, Redecreeing, sess, TypeInv, TypeOK
<1>2. IsProposer(a)
  BY <1>1 DEF RoleInv, Working
<1>3. Others(a)
  BY <1>1 DEF Others, defers
<1>4. RoleKept(a)
  BY <1>1, <1>2 DEF RoleKept, RoleInv, ProposerIsFirst, IsProposer
<1>5. Written(a)
  BY <1>1, LinkIn, LinkWritten DEF Written
<1> QED BY <1>3, <1>4, <1>5, RoleStep

LEMMA DrainRole ==
  ASSUME TypeInv, RoleInv, NEW a \in Member, Drain(a)
  PROVE  RoleInv'
<1>1. /\ status[a] = "live" /\ UNCHANGED <<status, peer, proposer, prep, clist>>
      /\ Draining(a)
      /\ \A b \in Member \ {a} : dparts'[b] = dparts[b] /\ idefer'[b] = idefer[b]
  BY DEF Drain, sess, ballots, TypeInv, TypeOK
<1>2. IsProposer(a)
  BY <1>1 DEF RoleInv, Working, Draining
<1>3. PICK v : ProposerDecree(a, v, peer[a], link)
  BY DEF Drain
<1>4. Written(a)
  BY <1>1, <1>2, <1>3, LinkIn, LinkWritten, ProposerDecreeRole
<1>5. Others(a)
  BY <1>1 DEF Others
<1>6. RoleKept(a)
  BY <1>1, <1>2 DEF RoleKept, RoleInv, ProposerIsFirst, IsProposer
<1> QED BY <1>4, <1>5, <1>6, RoleStep

(* A proposer that prepares again, with the peers it has. *)
LEMMA PrepareAgainRole ==
  ASSUME TypeInv, RoleInv, NEW a \in Member, status[a] = "live", IsProposer(a),
         NEW net \in Links, Within(net, link),
         Prepare(a, alist[a], peer[a], net, {}, "null_session"),
         UNCHANGED <<proposer, idefer>>,
         \A b \in Member \ {a} : clist'[b] = clist[b]
  PROVE  RoleInv'
<1>1. "null_session" \in Failure /\ alist[a] \in SUBSET Member
  BY TypeInvElim DEF Failure
<1>2. Elected(a, peer[a]) = a
  BY DEF RoleInv, ProposerIsFirst, IsProposer
<1>3. proposer' = [proposer EXCEPT ![a] = a]
  BY DEF IsProposer, TypeInv, TypeOK
<1> QED BY <1>1, <1>2, <1>3, PrepareRole, RoleStep

(* A proposer that counts an answer, or dies of it. *)
LEMMA CountRole ==
  ASSUME TypeInv, RoleInv, NEW a \in Member, status[a] = "live", IsProposer(a),
         UNCHANGED <<proposer, defers>>,
         \A b \in Member \ {a} : prep'[b] = prep[b] /\ clist'[b] = clist[b],
         \/ \E why \in Failure : Stop(a, why, link)
         \/ Written(a) /\ UNCHANGED <<status, peer>>
  PROVE  RoleInv'
<1>1. ASSUME NEW why \in Failure, Stop(a, why, link)
      PROVE  RoleInv'
  BY <1>1, LinkIn, StopRole, RoleStep DEF defers
<1>2. CASE Written(a) /\ UNCHANGED <<status, peer>>
  <2>1. Others(a)
    BY <1>2 DEF Others, defers
  <2>2. RoleKept(a)
    BY <1>2 DEF RoleKept, RoleInv, ProposerIsFirst, IsProposer
  <2> QED BY <1>2, <2>1, <2>2, RoleStep
<1> QED BY <1>1, <1>2

LEMMA AckRedirectRole ==
  ASSUME TypeInv, RoleInv, NEW a \in Member, NEW x \in Member, AckRedirect(a, x)
  PROVE  RoleInv'
<1>1. /\ status[a] = "live" /\ FitsIn(Rest(a, x), a) /\ Rest(a, x) \in Links
      /\ IsProposer(a) /\ UNCHANGED <<proposer, idefer>>
  BY Received DEF AckRedirect
<1>2. Within(Rest(a, x), link)
  BY RestContents DEF AckRedirect
<1>3. \/ /\ \E why \in Failure : Stop(a, why, link)
         /\ UNCHANGED <<gen_high, prep, dparts, clist>>
      \/ /\ link' = Rest(a, x) /\ UNCHANGED <<status, peer, gen_high, dparts>>
         /\ prep' = prep \/ \E q : prep' = [prep EXCEPT ![a] = q]
         /\ clist' = clist \/ \E s : clist' = [clist EXCEPT ![a] = s]
      \/ Prepare(a, alist[a], peer[a], Rest(a, x), {}, "null_session") /\ clist' = clist
  <2> "redirect_rank" \in Failure /\ "redirect_target" \in Failure
    BY DEF Failure
  <2> QED BY DEF AckRedirect
<1>4. CASE /\ \E why \in Failure : Stop(a, why, link)
           /\ UNCHANGED <<gen_high, prep, dparts, clist>>
  BY <1>1, <1>4, CountRole DEF defers
<1>5. CASE /\ link' = Rest(a, x) /\ UNCHANGED <<status, peer, gen_high, dparts>>
           /\ prep' = prep \/ \E q : prep' = [prep EXCEPT ![a] = q]
           /\ clist' = clist \/ \E s : clist' = [clist EXCEPT ![a] = s]
  <2>1. \A b \in Member \ {a} : prep'[b] = prep[b] /\ clist'[b] = clist[b]
    BY <1>5 DEF TypeInv, TypeOK
  <2>2. Written(a)
    BY <1>1, <1>5 DEF Written
  <2> QED BY <1>1, <1>5, <2>1, <2>2, CountRole DEF defers
<1>6. CASE Prepare(a, alist[a], peer[a], Rest(a, x), {}, "null_session") /\ clist' = clist
  BY <1>1, <1>2, <1>6, PrepareAgainRole
<1> QED BY <1>3, <1>4, <1>5, <1>6

(* Only a proposer waits for reconnections. *)
LEMMA WaitingIsProposer ==
  ASSUME RoleInv, NEW a \in Member, status[a] = "live", NEW n \in DOMAIN clist[a]
  PROVE  IsProposer(a)
<1>1. clist[a] # <<>>
  OBVIOUS
<1> QED BY <1>1 DEF RoleInv, Working

LEMMA ContinueAckRedirectRole ==
  ASSUME TypeInv, RoleInv, NEW a \in Member, ContinueAckRedirect(a)
  PROVE  RoleInv'
<1>1. PICK n \in DOMAIN clist[a] :
        /\ clist' = [clist EXCEPT ![a] = Removed(@, n)]
        /\ \/ Prepare(a, alist[a], peer[a], link, {}, "null_session")
           \/ UNCHANGED <<status, peer, gen_high, prep, dparts, link>>
  BY DEF ContinueAckRedirect
<1>2. status[a] = "live" /\ IsProposer(a) /\ UNCHANGED <<proposer, idefer>>
  BY WaitingIsProposer DEF ContinueAckRedirect
<1>3. \A b \in Member \ {a} : clist'[b] = clist[b]
  BY <1>1 DEF TypeInv, TypeOK
<1>4. CASE Prepare(a, alist[a], peer[a], link, {}, "null_session")
  BY <1>2, <1>3, <1>4, LinkIn, PrepareAgainRole
<1>5. CASE UNCHANGED <<status, peer, gen_high, prep, dparts, link>>
  <2>1. Written(a)
    BY <1>5, LinkIn, LinkWritten DEF Written
  <2> QED BY <1>2, <1>3, <1>5, <2>1, CountRole DEF defers
<1> QED BY <1>1, <1>4, <1>5

-----------------------------------------------------------------------------
LEMMA AckDecreeRole ==
  ASSUME TypeInv, RoleInv, NEW a \in Member, NEW x \in Member, AckDecree(a, x)
  PROVE  RoleInv'
<1> DEFINE m == Msg(a, x)
           no == [op |-> "reject", bal |-> m.bal, inum |-> m.inum]
           yes == [op |-> "accept", bal |-> m.bal, inum |-> m.inum]
<1>1. Incoming(a, x, "decree") /\ "decree" \in Proposals
  BY DEF AckDecree, Proposals
<1>2. Fits(a, x, no) /\ Fits(a, x, yes)
  <2>1. no.op \in Answers /\ yes.op \in Answers
    BY DEF Answers
  <2> HIDE DEF no, yes
  <2> QED BY <1>1, <2>1, AnswerFits
<1>3. \/ /\ \/ link' = Rest(a, x)
            \/ link' = Send(Rest(a, x), a, {x}, no)
            \/ link' = Send(Rest(a, x), a, {x}, yes)
         /\ UNCHANGED <<status, peer>>
      \/ \E why \in Failure : Stop(a, why, link)
  <2> "decree_proposer" \in Failure /\ "target" \in Failure /\ "decree_value" \in Failure
    BY DEF Failure
  <2>1. \/ (link' = Rest(a, x) \/ link' = Send(Rest(a, x), a, {x}, no))
           /\ UNCHANGED <<status, peer>>
        \/ \E why \in Failure : Stop(a, why, link)
        \/ AcceptDecree(a, x, m)
    BY DEF AckDecree
  <2>2. AcceptDecree(a, x, m) =>
          \/ (link' = Rest(a, x) \/ link' = Send(Rest(a, x), a, {x}, yes))
             /\ UNCHANGED <<status, peer>>
          \/ Stop(a, "decree_value", link)
    BY DEF AcceptDecree
  <2> QED BY <2>1, <2>2
<1> HIDE DEF no, yes
<1>4. link' = Rest(a, x) \/ link' = Send(Rest(a, x), a, {x}, no)
        \/ link' = Send(Rest(a, x), a, {x}, yes) => Written(a)
  BY <1>1, <1>2, AnswerRole
<1>5. UNCHANGED <<proposer, prep, defers, clist>>
  BY DEF AckDecree, ballots
<1> QED BY <1>3, <1>4, <1>5, PlainRole

LEMMA AckAcceptRole ==
  ASSUME TypeInv, RoleInv, NEW a \in Member, NEW x \in Member, AckAccept(a, x)
  PROVE  RoleInv'
<1> DEFINE m == Msg(a, x)
           e == ilist[a][m.inum]
           c == [op |-> "commit", bal |-> e.bal, inum |-> m.inum, val |-> e.val]
<1>1. status[a] = "live" /\ IsProposer(a) /\ UNCHANGED <<proposer, prep, defers, clist>>
  BY Received DEF AckAccept, ballots
<1>2. \/ \E why \in Failure : Stop(a, why, link)
      \/ /\ link' = Send(Rest(a, x), a, peer[a], c) \/ link' = Rest(a, x)
         /\ UNCHANGED <<status, peer>>
  <2> "accept_ballot" \in Failure /\ "instance" \in Failure
    BY DEF Failure
  <2> QED BY DEF AckAccept
<1>3. \A y \in peer[a] : Fits(a, y, c)
  BY <1>1, ProposalFits DEF Proposals
<1> HIDE DEF m, e, c
<1>4. link' = Send(Rest(a, x), a, peer[a], c) \/ link' = Rest(a, x) => Written(a)
  BY <1>3, AnswerRole DEF AckAccept
<1> QED BY <1>1, <1>2, <1>4, PlainRole

LEMMA AckCommitRole ==
  ASSUME TypeInv, RoleInv, NEW a \in Member, NEW x \in Member, AckCommit(a, x) \/ AckRecommit(a, x)
  PROVE  RoleInv'
<1>1. FitsIn(Rest(a, x), a)
  BY Received DEF AckCommit, AckRecommit
<1>2. link' = Rest(a, x) /\ UNCHANGED <<status, sess, ballots, defers, clist>>
  BY DEF AckCommit, AckRecommit, CommitMessage
<1> QED BY <1>1, <1>2, PlainRole DEF Written, sess, ballots

LEMMA AckRetryRole ==
  ASSUME TypeInv, RoleInv, NEW a \in Member, NEW x \in Member, AckRetry(a, x)
  PROVE  RoleInv'
<1> DEFINE m == Msg(a, x)
           c == [op |-> "recommit", bal |-> m.bal, inum |-> m.inum, val |-> ilist[a][m.inum].val]
<1>1. status[a] = "live" /\ UNCHANGED <<proposer, prep, defers, clist>>
  BY Received DEF AckRetry, ballots
<1>2. \/ \E why \in Failure : Stop(a, why, link)
      \/ link' = Rest(a, x) /\ UNCHANGED <<status, peer>>
      \/ IsProposer(a) /\ link' = Send(Rest(a, x), a, peer[a], c) /\ UNCHANGED <<status, peer>>
  <2> "instance" \in Failure
    BY DEF Failure
  <2> QED BY DEF AckRetry
<1>3. ASSUME IsProposer(a), link' = Send(Rest(a, x), a, peer[a], c)
      PROVE  Written(a)
  <2>1. \A y \in peer[a] : Fits(a, y, c)
    BY <1>1, <1>3, ProposalFits DEF Proposals
  <2> HIDE DEF c
  <2> QED BY <1>3, <2>1, AnswerRole DEF AckRetry
<1>4. link' = Rest(a, x) => Written(a)
  BY Received DEF AckRetry, Written
<1> HIDE DEF c
<1> QED BY <1>1, <1>2, <1>3, <1>4, PlainRole

(* A part is sent again as what its opcode says: a decree or a commit. *)
LEMMA InstanceFits ==
  ASSUME TypeInv, RoleInv, NEW a \in Member, status[a] = "live", IsProposer(a),
         proposer' = proposer, NEW e, e.opcode \in {"decree", "commit"}, NEW i
  PROVE  \A y \in peer[a] : Fits(a, y, InstanceMsg(e, i))
BY ProposalFits DEF InstanceMsg, Proposals

LEMMA AckRejectRole ==
  ASSUME TypeInv, RoleInv, NEW a \in Member, NEW x \in Member, AckReject(a, x)
  PROVE  RoleInv'
<1> DEFINE m == Msg(a, x)
           e == ilist[a][m.inum]
<1>1. /\ status[a] = "live" /\ IsProposer(a) /\ UNCHANGED <<proposer, prep, defers>>
      /\ m.op = "reject" /\ m \in Message
  BY Received, ReadType DEF AckReject, ballots, TypeInv
<1>2. \/ \E why \in Failure : Stop(a, why, link) /\ clist' = clist
      \/ /\ link' = Send(Rest(a, x), a, peer[a], InstanceMsg(e, m.inum)) \/ link' = Rest(a, x)
         /\ clist' = clist \/ \E s : clist' = [clist EXCEPT ![a] = s]
         /\ UNCHANGED <<status, peer>>
  <2> /\ "reject_ballot" \in Failure /\ "instance" \in Failure
      /\ "reject_kind" \in Failure /\ "target" \in Failure
    BY DEF Failure
  <2> QED BY DEF AckReject
<1>3. \A y \in peer[a] : Fits(a, y, InstanceMsg(e, m.inum))
  <2>1. e \in Entry
    BY <1>1, MessageFields, TypeInvElim DEF Lists
  <2>2. e.opcode \in {"decree", "commit"}
    BY <2>1 DEF Entry
  <2> HIDE DEF m, e
  <2> QED BY <1>1, <2>2, InstanceFits
<1> HIDE DEF m, e
<1>4. link' = Send(Rest(a, x), a, peer[a], InstanceMsg(e, m.inum)) \/ link' = Rest(a, x)
        => Written(a)
  BY <1>3, AnswerRole DEF AckReject
<1>5. \A b \in Member \ {a} : prep'[b] = prep[b] /\ clist'[b] = clist[b]
  BY <1>1, <1>2 DEF TypeInv, TypeOK
<1> QED BY <1>1, <1>2, <1>4, <1>5, CountRole

LEMMA ContinueAckRejectRole ==
  ASSUME TypeInv, RoleInv, NEW a \in Member, ContinueAckReject(a)
  PROVE  RoleInv'
<1> DEFINE Again(i) == [ilist[a][i] EXCEPT !.committed = FALSE, !.cached = FALSE,
                                          !.learned = FALSE, !.votes = 1, !.rejects = 0]
<1>1. PICK n \in DOMAIN clist[a] :
        LET k == clist[a][n] IN
        /\ clist' = [clist EXCEPT ![a] = Removed(@, n)]
        /\ \/ /\ k.inum \in Present(ilist[a])
              /\ link' = Send(link, a, peer[a], InstanceMsg(Again(k.inum), k.inum))
           \/ link' = link
  BY DEF ContinueAckReject
<1>2. /\ status[a] = "live" /\ IsProposer(a)
      /\ UNCHANGED <<status, peer, proposer, prep, defers>>
  BY WaitingIsProposer DEF ContinueAckReject, sess, ballots
<1>3. \A b \in Member \ {a} : prep'[b] = prep[b] /\ clist'[b] = clist[b]
  BY <1>1, <1>2 DEF TypeInv, TypeOK
<1>4. \A i \in Present(ilist[a]) : \A y \in peer[a] : Fits(a, y, InstanceMsg(Again(i), i))
  <2> TAKE i \in Present(ilist[a])
  <2>1. ilist[a][i] \in Entry
    BY TypeInvElim DEF Present, Lists
  <2>2. Again(i).opcode \in {"decree", "commit"}
    BY <2>1 DEF Entry
  <2> HIDE DEF Again
  <2> QED BY <1>2, <2>2, InstanceFits
<1> HIDE DEF Again
<1>5. Written(a)
  BY <1>1, <1>4, LinkIn, LinkWritten, SendWritten DEF Written
<1> QED BY <1>2, <1>3, <1>5, CountRole

-----------------------------------------------------------------------------
LEMMA DropRole ==
  ASSUME TypeInv, RoleInv, NEW a \in Member, NEW y \in Member, Drop(a, y)
  PROVE  RoleInv'
<1> DEFINE pe == peer[a] \ {y}
           net == Unread(link, a, {y})
           np == Reelected(a, y, pe)
           gone == Unconnected(a, alist[a], pe)
<1>1. /\ pe \in SUBSET peer[a] /\ pe \in SUBSET Member /\ gone \in SUBSET Member
      /\ alist[a] \in SUBSET Member /\ peer[a] \in SUBSET Member
      /\ net \in Links /\ Within(net, link) /\ "null_session" \in Failure
  BY UnreadType, UnreadContents, TypeInvElim DEF Failure, Unconnected
<1>2. status[a] = "live" /\ y \in peer[a] /\ clist' = clist
  BY DEF Drop
<1>3. a \notin peer[a] /\ proposer[a] = Elected(a, peer[a])
  BY <1>2 DEF RoleInv, ProposerIsFirst
<1>4. np = Elected(a, pe) /\ np \in Member /\ (y # proposer[a] => np = proposer[a])
  BY <1>2, ReelectedFirst
<1>5. FitsIn(net, a)
  BY <1>1, LinkWritten
<1>6. \/ /\ IsProposer(a) /\ y # proposer[a] /\ peer' = [peer EXCEPT ![a] = pe]
         /\ Submit(a, Part(a, y), pe, net)
         /\ UNCHANGED <<status, proposer, gen_high, prep, dparts>>
      \/ /\ ~IsProposer(a) /\ proposer' = [proposer EXCEPT ![a] = np] /\ np = a
         /\ Prepare(a, alist[a], pe, net, gone, "null_session")
         /\ UNCHANGED <<idefer, logs, call>>
      \/ /\ ~IsProposer(a) /\ proposer' = [proposer EXCEPT ![a] = np]
         /\ peer' = [peer EXCEPT ![a] = pe] /\ link' = net
         /\ UNCHANGED <<status, gen_high, prep, dparts, idefer, logs, call>>
  BY <1>2, <1>3 DEF Drop, IsProposer
<1> HIDE DEF net, gone, np
<1>7. CASE /\ IsProposer(a) /\ y # proposer[a] /\ peer' = [peer EXCEPT ![a] = pe]
           /\ Submit(a, Part(a, y), pe, net)
           /\ UNCHANGED <<status, proposer, gen_high, prep, dparts>>
  <2>1. Written(a) /\ \A b \in Member \ {a} : idefer'[b] = idefer[b]
    BY <1>1, <1>2, <1>5, <1>7, SubmitRole
  <2>2. peer'[a] = pe /\ \A b \in Member \ {a} : peer'[b] = peer[b]
    BY <1>7 DEF TypeInv, TypeOK
  <2>3. Others(a)
    BY <1>2, <1>7, <2>1, <2>2 DEF Others
  <2>4. RoleKept(a)
    BY <1>2, <1>3, <1>4, <1>7, <2>2 DEF RoleKept, IsProposer
  <2> QED BY <2>1, <2>3, <2>4, RoleStep
<1>8. ASSUME ~IsProposer(a), peer' = [peer EXCEPT ![a] = pe], link' = net,
             proposer'[a] = np, \A b \in Member \ {a} : proposer'[b] = proposer[b],
             UNCHANGED <<status, prep, dparts, idefer>>
      PROVE  RoleInv'
  <2>1. peer'[a] = pe /\ \A b \in Member \ {a} : peer'[b] = peer[b]
    BY <1>8 DEF TypeInv, TypeOK
  <2>2. Others(a)
    BY <1>2, <1>8, <2>1 DEF Others
  <2>3. RoleKept(a)
    BY <1>2, <1>3, <1>4, <1>8, <2>1 DEF RoleKept, RoleInv, Working, Preparing
  <2> QED BY <1>5, <1>8, <2>2, <2>3, RoleStep DEF Written
<1>9. CASE /\ ~IsProposer(a) /\ proposer' = [proposer EXCEPT ![a] = np]
            /\ peer' = [peer EXCEPT ![a] = pe] /\ link' = net
            /\ UNCHANGED <<status, gen_high, prep, dparts, idefer, logs, call>>
  <2>1. proposer'[a] = np /\ \A b \in Member \ {a} : proposer'[b] = proposer[b]
    BY <1>9 DEF TypeInv, TypeOK
  <2> QED BY <1>8, <1>9, <2>1
<1>10. CASE /\ ~IsProposer(a) /\ proposer' = [proposer EXCEPT ![a] = np] /\ np = a
            /\ Prepare(a, alist[a], pe, net, gone, "null_session")
            /\ UNCHANGED <<idefer, logs, call>>
  BY <1>1, <1>2, <1>4, <1>10, PrepareRole, RoleStep
<1> QED BY <1>6, <1>7, <1>9, <1>10

LEMMA LeaveRole ==
  ASSUME TypeInv, RoleInv, NEW a \in Member, Leave(a)
  PROVE  RoleInv'
BY PlainRole DEF Leave, ballots

LEMMA StepRole ==
  ASSUME TypeInv, RoleInv, NEW a \in Member, Step(a)
  PROVE  RoleInv'
BY CommitRole, LearnRole, LearnEndRole, RedecreeRole, EndPrepareRole, DrainRole DEF Step

LEMMA DispatchRole ==
  ASSUME TypeInv, RoleInv, NEW a \in Member, NEW x \in Member, Dispatch(a, x)
  PROVE  RoleInv'
BY ProposerAckRequestRole, AcceptorAckRequestRole, AckRefuseRole, AckRetrieveRole,
   AckResendRole, AckPrepareRole, AckPromiseRole, AckRedirectRole, AckDecreeRole,
   AckAcceptRole, AckRejectRole, AckCommitRole, AckRetryRole DEF Dispatch

LEMMA NextRole == TypeInv /\ RoleInv /\ [Next]_vars => RoleInv'
<1> SUFFICES ASSUME TypeInv, RoleInv, [Next]_vars PROVE RoleInv'
  OBVIOUS
<1>1. CASE UNCHANGED vars
  <2>1. PICK a \in Member : TRUE
    BY MemberAssumption
  <2>2. Written(a)
    BY <1>1, LinkIn, LinkWritten DEF vars, Written
  <2> QED BY <1>1, <2>2, PlainRole DEF vars, ballots, defers
<1>2. CASE Next
  <2>1. PICK a \in Member :
          \/ Step(a) \/ ContinueAckRedirect(a) \/ ContinueAckReject(a) \/ Leave(a)
          \/ \E v \in Chat : Request(a, v)
          \/ \E x \in Member : Dispatch(a, x) \/ Drop(a, x)
    BY <1>2, Zenon DEF Next
  <2> QED BY <2>1, StepRole, ContinueAckRedirectRole, ContinueAckRejectRole, LeaveRole,
             RequestRole, DispatchRole, DropRole
<1> QED BY <1>1, <1>2

LEMMA InitRole == Init => RoleInv
<1> SUFFICES ASSUME Init PROVE RoleInv
  OBVIOUS
<1>1. \A a \in Member : Elected(a, peer[a]) = First
  <2>1. \A a \in Member : {a} \cup peer[a] = Member
    BY DEF Init
  <2> QED BY <2>1 DEF Elected, First
<1>2. \A x, a \in Member : InFlight(x, a) = {}
  BY DEF Init, InFlight
<1>3. \A a \in Member : ~Working(a)
  BY DEF Init, Working, Preparing
<1> QED BY <1>1, <1>2, <1>3 DEF Init, RoleInv, ProposerIsFirst

LEMMA RoleInvariant == Spec => [](TypeInv /\ RoleInv)
<1>1. Init => TypeInv /\ RoleInv
  BY InitType, InitRole
<1>2. TypeInv /\ RoleInv /\ [Next]_vars => TypeInv' /\ RoleInv'
  BY NextType, NextRole
<1> QED BY <1>1, <1>2, PTL DEF Spec

(***************************************************************************)
(* The inductive invariant itself: every message is on its way up or down  *)
(* the ranks as its kind says, and only proposers prepare, defer and wait. *)
(***************************************************************************)
THEOREM RolesHold == Spec => []RoleInv
BY RoleInvariant, PTL

(***************************************************************************)
(* Whatever is dropped, parted and prepared, in any order and by any       *)
(* number of members: everyone who is up takes for the proposer the first  *)
(* acceptor, by rank, of itself and those it is connected to.              *)
(***************************************************************************)
THEOREM ProposerFirst == Spec => []ProposerIsFirst
<1>1. TypeInv /\ RoleInv => ProposerIsFirst
  BY DEF RoleInv
<1> QED BY <1>1, RoleInvariant, PTL

(***************************************************************************)
(* proposer_force_kill() and the cases of paxos_dispatch() that ignore a   *)
(* message of the wrong role are dead code as long as connections only go  *)
(* down: rank alone directs every message.                                 *)
(***************************************************************************)
THEOREM RolesAlwaysMatch == Spec => []RolesMatch
<1>1. ASSUME TypeInv, RoleInv PROVE RolesMatch
  <2> SUFFICES ASSUME NEW a \in Member, status[a] = "live", NEW x \in peer[a],
                      NEW m \in InFlight(x, a)
               PROVE  m.op \notin IF IsProposer(a)
                                  THEN {"prepare", "decree", "commit", "recommit", "refuse"}
                                  ELSE {"promise", "redirect", "accept", "reject"}
    BY DEF RolesMatch
  <2>1. x \in Member /\ peer[a] \in SUBSET Member
    BY <1>1, TypeInvElim
  <2>2. Directed(x, a, m)
    BY <1>1, <2>1 DEF RoleInv
  <2>3. CASE IsProposer(a)
    <3>1. a <= x
      BY <1>1, <2>1, <2>3, ElectedType DEF RoleInv, ProposerIsFirst, IsProposer
    <3>2. ~(x < a)
      BY <2>1, <3>1, MemberNat
    <3> QED BY <2>2, <2>3, <3>2 DEF Directed, Proposals
  <2>4. CASE ~IsProposer(a)
    BY <2>2, <2>4 DEF Directed, Answers
  <2> QED BY <2>3, <2>4
<1> QED BY <1>1, RoleInvariant, PTL

-----------------------------------------------------------------------------
(* Ballots: a member never goes back to a lower one. *)

(* A step of one member, as far as ballots go. *)
BallotStays(a) ==
  /\ ballot'[a] = ballot[a]
  /\ status'[a] = "live" =>
       /\ gen_high'[a] = gen_high[a]
       /\ Preparing(a)' => Preparing(a) /\ prep'[a].bal = prep[a].bal

Prepares(a) ==
  /\ ballot'[a] = ballot[a]
  /\ gen_high'[a] = gen_high[a] + 1
  /\ prep'[a].bal = [id |-> a, gen |-> gen_high[a] + 1]

Promises(a) ==
  /\ ~Preparing(a)'
  /\ Less(ballot[a], ballot'[a]) /\ gen_high'[a] = ballot'[a].gen

Wins(a) ==
  /\ Preparing(a) /\ ballot'[a] = prep[a].bal
  /\ gen_high'[a] = gen_high[a] /\ prep'[a].bal = prep[a].bal

BallotMove(a) ==
  /\ \A b \in Member \ {a} : /\ status'[b] = status[b] /\ ballot'[b] = ballot[b]
                             /\ gen_high'[b] = gen_high[b] /\ prep'[b] = prep[b]
  /\ status'[a] = "live" => status[a] = "live"
  /\ \/ BallotStays(a)
     \/ status[a] = "live" /\ (Prepares(a) \/ Promises(a) \/ Wins(a))

LEMMA BallotFields ==
  ASSUME TypeInv, NEW a \in Member
  PROVE  ballot[a] \in Ballot /\ ballot[a].gen \in Nat /\ gen_high[a] \in Nat /\ prep[a] \in Prep
         /\ (Preparing(a) => prep[a].bal.gen \in Nat)
<1>1. ballot[a] \in Ballot /\ gen_high[a] \in Nat /\ prep[a] \in Prep
  BY TypeInvElim
<1>2. prep[a].bal \in BallotOrNone
  BY <1>1 DEF Prep
<1> QED BY <1>1, <1>2 DEF Ballot, BallotOrNone, NoBallot

LEMMA MoveGrows ==
  ASSUME TypeInv, TypeInv', BallotsOK, NEW a \in Member, BallotMove(a)
  PROVE  \A b \in Member : ~Less(ballot'[b], ballot[b])
<1> SUFFICES ASSUME NEW b \in Member PROVE ~Less(ballot'[b], ballot[b])
  OBVIOUS
<1>1. ballot[b] \in Ballot /\ ballot[b].gen \in Nat /\ ballot[b].id \in Nat
  BY BallotFields DEF Ballot
<1>2. ~Less(ballot[b], ballot[b])
  BY <1>1 DEF Less
<1>3. CASE ballot'[b] = ballot[b]
  BY <1>2, <1>3
<1>4. CASE b = a /\ status[a] = "live" /\ Promises(a)
  <2>1. Less(ballot[a], ballot'[a]) /\ ballot'[a] \in Ballot
    BY <1>4 DEF Promises, TypeInv, TypeOK
  <2> QED BY <1>1, <1>4, <2>1 DEF Less, Ballot
<1>5. CASE b = a /\ status[a] = "live" /\ Wins(a)
  <2>1. ballot'[a] = ballot[a] \/ ballot[a].gen < ballot'[a].gen
    BY <1>5 DEF Wins, BallotsOK
  <2>2. ballot'[a].gen \in Nat
    BY <1>5, BallotFields DEF Wins
  <2> QED BY <1>1, <1>2, <1>5, <2>1, <2>2 DEF Less
<1> QED BY <1>3, <1>4, <1>5 DEF BallotMove, BallotStays, Prepares

LEMMA MoveKeeps ==
  ASSUME TypeInv, TypeInv', BallotsOK, NEW a \in Member, BallotMove(a)
  PROVE  BallotsOK'
<1> SUFFICES ASSUME NEW b \in Member, status'[b] = "live"
             PROVE  /\ ballot'[b].gen <= gen_high'[b]
                    /\ Preparing(b)' =>
                         /\ prep'[b].bal.gen <= gen_high'[b]
                         /\ ballot'[b] = prep'[b].bal \/ ballot'[b].gen < prep'[b].bal.gen
  BY DEF BallotsOK
<1>1. status[b] = "live"
  BY DEF BallotMove
<1>2. /\ ballot[b].gen <= gen_high[b]
      /\ Preparing(b) => /\ prep[b].bal.gen <= gen_high[b]
                         /\ ballot[b] = prep[b].bal \/ ballot[b].gen < prep[b].bal.gen
  BY <1>1 DEF BallotsOK
<1>3. CASE b # a
  BY <1>2, <1>3 DEF BallotMove, Preparing
<1>4. CASE b = a /\ BallotStays(a)
  BY <1>2, <1>4 DEF BallotStays
<1>5. CASE b = a /\ Prepares(a)
  BY <1>2, <1>5, BallotFields DEF Prepares
<1>6. CASE b = a /\ Promises(a)
  <2>1. ballot'[a].gen \in Nat
    BY DEF TypeInv, TypeOK, Ballot
  <2> QED BY <1>6, <2>1 DEF Promises
<1>7. CASE b = a /\ Wins(a)
  BY <1>2, <1>7, BallotFields DEF Wins
<1> QED BY <1>3, <1>4, <1>5, <1>6, <1>7 DEF BallotMove

-----------------------------------------------------------------------------
(* The handlers that have nothing to do with ballots. *)
LEMMA PlainMove ==
  ASSUME TypeInv, NEW a \in Member, UNCHANGED ballots,
         UNCHANGED status \/ \E net : \E why \in {"ended"} \cup Failure : Stop(a, why, net)
  PROVE  BallotMove(a)
<1>1. CASE UNCHANGED status
  BY <1>1 DEF BallotMove, BallotStays, ballots, Preparing
<1>2. ASSUME NEW why \in {"ended"} \cup Failure, NEW net, Stop(a, why, net)
      PROVE  BallotMove(a)
  <2>1. why # "live" /\ status'[a] = why /\ \A b \in Member \ {a} : status'[b] = status[b]
    BY <1>2 DEF Failure, Stop, TypeInv, TypeOK
  <2> QED BY <2>1 DEF BallotMove, BallotStays, ballots
<1> QED BY <1>1, <1>2

LEMMA PrepareMove ==
  ASSUME TypeInv, NEW a \in Member, NEW al, NEW pe, NEW net, NEW gone,
         NEW ended \in {"ended"} \cup Failure,
         status[a] = "live", Prepare(a, al, pe, net, gone, ended), ballot' = ballot
  PROVE  BallotMove(a)
<1>1. CASE Stop(a, ended, net) /\ UNCHANGED <<gen_high, prep>>
  BY <1>1, PlainMove DEF ballots
<1>2. ASSUME NEW p, p.bal = [id |-> a, gen |-> gen_high[a] + 1],
             prep' = [prep EXCEPT ![a] = p],
             gen_high' = [gen_high EXCEPT ![a] = gen_high[a] + 1], UNCHANGED status
      PROVE  BallotMove(a)
  <2>1. /\ prep'[a] = p /\ gen_high'[a] = gen_high[a] + 1
        /\ \A b \in Member \ {a} : prep'[b] = prep[b] /\ gen_high'[b] = gen_high[b]
    BY <1>2 DEF TypeInv, TypeOK
  <2>2. Prepares(a)
    BY <1>2, <2>1 DEF Prepares
  <2> QED BY <1>2, <2>1, <2>2 DEF BallotMove
<1>3. \/ Stop(a, ended, net) /\ UNCHANGED <<gen_high, prep>>
      \/ \E p : /\ p.bal = [id |-> a, gen |-> gen_high[a] + 1]
               /\ prep' = [prep EXCEPT ![a] = p]
               /\ gen_high' = [gen_high EXCEPT ![a] = gen_high[a] + 1]
               /\ UNCHANGED status
  <2> DEFINE b == [id |-> a, gen |-> gen_high[a] + 1]
             p == [bal |-> b, acks |-> 1, redirects |-> 0, istart |-> istart[a]]
  <2>1. CASE Cardinality(pe) + 1 < Majority(al)
    BY <2>1 DEF Prepare
  <2>2. CASE ~(Cardinality(pe) + 1 < Majority(al))
    <3>1. p.bal = b /\ b.gen = gen_high[a] + 1
      OBVIOUS
    <3>2. /\ prep' = [prep EXCEPT ![a] = p] /\ gen_high' = [gen_high EXCEPT ![a] = b.gen]
          /\ UNCHANGED status
      BY <2>2 DEF Prepare, NextBallot
    <3> HIDE DEF p
    <3> QED BY <3>1, <3>2
  <2> QED BY <2>1, <2>2
<1> QED BY <1>1, <1>2, <1>3

LEMMA LearnMove ==
  ASSUME TypeInv, NEW a \in Member, Learn(a)
  PROVE  BallotMove(a)
<1>1. ballot' = ballot /\ status[a] = "live"
  BY DEF Learn
<1>2. \/ UNCHANGED <<status, gen_high, prep>>
      \/ \E why \in {"ended"} \cup Failure : Stop(a, why, link) /\ UNCHANGED <<gen_high, prep>>
      \/ \E al, pe, net, gone : Prepare(a, al, pe, net, gone, "ended")
  <2> DEFINE v == ilist[a][ihole[a]].val
  <2>1. \/ LearnChat(a, v) \/ LearnOwnPart(a) \/ LearnPart(a, v.arg)
        \/ Learned(a) /\ UNCHANGED <<status, sess, gen_high, prep, dparts, link>>
    BY Zenon DEF Learn
  <2>2. "chat_author" \in Failure /\ "null_session" \in Failure
    BY DEF Failure
  <2>3. CASE LearnPart(a, v.arg)
    BY <2>3 DEF LearnPart
  <2> QED BY <2>1, <2>2, <2>3 DEF LearnChat, LearnOwnPart
<1>3. CASE UNCHANGED <<status, gen_high, prep>>
  BY <1>1, <1>3, PlainMove DEF ballots
<1>4. CASE \E why \in {"ended"} \cup Failure : Stop(a, why, link) /\ UNCHANGED <<gen_high, prep>>
  BY <1>1, <1>4, PlainMove DEF ballots
<1>5. CASE \E al, pe, net, gone : Prepare(a, al, pe, net, gone, "ended")
  BY <1>1, <1>5, PrepareMove
<1> QED BY <1>2, <1>3, <1>4, <1>5

LEMMA EndPrepareMove ==
  ASSUME TypeInv, NEW a \in Member, EndPrepare(a)
  PROVE  BallotMove(a)
<1>1. /\ prep'[a] = NoPrep /\ \A b \in Member \ {a} : prep'[b] = prep[b]
      /\ UNCHANGED <<status, ballot, gen_high>>
  BY DEF EndPrepare, TypeInv, TypeOK
<1> QED BY <1>1 DEF BallotMove, BallotStays, Preparing

LEMMA AckPrepareMove ==
  ASSUME TypeInv, RoleInv, NEW a \in Member, NEW x \in Member, AckPrepare(a, x)
  PROVE  BallotMove(a)
<1> DEFINE m == Msg(a, x)
<1>1. /\ status[a] = "live" /\ ~Preparing(a) /\ UNCHANGED <<status, prep>>
      /\ m.bal.gen \in Nat
  <2>1. m.bal \in Ballot
    BY ReadType, MessageFields DEF AckPrepare, TypeInv
  <2> QED BY <2>1 DEF AckPrepare, Incoming, RoleInv, Working, Ballot
<1>2. \/ UNCHANGED <<ballot, gen_high>>
      \/ /\ Less(ballot[a], m.bal)
         /\ ballot' = [ballot EXCEPT ![a] = m.bal]
         /\ gen_high' = [gen_high EXCEPT ![a] = m.bal.gen]
  BY DEF AckPrepare, Refused
<1>3. CASE UNCHANGED <<ballot, gen_high>>
  BY <1>1, <1>3, PlainMove DEF ballots
<1>4. CASE /\ Less(ballot[a], m.bal)
           /\ ballot' = [ballot EXCEPT ![a] = m.bal]
           /\ gen_high' = [gen_high EXCEPT ![a] = m.bal.gen]
  <2> HIDE DEF m
  <2>1. /\ ballot'[a] = m.bal /\ gen_high'[a] = m.bal.gen
        /\ \A b \in Member \ {a} : ballot'[b] = ballot[b] /\ gen_high'[b] = gen_high[b]
    BY <1>4 DEF TypeInv, TypeOK
  <2>2. Promises(a)
    BY <1>1, <1>4, <2>1 DEF Promises, Preparing
  <2> QED BY <1>1, <2>1, <2>2 DEF BallotMove
<1> QED BY <1>2, <1>3, <1>4

LEMMA AckPromiseMove ==
  ASSUME TypeInv, NEW a \in Member, NEW x \in Member, AckPromise(a, x)
  PROVE  BallotMove(a)
<1>1. status[a] = "live" /\ gen_high' = gen_high
  BY DEF AckPromise, Incoming
<1>2. CASE UNCHANGED <<ballot, prep>>
  <2>1. UNCHANGED status \/ \E net : \E why \in {"ended"} \cup Failure : Stop(a, why, net)
    <3> "promise_glb" \in Failure /\ "redecree_glb" \in Failure
      BY DEF Failure
    <3> QED BY DEF AckPromise
  <2> QED BY <1>1, <1>2, <2>1, PlainMove DEF ballots
<1>3. ASSUME NEW acks, NEW at, Preparing(a), UNCHANGED status,
             prep' = [prep EXCEPT ![a] = [prep[a] EXCEPT !.acks = acks, !.istart = at]],
             ballot' = ballot \/ ballot' = [ballot EXCEPT ![a] = prep[a].bal]
      PROVE  BallotMove(a)
  <2> DEFINE q == [prep[a] EXCEPT !.acks = acks, !.istart = at]
  <2>1. q.bal = prep[a].bal
    BY TypeInvElim DEF Prep
  <2>2. prep' = [prep EXCEPT ![a] = q]
    BY <1>3
  <2> HIDE DEF q
  <2>3. prep'[a] = q /\ \A b \in Member \ {a} : prep'[b] = prep[b]
    BY <2>2 DEF TypeInv, TypeOK
  <2>4. /\ \A b \in Member \ {a} : ballot'[b] = ballot[b]
        /\ ballot'[a] = ballot[a] \/ ballot'[a] = prep[a].bal
    BY <1>3 DEF TypeInv, TypeOK
  <2>5. BallotStays(a) \/ Wins(a)
    BY <1>1, <1>3, <2>1, <2>3, <2>4 DEF BallotStays, Wins
  <2> QED BY <1>1, <1>3, <2>3, <2>4, <2>5 DEF BallotMove
<1>4. \/ UNCHANGED <<ballot, prep>>
      \/ \E acks, at :
           /\ Preparing(a) /\ UNCHANGED status
           /\ prep' = [prep EXCEPT ![a] = [prep[a] EXCEPT !.acks = acks, !.istart = at]]
           /\ ballot' = ballot \/ ballot' = [ballot EXCEPT ![a] = prep[a].bal]
  BY DEF AckPromise
<1> QED BY <1>2, <1>3, <1>4

LEMMA AckRedirectMove ==
  ASSUME TypeInv, NEW a \in Member, NEW x \in Member, AckRedirect(a, x)
  PROVE  BallotMove(a)
<1>1. status[a] = "live" /\ ballot' = ballot
  BY DEF AckRedirect, Incoming
<1>2. ASSUME NEW n, Preparing(a), UNCHANGED <<status, gen_high>>,
             prep' = [prep EXCEPT ![a] = [prep[a] EXCEPT !.redirects = n]]
      PROVE  BallotMove(a)
  <2> DEFINE q == [prep[a] EXCEPT !.redirects = n]
  <2>1. q.bal = prep[a].bal
    BY TypeInvElim DEF Prep
  <2>2. prep' = [prep EXCEPT ![a] = q]
    BY <1>2
  <2> HIDE DEF q
  <2>3. prep'[a] = q /\ \A b \in Member \ {a} : prep'[b] = prep[b]
    BY <2>2 DEF TypeInv, TypeOK
  <2>4. BallotStays(a)
    BY <1>1, <1>2, <2>1, <2>3 DEF BallotStays
  <2> QED BY <1>1, <1>2, <2>3, <2>4 DEF BallotMove
<1>3. \/ \E why \in Failure : Stop(a, why, link) /\ UNCHANGED <<gen_high, prep>>
      \/ UNCHANGED <<status, gen_high, prep>>
      \/ \E n : /\ Preparing(a) /\ UNCHANGED <<status, gen_high>>
               /\ prep' = [prep EXCEPT ![a] = [prep[a] EXCEPT !.redirects = n]]
      \/ \E net : Prepare(a, alist[a], peer[a], net, {}, "null_session")
  <2> "redirect_rank" \in Failure /\ "redirect_target" \in Failure
    BY DEF Failure
  <2> QED BY DEF AckRedirect
<1>4. CASE \E net : Prepare(a, alist[a], peer[a], net, {}, "null_session")
  BY <1>1, <1>4, PrepareMove DEF Failure
<1>5. CASE UNCHANGED <<gen_high, prep>> /\
           (UNCHANGED status \/ \E why \in Failure : Stop(a, why, link))
  BY <1>1, <1>5, PlainMove DEF ballots
<1> QED BY <1>2, <1>3, <1>4, <1>5

LEMMA ContinueAckRedirectMove ==
  ASSUME TypeInv, NEW a \in Member, ContinueAckRedirect(a)
  PROVE  BallotMove(a)
<1>1. status[a] = "live" /\ ballot' = ballot
  BY DEF ContinueAckRedirect
<1>2. \/ UNCHANGED <<status, gen_high, prep>>
      \/ Prepare(a, alist[a], peer[a], link, {}, "null_session")
  BY DEF ContinueAckRedirect
<1>3. "null_session" \in Failure
  BY DEF Failure
<1> QED BY <1>1, <1>2, <1>3, PlainMove, PrepareMove DEF ballots

LEMMA DropMove ==
  ASSUME TypeInv, NEW a \in Member, NEW y \in Member, Drop(a, y)
  PROVE  BallotMove(a)
<1>1. status[a] = "live" /\ ballot' = ballot
  BY DEF Drop
<1>2. \/ UNCHANGED <<status, gen_high, prep>>
      \/ \E pe, net, gone : Prepare(a, alist[a], pe, net, gone, "null_session")
  BY DEF Drop
<1>3. "null_session" \in Failure
  BY DEF Failure
<1> QED BY <1>1, <1>2, <1>3, PlainMove, PrepareMove DEF ballots

-----------------------------------------------------------------------------
(* The other steps of a call in progress. *)
LEMMA PlainStepMove ==
  ASSUME TypeInv, NEW a \in Member, Commit(a) \/ LearnEnd(a) \/ Redecree(a) \/ Drain(a)
  PROVE  BallotMove(a)
<1>1. CASE Commit(a)
  <2>1. UNCHANGED status \/ \E why \in Failure : Stop(a, why, link)
    <3> "commit_learned" \in Failure /\ "commit_istart" \in Failure
      BY DEF Failure
    <3> QED BY <1>1 DEF Commit
  <2> QED BY <1>1, <2>1, PlainMove DEF Commit
<1>2. CASE LearnEnd(a) \/ Redecree(a) \/ Drain(a)
  BY <1>2, PlainMove DEF LearnEnd, Redecree, Drain
<1> QED BY <1>1, <1>2

(* The other messages. *)
LEMMA PlainDispatchMove ==
  ASSUME TypeInv, NEW a \in Member, NEW x \in Member,
         \/ ProposerAckRequest(a, x) \/ AcceptorAckRequest(a, x) \/ AckRefuse(a, x)
         \/ AckRetrieve(a, x) \/ AckResend(a, x) \/ AckDecree(a, x) \/ AckAccept(a, x)
         \/ AckReject(a, x) \/ AckCommit(a, x) \/ AckRetry(a, x) \/ AckRecommit(a, x)
  PROVE  BallotMove(a)
<1>1. {"target", "decree_proposer", "decree_value", "accept_ballot", "reject_ballot",
       "reject_kind", "instance"} \subseteq Failure
  BY DEF Failure
<1>2. CASE \/ ProposerAckRequest(a, x) \/ AcceptorAckRequest(a, x) \/ AckRetrieve(a, x)
           \/ AckResend(a, x) \/ AckCommit(a, x) \/ AckRecommit(a, x)
  BY <1>2, PlainMove DEF ProposerAckRequest, AcceptorAckRequest, AckRetrieve, AckResend,
                         AckCommit, AckRecommit, CommitMessage
<1>3. CASE AckRefuse(a, x) \/ AckRetry(a, x)
  BY <1>1, <1>3, PlainMove DEF AckRefuse, AckRetry
<1>4. CASE AckDecree(a, x)
  <2>1. UNCHANGED status \/ \E why \in Failure : Stop(a, why, link)
    BY <1>1, <1>4 DEF AckDecree, AcceptDecree
  <2> QED BY <1>4, <2>1, PlainMove DEF AckDecree
<1>5. CASE AckAccept(a, x)
  <2>1. UNCHANGED status \/ \E why \in Failure : Stop(a, why, link)
    BY <1>1, <1>5 DEF AckAccept
  <2> QED BY <1>5, <2>1, PlainMove DEF AckAccept
<1>6. CASE AckReject(a, x)
  <2>1. UNCHANGED status \/ \E why \in Failure : Stop(a, why, link)
    BY <1>1, <1>6 DEF AckReject
  <2> QED BY <1>6, <2>1, PlainMove DEF AckReject
<1> QED BY <1>2, <1>3, <1>4, <1>5, <1>6

LEMMA NextMove ==
  ASSUME TypeInv, RoleInv, Next
  PROVE  \E a \in Member : BallotMove(a)
<1>1. PICK a \in Member :
        \/ Step(a) \/ ContinueAckRedirect(a) \/ ContinueAckReject(a) \/ Leave(a)
        \/ \E v \in Chat : Request(a, v)
        \/ \E x \in Member : Dispatch(a, x) \/ Drop(a, x)
  BY Zenon DEF Next
<1>2. CASE ContinueAckReject(a) \/ Leave(a) \/ \E v \in Chat : Request(a, v)
  BY <1>2, PlainMove DEF ContinueAckReject, Leave, Request
<1>3. CASE Step(a)
  BY <1>3, PlainStepMove, LearnMove, EndPrepareMove DEF Step
<1>4. CASE \E x \in Member : Dispatch(a, x)
  BY <1>4, PlainDispatchMove, AckPrepareMove, AckPromiseMove, AckRedirectMove DEF Dispatch
<1> QED BY <1>1, <1>2, <1>3, <1>4, ContinueAckRedirectMove, DropMove

LEMMA InitBallots == Init => BallotsOK
<1>1. Init => \A a \in Member : ~Preparing(a) /\ ballot[a].gen = 1 /\ gen_high[a] = 1
  BY DEF Init, Preparing, FirstBallot
<1> QED BY <1>1 DEF BallotsOK

LEMMA NextBallots ==
  ASSUME TypeInv, RoleInv, BallotsOK, [Next]_vars
  PROVE  BallotsOK' /\ \A a \in Member : ~Less(ballot'[a], ballot[a])
<1>1. TypeInv'
  BY NextType
<1>2. CASE UNCHANGED vars
  <2>1. PICK a \in Member : TRUE
    BY MemberAssumption
  <2>2. BallotMove(a)
    BY <1>2, PlainMove DEF vars, ballots
  <2> QED BY <1>1, <2>2, MoveGrows, MoveKeeps
<1>3. CASE Next
  BY <1>1, <1>3, NextMove, MoveGrows, MoveKeeps
<1> QED BY <1>2, <1>3

LEMMA BallotInvariant == Spec => [](TypeInv /\ RoleInv /\ BallotsOK)
<1> DEFINE Inv == TypeInv /\ RoleInv /\ BallotsOK
<1>1. Init => Inv
  BY InitType, InitRole, InitBallots
<1>2. Inv /\ [Next]_vars => Inv'
  BY NextType, NextRole, NextBallots
<1> HIDE DEF Inv
<1>3. Spec => []Inv
  BY <1>1, <1>2, PTL DEF Spec
<1> QED BY <1>3 DEF Inv

(***************************************************************************)
(* gen_high covers every ballot its member prepared or promised, across     *)
(* all re-prepares, redirects and promises, for every number of members:   *)
(* the generation that proposer_prepare() takes next was never used by it. *)
(***************************************************************************)
THEOREM BallotsCovered == Spec => []BallotsOK
BY BallotInvariant, PTL

(***************************************************************************)
(* The ballot of a member only grows, through every failed, repeated and   *)
(* lost prepare: what it refused or promised once stays so, the ground     *)
(* that quorum arguments stand on.                                         *)
(***************************************************************************)
THEOREM BallotsAlwaysGrow == Spec => BallotsGrow
<1> DEFINE Inv == TypeInv /\ RoleInv /\ BallotsOK
           Grow == \A a \in Member : ~Less(ballot'[a], ballot[a])
<1>1. Inv /\ [Next]_vars => [Grow]_vars
  BY NextBallots
<1>2. BallotsGrow <=> [][Grow]_vars
  BY DEF BallotsGrow
<1>3. Spec => []Inv
  BY BallotInvariant
<1> HIDE DEF Inv, Grow
<1> QED BY <1>1, <1>2, <1>3, PTL DEF Spec

=============================================================================
