------------------------------ MODULE PaxosTypes ------------------------------
(* Type correctness of module Paxos, for any session and any bounds. *)
EXTENDS PaxosProps, FiniteSetTheorems, WellFoundedInduction, TLAPS

(* A set of naturals that is not empty has a least element. *)
LEMMA LeastIn ==
  ASSUME NEW S \in SUBSET Nat, S # {}
  PROVE  Least(S) \in S /\ \A y \in S : Least(S) <= y
<1> DEFINE T == {0 .. y : y \in S}
<1>1. T \subseteq FiniteSubsetsOf(Nat) /\ T # {}
  <2>1. \A y \in S : IsFiniteSet(0 .. y) /\ 0 .. y \subseteq Nat
    BY FS_Interval
  <2> QED BY <2>1 DEF FiniteSubsetsOf
<1>2. PICK t \in T : \A u \in T : ~(<<u, t>> \in StrictSubsetOrdering(Nat))
  <2> HIDE DEF T
  <2> QED BY <1>1, FS_StrictSubsetOrderingWellFounded, WFMin
<1>3. PICK x \in S : t = 0 .. x
  OBVIOUS
<1>4. ASSUME NEW y \in S, y < x PROVE FALSE
  <2>1. 0 .. y \subseteq 0 .. x /\ 0 .. y # 0 .. x
    BY <1>4, x \in Nat, y \in Nat, x \in 0 .. x, x \notin 0 .. y
  <2>2. <<0 .. y, 0 .. x>> \in StrictSubsetOrdering(Nat)
    BY <2>1 DEF StrictSubsetOrdering
  <2> QED BY <1>2, <1>3, <2>2
<1>5. \A y \in S : x <= y
  BY <1>4
<1> QED BY <1>5 DEF Least

LEMMA LeastInum ==
  ASSUME NEW S \in SUBSET Inum, S # {}
  PROVE  Least(S) \in S /\ \A y \in S : Least(S) <= y
<1> S \subseteq Nat
  BY BoundAssumption DEF Inum
<1> QED BY LeastIn

(* A set of instance numbers that is not empty has a greatest element. *)
LEMMA GreatestInum ==
  ASSUME NEW S \in SUBSET Inum, S # {}
  PROVE  Greatest(S) \in S /\ \A y \in S : y <= Greatest(S)
<1> DEFINE D == {MaxInum - i : i \in S}
<1>1. D \in SUBSET Nat /\ D # {}
  <2>1. \A i \in S : MaxInum - i \in Nat
    BY BoundAssumption DEF Inum
  <2> QED BY <2>1
<1>2. PICK d \in D : \A y \in D : d <= y
  <2> HIDE DEF D
  <2> QED BY <1>1, LeastIn
<1>3. PICK x \in S : d = MaxInum - x
  OBVIOUS
<1>4. \A y \in S : y <= x
  <2> TAKE y \in S
  <2>1. MaxInum - x <= MaxInum - y
    BY <1>2, <1>3
  <2> QED BY <2>1, BoundAssumption DEF Inum
<1> QED BY <1>4 DEF Greatest

(***************************************************************************)
(* The network.                                                            *)
(***************************************************************************)
Links == [Member -> [Member -> Seq(Message)]]

LEMMA SendType ==
  ASSUME NEW net \in Links, NEW a \in Member, NEW to, NEW m \in Message
  PROVE  Send(net, a, to, m) \in Links
<1> DEFINE row == [y \in Member |-> IF y \in to /\ a \in peer[y]
                                   THEN Append(net[a][y], m) ELSE net[a][y]]
<1>1. \A y \in Member : net[a][y] \in Seq(Message)
  BY DEF Links
<1>2. \A y \in Member : Append(net[a][y], m) \in Seq(Message)
  BY <1>1
<1>3. row \in [Member -> Seq(Message)]
  BY <1>1, <1>2
<1> HIDE DEF row
<1>4. [net EXCEPT ![a] = row] \in Links
  BY <1>3 DEF Links
<1> QED BY <1>4 DEF Send, row

LEMMA UnreadType ==
  ASSUME NEW net \in Links, NEW a \in Member, NEW S
  PROVE  Unread(net, a, S) \in Links
BY DEF Unread, Links

LEMMA ReadType ==
  ASSUME TypeOK, NEW a \in Member, NEW x \in Member, NEW op, Incoming(a, x, op)
  PROVE  /\ Msg(a, x) \in Message /\ Msg(a, x).op = op
         /\ Rest(a, x) \in Links
         /\ x \in peer[a] /\ x \in Member
<1>1. link[x][a] \in Seq(Message) /\ link[x][a] # <<>>
  BY DEF TypeOK, Incoming
<1>2. Head(link[x][a]) \in Message /\ Tail(link[x][a]) \in Seq(Message)
  BY <1>1
<1>3. Rest(a, x) \in Links
  BY <1>2 DEF TypeOK, Rest, Links
<1> QED BY <1>2, <1>3 DEF Incoming, Msg

(* The fields of a message, by its kind. *)
LEMMA MessageFields ==
  ASSUME NEW m \in Message
  PROVE  /\ m.op = "prepare" => m.bal \in Ballot /\ m.inum \in Nat
         /\ m.op = "promise" => m.bal \in Ballot /\ m.log \in [Inum -> Vote]
         /\ m.op \in {"accept", "reject", "retry"} => m.bal \in Ballot /\ m.inum \in Inum
         /\ m.op = "redirect" => m.bal \in Ballot /\ m.who \in Nat
         /\ m.op \in {"decree", "commit", "recommit"} =>
              m.bal \in Ballot /\ m.inum \in Inum /\ m.val \in Value
         /\ m.op = "request" => m.who \in Nat /\ m.val \in Value
         /\ m.op = "refuse" => m.who \in Nat
         /\ m.op = "retrieve" => m.who \in Nat /\ m.inum \in Inum /\ m.val \in Value
         /\ m.op = "resend" => m.inum \in Inum /\ m.val \in Value
BY DEF Message

(***************************************************************************)
(* Type correctness.  An instance list is never empty, so that there is a  *)
(* last instance: the one at Base stays.                                   *)
(***************************************************************************)
BaseOK == \A a \in Member : ilist[a][Base].bal # NoBallot
TypeInv == TypeOK /\ BaseOK

Lists == [Member -> [Inum -> Entry]]
Based(ils) == \A a \in Member : ils[a][Base].bal # NoBallot

LEMMA BaseInum == Base \in Inum /\ Inum \subseteq Nat
BY BoundAssumption DEF Inum

LEMMA MemberNat == Member \subseteq Nat \ {0}
BY MemberAssumption

(* An entry put on a list keeps it a list. *)
LEMMA PutType ==
  ASSUME NEW ils \in Lists, Based(ils), NEW a \in Member, NEW i \in Inum,
         NEW e \in Entry, e.bal # NoBallot \/ e.bal = ils[a][i].bal
  PROVE  [ils EXCEPT ![a][i] = e] \in Lists /\ Based([ils EXCEPT ![a][i] = e])
BY DEF Lists, Based

LEMMA DecreedType ==
  ASSUME NEW b \in Ballot, NEW v \in Value
  PROVE  Decreed(b, v) \in Entry /\ Decreed(b, v).bal = b
BY DEF Decreed, Absent, Entry, Ballot, BallotOrNone, NoValue, Value, Kind

LEMMA LastType ==
  ASSUME TypeInv, NEW a \in Member
  PROVE  Last(ilist[a]) \in Inum /\ Last(ilist[a]) \in Present(ilist[a])
<1>1. Present(ilist[a]) \in SUBSET Inum /\ Base \in Present(ilist[a])
  BY BaseInum DEF TypeInv, BaseOK, Present
<1> QED BY <1>1, GreatestInum DEF Last

LEMMA AtType == ASSUME NEW i \in Inum PROVE At(i) \in Pointer
BY DEF At, Pointer

LEMMA StopType ==
  ASSUME TypeOK, NEW a \in Member, NEW why \in {"ended"} \cup Failure, NEW net \in Links,
         Stop(a, why, net)
  PROVE  /\ status' \in [Member -> {"live", "ended"} \cup Failure]
         /\ peer' \in [Member -> SUBSET Member]
         /\ link' \in Links
<1>1. link' \in Links
  BY UnreadType DEF Stop
<1> QED BY <1>1 DEF Stop, TypeOK

LEMMA PrepareType ==
  ASSUME TypeOK, NEW a \in Member, NEW al \in SUBSET Member, NEW pe \in SUBSET Member,
         NEW net \in Links, NEW gone \in SUBSET Member, NEW ended \in {"ended"} \cup Failure,
         Prepare(a, al, pe, net, gone, ended)
  PROVE  /\ status' \in [Member -> {"live", "ended"} \cup Failure]
         /\ peer' \in [Member -> SUBSET Member]
         /\ link' \in Links
         /\ prep' \in [Member -> Prep]
         /\ gen_high' \in [Member -> Nat]
         /\ dparts' \in [Member -> SUBSET Member]
<1>1. CASE Cardinality(pe) + 1 < Majority(al)
  BY <1>1, StopType DEF Prepare, TypeOK
<1>2. CASE ~(Cardinality(pe) + 1 < Majority(al))
  <2> DEFINE b == [id |-> a, gen |-> gen_high[a] + 1]
  <2>1. b \in Ballot /\ b.gen \in Nat
    BY MemberNat DEF TypeOK, Ballot
  <2>2. [op |-> "prepare", bal |-> b, inum |-> ihole[a]] \in Message
    <3>1. ihole[a] \in Nat
      BY BoundAssumption DEF TypeOK
    <3> HIDE DEF b
    <3> QED BY <2>1, <3>1 DEF Message
  <2>3. [bal |-> b, acks |-> 1, redirects |-> 0, istart |-> istart[a]] \in Prep
    BY <2>1 DEF TypeOK, Prep, BallotOrNone
  <2> HIDE DEF b
  <2>4. /\ prep' = [prep EXCEPT ![a] = [bal |-> b, acks |-> 1, redirects |-> 0,
                                       istart |-> istart[a]]]
        /\ gen_high' = [gen_high EXCEPT ![a] = b.gen]
        /\ dparts' = [dparts EXCEPT ![a] = @ \cup gone]
        /\ peer' = [peer EXCEPT ![a] = pe]
        /\ link' = Send(net, a, pe, [op |-> "prepare", bal |-> b, inum |-> ihole[a]])
        /\ status' = status
    BY <1>2 DEF Prepare, NextBallot, b
  <2>5. link' \in Links
    BY <2>2, <2>4, SendType
  <2> QED BY <2>1, <2>3, <2>4, <2>5 DEF TypeOK
<1> QED BY <1>1, <1>2

LEMMA UpstartType ==
  ASSUME TypeInv, NEW a \in Member, NEW i \in Inum, Upstart(a, i)
  PROVE  istart' \in [Member -> Pointer]
<1> At(i) \in Pointer
  BY AtType
<1> QED BY DEF Upstart, TypeInv, TypeOK

LEMMA ProposerDecreeType ==
  ASSUME TypeInv, NEW a \in Member, NEW v \in Value, NEW pe, NEW net \in Links,
         ProposerDecree(a, v, pe, net)
  PROVE  /\ ilist' \in Lists /\ Based(ilist')
         /\ istart' \in [Member -> Pointer]
         /\ link' \in Links
         /\ call' \in [Member -> Call]
<1> DEFINE i == Last(ilist[a]) + 1
           alone == Majority(alist[a]) = 1
           e == [Decreed(ballot[a], v) EXCEPT !.opcode = IF alone THEN "commit" ELSE @]
<1>1. i \in Inum
  <2>1. i <= MaxInum
    BY DEF ProposerDecree
  <2> QED BY <2>1, LastType, BoundAssumption DEF Inum
<1>2. ballot[a] \in Ballot
  BY DEF TypeInv, TypeOK
<1>3. e \in Entry /\ e.bal = ballot[a]
  BY <1>2, DecreedType DEF Entry
<1>4. DecreeMsg(ballot[a], i, v) \in Message
  <2> HIDE DEF i
  <2> QED BY <1>1, <1>2 DEF DecreeMsg, Message
<1>5. /\ ilist' = [ilist EXCEPT ![a][i] = e]
      /\ Upstart(a, i)
      /\ link' = Send(net, a, pe, DecreeMsg(ballot[a], i, v))
      /\ call' = [call EXCEPT ![a] = IF alone THEN [fn |-> "commit", inum |-> i] ELSE @]
  BY DEF ProposerDecree
<1> HIDE DEF i, alone, e
<1>6. ilist \in Lists /\ Based(ilist)
  BY DEF TypeInv, TypeOK, BaseOK, Lists, Based
<1>7. e.bal # NoBallot
  BY <1>2, <1>3 DEF Ballot, NoBallot
<1>8. ilist' \in Lists /\ Based(ilist')
  BY <1>1, <1>3, <1>5, <1>6, <1>7, PutType
<1>9. link' \in Links
  BY <1>4, <1>5, SendType
<1>10. istart' \in [Member -> Pointer]
  BY <1>1, <1>5, UpstartType
<1>11. call' \in [Member -> Call]
  BY <1>1, <1>5 DEF TypeInv, TypeOK, Call
<1> QED BY <1>8, <1>9, <1>10, <1>11

LEMMA SubmitType ==
  ASSUME TypeInv, NEW a \in Member, NEW v \in Value, NEW pe, NEW net \in Links,
         Submit(a, v, pe, net)
  PROVE  /\ ilist' \in Lists /\ Based(ilist')
         /\ istart' \in [Member -> Pointer]
         /\ link' \in Links
         /\ call' \in [Member -> Call]
         /\ idefer' \in [Member -> Seq(Value)]
<1>1. CASE Preparing(a)
  <2>1. /\ idefer' = [idefer EXCEPT ![a] = Append(@, v)]
        /\ link' = net /\ ilist' = ilist /\ istart' = istart /\ call' = call
    BY <1>1 DEF Submit, logs
  <2>2. Append(idefer[a], v) \in Seq(Value)
    BY DEF TypeInv, TypeOK
  <2> QED BY <2>1, <2>2 DEF TypeInv, TypeOK, BaseOK, Lists, Based
<1>2. CASE ~Preparing(a)
  <2>1. ProposerDecree(a, v, pe, net) /\ idefer' = idefer
    BY <1>2 DEF Submit
  <2> QED BY <2>1, ProposerDecreeType DEF TypeInv, TypeOK
<1> QED BY <1>1, <1>2

(* TypeInv, variable by variable, as the steps below establish it. *)
LEMMA TypeInvIntro ==
  ASSUME /\ status' \in [Member -> {"live", "ended"} \cup Failure]
         /\ alist' \in [Member -> SUBSET Member]
         /\ peer' \in [Member -> SUBSET Member]
         /\ proposer' \in [Member -> Member]
         /\ ballot' \in [Member -> Ballot]
         /\ gen_high' \in [Member -> Nat]
         /\ prep' \in [Member -> Prep]
         /\ dparts' \in [Member -> SUBSET Member]
         /\ idefer' \in [Member -> Seq(Value)]
         /\ ilist' \in Lists /\ Based(ilist')
         /\ ihole' \in [Member -> Base + 1 .. MaxInum + 1]
         /\ istart' \in [Member -> Pointer]
         /\ rcache' \in [Member -> SUBSET Value]
         /\ clist' \in [Member -> Seq(Continuation)]
         /\ call' \in [Member -> Call]
         /\ link' \in Links
         /\ lost' \in Nat
  PROVE  TypeInv'
BY DEF TypeInv, TypeOK, BaseOK, Lists, Based, Links

(* The same of the state a step starts from. *)
LEMMA TypeInvElim ==
  ASSUME TypeInv
  PROVE  /\ status \in [Member -> {"live", "ended"} \cup Failure]
         /\ alist \in [Member -> SUBSET Member]
         /\ peer \in [Member -> SUBSET Member]
         /\ proposer \in [Member -> Member]
         /\ ballot \in [Member -> Ballot]
         /\ gen_high \in [Member -> Nat]
         /\ prep \in [Member -> Prep]
         /\ dparts \in [Member -> SUBSET Member]
         /\ idefer \in [Member -> Seq(Value)]
         /\ ilist \in Lists /\ Based(ilist)
         /\ ihole \in [Member -> Base + 1 .. MaxInum + 1]
         /\ istart \in [Member -> Pointer]
         /\ rcache \in [Member -> SUBSET Value]
         /\ clist \in [Member -> Seq(Continuation)]
         /\ call \in [Member -> Call]
         /\ link \in Links
         /\ lost \in Nat
BY DEF TypeInv, TypeOK, BaseOK, Lists, Based, Links

LEMMA InitType == Init => TypeInv
<1> SUFFICES ASSUME Init PROVE TypeInv
  OBVIOUS
<1>1. First \in Member
  BY LeastIn, MemberAssumption DEF First
<1>2. FirstBallot \in Ballot
  BY <1>1, MemberNat DEF FirstBallot, Ballot
<1>3. BaseEntry \in Entry /\ BaseEntry.bal # NoBallot
  BY <1>1, <1>2, MemberNat DEF BaseEntry, Entry, BallotOrNone, Value, Kind, Ballot, NoBallot
<1>4. Absent \in Entry
  BY DEF Absent, Entry, BallotOrNone, NoValue, Value, Kind
<1>5. NoPrep \in Prep /\ At(Base) \in Pointer /\ Return \in Call
  BY BaseInum DEF NoPrep, Prep, BallotOrNone, At, Pointer, Return, Call
<1>6. Base + 1 \in Base + 1 .. MaxInum + 1
  BY BoundAssumption
<1> QED BY <1>1, <1>2, <1>3, <1>4, <1>5, <1>6, BaseInum DEF Init, TypeInv, TypeOK, BaseOK

-----------------------------------------------------------------------------
(* A field of an entry other than its ballot. *)
LEMMA FieldType ==
  ASSUME NEW e \in Entry
  PROVE  /\ [e EXCEPT !.committed = TRUE] \in Entry
         /\ [e EXCEPT !.committed = TRUE].bal = e.bal
         /\ [e EXCEPT !.committed = TRUE, !.cached = TRUE] \in Entry
         /\ [e EXCEPT !.committed = TRUE, !.cached = TRUE].bal = e.bal
         /\ [e EXCEPT !.learned = TRUE] \in Entry
         /\ [e EXCEPT !.learned = TRUE].bal = e.bal
         /\ \A n \in Nat : /\ [e EXCEPT !.rejects = n] \in Entry
                          /\ [e EXCEPT !.rejects = n].bal = e.bal
         /\ e.bal \in BallotOrNone /\ e.val \in Value
BY DEF Entry

LEMMA CommitType ==
  ASSUME TypeInv, NEW a \in Member, Commit(a)
  PROVE  TypeInv'
<1> DEFINE i == call[a].inum
           v == ilist[a][i].val
<1>1. i \in Inum /\ v \in Value /\ Return \in Call /\ [fn |-> "learn", inum |-> i] \in Call
  <2>1. i \in Inum
    BY TypeInvElim DEF Call
  <2>2. ilist[a][i] \in Entry
    BY <2>1, TypeInvElim DEF Lists
  <2>3. v \in Value
    BY <2>2, FieldType
  <2> QED BY <2>1, <2>3, BaseInum DEF Return, Call
<1>2. /\ alist' = alist /\ proposer' = proposer /\ ballot' = ballot /\ gen_high' = gen_high
      /\ prep' = prep /\ dparts' = dparts /\ idefer' = idefer /\ ihole' = ihole
      /\ rcache' = rcache /\ clist' = clist /\ lost' = lost
  BY DEF Commit, ballots, defers
<1>0. ilist \in Lists /\ Based(ilist) /\ ilist[a][i] \in Entry
  BY <1>1, TypeInvElim DEF Lists
<1>3. ASSUME NEW why \in Failure, Stop(a, why, link), UNCHANGED <<logs, call>>
      PROVE  TypeInv'
  BY <1>2, <1>3, StopType, TypeInvElim, TypeInvIntro DEF TypeInv, logs
<1>4. ASSUME CommitUncached(a, i), UNCHANGED <<status, peer>>
      PROVE  TypeInv'
  <2>1. [op |-> "retrieve", who |-> a, inum |-> i, val |-> v] \in Message
    <3> HIDE DEF i, v
    <3> QED BY <1>1, MemberNat DEF Message
  <2>2. link' \in Links
    <3>1. link' = Retrieve(a, i, v)
      BY <1>4 DEF CommitUncached
    <3> QED BY <2>1, <3>1, SendType, TypeInvElim DEF Retrieve
  <2>3. ilist' \in Lists /\ Based(ilist') /\ istart' = istart
    BY <1>1, <1>4, <1>0, FieldType, PutType DEF CommitUncached
  <2>4. call' \in [Member -> Call]
    BY <1>1, <1>4, TypeInvElim DEF CommitUncached
  <2> QED BY <1>2, <1>4, <2>2, <2>3, <2>4, TypeInvElim, TypeInvIntro
<1>5. ASSUME CommitPastHole(a, i), i > ihole[a], UNCHANGED <<status, peer>>
      PROVE  TypeInv'
  <2>1. [op |-> "retry", bal |-> ballot[a], inum |-> ihole[a]] \in Message
    <3>1. ihole[a] \in Inum /\ ballot[a] \in Ballot
      BY <1>1, <1>5, TypeInvElim, BoundAssumption DEF Inum
    <3> QED BY <3>1 DEF Message
  <2>2. link' \in Links
    <3>1. \/ link' = link
          \/ link' = Send(link, a, {proposer[a]},
                          [op |-> "retry", bal |-> ballot[a], inum |-> ihole[a]])
      BY <1>5 DEF CommitPastHole
    <3> QED BY <2>1, <3>1, SendType, TypeInvElim
  <2>3. ilist' \in Lists /\ Based(ilist') /\ istart' = istart
    BY <1>1, <1>5, <1>0, FieldType, PutType DEF CommitPastHole
  <2>4. call' \in [Member -> Call]
    BY <1>1, <1>5, TypeInvElim DEF CommitPastHole
  <2> QED BY <1>2, <1>5, <2>2, <2>3, <2>4, TypeInvElim, TypeInvIntro
<1>6. ASSUME CommitHole(a, i), UNCHANGED <<status, peer>>
      PROVE  TypeInv'
  <2>1. ilist' \in Lists /\ Based(ilist') /\ link' = link
    BY <1>1, <1>6, <1>0, FieldType, PutType DEF CommitHole
  <2>2. istart' \in [Member -> Pointer]
    BY <1>1, <1>6, AtType, TypeInvElim DEF CommitHole
  <2>3. call' \in [Member -> Call]
    BY <1>1, <1>6, TypeInvElim DEF CommitHole
  <2> QED BY <1>2, <1>6, <2>1, <2>2, <2>3, TypeInvElim, TypeInvIntro
<1>7. \/ CommitUncached(a, i) /\ UNCHANGED <<status, peer>>
      \/ Stop(a, "commit_learned", link) /\ UNCHANGED <<logs, call>>
      \/ CommitPastHole(a, i) /\ i > ihole[a] /\ UNCHANGED <<status, peer>>
      \/ Stop(a, "commit_istart", link) /\ UNCHANGED <<logs, call>>
      \/ CommitHole(a, i) /\ UNCHANGED <<status, peer>>
  BY DEF Commit
<1> QED BY <1>3, <1>4, <1>5, <1>6, <1>7 DEF Failure

LEMMA ElectedType ==
  ASSUME NEW a \in Member, NEW pe \in SUBSET Member
  PROVE  Elected(a, pe) \in {a} \cup pe /\ \A y \in {a} \cup pe : Elected(a, pe) <= y
<1>1. {a} \cup pe \in SUBSET Nat /\ {a} \cup pe # {}
  BY MemberNat
<1> QED BY <1>1, LeastIn DEF Elected

LEMMA ReelectedType ==
  ASSUME TypeInv, NEW a \in Member, NEW y, NEW pe \in SUBSET Member
  PROVE  Reelected(a, y, pe) \in Member
<1>1. Elected(a, pe) \in Member
  BY ElectedType
<1>2. proposer[a] \in Member
  BY DEF TypeInv, TypeOK
<1> QED BY <1>1, <1>2 DEF Reelected

LEMMA LearnedType ==
  ASSUME TypeInv, NEW a \in Member, Learnable(a), Learned(a)
  PROVE  /\ ilist' \in Lists /\ Based(ilist')
         /\ ihole' \in [Member -> Base + 1 .. MaxInum + 1]
<1>1. ilist \in Lists /\ Based(ilist) /\ ilist[a][ihole[a]] \in Entry /\ ihole[a] \in Inum
  BY TypeInvElim DEF Lists, Learnable
<1>2. ilist' \in Lists /\ Based(ilist')
  BY <1>1, FieldType, PutType DEF Learned
<1>3. ihole[a] + 1 \in Base + 1 .. MaxInum + 1
  BY <1>1, TypeInvElim, BoundAssumption DEF Inum
<1> QED BY <1>2, <1>3, TypeInvElim DEF Learned

LEMMA LearnType ==
  ASSUME TypeInv, NEW a \in Member, Learn(a)
  PROVE  TypeInv'
<1> DEFINE v == ilist[a][ihole[a]].val
<1>1. /\ Learnable(a) /\ ballot' = ballot /\ idefer' = idefer /\ istart' = istart
      /\ rcache' = rcache /\ clist' = clist /\ call' = call /\ lost' = lost
  BY DEF Learn
<1>2. ASSUME Learned(a), UNCHANGED <<status, sess, gen_high, prep, dparts, link>>
      PROVE  TypeInv'
  BY <1>1, <1>2, LearnedType, TypeInvElim, TypeInvIntro DEF sess
<1>3. ASSUME NEW why \in {"ended"} \cup Failure, Stop(a, why, link),
             UNCHANGED <<alist, proposer, gen_high, prep, dparts, ilist, ihole>>
      PROVE  TypeInv'
  BY <1>1, <1>3, StopType, TypeInvElim, TypeInvIntro DEF TypeInv
<1>4. ASSUME NEW y, LearnPart(a, y)
      PROVE  TypeInv'
  <2> DEFINE al == alist[a] \ {y}
             pe == peer[a] \ {y}
             net == Unread(link, a, {y})
             np == Reelected(a, y, pe)
             gone == Unconnected(a, al, pe)
  <2>1. al \in SUBSET Member /\ pe \in SUBSET Member /\ gone \in SUBSET Member
    BY TypeInvElim DEF Unconnected
  <2>2. net \in Links
    BY UnreadType, TypeInvElim
  <2>3. np \in Member
    <3> HIDE DEF pe
    <3> QED BY <2>1, ReelectedType
  <2>4. ilist' \in Lists /\ Based(ilist') /\ ihole' \in [Member -> Base + 1 .. MaxInum + 1]
    BY <1>1, <1>4, LearnedType DEF LearnPart
  <2>5. alist' \in [Member -> SUBSET Member] /\ proposer' \in [Member -> Member]
    BY <1>4, <2>1, <2>3, TypeInvElim DEF LearnPart
  <2>6. \/ Prepare(a, al, pe, net, gone, "ended")
        \/ /\ peer' = [peer EXCEPT ![a] = pe]
           /\ link' = net
           /\ UNCHANGED <<status, gen_high, prep, dparts>>
    BY <1>4 DEF LearnPart
  <2> HIDE DEF al, pe, net, np, gone
  <2>7. /\ status' \in [Member -> {"live", "ended"} \cup Failure]
        /\ peer' \in [Member -> SUBSET Member] /\ link' \in Links
        /\ prep' \in [Member -> Prep] /\ gen_high' \in [Member -> Nat]
        /\ dparts' \in [Member -> SUBSET Member]
    BY <2>1, <2>2, <2>6, PrepareType, TypeInvElim DEF TypeInv
  <2> QED BY <1>1, <2>4, <2>5, <2>7, TypeInvElim, TypeInvIntro
<1>5. \/ Learned(a) /\ UNCHANGED <<status, sess, gen_high, prep, dparts, link>>
      \/ \E why \in {"ended"} \cup Failure :
           /\ Stop(a, why, link)
           /\ UNCHANGED <<alist, proposer, gen_high, prep, dparts, ilist, ihole>>
      \/ LearnPart(a, v.arg)
  <2>1. \/ LearnChat(a, v) \/ LearnOwnPart(a) \/ LearnPart(a, v.arg)
        \/ Learned(a) /\ UNCHANGED <<status, sess, gen_high, prep, dparts, link>>
    BY Zenon DEF Learn
  <2>2. "chat_author" \in Failure /\ "null_session" \in Failure
    BY DEF Failure
  <2> QED BY <2>1, <2>2 DEF LearnChat, LearnOwnPart
<1> QED BY <1>2, <1>3, <1>4, <1>5

LEMMA LearnEndType ==
  ASSUME TypeInv, NEW a \in Member, LearnEnd(a)
  PROVE  TypeInv'
<1>1. ihole[a] - 1 \in Inum
  BY TypeInvElim, BoundAssumption DEF Inum
<1>2. \A i \in Present(ilist[a]) : i \in Inum
  BY DEF Present
<1>3. istart' \in [Member -> Pointer]
  BY <1>1, <1>2, AtType, TypeInvElim DEF LearnEnd
<1>4. call' \in [Member -> Call]
  BY BaseInum, TypeInvElim DEF LearnEnd, Return, Call
<1> QED BY <1>3, <1>4, TypeInvElim, TypeInvIntro DEF LearnEnd, sess, ballots, defers

-----------------------------------------------------------------------------
LEMMA RequestType ==
  ASSUME TypeInv, NEW a \in Member, NEW v \in Chat, Request(a, v)
  PROVE  TypeInv'
<1> DEFINE net == Send(link, a, peer[a], [op |-> "request", who |-> proposer[a], val |-> v])
<1>1. v \in Value
  BY ChatAssumption
<1>2. net \in Links
  <2>1. [op |-> "request", who |-> proposer[a], val |-> v] \in Message
    BY <1>1, MemberNat, TypeInvElim DEF Message
  <2> QED BY <2>1, SendType, TypeInvElim
<1>3. \/ Submit(a, v, peer[a], net)
      \/ link' = net /\ UNCHANGED <<idefer, logs, call>>
  BY DEF Request
<1> HIDE DEF net
<1>4. /\ ilist' \in Lists /\ Based(ilist') /\ istart' \in [Member -> Pointer]
      /\ link' \in Links /\ call' \in [Member -> Call] /\ idefer' \in [Member -> Seq(Value)]
  BY <1>1, <1>2, <1>3, SubmitType, TypeInvElim DEF logs
<1>5. rcache' \in [Member -> SUBSET Value]
  BY <1>1, TypeInvElim DEF Request, Cached
<1> QED BY <1>4, <1>5, TypeInvElim, TypeInvIntro DEF Request, sess, ballots

LEMMA ProposerAckRequestType ==
  ASSUME TypeInv, NEW a \in Member, NEW x \in Member, ProposerAckRequest(a, x)
  PROVE  TypeInv'
<1> DEFINE m == Msg(a, x)
           v == IF m.who > a THEN Kill(a, m.val.by) ELSE m.val
<1>1. m \in Message /\ m.op = "request" /\ Rest(a, x) \in Links
  BY ReadType DEF ProposerAckRequest, TypeInv
<1>2. m.val \in Value
  BY <1>1, MessageFields
<1>3. v \in Value
  BY <1>2, MemberNat DEF Kill, Value, Kind
<1>4. Submit(a, v, peer[a], Rest(a, x))
  BY DEF ProposerAckRequest
<1>5. /\ ilist' \in Lists /\ Based(ilist') /\ istart' \in [Member -> Pointer]
      /\ link' \in Links /\ call' \in [Member -> Call] /\ idefer' \in [Member -> Seq(Value)]
  <2> HIDE DEF v
  <2> QED BY <1>1, <1>3, <1>4, SubmitType
<1>6. rcache' \in [Member -> SUBSET Value]
  BY <1>2, TypeInvElim DEF ProposerAckRequest, Cached
<1> QED BY <1>5, <1>6, TypeInvElim, TypeInvIntro DEF ProposerAckRequest, sess, ballots

LEMMA AcceptorAckRequestType ==
  ASSUME TypeInv, NEW a \in Member, NEW x \in Member, AcceptorAckRequest(a, x)
  PROVE  TypeInv'
<1> DEFINE m == Msg(a, x)
<1>1. m \in Message /\ m.op = "request" /\ Rest(a, x) \in Links
  BY ReadType DEF AcceptorAckRequest, TypeInv
<1>2. m.val \in Value
  BY <1>1, MessageFields
<1>3. [op |-> "refuse", who |-> proposer[a]] \in Message
  BY MemberNat, TypeInvElim DEF Message
<1>4. link' \in Links
  BY <1>1, <1>3, SendType DEF AcceptorAckRequest
<1>5. rcache' \in [Member -> SUBSET Value]
  BY <1>2, TypeInvElim DEF AcceptorAckRequest, Cached
<1> QED BY <1>4, <1>5, TypeInvElim, TypeInvIntro
        DEF AcceptorAckRequest, sess, ballots, defers, logs

LEMMA AckRefuseType ==
  ASSUME TypeInv, NEW a \in Member, NEW x \in Member, AckRefuse(a, x)
  PROVE  TypeInv'
<1>1. Rest(a, x) \in Links
  BY ReadType DEF AckRefuse, TypeInv
<1>2. \/ link' = Rest(a, x) /\ UNCHANGED <<status, peer>>
      \/ Stop(a, "target", link)
  BY DEF AckRefuse
<1>3. /\ status' \in [Member -> {"live", "ended"} \cup Failure]
      /\ peer' \in [Member -> SUBSET Member] /\ link' \in Links
  BY <1>1, <1>2, StopType, TypeInvElim DEF TypeInv, Failure
<1> QED BY <1>3, TypeInvElim, TypeInvIntro DEF AckRefuse, ballots, defers, logs

LEMMA AckRetrieveType ==
  ASSUME TypeInv, NEW a \in Member, NEW x \in Member, AckRetrieve(a, x)
  PROVE  TypeInv'
<1> DEFINE m == Msg(a, x)
<1>1. m \in Message /\ m.op = "retrieve" /\ Rest(a, x) \in Links
  BY ReadType DEF AckRetrieve, TypeInv
<1>2. [op |-> "resend", inum |-> m.inum, val |-> m.val] \in Message
  <2>1. m.inum \in Inum /\ m.val \in Value
    BY <1>1, MessageFields
  <2> QED BY <2>1 DEF Message
<1>3. link' \in Links
  BY <1>1, <1>2, SendType DEF AckRetrieve
<1> QED BY <1>3, TypeInvElim, TypeInvIntro DEF AckRetrieve, sess, ballots, defers, logs

LEMMA AckResendType ==
  ASSUME TypeInv, NEW a \in Member, NEW x \in Member, AckResend(a, x)
  PROVE  TypeInv'
<1> DEFINE m == Msg(a, x)
<1>1. m \in Message /\ m.op = "resend" /\ Rest(a, x) \in Links
  BY ReadType DEF AckResend, TypeInv
<1>2. m.inum \in Inum /\ m.val \in Value
  BY <1>1, MessageFields
<1>3. rcache' \in [Member -> SUBSET Value] /\ call' \in [Member -> Call]
  <2> DEFINE c == [fn |-> "commit", inum |-> m.inum]
  <2>1. c \in Call
    BY <1>2 DEF Call
  <2>2. \/ rcache' = rcache /\ call' = call
        \/ rcache' = [rcache EXCEPT ![a] = @ \cup {m.val}] /\ call' = [call EXCEPT ![a] = c]
    BY DEF AckResend, Enter, Cached
  <2>3. rcache \in [Member -> SUBSET Value] /\ call \in [Member -> Call]
    BY TypeInvElim
  <2> HIDE DEF m, c
  <2>4. [rcache EXCEPT ![a] = @ \cup {m.val}] \in [Member -> SUBSET Value]
    BY <1>2, <2>3
  <2>5. [call EXCEPT ![a] = c] \in [Member -> Call]
    BY <2>1, <2>3
  <2> QED BY <2>2, <2>3, <2>4, <2>5
<1>4. link' \in Links
  BY <1>1 DEF AckResend
<1> QED BY <1>3, <1>4, TypeInvElim, TypeInvIntro DEF AckResend, sess, ballots, defers, logs

-----------------------------------------------------------------------------
LEMMA AcceptsType ==
  ASSUME NEW il \in [Inum -> Entry], NEW inum
  PROVE  Accepts(il, inum) \in [Inum -> Vote]
<1>1. NoVote \in Vote
  BY DEF NoVote, Vote, BallotOrNone, NoValue, Value, Kind
<1>2. \A i \in Inum : [bal |-> il[i].bal, val |-> il[i].val] \in Vote
  BY FieldType DEF Vote
<1> QED BY <1>1, <1>2 DEF Accepts

LEMMA AckPrepareType ==
  ASSUME TypeInv, NEW a \in Member, NEW x \in Member, AckPrepare(a, x)
  PROVE  TypeInv'
<1> DEFINE m == Msg(a, x)
           no == [op |-> "redirect", bal |-> m.bal, who |-> proposer[a]]
           yes == [op |-> "promise", bal |-> m.bal, inum |-> m.inum,
                   log |-> Accepts(ilist[a], m.inum)]
<1>1. m \in Message /\ m.op = "prepare" /\ Rest(a, x) \in Links
  BY ReadType DEF AckPrepare, TypeInv
<1>2. m.bal \in Ballot /\ m.inum \in Nat
  BY <1>1, MessageFields
<1>3. no \in Message
  BY <1>2, MemberNat, TypeInvElim DEF Message
<1>4. yes \in Message
  <2>1. Accepts(ilist[a], m.inum) \in [Inum -> Vote]
    BY AcceptsType, TypeInvElim DEF Lists
  <2> QED BY <1>2, <2>1 DEF Message
<1>5. \/ link' = Send(Rest(a, x), a, {x}, no) /\ ballot' = ballot /\ gen_high' = gen_high
      \/ /\ link' = Send(Rest(a, x), a, {x}, yes)
         /\ ballot' = [ballot EXCEPT ![a] = m.bal]
         /\ gen_high' = [gen_high EXCEPT ![a] = m.bal.gen]
  BY DEF AckPrepare
<1> HIDE DEF no, yes
<1>6. link' \in Links
  BY <1>1, <1>3, <1>4, <1>5, SendType
<1>7. ballot' \in [Member -> Ballot] /\ gen_high' \in [Member -> Nat]
  <2>1. m.bal.gen \in Nat
    BY <1>2 DEF Ballot
  <2> HIDE DEF m
  <2> QED BY <1>2, <1>5, <2>1, TypeInvElim
<1> QED BY <1>6, <1>7, TypeInvElim, TypeInvIntro DEF AckPrepare, sess, defers, logs

(* Merging a promise into a list keeps what the list has. *)
LEMMA MergeType ==
  ASSUME NEW il \in [Inum -> Entry], NEW vs \in [Inum -> Vote]
  PROVE  /\ Merge(il, vs) \in [Inum -> Entry]
         /\ \A i \in Inum : il[i].bal # NoBallot => Merge(il, vs)[i].bal # NoBallot
<1>1. \A i \in Inum : vs[i].bal \in BallotOrNone /\ vs[i].val \in Value
  BY DEF Vote
<1>2. \A i \in Inum : [Absent EXCEPT !.bal = vs[i].bal, !.val = vs[i].val] \in Entry
  BY <1>1 DEF Absent, Entry
<1>3. \A i \in Inum : [Absent EXCEPT !.bal = vs[i].bal, !.val = vs[i].val].bal = vs[i].bal
  BY DEF Absent
<1>4. \A i \in Missing(il, vs) \cup Newer(il, vs) : vs[i].bal # NoBallot
  BY DEF Missing, Newer, Voted
<1> QED BY <1>2, <1>3, <1>4 DEF Merge

LEMMA FollowType ==
  ASSUME NEW ptr \in Pointer, NEW il, NEW vs
  PROVE  Follow(ptr, il, vs) \in Pointer
<1> DEFINE reused == {i \in Missing(il, vs) \cup Newer(il, vs) : i > ptr.inum}
<1>1. reused \in SUBSET Inum /\ Voted(vs) \in SUBSET Inum
  BY DEF Missing, Newer, Voted
<1>2. CASE ptr.stray \/ ptr.inum \notin Newer(il, vs)
  BY <1>2 DEF Follow
<1>3. CASE ~(ptr.stray \/ ptr.inum \notin Newer(il, vs)) /\ reused # {}
  <2>1. Follow(ptr, il, vs) = At(Least(reused))
    BY <1>3 DEF Follow
  <2> HIDE DEF reused
  <2> QED BY <1>1, <1>3, <2>1, LeastInum, AtType
<1>4. CASE ~(ptr.stray \/ ptr.inum \notin Newer(il, vs)) /\ reused = {}
  <2>1. Follow(ptr, il, vs) = [inum |-> Greatest(Voted(vs)), stray |-> TRUE]
    BY <1>4 DEF Follow
  <2>2. Voted(vs) # {}
    BY <1>4 DEF Newer
  <2> QED BY <1>1, <2>1, <2>2, GreatestInum DEF Pointer
<1> QED BY <1>2, <1>3, <1>4

LEMMA AckPromiseType ==
  ASSUME TypeInv, NEW a \in Member, NEW x \in Member, AckPromise(a, x)
  PROVE  TypeInv'
<1> DEFINE m == Msg(a, x)
           p == prep[a]
           acks == p.acks + 1
           il == Merge(ilist[a], m.log)
           at == Follow(p.istart, ilist[a], m.log)
           start == IF ihole[a] \in Missing(ilist[a], m.log) THEN At(ihole[a])
                    ELSE Follow(istart[a], ilist[a], m.log)
           won == acks >= Majority(alist[a])
<1>1. m \in Message /\ m.op = "promise" /\ Rest(a, x) \in Links
  BY ReadType DEF AckPromise, TypeInv
<1>2. m.bal \in Ballot /\ m.log \in [Inum -> Vote]
  BY <1>1, MessageFields
<1>3. p \in Prep /\ ilist \in Lists /\ ilist[a] \in [Inum -> Entry] /\ Based(ilist)
  BY TypeInvElim DEF Lists
<1>4. CASE ~Preparing(a) \/ m.bal # p.bal
  <2>1. link' = Rest(a, x) /\ UNCHANGED <<status, peer, ballot, prep, logs>>
    BY <1>4 DEF AckPromise
  <2> QED BY <1>1, <2>1, TypeInvElim, TypeInvIntro DEF AckPromise, defers, logs
<1>5. ASSUME NEW why \in Failure, Stop(a, why, link), UNCHANGED <<ballot, prep, logs>>
      PROVE  TypeInv'
  BY <1>5, StopType, TypeInvElim, TypeInvIntro DEF AckPromise, TypeInv, defers, logs
<1>6. ASSUME Preparing(a), m.bal = p.bal,
             ilist' = [ilist EXCEPT ![a] = il],
             istart' = [istart EXCEPT ![a] = start],
             prep' = [prep EXCEPT ![a] = [p EXCEPT !.acks = acks, !.istart = at]],
             ballot' = IF won THEN [ballot EXCEPT ![a] = p.bal] ELSE ballot,
             link' = Rest(a, x), UNCHANGED <<status, peer>>
      PROVE  TypeInv'
  <2>1. ilist' \in Lists /\ Based(ilist')
    <3>1. il \in [Inum -> Entry] /\ il[Base].bal # NoBallot
      BY <1>2, <1>3, BaseInum, MergeType DEF Based
    <3> HIDE DEF il
    <3> QED BY <1>3, <1>6, <3>1 DEF Lists, Based
  <2>2. istart' \in [Member -> Pointer]
    <3>1. start \in Pointer
      <4>1. ihole[a] \in Missing(ilist[a], m.log) => ihole[a] \in Inum
        BY DEF Missing, Voted
      <4> QED BY <4>1, AtType, FollowType, TypeInvElim
    <3> HIDE DEF start
    <3> QED BY <1>6, <3>1, TypeInvElim
  <2>3. prep' \in [Member -> Prep]
    <3>1. at \in Pointer
      BY <1>3, FollowType DEF Prep
    <3>2. acks \in Nat
      BY <1>3 DEF Prep
    <3> HIDE DEF at, acks
    <3>3. [p EXCEPT !.acks = acks, !.istart = at] \in Prep
      <4> HIDE DEF p
      <4> QED BY <1>3, <3>1, <3>2 DEF Prep
    <3> QED BY <1>6, <3>3, TypeInvElim
  <2>4. ballot' \in [Member -> Ballot]
    BY <1>2, <1>6, TypeInvElim
  <2> HIDE DEF m
  <2> QED BY <1>1, <1>6, <2>1, <2>2, <2>3, <2>4, TypeInvElim, TypeInvIntro
          DEF AckPromise, defers
<1>7. CASE Preparing(a) /\ m.bal = p.bal
  <2>1. \/ Stop(a, "promise_glb", link) /\ UNCHANGED <<ballot, prep, logs>>
        \/ Stop(a, "redecree_glb", link) /\ UNCHANGED <<ballot, prep, logs>>
        \/ /\ ilist' = [ilist EXCEPT ![a] = il]
           /\ istart' = [istart EXCEPT ![a] = start]
           /\ prep' = [prep EXCEPT ![a] = [p EXCEPT !.acks = acks, !.istart = at]]
           /\ ballot' = IF won THEN [ballot EXCEPT ![a] = p.bal] ELSE ballot
           /\ link' = Rest(a, x)
           /\ UNCHANGED <<status, peer>>
    BY <1>7 DEF AckPromise
  <2>2. "promise_glb" \in Failure /\ "redecree_glb" \in Failure
    BY DEF Failure
  <2> HIDE DEF m, p, il, at, start, won
  <2> QED BY <1>5, <1>6, <1>7, <2>1, <2>2
<1> QED BY <1>4, <1>7

LEMMA RedecreeType ==
  ASSUME TypeInv, NEW a \in Member, Redecree(a)
  PROVE  TypeInv'
<1> DEFINE i == Least(Undecreed(a))
           absent == ilist[a][i].bal = NoBallot
           v == IF absent THEN Null(a) ELSE ilist[a][i].val
           d == Decreed(ballot[a], v)
<1>1. i \in Inum
  <2>1. Undecreed(a) \in SUBSET Inum /\ Undecreed(a) # {}
    BY DEF Undecreed, Redecree
  <2> QED BY <2>1, LeastInum
<1>2. /\ ilist' = [ilist EXCEPT ![a][i] = d]
      /\ Upstart(a, i) \/ UNCHANGED istart
      /\ link' = Send(link, a, peer[a], DecreeMsg(ballot[a], i, v))
  BY DEF Redecree
<1> HIDE DEF i
<1>3. v \in Value /\ ballot[a] \in Ballot /\ ilist \in Lists /\ Based(ilist)
  <2>1. ilist[a][i] \in Entry
    BY <1>1, TypeInvElim DEF Lists
  <2>2. Null(a) \in Value
    BY MemberNat DEF Null, Value, Kind
  <2> QED BY <2>1, <2>2, FieldType, TypeInvElim
<1> HIDE DEF v, absent
<1>4. ilist' \in Lists /\ Based(ilist')
  <2>1. d \in Entry /\ d.bal = ballot[a]
    BY <1>3, DecreedType
  <2>2. d.bal # NoBallot
    BY <1>3, <2>1 DEF Ballot, NoBallot
  <2> HIDE DEF d
  <2> QED BY <1>1, <1>2, <1>3, <2>1, <2>2, PutType
<1>5. link' \in Links
  <2>1. DecreeMsg(ballot[a], i, v) \in Message
    BY <1>1, <1>3 DEF DecreeMsg, Message
  <2> QED BY <1>2, <2>1, SendType, TypeInvElim
<1>6. istart' \in [Member -> Pointer]
  BY <1>1, <1>2, UpstartType, TypeInvElim
<1> QED BY <1>4, <1>5, <1>6, TypeInvElim, TypeInvIntro DEF Redecree, sess, ballots, defers

LEMMA EndPrepareType ==
  ASSUME TypeInv, NEW a \in Member, EndPrepare(a)
  PROVE  TypeInv'
<1>1. NoPrep \in Prep
  BY BaseInum DEF NoPrep, Prep, BallotOrNone, At, Pointer
<1>2. prep' \in [Member -> Prep]
  BY <1>1, TypeInvElim DEF EndPrepare
<1> QED BY <1>2, TypeInvElim, TypeInvIntro DEF EndPrepare, sess, defers, logs

LEMMA DrainType ==
  ASSUME TypeInv, NEW a \in Member, Drain(a)
  PROVE  TypeInv'
<1> DEFINE x == Least(dparts[a])
           v == IF x < a THEN Kill(a, x) ELSE Part(a, x)
<1>1. ASSUME NEW w \in Value, ProposerDecree(a, w, peer[a], link),
             dparts' \in [Member -> SUBSET Member], idefer' \in [Member -> Seq(Value)]
      PROVE  TypeInv'
  <2>1. /\ ilist' \in Lists /\ Based(ilist') /\ istart' \in [Member -> Pointer]
        /\ link' \in Links /\ call' \in [Member -> Call]
    BY <1>1, ProposerDecreeType, TypeInvElim
  <2> QED BY <1>1, <2>1, TypeInvElim, TypeInvIntro DEF Drain, sess, ballots
<1>2. CASE dparts[a] # {}
  <2>1. x \in Member
    <3>1. dparts[a] \in SUBSET Nat /\ dparts[a] \in SUBSET Member
      BY MemberNat, TypeInvElim
    <3> QED BY <1>2, <3>1, LeastIn
  <2>2. v \in Value
    <3> HIDE DEF x
    <3> QED BY <2>1, MemberNat DEF Kill, Part, Value, Kind
  <2>3. ProposerDecree(a, v, peer[a], link) /\ idefer' = idefer
        /\ dparts' = [dparts EXCEPT ![a] = @ \ {x}]
    BY <1>2 DEF Drain
  <2> HIDE DEF v, x
  <2>4. dparts' \in [Member -> SUBSET Member]
    BY <2>3, TypeInvElim
  <2> QED BY <1>1, <2>2, <2>3, <2>4, TypeInvElim
<1>3. CASE dparts[a] = {}
  <2>1. idefer[a] # <<>> /\ idefer[a] \in Seq(Value)
    BY <1>3, TypeInvElim DEF Drain, Draining
  <2>2. Head(idefer[a]) \in Value /\ Tail(idefer[a]) \in Seq(Value)
    BY <2>1
  <2>3. ProposerDecree(a, Head(idefer[a]), peer[a], link) /\ dparts' = dparts
        /\ idefer' = [idefer EXCEPT ![a] = Tail(@)]
    BY <1>3 DEF Drain
  <2>4. idefer' \in [Member -> Seq(Value)]
    BY <2>2, <2>3, TypeInvElim
  <2> QED BY <1>1, <2>2, <2>3, <2>4, TypeInvElim
<1> QED BY <1>2, <1>3

LEMMA AckRedirectType ==
  ASSUME TypeInv, NEW a \in Member, NEW x \in Member, AckRedirect(a, x)
  PROVE  TypeInv'
<1> DEFINE m == Msg(a, x)
           p == prep[a]
           n == p.redirects + 1
           counted == [prep EXCEPT ![a] = [p EXCEPT !.redirects = n]]
           k == [op |-> "redirect", who |-> m.who, inum |-> Base]
<1>1. m \in Message /\ m.op = "redirect" /\ Rest(a, x) \in Links
  BY ReadType DEF AckRedirect, TypeInv
<1>2. counted \in [Member -> Prep]
  <2>1. p \in Prep
    BY TypeInvElim
  <2>2. n \in Nat
    BY <2>1 DEF Prep
  <2> HIDE DEF n
  <2>3. [p EXCEPT !.redirects = n] \in Prep
    BY <2>1, <2>2 DEF Prep
  <2> QED BY <2>3, TypeInvElim
<1>3. [clist EXCEPT ![a] = Append(@, k)] \in [Member -> Seq(Continuation)]
  <2>1. m.who \in Nat
    BY <1>1, MessageFields
  <2>2. k \in Continuation
    <3> HIDE DEF m
    <3> QED BY <2>1, BaseInum DEF Continuation
  <2> HIDE DEF k
  <2> QED BY <2>2, TypeInvElim
<1>4. UNCHANGED <<alist, proposer, ballot, idefer, logs, ihole, rcache, call, lost>>
  BY DEF AckRedirect
<1>5. \/ \E why \in Failure : Stop(a, why, link) /\ UNCHANGED <<gen_high, prep, dparts, clist>>
      \/ /\ link' = Rest(a, x) /\ UNCHANGED <<status, peer, gen_high, dparts>>
         /\ prep' = prep \/ prep' = counted
         /\ clist' = clist \/ clist' = [clist EXCEPT ![a] = Append(@, k)]
      \/ Prepare(a, alist[a], peer[a], Rest(a, x), {}, "null_session") /\ clist' = clist
  <2> "redirect_rank" \in Failure /\ "redirect_target" \in Failure
    BY DEF Failure
  <2> QED BY DEF AckRedirect
<1> HIDE DEF k, counted
<1>6. ASSUME NEW why \in Failure, Stop(a, why, link),
             UNCHANGED <<gen_high, prep, dparts, clist>>
      PROVE  TypeInv'
  BY <1>4, <1>6, StopType, TypeInvElim, TypeInvIntro DEF TypeInv, logs
<1>7. ASSUME Prepare(a, alist[a], peer[a], Rest(a, x), {}, "null_session"), clist' = clist
      PROVE  TypeInv'
  <2>1. "null_session" \in Failure /\ alist[a] \in SUBSET Member /\ peer[a] \in SUBSET Member
    BY TypeInvElim DEF Failure
  <2>2. /\ status' \in [Member -> {"live", "ended"} \cup Failure]
        /\ peer' \in [Member -> SUBSET Member] /\ link' \in Links
        /\ prep' \in [Member -> Prep] /\ gen_high' \in [Member -> Nat]
        /\ dparts' \in [Member -> SUBSET Member]
    BY <1>1, <1>7, <2>1, PrepareType DEF TypeInv
  <2> QED BY <1>4, <1>7, <2>2, TypeInvElim, TypeInvIntro DEF logs
<1>8. ASSUME link' = Rest(a, x), UNCHANGED <<status, peer, gen_high, dparts>>,
             prep' = prep \/ prep' = counted,
             clist' = clist \/ clist' = [clist EXCEPT ![a] = Append(@, k)]
      PROVE  TypeInv'
  BY <1>1, <1>2, <1>3, <1>4, <1>8, TypeInvElim, TypeInvIntro DEF logs
<1> QED BY <1>5, <1>6, <1>7, <1>8

LEMMA RemovedType ==
  ASSUME NEW s \in Seq(Continuation), NEW n \in DOMAIN s
  PROVE  Removed(s, n) \in Seq(Continuation)
<1>1. Len(s) \in Nat /\ DOMAIN s = 1 .. Len(s) /\ \A j \in 1 .. Len(s) : s[j] \in Continuation
  OBVIOUS
<1>2. Len(s) - 1 \in Nat
  BY <1>1
<1>3. \A j \in 1 .. Len(s) - 1 : (IF j < n THEN s[j] ELSE s[j + 1]) \in Continuation
  BY <1>1
<1>4. Removed(s, n) \in [1 .. Len(s) - 1 -> Continuation]
  BY <1>3 DEF Removed
<1> QED BY <1>2, <1>4

LEMMA ContinueAckRedirectType ==
  ASSUME TypeInv, NEW a \in Member, ContinueAckRedirect(a)
  PROVE  TypeInv'
<1>1. PICK n \in DOMAIN clist[a] :
        /\ clist' = [clist EXCEPT ![a] = Removed(@, n)]
        /\ \/ Prepare(a, alist[a], peer[a], link, {}, "null_session")
           \/ UNCHANGED <<status, peer, gen_high, prep, dparts, link>>
  BY DEF ContinueAckRedirect
<1>2. clist' \in [Member -> Seq(Continuation)]
  <2>1. Removed(clist[a], n) \in Seq(Continuation)
    BY RemovedType, TypeInvElim
  <2> QED BY <1>1, <2>1, TypeInvElim
<1>3. /\ status' \in [Member -> {"live", "ended"} \cup Failure]
      /\ peer' \in [Member -> SUBSET Member] /\ link' \in Links
      /\ prep' \in [Member -> Prep] /\ gen_high' \in [Member -> Nat]
      /\ dparts' \in [Member -> SUBSET Member]
  <2>1. /\ "null_session" \in Failure /\ link \in Links
        /\ alist[a] \in SUBSET Member /\ peer[a] \in SUBSET Member
    BY TypeInvElim DEF Failure
  <2> QED BY <1>1, <2>1, PrepareType, TypeInvElim DEF TypeInv
<1> QED BY <1>2, <1>3, TypeInvElim, TypeInvIntro DEF ContinueAckRedirect, logs

-----------------------------------------------------------------------------
(* The ballot and the value of an entry that an acceptor has. *)
LEMMA AcceptedType ==
  ASSUME NEW e \in Entry, NEW b \in Ballot, NEW v \in Value
  PROVE  /\ [e EXCEPT !.bal = b, !.val = v] \in Entry
         /\ [e EXCEPT !.bal = b, !.val = v].bal = b
BY DEF Entry, BallotOrNone

LEMMA AbsentType == Absent \in Entry
BY DEF Absent, Entry, BallotOrNone, NoValue, Value, Kind

LEMMA AcceptDecreeType ==
  ASSUME TypeInv, NEW a \in Member, NEW x \in Member, NEW m \in Message,
         m.op = "decree", Rest(a, x) \in Links, AcceptDecree(a, x, m)
  PROVE  /\ status' \in [Member -> {"live", "ended"} \cup Failure]
         /\ peer' \in [Member -> SUBSET Member] /\ link' \in Links
         /\ ilist' \in Lists /\ Based(ilist') /\ istart' \in [Member -> Pointer]
<1> DEFINE e == ilist[a][m.inum]
           new == Accepted(Absent, m)
           over == Accepted(e, m)
           ok == [op |-> "accept", bal |-> m.bal, inum |-> m.inum]
           accepted == Send(Rest(a, x), a, {x}, ok)
<1>1. m.bal \in Ballot /\ m.inum \in Inum /\ m.val \in Value /\ m.bal # NoBallot
  BY MessageFields DEF Ballot, NoBallot
<1>2. ilist \in Lists /\ Based(ilist) /\ e \in Entry
  BY <1>1, TypeInvElim DEF Lists
<1>3. accepted \in Links
  <2>1. ok \in Message
    BY <1>1 DEF Message
  <2> HIDE DEF ok
  <2> QED BY <2>1, SendType
<1>4. new \in Entry /\ over \in Entry /\ new.bal = m.bal /\ over.bal = m.bal
  <2>1. new \in Entry /\ new.bal = m.bal
    BY <1>1, AbsentType DEF Absent, Entry, BallotOrNone, Accepted
  <2>2. over \in Entry /\ over.bal = m.bal
    <3> HIDE DEF e
    <3> QED BY <1>1, <1>2 DEF Entry, BallotOrNone, Accepted
  <2> QED BY <2>1, <2>2
<1>5. \/ /\ ilist' = [ilist EXCEPT ![a][m.inum] = new] /\ link' = accepted
         /\ Upstart(a, m.inum)
         /\ UNCHANGED <<status, peer>>
      \/ /\ ilist' = [ilist EXCEPT ![a][m.inum] = over] /\ link' = accepted
         /\ UNCHANGED <<status, peer, istart>>
      \/ (link' = accepted \/ link' = Rest(a, x)) /\ UNCHANGED <<status, peer, logs>>
      \/ Stop(a, "decree_value", link) /\ UNCHANGED logs
  BY DEF AcceptDecree
<1> HIDE DEF e, new, over, ok, accepted
<1>6. [ilist EXCEPT ![a][m.inum] = new] \in Lists /\ Based([ilist EXCEPT ![a][m.inum] = new])
  BY <1>1, <1>2, <1>4, PutType
<1>7. [ilist EXCEPT ![a][m.inum] = over] \in Lists /\ Based([ilist EXCEPT ![a][m.inum] = over])
  BY <1>1, <1>2, <1>4, PutType
<1>8. Upstart(a, m.inum) => istart' \in [Member -> Pointer]
  BY <1>1, UpstartType
<1>9. CASE Stop(a, "decree_value", link) /\ UNCHANGED logs
  BY <1>9, StopType, TypeInvElim DEF TypeInv, Failure, logs
<1>10. CASE (link' = accepted \/ link' = Rest(a, x)) /\ UNCHANGED <<status, peer, logs>>
  BY <1>3, <1>10, TypeInvElim DEF logs
<1> QED BY <1>3, <1>5, <1>6, <1>7, <1>8, <1>9, <1>10, TypeInvElim

LEMMA AckDecreeType ==
  ASSUME TypeInv, NEW a \in Member, NEW x \in Member, AckDecree(a, x)
  PROVE  TypeInv'
<1> DEFINE m == Msg(a, x)
           no == [op |-> "reject", bal |-> m.bal, inum |-> m.inum]
<1>1. m \in Message /\ m.op = "decree" /\ Rest(a, x) \in Links
  BY ReadType DEF AckDecree, TypeInv
<1>2. no \in Message
  <2>1. m.bal \in Ballot /\ m.inum \in Inum
    BY <1>1, MessageFields
  <2> QED BY <2>1 DEF Message
<1>3. UNCHANGED <<alist, proposer, ballots, defers, ihole, rcache, clist, call, lost>>
  BY DEF AckDecree
<1>4. \/ (link' = Rest(a, x) \/ link' = Send(Rest(a, x), a, {x}, no))
         /\ UNCHANGED <<status, peer, logs>>
      \/ \E why \in Failure : Stop(a, why, link) /\ UNCHANGED logs
      \/ AcceptDecree(a, x, m)
  <2> "decree_proposer" \in Failure /\ "target" \in Failure
    BY DEF Failure
  <2> QED BY DEF AckDecree
<1> HIDE DEF m, no
<1>5. CASE AcceptDecree(a, x, m)
  <2>1. /\ status' \in [Member -> {"live", "ended"} \cup Failure]
        /\ peer' \in [Member -> SUBSET Member] /\ link' \in Links
        /\ ilist' \in Lists /\ Based(ilist') /\ istart' \in [Member -> Pointer]
    BY <1>1, <1>5, AcceptDecreeType
  <2> QED BY <1>3, <2>1, TypeInvElim, TypeInvIntro DEF ballots, defers
<1>6. ASSUME NEW why \in Failure, Stop(a, why, link), UNCHANGED logs
      PROVE  TypeInv'
  BY <1>3, <1>6, StopType, TypeInvElim, TypeInvIntro DEF TypeInv, ballots, defers, logs
<1>7. ASSUME link' = Rest(a, x) \/ link' = Send(Rest(a, x), a, {x}, no),
             UNCHANGED <<status, peer, logs>>
      PROVE  TypeInv'
  <2>1. link' \in Links
    BY <1>1, <1>2, <1>7, SendType
  <2> QED BY <1>3, <1>7, <2>1, TypeInvElim, TypeInvIntro DEF ballots, defers, logs
<1> QED BY <1>4, <1>5, <1>6, <1>7

LEMMA AckAcceptType ==
  ASSUME TypeInv, NEW a \in Member, NEW x \in Member, AckAccept(a, x)
  PROVE  TypeInv'
<1> DEFINE m == Msg(a, x)
           e == ilist[a][m.inum]
           n == e.votes + 1
           won == ~e.committed /\ n >= Majority(alist[a])
           f == [e EXCEPT !.votes = n, !.opcode = IF won THEN "commit" ELSE @]
           c == [op |-> "commit", bal |-> e.bal, inum |-> m.inum, val |-> e.val]
<1>1. m \in Message /\ m.op = "accept" /\ Rest(a, x) \in Links
  BY ReadType DEF AckAccept, TypeInv
<1>2. m.inum \in Inum
  BY <1>1, MessageFields
<1>3. e \in Entry /\ ilist \in Lists /\ Based(ilist)
  BY <1>2, TypeInvElim DEF Lists
<1>4. UNCHANGED <<alist, proposer, ballots, defers, istart, ihole, rcache, clist, lost>>
  BY DEF AckAccept
<1>5. \/ \E why \in Failure : Stop(a, why, link) /\ UNCHANGED <<ilist, call>>
      \/ /\ e.bal # NoBallot
         /\ ilist' = [ilist EXCEPT ![a][m.inum] = f]
         /\ \/ link' = Send(Rest(a, x), a, peer[a], c) /\ Enter(a, m.inum)
            \/ link' = Rest(a, x) /\ UNCHANGED call
         /\ UNCHANGED <<status, peer>>
  <2> "accept_ballot" \in Failure /\ "instance" \in Failure
    BY DEF Failure
  <2> QED BY DEF AckAccept
<1>6. f \in Entry /\ f.bal = e.bal
  <2>1. n \in Nat
    BY <1>3 DEF Entry
  <2> HIDE DEF e, n, won
  <2> QED BY <1>3, <2>1 DEF Entry
<1>7. e.bal # NoBallot => c \in Message
  <2> HIDE DEF m, e
  <2> QED BY <1>2, <1>3 DEF Message, Entry, BallotOrNone
<1>8. Enter(a, m.inum) => call' \in [Member -> Call]
  <2>1. [fn |-> "commit", inum |-> m.inum] \in Call
    BY <1>2 DEF Call
  <2> HIDE DEF m
  <2> QED BY <2>1, TypeInvElim DEF Enter
<1>10. [ilist EXCEPT ![a][m.inum] = f] \in Lists /\ Based([ilist EXCEPT ![a][m.inum] = f])
  <2>1. f.bal = ilist[a][m.inum].bal
    BY <1>6
  <2> HIDE DEF m, f, e
  <2> QED BY <1>2, <1>3, <1>6, <2>1, PutType
<1> HIDE DEF m, e, n, won, f, c
<1>11. ASSUME NEW why \in Failure, Stop(a, why, link), UNCHANGED <<ilist, call>>
       PROVE  TypeInv'
  BY <1>4, <1>11, StopType, TypeInvElim, TypeInvIntro DEF TypeInv, ballots, defers
<1>12. ASSUME e.bal # NoBallot, ilist' = [ilist EXCEPT ![a][m.inum] = f],
              \/ link' = Send(Rest(a, x), a, peer[a], c) /\ Enter(a, m.inum)
              \/ link' = Rest(a, x) /\ UNCHANGED call,
              UNCHANGED <<status, peer>>
       PROVE  TypeInv'
  <2>1. link' \in Links /\ call' \in [Member -> Call]
    BY <1>1, <1>7, <1>8, <1>12, SendType, TypeInvElim
  <2> QED BY <1>4, <1>10, <1>12, <2>1, TypeInvElim, TypeInvIntro DEF ballots, defers
<1> QED BY <1>5, <1>11, <1>12

LEMMA CommitMessageType ==
  ASSUME TypeInv, NEW a \in Member, NEW x \in Member, NEW m \in Message,
         m.op \in {"commit", "recommit"}, Rest(a, x) \in Links,
         NEW bal \in BallotOrNone, bal = NoBallot => ilist[a][m.inum].bal = NoBallot,
         CommitMessage(a, x, m, bal)
  PROVE  TypeInv'
<1> DEFINE e == ilist[a][m.inum]
           absent == e.bal = NoBallot
           b == IF absent THEN m.bal ELSE bal
           f == [e EXCEPT !.bal = b, !.val = m.val]
<1>1. m.bal \in Ballot /\ m.inum \in Inum /\ m.val \in Value
  BY MessageFields
<1>2. e \in Entry /\ ilist \in Lists /\ Based(ilist)
  BY <1>1, TypeInvElim DEF Lists
<1>3. b \in Ballot /\ b # NoBallot
  BY <1>1 DEF BallotOrNone, Ballot, NoBallot
<1>4. f \in Entry /\ f.bal = b
  <2> HIDE DEF e, b
  <2> QED BY <1>1, <1>2, <1>3, AcceptedType
<1>5. /\ link' = Rest(a, x)
      /\ UNCHANGED <<status, sess, ballots, defers, ihole, rcache, clist, lost>>
      /\ \/ UNCHANGED <<logs, call>>
         \/ /\ ilist' = [ilist EXCEPT ![a][m.inum] = f]
            /\ Upstart(a, m.inum) \/ UNCHANGED istart
            /\ Enter(a, m.inum)
  BY DEF CommitMessage
<1>6. Enter(a, m.inum) => call' \in [Member -> Call]
  <2>1. [fn |-> "commit", inum |-> m.inum] \in Call
    BY <1>1 DEF Call
  <2> QED BY <2>1, TypeInvElim DEF Enter
<1> HIDE DEF e, absent, b, f
<1>7. [ilist EXCEPT ![a][m.inum] = f] \in Lists /\ Based([ilist EXCEPT ![a][m.inum] = f])
  BY <1>1, <1>2, <1>3, <1>4, PutType
<1>8. Upstart(a, m.inum) => istart' \in [Member -> Pointer]
  BY <1>1, UpstartType
<1>9. /\ ilist' \in Lists /\ Based(ilist') /\ istart' \in [Member -> Pointer]
      /\ call' \in [Member -> Call]
  BY <1>2, <1>5, <1>6, <1>7, <1>8, TypeInvElim DEF logs
<1> QED BY <1>5, <1>9, TypeInvElim, TypeInvIntro DEF sess, ballots, defers

LEMMA AckCommitType ==
  ASSUME TypeInv, NEW a \in Member, NEW x \in Member, AckCommit(a, x) \/ AckRecommit(a, x)
  PROVE  TypeInv'
<1> DEFINE m == Msg(a, x)
<1>1. m \in Message /\ m.op \in {"commit", "recommit"} /\ Rest(a, x) \in Links
  BY ReadType DEF AckCommit, AckRecommit, TypeInv
<1>2. m.inum \in Inum /\ m.bal \in Ballot
  BY <1>1, MessageFields
<1>3. m.bal \in BallotOrNone /\ m.bal # NoBallot
  BY <1>2 DEF BallotOrNone, Ballot, NoBallot
<1>4. ilist[a][m.inum].bal \in BallotOrNone
  <2>1. ilist[a][m.inum] \in Entry
    BY <1>2, TypeInvElim DEF Lists
  <2> QED BY <2>1, FieldType
<1>5. \/ CommitMessage(a, x, m, ilist[a][m.inum].bal)
      \/ CommitMessage(a, x, m, m.bal)
  BY DEF AckCommit, AckRecommit
<1> HIDE DEF m
<1> QED BY <1>1, <1>3, <1>4, <1>5, CommitMessageType

LEMMA AckRetryType ==
  ASSUME TypeInv, NEW a \in Member, NEW x \in Member, AckRetry(a, x)
  PROVE  TypeInv'
<1> DEFINE m == Msg(a, x)
           c == [op |-> "recommit", bal |-> m.bal, inum |-> m.inum, val |-> ilist[a][m.inum].val]
<1>1. m \in Message /\ m.op = "retry" /\ Rest(a, x) \in Links
  BY ReadType DEF AckRetry, TypeInv
<1>2. m.bal \in Ballot /\ m.inum \in Inum
  BY <1>1, MessageFields
<1>3. c \in Message
  <2>1. ilist[a][m.inum] \in Entry
    BY <1>2, TypeInvElim DEF Lists
  <2>2. ilist[a][m.inum].val \in Value
    BY <2>1, FieldType
  <2> HIDE DEF m
  <2> QED BY <1>2, <2>2 DEF Message
<1>4. \/ Stop(a, "instance", link)
      \/ (link' = Rest(a, x) \/ link' = Send(Rest(a, x), a, peer[a], c))
         /\ UNCHANGED <<status, peer>>
  BY DEF AckRetry
<1> HIDE DEF c
<1>5. /\ status' \in [Member -> {"live", "ended"} \cup Failure]
      /\ peer' \in [Member -> SUBSET Member] /\ link' \in Links
  <2>1. Send(Rest(a, x), a, peer[a], c) \in Links
    BY <1>1, <1>3, SendType
  <2>2. CASE Stop(a, "instance", link)
    BY <2>2, StopType, TypeInvElim DEF TypeInv, Failure
  <2> QED BY <1>1, <1>4, <2>1, <2>2, TypeInvElim
<1> QED BY <1>5, TypeInvElim, TypeInvIntro DEF AckRetry, ballots, defers, logs

(* An instance is sent again under its own header. *)
LEMMA InstanceMsgType ==
  ASSUME NEW e \in Entry, NEW i \in Inum, e.bal # NoBallot
  PROVE  InstanceMsg(e, i) \in Message
<1>1. e.bal \in Ballot /\ e.val \in Value /\ e.opcode \in {"decree", "commit"}
  BY DEF Entry, BallotOrNone
<1> QED BY <1>1 DEF InstanceMsg, Message

LEMMA AckRejectType ==
  ASSUME TypeInv, NEW a \in Member, NEW x \in Member, AckReject(a, x)
  PROVE  TypeInv'
<1> DEFINE m == Msg(a, x)
           e == ilist[a][m.inum]
           n == e.rejects + 1
           f == [e EXCEPT !.rejects = n]
           k == [op |-> "reject", who |-> e.val.arg, inum |-> m.inum]
           again == Send(Rest(a, x), a, peer[a], InstanceMsg(e, m.inum))
<1>1. m \in Message /\ m.op = "reject" /\ Rest(a, x) \in Links
  BY ReadType DEF AckReject, TypeInv
<1>2. m.inum \in Inum
  BY <1>1, MessageFields
<1>3. e \in Entry /\ ilist \in Lists /\ Based(ilist)
  BY <1>2, TypeInvElim DEF Lists
<1>4. UNCHANGED <<alist, proposer, ballots, defers, istart, ihole, rcache, call, lost>>
  BY DEF AckReject
<1>5. \/ \E why \in Failure : Stop(a, why, link) /\ UNCHANGED <<ilist, clist>>
      \/ /\ e.bal # NoBallot
         /\ ilist' = [ilist EXCEPT ![a][m.inum] = f]
         /\ link' = Rest(a, x) \/ link' = again
         /\ clist' = clist \/ clist' = [clist EXCEPT ![a] = Append(@, k)]
         /\ UNCHANGED <<status, peer>>
  <2> "reject_ballot" \in Failure /\ "instance" \in Failure /\ "reject_kind" \in Failure
      /\ "target" \in Failure
    BY DEF Failure
  <2> QED BY DEF AckReject
<1>6. [ilist EXCEPT ![a][m.inum] = f] \in Lists /\ Based([ilist EXCEPT ![a][m.inum] = f])
  <2>1. n \in Nat
    BY <1>3 DEF Entry
  <2>2. f \in Entry /\ f.bal = e.bal
    <3> HIDE DEF e, n
    <3> QED BY <1>3, <2>1 DEF Entry
  <2>3. f.bal = ilist[a][m.inum].bal
    BY <2>2
  <2> HIDE DEF m, f, e
  <2> QED BY <1>2, <1>3, <2>2, <2>3, PutType
<1>7. e.bal # NoBallot => again \in Links
  <2> HIDE DEF m, e
  <2>1. e.bal # NoBallot => InstanceMsg(e, m.inum) \in Message
    BY <1>2, <1>3, InstanceMsgType
  <2> QED BY <1>1, <2>1, SendType
<1>8. [clist EXCEPT ![a] = Append(@, k)] \in [Member -> Seq(Continuation)]
  <2>1. k \in Continuation
    <3> HIDE DEF m, e
    <3>1. e.val.arg \in Nat
      BY <1>3 DEF Entry, Value
    <3> QED BY <1>2, <3>1 DEF Continuation
  <2> HIDE DEF k
  <2> QED BY <2>1, TypeInvElim
<1> HIDE DEF m, e, n, f, k, again
<1>9. ASSUME NEW why \in Failure, Stop(a, why, link), UNCHANGED <<ilist, clist>>
      PROVE  TypeInv'
  BY <1>4, <1>9, StopType, TypeInvElim, TypeInvIntro DEF TypeInv, ballots, defers
<1>10. ASSUME e.bal # NoBallot, ilist' = [ilist EXCEPT ![a][m.inum] = f],
              link' = Rest(a, x) \/ link' = again,
              clist' = clist \/ clist' = [clist EXCEPT ![a] = Append(@, k)],
              UNCHANGED <<status, peer>>
       PROVE  TypeInv'
  <2>1. link' \in Links /\ clist' \in [Member -> Seq(Continuation)]
    BY <1>1, <1>7, <1>8, <1>10, TypeInvElim
  <2> QED BY <1>4, <1>6, <1>10, <2>1, TypeInvElim, TypeInvIntro DEF ballots, defers
<1> QED BY <1>5, <1>9, <1>10

LEMMA ContinueAckRejectType ==
  ASSUME TypeInv, NEW a \in Member, ContinueAckReject(a)
  PROVE  TypeInv'
<1> DEFINE Again(i) == [ilist[a][i] EXCEPT !.committed = FALSE, !.cached = FALSE,
                                          !.learned = FALSE, !.votes = 1, !.rejects = 0]
<1>1. PICK n \in DOMAIN clist[a] :
        LET k == clist[a][n] IN
        /\ clist' = [clist EXCEPT ![a] = Removed(@, n)]
        /\ \/ /\ k.inum \in Present(ilist[a])
              /\ ilist' = [ilist EXCEPT ![a][k.inum] = Again(k.inum)]
              /\ link' = Send(link, a, peer[a], InstanceMsg(Again(k.inum), k.inum))
           \/ UNCHANGED <<ilist, link>>
  BY DEF ContinueAckReject
<1>2. clist' \in [Member -> Seq(Continuation)]
  <2>1. Removed(clist[a], n) \in Seq(Continuation)
    BY RemovedType, TypeInvElim
  <2> QED BY <1>1, <2>1, TypeInvElim
<1>3. ASSUME NEW i \in Present(ilist[a])
      PROVE  /\ [ilist EXCEPT ![a][i] = Again(i)] \in Lists
             /\ Based([ilist EXCEPT ![a][i] = Again(i)])
             /\ Send(link, a, peer[a], InstanceMsg(Again(i), i)) \in Links
  <2>1. i \in Inum /\ ilist[a][i] \in Entry /\ ilist[a][i].bal # NoBallot
        /\ ilist \in Lists /\ Based(ilist) /\ link \in Links
    BY TypeInvElim DEF Present, Lists
  <2>2. Again(i) \in Entry /\ Again(i).bal = ilist[a][i].bal
    BY <2>1 DEF Entry
  <2> HIDE DEF Again
  <2>3. Again(i).bal # NoBallot
    BY <2>1, <2>2
  <2>4. InstanceMsg(Again(i), i) \in Message
    BY <2>1, <2>2, <2>3, InstanceMsgType
  <2> QED BY <2>1, <2>2, <2>3, <2>4, PutType, SendType
<1> HIDE DEF Again
<1>4. ilist' \in Lists /\ Based(ilist') /\ link' \in Links
  BY <1>1, <1>3, TypeInvElim
<1> QED BY <1>2, <1>4, TypeInvElim, TypeInvIntro
        DEF ContinueAckReject, sess, ballots, defers

-----------------------------------------------------------------------------
LEMMA DropType ==
  ASSUME TypeInv, NEW a \in Member, NEW y \in Member, Drop(a, y)
  PROVE  TypeInv'
<1> DEFINE pe == peer[a] \ {y}
           net == Unread(link, a, {y})
           np == Reelected(a, y, pe)
           gone == Unconnected(a, alist[a], pe)
<1>1. pe \in SUBSET Member /\ gone \in SUBSET Member /\ net \in Links
      /\ "null_session" \in Failure /\ alist[a] \in SUBSET Member
  BY UnreadType, TypeInvElim DEF Failure, Unconnected
<1>2. np \in Member /\ Part(a, y) \in Value
  <2>1. np \in Member
    <3> HIDE DEF pe
    <3> QED BY <1>1, ReelectedType
  <2> QED BY <1>1, <2>1, MemberNat DEF Part, Value, Kind
<1>3. /\ lost' \in Nat
      /\ UNCHANGED <<alist, ballot, ihole, rcache, clist>>
  BY TypeInvElim DEF Drop
<1>4. \/ /\ peer' = [peer EXCEPT ![a] = pe]
         /\ Submit(a, Part(a, y), pe, net)
         /\ UNCHANGED <<status, proposer, gen_high, prep, dparts>>
      \/ /\ peer' = [peer EXCEPT ![a] = pe] /\ link' = net
         /\ proposer' = [proposer EXCEPT ![a] = np]
         /\ UNCHANGED <<status, gen_high, prep, dparts, idefer, logs, call>>
      \/ /\ Prepare(a, alist[a], pe, net, gone, "null_session")
         /\ proposer' = [proposer EXCEPT ![a] = np]
         /\ UNCHANGED <<idefer, logs, call>>
  BY DEF Drop
<1> HIDE DEF pe, net, np, gone
<1>5. [peer EXCEPT ![a] = pe] \in [Member -> SUBSET Member]
      /\ [proposer EXCEPT ![a] = np] \in [Member -> Member]
  BY <1>1, <1>2, TypeInvElim
<1>6. CASE /\ peer' = [peer EXCEPT ![a] = pe]
           /\ Submit(a, Part(a, y), pe, net)
           /\ UNCHANGED <<status, proposer, gen_high, prep, dparts>>
  <2>1. /\ ilist' \in Lists /\ Based(ilist') /\ istart' \in [Member -> Pointer]
        /\ link' \in Links /\ call' \in [Member -> Call] /\ idefer' \in [Member -> Seq(Value)]
    BY <1>1, <1>2, <1>6, SubmitType
  <2> QED BY <1>3, <1>5, <1>6, <2>1, TypeInvElim, TypeInvIntro
<1>7. CASE /\ peer' = [peer EXCEPT ![a] = pe] /\ link' = net
           /\ proposer' = [proposer EXCEPT ![a] = np]
           /\ UNCHANGED <<status, gen_high, prep, dparts, idefer, logs, call>>
  BY <1>1, <1>3, <1>5, <1>7, TypeInvElim, TypeInvIntro DEF logs
<1>8. CASE /\ Prepare(a, alist[a], pe, net, gone, "null_session")
           /\ proposer' = [proposer EXCEPT ![a] = np]
           /\ UNCHANGED <<idefer, logs, call>>
  <2>1. /\ status' \in [Member -> {"live", "ended"} \cup Failure]
        /\ peer' \in [Member -> SUBSET Member] /\ link' \in Links
        /\ prep' \in [Member -> Prep] /\ gen_high' \in [Member -> Nat]
        /\ dparts' \in [Member -> SUBSET Member]
    BY <1>1, <1>8, PrepareType DEF TypeInv
  <2> QED BY <1>3, <1>5, <1>8, <2>1, TypeInvElim, TypeInvIntro DEF logs
<1> QED BY <1>4, <1>6, <1>7, <1>8

LEMMA LeaveType ==
  ASSUME TypeInv, NEW a \in Member, Leave(a)
  PROVE  TypeInv'
<1>1. Stop(a, "ended", link) /\ lost' \in Nat
  BY TypeInvElim DEF Leave
<1> QED BY <1>1, StopType, TypeInvElim, TypeInvIntro DEF Leave, TypeInv, ballots, defers, logs

LEMMA StepType ==
  ASSUME TypeInv, NEW a \in Member, Step(a)
  PROVE  TypeInv'
BY CommitType, LearnType, LearnEndType, RedecreeType, EndPrepareType, DrainType DEF Step

LEMMA DispatchType ==
  ASSUME TypeInv, NEW a \in Member, NEW x \in Member, Dispatch(a, x)
  PROVE  TypeInv'
BY ProposerAckRequestType, AcceptorAckRequestType, AckRefuseType, AckRetrieveType,
   AckResendType, AckPrepareType, AckPromiseType, AckRedirectType, AckDecreeType,
   AckAcceptType, AckRejectType, AckCommitType, AckRetryType DEF Dispatch

LEMMA NextType == TypeInv /\ [Next]_vars => TypeInv'
<1> SUFFICES ASSUME TypeInv, [Next]_vars PROVE TypeInv'
  OBVIOUS
<1>1. CASE UNCHANGED vars
  BY <1>1, TypeInvElim, TypeInvIntro DEF vars
<1>2. CASE Next
  <2>1. PICK a \in Member :
          \/ Step(a) \/ ContinueAckRedirect(a) \/ ContinueAckReject(a) \/ Leave(a)
          \/ \E v \in Chat : Request(a, v)
          \/ \E x \in Member : Dispatch(a, x) \/ Drop(a, x)
    BY <1>2, Zenon DEF Next
  <2> QED BY <2>1, StepType, ContinueAckRedirectType, ContinueAckRejectType, LeaveType,
             RequestType, DispatchType, DropType
<1> QED BY <1>1, <1>2

(***************************************************************************)
(* Every variable keeps its type, for any set of members and any bounds:   *)
(* no handler follows an instance number that is out of the list's range,  *)
(* takes the head of an empty queue, or elects a proposer from nobody.     *)
(***************************************************************************)
THEOREM TypeCorrect == Spec => []TypeOK
<1>1. TypeInv => TypeOK
  BY DEF TypeInv
<1> QED BY InitType, NextType, <1>1, PTL DEF Spec

=============================================================================
