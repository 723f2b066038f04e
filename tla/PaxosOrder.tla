------------------------------ MODULE PaxosOrder ------------------------------
(***************************************************************************)
(* Theorems about what the members learn: the broadcast in one order that  *)
(* a session is, and what becomes of the acceptors that were lost.         *)
(***************************************************************************)
EXTENDS PaxosHole

(* What was committed is not changed, and nothing is learned twice.        *)
CommittedKept ==
  \A a \in Member : /\ ihole'[a] \in {ihole[a], ihole[a] + 1}
                     /\ \A i \in Inum : ilist[a][i].committed => ilist'[a][i].val = ilist[a][i].val

LEMMA StepLearns ==
  ASSUME TypeInv, HoleInv, NEW a \in Member, Alone(a), Learns(a)
  PROVE  CommittedKept
<1> SUFFICES ASSUME NEW b \in Member
             PROVE  /\ ihole'[b] \in {ihole[b], ihole[b] + 1}
                    /\ \A i \in Inum : ilist[b][i].committed => ilist'[b][i].val = ilist[b][i].val
  BY DEF CommittedKept
<1>1. CASE b # a
  BY <1>1, OwnSame
<1>2. CASE b = a
  <2>1. \A i \in Inum : ilist[a][i].committed => ilist[a][i].bal # NoBallot
    BY DEF HoleInv, LogInv
  <2> QED BY <1>2, <2>1 DEF Learns
<1> QED BY <1>1, <1>2

(***************************************************************************)
(* Nothing is taken back: the value of an instance stays once it has       *)
(* committed, though its other fields start over when a part is decreed    *)
(* again, and the hole moves on by one instance at a time.                 *)
(***************************************************************************)
THEOREM CommittedStays == Spec /\ PreparedStays => [][CommittedKept]_vars
<1>1. TypeInv /\ RoleInv /\ HoleInv /\ [Next]_vars /\ [Stays]_vars => [CommittedKept]_vars
  BY NextHole, StepLearns DEF HoleKept
<1>2. PreparedStays <=> [][Stays]_vars
  BY PTL DEF PreparedStays, Stays
<1> QED BY <1>1, <1>2, HoleInvariant, PTL DEF Spec

-----------------------------------------------------------------------------
(* The implementation of TotalOrder. *)

LEMMA SeenFacts ==
  ASSUME NEW a \in Member
  PROVE  /\ Order!Places(a) = {i \in Inum : Base < i /\ i < ihole[a]}
         /\ \A i \in Order!Places(a) : [b \in Member |-> SeenBy(b)][a][i] = ilist[a][i].val
BY DEF Order!Places, SeenBy

LEMMA LearnedSame ==
  ASSUME HoleInv, NEW a \in Member, Learns(a), NEW i \in Inum, i < ihole[a]
  PROVE  ilist'[a][i].val = ilist[a][i].val
<1>1. ilist[a][i].committed /\ ilist[a][i].bal # NoBallot
  BY DEF HoleInv, LogInv
<1> QED BY <1>1 DEF Learns

(* A hole that stays leaves everything as it is. *)
LEMMA SameSeen ==
  ASSUME TypeInv, HoleInv, NEW a \in Member, Alone(a), Learns(a), ihole'[a] = ihole[a]
  PROVE  [b \in Member |-> SeenBy(b)]' = [b \in Member |-> SeenBy(b)]
<1> SUFFICES ASSUME NEW b \in Member PROVE SeenBy(b)' = SeenBy(b)
  OBVIOUS
<1>1. CASE b # a
  <2>1. ilist'[b] = ilist[b] /\ ihole'[b] = ihole[b]
    BY <1>1, OwnSame
  <2> QED BY <2>1 DEF SeenBy
<1>2. CASE b = a
  BY <1>2, LearnedSame DEF SeenBy
<1> QED BY <1>1, <1>2

(* The instance that is learned is the next one. *)
LEMMA GrownSeen ==
  ASSUME TypeInv, TypeInv', HoleInv, NEW a \in Member, Alone(a), Learns(a), ihole'[a] = ihole[a] + 1
  PROVE  /\ ihole[a] \in Inum /\ Base < ihole[a]
         /\ Order!Follows(a, ihole[a])
         /\ [b \in Member |-> SeenBy(b)]' =
              [[b \in Member |-> SeenBy(b)] EXCEPT
                 ![a] = Order!With(@, ihole[a], ilist'[a][ihole[a]].val)]
<1> PICK h : h = ihole[a]
  OBVIOUS
<1>1. ihole[a] \in Base + 1 .. MaxInum + 1
  BY TypeInvElim
<1>2. ihole'[a] \in Base + 1 .. MaxInum + 1
  BY DEF TypeInv, TypeOK
<1>3. h \in Inum /\ h \in Nat /\ Base < h
  BY <1>1, <1>2, BoundAssumption DEF Inum
<1>4. \A i \in Inum : i \in Nat /\ Base <= i
  BY BaseInum, BoundAssumption DEF Inum
<1>5. Order!Follows(a, h)
  <2>1. Order!Places(a) = {i \in Inum : Base < i /\ i < h}
    BY SeenFacts
  <2>2. h \notin Order!Places(a)
    BY <1>3, <2>1
  <2>3. CASE h = Base + 1
    <3>1. Order!Places(a) = {}
      BY <1>4, <2>1, <2>3, BoundAssumption
    <3> QED BY <3>1 DEF Order!Follows
  <2>4. CASE h # Base + 1
    <3>1. h - 1 \in Inum /\ Base < h - 1 /\ h - 1 < h
      BY <1>3, <2>4, BoundAssumption DEF Inum
    <3> QED BY <2>1, <2>2, <3>1 DEF Order!Follows
  <2> QED BY <2>3, <2>4
<1>6. ASSUME NEW b \in Member \ {a} PROVE SeenBy(b)' = SeenBy(b)
  <2>1. ilist'[b] = ilist[b] /\ ihole'[b] = ihole[b]
    BY OwnSame
  <2> QED BY <2>1 DEF SeenBy
<1>7. SeenBy(a)' = Order!With(SeenBy(a), h, ilist'[a][h].val)
  <2>1. {i \in Inum : Base < i /\ i < h + 1} = {i \in Inum : Base < i /\ i < h} \cup {h}
    <3>1. \A i \in Inum : i < h + 1 <=> i < h \/ i = h
      BY <1>3, <1>4
    <3> QED BY <1>3, <3>1
  <2>2. SeenBy(a)' = [i \in {j \in Inum : Base < j /\ j < h + 1} |-> ilist'[a][i].val]
    BY DEF SeenBy
  <2>3. \A i \in {j \in Inum : Base < j /\ j < h} : ilist'[a][i].val = ilist[a][i].val /\ i # h
    <3> SUFFICES ASSUME NEW i \in Inum, Base < i, i < h
                 PROVE  ilist'[a][i].val = ilist[a][i].val /\ i # h
      OBVIOUS
    <3>1. i # h
      BY <1>3, <1>4
    <3>2. i < ihole[a]
      OBVIOUS
    <3>3. ilist'[a][i].val = ilist[a][i].val
      BY <3>2, LearnedSame
    <3> QED BY <3>1, <3>3
  <2>4. SeenBy(a) = [i \in {j \in Inum : Base < j /\ j < h} |-> ilist[a][i].val]
    BY DEF SeenBy
  <2>5. Order!With(SeenBy(a), h, ilist'[a][h].val) =
          [i \in {j \in Inum : Base < j /\ j < h} \cup {h} |->
             IF i = h THEN ilist'[a][h].val ELSE ilist[a][i].val]
    BY <2>3, <2>4 DEF Order!With
  <2> QED BY <2>1, <2>2, <2>3, <2>5
<1>8. [b \in Member |-> SeenBy(b)]' =
        [[b \in Member |-> SeenBy(b)] EXCEPT ![a] = Order!With(@, h, ilist'[a][h].val)]
  BY <1>6, <1>7
<1> QED BY <1>3, <1>5, <1>8

(* It is what anyone who has learned it has learned. *)
LEMMA OrderStep ==
  ASSUME TypeInv, TypeInv', HoleInv, HoleKept, Order!OneOrder'
  PROVE  [Order!Next]_[a \in Member |-> SeenBy(a)]
<1> PICK a \in Member : Alone(a) /\ Learns(a)
  BY DEF HoleKept
<1> PICK h : h = ihole[a]
  OBVIOUS
<1>1. CASE ihole'[a] = ihole[a]
  BY <1>1, SameSeen
<1>2. CASE ihole'[a] = ihole[a] + 1
  <2> PICK v : v = ilist'[a][h].val
    OBVIOUS
  <2>1. /\ h \in Inum /\ Base < h /\ Order!Follows(a, h)
        /\ [b \in Member |-> SeenBy(b)]' =
             [[b \in Member |-> SeenBy(b)] EXCEPT ![a] = Order!With(@, h, v)]
    BY <1>2, GrownSeen
  <2>2. h \in Nat
    BY HoleNat
  <2>3. h \in Order!Places(a)' /\ [b \in Member |-> SeenBy(b)]'[a][h] = v
    <3>1. h < ihole'[a]
      BY <1>2, <2>2
    <3> QED BY <2>1, <3>1 DEF Order!Places, SeenBy
  <2>4. h \notin Order!Places(a)
    BY <2>2, SeenFacts
  <2>5. Order!Fits(h, v)
    <3> SUFFICES ASSUME NEW q \in Member, h \in Order!Places(q)
                 PROVE  [b \in Member |-> SeenBy(b)][q][h] = v
      BY DEF Order!Fits
    <3>1. q # a
      BY <2>4
    <3>2. SeenBy(q)' = SeenBy(q)
      BY <3>1, OwnSame DEF SeenBy
    <3>3. h \in Order!Places(q)' /\ [b \in Member |-> SeenBy(b)]'[q][h] = SeenBy(q)[h]
      BY <3>2 DEF Order!Places
    <3> QED BY <2>3, <3>3 DEF Order!OneOrder
  <2>6. Order!Learn(a, h, v)
    BY <2>1, <2>5 DEF Order!Learn
  <2> QED BY <2>3, <2>4, <2>6 DEF Order!Next, Order!Places
<1> QED BY <1>1, <1>2 DEF Learns

LEMMA OrderInit == Init => Order!Init
<1> SUFFICES ASSUME Init PROVE [a \in Member |-> SeenBy(a)] = [a \in Member |-> [n \in {} |-> n]]
  BY DEF Order!Init
<1> SUFFICES ASSUME NEW a \in Member PROVE SeenBy(a) = [n \in {} |-> n]
  OBVIOUS
<1>1. ihole[a] = Base + 1 /\ \A i \in Inum : i \in Nat
  BY BaseInum DEF Init
<1>2. {i \in Inum : Base < i /\ i < ihole[a]} = {}
  BY <1>1, BoundAssumption
<1> QED BY <1>2 DEF SeenBy

(***************************************************************************)
(* TotalOrder keeps what its name says, whatever it is implemented by.     *)
(***************************************************************************)
LEMMA OrderKept == InTotalOrder => []Order!OneOrder
<1>1. Order!Init => Order!OneOrder
  BY DEF Order!Init, Order!OneOrder, Order!Places
<1>2. ASSUME Order!OneOrder, [Order!Next]_[a \in Member |-> SeenBy(a)]
      PROVE  Order!OneOrder'
  <2>1. CASE UNCHANGED [a \in Member |-> SeenBy(a)]
    BY <1>2, <2>1 DEF Order!OneOrder, Order!Places
  <2>2. ASSUME NEW r \in Member, NEW n, NEW v, Order!Learn(r, n, v)
        PROVE  Order!OneOrder'
    <3>1. PICK s : s = [a \in Member |-> SeenBy(a)]
      OBVIOUS
    <3>2. PICK t : t = [a \in Member |-> SeenBy(a)]'
      OBVIOUS
    <3>3. /\ t[r] = Order!With(s[r], n, v)
          /\ \A q \in Member \ {r} : t[q] = s[q]
      BY <2>2, <3>1, <3>2 DEF Order!Learn
    <3>4. \A q \in Member : n \in DOMAIN s[q] => s[q][n] = v
      BY <2>2, <3>1 DEF Order!Learn, Order!Fits, Order!Places
    <3>5. \A q, p \in Member : \A k \in DOMAIN s[q] \cap DOMAIN s[p] : s[q][k] = s[p][k]
      BY <1>2, <3>1 DEF Order!OneOrder, Order!Places
    <3>6. /\ DOMAIN t[r] = DOMAIN s[r] \cup {n}
          /\ \A k \in DOMAIN t[r] : t[r][k] = IF k = n THEN v ELSE s[r][k]
      BY <3>3 DEF Order!With
    <3>7. \A q, p \in Member : \A k \in DOMAIN t[q] \cap DOMAIN t[p] : t[q][k] = t[p][k]
      BY <3>3, <3>4, <3>5, <3>6
    <3> QED BY <3>2, <3>7 DEF Order!OneOrder, Order!Places
  <2> QED BY <1>2, <2>1, <2>2 DEF Order!Next
<1> QED BY <1>1, <1>2, PTL DEF InTotalOrder, Order!Spec

(* What was learned was committed. *)
LEMMA AgreedOrder == HoleInv /\ Agreement => Order!OneOrder
<1> SUFFICES ASSUME HoleInv, Agreement, NEW q \in Member, NEW r \in Member,
                    NEW n \in Order!Places(q) \cap Order!Places(r)
             PROVE  [a \in Member |-> SeenBy(a)][q][n] = [a \in Member |-> SeenBy(a)][r][n]
  BY DEF Order!OneOrder
<1>1. n \in Inum /\ n < ihole[q] /\ n < ihole[r]
  BY SeenFacts
<1>2. ilist[q][n].committed /\ ilist[r][n].committed
  BY <1>1 DEF HoleInv, LogInv
<1> QED BY <1>1, <1>2, SeenFacts DEF Agreement

(***************************************************************************)
(* What paxos_learn() hands to the clients of all members is a reliable    *)
(* broadcast in one total order exactly as long as no two of them have     *)
(* learned different decrees under one number: no member, whatever is      *)
(* lost, leaves out an instance, repeats one, or takes one back.           *)
(***************************************************************************)
THEOREM OrderIsAgreement == Spec /\ PreparedStays => (InTotalOrder <=> []Order!OneOrder)
<1> DEFINE Inv == TypeInv /\ RoleInv /\ HoleInv
<1>1. Init => Order!Init
  BY OrderInit
<1>2. Inv /\ Inv' /\ Order!OneOrder' /\ [Next]_vars /\ [Stays]_vars
        => [Order!Next]_[a \in Member |-> SeenBy(a)]
  BY NextHole, OrderStep
<1>3. PreparedStays <=> [][Stays]_vars
  BY PTL DEF PreparedStays, Stays
<1>4. Spec /\ [][Stays]_vars => []Inv
  BY HoleInvariant
<1> HIDE DEF Inv
<1>5. Spec /\ PreparedStays /\ []Order!OneOrder => InTotalOrder
  BY <1>1, <1>2, <1>3, <1>4, PTL DEF Spec, InTotalOrder, Order!Spec
<1> QED BY <1>5, OrderKept, PTL

(***************************************************************************)
(* The broadcast follows from what the rest of Paxos is for: as long as no *)
(* two members commit different values for an instance, every step of the  *)
(* handlers is a step of TotalOrder, or changes nothing that is learned.   *)
(***************************************************************************)
THEOREM OrderFollowsAgreement == Spec /\ PreparedStays /\ []Agreement => InTotalOrder
<1>1. PreparedStays <=> [][Stays]_vars
  BY PTL DEF PreparedStays, Stays
<1> QED BY <1>1, HoleInvariant, AgreedOrder, OrderIsAgreement, PTL

-----------------------------------------------------------------------------
(***************************************************************************)
(* What a proposer does about an acceptor on its list that it has lost:    *)
(* its part or kill waits for the end of the prepare, or is decreed under  *)
(* the ballot of the proposer and not learned yet.                         *)
(***************************************************************************)
Purges(v, y) == v.kind \in {"part", "kill"} /\ v.arg = y

LostBy(a) == alist[a] \ (peer[a] \cup {a})

Queued(a, y) == y \in dparts[a] \/ \E n \in DOMAIN idefer[a] : Purges(idefer[a][n], y)

Underway(a, y) ==
  /\ ~Preparing(a)
  /\ \E i \in Inum : i >= ihole[a] /\ ilist[a][i].bal = ballot[a] /\ Purges(ilist[a][i].val, y)

PurgeInv(a) ==
  status[a] = "live" /\ IsProposer(a) => \A y \in LostBy(a) : Queued(a, y) \/ Underway(a, y)

LEMMA AllKeepLead ==
  ASSUME TypeInv, HoleKept, NEW b \in Member
  PROVE  KeepsLead(b) /\ Learns(b)
<1>1. PICK a \in Member : Alone(a) /\ KeepsLead(a) /\ Learns(a)
  BY DEF HoleKept
<1>2. CASE b = a
  BY <1>1, <1>2
<1>3. CASE b # a
  <2>1. /\ status'[b] = status[b] /\ proposer'[b] = proposer[b] /\ prep'[b] = prep[b]
        /\ ballot'[b] = ballot[b] /\ ilist'[b] = ilist[b] /\ ihole'[b] = ihole[b]
    BY <1>1, <1>3, OwnSame
  <2>2. Leads(b)' <=> Leads(b)
    BY <2>1 DEF Leads, IsProposer, Preparing
  <2> QED BY <2>1, <2>2 DEF KeepsLead, Learns
<1> QED BY <1>2, <1>3

(* What is decreed stays under way until it is learned. *)
LEMMA UnderwayStays ==
  ASSUME TypeInv, Stays, NEW b \in Member, KeepsLead(b), status'[b] = "live", IsProposer(b),
         NEW y, Underway(b, y),
         \/ ihole'[b] = ihole[b]
         \/ ihole'[b] = ihole[b] + 1 /\ ~Purges(ilist[b][ihole[b]].val, y)
  PROVE  Underway(b, y)'
<1>1. status[b] = "live" /\ ~Preparing(b) /\ Leads(b)
  BY DEF KeepsLead, Underway, Leads
<1>2. ~Preparing(b)'
  BY <1>1 DEF Stays, Preparing
<1>3. PICK i \in Inum : i >= ihole[b] /\ ilist[b][i].bal = ballot[b] /\ Purges(ilist[b][i].val, y)
  BY DEF Underway
<1>4. ilist'[b][i].bal = ballot'[b] /\ Purges(ilist'[b][i].val, y)
  BY <1>1, <1>3 DEF KeepsLead
<1>5. i >= ihole'[b]
  <2>1. i \in Nat /\ ihole[b] \in Nat
    BY BaseInum, HoleNat
  <2>2. ihole'[b] = ihole[b] + 1 => i # ihole[b]
    BY <1>3, <2>1
  <2> QED BY <1>3, <2>1, <2>2
<1> QED BY <1>2, <1>4, <1>5 DEF Underway

(* A member that neither learns nor loses anyone. *)
LEMMA SamePurge ==
  ASSUME TypeInv, Stays, NEW b \in Member, KeepsLead(b), PurgeInv(b),
         peer'[b] = peer[b] \/ status'[b] # "live",
         alist'[b] = alist[b], proposer'[b] = proposer[b], ihole'[b] = ihole[b],
         \A y \in Member : Queued(b, y) => Queued(b, y)' \/ Underway(b, y)'
  PROVE  PurgeInv(b)'
<1> SUFFICES ASSUME status'[b] = "live", IsProposer(b)', NEW y \in LostBy(b)'
             PROVE  Queued(b, y)' \/ Underway(b, y)'
  BY DEF PurgeInv
<1>1. status[b] = "live" /\ IsProposer(b) /\ y \in LostBy(b) /\ y \in Member
  <2>1. alist[b] \in SUBSET Member
    BY TypeInvElim
  <2> QED BY <2>1 DEF KeepsLead, IsProposer, LostBy
<1>2. CASE Queued(b, y)
  BY <1>1, <1>2
<1>3. CASE Underway(b, y)
  BY <1>1, <1>3, UnderwayStays
<1> QED BY <1>1, <1>2, <1>3 DEF PurgeInv

LEMMA PlainPurge ==
  ASSUME TypeInv, HoleKept, Stays, \A b \in Member : PurgeInv(b),
         UNCHANGED <<alist, proposer, dparts, idefer, ihole>>,
         \A b \in Member : peer'[b] = peer[b] \/ status'[b] # "live"
  PROVE  \A b \in Member : PurgeInv(b)'
<1> SUFFICES ASSUME NEW b \in Member PROVE PurgeInv(b)'
  OBVIOUS
<1>1. \A y \in Member : Queued(b, y) => Queued(b, y)'
  BY DEF Queued
<1> QED BY <1>1, AllKeepLead, SamePurge

LEMMA StopPurge ==
  ASSUME TypeInv, HoleKept, Stays, \A b \in Member : PurgeInv(b), NEW a \in Member,
         NEW why \in {"ended"} \cup Failure, NEW net, Stop(a, why, net),
         UNCHANGED <<alist, proposer, dparts, idefer, ihole>>
  PROVE  \A b \in Member : PurgeInv(b)'
<1>1. "live" \notin {"ended"} \cup Failure
  BY DEF Failure
<1>2. status'[a] = why /\ \A b \in Member \ {a} : peer'[b] = peer[b]
  BY DEF Stop, TypeInv, TypeOK
<1>3. \A b \in Member : peer'[b] = peer[b] \/ status'[b] # "live"
  BY <1>1, <1>2
<1> QED BY <1>3, PlainPurge

(* A prepare over one that is under way. *)
LEMMA AgainPurge ==
  ASSUME TypeInv, HoleKept, Stays, \A b \in Member : PurgeInv(b), NEW a \in Member,
         NEW al, NEW net, NEW ended \in {"ended"} \cup Failure,
         Prepare(a, al, peer[a], net, {}, ended),
         UNCHANGED <<alist, proposer, idefer, ihole>>
  PROVE  \A b \in Member : PurgeInv(b)'
<1>1. CASE Stop(a, ended, net) /\ UNCHANGED dparts
  BY <1>1, StopPurge
<1>2. CASE peer' = [peer EXCEPT ![a] = peer[a]] /\ dparts' = [dparts EXCEPT ![a] = @ \cup {}]
  <2>1. peer' = peer /\ dparts' = dparts
    BY <1>2 DEF TypeInv, TypeOK
  <2> QED BY <2>1, PlainPurge
<1> QED BY <1>1, <1>2 DEF Prepare

(* proposer_decree(): the value is under way. *)
LEMMA DecreePurge ==
  ASSUME TypeInv, HoleInv, NEW a \in Member, ~Preparing(a), NEW v, NEW pe, NEW net,
         ProposerDecree(a, v, pe, net), UNCHANGED <<ballot, prep, ihole>>, NEW y, Purges(v, y)
  PROVE  Underway(a, y)'
<1> DEFINE i == Last(ilist[a]) + 1
           alone == Majority(alist[a]) = 1
           e == [Decreed(ballot[a], v) EXCEPT !.opcode = IF alone THEN "commit" ELSE @]
<1>1. i <= MaxInum /\ ilist' = [ilist EXCEPT ![a][i] = e]
  BY DEF ProposerDecree
<1>2. i \in Inum /\ i >= ihole[a]
  <2>1. i \in Inum
    BY <1>1, LastType, BoundAssumption DEF Inum
  <2>2. LogInv(a)
    BY DEF HoleInv
  <2> QED BY <2>1, <2>2, Listed
<1>3. e.bal = ballot[a] /\ e.val = v
  BY DEF Decreed, Absent
<1> HIDE DEF e, i
<1>4. ilist'[a][i] = e
  BY <1>1, <1>2, TypeInvElim DEF Lists
<1>5. ~Preparing(a)'
  BY DEF Preparing
<1> QED BY <1>2, <1>3, <1>4, <1>5 DEF Underway

LEMMA SubmitPurge ==
  ASSUME TypeInv, HoleInv, NEW a \in Member, NEW v, NEW pe, NEW net, Submit(a, v, pe, net),
         UNCHANGED <<ballot, prep, ihole, dparts>>
  PROVE  /\ \A b \in Member : \A y : Queued(b, y) => Queued(b, y)'
         /\ \A y : Purges(v, y) => Queued(a, y)' \/ Underway(a, y)'
<1>1. CASE Preparing(a)
  <2>1. idefer' = [idefer EXCEPT ![a] = Append(@, v)]
    BY <1>1 DEF Submit
  <2>2. idefer[a] \in Seq(Value) /\ idefer'[a] = Append(idefer[a], v)
        /\ \A b \in Member \ {a} : idefer'[b] = idefer[b]
    BY <2>1 DEF TypeInv, TypeOK
  <2>3. PICK s : s = idefer[a]
    OBVIOUS
  <2>4. /\ DOMAIN Append(s, v) = 1 .. Len(s) + 1 /\ DOMAIN s = 1 .. Len(s) /\ Len(s) \in Nat
        /\ Append(s, v)[Len(s) + 1] = v
        /\ \A n \in DOMAIN s : n \in DOMAIN Append(s, v) /\ Append(s, v)[n] = s[n]
    BY <2>2, <2>3
  <2>5. \A y : Queued(a, y) => Queued(a, y)'
    BY <2>2, <2>3, <2>4 DEF Queued
  <2>6. \A b \in Member \ {a} : \A y : Queued(b, y) => Queued(b, y)'
    BY <2>2 DEF Queued
  <2>7. \A y : Purges(v, y) => Queued(a, y)'
    <3>1. Len(s) + 1 \in DOMAIN idefer'[a] /\ idefer'[a][Len(s) + 1] = v
      BY <2>2, <2>3, <2>4
    <3> QED BY <3>1 DEF Queued
  <2> QED BY <2>5, <2>6, <2>7
<1>2. CASE ~Preparing(a)
  <2>1. ProposerDecree(a, v, pe, net) /\ idefer' = idefer
    BY <1>2 DEF Submit
  <2>2. \A b \in Member : \A y : Queued(b, y) => Queued(b, y)'
    BY <2>1 DEF Queued
  <2> QED BY <1>2, <2>1, <2>2, DecreePurge
<1> QED BY <1>1, <1>2

LEMMA RequestPurge ==
  ASSUME TypeInv, HoleInv, HoleKept, Stays, \A b \in Member : PurgeInv(b), NEW a \in Member,
         NEW v, NEW net, Submit(a, v, peer[a], net),
         UNCHANGED <<alist, proposer, peer, ballot, prep, ihole, dparts>>
  PROVE  \A b \in Member : PurgeInv(b)'
<1>1. \A b \in Member : \A y : Queued(b, y) => Queued(b, y)'
  BY SubmitPurge
<1> QED BY <1>1, AllKeepLead, SamePurge

LEMMA DrainPurge ==
  ASSUME TypeInv, HoleInv, HoleKept, Stays, \A b \in Member : PurgeInv(b), NEW a \in Member, Drain(a)
  PROVE  \A b \in Member : PurgeInv(b)'
<1> DEFINE x == Least(dparts[a])
           v == IF x < a THEN Kill(a, x) ELSE Part(a, x)
<1>1. /\ ~Preparing(a)
      /\ UNCHANGED <<alist, proposer, peer, ballot, prep, ihole>>
  BY DEF Drain, Draining, sess, ballots
<1>2. ASSUME NEW y \in Member, Queued(a, y) PROVE Queued(a, y)' \/ Underway(a, y)'
  <2>1. CASE dparts[a] # {}
    <3>1. /\ ProposerDecree(a, v, peer[a], link)
          /\ dparts' = [dparts EXCEPT ![a] = @ \ {x}] /\ idefer' = idefer
      BY <2>1 DEF Drain
    <3>2. dparts'[a] = dparts[a] \ {x}
      BY <3>1 DEF TypeInv, TypeOK
    <3>3. Purges(v, x)
      BY DEF Purges, Kill, Part
    <3> HIDE DEF x, v
    <3>4. CASE y = x
      BY <1>1, <3>1, <3>3, <3>4, DecreePurge
    <3>5. CASE y # x
      BY <1>2, <3>1, <3>2, <3>5 DEF Queued
    <3> QED BY <3>4, <3>5
  <2>2. CASE dparts[a] = {}
    <3>1. /\ ProposerDecree(a, Head(idefer[a]), peer[a], link)
          /\ idefer' = [idefer EXCEPT ![a] = Tail(@)] /\ dparts' = dparts /\ idefer[a] # <<>>
      BY <2>2 DEF Drain, Draining
    <3>2. idefer[a] \in Seq(Value) /\ idefer'[a] = Tail(idefer[a])
      BY <3>1 DEF TypeInv, TypeOK
    <3>3. PICK s : s = idefer[a]
      OBVIOUS
    <3>4. PICK n \in DOMAIN s : Purges(s[n], y)
      BY <1>2, <2>2, <3>3 DEF Queued
    <3>5. s \in Seq(Value) /\ s # <<>> /\ n \in 1 .. Len(s) /\ Len(s) \in Nat
      BY <3>1, <3>2, <3>3, <3>4
    <3>6. CASE n = 1
      <4>1. Purges(Head(idefer[a]), y)
        BY <3>3, <3>4, <3>5, <3>6
      <4> QED BY <1>1, <3>1, <4>1, DecreePurge
    <3>7. CASE n # 1
      <4>1. n - 1 \in DOMAIN Tail(s) /\ Tail(s)[n - 1] = s[n]
        BY <3>5, <3>7
      <4> QED BY <3>2, <3>3, <3>4, <4>1 DEF Queued
    <3> QED BY <3>6, <3>7
  <2> QED BY <2>1, <2>2
<1>3. ASSUME NEW b \in Member, b # a, NEW y \in Member, Queued(b, y) PROVE Queued(b, y)'
  <2>1. dparts'[b] = dparts[b] /\ idefer'[b] = idefer[b]
    BY <1>3 DEF Drain, TypeInv, TypeOK
  <2> QED BY <1>3, <2>1 DEF Queued
<1> QED BY <1>1, <1>2, <1>3, AllKeepLead, SamePurge

(* A member that takes itself for the proposer queues all that it lost. *)
LEMMA ElectedPurge ==
  ASSUME TypeInv, NEW a \in Member, NEW al, NEW pe, NEW net, NEW ended \in {"ended"} \cup Failure,
         Prepare(a, al, pe, net, Unconnected(a, al, pe), ended), alist'[a] = al
  PROVE  PurgeInv(a)'
<1>1. CASE Stop(a, ended, net)
  <2>1. "live" \notin {"ended"} \cup Failure
    BY DEF Failure
  <2>2. status'[a] = ended
    BY <1>1 DEF Stop, TypeInv, TypeOK
  <2> QED BY <2>1, <2>2 DEF PurgeInv
<1>2. CASE /\ peer' = [peer EXCEPT ![a] = pe]
           /\ dparts' = [dparts EXCEPT ![a] = @ \cup Unconnected(a, al, pe)]
  <2>1. peer'[a] = pe /\ dparts'[a] = dparts[a] \cup Unconnected(a, al, pe)
    BY <1>2 DEF TypeInv, TypeOK
  <2>2. LostBy(a)' \subseteq dparts'[a]
    BY <2>1 DEF LostBy, Unconnected
  <2> QED BY <2>2 DEF PurgeInv, Queued
<1> QED BY <1>1, <1>2 DEF Prepare

(* The others, when one member prepares. *)
LEMMA PrepareOthers ==
  ASSUME TypeInv, NEW a \in Member, NEW al, NEW pe, NEW net, NEW gone, NEW ended,
         Prepare(a, al, pe, net, gone, ended)
  PROVE  \A b \in Member \ {a} : peer'[b] = peer[b] /\ dparts'[b] = dparts[b]
BY DEF Prepare, Stop, TypeInv, TypeOK

LEMMA OtherPurge ==
  ASSUME TypeInv, HoleKept, Stays, \A b \in Member : PurgeInv(b), NEW b \in Member,
         peer'[b] = peer[b], dparts'[b] = dparts[b], idefer'[b] = idefer[b],
         alist'[b] = alist[b], proposer'[b] = proposer[b], ihole'[b] = ihole[b]
  PROVE  PurgeInv(b)'
<1>1. \A y \in Member : Queued(b, y) => Queued(b, y)'
  BY DEF Queued
<1> QED BY <1>1, AllKeepLead, SamePurge

(* What is learned is no part of an acceptor that stays on the list. *)
LEMMA LearnedPurge ==
  ASSUME TypeInv, HoleKept, Stays, NEW a \in Member, PurgeInv(a), status[a] = "live",
         proposer'[a] = a => proposer[a] = a,
         ihole'[a] = ihole[a] + 1, dparts'[a] = dparts[a], idefer'[a] = idefer[a],
         \A y \in LostBy(a)' : y \in LostBy(a) /\ ~Purges(ilist[a][ihole[a]].val, y)
  PROVE  PurgeInv(a)'
<1> SUFFICES ASSUME status'[a] = "live", IsProposer(a)', NEW y \in LostBy(a)'
             PROVE  Queued(a, y)' \/ Underway(a, y)'
  BY DEF PurgeInv
<1>1. IsProposer(a) /\ y \in LostBy(a) /\ ~Purges(ilist[a][ihole[a]].val, y)
  BY DEF IsProposer
<1>2. CASE Queued(a, y)
  BY <1>2 DEF Queued
<1>3. CASE Underway(a, y)
  BY <1>1, <1>3, AllKeepLead, UnderwayStays
<1> QED BY <1>1, <1>2, <1>3 DEF PurgeInv

LEMMA LearnPurge ==
  ASSUME TypeInv, HoleKept, Stays, \A b \in Member : PurgeInv(b), NEW a \in Member, Learn(a)
  PROVE  \A b \in Member : PurgeInv(b)'
<1> PICK v : v = ilist[a][ihole[a]].val
  OBVIOUS
<1>1. status[a] = "live" /\ idefer' = idefer
  BY DEF Learn
<1>2. ASSUME Learned(a)
      PROVE  ihole'[a] = ihole[a] + 1 /\ \A b \in Member \ {a} : ihole'[b] = ihole[b]
  BY <1>2, TypeInvElim DEF Learned
<1>3. ASSUME NEW why \in {"ended"} \cup Failure, Stop(a, why, link),
             UNCHANGED <<alist, proposer, dparts, ihole>>
      PROVE  \A b \in Member : PurgeInv(b)'
  BY <1>1, <1>3, StopPurge
<1>4. ASSUME Learned(a), UNCHANGED <<sess, dparts>>, \A y \in alist[a] : ~Purges(v, y)
      PROVE  \A b \in Member : PurgeInv(b)'
  <2>1. UNCHANGED <<alist, peer, proposer, dparts>>
    BY <1>4 DEF sess
  <2>2. \A y \in LostBy(a)' : y \in LostBy(a) /\ ~Purges(ilist[a][ihole[a]].val, y)
    BY <1>4, <2>1 DEF LostBy
  <2>3. PurgeInv(a)'
    BY <1>1, <1>2, <1>4, <2>1, <2>2, LearnedPurge
  <2>4. ASSUME NEW b \in Member, b # a PROVE PurgeInv(b)'
    BY <1>1, <1>2, <1>4, <2>1, <2>4, OtherPurge
  <2> QED BY <2>3, <2>4
<1>5. ASSUME NEW y \in Member, y # a, y = v.arg, LearnPart(a, y)
      PROVE  \A b \in Member : PurgeInv(b)'
  <2> DEFINE al == alist[a] \ {y}
             pe == peer[a] \ {y}
             net == Unread(link, a, {y})
             np == Reelected(a, y, pe)
  <2>1. /\ Learned(a) /\ alist' = [alist EXCEPT ![a] = al] /\ proposer' = [proposer EXCEPT ![a] = np]
        /\ \/ Prepare(a, al, pe, net, Unconnected(a, al, pe), "ended")
           \/ /\ y # proposer[a] \/ np # a
              /\ peer' = [peer EXCEPT ![a] = pe] /\ UNCHANGED <<status, dparts>>
    BY <1>5 DEF LearnPart
  <2>2. y # proposer[a] => np = proposer[a]
    BY DEF Reelected
  <2> HIDE DEF al, pe, net, np
  <2>3. /\ alist'[a] = al /\ proposer'[a] = np
        /\ \A b \in Member \ {a} : alist'[b] = alist[b] /\ proposer'[b] = proposer[b]
    BY <2>1 DEF TypeInv, TypeOK
  <2>4. CASE Prepare(a, al, pe, net, Unconnected(a, al, pe), "ended")
    <3>1. PurgeInv(a)'
      BY <2>3, <2>4, ElectedPurge
    <3>2. ASSUME NEW b \in Member, b # a PROVE PurgeInv(b)'
      <4>1. peer'[b] = peer[b] /\ dparts'[b] = dparts[b]
        BY <2>4, <3>2, PrepareOthers
      <4> QED BY <1>1, <1>2, <2>1, <2>3, <3>2, <4>1, OtherPurge
    <3> QED BY <3>1, <3>2
  <2>5. CASE /\ y # proposer[a] \/ np # a
             /\ peer' = [peer EXCEPT ![a] = pe] /\ UNCHANGED <<status, dparts>>
    <3>1. peer'[a] = pe /\ \A b \in Member \ {a} : peer'[b] = peer[b]
      BY <2>5 DEF TypeInv, TypeOK
    <3>2. proposer'[a] = a => proposer[a] = a
      BY <1>5, <2>2, <2>3, <2>5
    <3>3. \A z \in LostBy(a)' : z \in LostBy(a) /\ ~Purges(ilist[a][ihole[a]].val, z)
      BY <1>5, <2>3, <3>1 DEF LostBy, Purges, al, pe
    <3>4. PurgeInv(a)'
      BY <1>1, <1>2, <2>1, <2>5, <3>2, <3>3, LearnedPurge
    <3>5. ASSUME NEW b \in Member, b # a PROVE PurgeInv(b)'
      BY <1>1, <1>2, <2>1, <2>3, <2>5, <3>1, <3>5, OtherPurge
    <3> QED BY <3>4, <3>5
  <2> QED BY <2>1, <2>4, <2>5
<1>6. "chat_author" \in Failure /\ "null_session" \in Failure
  BY DEF Failure
<1>7. CASE v.kind = "chat"
  <2>1. LearnChat(a, v)
    BY <1>7 DEF Learn
  <2> QED BY <1>3, <1>4, <1>6, <1>7, <2>1 DEF LearnChat, Purges
<1>8. CASE v.kind \in {"part", "kill"} /\ v.arg = a
  <2>1. LearnOwnPart(a)
    BY <1>8 DEF Learn
  <2> QED BY <1>3, <1>6, <2>1 DEF LearnOwnPart
<1>9. CASE v.kind \in {"part", "kill"} /\ v.arg # a /\ v.arg \in alist[a]
  <2>1. LearnPart(a, v.arg)
    BY <1>9 DEF Learn
  <2>2. v.arg \in Member
    BY <1>9, TypeInvElim
  <2> QED BY <1>5, <1>9, <2>1, <2>2
<1>10. CASE /\ v.kind # "chat"
            /\ ~(v.kind \in {"part", "kill"} /\ (v.arg = a \/ v.arg \in alist[a]))
  <2>1. Learned(a) /\ UNCHANGED <<sess, dparts>>
    BY <1>10 DEF Learn
  <2> QED BY <1>4, <1>10, <2>1 DEF Purges
<1> QED BY <1>7, <1>8, <1>9, <1>10

LEMMA DropPurge ==
  ASSUME TypeInv, RoleInv, HoleInv, HoleKept, Stays, \A b \in Member : PurgeInv(b),
         NEW a \in Member, NEW y \in Member, Drop(a, y)
  PROVE  \A b \in Member : PurgeInv(b)'
<1> DEFINE pe == peer[a] \ {y}
           net == Unread(link, a, {y})
           np == Reelected(a, y, pe)
<1>1. status[a] = "live" /\ UNCHANGED <<alist, ballot, ihole>>
  BY DEF Drop
<1>2. \/ /\ IsProposer(a) /\ peer' = [peer EXCEPT ![a] = pe] /\ Submit(a, Part(a, y), pe, net)
         /\ UNCHANGED <<status, proposer, prep, dparts>>
      \/ /\ ~IsProposer(a) /\ proposer' = [proposer EXCEPT ![a] = np] /\ UNCHANGED idefer
         /\ Prepare(a, alist[a], pe, net, Unconnected(a, alist[a], pe), "null_session")
      \/ /\ ~IsProposer(a) /\ proposer' = [proposer EXCEPT ![a] = np] /\ np # a
         /\ peer' = [peer EXCEPT ![a] = pe] /\ UNCHANGED <<status, dparts, idefer>>
  BY DEF Drop
<1> HIDE DEF net, np
<1>3. CASE /\ IsProposer(a) /\ peer' = [peer EXCEPT ![a] = pe] /\ Submit(a, Part(a, y), pe, net)
           /\ UNCHANGED <<status, proposer, prep, dparts>>
  <2>1. /\ \A b \in Member : \A z : Queued(b, z) => Queued(b, z)'
        /\ Queued(a, y)' \/ Underway(a, y)'
    <3>1. Purges(Part(a, y), y)
      BY DEF Purges, Part
    <3> QED BY <1>1, <1>3, <3>1, SubmitPurge
  <2>2. peer'[a] = pe /\ \A b \in Member \ {a} : peer'[b] = peer[b]
    BY <1>3 DEF TypeInv, TypeOK
  <2>3. PurgeInv(a)'
    <3> SUFFICES ASSUME NEW z \in LostBy(a)', z # y, status'[a] = "live"
                 PROVE  Queued(a, z)' \/ Underway(a, z)'
      BY <2>1 DEF PurgeInv
    <3>1. z \in LostBy(a)
      BY <1>1, <2>2 DEF LostBy, pe
    <3>2. Queued(a, z) \/ Underway(a, z)
      BY <1>1, <1>3, <3>1 DEF PurgeInv
    <3>3. CASE Underway(a, z)
      BY <1>1, <1>3, <3>3, AllKeepLead, UnderwayStays
    <3> QED BY <2>1, <3>2, <3>3
  <2>4. ASSUME NEW b \in Member, b # a PROVE PurgeInv(b)'
    BY <1>1, <1>3, <2>1, <2>2, <2>4, AllKeepLead, SamePurge
  <2> QED BY <2>3, <2>4
<1>4. ASSUME proposer' = [proposer EXCEPT ![a] = np]
      PROVE  proposer'[a] = np /\ \A b \in Member \ {a} : proposer'[b] = proposer[b]
  BY <1>4 DEF TypeInv, TypeOK
<1>5. CASE /\ ~IsProposer(a) /\ proposer' = [proposer EXCEPT ![a] = np] /\ UNCHANGED idefer
           /\ Prepare(a, alist[a], pe, net, Unconnected(a, alist[a], pe), "null_session")
  <2>1. "null_session" \in Failure
    BY DEF Failure
  <2>2. PurgeInv(a)'
    BY <1>1, <1>5, <2>1, ElectedPurge
  <2>3. ASSUME NEW b \in Member, b # a PROVE PurgeInv(b)'
    <3>1. peer'[b] = peer[b] /\ dparts'[b] = dparts[b]
      BY <1>5, <2>3, PrepareOthers
    <3> QED BY <1>1, <1>4, <1>5, <2>3, <3>1, OtherPurge
  <2> QED BY <2>2, <2>3
<1>6. CASE /\ ~IsProposer(a) /\ proposer' = [proposer EXCEPT ![a] = np] /\ np # a
           /\ peer' = [peer EXCEPT ![a] = pe] /\ UNCHANGED <<status, dparts, idefer>>
  <2>1. PurgeInv(a)'
    BY <1>4, <1>6 DEF PurgeInv, IsProposer
  <2>2. ASSUME NEW b \in Member, b # a PROVE PurgeInv(b)'
    <3>1. peer'[b] = peer[b]
      BY <1>6, <2>2 DEF TypeInv, TypeOK
    <3> QED BY <1>1, <1>4, <1>6, <2>2, <3>1, OtherPurge
  <2> QED BY <2>1, <2>2
<1> QED BY <1>2, <1>3, <1>5, <1>6

LEMMA DispatchPurge ==
  ASSUME TypeInv, RoleInv, HoleInv, HoleKept, Stays, \A b \in Member : PurgeInv(b),
         NEW a \in Member, NEW x \in Member, Dispatch(a, x)
  PROVE  \A b \in Member : PurgeInv(b)'
<1>1. CASE ProposerAckRequest(a, x)
  BY <1>1, RequestPurge DEF ProposerAckRequest, sess, ballots
<1>2. CASE AckRedirect(a, x)
  <2>1. /\ UNCHANGED <<alist, proposer, idefer, ihole>>
        /\ \/ \E why \in Failure : Stop(a, why, link) /\ UNCHANGED dparts
           \/ UNCHANGED <<peer, dparts>>
           \/ Prepare(a, alist[a], peer[a], Rest(a, x), {}, "null_session")
    <3> "redirect_rank" \in Failure /\ "redirect_target" \in Failure
      BY DEF Failure
    <3> QED BY <1>2 DEF AckRedirect
  <2>2. CASE \E why \in Failure : Stop(a, why, link) /\ UNCHANGED dparts
    BY <2>1, <2>2, StopPurge
  <2>3. CASE UNCHANGED <<peer, dparts>>
    BY <2>1, <2>3, PlainPurge
  <2>4. CASE Prepare(a, alist[a], peer[a], Rest(a, x), {}, "null_session")
    <3>1. "null_session" \in Failure
      BY DEF Failure
    <3> QED BY <2>1, <2>4, <3>1, AgainPurge
  <2> QED BY <2>1, <2>2, <2>3, <2>4
<1>3. CASE \/ AcceptorAckRequest(a, x) \/ AckRetrieve(a, x) \/ AckResend(a, x)
           \/ AckPrepare(a, x) \/ AckCommit(a, x) \/ AckRecommit(a, x)
  <2>1. UNCHANGED <<alist, proposer, dparts, idefer, ihole, peer>>
    BY <1>3 DEF AcceptorAckRequest, AckRetrieve, AckResend, AckPrepare, AckCommit, AckRecommit,
                CommitMessage, sess, defers
  <2> QED BY <2>1, PlainPurge
<1>4. CASE \/ AckRefuse(a, x) \/ AckPromise(a, x) \/ AckDecree(a, x) \/ AckAccept(a, x)
           \/ AckReject(a, x) \/ AckRetry(a, x)
  <2>1. UNCHANGED <<alist, proposer, dparts, idefer, ihole>>
    BY <1>4 DEF AckRefuse, AckPromise, AckDecree, AckAccept, AckReject, AckRetry, defers
  <2>2. peer' = peer \/ \E why \in Failure : Stop(a, why, link)
    <3> /\ "promise_glb" \in Failure /\ "redecree_glb" \in Failure /\ "target" \in Failure
        /\ "decree_proposer" \in Failure /\ "decree_value" \in Failure /\ "instance" \in Failure
        /\ "accept_ballot" \in Failure /\ "reject_ballot" \in Failure /\ "reject_kind" \in Failure
      BY DEF Failure
    <3>1. CASE AckRefuse(a, x) \/ AckPromise(a, x) \/ AckRetry(a, x)
      BY <3>1 DEF AckRefuse, AckPromise, AckRetry
    <3>2. CASE AckDecree(a, x)
      BY <3>2 DEF AckDecree, AcceptDecree
    <3>3. CASE AckAccept(a, x)
      BY <3>3 DEF AckAccept
    <3>4. CASE AckReject(a, x)
      BY <3>4 DEF AckReject
    <3> QED BY <1>4, <3>1, <3>2, <3>3, <3>4
  <2> QED BY <2>1, <2>2, StopPurge, PlainPurge
<1> QED BY <1>1, <1>2, <1>3, <1>4 DEF Dispatch

LEMMA NextPurge ==
  ASSUME TypeInv, RoleInv, HoleInv, [Next]_vars, [Stays]_vars, \A b \in Member : PurgeInv(b)
  PROVE  \A b \in Member : PurgeInv(b)'
<1>1. HoleKept
  BY NextHole
<1>2. CASE UNCHANGED vars
  BY <1>2 DEF vars, PurgeInv, Queued, Underway, LostBy, IsProposer, Preparing
<1>3. CASE Next /\ Stays
  <2>1. PICK a \in Member :
          \/ Step(a) \/ ContinueAckRedirect(a) \/ ContinueAckReject(a) \/ Leave(a)
          \/ \E v \in Chat : Request(a, v)
          \/ \E x \in Member : Dispatch(a, x) \/ Drop(a, x)
    BY <1>3, Zenon DEF Next
  <2>2. CASE Commit(a)
    <3>1. UNCHANGED <<alist, proposer, dparts, idefer, ihole>>
      BY <2>2 DEF Commit, defers
    <3>2. peer' = peer \/ \E why \in Failure : Stop(a, why, link)
      <4> "commit_learned" \in Failure /\ "commit_istart" \in Failure
        BY DEF Failure
      <4> QED BY <2>2 DEF Commit
    <3> QED BY <1>1, <1>3, <3>1, <3>2, StopPurge, PlainPurge
  <2>3. CASE LearnEnd(a) \/ Redecree(a) \/ EndPrepare(a) \/ ContinueAckReject(a)
    <3>1. UNCHANGED <<alist, proposer, dparts, idefer, ihole, peer>>
      BY <2>3 DEF LearnEnd, Redecree, EndPrepare, ContinueAckReject, sess, defers
    <3> QED BY <1>1, <1>3, <3>1, PlainPurge
  <2>4. CASE Leave(a)
    <3>1. Stop(a, "ended", link) /\ UNCHANGED <<alist, proposer, dparts, idefer, ihole>>
      BY <2>4 DEF Leave, defers
    <3> QED BY <1>1, <1>3, <3>1, StopPurge
  <2>5. CASE ContinueAckRedirect(a)
    <3>1. /\ UNCHANGED <<alist, proposer, idefer, ihole>>
          /\ \/ Prepare(a, alist[a], peer[a], link, {}, "null_session")
             \/ UNCHANGED <<peer, dparts>>
      BY <2>5 DEF ContinueAckRedirect
    <3>2. "null_session" \in Failure
      BY DEF Failure
    <3> QED BY <1>1, <1>3, <3>1, <3>2, AgainPurge, PlainPurge
  <2>6. CASE \E v \in Chat : Request(a, v)
    <3>1. PICK v \in Chat : Request(a, v)
      BY <2>6
    <3>2. /\ UNCHANGED <<alist, proposer, peer, ballot, prep, ihole, dparts>>
          /\ \/ \E net : Submit(a, v, peer[a], net)
             \/ idefer' = idefer
      BY <3>1 DEF Request, sess, ballots
    <3> QED BY <1>1, <1>3, <3>2, RequestPurge, PlainPurge
  <2>7. CASE Step(a)
    BY <1>1, <1>3, <2>2, <2>3, <2>7, LearnPurge, DrainPurge DEF Step
  <2> QED BY <1>1, <1>3, <2>1, <2>3, <2>4, <2>5, <2>6, <2>7, DispatchPurge, DropPurge
<1> QED BY <1>2, <1>3

(***************************************************************************)
(* Whoever proposes parts or kills every acceptor that it lost, before or  *)
(* after it was elected, through the prepares that failed and were made    *)
(* again: once the loop over idefer is over, the decree is on its list,    *)
(* under its ballot, and not learned yet.                                  *)
(***************************************************************************)
THEOREM LostAlwaysPurged == Spec /\ PreparedStays => []LostArePurged
<1> DEFINE Inv == TypeInv /\ RoleInv /\ HoleInv
           Purged == \A a \in Member : PurgeInv(a)
<1>1. Init => Purged
  BY DEF Init, PurgeInv, LostBy
<1>2. Inv /\ Purged /\ [Next]_vars /\ [Stays]_vars => Purged'
  BY NextPurge
<1>3. Purged => LostArePurged
  BY DEF LostArePurged, PurgeInv, LostBy, Queued, Underway, Purges, Busy, Draining
<1>4. PreparedStays <=> [][Stays]_vars
  BY PTL DEF PreparedStays, Stays
<1>5. Spec /\ [][Stays]_vars => []Inv
  BY HoleInvariant
<1> HIDE DEF Inv, Purged
<1> QED BY <1>1, <1>2, <1>3, <1>4, <1>5, PTL DEF Spec

=============================================================================
