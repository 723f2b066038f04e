------------------------------- MODULE PaxosHole -------------------------------
(***************************************************************************)
(* Theorems about the instance lists: the hole, and the value of a decree. *)
(* They rest on PreparedStays, which is true of three members and false of *)
(* five: a continuation that starts over the prepare of a proposer that    *)
(* has prepared lets promises rewrite instances whose decrees are under    *)
(* way.                                                                    *)
(***************************************************************************)
EXTENDS PaxosRoles

Stays ==
  \A a \in Member :
    status[a] = "live" /\ status'[a] = "live" /\ IsProposer(a) /\ ~Preparing(a) =>
      proposer'[a] = a /\ prep'[a] = NoPrep

(* A proposer whose prepare has its majority. *)
Leads(a) == status[a] = "live" /\ IsProposer(a) /\ (~Preparing(a) \/ ballot[a] = prep[a].bal)

(***************************************************************************)
(* The list of one member.  Whom a part that was learned was about is no   *)
(* acceptor any more, and paxos_commit() is entered for an instance that   *)
(* is on the list.                                                         *)
(***************************************************************************)
LogInv(a) ==
  /\ \A i \in Inum : ilist[a][i].committed => ilist[a][i].bal # NoBallot
  /\ \A i \in Inum :
       /\ i < ihole[a] => ilist[a][i].committed /\ ilist[a][i].cached /\ ilist[a][i].learned
       /\ i >= ihole[a] => ~ilist[a][i].learned
  /\ \A i \in Inum : i < ihole[a] /\ ilist[a][i].val.kind = "part" => ilist[a][i].val.arg \notin alist[a]
  /\ call[a].fn = "commit" => ilist[a][call[a].inum].bal # NoBallot

(***************************************************************************)
(* The work of one member.  What a proposer has not committed once it has  *)
(* prepared is under its ballot, and so is the part that a reconnection is *)
(* to decree again.                                                        *)
(***************************************************************************)
Rejected(s) == {s[n] : n \in {n \in DOMAIN s : s[n].op = "reject"}}

WorkInv(a) ==
  status[a] = "live" =>
    /\ Preparing(a) => prep[a].bal.id = a
    /\ Leads(a) => ballot[a].id = a
    /\ IsProposer(a) /\ ~Preparing(a) =>
         \A i \in Inum : ilist[a][i].bal \in {NoBallot, ballot[a]} \/ ilist[a][i].committed
    /\ \A k \in Rejected(clist[a]) :
         /\ ~Preparing(a)
         /\ ilist[a][k.inum].bal = ballot[a]
         /\ ilist[a][k.inum].val.kind = "part" /\ ilist[a][k.inum].val.arg = k.who

(***************************************************************************)
(* A decree on its way is its sender's own, and what the sender has for    *)
(* the instance as long as it lives; a reject is on its way to the sender  *)
(* of the decree.                                                          *)
(***************************************************************************)
Holds(x, m) ==
  Leads(x) /\ m.bal = ballot[x] /\ ilist[x][m.inum].bal = m.bal /\ ilist[x][m.inum].val = m.val

Led(x, y, m) ==
  /\ m.op = "decree" => m.bal.id = x /\ (status[x] = "live" => Holds(x, m))
  /\ m.op = "reject" => (status[y] = "live" => Leads(y))

HoleInv ==
  /\ \A a \in Member : LogInv(a) /\ WorkInv(a)
  /\ \A x, y \in Member : \A m \in Contents(link, x, y) : Led(x, y, m)
  /\ OneValuePerBallot

-----------------------------------------------------------------------------
(***************************************************************************)
(* A step of one member: the others stay as they are; a proposer that      *)
(* leads goes on to, and keeps what it has decreed; no instance leaves the *)
(* list, none that is committed or a leading proposer's changes its value, *)
(* and the hole moves by one at most; what is written fits.                *)
(***************************************************************************)
Own(a) == <<status[a], proposer[a], prep[a], ballot[a], ilist[a], ihole[a], alist[a], clist[a], call[a]>>

Alone(a) == \A b \in Member \ {a} : Own(b)' = Own(b)

KeepsLead(a) ==
  status'[a] = "live" =>
    /\ status[a] = "live"
    /\ Leads(a) =>
         /\ Leads(a)' /\ ballot'[a] = ballot[a]
         /\ \A i \in Inum : ilist[a][i].bal = ballot[a] =>
              ilist'[a][i].bal = ilist[a][i].bal /\ ilist'[a][i].val = ilist[a][i].val

Learns(a) ==
  /\ ihole'[a] \in {ihole[a], ihole[a] + 1}
  /\ \A i \in Inum : ilist[a][i].bal # NoBallot =>
       /\ ilist'[a][i].bal # NoBallot
       /\ ilist[a][i].committed \/ Leads(a) \/ status[a] # "live"
            => ilist'[a][i].val = ilist[a][i].val

HoleKept == HoleInv' /\ \E a \in Member : Alone(a) /\ KeepsLead(a) /\ Learns(a)

News(a, y, m) ==
  /\ m.op = "decree" => m.bal.id = a /\ status'[a] = "live" /\ Holds(a, m)'
  /\ m.op = "reject" => y # a /\ (status[y] = "live" => Leads(y))

Fresh(net, a) ==
  \A x, y \in Member : \A m \in Contents(net, x, y) :
    m \in Contents(link, x, y) \/ (x = a /\ News(a, y, m))

LEMMA OwnSame ==
  ASSUME NEW a \in Member, Alone(a), NEW b \in Member \ {a}
  PROVE  /\ status'[b] = status[b] /\ proposer'[b] = proposer[b] /\ prep'[b] = prep[b]
         /\ ballot'[b] = ballot[b] /\ ilist'[b] = ilist[b] /\ ihole'[b] = ihole[b]
         /\ alist'[b] = alist[b] /\ clist'[b] = clist[b] /\ call'[b] = call[b]
BY DEF Alone, Own

LEMMA HoleStep ==
  ASSUME TypeInv, HoleInv, NEW a \in Member, Alone(a), KeepsLead(a), Learns(a),
         LogInv(a)', WorkInv(a)', Fresh(link', a)
  PROVE  HoleKept
<1>1. ASSUME NEW b \in Member \ {a} PROVE (Leads(b)' <=> Leads(b)) /\ LogInv(b)' /\ WorkInv(b)'
  <2>1. /\ status'[b] = status[b] /\ proposer'[b] = proposer[b] /\ prep'[b] = prep[b]
        /\ ballot'[b] = ballot[b] /\ ilist'[b] = ilist[b] /\ ihole'[b] = ihole[b]
        /\ alist'[b] = alist[b] /\ clist'[b] = clist[b] /\ call'[b] = call[b]
    BY OwnSame
  <2>2. Leads(b)' <=> Leads(b)
    BY <2>1 DEF Leads, IsProposer, Preparing
  <2>3. LogInv(b) /\ WorkInv(b)
    BY DEF HoleInv
  <2>4. LogInv(b)'
    BY <2>1, <2>3 DEF LogInv
  <2>5. WorkInv(b)'
    BY <2>1, <2>2, <2>3 DEF WorkInv, IsProposer, Preparing
  <2> QED BY <2>2, <2>4, <2>5
<1>2. ASSUME NEW x \in Member, NEW y \in Member, NEW m \in Contents(link', x, y)
      PROVE  Led(x, y, m)'
  <2>1. CASE m \in Contents(link, x, y)
    <3>1. Led(x, y, m)
      BY <2>1 DEF HoleInv
    <3>2. m.op = "decree" /\ status'[x] = "live" => Holds(x, m)'
      <4>1. CASE x = a
        <5>1. m.op = "decree" => m.inum \in Inum
          <6>1. link[x][y] \in Seq(Message)
            BY DEF TypeInv, TypeOK
          <6>2. m \in Message
            BY <2>1, <6>1 DEF Contents
          <6> QED BY <6>2, MessageFields
        <5> QED BY <3>1, <4>1, <5>1 DEF Led, KeepsLead, Holds
      <4>2. CASE x # a
        <5>1. status'[x] = status[x] /\ ballot'[x] = ballot[x] /\ ilist'[x] = ilist[x]
          BY <4>2, OwnSame
        <5> QED BY <1>1, <3>1, <4>2, <5>1 DEF Led, Holds
      <4> QED BY <4>1, <4>2
    <3>3. m.op = "reject" /\ status'[y] = "live" => Leads(y)'
      <4>1. y # a => status'[y] = status[y]
        BY OwnSame
      <4> QED BY <1>1, <3>1, <4>1 DEF Led, KeepsLead
    <3> QED BY <3>1, <3>2, <3>3 DEF Led
  <2>2. CASE x = a /\ News(a, y, m)
    <3>1. y # a => status'[y] = status[y]
      BY OwnSame
    <3> QED BY <1>1, <2>2, <3>1 DEF News, Led
  <2> QED BY <2>1, <2>2 DEF Fresh
<1>3. ASSUME NEW x \in Member, NEW y \in Member, NEW m \in Contents(link', x, y), m.op = "decree",
             NEW u \in Member, NEW v \in Member, NEW n \in Contents(link', u, v), n.op = "decree",
             m.bal = n.bal, m.inum = n.inum
      PROVE  m.val = n.val
  <2>1. Led(x, y, m)' /\ Led(u, v, n)'
    BY <1>2
  <2>2. x = u
    BY <1>3, <2>1 DEF Led
  <2>3. CASE status'[x] = "live"
    BY <1>3, <2>1, <2>2, <2>3 DEF Led, Holds
  <2>4. CASE status'[x] # "live"
    <3>1. m \in Contents(link, x, y) /\ n \in Contents(link, u, v)
      BY <1>3, <2>2, <2>4 DEF Fresh, News
    <3> DEFINE decrees == UNION {{k \in InFlight(b, c) : k.op = "decree"} : b, c \in Member}
    <3>3. m \in decrees /\ n \in decrees
      <4> DEFINE D(b, c) == {k \in InFlight(b, c) : k.op = "decree"}
      <4>1. m \in D(x, y) /\ n \in D(u, v)
        BY <1>3, <3>1 DEF InFlight, Contents
      <4>2. decrees = UNION {D(b, c) : b, c \in Member}
        OBVIOUS
      <4> HIDE DEF D, decrees
      <4> QED BY <4>1, <4>2
    <3>4. \A k, l \in decrees : k.bal = l.bal /\ k.inum = l.inum => k.val = l.val
      BY DEF HoleInv, OneValuePerBallot
    <3> HIDE DEF decrees
    <3> QED BY <1>3, <3>3, <3>4
  <2> QED BY <2>3, <2>4
<1>4. OneValuePerBallot'
  BY <1>3 DEF OneValuePerBallot, InFlight, Contents
<1> QED BY <1>1, <1>2, <1>4 DEF HoleInv, HoleKept

-----------------------------------------------------------------------------
(* What is written. *)

LEMMA WithinFresh ==
  ASSUME NEW a \in Member, NEW net, Within(net, link)
  PROVE  Fresh(net, a)
BY DEF Within, Fresh

LEMMA SendFresh ==
  ASSUME TypeInv, NEW a \in Member, NEW net \in Links, Fresh(net, a), NEW to, NEW m,
         \A y \in to \cap Member : a \in peer[y] => News(a, y, m)
  PROVE  Fresh(Send(net, a, to, m), a)
<1> SUFFICES ASSUME NEW x \in Member, NEW y \in Member,
                    NEW k \in Contents(Send(net, a, to, m), x, y)
             PROVE  k \in Contents(link, x, y) \/ (x = a /\ News(a, y, k))
  BY DEF Fresh
<1>1. k \in Contents(net, x, y) \/ (x = a /\ y \in to /\ a \in peer[y] /\ k = m)
  BY SendContents
<1> QED BY <1>1 DEF Fresh

(* Nothing but a decree or a reject is news. *)
LEMMA NoNews ==
  ASSUME NEW a, NEW m, m.op \notin {"decree", "reject"}
  PROVE  \A y : News(a, y, m)
BY DEF News

(* A message that is read, and what is left to read. *)
LEMMA Read ==
  ASSUME TypeInv, RoleInv, HoleInv, NEW a \in Member, NEW x \in Member, NEW op, Incoming(a, x, op)
  PROVE  /\ status[a] = "live" /\ x \in peer[a] /\ x # a /\ call[a] = Return
         /\ ~Redecreeing(a) /\ ~Draining(a)
         /\ Msg(a, x).op = op /\ Msg(a, x) \in Message /\ Led(x, a, Msg(a, x))
         /\ Rest(a, x) \in Links /\ Fresh(Rest(a, x), a)
<1>1. Msg(a, x) \in Contents(link, x, a) /\ Fresh(Rest(a, x), a)
  BY RestContents, WithinFresh
<1>2. Led(x, a, Msg(a, x))
  BY <1>1 DEF HoleInv
<1>3. status[a] = "live" /\ ~Busy(a)
  BY DEF Incoming, Quiet
<1> QED BY <1>1, <1>2, <1>3, ReadType DEF Busy, Incoming, RoleInv, TypeInv

-----------------------------------------------------------------------------
(* The list of a member. *)

LEMMA HoleNat ==
  ASSUME TypeInv, NEW a \in Member
  PROVE  ihole[a] \in Nat
<1>1. ihole[a] \in Base + 1 .. MaxInum + 1
  BY TypeInvElim
<1> QED BY <1>1, BoundAssumption

(* Every instance below the hole is on the list, so that the last one is   *)
(* not below the instance before the hole.                                 *)
LEMMA Listed ==
  ASSUME TypeInv, NEW a \in Member, LogInv(a)
  PROVE  /\ \A i \in Inum : i < ihole[a] => ilist[a][i].bal # NoBallot
         /\ Last(ilist[a]) \in Inum /\ Last(ilist[a]) + 1 >= ihole[a]
         /\ \A i \in Inum : i > Last(ilist[a]) => ilist[a][i].bal = NoBallot
<1>1. \A i \in Inum : i < ihole[a] => ilist[a][i].bal # NoBallot
  BY DEF LogInv
<1>2. ihole[a] \in Base + 1 .. MaxInum + 1
  BY TypeInvElim
<1>3. ihole[a] - 1 \in Inum /\ ihole[a] - 1 < ihole[a]
  BY <1>2, BoundAssumption DEF Inum
<1>4. ihole[a] - 1 \in Present(ilist[a])
  BY <1>1, <1>3 DEF Present
<1>5. Present(ilist[a]) \in SUBSET Inum
  BY DEF Present
<1>6. Last(ilist[a]) \in Present(ilist[a]) /\ \A i \in Present(ilist[a]) : i <= Last(ilist[a])
  BY <1>4, <1>5, GreatestInum DEF Last
<1>7. Last(ilist[a]) \in Nat /\ \A i \in Inum : i \in Nat
  BY <1>5, <1>6, BaseInum
<1>8. ihole[a] - 1 <= Last(ilist[a])
  BY <1>4, <1>6
<1>9. \A i \in Inum : i > Last(ilist[a]) => ilist[a][i].bal = NoBallot
  <2> SUFFICES ASSUME NEW i \in Inum, i > Last(ilist[a]), ilist[a][i].bal # NoBallot PROVE FALSE
    OBVIOUS
  <2>1. i <= Last(ilist[a])
    BY <1>6 DEF Present
  <2> QED BY <1>7, <2>1
<1> QED BY <1>1, <1>5, <1>6, <1>7, <1>8, <1>9, HoleNat

(* The instance of a reject, and the rejects that are left when one is     *)
(* taken off.                                                              *)
LEMMA RejectedInum ==
  ASSUME TypeInv, NEW a \in Member, NEW k \in Rejected(clist[a])
  PROVE  k.inum \in Inum
<1>1. clist[a] \in Seq(Continuation)
  BY TypeInvElim
<1>2. k \in Continuation
  BY <1>1 DEF Rejected
<1> QED BY <1>2 DEF Continuation

LEMMA RejectedRemoved ==
  ASSUME NEW s \in Seq(Continuation), NEW n \in DOMAIN s
  PROVE  Rejected(Removed(s, n)) \subseteq Rejected(s)
<1>1. Len(s) \in Nat /\ DOMAIN s = 1 .. Len(s) /\ Len(s) - 1 \in Nat
  OBVIOUS
<1>2. DOMAIN Removed(s, n) = 1 .. Len(s) - 1
  BY DEF Removed
<1> SUFFICES ASSUME NEW j \in DOMAIN Removed(s, n), Removed(s, n)[j].op = "reject"
             PROVE  Removed(s, n)[j] \in Rejected(s)
  BY DEF Rejected
<1>3. Removed(s, n)[j] = s[j] \/ Removed(s, n)[j] = s[j + 1]
  BY <1>2 DEF Removed
<1>4. j \in DOMAIN s /\ j + 1 \in DOMAIN s
  BY <1>1, <1>2
<1> QED BY <1>3, <1>4 DEF Rejected

LEMMA RejectedAppended ==
  ASSUME NEW s \in Seq(Continuation), NEW c \in Continuation, NEW k \in Rejected(Append(s, c))
  PROVE  k \in Rejected(s) \/ (k = c /\ c.op = "reject")
<1>1. PICK j \in DOMAIN Append(s, c) : k = Append(s, c)[j] /\ Append(s, c)[j].op = "reject"
  BY DEF Rejected
<1>2. j \in 1 .. Len(s) + 1 /\ Len(s) \in Nat /\ DOMAIN s = 1 .. Len(s)
  BY <1>1
<1>3. CASE j = Len(s) + 1
  BY <1>1, <1>3
<1>4. CASE j \in 1 .. Len(s)
  <2>1. k = s[j] /\ s[j].op = "reject" /\ j \in DOMAIN s
    BY <1>1, <1>2, <1>4
  <2> QED BY <2>1 DEF Rejected
<1> QED BY <1>2, <1>3, <1>4

(* A reconnection is waited for by a proposer, and a reject by one that    *)
(* leads.                                                                  *)
LEMMA RejectedLeads ==
  ASSUME TypeInv, RoleInv, NEW a \in Member, WorkInv(a), status[a] = "live"
  PROVE  /\ ~IsProposer(a) => clist[a] = <<>> /\ Rejected(clist[a]) = {} /\ ~Preparing(a)
         /\ Rejected(clist[a]) # {} => IsProposer(a) /\ ~Preparing(a) /\ Leads(a)
<1>1. ~IsProposer(a) => clist[a] = <<>> /\ ~Preparing(a)
  BY DEF RoleInv, Working
<1>2. Rejected(<<>>) = {}
  BY DEF Rejected
<1>3. Rejected(clist[a]) # {} => ~Preparing(a)
  BY DEF WorkInv
<1> QED BY <1>1, <1>2, <1>3 DEF Leads

(* A handler that changes no list, no role and no ballot. *)
LEMMA PlainHole ==
  ASSUME TypeInv, RoleInv, HoleInv, NEW a \in Member,
         UNCHANGED <<proposer, ballot, prep, ilist, ihole, alist, clist>>,
         \A b \in Member \ {a} : status'[b] = status[b] /\ call'[b] = call[b],
         status'[a] = "live" => status[a] = "live",
         call'[a].fn = "commit" => ilist[a][call'[a].inum].bal # NoBallot,
         Fresh(link', a)
  PROVE  HoleKept
<1>1. Alone(a)
  BY DEF Alone, Own
<1>2. status'[a] = "live" => (Leads(a)' <=> Leads(a))
  BY DEF Leads, IsProposer, Preparing
<1>3. KeepsLead(a) /\ Learns(a)
  BY <1>2 DEF KeepsLead, Learns
<1>4. LogInv(a) /\ WorkInv(a)
  BY DEF HoleInv
<1>5. LogInv(a)'
  BY <1>4 DEF LogInv
<1>6. WorkInv(a)'
  BY <1>2, <1>4 DEF WorkInv, IsProposer, Preparing
<1> QED BY <1>1, <1>3, <1>5, <1>6, HoleStep

LEMMA StopHole ==
  ASSUME TypeInv, RoleInv, HoleInv, NEW a \in Member, NEW why \in {"ended"} \cup Failure,
         Stop(a, why, link), UNCHANGED <<proposer, ballot, prep, ilist, ihole, alist, clist, call>>
  PROVE  HoleKept
<1>1. "live" \notin {"ended"} \cup Failure
  BY DEF Failure
<1>2. status'[a] = why /\ \A b \in Member \ {a} : status'[b] = status[b]
  BY DEF Stop, TypeInv, TypeOK
<1>3. Fresh(link', a)
  BY UnreadContents, WithinFresh DEF Stop
<1>4. LogInv(a)
  BY DEF HoleInv
<1> QED BY <1>1, <1>2, <1>3, <1>4, PlainHole DEF LogInv

(***************************************************************************)
(* A handler that puts an instance on the list, or changes one.  Below the *)
(* hole nothing is taken back, and a proposer that leads keeps what it has *)
(* decreed.                                                                *)
(***************************************************************************)
Lasts(a, i, e) ==
  /\ e.bal # NoBallot
  /\ ilist[a][i].bal # NoBallot /\ (ilist[a][i].committed \/ Leads(a)) => e.val = ilist[a][i].val
  /\ i < ihole[a] => e.committed /\ e.cached /\ e.learned /\ e.val = ilist[a][i].val
  /\ i >= ihole[a] => ~e.learned
  /\ IsProposer(a) =>
       /\ ilist[a][i].bal = ballot[a] => e.bal = ballot[a] /\ e.val = ilist[a][i].val
       /\ ~Preparing(a) => e.bal = ballot[a] \/ e.committed

Waits(a, i, e, k) ==
  k.inum = i /\ ~Preparing(a) /\ e.bal = ballot[a] /\ e.val.kind = "part" /\ e.val.arg = k.who

LEMMA PutHole ==
  ASSUME TypeInv, RoleInv, HoleInv, NEW a \in Member, NEW i \in Inum, NEW e, Lasts(a, i, e),
         ilist' = [ilist EXCEPT ![a][i] = e], status[a] = "live",
         UNCHANGED <<status, proposer, ballot, prep, ihole, alist>>,
         \A b \in Member \ {a} : clist'[b] = clist[b] /\ call'[b] = call[b],
         \A k \in Rejected(clist'[a]) : k \in Rejected(clist[a]) \/ Waits(a, i, e, k),
         call'[a] = call[a] \/ call'[a].fn # "commit" \/ call'[a].inum = i,
         Fresh(link', a)
  PROVE  HoleKept
<1>1. /\ ilist'[a][i] = e
      /\ \A j \in Inum \ {i} : ilist'[a][j] = ilist[a][j]
      /\ \A b \in Member \ {a} : ilist'[b] = ilist[b]
  BY TypeInvElim DEF Lists
<1>2. Alone(a)
  BY <1>1 DEF Alone, Own
<1>3. Leads(a)' <=> Leads(a)
  BY DEF Leads, IsProposer, Preparing
<1>4. LogInv(a) /\ WorkInv(a)
  BY DEF HoleInv
<1>5. KeepsLead(a) /\ Learns(a)
  BY <1>1, <1>3 DEF KeepsLead, Lasts, Leads, Learns
<1>6. LogInv(a)'
  <2>1. \A j \in Inum : ilist'[a][j].committed => ilist'[a][j].bal # NoBallot
    BY <1>1, <1>4 DEF Lasts, LogInv
  <2>2. \A j \in Inum :
          /\ j < ihole[a] => ilist'[a][j].committed /\ ilist'[a][j].cached /\ ilist'[a][j].learned
          /\ j >= ihole[a] => ~ilist'[a][j].learned
    BY <1>1, <1>4 DEF Lasts, LogInv
  <2>3. \A j \in Inum : j < ihole[a] /\ ilist'[a][j].val.kind = "part"
                          => ilist'[a][j].val.arg \notin alist[a]
    BY <1>1, <1>4 DEF Lasts, LogInv
  <2>4. call'[a].fn = "commit" => ilist'[a][call'[a].inum].bal # NoBallot
    <3>1. call[a].inum \in Inum
      BY TypeInvElim DEF Call
    <3> QED BY <1>1, <1>4, <3>1 DEF Lasts, LogInv
  <2> QED BY <2>1, <2>2, <2>3, <2>4 DEF LogInv
<1>7. WorkInv(a)'
  <2>1. IsProposer(a) /\ ~Preparing(a) =>
          \A j \in Inum : ilist'[a][j].bal \in {NoBallot, ballot[a]} \/ ilist'[a][j].committed
    BY <1>1, <1>4 DEF Lasts, WorkInv
  <2>2. ASSUME NEW k \in Rejected(clist'[a])
        PROVE  /\ ~Preparing(a)
               /\ ilist'[a][k.inum].bal = ballot[a]
               /\ ilist'[a][k.inum].val.kind = "part" /\ ilist'[a][k.inum].val.arg = k.who
    <3>1. CASE k \in Rejected(clist[a])
      <4>1. k.inum \in Inum
        BY <3>1, RejectedInum
      <4>2. IsProposer(a) /\ ~Preparing(a)
        BY <1>4, <3>1, RejectedLeads
      <4>3. /\ ilist[a][k.inum].bal = ballot[a]
            /\ ilist[a][k.inum].val.kind = "part" /\ ilist[a][k.inum].val.arg = k.who
        BY <1>4, <3>1 DEF WorkInv
      <4> QED BY <1>1, <4>1, <4>2, <4>3 DEF Lasts
    <3>2. CASE Waits(a, i, e, k)
      BY <1>1, <3>2 DEF Waits
    <3> QED BY <2>2, <3>1, <3>2
  <2> QED BY <1>3, <1>4, <2>1, <2>2 DEF WorkInv, IsProposer, Preparing
<1> QED BY <1>2, <1>5, <1>6, <1>7, HoleStep

-----------------------------------------------------------------------------
(* The rest of a call: paxos_commit() and its loop. *)

LEMMA CommitHoleKeeps ==
  ASSUME TypeInv, RoleInv, HoleInv, NEW a \in Member, Commit(a)
  PROVE  HoleKept
<1> DEFINE i == call[a].inum
           v == ilist[a][i].val
<1>1. /\ status[a] = "live" /\ call[a].fn = "commit" /\ i \in Inum
      /\ UNCHANGED <<alist, proposer, ballot, prep, ihole, clist>>
  BY TypeInvElim DEF Commit, ballots, Call
<1>2. LogInv(a) /\ WorkInv(a)
  BY DEF HoleInv
<1>3. ilist[a] \in [Inum -> Entry] /\ ilist[a][i] \in Entry
  BY <1>1, TypeInvElim DEF Lists
<1>4. ASSUME NEW why \in Failure, Stop(a, why, link), UNCHANGED <<logs, call>>
      PROVE  HoleKept
  BY <1>1, <1>4, StopHole DEF logs
<1>5. CASE CommitUncached(a, i) /\ UNCHANGED <<status, peer>>
  <2> DEFINE e == [ilist[a][i] EXCEPT !.committed = TRUE]
             m == [op |-> "retrieve", who |-> a, inum |-> i, val |-> v]
  <2>1. ilist' = [ilist EXCEPT ![a][i] = e]
    BY <1>5 DEF CommitUncached
  <2>2. Lasts(a, i, e)
    <3>1. /\ e.bal = ilist[a][i].bal /\ e.val = ilist[a][i].val /\ e.committed = TRUE
          /\ e.learned = ilist[a][i].learned /\ (e.cached = ilist[a][i].cached \/ e.cached = TRUE)
      BY <1>3 DEF Entry
    <3> HIDE DEF e
    <3> QED BY <1>1, <1>2, <3>1 DEF Lasts, LogInv, WorkInv
  <2>3. Fresh(link', a)
    <3>1. \A y : News(a, y, m)
      BY NoNews
    <3>2. \E to : link' = Send(link, a, to, m)
      BY <1>5 DEF CommitUncached, Retrieve
    <3> HIDE DEF m
    <3> QED BY <3>1, <3>2, LinkIn, WithinFresh, SendFresh
  <2>4. call' = [call EXCEPT ![a] = Return]
    BY <1>5 DEF CommitUncached
  <2>5. call'[a].fn # "commit" /\ \A b \in Member \ {a} : call'[b] = call[b]
    BY <2>4 DEF TypeInv, TypeOK, Return
  <2> HIDE DEF e, m, i, v
  <2> QED BY <1>1, <1>5, <2>1, <2>2, <2>3, <2>5, PutHole
<1>6. CASE CommitPastHole(a, i) /\ UNCHANGED <<status, peer>>
  <2> DEFINE e == [ilist[a][i] EXCEPT !.committed = TRUE, !.cached = TRUE]
             m == [op |-> "retry", bal |-> ballot[a], inum |-> ihole[a]]
  <2>1. ilist' = [ilist EXCEPT ![a][i] = e]
    BY <1>6 DEF CommitPastHole
  <2>2. Lasts(a, i, e)
    <3>1. /\ e.bal = ilist[a][i].bal /\ e.val = ilist[a][i].val /\ e.committed = TRUE
          /\ e.learned = ilist[a][i].learned /\ (e.cached = ilist[a][i].cached \/ e.cached = TRUE)
      BY <1>3 DEF Entry
    <3> HIDE DEF e
    <3> QED BY <1>1, <1>2, <3>1 DEF Lasts, LogInv, WorkInv
  <2>3. Fresh(link', a)
    <3>1. \A y : News(a, y, m)
      BY NoNews
    <3>2. link' = link \/ link' = Send(link, a, {proposer[a]}, m)
      BY <1>6 DEF CommitPastHole
    <3> HIDE DEF m
    <3> QED BY <3>1, <3>2, LinkIn, WithinFresh, SendFresh
  <2>4. call' = [call EXCEPT ![a] = Return]
    BY <1>6 DEF CommitPastHole
  <2>5. call'[a].fn # "commit" /\ \A b \in Member \ {a} : call'[b] = call[b]
    BY <2>4 DEF TypeInv, TypeOK, Return
  <2> HIDE DEF e, m, i, v
  <2> QED BY <1>1, <1>6, <2>1, <2>2, <2>3, <2>5, PutHole
<1>7. CASE CommitHole(a, i) /\ UNCHANGED <<status, peer>>
  <2> DEFINE e == [ilist[a][i] EXCEPT !.committed = TRUE, !.cached = TRUE]
  <2>1. ilist' = [ilist EXCEPT ![a][i] = e]
    BY <1>7 DEF CommitHole
  <2>2. Lasts(a, i, e)
    <3>1. /\ e.bal = ilist[a][i].bal /\ e.val = ilist[a][i].val /\ e.committed = TRUE
          /\ e.learned = ilist[a][i].learned /\ (e.cached = ilist[a][i].cached \/ e.cached = TRUE)
      BY <1>3 DEF Entry
    <3> HIDE DEF e
    <3> QED BY <1>1, <1>2, <3>1 DEF Lasts, LogInv, WorkInv
  <2>3. Fresh(link', a)
    BY <1>7, LinkIn, WithinFresh DEF CommitHole
  <2>4. \E c \in {Return, [fn |-> "learn", inum |-> i]} : call' = [call EXCEPT ![a] = c]
    BY <1>7 DEF CommitHole
  <2>5. call'[a].fn # "commit" /\ \A b \in Member \ {a} : call'[b] = call[b]
    BY <2>4 DEF TypeInv, TypeOK, Return
  <2> HIDE DEF e, i, v
  <2> QED BY <1>1, <1>7, <2>1, <2>2, <2>3, <2>5, PutHole
<1>8. \/ CommitUncached(a, i) /\ UNCHANGED <<status, peer>>
      \/ \E why \in Failure : Stop(a, why, link) /\ UNCHANGED <<logs, call>>
      \/ CommitPastHole(a, i) /\ UNCHANGED <<status, peer>>
      \/ CommitHole(a, i) /\ UNCHANGED <<status, peer>>
  <2>1. "commit_learned" \in Failure /\ "commit_istart" \in Failure
    BY DEF Failure
  <2> QED BY <2>1 DEF Commit
<1> QED BY <1>4, <1>5, <1>6, <1>7, <1>8

LEMMA LearnedKeeps ==
  ASSUME TypeInv, NEW a \in Member, LogInv(a), Learned(a), Learnable(a), call[a].fn = "learn",
         UNCHANGED call, alist'[a] \subseteq alist[a],
         ilist[a][ihole[a]].val.kind = "part" => ilist[a][ihole[a]].val.arg \notin alist'[a]
  PROVE  /\ LogInv(a)' /\ Learns(a)
         /\ \A i \in Inum : /\ ilist'[a][i].bal = ilist[a][i].bal /\ ilist'[a][i].val = ilist[a][i].val
                            /\ ilist'[a][i].committed = ilist[a][i].committed
         /\ \A b \in Member \ {a} : ilist'[b] = ilist[b] /\ ihole'[b] = ihole[b]
<1> DEFINE h == ihole[a]
           e == [ilist[a][h] EXCEPT !.learned = TRUE]
<1>1. h \in Inum /\ ilist[a][h].committed /\ ilist[a][h].cached
  BY DEF Learnable
<1>2. h \in Nat /\ Inum \subseteq Nat
  BY <1>1, BaseInum
<1>3. ilist' = [ilist EXCEPT ![a][h] = e]
  BY DEF Learned
<1>4. ilist[a] \in [Inum -> Entry] /\ ilist \in Lists
  BY TypeInvElim DEF Lists
<1>5. /\ e.learned /\ e.committed = ilist[a][h].committed /\ e.cached = ilist[a][h].cached
      /\ e.bal = ilist[a][h].bal /\ e.val = ilist[a][h].val
  BY <1>1, <1>4 DEF Entry
<1> HIDE DEF e
<1>6. /\ ilist'[a][h] = e
      /\ \A i \in Inum \ {h} : ilist'[a][i] = ilist[a][i]
      /\ \A b \in Member \ {a} : ilist'[b] = ilist[b]
  BY <1>1, <1>3, <1>4 DEF Lists
<1>7. ihole'[a] = h + 1 /\ \A b \in Member \ {a} : ihole'[b] = ihole[b]
  BY TypeInvElim DEF Learned
<1>8. \A i \in Inum : (i < h + 1 <=> i < h \/ i = h) /\ (i >= h + 1 => i >= h /\ i # h)
  BY <1>2
<1>9. \A i \in Inum : /\ ilist'[a][i].bal = ilist[a][i].bal /\ ilist'[a][i].val = ilist[a][i].val
                      /\ ilist'[a][i].committed = ilist[a][i].committed
  BY <1>5, <1>6
<1>10. \A i \in Inum :
         /\ i < ihole'[a] => ilist'[a][i].committed /\ ilist'[a][i].cached /\ ilist'[a][i].learned
         /\ i >= ihole'[a] => ~ilist'[a][i].learned
  BY <1>1, <1>5, <1>6, <1>7, <1>8 DEF LogInv
<1>11. \A i \in Inum : i < ihole'[a] /\ ilist'[a][i].val.kind = "part"
                         => ilist'[a][i].val.arg \notin alist'[a]
  BY <1>7, <1>8, <1>9 DEF LogInv
<1>12. LogInv(a)'
  BY <1>9, <1>10, <1>11 DEF LogInv
<1>13. Learns(a)
  BY <1>7, <1>9 DEF Learns
<1> QED BY <1>6, <1>7, <1>9, <1>12, <1>13

(* A prepare is a member's own. *)
LEMMA PrepareFacts ==
  ASSUME TypeInv, NEW a \in Member, NEW al \in SUBSET Member, NEW pe \in SUBSET Member,
         NEW net \in Links, Within(net, link), NEW gone \in SUBSET Member,
         NEW ended \in {"ended"} \cup Failure, Prepare(a, al, pe, net, gone, ended)
  PROVE  /\ \A b \in Member \ {a} : status'[b] = status[b] /\ prep'[b] = prep[b]
         /\ status'[a] = "live" =>
              status[a] = "live" /\ prep'[a].bal.id = a /\ prep'[a] # NoPrep
         /\ Fresh(link', a)
<1>1. CASE Stop(a, ended, net) /\ UNCHANGED prep
  <2>1. "live" \notin {"ended"} \cup Failure
    BY DEF Failure
  <2>2. Within(link', net)
    BY <1>1, UnreadContents DEF Stop
  <2>3. Within(link', link)
    BY <2>2 DEF Within
  <2> QED BY <1>1, <2>1, <2>3, WithinFresh DEF Stop, TypeInv, TypeOK
<1>2. CASE /\ UNCHANGED status
           /\ prep' = [prep EXCEPT ![a] = [bal |-> NextBallot(a), acks |-> 1, redirects |-> 0,
                                           istart |-> istart[a]]]
           /\ link' = Send(net, a, pe, [op |-> "prepare", bal |-> NextBallot(a), inum |-> ihole[a]])
  <2>1. /\ prep'[a].bal = NextBallot(a) /\ \A b \in Member \ {a} : prep'[b] = prep[b]
        /\ prep'[a].acks = 1 /\ NoPrep.acks = 0
    BY <1>2 DEF TypeInv, TypeOK, NoPrep
  <2>2. prep'[a].bal.id = a /\ prep'[a] # NoPrep
    BY <2>1 DEF NextBallot
  <2>3. Fresh(link', a)
    <3> DEFINE m == [op |-> "prepare", bal |-> NextBallot(a), inum |-> ihole[a]]
    <3>1. \A y : News(a, y, m)
      BY NoNews
    <3>2. link' = Send(net, a, pe, m)
      BY <1>2
    <3> HIDE DEF m
    <3> QED BY <3>1, <3>2, WithinFresh, SendFresh
  <2> QED BY <1>2, <2>1, <2>2, <2>3
<1> QED BY <1>1, <1>2 DEF Prepare

LEMMA PreparedWork ==
  ASSUME NEW a \in Member, prep'[a].bal.id = a, prep'[a] # NoPrep, Rejected(clist'[a]) = {}
  PROVE  WorkInv(a)'
BY DEF WorkInv, Preparing, Leads

LEMMA LearnHole ==
  ASSUME TypeInv, RoleInv, HoleInv, NEW a \in Member, Learn(a)
  PROVE  HoleKept
<1> DEFINE v == ilist[a][ihole[a]].val
<1>1. /\ status[a] = "live" /\ call[a].fn = "learn" /\ Learnable(a)
      /\ UNCHANGED <<ballot, clist, call>>
  BY DEF Learn
<1>2. LogInv(a) /\ WorkInv(a) /\ alist[a] \in SUBSET Member
  BY TypeInvElim DEF HoleInv
<1>3. ASSUME NEW why \in {"ended"} \cup Failure, Stop(a, why, link),
             UNCHANGED <<alist, proposer, prep, ilist, ihole>>
      PROVE  HoleKept
  BY <1>1, <1>3, StopHole
<1>4. ASSUME Learned(a), UNCHANGED <<status, sess, prep, link>>,
             v.kind = "part" => v.arg \notin alist[a]
      PROVE  HoleKept
  <2>1. /\ LogInv(a)' /\ Learns(a)
        /\ \A i \in Inum : /\ ilist'[a][i].bal = ilist[a][i].bal /\ ilist'[a][i].val = ilist[a][i].val
                           /\ ilist'[a][i].committed = ilist[a][i].committed
        /\ \A b \in Member \ {a} : ilist'[b] = ilist[b] /\ ihole'[b] = ihole[b]
    BY <1>1, <1>2, <1>4, LearnedKeeps DEF sess
  <2>2. Leads(a)' <=> Leads(a)
    BY <1>1, <1>4 DEF Leads, IsProposer, Preparing, sess
  <2>3. Alone(a) /\ KeepsLead(a)
    BY <1>1, <1>4, <2>1, <2>2 DEF Alone, Own, KeepsLead, sess
  <2>4. \A k \in Rejected(clist[a]) : k.inum \in Inum
    BY RejectedInum
  <2>5. WorkInv(a)'
    BY <1>1, <1>2, <1>4, <2>1, <2>2, <2>4 DEF WorkInv, IsProposer, Preparing, sess
  <2>6. Fresh(link', a)
    BY <1>4, LinkIn, WithinFresh
  <2> QED BY <2>1, <2>3, <2>5, <2>6, HoleStep
<1>5. ASSUME NEW y \in Member, y # a, y = v.arg, LearnPart(a, y)
      PROVE  HoleKept
  <2> DEFINE al == alist[a] \ {y}
             pe == peer[a] \ {y}
             net == Unread(link, a, {y})
             np == Reelected(a, y, pe)
             gone == Unconnected(a, al, pe)
  <2>1. /\ al \in SUBSET Member /\ pe \in SUBSET Member /\ gone \in SUBSET Member
        /\ net \in Links /\ Within(net, link)
    BY TypeInvElim, UnreadType, UnreadContents DEF Unconnected
  <2>2. alist' = [alist EXCEPT ![a] = al] /\ proposer' = [proposer EXCEPT ![a] = np] /\ Learned(a)
    BY <1>5 DEF LearnPart
  <2>3. \/ Prepare(a, al, pe, net, gone, "ended") /\ np = a /\ y = proposer[a]
        \/ UNCHANGED <<status, prep>> /\ link' = net /\ (y # proposer[a] \/ np # a)
    BY <1>5 DEF LearnPart
  <2>4. y # proposer[a] => np = proposer[a]
    BY DEF Reelected
  <2> HIDE DEF al, pe, net, gone, np
  <2>5. /\ alist'[a] = al /\ proposer'[a] = np
        /\ \A b \in Member \ {a} : alist'[b] = alist[b] /\ proposer'[b] = proposer[b]
    BY <2>2 DEF TypeInv, TypeOK
  <2>6. al \subseteq alist[a] /\ v.arg \notin al
    BY <1>5 DEF al
  <2>7. /\ LogInv(a)' /\ Learns(a)
        /\ \A i \in Inum : /\ ilist'[a][i].bal = ilist[a][i].bal /\ ilist'[a][i].val = ilist[a][i].val
                           /\ ilist'[a][i].committed = ilist[a][i].committed
        /\ \A b \in Member \ {a} : ilist'[b] = ilist[b] /\ ihole'[b] = ihole[b]
    BY <1>1, <1>2, <2>2, <2>5, <2>6, LearnedKeeps
  <2>8. CASE Prepare(a, al, pe, net, gone, "ended") /\ np = a /\ y = proposer[a]
    <3>1. /\ \A b \in Member \ {a} : status'[b] = status[b] /\ prep'[b] = prep[b]
          /\ status'[a] = "live" => prep'[a].bal.id = a /\ prep'[a] # NoPrep
          /\ Fresh(link', a)
      BY <2>1, <2>8, PrepareFacts
    <3>2. ~IsProposer(a) /\ Rejected(clist'[a]) = {}
      BY <1>1, <1>2, <1>5, <2>8, RejectedLeads DEF IsProposer
    <3>3. KeepsLead(a)
      BY <1>1, <3>2 DEF KeepsLead, Leads
    <3>4. Alone(a)
      BY <1>1, <2>5, <2>7, <3>1 DEF Alone, Own
    <3>5. WorkInv(a)'
      <4>1. CASE status'[a] = "live"
        BY <3>1, <3>2, <4>1, PreparedWork
      <4>2. CASE status'[a] # "live"
        BY <4>2 DEF WorkInv
      <4> QED BY <4>1, <4>2
    <3> QED BY <2>7, <3>1, <3>3, <3>4, <3>5, HoleStep
  <2>9. CASE UNCHANGED <<status, prep>> /\ link' = net /\ (y # proposer[a] \/ np # a)
    <3>1. IsProposer(a)' <=> IsProposer(a)
      BY <1>5, <2>4, <2>5, <2>9 DEF IsProposer
    <3>2. Leads(a)' <=> Leads(a)
      BY <1>1, <2>9, <3>1 DEF Leads, Preparing
    <3>3. Alone(a) /\ KeepsLead(a)
      BY <1>1, <2>5, <2>7, <2>9, <3>2 DEF Alone, Own, KeepsLead
    <3>4. \A k \in Rejected(clist[a]) : k.inum \in Inum
      BY RejectedInum
    <3>5. WorkInv(a)'
      BY <1>1, <1>2, <2>7, <2>9, <3>1, <3>2, <3>4 DEF WorkInv, Preparing
    <3>6. Fresh(link', a)
      BY <2>1, <2>9, WithinFresh
    <3> QED BY <2>7, <3>3, <3>5, <3>6, HoleStep
  <2> QED BY <2>3, <2>8, <2>9
<1>6. \/ \E why \in {"ended"} \cup Failure :
           Stop(a, why, link) /\ UNCHANGED <<alist, proposer, prep, ilist, ihole>>
      \/ /\ Learned(a) /\ UNCHANGED <<status, sess, prep, link>>
         /\ v.kind = "part" => v.arg \notin alist[a]
      \/ v.arg \in Member /\ v.arg # a /\ LearnPart(a, v.arg)
  <2>1. "chat_author" \in Failure /\ "null_session" \in Failure
    BY DEF Failure
  <2>2. CASE v.kind = "chat" /\ LearnChat(a, v)
    BY <2>1, <2>2 DEF LearnChat
  <2>3. CASE LearnOwnPart(a)
    BY <2>1, <2>3 DEF LearnOwnPart
  <2>4. CASE v.arg # a /\ v.arg \in alist[a] /\ LearnPart(a, v.arg)
    BY <1>2, <2>4
  <2>5. CASE /\ v.kind \notin {"part", "kill"} \/ (v.arg # a /\ v.arg \notin alist[a])
             /\ Learned(a) /\ UNCHANGED <<status, sess, gen_high, prep, dparts, link>>
    BY <2>5
  <2>6. CASE v.kind = "chat"
    BY <2>2, <2>6 DEF Learn
  <2>7. CASE v.kind \in {"part", "kill"}
    <3>1. CASE v.arg = a
      BY <2>3, <2>7, <3>1 DEF Learn
    <3>2. CASE v.arg # a /\ v.arg \in alist[a]
      BY <2>4, <2>7, <3>2 DEF Learn
    <3>3. CASE v.arg # a /\ v.arg \notin alist[a]
      BY <2>5, <2>7, <3>3 DEF Learn
    <3> QED BY <3>1, <3>2, <3>3
  <2>8. CASE v.kind \notin {"chat", "part", "kill"}
    BY <2>5, <2>8 DEF Learn
  <2> QED BY <2>6, <2>7, <2>8
<1> QED BY <1>3, <1>4, <1>5, <1>6

LEMMA LearnEndHole ==
  ASSUME TypeInv, RoleInv, HoleInv, NEW a \in Member, LearnEnd(a)
  PROVE  HoleKept
<1>1. call' = [call EXCEPT ![a] = Return]
  BY DEF LearnEnd
<1>2. call'[a].fn # "commit" /\ \A b \in Member \ {a} : call'[b] = call[b]
  BY <1>1 DEF TypeInv, TypeOK, Return
<1>3. Fresh(link', a)
  BY LinkIn, WithinFresh DEF LearnEnd
<1> QED BY <1>2, <1>3, PlainHole DEF LearnEnd, sess, ballots

-----------------------------------------------------------------------------
(* What a proposer that leads decrees from the hole on. *)
LEMMA DecreeHole ==
  ASSUME TypeInv, RoleInv, HoleInv, NEW a \in Member, Leads(a), NEW i \in Inum, NEW v, NEW e,
         i >= ihole[a], ilist[a][i].bal # ballot[a],
         ilist[a][i].bal # NoBallot => v = ilist[a][i].val,
         e.bal = ballot[a], e.val = v, ~e.learned, ilist' = [ilist EXCEPT ![a][i] = e],
         UNCHANGED <<status, proposer, ballot, prep, ihole, alist, clist>>,
         \A b \in Member \ {a} : call'[b] = call[b],
         call'[a] = call[a] \/ call'[a].inum = i,
         NEW net \in Links, Fresh(net, a), NEW to,
         link' = Send(net, a, to, DecreeMsg(ballot[a], i, v))
  PROVE  HoleKept
<1> PICK m : m = DecreeMsg(ballot[a], i, v)
  OBVIOUS
<1>1. status[a] = "live" /\ ballot[a] # NoBallot /\ ballot[a].id = a
  <2>1. ballot[a] \in Ballot
    BY TypeInvElim
  <2>2. ballot[a] # NoBallot
    BY <2>1 DEF Ballot, NoBallot
  <2> QED BY <2>2 DEF Leads, HoleInv, WorkInv
<1>2. Lasts(a, i, e)
  <2>1. ~(i < ihole[a])
    BY BaseInum, HoleNat
  <2> QED BY <1>1, <2>1 DEF Lasts
<1>3. ilist'[a][i] = e
  BY TypeInvElim DEF Lists
<1>4. \A y : News(a, y, m)
  <2>1. Leads(a)'
    BY DEF Leads, IsProposer, Preparing
  <2>2. m.op = "decree" /\ m.bal = ballot[a] /\ m.inum = i /\ m.val = v
    BY DEF DecreeMsg
  <2>3. Holds(a, m)'
    BY <1>3, <2>1, <2>2 DEF Holds
  <2> QED BY <1>1, <2>2, <2>3 DEF News
<1>5. Fresh(link', a)
  BY <1>4, SendFresh
<1>6. \A k \in Rejected(clist'[a]) : k \in Rejected(clist[a])
  OBVIOUS
<1> QED BY <1>1, <1>2, <1>5, <1>6, PutHole

LEMMA RedecreeHole ==
  ASSUME TypeInv, RoleInv, HoleInv, NEW a \in Member, Redecree(a)
  PROVE  HoleKept
<1> DEFINE i == Least(Undecreed(a))
           absent == ilist[a][i].bal = NoBallot
           v == IF absent THEN Null(a) ELSE ilist[a][i].val
           e == Decreed(ballot[a], v)
<1>1. status[a] = "live" /\ Preparing(a) /\ Leads(a)
  BY DEF Redecree, Redecreeing, Leads, RoleInv, Working
<1>2. i \in Inum /\ i >= ihole[a] /\ ilist[a][i].bal # ballot[a]
  <2>1. Undecreed(a) \in SUBSET Inum /\ Undecreed(a) # {}
    BY DEF Undecreed, Redecree
  <2>2. i \in Undecreed(a)
    BY <2>1, LeastInum
  <2>3. i \in Inum /\ ihole[a] <= i /\ ilist[a][i].bal # ballot[a]
    BY <2>2 DEF Undecreed
  <2>4. i \in Nat /\ ihole[a] \in Nat
    BY <2>3, BaseInum, HoleNat
  <2> HIDE DEF i
  <2> QED BY <2>3, <2>4
<1>3. e.bal = ballot[a] /\ e.val = v /\ ~e.learned
  <2> HIDE DEF v
  <2> QED BY DEF Decreed, Absent
<1>6. ilist[a][i].bal # NoBallot => v = ilist[a][i].val
  OBVIOUS
<1>4. /\ ilist' = [ilist EXCEPT ![a][i] = e]
      /\ link' = Send(link, a, peer[a], DecreeMsg(ballot[a], i, v))
      /\ UNCHANGED <<status, proposer, ballot, prep, ihole, alist, clist, call>>
  BY DEF Redecree, sess, ballots
<1>5. link \in Links /\ Fresh(link, a)
  BY LinkIn, WithinFresh
<1> HIDE DEF i, v, e
<1> QED BY <1>1, <1>2, <1>3, <1>4, <1>5, <1>6, DecreeHole

(* The loop is over: what is not committed has been decreed. *)
LEMMA EndPrepareHole ==
  ASSUME TypeInv, RoleInv, HoleInv, NEW a \in Member, EndPrepare(a)
  PROVE  HoleKept
<1>1. /\ status[a] = "live" /\ Preparing(a) /\ ballot[a] = prep[a].bal /\ Undecreed(a) = {}
      /\ prep' = [prep EXCEPT ![a] = NoPrep]
      /\ UNCHANGED <<status, proposer, ballot, ilist, ihole, alist, clist, call, link>>
  BY DEF EndPrepare, Redecreeing, sess, logs
<1>2. prep'[a] = NoPrep /\ \A b \in Member \ {a} : prep'[b] = prep[b]
  BY <1>1 DEF TypeInv, TypeOK
<1>3. Leads(a) /\ Leads(a)'
  BY <1>1, <1>2 DEF Leads, IsProposer, Preparing, RoleInv, Working
<1>4. LogInv(a) /\ WorkInv(a)
  BY DEF HoleInv
<1>5. Alone(a) /\ KeepsLead(a) /\ Learns(a)
  BY <1>1, <1>2, <1>3 DEF Alone, Own, KeepsLead, Learns
<1>6. LogInv(a)'
  BY <1>1, <1>4 DEF LogInv
<1>7. \A i \in Inum : ilist[a][i].bal \in {NoBallot, ballot[a]} \/ ilist[a][i].committed
  <2> SUFFICES ASSUME NEW i \in Inum, ilist[a][i].bal # NoBallot, ilist[a][i].bal # ballot[a],
                      ~ilist[a][i].committed
               PROVE  FALSE
    OBVIOUS
  <2>1. ~(i < ihole[a]) /\ ~(i > Last(ilist[a]))
    BY <1>4, Listed DEF LogInv
  <2>2. i \in Nat /\ ihole[a] \in Nat /\ Last(ilist[a]) \in Nat
    BY <1>4, Listed, BaseInum, HoleNat
  <2>3. i \in Undecreed(a)
    BY <2>1, <2>2 DEF Undecreed
  <2> QED BY <1>1, <2>3
<1>8. Rejected(clist'[a]) = {}
  BY <1>1, <1>4 DEF WorkInv
<1>9. WorkInv(a)'
  BY <1>1, <1>2, <1>3, <1>4, <1>7, <1>8 DEF WorkInv, Preparing
<1>10. Fresh(link', a)
  BY <1>1, LinkIn, WithinFresh
<1> QED BY <1>5, <1>6, <1>9, <1>10, HoleStep

(* proposer_decree(): after the last instance of the list. *)
LEMMA ProposerDecreeHole ==
  ASSUME TypeInv, RoleInv, HoleInv, NEW a \in Member, NEW v, NEW pe,
         NEW net \in Links, Fresh(net, a), status[a] = "live", IsProposer(a), ~Preparing(a),
         ProposerDecree(a, v, pe, net),
         UNCHANGED <<status, proposer, ballot, prep, ihole, alist, clist>>
  PROVE  HoleKept
<1> DEFINE i == Last(ilist[a]) + 1
           alone == Majority(alist[a]) = 1
           e == [Decreed(ballot[a], v) EXCEPT !.opcode = IF alone THEN "commit" ELSE @]
<1>1. /\ i <= MaxInum /\ ilist' = [ilist EXCEPT ![a][i] = e]
      /\ link' = Send(net, a, pe, DecreeMsg(ballot[a], i, v))
      /\ call' = [call EXCEPT ![a] = IF alone THEN [fn |-> "commit", inum |-> i] ELSE @]
  BY DEF ProposerDecree
<1>2. LogInv(a)
  BY DEF HoleInv
<1>3. i \in Inum /\ i >= ihole[a] /\ ilist[a][i].bal # ballot[a] /\ ilist[a][i].bal = NoBallot
  <2>1. i \in Inum
    BY <1>1, LastType, BoundAssumption DEF Inum
  <2>2. Last(ilist[a]) \in Nat
    BY LastType, BaseInum
  <2>3. i > Last(ilist[a])
    BY <2>2
  <2>4. i >= ihole[a] /\ ilist[a][i].bal = NoBallot
    BY <1>2, <2>1, <2>3, Listed
  <2>5. ballot[a] \in Ballot
    BY TypeInvElim
  <2>6. ballot[a] # NoBallot
    BY <2>5 DEF Ballot, NoBallot
  <2> QED BY <2>1, <2>4, <2>6
<1>4. e.bal = ballot[a] /\ e.val = v /\ ~e.learned
  BY DEF Decreed, Absent
<1>5. Leads(a)
  BY DEF Leads
<1>6. (call'[a] = call[a] \/ call'[a].inum = i) /\ \A b \in Member \ {a} : call'[b] = call[b]
  BY <1>1 DEF TypeInv, TypeOK
<1> HIDE DEF i, e
<1> QED BY <1>1, <1>3, <1>4, <1>5, <1>6, DecreeHole

LEMMA SubmitHole ==
  ASSUME TypeInv, RoleInv, HoleInv, NEW a \in Member, NEW v, NEW pe,
         NEW net \in Links, Fresh(net, a), status[a] = "live", IsProposer(a),
         Submit(a, v, pe, net),
         UNCHANGED <<status, proposer, ballot, prep, ihole, alist, clist>>
  PROVE  HoleKept
<1>1. CASE Preparing(a)
  <2>1. link' = net /\ UNCHANGED <<logs, call>>
    BY <1>1 DEF Submit
  <2>2. LogInv(a)
    BY DEF HoleInv
  <2> QED BY <2>1, <2>2, PlainHole DEF logs, LogInv
<1>2. CASE ~Preparing(a)
  <2>1. ProposerDecree(a, v, pe, net)
    BY <1>2 DEF Submit
  <2> QED BY <1>2, <2>1, ProposerDecreeHole
<1> QED BY <1>1, <1>2

LEMMA DrainHole ==
  ASSUME TypeInv, RoleInv, HoleInv, NEW a \in Member, Drain(a)
  PROVE  HoleKept
<1>1. status[a] = "live" /\ ~Preparing(a) /\ IsProposer(a)
  BY DEF Drain, Draining, RoleInv, Working
<1>2. \E v : ProposerDecree(a, v, peer[a], link)
  BY DEF Drain
<1>3. UNCHANGED <<status, proposer, ballot, prep, ihole, alist, clist>>
  BY DEF Drain, sess, ballots
<1> QED BY <1>1, <1>2, <1>3, LinkIn, WithinFresh, ProposerDecreeHole

LEMMA RequestHole ==
  ASSUME TypeInv, RoleInv, HoleInv, NEW a \in Member, NEW v \in Chat, Request(a, v)
  PROVE  HoleKept
<1> DEFINE m == [op |-> "request", who |-> proposer[a], val |-> v]
           net == Send(link, a, peer[a], m)
<1>1. status[a] = "live" /\ UNCHANGED <<status, proposer, ballot, prep, ihole, alist, clist>>
  BY DEF Request, sess, ballots
<1>2. net \in Links
  <2>1. m \in Message
    BY ChatAssumption, MemberNat, TypeInvElim DEF Message
  <2> HIDE DEF m
  <2> QED BY <2>1, LinkIn, SendType
<1>3. Fresh(net, a)
  <2>1. \A y : News(a, y, m)
    BY NoNews
  <2> HIDE DEF m
  <2> QED BY <2>1, LinkIn, WithinFresh, SendFresh
<1>4. \/ IsProposer(a) /\ Submit(a, v, peer[a], net)
      \/ link' = net /\ UNCHANGED <<logs, call>>
  BY DEF Request
<1> HIDE DEF net
<1>5. CASE IsProposer(a) /\ Submit(a, v, peer[a], net)
  BY <1>1, <1>2, <1>3, <1>5, SubmitHole
<1>6. CASE link' = net /\ UNCHANGED <<logs, call>>
  <2>1. LogInv(a)
    BY DEF HoleInv
  <2> QED BY <1>1, <1>3, <1>6, <2>1, PlainHole DEF logs, LogInv
<1> QED BY <1>4, <1>5, <1>6

LEMMA ProposerAckRequestHole ==
  ASSUME TypeInv, RoleInv, HoleInv, NEW a \in Member, NEW x \in Member, ProposerAckRequest(a, x)
  PROVE  HoleKept
<1>1. status[a] = "live" /\ Rest(a, x) \in Links /\ Fresh(Rest(a, x), a)
  BY Read DEF ProposerAckRequest
<1>2. IsProposer(a) /\ UNCHANGED <<status, proposer, ballot, prep, ihole, alist, clist>>
  BY DEF ProposerAckRequest, sess, ballots
<1>3. \E v : Submit(a, v, peer[a], Rest(a, x))
  BY DEF ProposerAckRequest
<1> QED BY <1>1, <1>2, <1>3, SubmitHole

-----------------------------------------------------------------------------
(* Requests, and what else changes neither lists nor roles. *)

LEMMA AcceptorAckRequestHole ==
  ASSUME TypeInv, RoleInv, HoleInv, NEW a \in Member, NEW x \in Member, AcceptorAckRequest(a, x)
  PROVE  HoleKept
<1> DEFINE no == [op |-> "refuse", who |-> proposer[a]]
<1>1. Rest(a, x) \in Links /\ Fresh(Rest(a, x), a)
  BY Read DEF AcceptorAckRequest
<1>2. link' = Rest(a, x) \/ link' = Send(Rest(a, x), a, {x}, no)
  BY DEF AcceptorAckRequest
<1>3. \A y : News(a, y, no)
  BY NoNews
<1> HIDE DEF no
<1>4. Fresh(link', a)
  BY <1>1, <1>2, <1>3, SendFresh
<1>5. LogInv(a)
  BY DEF HoleInv
<1> QED BY <1>4, <1>5, PlainHole DEF AcceptorAckRequest, sess, ballots, logs, LogInv

LEMMA AckRefuseHole ==
  ASSUME TypeInv, RoleInv, HoleInv, NEW a \in Member, NEW x \in Member, AckRefuse(a, x)
  PROVE  HoleKept
<1>1. Fresh(Rest(a, x), a)
  BY Read DEF AckRefuse
<1>2. UNCHANGED <<proposer, ballot, prep, ilist, ihole, alist, clist, call>>
  BY DEF AckRefuse, ballots, logs
<1>3. LogInv(a)
  BY DEF HoleInv
<1>4. CASE link' = Rest(a, x) /\ UNCHANGED <<status, peer>>
  BY <1>1, <1>2, <1>3, <1>4, PlainHole DEF LogInv
<1>5. CASE Stop(a, "target", link)
  BY <1>2, <1>5, StopHole DEF Failure
<1> QED BY <1>4, <1>5 DEF AckRefuse

LEMMA AckRetrieveHole ==
  ASSUME TypeInv, RoleInv, HoleInv, NEW a \in Member, NEW x \in Member, AckRetrieve(a, x)
  PROVE  HoleKept
<1> DEFINE m == Msg(a, x)
           r == [op |-> "resend", inum |-> m.inum, val |-> m.val]
<1>1. Rest(a, x) \in Links /\ Fresh(Rest(a, x), a)
  BY Read DEF AckRetrieve
<1>2. link' = Rest(a, x) \/ link' = Send(Rest(a, x), a, {m.who} \cap peer[a], r)
  BY DEF AckRetrieve
<1>3. \A y : News(a, y, r)
  BY NoNews
<1> HIDE DEF m, r
<1>4. Fresh(link', a)
  BY <1>1, <1>2, <1>3, SendFresh
<1>5. LogInv(a)
  BY DEF HoleInv
<1> QED BY <1>4, <1>5, PlainHole DEF AckRetrieve, sess, ballots, logs, LogInv

LEMMA AckResendHole ==
  ASSUME TypeInv, RoleInv, HoleInv, NEW a \in Member, NEW x \in Member, AckResend(a, x)
  PROVE  HoleKept
<1> DEFINE i == Msg(a, x).inum
<1>1. link' = Rest(a, x) /\ Fresh(Rest(a, x), a)
  BY Read DEF AckResend
<1>2. UNCHANGED <<status, proposer, ballot, prep, ilist, ihole, alist, clist>>
  BY DEF AckResend, sess, ballots, logs
<1>3. LogInv(a)
  BY DEF HoleInv
<1>4. \/ call' = call
      \/ ilist[a][i].bal # NoBallot /\ call' = [call EXCEPT ![a] = [fn |-> "commit", inum |-> i]]
  BY DEF AckResend, Enter
<1>5. /\ \A b \in Member \ {a} : call'[b] = call[b]
      /\ call'[a] = call[a] \/ (ilist[a][i].bal # NoBallot /\ call'[a].inum = i)
  BY <1>4 DEF TypeInv, TypeOK
<1>6. call'[a].fn = "commit" => ilist[a][call'[a].inum].bal # NoBallot
  BY <1>3, <1>5 DEF LogInv
<1> QED BY <1>1, <1>2, <1>5, <1>6, PlainHole

LEMMA AckRetryHole ==
  ASSUME TypeInv, RoleInv, HoleInv, NEW a \in Member, NEW x \in Member, AckRetry(a, x)
  PROVE  HoleKept
<1> DEFINE m == Msg(a, x)
           c == [op |-> "recommit", bal |-> m.bal, inum |-> m.inum, val |-> ilist[a][m.inum].val]
<1>1. Rest(a, x) \in Links /\ Fresh(Rest(a, x), a)
  BY Read DEF AckRetry
<1>2. UNCHANGED <<proposer, ballot, prep, ilist, ihole, alist, clist, call>>
  BY DEF AckRetry, ballots, logs
<1>3. LogInv(a)
  BY DEF HoleInv
<1>4. \A y : News(a, y, c)
  BY NoNews
<1>5. \/ /\ link' = Rest(a, x) \/ link' = Send(Rest(a, x), a, peer[a], c)
         /\ UNCHANGED <<status, peer>>
      \/ Stop(a, "instance", link)
  BY DEF AckRetry
<1> HIDE DEF m, c
<1>6. CASE /\ link' = Rest(a, x) \/ link' = Send(Rest(a, x), a, peer[a], c)
           /\ UNCHANGED <<status, peer>>
  <2>1. Fresh(link', a)
    BY <1>1, <1>4, <1>6, SendFresh
  <2> QED BY <1>2, <1>3, <1>6, <2>1, PlainHole DEF LogInv
<1>7. CASE Stop(a, "instance", link)
  BY <1>2, <1>7, StopHole DEF Failure
<1> QED BY <1>5, <1>6, <1>7

LEMMA LeaveHole ==
  ASSUME TypeInv, RoleInv, HoleInv, NEW a \in Member, Leave(a)
  PROVE  HoleKept
BY StopHole DEF Leave, ballots, logs

-----------------------------------------------------------------------------
(* Prepares. *)

(* An acceptor that promises, or that takes an instance, leads nothing. *)
LEMMA AckPrepareHole ==
  ASSUME TypeInv, RoleInv, HoleInv, NEW a \in Member, NEW x \in Member, AckPrepare(a, x)
  PROVE  HoleKept
<1> DEFINE m == Msg(a, x)
           no == [op |-> "redirect", bal |-> m.bal, who |-> proposer[a]]
           yes == [op |-> "promise", bal |-> m.bal, inum |-> m.inum,
                   log |-> Accepts(ilist[a], m.inum)]
<1>1. status[a] = "live" /\ Rest(a, x) \in Links /\ Fresh(Rest(a, x), a)
  BY Read DEF AckPrepare
<1>2. /\ ~IsProposer(a)
      /\ UNCHANGED <<status, proposer, prep, ilist, ihole, alist, clist, call>>
  BY DEF AckPrepare, sess, logs
<1>3. link' = Send(Rest(a, x), a, {x}, no) \/ link' = Send(Rest(a, x), a, {x}, yes)
  BY DEF AckPrepare
<1>4. \A y : News(a, y, no) /\ News(a, y, yes)
  BY NoNews
<1> HIDE DEF no, yes
<1>5. Fresh(link', a)
  BY <1>1, <1>3, <1>4, SendFresh
<1>6. \A b \in Member \ {a} : ballot'[b] = ballot[b]
  BY DEF AckPrepare, TypeInv, TypeOK
<1>7. Alone(a) /\ KeepsLead(a) /\ Learns(a)
  BY <1>1, <1>2, <1>6 DEF Alone, Own, KeepsLead, Leads, Learns
<1>8. LogInv(a) /\ WorkInv(a)
  BY DEF HoleInv
<1>9. LogInv(a)'
  BY <1>2, <1>8 DEF LogInv
<1>10. ~Preparing(a) /\ Rejected(clist[a]) = {}
  BY <1>1, <1>2, <1>8, RejectedLeads
<1>11. WorkInv(a)'
  BY <1>2, <1>10 DEF WorkInv, IsProposer, Preparing, Leads
<1> QED BY <1>5, <1>7, <1>9, <1>11, HoleStep

(* A proposer without its majority. *)
LEMMA QuietLeads ==
  ASSUME NEW a \in Member, Quiet, status[a] = "live", Preparing(a)
  PROVE  ~Leads(a)
BY DEF Quiet, Busy, Redecreeing, Leads

LEMMA PreparingHole ==
  ASSUME TypeInv, HoleInv, NEW a \in Member, status[a] = "live", ~Leads(a), Alone(a), Learns(a), LogInv(a)',
         status'[a] = "live" => prep'[a].bal.id = a, Rejected(clist'[a]) = {}, Fresh(link', a)
  PROVE  HoleKept
<1>1. KeepsLead(a)
  BY DEF KeepsLead
<1>2. WorkInv(a)'
  <2>1. CASE status'[a] = "live"
    <3>1. a # 0 /\ NoPrep.bal.id = 0
      BY MemberNat DEF NoPrep, NoBallot
    <3>2. prep'[a] # NoPrep
      BY <2>1, <3>1
    <3> QED BY <2>1, <3>2, PreparedWork
  <2>2. CASE status'[a] # "live"
    BY <2>2 DEF WorkInv
  <2> QED BY <2>1, <2>2
<1> QED BY <1>1, <1>2, HoleStep

(* What a promise brings is from the hole on, and not committed. *)
LEMMA Merged ==
  ASSUME TypeInv, NEW a \in Member, LogInv(a), NEW vs \in [Inum -> Vote], NEW i \in Inum
  PROVE  \/ Merge(ilist[a], vs)[i] = ilist[a][i]
         \/ /\ ~(i < ihole[a]) /\ ~ilist[a][i].committed /\ Merge(ilist[a], vs)[i].bal # NoBallot
            /\ Merge(ilist[a], vs)[i].committed = FALSE /\ Merge(ilist[a], vs)[i].learned = FALSE
<1> DEFINE e == [Absent EXCEPT !.bal = vs[i].bal, !.val = vs[i].val]
<1>1. Merge(ilist[a], vs)[i] =
        IF i \in Missing(ilist[a], vs) \cup Newer(ilist[a], vs) THEN e ELSE ilist[a][i]
  BY DEF Merge
<1>2. e.bal = vs[i].bal /\ e.committed = FALSE /\ e.learned = FALSE
  BY DEF Absent
<1> HIDE DEF e
<1>3. CASE i \in Missing(ilist[a], vs) \cup Newer(ilist[a], vs)
  <2>1. vs[i].bal # NoBallot /\ ~ilist[a][i].committed
    BY <1>3 DEF Missing, Newer, Voted, LogInv
  <2>2. ~(i < ihole[a])
    BY <2>1 DEF LogInv
  <2> QED BY <1>1, <1>2, <1>3, <2>1, <2>2
<1>4. CASE i \notin Missing(ilist[a], vs) \cup Newer(ilist[a], vs)
  BY <1>1, <1>4
<1> QED BY <1>3, <1>4

LEMMA AckPromiseHole ==
  ASSUME TypeInv, RoleInv, HoleInv, NEW a \in Member, NEW x \in Member, AckPromise(a, x)
  PROVE  HoleKept
<1> DEFINE m == Msg(a, x)
           p == prep[a]
           il == Merge(ilist[a], m.log)
<1>1. /\ status[a] = "live" /\ call[a] = Return /\ m \in Message /\ m.op = "promise"
      /\ Rest(a, x) \in Links /\ Fresh(Rest(a, x), a) /\ Quiet
  BY Read DEF AckPromise, Incoming
<1>2. UNCHANGED <<alist, proposer, ihole, clist, call>>
  BY DEF AckPromise
<1>3. LogInv(a) /\ WorkInv(a)
  BY DEF HoleInv
<1>4. CASE link' = Rest(a, x) /\ UNCHANGED <<status, peer, ballot, prep, logs>>
  BY <1>1, <1>2, <1>3, <1>4, PlainHole DEF logs, LogInv
<1>5. ASSUME NEW why \in Failure, Stop(a, why, link), UNCHANGED <<ballot, prep, logs>>
      PROVE  HoleKept
  BY <1>2, <1>5, StopHole DEF logs
<1>6. CASE /\ Preparing(a) /\ ilist' = [ilist EXCEPT ![a] = il]
           /\ \E n, s : prep' = [prep EXCEPT ![a] = [p EXCEPT !.acks = n, !.istart = s]]
           /\ ballot' = [ballot EXCEPT ![a] = p.bal] \/ ballot' = ballot
           /\ link' = Rest(a, x) /\ UNCHANGED <<status, peer>>
  <2>1. m.log \in [Inum -> Vote]
    BY <1>1, MessageFields
  <2>2. p \in Prep
    BY TypeInvElim
  <2>3. prep'[a].bal = p.bal
    BY <1>6, <2>2, TypeInvElim DEF Prep
  <2>4. /\ ilist'[a] = il
        /\ \A b \in Member \ {a} :
             ilist'[b] = ilist[b] /\ prep'[b] = prep[b] /\ ballot'[b] = ballot[b]
    BY <1>6 DEF TypeInv, TypeOK
  <2> HIDE DEF m, p
  <2>5. Alone(a)
    BY <1>2, <1>6, <2>4 DEF Alone, Own
  <2>6. ~Leads(a)
    BY <1>1, <1>6, QuietLeads
  <2>7. prep'[a].bal.id = a /\ Rejected(clist'[a]) = {}
    BY <1>1, <1>2, <1>3, <1>6, <2>3 DEF WorkInv, p
  <2>8. \A i \in Inum :
          \/ ilist'[a][i] = ilist[a][i]
          \/ /\ ~(i < ihole[a]) /\ ~ilist[a][i].committed /\ ilist'[a][i].bal # NoBallot
             /\ ilist'[a][i].committed = FALSE /\ ilist'[a][i].learned = FALSE
    <3> TAKE i \in Inum
    <3>1. \/ il[i] = ilist[a][i]
          \/ /\ ~(i < ihole[a]) /\ ~ilist[a][i].committed /\ il[i].bal # NoBallot
             /\ il[i].committed = FALSE /\ il[i].learned = FALSE
      BY <1>3, <2>1, Merged
    <3> HIDE DEF il
    <3> QED BY <2>4, <3>1
  <2> HIDE DEF il
  <2>9. LogInv(a)'
    <3>1. call'[a].fn # "commit"
      BY <1>1, <1>2 DEF Return
    <3> QED BY <1>2, <1>3, <2>8, <3>1 DEF LogInv
  <2>10. Learns(a)
    BY <1>1, <1>2, <2>6, <2>8 DEF Learns
  <2> QED BY <1>1, <1>6, <2>5, <2>6, <2>7, <2>9, <2>10, PreparingHole
<1>7. \/ link' = Rest(a, x) /\ UNCHANGED <<status, peer, ballot, prep, logs>>
      \/ \E why \in Failure : Stop(a, why, link) /\ UNCHANGED <<ballot, prep, logs>>
      \/ /\ Preparing(a) /\ ilist' = [ilist EXCEPT ![a] = il]
         /\ \E n, s : prep' = [prep EXCEPT ![a] = [p EXCEPT !.acks = n, !.istart = s]]
         /\ ballot' = [ballot EXCEPT ![a] = p.bal] \/ ballot' = ballot
         /\ link' = Rest(a, x) /\ UNCHANGED <<status, peer>>
  <2> "promise_glb" \in Failure /\ "redecree_glb" \in Failure
    BY DEF Failure
  <2> QED BY DEF AckPromise
<1> QED BY <1>4, <1>5, <1>6, <1>7

LEMMA AckRedirectHole ==
  ASSUME TypeInv, RoleInv, HoleInv, NEW a \in Member, NEW x \in Member, AckRedirect(a, x)
  PROVE  HoleKept
<1> DEFINE Counted == \E n : prep' = [prep EXCEPT ![a] = [prep[a] EXCEPT !.redirects = n]]
           Added == \E y \in alist[a] :
                      clist' = [clist EXCEPT ![a] =
                                  Append(@, [op |-> "redirect", who |-> y, inum |-> Base])]
<1>1. /\ status[a] = "live" /\ call[a] = Return
      /\ Rest(a, x) \in Links /\ Fresh(Rest(a, x), a) /\ Quiet
  BY Read DEF AckRedirect, Incoming
<1>2. UNCHANGED <<alist, proposer, ballot, ilist, ihole, call>>
  BY DEF AckRedirect, logs
<1>3. LogInv(a) /\ WorkInv(a) /\ LogInv(a)' /\ Learns(a)
  BY <1>2 DEF HoleInv, LogInv, Learns
<1>4. ASSUME NEW why \in Failure, Stop(a, why, link), UNCHANGED <<prep, clist>>
      PROVE  HoleKept
  BY <1>2, <1>4, StopHole
<1>5. CASE link' = Rest(a, x) /\ UNCHANGED <<status, prep, clist>>
  BY <1>1, <1>2, <1>3, <1>5, PlainHole DEF LogInv
<1>6. CASE Preparing(a) /\ Counted /\ (clist' = clist \/ Added) /\ link' = Rest(a, x) /\ status' = status
  <2>1. /\ prep'[a].bal = prep[a].bal
        /\ \A b \in Member \ {a} : prep'[b] = prep[b] /\ clist'[b] = clist[b]
    <3>1. prep[a] \in Prep
      BY TypeInvElim
    <3> QED BY <1>6, <3>1, TypeInvElim DEF Prep
  <2>2. Rejected(clist'[a]) = {}
    <3>1. Rejected(clist[a]) = {}
      BY <1>1, <1>3, <1>6 DEF WorkInv
    <3>2. CASE clist' = clist
      BY <3>1, <3>2
    <3>3. CASE Added
      <4>1. PICK y \in alist[a] :
              clist'[a] = Append(clist[a], [op |-> "redirect", who |-> y, inum |-> Base])
        BY <3>3, TypeInvElim
      <4>2. clist[a] \in Seq(Continuation)
        BY TypeInvElim
      <4>3. [op |-> "redirect", who |-> y, inum |-> Base] \in Continuation
        <5>1. alist[a] \in SUBSET Member
          BY TypeInvElim
        <5> QED BY <5>1, MemberNat, BaseInum DEF Continuation
      <4> QED BY <3>1, <4>1, <4>2, <4>3, RejectedAppended
    <3> QED BY <1>6, <3>2, <3>3
  <2>3. Alone(a)
    BY <1>2, <1>6, <2>1 DEF Alone, Own
  <2>4. prep'[a].bal.id = a
    BY <1>1, <1>3, <1>6, <2>1 DEF WorkInv
  <2>5. ~Leads(a)
    BY <1>1, <1>6, QuietLeads
  <2> QED BY <1>1, <1>3, <1>6, <2>2, <2>3, <2>4, <2>5, PreparingHole
<1>7. CASE Preparing(a) /\ Prepare(a, alist[a], peer[a], Rest(a, x), {}, "null_session") /\ clist' = clist
  <2>1. Within(Rest(a, x), link) /\ "null_session" \in Failure
    BY RestContents DEF AckRedirect, Failure
  <2>2. /\ \A b \in Member \ {a} : status'[b] = status[b] /\ prep'[b] = prep[b]
        /\ status'[a] = "live" => prep'[a].bal.id = a
        /\ Fresh(link', a)
    BY <1>1, <1>7, <2>1, TypeInvElim, PrepareFacts
  <2>3. Alone(a)
    BY <1>2, <1>7, <2>2 DEF Alone, Own
  <2>4. Rejected(clist'[a]) = {}
    BY <1>1, <1>3, <1>7 DEF WorkInv
  <2>5. ~Leads(a)
    BY <1>1, <1>7, QuietLeads
  <2> QED BY <1>1, <1>3, <2>2, <2>3, <2>4, <2>5, PreparingHole
<1>8. \/ \E why \in Failure : Stop(a, why, link) /\ UNCHANGED <<prep, clist>>
      \/ link' = Rest(a, x) /\ UNCHANGED <<status, prep, clist>>
      \/ /\ Preparing(a) /\ Counted /\ (clist' = clist \/ Added)
         /\ link' = Rest(a, x) /\ status' = status
      \/ /\ Preparing(a) /\ Prepare(a, alist[a], peer[a], Rest(a, x), {}, "null_session")
         /\ clist' = clist
  <2> "redirect_rank" \in Failure /\ "redirect_target" \in Failure
    BY DEF Failure
  <2> QED BY DEF AckRedirect
<1> QED BY <1>4, <1>5, <1>6, <1>7, <1>8

(* One continuation less. *)
LEMMA WaitedHole ==
  ASSUME TypeInv, HoleInv, NEW a \in Member,
         UNCHANGED <<status, proposer, ballot, prep, ilist, ihole, alist, call, link>>,
         \A b \in Member \ {a} : clist'[b] = clist[b],
         Rejected(clist'[a]) \subseteq Rejected(clist[a])
  PROVE  HoleKept
<1>1. Leads(a)' <=> Leads(a)
  BY DEF Leads, IsProposer, Preparing
<1>2. Alone(a) /\ KeepsLead(a) /\ Learns(a)
  BY <1>1 DEF Alone, Own, KeepsLead, Learns
<1>3. LogInv(a) /\ WorkInv(a)
  BY DEF HoleInv
<1>4. LogInv(a)'
  BY <1>3 DEF LogInv
<1>5. WorkInv(a)'
  BY <1>1, <1>3 DEF WorkInv, IsProposer, Preparing
<1>6. Fresh(link', a)
  BY LinkIn, WithinFresh
<1> QED BY <1>2, <1>4, <1>5, <1>6, HoleStep

(* It prepares over the prepare under way, and over nothing else.          *)
LEMMA ContinueAckRedirectHole ==
  ASSUME TypeInv, RoleInv, HoleInv, Stays, NEW a \in Member, ContinueAckRedirect(a)
  PROVE  HoleKept
<1>1. PICK n \in DOMAIN clist[a] :
        /\ clist' = [clist EXCEPT ![a] = Removed(@, n)]
        /\ \/ Prepare(a, alist[a], peer[a], link, {}, "null_session")
           \/ UNCHANGED <<status, prep, link>>
  BY DEF ContinueAckRedirect
<1>2. /\ status[a] = "live" /\ IsProposer(a) /\ Quiet
      /\ UNCHANGED <<alist, proposer, ballot, ilist, ihole, call>>
  BY WaitingIsProposer DEF ContinueAckRedirect, logs
<1>3. LogInv(a)' /\ WorkInv(a) /\ Learns(a)
  BY <1>2 DEF HoleInv, LogInv, Learns
<1>4. clist[a] \in Seq(Continuation) /\ clist'[a] = Removed(clist[a], n)
      /\ \A b \in Member \ {a} : clist'[b] = clist[b]
  BY <1>1, TypeInvElim
<1>5. Rejected(clist'[a]) \subseteq Rejected(clist[a])
  BY <1>4, RejectedRemoved
<1>6. CASE Prepare(a, alist[a], peer[a], link, {}, "null_session")
  <2>1. "null_session" \in Failure
    BY DEF Failure
  <2>2. /\ \A b \in Member \ {a} : status'[b] = status[b] /\ prep'[b] = prep[b]
        /\ status'[a] = "live" => prep'[a].bal.id = a /\ prep'[a] # NoPrep
        /\ Fresh(link', a)
    BY <1>6, <2>1, LinkIn, TypeInvElim, PrepareFacts
  <2>3. Alone(a)
    BY <1>2, <1>4, <2>2 DEF Alone, Own
  <2>4. CASE Preparing(a)
    <3>1. Rejected(clist'[a]) = {}
      BY <1>2, <1>3, <1>5, <2>4 DEF WorkInv
    <3> QED BY <1>2, <1>3, <2>2, <2>3, <2>4, <3>1, QuietLeads, PreparingHole
  <2>5. CASE ~Preparing(a)
    <3>1. status'[a] # "live"
      BY <1>2, <2>2, <2>5 DEF Stays
    <3>2. KeepsLead(a) /\ WorkInv(a)'
      BY <3>1 DEF KeepsLead, WorkInv
    <3> QED BY <1>3, <2>2, <2>3, <3>2, HoleStep
  <2> QED BY <2>4, <2>5
<1>7. CASE UNCHANGED <<status, prep, link>>
  BY <1>2, <1>4, <1>5, <1>7, WaitedHole
<1> QED BY <1>1, <1>6, <1>7

-----------------------------------------------------------------------------
(* Decrees. *)

(* An entry that keeps its ballot, its value, and what is known of it. *)
LEMMA SameLasts ==
  ASSUME HoleInv, NEW a \in Member, NEW i \in Inum, status[a] = "live", NEW e,
         ilist[a][i].bal # NoBallot, e.bal = ilist[a][i].bal, e.val = ilist[a][i].val,
         e.committed = ilist[a][i].committed, e.cached = ilist[a][i].cached,
         e.learned = ilist[a][i].learned
  PROVE  Lasts(a, i, e)
<1>1. LogInv(a) /\ WorkInv(a)
  BY DEF HoleInv
<1> QED BY <1>1 DEF Lasts, LogInv, WorkInv

(* An entry of a member that does not propose, not committed yet. *)
LEMMA AcceptorLasts ==
  ASSUME TypeInv, HoleInv, NEW a \in Member, NEW i \in Inum, NEW e, ~IsProposer(a),
         ~ilist[a][i].committed, e.bal # NoBallot, e.learned = ilist[a][i].learned \/ e.learned = FALSE
  PROVE  Lasts(a, i, e)
<1>1. LogInv(a)
  BY DEF HoleInv
<1>2. ~(i < ihole[a])
  BY <1>1 DEF LogInv
<1> QED BY <1>1, <1>2 DEF Lasts, LogInv, Leads

LEMMA AcceptDecreeHole ==
  ASSUME TypeInv, RoleInv, HoleInv, NEW a \in Member, NEW x \in Member, NEW m \in Message,
         m.op = "decree", status[a] = "live", ~IsProposer(a),
         Rest(a, x) \in Links, Fresh(Rest(a, x), a), AcceptDecree(a, x, m),
         UNCHANGED <<alist, proposer, ballot, prep, ihole, clist, call>>
  PROVE  HoleKept
<1> DEFINE yes == [op |-> "accept", bal |-> m.bal, inum |-> m.inum]
           Put(e) == ilist' = [ilist EXCEPT ![a][m.inum] = Accepted(e, m)]
<1>1. m.inum \in Inum /\ m.bal # NoBallot
  <2>1. m.bal \in Ballot /\ m.inum \in Inum
    BY MessageFields
  <2> QED BY <2>1 DEF Ballot, NoBallot
<1>2. LogInv(a)
  BY DEF HoleInv
<1>3. \A y : News(a, y, yes)
  BY NoNews
<1>4. \/ /\ \E e \in {Absent, ilist[a][m.inum]} : Put(e)
         /\ ~ilist[a][m.inum].committed
         /\ link' = Send(Rest(a, x), a, {x}, yes) /\ status' = status
      \/ /\ link' = Rest(a, x) \/ link' = Send(Rest(a, x), a, {x}, yes)
         /\ UNCHANGED <<status, peer, ilist>>
      \/ Stop(a, "decree_value", link) /\ ilist' = ilist
  BY <1>1, <1>2 DEF AcceptDecree, logs, LogInv
<1> HIDE DEF yes
<1>5. CASE /\ \E e \in {Absent, ilist[a][m.inum]} : Put(e)
           /\ ~ilist[a][m.inum].committed
           /\ link' = Send(Rest(a, x), a, {x}, yes) /\ status' = status
  <2>1. PICK e \in {Absent, ilist[a][m.inum]} : Put(e)
    BY <1>5
  <2>2. PICK f : f = Accepted(e, m)
    OBVIOUS
  <2>3. f.bal = m.bal /\ (f.learned = ilist[a][m.inum].learned \/ f.learned = FALSE)
    <3>1. ilist[a][m.inum] \in Entry
      BY <1>1, TypeInvElim DEF Lists
    <3> QED BY <2>1, <2>2, <3>1 DEF Accepted, Entry, Absent
  <2>4. Lasts(a, m.inum, f)
    BY <1>1, <1>5, <2>3, AcceptorLasts
  <2>5. Fresh(link', a)
    BY <1>3, <1>5, SendFresh
  <2>6. ilist' = [ilist EXCEPT ![a][m.inum] = f]
    BY <2>1, <2>2
  <2> QED BY <1>1, <1>5, <2>4, <2>5, <2>6, PutHole
<1>6. CASE /\ link' = Rest(a, x) \/ link' = Send(Rest(a, x), a, {x}, yes)
           /\ UNCHANGED <<status, peer, ilist>>
  <2>1. Fresh(link', a)
    BY <1>3, <1>6, SendFresh
  <2> QED BY <1>2, <1>6, <2>1, PlainHole DEF LogInv
<1>7. CASE Stop(a, "decree_value", link) /\ ilist' = ilist
  BY <1>7, StopHole DEF Failure
<1> QED BY <1>4, <1>5, <1>6, <1>7

(* A decree that is rejected is its proposer's, who leads. *)
LEMMA AckDecreeHole ==
  ASSUME TypeInv, RoleInv, HoleInv, NEW a \in Member, NEW x \in Member, AckDecree(a, x)
  PROVE  HoleKept
<1> DEFINE m == Msg(a, x)
           no == [op |-> "reject", bal |-> m.bal, inum |-> m.inum]
<1>1. /\ status[a] = "live" /\ x # a /\ m.op = "decree" /\ m \in Message /\ Led(x, a, m)
      /\ Rest(a, x) \in Links /\ Fresh(Rest(a, x), a)
  BY Read DEF AckDecree
<1>2. ~IsProposer(a) /\ UNCHANGED <<alist, proposer, ballot, prep, ihole, clist, call>>
  BY DEF AckDecree, ballots
<1>3. News(a, x, no)
  <2>1. no.op = "reject"
    OBVIOUS
  <2> HIDE DEF no
  <2> QED BY <1>1, <2>1 DEF Led, Holds, News
<1>4. \/ link' = Rest(a, x) /\ UNCHANGED <<status, peer, logs>>
      \/ link' = Send(Rest(a, x), a, {x}, no) /\ UNCHANGED <<status, peer, logs>>
      \/ \E why \in Failure : Stop(a, why, link) /\ UNCHANGED logs
      \/ AcceptDecree(a, x, m)
  <2> "decree_proposer" \in Failure /\ "target" \in Failure
    BY DEF Failure
  <2> QED BY DEF AckDecree
<1>5. LogInv(a)
  BY DEF HoleInv
<1> HIDE DEF m, no
<1>6. CASE link' = Rest(a, x) /\ UNCHANGED <<status, peer, logs>>
  BY <1>1, <1>2, <1>5, <1>6, PlainHole DEF logs, LogInv
<1>7. CASE link' = Send(Rest(a, x), a, {x}, no) /\ UNCHANGED <<status, peer, logs>>
  <2>1. Fresh(link', a)
    BY <1>1, <1>3, <1>7, SendFresh
  <2> QED BY <1>2, <1>5, <1>7, <2>1, PlainHole DEF logs, LogInv
<1>8. ASSUME NEW why \in Failure, Stop(a, why, link), UNCHANGED logs
      PROVE  HoleKept
  BY <1>2, <1>8, StopHole DEF logs
<1>9. CASE AcceptDecree(a, x, m)
  BY <1>1, <1>2, <1>9, AcceptDecreeHole
<1> QED BY <1>4, <1>6, <1>7, <1>8, <1>9

LEMMA AckAcceptHole ==
  ASSUME TypeInv, RoleInv, HoleInv, NEW a \in Member, NEW x \in Member, AckAccept(a, x)
  PROVE  HoleKept
<1> PICK i : i = Msg(a, x).inum
  OBVIOUS
<1> DEFINE c == [op |-> "commit", bal |-> ilist[a][i].bal, inum |-> i, val |-> ilist[a][i].val]
           Voted1 == \E n, o : ilist' = [ilist EXCEPT ![a][i] = [ilist[a][i] EXCEPT !.votes = n, !.opcode = o]]
<1>1. /\ status[a] = "live" /\ i \in Inum /\ Rest(a, x) \in Links /\ Fresh(Rest(a, x), a)
  BY Read, MessageFields DEF AckAccept
<1>2. UNCHANGED <<alist, proposer, ballot, prep, ihole, clist>>
  BY DEF AckAccept, ballots
<1>3. \/ \E why \in Failure : Stop(a, why, link) /\ UNCHANGED <<ilist, call>>
      \/ /\ ilist[a][i].bal # NoBallot /\ Voted1
         /\ link' = Send(Rest(a, x), a, peer[a], c) \/ link' = Rest(a, x)
         /\ Enter(a, i) \/ call' = call
         /\ UNCHANGED <<status, peer>>
  <2> "accept_ballot" \in Failure /\ "instance" \in Failure
    BY DEF Failure
  <2> QED BY DEF AckAccept
<1>4. ASSUME NEW why \in Failure, Stop(a, why, link), UNCHANGED <<ilist, call>>
      PROVE  HoleKept
  BY <1>2, <1>4, StopHole
<1>5. CASE /\ ilist[a][i].bal # NoBallot /\ Voted1
           /\ link' = Send(Rest(a, x), a, peer[a], c) \/ link' = Rest(a, x)
           /\ Enter(a, i) \/ call' = call
           /\ UNCHANGED <<status, peer>>
  <2>1. \A y : News(a, y, c)
    BY NoNews
  <2> HIDE DEF c
  <2>2. Fresh(link', a)
    BY <1>1, <1>5, <2>1, SendFresh
  <2>3. PICK e : /\ ilist' = [ilist EXCEPT ![a][i] = e]
                 /\ \E n, o : e = [ilist[a][i] EXCEPT !.votes = n, !.opcode = o]
    <3>1. PICK n, o : ilist' = [ilist EXCEPT ![a][i] = [ilist[a][i] EXCEPT !.votes = n, !.opcode = o]]
      BY <1>5
    <3>2. PICK e : e = [ilist[a][i] EXCEPT !.votes = n, !.opcode = o]
      OBVIOUS
    <3> QED BY <3>1, <3>2
  <2>4. Lasts(a, i, e)
    <3>1. ilist[a][i] \in Entry
      BY <1>1, TypeInvElim DEF Lists
    <3>2. /\ e.bal = ilist[a][i].bal /\ e.val = ilist[a][i].val
          /\ e.committed = ilist[a][i].committed /\ e.cached = ilist[a][i].cached
          /\ e.learned = ilist[a][i].learned
      BY <2>3, <3>1 DEF Entry
    <3> QED BY <1>1, <1>5, <3>2, SameLasts
  <2>5. /\ \A b \in Member \ {a} : call'[b] = call[b]
        /\ call'[a] = call[a] \/ call'[a].inum = i
    BY <1>5, TypeInvElim DEF Enter
  <2> HIDE DEF Voted1
  <2> QED BY <1>1, <1>2, <1>5, <2>2, <2>3, <2>4, <2>5, PutHole
<1> QED BY <1>3, <1>4, <1>5

LEMMA AckCommitHole ==
  ASSUME TypeInv, RoleInv, HoleInv, NEW a \in Member, NEW x \in Member, AckCommit(a, x) \/ AckRecommit(a, x)
  PROVE  HoleKept
<1> DEFINE m == Msg(a, x)
<1>1. PICK i : i = m.inum
  OBVIOUS
<1>2. PICK bal : CommitMessage(a, x, m, bal) /\ bal \in {ilist[a][i].bal, m.bal}
  BY <1>1 DEF AckCommit, AckRecommit
<1>3. /\ status[a] = "live" /\ i \in Inum /\ m.bal # NoBallot
      /\ Fresh(Rest(a, x), a) /\ ~IsProposer(a)
  <2>1. PICK op \in {"commit", "recommit"} : Incoming(a, x, op) /\ ~IsProposer(a)
    BY DEF AckCommit, AckRecommit
  <2>2. m.bal \in Ballot /\ m.inum \in Inum
    BY <2>1, Read, MessageFields
  <2> QED BY <1>1, <2>1, <2>2, Read DEF Ballot, NoBallot
<1>4. link' = Rest(a, x) /\ UNCHANGED <<status, alist, proposer, ballot, prep, ihole, clist>>
  BY <1>2 DEF CommitMessage, sess, ballots
<1>5. LogInv(a)
  BY DEF HoleInv
<1>6. CASE UNCHANGED <<ilist, call>>
  BY <1>3, <1>4, <1>5, <1>6, PlainHole DEF LogInv
<1>7. ASSUME NEW e, ~ilist[a][i].committed, ilist' = [ilist EXCEPT ![a][i] = e], Enter(a, i),
             e = [ilist[a][i] EXCEPT !.bal = IF ilist[a][i].bal = NoBallot THEN m.bal ELSE bal,
                                     !.val = m.val]
      PROVE  HoleKept
  <2>1. ilist[a][i] \in Entry
    BY <1>3, TypeInvElim DEF Lists
  <2>2. /\ e.bal = IF ilist[a][i].bal = NoBallot THEN m.bal ELSE bal
        /\ e.learned = ilist[a][i].learned
    BY <1>7, <2>1 DEF Entry
  <2>3. e.bal # NoBallot
    BY <1>2, <1>3, <2>2
  <2>4. Lasts(a, i, e)
    BY <1>3, <1>7, <2>2, <2>3, AcceptorLasts
  <2>5. call'[a].inum = i /\ \A b \in Member \ {a} : call'[b] = call[b]
    BY <1>7, TypeInvElim DEF Enter
  <2> QED BY <1>3, <1>4, <1>7, <2>4, <2>5, PutHole
<1>8. \/ UNCHANGED <<ilist, call>>
      \/ /\ ~ilist[a][i].committed /\ Enter(a, i)
         /\ ilist' = [ilist EXCEPT ![a][i] =
                        [@ EXCEPT !.bal = IF ilist[a][i].bal = NoBallot THEN m.bal ELSE bal,
                                  !.val = m.val]]
  BY <1>1, <1>2 DEF CommitMessage, logs
<1> QED BY <1>3, <1>6, <1>7, <1>8, TypeInvElim DEF Lists

(* What a proposer that leads sends again. *)
LEMMA InstanceFresh ==
  ASSUME TypeInv, HoleInv, NEW a \in Member, NEW i \in Inum, NEW e, Leads(a), Leads(a)',
         ballot'[a] = ballot[a], e.bal = ballot[a],
         ilist'[a][i].bal = e.bal, ilist'[a][i].val = e.val, e.opcode \in {"decree", "commit"},
         NEW net \in Links, Fresh(net, a), NEW to
  PROVE  Fresh(Send(net, a, to, InstanceMsg(e, i)), a)
<1> PICK m : m = InstanceMsg(e, i)
  OBVIOUS
<1>1. m.op \in {"decree", "commit"} /\ m.bal = e.bal /\ m.inum = i /\ m.val = e.val
  BY DEF InstanceMsg
<1>2. ballot[a].id = a /\ status'[a] = "live"
  BY DEF Leads, HoleInv, WorkInv
<1>3. Holds(a, m)'
  BY <1>1 DEF Holds
<1>4. \A y : News(a, y, m)
  BY <1>1, <1>2, <1>3 DEF News
<1> QED BY <1>4, SendFresh

(* proposer_ack_reject().  Who it is sent to leads, so that what it rejects *)
(* and is not committed is under the ballot of the proposer.               *)
LEMMA AckRejectHole ==
  ASSUME TypeInv, RoleInv, HoleInv, NEW a \in Member, NEW x \in Member, AckReject(a, x)
  PROVE  HoleKept
<1> PICK i : i = Msg(a, x).inum
  OBVIOUS
<1> PICK d : d = ilist[a][i]
  OBVIOUS
<1> DEFINE Counted == \E n : ilist' = [ilist EXCEPT ![a][i] = [d EXCEPT !.rejects = n]]
           Added == /\ d.val.arg \in alist[a]
                    /\ clist' = [clist EXCEPT ![a] =
                                   Append(@, [op |-> "reject", who |-> d.val.arg, inum |-> i])]
<1>1. /\ status[a] = "live" /\ i \in Inum /\ Quiet /\ Led(x, a, Msg(a, x)) /\ Msg(a, x).op = "reject"
      /\ call[a] = Return /\ Rest(a, x) \in Links /\ Fresh(Rest(a, x), a)
  BY Read, MessageFields DEF AckReject, Incoming
<1>2. IsProposer(a) /\ UNCHANGED <<alist, proposer, ballot, prep, ihole, call>>
  BY DEF AckReject, ballots
<1>3. Leads(a) /\ ~Preparing(a)
  BY <1>1, QuietLeads DEF Led
<1>4. LogInv(a) /\ WorkInv(a)
  BY DEF HoleInv
<1>5. d \in Entry
  BY <1>1, TypeInvElim DEF Lists
<1>6. \/ \E why \in Failure : Stop(a, why, link) /\ UNCHANGED <<ilist, clist>>
      \/ /\ d.bal # NoBallot /\ Counted /\ UNCHANGED <<status, clist>> /\ link' = Rest(a, x)
      \/ /\ d.bal # NoBallot /\ ~d.committed /\ d.val.kind = "part"
         /\ Counted /\ status' = status
         /\ \/ Added /\ link' = Rest(a, x)
            \/ clist' = clist /\ link' = Send(Rest(a, x), a, peer[a], InstanceMsg(d, i))
  <2> /\ "reject_ballot" \in Failure /\ "instance" \in Failure
      /\ "reject_kind" \in Failure /\ "target" \in Failure
    BY DEF Failure
  <2> QED BY TypeInvElim DEF AckReject, Lists
<1>7. ASSUME NEW why \in Failure, Stop(a, why, link), UNCHANGED <<ilist, clist>>
      PROVE  HoleKept
  BY <1>2, <1>7, StopHole
<1>8. ASSUME NEW e, ilist' = [ilist EXCEPT ![a][i] = e], \E n : e = [d EXCEPT !.rejects = n],
             d.bal # NoBallot
      PROVE  /\ Lasts(a, i, e) /\ e.bal = d.bal /\ e.val = d.val
             /\ ilist'[a][i].bal = d.bal /\ ilist'[a][i].val = d.val
  <2>1. /\ e.bal = d.bal /\ e.val = d.val /\ e.committed = d.committed /\ e.cached = d.cached
        /\ e.learned = d.learned
    BY <1>5, <1>8 DEF Entry
  <2>2. ilist'[a][i] = e
    BY <1>1, <1>8, TypeInvElim DEF Lists
  <2> QED BY <1>1, <1>8, <2>1, <2>2, SameLasts
<1>9. CASE /\ d.bal # NoBallot /\ Counted /\ UNCHANGED <<status, clist>> /\ link' = Rest(a, x)
  <2>1. PICK e : ilist' = [ilist EXCEPT ![a][i] = e] /\ \E n : e = [d EXCEPT !.rejects = n]
    BY <1>9
  <2>2. Lasts(a, i, e)
    BY <1>8, <1>9, <2>1
  <2> HIDE DEF Counted
  <2> QED BY <1>1, <1>2, <1>9, <2>1, <2>2, PutHole
<1>10. CASE /\ d.bal # NoBallot /\ ~d.committed /\ d.val.kind = "part"
            /\ Counted /\ status' = status
            /\ Added /\ link' = Rest(a, x)
  <2>1. PICK e : ilist' = [ilist EXCEPT ![a][i] = e] /\ \E n : e = [d EXCEPT !.rejects = n]
    BY <1>10
  <2>2. Lasts(a, i, e) /\ e.bal = d.bal /\ e.val = d.val
    BY <1>8, <1>10, <2>1
  <2>3. d.bal = ballot[a]
    BY <1>1, <1>2, <1>3, <1>4, <1>10 DEF WorkInv
  <2>4. PICK k : k = [op |-> "reject", who |-> d.val.arg, inum |-> i]
    OBVIOUS
  <2>5. k \in Continuation
    <3>1. d.val.arg \in Nat
      BY <1>5 DEF Entry, Value
    <3> QED BY <1>1, <2>4, <3>1 DEF Continuation
  <2>6. Waits(a, i, e, k)
    BY <1>3, <1>10, <2>2, <2>3, <2>4 DEF Waits
  <2>7. /\ clist[a] \in Seq(Continuation) /\ clist'[a] = Append(clist[a], k)
        /\ \A b \in Member \ {a} : clist'[b] = clist[b]
    BY <1>10, <2>4, TypeInvElim
  <2>8. \A j \in Rejected(clist'[a]) : j \in Rejected(clist[a]) \/ Waits(a, i, e, j)
    BY <2>5, <2>6, <2>7, RejectedAppended
  <2> HIDE DEF Counted, Added
  <2> QED BY <1>1, <1>2, <1>10, <2>1, <2>2, <2>7, <2>8, PutHole
<1>11. CASE /\ d.bal # NoBallot /\ ~d.committed /\ d.val.kind = "part"
            /\ Counted /\ status' = status
            /\ clist' = clist /\ link' = Send(Rest(a, x), a, peer[a], InstanceMsg(d, i))
  <2>1. PICK e : ilist' = [ilist EXCEPT ![a][i] = e] /\ \E n : e = [d EXCEPT !.rejects = n]
    BY <1>11
  <2>2. Lasts(a, i, e) /\ ilist'[a][i].bal = d.bal /\ ilist'[a][i].val = d.val
    BY <1>8, <1>11, <2>1
  <2>3. d.bal = ballot[a] /\ d.opcode \in {"decree", "commit"}
    BY <1>1, <1>2, <1>3, <1>4, <1>5, <1>11 DEF WorkInv, Entry
  <2>4. Leads(a)'
    BY <1>1, <1>2, <1>3, <1>11 DEF Leads, IsProposer, Preparing
  <2> HIDE DEF Counted
  <2>5. Fresh(link', a)
    BY <1>1, <1>2, <1>3, <1>11, <2>2, <2>3, <2>4, InstanceFresh
  <2> QED BY <1>1, <1>2, <1>11, <2>1, <2>2, <2>5, PutHole
<1> QED BY <1>6, <1>7, <1>9, <1>10, <1>11

(* continue_ack_reject(): the acceptor it would part is on the list, so    *)
(* that the part was not learned.                                          *)
LEMMA ContinueAckRejectHole ==
  ASSUME TypeInv, RoleInv, HoleInv, NEW a \in Member, ContinueAckReject(a)
  PROVE  HoleKept
<1> DEFINE Again(i) == [ilist[a][i] EXCEPT !.committed = FALSE, !.cached = FALSE,
                                          !.learned = FALSE, !.votes = 1, !.rejects = 0]
<1>1. PICK n \in DOMAIN clist[a] :
        LET k == clist[a][n] IN
        /\ k.op = "reject"
        /\ clist' = [clist EXCEPT ![a] = Removed(@, n)]
        /\ \/ /\ k.who \in alist[a] /\ k.inum \in Present(ilist[a])
              /\ ilist' = [ilist EXCEPT ![a][k.inum] = Again(k.inum)]
              /\ link' = Send(link, a, peer[a], InstanceMsg(Again(k.inum), k.inum))
           \/ UNCHANGED <<ilist, link>>
  BY DEF ContinueAckReject
<1>2. PICK k : k = clist[a][n]
  OBVIOUS
<1>3. /\ status[a] = "live" /\ IsProposer(a)
      /\ UNCHANGED <<status, alist, proposer, ballot, prep, ihole, call>>
  BY WaitingIsProposer DEF ContinueAckReject, sess, ballots
<1>4. LogInv(a) /\ WorkInv(a)
  BY DEF HoleInv
<1>5. k \in Rejected(clist[a])
  BY <1>1, <1>2 DEF Rejected
<1>6. clist[a] \in Seq(Continuation) /\ clist'[a] = Removed(clist[a], n)
      /\ \A b \in Member \ {a} : clist'[b] = clist[b]
  BY <1>1, TypeInvElim
<1>7. Rejected(clist'[a]) \subseteq Rejected(clist[a])
  BY <1>6, RejectedRemoved
<1>8. CASE /\ k.who \in alist[a] /\ k.inum \in Present(ilist[a])
           /\ ilist' = [ilist EXCEPT ![a][k.inum] = Again(k.inum)]
           /\ link' = Send(link, a, peer[a], InstanceMsg(Again(k.inum), k.inum))
  <2>1. PICK i : i = k.inum
    OBVIOUS
  <2>2. PICK e : e = Again(i)
    OBVIOUS
  <2>3. i \in Inum /\ ilist[a][i] \in Entry /\ ilist[a][i].bal # NoBallot
    BY <1>8, <2>1, TypeInvElim DEF Present, Lists
  <2>4. /\ e.bal = ilist[a][i].bal /\ e.val = ilist[a][i].val /\ e.learned = FALSE
        /\ e.opcode \in {"decree", "commit"}
    BY <2>2, <2>3 DEF Entry
  <2>5. /\ ~Preparing(a) /\ ilist[a][i].bal = ballot[a]
        /\ ilist[a][i].val.kind = "part" /\ ilist[a][i].val.arg = k.who
    BY <1>3, <1>4, <1>5, <2>1 DEF WorkInv
  <2>6. ~(i < ihole[a])
    BY <1>4, <1>8, <2>3, <2>5 DEF LogInv
  <2>7. Lasts(a, i, e)
    BY <2>3, <2>4, <2>5, <2>6 DEF Lasts
  <2>8. ilist'[a][i] = e
    BY <1>8, <2>1, <2>2, <2>3, TypeInvElim DEF Lists
  <2>9. Leads(a) /\ Leads(a)'
    BY <1>3, <2>5 DEF Leads, IsProposer, Preparing
  <2>10. ilist' = [ilist EXCEPT ![a][i] = e] /\ link' = Send(link, a, peer[a], InstanceMsg(e, i))
    BY <1>8, <2>1, <2>2
  <2> HIDE DEF Again
  <2>11. Fresh(link', a)
    BY <1>3, <2>3, <2>4, <2>5, <2>8, <2>9, <2>10, LinkIn, WithinFresh, InstanceFresh
  <2> QED BY <1>3, <1>6, <1>7, <2>3, <2>7, <2>10, <2>11, PutHole
<1>9. CASE UNCHANGED <<ilist, link>>
  BY <1>3, <1>6, <1>7, <1>9, WaitedHole
<1> QED BY <1>1, <1>2, <1>8, <1>9

-----------------------------------------------------------------------------
LEMMA DropHole ==
  ASSUME TypeInv, RoleInv, HoleInv, NEW a \in Member, NEW y \in Member, Drop(a, y)
  PROVE  HoleKept
<1> DEFINE pe == peer[a] \ {y}
           net == Unread(link, a, {y})
           np == Reelected(a, y, pe)
           gone == Unconnected(a, alist[a], pe)
<1>1. /\ pe \in SUBSET Member /\ gone \in SUBSET Member /\ alist[a] \in SUBSET Member
      /\ net \in Links /\ Within(net, link) /\ "null_session" \in Failure
  BY UnreadType, UnreadContents, TypeInvElim DEF Failure, Unconnected
<1>2. status[a] = "live" /\ UNCHANGED <<alist, ballot, ihole, clist>>
  BY DEF Drop
<1>3. \/ IsProposer(a) /\ Submit(a, Part(a, y), pe, net) /\ UNCHANGED <<status, proposer, prep>>
      \/ /\ ~IsProposer(a) /\ proposer' = [proposer EXCEPT ![a] = np]
         /\ Prepare(a, alist[a], pe, net, gone, "null_session")
         /\ UNCHANGED <<logs, call>>
      \/ /\ ~IsProposer(a) /\ proposer' = [proposer EXCEPT ![a] = np] /\ np # a
         /\ link' = net /\ UNCHANGED <<status, prep, logs, call>>
  BY DEF Drop
<1> HIDE DEF pe, net, np, gone
<1>4. Fresh(net, a)
  BY <1>1, WithinFresh
<1>5. LogInv(a) /\ WorkInv(a)
  BY DEF HoleInv
<1>6. CASE IsProposer(a) /\ Submit(a, Part(a, y), pe, net) /\ UNCHANGED <<status, proposer, prep>>
  BY <1>1, <1>2, <1>4, <1>6, SubmitHole
<1>7. ASSUME ~IsProposer(a), UNCHANGED <<logs, call>>, proposer' = [proposer EXCEPT ![a] = np]
      PROVE  /\ LogInv(a)' /\ Learns(a) /\ ~Leads(a) /\ ~Preparing(a) /\ Rejected(clist'[a]) = {}
             /\ \A b \in Member \ {a} : proposer'[b] = proposer[b]
             /\ proposer'[a] = np
  <2>1. LogInv(a)' /\ Learns(a)
    BY <1>2, <1>5, <1>7 DEF LogInv, logs, Learns
  <2>2. ~Leads(a) /\ ~Preparing(a) /\ Rejected(clist'[a]) = {}
    BY <1>2, <1>5, <1>7, RejectedLeads DEF Leads
  <2> QED BY <1>7, <2>1, <2>2, TypeInvElim
<1>8. CASE /\ ~IsProposer(a) /\ proposer' = [proposer EXCEPT ![a] = np]
           /\ Prepare(a, alist[a], pe, net, gone, "null_session")
           /\ UNCHANGED <<logs, call>>
  <2>1. /\ \A b \in Member \ {a} : status'[b] = status[b] /\ prep'[b] = prep[b]
        /\ status'[a] = "live" => prep'[a].bal.id = a
        /\ Fresh(link', a)
    BY <1>1, <1>8, PrepareFacts
  <2>2. Alone(a)
    BY <1>2, <1>7, <1>8, <2>1 DEF Alone, Own, logs
  <2> QED BY <1>2, <1>7, <1>8, <2>1, <2>2, PreparingHole
<1>9. CASE /\ ~IsProposer(a) /\ proposer' = [proposer EXCEPT ![a] = np] /\ np # a
           /\ link' = net /\ UNCHANGED <<status, prep, logs, call>>
  <2>1. Alone(a) /\ KeepsLead(a)
    BY <1>2, <1>7, <1>9 DEF Alone, Own, logs, KeepsLead
  <2>2. ~IsProposer(a)' /\ ~Preparing(a)'
    BY <1>7, <1>9 DEF IsProposer, Preparing
  <2>3. WorkInv(a)'
    BY <1>7, <1>9, <2>2 DEF WorkInv, Leads
  <2> QED BY <1>4, <1>7, <1>9, <2>1, <2>3, HoleStep
<1> QED BY <1>3, <1>6, <1>8, <1>9

-----------------------------------------------------------------------------
LEMMA NextHole == TypeInv /\ RoleInv /\ HoleInv /\ [Next]_vars /\ [Stays]_vars => HoleKept
<1> SUFFICES ASSUME TypeInv, RoleInv, HoleInv, [Next]_vars, [Stays]_vars PROVE HoleKept
  OBVIOUS
<1>1. CASE UNCHANGED vars
  <2>1. PICK a \in Member : TRUE
    BY MemberAssumption
  <2>2. Fresh(link', a)
    BY <1>1, LinkIn, WithinFresh DEF vars
  <2>3. LogInv(a)
    BY DEF HoleInv
  <2> QED BY <1>1, <2>2, <2>3, PlainHole DEF vars, sess, ballots, logs, LogInv
<1>2. CASE Next /\ Stays
  <2>1. PICK a \in Member :
          \/ Step(a) \/ ContinueAckRedirect(a) \/ ContinueAckReject(a) \/ Leave(a)
          \/ \E v \in Chat : Request(a, v)
          \/ \E x \in Member : Dispatch(a, x) \/ Drop(a, x)
    BY <1>2, Zenon DEF Next
  <2>2. CASE Step(a)
    BY <2>2, CommitHoleKeeps, LearnHole, LearnEndHole, RedecreeHole, EndPrepareHole, DrainHole
       DEF Step
  <2>3. CASE \E x \in Member : Dispatch(a, x)
    <3>1. PICK x \in Member : Dispatch(a, x)
      BY <2>3
    <3> QED BY <3>1, ProposerAckRequestHole, AcceptorAckRequestHole, AckRefuseHole,
               AckRetrieveHole, AckResendHole, AckPrepareHole, AckPromiseHole, AckRedirectHole,
               AckDecreeHole, AckAcceptHole, AckRejectHole, AckCommitHole, AckRetryHole
            DEF Dispatch
  <2> QED BY <1>2, <2>1, <2>2, <2>3, ContinueAckRedirectHole, ContinueAckRejectHole, LeaveHole,
             RequestHole, DropHole
<1>3. CASE UNCHANGED vars \/ (Next /\ Stays)
  BY <1>1, <1>2, <1>3
<1> QED BY <1>3

LEMMA InitHole == Init => HoleInv
<1> SUFFICES ASSUME Init PROVE HoleInv
  OBVIOUS
<1>1. \A x, y \in Member : Contents(link, x, y) = {} /\ InFlight(x, y) = {}
  BY DEF Init, Contents, InFlight
<1>2. ASSUME NEW a \in Member PROVE LogInv(a) /\ WorkInv(a)
  <2>1. /\ ihole[a] = Base + 1 /\ call[a] = Return /\ prep[a] = NoPrep /\ clist[a] = <<>>
        /\ ballot[a] = FirstBallot /\ proposer[a] = First
        /\ \A i \in Inum : ilist[a][i] = IF i = Base THEN BaseEntry ELSE Absent
    BY <1>2 DEF Init
  <2>2. /\ FirstBallot # NoBallot /\ FirstBallot.id = First
        /\ BaseEntry.bal = FirstBallot /\ BaseEntry.val.kind = "join"
        /\ BaseEntry.committed /\ BaseEntry.cached /\ BaseEntry.learned
        /\ Absent.bal = NoBallot /\ ~Absent.committed /\ ~Absent.learned
        /\ Return.fn # "commit"
    BY DEF FirstBallot, NoBallot, BaseEntry, Absent, Return
  <2>3. \A i \in Inum : (i < Base + 1 => i = Base) /\ (i >= Base + 1 => i # Base)
    BY BoundAssumption DEF Inum
  <2>4. LogInv(a)
    BY <2>1, <2>2, <2>3 DEF LogInv
  <2>5. Rejected(clist[a]) = {}
    BY <2>1 DEF Rejected
  <2>6. IsProposer(a) => ballot[a].id = a
    BY <2>1, <2>2 DEF IsProposer
  <2>7. \A i \in Inum : ilist[a][i].bal \in {NoBallot, ballot[a]}
    BY <2>1, <2>2
  <2>8. WorkInv(a)
    BY <2>1, <2>5, <2>6, <2>7 DEF WorkInv, Preparing, Leads
  <2> QED BY <2>4, <2>8
<1>3. OneValuePerBallot
  <2> DEFINE D(x, a) == {m \in InFlight(x, a) : m.op = "decree"}
             decrees == UNION {D(x, a) : x, a \in Member}
  <2>1. \A x, a \in Member : D(x, a) = {}
    BY <1>1
  <2>2. decrees = {}
    <3> HIDE DEF D
    <3> QED BY <2>1
  <2> HIDE DEF decrees
  <2>3. \A m, n \in decrees : m.bal = n.bal /\ m.inum = n.inum => m.val = n.val
    BY <2>2
  <2> QED BY <2>3 DEF OneValuePerBallot, decrees, D
<1> QED BY <1>1, <1>2, <1>3 DEF HoleInv

LEMMA HoleInvariant == Spec /\ [][Stays]_vars => [](TypeInv /\ RoleInv /\ HoleInv)
<1>1. Init => HoleInv
  BY InitHole
<1>2. TypeInv /\ RoleInv /\ HoleInv /\ [Next]_vars /\ [Stays]_vars => HoleInv'
  BY NextHole DEF HoleKept
<1> QED BY <1>1, <1>2, RoleInvariant, PTL DEF Spec

(***************************************************************************)
(* paxos_commit(): the comment on the hole, for any number of members and  *)
(* instances and any losses, as long as a proposer that has prepared does  *)
(* not prepare again.                                                      *)
(***************************************************************************)
THEOREM HoleHolds == Spec /\ PreparedStays => []HoleOK
<1>1. HoleInv => HoleOK
  BY DEF HoleInv, LogInv, HoleOK
<1>2. PreparedStays <=> [][Stays]_vars
  BY PTL DEF PreparedStays, Stays
<1> QED BY <1>1, <1>2, HoleInvariant, PTL

(***************************************************************************)
(* No two decrees on their way under one ballot give an instance different *)
(* values: a decree on its way is what its proposer has on its list, and a *)
(* part decreed again by a reconnection that failed is the part that was   *)
(* rejected.                                                               *)
(***************************************************************************)
THEOREM OneValue == Spec /\ PreparedStays => []OneValuePerBallot
<1>1. HoleInv => OneValuePerBallot
  BY DEF HoleInv
<1>2. PreparedStays <=> [][Stays]_vars
  BY PTL DEF PreparedStays, Stays
<1> QED BY <1>1, <1>2, HoleInvariant, PTL
=============================================================================
