------------------------------ MODULE SyncProofs ------------------------------
(***************************************************************************)
(* The truncation of the logs, proved for any bounds: the members that     *)
(* join, die and answer late, in Greet and Sync.                           *)
(*                                                                         *)
(* All that matters to it passes over the connections that the founder has *)
(* made, its hubs: the founder writes Down, the member writes Up.          *)
(***************************************************************************)
EXTENDS SyncProps, FiniteSetTheorems, FunctionTheorems, SequenceTheorems, WellFoundedInduction, TLAPS

Rest == Id \ {Founder}
Hub(q) == <<Founder, q>>
Up(q) == queue[Hub(q)][1]
Down(q) == queue[Hub(q)][2]

Entry == [kind : {"join", "part", "chat"}, who : 0 .. MaxInum, asked : SUBSET Id]

Message ==
  {Hello} \cup {CommitMsg(i) : i \in Id}
  \cup {WelcomeMsg(al, b, d) : al \in SUBSET Id, b \in Id, d \in SUBSET Id}
  \cup {SyncMsg(n) : n \in Nat} \cup {LastMsg(n, i) : n \in Nat, i \in Id} \cup {TruncateMsg(i) : i \in Id}

TypeInv ==
  /\ log \in Seq(Entry)
  /\ proc \in [Id -> {"none", "waiting", "in", "dead"}]
  /\ alist \in [Id -> SUBSET Id] /\ adefer \in [Id -> SUBSET Id]
  /\ peer \in [Id -> [Id -> 0 .. MaxInum]]
  /\ live_count \in [Id -> Int]
  /\ ibase \in [Id -> Id] /\ ihole \in [Id -> 1 .. MaxInum + 1]
  /\ done \in [Id -> SUBSET Id] /\ lack \in [Id -> SUBSET Id] /\ sought \in [Id -> SUBSET Id]
  /\ clist \in [Id -> SUBSET Continuation]
  /\ queue \in [Conn -> [Side -> Seq(Message)]] /\ closed \in [Conn -> SUBSET Side]

SyncType ==
  /\ sync \in [total : 0 .. MaxInum, acks : 0 .. MaxInum, skips : 0 .. SkipThresh, last : 0 .. MaxInum]
  /\ sync_id \in 0 .. MaxSync /\ sync_prev \in 0 .. MaxInum

(***************************************************************************)
(* The log of the founder.  A member is parted once, after it has died and *)
(* the founder has let it go, so that no more is decreed than the bound on *)
(* the changes allows.                                                     *)
(***************************************************************************)
Gone(q) ==
  /\ q \in Rest /\ proc[q] = "dead" /\ q < ihole[Founder] /\ peer[Founder][q] = 0
  /\ \A k \in clist[Founder] : k.who # q

LogInv ==
  /\ Old <= Len(log) /\ \A i \in 1 .. Old : log[i].kind = "join"
  /\ \A q \in Id : proc[q] # "none" <=> q \in DOMAIN log /\ log[q].kind = "join"
  /\ \A i \in DOMAIN log : log[i].kind = "part" => Gone(log[i].who)
  /\ \A i, j \in DOMAIN log :
       log[i].kind = "part" /\ log[j].kind = "part" /\ log[i].who = log[j].who => i = j
  /\ Changes <= MaxChange
  /\ lack[Founder] = {} /\ done[Founder] \subseteq DOMAIN log

(***************************************************************************)
(* The founder, its hubs, and the connections of the others, which carry   *)
(* nothing but hellos.  A member that is in the session has its hub open;  *)
(* what it reads first is its welcome.                                     *)
(***************************************************************************)
FounderInv ==
  /\ proc[Founder] = "in" /\ Founder \in alist[Founder] /\ peer[Founder][Founder] = 0 /\ adefer[Founder] = {}
  /\ \A k \in clist[Founder] :
       /\ k.op = "welcome" /\ k.who \in Rest /\ k.who < ihole[Founder]
       /\ k.who \in DOMAIN log /\ log[k.who].kind = "join"
       /\ peer[Founder][k.who] = 0

HubInv(q) ==
  /\ \A s \in Side : s \in closed[Hub(q)] => queue[Hub(q)][s] = <<>>
  /\ closed[<<q, Founder>>] = Side
  /\ peer[Founder][q] \in {0, Founder}
  /\ peer[Founder][q] = 0 => closed[Hub(q)] = Side
  /\ peer[Founder][q] = Founder => q \in alist[Founder] /\ 1 \notin closed[Hub(q)] /\ q < ihole[Founder]
  /\ proc[q] = "in" => closed[Hub(q)] = {} /\ peer[Founder][q] = Founder
  /\ proc[q] = "waiting" =>
       \/ /\ closed[Hub(q)] = {} /\ peer[Founder][q] = Founder
          /\ Up(q) = <<>> /\ Down(q) # <<>> /\ Down(q)[1].op = "welcome"
       \/ peer[Founder][q] = 0
  /\ proc[q] = "none" => peer[Founder][q] = 0
  /\ proc[q] = "dead" => 2 \in closed[Hub(q)]
  /\ \A n \in DOMAIN Up(q) : Up(q)[n].op = "last"
  /\ \A n \in DOMAIN Down(q) :
       \/ Down(q)[n].op \in {"commit", "sync", "truncate"}
       \/ n = 1 /\ proc[q] = "waiting" /\ Down(q)[n].op = "welcome"

HellosInv ==
  \A c \in Conn : c[1] # Founder => queue[c][1] = <<>> /\ \A n \in DOMAIN queue[c][2] : queue[c][2][n] = Hello

WaitsInv ==
  \A m \in Rest :
    /\ \A k \in clist[m] : k.op = "ack_welcome" /\ k.who \notin {Founder, m}
    /\ proc[m] # "in" => clist[m] = {}

OthersInv == HellosInv /\ WaitsInv

ConnInv == FounderInv /\ OthersInv /\ \A q \in Rest : HubInv(q)

(***************************************************************************)
(* What the truncation is about: the members that the founder reaches, the *)
(* lists each of them has, or will have once it has read its welcome, and  *)
(* the hubs.                                                               *)
(***************************************************************************)
Reached(q) == peer[Founder][q] = Founder /\ 2 \notin closed[Hub(q)]
Base(q) == IF In(q) THEN ibase[q] ELSE Down(q)[1].ibase
Held(q) == IF In(q) THEN done[q] ELSE Down(q)[1].done
Top(q) == IF In(q) THEN ihole[q] ELSE FirstHole(Down(q)[1].ibase, Down(q)[1].done)

(* What the founder has committed, in its list or dropped from it. *)
Known(i) == i \in done[Founder] \/ i < ibase[Founder]

(***************************************************************************)
(* No member drops what the founder has not, which is learned by all; and  *)
(* all that a member has, or is told, is committed.                        *)
(***************************************************************************)
Fits(q) ==
  /\ Base(q) <= ibase[Founder] /\ ibase[Founder] < Top(q)
  /\ \A i \in Id : i \in Held(q) \/ i < Top(q) => Known(i)

Told(q) ==
  \A n \in DOMAIN Down(q) :
    /\ Down(q)[n].op = "commit" => Known(Down(q)[n].inum)
    /\ Down(q)[n].op = "truncate" => Down(q)[n].inum <= ibase[Founder]

LearnInv ==
  /\ ibase[Founder] < ihole[Founder] /\ \A i \in ibase[Founder] .. ihole[Founder] - 1 : i \in done[Founder]
  /\ \A q \in Rest : (Reached(q) => Fits(q)) /\ Told(q)

(***************************************************************************)
(* The current sync has been counted by as many members as have answered   *)
(* and been read; one that dies is never counted.                          *)
(***************************************************************************)
Asked(q) == {n \in DOMAIN Down(q) : Down(q)[n].op = "sync" /\ Down(q)[n].id = sync_id}
Answered(q) == {n \in DOMAIN Up(q) : Up(q)[n].id = sync_id}
Open == {q \in Rest : Asked(q) # {} \/ Answered(q) # {}}

Once(q) ==
  /\ \A n \in DOMAIN Down(q) : Down(q)[n].op = "sync" => Down(q)[n].id <= sync_id
  /\ \A n \in DOMAIN Up(q) : Up(q)[n].id <= sync_id
  /\ \A j, k \in Asked(q) : j = k
  /\ \A j, k \in Answered(q) : j = k
  /\ Asked(q) = {} \/ Answered(q) = {}

CountInv ==
  /\ \A q \in Rest : Once(q)
  /\ sync = NoSync => Open = {}
  /\ sync # NoSync => sync.acks + Cardinality(Open) <= sync.total /\ sync.acks >= 1

(***************************************************************************)
(* The answers to the current sync are all below the hole h that the       *)
(* founder had when it started: a member that has still to be counted has  *)
(* not learned past it, one that has been counted has learned what the     *)
(* sync will truncate, and one that has come since was given h or more.    *)
(***************************************************************************)
AskedBehind(q, h) ==
  \A k \in Asked(q) :
    /\ Reached(q) /\ Top(q) <= h /\ h \notin Held(q)
    /\ \A j \in 1 .. k : Down(q)[j].op = "commit" => Down(q)[j].inum # h

AnsweredBehind(q, h) ==
  \A n \in Answered(q) :
    /\ ibase[Founder] <= Up(q)[n].inum /\ Up(q)[n].inum < h
    /\ Reached(q) => Up(q)[n].inum < Top(q)

CountedBehind(q, h) ==
  Reached(q) /\ Asked(q) = {} /\ Answered(q) = {} => (sync.last # 0 /\ sync.last < Top(q)) \/ h <= Top(q)

Behind(h) ==
  /\ h <= ihole[Founder]
  /\ sync.last = 0 \/ (ibase[Founder] <= sync.last /\ sync.last < h)
  /\ \A q \in Rest : AskedBehind(q, h) /\ AnsweredBehind(q, h) /\ CountedBehind(q, h)

PointInv == sync # NoSync => \E h \in 1 .. MaxInum + 1 : Behind(h)

(* The truncations that are on their way to a member grow. *)
Ordered(q) ==
  \A k \in DOMAIN Down(q) : Down(q)[k].op = "truncate" =>
    /\ Base(q) <= Down(q)[k].inum
    /\ \A j \in DOMAIN Down(q) : j < k /\ Down(q)[j].op = "truncate" => Down(q)[j].inum <= Down(q)[k].inum

OrderInv == \A q \in Rest : Ordered(q)

TruncInv == LearnInv /\ CountInv /\ PointInv /\ OrderInv

(***************************************************************************)
(* live_count counts the peers, and us.  Unless a connection is made at    *)
(* once, a peer may come by its hello before, and is counted twice.        *)
(***************************************************************************)
Peers(m) == {q \in Id : peer[m][q] # 0}

LiveOf(m) ==
  /\ Peers(m) \subseteq alist[m]
  /\ proc[m] # "in" => Peers(m) = {}
  /\ proc[m] = "in" => \A q \in alist[m] : q < ihole[m]
  /\ Cardinality(Peers(m)) <= live_count[m]
  /\ Immediate /\ proc[m] = "in" =>
       live_count[m] = 1 + Cardinality(Peers(m)) /\ \A k \in clist[m] : k.who \notin Peers(m)

(* A welcome lists the founder, and those whose joins it lets one learn. *)
WelcomesInv ==
  \A q \in Rest : \A n \in DOMAIN Down(q) : Down(q)[n].op = "welcome" =>
    /\ Founder \in Down(q)[n].alist
    /\ \A i \in Down(q)[n].alist : i < FirstHole(Down(q)[n].ibase, Down(q)[n].done)

LiveInv == WelcomesInv /\ \A m \in Id : LiveOf(m)

-----------------------------------------------------------------------------
(* Numbers, connections and sequences. *)

LEMMA Numbers ==
  /\ Old \in Nat /\ Old >= 1 /\ MaxChange \in Nat /\ MaxInum \in Nat /\ MaxInum = Old + MaxChange
  /\ Founder = 1 /\ Founder \in Id /\ Id = 1 .. MaxInum /\ Id \subseteq Nat
  /\ \A i \in Id : i \in Nat /\ i \in Int /\ i >= 1 /\ i <= MaxInum
  /\ Side = {1, 2} /\ Other(1) = 2 /\ Other(2) = 1
BY OldAssumption, ChangeAssumption DEF MaxInum, Founder, Id, Side, Other

LEMMA IdIsFinite == IsFiniteSet(Id) /\ Cardinality(Id) = MaxInum
BY Numbers, FS_Interval

LEMMA Conns ==
  /\ \A c \in Conn : c = <<c[1], c[2]>> /\ c[1] \in Id /\ c[2] \in Id /\ c[1] # c[2]
  /\ \A a, b \in Id : a # b => <<a, b>> \in Conn
  /\ \A q \in Rest : Hub(q) \in Conn /\ <<q, Founder>> \in Conn
BY Numbers DEF Conn, Rest, Hub

LEMMA HubIs ==
  ASSUME NEW c \in Conn
  PROVE  /\ c[1] = Founder => c[2] \in Rest /\ c = Hub(c[2])
         /\ \A q \in Rest : c = Hub(q) => c[1] = Founder /\ c[2] = q
BY Conns DEF Rest, Hub

LEMMA TailIs ==
  ASSUME NEW S, NEW s \in Seq(S), s # <<>>
  PROVE  /\ Tail(s) \in Seq(S) /\ Len(s) >= 1 /\ Len(Tail(s)) = Len(s) - 1
         /\ Head(s) = s[1] /\ Head(s) \in S /\ 1 \in DOMAIN s
         /\ \A n \in DOMAIN Tail(s) : n \in Nat /\ n >= 1 /\ n + 1 \in DOMAIN s /\ Tail(s)[n] = s[n + 1]
OBVIOUS

LEMMA AppendIs ==
  ASSUME NEW S, NEW s \in Seq(S), NEW x \in S
  PROVE  /\ Append(s, x) \in Seq(S) /\ Append(s, x) # <<>>
         /\ DOMAIN Append(s, x) = DOMAIN s \cup {Len(s) + 1} /\ Len(s) + 1 \notin DOMAIN s
         /\ Append(s, x)[Len(s) + 1] = x /\ Len(s) \in Nat
         /\ \A n \in DOMAIN s : n \in Nat /\ n >= 1 /\ n <= Len(s) /\ Append(s, x)[n] = s[n]
OBVIOUS

(* What a message carries. *)
LEMMA MessageIs ==
  ASSUME NEW x \in Message
  PROVE  /\ x.op \in {"hello", "commit", "welcome", "sync", "last", "truncate"}
         /\ x.op = "hello" => x = Hello
         /\ x.op = "commit" => x = CommitMsg(x.inum) /\ x.inum \in Id
         /\ x.op = "welcome" => x.alist \in SUBSET Id /\ x.ibase \in Id /\ x.done \in SUBSET Id
         /\ x.op = "sync" => x = SyncMsg(x.id) /\ x.id \in Nat
         /\ x.op = "last" => x = LastMsg(x.id, x.inum) /\ x.id \in Nat /\ x.inum \in Id
         /\ x.op = "truncate" => x = TruncateMsg(x.inum) /\ x.inum \in Id
<1>1. CASE x \in {Hello}
  BY <1>1 DEF Hello
<1>2. CASE x \in {CommitMsg(i) : i \in Id}
  BY <1>2 DEF CommitMsg
<1>3. CASE x \in {WelcomeMsg(al, b, d) : al \in SUBSET Id, b \in Id, d \in SUBSET Id}
  BY <1>3 DEF WelcomeMsg
<1>4. CASE x \in {SyncMsg(n) : n \in Nat}
  BY <1>4 DEF SyncMsg
<1>5. CASE x \in {LastMsg(n, i) : n \in Nat, i \in Id}
  BY <1>5 DEF LastMsg
<1>6. CASE x \in {TruncateMsg(i) : i \in Id}
  BY <1>6 DEF TruncateMsg
<1> QED
  BY <1>1, <1>2, <1>3, <1>4, <1>5, <1>6 DEF Message

LEMMA MessagesAre ==
  /\ Hello \in Message
  /\ \A i \in Id : CommitMsg(i) \in Message /\ CommitMsg(i).op = "commit" /\ CommitMsg(i).inum = i
  /\ \A al, d \in SUBSET Id, b \in Id :
       /\ WelcomeMsg(al, b, d) \in Message /\ WelcomeMsg(al, b, d).op = "welcome"
       /\ WelcomeMsg(al, b, d).alist = al /\ WelcomeMsg(al, b, d).ibase = b /\ WelcomeMsg(al, b, d).done = d
  /\ \A n \in Nat : SyncMsg(n) \in Message /\ SyncMsg(n).op = "sync" /\ SyncMsg(n).id = n
  /\ \A n \in Nat, i \in Id :
       LastMsg(n, i) \in Message /\ LastMsg(n, i).op = "last" /\ LastMsg(n, i).id = n /\ LastMsg(n, i).inum = i
  /\ \A i \in Id : TruncateMsg(i) \in Message /\ TruncateMsg(i).op = "truncate" /\ TruncateMsg(i).inum = i
<1>1. Hello \in Message
  BY DEF Message
<1>2. \A i \in Id : CommitMsg(i) \in Message /\ CommitMsg(i).op = "commit" /\ CommitMsg(i).inum = i
  BY DEF Message, CommitMsg
<1>3. ASSUME NEW al \in SUBSET Id, NEW d \in SUBSET Id, NEW b \in Id
      PROVE  /\ WelcomeMsg(al, b, d) \in Message /\ WelcomeMsg(al, b, d).op = "welcome"
             /\ WelcomeMsg(al, b, d).alist = al /\ WelcomeMsg(al, b, d).ibase = b /\ WelcomeMsg(al, b, d).done = d
  <2>1. WelcomeMsg(al, b, d) \in Message
    BY DEF Message
  <2> QED
    BY <2>1 DEF WelcomeMsg
<1>4. \A n \in Nat : SyncMsg(n) \in Message /\ SyncMsg(n).op = "sync" /\ SyncMsg(n).id = n
  BY DEF Message, SyncMsg
<1>5. ASSUME NEW n \in Nat, NEW i \in Id
      PROVE  LastMsg(n, i) \in Message /\ LastMsg(n, i).op = "last" /\ LastMsg(n, i).id = n /\ LastMsg(n, i).inum = i
  <2>1. LastMsg(n, i) \in Message
    BY DEF Message
  <2> QED
    BY <2>1 DEF LastMsg
<1>6. \A i \in Id : TruncateMsg(i) \in Message /\ TruncateMsg(i).op = "truncate" /\ TruncateMsg(i).inum = i
  BY DEF Message, TruncateMsg
<1> QED
  BY <1>1, <1>2, <1>3, <1>4, <1>5, <1>6

LEMMA LeastIs ==
  ASSUME NEW S \in SUBSET Nat, S # {}
  PROVE  Least(S) \in S /\ \A y \in S : Least(S) <= y
<1> DEFINE Upto(n) == 0 .. n
           U == {Upto(n) : n \in S}
<1>1. U \subseteq FiniteSubsetsOf(Nat) /\ U # {}
  <2>1. \A n \in S : IsFiniteSet(Upto(n)) /\ Upto(n) \subseteq Nat
    BY FS_Interval
  <2> QED
    BY <2>1 DEF FiniteSubsetsOf
<1>2. PICK u \in U : \A v \in U : <<v, u>> \notin StrictSubsetOrdering(Nat)
  <2> HIDE DEF U
  <2> QED
    BY <1>1, FS_StrictSubsetOrderingWellFounded, WFMin
<1>3. PICK x \in S : u = 0 .. x
  OBVIOUS
<1>4. ASSUME NEW y \in S, y < x
      PROVE  FALSE
  <2>1. x \in 0 .. x /\ x \notin 0 .. y /\ 0 .. y \subseteq 0 .. x
    BY <1>4
  <2>2. <<0 .. y, 0 .. x>> \in StrictSubsetOrdering(Nat)
    BY <2>1 DEF StrictSubsetOrdering
  <2> QED
    BY <1>2, <1>3, <2>2
<1>5. \A y \in S : x <= y
  BY <1>4
<1> QED
  BY <1>5 DEF Least

LEMMA FirstHoleIs ==
  ASSUME NEW b \in Id, NEW S \in SUBSET Id
  PROVE  /\ FirstHole(b, S) \in 1 .. MaxInum + 1 /\ FirstHole(b, S) >= b /\ FirstHole(b, S) \notin S
         /\ \A j \in b .. FirstHole(b, S) - 1 : j \in S
<1> DEFINE T == {i \in b .. MaxInum + 1 : i \notin S}
<1>1. T \in SUBSET Nat /\ MaxInum + 1 \in T
  BY Numbers
<1>2. Least(T) \in T /\ \A y \in T : Least(T) <= y
  BY <1>1, LeastIs
<1> DEFINE h == Least(T)
<1>3. FirstHole(b, S) = h
  BY DEF FirstHole
<1>4. b \in Nat /\ b >= 1 /\ MaxInum \in Nat
  BY Numbers
<1>5. h \in b .. MaxInum + 1 /\ h \notin S /\ \A y \in T : h <= y
  BY <1>2
<1>6. ASSUME NEW j \in b .. h - 1
      PROVE  j \in S
  BY <1>5, <1>4
<1> HIDE DEF h
<1> QED
  BY <1>3, <1>4, <1>5, <1>6

-----------------------------------------------------------------------------
(***************************************************************************)
(* The moves: what the actions do to the lists and the hubs of the members *)
(* that the founder reaches.                                               *)
(***************************************************************************)
ViewInv ==
  /\ SyncType
  /\ done[Founder] \in SUBSET Id /\ ibase[Founder] \in Id /\ ihole[Founder] \in 1 .. MaxInum + 1
  /\ alist[Founder] \in SUBSET Id /\ Founder \in alist[Founder]
  /\ \A q \in Rest :
       /\ Down(q) \in Seq(Message) /\ Up(q) \in Seq(Message)
       /\ Reached(q) => Base(q) \in Id /\ Top(q) \in 1 .. MaxInum + 1 /\ Held(q) \in SUBSET Id /\ q \in alist[Founder]
       /\ ~Reached(q) => Down(q) = <<>>
       /\ \A n \in DOMAIN Up(q) : Up(q)[n].op = "last"

Keeps(q) ==
  /\ Reached(q)' <=> Reached(q)
  /\ Base(q)' = Base(q) /\ Top(q)' = Top(q) /\ Held(q)' = Held(q)
Kept(q) == Keeps(q) /\ Up(q)' = Up(q) /\ Down(q)' = Down(q)
Sent(q, msg) == Down(q)' = IF Reached(q) THEN Append(Down(q), msg) ELSE Down(q)
KeptBut(m) == \A q \in Rest \ {m} : Kept(q)

FounderKept == done'[Founder] = done[Founder] /\ ibase'[Founder] = ibase[Founder] /\ ihole'[Founder] = ihole[Founder]
SyncKept ==
  /\ sync_id' = sync_id /\ (sync' = NoSync <=> sync = NoSync)
  /\ sync'.total = sync.total /\ sync'.acks = sync.acks /\ sync'.last = sync.last

Rests == (\A q \in Rest : Kept(q)) /\ FounderKept /\ SyncKept

Commits(i) ==
  /\ \A q \in Rest : Keeps(q) /\ Up(q)' = Up(q) /\ Sent(q, CommitMsg(i))
  /\ done'[Founder] = done[Founder] \cup {i} /\ ibase'[Founder] = ibase[Founder] /\ ihole'[Founder] = ihole[Founder]
  /\ SyncKept

Learns ==
  /\ \A q \in Rest : Kept(q)
  /\ ihole[Founder] \in done[Founder]
  /\ done'[Founder] = done[Founder] /\ ibase'[Founder] = ibase[Founder] /\ ihole'[Founder] = ihole[Founder] + 1
  /\ SyncKept

MemberLearns(m) ==
  /\ KeptBut(m) /\ Up(m)' = Up(m) /\ Down(m)' = Down(m)
  /\ Reached(m) /\ Reached(m)' /\ Base(m)' = Base(m) /\ Held(m)' = Held(m)
  /\ Top(m) \in Held(m) /\ Top(m)' = Top(m) + 1
  /\ FounderKept /\ SyncKept

Welcomes(m) ==
  /\ KeptBut(m) /\ Up(m) = <<>> /\ Up(m)' = <<>> /\ ~Reached(m)
  /\ Down(m)' = <<WelcomeMsg(alist[Founder], ibase[Founder], done[Founder])>>
  /\ Base(m)' = ibase[Founder] /\ Held(m)' = done[Founder] /\ Top(m)' = FirstHole(ibase[Founder], done[Founder])
  /\ FounderKept /\ SyncKept

Loses(m) ==
  /\ KeptBut(m) /\ Up(m)' = Up(m) /\ Down(m)' = <<>> /\ ~Reached(m)'
  /\ FounderKept /\ SyncKept

(* The founder, or m, reads over the hub. *)
Reads(m) == Reached(m) /\ Down(m) # <<>> /\ Down(m)' = Tail(Down(m))

ReadsWelcome(m) ==
  /\ KeptBut(m) /\ Keeps(m) /\ Reads(m) /\ Up(m)' = Up(m)
  /\ FounderKept /\ SyncKept

ReadsCommit(m, i) ==
  /\ KeptBut(m) /\ Reads(m) /\ Up(m)' = Up(m)
  /\ Down(m)[1].op = "commit" /\ Down(m)[1].inum = i
  /\ Reached(m)' /\ Base(m)' = Base(m) /\ Top(m)' = Top(m) /\ Held(m)' = Held(m) \cup {i}
  /\ FounderKept /\ SyncKept

ReadsTruncate(m, i) ==
  /\ KeptBut(m) /\ Reads(m) /\ Up(m)' = Up(m)
  /\ Down(m)[1].op = "truncate" /\ Down(m)[1].inum = i
  /\ Reached(m)' /\ Base(m)' = i /\ Top(m)' = Top(m) /\ Held(m)' = {j \in Held(m) : j >= i}
  /\ FounderKept /\ SyncKept

ReadsSync(m, n) ==
  /\ KeptBut(m) /\ Keeps(m) /\ Reads(m)
  /\ Down(m)[1].op = "sync" /\ Down(m)[1].id = n
  /\ Up(m)' = Append(Up(m), LastMsg(n, Top(m) - 1))
  /\ FounderKept /\ SyncKept

Gets(m, n, i) == Up(m) # <<>> /\ Up(m)[1].id = n /\ Up(m)[1].inum = i /\ Up(m)' = Tail(Up(m))

GetsOld(m, n, i) ==
  /\ KeptBut(m) /\ Keeps(m) /\ Down(m)' = Down(m)
  /\ Gets(m, n, i) /\ n # sync_id
  /\ FounderKept /\ SyncKept

GetsLast(m, i) ==
  /\ KeptBut(m) /\ Keeps(m) /\ Down(m)' = Down(m)
  /\ Gets(m, sync_id, i)
  /\ FounderKept
  /\ sync # NoSync /\ sync.acks + 1 # sync.total
  /\ sync' = [sync EXCEPT !.last = Lower(i), !.acks = @ + 1] /\ sync_id' = sync_id

GetsLeast(m, i) ==
  /\ \A q \in Rest : Keeps(q) /\ Sent(q, TruncateMsg(SyncPoint(Lower(i)))) /\ (q # m => Up(q)' = Up(q))
  /\ Gets(m, sync_id, i)
  /\ ibase'[Founder] = SyncPoint(Lower(i)) /\ ihole'[Founder] = ihole[Founder]
  /\ done'[Founder] = {j \in done[Founder] : j >= SyncPoint(Lower(i))}
  /\ sync # NoSync /\ sync.acks + 1 = sync.total
  /\ sync' = NoSync /\ sync_id' = sync_id

Starts ==
  /\ \A q \in Rest : Keeps(q) /\ Up(q)' = Up(q) /\ Sent(q, SyncMsg(sync_id + 1))
  /\ ihole[Founder] \notin done[Founder]
  /\ sync' = [total |-> Cardinality(alist[Founder]), acks |-> 1, skips |-> 0, last |-> 0]
  /\ sync_id' = sync_id + 1 /\ FounderKept

(* What is read is the first of the queue, and what is sent the last. *)
LEMMA ReadOff ==
  ASSUME ViewInv, NEW m \in Rest, Reads(m)
  PROVE  /\ Down(m)[1] \in Message /\ 1 \in DOMAIN Down(m)
         /\ \A n \in DOMAIN Down(m)' : n \in Nat /\ n >= 1 /\ n + 1 \in DOMAIN Down(m) /\ Down(m)'[n] = Down(m)[n + 1]
<1>1. Down(m) \in Seq(Message) /\ Down(m) # <<>> /\ Down(m)' = Tail(Down(m))
  BY DEF ViewInv, Reads
<1> QED
  BY <1>1, TailIs

LEMMA GotOff ==
  ASSUME ViewInv, NEW m \in Rest, NEW n, NEW i, Gets(m, n, i)
  PROVE  /\ Up(m)[1] \in Message /\ 1 \in DOMAIN Up(m) /\ Up(m)[1].op = "last" /\ n \in Nat /\ i \in Id
         /\ \A k \in DOMAIN Up(m)' : k \in Nat /\ k >= 1 /\ k + 1 \in DOMAIN Up(m) /\ Up(m)'[k] = Up(m)[k + 1]
<1>1. Up(m) \in Seq(Message) /\ Up(m) # <<>> /\ Up(m)' = Tail(Up(m))
  BY DEF ViewInv, Gets
<1>2. Up(m)[1] \in Message /\ 1 \in DOMAIN Up(m)
  BY <1>1, TailIs
<1>3. Up(m)[1].op = "last" /\ Up(m)[1].id = n /\ Up(m)[1].inum = i
  BY <1>2 DEF ViewInv, Gets
<1>4. n \in Nat /\ i \in Id
  BY <1>2, <1>3, MessageIs
<1> QED
  BY <1>1, <1>2, <1>3, <1>4, TailIs

LEMMA SentOn ==
  ASSUME ViewInv, NEW q \in Rest, NEW msg \in Message, Sent(q, msg)
  PROVE  /\ DOMAIN Down(q) \subseteq DOMAIN Down(q)' /\ \A n \in DOMAIN Down(q) : Down(q)'[n] = Down(q)[n]
         /\ \A n \in DOMAIN Down(q)' \ DOMAIN Down(q) :
              Reached(q) /\ Down(q)'[n] = msg /\ n = Len(Down(q)) + 1 /\ \A k \in DOMAIN Down(q) : k < n
         /\ Reached(q) => Len(Down(q)) + 1 \in DOMAIN Down(q)'
<1>1. Down(q) \in Seq(Message)
  BY DEF ViewInv
<1>2. CASE Reached(q)
  <2>1. Down(q)' = Append(Down(q), msg)
    BY <1>2 DEF Sent
  <2> QED
    BY <1>1, <1>2, <2>1, AppendIs
<1>3. CASE ~Reached(q)
  BY <1>3 DEF Sent
<1> QED
  BY <1>2, <1>3

(* What the founder has committed stays committed, also if it is dropped. *)
Grows == ibase'[Founder] \in Id /\ ibase'[Founder] >= ibase[Founder] /\ \A i \in Id : Known(i) => Known(i)'

LEMMA KeptGrows ==
  ASSUME FounderKept, ViewInv
  PROVE  Grows
<1>1. ibase[Founder] \in Id /\ ibase[Founder] \in Int
  BY Numbers DEF ViewInv
<1>2. \A i \in Id : Known(i) => Known(i)'
  BY DEF FounderKept, Known
<1>3. ibase'[Founder] \in Id /\ ibase'[Founder] >= ibase[Founder]
  BY <1>1 DEF FounderKept
<1> QED
  BY <1>2, <1>3 DEF Grows

(* What fits still fits when the founder commits more. *)
LEMMA StillFits ==
  ASSUME ViewInv, LearnInv, NEW q \in Rest, Keeps(q), Grows, ibase'[Founder] = ibase[Founder]
  PROVE  Reached(q)' => Fits(q)'
<1> SUFFICES ASSUME Reached(q)
             PROVE  Fits(q)'
  BY DEF Keeps
<1>1. Fits(q)
  BY DEF LearnInv
<1> QED
  BY <1>1 DEF Fits, Grows, Keeps

LEMMA StillTold ==
  ASSUME ViewInv, LearnInv, NEW q \in Rest, Grows,
         NEW msg, \A n \in DOMAIN Down(q)' : Down(q)'[n] = msg \/ \E k \in DOMAIN Down(q) : Down(q)'[n] = Down(q)[k],
         \/ \E n \in DOMAIN Down(q) : msg = Down(q)[n]
         \/ msg.op = "commit" /\ Known(msg.inum)'
         \/ msg.op = "truncate" /\ msg.inum <= ibase'[Founder]
         \/ msg.op \in {"sync", "welcome"}
  PROVE  Told(q)'
<1>1. ASSUME NEW k \in DOMAIN Down(q)
      PROVE  /\ Down(q)[k].op = "commit" => Known(Down(q)[k].inum) /\ Down(q)[k].inum \in Id
             /\ Down(q)[k].op = "truncate" => Down(q)[k].inum <= ibase'[Founder]
  <2>1. Down(q)[k] \in Message
    BY DEF ViewInv
  <2>2. ibase'[Founder] >= ibase[Founder] /\ ibase[Founder] \in Id /\ ibase'[Founder] \in Id /\ Id \subseteq Int
    BY Numbers DEF Grows, ViewInv
  <2>3. CASE Down(q)[k].op = "commit"
    BY <2>1, <2>3, MessageIs DEF LearnInv, Told
  <2>4. CASE Down(q)[k].op = "truncate"
    <3>1. Down(q)[k].inum \in Id /\ Down(q)[k].inum <= ibase[Founder]
      BY <2>1, <2>4, MessageIs DEF LearnInv, Told
    <3> QED
      BY <2>2, <2>4, <3>1
  <2> QED
    BY <2>3, <2>4
<1>2. ASSUME NEW n \in DOMAIN Down(q)', NEW x, x = Down(q)'[n]
      PROVE  /\ x.op = "commit" => Known(x.inum)'
             /\ x.op = "truncate" => x.inum <= ibase'[Founder]
  BY <1>1, <1>2 DEF Grows
<1> QED
  BY <1>2 DEF Told, Known

LEMMA ToldLess ==
  ASSUME ViewInv, LearnInv, NEW q \in Rest, Grows,
         \A n \in DOMAIN Down(q)' : \E k \in DOMAIN Down(q) : Down(q)'[n] = Down(q)[k]
  PROVE  Told(q)'
<1>1. SyncMsg(1).op = "sync"
  BY DEF SyncMsg
<1> QED
  BY <1>1, StillTold

(* The list of the founder, when its own learning goes on as before. *)
LEMMA StillSolid ==
  ASSUME LearnInv, ibase'[Founder] = ibase[Founder], ihole'[Founder] = ihole[Founder], done[Founder] \subseteq done'[Founder]
  PROVE  ibase'[Founder] < ihole'[Founder] /\ \A i \in ibase'[Founder] .. ihole'[Founder] - 1 : i \in done'[Founder]
BY DEF LearnInv

LEMMA RestsLearn ==
  ASSUME ViewInv, LearnInv, Rests
  PROVE  LearnInv'
<1>1. Grows
  BY KeptGrows DEF Rests
<1>2. ASSUME NEW q \in Rest
      PROVE  (Reached(q)' => Fits(q)') /\ Told(q)'
  <2>1. Keeps(q) /\ Down(q)' = Down(q) /\ ibase'[Founder] = ibase[Founder]
    BY DEF Rests, Kept, FounderKept
  <2>2. Told(q)'
    BY <1>1, <2>1, ToldLess
  <2> QED
    BY <1>1, <2>1, <2>2, StillFits
<1> QED
  BY <1>2, StillSolid DEF LearnInv, Rests, FounderKept

LEMMA CommitsLearn ==
  ASSUME ViewInv, LearnInv, NEW i \in Id, Commits(i)
  PROVE  LearnInv'
<1>1. Grows
  BY Numbers DEF Commits, Grows, Known, ViewInv
<1>2. CommitMsg(i) \in Message /\ CommitMsg(i).op = "commit" /\ CommitMsg(i).inum = i
  BY MessagesAre
<1>3. Known(i)'
  BY DEF Known, Commits
<1>4. ASSUME NEW q \in Rest
      PROVE  (Reached(q)' => Fits(q)') /\ Told(q)'
  <2>1. Keeps(q) /\ Sent(q, CommitMsg(i)) /\ ibase'[Founder] = ibase[Founder]
    BY DEF Commits
  <2>2. \A n \in DOMAIN Down(q)' : Down(q)'[n] = CommitMsg(i) \/ \E k \in DOMAIN Down(q) : Down(q)'[n] = Down(q)[k]
    BY <1>2, <2>1, SentOn
  <2>3. Told(q)'
    BY <1>1, <1>2, <1>3, <2>2, StillTold
  <2> QED
    BY <1>1, <2>1, <2>3, StillFits
<1> QED
  BY <1>4, StillSolid DEF LearnInv, Commits

LEMMA LearnsLearn ==
  ASSUME ViewInv, LearnInv, Learns
  PROVE  LearnInv'
<1>1. Grows
  BY Numbers DEF Learns, Grows, Known, ViewInv
<1>2. ASSUME NEW q \in Rest
      PROVE  (Reached(q)' => Fits(q)') /\ Told(q)'
  <2>1. Keeps(q) /\ Down(q)' = Down(q) /\ ibase'[Founder] = ibase[Founder]
    BY DEF Learns, Kept
  <2>2. Told(q)'
    BY <1>1, <2>1, ToldLess
  <2> QED
    BY <1>1, <2>1, <2>2, StillFits
<1>3. ibase'[Founder] < ihole'[Founder] /\ \A i \in ibase'[Founder] .. ihole'[Founder] - 1 : i \in done'[Founder]
  <2>1. ibase[Founder] \in Int /\ ihole[Founder] \in Int
    BY Numbers DEF ViewInv
  <2> QED
    BY <2>1 DEF Learns, LearnInv
<1> QED
  BY <1>2, <1>3 DEF LearnInv

(* The others, when the move is that of m, and the founder learns nothing. *)
LEMMA OthersLearn ==
  ASSUME ViewInv, LearnInv, NEW m \in Rest, KeptBut(m), FounderKept, (Reached(m)' => Fits(m)') /\ Told(m)'
  PROVE  LearnInv'
<1>1. Grows
  BY KeptGrows
<1>2. ASSUME NEW q \in Rest \ {m}
      PROVE  (Reached(q)' => Fits(q)') /\ Told(q)'
  <2>1. Keeps(q) /\ Down(q)' = Down(q) /\ ibase'[Founder] = ibase[Founder]
    BY DEF KeptBut, Kept, FounderKept
  <2>2. Told(q)'
    BY <1>1, <2>1, ToldLess
  <2> QED
    BY <1>1, <2>1, <2>2, StillFits
<1>3. \A q \in Rest : (Reached(q)' => Fits(q)') /\ Told(q)'
  BY <1>2
<1> QED
  BY <1>3, StillSolid DEF LearnInv, FounderKept

LEMMA MemberLearnsLearn ==
  ASSUME ViewInv, LearnInv, NEW m \in Rest, MemberLearns(m)
  PROVE  LearnInv'
<1>1. Grows
  BY KeptGrows DEF MemberLearns
<1>2. Told(m)'
  BY <1>1, ToldLess DEF MemberLearns
<1>3. Fits(m)'
  <2>1. Fits(m) /\ Top(m) \in Int /\ ibase[Founder] \in Int /\ Held(m) \subseteq Id
    BY Numbers DEF LearnInv, MemberLearns, ViewInv
  <2>2. ASSUME NEW i \in Id, i \in Held(m) \/ i < Top(m) + 1
        PROVE  Known(i)
    BY <2>1, <2>2, Numbers DEF Fits, MemberLearns
  <2> QED
    BY <1>1, <2>1, <2>2 DEF Fits, MemberLearns, FounderKept, Grows
<1> QED
  BY <1>2, <1>3, OthersLearn DEF MemberLearns

LEMMA WelcomesLearn ==
  ASSUME ViewInv, LearnInv, NEW m \in Rest, Welcomes(m)
  PROVE  LearnInv'
<1>1. Grows
  BY KeptGrows DEF Welcomes
<1>2. Told(m)'
  <2>1. WelcomeMsg(alist[Founder], ibase[Founder], done[Founder]).op = "welcome"
    BY DEF WelcomeMsg
  <2>2. \A n \in DOMAIN Down(m)' : Down(m)'[n] = WelcomeMsg(alist[Founder], ibase[Founder], done[Founder])
    BY DEF Welcomes
  <2> QED
    BY <1>1, <2>1, <2>2, StillTold
<1>3. Fits(m)'
  <2> DEFINE t == FirstHole(ibase[Founder], done[Founder])
  <2>1. ibase[Founder] \in Id /\ done[Founder] \in SUBSET Id
    BY DEF ViewInv
  <2>2. t \in Int /\ t >= ibase[Founder] /\ t \notin done[Founder] /\ \A j \in ibase[Founder] .. t - 1 : j \in done[Founder]
    BY <2>1, FirstHoleIs
  <2>3. ibase[Founder] \in done[Founder]
    <3>1. ihole[Founder] \in Int /\ ibase[Founder] \in Int
      BY <2>1, Numbers DEF ViewInv
    <3> QED
      BY <3>1 DEF LearnInv
  <2>4. ibase[Founder] < t
    BY <2>1, <2>2, <2>3, Numbers
  <2>5. ASSUME NEW i \in Id, i \in done[Founder] \/ i < t
        PROVE  Known(i)
    BY <2>1, <2>2, <2>5, Numbers DEF Known
  <2>6. Base(m)' = ibase[Founder] /\ Held(m)' = done[Founder] /\ Top(m)' = t /\ ibase'[Founder] = ibase[Founder]
    BY DEF Welcomes, FounderKept
  <2> HIDE DEF t
  <2> QED
    BY <1>1, <2>1, <2>4, <2>5, <2>6, Numbers DEF Fits, Grows
<1> QED
  BY <1>2, <1>3, OthersLearn DEF Welcomes

LEMMA LosesLearn ==
  ASSUME ViewInv, LearnInv, NEW m \in Rest, Loses(m)
  PROVE  LearnInv'
<1>1. Told(m)' /\ ~Reached(m)'
  BY DEF Loses, Told
<1> QED
  BY <1>1, OthersLearn DEF Loses

LEMMA ReadLess ==
  ASSUME ViewInv, LearnInv, NEW m \in Rest, Reads(m), Grows
  PROVE  Told(m)' /\ Fits(m) /\ Reached(m)
<1>1. \A n \in DOMAIN Down(m)' : \E k \in DOMAIN Down(m) : Down(m)'[n] = Down(m)[k]
  BY ReadOff
<1> QED
  BY <1>1, ToldLess DEF Reads, LearnInv

LEMMA ReadsWelcomeLearn ==
  ASSUME ViewInv, LearnInv, NEW m \in Rest, ReadsWelcome(m)
  PROVE  LearnInv'
<1>1. Told(m)'
  BY KeptGrows, ReadLess DEF ReadsWelcome
<1>2. Reached(m)' => Fits(m)'
  BY KeptGrows, StillFits DEF ReadsWelcome, FounderKept
<1> QED
  BY <1>1, <1>2, OthersLearn DEF ReadsWelcome

LEMMA ReadsCommitLearn ==
  ASSUME ViewInv, LearnInv, NEW m \in Rest, NEW i \in Id, ReadsCommit(m, i)
  PROVE  LearnInv'
<1>1. Grows /\ Told(m)' /\ Fits(m)
  BY KeptGrows, ReadLess DEF ReadsCommit
<1>2. Known(i)
  BY ReadOff DEF ReadsCommit, LearnInv, Told
<1>3. Fits(m)'
  <2>1. \A j \in Id : j \in Held(m)' \/ j < Top(m)' => Known(j)
    BY <1>1, <1>2 DEF Fits, ReadsCommit
  <2> QED
    BY <1>1, <2>1 DEF Fits, ReadsCommit, FounderKept, Grows
<1> QED
  BY <1>1, <1>3, OthersLearn DEF ReadsCommit

LEMMA ReadsTruncateLearn ==
  ASSUME ViewInv, LearnInv, NEW m \in Rest, NEW i \in Id, ReadsTruncate(m, i)
  PROVE  LearnInv'
<1>1. Grows /\ Told(m)' /\ Fits(m)
  BY KeptGrows, ReadLess DEF ReadsTruncate
<1>2. i <= ibase[Founder]
  BY ReadOff DEF ReadsTruncate, LearnInv, Told
<1>3. Fits(m)'
  <2>1. \A j \in Id : j \in Held(m)' \/ j < Top(m)' => Known(j)
    BY <1>1 DEF Fits, ReadsTruncate
  <2> QED
    BY <1>1, <1>2, <2>1 DEF Fits, ReadsTruncate, FounderKept, Grows
<1> QED
  BY <1>1, <1>3, OthersLearn DEF ReadsTruncate

LEMMA ReadsSyncLearn ==
  ASSUME ViewInv, LearnInv, NEW m \in Rest, NEW n, ReadsSync(m, n)
  PROVE  LearnInv'
<1>1. Told(m)'
  BY KeptGrows, ReadLess DEF ReadsSync
<1>2. Reached(m)' => Fits(m)'
  BY KeptGrows, StillFits DEF ReadsSync, FounderKept
<1> QED
  BY <1>1, <1>2, OthersLearn DEF ReadsSync

LEMMA GetsLearn ==
  ASSUME ViewInv, LearnInv, NEW m \in Rest, KeptBut(m), Keeps(m), Down(m)' = Down(m), FounderKept
  PROVE  LearnInv'
<1>1. Told(m)'
  BY KeptGrows, ToldLess
<1>2. Reached(m)' => Fits(m)'
  BY KeptGrows, StillFits DEF FounderKept
<1> QED
  BY <1>1, <1>2, OthersLearn

LEMMA StartsLearn ==
  ASSUME ViewInv, LearnInv, Starts
  PROVE  LearnInv'
<1>1. Grows
  BY KeptGrows DEF Starts
<1>2. SyncMsg(sync_id + 1) \in Message /\ SyncMsg(sync_id + 1).op = "sync"
  BY MessagesAre, SyncAssumption DEF ViewInv, SyncType
<1>3. ASSUME NEW q \in Rest
      PROVE  (Reached(q)' => Fits(q)') /\ Told(q)'
  <2>1. Keeps(q) /\ Sent(q, SyncMsg(sync_id + 1)) /\ ibase'[Founder] = ibase[Founder]
    BY DEF Starts, FounderKept
  <2>2. \A n \in DOMAIN Down(q)' : Down(q)'[n] = SyncMsg(sync_id + 1) \/ \E k \in DOMAIN Down(q) : Down(q)'[n] = Down(q)[k]
    BY <1>2, <2>1, SentOn
  <2>3. Told(q)'
    BY <1>1, <1>2, <2>2, StillTold
  <2> QED
    BY <1>1, <2>1, <2>3, StillFits
<1> QED
  BY <1>3, StillSolid DEF LearnInv, Starts, FounderKept

-----------------------------------------------------------------------------
(* The count of the answers. *)

LEMMA OpenIsFinite == IsFiniteSet(Open) /\ IsFiniteSet(Open') /\ Cardinality(Open) \in Nat /\ Cardinality(Open') \in Nat
<1>1. IsFiniteSet(Id)
  BY IdIsFinite
<1>2. Open \subseteq Id /\ Open' \subseteq Id
  BY DEF Open, Rest
<1> QED
  BY <1>1, <1>2, FS_Subset, FS_CardinalityType

LEMMA KeptOnce ==
  ASSUME CountInv, NEW q \in Rest, Kept(q), sync_id' = sync_id
  PROVE  Once(q)' /\ Asked(q)' = Asked(q) /\ Answered(q)' = Answered(q)
BY DEF CountInv, Once, Asked, Answered, Kept

(* What was not in the hubs of q is not, when the sync is the same. *)
LEMMA FewerOnce ==
  ASSUME CountInv, NEW q \in Rest, sync_id' = sync_id,
         \A n \in DOMAIN Down(q)' : Down(q)'[n].op = "sync" => n \in DOMAIN Down(q) /\ Down(q)'[n] = Down(q)[n],
         Up(q)' = Up(q)
  PROVE  Once(q)' /\ Asked(q)' \subseteq Asked(q) /\ Answered(q)' = Answered(q)
<1>1. Once(q)
  BY DEF CountInv
<1>2. Asked(q)' \subseteq Asked(q) /\ Answered(q)' = Answered(q)
  BY DEF Asked, Answered
<1> QED
  BY <1>1, <1>2 DEF Once

LEMMA SentOnce ==
  ASSUME ViewInv, CountInv, NEW q \in Rest, NEW msg \in Message, msg.op # "sync", Sent(q, msg), Up(q)' = Up(q), sync_id' = sync_id
  PROVE  Once(q)' /\ Asked(q)' \subseteq Asked(q) /\ Answered(q)' = Answered(q)
<1>1. ASSUME NEW n \in DOMAIN Down(q)', Down(q)'[n].op = "sync"
      PROVE  n \in DOMAIN Down(q) /\ Down(q)'[n] = Down(q)[n]
  BY <1>1, SentOn
<1> QED
  BY <1>1, FewerOnce

LEMMA ReadOnce ==
  ASSUME ViewInv, CountInv, NEW m \in Rest, Reads(m), Up(m)' = Up(m), sync_id' = sync_id
  PROVE  /\ Once(m)' /\ Answered(m)' = Answered(m)
         /\ \A k \in Asked(m)' : k + 1 \in Asked(m)
<1>1. Once(m)
  BY DEF CountInv
<1>2. Answered(m)' = Answered(m)
  BY DEF Answered
<1>3. \A k \in Asked(m)' : k + 1 \in Asked(m) /\ k \in Nat
  BY ReadOff DEF Asked
<1>4. \A j, k \in Asked(m)' : j = k
  BY <1>1, <1>3 DEF Once
<1>5. \A n \in DOMAIN Down(m)' : Down(m)'[n].op = "sync" => Down(m)'[n].id <= sync_id'
  BY <1>1, ReadOff DEF Once
<1> QED
  BY <1>1, <1>2, <1>3, <1>4, <1>5 DEF Once

LEMMA GotOnce ==
  ASSUME ViewInv, CountInv, NEW m \in Rest, NEW n, NEW i, Gets(m, n, i), sync_id' = sync_id,
         \A k \in DOMAIN Down(m)' : Down(m)'[k].op = "sync" => k \in DOMAIN Down(m) /\ Down(m)'[k] = Down(m)[k]
  PROVE  /\ Once(m)' /\ Asked(m)' \subseteq Asked(m)
         /\ \A k \in Answered(m)' : k + 1 \in Answered(m)
         /\ n = sync_id => 1 \in Answered(m) /\ Answered(m)' = {} /\ Asked(m)' = {}
<1>1. Once(m)
  BY DEF CountInv
<1>2. Asked(m)' \subseteq Asked(m)
  BY DEF Asked
<1>3. \A k \in Answered(m)' : k + 1 \in Answered(m) /\ k \in Nat /\ k >= 1
  BY GotOff DEF Answered
<1>4. n = sync_id => 1 \in Answered(m)
  BY GotOff DEF Answered, Gets
<1>5. n = sync_id => Answered(m)' = {} /\ Asked(m)' = {}
  <2> SUFFICES ASSUME n = sync_id
               PROVE  Answered(m)' = {} /\ Asked(m)' = {}
    OBVIOUS
  <2>1. ASSUME NEW k \in Answered(m)'
        PROVE  FALSE
    <3>1. k + 1 = 1
      BY <1>1, <1>3, <1>4 DEF Once
    <3> QED
      BY <1>3, <3>1
  <2> QED
    BY <1>1, <1>2, <1>4, <2>1 DEF Once
<1>6. \A j, k \in Answered(m)' : j = k
  BY <1>1, <1>3 DEF Once
<1>7. \A k \in DOMAIN Up(m)' : Up(m)'[k].id <= sync_id'
  BY <1>1, GotOff DEF Once
<1>8. \A k \in DOMAIN Down(m)' : Down(m)'[k].op = "sync" => Down(m)'[k].id <= sync_id'
  BY <1>1 DEF Once
<1> QED
  BY <1>1, <1>2, <1>3, <1>4, <1>5, <1>6, <1>7, <1>8 DEF Once

LEMMA SyncsOnce ==
  ASSUME ViewInv, CountInv, NEW m \in Rest, NEW n, ReadsSync(m, n), Top(m) - 1 \in Id
  PROVE  /\ Once(m)'
         /\ Asked(m)' # {} \/ Answered(m)' # {} => Asked(m) # {} \/ Answered(m) # {}
         /\ \A k \in Asked(m)' : k + 1 \in Asked(m)
         /\ \A k \in Answered(m)' : \/ k \in Answered(m) /\ Up(m)'[k] = Up(m)[k]
                                    \/ 1 \in Asked(m) /\ Up(m)'[k] = LastMsg(n, Top(m) - 1)
<1>1. Once(m)
  BY DEF CountInv
<1>2. Reads(m) /\ sync_id' = sync_id
  BY DEF ReadsSync, SyncKept
<1>3. n \in Nat /\ n <= sync_id /\ (n = sync_id => 1 \in Asked(m))
  BY <1>1, <1>2, ReadOff, MessageIs DEF ReadsSync, Once, Asked
<1>4. LastMsg(n, Top(m) - 1) \in Message /\ LastMsg(n, Top(m) - 1).id = n
  BY <1>3, MessagesAre
<1>5. /\ Up(m) \in Seq(Message) /\ Up(m)' = Append(Up(m), LastMsg(n, Top(m) - 1))
  BY DEF ViewInv, ReadsSync
<1>6. \A k \in DOMAIN Up(m)' : \/ k \in DOMAIN Up(m) /\ Up(m)'[k] = Up(m)[k]
                               \/ k = Len(Up(m)) + 1 /\ Up(m)'[k] = LastMsg(n, Top(m) - 1)
  BY <1>4, <1>5, AppendIs
<1>7. \A k \in Asked(m)' : k + 1 \in Asked(m) /\ k \in Nat /\ k >= 1
  BY <1>2, ReadOff DEF Asked
<1>8. \A k \in Answered(m)' : \/ k \in Answered(m) /\ Up(m)'[k] = Up(m)[k]
                              \/ n = sync_id /\ k = Len(Up(m)) + 1 /\ Up(m)'[k] = LastMsg(n, Top(m) - 1)
  BY <1>2, <1>4, <1>6 DEF Answered
<1>9. n = sync_id => Answered(m) = {} /\ Asked(m)' = {}
  <2> SUFFICES ASSUME n = sync_id
               PROVE  Answered(m) = {} /\ Asked(m)' = {}
    OBVIOUS
  <2>1. 1 \in Asked(m) /\ Answered(m) = {}
    BY <1>1, <1>3 DEF Once
  <2>2. ASSUME NEW k \in Asked(m)'
        PROVE  FALSE
    <3>1. k + 1 = 1
      BY <1>1, <1>7, <2>1 DEF Once
    <3> QED
      BY <1>7, <3>1
  <2> QED
    BY <2>1, <2>2
<1>10. \A j, k \in Answered(m)' : j = k
  BY <1>1, <1>8, <1>9 DEF Once
<1>11. \A j, k \in Asked(m)' : j = k
  BY <1>1, <1>7 DEF Once
<1>12. \A k \in DOMAIN Up(m)' : Up(m)'[k].id <= sync_id'
  BY <1>1, <1>2, <1>3, <1>4, <1>6 DEF Once
<1>13. \A k \in DOMAIN Down(m)' : Down(m)'[k].op = "sync" => Down(m)'[k].id <= sync_id'
  BY <1>1, <1>2, ReadOff DEF Once
<1>14. Asked(m)' = {} \/ Answered(m)' = {}
  BY <1>1, <1>7, <1>8, <1>9 DEF Once
<1>15. Asked(m)' # {} \/ Answered(m)' # {} => Asked(m) # {} \/ Answered(m) # {}
  BY <1>3, <1>7, <1>8
<1> QED
  BY <1>3, <1>7, <1>8, <1>10, <1>11, <1>12, <1>13, <1>14, <1>15 DEF Once

(* No member is waited for that was not. *)
LEMMA FewerOpen ==
  ASSUME ViewInv, CountInv, SyncKept, \A q \in Rest : Once(q)',
         \A q \in Rest : Asked(q)' # {} \/ Answered(q)' # {} => Asked(q) # {} \/ Answered(q) # {}
  PROVE  CountInv' /\ Open' \subseteq Open
<1>1. Open' \subseteq Open
  BY DEF Open
<1>2. Cardinality(Open') <= Cardinality(Open)
  BY <1>1, OpenIsFinite, FS_Subset
<1>3. sync' = NoSync => Open' = {}
  BY <1>1 DEF SyncKept, CountInv
<1>4. sync' # NoSync => sync'.acks + Cardinality(Open') <= sync'.total /\ sync'.acks >= 1
  <2>1. sync.acks \in Int /\ sync.total \in Int
    BY DEF ViewInv, SyncType
  <2>2. sync # NoSync => sync.acks + Cardinality(Open) <= sync.total /\ sync.acks >= 1
    BY DEF CountInv
  <2> QED
    BY <1>2, <2>1, <2>2, OpenIsFinite DEF SyncKept
<1> QED
  BY <1>1, <1>3, <1>4 DEF CountInv

LEMMA RestsCount ==
  ASSUME ViewInv, CountInv, \A q \in Rest : Kept(q), SyncKept
  PROVE  CountInv' /\ Open' = Open
<1>1. \A q \in Rest : Once(q)' /\ Asked(q)' = Asked(q) /\ Answered(q)' = Answered(q)
  BY KeptOnce DEF SyncKept
<1> QED
  BY <1>1, FewerOpen DEF Open

LEMMA CommitsCount ==
  ASSUME ViewInv, CountInv, NEW i \in Id, Commits(i)
  PROVE  CountInv'
<1>1. CommitMsg(i) \in Message /\ CommitMsg(i).op # "sync"
  BY MessagesAre
<1>2. \A q \in Rest : Once(q)' /\ Asked(q)' \subseteq Asked(q) /\ Answered(q)' = Answered(q)
  BY <1>1, SentOnce DEF Commits, SyncKept
<1> QED
  BY <1>2, FewerOpen DEF Commits

(* The others, when the move is that of m. *)
LEMMA OthersCount ==
  ASSUME ViewInv, CountInv, NEW m \in Rest, KeptBut(m), SyncKept, Once(m)',
         Asked(m)' # {} \/ Answered(m)' # {} => Asked(m) # {} \/ Answered(m) # {}
  PROVE  CountInv'
<1>1. \A q \in Rest \ {m} : Once(q)' /\ Asked(q)' = Asked(q) /\ Answered(q)' = Answered(q)
  BY KeptOnce DEF SyncKept, KeptBut
<1>2. \A q \in Rest : Once(q)'
  BY <1>1
<1>3. \A q \in Rest : Asked(q)' # {} \/ Answered(q)' # {} => Asked(q) # {} \/ Answered(q) # {}
  BY <1>1
<1> QED
  BY <1>2, <1>3, FewerOpen

LEMMA MemberLearnsCount ==
  ASSUME ViewInv, CountInv, NEW m \in Rest, MemberLearns(m)
  PROVE  CountInv'
<1>1. Once(m)' /\ Asked(m)' \subseteq Asked(m) /\ Answered(m)' = Answered(m)
  BY FewerOnce DEF MemberLearns, SyncKept
<1> QED
  BY <1>1, OthersCount DEF MemberLearns

LEMMA WelcomesCount ==
  ASSUME ViewInv, CountInv, NEW m \in Rest, Welcomes(m)
  PROVE  CountInv'
<1>1. WelcomeMsg(alist[Founder], ibase[Founder], done[Founder]).op # "sync"
  BY DEF WelcomeMsg
<1>2. \A n \in DOMAIN Down(m)' : Down(m)'[n].op # "sync"
  BY <1>1 DEF Welcomes
<1>3. Once(m)' /\ Asked(m)' \subseteq Asked(m) /\ Answered(m)' = Answered(m)
  BY <1>2, FewerOnce DEF Welcomes, SyncKept
<1> QED
  BY <1>3, OthersCount DEF Welcomes

LEMMA LosesCount ==
  ASSUME ViewInv, CountInv, NEW m \in Rest, Loses(m)
  PROVE  CountInv'
<1>1. Once(m)' /\ Asked(m)' \subseteq Asked(m) /\ Answered(m)' = Answered(m)
  BY FewerOnce DEF Loses, SyncKept
<1> QED
  BY <1>1, OthersCount DEF Loses

LEMMA ReadsCount ==
  ASSUME ViewInv, CountInv, NEW m \in Rest, KeptBut(m), Reads(m), Up(m)' = Up(m), SyncKept
  PROVE  CountInv'
<1>1. Once(m)' /\ Answered(m)' = Answered(m) /\ \A k \in Asked(m)' : k + 1 \in Asked(m)
  BY ReadOnce DEF SyncKept
<1>2. Asked(m)' # {} => Asked(m) # {}
  BY <1>1
<1> QED
  BY <1>1, <1>2, OthersCount

LEMMA ReadsSyncCount ==
  ASSUME ViewInv, CountInv, NEW m \in Rest, NEW n, ReadsSync(m, n), Top(m) - 1 \in Id
  PROVE  CountInv'
<1>1. Once(m)' /\ (Asked(m)' # {} \/ Answered(m)' # {} => Asked(m) # {} \/ Answered(m) # {})
  BY SyncsOnce
<1> QED
  BY <1>1, OthersCount DEF ReadsSync

LEMMA GetsOldCount ==
  ASSUME ViewInv, CountInv, NEW m \in Rest, NEW n, NEW i, GetsOld(m, n, i)
  PROVE  CountInv'
<1>1. Once(m)' /\ Asked(m)' \subseteq Asked(m) /\ \A k \in Answered(m)' : k + 1 \in Answered(m)
  BY GotOnce DEF GetsOld, SyncKept
<1>2. Asked(m)' # {} \/ Answered(m)' # {} => Asked(m) # {} \/ Answered(m) # {}
  BY <1>1
<1> QED
  BY <1>1, <1>2, OthersCount DEF GetsOld

(* The member whose answer is counted was waited for, and is no more. *)
LEMMA GotOpen ==
  ASSUME ViewInv, CountInv, NEW m \in Rest, NEW i, Gets(m, sync_id, i), sync_id' = sync_id, sync # NoSync,
         \A q \in Rest : Once(q)' /\ Asked(q)' \subseteq Asked(q) /\ (q # m => Answered(q)' = Answered(q)),
         Asked(m)' = {} /\ Answered(m)' = {}, 1 \in Answered(m)
  PROVE  Open' \subseteq Open \ {m} /\ Cardinality(Open') <= Cardinality(Open) - 1 /\ sync.acks + Cardinality(Open') + 1 <= sync.total
<1>1. m \in Open /\ Open' \subseteq Open \ {m}
  BY DEF Open
<1>2. Cardinality(Open \ {m}) = Cardinality(Open) - 1 /\ IsFiniteSet(Open \ {m})
  BY <1>1, OpenIsFinite, FS_RemoveElement
<1>3. Cardinality(Open') <= Cardinality(Open) - 1
  BY <1>1, <1>2, FS_Subset
<1>4. sync.acks \in Int /\ sync.total \in Int /\ sync.acks + Cardinality(Open) <= sync.total
  BY DEF ViewInv, SyncType, CountInv
<1> QED
  BY <1>1, <1>3, <1>4, OpenIsFinite

LEMMA GetsLastCount ==
  ASSUME ViewInv, CountInv, NEW m \in Rest, NEW i, GetsLast(m, i)
  PROVE  CountInv' /\ Open' \subseteq Open \ {m} /\ sync' # NoSync
<1>1. Once(m)' /\ Asked(m)' \subseteq Asked(m) /\ Asked(m)' = {} /\ Answered(m)' = {} /\ 1 \in Answered(m)
  BY GotOnce DEF GetsLast
<1>2. \A q \in Rest \ {m} : Once(q)' /\ Asked(q)' = Asked(q) /\ Answered(q)' = Answered(q)
  BY KeptOnce DEF GetsLast, KeptBut
<1>3. \A q \in Rest : Once(q)' /\ Asked(q)' \subseteq Asked(q) /\ (q # m => Answered(q)' = Answered(q))
  BY <1>1, <1>2
<1>4. Open' \subseteq Open \ {m} /\ sync.acks + Cardinality(Open') + 1 <= sync.total
  BY <1>1, <1>3, GotOpen DEF GetsLast
<1>5. /\ sync'.acks = sync.acks + 1 /\ sync'.total = sync.total
      /\ sync.acks \in Int /\ sync.acks >= 1 /\ sync.total \in Int
  BY DEF GetsLast, ViewInv, SyncType, CountInv
<1>6. sync' # NoSync
  BY <1>5 DEF NoSync
<1> QED
  BY <1>3, <1>4, <1>5, <1>6, OpenIsFinite DEF CountInv

LEMMA GetsLeastCount ==
  ASSUME ViewInv, CountInv, NEW m \in Rest, NEW i, GetsLeast(m, i), SyncPoint(Lower(i)) \in Id
  PROVE  CountInv' /\ Open = {m}
<1>1. TruncateMsg(SyncPoint(Lower(i))) \in Message /\ TruncateMsg(SyncPoint(Lower(i))).op # "sync"
  BY MessagesAre
<1>2. \A q \in Rest \ {m} : Once(q)' /\ Asked(q)' \subseteq Asked(q) /\ Answered(q)' = Answered(q)
  BY <1>1, SentOnce DEF GetsLeast
<1>3. Once(m)' /\ Asked(m)' \subseteq Asked(m) /\ Asked(m)' = {} /\ Answered(m)' = {} /\ 1 \in Answered(m)
  <2>1. Sent(m, TruncateMsg(SyncPoint(Lower(i)))) /\ Gets(m, sync_id, i) /\ sync_id' = sync_id
    BY DEF GetsLeast
  <2>2. ASSUME NEW n \in DOMAIN Down(m)', Down(m)'[n].op = "sync"
        PROVE  n \in DOMAIN Down(m) /\ Down(m)'[n] = Down(m)[n]
    BY <1>1, <2>1, <2>2, SentOn
  <2> QED
    BY <2>1, <2>2, GotOnce
<1>4. \A q \in Rest : Once(q)' /\ Asked(q)' \subseteq Asked(q) /\ (q # m => Answered(q)' = Answered(q))
  BY <1>2, <1>3
<1>5. Open' \subseteq Open \ {m} /\ Cardinality(Open') <= Cardinality(Open) - 1 /\ sync.acks + Cardinality(Open') + 1 <= sync.total
  BY <1>3, <1>4, GotOpen DEF GetsLeast
<1>6. Cardinality(Open) = 1
  <2>1. sync.acks \in Int /\ sync.acks + Cardinality(Open) <= sync.total /\ sync.acks + 1 = sync.total
    BY DEF ViewInv, SyncType, CountInv, GetsLeast
  <2> QED
    BY <1>5, <2>1, OpenIsFinite
<1>7. m \in Open
  BY <1>3 DEF Open
<1>8. Open = {m}
  <2>1. PICK x : Open = {x}
    BY <1>6, OpenIsFinite, FS_Singleton
  <2> QED
    BY <1>7, <2>1
<1>9. sync' = NoSync /\ Open' = {}
  BY <1>5, <1>8 DEF GetsLeast
<1> QED
  BY <1>4, <1>8, <1>9 DEF CountInv

LEMMA StartsCount ==
  ASSUME ViewInv, CountInv, Starts
  PROVE  /\ CountInv'
         /\ \A q \in Rest : Answered(q)' = {} /\ (Reached(q) => Asked(q)' # {})
         /\ \A q \in Rest : \A k \in Asked(q)' : Reached(q) /\ k = Len(Down(q)) + 1
<1> DEFINE msg == SyncMsg(sync_id + 1)
<1>1. msg \in Message /\ msg.op = "sync" /\ msg.id = sync_id + 1 /\ sync_id \in Int /\ sync_id' = sync_id + 1
  BY MessagesAre, SyncAssumption DEF ViewInv, SyncType, Starts
<1> HIDE DEF msg
<1>2. ASSUME NEW q \in Rest
      PROVE  /\ Once(q)' /\ Answered(q)' = {}
             /\ Reached(q) => Asked(q)' # {}
             /\ \A k \in Asked(q)' : Reached(q) /\ k = Len(Down(q)) + 1
  <2>1. Once(q) /\ Sent(q, msg) /\ Up(q)' = Up(q)
    BY DEF CountInv, Starts, msg
  <2>2. /\ \A n \in DOMAIN Down(q) : Down(q)'[n] = Down(q)[n]
        /\ \A n \in DOMAIN Down(q)' \ DOMAIN Down(q) : Reached(q) /\ Down(q)'[n] = msg /\ n = Len(Down(q)) + 1
    BY <1>1, <2>1, SentOn
  <2>3. \A n \in DOMAIN Up(q) : Up(q)[n].id \in Nat
    <3>1. ASSUME NEW n \in DOMAIN Up(q)
          PROVE  Up(q)[n] \in Message /\ Up(q)[n].op = "last"
      BY DEF ViewInv
    <3> QED
      BY <3>1, MessageIs
  <2>4. Answered(q)' = {}
    BY <1>1, <2>1, <2>3 DEF Answered, Once
  <2>5. ASSUME NEW n \in DOMAIN Down(q), Down(q)[n].op = "sync"
        PROVE  Down(q)[n].id \in Nat /\ Down(q)[n].id <= sync_id
    <3>1. Down(q)[n] \in Message
      BY DEF ViewInv
    <3> QED
      BY <2>1, <2>5, <3>1, MessageIs DEF Once
  <2>6. ASSUME NEW k \in Asked(q)'
        PROVE  k \notin DOMAIN Down(q)
    BY <1>1, <2>2, <2>5 DEF Asked
  <2>7. \A k \in Asked(q)' : Reached(q) /\ k = Len(Down(q)) + 1
    BY <2>2, <2>6 DEF Asked
  <2>8. ASSUME Reached(q)
        PROVE  Asked(q)' # {}
    <3>1. Down(q) \in Seq(Message) /\ Down(q)' = Append(Down(q), msg)
      BY <2>1, <2>8 DEF ViewInv, Sent
    <3>2. Len(Down(q)) + 1 \in DOMAIN Down(q)' /\ Down(q)'[Len(Down(q)) + 1] = msg
      BY <1>1, <3>1, AppendIs
    <3> QED
      BY <1>1, <3>2 DEF Asked
  <2>9. \A n \in DOMAIN Down(q)' : Down(q)'[n].op = "sync" => Down(q)'[n].id <= sync_id'
    BY <1>1, <2>2, <2>5
  <2>10. \A n \in DOMAIN Up(q)' : Up(q)'[n].id <= sync_id'
    BY <1>1, <2>1, <2>3 DEF Once
  <2> QED
    BY <2>4, <2>7, <2>8, <2>9, <2>10 DEF Once
<1>3. Cardinality(Open') + 1 <= Cardinality(alist[Founder])
  <2>1. Open' \subseteq alist[Founder] \ {Founder}
    BY <1>2 DEF Open, ViewInv, Rest
  <2>2. IsFiniteSet(alist[Founder]) /\ Founder \in alist[Founder]
    BY IdIsFinite, FS_Subset DEF ViewInv
  <2>3. Cardinality(alist[Founder] \ {Founder}) = Cardinality(alist[Founder]) - 1 /\ IsFiniteSet(alist[Founder] \ {Founder})
    BY <2>2, FS_RemoveElement
  <2>4. Cardinality(Open') <= Cardinality(alist[Founder]) - 1
    BY <2>1, <2>3, FS_Subset
  <2> QED
    BY <2>2, <2>4, OpenIsFinite, FS_CardinalityType
<1>4. sync'.total = Cardinality(alist[Founder]) /\ sync'.acks = 1
  BY DEF Starts
<1>5. sync' # NoSync
  BY <1>4 DEF NoSync
<1>6. sync'.acks + Cardinality(Open') <= sync'.total
  BY <1>3, <1>4, OpenIsFinite
<1> QED
  BY <1>2, <1>4, <1>5, <1>6 DEF CountInv

-----------------------------------------------------------------------------
(* The hole that the answers are behind. *)

BehindOf(q, h) == AskedBehind(q, h) /\ AnsweredBehind(q, h) /\ CountedBehind(q, h)

LEMMA KeptBehind ==
  ASSUME NEW h, NEW q \in Rest, Kept(q), BehindOf(q, h),
         ibase'[Founder] = ibase[Founder], sync_id' = sync_id, sync'.last = sync.last
  PROVE  BehindOf(q, h)'
<1>1. Asked(q)' = Asked(q) /\ Answered(q)' = Answered(q)
  BY DEF Asked, Answered, Kept
<1> QED
  BY <1>1 DEF BehindOf, AskedBehind, AnsweredBehind, CountedBehind, Kept, Keeps

(* A move that the sync and the founder do not notice. *)
LEMMA MovePoint ==
  ASSUME PointInv, SyncKept, ibase'[Founder] = ibase[Founder], ihole[Founder] \in Int,
         ihole'[Founder] \in Int, ihole'[Founder] >= ihole[Founder],
         \A h \in 1 .. MaxInum + 1 : h <= ihole[Founder] /\ (\A q \in Rest : BehindOf(q, h)) =>
           \A q \in Rest : BehindOf(q, h)'
  PROVE  PointInv'
<1> SUFFICES ASSUME sync' # NoSync
             PROVE  \E h \in 1 .. MaxInum + 1 : Behind(h)'
  BY DEF PointInv
<1>1. PICK h \in 1 .. MaxInum + 1 : Behind(h)
  BY DEF PointInv, SyncKept
<1>2. /\ h <= ihole[Founder] /\ \A q \in Rest : BehindOf(q, h)
      /\ sync.last = 0 \/ (ibase[Founder] <= sync.last /\ sync.last < h)
  BY <1>1 DEF Behind, BehindOf
<1>3. \A q \in Rest : BehindOf(q, h)'
  BY <1>2
<1>4. h <= ihole'[Founder]
  BY <1>2
<1>5. sync'.last = 0 \/ (ibase'[Founder] <= sync'.last /\ sync'.last < h)
  BY <1>2 DEF SyncKept
<1>6. Behind(h)'
  BY <1>3, <1>4, <1>5 DEF Behind, BehindOf
<1> QED
  BY <1>6

LEMMA RestsPoint ==
  ASSUME ViewInv, PointInv, Rests
  PROVE  PointInv'
<1>1. ihole[Founder] \in Int /\ ihole'[Founder] = ihole[Founder] /\ ibase'[Founder] = ibase[Founder] /\ sync_id' = sync_id /\ sync'.last = sync.last
  BY Numbers DEF ViewInv, Rests, FounderKept, SyncKept
<1>2. \A h \in 1 .. MaxInum + 1, q \in Rest : BehindOf(q, h) => BehindOf(q, h)'
  BY <1>1, KeptBehind DEF Rests
<1> QED
  BY <1>1, <1>2, MovePoint DEF Rests

LEMMA LearnsPoint ==
  ASSUME ViewInv, PointInv, Learns
  PROVE  PointInv'
<1>1. ihole[Founder] \in Int /\ ihole'[Founder] = ihole[Founder] + 1 /\ ibase'[Founder] = ibase[Founder] /\ sync_id' = sync_id /\ sync'.last = sync.last
  BY Numbers DEF ViewInv, Learns, SyncKept
<1>2. \A h \in 1 .. MaxInum + 1, q \in Rest : BehindOf(q, h) => BehindOf(q, h)'
  BY <1>1, KeptBehind DEF Learns
<1> QED
  BY <1>1, <1>2, MovePoint DEF Learns

LEMMA CommitsPoint ==
  ASSUME ViewInv, PointInv, NEW i \in Id, Commits(i)
  PROVE  PointInv'
<1>1. ihole[Founder] \in Int /\ ihole'[Founder] = ihole[Founder] /\ ibase'[Founder] = ibase[Founder] /\ sync_id' = sync_id /\ sync'.last = sync.last
  BY Numbers DEF ViewInv, Commits, SyncKept
<1>2. CommitMsg(i) \in Message /\ CommitMsg(i).op # "sync"
  BY MessagesAre
<1>3. ASSUME NEW h \in 1 .. MaxInum + 1, NEW q \in Rest, BehindOf(q, h)
      PROVE  BehindOf(q, h)'
  <2>1. Sent(q, CommitMsg(i)) /\ Keeps(q) /\ Up(q)' = Up(q)
    BY DEF Commits
  <2>2. /\ DOMAIN Down(q) \subseteq DOMAIN Down(q)' /\ \A n \in DOMAIN Down(q) : Down(q)'[n] = Down(q)[n]
        /\ \A n \in DOMAIN Down(q)' \ DOMAIN Down(q) : Down(q)'[n] = CommitMsg(i)
    BY <1>2, <2>1, SentOn
  <2>3. Asked(q)' = Asked(q) /\ Answered(q)' = Answered(q)
    BY <1>1, <1>2, <2>1, <2>2 DEF Asked, Answered
  <2>4. Down(q) \in Seq(Message)
    BY DEF ViewInv
  <2>5. \A k \in Asked(q) : \A j \in 1 .. k : j \in DOMAIN Down(q)
    BY <2>4 DEF Asked
  <2>6. AskedBehind(q, h)'
    BY <1>3, <2>1, <2>2, <2>3, <2>5 DEF BehindOf, AskedBehind, Keeps
  <2> QED
    BY <1>1, <1>3, <2>1, <2>3, <2>6 DEF BehindOf, AnsweredBehind, CountedBehind, Keeps
<1> QED
  BY <1>1, <1>3, MovePoint DEF Commits

(* The others, when the move is that of m, and the sync does not notice. *)
LEMMA OthersPoint ==
  ASSUME ViewInv, PointInv, NEW m \in Rest, KeptBut(m), FounderKept, SyncKept,
         \A h \in 1 .. MaxInum + 1 : h <= ihole[Founder] /\ BehindOf(m, h) => BehindOf(m, h)'
  PROVE  PointInv'
<1>1. ihole[Founder] \in Int /\ ihole'[Founder] = ihole[Founder] /\ ibase'[Founder] = ibase[Founder] /\ sync_id' = sync_id /\ sync'.last = sync.last
  BY Numbers DEF ViewInv, FounderKept, SyncKept
<1>2. \A h \in 1 .. MaxInum + 1, q \in Rest \ {m} : BehindOf(q, h) => BehindOf(q, h)'
  BY <1>1, KeptBehind DEF KeptBut
<1>3. \A h \in 1 .. MaxInum + 1 : h <= ihole[Founder] /\ (\A q \in Rest : BehindOf(q, h)) => \A q \in Rest : BehindOf(q, h)'
  BY <1>2
<1> QED
  BY <1>1, <1>3, MovePoint

LEMMA MemberLearnsPoint ==
  ASSUME ViewInv, PointInv, NEW m \in Rest, MemberLearns(m)
  PROVE  PointInv'
<1>1. ASSUME NEW h \in 1 .. MaxInum + 1, BehindOf(m, h)
      PROVE  BehindOf(m, h)'
  <2>1. Asked(m)' = Asked(m) /\ Answered(m)' = Answered(m)
    BY DEF Asked, Answered, MemberLearns, SyncKept
  <2>2. Top(m) \in Int /\ sync.last \in Int
    BY Numbers DEF ViewInv, SyncType, MemberLearns
  <2>3. AskedBehind(m, h)'
    BY <1>1, <2>1, <2>2 DEF BehindOf, AskedBehind, MemberLearns
  <2>4. AnsweredBehind(m, h)'
    <3>1. \A n \in DOMAIN Up(m) : Up(m)[n] \in Message /\ Up(m)[n].op = "last"
      BY DEF ViewInv
    <3>2. \A n \in Answered(m) : Up(m)[n].inum \in Int
      BY <3>1, MessageIs, Numbers DEF Answered
    <3> QED
      BY <1>1, <2>1, <2>2, <3>2 DEF BehindOf, AnsweredBehind, MemberLearns, FounderKept
  <2>5. CountedBehind(m, h)'
    BY <1>1, <2>1, <2>2 DEF BehindOf, CountedBehind, MemberLearns, SyncKept
  <2> QED
    BY <2>3, <2>4, <2>5 DEF BehindOf
<1> QED
  BY <1>1, OthersPoint DEF MemberLearns

LEMMA WelcomesPoint ==
  ASSUME ViewInv, LearnInv, PointInv, NEW m \in Rest, Welcomes(m)
  PROVE  PointInv'
<1>1. ASSUME NEW h \in 1 .. MaxInum + 1, h <= ihole[Founder]
      PROVE  BehindOf(m, h)'
  <2>1. WelcomeMsg(alist[Founder], ibase[Founder], done[Founder]).op # "sync"
    BY DEF WelcomeMsg
  <2>2. Asked(m)' = {} /\ Answered(m)' = {}
    BY <2>1 DEF Welcomes, Asked, Answered
  <2>3. h <= Top(m)'
    <3> DEFINE t == FirstHole(ibase[Founder], done[Founder])
    <3>1. /\ ibase[Founder] \in Id /\ done[Founder] \in SUBSET Id /\ ibase[Founder] \in Int /\ ihole[Founder] \in Int
      <4>1. ibase[Founder] \in Id /\ done[Founder] \in SUBSET Id /\ ihole[Founder] \in 1 .. MaxInum + 1
        BY DEF ViewInv
      <4> QED
        BY <4>1, Numbers
    <3>2. t \in Int /\ t >= ibase[Founder] /\ t \notin done[Founder]
      BY <3>1, FirstHoleIs
    <3>3. Top(m)' = t
      BY DEF Welcomes
    <3> HIDE DEF t
    <3>4. ~(t \in ibase[Founder] .. ihole[Founder] - 1)
      BY <3>2 DEF LearnInv
    <3> QED
      BY <1>1, <3>1, <3>2, <3>3, <3>4
  <2> QED
    BY <2>2, <2>3 DEF BehindOf, AskedBehind, AnsweredBehind, CountedBehind
<1> QED
  BY <1>1, OthersPoint DEF Welcomes

LEMMA LosesPoint ==
  ASSUME ViewInv, PointInv, NEW m \in Rest, Loses(m)
  PROVE  PointInv'
<1>1. ASSUME NEW h \in 1 .. MaxInum + 1, BehindOf(m, h)
      PROVE  BehindOf(m, h)'
  <2>1. Asked(m)' = {} /\ Answered(m)' = Answered(m)
    BY DEF Asked, Answered, Loses, SyncKept
  <2> QED
    BY <1>1, <2>1 DEF BehindOf, AskedBehind, AnsweredBehind, CountedBehind, Loses, FounderKept
<1> QED
  BY <1>1, OthersPoint DEF Loses

(* When m has read a message, the commits before the sync are fewer. *)
LEMMA ReadAsked ==
  ASSUME ViewInv, CountInv, NEW m \in Rest, Reads(m), sync_id' = sync_id, NEW h, AskedBehind(m, h)
  PROVE  /\ \A k \in Asked(m)' :
              /\ Reached(m) /\ Top(m) <= h /\ h \notin Held(m)
              /\ \A j \in 1 .. k : Down(m)'[j].op = "commit" => Down(m)'[j].inum # h
              /\ Down(m)[1].op = "commit" => Down(m)[1].inum # h
         /\ Down(m)[1].op # "sync" => (Asked(m)' = {} <=> Asked(m) = {})
<1>1. Down(m) \in Seq(Message) /\ Down(m) # <<>> /\ Down(m)' = Tail(Down(m))
  BY DEF ViewInv, Reads
<1>2. ASSUME NEW k \in Asked(m)'
      PROVE  /\ Reached(m) /\ Top(m) <= h /\ h \notin Held(m)
             /\ \A j \in 1 .. k : Down(m)'[j].op = "commit" => Down(m)'[j].inum # h
             /\ Down(m)[1].op = "commit" => Down(m)[1].inum # h
  <2>1. k \in Nat /\ k >= 1 /\ k + 1 \in Asked(m)
    BY ReadOff DEF Asked
  <2>2. \A j \in 1 .. k : Down(m)'[j] = Down(m)[j + 1] /\ j + 1 \in 1 .. k + 1
    BY <1>1, <2>1 DEF Asked
  <2> QED
    BY <2>1, <2>2 DEF AskedBehind
<1>3. ASSUME Down(m)[1].op # "sync"
      PROVE  Asked(m)' = {} <=> Asked(m) = {}
  <2>1. \A k \in Asked(m)' : k + 1 \in Asked(m)
    BY ReadOff DEF Asked
  <2>2. ASSUME NEW k \in Asked(m)
        PROVE  k - 1 \in Asked(m)'
    <3>1. k \in DOMAIN Down(m) /\ k # 1
      BY <1>3 DEF Asked
    <3>2. k - 1 \in DOMAIN Down(m)' /\ Down(m)'[k - 1] = Down(m)[k]
      BY <1>1, <3>1
    <3> QED
      BY <3>2 DEF Asked
  <2> QED
    BY <2>1, <2>2
<1> QED
  BY <1>2, <1>3

LEMMA ReadsWelcomePoint ==
  ASSUME ViewInv, CountInv, PointInv, NEW m \in Rest, ReadsWelcome(m), Down(m)[1].op = "welcome"
  PROVE  PointInv'
<1>1. ASSUME NEW h \in 1 .. MaxInum + 1, BehindOf(m, h)
      PROVE  BehindOf(m, h)'
  <2>1. Reads(m) /\ sync_id' = sync_id /\ Keeps(m) /\ Up(m)' = Up(m) /\ ibase'[Founder] = ibase[Founder] /\ sync'.last = sync.last
    BY DEF ReadsWelcome, SyncKept, FounderKept
  <2>2. Answered(m)' = Answered(m) /\ (Asked(m)' = {} <=> Asked(m) = {}) /\ AskedBehind(m, h)'
    BY <1>1, <2>1, ReadAsked DEF Answered, BehindOf, AskedBehind, Keeps
  <2> QED
    BY <1>1, <2>1, <2>2 DEF BehindOf, AnsweredBehind, CountedBehind, Keeps
<1> QED
  BY <1>1, OthersPoint DEF ReadsWelcome

LEMMA ReadsCommitPoint ==
  ASSUME ViewInv, CountInv, PointInv, NEW m \in Rest, NEW i \in Id, ReadsCommit(m, i)
  PROVE  PointInv'
<1>1. ASSUME NEW h \in 1 .. MaxInum + 1, BehindOf(m, h)
      PROVE  BehindOf(m, h)'
  <2>1. Reads(m) /\ sync_id' = sync_id /\ Up(m)' = Up(m) /\ ibase'[Founder] = ibase[Founder] /\ sync'.last = sync.last /\ Reached(m)
    BY DEF ReadsCommit, SyncKept, FounderKept, Reads
  <2>2. Answered(m)' = Answered(m) /\ (Asked(m)' = {} <=> Asked(m) = {}) /\ AskedBehind(m, h)'
    BY <1>1, <2>1, ReadAsked DEF Answered, BehindOf, AskedBehind, ReadsCommit
  <2> QED
    BY <1>1, <2>1, <2>2 DEF BehindOf, AnsweredBehind, CountedBehind, ReadsCommit
<1> QED
  BY <1>1, OthersPoint DEF ReadsCommit

LEMMA ReadsTruncatePoint ==
  ASSUME ViewInv, CountInv, PointInv, NEW m \in Rest, NEW i \in Id, ReadsTruncate(m, i)
  PROVE  PointInv'
<1>1. ASSUME NEW h \in 1 .. MaxInum + 1, BehindOf(m, h)
      PROVE  BehindOf(m, h)'
  <2>1. Reads(m) /\ sync_id' = sync_id /\ Up(m)' = Up(m) /\ ibase'[Founder] = ibase[Founder] /\ sync'.last = sync.last /\ Reached(m)
    BY DEF ReadsTruncate, SyncKept, FounderKept, Reads
  <2>2. Answered(m)' = Answered(m) /\ (Asked(m)' = {} <=> Asked(m) = {}) /\ AskedBehind(m, h)'
    BY <1>1, <2>1, ReadAsked DEF Answered, BehindOf, AskedBehind, ReadsTruncate
  <2> QED
    BY <1>1, <2>1, <2>2 DEF BehindOf, AnsweredBehind, CountedBehind, ReadsTruncate
<1> QED
  BY <1>1, OthersPoint DEF ReadsTruncate

(* An answer is one less than the hole of the member. *)
LEMMA TopIs ==
  ASSUME ViewInv, LearnInv, NEW m \in Rest, Reached(m)
  PROVE  /\ Top(m) \in Int /\ Top(m) - 1 \in Id /\ ibase[Founder] \in Int /\ ibase[Founder] <= Top(m) - 1
<1>1. Fits(m) /\ Top(m) \in 1 .. MaxInum + 1 /\ ibase[Founder] \in Id
  BY DEF LearnInv, ViewInv
<1> QED
  BY <1>1, Numbers DEF Fits

LEMMA ReadsSyncPoint ==
  ASSUME ViewInv, LearnInv, CountInv, PointInv, NEW m \in Rest, NEW n, ReadsSync(m, n)
  PROVE  PointInv'
<1>1. Reached(m)
  BY DEF ReadsSync, Reads
<1>2. Top(m) \in Int /\ Top(m) - 1 \in Id /\ ibase[Founder] \in Int /\ ibase[Founder] <= Top(m) - 1
  BY <1>1, TopIs
<1>3. Reads(m) /\ sync_id' = sync_id /\ Keeps(m) /\ ibase'[Founder] = ibase[Founder] /\ sync'.last = sync.last
  BY DEF ReadsSync, SyncKept, FounderKept
<1>4. \A k \in Answered(m)' : \/ k \in Answered(m) /\ Up(m)'[k] = Up(m)[k]
                              \/ 1 \in Asked(m) /\ Up(m)'[k] = LastMsg(n, Top(m) - 1)
  BY <1>2, SyncsOnce
<1>5. Answered(m)' = {} /\ Asked(m)' = {} => Answered(m) = {} /\ Asked(m) = {}
  <2>1. /\ Up(m) \in Seq(Message) /\ Up(m)' = Append(Up(m), LastMsg(n, Top(m) - 1))
        /\ Down(m) \in Seq(Message) /\ Down(m) # <<>> /\ Down(m)' = Tail(Down(m))
    BY DEF ViewInv, ReadsSync, Reads
  <2>2. Down(m)[1] \in Message /\ Down(m)[1].op = "sync" /\ Down(m)[1].id = n
    BY <2>1, TailIs DEF ReadsSync
  <2>3. LastMsg(n, Top(m) - 1) \in Message /\ LastMsg(n, Top(m) - 1).id = n
    BY <1>2, <2>2, MessageIs, MessagesAre
  <2>4. ASSUME NEW k \in Answered(m)
        PROVE  k \in Answered(m)'
    <3>1. k \in DOMAIN Up(m)' /\ Up(m)'[k] = Up(m)[k]
      BY <2>1, <2>3, AppendIs DEF Answered
    <3> QED
      BY <1>3, <3>1 DEF Answered
  <2>5. ASSUME NEW k \in Asked(m), k # 1
        PROVE  k - 1 \in Asked(m)'
    <3>1. k - 1 \in DOMAIN Down(m)' /\ Down(m)'[k - 1] = Down(m)[k]
      BY <2>1, <2>5 DEF Asked
    <3> QED
      BY <1>3, <3>1 DEF Asked
  <2>6. ASSUME 1 \in Asked(m)
        PROVE  Len(Up(m)) + 1 \in Answered(m)'
    <3>1. n = sync_id
      BY <2>2, <2>6 DEF Asked
    <3>2. Len(Up(m)) + 1 \in DOMAIN Up(m)' /\ Up(m)'[Len(Up(m)) + 1].id = n
      BY <2>1, <2>3, AppendIs
    <3> QED
      BY <1>3, <3>1, <3>2 DEF Answered
  <2> QED
    BY <2>4, <2>5, <2>6
<1>6. ASSUME NEW h \in 1 .. MaxInum + 1, BehindOf(m, h)
      PROVE  BehindOf(m, h)'
  <2>1. AskedBehind(m, h)'
    BY <1>3, <1>6, ReadAsked DEF BehindOf, AskedBehind, Keeps
  <2>2. AnsweredBehind(m, h)'
    <3>1. ASSUME NEW k \in Answered(m)'
          PROVE  /\ ibase[Founder] <= Up(m)'[k].inum /\ Up(m)'[k].inum < h
                 /\ Reached(m) => Up(m)'[k].inum < Top(m)
      <4>1. CASE k \in Answered(m) /\ Up(m)'[k] = Up(m)[k]
        BY <1>6, <4>1 DEF BehindOf, AnsweredBehind
      <4>2. CASE 1 \in Asked(m) /\ Up(m)'[k] = LastMsg(n, Top(m) - 1)
        <5>1. Up(m)'[k].inum = Top(m) - 1
          BY <4>2 DEF LastMsg
        <5>2. Top(m) <= h
          BY <1>6, <4>2 DEF BehindOf, AskedBehind
        <5> QED
          BY <1>2, <5>1, <5>2
      <4> QED
        BY <1>4, <4>1, <4>2
    <3> QED
      BY <1>3, <3>1 DEF AnsweredBehind, Keeps
  <2>3. CountedBehind(m, h)'
    BY <1>3, <1>5, <1>6 DEF BehindOf, CountedBehind, Keeps
  <2> QED
    BY <2>1, <2>2, <2>3 DEF BehindOf
<1> QED
  BY <1>6, OthersPoint DEF ReadsSync

LEMMA GetsOldPoint ==
  ASSUME ViewInv, CountInv, PointInv, NEW m \in Rest, NEW n, NEW i, GetsOld(m, n, i)
  PROVE  PointInv'
<1>1. Gets(m, n, i) /\ sync_id' = sync_id /\ Keeps(m) /\ Down(m)' = Down(m) /\ n # sync_id
      /\ ibase'[Founder] = ibase[Founder] /\ sync'.last = sync.last
  BY DEF GetsOld, SyncKept, FounderKept
<1>2. Asked(m)' = Asked(m)
  BY <1>1 DEF Asked
<1>3. \A k \in Answered(m)' : k + 1 \in Answered(m) /\ Up(m)'[k] = Up(m)[k + 1]
  BY <1>1, GotOff DEF Answered
<1>4. ASSUME NEW k \in Answered(m)
      PROVE  k - 1 \in Answered(m)'
  <2>1. Up(m) \in Seq(Message) /\ Up(m)' = Tail(Up(m)) /\ Up(m)[1].id = n
    BY <1>1 DEF ViewInv, Gets
  <2>2. k \in DOMAIN Up(m) /\ k # 1
    BY <1>1, <2>1 DEF Answered
  <2>3. k - 1 \in DOMAIN Up(m)' /\ Up(m)'[k - 1] = Up(m)[k]
    BY <2>1, <2>2
  <2> QED
    BY <1>1, <2>3 DEF Answered
<1>5. ASSUME NEW h \in 1 .. MaxInum + 1, BehindOf(m, h)
      PROVE  BehindOf(m, h)'
  <2>1. AskedBehind(m, h)'
    BY <1>1, <1>2, <1>5 DEF BehindOf, AskedBehind, Keeps
  <2>2. AnsweredBehind(m, h)'
    BY <1>1, <1>3, <1>5 DEF BehindOf, AnsweredBehind, Keeps
  <2>3. CountedBehind(m, h)'
    BY <1>1, <1>2, <1>4, <1>5 DEF BehindOf, CountedBehind, Keeps
  <2> QED
    BY <2>1, <2>2, <2>3 DEF BehindOf
<1> QED
  BY <1>5, OthersPoint DEF GetsOld

(* The least of the answers and what has been counted before. *)
LEMMA LowerIs ==
  ASSUME ViewInv, NEW i \in Id
  PROVE  /\ Lower(i) \in Id /\ Lower(i) <= i /\ (Lower(i) = i \/ Lower(i) = sync.last) /\ sync.last \in Int
         /\ sync.last # 0 => Lower(i) <= sync.last
<1>1. sync.last \in 0 .. MaxInum
  BY DEF ViewInv, SyncType
<1> QED
  BY <1>1, Numbers DEF Lower

LEMMA GetsLastPoint ==
  ASSUME ViewInv, CountInv, PointInv, NEW m \in Rest, NEW i, GetsLast(m, i)
  PROVE  PointInv'
<1>1. /\ Gets(m, sync_id, i) /\ sync_id' = sync_id /\ Keeps(m) /\ Down(m)' = Down(m) /\ sync # NoSync
      /\ ibase'[Founder] = ibase[Founder] /\ ihole'[Founder] = ihole[Founder] /\ sync'.last = Lower(i)
  BY DEF GetsLast, FounderKept, ViewInv, SyncType
<1>2. Once(m)' /\ Asked(m)' \subseteq Asked(m) /\ Asked(m)' = {} /\ Answered(m)' = {} /\ 1 \in Answered(m) /\ i \in Id
  BY <1>1, GotOnce, GotOff
<1>3. Lower(i) \in Int /\ Lower(i) # 0 /\ i \in Int /\ Lower(i) <= i /\ (Lower(i) = i \/ Lower(i) = sync.last) /\ sync.last \in Int
      /\ (sync.last # 0 => Lower(i) <= sync.last)
  BY <1>2, LowerIs, Numbers
<1>4. PICK h \in 1 .. MaxInum + 1 : Behind(h)
  BY <1>1 DEF PointInv
<1>5. \A q \in Rest : BehindOf(q, h)
  BY <1>4 DEF Behind, BehindOf
<1>6. Up(m)[1].inum = i
  BY <1>1 DEF Gets
<1>7. ibase[Founder] <= i /\ i < h /\ (Reached(m) => i < Top(m))
  BY <1>2, <1>5, <1>6 DEF BehindOf, AnsweredBehind
<1>8. \A q \in Rest : Reached(q) => Top(q) \in Int
  BY Numbers DEF ViewInv
<1>9. ASSUME NEW q \in Rest
      PROVE  BehindOf(q, h)'
  <2>1. CASE q = m
    BY <1>1, <1>2, <1>3, <1>7, <1>8, <2>1 DEF BehindOf, AskedBehind, AnsweredBehind, CountedBehind, Keeps
  <2>2. CASE q # m
    <3>1. Kept(q)
      BY <2>2 DEF GetsLast, KeptBut
    <3>2. Asked(q)' = Asked(q) /\ Answered(q)' = Answered(q)
      BY <1>1, <3>1 DEF Asked, Answered, Kept
    <3>3. AskedBehind(q, h)' /\ AnsweredBehind(q, h)'
      BY <1>1, <1>5, <3>1, <3>2 DEF BehindOf, AskedBehind, AnsweredBehind, Kept, Keeps
    <3>4. ASSUME Reached(q), Asked(q) = {}, Answered(q) = {}
          PROVE  Lower(i) < Top(q) \/ h <= Top(q)
      <4>1. (sync.last # 0 /\ sync.last < Top(q)) \/ h <= Top(q)
        BY <1>5, <3>4 DEF BehindOf, CountedBehind
      <4> QED
        BY <1>3, <1>8, <3>4, <4>1
    <3>5. CountedBehind(q, h)'
      BY <1>1, <1>3, <3>1, <3>2, <3>4 DEF CountedBehind, Kept, Keeps
    <3> QED
      BY <3>3, <3>5 DEF BehindOf
  <2> QED
    BY <2>1, <2>2
<1>10. ibase'[Founder] <= sync'.last /\ sync'.last < h
  BY <1>1, <1>3, <1>4, <1>7, Numbers DEF Behind, ViewInv
<1>11. Behind(h)'
  BY <1>1, <1>4, <1>9, <1>10 DEF Behind, BehindOf
<1> QED
  BY <1>11 DEF PointInv

(* An answer to the current sync is one that it waits for, and the last is *)
(* the only one.                                                           *)
LEMMA AnswerIsOpen ==
  ASSUME ViewInv, CountInv, NEW m \in Rest, Up(m) # <<>>, Up(m)[1].id = sync_id, sync # NoSync
  PROVE  /\ sync.acks + 1 <= sync.total /\ sync.acks \in Int /\ sync.total \in Int /\ Up(m)[1].inum \in Id
         /\ sync.acks + 1 = sync.total => Open = {m}
<1>1. 1 \in DOMAIN Up(m) /\ Up(m)[1] \in Message /\ Up(m)[1].op = "last"
  <2>1. Up(m) \in Seq(Message) /\ \A n \in DOMAIN Up(m) : Up(m)[n].op = "last"
    BY DEF ViewInv
  <2>2. 1 \in DOMAIN Up(m) /\ Up(m)[1] \in Message
    BY <2>1, TailIs
  <2> QED
    BY <2>1, <2>2
<1>2. Up(m)[1].inum \in Id
  BY <1>1, MessageIs
<1>3. m \in Open
  BY <1>1 DEF Open, Answered
<1>4. /\ sync.acks \in Int /\ sync.total \in Int /\ sync.acks + Cardinality(Open) <= sync.total
      /\ Cardinality(Open) \in Nat /\ Cardinality(Open) # 0
  BY <1>3, OpenIsFinite, FS_EmptySet DEF CountInv, ViewInv, SyncType
<1>5. ASSUME sync.acks + 1 = sync.total
      PROVE  Open = {m}
  <2>1. Cardinality(Open) = 1
    BY <1>4, <1>5
  <2>2. PICK x : Open = {x}
    BY <2>1, OpenIsFinite, FS_Singleton
  <2> QED
    BY <1>3, <2>2
<1> QED
  BY <1>2, <1>4, <1>5

(* What the last answer truncates to, all have learned. *)
LEMMA LeastIsLearned ==
  ASSUME ViewInv, LearnInv, CountInv, PointInv, NEW m \in Rest, NEW i,
         Up(m) # <<>>, Up(m)[1].id = sync_id, Up(m)[1].inum = i, sync # NoSync, Open = {m}
  PROVE  /\ SyncPoint(Lower(i)) \in Id /\ ibase[Founder] <= SyncPoint(Lower(i))
         /\ SyncPoint(Lower(i)) < ihole[Founder]
         /\ \A q \in Rest : Reached(q) => SyncPoint(Lower(i)) < Top(q)
<1>1. 1 \in DOMAIN Up(m) /\ Up(m)[1].id = sync_id /\ Up(m)[1].inum = i /\ i \in Id
  <2>1. Up(m) \in Seq(Message)
    BY DEF ViewInv
  <2>2. 1 \in DOMAIN Up(m)
    BY <2>1, TailIs
  <2> QED
    BY <2>2, AnswerIsOpen
<1>2. 1 \in Answered(m)
  BY <1>1 DEF Answered
<1>3. Lower(i) \in Id /\ Lower(i) <= i /\ (Lower(i) = i \/ Lower(i) = sync.last) /\ sync.last \in Int
      /\ (sync.last # 0 => Lower(i) <= sync.last)
  BY <1>1, LowerIs
<1>4. PICK h \in 1 .. MaxInum + 1 : Behind(h)
  BY DEF PointInv
<1>5. ibase[Founder] <= i /\ i < h /\ (Reached(m) => i < Top(m))
  BY <1>1, <1>2, <1>4 DEF Behind, AnsweredBehind
<1>6. /\ ibase[Founder] \in Int /\ ibase[Founder] >= 1 /\ ihole[Founder] \in Int /\ ibase[Founder] < ihole[Founder]
      /\ \A q \in Rest : Reached(q) => Top(q) \in Int
  BY Numbers DEF ViewInv, LearnInv
<1>7. ibase[Founder] <= Lower(i) /\ Lower(i) < h /\ Lower(i) \in Int /\ Lower(i) <= MaxInum /\ i \in Int
  <2>1. Lower(i) # 0
    BY <1>3, Numbers
  <2> QED
    BY <1>1, <1>3, <1>4, <1>5, <1>6, <2>1, Numbers DEF Behind
<1>8. ASSUME NEW q \in Rest, Reached(q)
      PROVE  Lower(i) < Top(q)
  <2>1. CASE q = m
    BY <1>3, <1>5, <1>6, <1>7, <1>8, <2>1
  <2>2. CASE q # m
    <3>1. Asked(q) = {} /\ Answered(q) = {}
      BY <2>2 DEF Open
    <3>2. (sync.last # 0 /\ sync.last < Top(q)) \/ h <= Top(q)
      BY <1>4, <1>8, <3>1 DEF Behind, CountedBehind
    <3> QED
      BY <1>3, <1>6, <1>7, <1>8, <3>2
  <2> QED
    BY <2>1, <2>2
<1>9. SyncPoint(Lower(i)) \in Int /\ SyncPoint(Lower(i)) <= Lower(i) /\ SyncPoint(Lower(i)) >= ibase[Founder] /\ SyncPoint(Lower(i)) <= ihole[Founder] - 1
  BY <1>6, <1>7 DEF SyncPoint
<1>10. SyncPoint(Lower(i)) \in Id
  BY <1>6, <1>7, <1>9, Numbers
<1>11. SyncPoint(Lower(i)) < ihole[Founder]
  BY <1>6, <1>9
<1>12. ASSUME NEW q \in Rest, Reached(q)
      PROVE  SyncPoint(Lower(i)) < Top(q)
  BY <1>6, <1>7, <1>8, <1>9, <1>12
<1> QED
  BY <1>9, <1>10, <1>11, <1>12

LEMMA GetsLeastLearn ==
  ASSUME ViewInv, LearnInv, NEW m \in Rest, NEW i, GetsLeast(m, i), NEW p \in Id, p = SyncPoint(Lower(i)),
         ibase[Founder] <= p, p < ihole[Founder], \A q \in Rest : Reached(q) => p < Top(q)
  PROVE  LearnInv' /\ Grows
<1>1. /\ ibase'[Founder] = p /\ ihole'[Founder] = ihole[Founder] /\ done'[Founder] = {j \in done[Founder] : j >= p}
      /\ \A q \in Rest : Keeps(q) /\ Sent(q, TruncateMsg(p))
  BY DEF GetsLeast
<1>2. p \in Int /\ ibase[Founder] \in Int /\ ihole[Founder] \in Int
  BY Numbers DEF ViewInv
<1>3. Grows
  <2>1. ASSUME NEW j \in Id, Known(j)
        PROVE  j \in done'[Founder] \/ j < ibase'[Founder]
    <3>1. j \in Int
      BY Numbers
    <3> QED
      BY <1>1, <1>2, <2>1, <3>1 DEF Known
  <2> QED
    BY <1>1, <1>2, <2>1 DEF Grows, Known
<1>4. TruncateMsg(p) \in Message /\ TruncateMsg(p).op = "truncate" /\ TruncateMsg(p).inum = p
  BY MessagesAre
<1>5. ASSUME NEW q \in Rest
      PROVE  (Reached(q)' => Fits(q)') /\ Told(q)'
  <2>1. Keeps(q) /\ Sent(q, TruncateMsg(p))
    BY <1>1
  <2>2. \A n \in DOMAIN Down(q)' : Down(q)'[n] = TruncateMsg(p) \/ \E k \in DOMAIN Down(q) : Down(q)'[n] = Down(q)[k]
    BY <1>4, <2>1, SentOn
  <2>3. TruncateMsg(p).inum <= ibase'[Founder]
    BY <1>1, <1>2, <1>4
  <2>4. Told(q)'
    BY <1>3, <1>4, <2>2, <2>3, StillTold
  <2>5. ASSUME Reached(q)
        PROVE  Fits(q)'
    <3>1. Fits(q) /\ p < Top(q) /\ Base(q) \in Int
      BY <2>5, Numbers DEF LearnInv, ViewInv
    <3>2. Base(q)' = Base(q) /\ Top(q)' = Top(q) /\ Held(q)' = Held(q)
      BY <2>1 DEF Keeps
    <3>3. Base(q)' <= ibase'[Founder] /\ ibase'[Founder] < Top(q)'
      BY <1>1, <1>2, <3>1, <3>2 DEF Fits
    <3> QED
      BY <1>3, <3>1, <3>2, <3>3 DEF Fits, Grows
  <2> QED
    BY <2>1, <2>4, <2>5 DEF Keeps
<1>6. ibase'[Founder] < ihole'[Founder] /\ \A j \in ibase'[Founder] .. ihole'[Founder] - 1 : j \in done'[Founder]
  BY <1>1, <1>2 DEF LearnInv
<1> QED
  BY <1>3, <1>5, <1>6 DEF LearnInv

LEMMA StartsPoint ==
  ASSUME ViewInv, LearnInv, CountInv, Starts
  PROVE  PointInv'
<1> PICK h \in 1 .. MaxInum + 1 : h = ihole[Founder]
  BY DEF ViewInv
<1>1. /\ h \in 1 .. MaxInum + 1 /\ h \in Int /\ ihole'[Founder] = h /\ ibase'[Founder] = ibase[Founder] /\ sync'.last = 0
      /\ h \notin done[Founder] /\ ibase[Founder] < h /\ ibase[Founder] \in Int
  BY Numbers DEF ViewInv, Starts, FounderKept, LearnInv
<1>2. ~Known(h)
  BY <1>1 DEF Known
<1>3. ASSUME NEW q \in Rest
      PROVE  AskedBehind(q, h)' /\ AnsweredBehind(q, h)' /\ CountedBehind(q, h)'
  <2>1. Answered(q)' = {} /\ (Reached(q) => Asked(q)' # {}) /\ \A k \in Asked(q)' : Reached(q) /\ k = Len(Down(q)) + 1
    BY StartsCount
  <2>2. Keeps(q) /\ Sent(q, SyncMsg(sync_id + 1)) /\ Down(q) \in Seq(Message)
    BY DEF Starts, ViewInv
  <2>3. SyncMsg(sync_id + 1) \in Message /\ SyncMsg(sync_id + 1).op = "sync"
    BY MessagesAre, SyncAssumption DEF ViewInv, SyncType
  <2>4. ASSUME NEW k \in Asked(q)'
        PROVE  /\ Reached(q) /\ Top(q) <= h /\ h \notin Held(q)
               /\ \A j \in 1 .. k : Down(q)'[j].op = "commit" => Down(q)'[j].inum # h
    <3>1. Reached(q) /\ Fits(q) /\ Top(q) \in Int /\ Top(q) <= MaxInum + 1 /\ Held(q) \subseteq Id
      BY <2>1, <2>4, Numbers DEF LearnInv, ViewInv
    <3>2. Top(q) <= h
      <4>1. CASE h \in Id
        BY <1>1, <1>2, <3>1, <4>1 DEF Fits
      <4>2. CASE h \notin Id
        <5>1. h = MaxInum + 1
          BY <1>1, <4>2, Numbers
        <5> QED
          BY <3>1, <5>1
      <4> QED
        BY <4>1, <4>2
    <3>3. h \notin Held(q)
      BY <1>2, <3>1 DEF Fits
    <3>4. ASSUME NEW j \in 1 .. k, Down(q)'[j].op = "commit"
          PROVE  Down(q)'[j].inum # h
      <4>1. k = Len(Down(q)) + 1 /\ Down(q)' = Append(Down(q), SyncMsg(sync_id + 1))
        BY <2>1, <2>2, <2>4 DEF Sent
      <4>2. j \in DOMAIN Down(q) \/ j = Len(Down(q)) + 1
        BY <2>2, <4>1
      <4>3. j \in DOMAIN Down(q) /\ Down(q)'[j] = Down(q)[j]
        BY <2>2, <2>3, <3>4, <4>1, <4>2, AppendIs
      <4>4. Known(Down(q)[j].inum)
        BY <3>4, <4>3 DEF LearnInv, Told
      <4> QED
        BY <1>2, <4>3, <4>4
    <3> QED
      BY <3>1, <3>2, <3>3, <3>4
  <2>5. AskedBehind(q, h)'
    BY <2>2, <2>4 DEF AskedBehind, Keeps
  <2>6. AnsweredBehind(q, h)' /\ CountedBehind(q, h)'
    BY <2>1, <2>2 DEF AnsweredBehind, CountedBehind, Keeps
  <2> QED
    BY <2>5, <2>6
<1>4. Behind(h)'
  BY <1>1, <1>3 DEF Behind
<1> QED
  BY <1>4 DEF PointInv

-----------------------------------------------------------------------------
(* The order of the truncations. *)

LEMMA SameOrder ==
  ASSUME NEW q \in Rest, Ordered(q), Down(q)' = Down(q), Base(q)' = Base(q)
  PROVE  Ordered(q)'
BY DEF Ordered

LEMMA SentOrder ==
  ASSUME ViewInv, LearnInv, NEW q \in Rest, Ordered(q), Keeps(q), NEW msg \in Message, Sent(q, msg),
         msg.op = "truncate" => ibase[Founder] <= msg.inum
  PROVE  Ordered(q)'
<1>1. /\ \A n \in DOMAIN Down(q) : Down(q)'[n] = Down(q)[n]
      /\ \A n \in DOMAIN Down(q)' \ DOMAIN Down(q) : Reached(q) /\ Down(q)'[n] = msg /\ n = Len(Down(q)) + 1
      /\ \A n \in DOMAIN Down(q)' \ DOMAIN Down(q) : \A k \in DOMAIN Down(q) : k < n
  BY SentOn
<1>2. ASSUME NEW k \in DOMAIN Down(q)', Down(q)'[k].op = "truncate"
      PROVE  /\ Base(q) <= Down(q)'[k].inum
             /\ \A j \in DOMAIN Down(q)' : j < k /\ Down(q)'[j].op = "truncate" => Down(q)'[j].inum <= Down(q)'[k].inum
  <2>1. CASE k \in DOMAIN Down(q)
    <3>1. \A j \in DOMAIN Down(q)' : j < k => j \in DOMAIN Down(q)
      <4>1. Down(q) \in Seq(Message)
        BY DEF ViewInv
      <4>2. \A j \in DOMAIN Down(q)' \ DOMAIN Down(q) : j = Len(Down(q)) + 1
        BY <1>1
      <4> QED
        BY <2>1, <4>1, <4>2
    <3> QED
      BY <1>1, <1>2, <2>1, <3>1 DEF Ordered
  <2>2. CASE k \notin DOMAIN Down(q)
    <3>1. Reached(q) /\ Down(q)'[k] = msg /\ msg.op = "truncate" /\ k = Len(Down(q)) + 1 /\ Down(q) \in Seq(Message)
      BY <1>1, <1>2, <2>2 DEF ViewInv
    <3>2. msg.inum \in Int /\ ibase[Founder] \in Int /\ ibase[Founder] <= msg.inum
      BY <3>1, MessageIs, Numbers DEF ViewInv
    <3>3. Base(q) \in Int /\ Base(q) <= ibase[Founder]
      BY <3>1, Numbers DEF ViewInv, LearnInv, Fits
    <3>4. ASSUME NEW j \in DOMAIN Down(q)', j < k, Down(q)'[j].op = "truncate"
          PROVE  Down(q)'[j].inum <= msg.inum
      <4>1. j \in DOMAIN Down(q)
        BY <1>1, <3>1, <3>4
      <4>2. Down(q)'[j] = Down(q)[j] /\ Down(q)[j] \in Message
        BY <1>1, <3>1, <4>1
      <4>3. Down(q)[j].inum \in Int /\ Down(q)[j].inum <= ibase[Founder]
        BY <3>4, <4>1, <4>2, MessageIs, Numbers DEF LearnInv, Told
      <4> QED
        BY <3>2, <4>2, <4>3
    <3> QED
      BY <3>1, <3>2, <3>3, <3>4
  <2> QED
    BY <2>1, <2>2
<1> QED
  BY <1>2 DEF Ordered, Keeps

(* What is left of the hub is ordered, and after what is read. *)
LEMMA ReadOrder ==
  ASSUME ViewInv, NEW m \in Rest, Ordered(m), Reads(m),
         \/ Base(m)' = Base(m)
         \/ Down(m)[1].op = "truncate" /\ Base(m)' = Down(m)[1].inum
  PROVE  Ordered(m)'
<1>1. \A n \in DOMAIN Down(m)' : n \in Nat /\ n >= 1 /\ n + 1 \in DOMAIN Down(m) /\ Down(m)'[n] = Down(m)[n + 1]
  BY ReadOff
<1>2. ASSUME NEW k \in DOMAIN Down(m)', Down(m)'[k].op = "truncate"
      PROVE  /\ Base(m)' <= Down(m)'[k].inum
             /\ \A j \in DOMAIN Down(m)' : j < k /\ Down(m)'[j].op = "truncate" => Down(m)'[j].inum <= Down(m)'[k].inum
  <2>1. k + 1 \in DOMAIN Down(m) /\ Down(m)'[k] = Down(m)[k + 1] /\ 1 < k + 1 /\ 1 \in DOMAIN Down(m)
    BY <1>1, ReadOff
  <2>2. Base(m)' <= Down(m)'[k].inum
    BY <1>2, <2>1 DEF Ordered
  <2>3. \A j \in DOMAIN Down(m)' : j < k => j + 1 < k + 1
    BY <1>1
  <2> QED
    BY <1>1, <1>2, <2>1, <2>2, <2>3 DEF Ordered
<1> QED
  BY <1>2 DEF Ordered

LEMMA OthersOrder ==
  ASSUME OrderInv, NEW m \in Rest, KeptBut(m), Ordered(m)'
  PROVE  OrderInv'
<1>1. \A q \in Rest \ {m} : Ordered(q)'
  BY SameOrder DEF OrderInv, KeptBut, Kept, Keeps
<1> QED
  BY <1>1 DEF OrderInv

-----------------------------------------------------------------------------
(* Each move keeps the four parts. *)

LEMMA RestsTrunc ==
  ASSUME ViewInv, TruncInv, Rests
  PROVE  TruncInv'
<1>1. OrderInv'
  BY SameOrder DEF TruncInv, OrderInv, Rests, Kept, Keeps
<1> QED
  BY <1>1, RestsLearn, RestsCount, RestsPoint DEF TruncInv, Rests

LEMMA CommitsTrunc ==
  ASSUME ViewInv, TruncInv, NEW i \in Id, Commits(i)
  PROVE  TruncInv'
<1>1. CommitMsg(i) \in Message /\ CommitMsg(i).op # "truncate"
  BY MessagesAre
<1>2. OrderInv'
  BY <1>1, SentOrder DEF TruncInv, OrderInv, Commits
<1> QED
  BY <1>2, CommitsLearn, CommitsCount, CommitsPoint DEF TruncInv

LEMMA LearnsTrunc ==
  ASSUME ViewInv, TruncInv, Learns
  PROVE  TruncInv'
<1>1. OrderInv'
  BY SameOrder DEF TruncInv, OrderInv, Learns, Kept, Keeps
<1> QED
  BY <1>1, LearnsLearn, RestsCount, LearnsPoint DEF TruncInv, Learns

LEMMA MemberLearnsTrunc ==
  ASSUME ViewInv, TruncInv, NEW m \in Rest, MemberLearns(m)
  PROVE  TruncInv'
<1>1. OrderInv'
  BY SameOrder, OthersOrder DEF TruncInv, OrderInv, MemberLearns
<1> QED
  BY <1>1, MemberLearnsLearn, MemberLearnsCount, MemberLearnsPoint DEF TruncInv

LEMMA WelcomesTrunc ==
  ASSUME ViewInv, TruncInv, NEW m \in Rest, Welcomes(m)
  PROVE  TruncInv'
<1>1. WelcomeMsg(alist[Founder], ibase[Founder], done[Founder]).op # "truncate"
  BY DEF WelcomeMsg
<1>2. Ordered(m)'
  BY <1>1 DEF Ordered, Welcomes
<1>3. OrderInv'
  BY <1>2, OthersOrder DEF TruncInv, Welcomes
<1> QED
  BY <1>3, WelcomesLearn, WelcomesCount, WelcomesPoint DEF TruncInv

LEMMA LosesTrunc ==
  ASSUME ViewInv, TruncInv, NEW m \in Rest, Loses(m)
  PROVE  TruncInv'
<1>1. Ordered(m)'
  BY DEF Ordered, Loses
<1>2. OrderInv'
  BY <1>1, OthersOrder DEF TruncInv, Loses
<1> QED
  BY <1>2, LosesLearn, LosesCount, LosesPoint DEF TruncInv

LEMMA ReadsWelcomeTrunc ==
  ASSUME ViewInv, TruncInv, NEW m \in Rest, ReadsWelcome(m), Down(m)[1].op = "welcome"
  PROVE  TruncInv'
<1>1. Ordered(m)'
  BY ReadOrder DEF TruncInv, OrderInv, ReadsWelcome, Keeps
<1>2. OrderInv'
  BY <1>1, OthersOrder DEF TruncInv, ReadsWelcome
<1> QED
  BY <1>2, ReadsWelcomeLearn, ReadsCount, ReadsWelcomePoint DEF TruncInv, ReadsWelcome

LEMMA ReadsCommitTrunc ==
  ASSUME ViewInv, TruncInv, NEW m \in Rest, NEW i \in Id, ReadsCommit(m, i)
  PROVE  TruncInv'
<1>1. Ordered(m)'
  BY ReadOrder DEF TruncInv, OrderInv, ReadsCommit
<1>2. OrderInv'
  BY <1>1, OthersOrder DEF TruncInv, ReadsCommit
<1> QED
  BY <1>2, ReadsCommitLearn, ReadsCount, ReadsCommitPoint DEF TruncInv, ReadsCommit

LEMMA ReadsTruncateTrunc ==
  ASSUME ViewInv, TruncInv, NEW m \in Rest, NEW i \in Id, ReadsTruncate(m, i)
  PROVE  TruncInv' /\ Base(m) <= i
<1>1. Ordered(m)'
  BY ReadOrder DEF TruncInv, OrderInv, ReadsTruncate
<1>2. OrderInv'
  BY <1>1, OthersOrder DEF TruncInv, ReadsTruncate
<1>3. Base(m) <= i
  BY ReadOff DEF TruncInv, OrderInv, Ordered, ReadsTruncate
<1> QED
  BY <1>2, <1>3, ReadsTruncateLearn, ReadsCount, ReadsTruncatePoint DEF TruncInv, ReadsTruncate

LEMMA ReadsSyncTrunc ==
  ASSUME ViewInv, TruncInv, NEW m \in Rest, NEW n, ReadsSync(m, n)
  PROVE  TruncInv'
<1>1. Ordered(m)'
  BY ReadOrder DEF TruncInv, OrderInv, ReadsSync, Keeps
<1>2. OrderInv'
  BY <1>1, OthersOrder DEF TruncInv, ReadsSync
<1>3. Top(m) - 1 \in Id
  BY TopIs DEF TruncInv, ReadsSync, Reads
<1> QED
  BY <1>2, <1>3, ReadsSyncLearn, ReadsSyncCount, ReadsSyncPoint DEF TruncInv

LEMMA GetsOldTrunc ==
  ASSUME ViewInv, TruncInv, NEW m \in Rest, NEW n, NEW i, GetsOld(m, n, i)
  PROVE  TruncInv'
<1>1. OrderInv'
  BY SameOrder, OthersOrder DEF TruncInv, OrderInv, GetsOld, Keeps
<1> QED
  BY <1>1, GetsLearn, GetsOldCount, GetsOldPoint DEF TruncInv, GetsOld

LEMMA GetsLastTrunc ==
  ASSUME ViewInv, TruncInv, NEW m \in Rest, NEW i, GetsLast(m, i)
  PROVE  TruncInv'
<1>1. OrderInv'
  BY SameOrder, OthersOrder DEF TruncInv, OrderInv, GetsLast, Keeps
<1> QED
  BY <1>1, GetsLearn, GetsLastCount, GetsLastPoint DEF TruncInv, GetsLast

(* The founder truncates no less than before, and what it has learned. *)
LEMMA GetsLeastTrunc ==
  ASSUME ViewInv, TruncInv, NEW m \in Rest, NEW i, GetsLeast(m, i)
  PROVE  TruncInv' /\ SyncPoint(Lower(i)) \in Id /\ ibase[Founder] <= SyncPoint(Lower(i))
<1>1. Open = {m}
  BY AnswerIsOpen DEF GetsLeast, Gets, TruncInv
<1>2. PICK p \in Id : p = SyncPoint(Lower(i))
  BY <1>1, LeastIsLearned DEF GetsLeast, Gets, TruncInv
<1>3. ibase[Founder] <= p /\ p < ihole[Founder] /\ \A q \in Rest : Reached(q) => p < Top(q)
  BY <1>1, <1>2, LeastIsLearned DEF GetsLeast, Gets, TruncInv
<1>4. LearnInv'
  BY <1>2, <1>3, GetsLeastLearn DEF TruncInv
<1>5. CountInv'
  BY <1>2, GetsLeastCount DEF TruncInv
<1>6. PointInv'
  BY DEF PointInv, GetsLeast
<1>7. OrderInv'
  <2>1. TruncateMsg(p) \in Message /\ TruncateMsg(p).inum = p
    BY MessagesAre
  <2> QED
    BY <1>2, <1>3, <2>1, SentOrder DEF TruncInv, OrderInv, GetsLeast
<1> QED
  BY <1>2, <1>3, <1>4, <1>5, <1>6, <1>7 DEF TruncInv

LEMMA StartsTrunc ==
  ASSUME ViewInv, TruncInv, Starts
  PROVE  TruncInv'
<1>1. SyncMsg(sync_id + 1) \in Message /\ SyncMsg(sync_id + 1).op # "truncate"
  BY MessagesAre, SyncAssumption DEF ViewInv, SyncType
<1>2. OrderInv'
  BY <1>1, SentOrder DEF TruncInv, OrderInv, Starts
<1> QED
  BY <1>2, StartsLearn, StartsCount, StartsPoint DEF TruncInv

-----------------------------------------------------------------------------
(* What the moves start from holds when the connections are as they are.   *)

LEMMA ViewHolds ==
  ASSUME TypeInv, SyncType, ConnInv
  PROVE  ViewInv
<1>1. ASSUME NEW q \in Rest
      PROVE  /\ Down(q) \in Seq(Message) /\ Up(q) \in Seq(Message)
             /\ Reached(q) => Base(q) \in Id /\ Top(q) \in 1 .. MaxInum + 1 /\ Held(q) \in SUBSET Id /\ q \in alist[Founder]
             /\ ~Reached(q) => Down(q) = <<>>
             /\ \A n \in DOMAIN Up(q) : Up(q)[n].op = "last"
  <2>1. HubInv(q) /\ q \in Id /\ Hub(q) \in Conn
    BY Conns DEF ConnInv, Rest
  <2>2. Down(q) \in Seq(Message) /\ Up(q) \in Seq(Message)
    <3>1. queue \in [Conn -> [Side -> Seq(Message)]] /\ 1 \in Side /\ 2 \in Side
      BY Numbers DEF TypeInv
    <3>2. queue[Hub(q)] \in [Side -> Seq(Message)]
      BY <2>1, <3>1
    <3> QED
      BY <3>1, <3>2 DEF Down, Up
  <2>3. proc[q] \in {"none", "waiting", "in", "dead"}
    BY <2>1 DEF TypeInv
  <2>4. ASSUME Reached(q)
        PROVE  Base(q) \in Id /\ Top(q) \in 1 .. MaxInum + 1 /\ Held(q) \in SUBSET Id
    <3>1. proc[q] \in {"waiting", "in"}
      BY <2>1, <2>3, <2>4, Numbers DEF HubInv, Reached
    <3>2. CASE proc[q] = "in"
      BY <2>1, <3>2 DEF TypeInv, Base, Top, Held, In
    <3>3. CASE proc[q] = "waiting"
      <4>1. Down(q) # <<>> /\ Down(q)[1].op = "welcome"
        BY <2>1, <2>4, <3>3, Numbers DEF HubInv, Reached
      <4>2. Down(q)[1].ibase \in Id /\ Down(q)[1].done \in SUBSET Id
        BY <2>2, <4>1, TailIs, MessageIs
      <4> QED
        BY <3>3, <4>2, FirstHoleIs DEF Base, Top, Held, In
    <3> QED
      BY <3>1, <3>2, <3>3
  <2>5. ASSUME ~Reached(q)
        PROVE  Down(q) = <<>>
    <3>1. 2 \in closed[Hub(q)]
      BY <2>1, <2>5, Numbers DEF HubInv, Reached
    <3> QED
      BY <2>1, <3>1, Numbers DEF HubInv, Down
  <2> QED
    BY <2>1, <2>2, <2>4, <2>5 DEF HubInv, Reached
<1> QED
  BY <1>1, Numbers DEF ViewInv, TypeInv, ConnInv, FounderInv

-----------------------------------------------------------------------------
(* The length of the log. *)

Dead == {m \in Id : proc[m] = "dead"}
Asks == {i \in DOMAIN log : i > Old /\ log[i].kind # "part"}

LEMMA UnionIs ==
  ASSUME NEW S, NEW T, IsFiniteSet(S), IsFiniteSet(T)
  PROVE  IsFiniteSet(S \cup T) /\ Cardinality(S \cup T) \in Nat /\ Cardinality(S \cup T) <= Cardinality(S) + Cardinality(T)
<1>1. IsFiniteSet(S \cup T) /\ Cardinality(S \cup T) = Cardinality(S) + Cardinality(T) - Cardinality(S \cap T)
  BY FS_Union
<1>2. S \cap T \in SUBSET S
  OBVIOUS
<1>3. IsFiniteSet(S \cap T)
  BY <1>2, FS_Subset
<1>4. Cardinality(S \cap T) \in Nat /\ Cardinality(S) \in Nat /\ Cardinality(T) \in Nat /\ Cardinality(S \cup T) \in Nat
  BY <1>1, <1>3, FS_CardinalityType
<1> QED
  BY <1>1, <1>4

LEMMA LogLength ==
  ASSUME NEW s \in Seq(Entry), NEW gone \in SUBSET Id, Old <= Len(s), \A i \in 1 .. Old : s[i].kind = "join",
         \A i \in DOMAIN s : s[i].kind = "part" => s[i].who \in gone,
         \A i, j \in DOMAIN s : s[i].kind = "part" /\ s[j].kind = "part" /\ s[i].who = s[j].who => i = j,
         NEW A, A = {i \in DOMAIN s : i > Old /\ s[i].kind # "part"}
  PROVE  IsFiniteSet(A) /\ Cardinality(A) \in Nat /\ Len(s) <= Old + Cardinality(A) + Cardinality(gone)
<1> DEFINE P == {i \in DOMAIN s : s[i].kind = "part"}
<1>1. Len(s) \in Nat /\ DOMAIN s = 1 .. Len(s)
  OBVIOUS
<1>2. IsFiniteSet(DOMAIN s) /\ Cardinality(DOMAIN s) = Len(s)
  BY <1>1, FS_Interval
<1>3. IsFiniteSet(A) /\ IsFiniteSet(P) /\ IsFiniteSet(gone)
  <2>1. A \in SUBSET DOMAIN s /\ P \in SUBSET DOMAIN s
    OBVIOUS
  <2> QED
    BY <1>2, <2>1, IdIsFinite, FS_Subset
<1>4. Cardinality(P) <= Cardinality(gone)
  <2> DEFINE f == [i \in P |-> s[i].who]
  <2>1. f \in Injection(P, gone)
    BY DEF Injection, IsInjective
  <2> HIDE DEF f
  <2> QED
    BY <1>3, <2>1, FS_Injection
<1>5. IsFiniteSet(1 .. Old) /\ Cardinality(1 .. Old) = Old
  BY Numbers, FS_Interval
<1>6. DOMAIN s \in SUBSET ((1 .. Old) \cup (A \cup P))
  BY <1>1, Numbers
<1> HIDE DEF P
<1>7. IsFiniteSet(A \cup P) /\ Cardinality(A \cup P) <= Cardinality(A) + Cardinality(P) /\ Cardinality(A \cup P) \in Nat
  BY <1>3, UnionIs
<1>8. /\ IsFiniteSet((1 .. Old) \cup (A \cup P)) /\ Cardinality((1 .. Old) \cup (A \cup P)) \in Nat
      /\ Cardinality((1 .. Old) \cup (A \cup P)) <= Old + Cardinality(A \cup P)
  BY <1>5, <1>7, UnionIs
<1>9. Len(s) <= Cardinality((1 .. Old) \cup (A \cup P))
  BY <1>2, <1>6, <1>8, FS_Subset
<1>10. Cardinality(A) \in Nat /\ Cardinality(P) \in Nat /\ Cardinality(gone) \in Nat
  BY <1>3, FS_CardinalityType
<1>11. Len(s) <= Old + Cardinality(A) + Cardinality(gone)
  BY <1>1, <1>4, <1>7, <1>8, <1>9, <1>10, Numbers
<1> QED
  BY <1>3, <1>10, <1>11

(* There is room in Id for the next instance. *)
LEMMA Room ==
  ASSUME TypeInv, LogInv
  PROVE  /\ Len(log) \in Nat /\ DOMAIN log = 1 .. Len(log) /\ DOMAIN log \subseteq Id
         /\ Changes < MaxChange => Len(log) + 1 \in Id
         /\ \A q \in Id : proc[q] = "dead" /\ (\A i \in DOMAIN log : log[i].kind = "part" => log[i].who # q) => Len(log) + 1 \in Id
         /\ IsFiniteSet(Asks) /\ IsFiniteSet(Dead) /\ Changes = Cardinality(Asks) + Cardinality(Dead)
         /\ Cardinality(Asks) \in Nat /\ Cardinality(Dead) \in Nat
<1>1. log \in Seq(Entry) /\ Len(log) \in Nat /\ DOMAIN log = 1 .. Len(log) /\ Dead \in SUBSET Id
  BY DEF TypeInv, Dead
<1>2. /\ Old <= Len(log) /\ \A i \in 1 .. Old : log[i].kind = "join"
      /\ \A i, j \in DOMAIN log : log[i].kind = "part" /\ log[j].kind = "part" /\ log[i].who = log[j].who => i = j
      /\ \A i \in DOMAIN log : log[i].kind = "part" => log[i].who \in Dead
  BY DEF LogInv, Gone, Dead, Rest
<1>3. IsFiniteSet(Asks) /\ Cardinality(Asks) \in Nat /\ Len(log) <= Old + Cardinality(Asks) + Cardinality(Dead)
  BY <1>1, <1>2, LogLength DEF Asks
<1>4. IsFiniteSet(Dead) /\ Cardinality(Dead) \in Nat
  BY <1>1, IdIsFinite, FS_Subset, FS_CardinalityType
<1>5. Changes = Cardinality(Asks) + Cardinality(Dead) /\ Changes <= MaxChange
  BY DEF Changes, Asks, Dead, LogInv
<1>6. ASSUME NEW q \in Id, proc[q] = "dead", \A i \in DOMAIN log : log[i].kind = "part" => log[i].who # q
      PROVE  Len(log) + 1 \in Id
  <2>1. q \in Dead /\ Dead \ {q} \in SUBSET Id /\ \A i \in DOMAIN log : log[i].kind = "part" => log[i].who \in Dead \ {q}
    BY <1>1, <1>2, <1>6 DEF Dead
  <2>2. Cardinality(Dead \ {q}) = Cardinality(Dead) - 1
    BY <1>4, <2>1, FS_RemoveElement
  <2>3. Len(log) <= Old + Cardinality(Asks) + Cardinality(Dead \ {q})
    BY <1>1, <1>2, <2>1, LogLength DEF Asks
  <2> QED
    BY <1>1, <1>3, <1>4, <1>5, <2>2, <2>3, Numbers
<1>7. Len(log) <= MaxInum /\ (Changes < MaxChange => Len(log) + 1 \in Id)
  BY <1>1, <1>3, <1>4, <1>5, Numbers
<1> QED
  BY <1>1, <1>3, <1>4, <1>5, <1>6, <1>7, Numbers

-----------------------------------------------------------------------------
(***************************************************************************)
(* The actions.  SafeInv is what each starts from; each is one of the      *)
(* moves, and keeps the types, the log and the connections.                *)
(***************************************************************************)
SafeInv == TypeInv /\ SyncType /\ LogInv /\ ConnInv /\ TruncInv

LEMMA SafeView ==
  ASSUME SafeInv
  PROVE  ViewInv /\ TypeInv /\ LogInv /\ ConnInv /\ TruncInv
BY ViewHolds DEF SafeInv

ListKept(q) == ibase'[q] = ibase[q] /\ ihole'[q] = ihole[q] /\ done'[q] = done[q]

HubKept(q) ==
  /\ queue'[Hub(q)] = queue[Hub(q)] /\ closed'[Hub(q)] = closed[Hub(q)]
  /\ peer'[Founder][q] = peer[Founder][q] /\ proc'[q] = proc[q]

LEMMA HubStays ==
  ASSUME NEW q \in Rest, HubInv(q), HubKept(q), closed'[<<q, Founder>>] = Side,
         peer[Founder][q] # 0 /\ q \in alist[Founder] => q \in alist'[Founder],
         q < ihole[Founder] => q < ihole'[Founder]
  PROVE  HubInv(q)'
BY Numbers DEF HubInv, HubKept, Up, Down

LEMMA ViewStays ==
  ASSUME NEW q \in Rest, HubKept(q), ListKept(q)
  PROVE  Kept(q)
BY DEF HubKept, ListKept, Kept, Keeps, Reached, Base, Top, Held, In, Up, Down

LEMMA LogStays ==
  ASSUME LogInv, log' = log, proc' = proc, \A q \in Rest : Gone(q) => Gone(q)',
         lack'[Founder] = {}, done'[Founder] \subseteq DOMAIN log
  PROVE  LogInv'
<1>1. Changes' = Changes
  BY DEF Changes
<1> QED
  BY <1>1 DEF LogInv, Gone

(* The move of one member, over connections that are not hubs. *)
Apart ==
  /\ log' = log /\ proc' = proc
  /\ alist'[Founder] = alist[Founder] /\ peer'[Founder] = peer[Founder] /\ adefer'[Founder] = adefer[Founder]
  /\ clist'[Founder] = clist[Founder] /\ lack'[Founder] = {} /\ FounderKept
  /\ \A c \in Conn : c[1] = Founder => queue'[c] = queue[c] /\ closed'[c] = closed[c]
  /\ \A c \in Conn : c[2] = Founder => closed'[c] = closed[c]
  /\ OthersInv'

LEMMA ApartKeeps ==
  ASSUME SafeInv, Apart
  PROVE  LogInv' /\ ConnInv' /\ \A q \in Rest : HubKept(q)
<1>1. \A q \in Rest : Gone(q) => Gone(q)'
  BY DEF Apart, Gone, FounderKept
<1>2. LogInv'
  <2>1. LogInv /\ done'[Founder] = done[Founder]
    BY DEF SafeInv, Apart, FounderKept
  <2> QED
    BY <1>1, <2>1, LogStays DEF Apart, LogInv
<1>3. ASSUME NEW q \in Rest
      PROVE  HubKept(q) /\ HubInv(q)'
  <2>1. Hub(q) \in Conn /\ <<q, Founder>> \in Conn /\ Hub(q)[1] = Founder /\ <<q, Founder>>[2] = Founder
    BY Conns DEF Hub
  <2>2. HubInv(q)
    BY DEF SafeInv, ConnInv
  <2>3. HubKept(q)
    BY <2>1 DEF Apart, HubKept
  <2>4. closed'[<<q, Founder>>] = Side
    BY <2>1, <2>2 DEF Apart, HubInv
  <2> QED
    BY <2>2, <2>3, <2>4, HubStays DEF Apart, FounderKept
<1>4. FounderInv'
  BY DEF SafeInv, ConnInv, FounderInv, Apart, FounderKept
<1> QED
  BY <1>2, <1>3, <1>4 DEF ConnInv, Apart

LEMMA ApartRests ==
  ASSUME SafeInv, Apart, SyncKept, \A q \in Rest : ListKept(q)
  PROVE  LogInv' /\ ConnInv' /\ Rests
<1>1. LogInv' /\ ConnInv' /\ \A q \in Rest : HubKept(q)
  BY ApartKeeps
<1>2. \A q \in Rest : Kept(q)
  BY <1>1, ViewStays
<1> QED
  BY <1>1, <1>2 DEF Rests, Apart

LEMMA SyncingKept ==
  ASSUME UNCHANGED syncing
  PROVE  SyncKept /\ (SyncType => SyncType')
BY DEF syncing, SyncKept, SyncType

Safe == TypeInv' /\ LogInv' /\ ConnInv'

LEMMA ResendSafe ==
  ASSUME SafeInv, NEW m \in Id, AckResend(m), UNCHANGED syncing
  PROVE  Safe /\ Rests
<1>1. TypeInv /\ LogInv /\ ConnInv
  BY DEF SafeInv
<1>2. PICK i \in sought[m] : sought' = [sought EXCEPT ![m] = @ \ {i}] /\ lack' = [lack EXCEPT ![m] = @ \ {i}]
  BY DEF AckResend
<1>3. UNCHANGED <<log, proc, acceptors, ibase, ihole, done, clist, queue, closed>>
  BY DEF AckResend
<1>4. TypeInv'
  BY <1>1, <1>2, <1>3 DEF TypeInv, acceptors
<1>5. lack'[Founder] = {}
  BY <1>1, <1>2, Numbers DEF TypeInv, LogInv
<1>6. OthersInv'
  BY <1>1, <1>3 DEF ConnInv, OthersInv, HellosInv, WaitsInv
<1>7. Apart
  BY <1>3, <1>5, <1>6 DEF Apart, acceptors, FounderKept
<1>8. \A q \in Rest : ListKept(q)
  BY <1>3 DEF ListKept
<1> QED
  BY <1>4, <1>7, <1>8, ApartRests, SyncingKept DEF Safe

(* A member connects to another, or does not. *)
LEMMA ConnectSafe ==
  ASSUME SafeInv, NEW m \in Rest, Continue(m), UNCHANGED syncing
  PROVE  Safe /\ Rests
<1>1. TypeInv /\ LogInv /\ ConnInv /\ m \in Id /\ m # Founder
  BY DEF SafeInv, Rest
<1>2. PICK k \in clist[m] :
        /\ clist' = [clist EXCEPT ![m] = @ \ {k}]
        /\ CASE k.who \notin alist[m] -> UNCHANGED <<log, peer, live_count, queue, closed>>
             [] k.who \in alist[m] /\ k.op = "welcome" -> ContinueWelcome(m, k.who)
             [] k.who \in alist[m] /\ k.op = "ack_welcome" -> ContinueAckWelcome(m, k.who)
  BY DEF Continue
<1>3. UNCHANGED <<proc, alist, adefer, instances>>
  BY DEF Continue
<1> DEFINE q == k.who
           c == <<m, q>>
<1>4. k.op = "ack_welcome" /\ q \in Id /\ q # Founder /\ q # m /\ k \in Continuation
  <2>1. k.op = "ack_welcome" /\ q \notin {Founder, m}
    BY <1>1 DEF ConnInv, OthersInv, WaitsInv
  <2>2. k \in Continuation
    BY <1>1 DEF TypeInv
  <2> QED
    BY <2>1, <2>2 DEF Continuation
<1>5. \/ UNCHANGED <<log, peer, live_count, queue, closed>>
      \/ ContinueAckWelcome(m, q)
  BY <1>2, <1>4
<1>6. c \in Conn /\ c[1] # Founder /\ c[2] # Founder /\ 2 \in Side
  BY <1>1, <1>4, Conns, Numbers
<1> HIDE DEF c, q
<1>7. log' = log
  BY <1>5 DEF ContinueAckWelcome
<1>8. peer' = [peer EXCEPT ![m] = peer'[m]] /\ peer'[m] \in [Id -> 0 .. MaxInum] /\ live_count' \in [Id -> Int]
  <2>1. CASE UNCHANGED <<log, peer, live_count, queue, closed>>
    BY <1>1, <2>1 DEF TypeInv
  <2>2. CASE ContinueAckWelcome(m, q)
    <3>1. peer' = [peer EXCEPT ![m][q] = IF Running(q) THEN m ELSE 0] /\ m \in 0 .. MaxInum /\ 0 \in 0 .. MaxInum
      BY <1>1, <2>2, Numbers DEF ContinueAckWelcome
    <3>2. live_count' = [live_count EXCEPT ![m] = @ + 1] \/ live_count' = live_count
      BY <2>2 DEF ContinueAckWelcome
    <3>3. live_count' \in [Id -> Int]
      BY <1>1, <3>2 DEF TypeInv
    <3> QED
      BY <1>1, <1>4, <3>1, <3>3 DEF TypeInv
  <2> QED
    BY <1>5, <2>1, <2>2
<1>9. /\ closed' = [closed EXCEPT ![c] = closed'[c]] /\ closed'[c] \in SUBSET Side
      /\ queue' = [queue EXCEPT ![c] = queue'[c]] /\ queue'[c] \in [Side -> Seq(Message)]
      /\ queue'[c][1] = <<>> /\ \A n \in DOMAIN queue'[c][2] : queue'[c][2][n] = Hello
  <2>0. queue[c] \in [Side -> Seq(Message)] /\ queue[c][1] = <<>> /\ \A n \in DOMAIN queue[c][2] : queue[c][2][n] = Hello
    BY <1>1, <1>6 DEF TypeInv, ConnInv, OthersInv, HellosInv
  <2>1. CASE UNCHANGED <<queue, closed>>
    BY <1>1, <1>6, <2>0, <2>1 DEF TypeInv
  <2>2. CASE closed' = Opened(m, q) /\ queue' = [queue EXCEPT ![<<m, q>>][2] = Append(@, Hello)]
    <3>1. closed' = [closed EXCEPT ![c] = {}] /\ queue' = [queue EXCEPT ![c][2] = Append(@, Hello)]
      BY <2>2 DEF Opened, c
    <3>2. queue[c][2] \in Seq(Message) /\ Hello \in Message
      BY <1>6, <2>0, MessagesAre
    <3>3. Append(queue[c][2], Hello) \in Seq(Message) /\ \A n \in DOMAIN Append(queue[c][2], Hello) : Append(queue[c][2], Hello)[n] = Hello
      BY <1>6, <2>0, <3>2, AppendIs
    <3>4. queue'[c] = [queue[c] EXCEPT ![2] = Append(queue[c][2], Hello)]
      BY <1>1, <1>6, <3>1 DEF TypeInv
    <3>5. queue' = [queue EXCEPT ![c] = queue'[c]]
      BY <1>1, <1>6, <3>1 DEF TypeInv
    <3>6. closed' = [closed EXCEPT ![c] = closed'[c]] /\ closed'[c] = {}
      BY <1>1, <1>6, <3>1 DEF TypeInv
    <3> QED
      BY <1>6, <2>0, <3>3, <3>4, <3>5, <3>6
  <2> QED
    BY <1>5, <2>1, <2>2 DEF ContinueAckWelcome
<1>10. TypeInv'
  BY <1>1, <1>2, <1>3, <1>6, <1>7, <1>8, <1>9 DEF TypeInv, instances
<1>11. OthersInv'
  <2>1. \A x \in Conn : x # c => queue'[x] = queue[x]
    BY <1>1, <1>6, <1>9 DEF TypeInv
  <2>2. \A x \in Rest : clist'[x] \subseteq clist[x]
    BY <1>1, <1>2 DEF TypeInv, Rest
  <2>3. HellosInv'
    BY <1>1, <1>9, <2>1 DEF ConnInv, OthersInv, HellosInv
  <2>4. WaitsInv'
    BY <1>1, <1>3, <2>2 DEF ConnInv, OthersInv, WaitsInv
  <2> QED
    BY <2>3, <2>4 DEF OthersInv
<1>12. Apart
  <2>1. peer'[Founder] = peer[Founder] /\ clist'[Founder] = clist[Founder]
    <3>1. Founder \in Id /\ Founder # m /\ peer \in [Id -> [Id -> 0 .. MaxInum]] /\ clist \in [Id -> SUBSET Continuation]
      BY <1>1, Numbers DEF TypeInv
    <3>2. peer'[Founder] = peer[Founder]
      BY <1>8, <3>1
    <3>3. clist'[Founder] = clist[Founder]
      BY <1>2, <3>1
    <3> QED
      BY <3>2, <3>3
  <2>2. \A x \in Conn : x # c => queue'[x] = queue[x] /\ closed'[x] = closed[x]
    BY <1>1, <1>6, <1>9 DEF TypeInv
  <2> QED
    BY <1>1, <1>3, <1>6, <1>7, <1>11, <2>1, <2>2 DEF Apart, instances, FounderKept, LogInv
<1>13. \A x \in Rest : ListKept(x)
  BY <1>3 DEF ListKept, instances
<1> QED
  BY <1>10, <1>12, <1>13, ApartRests, SyncingKept DEF Safe

(* One side of a connection has read the first of its messages. *)
Took(c, s) == [queue EXCEPT ![c][s] = Tail(@)]

LEMMA TookIs ==
  ASSUME TypeInv, NEW c \in Conn, NEW s \in Side, queue[c][s] # <<>>
  PROVE  /\ Took(c, s) \in [Conn -> [Side -> Seq(Message)]] /\ Took(c, s)[c][s] = Tail(queue[c][s])
         /\ Head(queue[c][s]) = queue[c][s][1] /\ queue[c][s][1] \in Message
         /\ \A x \in Conn : x # c => Took(c, s)[x] = queue[x]
         /\ \A t \in Side : t # s => Took(c, s)[c][t] = queue[c][t]
<1>1. queue \in [Conn -> [Side -> Seq(Message)]] /\ queue[c] \in [Side -> Seq(Message)] /\ queue[c][s] \in Seq(Message)
  BY DEF TypeInv
<1>2. Tail(queue[c][s]) \in Seq(Message) /\ Head(queue[c][s]) = queue[c][s][1] /\ queue[c][s][1] \in Message
  BY <1>1, TailIs
<1>3. Took(c, s) = [queue EXCEPT ![c] = [queue[c] EXCEPT ![s] = Tail(queue[c][s])]]
  BY DEF Took
<1> QED
  BY <1>1, <1>2, <1>3

LEMMA HellosTail ==
  ASSUME NEW s \in Seq(Message), s # <<>>, \A n \in DOMAIN s : s[n] = Hello
  PROVE  \A n \in DOMAIN Tail(s) : Tail(s)[n] = Hello
<1>1. \A n \in DOMAIN Tail(s) : n + 1 \in DOMAIN s /\ Tail(s)[n] = s[n + 1]
  BY TailIs
<1> QED
  BY <1>1

(* A message of a member that waits is not looked at, but for a welcome. *)
LEMMA IgnoreSafe ==
  ASSUME SafeInv, NEW c \in Conn, c[1] # Founder, c[2] # Founder, queue[c][2] # <<>>,
         queue' = Took(c, 2),
         UNCHANGED <<log, proc, acceptors, instances, clist, closed>>, UNCHANGED syncing
  PROVE  Safe /\ Rests
<1>1. TypeInv /\ LogInv /\ ConnInv /\ 2 \in Side /\ 1 \in Side
  BY Numbers DEF SafeInv
<1>2. /\ queue' \in [Conn -> [Side -> Seq(Message)]] /\ queue'[c][2] = Tail(queue[c][2])
      /\ \A x \in Conn : x # c => queue'[x] = queue[x]
      /\ queue'[c][1] = queue[c][1]
  <2>0. TypeInv /\ 2 \in Side /\ 1 \in Side /\ 1 # 2 /\ queue[c][2] # <<>>
    BY <1>1
  <2>1. /\ Took(c, 2) \in [Conn -> [Side -> Seq(Message)]] /\ Took(c, 2)[c][2] = Tail(queue[c][2])
        /\ \A x \in Conn : x # c => Took(c, 2)[x] = queue[x]
        /\ Took(c, 2)[c][1] = queue[c][1]
    BY <2>0, TookIs
  <2> QED
    BY <2>1
<1>3. TypeInv'
  BY <1>1, <1>2 DEF TypeInv, acceptors, instances
<1>4. OthersInv'
  <2>1. queue[c][1] = <<>> /\ \A n \in DOMAIN queue[c][2] : queue[c][2][n] = Hello
    BY <1>1 DEF ConnInv, OthersInv, HellosInv
  <2>2. queue[c][2] \in Seq(Message)
    BY <1>1 DEF TypeInv
  <2>3. \A n \in DOMAIN queue'[c][2] : queue'[c][2][n] = Hello
    <3>1. \A n \in DOMAIN Tail(queue[c][2]) : Tail(queue[c][2])[n] = Hello
      BY <2>1, <2>2, HellosTail
    <3> QED
      BY <1>2, <3>1
  <2>4. HellosInv'
    <3>1. ASSUME NEW x \in Conn, x[1] # Founder
          PROVE  queue'[x][1] = <<>> /\ \A n \in DOMAIN queue'[x][2] : queue'[x][2][n] = Hello
      <4>1. CASE x = c
        BY <1>2, <2>1, <2>3, <4>1
      <4>2. CASE x # c
        <5>1. queue'[x] = queue[x]
          BY <1>2, <4>2
        <5>2. queue[x][1] = <<>> /\ \A n \in DOMAIN queue[x][2] : queue[x][2][n] = Hello
          BY <1>1, <3>1 DEF ConnInv, OthersInv, HellosInv
        <5> QED
          BY <5>1, <5>2
      <4> QED
        BY <4>1, <4>2
    <3> QED
      BY <3>1 DEF HellosInv
  <2>5. WaitsInv'
    BY <1>1 DEF ConnInv, OthersInv, WaitsInv
  <2> QED
    BY <2>4, <2>5 DEF OthersInv
<1>5. Apart
  BY <1>1, <1>2, <1>4 DEF Apart, acceptors, instances, FounderKept, LogInv
<1>6. \A q \in Rest : ListKept(q)
  BY DEF ListKept, instances
<1> QED
  BY <1>3, <1>5, <1>6, ApartRests, SyncingKept DEF Safe

LEMMA HelloSafe ==
  ASSUME SafeInv, NEW c \in Conn, c[1] # Founder, c[2] # Founder, queue[c][2] # <<>>, In(c[2]),
         NEW net, net = Took(c, 2), AckHello(c[2], c[1], net),
         UNCHANGED <<log, proc, alist, instances, clist>>, UNCHANGED syncing
  PROVE  Safe /\ Rests
<1> DEFINE m == c[2]
           q == c[1]
           d == <<m, q>>
<1>1. TypeInv /\ LogInv /\ ConnInv /\ 2 \in Side /\ 1 \in Side /\ m \in Id /\ q \in Id /\ m # q /\ m # Founder /\ d \in Conn
      /\ d[1] # Founder /\ d[2] # Founder /\ 0 \in 0 .. MaxInum /\ q \in 0 .. MaxInum
  BY Numbers, Conns DEF SafeInv
<1>2. AckHello(m, q, net)
  OBVIOUS
<1> HIDE DEF d, q, m
<1>3. /\ net \in [Conn -> [Side -> Seq(Message)]] /\ net[c][2] = Tail(queue[c][2])
      /\ \A x \in Conn : x # c => net[x] = queue[x]
      /\ net[c][1] = queue[c][1]
  <2>1. TypeInv /\ 2 \in Side /\ 1 \in Side /\ 1 # 2 /\ net = Took(c, 2) /\ queue[c][2] # <<>> /\ c \in Conn
    BY <1>1
  <2>2. /\ Took(c, 2) \in [Conn -> [Side -> Seq(Message)]] /\ Took(c, 2)[c][2] = Tail(queue[c][2])
        /\ \A x \in Conn : x # c => Took(c, 2)[x] = queue[x]
        /\ Took(c, 2)[c][1] = queue[c][1]
    BY <2>1, TookIs
  <2> QED
    BY <2>1, <2>2
<1>4. adefer' = [adefer EXCEPT ![m] = adefer'[m]] /\ adefer'[m] \in SUBSET Id
  BY <1>1, <1>2 DEF AckHello, TypeInv
<1>5. peer' = [peer EXCEPT ![m] = peer'[m]] /\ peer'[m] \in [Id -> 0 .. MaxInum]
  <2>1. peer' = peer \/ peer' = [peer EXCEPT ![m][q] = q]
    BY <1>2 DEF AckHello
  <2>2. m \in Id /\ q \in Id /\ q \in 0 .. MaxInum /\ peer \in [Id -> [Id -> 0 .. MaxInum]] /\ peer[m] \in [Id -> 0 .. MaxInum]
    BY <1>1 DEF TypeInv
  <2>3. CASE peer' = peer
    BY <2>2, <2>3
  <2>4. CASE peer' = [peer EXCEPT ![m][q] = q]
    <3>1. peer' = [peer EXCEPT ![m] = [peer[m] EXCEPT ![q] = q]]
      BY <2>4
    <3>2. [peer[m] EXCEPT ![q] = q] \in [Id -> 0 .. MaxInum]
      BY <2>2
    <3> QED
      BY <2>2, <3>1, <3>2
  <2> QED
    BY <2>1, <2>3, <2>4
<1>6. live_count' \in [Id -> Int]
  <2>1. live_count' = live_count \/ live_count' = [live_count EXCEPT ![m] = @ + 1]
    BY <1>2 DEF AckHello
  <2>2. m \in Id /\ live_count \in [Id -> Int] /\ live_count[m] + 1 \in Int
    BY <1>1 DEF TypeInv
  <2> QED
    BY <2>1, <2>2
<1>7. closed' = [closed EXCEPT ![d] = closed'[d]] /\ closed'[d] \in SUBSET Side
  <2>1. closed' = closed \/ closed' = [closed EXCEPT ![d] = @ \cup {1}]
    BY <1>2 DEF AckHello, d
  <2>2. d \in Conn /\ closed \in [Conn -> SUBSET Side] /\ closed[d] \cup {1} \in SUBSET Side
    BY <1>1 DEF TypeInv
  <2> QED
    BY <2>1, <2>2
<1>8. queue' = net \/ queue' = [net EXCEPT ![d][1] = <<>>]
  BY <1>2 DEF AckHello, d
<1>9. queue' \in [Conn -> [Side -> Seq(Message)]]
  <2>1. net[d] \in [Side -> Seq(Message)] /\ <<>> \in Seq(Message)
    BY <1>1, <1>3
  <2>2. [net[d] EXCEPT ![1] = <<>>] \in [Side -> Seq(Message)]
    BY <1>1, <2>1
  <2>3. [net EXCEPT ![d][1] = <<>>] = [net EXCEPT ![d] = [net[d] EXCEPT ![1] = <<>>]]
    OBVIOUS
  <2> QED
    BY <1>1, <1>3, <1>8, <2>2, <2>3
<1>10. \A x \in Conn : /\ queue'[x][2] = net[x][2] /\ (net[x][1] = <<>> => queue'[x][1] = <<>>)
                       /\ x # d => queue'[x] = net[x]
  <2>1. CASE queue' = net
    BY <2>1
  <2>2. CASE queue' = [net EXCEPT ![d][1] = <<>>]
    <3>1. \A x \in Conn : x # d => queue'[x] = net[x]
      BY <1>1, <1>3, <2>2
    <3>2. queue'[d] = [net[d] EXCEPT ![1] = <<>>] /\ net[d] \in [Side -> Seq(Message)]
      BY <1>1, <1>3, <2>2
    <3>3. queue'[d][1] = <<>> /\ queue'[d][2] = net[d][2]
      BY <1>1, <3>2
    <3> QED
      BY <3>1, <3>3
  <2> QED
    BY <1>8, <2>1, <2>2
<1>11. TypeInv'
  BY <1>1, <1>4, <1>5, <1>6, <1>7, <1>9 DEF TypeInv, instances
<1>12. OthersInv'
  <2>1. queue[c][1] = <<>> /\ \A n \in DOMAIN queue[c][2] : queue[c][2][n] = Hello
    BY <1>1 DEF ConnInv, OthersInv, HellosInv
  <2>2. queue[c][2] \in Seq(Message)
    BY <1>1 DEF TypeInv
  <2>3. net[c][1] = <<>> /\ \A n \in DOMAIN net[c][2] : net[c][2][n] = Hello
    <3>1. \A n \in DOMAIN Tail(queue[c][2]) : Tail(queue[c][2])[n] = Hello
      BY <2>1, <2>2, HellosTail
    <3> QED
      BY <1>3, <2>1, <3>1
  <2>4. \A x \in Conn : x[1] # Founder => net[x][1] = <<>> /\ \A n \in DOMAIN net[x][2] : net[x][2][n] = Hello
    <3>1. ASSUME NEW x \in Conn, x[1] # Founder
          PROVE  net[x][1] = <<>> /\ \A n \in DOMAIN net[x][2] : net[x][2][n] = Hello
      <4>1. CASE x = c
        BY <2>3, <4>1
      <4>2. CASE x # c
        <5>1. net[x] = queue[x]
          BY <1>3, <4>2
        <5>2. queue[x][1] = <<>> /\ \A n \in DOMAIN queue[x][2] : queue[x][2][n] = Hello
          BY <1>1, <3>1 DEF ConnInv, OthersInv, HellosInv
        <5> QED
          BY <5>1, <5>2
      <4> QED
        BY <4>1, <4>2
    <3> QED
      BY <3>1
  <2>5. HellosInv'
    <3>1. ASSUME NEW x \in Conn, x[1] # Founder
          PROVE  queue'[x][1] = <<>> /\ \A n \in DOMAIN queue'[x][2] : queue'[x][2][n] = Hello
      <4>1. queue'[x][2] = net[x][2] /\ queue'[x][1] = <<>>
        BY <1>10, <2>4, <3>1
      <4> QED
        BY <2>4, <3>1, <4>1
    <3> QED
      BY <3>1 DEF HellosInv
  <2>6. WaitsInv'
    BY <1>1 DEF ConnInv, OthersInv, WaitsInv
  <2> QED
    BY <2>5, <2>6 DEF OthersInv
<1>13. Apart
  <2>1. peer'[Founder] = peer[Founder] /\ adefer'[Founder] = adefer[Founder]
    <3>1. Founder \in Id /\ Founder # m /\ peer \in [Id -> [Id -> 0 .. MaxInum]] /\ adefer \in [Id -> SUBSET Id]
      BY <1>1, Numbers DEF TypeInv
    <3>2. peer'[Founder] = peer[Founder]
      BY <1>5, <3>1
    <3>3. adefer'[Founder] = adefer[Founder]
      BY <1>4, <3>1
    <3> QED
      BY <3>2, <3>3
  <2>2. ASSUME NEW x \in Conn, x[1] = Founder \/ x[2] = Founder
        PROVE  queue'[x] = queue[x] /\ closed'[x] = closed[x]
    <3>1. x # d /\ x # c
      BY <1>1, <2>2
    <3> QED
      BY <1>1, <1>3, <1>7, <1>10, <3>1 DEF TypeInv
  <2> QED
    BY <1>1, <1>12, <2>1, <2>2 DEF Apart, instances, FounderKept, LogInv
<1>14. \A x \in Rest : ListKept(x)
  BY DEF ListKept, instances
<1> QED
  BY <1>11, <1>13, <1>14, ApartRests, SyncingKept DEF Safe

(* A member other than the founder reads the end of a connection. *)
LEMMA EndSafe ==
  ASSUME SafeInv, NEW c \in Conn, NEW s \in Side, c[s] # Founder, Drop(c[s], c), UNCHANGED syncing
  PROVE  Safe /\ Rests
<1> DEFINE m == c[s]
           q == c[Other(s)]
<1>1. /\ TypeInv /\ LogInv /\ ConnInv /\ s \in {1, 2} /\ m \in Id /\ q \in Id /\ SideOf(c, m) = s /\ Other(s) \in Side
      /\ c[1] \in Id /\ c[2] \in Id /\ Other(s) # s
  BY Numbers, Conns DEF SafeInv, SideOf, Other
<1>2. /\ s \notin closed[c] /\ Other(s) \in closed[c] /\ Running(m)
      /\ closed' = [closed EXCEPT ![c] = @ \cup {s}]
      /\ \/ /\ peer' = [peer EXCEPT ![m][q] = 0] /\ live_count' = Dropped(m, q)
            /\ log' = IF m = Founder THEN Decreed(Part(q)) ELSE log
         \/ UNCHANGED <<peer, live_count, log>>
      /\ UNCHANGED <<proc, alist, adefer, instances, clist, queue>>
  BY <1>1 DEF Drop
<1> HIDE DEF m, q
<1>3. log' = log /\ m # Founder
  BY <1>2 DEF m
<1>4. c[1] # Founder /\ c[2] # Founder
  <2>1. ASSUME c[2] = Founder
        PROVE  FALSE
    <3>1. c = <<c[1], Founder>> /\ c[1] \in Rest
      BY <1>1, <2>1, Conns DEF Rest
    <3>2. closed[c] = Side
      BY <1>1, <3>1 DEF ConnInv, HubInv
    <3> QED
      BY <1>1, <1>2, <3>2
  <2>2. ASSUME c[1] = Founder
        PROVE  FALSE
    <3>1. c[2] \in Rest /\ c = Hub(c[2]) /\ s = 2 /\ m = c[2]
      BY <1>1, <1>3, <2>2, HubIs DEF m
    <3>2. HubInv(c[2]) /\ 1 \in closed[c] /\ 2 \notin closed[c]
      BY <1>1, <1>2, <3>1, Numbers DEF ConnInv
    <3>3. peer[Founder][c[2]] = 0 \/ (peer[Founder][c[2]] = Founder /\ 1 \notin closed[c])
      BY <3>1, <3>2 DEF HubInv
    <3> QED
      BY <3>1, <3>2, <3>3, Numbers DEF HubInv
  <2> QED
    BY <2>1, <2>2
<1>5. peer' = [peer EXCEPT ![m] = peer'[m]] /\ peer'[m] \in [Id -> 0 .. MaxInum] /\ live_count' \in [Id -> Int]
  <2>1. peer' = peer \/ peer' = [peer EXCEPT ![m][q] = 0]
    BY <1>2
  <2>2. live_count' = live_count \/ live_count' = [live_count EXCEPT ![m] = @ - 1]
    BY <1>2 DEF Dropped
  <2>3. peer' = [peer EXCEPT ![m] = peer'[m]] /\ peer'[m] \in [Id -> 0 .. MaxInum]
    <3>1. 0 \in 0 .. MaxInum
      BY Numbers
    <3>2. CASE peer' = peer
      BY <1>1, <3>2 DEF TypeInv
    <3>3. CASE peer' = [peer EXCEPT ![m][q] = 0]
      BY <1>1, <3>1, <3>3 DEF TypeInv
    <3> QED
      BY <2>1, <3>2, <3>3
  <2>4. live_count' \in [Id -> Int]
    <3>1. CASE live_count' = live_count
      BY <1>1, <3>1 DEF TypeInv
    <3>2. CASE live_count' = [live_count EXCEPT ![m] = @ - 1]
      <4>1. live_count \in [Id -> Int] /\ live_count[m] \in Int
        BY <1>1 DEF TypeInv
      <4>2. \A x \in Int : x - 1 \in Int
        OBVIOUS
      <4>3. live_count[m] - 1 \in Int
        BY <4>1, <4>2
      <4> QED
        BY <3>2, <4>1, <4>3
    <3> QED
      BY <2>2, <3>1, <3>2
  <2> QED
    BY <2>3, <2>4
<1>6. TypeInv'
  <2>1. closed' \in [Conn -> SUBSET Side]
    BY <1>1, <1>2 DEF TypeInv
  <2>2. peer' \in [Id -> [Id -> 0 .. MaxInum]]
    BY <1>1, <1>5 DEF TypeInv
  <2> QED
    BY <1>1, <1>2, <1>3, <1>5, <2>1, <2>2 DEF TypeInv, instances
<1>7. OthersInv'
  BY <1>1, <1>2 DEF ConnInv, OthersInv, HellosInv, WaitsInv
<1>8. Apart
  <2>1. peer'[Founder] = peer[Founder]
    BY <1>1, <1>3, <1>5, Numbers DEF TypeInv
  <2>2. \A x \in Conn : x # c => closed'[x] = closed[x]
    BY <1>1, <1>2 DEF TypeInv
  <2> QED
    BY <1>1, <1>2, <1>3, <1>4, <1>7, <2>1, <2>2 DEF Apart, instances, FounderKept, LogInv
<1>9. \A x \in Rest : ListKept(x)
  BY <1>2 DEF ListKept, instances
<1> QED
  BY <1>6, <1>8, <1>9, ApartRests, SyncingKept DEF Safe

-----------------------------------------------------------------------------
(* Instances are decreed. *)

LEMMA Added ==
  ASSUME TypeInv, LogInv, NEW e \in Entry, log' = Append(log, e)
  PROVE  /\ log' \in Seq(Entry) /\ Len(log') = Len(log) + 1 /\ Len(log) \in Nat /\ Len(log) + 1 > Old
         /\ DOMAIN log' = DOMAIN log \cup {Len(log) + 1} /\ Len(log) + 1 \notin DOMAIN log
         /\ log'[Len(log) + 1] = e /\ \A i \in DOMAIN log : log'[i] = log[i]
         /\ IsFiniteSet(Asks') /\ Cardinality(Asks') \in Nat
         /\ Cardinality(Asks') = IF e.kind = "part" THEN Cardinality(Asks) ELSE Cardinality(Asks) + 1
<1>1. log \in Seq(Entry) /\ Old <= Len(log) /\ Old \in Nat
  BY Numbers DEF TypeInv, LogInv
<1>2. /\ log' \in Seq(Entry) /\ Len(log') = Len(log) + 1 /\ Len(log) \in Nat /\ Len(log) + 1 > Old
      /\ DOMAIN log' = DOMAIN log \cup {Len(log) + 1} /\ Len(log) + 1 \notin DOMAIN log
      /\ log'[Len(log) + 1] = e /\ \A i \in DOMAIN log : log'[i] = log[i]
  BY <1>1, AppendIs
<1>3. IsFiniteSet(Asks) /\ Cardinality(Asks) \in Nat /\ Len(log) + 1 \notin Asks
  BY <1>2, Room DEF Asks
<1>4. Asks' = IF e.kind = "part" THEN Asks ELSE Asks \cup {Len(log) + 1}
  BY <1>2 DEF Asks
<1>5. IsFiniteSet(Asks \cup {Len(log) + 1}) /\ Cardinality(Asks \cup {Len(log) + 1}) = Cardinality(Asks) + 1
  BY <1>3, FS_AddElement
<1>6. CASE e.kind = "part"
  BY <1>2, <1>3, <1>4, <1>6
<1>7. CASE e.kind # "part"
  BY <1>2, <1>3, <1>4, <1>5, <1>7
<1> QED
  BY <1>6, <1>7

(* The log grows by a chat, a join, or the part of a member that is gone. *)
LEMMA LogAdds ==
  ASSUME TypeInv, LogInv, NEW e \in Entry, log' = Append(log, e),
         proc' = IF e.kind = "join" THEN [proc EXCEPT ![Len(log) + 1] = "waiting"] ELSE proc,
         e.kind # "part" => Changes < MaxChange,
         e.kind = "part" => e.who \in Id /\ proc[e.who] = "dead" /\ Gone(e.who)'
                            /\ \A i \in DOMAIN log : log[i].kind = "part" => log[i].who # e.who,
         \A q \in Rest : Gone(q) => Gone(q)',
         lack'[Founder] = {}, done'[Founder] \subseteq DOMAIN log
  PROVE  LogInv' /\ log' \in Seq(Entry) /\ Len(log) + 1 \in Id /\ proc[Len(log) + 1] = "none"
<1> DEFINE n == Len(log) + 1
<1>1. /\ log' \in Seq(Entry) /\ Len(log') = n /\ n > Old /\ Old \in Nat /\ Len(log) \in Nat
      /\ DOMAIN log' = DOMAIN log \cup {n} /\ n \notin DOMAIN log
      /\ log'[n] = e /\ \A i \in DOMAIN log : log'[i] = log[i]
  BY Added, Numbers
<1>2. n \in Id
  BY Room
<1>3. proc \in [Id -> {"none", "waiting", "in", "dead"}] /\ proc[n] = "none"
  BY <1>1, <1>2 DEF TypeInv, LogInv
<1>4. Dead' = Dead
  BY <1>2, <1>3 DEF Dead
<1>5. Changes' <= MaxChange
  <2>1. Changes' = Cardinality(Asks') + Cardinality(Dead')
    BY DEF Changes, Asks, Dead
  <2>2. Changes = Cardinality(Asks) + Cardinality(Dead) /\ Cardinality(Asks) \in Nat /\ Cardinality(Dead) \in Nat /\ Changes <= MaxChange
    BY Room DEF LogInv
  <2>3. Cardinality(Asks') = IF e.kind = "part" THEN Cardinality(Asks) ELSE Cardinality(Asks) + 1
    BY Added
  <2>4. CASE e.kind = "part"
    BY <1>4, <2>1, <2>2, <2>3, <2>4
  <2>5. CASE e.kind # "part"
    <3>1. Cardinality(Asks) + Cardinality(Dead) < MaxChange
      BY <2>2, <2>5
    <3>2. Changes' = Cardinality(Asks) + 1 + Cardinality(Dead)
      BY <1>4, <2>1, <2>3, <2>5
    <3> QED
      BY <2>2, <3>1, <3>2, Numbers
  <2> QED
    BY <2>4, <2>5
<1> HIDE DEF n
<1>6. \A i \in 1 .. Old : i \in DOMAIN log
  BY <1>1, Numbers DEF LogInv, TypeInv
<1>7. Old <= Len(log') /\ \A i \in 1 .. Old : log'[i].kind = "join"
  BY <1>1, <1>6 DEF LogInv
<1>8. \A q \in Id : proc'[q] # "none" <=> q \in DOMAIN log' /\ log'[q].kind = "join"
  <2>1. ASSUME NEW q \in Id
        PROVE  proc'[q] # "none" <=> q \in DOMAIN log' /\ log'[q].kind = "join"
    <3>1. CASE q = n
      BY <1>1, <1>2, <1>3, <3>1 DEF n
    <3>2. CASE q # n
      <4>1. proc'[q] = proc[q]
        BY <1>3, <3>2 DEF n
      <4> QED
        BY <1>1, <3>2, <4>1 DEF LogInv
    <3> QED
      BY <3>1, <3>2
  <2> QED
    BY <2>1
<1>9. \A i \in DOMAIN log' : log'[i].kind = "part" => \A w \in {log'[i].who} : Gone(w)'
  <2>1. ASSUME NEW i \in DOMAIN log', log'[i].kind = "part", NEW w \in {log'[i].who}
        PROVE  Gone(w)'
    <3>1. CASE i = n
      BY <1>1, <2>1, <3>1
    <3>2. CASE i # n
      <4>1. Gone(w) /\ w \in Rest
        BY <1>1, <2>1, <3>2 DEF LogInv, Gone
      <4> QED
        BY <4>1
    <3> QED
      BY <3>1, <3>2
  <2> QED
    BY <2>1
<1>10. \A i, j \in DOMAIN log' :
         log'[i].kind = "part" /\ log'[j].kind = "part" /\ log'[i].who = log'[j].who => i = j
  BY <1>1 DEF LogInv
<1>11. lack'[Founder] = {} /\ done'[Founder] \subseteq DOMAIN log'
  BY <1>1
<1>12. LogInv'
  BY <1>5, <1>7, <1>8, <1>9, <1>10, <1>11 DEF LogInv, Gone
<1> QED
  BY <1>1, <1>2, <1>3, <1>12 DEF n

LEMMA EntryIs ==
  ASSUME TypeInv, NEW v \in [kind : {"join", "part", "chat"}, who : 0 .. MaxInum]
  PROVE  /\ [kind |-> v.kind, who |-> v.who, asked |-> Connected(Founder)] \in Entry
         /\ Decreed(v) = Append(log, [kind |-> v.kind, who |-> v.who, asked |-> Connected(Founder)])
<1>1. Connected(Founder) \in SUBSET Id
  BY Numbers DEF TypeInv, Connected
<1> QED
  BY <1>1 DEF Entry, Decreed

LEMMA DecreeSafe ==
  ASSUME SafeInv, NEW v, v = Chat \/ v = Join(Len(log) + 1), Decree(v), UNCHANGED syncing
  PROVE  Safe /\ Rests
<1> DEFINE n == Len(log) + 1
           e == [kind |-> v.kind, who |-> v.who, asked |-> Connected(Founder)]
<1>1. TypeInv /\ LogInv /\ ConnInv /\ Changes < MaxChange /\ Len(log) + 1 \in Id
  BY Room DEF SafeInv, Decree
<1>2. v \in [kind : {"join", "part", "chat"}, who : 0 .. MaxInum] /\ v.kind # "part" /\ (v.kind = "join" => v.who = n)
  BY <1>1, Numbers DEF Chat, Join
<1>3. e \in Entry /\ e.kind = v.kind /\ e.who = v.who /\ log' = Append(log, e)
  BY <1>1, <1>2, EntryIs DEF Decree
<1>4. proc' = IF e.kind = "join" THEN [proc EXCEPT ![Len(log) + 1] = "waiting"] ELSE proc
  BY <1>2 DEF Decree
<1>5. UNCHANGED <<acceptors, instances, clist, queue, closed>>
  BY DEF Decree
<1>6. n \notin DOMAIN log /\ n \in Id /\ proc[n] = "none" /\ proc \in [Id -> {"none", "waiting", "in", "dead"}] /\ n \in Rest
  <2>1. n \notin DOMAIN log /\ n > Old /\ n \in Id
    BY <1>1, <1>3, Added
  <2>2. proc \in [Id -> {"none", "waiting", "in", "dead"}] /\ proc[n] = "none"
    BY <1>1, <2>1 DEF TypeInv, LogInv
  <2> QED
    BY <2>1, <2>2, Numbers DEF Rest
<1> HIDE DEF e
<1>7. \A q \in Id : q # n => proc'[q] = proc[q]
  BY <1>4, <1>6
<1>8. \A q \in Rest : Gone(q) => Gone(q)'
  BY <1>5, <1>6, <1>7 DEF Gone, acceptors, instances, Rest
<1>9. LogInv' /\ log' \in Seq(Entry)
  BY <1>1, <1>2, <1>3, <1>4, <1>5, <1>8, LogAdds DEF instances, LogInv
<1>10. proc' \in [Id -> {"none", "waiting", "in", "dead"}] /\ proc'[n] \in {"none", "waiting"}
  BY <1>4, <1>6
<1>11. TypeInv'
  BY <1>1, <1>5, <1>9, <1>10 DEF TypeInv, acceptors, instances
<1>12. FounderInv'
  <2>1. proc'[Founder] = "in"
    BY <1>1, <1>6, <1>7, Numbers DEF ConnInv, FounderInv, Rest
  <2>2. \A q \in DOMAIN log : q \in DOMAIN log' /\ log'[q] = log[q]
    BY <1>1, <1>3, Added
  <2>3. FounderInv
    BY <1>1 DEF ConnInv
  <2>4. \A k \in clist[Founder] : k.who \in DOMAIN log' /\ log'[k.who].kind = "join"
    BY <2>2, <2>3 DEF FounderInv
  <2> QED
    BY <1>5, <2>1, <2>3, <2>4 DEF FounderInv, acceptors, instances
<1>13. OthersInv'
  <2>1. HellosInv'
    BY <1>1, <1>5 DEF ConnInv, OthersInv, HellosInv
  <2>2. \A m \in Rest : proc'[m] # "in" => proc[m] # "in"
    BY <1>6, <1>7 DEF Rest
  <2>3. WaitsInv'
    BY <1>1, <1>5, <2>2 DEF ConnInv, OthersInv, WaitsInv
  <2> QED
    BY <2>1, <2>3 DEF OthersInv
<1>14. ASSUME NEW q \in Rest
       PROVE  HubInv(q)' /\ Kept(q)
  <2>1. HubInv(q)
    BY <1>1 DEF ConnInv
  <2>2. ListKept(q)
    BY <1>5 DEF ListKept, instances
  <2>3. CASE q # n
    <3>1. HubKept(q) /\ closed'[<<q, Founder>>] = Side
      BY <1>5, <1>7, <2>1, <2>3 DEF HubKept, HubInv, acceptors, Rest
    <3> QED
      BY <1>5, <2>1, <2>2, <3>1, HubStays, ViewStays DEF acceptors, instances
  <2>4. CASE q = n
    <3>1. peer[Founder][q] = 0 /\ closed[Hub(q)] = Side /\ Up(q) = <<>> /\ Down(q) = <<>>
      BY <1>6, <2>1, <2>4, Numbers DEF HubInv, Up, Down
    <3>2. /\ peer'[Founder][q] = 0 /\ closed'[Hub(q)] = Side /\ queue'[Hub(q)] = queue[Hub(q)]
          /\ closed'[<<q, Founder>>] = Side /\ Up(q)' = <<>> /\ Down(q)' = <<>>
      BY <1>5, <2>1, <3>1 DEF HubInv, acceptors, Up, Down
    <3>3. HubInv(q)'
      BY <1>10, <2>1, <2>4, <3>2, Numbers DEF HubInv, Up, Down
    <3>4. ~Reached(q) /\ ~Reached(q)' /\ ~In(q) /\ ~In(q)'
      BY <1>6, <1>10, <2>4, <3>1, <3>2, Numbers DEF Reached, In
    <3>5. Kept(q)
      BY <3>1, <3>2, <3>4 DEF Kept, Keeps, Base, Top, Held
    <3> QED
      BY <3>3, <3>5
  <2> QED
    BY <2>3, <2>4
<1>15. FounderKept
  BY <1>5 DEF FounderKept, instances
<1> QED
  BY <1>9, <1>11, <1>12, <1>13, <1>14, <1>15, SyncingKept DEF Safe, ConnInv, Rests

-----------------------------------------------------------------------------
(* The founder writes to the members it reaches.                           *)

LEMMA BroadcastIs ==
  ASSUME SafeInv, NEW net \in [Conn -> [Side -> Seq(Message)]], NEW msg \in Message
  PROVE  /\ Broadcast(net, Founder, msg) \in [Conn -> [Side -> Seq(Message)]]
         /\ \A c \in Conn : c[1] # Founder => Broadcast(net, Founder, msg)[c] = net[c]
         /\ \A q \in Rest :
              /\ Broadcast(net, Founder, msg)[Hub(q)][1] = net[Hub(q)][1]
              /\ Broadcast(net, Founder, msg)[Hub(q)][2]
                   = IF Reached(q) THEN Append(net[Hub(q)][2], msg) ELSE net[Hub(q)][2]
<1> DEFINE to == {<<Via(Founder, q), Other(SideOf(Via(Founder, q), Founder))>> : q \in Connected(Founder)}
           b == [c \in Conn |-> [s \in Side |->
                  IF <<c, s>> \in to /\ s \notin closed[c] THEN Append(net[c][s], msg) ELSE net[c][s]]]
<1>1. Broadcast(net, Founder, msg) = b
  BY DEF Broadcast
<1>2. TypeInv /\ ConnInv /\ 1 # 2 /\ 1 \in Side /\ 2 \in Side /\ Side = {1, 2}
  BY Numbers DEF SafeInv
<1>3. \A q \in Connected(Founder) : q \in Rest /\ peer[Founder][q] = Founder
  <2>1. ASSUME NEW q \in Connected(Founder)
        PROVE  q \in Rest /\ peer[Founder][q] = Founder
    <3>1. q \in alist[Founder] /\ peer[Founder][q] # 0 /\ q \in Id /\ q # Founder
      BY <1>2, Numbers DEF Connected, TypeInv, ConnInv, FounderInv
    <3> QED
      BY <1>2, <3>1 DEF Rest, ConnInv, HubInv
  <2> QED
    BY <2>1
<1>4. \A q \in Connected(Founder) : Via(Founder, q) = Hub(q) /\ Other(SideOf(Via(Founder, q), Founder)) = 2
  BY <1>3, Numbers DEF Via, Hub, SideOf
<1>5. to = {<<Hub(q), 2>> : q \in Connected(Founder)}
  BY <1>4
<1>6. \A q \in Rest : Reached(q) <=> <<Hub(q), 2>> \in to /\ 2 \notin closed[Hub(q)]
  <2>1. ASSUME NEW q \in Rest
        PROVE  Reached(q) <=> <<Hub(q), 2>> \in to /\ 2 \notin closed[Hub(q)]
    <3>1. \A p \in Connected(Founder) : Hub(p) = Hub(q) => p = q
      BY DEF Hub
    <3>2. peer[Founder][q] = Founder => q \in Connected(Founder)
      BY <1>2, Numbers DEF ConnInv, HubInv, Connected
    <3> QED
      BY <1>3, <1>5, <3>1, <3>2 DEF Reached
  <2> QED
    BY <2>1
<1>7. \A c \in Conn : <<c, 1>> \notin to /\ (c[1] # Founder => <<c, 2>> \notin to)
  <2>1. \A x \in to : x[2] = 2 /\ x[1][1] = Founder
    BY <1>5 DEF Hub
  <2> HIDE DEF to
  <2>2. ASSUME NEW c \in Conn
        PROVE  <<c, 1>>[2] = 1 /\ <<c, 2>>[1] = c
    OBVIOUS
  <2> QED
    BY <1>2, <2>1, <2>2
<1> HIDE DEF to
<1>8. b \in [Conn -> [Side -> Seq(Message)]]
  <2>1. \A c \in Conn, s \in Side : net[c][s] \in Seq(Message) /\ Append(net[c][s], msg) \in Seq(Message)
    BY AppendIs
  <2> QED
    BY <2>1
<1>9. \A c \in Conn : c[1] # Founder => b[c] = net[c]
  <2>1. ASSUME NEW c \in Conn, c[1] # Founder
        PROVE  b[c] = net[c]
    <3>1. \A s \in Side : b[c][s] = net[c][s]
      BY <1>2, <1>7, <2>1
    <3>2. b[c] \in [Side -> Seq(Message)] /\ net[c] \in [Side -> Seq(Message)]
      BY <1>8
    <3> HIDE DEF b
    <3> QED
      BY <3>1, <3>2
  <2> QED
    BY <2>1
<1>10. \A q \in Rest : /\ b[Hub(q)][1] = net[Hub(q)][1]
                       /\ b[Hub(q)][2] = IF Reached(q) THEN Append(net[Hub(q)][2], msg) ELSE net[Hub(q)][2]
  <2>1. ASSUME NEW q \in Rest
        PROVE  /\ b[Hub(q)][1] = net[Hub(q)][1]
               /\ b[Hub(q)][2] = IF Reached(q) THEN Append(net[Hub(q)][2], msg) ELSE net[Hub(q)][2]
    <3>1. Hub(q) \in Conn
      BY Conns
    <3>2. \A s \in Side : b[Hub(q)][s]
            = IF <<Hub(q), s>> \in to /\ s \notin closed[Hub(q)] THEN Append(net[Hub(q)][s], msg) ELSE net[Hub(q)][s]
      BY <3>1
    <3> HIDE DEF b
    <3> QED
      BY <1>2, <1>6, <1>7, <3>1, <3>2
  <2> QED
    BY <2>1
<1> HIDE DEF b
<1> QED
  BY <1>1, <1>8, <1>9, <1>10

LEMMA SentSafe ==
  ASSUME SafeInv, NEW q \in Rest, NEW msg \in Message, msg.op \in {"commit", "sync", "truncate"}, Sent(q, msg),
         UNCHANGED <<closed, proc, peer, alist>>, ListKept(q), ihole'[Founder] = ihole[Founder],
         Up(q) = <<>> => Up(q)' = <<>>, \A n \in DOMAIN Up(q)' : Up(q)'[n].op = "last"
  PROVE  HubInv(q)' /\ Keeps(q)
<1>1. HubInv(q) /\ ViewInv /\ Down(q) \in Seq(Message) /\ Side = {1, 2}
  BY SafeView, Numbers DEF ConnInv, ViewInv
<1>2. (Reached(q)' <=> Reached(q)) /\ (Reached(q) <=> peer[Founder][q] = Founder /\ 2 \notin closed[Hub(q)])
  BY DEF Reached
<1>3. /\ Down(q) # <<>> => Down(q)' # <<>> /\ Down(q)'[1] = Down(q)[1]
      /\ ~Reached(q) => Down(q)' = <<>> /\ Down(q) = <<>>
      /\ \A n \in DOMAIN Down(q)' : Down(q)'[n].op \in {"commit", "sync", "truncate"}
                                    \/ (n \in DOMAIN Down(q) /\ Down(q)'[n] = Down(q)[n])
  <2>1. ~Reached(q) => Down(q) = <<>>
    BY <1>1 DEF ViewInv
  <2>2. CASE Reached(q)
    <3>1. Down(q)' = Append(Down(q), msg)
      BY <2>2 DEF Sent
    <3>2. /\ DOMAIN Append(Down(q), msg) = DOMAIN Down(q) \cup {Len(Down(q)) + 1}
          /\ Append(Down(q), msg)[Len(Down(q)) + 1] = msg /\ Append(Down(q), msg) # <<>>
          /\ \A n \in DOMAIN Down(q) : Append(Down(q), msg)[n] = Down(q)[n]
      BY <1>1, AppendIs
    <3>3. Down(q) # <<>> => 1 \in DOMAIN Down(q)
      BY <1>1, TailIs
    <3> QED
      BY <2>2, <3>1, <3>2, <3>3
  <2>3. CASE ~Reached(q)
    BY <2>1, <2>3 DEF Sent
  <2> QED
    BY <2>2, <2>3
<1>4. Keeps(q)
  <2>1. CASE In(q)
    BY <1>2, <2>1 DEF Keeps, Base, Top, Held, In, ListKept
  <2>2. CASE ~In(q) /\ Down(q) # <<>>
    BY <1>2, <1>3, <2>2 DEF Keeps, Base, Top, Held, In
  <2>3. CASE ~In(q) /\ Down(q) = <<>>
    <3>1. ~Reached(q)
      BY <1>1, <1>2, <2>3, Numbers DEF HubInv, In, SafeInv, TypeInv, Rest
    <3> QED
      BY <1>2, <1>3, <2>3, <3>1 DEF Keeps, Base, Top, Held, In
  <2> QED
    BY <2>1, <2>2, <2>3
<1>5. /\ \A s \in Side : s \in closed'[Hub(q)] => queue'[Hub(q)][s] = <<>>
      /\ \A n \in DOMAIN Down(q)' :
           \/ Down(q)'[n].op \in {"commit", "sync", "truncate"}
           \/ n = 1 /\ proc'[q] = "waiting" /\ Down(q)'[n].op = "welcome"
  <2>1. 1 \in closed'[Hub(q)] => Up(q)' = <<>>
    BY <1>1 DEF HubInv, Up
  <2>2. 2 \in closed'[Hub(q)] => Down(q)' = <<>>
    BY <1>2, <1>3
  <2>3. \A n \in DOMAIN Down(q)' :
           \/ Down(q)'[n].op \in {"commit", "sync", "truncate"}
           \/ n = 1 /\ proc'[q] = "waiting" /\ Down(q)'[n].op = "welcome"
    BY <1>1, <1>3 DEF HubInv
  <2> QED
    BY <1>1, <2>1, <2>2, <2>3 DEF Up, Down
<1>6. /\ closed'[<<q, Founder>>] = Side
      /\ peer'[Founder][q] \in {0, Founder}
      /\ peer'[Founder][q] = 0 => closed'[Hub(q)] = Side
      /\ peer'[Founder][q] = Founder => q \in alist'[Founder] /\ 1 \notin closed'[Hub(q)] /\ q < ihole'[Founder]
      /\ proc'[q] = "in" => closed'[Hub(q)] = {} /\ peer'[Founder][q] = Founder
      /\ proc'[q] = "none" => peer'[Founder][q] = 0
      /\ proc'[q] = "dead" => 2 \in closed'[Hub(q)]
  BY <1>1 DEF HubInv
<1>7. proc'[q] = "waiting" =>
        \/ /\ closed'[Hub(q)] = {} /\ peer'[Founder][q] = Founder
           /\ Up(q)' = <<>> /\ Down(q)' # <<>> /\ Down(q)'[1].op = "welcome"
        \/ peer'[Founder][q] = 0
  BY <1>1, <1>3 DEF HubInv
<1>8. HubInv(q)'
  BY <1>5, <1>6, <1>7 DEF HubInv
<1> QED
  BY <1>4, <1>8

LEMMA BroadcastSafe ==
  ASSUME SafeInv, NEW net \in [Conn -> [Side -> Seq(Message)]], NEW msg \in Message,
         msg.op \in {"commit", "sync", "truncate"}, queue' = Broadcast(net, Founder, msg),
         \A c \in Conn : c[1] # Founder => net[c] = queue[c],
         \A q \in Rest : /\ net[Hub(q)][2] = Down(q)
                         /\ net[Hub(q)][1] = Up(q) \/ (Up(q) # <<>> /\ net[Hub(q)][1] = Tail(Up(q))),
         UNCHANGED <<log, proc, acceptors, clist, closed>>, \A q \in Rest : ListKept(q), ihole'[Founder] = ihole[Founder]
  PROVE  /\ queue' \in [Conn -> [Side -> Seq(Message)]] /\ ConnInv'
         /\ \A q \in Rest : Keeps(q) /\ Sent(q, msg) /\ Up(q)' = net[Hub(q)][1]
<1>1. ConnInv /\ ViewInv
  BY SafeView
<1>2. /\ queue' \in [Conn -> [Side -> Seq(Message)]]
      /\ \A c \in Conn : c[1] # Founder => queue'[c] = net[c]
      /\ \A q \in Rest :
           /\ queue'[Hub(q)][1] = net[Hub(q)][1]
           /\ queue'[Hub(q)][2] = IF Reached(q) THEN Append(net[Hub(q)][2], msg) ELSE net[Hub(q)][2]
  BY BroadcastIs
<1>3. ASSUME NEW q \in Rest
      PROVE  HubInv(q)' /\ Keeps(q) /\ Sent(q, msg) /\ Up(q)' = net[Hub(q)][1]
  <2>1. Sent(q, msg) /\ Up(q)' = net[Hub(q)][1]
    BY <1>2 DEF Sent, Up, Down
  <2>2. Up(q)' = Up(q) \/ (Up(q) # <<>> /\ Up(q)' = Tail(Up(q)))
    BY <2>1
  <2>3. Up(q) \in Seq(Message) /\ \A n \in DOMAIN Up(q) : Up(q)[n].op = "last"
    BY <1>1 DEF ViewInv
  <2>4. \A n \in DOMAIN Up(q)' : Up(q)'[n].op = "last"
    <3>1. CASE Up(q)' = Up(q)
      BY <2>3, <3>1
    <3>2. CASE Up(q) # <<>> /\ Up(q)' = Tail(Up(q))
      <4>1. \A n \in DOMAIN Tail(Up(q)) : n + 1 \in DOMAIN Up(q) /\ Tail(Up(q))[n] = Up(q)[n + 1]
        BY <2>3, <3>2, TailIs
      <4> QED
        BY <2>3, <3>2, <4>1
    <3> QED
      BY <2>2, <3>1, <3>2
  <2>5. UNCHANGED <<closed, proc, peer, alist>>
    BY DEF acceptors
  <2>6. HubInv(q)' /\ Keeps(q)
    BY <2>1, <2>2, <2>4, <2>5, SentSafe
  <2> QED
    BY <2>1, <2>6
<1>4. OthersInv'
  <2>1. HellosInv'
    <3>1. \A c \in Conn : c[1] # Founder => queue'[c] = queue[c]
      BY <1>2
    <3> QED
      BY <1>1, <3>1 DEF ConnInv, OthersInv, HellosInv
  <2>2. WaitsInv'
    BY <1>1 DEF ConnInv, OthersInv, WaitsInv
  <2> QED
    BY <2>1, <2>2 DEF OthersInv
<1>5. FounderInv'
  BY <1>1 DEF ConnInv, FounderInv, acceptors
<1> QED
  BY <1>2, <1>3, <1>4, <1>5 DEF ConnInv

LEMMA CommitSafe ==
  ASSUME SafeInv, NEW i \in Id, Commit(i), UNCHANGED syncing
  PROVE  Safe /\ Commits(i)
<1>1. TypeInv /\ LogInv /\ ConnInv
  BY DEF SafeInv
<1>2. /\ i \in ihole[Founder] .. Len(log) /\ done' = [done EXCEPT ![Founder] = @ \cup {i}]
      /\ queue' = Broadcast(queue, Founder, CommitMsg(i))
      /\ UNCHANGED <<log, proc, acceptors, ibase, ihole, lack, sought, clist, closed>>
  BY DEF Commit, Undecided
<1>3. i \in DOMAIN log
  <2>1. ihole[Founder] \in 1 .. MaxInum + 1
    BY <1>1, Numbers DEF TypeInv
  <2> QED
    BY <1>1, <1>2, <2>1, Room
<1>4. /\ done' \in [Id -> SUBSET Id] /\ done'[Founder] = done[Founder] \cup {i}
      /\ \A q \in Rest : done'[q] = done[q]
  <2>1. done \in [Id -> SUBSET Id] /\ Founder \in Id /\ done[Founder] \cup {i} \in SUBSET Id
    BY <1>1, Numbers DEF TypeInv
  <2> QED
    BY <1>2, <2>1 DEF Rest
<1>5. CommitMsg(i) \in Message /\ CommitMsg(i).op = "commit"
  BY MessagesAre
<1>6. \A q \in Rest : ListKept(q)
  BY <1>2, <1>4 DEF ListKept
<1>7. queue \in [Conn -> [Side -> Seq(Message)]] /\ \A q \in Rest : queue[Hub(q)][2] = Down(q) /\ queue[Hub(q)][1] = Up(q)
  BY <1>1 DEF TypeInv, Up, Down
<1>8. /\ queue' \in [Conn -> [Side -> Seq(Message)]] /\ ConnInv'
      /\ \A q \in Rest : Keeps(q) /\ Sent(q, CommitMsg(i)) /\ Up(q)' = queue[Hub(q)][1]
  BY <1>2, <1>5, <1>6, <1>7, BroadcastSafe
<1>9. TypeInv'
  BY <1>1, <1>2, <1>4, <1>8 DEF TypeInv, acceptors
<1>10. LogInv'
  <2>1. \A q \in Rest : Gone(q) => Gone(q)'
    BY <1>2 DEF Gone, acceptors
  <2> QED
    BY <1>1, <1>2, <1>3, <1>4, <2>1, LogStays DEF LogInv
<1> QED
  BY <1>2, <1>4, <1>7, <1>8, <1>9, <1>10, SyncingKept DEF Safe, Commits

-----------------------------------------------------------------------------
(* Instances are learned. *)

LEMMA HoleMoves ==
  ASSUME TypeInv, NEW m \in Id, ihole[m] \in Id, ihole' = [ihole EXCEPT ![m] = @ + 1]
  PROVE  ihole' \in [Id -> 1 .. MaxInum + 1] /\ ihole'[m] = ihole[m] + 1 /\ \A q \in Id : q # m => ihole'[q] = ihole[q]
<1>1. ihole \in [Id -> 1 .. MaxInum + 1]
  BY DEF TypeInv
<1>2. ihole[m] + 1 \in 1 .. MaxInum + 1
  BY Numbers
<1> QED
  BY <1>1, <1>2

LEMMA EntriesAre ==
  ASSUME TypeInv, NEW i \in DOMAIN log
  PROVE  log[i] \in Entry /\ log[i].kind \in {"join", "part", "chat"}
<1>1. log[i] \in Entry
  BY DEF TypeInv
<1> QED
  BY <1>1 DEF Entry

LEMMA LearnSafe ==
  ASSUME SafeInv, Learn(Founder), UNCHANGED syncing
  PROVE  Safe /\ Learns
<1> DEFINE i == ihole[Founder]
<1>1. TypeInv /\ LogInv /\ ConnInv /\ LearnInv /\ FounderInv /\ Founder \in Id /\ adefer[Founder] = {}
  BY Numbers DEF SafeInv, TruncInv, ConnInv, FounderInv
<1>2. i \in done[Founder] /\ i \in DOMAIN log /\ i \in Id
  BY <1>1, Room DEF Learn, Learnable, LogInv
<1>3. /\ CASE log[i].kind = "chat" -> UNCHANGED <<acceptors, queue, closed>>
           [] log[i].kind = "join" -> LearnJoin(Founder, i) /\ UNCHANGED <<queue, closed>>
           [] log[i].kind = "part" -> LearnPart(Founder, log[i].who)
      /\ clist' = IF log[i].kind = "join"
                  THEN [clist EXCEPT ![Founder] = @ \cup {[op |-> "welcome", who |-> i]}] ELSE clist
      /\ ihole' = [ihole EXCEPT ![Founder] = @ + 1]
      /\ UNCHANGED <<log, proc, ibase, done, lack, sought>>
  BY DEF Learn
<1>4. ihole' \in [Id -> 1 .. MaxInum + 1] /\ ihole'[Founder] = i + 1 /\ \A q \in Id : q # Founder => ihole'[q] = ihole[q]
  BY <1>1, <1>2, <1>3, HoleMoves
<1>5. log[i].kind \in {"join", "part", "chat"} /\ log[i] \in Entry
  BY <1>1, <1>2, EntriesAre
<1>6. i \in Rest /\ peer[Founder][i] = 0 /\ i \in Int
  <2>1. ibase[Founder] \in Id /\ ibase[Founder] < i
    BY <1>1 DEF TypeInv, LearnInv
  <2>2. i # Founder /\ i \in Int
    BY <1>2, <2>1, Numbers
  <2>3. HubInv(i) /\ i \in Rest
    BY <1>1, <1>2, <2>2 DEF ConnInv, Rest
  <2> QED
    BY <2>2, <2>3 DEF HubInv
<1> HIDE DEF i
<1>7. /\ alist' \in [Id -> SUBSET Id] /\ Founder \in alist'[Founder]
      /\ \A q \in Rest : peer[Founder][q] # 0 /\ q \in alist[Founder] => q \in alist'[Founder]
      /\ UNCHANGED <<adefer, peer, queue, closed>> /\ live_count' \in [Id -> Int]
  <2>1. CASE log[i].kind = "chat"
    BY <1>1, <1>3, <2>1 DEF acceptors, TypeInv, FounderInv
  <2>2. CASE log[i].kind = "join"
    <3>1. alist' = [alist EXCEPT ![Founder] = @ \cup {i}] /\ UNCHANGED <<adefer, peer, live_count, queue, closed>>
      BY <1>1, <1>3, <2>2 DEF LearnJoin
    <3>2. alist' \in [Id -> SUBSET Id] /\ alist'[Founder] = alist[Founder] \cup {i}
      <4>1. alist \in [Id -> SUBSET Id] /\ alist[Founder] \cup {i} \in SUBSET Id
        BY <1>1, <1>2 DEF TypeInv
      <4> QED
        BY <1>1, <3>1, <4>1
    <3> QED
      BY <1>1, <3>1, <3>2 DEF TypeInv, FounderInv
  <2>3. CASE log[i].kind = "part"
    <3>1. PICK q \in Rest : q = log[i].who /\ peer[Founder][q] = 0
      BY <1>1, <1>2, <2>3 DEF LogInv, Gone
    <3>2. LearnPart(Founder, q)
      BY <1>3, <2>3, <3>1
    <3>3. CASE q \notin alist[Founder]
      BY <1>1, <3>2, <3>3 DEF LearnPart, acceptors, TypeInv, FounderInv
    <3>4. CASE q \in alist[Founder]
      <4>1. /\ alist' = [alist EXCEPT ![Founder] = @ \ {q}] /\ peer' = [peer EXCEPT ![Founder][q] = 0]
            /\ live_count' = [live_count EXCEPT ![Founder] = @ - 0] /\ UNCHANGED <<adefer, queue, closed>>
        BY <3>1, <3>2, <3>4 DEF LearnPart
      <4>2. alist' \in [Id -> SUBSET Id] /\ alist'[Founder] = alist[Founder] \ {q}
        BY <1>1, <4>1 DEF TypeInv
      <4>3. peer' = peer
        BY <1>1, <3>1, <4>1 DEF TypeInv, Rest
      <4>4. live_count' \in [Id -> Int]
        <5>1. live_count \in [Id -> Int] /\ live_count[Founder] - 0 \in Int
          BY <1>1 DEF TypeInv
        <5> QED
          BY <1>1, <4>1, <5>1
      <4> QED
        BY <1>1, <3>1, <4>1, <4>2, <4>3, <4>4 DEF FounderInv, Rest
    <3> QED
      BY <3>3, <3>4
  <2> QED
    BY <1>5, <2>1, <2>2, <2>3
<1>8. /\ clist' = [clist EXCEPT ![Founder] = clist'[Founder]] /\ clist'[Founder] \in SUBSET Continuation
      /\ \A k \in clist'[Founder] : k \in clist[Founder] \/ (k.op = "welcome" /\ k.who = i /\ log[i].kind = "join")
  <2>1. [op |-> "welcome", who |-> i] \in Continuation
    BY <1>2 DEF Continuation
  <2>2. CASE log[i].kind = "join"
    <3>1. clist' = [clist EXCEPT ![Founder] = clist[Founder] \cup {[op |-> "welcome", who |-> i]}]
      BY <1>3, <2>2
    <3>2. clist'[Founder] = clist[Founder] \cup {[op |-> "welcome", who |-> i]}
      BY <1>1, <3>1 DEF TypeInv
    <3> QED
      BY <1>1, <2>1, <2>2, <3>1, <3>2 DEF TypeInv
  <2>3. CASE log[i].kind # "join"
    BY <1>1, <1>3, <2>3 DEF TypeInv
  <2> QED
    BY <2>2, <2>3
<1>9. TypeInv'
  BY <1>1, <1>3, <1>4, <1>7, <1>8 DEF TypeInv
<1>10. LogInv'
  <2>1. ASSUME NEW q \in Rest, Gone(q)
        PROVE  Gone(q)'
    <3>1. q < i /\ i < i + 1 /\ q \in Int
      BY <1>6, <2>1, Numbers DEF Gone, i, Rest
    <3> QED
      BY <1>3, <1>4, <1>6, <1>7, <1>8, <2>1, <3>1 DEF Gone
  <2> QED
    BY <1>1, <1>3, <2>1, LogStays DEF LogInv
<1>11. FounderInv'
  <2>1. ASSUME NEW k \in clist'[Founder]
        PROVE  /\ k.op = "welcome" /\ k.who \in Rest /\ k.who < i + 1
               /\ k.who \in DOMAIN log /\ log[k.who].kind = "join" /\ peer[Founder][k.who] = 0
    <3>1. CASE k \in clist[Founder]
      <4>1. k.op = "welcome" /\ k.who \in Rest /\ k.who < i
        BY <1>1, <3>1 DEF FounderInv, i
      <4>2. k.who < i + 1
        BY <1>6, <4>1, Numbers DEF Rest
      <4> QED
        BY <1>1, <3>1, <4>1, <4>2 DEF FounderInv
    <3>2. CASE k.op = "welcome" /\ k.who = i /\ log[i].kind = "join"
      BY <1>2, <1>6, <3>2
    <3> QED
      BY <1>8, <3>1, <3>2
  <2> QED
    BY <1>1, <1>3, <1>4, <1>7, <2>1 DEF FounderInv
<1>12. OthersInv'
  <2>1. \A x \in Rest : clist'[x] = clist[x]
    BY <1>1, <1>8 DEF TypeInv, Rest
  <2>2. HellosInv'
    BY <1>1, <1>7 DEF ConnInv, OthersInv, HellosInv
  <2>3. WaitsInv'
    BY <1>1, <1>3, <2>1 DEF ConnInv, OthersInv, WaitsInv
  <2> QED
    BY <2>2, <2>3 DEF OthersInv
<1>13. ASSUME NEW q \in Rest
       PROVE  HubInv(q)' /\ Kept(q)
  <2>1. HubInv(q) /\ q \in Id /\ q # Founder
    BY <1>1 DEF ConnInv, Rest
  <2>2. HubKept(q) /\ closed'[<<q, Founder>>] = Side
    BY <1>3, <1>7, <2>1 DEF HubKept, HubInv
  <2>3. ListKept(q)
    BY <1>3, <1>4, <2>1 DEF ListKept
  <2>4. q < ihole[Founder] => q < ihole'[Founder]
    BY <1>4, <1>6, <2>1, Numbers DEF i
  <2> QED
    BY <1>7, <2>1, <2>2, <2>3, <2>4, HubStays, ViewStays
<1> QED
  BY <1>2, <1>3, <1>4, <1>9, <1>10, <1>11, <1>12, <1>13, SyncingKept DEF Safe, ConnInv, Learns, i

(* A member has what it learns from the founder, so it is decreed. *)
LEMMA HeldIsDecreed ==
  ASSUME SafeInv, NEW m \in Rest, In(m)
  PROVE  /\ Reached(m) /\ Base(m) = ibase[m] /\ Held(m) = done[m] /\ Top(m) = ihole[m]
         /\ \A i \in done[m] : i \in DOMAIN log
<1>1. TypeInv /\ LogInv /\ ConnInv /\ LearnInv /\ m \in Id
  BY DEF SafeInv, TruncInv, Rest
<1>2. Reached(m)
  BY <1>1, Numbers DEF ConnInv, HubInv, In, Reached
<1>3. Base(m) = ibase[m] /\ Held(m) = done[m] /\ Top(m) = ihole[m]
  BY DEF Base, Held, Top
<1>4. ibase[Founder] \in done[Founder] /\ ibase[Founder] \in Id
  <2>1. ibase[Founder] \in Id /\ ibase[Founder] < ihole[Founder] /\ ihole[Founder] \in Int
    BY <1>1, Numbers DEF TypeInv, LearnInv
  <2>2. ibase[Founder] \in ibase[Founder] .. ihole[Founder] - 1
    BY <2>1, Numbers
  <2> QED
    BY <1>1, <2>1, <2>2 DEF LearnInv
<1>5. ASSUME NEW i \in done[m]
      PROVE  i \in DOMAIN log
  <2>1. i \in Id /\ Known(i)
    BY <1>1, <1>2, <1>3, <1>5 DEF LearnInv, Fits, TypeInv
  <2>2. CASE i \in done[Founder]
    BY <1>1, <2>2 DEF LogInv
  <2>3. CASE i < ibase[Founder]
    <3>1. ibase[Founder] \in DOMAIN log
      BY <1>1, <1>4 DEF LogInv
    <3> QED
      BY <1>1, <1>4, <2>1, <2>3, <3>1, Room, Numbers
  <2> QED
    BY <2>1, <2>2, <2>3 DEF Known
<1> QED
  BY <1>2, <1>3, <1>5

(* A member other than the founder learns. *)
LEMMA OtherLearnSafe ==
  ASSUME SafeInv, NEW m \in Rest, Learn(m), UNCHANGED syncing
  PROVE  Safe /\ MemberLearns(m)
<1> DEFINE i == ihole[m]
<1>1. TypeInv /\ LogInv /\ ConnInv /\ m \in Id /\ m # Founder /\ In(m)
  BY DEF SafeInv, Rest, Learn, Learnable
<1>2. /\ Reached(m) /\ Base(m) = ibase[m] /\ Held(m) = done[m] /\ Top(m) = i
      /\ i \in done[m] /\ i \in DOMAIN log /\ i \in Id
  BY <1>1, HeldIsDecreed, Room DEF Learn, Learnable
<1>3. /\ CASE log[i].kind = "chat" -> UNCHANGED <<acceptors, queue, closed>>
           [] log[i].kind = "join" -> LearnJoin(m, i) /\ UNCHANGED <<queue, closed>>
           [] log[i].kind = "part" -> LearnPart(m, log[i].who)
      /\ clist' = clist
      /\ ihole' = [ihole EXCEPT ![m] = @ + 1]
      /\ UNCHANGED <<log, proc, ibase, done, lack, sought>>
  BY <1>1 DEF Learn
<1>4. ihole' \in [Id -> 1 .. MaxInum + 1] /\ ihole'[m] = i + 1 /\ \A q \in Id : q # m => ihole'[q] = ihole[q]
  BY <1>1, <1>2, <1>3, HoleMoves
<1>5. log[i].kind \in {"join", "part", "chat"}
  BY <1>1, <1>2, EntriesAre
<1> HIDE DEF i
<1>6. /\ alist' = [alist EXCEPT ![m] = alist'[m]] /\ alist'[m] \in SUBSET Id
      /\ adefer' = [adefer EXCEPT ![m] = adefer'[m]] /\ adefer'[m] \in SUBSET Id
      /\ peer' = [peer EXCEPT ![m] = peer'[m]] /\ peer'[m] \in [Id -> 0 .. MaxInum]
      /\ live_count' \in [Id -> Int]
      /\ \/ UNCHANGED <<queue, closed>>
         \/ \E q \in Rest \ {m} : Shut(Via(m, q), SideOf(Via(m, q), m))
  <2>1. CASE log[i].kind = "chat"
    BY <1>1, <1>3, <2>1 DEF acceptors, TypeInv
  <2>2. CASE log[i].kind = "join"
    <3>1. /\ alist' = [alist EXCEPT ![m] = @ \cup {i}]
          /\ UNCHANGED <<adefer, peer, live_count>>
             \/ (/\ adefer' = [adefer EXCEPT ![m] = @ \ {i}]
                 /\ peer' = [peer EXCEPT ![m][i] = i]
                 /\ live_count' = [live_count EXCEPT ![m] = @ + 1])
          /\ UNCHANGED <<queue, closed>>
      BY <1>3, <2>2 DEF LearnJoin
    <3>2. alist' = [alist EXCEPT ![m] = alist'[m]] /\ alist'[m] \in SUBSET Id
      <4>1. alist[m] \cup {i} \in SUBSET Id /\ alist \in [Id -> SUBSET Id]
        BY <1>1, <1>2 DEF TypeInv
      <4> QED
        BY <1>1, <3>1, <4>1
    <3>3. CASE UNCHANGED <<adefer, peer, live_count>>
      BY <1>1, <3>1, <3>2, <3>3 DEF TypeInv
    <3>4. CASE /\ adefer' = [adefer EXCEPT ![m] = @ \ {i}]
               /\ peer' = [peer EXCEPT ![m][i] = i]
               /\ live_count' = [live_count EXCEPT ![m] = @ + 1]
      <4>1. i \in 0 .. MaxInum
        BY <1>2, Numbers
      <4>2. adefer' = [adefer EXCEPT ![m] = adefer'[m]] /\ adefer'[m] \in SUBSET Id
        BY <1>1, <3>4 DEF TypeInv
      <4>3. peer' = [peer EXCEPT ![m] = peer'[m]] /\ peer'[m] \in [Id -> 0 .. MaxInum]
        BY <1>1, <1>2, <3>4, <4>1 DEF TypeInv
      <4>4. live_count' \in [Id -> Int]
        BY <1>1, <3>4 DEF TypeInv
      <4> QED
        BY <3>1, <3>2, <4>2, <4>3, <4>4
    <3> QED
      BY <3>1, <3>3, <3>4
  <2>3. CASE log[i].kind = "part"
    <3>1. PICK q \in Rest : q = log[i].who /\ proc[q] = "dead"
      BY <1>1, <1>2, <2>3 DEF LogInv, Gone
    <3>2. LearnPart(m, q) /\ q # m /\ q \in Id
      BY <1>1, <1>3, <2>3, <3>1 DEF In, Rest
    <3>3. CASE q \notin alist[m]
      BY <1>1, <3>2, <3>3 DEF LearnPart, acceptors, TypeInv
    <3>4. CASE q \in alist[m]
      <4>1. /\ alist' = [alist EXCEPT ![m] = @ \ {q}] /\ peer' = [peer EXCEPT ![m][q] = 0]
            /\ live_count' = [live_count EXCEPT ![m] = @ - (IF peer[m][q] # 0 THEN 1 ELSE 0)] /\ UNCHANGED adefer
            /\ UNCHANGED <<queue, closed>> \/ Shut(Via(m, q), SideOf(Via(m, q), m))
        BY <3>2, <3>4 DEF LearnPart
      <4>2. alist' = [alist EXCEPT ![m] = alist'[m]] /\ alist'[m] \in SUBSET Id
        BY <1>1, <4>1 DEF TypeInv
      <4>3. peer' = [peer EXCEPT ![m] = peer'[m]] /\ peer'[m] \in [Id -> 0 .. MaxInum]
        <5>1. 0 \in 0 .. MaxInum
          BY Numbers
        <5> QED
          BY <1>1, <4>1, <5>1 DEF TypeInv
      <4>4. live_count' \in [Id -> Int]
        <5>1. live_count \in [Id -> Int] /\ live_count[m] \in Int
          BY <1>1 DEF TypeInv
        <5>2. live_count[m] - (IF peer[m][q] # 0 THEN 1 ELSE 0) \in Int
          BY <5>1
        <5> QED
          BY <1>1, <4>1, <5>1, <5>2
      <4> QED
        BY <1>1, <3>2, <4>1, <4>2, <4>3, <4>4 DEF TypeInv
    <3> QED
      BY <3>3, <3>4
  <2> QED
    BY <1>5, <2>1, <2>2, <2>3
<1>7. /\ queue' \in [Conn -> [Side -> Seq(Message)]] /\ closed' \in [Conn -> SUBSET Side]
      /\ \A c \in Conn : c[1] = Founder \/ c[2] = Founder => queue'[c] = queue[c] /\ closed'[c] = closed[c]
      /\ \A c \in Conn, s \in Side : queue'[c][s] = queue[c][s] \/ queue'[c][s] = <<>>
  <2>1. CASE UNCHANGED <<queue, closed>>
    BY <1>1, <2>1 DEF TypeInv
  <2>2. CASE \E q \in Rest \ {m} : Shut(Via(m, q), SideOf(Via(m, q), m))
    <3>1. PICK q \in Rest \ {m} : Shut(Via(m, q), SideOf(Via(m, q), m))
      BY <2>2
    <3>2. PICK c : c = Via(m, q)
      OBVIOUS
    <3>3. PICK s : s = SideOf(Via(m, q), m)
      OBVIOUS
    <3>4. c \in Conn /\ c[1] # Founder /\ c[2] # Founder
      BY <1>1, <3>2, Conns DEF Via, Rest
    <3>5. s \in Side
      BY <3>3, Numbers DEF SideOf
    <3>6. closed' = [closed EXCEPT ![c] = closed[c] \cup {s}] /\ queue' = [queue EXCEPT ![c][s] = <<>>]
      BY <3>1, <3>2, <3>3 DEF Shut
    <3>7. queue[c] \in [Side -> Seq(Message)] /\ <<>> \in Seq(Message) /\ queue \in [Conn -> [Side -> Seq(Message)]]
      BY <1>1, <3>4 DEF TypeInv
    <3>8. queue' = [queue EXCEPT ![c] = [queue[c] EXCEPT ![s] = <<>>]] /\ [queue[c] EXCEPT ![s] = <<>>] \in [Side -> Seq(Message)]
      BY <3>6, <3>7
    <3>9. closed' \in [Conn -> SUBSET Side] /\ \A x \in Conn : x # c => closed'[x] = closed[x]
      <4>1. closed \in [Conn -> SUBSET Side] /\ closed[c] \cup {s} \in SUBSET Side
        BY <1>1, <3>4, <3>5 DEF TypeInv
      <4> QED
        BY <3>4, <3>6, <4>1
    <3>10. queue' \in [Conn -> [Side -> Seq(Message)]] /\ queue'[c] = [queue[c] EXCEPT ![s] = <<>>]
           /\ \A x \in Conn : x # c => queue'[x] = queue[x]
      BY <3>4, <3>7, <3>8
    <3>11. \A t \in Side : queue'[c][t] = queue[c][t] \/ queue'[c][t] = <<>>
      BY <3>5, <3>7, <3>10
    <3> QED
      BY <3>4, <3>9, <3>10, <3>11
  <2> QED
    BY <1>6, <2>1, <2>2
<1>8. TypeInv'
  <2>1. alist' \in [Id -> SUBSET Id]
    BY <1>1, <1>6 DEF TypeInv
  <2>2. adefer' \in [Id -> SUBSET Id]
    BY <1>1, <1>6 DEF TypeInv
  <2>3. peer' \in [Id -> [Id -> 0 .. MaxInum]]
    BY <1>1, <1>6 DEF TypeInv
  <2> QED
    BY <1>1, <1>3, <1>4, <1>6, <1>7, <2>1, <2>2, <2>3 DEF TypeInv
<1>9. OthersInv'
  <2>1. HellosInv'
    <3>1. ASSUME NEW c \in Conn, c[1] # Founder
          PROVE  queue'[c][1] = <<>> /\ \A n \in DOMAIN queue'[c][2] : queue'[c][2][n] = Hello
      <4>1. queue[c][1] = <<>> /\ \A n \in DOMAIN queue[c][2] : queue[c][2][n] = Hello
        BY <1>1, <3>1 DEF ConnInv, OthersInv, HellosInv
      <4>2. \A s \in {1, 2} : queue'[c][s] = queue[c][s] \/ queue'[c][s] = <<>>
        BY <1>7, Numbers
      <4> QED
        BY <4>1, <4>2
    <3> QED
      BY <3>1 DEF HellosInv
  <2>2. WaitsInv'
    BY <1>1, <1>3 DEF ConnInv, OthersInv, WaitsInv
  <2> QED
    BY <2>1, <2>2 DEF OthersInv
<1>10. Apart
  <2>0. /\ Founder \in Id /\ Founder # m /\ peer \in [Id -> [Id -> 0 .. MaxInum]]
        /\ alist \in [Id -> SUBSET Id] /\ adefer \in [Id -> SUBSET Id]
    BY <1>1, Numbers DEF TypeInv
  <2>1. alist'[Founder] = alist[Founder]
    BY <1>6, <2>0
  <2>2. peer'[Founder] = peer[Founder]
    BY <1>6, <2>0
  <2>3. adefer'[Founder] = adefer[Founder]
    BY <1>6, <2>0
  <2>4. ihole'[Founder] = ihole[Founder]
    BY <1>1, <1>4, Numbers
  <2> QED
    BY <1>1, <1>3, <1>7, <1>9, <2>1, <2>2, <2>3, <2>4 DEF Apart, FounderKept, LogInv
<1>11. LogInv' /\ ConnInv' /\ \A q \in Rest : HubKept(q)
  BY <1>10, ApartKeeps
<1>12. KeptBut(m)
  <2>1. \A q \in Rest \ {m} : ListKept(q)
    BY <1>3, <1>4 DEF ListKept, Rest
  <2> QED
    BY <1>11, <2>1, ViewStays DEF KeptBut
<1>13. /\ Up(m)' = Up(m) /\ Down(m)' = Down(m) /\ Reached(m)' /\ Base(m)' = Base(m) /\ Held(m)' = Held(m)
       /\ Top(m)' = Top(m) + 1
  <2>1. HubKept(m)
    BY <1>11
  <2>2. In(m)'
    BY <1>1, <1>3 DEF In
  <2>3. Base(m)' = ibase[m] /\ Held(m)' = done[m] /\ Top(m)' = i + 1
    BY <1>3, <1>4, <2>2 DEF Base, Held, Top
  <2> QED
    BY <1>2, <2>1, <2>3 DEF HubKept, Up, Down, Reached
<1>14. FounderKept
  BY <1>10 DEF Apart
<1> QED
  BY <1>2, <1>8, <1>11, <1>12, <1>13, <1>14, SyncingKept DEF Safe, MemberLearns

-----------------------------------------------------------------------------
(* The founder connects to a new member.                                   *)

LEMMA WelcomeIs ==
  ASSUME SafeInv, NEW k \in clist[Founder], clist' = [clist EXCEPT ![Founder] = @ \ {k}]
  PROVE  /\ clist' \in [Id -> SUBSET Continuation] /\ clist'[Founder] = clist[Founder] \ {k}
         /\ \A x \in Rest : clist'[x] = clist[x]
         /\ \A j \in clist'[Founder] : j \in clist[Founder] /\ j.who # k.who
         /\ k.op = "welcome" /\ k.who \in Rest /\ k.who \in Id
<1>1. clist \in [Id -> SUBSET Continuation] /\ Founder \in Id /\ FounderInv
  BY Numbers DEF SafeInv, TypeInv, ConnInv
<1>2. clist' \in [Id -> SUBSET Continuation] /\ clist'[Founder] = clist[Founder] \ {k} /\ \A x \in Rest : clist'[x] = clist[x]
  BY <1>1 DEF Rest
<1>3. k \in Continuation /\ k.op = "welcome" /\ k.who \in Rest
  BY <1>1 DEF FounderInv
<1>4. ASSUME NEW j \in clist[Founder] \ {k}
      PROVE  j.who # k.who
  <2>1. j \in Continuation /\ j.op = "welcome"
    BY <1>1 DEF FounderInv
  <2>2. j = [op |-> j.op, who |-> j.who] /\ k = [op |-> k.op, who |-> k.who]
    BY <1>3, <2>1 DEF Continuation
  <2> QED
    BY <1>3, <2>1, <2>2
<1> QED
  BY <1>2, <1>3, <1>4 DEF Rest

LEMMA PartAdds ==
  ASSUME TypeInv, LogInv, NEW q \in Rest, proc[q] = "dead", proc' = proc, log' = Decreed(Part(q)), Gone(q)',
         \A i \in DOMAIN log : log[i].kind = "part" => log[i].who # q,
         \A w \in Rest : Gone(w) => Gone(w)',
         lack'[Founder] = {}, done'[Founder] \subseteq DOMAIN log
  PROVE  LogInv' /\ log' \in Seq(Entry) /\ \A i \in DOMAIN log : i \in DOMAIN log' /\ log'[i] = log[i]
<1>1. q \in Id /\ q \in 0 .. MaxInum
  BY Numbers DEF Rest
<1>2. Part(q) \in [kind : {"join", "part", "chat"}, who : 0 .. MaxInum] /\ Part(q).kind = "part" /\ Part(q).who = q
  BY <1>1 DEF Part
<1>3. PICK e : e = [kind |-> Part(q).kind, who |-> Part(q).who, asked |-> Connected(Founder)]
  OBVIOUS
<1>4. e \in Entry /\ e.kind = "part" /\ e.who = q /\ log' = Append(log, e)
  BY <1>2, <1>3, EntryIs
<1>5. /\ e.kind # "part" => Changes < MaxChange
      /\ e.kind = "part" => e.who \in Id /\ proc[e.who] = "dead" /\ Gone(e.who)'
                            /\ \A i \in DOMAIN log : log[i].kind = "part" => log[i].who # e.who
  BY <1>1, <1>4
<1>6. proc' = IF e.kind = "join" THEN [proc EXCEPT ![Len(log) + 1] = "waiting"] ELSE proc
  BY <1>4
<1>7. LogInv' /\ log' \in Seq(Entry)
  BY <1>4, <1>5, <1>6, LogAdds
<1> QED
  BY <1>4, <1>7, Added

(* It does not: the member has been parted, or its part is decreed. *)
LEMMA NoWelcomeSafe ==
  ASSUME SafeInv, NEW k \in clist[Founder], clist' = [clist EXCEPT ![Founder] = @ \ {k}],
         UNCHANGED <<proc, alist, adefer, instances, peer, live_count, queue, closed>>,
         log' = log \/ (proc[k.who] = "dead" /\ log' = Decreed(Part(k.who))), UNCHANGED syncing
  PROVE  Safe /\ Rests
<1>1. TypeInv /\ LogInv /\ ConnInv /\ FounderInv /\ Founder \in Id
  BY Numbers DEF SafeInv, ConnInv
<1>2. PICK q : q = k.who
  OBVIOUS
<1>3. /\ clist' \in [Id -> SUBSET Continuation] /\ clist'[Founder] = clist[Founder] \ {k}
      /\ \A x \in Rest : clist'[x] = clist[x]
      /\ \A j \in clist'[Founder] : j \in clist[Founder] /\ j.who # q
      /\ q \in Rest /\ q \in Id
  BY <1>2, WelcomeIs
<1>4. \A w \in Rest : Gone(w) => Gone(w)'
  BY <1>3 DEF Gone, instances
<1>5. LogInv' /\ log' \in Seq(Entry) /\ \A i \in DOMAIN log : i \in DOMAIN log' /\ log'[i] = log[i]
  <2>1. lack'[Founder] = {} /\ done'[Founder] \subseteq DOMAIN log
    BY <1>1 DEF LogInv, instances
  <2>2. CASE log' = log
    BY <1>1, <1>4, <2>1, <2>2, LogStays DEF TypeInv
  <2>3. CASE proc[q] = "dead" /\ log' = Decreed(Part(q))
    <3>1. Gone(q)'
      BY <1>1, <1>2, <1>3, <2>3 DEF Gone, FounderInv, instances
    <3>2. \A i \in DOMAIN log : log[i].kind = "part" => log[i].who # q
      BY <1>1, <1>2 DEF LogInv, Gone
    <3> QED
      BY <1>1, <1>3, <1>4, <2>1, <2>3, <3>1, <3>2, PartAdds
  <2> QED
    BY <1>2, <2>2, <2>3
<1>6. TypeInv'
  BY <1>1, <1>3, <1>5 DEF TypeInv, instances
<1>7. FounderInv'
  BY <1>1, <1>3, <1>5 DEF FounderInv, instances
<1>8. OthersInv'
  BY <1>1, <1>3 DEF ConnInv, OthersInv, HellosInv, WaitsInv
<1>9. ASSUME NEW w \in Rest
      PROVE  HubInv(w)' /\ Kept(w)
  <2>1. HubInv(w) /\ HubKept(w) /\ ListKept(w) /\ closed'[<<w, Founder>>] = Side
    BY <1>1 DEF ConnInv, HubKept, ListKept, HubInv, instances
  <2> QED
    BY <2>1, HubStays, ViewStays DEF instances
<1> QED
  BY <1>5, <1>6, <1>7, <1>8, <1>9, SyncingKept DEF Safe, ConnInv, Rests, FounderKept, instances

(* It does, and the member is welcomed. *)
LEMMA WelcomeSafe ==
  ASSUME SafeInv, NEW k \in clist[Founder], clist' = [clist EXCEPT ![Founder] = @ \ {k}], NEW q, q = k.who,
         UNCHANGED <<proc, alist, adefer, instances>>, q \in alist[Founder], Running(q),
         ContinueWelcome(Founder, q), UNCHANGED syncing
  PROVE  q \in Rest /\ Safe /\ Welcomes(q)
<1> DEFINE msg == WelcomeMsg(alist[Founder], ibase[Founder], done[Founder])
<1>1. TypeInv /\ LogInv /\ ConnInv /\ FounderInv /\ Founder \in Id
  BY Numbers DEF SafeInv, ConnInv
<1>2. /\ clist' \in [Id -> SUBSET Continuation] /\ clist'[Founder] = clist[Founder] \ {k}
      /\ \A x \in Rest : clist'[x] = clist[x]
      /\ \A j \in clist'[Founder] : j \in clist[Founder] /\ j.who # q
      /\ q \in Rest /\ q \in Id /\ peer[Founder][q] = 0 /\ q < ihole[Founder]
  BY <1>1, WelcomeIs DEF FounderInv
<1>3. /\ closed' = [closed EXCEPT ![Hub(q)] = {}]
      /\ peer' = [peer EXCEPT ![Founder][q] = Founder]
      /\ live_count' = [live_count EXCEPT ![Founder] = @ + 1]
      /\ queue' = [queue EXCEPT ![Hub(q)][2] = Append(@, msg)]
      /\ UNCHANGED log
  BY DEF ContinueWelcome, Opened, Hub
<1>4. msg \in Message /\ msg.op = "welcome" /\ msg.ibase = ibase[Founder] /\ msg.done = done[Founder]
  <2>1. alist[Founder] \in SUBSET Id /\ ibase[Founder] \in Id /\ done[Founder] \in SUBSET Id
    BY <1>1 DEF TypeInv
  <2> QED
    BY <2>1, MessagesAre
<1> HIDE DEF msg
<1>5. HubInv(q) /\ closed[Hub(q)] = Side /\ queue[Hub(q)][1] = <<>> /\ queue[Hub(q)][2] = <<>> /\ proc[q] = "waiting"
  <2>1. HubInv(q)
    BY <1>1, <1>2 DEF ConnInv
  <2>2. closed[Hub(q)] = Side /\ proc[q] # "in"
    BY <1>2, <2>1, Numbers DEF HubInv
  <2>3. queue[Hub(q)][1] = <<>> /\ queue[Hub(q)][2] = <<>>
    BY <2>1, <2>2, Numbers DEF HubInv
  <2> QED
    BY <2>1, <2>2, <2>3 DEF Running
<1>6. Hub(q) \in Conn /\ <<q, Founder>> \in Conn /\ Hub(q)[1] = Founder /\ <<q, Founder>> # Hub(q)
  BY <1>2, Conns DEF Hub, Rest
<1>7. /\ queue' \in [Conn -> [Side -> Seq(Message)]] /\ queue'[Hub(q)][1] = <<>> /\ queue'[Hub(q)][2] = <<msg>>
      /\ \A c \in Conn : c # Hub(q) => queue'[c] = queue[c]
  <2>1. queue \in [Conn -> [Side -> Seq(Message)]] /\ queue[Hub(q)] \in [Side -> Seq(Message)]
    BY <1>1, <1>6 DEF TypeInv
  <2>2. Append(queue[Hub(q)][2], msg) = <<msg>> /\ <<msg>> \in Seq(Message)
    BY <1>4, <1>5
  <2>3. queue' = [queue EXCEPT ![Hub(q)] = [queue[Hub(q)] EXCEPT ![2] = Append(queue[Hub(q)][2], msg)]]
    BY <1>3
  <2>4. queue' = [queue EXCEPT ![Hub(q)] = [queue[Hub(q)] EXCEPT ![2] = <<msg>>]]
    BY <2>2, <2>3
  <2>5. [queue[Hub(q)] EXCEPT ![2] = <<msg>>] \in [Side -> Seq(Message)]
    BY <2>1, <2>2
  <2> QED
    BY <1>5, <1>6, <2>1, <2>4, <2>5, Numbers
<1>8. /\ closed' \in [Conn -> SUBSET Side] /\ closed'[Hub(q)] = {}
      /\ \A c \in Conn : c # Hub(q) => closed'[c] = closed[c]
  BY <1>1, <1>3, <1>6 DEF TypeInv
<1>9. /\ peer' \in [Id -> [Id -> 0 .. MaxInum]] /\ peer'[Founder][q] = Founder
      /\ \A w \in Id : w # q => peer'[Founder][w] = peer[Founder][w]
  <2>1. peer \in [Id -> [Id -> 0 .. MaxInum]] /\ Founder \in 0 .. MaxInum
    <3>1. Founder \in 0 .. MaxInum
      BY Numbers
    <3> QED
      BY <1>1, <3>1 DEF TypeInv
  <2> QED
    BY <1>1, <1>2, <1>3, <2>1
<1>10. live_count' \in [Id -> Int]
  BY <1>1, <1>3 DEF TypeInv
<1>11. TypeInv'
  BY <1>1, <1>2, <1>3, <1>7, <1>8, <1>9, <1>10 DEF TypeInv, instances
<1>12. LogInv'
  <2>1. \A w \in Rest : Gone(w) => Gone(w)'
    BY <1>2, <1>5, <1>9 DEF Gone, instances, Rest
  <2> QED
    BY <1>1, <1>3, <2>1, LogStays DEF LogInv, instances
<1>13. FounderInv'
  <2>1. Founder # q
    BY <1>2 DEF Rest
  <2>2. \A j \in clist'[Founder] : peer'[Founder][j.who] = 0
    BY <1>1, <1>2, <1>9 DEF FounderInv, Rest
  <2> QED
    BY <1>1, <1>2, <1>3, <1>9, <2>1, <2>2 DEF FounderInv, instances
<1>14. OthersInv'
  <2>1. HellosInv'
    <3>1. \A c \in Conn : c[1] # Founder => queue'[c] = queue[c]
      BY <1>6, <1>7
    <3> QED
      BY <1>1, <3>1 DEF ConnInv, OthersInv, HellosInv
  <2>2. WaitsInv'
    BY <1>1, <1>2 DEF ConnInv, OthersInv, WaitsInv
  <2> QED
    BY <2>1, <2>2 DEF OthersInv
<1>15. \A w \in Rest : closed'[<<w, Founder>>] = Side
  <2>1. ASSUME NEW w \in Rest
        PROVE  closed'[<<w, Founder>>] = Side
    <3>1. <<w, Founder>> \in Conn /\ <<w, Founder>> # Hub(q) /\ HubInv(w)
      BY <1>1, Conns DEF Hub, Rest, ConnInv
    <3> QED
      BY <1>8, <3>1 DEF HubInv
  <2> QED
    BY <2>1
<1>16. ASSUME NEW w \in Rest \ {q}
       PROVE  HubInv(w)' /\ Kept(w)
  <2>1. Hub(w) \in Conn /\ Hub(w) # Hub(q) /\ w \in Id
    BY Conns DEF Hub, Rest
  <2>2. HubInv(w) /\ HubKept(w) /\ ListKept(w)
    BY <1>1, <1>7, <1>8, <1>9, <2>1 DEF ConnInv, HubKept, ListKept, instances
  <2> QED
    BY <1>15, <2>2, HubStays, ViewStays DEF instances
<1>17. Up(q)' = <<>> /\ Down(q)' = <<msg>>
  BY <1>7 DEF Up, Down
<1>18. HubInv(q)'
  <2>1. /\ \A n \in DOMAIN Up(q)' : Up(q)'[n].op = "last"
        /\ \A n \in DOMAIN Down(q)' : n = 1 /\ Down(q)'[n].op = "welcome"
        /\ Down(q)' # <<>> /\ Down(q)'[1].op = "welcome"
    BY <1>4, <1>17
  <2>2. proc'[q] = "waiting" /\ closed'[Hub(q)] = {} /\ peer'[Founder][q] = Founder /\ q \in alist'[Founder]
        /\ q < ihole'[Founder] /\ Founder # 0 /\ closed'[<<q, Founder>>] = Side
    BY <1>2, <1>5, <1>8, <1>9, <1>15, Numbers DEF instances
  <2> QED
    BY <1>17, <2>1, <2>2 DEF HubInv
<1>19. Base(q)' = ibase[Founder] /\ Held(q)' = done[Founder] /\ Top(q)' = FirstHole(ibase[Founder], done[Founder])
  <2>1. ~In(q)'
    BY <1>5 DEF In
  <2>2. Down(q)'[1].ibase = ibase[Founder] /\ Down(q)'[1].done = done[Founder]
    BY <1>4, <1>17
  <2> QED
    BY <2>1, <2>2 DEF Base, Held, Top
<1>20. ~Reached(q)
  BY <1>2, Numbers DEF Reached
<1>21. ConnInv'
  BY <1>13, <1>14, <1>16, <1>18 DEF ConnInv
<1>22. FounderKept
  BY DEF FounderKept, instances
<1> QED
  BY <1>2, <1>5, <1>11, <1>12, <1>16, <1>17, <1>19, <1>20, <1>21, <1>22, SyncingKept DEF Safe, Welcomes, KeptBut, msg, Up

LEMMA FounderConnects ==
  ASSUME SafeInv, Continue(Founder), UNCHANGED syncing
  PROVE  Safe /\ (Rests \/ \E q \in Rest : Welcomes(q))
<1>1. PICK k \in clist[Founder] :
        /\ clist' = [clist EXCEPT ![Founder] = @ \ {k}]
        /\ CASE k.who \notin alist[Founder] -> UNCHANGED <<log, peer, live_count, queue, closed>>
             [] k.who \in alist[Founder] /\ k.op = "welcome" -> ContinueWelcome(Founder, k.who)
             [] k.who \in alist[Founder] /\ k.op = "ack_welcome" -> ContinueAckWelcome(Founder, k.who)
  BY DEF Continue
<1>2. UNCHANGED <<proc, alist, adefer, instances>>
  BY DEF Continue
<1>3. k.op = "welcome" /\ k.who \in Rest /\ k.who \in Id /\ TypeInv /\ LogInv /\ FounderInv
  BY <1>1, WelcomeIs DEF SafeInv, ConnInv
<1>4. CASE k.who \notin alist[Founder]
  <2>1. UNCHANGED <<log, peer, live_count, queue, closed>>
    BY <1>1, <1>3, <1>4
  <2>2. UNCHANGED <<proc, alist, adefer, instances, peer, live_count, queue, closed>>
    BY <1>2, <2>1
  <2>3. Safe /\ Rests
    BY <1>1, <2>1, <2>2, NoWelcomeSafe
  <2> QED
    BY <2>3
<1>5. CASE k.who \in alist[Founder]
  <2>1. ContinueWelcome(Founder, k.who)
    BY <1>1, <1>3, <1>5
  <2>2. CASE Running(k.who)
    BY <1>1, <1>2, <1>5, <2>1, <2>2, WelcomeSafe
  <2>3. CASE ~Running(k.who)
    <3>1. proc[k.who] = "dead"
      BY <1>1, <1>3, <2>3 DEF Running, FounderInv, LogInv, TypeInv
    <3>2. log' = Decreed(Part(k.who)) /\ UNCHANGED <<closed, peer, live_count, queue>>
      BY <2>1, <2>3 DEF ContinueWelcome
    <3>3. UNCHANGED <<proc, alist, adefer, instances, peer, live_count, queue, closed>>
      BY <1>2, <3>2
    <3>4. Safe /\ Rests
      BY <1>1, <3>1, <3>2, <3>3, NoWelcomeSafe
    <3> QED
      BY <3>4
  <2> QED
    BY <2>2, <2>3
<1> QED
  BY <1>4, <1>5

-----------------------------------------------------------------------------
(* A member dies. *)

LEMMA Ranges == 0 \in 0 .. MaxInum /\ 1 \in Id /\ 1 \in 1 .. MaxInum + 1 /\ \A i \in Id : i \in 0 .. MaxInum
BY Numbers

LEMMA CrashSafe ==
  ASSUME SafeInv, NEW m \in Rest, Crash(m), UNCHANGED syncing
  PROVE  Safe /\ Loses(m)
<1>1. TypeInv /\ LogInv /\ ConnInv /\ ViewInv /\ m \in Id /\ m # Founder /\ Side = {1, 2}
  BY SafeView, Numbers DEF Rest
<1>2. /\ Running(m) /\ Changes < MaxChange /\ proc' = [proc EXCEPT ![m] = "dead"]
      /\ closed' = [c \in Conn |-> closed[c] \cup {s \in Side : c[s] = m}]
      /\ queue' = [c \in Conn |-> [s \in Side |-> IF c[s] = m THEN <<>> ELSE queue[c][s]]]
      /\ UNCHANGED log
  BY DEF Crash
<1>3. alist' = [alist EXCEPT ![m] = {}] /\ adefer' = [adefer EXCEPT ![m] = {}]
  BY DEF Crash
<1>4. peer' = [peer EXCEPT ![m] = [q \in Id |-> 0]] /\ live_count' = [live_count EXCEPT ![m] = 0]
  BY DEF Crash
<1>5. ibase' = [ibase EXCEPT ![m] = 1] /\ ihole' = [ihole EXCEPT ![m] = 1]
  BY DEF Crash
<1>6. done' = [done EXCEPT ![m] = {}] /\ lack' = [lack EXCEPT ![m] = {}] /\ sought' = [sought EXCEPT ![m] = {}]
  BY DEF Crash
<1>7. clist' = [clist EXCEPT ![m] = {}]
  BY DEF Crash
<1>8. proc' \in [Id -> {"none", "waiting", "in", "dead"}] /\ proc'[m] = "dead" /\ \A q \in Id : q # m => proc'[q] = proc[q]
  BY <1>1, <1>2 DEF TypeInv
<1>9. alist' \in [Id -> SUBSET Id] /\ adefer' \in [Id -> SUBSET Id] /\ \A q \in Id : q # m => alist'[q] = alist[q] /\ adefer'[q] = adefer[q]
  <2>1. alist \in [Id -> SUBSET Id] /\ adefer \in [Id -> SUBSET Id] /\ {} \in SUBSET Id
    BY <1>1 DEF TypeInv
  <2> QED
    BY <1>1, <1>3, <2>1
<1>10. peer' \in [Id -> [Id -> 0 .. MaxInum]] /\ \A q \in Id : q # m => peer'[q] = peer[q]
  <2>1. peer \in [Id -> [Id -> 0 .. MaxInum]] /\ [q \in Id |-> 0] \in [Id -> 0 .. MaxInum]
    BY <1>1, Ranges DEF TypeInv
  <2> QED
    BY <1>1, <1>4, <2>1
<1>11. live_count' \in [Id -> Int]
  <2>1. live_count \in [Id -> Int]
    BY <1>1 DEF TypeInv
  <2> QED
    BY <1>1, <1>4, <2>1
<1>12. ibase' \in [Id -> Id] /\ ihole' \in [Id -> 1 .. MaxInum + 1] /\ \A q \in Id : q # m => ibase'[q] = ibase[q] /\ ihole'[q] = ihole[q]
  <2>1. ibase \in [Id -> Id] /\ ihole \in [Id -> 1 .. MaxInum + 1] /\ 1 \in Id /\ 1 \in 1 .. MaxInum + 1
    BY <1>1, Ranges DEF TypeInv
  <2> QED
    BY <1>1, <1>5, <2>1
<1>13. /\ done' \in [Id -> SUBSET Id] /\ lack' \in [Id -> SUBSET Id] /\ sought' \in [Id -> SUBSET Id]
       /\ \A q \in Id : q # m => done'[q] = done[q] /\ lack'[q] = lack[q]
  <2>1. done \in [Id -> SUBSET Id] /\ lack \in [Id -> SUBSET Id] /\ sought \in [Id -> SUBSET Id] /\ {} \in SUBSET Id
    BY <1>1 DEF TypeInv
  <2> QED
    BY <1>1, <1>6, <2>1
<1>14. clist' \in [Id -> SUBSET Continuation] /\ clist'[m] = {} /\ \A q \in Id : q # m => clist'[q] = clist[q]
  <2>1. clist \in [Id -> SUBSET Continuation] /\ {} \in SUBSET Continuation
    BY <1>1 DEF TypeInv
  <2> QED
    BY <1>1, <1>7, <2>1
<1>15. /\ queue' \in [Conn -> [Side -> Seq(Message)]] /\ closed' \in [Conn -> SUBSET Side]
       /\ \A c \in Conn, s \in Side : queue'[c][s] = IF c[s] = m THEN <<>> ELSE queue[c][s]
       /\ \A c \in Conn : c[1] # m /\ c[2] # m => queue'[c] = queue[c] /\ closed'[c] = closed[c]
  <2>1. queue \in [Conn -> [Side -> Seq(Message)]] /\ closed \in [Conn -> SUBSET Side] /\ <<>> \in Seq(Message)
    BY <1>1 DEF TypeInv
  <2>2. queue' \in [Conn -> [Side -> Seq(Message)]]
    BY <1>2, <2>1
  <2>3. closed' \in [Conn -> SUBSET Side]
    <3>1. \A c \in Conn : closed[c] \cup {s \in Side : c[s] = m} \in SUBSET Side
      BY <2>1
    <3> QED
      BY <1>2, <3>1
  <2>4. \A c \in Conn, s \in Side : queue'[c][s] = IF c[s] = m THEN <<>> ELSE queue[c][s]
    BY <1>2
  <2>5. ASSUME NEW c \in Conn, c[1] # m, c[2] # m
        PROVE  queue'[c] = queue[c] /\ closed'[c] = closed[c]
    <3>1. \A s \in Side : c[s] # m
      BY <1>1, <2>5
    <3>2. closed'[c] = closed[c] \cup {s \in Side : c[s] = m}
      BY <1>2
    <3>3. closed'[c] = closed[c]
      BY <3>1, <3>2
    <3>4. queue'[c] \in [Side -> Seq(Message)] /\ queue[c] \in [Side -> Seq(Message)] /\ \A s \in Side : queue'[c][s] = queue[c][s]
      BY <2>1, <2>2, <2>4, <3>1
    <3>5. queue'[c] = queue[c]
      BY <3>4
    <3> QED
      BY <3>3, <3>5
  <2> QED
    BY <2>2, <2>3, <2>4, <2>5
<1>16. TypeInv'
  BY <1>1, <1>2, <1>8, <1>9, <1>10, <1>11, <1>12, <1>13, <1>14, <1>15 DEF TypeInv
<1>17. FounderKept /\ peer'[Founder] = peer[Founder] /\ alist'[Founder] = alist[Founder] /\ adefer'[Founder] = adefer[Founder]
       /\ clist'[Founder] = clist[Founder] /\ proc'[Founder] = proc[Founder] /\ lack'[Founder] = lack[Founder]
  BY <1>1, <1>8, <1>9, <1>10, <1>12, <1>13, <1>14, Numbers DEF FounderKept
<1>18. LogInv'
  <2>1. m \notin Dead /\ Dead' = Dead \cup {m}
    BY <1>1, <1>2, <1>8 DEF Dead, Running
  <2>2. Changes' <= MaxChange
    <3>1. Changes = Cardinality(Asks) + Cardinality(Dead) /\ IsFiniteSet(Dead) /\ Cardinality(Asks) \in Nat /\ Cardinality(Dead) \in Nat
      BY <1>1, Room
    <3>2. Cardinality(Dead \cup {m}) = Cardinality(Dead) + 1
      BY <2>1, <3>1, FS_AddElement
    <3>3. Changes' = Cardinality(Asks) + Cardinality(Dead')
      BY <1>2 DEF Changes, Asks, Dead
    <3> QED
      BY <1>2, <2>1, <3>1, <3>2, <3>3, Numbers
  <2>3. ASSUME NEW w \in Rest, Gone(w)
        PROVE  Gone(w)'
    <3>1. w # m /\ w \in Id
      BY <1>2, <2>3 DEF Gone, Running, Rest
    <3> QED
      BY <1>8, <1>17, <2>3, <3>1 DEF Gone, FounderKept
  <2>4. \A q \in Id : proc'[q] # "none" <=> q \in DOMAIN log /\ log[q].kind = "join"
    BY <1>1, <1>2, <1>8 DEF LogInv, Running
  <2>5. \A i \in DOMAIN log : log[i].kind = "part" => \A w \in {log[i].who} : Gone(w)'
    BY <1>1, <2>3 DEF LogInv, Gone
  <2> QED
    BY <1>1, <1>2, <1>17, <2>2, <2>4, <2>5 DEF LogInv, Gone, FounderKept
<1>19. FounderInv'
  BY <1>1, <1>2, <1>17 DEF ConnInv, FounderInv, FounderKept
<1>20. OthersInv'
  <2>1. HellosInv'
    <3>1. ASSUME NEW c \in Conn, c[1] # Founder
          PROVE  queue'[c][1] = <<>> /\ \A n \in DOMAIN queue'[c][2] : queue'[c][2][n] = Hello
      <4>1. queue[c][1] = <<>> /\ \A n \in DOMAIN queue[c][2] : queue[c][2][n] = Hello
        BY <1>1, <3>1 DEF ConnInv, OthersInv, HellosInv
      <4>2. \A s \in {1, 2} : queue'[c][s] = queue[c][s] \/ queue'[c][s] = <<>>
        BY <1>1, <1>15
      <4> QED
        BY <4>1, <4>2
    <3> QED
      BY <3>1 DEF HellosInv
  <2>2. WaitsInv'
    BY <1>1, <1>8, <1>14 DEF ConnInv, OthersInv, WaitsInv, Rest
  <2> QED
    BY <2>1, <2>2 DEF OthersInv
<1>21. \A w \in Rest : closed'[<<w, Founder>>] = Side
  <2>1. ASSUME NEW w \in Rest
        PROVE  closed'[<<w, Founder>>] = Side
    <3>1. <<w, Founder>> \in Conn /\ closed[<<w, Founder>>] = Side
      BY <1>1, Conns DEF ConnInv, HubInv
    <3>2. closed'[<<w, Founder>>] = closed[<<w, Founder>>] \cup {s \in Side : <<w, Founder>>[s] = m}
      BY <1>2, <3>1
    <3> QED
      BY <3>1, <3>2
  <2> QED
    BY <2>1
<1>22. ASSUME NEW w \in Rest \ {m}
       PROVE  HubInv(w)' /\ Kept(w)
  <2>1. Hub(w) \in Conn /\ Hub(w)[1] # m /\ Hub(w)[2] # m /\ w \in Id /\ w # m
    BY <1>1, Conns DEF Hub, Rest
  <2>2. HubInv(w) /\ HubKept(w)
    BY <1>1, <1>8, <1>15, <1>17, <2>1 DEF ConnInv, HubKept
  <2>3. ListKept(w)
    BY <1>12, <1>13, <2>1 DEF ListKept
  <2> QED
    BY <1>17, <1>21, <2>2, <2>3, HubStays, ViewStays DEF FounderKept
<1>23. /\ Up(m)' = Up(m) /\ Down(m)' = <<>> /\ closed'[Hub(m)] = closed[Hub(m)] \cup {2}
       /\ queue'[Hub(m)][1] = queue[Hub(m)][1] /\ queue'[Hub(m)][2] = <<>>
  <2>1. Hub(m) \in Conn /\ Hub(m)[1] = Founder /\ Hub(m)[2] = m
    BY <1>1, Conns DEF Hub
  <2>2. queue'[Hub(m)][1] = queue[Hub(m)][1] /\ queue'[Hub(m)][2] = <<>>
    BY <1>1, <1>15, <2>1
  <2>3. closed'[Hub(m)] = closed[Hub(m)] \cup {s \in Side : Hub(m)[s] = m}
    BY <1>2, <2>1
  <2>4. {s \in Side : Hub(m)[s] = m} = {2}
    BY <1>1, <2>1
  <2> QED
    BY <2>2, <2>3, <2>4 DEF Up, Down
<1>24. HubInv(m)'
  <2>1. HubInv(m) /\ 1 # 2
    BY <1>1 DEF ConnInv
  <2>2. \A s \in Side : s \in closed'[Hub(m)] => queue'[Hub(m)][s] = <<>>
    BY <1>1, <1>23, <2>1 DEF HubInv
  <2>3. /\ \A n \in DOMAIN Up(m)' : Up(m)'[n].op = "last"
        /\ \A n \in DOMAIN Down(m)' :
             \/ Down(m)'[n].op \in {"commit", "sync", "truncate"}
             \/ n = 1 /\ proc'[m] = "waiting" /\ Down(m)'[n].op = "welcome"
    BY <1>23, <2>1 DEF HubInv
  <2>4. /\ closed'[<<m, Founder>>] = Side
        /\ peer'[Founder][m] \in {0, Founder}
        /\ peer'[Founder][m] = 0 => closed'[Hub(m)] = Side
        /\ peer'[Founder][m] = Founder => m \in alist'[Founder] /\ 1 \notin closed'[Hub(m)] /\ m < ihole'[Founder]
        /\ proc'[m] = "dead" /\ 2 \in closed'[Hub(m)]
    BY <1>1, <1>8, <1>17, <1>21, <1>23, <2>1 DEF HubInv, FounderKept
  <2> QED
    BY <2>2, <2>3, <2>4 DEF HubInv
<1>25. ~Reached(m)'
  BY <1>23 DEF Reached
<1>26. ConnInv'
  BY <1>19, <1>20, <1>22, <1>24 DEF ConnInv
<1> QED
  BY <1>16, <1>17, <1>18, <1>22, <1>23, <1>25, <1>26, SyncingKept DEF Safe, Loses, KeptBut

-----------------------------------------------------------------------------
(* A member reads what the founder has written. *)

LEMMA HubReadSafe ==
  ASSUME SafeInv, NEW m \in Rest, 2 \notin closed[Hub(m)], Running(m), Down(m) # <<>>,
         Down(m)' = Tail(Down(m)), \A n \in DOMAIN Up(m)' : Up(m)'[n].op = "last",
         \A c \in Conn : c # Hub(m) => queue'[c] = queue[c],
         UNCHANGED <<log, closed>>, proc'[m] = "in", \A q \in Id : q # m => proc'[q] = proc[q],
         peer'[Founder] = peer[Founder], alist'[Founder] = alist[Founder], adefer'[Founder] = adefer[Founder],
         clist'[Founder] = clist[Founder], lack'[Founder] = lack[Founder], FounderKept,
         \A q \in Rest : q # m => ListKept(q) /\ clist'[q] = clist[q],
         \A k \in clist'[m] : k.op = "ack_welcome" /\ k.who \notin {Founder, m}
  PROVE  LogInv' /\ ConnInv' /\ KeptBut(m) /\ Reads(m) /\ Reached(m)'
<1>1. TypeInv /\ LogInv /\ ConnInv /\ ViewInv /\ m \in Id /\ m # Founder /\ Side = {1, 2} /\ Founder \in Id
  BY SafeView, Numbers DEF Rest
<1>2. HubInv(m) /\ peer[Founder][m] = Founder /\ closed[Hub(m)] = {} /\ m \in alist[Founder] /\ m < ihole[Founder]
  <2>1. HubInv(m)
    BY <1>1 DEF ConnInv
  <2>2. peer[Founder][m] = Founder
    BY <1>1, <2>1 DEF HubInv
  <2> QED
    BY <2>1, <2>2, Numbers DEF HubInv, Running
<1>3. Reached(m) /\ Reached(m)'
  BY <1>2 DEF Reached
<1>4. LogInv'
  <2>1. ASSUME NEW w \in Rest, Gone(w)
        PROVE  Gone(w)'
    <3>1. w # m /\ w \in Id
      BY <2>1 DEF Gone, Running, Rest
    <3> QED
      BY <2>1, <3>1 DEF Gone, FounderKept
  <2>2. Dead' = Dead
    BY <1>1 DEF Dead, Running
  <2>3. Changes' = Changes
    BY <2>2 DEF Changes, Dead
  <2>4. \A q \in Id : proc'[q] # "none" <=> q \in DOMAIN log /\ log[q].kind = "join"
    BY <1>1 DEF LogInv, Running
  <2>5. \A i \in DOMAIN log : log[i].kind = "part" => \A w \in {log[i].who} : Gone(w)'
    BY <1>1, <2>1 DEF LogInv, Gone
  <2> QED
    BY <1>1, <2>3, <2>4, <2>5 DEF LogInv, Gone, FounderKept
<1>5. FounderInv'
  BY <1>1 DEF ConnInv, FounderInv, FounderKept
<1>6. OthersInv'
  <2>1. HellosInv'
    <3>1. \A c \in Conn : c[1] # Founder => queue'[c] = queue[c]
      BY DEF Hub
    <3> QED
      BY <1>1, <3>1 DEF ConnInv, OthersInv, HellosInv
  <2>2. WaitsInv'
    BY <1>1 DEF ConnInv, OthersInv, WaitsInv, Rest
  <2> QED
    BY <2>1, <2>2 DEF OthersInv
<1>7. ASSUME NEW w \in Rest, w # m
      PROVE  HubInv(w)' /\ Kept(w)
  <2>1. Hub(w) \in Conn /\ Hub(w) # Hub(m) /\ w \in Id
    BY <1>7, Conns DEF Hub, Rest
  <2>2. HubInv(w) /\ HubKept(w) /\ closed'[<<w, Founder>>] = Side
    BY <1>1, <1>7, <2>1 DEF ConnInv, HubKept, HubInv
  <2> QED
    BY <1>7, <2>2, HubStays, ViewStays DEF FounderKept
<1>8. HubInv(m)'
  <2>1. closed'[Hub(m)] = {} /\ closed'[<<m, Founder>>] = Side /\ peer'[Founder][m] = Founder /\ m \in alist'[Founder]
        /\ m < ihole'[Founder] /\ Founder # 0
    BY <1>2, Numbers DEF HubInv, FounderKept
  <2>2. \A n \in DOMAIN Down(m)' : Down(m)'[n].op \in {"commit", "sync", "truncate"}
    <3>1. Down(m) \in Seq(Message)
      BY <1>1 DEF ViewInv
    <3>2. \A n \in DOMAIN Tail(Down(m)) : n + 1 # 1 /\ n + 1 \in DOMAIN Down(m) /\ Tail(Down(m))[n] = Down(m)[n + 1]
      BY <3>1, TailIs
    <3>3. \A n \in DOMAIN Down(m) : n # 1 => Down(m)[n].op \in {"commit", "sync", "truncate"}
      BY <1>2 DEF HubInv
    <3> QED
      BY <3>2, <3>3
  <2> QED
    BY <2>1, <2>2 DEF HubInv
<1>9. KeptBut(m)
  BY <1>7 DEF KeptBut
<1>10. ConnInv'
  BY <1>5, <1>6, <1>7, <1>8 DEF ConnInv
<1> QED
  BY <1>3, <1>4, <1>9, <1>10 DEF Reads

(* The queues once the member has read the first message of its hub. *)
LEMMA HubTook ==
  ASSUME SafeInv, NEW m \in Rest, Down(m) # <<>>
  PROVE  /\ Took(Hub(m), 2) \in [Conn -> [Side -> Seq(Message)]] /\ Hub(m) \in Conn
         /\ \A c \in Conn : c # Hub(m) => Took(Hub(m), 2)[c] = queue[c]
         /\ Took(Hub(m), 2)[Hub(m)][1] = Up(m) /\ Took(Hub(m), 2)[Hub(m)][2] = Tail(Down(m))
         /\ Head(Down(m)) = Down(m)[1] /\ Down(m)[1] \in Message
         /\ \A n \in DOMAIN Up(m) : Up(m)[n].op = "last"
<1>1. TypeInv /\ ViewInv /\ Hub(m) \in Conn /\ 1 \in Side /\ 2 \in Side /\ 1 # 2 /\ queue[Hub(m)][2] # <<>>
  BY SafeView, Conns, Numbers DEF Down
<1>2. /\ Took(Hub(m), 2) \in [Conn -> [Side -> Seq(Message)]] /\ Took(Hub(m), 2)[Hub(m)][2] = Tail(queue[Hub(m)][2])
      /\ Head(queue[Hub(m)][2]) = queue[Hub(m)][2][1] /\ queue[Hub(m)][2][1] \in Message
      /\ \A x \in Conn : x # Hub(m) => Took(Hub(m), 2)[x] = queue[x]
      /\ Took(Hub(m), 2)[Hub(m)][1] = queue[Hub(m)][1]
  BY <1>1, TookIs
<1> QED
  BY <1>1, <1>2 DEF Down, Up, ViewInv

LEMMA ReadWelcomeSafe ==
  ASSUME SafeInv, NEW m \in Rest, 2 \notin closed[Hub(m)], proc[m] = "waiting", Down(m) # <<>>,
         Down(m)[1].op = "welcome", AckWelcome(m, Down(m)[1]), queue' = Took(Hub(m), 2), UNCHANGED closed, UNCHANGED syncing
  PROVE  Safe /\ ReadsWelcome(m)
<1>1. TypeInv /\ LogInv /\ ConnInv /\ m \in Id /\ m # Founder /\ Founder \in Id
  BY Numbers DEF SafeInv, Rest
<1>2. /\ Took(Hub(m), 2) \in [Conn -> [Side -> Seq(Message)]] /\ Hub(m) \in Conn
      /\ \A c \in Conn : c # Hub(m) => Took(Hub(m), 2)[c] = queue[c]
      /\ Took(Hub(m), 2)[Hub(m)][1] = Up(m) /\ Took(Hub(m), 2)[Hub(m)][2] = Tail(Down(m))
      /\ Head(Down(m)) = Down(m)[1] /\ Down(m)[1] \in Message
      /\ \A n \in DOMAIN Up(m) : Up(m)[n].op = "last"
  BY HubTook
<1>3. Up(m)' = Up(m) /\ Down(m)' = Tail(Down(m)) /\ \A c \in Conn : c # Hub(m) => queue'[c] = queue[c]
  BY <1>2 DEF Up, Down
<1>4. PICK msg : msg = Down(m)[1]
  OBVIOUS
<1>5. msg.alist \in SUBSET Id /\ msg.ibase \in Id /\ msg.done \in SUBSET Id
  BY <1>2, <1>4, MessageIs
<1>6. AckWelcome(m, msg)
  BY <1>4
<1>7. PICK h : h = FirstHole(msg.ibase, msg.done)
  OBVIOUS
<1>8. h \in 1 .. MaxInum + 1
  BY <1>5, <1>7, FirstHoleIs
<1>9. UNCHANGED <<log, adefer, sought>>
  BY <1>6 DEF AckWelcome
<1>10. proc' \in [Id -> {"none", "waiting", "in", "dead"}] /\ proc'[m] = "in" /\ \A q \in Id : q # m => proc'[q] = proc[q]
  <2>1. proc' = [proc EXCEPT ![m] = "in"]
    BY <1>6 DEF AckWelcome
  <2> QED
    BY <1>1, <2>1 DEF TypeInv
<1>11. alist' \in [Id -> SUBSET Id] /\ \A q \in Id : q # m => alist'[q] = alist[q]
  <2>1. alist' = [alist EXCEPT ![m] = msg.alist]
    BY <1>6 DEF AckWelcome
  <2> QED
    BY <1>1, <1>5, <2>1 DEF TypeInv
<1>12. peer' \in [Id -> [Id -> 0 .. MaxInum]] /\ \A q \in Id : q # m => peer'[q] = peer[q]
  <2>1. peer' = [peer EXCEPT ![m][Founder] = Founder] /\ Founder \in 0 .. MaxInum
    BY <1>1, <1>6, Ranges DEF AckWelcome
  <2> QED
    BY <1>1, <2>1 DEF TypeInv
<1>13. live_count' \in [Id -> Int]
  <2>1. live_count' = [live_count EXCEPT ![m] = 2]
    BY <1>6 DEF AckWelcome
  <2> QED
    BY <1>1, <2>1 DEF TypeInv
<1>14. ibase' \in [Id -> Id] /\ ibase'[m] = msg.ibase /\ \A q \in Id : q # m => ibase'[q] = ibase[q]
  <2>1. ibase' = [ibase EXCEPT ![m] = msg.ibase]
    BY <1>6 DEF AckWelcome
  <2> QED
    BY <1>1, <1>5, <2>1 DEF TypeInv
<1>15. done' \in [Id -> SUBSET Id] /\ done'[m] = msg.done /\ \A q \in Id : q # m => done'[q] = done[q]
  <2>1. done' = [done EXCEPT ![m] = msg.done]
    BY <1>6 DEF AckWelcome
  <2> QED
    BY <1>1, <1>5, <2>1 DEF TypeInv
<1>16. ihole' \in [Id -> 1 .. MaxInum + 1] /\ ihole'[m] = h /\ \A q \in Id : q # m => ihole'[q] = ihole[q]
  <2>1. ihole' = [ihole EXCEPT ![m] = h]
    BY <1>6, <1>7 DEF AckWelcome
  <2> QED
    BY <1>1, <1>8, <2>1 DEF TypeInv
<1>17. lack' \in [Id -> SUBSET Id] /\ \A q \in Id : q # m => lack'[q] = lack[q]
  <2>1. lack' = [lack EXCEPT ![m] = {i \in msg.done : i > h}]
    BY <1>6, <1>7 DEF AckWelcome
  <2>2. {i \in msg.done : i > h} \in SUBSET Id
    BY <1>5
  <2> QED
    BY <1>1, <2>1, <2>2 DEF TypeInv
<1>18. /\ clist' \in [Id -> SUBSET Continuation] /\ \A q \in Id : q # m => clist'[q] = clist[q]
       /\ \A k \in clist'[m] : k.op = "ack_welcome" /\ k.who \notin {Founder, m}
  <2>1. PICK S : S = {[op |-> "ack_welcome", who |-> q] : q \in msg.alist \ {Founder, m}}
    OBVIOUS
  <2>2. clist' = [clist EXCEPT ![m] = S]
    BY <1>6, <2>1 DEF AckWelcome
  <2>3. S \in SUBSET Continuation /\ \A k \in S : k.op = "ack_welcome" /\ k.who \notin {Founder, m}
    BY <1>5, <2>1 DEF Continuation
  <2> QED
    BY <1>1, <2>2, <2>3 DEF TypeInv
<1>19. TypeInv'
  BY <1>1, <1>2, <1>9, <1>10, <1>11, <1>12, <1>13, <1>14, <1>15, <1>16, <1>17, <1>18 DEF TypeInv
<1>20. FounderKept /\ \A q \in Rest : q # m => ListKept(q) /\ clist'[q] = clist[q]
  BY <1>1, <1>14, <1>15, <1>16, <1>18 DEF FounderKept, ListKept, Rest
<1>21. /\ peer'[Founder] = peer[Founder] /\ alist'[Founder] = alist[Founder] /\ adefer'[Founder] = adefer[Founder]
       /\ clist'[Founder] = clist[Founder] /\ lack'[Founder] = lack[Founder]
  BY <1>1, <1>9, <1>11, <1>12, <1>17, <1>18
<1>22. Running(m) /\ UNCHANGED <<log, closed>> /\ \A n \in DOMAIN Up(m)' : Up(m)'[n].op = "last"
  BY <1>2, <1>3, <1>9 DEF Running
<1>23. LogInv' /\ ConnInv' /\ KeptBut(m) /\ Reads(m) /\ Reached(m)'
  BY <1>3, <1>10, <1>18, <1>20, <1>21, <1>22, HubReadSafe
<1>24. Keeps(m)
  <2>1. Base(m) = msg.ibase /\ Held(m) = msg.done /\ Top(m) = h
    BY <1>4, <1>7 DEF Base, Held, Top, In
  <2>2. Base(m)' = msg.ibase /\ Held(m)' = msg.done /\ Top(m)' = h
    BY <1>10, <1>14, <1>15, <1>16 DEF Base, Held, Top, In
  <2> QED
    BY <1>23, <2>1, <2>2 DEF Keeps, Reads
<1> QED
  BY <1>3, <1>19, <1>20, <1>23, <1>24, SyncingKept DEF Safe, ReadsWelcome

LEMMA ReadCommitSafe ==
  ASSUME SafeInv, NEW m \in Rest, 2 \notin closed[Hub(m)], In(m), Down(m) # <<>>,
         Down(m)[1].op = "commit", AckCommit(m, Down(m)[1].inum), queue' = Took(Hub(m), 2), UNCHANGED closed, UNCHANGED syncing
  PROVE  Down(m)[1].inum \in Id /\ Safe /\ ReadsCommit(m, Down(m)[1].inum)
<1>1. TypeInv /\ LogInv /\ ConnInv /\ m \in Id /\ m # Founder /\ Founder \in Id
  BY Numbers DEF SafeInv, Rest
<1>2. /\ Took(Hub(m), 2) \in [Conn -> [Side -> Seq(Message)]] /\ Hub(m) \in Conn
      /\ \A c \in Conn : c # Hub(m) => Took(Hub(m), 2)[c] = queue[c]
      /\ Took(Hub(m), 2)[Hub(m)][1] = Up(m) /\ Took(Hub(m), 2)[Hub(m)][2] = Tail(Down(m))
      /\ Head(Down(m)) = Down(m)[1] /\ Down(m)[1] \in Message
      /\ \A n \in DOMAIN Up(m) : Up(m)[n].op = "last"
  BY HubTook
<1>3. Up(m)' = Up(m) /\ Down(m)' = Tail(Down(m)) /\ \A c \in Conn : c # Hub(m) => queue'[c] = queue[c]
  BY <1>2 DEF Up, Down
<1>4. PICK i : i = Down(m)[1].inum
  OBVIOUS
<1>5. i \in Id
  BY <1>2, <1>4, MessageIs
<1>6. AckCommit(m, i)
  BY <1>4
<1>7. UNCHANGED <<log, proc, acceptors, ibase, ihole, clist>>
  BY <1>6 DEF AckCommit
<1>8. done' \in [Id -> SUBSET Id] /\ done'[m] = done[m] \cup {i} /\ \A q \in Id : q # m => done'[q] = done[q]
  <2>1. done' = [done EXCEPT ![m] = @ \cup {i}]
    BY <1>6 DEF AckCommit
  <2>2. done \in [Id -> SUBSET Id] /\ done[m] \cup {i} \in SUBSET Id
    BY <1>1, <1>5 DEF TypeInv
  <2> QED
    BY <1>1, <2>1, <2>2
<1>9. lack' \in [Id -> SUBSET Id] /\ sought' \in [Id -> SUBSET Id] /\ \A q \in Id : q # m => lack'[q] = lack[q]
  <2>1. UNCHANGED <<lack, sought>> \/ (lack' = [lack EXCEPT ![m] = @ \cup {i}] /\ sought' = [sought EXCEPT ![m] = @ \cup {i}])
    BY <1>6 DEF AckCommit
  <2>2. /\ lack \in [Id -> SUBSET Id] /\ sought \in [Id -> SUBSET Id]
        /\ lack[m] \cup {i} \in SUBSET Id /\ sought[m] \cup {i} \in SUBSET Id
    BY <1>1, <1>5 DEF TypeInv
  <2> QED
    BY <1>1, <2>1, <2>2
<1>10. TypeInv'
  BY <1>1, <1>2, <1>7, <1>8, <1>9 DEF TypeInv, acceptors
<1>11. FounderKept /\ \A q \in Rest : q # m => ListKept(q) /\ clist'[q] = clist[q]
  BY <1>1, <1>7, <1>8 DEF FounderKept, ListKept, Rest
<1>12. /\ peer'[Founder] = peer[Founder] /\ alist'[Founder] = alist[Founder] /\ adefer'[Founder] = adefer[Founder]
       /\ clist'[Founder] = clist[Founder] /\ lack'[Founder] = lack[Founder]
  BY <1>1, <1>7, <1>9 DEF acceptors
<1>13. /\ Running(m) /\ UNCHANGED <<log, closed>> /\ \A n \in DOMAIN Up(m)' : Up(m)'[n].op = "last"
       /\ proc'[m] = "in" /\ \A q \in Id : q # m => proc'[q] = proc[q]
  BY <1>2, <1>3, <1>7 DEF Running, In
<1>14. \A k \in clist'[m] : k.op = "ack_welcome" /\ k.who \notin {Founder, m}
  BY <1>1, <1>7 DEF ConnInv, OthersInv, WaitsInv
<1>15. LogInv' /\ ConnInv' /\ KeptBut(m) /\ Reads(m) /\ Reached(m)'
  BY <1>3, <1>11, <1>12, <1>13, <1>14, HubReadSafe
<1>16. Base(m)' = Base(m) /\ Top(m)' = Top(m) /\ Held(m)' = Held(m) \cup {i}
  BY <1>7, <1>8, <1>13 DEF Base, Top, Held, In
<1> QED
  BY <1>3, <1>4, <1>5, <1>10, <1>11, <1>15, <1>16, SyncingKept DEF Safe, ReadsCommit

-----------------------------------------------------------------------------
(* The founder finds that a member has died, and decrees its part. *)

LEMMA FounderDropsSafe ==
  ASSUME SafeInv, NEW c \in Conn, NEW s \in Side, c[s] = Founder, Drop(Founder, c), UNCHANGED syncing
  PROVE  Safe /\ Rests
<1>1. /\ TypeInv /\ LogInv /\ ConnInv /\ FounderInv /\ Founder \in Id /\ Side = {1, 2} /\ 1 # 2 /\ s \in {1, 2}
      /\ Other(1) = 2 /\ Other(2) = 1
  BY Numbers DEF SafeInv, ConnInv
<1>2. SideOf(c, Founder) = s
  BY <1>1, Conns DEF SideOf
<1>3. /\ s \notin closed[c] /\ Other(s) \in closed[c] /\ queue[c][s] = <<>>
      /\ closed' = [closed EXCEPT ![c] = @ \cup {s}]
      /\ UNCHANGED <<proc, alist, adefer, instances, clist, queue>>
  BY <1>2 DEF Drop
<1>4. PICK q \in Rest : c = Hub(q) /\ s = 1 /\ q = c[2]
  <2>1. CASE s = 2
    <3>1. c[1] \in Rest /\ c = <<c[1], Founder>>
      BY <2>1, Conns DEF Rest
    <3>2. closed[c] = Side
      BY <1>1, <3>1 DEF ConnInv, HubInv
    <3> QED
      BY <1>3, <3>2
  <2>2. CASE s = 1
    BY <2>2, HubIs
  <2> QED
    BY <1>1, <2>1, <2>2
<1>5. /\ HubInv(q) /\ peer[Founder][q] = Founder /\ q \in alist[Founder] /\ q < ihole[Founder] /\ proc[q] = "dead"
      /\ queue[Hub(q)][1] = <<>> /\ queue[Hub(q)][2] = <<>> /\ q \in Id /\ 2 \in closed[Hub(q)] /\ Hub(q) \in Conn
  <2>1. HubInv(q) /\ 1 \notin closed[Hub(q)] /\ 2 \in closed[Hub(q)] /\ q \in Id /\ queue[Hub(q)][1] = <<>>
    BY <1>1, <1>3, <1>4 DEF ConnInv, Rest
  <2>2. peer[Founder][q] = Founder /\ Founder # 0
    BY <1>1, <2>1, Numbers DEF HubInv
  <2>3. proc[q] \in {"none", "waiting", "in", "dead"}
    BY <1>1, <2>1 DEF TypeInv
  <2>4. queue[Hub(q)][2] = <<>>
    BY <1>1, <2>1 DEF HubInv
  <2> QED
    BY <1>4, <2>1, <2>2, <2>3, <2>4 DEF HubInv
<1>6. /\ peer' = [peer EXCEPT ![Founder][q] = 0] /\ live_count' = [live_count EXCEPT ![Founder] = @ - 1]
      /\ log' = Decreed(Part(q))
  <2>1. q \in Connected(Founder) /\ Via(Founder, q) = c
    BY <1>4, <1>5, Numbers DEF Connected, Via, Hub
  <2>2. c[Other(SideOf(c, Founder))] = q
    BY <1>1, <1>2, <1>4
  <2> QED
    BY <2>1, <2>2 DEF Drop, Dropped
<1>7. /\ peer' \in [Id -> [Id -> 0 .. MaxInum]] /\ peer'[Founder][q] = 0
      /\ \A w \in Id : w # q => peer'[Founder][w] = peer[Founder][w]
  <2>1. peer \in [Id -> [Id -> 0 .. MaxInum]] /\ 0 \in 0 .. MaxInum
    BY <1>1, Ranges DEF TypeInv
  <2> QED
    BY <1>1, <1>5, <1>6, <2>1
<1>8. live_count' \in [Id -> Int]
  <2>1. live_count \in [Id -> Int] /\ live_count[Founder] \in Int
    BY <1>1 DEF TypeInv
  <2>2. \A x \in Int : x - 1 \in Int
    OBVIOUS
  <2>3. live_count[Founder] - 1 \in Int
    BY <2>1, <2>2
  <2> QED
    BY <1>1, <1>6, <2>1, <2>3
<1>9. /\ closed' \in [Conn -> SUBSET Side] /\ closed'[Hub(q)] = Side
      /\ \A x \in Conn : x # Hub(q) => closed'[x] = closed[x]
  <2>1. closed \in [Conn -> SUBSET Side] /\ closed[c] \cup {s} = Side
    BY <1>1, <1>3, <1>4, <1>5 DEF TypeInv
  <2> QED
    BY <1>3, <1>4, <2>1
<1>10. LogInv' /\ log' \in Seq(Entry) /\ \A i \in DOMAIN log : i \in DOMAIN log' /\ log'[i] = log[i]
  <2>1. Gone(q)'
    BY <1>1, <1>3, <1>5, <1>7, Numbers DEF Gone, FounderInv, instances
  <2>2. \A i \in DOMAIN log : log[i].kind = "part" => log[i].who # q
    BY <1>1, <1>5, Numbers DEF LogInv, Gone
  <2>3. \A w \in Rest : Gone(w) => Gone(w)'
    BY <1>3, <1>7 DEF Gone, instances, Rest
  <2>4. lack'[Founder] = {} /\ done'[Founder] \subseteq DOMAIN log
    BY <1>1, <1>3 DEF LogInv, instances
  <2> QED
    BY <1>1, <1>3, <1>5, <1>6, <2>1, <2>2, <2>3, <2>4, PartAdds
<1>11. TypeInv'
  BY <1>1, <1>3, <1>7, <1>8, <1>9, <1>10 DEF TypeInv, instances
<1>12. FounderInv'
  <2>1. Founder # q
    BY DEF Rest
  <2>2. \A k \in clist[Founder] : peer'[Founder][k.who] = 0
    BY <1>1, <1>7 DEF FounderInv, Rest
  <2>3. peer'[Founder][Founder] = 0
    BY <1>1, <1>7, <2>1 DEF FounderInv
  <2> QED
    BY <1>1, <1>3, <1>10, <2>2, <2>3 DEF FounderInv, instances
<1>13. OthersInv'
  BY <1>1, <1>3 DEF ConnInv, OthersInv, HellosInv, WaitsInv
<1>14. \A w \in Rest : closed'[<<w, Founder>>] = Side
  <2>1. ASSUME NEW w \in Rest
        PROVE  closed'[<<w, Founder>>] = Side
    <3>1. <<w, Founder>> \in Conn /\ <<w, Founder>> # Hub(q) /\ HubInv(w)
      BY <1>1, Conns DEF Hub, Rest, ConnInv
    <3> QED
      BY <1>9, <3>1 DEF HubInv
  <2> QED
    BY <2>1
<1>15. ASSUME NEW w \in Rest, w # q
       PROVE  HubInv(w)' /\ Kept(w)
  <2>1. Hub(w) \in Conn /\ Hub(w) # Hub(q) /\ w \in Id
    BY <1>15, Conns DEF Hub, Rest
  <2>2. HubInv(w) /\ HubKept(w) /\ ListKept(w)
    BY <1>1, <1>3, <1>7, <1>9, <1>15, <2>1 DEF ConnInv, HubKept, ListKept, instances
  <2> QED
    BY <1>3, <1>14, <2>2, HubStays, ViewStays DEF instances
<1>16. HubInv(q)' /\ Kept(q)
  <2>1. Up(q) = <<>> /\ Down(q) = <<>> /\ Up(q)' = <<>> /\ Down(q)' = <<>> /\ proc'[q] = "dead"
    BY <1>3, <1>5 DEF Up, Down
  <2>2. \A t \in Side : queue'[Hub(q)][t] = <<>>
    BY <1>1, <1>3, <1>5
  <2>3. HubInv(q)'
    BY <1>1, <1>7, <1>9, <1>14, <2>1, <2>2, Numbers DEF HubInv
  <2>4. ~Reached(q) /\ ~Reached(q)' /\ ~In(q) /\ ~In(q)'
    BY <1>1, <1>5, <1>9, <2>1 DEF Reached, In
  <2>5. Kept(q)
    BY <2>1, <2>4 DEF Kept, Keeps, Base, Top, Held
  <2> QED
    BY <2>3, <2>5
<1> QED
  BY <1>3, <1>10, <1>11, <1>12, <1>13, <1>15, <1>16, SyncingKept DEF Safe, ConnInv, Rests, FounderKept, instances

-----------------------------------------------------------------------------
(* The sync. *)

(* All but the votes, on which nothing that is proved here depends. *)
butVotes == <<log, proc, acceptors, instances, clist, queue, closed>>

LEMMA NothingMoves ==
  ASSUME SafeInv, UNCHANGED butVotes
  PROVE  Safe /\ FounderKept /\ \A q \in Rest : Kept(q)
<1>1. TypeInv /\ LogInv /\ ConnInv
  BY DEF SafeInv
<1>2. TypeInv'
  BY <1>1 DEF TypeInv, butVotes, acceptors, instances
<1>3. LogInv'
  <2>1. \A q \in Rest : Gone(q) => Gone(q)'
    BY DEF Gone, butVotes, acceptors, instances
  <2> QED
    BY <1>1, <2>1, LogStays DEF LogInv, butVotes, acceptors, instances
<1>4. FounderInv' /\ OthersInv'
  BY <1>1 DEF ConnInv, FounderInv, OthersInv, HellosInv, WaitsInv, butVotes, acceptors, instances
<1>5. ASSUME NEW q \in Rest
      PROVE  HubInv(q)' /\ Kept(q)
  <2>1. HubInv(q) /\ HubKept(q) /\ ListKept(q) /\ closed'[<<q, Founder>>] = Side
    BY <1>1 DEF ConnInv, HubInv, HubKept, ListKept, butVotes, acceptors, instances
  <2> QED
    BY <2>1, HubStays, ViewStays DEF butVotes, acceptors, instances
<1>6. FounderKept
  BY DEF FounderKept, butVotes, instances
<1> QED
  BY <1>2, <1>3, <1>4, <1>5, <1>6 DEF Safe, ConnInv

LEMMA TimerSafe ==
  ASSUME SafeInv, SyncTimer
  PROVE  Safe /\ SyncType' /\ (Rests \/ Starts)
<1>1. /\ TypeInv /\ SyncType /\ LogInv /\ ConnInv /\ CountInv /\ FounderInv /\ Founder \in Id /\ MaxInum \in Nat /\ MaxInum >= 1
      /\ SkipThresh \in Nat /\ MaxSync \in Nat
  BY Numbers, SyncAssumption DEF SafeInv, TruncInv, ConnInv
<1>2. Quiet /\ UNCHANGED <<log, proc, acceptors, instances, clist, closed, sync_prev>>
  BY DEF SyncTimer
<1>3. CASE /\ sync # NoSync /\ sync.skips + 1 < SkipThresh
           /\ sync' = [sync EXCEPT !.skips = @ + 1]
           /\ UNCHANGED <<sync_id, queue>>
  <2>1. Safe /\ FounderKept /\ \A q \in Rest : Kept(q)
    BY <1>2, <1>3, NothingMoves DEF butVotes
  <2>2. sync' \in [total : 0 .. MaxInum, acks : 0 .. MaxInum, skips : 0 .. SkipThresh, last : 0 .. MaxInum]
    BY <1>1, <1>3 DEF SyncType
  <2>3. sync'.total = sync.total /\ sync'.acks = sync.acks /\ sync'.last = sync.last
    BY <1>1, <1>3 DEF SyncType
  <2>4. sync' # NoSync
    <3>1. sync'.acks >= 1
      BY <1>1, <1>3, <2>3 DEF CountInv
    <3> QED
      BY <3>1 DEF NoSync
  <2>5. SyncType'
    BY <1>1, <1>2, <1>3, <2>2 DEF SyncType
  <2>6. SyncKept
    BY <1>3, <2>3, <2>4 DEF SyncKept
  <2> QED
    BY <2>1, <2>5, <2>6 DEF Rests
<1>4. CASE /\ sync_id < MaxSync
           /\ sync' = [total |-> Cardinality(alist[Founder]), acks |-> 1, skips |-> 0, last |-> 0]
           /\ sync_id' = NextId
           /\ queue' = Broadcast(queue, Founder, SyncMsg(NextId))
  <2>1. sync_id \in Nat /\ sync_id + 1 \in 0 .. MaxSync /\ NextId = sync_id + 1
    BY <1>1, <1>4 DEF SyncType, NextId
  <2>2. SyncMsg(sync_id + 1) \in Message /\ SyncMsg(sync_id + 1).op = "sync"
    BY <2>1, MessagesAre
  <2>3. queue \in [Conn -> [Side -> Seq(Message)]] /\ \A q \in Rest : queue[Hub(q)][2] = Down(q) /\ queue[Hub(q)][1] = Up(q)
    BY <1>1 DEF TypeInv, Up, Down
  <2>4. \A q \in Rest : ListKept(q)
    BY <1>2 DEF ListKept, instances
  <2>5. /\ queue' \in [Conn -> [Side -> Seq(Message)]] /\ ConnInv'
        /\ \A q \in Rest : Keeps(q) /\ Sent(q, SyncMsg(sync_id + 1)) /\ Up(q)' = queue[Hub(q)][1]
    <3>1. queue' = Broadcast(queue, Founder, SyncMsg(sync_id + 1))
      BY <1>4, <2>1
    <3>2. UNCHANGED <<log, proc, acceptors, clist, closed>> /\ ihole'[Founder] = ihole[Founder]
      BY <1>2 DEF instances
    <3> QED
      BY <2>2, <2>3, <2>4, <3>1, <3>2, BroadcastSafe
  <2>6. TypeInv'
    BY <1>1, <1>2, <2>5 DEF TypeInv, acceptors, instances
  <2>7. LogInv'
    <3>1. \A q \in Rest : Gone(q) => Gone(q)'
      BY <1>2 DEF Gone, acceptors, instances
    <3> QED
      BY <1>1, <1>2, <3>1, LogStays DEF LogInv, instances
  <2>8. Cardinality(alist[Founder]) \in 0 .. MaxInum
    <3>1. alist[Founder] \in SUBSET Id
      BY <1>1 DEF TypeInv
    <3>2. IsFiniteSet(alist[Founder]) /\ Cardinality(alist[Founder]) <= MaxInum
      BY <3>1, IdIsFinite, FS_Subset
    <3>3. Cardinality(alist[Founder]) \in Nat
      BY <3>2, FS_CardinalityType
    <3> QED
      BY <1>1, <3>2, <3>3
  <2>9. SyncType'
    BY <1>1, <1>2, <1>4, <2>1, <2>8 DEF SyncType
  <2>10. ihole[Founder] \notin done[Founder]
    <3>1. ~Learnable(Founder)
      BY <1>1, <1>2 DEF Quiet
    <3> QED
      BY <1>1, <3>1 DEF Learnable, In, FounderInv, LogInv
  <2>11. FounderKept
    BY <1>2 DEF FounderKept, instances
  <2> QED
    BY <1>4, <2>1, <2>3, <2>5, <2>6, <2>7, <2>9, <2>10, <2>11 DEF Safe, Starts
<1> QED
  BY <1>3, <1>4 DEF SyncTimer

LEMMA ReadSyncSafe ==
  ASSUME SafeInv, NEW m \in Rest, 2 \notin closed[Hub(m)], In(m), Down(m) # <<>>,
         Down(m)[1].op = "sync", AckSync(m, Down(m)[1].id, Took(Hub(m), 2))
  PROVE  Safe /\ SyncType' /\ ReadsSync(m, Down(m)[1].id)
<1>1. TypeInv /\ SyncType /\ LogInv /\ ConnInv /\ ViewInv /\ LearnInv /\ m \in Id /\ m # Founder /\ Founder \in Id /\ Side = {1, 2}
  BY SafeView, Numbers DEF SafeInv, TruncInv, Rest
<1>2. PICK net : net = Took(Hub(m), 2)
  OBVIOUS
<1>3. /\ net \in [Conn -> [Side -> Seq(Message)]] /\ Hub(m) \in Conn
      /\ \A c \in Conn : c # Hub(m) => net[c] = queue[c]
      /\ net[Hub(m)][1] = Up(m) /\ net[Hub(m)][2] = Tail(Down(m))
      /\ Down(m)[1] \in Message
      /\ \A n \in DOMAIN Up(m) : Up(m)[n].op = "last"
  BY <1>2, HubTook
<1>4. PICK n : n = Down(m)[1].id
  OBVIOUS
<1>5. n \in Nat
  BY <1>3, <1>4, MessageIs
<1>6. Reached(m) /\ Top(m) = ihole[m]
  BY HeldIsDecreed
<1>7. PICK msg : msg = LastMsg(n, ihole[m] - 1)
  OBVIOUS
<1>8. msg \in Message /\ msg.op = "last"
  <2>1. ihole[m] - 1 \in Id
    BY <1>1, <1>6, TopIs
  <2> QED
    BY <1>5, <1>7, <2>1, MessagesAre
<1>9. queue' = [net EXCEPT ![Hub(m)][1] = Append(@, msg)]
  <2>1. 1 \notin closed[Hub(m)]
    BY <1>1, Numbers DEF ConnInv, HubInv, In
  <2>2. queue' = Posted(net, <<Founder, m>>, 1, LastMsg(n, ihole[m] - 1))
    BY <1>2, <1>4 DEF AckSync
  <2> QED
    BY <1>7, <2>1, <2>2 DEF Posted, Hub
<1>10. UNCHANGED <<log, proc, acceptors, instances, clist, closed, syncing>>
  BY DEF AckSync
<1>11. /\ queue' \in [Conn -> [Side -> Seq(Message)]]
       /\ \A c \in Conn : c # Hub(m) => queue'[c] = queue[c]
       /\ Up(m)' = Append(Up(m), msg) /\ Down(m)' = Tail(Down(m))
  <2>1. net[Hub(m)] \in [Side -> Seq(Message)] /\ Up(m) \in Seq(Message)
    BY <1>1, <1>3 DEF ViewInv
  <2>2. Append(Up(m), msg) \in Seq(Message)
    BY <1>8, <2>1
  <2>3. queue' = [net EXCEPT ![Hub(m)] = [net[Hub(m)] EXCEPT ![1] = Append(Up(m), msg)]]
    BY <1>3, <1>9
  <2>4. [net[Hub(m)] EXCEPT ![1] = Append(Up(m), msg)] \in [Side -> Seq(Message)]
    BY <2>1, <2>2
  <2>5. queue' \in [Conn -> [Side -> Seq(Message)]] /\ \A c \in Conn : c # Hub(m) => queue'[c] = queue[c]
    BY <1>3, <2>3, <2>4
  <2>6. queue'[Hub(m)] = [net[Hub(m)] EXCEPT ![1] = Append(Up(m), msg)]
    BY <1>3, <2>3
  <2>7. queue'[Hub(m)][1] = Append(Up(m), msg) /\ queue'[Hub(m)][2] = Tail(Down(m))
    BY <1>1, <1>3, <2>1, <2>6
  <2> QED
    BY <2>5, <2>7 DEF Up, Down
<1>12. \A k \in DOMAIN Up(m)' : Up(m)'[k].op = "last"
  <2>1. Up(m) \in Seq(Message)
    BY <1>1 DEF ViewInv
  <2>2. \A k \in DOMAIN Append(Up(m), msg) : Append(Up(m), msg)[k].op = "last"
    BY <1>3, <1>8, <2>1, AppendIs
  <2> QED
    BY <1>11, <2>2
<1>13. TypeInv' /\ SyncType'
  BY <1>1, <1>10, <1>11 DEF TypeInv, SyncType, acceptors, instances, syncing
<1>14. FounderKept /\ \A q \in Rest : q # m => ListKept(q) /\ clist'[q] = clist[q]
  BY <1>10 DEF FounderKept, ListKept, instances
<1>15. /\ peer'[Founder] = peer[Founder] /\ alist'[Founder] = alist[Founder] /\ adefer'[Founder] = adefer[Founder]
       /\ clist'[Founder] = clist[Founder] /\ lack'[Founder] = lack[Founder]
  BY <1>10 DEF acceptors, instances
<1>16. Running(m) /\ UNCHANGED <<log, closed>> /\ proc'[m] = "in" /\ \A q \in Id : q # m => proc'[q] = proc[q]
  BY <1>10 DEF Running, In
<1>17. \A k \in clist'[m] : k.op = "ack_welcome" /\ k.who \notin {Founder, m}
  BY <1>1, <1>10 DEF ConnInv, OthersInv, WaitsInv
<1>18. LogInv' /\ ConnInv' /\ KeptBut(m) /\ Reads(m) /\ Reached(m)'
  BY <1>11, <1>12, <1>14, <1>15, <1>16, <1>17, HubReadSafe
<1>19. Keeps(m)
  BY <1>6, <1>10, <1>16, <1>18 DEF Keeps, Base, Top, Held, In, instances
<1>20. UNCHANGED syncing
  BY <1>10
<1> QED
  BY <1>4, <1>6, <1>7, <1>11, <1>13, <1>14, <1>18, <1>19, <1>20, SyncingKept DEF Safe, ReadsSync

(* The list of a member is truncated. *)
LEMMA TruncatedIs ==
  ASSUME TypeInv, NEW m \in Id, NEW i \in Id, Truncated(m, i)
  PROVE  /\ ibase' \in [Id -> Id] /\ ibase'[m] = i /\ done'[m] = {j \in done[m] : j >= i} /\ lack'[m] \subseteq lack[m]
         /\ done' \in [Id -> SUBSET Id] /\ lack' \in [Id -> SUBSET Id] /\ sought' \in [Id -> SUBSET Id]
         /\ \A q \in Id : q # m => ibase'[q] = ibase[q] /\ done'[q] = done[q] /\ lack'[q] = lack[q]
         /\ UNCHANGED <<log, proc, acceptors, ihole, clist, closed>>
<1>1. ibase \in [Id -> Id] /\ ibase' = [ibase EXCEPT ![m] = i] /\ UNCHANGED <<log, proc, acceptors, ihole, clist, closed>>
  BY DEF TypeInv, Truncated
<1>2. ibase' \in [Id -> Id] /\ ibase'[m] = i /\ \A q \in Id : q # m => ibase'[q] = ibase[q]
  BY <1>1
<1>3. ASSUME NEW f \in [Id -> SUBSET Id], NEW g, g = [f EXCEPT ![m] = {j \in @ : j >= i}]
      PROVE  g \in [Id -> SUBSET Id] /\ g[m] = {j \in f[m] : j >= i} /\ g[m] \subseteq f[m] /\ \A q \in Id : q # m => g[q] = f[q]
  <2>1. {j \in f[m] : j >= i} \in SUBSET Id
    OBVIOUS
  <2> QED
    BY <1>3, <2>1
<1>4. done' \in [Id -> SUBSET Id] /\ done'[m] = {j \in done[m] : j >= i} /\ \A q \in Id : q # m => done'[q] = done[q]
  BY <1>3 DEF TypeInv, Truncated
<1>5. lack' \in [Id -> SUBSET Id] /\ lack'[m] \subseteq lack[m] /\ \A q \in Id : q # m => lack'[q] = lack[q]
  BY <1>3 DEF TypeInv, Truncated
<1>6. sought' \in [Id -> SUBSET Id]
  BY <1>3 DEF TypeInv, Truncated
<1> QED
  BY <1>1, <1>2, <1>4, <1>5, <1>6

LEMMA ReadTruncateSafe ==
  ASSUME SafeInv, NEW m \in Rest, 2 \notin closed[Hub(m)], In(m), Down(m) # <<>>,
         Down(m)[1].op = "truncate", AckTruncate(m, Down(m)[1].inum, Took(Hub(m), 2))
  PROVE  Down(m)[1].inum \in Id /\ Safe /\ SyncType' /\ ReadsTruncate(m, Down(m)[1].inum)
<1>1. TypeInv /\ SyncType /\ LogInv /\ ConnInv /\ m \in Id /\ m # Founder /\ Founder \in Id
  BY Numbers DEF SafeInv, Rest
<1>2. /\ Took(Hub(m), 2) \in [Conn -> [Side -> Seq(Message)]] /\ Hub(m) \in Conn
      /\ \A c \in Conn : c # Hub(m) => Took(Hub(m), 2)[c] = queue[c]
      /\ Took(Hub(m), 2)[Hub(m)][1] = Up(m) /\ Took(Hub(m), 2)[Hub(m)][2] = Tail(Down(m))
      /\ Head(Down(m)) = Down(m)[1] /\ Down(m)[1] \in Message
      /\ \A n \in DOMAIN Up(m) : Up(m)[n].op = "last"
  BY HubTook
<1>3. queue' = Took(Hub(m), 2) /\ UNCHANGED syncing /\ Truncated(m, Down(m)[1].inum)
  BY DEF AckTruncate
<1>4. Up(m)' = Up(m) /\ Down(m)' = Tail(Down(m)) /\ \A c \in Conn : c # Hub(m) => queue'[c] = queue[c]
  BY <1>2, <1>3 DEF Up, Down
<1>5. PICK i : i = Down(m)[1].inum
  OBVIOUS
<1>6. i \in Id
  BY <1>2, <1>5, MessageIs
<1>7. Truncated(m, i)
  BY <1>3, <1>5
<1>8. /\ ibase' \in [Id -> Id] /\ ibase'[m] = i /\ done'[m] = {j \in done[m] : j >= i} /\ lack'[m] \subseteq lack[m]
      /\ done' \in [Id -> SUBSET Id] /\ lack' \in [Id -> SUBSET Id] /\ sought' \in [Id -> SUBSET Id]
      /\ \A q \in Id : q # m => ibase'[q] = ibase[q] /\ done'[q] = done[q] /\ lack'[q] = lack[q]
      /\ UNCHANGED <<log, proc, acceptors, ihole, clist, closed>>
  BY <1>1, <1>6, <1>7, TruncatedIs
<1>9. TypeInv'
  BY <1>1, <1>2, <1>3, <1>8 DEF TypeInv, acceptors
<1>10. FounderKept /\ \A q \in Rest : q # m => ListKept(q) /\ clist'[q] = clist[q]
  BY <1>1, <1>8 DEF FounderKept, ListKept, Rest
<1>11. /\ peer'[Founder] = peer[Founder] /\ alist'[Founder] = alist[Founder] /\ adefer'[Founder] = adefer[Founder]
       /\ clist'[Founder] = clist[Founder] /\ lack'[Founder] = lack[Founder]
  BY <1>1, <1>8 DEF acceptors
<1>12. /\ Running(m) /\ UNCHANGED <<log, closed>> /\ \A n \in DOMAIN Up(m)' : Up(m)'[n].op = "last"
       /\ proc'[m] = "in" /\ \A q \in Id : q # m => proc'[q] = proc[q]
  BY <1>2, <1>4, <1>8 DEF Running, In
<1>13. \A k \in clist'[m] : k.op = "ack_welcome" /\ k.who \notin {Founder, m}
  BY <1>1, <1>8 DEF ConnInv, OthersInv, WaitsInv
<1>14. LogInv' /\ ConnInv' /\ KeptBut(m) /\ Reads(m) /\ Reached(m)'
  BY <1>4, <1>10, <1>11, <1>12, <1>13, HubReadSafe
<1>15. Base(m)' = i /\ Top(m)' = Top(m) /\ Held(m)' = {j \in Held(m) : j >= i}
  BY <1>8, <1>12 DEF Base, Top, Held, In
<1>16. SyncKept /\ SyncType'
  BY <1>1, <1>3, SyncingKept
<1> QED
  BY <1>4, <1>5, <1>6, <1>9, <1>10, <1>14, <1>15, <1>16 DEF Safe, ReadsTruncate

(* The queues once the founder has read the first message of a hub. *)
LEMMA UpTook ==
  ASSUME SafeInv, NEW m \in Rest, Up(m) # <<>>
  PROVE  /\ Took(Hub(m), 1) \in [Conn -> [Side -> Seq(Message)]]
         /\ \A c \in Conn : c # Hub(m) => Took(Hub(m), 1)[c] = queue[c]
         /\ Took(Hub(m), 1)[Hub(m)][1] = Tail(Up(m)) /\ Took(Hub(m), 1)[Hub(m)][2] = Down(m)
         /\ Up(m)[1].op = "last" /\ Up(m)[1].inum \in Id
         /\ \A n \in DOMAIN Tail(Up(m)) : Tail(Up(m))[n].op = "last"
<1>1. TypeInv /\ ViewInv /\ Hub(m) \in Conn /\ 1 \in Side /\ 2 \in Side /\ 1 # 2 /\ queue[Hub(m)][1] # <<>>
  BY SafeView, Conns, Numbers DEF Up
<1>2. /\ Took(Hub(m), 1) \in [Conn -> [Side -> Seq(Message)]] /\ Took(Hub(m), 1)[Hub(m)][1] = Tail(queue[Hub(m)][1])
      /\ \A x \in Conn : x # Hub(m) => Took(Hub(m), 1)[x] = queue[x]
      /\ Took(Hub(m), 1)[Hub(m)][2] = queue[Hub(m)][2]
  BY <1>1, TookIs
<1>3. Up(m) \in Seq(Message) /\ \A n \in DOMAIN Up(m) : Up(m)[n].op = "last"
  BY <1>1 DEF ViewInv
<1>4. /\ 1 \in DOMAIN Up(m) /\ Up(m)[1] \in Message
      /\ \A n \in DOMAIN Tail(Up(m)) : n + 1 \in DOMAIN Up(m) /\ Tail(Up(m))[n] = Up(m)[n + 1]
  BY <1>3, TailIs
<1>5. Up(m)[1].op = "last" /\ Up(m)[1].inum \in Id
  BY <1>3, <1>4, MessageIs
<1> QED
  BY <1>2, <1>3, <1>4, <1>5 DEF Down, Up

LEMMA UpReadSafe ==
  ASSUME SafeInv, NEW m \in Rest, Up(m) # <<>>, queue' = Took(Hub(m), 1),
         UNCHANGED <<log, proc, acceptors, instances, clist, closed>>
  PROVE  Safe /\ KeptBut(m) /\ Keeps(m) /\ FounderKept /\ Down(m)' = Down(m) /\ Up(m)' = Tail(Up(m))
<1>1. TypeInv /\ LogInv /\ ConnInv /\ Side = {1, 2}
  BY Numbers DEF SafeInv
<1>2. /\ Took(Hub(m), 1) \in [Conn -> [Side -> Seq(Message)]]
      /\ \A c \in Conn : c # Hub(m) => Took(Hub(m), 1)[c] = queue[c]
      /\ Took(Hub(m), 1)[Hub(m)][1] = Tail(Up(m)) /\ Took(Hub(m), 1)[Hub(m)][2] = Down(m)
      /\ \A n \in DOMAIN Tail(Up(m)) : Tail(Up(m))[n].op = "last"
  BY UpTook
<1>3. /\ Down(m)' = Down(m) /\ Up(m)' = Tail(Up(m)) /\ \A c \in Conn : c # Hub(m) => queue'[c] = queue[c]
      /\ \A n \in DOMAIN Up(m)' : Up(m)'[n].op = "last"
  BY <1>2 DEF Up, Down
<1>4. TypeInv'
  BY <1>1, <1>2 DEF TypeInv, acceptors, instances
<1>5. LogInv'
  <2>1. \A q \in Rest : Gone(q) => Gone(q)'
    BY DEF Gone, acceptors, instances
  <2> QED
    BY <1>1, <2>1, LogStays DEF LogInv, instances
<1>6. FounderInv'
  BY <1>1 DEF ConnInv, FounderInv, acceptors, instances
<1>7. OthersInv'
  <2>1. HellosInv'
    <3>1. \A c \in Conn : c[1] # Founder => queue'[c] = queue[c]
      BY <1>3 DEF Hub
    <3> QED
      BY <1>1, <3>1 DEF ConnInv, OthersInv, HellosInv
  <2>2. WaitsInv'
    BY <1>1 DEF ConnInv, OthersInv, WaitsInv
  <2> QED
    BY <2>1, <2>2 DEF OthersInv
<1>8. ASSUME NEW w \in Rest, w # m
      PROVE  HubInv(w)' /\ Kept(w)
  <2>1. Hub(w) \in Conn /\ Hub(w) # Hub(m)
    BY <1>8, Conns DEF Hub
  <2>2. HubInv(w) /\ HubKept(w) /\ ListKept(w) /\ closed'[<<w, Founder>>] = Side
    BY <1>1, <1>3, <2>1 DEF ConnInv, HubInv, HubKept, ListKept, acceptors, instances
  <2> QED
    BY <2>2, HubStays, ViewStays DEF acceptors, instances
<1>9. HubInv(m) /\ 1 \notin closed[Hub(m)]
  BY <1>1 DEF ConnInv, HubInv, Up
<1>10. HubInv(m)'
  <2>1. \A s \in Side : s \in closed'[Hub(m)] => queue'[Hub(m)][s] = <<>>
    BY <1>1, <1>3, <1>9 DEF HubInv, Down
  <2>2. proc'[m] = "waiting" => peer'[Founder][m] = 0
    BY <1>9 DEF HubInv, acceptors
  <2> QED
    BY <1>3, <1>9, <2>1, <2>2 DEF HubInv, acceptors, instances
<1>11. Keeps(m)
  BY <1>3 DEF Keeps, Reached, Base, Top, Held, In, acceptors, instances
<1>12. FounderKept
  BY DEF FounderKept, instances
<1> QED
  BY <1>3, <1>4, <1>5, <1>6, <1>7, <1>8, <1>10, <1>11, <1>12 DEF Safe, ConnInv, KeptBut

LEMMA LastSafe ==
  ASSUME SafeInv, NEW m \in Rest, Up(m) # <<>>, NEW n, n = Up(m)[1].id, NEW i, i = Up(m)[1].inum,
         AckLast(n, i, Took(Hub(m), 1))
  PROVE  Safe /\ SyncType' /\ (GetsOld(m, n, i) \/ GetsLast(m, i) \/ GetsLeast(m, i))
<1>1. /\ TypeInv /\ SyncType /\ LogInv /\ ConnInv /\ ViewInv /\ LearnInv /\ CountInv /\ PointInv /\ i \in Id /\ Founder \in Id
  BY SafeView, UpTook, Numbers DEF SafeInv, TruncInv
<1>2. CASE /\ ~Current(n)
           /\ queue' = Took(Hub(m), 1)
           /\ UNCHANGED <<log, proc, acceptors, instances, clist, closed, syncing>>
  <2>1. Safe /\ KeptBut(m) /\ Keeps(m) /\ FounderKept /\ Down(m)' = Down(m) /\ Up(m)' = Tail(Up(m))
    BY <1>2, UpReadSafe
  <2>2. SyncKept /\ SyncType'
    BY <1>1, <1>2, SyncingKept
  <2>3. n # sync_id
    BY <1>2 DEF Current
  <2> QED
    BY <2>1, <2>2, <2>3 DEF GetsOld, Gets
<1>3. CASE /\ Current(n) /\ sync # NoSync /\ sync.acks + 1 # sync.total
           /\ sync' = [sync EXCEPT !.last = Lower(i), !.acks = @ + 1]
           /\ queue' = Took(Hub(m), 1)
           /\ UNCHANGED <<log, proc, acceptors, instances, clist, closed, sync_id, sync_prev>>
  <2>1. Safe /\ KeptBut(m) /\ Keeps(m) /\ FounderKept /\ Down(m)' = Down(m) /\ Up(m)' = Tail(Up(m))
    BY <1>3, UpReadSafe
  <2>2. n = sync_id
    BY <1>3 DEF Current
  <2>3. sync.acks + 1 <= sync.total /\ sync.acks \in 0 .. MaxInum /\ sync.total \in 0 .. MaxInum
    BY <1>1, <1>3, <2>2, AnswerIsOpen DEF SyncType
  <2>4. sync.acks + 1 \in 0 .. MaxInum /\ Lower(i) \in 0 .. MaxInum
    BY <1>1, <2>3, LowerIs, Ranges, Numbers
  <2>5. sync' \in [total : 0 .. MaxInum, acks : 0 .. MaxInum, skips : 0 .. SkipThresh, last : 0 .. MaxInum]
    BY <1>1, <1>3, <2>4 DEF SyncType
  <2>6. SyncType'
    BY <1>1, <1>3, <2>5 DEF SyncType
  <2> QED
    BY <1>3, <2>1, <2>2, <2>6 DEF GetsLast, Gets
<1>4. CASE /\ Current(n) /\ sync # NoSync /\ sync.acks + 1 = sync.total
           /\ sync_prev' = SyncPoint(Lower(i))
           /\ Truncated(Founder, SyncPoint(Lower(i)))
           /\ queue' = Broadcast(Took(Hub(m), 1), Founder, TruncateMsg(SyncPoint(Lower(i))))
           /\ sync' = NoSync
           /\ UNCHANGED sync_id
  <2>1. n = sync_id
    BY <1>4 DEF Current
  <2>2. Open = {m}
    BY <1>1, <1>4, <2>1, AnswerIsOpen
  <2>3. SyncPoint(Lower(i)) \in Id
    BY <1>1, <1>4, <2>1, <2>2, LeastIsLearned
  <2>4. PICK p \in Id : p = SyncPoint(Lower(i))
    BY <2>3
  <2>5. TruncateMsg(p) \in Message /\ TruncateMsg(p).op = "truncate"
    BY MessagesAre
  <2>6. PICK net : net = Took(Hub(m), 1)
    OBVIOUS
  <2>7. /\ net \in [Conn -> [Side -> Seq(Message)]]
        /\ \A c \in Conn : c # Hub(m) => net[c] = queue[c]
        /\ net[Hub(m)][1] = Tail(Up(m)) /\ net[Hub(m)][2] = Down(m)
    BY <2>6, UpTook
  <2>8. \A c \in Conn : c[1] # Founder => net[c] = queue[c]
    BY <2>7 DEF Hub
  <2>9. \A q \in Rest : q # m => net[Hub(q)] = queue[Hub(q)]
    BY <2>7, Conns DEF Hub
  <2>10. \A q \in Rest : /\ net[Hub(q)][2] = Down(q)
                         /\ net[Hub(q)][1] = Up(q) \/ (Up(q) # <<>> /\ net[Hub(q)][1] = Tail(Up(q)))
    BY <2>7, <2>9 DEF Up, Down
  <2>11. Truncated(Founder, p) /\ queue' = Broadcast(net, Founder, TruncateMsg(p))
    BY <1>4, <2>4, <2>6
  <2>12. /\ ibase' \in [Id -> Id] /\ ibase'[Founder] = p /\ done'[Founder] = {j \in done[Founder] : j >= p}
         /\ lack'[Founder] \subseteq lack[Founder]
         /\ done' \in [Id -> SUBSET Id] /\ lack' \in [Id -> SUBSET Id] /\ sought' \in [Id -> SUBSET Id]
         /\ \A q \in Id : q # Founder => ibase'[q] = ibase[q] /\ done'[q] = done[q] /\ lack'[q] = lack[q]
         /\ UNCHANGED <<log, proc, acceptors, ihole, clist, closed>>
    BY <1>1, <2>11, TruncatedIs
  <2>13. \A q \in Rest : ListKept(q)
    BY <2>12 DEF ListKept, Rest
  <2>14. /\ queue' \in [Conn -> [Side -> Seq(Message)]] /\ ConnInv'
         /\ \A q \in Rest : Keeps(q) /\ Sent(q, TruncateMsg(p)) /\ Up(q)' = net[Hub(q)][1]
    <3>1. UNCHANGED <<log, proc, acceptors, clist, closed>> /\ ihole'[Founder] = ihole[Founder]
      BY <2>12
    <3> QED
      BY <2>5, <2>7, <2>8, <2>10, <2>11, <2>13, <3>1, BroadcastSafe
  <2>15. TypeInv'
    BY <1>1, <2>12, <2>14 DEF TypeInv, acceptors
  <2>16. LogInv'
    <3>1. \A q \in Rest : Gone(q) => Gone(q)'
      BY <2>12 DEF Gone, acceptors
    <3>2. lack'[Founder] = {} /\ done'[Founder] \subseteq DOMAIN log
      BY <1>1, <2>12 DEF LogInv
    <3> QED
      BY <1>1, <2>12, <3>1, <3>2, LogStays
  <2>17. NoSync \in [total : 0 .. MaxInum, acks : 0 .. MaxInum, skips : 0 .. SkipThresh, last : 0 .. MaxInum]
    BY Ranges, SyncAssumption DEF NoSync
  <2>18. SyncType'
    BY <1>1, <1>4, <2>4, <2>17, Ranges DEF SyncType
  <2>19. Up(m)' = Tail(Up(m)) /\ \A q \in Rest : q # m => Up(q)' = Up(q)
    BY <2>7, <2>9, <2>14 DEF Up
  <2> QED
    BY <1>4, <2>1, <2>4, <2>12, <2>14, <2>15, <2>16, <2>18, <2>19 DEF Safe, GetsLeast, Gets
<1> QED
  BY <1>2, <1>3, <1>4 DEF AckLast

-----------------------------------------------------------------------------
(* Each step is one of the moves.                                          *)

Moves ==
  \/ Rests \/ Learns \/ Starts
  \/ \E i \in Id : Commits(i)
  \/ \E m \in Rest :
       \/ MemberLearns(m) \/ Welcomes(m) \/ Loses(m)
       \/ ReadsWelcome(m) /\ Down(m)[1].op = "welcome"
       \/ \E i \in Id : ReadsCommit(m, i) \/ ReadsTruncate(m, i)
       \/ \E n : ReadsSync(m, n)
       \/ \E i : GetsLast(m, i) \/ GetsLeast(m, i) \/ \E n : GetsOld(m, n, i)

(* What a member drops from its list it does not take back. *)
Advances ==
  /\ ibase[Founder] <= ibase'[Founder]
  /\ \A q \in Rest : Reached(q) /\ Reached(q)' => Base(q) <= Base(q)'

LEMMA StayAdvances ==
  ASSUME ViewInv, ibase'[Founder] = ibase[Founder], \A q \in Rest : Reached(q) /\ Reached(q)' => Base(q)' = Base(q)
  PROVE  Advances
BY Numbers DEF ViewInv, Advances

LEMMA MovesTrunc ==
  ASSUME ViewInv, TruncInv, Moves
  PROVE  TruncInv' /\ Advances
<1>1. CASE Rests
  BY <1>1, RestsTrunc, StayAdvances DEF Rests, Kept, Keeps, FounderKept
<1>2. CASE Learns
  BY <1>2, LearnsTrunc, StayAdvances DEF Learns, Kept, Keeps
<1>3. CASE Starts
  BY <1>3, StartsTrunc, StayAdvances DEF Starts, Keeps, FounderKept
<1>4. ASSUME NEW i \in Id, Commits(i) PROVE TruncInv' /\ Advances
  BY <1>4, CommitsTrunc, StayAdvances DEF Commits, Keeps
<1>5. ASSUME NEW m \in Rest, MemberLearns(m) PROVE TruncInv' /\ Advances
  BY <1>5, MemberLearnsTrunc, StayAdvances DEF MemberLearns, KeptBut, Kept, Keeps, FounderKept
<1>6. ASSUME NEW m \in Rest, Welcomes(m) PROVE TruncInv' /\ Advances
  BY <1>6, WelcomesTrunc, StayAdvances DEF Welcomes, KeptBut, Kept, Keeps, FounderKept
<1>7. ASSUME NEW m \in Rest, Loses(m) PROVE TruncInv' /\ Advances
  BY <1>7, LosesTrunc, StayAdvances DEF Loses, KeptBut, Kept, Keeps, FounderKept
<1>8. ASSUME NEW m \in Rest, ReadsWelcome(m), Down(m)[1].op = "welcome" PROVE TruncInv' /\ Advances
  BY <1>8, ReadsWelcomeTrunc, StayAdvances DEF ReadsWelcome, KeptBut, Kept, Keeps, FounderKept
<1>9. ASSUME NEW m \in Rest, NEW i \in Id, ReadsCommit(m, i) PROVE TruncInv' /\ Advances
  BY <1>9, ReadsCommitTrunc, StayAdvances DEF ReadsCommit, KeptBut, Kept, Keeps, FounderKept
<1>10. ASSUME NEW m \in Rest, NEW i \in Id, ReadsTruncate(m, i) PROVE TruncInv' /\ Advances
  <2>1. TruncInv' /\ Base(m) <= i
    BY <1>10, ReadsTruncateTrunc
  <2>2. /\ Base(m)' = i /\ ibase'[Founder] = ibase[Founder]
        /\ \A q \in Rest : q # m => Base(q)' = Base(q)
    BY <1>10 DEF ReadsTruncate, KeptBut, Kept, Keeps, FounderKept
  <2>3. Base(m) <= Base(m)'
    BY <2>1, <2>2
  <2>4. \A q \in Rest : Reached(q) => Base(q) <= Base(q)
    BY Numbers DEF ViewInv
  <2>5. ibase[Founder] <= ibase[Founder]
    BY Numbers DEF ViewInv
  <2>6. \A q \in Rest : Reached(q) /\ Reached(q)' => Base(q) <= Base(q)'
    <3> SUFFICES ASSUME NEW q \in Rest, Reached(q) PROVE Base(q) <= Base(q)'
      OBVIOUS
    <3>1. CASE q = m
      BY <3>1, <2>3
    <3>2. CASE q # m
      BY <3>2, <2>2, <2>4
    <3> QED
      BY <3>1, <3>2
  <2> QED
    BY <2>1, <2>2, <2>5, <2>6 DEF Advances
<1>11. ASSUME NEW m \in Rest, NEW n, ReadsSync(m, n) PROVE TruncInv' /\ Advances
  BY <1>11, ReadsSyncTrunc, StayAdvances DEF ReadsSync, KeptBut, Kept, Keeps, FounderKept
<1>12. ASSUME NEW m \in Rest, NEW i, GetsLast(m, i) PROVE TruncInv' /\ Advances
  BY <1>12, GetsLastTrunc, StayAdvances DEF GetsLast, KeptBut, Kept, Keeps, FounderKept
<1>13. ASSUME NEW m \in Rest, NEW i, GetsLeast(m, i) PROVE TruncInv' /\ Advances
  <2>1. TruncInv' /\ ibase[Founder] <= SyncPoint(Lower(i))
    BY <1>13, GetsLeastTrunc
  <2>2. ibase'[Founder] = SyncPoint(Lower(i)) /\ \A q \in Rest : Base(q)' = Base(q)
    BY <1>13 DEF GetsLeast, Keeps
  <2> QED
    BY <2>1, <2>2, Numbers DEF ViewInv, Advances
<1>14. ASSUME NEW m \in Rest, NEW i, NEW n, GetsOld(m, n, i) PROVE TruncInv' /\ Advances
  BY <1>14, GetsOldTrunc, StayAdvances DEF GetsOld, KeptBut, Kept, Keeps, FounderKept
<1> QED
  BY <1>1, <1>2, <1>3, <1>4, <1>5, <1>6, <1>7, <1>8, <1>9, <1>10, <1>11, <1>12, <1>13, <1>14 DEF Moves

-----------------------------------------------------------------------------
(* Messages are read over a hub, or are hellos.                            *)

LEMMA SideIs ==
  ASSUME NEW c \in Conn, NEW s \in Side
  PROVE  /\ SideOf(c, c[s]) = s /\ s \in {1, 2} /\ c[1] \in Id /\ c[2] \in Id /\ c[1] # c[2]
         /\ c[1] = Founder => c[2] \in Rest /\ c = Hub(c[2])
         /\ c[2] = Founder => c[1] \in Rest /\ c = <<c[1], Founder>>
BY DEF SideOf, Conn, Side, Rest, Hub

(* A queue that is not empty and not shut is that of a hub, or has hellos. *)
LEMMA ReadOver ==
  ASSUME SafeInv, NEW c \in Conn, NEW s \in Side, s \notin closed[c], queue[c][s] # <<>>
  PROVE  \/ c[1] = Founder
         \/ c[1] # Founder /\ c[2] # Founder /\ s = 2 /\ queue[c][s][1] = Hello
<1>1. ConnInv /\ TypeInv
  BY DEF SafeInv
<1>2. CASE c[1] # Founder
  <2>1. queue[c][1] = <<>> /\ \A n \in DOMAIN queue[c][2] : queue[c][2][n] = Hello
    BY <1>1, <1>2 DEF ConnInv, OthersInv, HellosInv
  <2>2. s = 2
    BY <2>1, SideIs
  <2>3. c[2] # Founder
    <3>1. SUFFICES ASSUME c[2] = Founder PROVE FALSE
      OBVIOUS
    <3>2. c[1] \in Rest /\ closed[<<c[1], Founder>>] = Side /\ c = <<c[1], Founder>>
      BY <1>1, <3>1, SideIs DEF ConnInv, HubInv
    <3> QED
      BY <3>2
  <2>4. queue[c][2] \in Seq(Message) /\ queue[c][2] # <<>>
    BY <1>1, <2>2 DEF TypeInv
  <2>5. 1 \in DOMAIN queue[c][2]
    BY <2>4
  <2> QED
    BY <1>2, <2>1, <2>2, <2>3, <2>5
<1> QED
  BY <1>2

LEMMA ReadSafe ==
  ASSUME SafeInv, NEW c \in Conn, NEW s \in Side, Read(c[s], c), UNCHANGED syncing
  PROVE  Safe /\ Moves
<1>1. ConnInv /\ TypeInv
  BY DEF SafeInv
<1>2. /\ s \notin closed[c] /\ queue[c][s] # <<>> /\ Running(c[s])
      /\ Dispatch(c[s], c, Head(queue[c][s]), Took(c, s))
  BY SideIs DEF Read, Took
<1>3. Head(queue[c][s]) = queue[c][s][1]
  BY <1>1, <1>2, TookIs
<1>4. Dispatch(c[s], c, queue[c][s][1], Took(c, s))
  BY <1>2, <1>3
<1>5. CASE c[1] = Founder
  <2>1. PICK m \in Rest : m = c[2] /\ c = Hub(m)
    BY <1>5, SideIs
  <2>2. HubInv(m) /\ proc[Founder] = "in"
    BY <1>1, <2>1 DEF ConnInv, FounderInv
  <2>3. CASE s = 1
    <3>1. c[s] = Founder /\ queue[c][s] = Up(m)
      BY <2>1, <2>3, <1>5 DEF Up
    <3>2. Up(m) # <<>> /\ Up(m)[1].op = "last"
      BY <1>2, <3>1, UpTook
    <3> QED
      BY <1>4, <2>2, <3>1, <3>2 DEF Dispatch, In
  <2>4. CASE s = 2
    <3>1. c[s] = m /\ queue[c][s] = Down(m) /\ Down(m) # <<>> /\ 2 \notin closed[Hub(m)]
      BY <1>2, <2>1, <2>4 DEF Down
    <3>2. Dispatch(m, c, Down(m)[1], Took(Hub(m), 2))
      BY <1>4, <2>1, <2>4, <3>1
    <3>3. Down(m) \in Seq(Message)
      BY <1>1, <2>1, <3>1 DEF TypeInv
    <3>4. \/ Down(m)[1].op \in {"commit", "sync", "truncate"}
          \/ proc[m] = "waiting" /\ Down(m)[1].op = "welcome"
      <4>1. 1 \in DOMAIN Down(m)
        BY <3>1, <3>3
      <4> QED
        BY <2>2, <4>1 DEF HubInv
    <3>5. proc[m] = "waiting" => Down(m)[1].op = "welcome"
      BY <2>2, <3>1 DEF HubInv, Side
    <3>6. CASE proc[m] = "waiting" /\ AckWelcome(m, Down(m)[1]) /\ queue' = Took(Hub(m), 2) /\ UNCHANGED closed
      <4>1. Safe /\ ReadsWelcome(m)
        BY <3>1, <3>5, <3>6, ReadWelcomeSafe
      <4> QED
        BY <3>5, <3>6, <4>1 DEF Moves
    <3>7. CASE In(m) /\ Down(m)[1].op = "commit" /\ AckCommit(m, Down(m)[1].inum) /\ queue' = Took(Hub(m), 2) /\ UNCHANGED closed
      <4>1. Down(m)[1].inum \in Id /\ Safe /\ ReadsCommit(m, Down(m)[1].inum)
        BY <3>1, <3>7, ReadCommitSafe
      <4> QED
        BY <4>1 DEF Moves
    <3> QED
      BY <3>2, <3>4, <3>5, <3>6, <3>7 DEF Dispatch, In
  <2> QED
    BY <2>3, <2>4, SideIs
<1>6. CASE c[1] # Founder /\ c[2] # Founder /\ s = 2 /\ queue[c][s][1] = Hello
  <2>1. CASE queue' = Took(c, 2) /\ UNCHANGED <<log, proc, acceptors, instances, clist, closed>>
    BY <1>2, <1>6, <2>1, IgnoreSafe DEF Moves
  <2>2. CASE In(c[2]) /\ AckHello(c[2], c[1], Took(c, 2)) /\ UNCHANGED <<log, proc, alist, instances, clist>>
    <3>1. PICK net : net = Took(c, 2)
      OBVIOUS
    <3>2. Safe /\ Rests
      BY <1>2, <1>6, <2>2, <3>1, HelloSafe
    <3> QED
      BY <3>2 DEF Moves
  <2> QED
    BY <1>4, <1>6, <2>1, <2>2 DEF Dispatch, Hello
<1> QED
  BY <1>2, <1>5, <1>6, ReadOver

LEMMA SyncReadSafe ==
  ASSUME SafeInv, NEW c \in Conn, NEW s \in Side, SyncRead(c[s], c)
  PROVE  Safe /\ SyncType' /\ Moves
<1>1. ConnInv /\ TypeInv
  BY DEF SafeInv
<1>2. /\ s \notin closed[c] /\ queue[c][s] # <<>> /\ In(c[s])
      /\ LET msg == Head(queue[c][s])
         IN \/ msg.op = "sync" /\ AckSync(c[s], msg.id, Took(c, s))
            \/ msg.op = "last" /\ AckLast(msg.id, msg.inum, Took(c, s))
            \/ msg.op = "truncate" /\ AckTruncate(c[s], msg.inum, Took(c, s))
  BY SideIs DEF SyncRead, Took
<1>3. Head(queue[c][s]) = queue[c][s][1]
  BY <1>1, <1>2, TookIs
<1>4. \/ queue[c][s][1].op = "sync" /\ AckSync(c[s], queue[c][s][1].id, Took(c, s))
      \/ queue[c][s][1].op = "last" /\ AckLast(queue[c][s][1].id, queue[c][s][1].inum, Took(c, s))
      \/ queue[c][s][1].op = "truncate" /\ AckTruncate(c[s], queue[c][s][1].inum, Took(c, s))
  BY <1>2, <1>3
<1>5. c[1] = Founder
  BY <1>2, <1>4, ReadOver DEF Hello
<1>6. PICK m \in Rest : m = c[2] /\ c = Hub(m)
  BY <1>5, SideIs
<1>7. HubInv(m)
  BY <1>1 DEF ConnInv
<1>8. CASE s = 1
  <2>1. queue[c][s] = Up(m) /\ Up(m) # <<>>
    BY <1>2, <1>6, <1>8 DEF Up
  <2>2. Up(m)[1].op = "last"
    BY <2>1, UpTook
  <2>3. AckLast(Up(m)[1].id, Up(m)[1].inum, Took(Hub(m), 1))
    BY <1>4, <1>6, <1>8, <2>1, <2>2
  <2>4. PICK n, i : n = Up(m)[1].id /\ i = Up(m)[1].inum
    OBVIOUS
  <2>5. Safe /\ SyncType' /\ (GetsOld(m, n, i) \/ GetsLast(m, i) \/ GetsLeast(m, i))
    BY <2>1, <2>3, <2>4, LastSafe
  <2> QED
    BY <2>5 DEF Moves
<1>9. CASE s = 2
  <2>1. c[s] = m /\ queue[c][s] = Down(m) /\ Down(m) # <<>> /\ 2 \notin closed[Hub(m)] /\ In(m)
    BY <1>2, <1>6, <1>9 DEF Down
  <2>2. Down(m)[1].op # "last"
    <3>1. Down(m) \in Seq(Message)
      BY <1>1, <1>6, <2>1 DEF TypeInv
    <3>2. 1 \in DOMAIN Down(m)
      BY <2>1, <3>1
    <3> QED
      BY <1>7, <3>2 DEF HubInv
  <2>3. CASE Down(m)[1].op = "sync" /\ AckSync(m, Down(m)[1].id, Took(Hub(m), 2))
    <3>1. Safe /\ SyncType' /\ ReadsSync(m, Down(m)[1].id)
      BY <2>1, <2>3, ReadSyncSafe
    <3> QED
      BY <3>1 DEF Moves
  <2>4. CASE Down(m)[1].op = "truncate" /\ AckTruncate(m, Down(m)[1].inum, Took(Hub(m), 2))
    <3>1. Down(m)[1].inum \in Id /\ Safe /\ SyncType' /\ ReadsTruncate(m, Down(m)[1].inum)
      BY <2>1, <2>4, ReadTruncateSafe
    <3> QED
      BY <3>1 DEF Moves
  <2> QED
    BY <1>4, <1>6, <1>9, <2>1, <2>2, <2>3, <2>4
<1> QED
  BY <1>8, <1>9, SideIs

LEMMA DropSafe ==
  ASSUME SafeInv, NEW c \in Conn, NEW s \in Side, Drop(c[s], c), UNCHANGED syncing
  PROVE  Safe /\ Moves
<1>1. CASE c[s] # Founder
  BY <1>1, EndSafe DEF Moves
<1>2. CASE c[s] = Founder
  BY <1>2, FounderDropsSafe DEF Moves
<1> QED
  BY <1>1, <1>2

LEMMA EventSafe ==
  ASSUME SafeInv, Event, UNCHANGED syncing
  PROVE  Safe /\ Moves
<1>1. ASSUME NEW v, v = Chat \/ v = Join(Len(log) + 1), Decree(v) PROVE Safe /\ Moves
  BY <1>1, DecreeSafe DEF Moves
<1>3. ASSUME NEW m \in Id, Learn(m) PROVE Safe /\ Moves
  <2>1. CASE m = Founder
    BY <1>3, <2>1, LearnSafe DEF Moves
  <2>2. CASE m # Founder
    <3>1. m \in Rest
      BY <2>2 DEF Rest
    <3> QED
      BY <1>3, <3>1, OtherLearnSafe DEF Moves
  <2> QED
    BY <2>1, <2>2
<1>4. ASSUME NEW m \in Id, Continue(m) PROVE Safe /\ Moves
  <2>1. CASE m = Founder
    BY <1>4, <2>1, FounderConnects DEF Moves
  <2>2. CASE m # Founder
    <3>1. m \in Rest
      BY <2>2 DEF Rest
    <3> QED
      BY <1>4, <3>1, ConnectSafe DEF Moves
  <2> QED
    BY <2>1, <2>2
<1>5. ASSUME NEW m \in Id, AckResend(m) PROVE Safe /\ Moves
  BY <1>5, ResendSafe DEF Moves
<1>6. ASSUME NEW m \in Id, Crash(m) PROVE Safe /\ Moves
  <2>1. m \in Rest
    BY <1>6 DEF Crash, Rest
  <2> QED
    BY <1>6, <2>1, CrashSafe DEF Moves
<1>7. ASSUME NEW c \in Conn, NEW s \in Side, Read(c[s], c) \/ Drop(c[s], c) PROVE Safe /\ Moves
  BY <1>7, ReadSafe, DropSafe
<1> QED
  BY <1>1, <1>3, <1>4, <1>5, <1>6, <1>7 DEF Event

LEMMA NextSafe ==
  ASSUME SafeInv, Next, UNCHANGED syncing
  PROVE  Safe /\ Moves
<1>1. CASE Event
  BY <1>1, EventSafe
<1>2. ASSUME NEW i \in Id, Commit(i) PROVE Safe /\ Moves
  BY <1>2, CommitSafe DEF Moves
<1>3. ASSUME NEW i \in Id, AckAccept(i) PROVE Safe /\ Moves
  <2>1. UNCHANGED butVotes
    BY <1>3 DEF AckAccept, butVotes
  <2> QED
    BY <2>1, NothingMoves, SyncingKept DEF Rests, Moves
<1> QED
  BY <1>1, <1>2, <1>3 DEF Next

LEMMA StepSafe ==
  ASSUME SafeInv, SyncNext
  PROVE  Safe /\ SyncType' /\ Moves
<1>1. CASE Next /\ UNCHANGED syncing
  BY <1>1, NextSafe, SyncingKept DEF SafeInv
<1>2. CASE SyncTimer /\ UNCHANGED votes
  BY <1>2, TimerSafe DEF Moves
<1>3. ASSUME NEW c \in Conn, NEW s \in Side, SyncRead(c[s], c) PROVE Safe /\ SyncType' /\ Moves
  BY <1>3, SyncReadSafe
<1> QED
  BY <1>1, <1>2, <1>3 DEF SyncNext

LEMMA SafeStays ==
  ASSUME SafeInv, [SyncNext]_<<vars, syncing>>
  PROVE  SafeInv' /\ Advances
<1>1. Safe /\ SyncType' /\ Moves
  <2>1. CASE SyncNext
    BY <2>1, StepSafe
  <2>2. CASE UNCHANGED <<vars, syncing>>
    <3>1. UNCHANGED vars /\ UNCHANGED syncing
      BY <2>2
    <3>2. SyncKept /\ SyncType'
      BY <3>1, SyncingKept DEF SafeInv
    <3>3. Safe /\ Rests
      BY <3>1, <3>2, NothingMoves DEF Rests, vars, butVotes
    <3> QED
      BY <3>2, <3>3 DEF Moves
  <2> QED
    BY <2>1, <2>2
<1> QED
  BY <1>1, SafeView, MovesTrunc DEF SafeInv, Safe

-----------------------------------------------------------------------------
(* What holds at the start.                                                *)

LEMMA InitIs ==
  ASSUME SyncInit
  PROVE  /\ Members = 1 .. Old /\ Members \subseteq Id /\ Founder \in Members /\ Old + 1 \in 1 .. MaxInum + 1
         /\ log \in Seq(Entry) /\ DOMAIN log = Members /\ Len(log) = Old /\ \A i \in Members : log[i].kind = "join"
         /\ \A q \in Id : proc[q] = (IF q \in Members THEN "in" ELSE "none")
         /\ \A q \in Rest : peer[Founder][q] = (IF q \in Members THEN Founder ELSE 0)
         /\ \A q \in Rest : closed[Hub(q)] = (IF q \in Members THEN {} ELSE Side) /\ closed[<<q, Founder>>] = Side
         /\ \A c \in Conn : queue[c][1] = <<>> /\ queue[c][2] = <<>>
         /\ \A q \in Rest : Up(q) = <<>> /\ Down(q) = <<>>
<1>1. Members = 1 .. Old /\ Members \subseteq Id /\ Founder \in Members /\ Old + 1 \in 1 .. MaxInum + 1
  BY Numbers DEF Members
<1>2. log = [i \in Members |-> [kind |-> "join", who |-> i, asked |-> {}]]
  BY DEF SyncInit, Init
<1>3. \A i \in Members : [kind |-> "join", who |-> i, asked |-> {}] \in Entry
  BY <1>1, Numbers DEF Entry
<1>4. log \in Seq(Entry) /\ DOMAIN log = Members /\ Len(log) = Old /\ \A i \in Members : log[i].kind = "join"
  BY <1>1, <1>2, <1>3, Numbers
<1>5. \A q \in Id : proc[q] = (IF q \in Members THEN "in" ELSE "none")
  BY DEF SyncInit, Init
<1>6. \A q \in Rest : peer[Founder][q] = (IF q \in Members THEN Founder ELSE 0)
  <2>1. peer = [m \in Id |-> [q \in Id |-> IF {m, q} \subseteq Members /\ m # q THEN Maker(m, q) ELSE 0]]
    BY DEF SyncInit, Init
  <2> QED
    BY <1>1, <2>1, Numbers DEF Rest, Maker
<1>7. \A c \in Conn : closed[c] = (IF c \in Made THEN {} ELSE Side)
  BY DEF SyncInit, Init
<1>8. \A q \in Rest : (Hub(q) \in Made <=> q \in Members) /\ <<q, Founder>> \notin Made
  BY <1>1, Numbers DEF Made, Rest, Hub, Maker
<1>9. \A q \in Rest : closed[Hub(q)] = (IF q \in Members THEN {} ELSE Side) /\ closed[<<q, Founder>>] = Side
  BY <1>7, <1>8, Conns
<1>10. \A c \in Conn : queue[c] = << <<>>, <<>> >>
  BY DEF SyncInit, Init
<1>11. \A c \in Conn : queue[c][1] = <<>> /\ queue[c][2] = <<>>
  BY <1>10
<1>12. \A q \in Rest : Up(q) = <<>> /\ Down(q) = <<>>
  BY <1>11, Conns DEF Up, Down
<1> QED
  BY <1>1, <1>4, <1>5, <1>6, <1>9, <1>11, <1>12

LEMMA InitType ==
  ASSUME SyncInit
  PROVE  TypeInv /\ SyncType
<1>1. /\ Members \subseteq Id /\ Old + 1 \in 1 .. MaxInum + 1 /\ log \in Seq(Entry)
      /\ 1 \in Id /\ 1 \in 1 .. MaxInum + 1 /\ 0 \in 0 .. MaxInum /\ Old \in Int /\ Side = {1, 2}
  BY InitIs, Numbers, Ranges
<1>2. proc \in [Id -> {"none", "waiting", "in", "dead"}]
  BY DEF SyncInit, Init
<1>3. alist \in [Id -> SUBSET Id] /\ done \in [Id -> SUBSET Id]
  BY <1>1 DEF SyncInit, Init
<1>4. adefer \in [Id -> SUBSET Id] /\ lack \in [Id -> SUBSET Id] /\ sought \in [Id -> SUBSET Id] /\ clist \in [Id -> SUBSET Continuation]
  BY DEF SyncInit, Init
<1>5. peer \in [Id -> [Id -> 0 .. MaxInum]]
  <2>1. \A m, q \in Id : Maker(m, q) \in 0 .. MaxInum
    BY Numbers, Ranges DEF Maker
  <2> QED
    BY <1>1, <2>1 DEF SyncInit, Init
<1>6. live_count \in [Id -> Int]
  BY <1>1 DEF SyncInit, Init
<1>7. ibase \in [Id -> Id] /\ ihole \in [Id -> 1 .. MaxInum + 1]
  BY <1>1 DEF SyncInit, Init
<1>8. queue \in [Conn -> [Side -> Seq(Message)]]
  <2>1. << <<>>, <<>> >> \in [Side -> Seq(Message)]
    <3>1. <<>> \in Seq(Message)
      OBVIOUS
    <3>2. \A a, b \in Seq(Message) : DOMAIN <<a, b>> = {1, 2} /\ <<a, b>> \in [{1, 2} -> Seq(Message)]
      <4> SUFFICES ASSUME NEW S PROVE \A a, b \in S : DOMAIN <<a, b>> = {1, 2} /\ <<a, b>> \in [{1, 2} -> S]
        OBVIOUS
      <4>1. \A a, b \in S : <<a, b>> = [n \in {1, 2} |-> IF n = 1 THEN a ELSE b]
        OBVIOUS
      <4> QED
        BY <4>1
    <3> QED
      BY <1>1, <3>1, <3>2
  <2> QED
    BY <2>1 DEF SyncInit, Init
<1>9. closed \in [Conn -> SUBSET Side]
  BY DEF SyncInit, Init
<1>10. SyncType
  BY Numbers, Ranges, SyncAssumption DEF SyncInit, SyncType, NoSync
<1> QED
  BY <1>1, <1>2, <1>3, <1>4, <1>5, <1>6, <1>7, <1>8, <1>9, <1>10 DEF TypeInv

LEMMA InitLog ==
  ASSUME SyncInit
  PROVE  LogInv
<1>1. Changes = 0
  <2>1. {i \in DOMAIN log : i > Old /\ log[i].kind # "part"} = {}
    BY InitIs, Numbers
  <2>2. {m \in Id : proc[m] = "dead"} = {}
    BY InitIs
  <2> QED
    BY <2>1, <2>2, FS_EmptySet DEF Changes
<1>2. lack[Founder] = {} /\ done[Founder] = Members
  BY InitIs, Numbers DEF SyncInit, Init
<1>3. \A i \in DOMAIN log : log[i].kind = "join"
  BY InitIs
<1>4. \A q \in Id : proc[q] # "none" <=> q \in DOMAIN log /\ log[q].kind = "join"
  BY InitIs
<1> QED
  BY <1>1, <1>2, <1>3, <1>4, InitIs, Numbers DEF LogInv

LEMMA InitConn ==
  ASSUME SyncInit
  PROVE  ConnInv
<1>1. /\ Founder \in Id /\ Founder \in Members /\ alist[Founder] = Members /\ adefer[Founder] = {} /\ ihole[Founder] = Old + 1
      /\ \A q \in Id : clist[q] = {}
  BY InitIs, Numbers DEF SyncInit, Init
<1>2. peer[Founder][Founder] = 0
  BY <1>1 DEF SyncInit, Init
<1>3. FounderInv
  BY <1>1, <1>2, InitIs DEF FounderInv
<1>4. HellosInv /\ WaitsInv
  BY <1>1, InitIs, Numbers DEF HellosInv, WaitsInv, Rest
<1>5. ASSUME NEW q \in Rest PROVE HubInv(q)
  <2>1. Up(q) = <<>> /\ Down(q) = <<>> /\ Hub(q) \in Conn /\ q \in Id
    BY InitIs, Conns DEF Rest
  <2>2. \A s \in Side : queue[Hub(q)][s] = <<>>
    BY <2>1, Numbers DEF Up, Down
  <2>3. q \in Members => q < ihole[Founder] /\ q \in alist[Founder]
    BY <1>1, InitIs, Numbers
  <2>4. Founder # 0 /\ Side = {1, 2}
    BY Numbers
  <2>5. CASE q \in Members
    <3>1. proc[q] = "in" /\ peer[Founder][q] = Founder /\ closed[Hub(q)] = {} /\ closed[<<q, Founder>>] = Side
      BY <2>1, <2>5, InitIs
    <3> QED
      BY <2>1, <2>2, <2>3, <2>4, <2>5, <3>1 DEF HubInv
  <2>6. CASE q \notin Members
    <3>1. proc[q] = "none" /\ peer[Founder][q] = 0 /\ closed[Hub(q)] = Side /\ closed[<<q, Founder>>] = Side
      BY <2>1, <2>6, InitIs
    <3> QED
      BY <2>1, <2>2, <2>4, <3>1 DEF HubInv
  <2> QED
    BY <2>5, <2>6
<1> QED
  BY <1>3, <1>4, <1>5 DEF ConnInv, OthersInv

LEMMA InitTrunc ==
  ASSUME SyncInit
  PROVE  TruncInv
<1>1. /\ Members = 1 .. Old /\ Members \subseteq Id /\ Founder \in Members /\ Founder \in Id
      /\ \A q \in Id : ibase[q] = 1 /\ (q \in Members => ihole[q] = Old + 1 /\ done[q] = Members)
  BY InitIs, Numbers DEF SyncInit, Init
<1>2. \A q \in Rest : Up(q) = <<>> /\ Down(q) = <<>>
  BY InitIs
<1>3. sync = NoSync
  BY DEF SyncInit
<1>4. \A i \in Id : i \in Members \/ i < Old + 1 => Known(i)
  BY <1>1, Numbers DEF Known
<1>5. ASSUME NEW q \in Rest, Reached(q) PROVE Fits(q)
  <2>1. q \in Members /\ q \in Id
    BY <1>5, InitIs, Numbers DEF Reached, Rest
  <2>2. Base(q) = 1 /\ Held(q) = Members /\ Top(q) = Old + 1
    BY <1>1, <2>1, InitIs DEF Base, Held, Top, In
  <2> QED
    BY <1>1, <1>4, <2>2, Numbers DEF Fits
<1>6. LearnInv
  BY <1>1, <1>2, <1>5, Numbers DEF LearnInv, Told
<1>7. \A q \in Rest : Asked(q) = {} /\ Answered(q) = {}
  BY <1>2 DEF Asked, Answered
<1>8. CountInv
  BY <1>2, <1>3, <1>7 DEF CountInv, Once, Open
<1>9. PointInv /\ OrderInv
  BY <1>2, <1>3 DEF PointInv, OrderInv, Ordered
<1> QED
  BY <1>6, <1>8, <1>9 DEF TruncInv

LEMMA InitSafe ==
  ASSUME SyncInit
  PROVE  SafeInv
BY InitType, InitLog, InitConn, InitTrunc DEF SafeInv

-----------------------------------------------------------------------------
(***************************************************************************)
(* The invariant: the lists, the hubs and the counts of a sync are as the  *)
(* code relies on, however members join, die and answer.                   *)
(***************************************************************************)
THEOREM SafeHolds == SyncSpec => []SafeInv
<1>1. SyncInit => SafeInv
  BY InitSafe
<1>2. SafeInv /\ [SyncNext]_<<vars, syncing>> => SafeInv'
  BY SafeStays
<1> QED
  BY <1>1, <1>2, PTL DEF SyncSpec

(***************************************************************************)
(* proposer_ack_last() never follows the NULL that the pointer to the sync *)
(* is between two of them: whoever has still to answer keeps it.           *)
(***************************************************************************)
THEOREM LastAlwaysFindsSync == SyncSpec => []LastFindsSync
<1>1. ASSUME SafeInv PROVE LastFindsSync
  <2> SUFFICES ASSUME sync = NoSync, NEW m \in Rest, NEW i \in DOMAIN Up(m) PROVE Up(m)[i].id # sync_id
    BY DEF LastFindsSync, Rest, Up, Hub
  <2>1. Open = {}
    BY <1>1 DEF SafeInv, TruncInv, CountInv
  <2>2. Answered(m) = {}
    BY <2>1 DEF Open
  <2> QED
    BY <2>2 DEF Answered
<1>2. SafeInv => LastFindsSync
  BY <1>1
<1> QED
  BY <1>2, SafeHolds, PTL

(* A member that is in the session is reached over its hub. *)
LEMMA InIsReached ==
  ASSUME SafeInv, NEW m \in Rest, In(m)
  PROVE  Reached(m) /\ Base(m) = ibase[m] /\ Top(m) = ihole[m]
BY DEF SafeInv, ConnInv, HubInv, In, Reached, Base, Top

(***************************************************************************)
(* ilist_truncate_prefix() never drops, in any member's list, an instance  *)
(* that another member has not learned.                                    *)
(***************************************************************************)
THEOREM TruncatedStaysLearned == SyncSpec => []TruncatedIsLearned
<1>1. ASSUME SafeInv PROVE TruncatedIsLearned
  <2> SUFFICES ASSUME NEW m \in Id, NEW q \in Id, In(m), In(q) PROVE ibase[m] < ihole[q]
    BY DEF TruncatedIsLearned
  <2>1. /\ ibase[m] \in Id /\ ibase[Founder] \in Id
        /\ ihole[q] \in 1 .. MaxInum + 1
        /\ LearnInv
    BY <1>1, Numbers DEF SafeInv, TypeInv, TruncInv
  <2>2. ibase[m] <= ibase[Founder]
    <3>1. CASE m = Founder
      BY <2>1, <3>1, Numbers
    <3>2. CASE m # Founder
      BY <1>1, <2>1, <3>2, InIsReached DEF LearnInv, Fits, Rest
    <3> QED
      BY <3>1, <3>2
  <2>3. ibase[Founder] < ihole[q]
    <3>1. CASE q = Founder
      BY <2>1, <3>1 DEF LearnInv
    <3>2. CASE q # Founder
      BY <1>1, <2>1, <3>2, InIsReached DEF LearnInv, Fits, Rest
    <3> QED
      BY <3>1, <3>2
  <2> QED
    BY <2>1, <2>2, <2>3, Numbers
<1>2. SafeInv => TruncatedIsLearned
  BY <1>1
<1> QED
  BY <1>2, SafeHolds, PTL

(***************************************************************************)
(* The assertion of proposer_truncate() holds, and acceptor_ack_truncate() *)
(* sets no ibase back, though a truncation is read long after it was sent. *)
(***************************************************************************)
THEOREM IbaseNeverShrinks == SyncSpec => IbaseGrows
<1>1. ASSUME SafeInv, SafeInv', [SyncNext]_<<vars, syncing>>
      PROVE  [\A m \in Id : In(m) /\ In(m)' => ibase'[m] >= ibase[m]]_ibase
  <2>1. Advances
    BY <1>1, SafeStays
  <2>2. ibase \in [Id -> Id] /\ ibase' \in [Id -> Id]
    BY <1>1 DEF SafeInv, TypeInv
  <2>3. ASSUME NEW m \in Id, In(m), In(m)' PROVE ibase[m] <= ibase'[m]
    <3>1. CASE m = Founder
      BY <2>1, <3>1 DEF Advances
    <3>2. CASE m # Founder
      <4>1. m \in Rest
        BY <3>2 DEF Rest
      <4>2. Reached(m) /\ Base(m) = ibase[m]
        BY <1>1, <2>3, <4>1, InIsReached
      <4>3. Reached(m)' /\ Base(m)' = ibase'[m]
        BY <1>1, <2>3, <4>1 DEF SafeInv, ConnInv, HubInv, In, Reached, Base
      <4> QED
        BY <2>1, <4>1, <4>2, <4>3 DEF Advances
    <3> QED
      BY <3>1, <3>2
  <2> QED
    BY <2>2, <2>3, Numbers
<1> QED
  BY <1>1, SafeHolds, PTL DEF SyncSpec, IbaseGrows

-----------------------------------------------------------------------------
(* The live count.                                                         *)

Lists(q) == \A n \in DOMAIN Down(q) : Down(q)[n].op = "welcome" =>
  /\ Founder \in Down(q)[n].alist
  /\ \A i \in Down(q)[n].alist : i < FirstHole(Down(q)[n].ibase, Down(q)[n].done)

LEMMA SentLists ==
  ASSUME ViewInv, NEW q \in Rest, Lists(q), NEW msg \in Message, msg.op # "welcome", Sent(q, msg)
  PROVE  Lists(q)'
<1>1. CASE Down(q)' = Down(q)
  BY <1>1 DEF Lists
<1>2. CASE Down(q)' = Append(Down(q), msg)
  <2>1. Down(q) \in Seq(Message)
    BY DEF ViewInv
  <2>2. \A n \in DOMAIN Down(q)' : (n \in DOMAIN Down(q) /\ Down(q)'[n] = Down(q)[n]) \/ Down(q)'[n] = msg
    BY <1>2, <2>1, AppendIs
  <2> QED
    BY <2>2 DEF Lists
<1> QED
  BY <1>1, <1>2 DEF Sent

LEMMA ReadLists ==
  ASSUME ViewInv, NEW q \in Rest, Lists(q), Reads(q)
  PROVE  Lists(q)'
<1>1. Down(q) \in Seq(Message) /\ Down(q) # <<>> /\ Down(q)' = Tail(Down(q))
  BY DEF ViewInv, Reads
<1>2. \A n \in DOMAIN Down(q)' : n + 1 \in DOMAIN Down(q) /\ Down(q)'[n] = Down(q)[n + 1]
  BY <1>1, TailIs
<1> QED
  BY <1>2 DEF Lists

LEMMA KeptLists ==
  ASSUME NEW q \in Rest, Lists(q), Down(q)' = Down(q)
  PROVE  Lists(q)'
BY DEF Lists

LEMMA WelcomesLists ==
  ASSUME SafeInv, ViewInv, LiveOf(Founder), NEW q \in Rest, Welcomes(q)
  PROVE  Lists(q)'
<1>1. /\ ibase[Founder] \in Id /\ ihole[Founder] \in 1 .. MaxInum + 1 /\ done[Founder] \in SUBSET Id
      /\ alist[Founder] \in SUBSET Id /\ Founder \in alist[Founder]
  BY DEF ViewInv
<1>2. proc[Founder] = "in" /\ \A i \in ibase[Founder] .. ihole[Founder] - 1 : i \in done[Founder]
  BY DEF SafeInv, ConnInv, FounderInv, TruncInv, LearnInv
<1>3. \A i \in alist[Founder] : i < ihole[Founder]
  BY <1>2 DEF LiveOf
<1>4. PICK al, b, d : al = alist[Founder] /\ b = ibase[Founder] /\ d = done[Founder]
  OBVIOUS
<1>5. Down(q)' = <<WelcomeMsg(al, b, d)>>
  BY <1>4 DEF Welcomes
<1>6. WelcomeMsg(al, b, d).alist = al /\ WelcomeMsg(al, b, d).ibase = b /\ WelcomeMsg(al, b, d).done = d
  BY DEF WelcomeMsg
<1>7. \A i \in al : i < FirstHole(b, d)
  <2>1. /\ FirstHole(b, d) \in 1 .. MaxInum + 1 /\ FirstHole(b, d) >= b /\ FirstHole(b, d) \notin d
    BY <1>1, <1>4, FirstHoleIs
  <2>2. FirstHole(b, d) >= ihole[Founder]
    BY <1>1, <1>2, <1>4, <2>1, Numbers
  <2> QED
    BY <1>1, <1>3, <1>4, <2>1, <2>2, Numbers
<1>8. \A n \in DOMAIN Down(q)' : Down(q)'[n] = WelcomeMsg(al, b, d)
  BY <1>5
<1> QED
  BY <1>1, <1>4, <1>6, <1>7, <1>8 DEF Lists

LEMMA MovesLists ==
  ASSUME SafeInv, ViewInv, WelcomesInv, LiveOf(Founder), Moves
  PROVE  WelcomesInv'
<1>1. \A q \in Rest : Lists(q)
  BY DEF WelcomesInv, Lists
<1>2. SUFFICES ASSUME NEW q \in Rest PROVE Lists(q)'
  BY DEF WelcomesInv, Lists
<1>3. CASE Down(q)' = Down(q)
  BY <1>1, <1>3, KeptLists
<1>4. CASE Rests \/ Learns
  BY <1>3, <1>4 DEF Rests, Learns, Kept
<1>5. CASE Starts
  <2>1. SyncMsg(sync_id + 1) \in Message /\ SyncMsg(sync_id + 1).op # "welcome"
    BY MessagesAre, SyncAssumption DEF ViewInv, SyncType
  <2> QED
    BY <1>1, <1>5, <2>1, SentLists DEF Starts
<1>6. ASSUME NEW i \in Id, Commits(i) PROVE Lists(q)'
  <2>1. CommitMsg(i) \in Message /\ CommitMsg(i).op # "welcome"
    BY MessagesAre
  <2> QED
    BY <1>1, <1>6, <2>1, SentLists DEF Commits
<1>7. ASSUME NEW m \in Rest, MemberLearns(m) \/ Welcomes(m) \/ Loses(m) \/ ReadsWelcome(m)
      PROVE  Lists(q)'
  <2>1. CASE q # m
    BY <1>3, <1>7, <2>1 DEF MemberLearns, Welcomes, Loses, ReadsWelcome, KeptBut, Kept
  <2>2. CASE q = m /\ MemberLearns(m)
    BY <1>3, <2>2 DEF MemberLearns
  <2>3. CASE q = m /\ Welcomes(m)
    BY <2>3, WelcomesLists
  <2>4. CASE q = m /\ Loses(m)
    BY <2>4 DEF Loses, Lists
  <2>5. CASE q = m /\ ReadsWelcome(m)
    BY <1>1, <2>5, ReadLists DEF ReadsWelcome
  <2> QED
    BY <1>7, <2>1, <2>2, <2>3, <2>4, <2>5
<1>8. ASSUME NEW m \in Rest, NEW i \in Id, ReadsCommit(m, i) \/ ReadsTruncate(m, i) PROVE Lists(q)'
  <2>1. CASE q # m
    BY <1>3, <1>8, <2>1 DEF ReadsCommit, ReadsTruncate, KeptBut, Kept
  <2>2. CASE q = m
    BY <1>1, <1>8, <2>2, ReadLists DEF ReadsCommit, ReadsTruncate
  <2> QED
    BY <2>1, <2>2
<1>9. ASSUME NEW m \in Rest, NEW n, ReadsSync(m, n) PROVE Lists(q)'
  <2>1. CASE q # m
    BY <1>3, <1>9, <2>1 DEF ReadsSync, KeptBut, Kept
  <2>2. CASE q = m
    BY <1>1, <1>9, <2>2, ReadLists DEF ReadsSync
  <2> QED
    BY <2>1, <2>2
<1>10. ASSUME NEW m \in Rest, NEW i, GetsLast(m, i) \/ \E n : GetsOld(m, n, i) PROVE Lists(q)'
  <2>1. Down(q)' = Down(q)
    BY <1>10 DEF GetsLast, GetsOld, KeptBut, Kept
  <2> QED
    BY <1>3, <2>1
<1>11. ASSUME NEW m \in Rest, NEW i, GetsLeast(m, i) PROVE Lists(q)'
  <2>1. TruncInv
    BY DEF SafeInv
  <2>2. SyncPoint(Lower(i)) \in Id
    BY <1>11, <2>1, GetsLeastTrunc
  <2>3. TruncateMsg(SyncPoint(Lower(i))) \in Message /\ TruncateMsg(SyncPoint(Lower(i))).op # "welcome"
    BY <2>2, MessagesAre
  <2> QED
    BY <1>1, <1>11, <2>3, SentLists DEF GetsLeast
<1> QED
  BY <1>4, <1>5, <1>6, <1>7, <1>8, <1>9, <1>10, <1>11 DEF Moves

LEMMA PeersAre ==
  ASSUME TypeInv, NEW m \in Id
  PROVE  /\ IsFiniteSet(Peers(m)) /\ Cardinality(Peers(m)) \in Nat /\ live_count[m] \in Int /\ ihole[m] \in Int
         /\ \A q \in Id : q \in Peers(m) <=> peer[m][q] # 0
         /\ \A q : /\ IsFiniteSet(Peers(m) \cup {q}) /\ IsFiniteSet(Peers(m) \ {q})
                   /\ Cardinality(Peers(m) \cup {q}) = Cardinality(Peers(m)) + (IF q \in Peers(m) THEN 0 ELSE 1)
                   /\ Cardinality(Peers(m) \ {q}) = Cardinality(Peers(m)) - (IF q \in Peers(m) THEN 1 ELSE 0)
<1>1. Peers(m) \in SUBSET Id
  BY DEF Peers
<1>2. IsFiniteSet(Peers(m))
  BY <1>1, IdIsFinite, FS_Subset
<1>3. Cardinality(Peers(m)) \in Nat
  BY <1>2, FS_CardinalityType
<1>4. live_count[m] \in Int /\ ihole[m] \in Int
  <2>1. live_count \in [Id -> Int] /\ ihole \in [Id -> 1 .. MaxInum + 1]
    BY DEF TypeInv
  <2>2. live_count[m] \in Int /\ ihole[m] \in 1 .. MaxInum + 1
    BY <2>1
  <2> QED
    BY <2>2
<1>5. \A q \in Id : q \in Peers(m) <=> peer[m][q] # 0
  BY DEF Peers
<1> HIDE DEF Peers
<1>6. ASSUME NEW q
      PROVE  /\ IsFiniteSet(Peers(m) \cup {q}) /\ IsFiniteSet(Peers(m) \ {q})
             /\ Cardinality(Peers(m) \cup {q}) = Cardinality(Peers(m)) + (IF q \in Peers(m) THEN 0 ELSE 1)
             /\ Cardinality(Peers(m) \ {q}) = Cardinality(Peers(m)) - (IF q \in Peers(m) THEN 1 ELSE 0)
  <2>1. IsFiniteSet(Peers(m) \cup {q}) /\ Cardinality(Peers(m) \cup {q}) = IF q \in Peers(m) THEN Cardinality(Peers(m)) ELSE Cardinality(Peers(m)) + 1
    BY <1>2, FS_AddElement
  <2>2. IsFiniteSet(Peers(m) \ {q}) /\ Cardinality(Peers(m) \ {q}) = IF q \in Peers(m) THEN Cardinality(Peers(m)) - 1 ELSE Cardinality(Peers(m))
    BY <1>2, FS_RemoveElement
  <2> QED
    BY <1>3, <2>1, <2>2
<1> QED
  BY <1>2, <1>3, <1>4, <1>5, <1>6

(* One entry of peer is written. *)
LEMMA PeersSet ==
  ASSUME TypeInv, NEW m \in Id, NEW q \in Id, NEW x, peer' = [peer EXCEPT ![m][q] = x]
  PROVE  /\ x = 0 => Peers(m)' = Peers(m) \ {q}
         /\ x # 0 => Peers(m)' = Peers(m) \cup {q}
         /\ \A r \in Id : r # m => Peers(r)' = Peers(r)
<1>1. peer \in [Id -> [Id -> 0 .. MaxInum]] /\ peer[m] \in [Id -> 0 .. MaxInum]
  BY DEF TypeInv
<1>2. peer'[m][q] = x /\ \A p \in Id : p # q => peer'[m][p] = peer[m][p]
  BY <1>1
<1>3. \A r \in Id : r # m => peer'[r] = peer[r]
  BY <1>1
<1> QED
  BY <1>2, <1>3 DEF Peers

(* What has no part in an action keeps its count. *)
LEMMA LiveStays ==
  ASSUME TypeInv, NEW m \in Id, LiveOf(m), Peers(m)' = Peers(m), alist'[m] = alist[m], live_count'[m] = live_count[m],
         proc'[m] = "in" <=> proc[m] = "in", ihole'[m] = ihole[m], clist'[m] \subseteq clist[m]
  PROVE  LiveOf(m)'
BY DEF LiveOf

LEMMA AllStay ==
  ASSUME TypeInv, \A m \in Id : LiveOf(m), UNCHANGED <<peer, alist, live_count, ihole, clist>>,
         \A m \in Id : proc'[m] = "in" <=> proc[m] = "in"
  PROVE  \A m \in Id : LiveOf(m)'
<1> SUFFICES ASSUME NEW m \in Id PROVE LiveOf(m)'
  OBVIOUS
<1>1. Peers(m)' = Peers(m)
  BY DEF Peers
<1> QED
  BY <1>1, LiveStays

(* A member becomes a peer of m. *)
LEMMA PeerGains ==
  ASSUME TypeInv, NEW m \in Id, LiveOf(m), NEW q \in Id, q \notin Peers(m), Peers(m)' = Peers(m) \cup {q},
         q \in alist'[m], alist[m] \subseteq alist'[m], live_count'[m] = live_count[m] + 1,
         proc[m] = "in", proc'[m] = "in", \A p \in alist'[m] : p < ihole'[m],
         Immediate => \A k \in clist'[m] : k.who \notin Peers(m)'
  PROVE  LiveOf(m)'
BY PeersAre DEF LiveOf

LEMMA DecreeLive ==
  ASSUME SafeInv, \A m \in Id : LiveOf(m), NEW v, v = Chat \/ v = Join(Len(log) + 1), Decree(v)
  PROVE  \A m \in Id : LiveOf(m)'
<1>1. TypeInv /\ LogInv
  BY DEF SafeInv
<1>2. \A m \in Id : proc'[m] = "in" <=> proc[m] = "in"
  <2>1. CASE v = Chat
    BY <2>1 DEF Decree, Chat
  <2>2. CASE v = Join(Len(log) + 1)
    <3>1. Len(log) + 1 \notin DOMAIN log
      <4>1. log \in Seq(Entry)
        BY <1>1 DEF TypeInv
      <4> QED
        BY <4>1
    <3>2. Len(log) + 1 \in Id /\ proc[Len(log) + 1] = "none"
      BY <1>1, <3>1, Room DEF LogInv, Decree
    <3>3. proc' = [proc EXCEPT ![Len(log) + 1] = "waiting"]
      BY <2>2 DEF Decree, Join
    <3> QED
      BY <1>1, <3>2, <3>3 DEF TypeInv
  <2> QED
    BY <2>1, <2>2
<1>3. UNCHANGED <<peer, alist, live_count, ihole, clist>>
  BY DEF Decree, acceptors, instances
<1> QED
  BY <1>1, <1>2, <1>3, AllStay

LEMMA HelloLive ==
  ASSUME TypeInv, \A r \in Id : LiveOf(r), Quiet, NEW m \in Id, NEW q \in Id, In(m), NEW net, AckHello(m, q, net),
         UNCHANGED <<log, proc, alist, instances, clist>>
  PROVE  \A r \in Id : LiveOf(r)'
<1>1. UNCHANGED <<proc, alist, ihole, clist>> /\ q # 0 /\ proc[m] = "in"
  BY Numbers DEF instances, In
<1>2. Immediate => \A r \in Id : clist[r] = {}
  BY DEF Quiet, Connecting
<1>3. CASE peer' = peer /\ live_count' = live_count
  BY <1>1, <1>3, AllStay
<1>4. CASE q \in alist[m] /\ peer[m][q] = 0 /\ peer' = [peer EXCEPT ![m][q] = q] /\ live_count' = [live_count EXCEPT ![m] = @ + 1]
  <2>1. q \notin Peers(m) /\ Peers(m)' = Peers(m) \cup {q} /\ \A r \in Id : r # m => Peers(r)' = Peers(r)
    BY <1>1, <1>4, PeersAre, PeersSet
  <2>2. live_count'[m] = live_count[m] + 1 /\ \A r \in Id : r # m => live_count'[r] = live_count[r]
    BY <1>4 DEF TypeInv
  <2>3. LiveOf(m)'
    <3>1. \A p \in alist[m] : p < ihole[m]
      BY <1>1 DEF LiveOf
    <3> QED
      BY <1>1, <1>2, <1>4, <2>1, <2>2, <3>1, PeerGains
  <2>4. \A r \in Id : r # m => LiveOf(r)'
    BY <1>1, <2>1, <2>2, LiveStays
  <2> QED
    BY <2>3, <2>4
<1>5. CASE peer[m][q] # 0 /\ peer' = [peer EXCEPT ![m][q] = q] /\ live_count' = live_count
  <2>1. q \in Peers(m)
    BY <1>5, PeersAre
  <2>2. \A r \in Id : Peers(r)' = Peers(r)
    <3>1. Peers(m)' = Peers(m) \cup {q} /\ \A r \in Id : r # m => Peers(r)' = Peers(r)
      BY <1>1, <1>5, PeersSet
    <3>2. Peers(m) \cup {q} = Peers(m)
      BY <2>1
    <3> QED
      BY <3>1, <3>2
  <2> QED
    BY <1>1, <1>5, <2>2, LiveStays
<1> QED
  BY <1>3, <1>4, <1>5 DEF AckHello

LEMMA LearnLive ==
  ASSUME SafeInv, \A r \in Id : LiveOf(r), NEW m \in Id, Learn(m)
  PROVE  \A r \in Id : LiveOf(r)'
<1>1. TypeInv /\ LogInv /\ FounderInv
  BY DEF SafeInv, ConnInv
<1>2. PICK i : i = ihole[m]
  OBVIOUS
<1>3. /\ proc[m] = "in" /\ proc' = proc /\ i \in Id /\ i \in done[m]
      /\ ihole' = [ihole EXCEPT ![m] = @ + 1]
      /\ Immediate => \A r \in Id : clist[r] = {}
  BY <1>1, <1>2 DEF Learn, Learnable, In, Connecting, TypeInv
<1>4. ihole'[m] = i + 1 /\ \A r \in Id : r # m => ihole'[r] = ihole[r]
  BY <1>1, <1>2, <1>3, HoleMoves
<1>5. /\ \A p \in alist[m] : p \in Id /\ p < i
      /\ Peers(m) \subseteq alist[m]
  BY <1>1, <1>2, <1>3 DEF LiveOf, TypeInv
<1>6. \A r \in Id : r # m => clist'[r] = clist[r]
  BY <1>1 DEF Learn, TypeInv
<1>7. ASSUME log[i].kind = "join", LearnJoin(m, i) PROVE \A r \in Id : LiveOf(r)'
  <2>1. i \notin alist[m] /\ i \notin Peers(m) /\ i # 0
    BY <1>3, <1>5, Numbers
  <2>2. alist'[m] = alist[m] \cup {i} /\ \A r \in Id : r # m => alist'[r] = alist[r]
    BY <1>1, <1>7 DEF LearnJoin, TypeInv
  <2>3. \A p \in alist'[m] : p < ihole'[m]
    BY <1>3, <1>4, <1>5, <2>2, Numbers
  <2>4. clist'[m] = clist[m] \/ (m = Founder /\ clist'[m] = clist[m] \cup {[op |-> "welcome", who |-> i]})
    BY <1>1, <1>2 DEF Learn, TypeInv
  <2>5. CASE i \in adefer[m]
    <3>1. peer' = [peer EXCEPT ![m][i] = i] /\ live_count' = [live_count EXCEPT ![m] = @ + 1]
      BY <1>7, <2>5 DEF LearnJoin
    <3>2. Peers(m)' = Peers(m) \cup {i} /\ \A r \in Id : r # m => Peers(r)' = Peers(r)
      BY <1>1, <1>3, <2>1, <3>1, PeersSet
    <3>3. live_count'[m] = live_count[m] + 1 /\ \A r \in Id : r # m => live_count'[r] = live_count[r]
      BY <1>1, <3>1 DEF TypeInv
    <3>4. clist'[m] = clist[m]
      BY <1>1, <2>4, <2>5 DEF FounderInv
    <3>5. LiveOf(m)'
      BY <1>1, <1>3, <2>1, <2>2, <2>3, <3>2, <3>3, <3>4, PeerGains
    <3>6. \A r \in Id : r # m => LiveOf(r)'
      BY <1>1, <1>3, <1>4, <1>6, <2>2, <3>2, <3>3, LiveStays
    <3> QED
      BY <3>5, <3>6
  <2>6. CASE i \notin adefer[m]
    <3>1. peer' = peer /\ live_count' = live_count
      BY <1>7, <2>6 DEF LearnJoin
    <3>2. \A r \in Id : Peers(r)' = Peers(r)
      BY <3>1 DEF Peers
    <3>3. LiveOf(m)'
      <4>1. Immediate => \A k \in clist'[m] : k.who \notin Peers(m)
        BY <1>3, <2>1, <2>4
      <4> QED
        BY <1>3, <2>2, <2>3, <3>1, <3>2, <4>1 DEF LiveOf
    <3>4. \A r \in Id : r # m => LiveOf(r)'
      BY <1>1, <1>3, <1>4, <1>6, <2>2, <3>1, <3>2, LiveStays
    <3> QED
      BY <3>3, <3>4
  <2> QED
    BY <2>5, <2>6
<1>8. ASSUME log[i].kind # "join" PROVE clist' = clist
  BY <1>2, <1>8 DEF Learn
<1>9. ASSUME NEW q \in Id, log[i].kind # "join", peer' = [peer EXCEPT ![m][q] = 0], alist' = [alist EXCEPT ![m] = @ \ {q}],
             live_count' = [live_count EXCEPT ![m] = @ - (IF peer[m][q] # 0 THEN 1 ELSE 0)]
      PROVE  \A r \in Id : LiveOf(r)'
  <2>1. Peers(m)' = Peers(m) \ {q} /\ \A r \in Id : r # m => Peers(r)' = Peers(r)
    BY <1>1, <1>9, PeersSet
  <2>2. live_count'[m] = live_count[m] - (IF q \in Peers(m) THEN 1 ELSE 0) /\ \A r \in Id : r # m => live_count'[r] = live_count[r]
    BY <1>1, <1>9, PeersAre DEF TypeInv
  <2>3. alist'[m] = alist[m] \ {q} /\ \A r \in Id : r # m => alist'[r] = alist[r]
    BY <1>1, <1>9 DEF TypeInv
  <2>4. LiveOf(m)'
    <3>a. /\ Cardinality(Peers(m)') = Cardinality(Peers(m)) - (IF q \in Peers(m) THEN 1 ELSE 0)
          /\ Cardinality(Peers(m)) \in Nat /\ live_count[m] \in Int
      BY <1>1, <2>1, PeersAre
    <3>b. Cardinality(Peers(m)) <= live_count[m] /\ (Immediate => live_count[m] = 1 + Cardinality(Peers(m)))
      BY <1>3 DEF LiveOf
    <3>1. Cardinality(Peers(m)') <= live_count'[m]
      BY <2>2, <3>a, <3>b
    <3>2. Immediate => live_count'[m] = 1 + Cardinality(Peers(m)')
      BY <2>2, <3>a, <3>b
    <3>3. \A p \in alist'[m] : p < ihole'[m]
      BY <1>3, <1>4, <1>5, <2>3, Numbers
    <3>4. Immediate => \A k \in clist'[m] : k.who \notin Peers(m)'
      BY <1>3, <1>8, <1>9
    <3>5. Peers(m)' \subseteq alist'[m]
      BY <1>5, <2>1, <2>3
    <3> QED
      BY <1>3, <3>1, <3>2, <3>3, <3>4, <3>5 DEF LiveOf
  <2>5. \A r \in Id : r # m => LiveOf(r)'
    BY <1>1, <1>3, <1>4, <1>8, <1>9, <2>1, <2>2, <2>3, LiveStays
  <2> QED
    BY <2>4, <2>5
<1>10. ASSUME UNCHANGED acceptors, log[i].kind # "join" PROVE \A r \in Id : LiveOf(r)'
  <2>1. peer' = peer /\ alist' = alist /\ live_count' = live_count /\ clist' = clist
    BY <1>8, <1>10 DEF acceptors
  <2>2. \A r \in Id : Peers(r)' = Peers(r)
    BY <2>1 DEF Peers
  <2>3. LiveOf(m)'
    <3>1. \A p \in alist'[m] : p < ihole'[m]
      BY <1>3, <1>4, <1>5, <2>1, Numbers
    <3> QED
      BY <1>3, <2>1, <2>2, <3>1 DEF LiveOf
  <2>4. \A r \in Id : r # m => LiveOf(r)'
    BY <1>1, <1>3, <1>4, <2>1, <2>2, LiveStays
  <2> QED
    BY <2>3, <2>4
<1>11. i \in DOMAIN log
  <2>1. CASE m = Founder
    BY <1>1, <1>3, <2>1 DEF LogInv
  <2>2. CASE m # Founder
    BY <1>3, <2>2, HeldIsDecreed DEF Rest, In
  <2> QED
    BY <2>1, <2>2
<1>12. log[i].kind \in {"join", "part", "chat"}
  BY <1>1, <1>11, EntriesAre
<1>13. CASE log[i].kind = "join"
  BY <1>2, <1>7, <1>13 DEF Learn
<1>14. CASE log[i].kind = "chat"
  BY <1>2, <1>10, <1>14 DEF Learn
<1>15. CASE log[i].kind = "part"
  <2>1. PICK q \in Id : q = log[i].who
    BY <1>1, <1>11, <1>15 DEF LogInv, Gone, Rest
  <2>2. LearnPart(m, q)
    BY <1>2, <1>15, <2>1 DEF Learn
  <2>3. CASE q \in alist[m]
    BY <1>9, <1>15, <2>2, <2>3 DEF LearnPart
  <2>4. CASE q \notin alist[m]
    BY <1>10, <1>15, <2>2, <2>4 DEF LearnPart
  <2> QED
    BY <2>3, <2>4
<1> QED
  BY <1>12, <1>13, <1>14, <1>15

(* A member loses a peer of m. *)
LEMMA PeerGoes ==
  ASSUME TypeInv, NEW m \in Id, LiveOf(m), NEW q, Peers(m)' = Peers(m) \ {q}, alist'[m] = alist[m],
         proc'[m] = proc[m], ihole'[m] = ihole[m], clist'[m] \subseteq clist[m],
         \/ q \in Peers(m) /\ live_count'[m] = live_count[m] - 1
         \/ (q \in Peers(m) => ~Immediate) /\ live_count'[m] = live_count[m]
  PROVE  LiveOf(m)'
<1>1. /\ Cardinality(Peers(m)') = Cardinality(Peers(m)) - (IF q \in Peers(m) THEN 1 ELSE 0)
      /\ Cardinality(Peers(m)) \in Nat /\ live_count[m] \in Int
  BY PeersAre
<1>2. Cardinality(Peers(m)) <= live_count[m] /\ (Immediate /\ proc[m] = "in" => live_count[m] = 1 + Cardinality(Peers(m)))
  BY DEF LiveOf
<1>3. Cardinality(Peers(m)') <= live_count'[m] /\ (Immediate /\ proc[m] = "in" => live_count'[m] = 1 + Cardinality(Peers(m)'))
  BY <1>1, <1>2
<1> QED
  BY <1>3 DEF LiveOf

LEMMA ContinueLive ==
  ASSUME SafeInv, \A r \in Id : LiveOf(r), NEW m \in Id, Continue(m)
  PROVE  \A r \in Id : LiveOf(r)'
<1>1. TypeInv /\ FounderInv /\ WaitsInv /\ proc[m] = "in" /\ m # 0
  BY Numbers DEF SafeInv, ConnInv, OthersInv, Continue, In
<1>2. UNCHANGED <<proc, alist, ihole>>
  BY DEF Continue, instances
<1>3. PICK k \in clist[m] :
        /\ clist' = [clist EXCEPT ![m] = @ \ {k}]
        /\ CASE k.who \notin alist[m] -> UNCHANGED <<log, peer, live_count, queue, closed>>
             [] k.who \in alist[m] /\ k.op = "welcome" -> ContinueWelcome(m, k.who)
             [] k.who \in alist[m] /\ k.op = "ack_welcome" -> ContinueAckWelcome(m, k.who)
  BY DEF Continue
<1>4. PICK q : q = k.who
  OBVIOUS
<1>5. clist[m] \subseteq Continuation
  BY <1>1 DEF TypeInv
<1>6. q \in Id /\ k.op \in {"welcome", "ack_welcome"}
  BY <1>4, <1>5 DEF Continuation
<1>7. clist'[m] = clist[m] \ {k} /\ \A r \in Id : r # m => clist'[r] = clist[r]
  BY <1>1, <1>3 DEF TypeInv
<1>8. \A j \in clist[m] : j.op = k.op
  BY <1>1 DEF FounderInv, WaitsInv, Rest
<1>9. \A j \in clist'[m] : j.who # q
  BY <1>4, <1>5, <1>7, <1>8 DEF Continuation
<1>10. CASE peer' = peer /\ live_count' = live_count
  <2>1. \A r \in Id : Peers(r)' = Peers(r) /\ clist'[r] \subseteq clist[r]
    BY <1>7, <1>10 DEF Peers
  <2> QED
    BY <1>1, <1>2, <1>10, <2>1, LiveStays
<1>11. q \in Peers(m) => ~Immediate
  BY <1>1, <1>4 DEF LiveOf
<1>12. CASE q \in alist[m] /\ peer' = [peer EXCEPT ![m][q] = m] /\ live_count' = [live_count EXCEPT ![m] = @ + 1]
  <2>1. Peers(m)' = Peers(m) \cup {q} /\ \A r \in Id : r # m => Peers(r)' = Peers(r)
    <3>1. TypeInv /\ m # 0 /\ peer' = [peer EXCEPT ![m][q] = m]
      BY <1>1, <1>12
    <3>2. ASSUME NEW x, x # 0, peer' = [peer EXCEPT ![m][q] = x]
          PROVE  Peers(m)' = Peers(m) \cup {q} /\ \A r \in Id : r # m => Peers(r)' = Peers(r)
      BY <1>6, <3>1, <3>2, PeersSet
    <3> QED
      BY <3>1, <3>2
  <2>2. live_count'[m] = live_count[m] + 1 /\ \A r \in Id : r # m => live_count'[r] = live_count[r]
    BY <1>1, <1>12 DEF TypeInv
  <2>3. \A r \in Id : r # m => LiveOf(r)'
    BY <1>1, <1>2, <1>7, <2>1, <2>2, LiveStays
  <2>4. CASE q \notin Peers(m)
    <3>1. Immediate => \A j \in clist'[m] : j.who \notin Peers(m)'
      BY <1>1, <1>7, <1>9, <2>1 DEF LiveOf
    <3>2. \A p \in alist[m] : p < ihole[m]
      BY <1>1 DEF LiveOf
    <3>3. LiveOf(m)'
      BY <1>1, <1>2, <1>6, <1>12, <2>1, <2>2, <2>4, <3>1, <3>2, PeerGains
    <3> QED
      BY <2>3, <3>3
  <2>5. CASE q \in Peers(m)
    <3>1. Peers(m)' = Peers(m) /\ ~Immediate
      BY <1>11, <2>1, <2>5
    <3>2. Cardinality(Peers(m)) <= live_count'[m]
      BY <1>1, <2>2, PeersAre DEF LiveOf
    <3>3. LiveOf(m)'
      BY <1>1, <1>2, <3>1, <3>2 DEF LiveOf
    <3> QED
      BY <2>3, <3>3
  <2> QED
    BY <2>4, <2>5
<1>13. CASE peer' = [peer EXCEPT ![m][q] = 0] /\ live_count' = live_count
  <2>1. Peers(m)' = Peers(m) \ {q} /\ \A r \in Id : r # m => Peers(r)' = Peers(r)
    BY <1>1, <1>6, <1>13, PeersSet
  <2>2. LiveOf(m)'
    BY <1>1, <1>2, <1>7, <1>11, <1>13, <2>1, PeerGoes
  <2>3. \A r \in Id : r # m => LiveOf(r)'
    BY <1>1, <1>2, <1>7, <1>13, <2>1, LiveStays
  <2> QED
    BY <2>2, <2>3
<1>14. CASE q \notin alist[m]
  BY <1>3, <1>4, <1>10, <1>14
<1>15. CASE q \in alist[m] /\ k.op = "welcome"
  BY <1>3, <1>4, <1>10, <1>12, <1>15 DEF ContinueWelcome
<1>16. CASE q \in alist[m] /\ k.op = "ack_welcome"
  BY <1>3, <1>4, <1>12, <1>13, <1>16 DEF ContinueAckWelcome
<1> QED
  BY <1>6, <1>14, <1>15, <1>16

LEMMA DropLive ==
  ASSUME TypeInv, \A r \in Id : LiveOf(r), NEW c \in Conn, NEW s \in Side, Drop(c[s], c)
  PROVE  \A r \in Id : LiveOf(r)'
<1>1. PICK m, q : m = c[s] /\ q = c[Other(s)]
  OBVIOUS
<1>2. m \in Id /\ q \in Id
  BY <1>1, SideIs, Numbers
<1>3. UNCHANGED <<proc, alist, ihole, clist>>
  BY DEF Drop, instances
<1>4. CASE UNCHANGED <<peer, live_count>>
  BY <1>3, <1>4, AllStay
<1>5. CASE q \in Connected(m) /\ peer' = [peer EXCEPT ![m][q] = 0] /\ live_count' = Dropped(m, q)
  <2>1. q \in Peers(m)
    BY <1>2, <1>5, PeersAre DEF Connected
  <2>2. Peers(m)' = Peers(m) \ {q} /\ \A r \in Id : r # m => Peers(r)' = Peers(r)
    BY <1>2, <1>5, PeersSet
  <2>3. live_count'[m] = live_count[m] - 1 /\ \A r \in Id : r # m => live_count'[r] = live_count[r]
    BY <1>2, <1>5 DEF TypeInv, Dropped
  <2>4. LiveOf(m)'
    BY <1>2, <1>3, <2>1, <2>2, <2>3, PeerGoes
  <2>5. \A r \in Id : r # m => LiveOf(r)'
    BY <1>3, <2>2, <2>3, LiveStays
  <2> QED
    BY <2>4, <2>5
<1>6. SideOf(c, m) = s
  BY <1>1, SideIs
<1> QED
  BY <1>1, <1>4, <1>5, <1>6 DEF Drop

LEMMA CrashLive ==
  ASSUME TypeInv, \A r \in Id : LiveOf(r), NEW m \in Id, Crash(m)
  PROVE  \A r \in Id : LiveOf(r)'
<1>1. /\ proc' = [proc EXCEPT ![m] = "dead"] /\ alist' = [alist EXCEPT ![m] = {}]
      /\ peer' = [peer EXCEPT ![m] = [q \in Id |-> 0]] /\ live_count' = [live_count EXCEPT ![m] = 0]
      /\ ihole' = [ihole EXCEPT ![m] = 1] /\ clist' = [clist EXCEPT ![m] = {}]
  BY DEF Crash
<1>2. proc'[m] = "dead" /\ live_count'[m] = 0
  BY <1>1 DEF TypeInv
<1>3. Peers(m)' = {}
  <2>1. \A q \in Id : peer'[m][q] = 0
    BY <1>1 DEF TypeInv
  <2> QED
    BY <2>1 DEF Peers
<1>4. LiveOf(m)'
  BY <1>2, <1>3, FS_EmptySet DEF LiveOf
<1>5. ASSUME NEW r \in Id, r # m PROVE LiveOf(r)'
  <2>1. /\ proc'[r] = proc[r] /\ alist'[r] = alist[r] /\ live_count'[r] = live_count[r]
        /\ ihole'[r] = ihole[r] /\ clist'[r] = clist[r] /\ peer'[r] = peer[r]
    BY <1>1, <1>5 DEF TypeInv
  <2>2. Peers(r)' = Peers(r)
    BY <2>1 DEF Peers
  <2> QED
    BY <2>1, <2>2, LiveStays
<1> QED
  BY <1>4, <1>5

LEMMA WelcomeLive ==
  ASSUME TypeInv, \A r \in Id : LiveOf(r), NEW m \in Rest, proc[m] = "waiting", NEW msg, AckWelcome(m, msg),
         Founder \in msg.alist, \A i \in msg.alist : i < FirstHole(msg.ibase, msg.done)
  PROVE  \A r \in Id : LiveOf(r)'
<1>1. m \in Id /\ Founder \in Id /\ Founder # 0
  BY Numbers DEF Rest
<1>2. /\ proc' = [proc EXCEPT ![m] = "in"] /\ alist' = [alist EXCEPT ![m] = msg.alist]
      /\ peer' = [peer EXCEPT ![m][Founder] = Founder] /\ live_count' = [live_count EXCEPT ![m] = 2]
      /\ ihole' = [ihole EXCEPT ![m] = FirstHole(msg.ibase, msg.done)]
      /\ clist' = [clist EXCEPT ![m] = {[op |-> "ack_welcome", who |-> q] : q \in msg.alist \ {Founder, m}}]
  BY DEF AckWelcome
<1>3. Peers(m)' = Peers(m) \cup {Founder} /\ \A r \in Id : r # m => Peers(r)' = Peers(r)
  BY <1>1, <1>2, PeersSet
<1>4. Peers(m) = {}
  BY <1>1 DEF LiveOf
<1>5. Peers(m)' = {Founder} /\ Cardinality(Peers(m)') = 1
  <2>1. Cardinality(Peers(m) \cup {Founder}) = 1
    <3>1. Cardinality(Peers(m)) = 0 /\ Founder \notin Peers(m)
      BY <1>4, FS_EmptySet
    <3>2. Cardinality(Peers(m) \cup {Founder}) = Cardinality(Peers(m)) + (IF Founder \in Peers(m) THEN 0 ELSE 1)
      BY <1>1, PeersAre
    <3> QED
      BY <3>1, <3>2
  <2> QED
    BY <1>3, <1>4, <2>1
<1>6. /\ proc'[m] = "in" /\ alist'[m] = msg.alist /\ live_count'[m] = 2 /\ ihole'[m] = FirstHole(msg.ibase, msg.done)
      /\ \A k \in clist'[m] : k.who # Founder
  BY <1>1, <1>2 DEF TypeInv
<1>7. LiveOf(m)'
  BY <1>5, <1>6 DEF LiveOf
<1>8. ASSUME NEW r \in Id, r # m PROVE LiveOf(r)'
  <2>1. /\ proc'[r] = proc[r] /\ alist'[r] = alist[r] /\ live_count'[r] = live_count[r]
        /\ ihole'[r] = ihole[r] /\ clist'[r] = clist[r]
    BY <1>2, <1>8 DEF TypeInv
  <2> QED
    BY <1>3, <1>8, <2>1, LiveStays
<1> QED
  BY <1>7, <1>8

LEMMA ReadLive ==
  ASSUME SafeInv, WelcomesInv, \A r \in Id : LiveOf(r), NEW c \in Conn, NEW s \in Side, Read(c[s], c)
  PROVE  \A r \in Id : LiveOf(r)'
<1>1. ConnInv /\ TypeInv
  BY DEF SafeInv
<1>2. PICK m \in Id : m = c[s]
  BY SideIs
<1>3. SideOf(c, m) = s
  BY <1>2, SideIs
<1>4. PICK net : net = Took(c, s)
  OBVIOUS
<1>5. s \notin closed[c] /\ queue[c][s] # <<>> /\ Quiet /\ Dispatch(m, c, Head(queue[c][s]), net)
  BY <1>2, <1>3, <1>4 DEF Read, Took
<1>6. Head(queue[c][s]) = queue[c][s][1]
  BY <1>1, <1>5, TookIs
<1>7. PICK msg : msg = queue[c][s][1]
  OBVIOUS
<1>8. Dispatch(m, c, msg, net)
  BY <1>5, <1>6, <1>7
<1>9. CASE UNCHANGED <<proc, acceptors, ihole, clist>>
  BY <1>1, <1>9, AllStay DEF acceptors
<1>10. CASE proc[m] = "waiting" /\ msg.op = "welcome" /\ AckWelcome(m, msg)
  <2>1. c[1] = Founder
    BY <1>5, <1>7, <1>10, ReadOver DEF Hello
  <2>2. s = 2 /\ m \in Rest /\ c = Hub(m)
    <3>1. m # Founder
      BY <1>1, <1>10 DEF ConnInv, FounderInv
    <3> QED
      BY <1>2, <2>1, <3>1, SideIs
  <2>3. Down(m) # <<>> /\ Down(m) \in Seq(Message) /\ msg = Down(m)[1]
    BY <1>1, <1>5, <1>7, <2>2 DEF Down, TypeInv
  <2>4. 1 \in DOMAIN Down(m)
    BY <2>3
  <2>5. Founder \in msg.alist /\ \A i \in msg.alist : i < FirstHole(msg.ibase, msg.done)
    BY <1>10, <2>2, <2>3, <2>4 DEF WelcomesInv
  <2> QED
    BY <1>1, <1>10, <2>2, <2>5, WelcomeLive
<1>11. CASE In(m) /\ AckHello(m, c[1], net) /\ UNCHANGED <<log, proc, alist, instances, clist>>
  <2>1. PICK q \in Id : q = c[1]
    BY SideIs
  <2>2. AckHello(m, q, net)
    BY <1>11, <2>1
  <2> QED
    BY <1>1, <1>5, <1>11, <2>2, HelloLive
<1> QED
  BY <1>8, <1>9, <1>10, <1>11 DEF Dispatch, AckCommit, instances

LEMMA NextLive ==
  ASSUME SafeInv, LiveInv, Next
  PROVE  \A r \in Id : LiveOf(r)'
<1>1. TypeInv /\ WelcomesInv /\ \A r \in Id : LiveOf(r)
  BY DEF SafeInv, LiveInv
<1>2. ASSUME NEW v, v = Chat \/ v = Join(Len(log) + 1), Decree(v) PROVE \A r \in Id : LiveOf(r)'
  BY <1>1, <1>2, DecreeLive
<1>3. CASE UNCHANGED <<proc, acceptors, ihole, clist>>
  BY <1>1, <1>3, AllStay DEF acceptors
<1>4. ASSUME NEW i \in Id, AckAccept(i) \/ Commit(i) PROVE \A r \in Id : LiveOf(r)'
  BY <1>3, <1>4 DEF AckAccept, Commit, instances
<1>5. ASSUME NEW m \in Id, AckResend(m) PROVE \A r \in Id : LiveOf(r)'
  BY <1>3, <1>5 DEF AckResend
<1>6. ASSUME NEW m \in Id, Learn(m) \/ Continue(m) \/ Crash(m) PROVE \A r \in Id : LiveOf(r)'
  BY <1>1, <1>6, LearnLive, ContinueLive, CrashLive
<1>7. ASSUME NEW c \in Conn, NEW s \in Side, Read(c[s], c) \/ Drop(c[s], c) PROVE \A r \in Id : LiveOf(r)'
  BY <1>1, <1>7, ReadLive, DropLive
<1> QED
  BY <1>2, <1>4, <1>5, <1>6, <1>7 DEF Next, Event

LEMMA LiveIsKept ==
  ASSUME SafeInv, LiveInv, [SyncNext]_<<vars, syncing>>
  PROVE  LiveInv'
<1>1. TypeInv /\ WelcomesInv /\ \A r \in Id : LiveOf(r)
  BY DEF SafeInv, LiveInv
<1>2. WelcomesInv'
  <2>1. CASE SyncNext
    BY <1>1, <2>1, StepSafe, SafeView, MovesLists, Numbers
  <2>2. CASE UNCHANGED <<vars, syncing>>
    BY <1>1, <2>2 DEF vars, WelcomesInv, Down
  <2> QED
    BY <2>1, <2>2
<1>3. CASE UNCHANGED <<proc, acceptors, ihole, clist>>
  BY <1>1, <1>2, <1>3, AllStay DEF acceptors, LiveInv
<1>4. CASE Next
  BY <1>2, <1>4, NextLive DEF LiveInv
<1>5. CASE SyncTimer
  BY <1>3, <1>5 DEF SyncTimer, instances
<1>6. ASSUME NEW c \in Conn, NEW s \in Side, SyncRead(c[s], c) PROVE LiveInv'
  <2>1. UNCHANGED <<proc, acceptors, ihole, clist>>
    BY <1>6 DEF SyncRead, AckSync, AckLast, AckTruncate, Truncated, instances
  <2> QED
    BY <1>3, <2>1
<1>7. CASE UNCHANGED <<vars, syncing>>
  BY <1>3, <1>7 DEF vars, instances
<1> QED
  BY <1>4, <1>5, <1>6, <1>7 DEF SyncNext

LEMMA InitLive ==
  ASSUME SyncInit
  PROVE  LiveInv
<1>1. /\ TypeInv /\ Members = 1 .. Old /\ Members \subseteq Id /\ Founder \in Members
      /\ \A q \in Rest : Down(q) = <<>>
      /\ \A q \in Id : proc[q] = (IF q \in Members THEN "in" ELSE "none")
  BY InitType, InitIs
<1>2. WelcomesInv
  BY <1>1 DEF WelcomesInv
<1>3. peer = [m \in Id |-> [q \in Id |-> IF {m, q} \subseteq Members /\ m # q THEN Maker(m, q) ELSE 0]]
  BY DEF SyncInit, Init
<1>4. ASSUME NEW m \in Members PROVE LiveOf(m)
  <2>1. m \in Id /\ alist[m] = Members /\ live_count[m] = Old /\ ihole[m] = Old + 1 /\ clist[m] = {} /\ proc[m] = "in"
    BY <1>1, <1>4 DEF SyncInit, Init
  <2>2. \A q \in Id : peer[m][q] # 0 <=> q \in Members /\ q # m
    <3>1. \A q \in Id : Maker(m, q) # 0
      BY <2>1, Numbers DEF Maker
    <3> QED
      BY <1>3, <2>1, <3>1
  <2>3. Peers(m) = Members \ {m}
    BY <1>1, <2>2 DEF Peers
  <2>4. IsFiniteSet(Members) /\ Cardinality(Members) = Old
    BY <1>1, Numbers, FS_Interval
  <2>5. Cardinality(Peers(m)) = Old - 1
    BY <2>3, <2>4, FS_RemoveElement
  <2>6. Old \in Int /\ Old - 1 <= Old /\ Old = 1 + (Old - 1) /\ \A q \in Members : q < Old + 1
    BY <1>1, Numbers
  <2> QED
    BY <2>1, <2>3, <2>5, <2>6, <1>1 DEF LiveOf
<1>5. ASSUME NEW m \in Id, m \notin Members PROVE LiveOf(m)
  <2>1. alist[m] = {} /\ live_count[m] = 0 /\ proc[m] = "none"
    BY <1>1, <1>5 DEF SyncInit, Init
  <2>2. Peers(m) = {}
    BY <1>3, <1>5 DEF Peers
  <2> QED
    BY <2>1, <2>2, FS_EmptySet DEF LiveOf
<1> QED
  BY <1>2, <1>4, <1>5 DEF LiveInv

LEMMA LiveHolds == SyncSpec => []LiveInv
<1>1. SyncInit => LiveInv
  BY InitLive
<1>2. SafeInv /\ LiveInv /\ [SyncNext]_<<vars, syncing>> => LiveInv'
  BY LiveIsKept
<1> QED
  BY <1>1, <1>2, SafeHolds, PTL DEF SyncSpec

VotesInv == votes \in [Id -> SUBSET Id]

LEMMA VotesHold == SyncSpec => []VotesInv
<1>1. SyncInit => VotesInv
  BY DEF SyncInit, Init, VotesInv
<1>2. ASSUME SafeInv, VotesInv, [SyncNext]_<<vars, syncing>> PROVE VotesInv'
  <2>1. CASE UNCHANGED votes
    BY <1>2, <2>1 DEF VotesInv
  <2>2. ASSUME NEW i \in Id, Commit(i) PROVE VotesInv'
    BY <1>2, <2>2 DEF Commit, VotesInv
  <2>3. ASSUME NEW i \in Id, AckAccept(i) PROVE VotesInv'
    <3>1. PICK m \in Voters(i) : votes' = [votes EXCEPT ![i] = @ \cup {m}]
      BY <2>3 DEF AckAccept
    <3>2. m \in Id
      BY <1>2, <3>1, Numbers DEF Voters, SafeInv, TypeInv
    <3> QED
      BY <1>2, <3>1, <3>2 DEF VotesInv
  <2> QED
    BY <1>2, <2>1, <2>2, <2>3 DEF SyncNext, Next, vars
<1>3. SafeInv /\ VotesInv /\ [SyncNext]_<<vars, syncing>> => VotesInv'
  BY <1>2
<1> QED
  BY <1>1, <1>3, SafeHolds, PTL DEF SyncSpec

(***************************************************************************)
(* The state has its type: no count of the living is ever negative.        *)
(***************************************************************************)
THEOREM SyncTypeHolds == SyncSpec => []SyncTypeOK
<1>1. ASSUME SafeInv, LiveInv, VotesInv PROVE SyncTypeOK
  <2>1. TypeInv /\ SyncType
    BY <1>1 DEF SafeInv
  <2>2. \A m \in Id : live_count[m] \in Nat
    BY <1>1, <2>1, PeersAre DEF LiveInv, LiveOf
  <2>3. live_count \in [Id -> Nat]
    BY <2>1, <2>2 DEF TypeInv
  <2> QED
    BY <1>1, <2>1, <2>3 DEF TypeInv, VotesInv, SyncType, SyncTypeOK, TypeOK, Entry
<1>2. SafeInv /\ LiveInv /\ VotesInv => SyncTypeOK
  BY <1>1
<1> QED
  BY <1>2, SafeHolds, LiveHolds, VotesHold, PTL

(***************************************************************************)
(* When the client connects before state.connect() returns, as main.c      *)
(* does, live_count is exact, however hellos, drops, joins and parts are   *)
(* interleaved.                                                            *)
(***************************************************************************)
THEOREM LiveCountExact == Immediate /\ SyncSpec => []LiveCountOK
<1>1. ASSUME SafeInv, LiveInv, Immediate PROVE LiveCountOK
  <2> SUFFICES ASSUME NEW m \in Id, In(m) PROVE live_count[m] = 1 + Cardinality(Connected(m))
    BY DEF LiveCountOK
  <2>1. LiveOf(m) /\ alist[m] \subseteq Id
    BY <1>1 DEF LiveInv, SafeInv, TypeInv
  <2>2. Connected(m) = Peers(m)
    BY <2>1 DEF LiveOf, Connected, Peers
  <2> QED
    BY <1>1, <2>1, <2>2 DEF LiveOf, In
<1>2. Immediate => (SafeInv /\ LiveInv => LiveCountOK)
  BY <1>1
<1>3. CASE Immediate
  <2>1. SafeInv /\ LiveInv => LiveCountOK
    BY <1>2, <1>3
  <2>2. SyncSpec => []LiveCountOK
    BY <2>1, SafeHolds, LiveHolds, PTL
  <2> QED
    BY <2>2
<1> QED
  BY <1>3

=============================================================================
