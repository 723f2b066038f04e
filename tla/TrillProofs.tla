----------------------------- MODULE TrillProofs -----------------------------
(***************************************************************************)
(* Proved for any priorities: that the probes of Trill settle the roles,   *)
(* and on those roles what waits for a socket, and how far each end is in  *)
(* the handshake.                                                          *)
(***************************************************************************)
EXTENDS TrillProps, SequenceTheorems, TLAPS

Handshaker == {"retry_read", "recv"}   \* the callbacks of a handshake and after it

TypeInv ==
  /\ pri \in [Peer -> Nat]
  /\ state \in [Peer -> States]
  /\ flags \in [Peer -> {NoRole, "server", "client"}]
  /\ watch \in [Peer -> Seq(Callback)]
  /\ ready \in [Peer -> Seq(Callback)]
  /\ writers \in [Peer -> Nat]
  /\ timer \in [Peer -> {"off", "set", "fired"}]
  /\ DOMAIN net = Peer

(***************************************************************************)
(* What holds at each end by itself.  Nothing of a handshake waits before  *)
(* it is started; the callback that reads probes never waits after it.     *)
(***************************************************************************)
Resting(e) == watch[e] = <<>> /\ ready[e] = <<>> /\ writers[e] = 0 /\ timer[e] = "off"

Probing(e) ==
  /\ flags[e] = NoRole /\ writers[e] = 0 /\ timer[e] = "off"
  /\ watch[e] \in {<<>>, <<"read_probe">>}
  /\ ready[e] \in {<<>>, <<"read_probe">>}

Handshaking(e) ==
  /\ watch[e] \in Seq(Handshaker) /\ ready[e] \in Seq(Handshaker)
  /\ flags[e] = NoRole => Resting(e)

EndInv(e) ==
  /\ state[e] = "init" => flags[e] = NoRole /\ Resting(e)
  /\ state[e] = "probing" => Probing(e)
  /\ Shaking(e) => Handshaking(e) /\ flags[e] \in {NoRole, state[e]}
  /\ state[e] = "established" => Handshaking(e) /\ flags[e] # NoRole
  /\ Dead(e) => flags[e] # NoRole

(***************************************************************************)
(* What the ends know of each other: a probe carries the priority of its   *)
(* sender, and the acknowledge bit only when the sender is the server.     *)
(***************************************************************************)
Says(e, d) ==
  d.op = "probe" => d.pri = pri[e] /\ (d.ack => Role(e) = "server")

PairInv(e) ==
  /\ Role(e) = "server" => pri[e] < pri[Other(e)]
  /\ Role(e) = "client" => Role(Other(e)) = "server"
  /\ \A d \in net[e] : Says(Other(e), d)

RolesInv == TypeInv /\ \A e \in Peer : EndInv(e) /\ PairInv(e)

-----------------------------------------------------------------------------
(***************************************************************************)
(* What one step of the end e does to the pair: e finds the probe for the  *)
(* role it takes, and the other end only gets datagrams.                   *)
(***************************************************************************)
Local(x) == <<state[x], flags[x], watch[x], ready[x], writers[x], timer[x]>>

TakesRole(e) ==
  /\ Role(e) = NoRole
  /\ \E d \in net[e] :
       /\ d.op = "probe"
       /\ \/ Role(e)' = "server" /\ pri[e] < d.pri
          \/ Role(e)' = "client" /\ d.ack

Sends(e) ==
  /\ DOMAIN net' = Peer /\ net'[e] = net[e]
  /\ \A d \in net'[Other(e)] : d \in net[Other(e)] \/ Says(e, d)'

EndStep(e) ==
  /\ TypeInv' /\ pri' = pri
  /\ Local(Other(e))' = Local(Other(e))
  /\ EndInv(e)'
  /\ Sends(e)
  /\ Role(e)' = Role(e) \/ TakesRole(e)

LEMMA TwoPeers == Peer = {0, 1} /\ \A e \in Peer : Other(e) \in Peer /\ Other(e) # e /\ Other(Other(e)) = e
BY DEF Peer, Other

LEMMA RolesInit == Init => RolesInv
<1> SUFFICES ASSUME Init PROVE RolesInv
  OBVIOUS
<1>1. TypeInv
  <2>1. pri \in [Peer -> Nat]
    BY PriorityAssumption DEF Init
  <2>2. /\ state \in [Peer -> States] /\ flags \in [Peer -> {NoRole, "server", "client"}]
        /\ writers \in [Peer -> Nat] /\ timer \in [Peer -> {"off", "set", "fired"}]
        /\ DOMAIN net = Peer
    BY DEF Init, States, NoRole
  <2>3. watch \in [Peer -> Seq(Callback)] /\ ready \in [Peer -> Seq(Callback)]
    BY DEF Init
  <2> QED BY <2>1, <2>2, <2>3 DEF TypeInv
<1>2. ASSUME NEW e \in Peer PROVE EndInv(e) /\ PairInv(e)
  BY <1>2, TwoPeers DEF Init, EndInv, PairInv, Resting, Shaking, Dead, Role, NoRole
<1> QED BY <1>1, <1>2 DEF RolesInv

(* A step of one end keeps the invariant, and is one of Pairing's. *)
LEMMA StepKeepsRoles ==
  ASSUME NEW e \in Peer, RolesInv, EndStep(e)
  PROVE  RolesInv' /\ [Pair!Next]_roles
<1> DEFINE o == Other(e)
<1>1. o \in Peer /\ o # e /\ Peer = {e, o} /\ Other(o) = e
  BY TwoPeers
<1>2. Role(o)' = Role(o) /\ EndInv(o)'
  BY <1>1 DEF EndStep, Local, Role, EndInv, Shaking, Dead, Resting, Probing, Handshaking, RolesInv
<1>3. TypeInv' /\ EndInv(e)' /\ pri' = pri /\ pri \in [Peer -> Nat]
  BY DEF EndStep, RolesInv, TypeInv
<1>4. \A d \in net[e] : Says(o, d)
  BY <1>1 DEF RolesInv, PairInv
<1>5. Role(e)' = "server" /\ Role(e) = NoRole => pri[e] < pri[o]
  BY <1>4 DEF EndStep, TakesRole, Says, NoRole
<1>6. Role(e)' = "client" /\ Role(e) = NoRole => Role(o) = "server"
  BY <1>4 DEF EndStep, TakesRole, Says, NoRole
<1>7. Role(e) = NoRole \/ Role(e)' = Role(e)
  BY DEF EndStep, TakesRole
<1>8. PairInv(e) /\ PairInv(o)
  BY <1>1 DEF RolesInv
<1>9. PairInv(e)'
  <2>1. Role(e)' = "server" => pri[e] < pri[o]
    BY <1>5, <1>7, <1>8 DEF PairInv
  <2>2. Role(e)' = "client" => Role(o)' = "server"
    BY <1>2, <1>6, <1>7, <1>8 DEF PairInv
  <2>3. \A d \in net'[e] : Says(o, d)'
    BY <1>2, <1>3, <1>4 DEF EndStep, Sends, Says
  <2> QED BY <1>3, <2>1, <2>2, <2>3 DEF PairInv
<1>10. PairInv(o)'
  <2>1. Role(o)' = "server" => pri[o] < pri[e]
    BY <1>1, <1>2, <1>8 DEF PairInv
  <2>2. Role(o)' = "client" => Role(e)' = "server"
    BY <1>1, <1>2, <1>7, <1>8 DEF PairInv, NoRole
  <2>3. ASSUME NEW d \in net'[o] PROVE Says(e, d)'
    <3>1. CASE d \in net[o]
      <4>1. Says(e, d)
        BY <1>1, <1>8, <3>1 DEF PairInv
      <4> QED BY <1>3, <1>7, <4>1 DEF Says, NoRole
    <3> QED BY <2>3, <3>1 DEF EndStep, Sends
  <2> QED BY <1>1, <1>3, <2>1, <2>2, <2>3 DEF PairInv
<1>11. RolesInv'
  BY <1>1, <1>2, <1>3, <1>9, <1>10 DEF RolesInv
<1>12. CASE Role(e)' = Role(e)
  BY <1>1, <1>2, <1>11, <1>12 DEF roles
<1>13. CASE Role(e) = NoRole /\ Role(e)' \in {"server", "client"}
  <2>1. Role(e)' = "server" => Role(o) = NoRole
    <3>1. Role(o) \in {NoRole, "server", "client"}
      BY <1>1 DEF RolesInv, TypeInv, Role, Shaking
    <3>2. Role(e)' = "server" => Role(o) # "server"
      BY <1>1, <1>3, <1>5, <1>8, <1>13 DEF PairInv
    <3>3. Role(o) # "client"
      BY <1>1, <1>8, <1>13 DEF PairInv, NoRole
    <3> QED BY <3>1, <3>2, <3>3
  <2>2. e \in Pair!Peer /\ Pair!Other(e) = o
    BY DEF Pair!Peer, Pair!Other, Peer, Other
  <2>3. roles' = [roles EXCEPT ![e] = Role(e)'] /\ \A x \in Peer : roles[x] = Role(x)
    BY <1>1, <1>2 DEF roles
  <2>4. CASE Role(e)' = "server"
    <3>1. Pair!Serve(e)
      BY <1>1, <1>13, <2>1, <2>2, <2>3, <2>4 DEF Pair!Serve, NoRole
    <3> QED BY <1>11, <2>2, <3>1 DEF Pair!Next
  <2>5. CASE Role(e)' = "client"
    <3>1. Pair!Follow(e)
      BY <1>1, <1>6, <1>13, <2>2, <2>3, <2>5 DEF Pair!Follow, NoRole
    <3> QED BY <1>11, <2>2, <3>1 DEF Pair!Next
  <2> QED BY <1>13, <2>4, <2>5
<1> QED BY <1>11, <1>12, <1>13 DEF EndStep, TakesRole

-----------------------------------------------------------------------------
(* The sequences of callbacks that wait. *)

LEMMA WithoutType ==
  ASSUME NEW S, NEW s \in Seq(S), NEW k
  PROVE  Without(s, k) \in Seq(S)
<1>1. CASE \E i \in DOMAIN s : s[i] = k
  <2> DEFINE n == CHOOSE i \in DOMAIN s : s[i] = k
  <2>1. n \in 1 .. Len(s)
    BY <1>1
  <2>2. SubSeq(s, 1, n - 1) \in Seq(S) /\ SubSeq(s, n + 1, Len(s)) \in Seq(S)
    <3> HIDE DEF n
    <3>1. n \in Int /\ Len(s) \in Int /\ \A i \in 1 .. Len(s) : s[i] \in S
      BY <2>1
    <3>2. SubSeq(s, 1, n - 1) \in Seq(S)
      BY <2>1, <3>1, SubSeqProperties
    <3>3. SubSeq(s, n + 1, Len(s)) \in Seq(S)
      BY <2>1, <3>1, SubSeqProperties
    <3> QED BY <3>2, <3>3
  <2> QED BY <1>1, <2>2 DEF Without
<1>2. CASE ~\E i \in DOMAIN s : s[i] = k
  BY <1>2 DEF Without
<1> QED BY <1>1, <1>2

(* The only callback that waits is removed. *)
LEMMA WithoutOnly ==
  ASSUME NEW k, NEW s \in {<<>>, <<k>>}
  PROVE  Without(s, k) = <<>>
<1>1. CASE s = <<k>>
  <2>1. \E i \in DOMAIN s : s[i] = k
    BY <1>1
  <2> DEFINE n == CHOOSE i \in DOMAIN s : s[i] = k
  <2>2. n = 1 /\ Len(s) = 1
    BY <1>1, <2>1
  <2>3. SubSeq(s, 1, 0) = <<>> /\ SubSeq(s, 2, 1) = <<>>
    BY <1>1
  <2> QED BY <2>1, <2>2, <2>3 DEF Without
<1>2. CASE s = <<>>
  BY <1>2 DEF Without
<1> QED BY <1>1, <1>2

LEMMA HandshakerSeqs == Seq(Handshaker) \subseteq Seq(Callback)
BY DEF Handshaker, Callback

-----------------------------------------------------------------------------
(* The handshake. *)

Outcome == {"success", "failure", "loops", "retry_read", "retry_write"}

LEMMA HandshakeResult ==
  ASSUME NEW f, NEW at, NEW d, NEW h \in Handshakes(f, at, d)
  PROVE  /\ h.r \in Outcome /\ \A x \in h.out : x.op = "dtls"
         /\ Readers(h) \in Seq(Handshaker) /\ Writers(h) \in Nat
         /\ \A s \in States : After(h, s) \in {s, "established", "looping"}
<1>1. h.r \in Outcome /\ \A x \in h.out : x.op = "dtls"
  BY DEF Handshakes, Result, Flight, Outcome
<1>2. <<"recv">> \in Seq(Handshaker) /\ <<"retry_read">> \in Seq(Handshaker) /\ <<>> \in Seq(Handshaker)
  BY DEF Handshaker
<1> QED BY <1>1, <1>2 DEF Outcome, Readers, Writers, After, States

(* What a callback of the handshake does to its end. *)
Shakes(e, h) ==
  /\ Shaking(e) /\ flags[e] # NoRole
  /\ h.r \in Outcome /\ \A x \in h.out : x.op = "dtls"
  /\ Handshake(e, h)
  /\ flags' = flags /\ pri' = pri
  /\ watch' = [watch EXCEPT ![e] = watch'[e]] /\ watch'[e] \in Seq(Handshaker)
  /\ ready' = [ready EXCEPT ![e] = ready'[e]] /\ ready'[e] \in Seq(Handshaker)
  /\ writers' = [writers EXCEPT ![e] = writers'[e]] /\ writers'[e] \in Nat
  /\ timer' = [timer EXCEPT ![e] = timer'[e]] /\ timer'[e] \in {"set", "off", "fired"}

LEMMA ShakesEndStep ==
  ASSUME NEW e \in Peer, RolesInv, NEW h, Shakes(e, h)
  PROVE  EndStep(e)
<1>1. /\ Other(e) \in Peer /\ Other(e) # e
      /\ TypeInv /\ EndInv(e)
      /\ state' = [state EXCEPT ![e] = After(h, @)]
      /\ flags[e] = state[e]
  BY TwoPeers DEF RolesInv, Shakes, Handshake, EndInv
<1>2. After(h, state[e]) \in {state[e], "established", "looping"}
  BY DEF Shakes, After, Outcome
<1>3. TypeInv'
  <2>1. state' \in [Peer -> States] /\ flags' \in [Peer -> {NoRole, "server", "client"}] /\ pri' \in [Peer -> Nat]
    BY <1>1, <1>2 DEF TypeInv, Shakes, States
  <2>2. watch' \in [Peer -> Seq(Callback)] /\ ready' \in [Peer -> Seq(Callback)]
    BY <1>1, HandshakerSeqs DEF TypeInv, Shakes
  <2>3. writers' \in [Peer -> Nat] /\ timer' \in [Peer -> {"off", "set", "fired"}]
    <3>1. PICK n \in Nat : n = writers'[e]
      BY DEF Shakes
    <3>2. writers' = [writers EXCEPT ![e] = n] /\ writers \in [Peer -> Nat]
      BY <1>1, <3>1 DEF TypeInv, Shakes
    <3>3. PICK t \in {"off", "set", "fired"} : t = timer'[e]
      BY DEF Shakes
    <3>4. timer' = [timer EXCEPT ![e] = t] /\ timer \in [Peer -> {"off", "set", "fired"}]
      BY <1>1, <3>3 DEF TypeInv, Shakes
    <3> QED BY <3>2, <3>4
  <2>4. DOMAIN net' = Peer
    BY <1>1 DEF TypeInv, Shakes, Handshake, Send
  <2> QED BY <2>1, <2>2, <2>3, <2>4 DEF TypeInv
<1>4. state'[e] \in {state[e], "established", "looping"} /\ state[e] \in {"server", "client"}
  BY <1>1, <1>2 DEF TypeInv, Shakes, Shaking
<1>5. Role(e)' = Role(e)
  BY <1>1, <1>4 DEF Role, Shaking, Dead, Shakes
<1>6. EndInv(e)'
  <2>1. watch'[e] \in Seq(Handshaker) /\ ready'[e] \in Seq(Handshaker)
    BY <1>1 DEF TypeInv, Shakes
  <2> QED BY <1>1, <1>4, <2>1 DEF Shakes, EndInv, Handshaking, Shaking, Dead, NoRole
<1>7. Local(Other(e))' = Local(Other(e))
  BY <1>1 DEF Local, Shakes, TypeInv
<1>8. Sends(e)
  <2>1. net'[e] = net[e] /\ DOMAIN net' = Peer /\ net'[Other(e)] = net[Other(e)] \cup h.out
    <3>1. net' = [net EXCEPT ![Other(e)] = @ \cup h.out]
      BY DEF Shakes, Handshake, Send
    <3> QED BY <1>1, <3>1 DEF TypeInv
  <2>2. ASSUME NEW d \in h.out PROVE Says(e, d)'
    BY <2>2 DEF Shakes, Says
  <2> QED BY <2>1, <2>2 DEF Sends
<1> QED BY <1>3, <1>5, <1>6, <1>7, <1>8 DEF EndStep, Shakes

(* A callback that finds a state it asserts against, after the handshake has started. *)
LEMMA AbortEndStep ==
  ASSUME NEW e \in Peer, RolesInv, Abort(e), flags[e] # NoRole,
         state[e] \in {"server", "client", "established"},
         NEW r \in Seq(Callback), ready' = [ready EXCEPT ![e] = r]
  PROVE  EndStep(e)
<1>1. Other(e) \in Peer /\ Other(e) # e /\ TypeInv /\ EndInv(e)
  BY TwoPeers DEF RolesInv
<1>2. TypeInv'
  BY <1>1 DEF TypeInv, Abort, States
<1>3. Role(e)' = Role(e) /\ EndInv(e)'
  BY <1>1 DEF Role, EndInv, Abort, Shaking, Dead, TypeInv
<1>4. Local(Other(e))' = Local(Other(e)) /\ Sends(e)
  BY <1>1 DEF Local, Abort, Sends, TypeInv
<1> QED BY <1>2, <1>3, <1>4 DEF EndStep, Abort

(* The callbacks of the handshake wait only once it has started. *)
LEMMA Started ==
  ASSUME NEW e \in Peer, RolesInv,
         \/ ~Dead(e) /\ ready[e] # <<>> /\ Head(ready[e]) \in Handshaker
         \/ ~Dead(e) /\ writers[e] > 0
         \/ Shaking(e) /\ timer[e] = "set"
  PROVE  /\ state[e] \in {"server", "client", "established"}
         /\ Handshaking(e) /\ flags[e] # NoRole
<1>1. EndInv(e) /\ state[e] \in States
  BY DEF RolesInv, TypeInv
<1>2. Head(<<"read_probe">>) \notin Handshaker
  BY DEF Handshaker
<1>3. state[e] # "init" /\ state[e] # "probing"
  BY <1>1, <1>2 DEF EndInv, Resting, Probing, Shaking
<1>4. state[e] \in {"server", "client", "established"} /\ Handshaking(e)
  BY <1>1, <1>3 DEF EndInv, Dead, Shaking, States
<1>5. ~Resting(e)
  BY DEF Resting
<1> QED BY <1>4, <1>5 DEF Handshaking

-----------------------------------------------------------------------------
(* The actions, one by one. *)

LEMMA ConnectEndStep ==
  ASSUME NEW e \in Peer, RolesInv, Connect(e)
  PROVE  EndStep(e)
<1>1. Other(e) \in Peer /\ Other(e) # e /\ TypeInv /\ EndInv(e)
  BY TwoPeers DEF RolesInv
<1>2. /\ watch[e] = <<>> /\ ready[e] = <<>> /\ writers[e] = 0 /\ timer[e] = "off"
      /\ flags[e] = NoRole
  BY <1>1 DEF Connect, EndInv, Resting
<1>3. Append(<<>>, "read_probe") = <<"read_probe">> /\ <<"read_probe">> \in Seq(Callback)
  BY DEF Callback
<1>4. TypeInv'
  BY <1>1, <1>2, <1>3 DEF TypeInv, Connect, States, dtls
<1>5. EndInv(e)'
  BY <1>1, <1>2, <1>3 DEF TypeInv, EndInv, Probing, Shaking, Dead, Connect, dtls
<1>6. Role(e)' = Role(e)
  BY <1>1 DEF TypeInv, Role, Shaking, Dead, Connect, dtls
<1>7. Local(Other(e))' = Local(Other(e)) /\ Sends(e)
  BY <1>1 DEF TypeInv, Local, Sends, Connect, dtls
<1> QED BY <1>4, <1>5, <1>6, <1>7 DEF EndStep, Connect

LEMMA SendProbeEndStep ==
  ASSUME NEW e \in Peer, RolesInv, SendProbe(e)
  PROVE  EndStep(e)
<1>1. Other(e) \in Peer /\ Other(e) # e /\ TypeInv /\ EndInv(e)
  BY TwoPeers DEF RolesInv
<1>2. /\ TypeInv' /\ EndInv(e)' /\ Role(e)' = Role(e) /\ Local(Other(e))' = Local(Other(e))
  BY <1>1 DEF TypeInv, EndInv, Resting, Probing, Handshaking, Role, Shaking, Dead, Local, SendProbe, Send, dtls
<1>3. Sends(e)
  <2>1. state[e] = "server" => Role(e) = "server"
    BY DEF Role, Shaking
  <2>2. CASE net' = net
    BY <1>1, <2>2 DEF Sends, TypeInv
  <2>3. CASE Send(e, {Probe(pri[e], state[e] = "server")})
    <3> DEFINE p == Probe(pri[e], state[e] = "server")
    <3>1. p.pri = pri[e] /\ p.ack = (state[e] = "server")
      BY DEF Probe
    <3>2. ASSUME NEW d, d = p PROVE Says(e, d)'
      BY <1>2, <2>1, <3>1, <3>2 DEF Says, SendProbe
    <3>3. net'[e] = net[e] /\ DOMAIN net' = Peer /\ net'[Other(e)] = net[Other(e)] \cup {p}
      BY <1>1, <2>3 DEF Send, TypeInv
    <3>4. ASSUME NEW d \in net'[Other(e)] PROVE d \in net[Other(e)] \/ Says(e, d)'
      <4>1. d \in net[Other(e)] \/ d = p
        BY <3>3
      <4> HIDE DEF p
      <4> QED BY <3>2, <4>1
    <3> QED BY <3>3, <3>4 DEF Sends
  <2> QED BY <2>2, <2>3 DEF SendProbe
<1> QED BY <1>2, <1>3 DEF EndStep, SendProbe

LEMMA WakeEndStep ==
  ASSUME NEW e \in Peer, RolesInv, Wake(e)
  PROVE  EndStep(e)
<1>1. Other(e) \in Peer /\ Other(e) # e /\ TypeInv /\ EndInv(e)
  BY TwoPeers DEF RolesInv
<1>2. TypeInv' /\ ready'[e] = watch[e]
  BY <1>1 DEF TypeInv, Wake
<1>3. EndInv(e)'
  BY <1>1, <1>2 DEF EndInv, Resting, Probing, Handshaking, Shaking, Dead, Wake
<1>4. Role(e)' = Role(e) /\ Local(Other(e))' = Local(Other(e)) /\ Sends(e)
  BY <1>1 DEF TypeInv, Role, Shaking, Dead, Local, Sends, Wake
<1> QED BY <1>2, <1>3, <1>4 DEF EndStep, Wake

LEMMA HandshakeTimerEndStep ==
  ASSUME NEW e \in Peer, RolesInv, HandshakeTimer(e)
  PROVE  EndStep(e)
<1>1. Other(e) \in Peer /\ Other(e) # e /\ TypeInv /\ EndInv(e)
  BY TwoPeers DEF RolesInv
<1>2. CASE state[e] = "established"
  <2>1. /\ timer' = [timer EXCEPT ![e] = "fired"] /\ ready' = ready
        /\ UNCHANGED <<pri, state, flags, watch, writers, net>>
    BY <1>2 DEF HandshakeTimer, Shaking
  <2>2. TypeInv' /\ EndInv(e)' /\ Role(e)' = Role(e)
    BY <1>1, <1>2, <2>1 DEF TypeInv, EndInv, Handshaking, Role, Shaking, Dead
  <2>3. Local(Other(e))' = Local(Other(e)) /\ Sends(e)
    BY <1>1, <2>1 DEF TypeInv, Local, Sends
  <2> QED BY <2>1, <2>2, <2>3 DEF EndStep
<1>3. CASE Shaking(e)
  <2>1. Handshaking(e) /\ flags[e] # NoRole
    BY <1>3, Started DEF HandshakeTimer
  <2>2. PICK d \in net[e] \cup {Nothing} : \E h \in Handshakes(flags[e], flight[e], d) :
          /\ Handshake(e, h)
          /\ watch' = [watch EXCEPT ![e] = @ \o Readers(h)]
          /\ writers' = [writers EXCEPT ![e] = @ + Writers(h)]
          /\ timer' = [timer EXCEPT ![e] = IF h.r = "failure" THEN "set" ELSE "fired"]
    BY <1>3 DEF HandshakeTimer, Shaking
  <2>3. PICK h \in Handshakes(flags[e], flight[e], d) :
          /\ Handshake(e, h)
          /\ watch' = [watch EXCEPT ![e] = @ \o Readers(h)]
          /\ writers' = [writers EXCEPT ![e] = @ + Writers(h)]
          /\ timer' = [timer EXCEPT ![e] = IF h.r = "failure" THEN "set" ELSE "fired"]
    BY <2>2
  <2>4. Shakes(e, h)
    <3>1. watch[e] \o Readers(h) \in Seq(Handshaker) /\ writers[e] + Writers(h) \in Nat
      BY <1>1, <2>1, HandshakeResult DEF Handshaking, TypeInv
    <3>2. ready' = ready /\ ready[e] \in Seq(Handshaker)
      BY <1>1, <2>1 DEF HandshakeTimer, Handshaking, TypeInv
    <3>3. flags' = flags /\ pri' = pri
      BY <1>3 DEF HandshakeTimer, Shaking
    <3>4. /\ watch' = [watch EXCEPT ![e] = watch'[e]] /\ watch'[e] \in Seq(Handshaker)
          /\ writers' = [writers EXCEPT ![e] = writers'[e]] /\ writers'[e] \in Nat
      BY <1>1, <2>3, <3>1 DEF TypeInv
    <3>5. /\ timer' = [timer EXCEPT ![e] = timer'[e]] /\ timer'[e] \in {"set", "off", "fired"}
          /\ ready' = [ready EXCEPT ![e] = ready'[e]] /\ ready'[e] \in Seq(Handshaker)
      BY <1>1, <2>3, <3>2 DEF TypeInv
    <3>6. h.r \in Outcome /\ \A x \in h.out : x.op = "dtls"
      BY HandshakeResult
    <3> QED BY <1>3, <2>1, <2>3, <3>3, <3>4, <3>5, <3>6 DEF Shakes
  <2> QED BY <2>4, ShakesEndStep
<1> QED BY <1>2, <1>3 DEF HandshakeTimer

LEMMA RetryWriteEndStep ==
  ASSUME NEW e \in Peer, RolesInv, RetryWrite(e)
  PROVE  EndStep(e)
<1>1. /\ Other(e) \in Peer /\ Other(e) # e /\ TypeInv /\ EndInv(e)
      /\ state[e] \in {"server", "client", "established"} /\ Handshaking(e) /\ flags[e] # NoRole
  BY TwoPeers, Started DEF RolesInv, RetryWrite, Idle
<1>2. ready' = [ready EXCEPT ![e] = ready[e]] /\ ready[e] \in Seq(Handshaker)
  BY <1>1 DEF RetryWrite, Handshaking, TypeInv
<1>3. CASE Shaking(e)
  <2>1. /\ flags' = flags /\ pri' = pri /\ timer' = timer
        /\ \E h \in Handshakes(flags[e], flight[e], Nothing) :
             /\ Handshake(e, h)
             /\ watch' = [watch EXCEPT ![e] = @ \o Readers(h)]
             /\ writers' = [writers EXCEPT ![e] = @ - 1 + Writers(h)]
    BY <1>3 DEF RetryWrite
  <2>2. PICK h \in Handshakes(flags[e], flight[e], Nothing) :
          /\ Handshake(e, h)
          /\ watch' = [watch EXCEPT ![e] = @ \o Readers(h)]
          /\ writers' = [writers EXCEPT ![e] = @ - 1 + Writers(h)]
    BY <2>1
  <2>3. Shakes(e, h)
    <3>1. watch[e] \o Readers(h) \in Seq(Handshaker) /\ writers[e] - 1 + Writers(h) \in Nat
      BY <1>1, HandshakeResult DEF Handshaking, TypeInv, RetryWrite
    <3>2. /\ watch' = [watch EXCEPT ![e] = watch'[e]] /\ watch'[e] \in Seq(Handshaker)
          /\ writers' = [writers EXCEPT ![e] = writers'[e]] /\ writers'[e] \in Nat
      BY <1>1, <2>2, <3>1 DEF TypeInv
    <3>3. /\ timer' = [timer EXCEPT ![e] = timer'[e]] /\ timer'[e] \in {"set", "off", "fired"}
          /\ ready' = [ready EXCEPT ![e] = ready'[e]] /\ ready'[e] \in Seq(Handshaker)
      BY <1>1, <1>2, <2>1 DEF TypeInv
    <3>4. h.r \in Outcome /\ \A x \in h.out : x.op = "dtls"
      BY HandshakeResult
    <3> QED BY <1>1, <1>3, <2>1, <2>2, <3>2, <3>3, <3>4 DEF Shakes
  <2> QED BY <2>3, ShakesEndStep
<1>4. CASE ~Shaking(e)
  BY <1>1, <1>2, <1>4, HandshakerSeqs, AbortEndStep DEF RetryWrite, Shaking
<1> QED BY <1>3, <1>4

LEMMA RetryReadEndStep ==
  ASSUME NEW e \in Peer, RolesInv, NEW d, RetryRead(e, d)
  PROVE  EndStep(e)
<1>1. /\ Other(e) \in Peer /\ Other(e) # e /\ TypeInv /\ EndInv(e)
      /\ state[e] \in {"server", "client", "established"} /\ Handshaking(e) /\ flags[e] # NoRole
  BY TwoPeers, Started DEF RolesInv, RetryRead, Runs, Handshaker
<1>2. ready' = [ready EXCEPT ![e] = Tail(ready[e])] /\ Tail(ready[e]) \in Seq(Handshaker)
  BY <1>1 DEF RetryRead, Runs, Handshaking, TypeInv
<1>3. CASE Shaking(e)
  <2>1. /\ flags' = flags /\ pri' = pri /\ timer' = timer
        /\ \E h \in Handshakes(flags[e], flight[e], d) :
             /\ Handshake(e, h)
             /\ Kept(e, "retry_read", h.r = "retry_read", IF h.r = "success" THEN <<"recv">> ELSE <<>>)
             /\ writers' = [writers EXCEPT ![e] = @ + Writers(h)]
    BY <1>3 DEF RetryRead
  <2>2. PICK h \in Handshakes(flags[e], flight[e], d) :
          /\ Handshake(e, h)
          /\ Kept(e, "retry_read", h.r = "retry_read", IF h.r = "success" THEN <<"recv">> ELSE <<>>)
          /\ writers' = [writers EXCEPT ![e] = @ + Writers(h)]
    BY <2>1
  <2>3. Shakes(e, h)
    <3>1. writers' = [writers EXCEPT ![e] = writers'[e]] /\ writers'[e] \in Nat
      <4>1. writers[e] + Writers(h) \in Nat
        BY <1>1, HandshakeResult DEF TypeInv
      <4> QED BY <1>1, <2>2, <4>1 DEF TypeInv
    <3>2. /\ timer' = [timer EXCEPT ![e] = timer'[e]] /\ timer'[e] \in {"set", "off", "fired"}
          /\ ready' = [ready EXCEPT ![e] = ready'[e]] /\ ready'[e] \in Seq(Handshaker)
      BY <1>1, <1>2, <2>1 DEF TypeInv
    <3>3. watch' = [watch EXCEPT ![e] = watch'[e]] /\ watch'[e] \in Seq(Handshaker)
      <4> DEFINE rest == IF h.r = "retry_read" THEN watch[e] ELSE Without(watch[e], "retry_read")
                 more == IF h.r = "success" THEN <<"recv">> ELSE <<>>
      <4>1. rest \in Seq(Handshaker)
        BY <1>1, WithoutType DEF Handshaking
      <4>2. more \in Seq(Handshaker)
        <5>1. <<"recv">> \in Seq(Handshaker) /\ <<>> \in Seq(Handshaker)
          BY DEF Handshaker
        <5> QED BY <5>1
      <4>3. rest \o more \in Seq(Handshaker)
        <5> HIDE DEF rest, more
        <5> QED BY <4>1, <4>2
      <4>4. watch' = [watch EXCEPT ![e] = rest \o more]
        BY <2>2 DEF Kept
      <4> HIDE DEF rest, more
      <4> QED BY <1>1, <4>3, <4>4 DEF TypeInv
    <3>4. h.r \in Outcome /\ \A x \in h.out : x.op = "dtls"
      BY HandshakeResult
    <3> QED BY <1>1, <1>3, <2>1, <2>2, <3>1, <3>2, <3>3, <3>4 DEF Shakes
  <2> QED BY <2>3, ShakesEndStep
<1>4. CASE ~Shaking(e)
  BY <1>1, <1>2, <1>4, HandshakerSeqs, AbortEndStep DEF RetryRead, Shaking
<1> QED BY <1>3, <1>4

LEMMA RecvEndStep ==
  ASSUME NEW e \in Peer, RolesInv, NEW d, Recv(e, d)
  PROVE  EndStep(e)
<1>1. /\ Other(e) \in Peer /\ Other(e) # e /\ TypeInv /\ EndInv(e)
      /\ state[e] \in {"server", "client", "established"} /\ Handshaking(e) /\ flags[e] # NoRole
  BY TwoPeers, Started DEF RolesInv, Recv, Runs, Handshaker
<1>2. ready' = [ready EXCEPT ![e] = Tail(ready[e])] /\ Tail(ready[e]) \in Seq(Handshaker)
  BY <1>1 DEF Recv, Runs, Handshaking, TypeInv
<1>3. CASE state[e] = "established"
  <2>1. UNCHANGED <<pri, state, flags, watch, writers, timer>>
    BY <1>3 DEF Recv
  <2>2. TypeInv' /\ Sends(e)
    <3>1. DOMAIN net' = Peer /\ net'[e] = net[e]
          /\ \A x \in net'[Other(e)] : x \in net[Other(e)] \/ x.op = "dtls"
      BY <1>1, <1>3 DEF Recv, Send, Flight, TypeInv
    <3>2. TypeInv'
      BY <1>1, <1>2, <2>1, <3>1, HandshakerSeqs DEF TypeInv
    <3> QED BY <3>1, <3>2 DEF Sends, Says
  <2>3. EndInv(e)' /\ Role(e)' = Role(e) /\ Local(Other(e))' = Local(Other(e))
    BY <1>1, <1>2, <1>3, <2>1 DEF TypeInv, EndInv, Handshaking, Role, Shaking, Dead, Local
  <2> QED BY <2>1, <2>2, <2>3 DEF EndStep
<1>4. CASE state[e] # "established"
  <2>1. Abort(e)
    BY <1>4 DEF Recv
  <2> QED BY <1>1, <1>2, <2>1, HandshakerSeqs, AbortEndStep
<1> QED BY <1>3, <1>4

(* The start of the handshake: the end takes the role f, and its only      *)
(* callback is done.                                                       *)
LEMMA StartTLSEndStep ==
  ASSUME NEW e \in Peer, RolesInv, state[e] = "probing",
         NEW f \in {"server", "client"}, NEW probe,
         StartTLS(e, f, probe), pri' = pri,
         ready' = [ready EXCEPT ![e] = <<>>],
         probe \in {{}, {Probe(pri[e], TRUE)}}, f = "client" => probe = {}
  PROVE  /\ TypeInv' /\ EndInv(e)' /\ Sends(e)
         /\ Local(Other(e))' = Local(Other(e)) /\ Role(e)' = f
<1>1. Other(e) \in Peer /\ Other(e) # e /\ TypeInv /\ Probing(e)
  BY TwoPeers DEF RolesInv, EndInv
<1>2. ASSUME NEW more \in Seq(Handshaker), Kept(e, "read_probe", FALSE, more)
      PROVE  watch' = [watch EXCEPT ![e] = more]
  <2>1. Without(watch[e], "read_probe") = <<>>
    BY <1>1, WithoutOnly DEF Probing
  <2>2. <<>> \o more = more
    OBVIOUS
  <2> QED BY <1>2, <2>1, <2>2 DEF Kept
<1>3. <<>> \in Seq(Handshaker) /\ <<>> \in Seq(Callback)
  OBVIOUS
<1>4. ASSUME Role(e)' = f,
             NEW out, \A d \in out : d.op = "dtls", Send(e, out \cup probe)
      PROVE  Sends(e) /\ DOMAIN net' = Peer
  <2>1. net' = [net EXCEPT ![Other(e)] = @ \cup (out \cup probe)]
    BY <1>4 DEF Send
  <2>2. net'[e] = net[e] /\ DOMAIN net' = Peer /\ net'[Other(e)] = net[Other(e)] \cup (out \cup probe)
    BY <1>1, <2>1 DEF TypeInv
  <2>3. ASSUME NEW d \in out \cup probe PROVE Says(e, d)'
    <3>1. CASE d \in out
      BY <1>4, <3>1 DEF Says
    <3>2. CASE d \in probe
      <4>1. d = Probe(pri[e], TRUE) /\ f = "server"
        BY <3>2
      <4>2. d.pri = pri[e]
        BY <4>1 DEF Probe
      <4> QED BY <1>4, <4>1, <4>2 DEF Says
    <3> QED BY <3>1, <3>2
  <2> QED BY <2>2, <2>3 DEF Sends
<1>5. CASE /\ state' = [state EXCEPT ![e] = f]
           /\ Kept(e, "read_probe", FALSE, <<>>)
           /\ Send(e, probe)
           /\ UNCHANGED dtls
  <2>1. watch' = [watch EXCEPT ![e] = <<>>] /\ flags' = flags /\ writers' = writers /\ timer' = timer
    BY <1>2, <1>3, <1>5 DEF dtls
  <2>2. Role(e)' = f
    BY <1>1, <1>5 DEF Role, Shaking, TypeInv
  <2>3. Sends(e) /\ DOMAIN net' = Peer
    <3> DEFINE none == {}
    <3>1. Send(e, none \cup probe) /\ \A d \in none : d.op = "dtls"
      BY <1>5 DEF Send
    <3> HIDE DEF none
    <3> QED BY <1>4, <2>2, <3>1
  <2>4. TypeInv'
    BY <1>1, <1>3, <1>5, <2>1, <2>3 DEF TypeInv, States
  <2>5. EndInv(e)' /\ Local(Other(e))' = Local(Other(e))
    BY <1>1, <1>3, <1>5, <2>1
       DEF TypeInv, Probing, EndInv, Handshaking, Resting, Shaking, Dead, Local, NoRole
  <2> QED BY <2>2, <2>3, <2>4, <2>5
<1>6. ASSUME NEW h \in Handshakes(f, 1, Nothing),
             state' = [state EXCEPT ![e] = After(h, f)],
             flags' = [flags EXCEPT ![e] = f],
             timer' = [timer EXCEPT ![e] = "set"],
             Kept(e, "read_probe", FALSE, Readers(h)),
             writers' = [writers EXCEPT ![e] = @ + Writers(h)],
             Send(e, h.out \cup probe)
      PROVE  /\ TypeInv' /\ EndInv(e)' /\ Sends(e)
             /\ Local(Other(e))' = Local(Other(e)) /\ Role(e)' = f
  <2>1. /\ Readers(h) \in Seq(Handshaker) /\ Writers(h) \in Nat
        /\ \A d \in h.out : d.op = "dtls"
        /\ After(h, f) \in {f, "established", "looping"}
    BY HandshakeResult DEF States
  <2>2. watch' = [watch EXCEPT ![e] = Readers(h)]
    BY <1>2, <1>6, <2>1
  <2>3. Role(e)' = f
    BY <1>1, <1>6, <2>1 DEF Role, Shaking, Dead, TypeInv
  <2>4. Sends(e) /\ DOMAIN net' = Peer
    BY <1>4, <1>6, <2>1, <2>3
  <2>5. TypeInv'
    <3>1. watch' \in [Peer -> Seq(Callback)] /\ ready' \in [Peer -> Seq(Callback)]
      BY <1>1, <1>3, <2>1, <2>2, HandshakerSeqs DEF TypeInv
    <3>2. writers' \in [Peer -> Nat]
      BY <1>1, <1>6, <2>1 DEF TypeInv
    <3>3. /\ state' \in [Peer -> States] /\ flags' \in [Peer -> {NoRole, "server", "client"}]
          /\ timer' \in [Peer -> {"off", "set", "fired"}]
      BY <1>1, <1>6, <2>1 DEF TypeInv, States
    <3> QED BY <1>1, <2>4, <3>1, <3>2, <3>3 DEF TypeInv
  <2>6. EndInv(e)'
    <3>1. watch'[e] = Readers(h) /\ ready'[e] = <<>> /\ flags'[e] = f /\ state'[e] = After(h, f)
      BY <1>1, <1>6, <2>2 DEF TypeInv
    <3> QED BY <1>3, <2>1, <3>1 DEF EndInv, Handshaking, Shaking, Dead, NoRole
  <2>7. Local(Other(e))' = Local(Other(e))
    BY <1>1, <1>6, <2>2 DEF Local, TypeInv
  <2> QED BY <2>3, <2>4, <2>5, <2>6, <2>7
<1> QED BY <1>5, <1>6 DEF StartTLS

LEMMA ReadProbeEndStep ==
  ASSUME NEW e \in Peer, RolesInv, NEW d, ReadProbe(e, d)
  PROVE  EndStep(e)
<1>1. Other(e) \in Peer /\ Other(e) # e /\ TypeInv /\ EndInv(e) /\ PairInv(e)
  BY TwoPeers DEF RolesInv
<1>2. /\ ~Dead(e) /\ ready[e] # <<>> /\ Head(ready[e]) = "read_probe"
      /\ d \in net[e] \cup {Nothing} /\ ready' = [ready EXCEPT ![e] = Tail(ready[e])]
  BY DEF ReadProbe, Runs
<1>3. state[e] = "probing" /\ Probing(e)
  <2>1. ready[e] \notin Seq(Handshaker)
    BY <1>2 DEF Handshaker
  <2> QED BY <1>1, <1>2, <2>1 DEF EndInv, Resting, Handshaking, Shaking, Dead, TypeInv, States
<1>4. ready[e] = <<"read_probe">> /\ ready' = [ready EXCEPT ![e] = <<>>] /\ Role(e) = NoRole
  <2>1. ready[e] = <<"read_probe">>
    BY <1>2, <1>3 DEF Probing
  <2>2. Tail(<<"read_probe">>) = <<>>
    OBVIOUS
  <2> QED BY <1>2, <1>3, <2>1, <2>2 DEF Role, Shaking, Dead
<1>5. pri' = pri
  BY <1>3 DEF ReadProbe
<1>6. CASE KeepProbing(e, d) \/ Tied(e, d)
  <2>1. UNCHANGED <<state, flags, writers, timer, net>>
    BY <1>6 DEF KeepProbing, Tied, dtls
  <2>2. watch' = [watch EXCEPT ![e] = watch'[e]] /\ watch'[e] \in {<<>>, <<"read_probe">>}
    <3>1. CASE KeepProbing(e, d)
      BY <1>1, <1>3, <3>1 DEF KeepProbing, Probing, TypeInv
    <3>2. CASE Tied(e, d)
      <4>1. Without(watch[e], "read_probe") = <<>>
        BY <1>3, WithoutOnly DEF Probing
      <4>2. <<>> \o <<>> = <<>>
        OBVIOUS
      <4> QED BY <1>1, <3>2, <4>1, <4>2 DEF Tied, Kept, TypeInv
    <3> QED BY <1>6, <3>1, <3>2
  <2>3. <<>> \in Seq(Callback) /\ <<"read_probe">> \in Seq(Callback)
    BY DEF Callback
  <2>4. TypeInv'
    <3>1. watch' \in [Peer -> Seq(Callback)] /\ ready' \in [Peer -> Seq(Callback)]
      <4>1. watch'[e] \in Seq(Callback)
        BY <2>2, <2>3
      <4> QED BY <1>1, <1>4, <2>2, <2>3, <4>1 DEF TypeInv
    <3> QED BY <1>1, <1>5, <2>1, <3>1 DEF TypeInv
  <2>5. EndInv(e)' /\ Role(e)' = Role(e)
    BY <1>1, <1>3, <1>4, <2>1, <2>2 DEF TypeInv, EndInv, Probing, Shaking, Dead, Role
  <2>6. Sends(e) /\ Local(Other(e))' = Local(Other(e))
    BY <1>1, <1>4, <2>1, <2>2 DEF Sends, Local, TypeInv
  <2> QED BY <1>5, <2>4, <2>5, <2>6 DEF EndStep
<1>7. CASE d.op = "probe" /\ BecomeServer(e, d)
  <2>1. StartTLS(e, "server", {Probe(pri[e], TRUE)}) /\ pri[e] < d.pri
    <3>1. d \in net[e]
      BY <1>2, <1>7 DEF Nothing
    <3>2. d.pri = pri[Other(e)]
      BY <1>1, <1>7, <3>1 DEF PairInv, Says
    <3> QED BY <1>1, <1>7, <3>2 DEF BecomeServer, Winning, TypeInv
  <2>2. /\ TypeInv' /\ EndInv(e)' /\ Sends(e)
        /\ Local(Other(e))' = Local(Other(e)) /\ Role(e)' = "server"
    BY <1>3, <1>4, <1>5, <2>1, StartTLSEndStep
  <2>3. TakesRole(e)
    BY <1>2, <1>4, <1>7, <2>1, <2>2 DEF TakesRole, Nothing
  <2> QED BY <1>5, <2>2, <2>3 DEF EndStep
<1>8. CASE d.op = "probe" /\ BecomeClient(e, d)
  <2>1. /\ TypeInv' /\ EndInv(e)' /\ Sends(e)
        /\ Local(Other(e))' = Local(Other(e)) /\ Role(e)' = "client"
    <3>1. StartTLS(e, "client", {})
      BY <1>8 DEF BecomeClient
    <3> QED BY <1>3, <1>4, <1>5, <3>1, StartTLSEndStep
  <2>2. TakesRole(e)
    BY <1>2, <1>4, <1>8, <2>1 DEF TakesRole, Nothing, BecomeClient
  <2> QED BY <1>5, <2>1, <2>2 DEF EndStep
<1> QED BY <1>3, <1>6, <1>7, <1>8 DEF ReadProbe

-----------------------------------------------------------------------------
(* Whatever an end does, it does to itself and to what it sends. *)
LEMMA StepIsEndStep ==
  ASSUME NEW e \in Peer, RolesInv,
         \/ Connect(e) \/ SendProbe(e) \/ HandshakeTimer(e)
         \/ Wake(e) \/ RetryWrite(e) \/ Reads(e)
  PROVE  EndStep(e)
BY ConnectEndStep, SendProbeEndStep, HandshakeTimerEndStep, WakeEndStep, RetryWriteEndStep,
   ReadProbeEndStep, RetryReadEndStep, RecvEndStep DEF Reads

LEMMA NextKeepsRoles == RolesInv /\ [Next]_vars => RolesInv' /\ [Pair!Next]_roles
<1> SUFFICES ASSUME RolesInv, [Next]_vars
             PROVE  RolesInv' /\ [Pair!Next]_roles
  OBVIOUS
<1>1. CASE UNCHANGED vars
  BY <1>1 DEF vars, dtls, RolesInv, TypeInv, EndInv, PairInv, Resting, Probing, Handshaking,
              Shaking, Dead, Role, Says, roles
<1>2. CASE Next
  <2>1. PICK e \in Peer : \/ Connect(e) \/ SendProbe(e) \/ HandshakeTimer(e)
                          \/ Wake(e) \/ RetryWrite(e) \/ Reads(e)
    BY <1>2 DEF Next
  <2>2. EndStep(e)
    BY <2>1, StepIsEndStep
  <2> QED BY <2>2, StepKeepsRoles
<1> QED BY <1>1, <1>2

(***************************************************************************)
(* The invariant of the roles holds for any priorities.                    *)
(***************************************************************************)
THEOREM RolesKept == Spec => []RolesInv
BY RolesInit, NextKeepsRoles, PTL DEF Spec

(***************************************************************************)
(* The two ends are never both the DTLS server, nor both the client, from  *)
(* the first probe to the end of the handshake: see the state diagram of   *)
(* trill/common.h.                                                         *)
(***************************************************************************)
THEOREM NeverTheSame == Spec => [](\A e \in Peer : Role(e) # NoRole => Role(e) # Role(Other(e)))
<1>1. RolesInv => \A e \in Peer : Role(e) # NoRole => Role(e) # Role(Other(e))
  <2> SUFFICES ASSUME RolesInv, NEW e \in Peer, Role(e) # NoRole
               PROVE  Role(e) # Role(Other(e))
    OBVIOUS
  <2>1. Other(e) \in Peer /\ Other(Other(e)) = e /\ PairInv(e) /\ PairInv(Other(e)) /\ pri \in [Peer -> Nat]
    BY TwoPeers DEF RolesInv, TypeInv
  <2>2. Role(e) \in {"server", "client"}
    BY DEF RolesInv, TypeInv, Role, Shaking
  <2>3. CASE Role(e) = "server"
    BY <2>1, <2>3 DEF PairInv
  <2>4. CASE Role(e) = "client"
    BY <2>1, <2>4 DEF PairInv
  <2> QED BY <2>2, <2>3, <2>4
<1> QED BY <1>1, RolesKept, PTL

(***************************************************************************)
(* trill_connection_read_probe() implements the choice of one server: the  *)
(* ends never take the same role, the client follows its server, and none  *)
(* changes its role, whatever probes and flights are lost, repeated and    *)
(* overtaken, however the handshakes end, and for any priorities.          *)
(***************************************************************************)
THEOREM PairsHolds == Spec => Pairs
<1>1. Init => Pair!Init
  BY DEF Init, Pair!Init, Pair!Peer, Peer, roles, Role, Shaking, Dead, NoRole
<1> QED BY <1>1, RolesInit, NextKeepsRoles, PTL DEF Spec, Pairs, Pair!Spec

-----------------------------------------------------------------------------
(***************************************************************************)
(* The watches of an end.  It waits in one place, or in two once the       *)
(* handshake timer has fired: trill_tls_handshake_retry() starts another   *)
(* handshake beside the one that waits.  Until then what waits is what the *)
(* state asks for, and a callback still to run in this pass of the loop is *)
(* one that waits.                                                         *)
(***************************************************************************)
Held(r, w) == r \in {<<>>, w} \/ \E n \in DOMAIN w : r = <<w[n]>>

Places(e) == Len(watch[e]) + writers[e]

Tokens(e) ==
  /\ Held(ready[e], watch[e])
  /\ Places(e) <= 2
  /\ timer[e] # "fired" =>
       /\ Places(e) <= 1
       /\ Shaking(e) => watch[e] \in {<<>>, <<"retry_read">>}
       /\ state[e] = "established" => watch[e] = <<"recv">>

Watches(e) ==
  /\ Tokens(e)
  /\ state[e] \in {"probing", "server"} => prober[e] = TRUE
  /\ state[e] \in {"probing", "server", "client"} /\ told[e] = {} => Waiting(e)
  /\ state[e] = "aborted" => timer[e] = "fired"

ToldType == prober \in [Peer -> BOOLEAN] /\ told \in [Peer -> SUBSET Status]

WatchesInv == ToldType /\ \A e \in Peer : Watches(e)

(* A step of the end e, as far as its watches go. *)
WatchStep(e) ==
  /\ Watches(e)'
  /\ ToldType'
  /\ \A x \in Peer \ {e} : prober'[x] = prober[x] /\ told'[x] = told[x]

-----------------------------------------------------------------------------
(* Two callbacks wait at most: what is left of them. *)

LEMMA ShortSeq ==
  ASSUME NEW S, NEW w \in Seq(S), Len(w) <= 2
  PROVE  \/ w = <<>>
         \/ \E a \in S : w = <<a>>
         \/ \E a \in S, b \in S : w = <<a, b>>
<1>1. Len(w) \in {0, 1, 2}
  <2>1. \A n \in Nat : n <= 2 => n \in {0, 1, 2}
    OBVIOUS
  <2>2. Len(w) \in Nat
    OBVIOUS
  <2> QED BY <2>1, <2>2
<1>2. CASE Len(w) = 0
  BY <1>2
<1>3. CASE Len(w) = 1
  <2>1. w = <<w[1]>> /\ w[1] \in S
    BY <1>3
  <2> QED BY <2>1
<1>4. CASE Len(w) = 2
  <2>1. w = <<w[1], w[2]>> /\ w[1] \in S /\ w[2] \in S
    BY <1>4
  <2> QED BY <2>1
<1> QED BY <1>1, <1>2, <1>3, <1>4

LEMMA SubSeqOne ==
  ASSUME NEW s, NEW n \in Nat \ {0}
  PROVE  SubSeq(s, n, n) = <<s[n]>>
<1> DEFINE t == SubSeq(s, n, n)
<1>1. \A i \in n .. n : s[i] \in {s[n]}
  OBVIOUS
<1>2. t \in Seq({s[n]}) /\ Len(t) = 1 /\ \A i \in 1 .. 1 : t[i] = s[n + i - 1]
  BY <1>1, SubSeqProperties
<1>3. t[1] = s[n]
  BY <1>2
<1> HIDE DEF t
<1>4. t = <<s[n]>>
  BY <1>2, <1>3
<1> QED BY <1>4 DEF t

LEMMA WithoutOfTwo ==
  ASSUME NEW a, NEW b
  PROVE  Without(<<a, b>>, a) = <<b>> /\ Without(<<a, b>>, b) = <<a>>
<1> DEFINE s == <<a, b>>
<1>1. s[1] = a /\ s[2] = b /\ DOMAIN s = {1, 2} /\ Len(s) = 2
  OBVIOUS
<1>2. SubSeq(s, 1, 0) \o SubSeq(s, 2, 2) = <<b>>
  <2>1. SubSeq(s, 1, 0) = <<>>
    OBVIOUS
  <2>2. SubSeq(s, 2, 2) = <<s[2]>>
    <3> HIDE DEF s
    <3> QED BY <1>1, SubSeqOne
  <2>3. <<>> \o <<b>> = <<b>>
    OBVIOUS
  <2> QED BY <1>1, <2>1, <2>2, <2>3
<1>3. SubSeq(s, 1, 1) \o SubSeq(s, 3, 2) = <<a>>
  <2>1. SubSeq(s, 1, 1) = <<s[1]>>
    <3> HIDE DEF s
    <3> QED BY <1>1, SubSeqOne
  <2>2. SubSeq(s, 3, 2) = <<>>
    OBVIOUS
  <2>3. <<a>> \o <<>> = <<a>>
    OBVIOUS
  <2> QED BY <1>1, <2>1, <2>2, <2>3
<1>4. ASSUME NEW k, \E i \in DOMAIN s : s[i] = k
      PROVE  (Without(s, k) = <<b>> /\ k = a) \/ (Without(s, k) = <<a>> /\ k = b)
  <2> DEFINE n == CHOOSE i \in DOMAIN s : s[i] = k
  <2>1. n \in {1, 2} /\ s[n] = k
    BY <1>1, <1>4
  <2>2. Without(s, k) = SubSeq(s, 1, n - 1) \o SubSeq(s, n + 1, 2)
    BY <1>1, <1>4 DEF Without
  <2> HIDE DEF n, s
  <2>3. CASE n = 1
    <3>1. n - 1 = 0 /\ n + 1 = 2
      BY <2>3
    <3> QED BY <1>1, <1>2, <2>1, <2>2, <2>3, <3>1
  <2>4. CASE n = 2
    <3>1. n - 1 = 1 /\ n + 1 = 3
      BY <2>4
    <3> QED BY <1>1, <1>3, <2>1, <2>2, <2>4, <3>1
  <2> QED BY <2>1, <2>3, <2>4
<1>5. Without(s, a) = <<b>> \/ (Without(s, a) = <<a>> /\ a = b)
  BY <1>1, <1>4
<1>6. Without(s, b) = <<a>> \/ (Without(s, b) = <<b>> /\ a = b)
  BY <1>1, <1>4
<1> QED BY <1>5, <1>6

(* The callback that runs is one that waits; those still to run, too. *)
LEMMA TailHeld ==
  ASSUME NEW S, NEW w \in Seq(S), Len(w) <= 2, NEW r, Held(r, w), r # <<>>
  PROVE  /\ Held(Tail(r), w)
         /\ \E n \in DOMAIN w : w[n] = Head(r)
<1>1. CASE \E n \in DOMAIN w : r = <<w[n]>>
  BY <1>1 DEF Held
<1>2. CASE r = w /\ \E a \in S : w = <<a>>
  BY <1>2 DEF Held
<1>3. CASE r = w /\ \E a \in S, b \in S : w = <<a, b>>
  <2>1. PICK a \in S, b \in S : w = <<a, b>>
    BY <1>3
  <2>2. Tail(<<a, b>>) = <<b>> /\ Head(<<a, b>>) = a /\ DOMAIN <<a, b>> = {1, 2}
        /\ <<a, b>>[1] = a /\ <<a, b>>[2] = b
    OBVIOUS
  <2> QED BY <1>3, <2>1, <2>2 DEF Held
<1> QED BY <1>1, <1>2, <1>3, ShortSeq DEF Held

(* The callback that has run is done, and others wait after what is left. *)
LEMMA WithoutHeld ==
  ASSUME NEW S, NEW w \in Seq(S), Len(w) <= 2, NEW r, Held(r, w), r # <<>>,
         NEW more \in Seq(S)
  PROVE  LET v == Without(w, Head(r)) \o more
         IN v \in Seq(S) /\ Len(v) = Len(w) - 1 + Len(more) /\ Held(Tail(r), v)
<1>1. CASE \E a \in S : w = <<a>>
  <2>1. PICK a \in S : w = <<a>>
    BY <1>1
  <2>2. r = <<a>> /\ Head(r) = a /\ Tail(r) = <<>>
    <3>1. DOMAIN w = {1} /\ w[1] = a
      BY <2>1
    <3>2. r = <<a>>
      BY <2>1, <3>1 DEF Held
    <3> QED BY <3>2
  <2>3. Without(w, a) = <<>> /\ <<>> \o more = more
    BY <2>1, WithoutOnly
  <2> QED BY <2>1, <2>2, <2>3 DEF Held
<1>2. CASE \E a \in S, b \in S : w = <<a, b>>
  <2>1. PICK a \in S, b \in S : w = <<a, b>>
    BY <1>2
  <2>2. Without(w, a) = <<b>> /\ Without(w, b) = <<a>>
    BY <2>1, WithoutOfTwo
  <2>3. ASSUME NEW c \in S
        PROVE  LET v == <<c>> \o more
               IN v \in Seq(S) /\ Len(v) = 1 + Len(more) /\ v[1] = c /\ 1 \in DOMAIN v
    <3>1. <<c>> \in Seq(S) /\ Len(<<c>>) = 1
      OBVIOUS
    <3> QED BY <3>1
  <2>4. Len(w) = 2 /\ DOMAIN w = {1, 2} /\ w[1] = a /\ w[2] = b
    BY <2>1
  <2>5. CASE r = w
    <3>1. Head(r) = a /\ Tail(r) = <<b>>
      BY <2>1, <2>5
    <3> DEFINE v == <<b>> \o more
    <3>2. v \in Seq(S) /\ Len(v) = 1 + Len(more) /\ v[1] = b /\ 1 \in DOMAIN v
      BY <2>3
    <3>3. Held(Tail(r), v)
      <4> HIDE DEF v
      <4> QED BY <3>1, <3>2 DEF Held
    <3> HIDE DEF v
    <3>4. Without(w, Head(r)) \o more = v
      BY <2>2, <3>1 DEF v
    <3>5. Len(v) = Len(w) - 1 + Len(more)
      <4>1. Len(more) \in Nat
        OBVIOUS
      <4> QED BY <2>4, <3>2, <4>1
    <3> QED BY <3>2, <3>3, <3>4, <3>5
  <2>6. ASSUME NEW x, NEW c \in S, r = <<x>>, Without(w, x) = <<c>>
        PROVE  LET v == Without(w, Head(r)) \o more
               IN v \in Seq(S) /\ Len(v) = Len(w) - 1 + Len(more) /\ Held(Tail(r), v)
    <3>1. Head(r) = x /\ Tail(r) = <<>>
      BY <2>6
    <3> DEFINE v == <<c>> \o more
    <3>2. v \in Seq(S) /\ Len(v) = 1 + Len(more)
      BY <2>3
    <3>3. Held(Tail(r), v)
      BY <3>1 DEF Held
    <3> HIDE DEF v
    <3>4. Without(w, Head(r)) \o more = v
      BY <2>6, <3>1 DEF v
    <3>5. Len(v) = Len(w) - 1 + Len(more)
      <4>1. Len(more) \in Nat
        OBVIOUS
      <4> QED BY <2>4, <3>2, <4>1
    <3> QED BY <3>2, <3>3, <3>4, <3>5
  <2>7. r = w \/ r = <<a>> \/ r = <<b>>
    BY <2>4 DEF Held
  <2> QED BY <2>2, <2>5, <2>6, <2>7
<1>3. CASE w = <<>>
  <2>1. DOMAIN w = {}
    BY <1>3
  <2> QED BY <1>3, <2>1 DEF Held
<1>4. w = <<>> \/ (\E a \in S : w = <<a>>) \/ (\E a \in S, b \in S : w = <<a, b>>)
  BY ShortSeq
<1> QED BY ONLY <1>1, <1>2, <1>3, <1>4

-----------------------------------------------------------------------------
(* The watches, through the steps. *)

LEMMA WatchesInit == Init => WatchesInv
<1> SUFFICES ASSUME Init PROVE WatchesInv
  OBVIOUS
<1>1. ToldType
  BY DEF Init, ToldType
<1>2. ASSUME NEW e \in Peer PROVE Watches(e)
  <2>1. watch[e] = <<>> /\ ready[e] = <<>> /\ writers[e] = 0 /\ state[e] = "init"
    BY DEF Init
  <2>2. Places(e) = 0
    BY <2>1 DEF Places
  <2> QED BY <2>1, <2>2 DEF Watches, Tokens, Held, Shaking
<1> QED BY <1>1, <1>2 DEF WatchesInv

(* The other end keeps its watches. *)
LEMMA StepKeepsWatches ==
  ASSUME NEW e \in Peer, WatchesInv, EndStep(e), WatchStep(e)
  PROVE  WatchesInv'
<1> DEFINE o == Other(e)
<1>1. o \in Peer /\ o # e /\ Peer = {e, o}
  BY TwoPeers
<1>2. Local(o)' = Local(o) /\ prober'[o] = prober[o] /\ told'[o] = told[o]
  BY <1>1 DEF EndStep, WatchStep
<1>3. Watches(o)
  BY <1>1 DEF WatchesInv
<1>4. Watches(o)'
  BY <1>2, <1>3 DEF Local, Watches, Tokens, Places, Held, Waiting, Shaking
<1> QED BY <1>1, <1>4 DEF WatchStep, WatchesInv

(* What a callback that is not in the handshake leaves as it was. *)
LEMMA RestKept ==
  ASSUME NEW e \in Peer, WatchesInv, prober' = prober, told' = told
  PROVE  ToldType' /\ \A x \in Peer : prober'[x] = prober[x] /\ told'[x] = told[x]
BY DEF WatchesInv, ToldType

(* A handshake that leaves its end waiting in the right places. *)
LEMMA ShakesWatchStep ==
  ASSUME NEW e \in Peer, RolesInv, WatchesInv, Shaking(e),
         NEW h, h.r \in Outcome, Handshake(e, h), prober' = prober,
         Held(ready[e], watch[e])', Places(e)' <= 2,
         timer'[e] # "fired" =>
           /\ Places(e)' <= 1
           /\ watch'[e] \in IF h.r = "success" THEN {<<"recv">>} ELSE {<<>>, <<"retry_read">>},
         h.r \in {"retry_read", "retry_write"} => Waiting(e)'
  PROVE  WatchStep(e)
<1>1. TypeInv /\ ToldType /\ Watches(e)
  BY DEF RolesInv, WatchesInv
<1>2. state'[e] = After(h, state[e]) /\ state[e] \in {"server", "client"}
  BY <1>1 DEF Handshake, TypeInv, Shaking
<1>3. state'[e] = CASE h.r = "success" -> "established" [] h.r = "loops" -> "looping" [] OTHER -> state[e]
  BY <1>2 DEF After
<1>4. h.r = "failure" => told'[e] # {}
  <2>1. h.r = "failure" => told' = [told EXCEPT ![e] = @ \cup {"tls"}]
    BY DEF Handshake, Tell
  <2> QED BY <1>1, <2>1 DEF ToldType
<1>5. Tokens(e)'
  BY <1>2, <1>3 DEF Tokens, Shaking, Outcome
<1>6. Watches(e)'
  <2>1. state'[e] \in {"probing", "server"} => prober'[e] = TRUE
    BY <1>1, <1>2, <1>3 DEF Watches, Outcome
  <2>2. state'[e] \in {"probing", "server", "client"} /\ told'[e] = {} => Waiting(e)'
    BY <1>2, <1>3, <1>4 DEF Outcome
  <2>3. state'[e] # "aborted"
    BY <1>2, <1>3 DEF Outcome
  <2> QED BY <1>5, <2>1, <2>2, <2>3 DEF Watches
<1>7. ToldType' /\ \A x \in Peer \ {e} : prober'[x] = prober[x] /\ told'[x] = told[x]
  <2>1. PICK s \in SUBSET Status : told' = [told EXCEPT ![e] = @ \cup s]
    BY DEF Handshake, Tell, Status
  <2> QED BY <1>1, <2>1 DEF ToldType
<1> QED BY <1>6, <1>7 DEF WatchStep

(* A callback that finds what it asserts against, after the timer. *)
LEMMA AbortWatchStep ==
  ASSUME NEW e \in Peer, RolesInv, WatchesInv, Abort(e), timer[e] = "fired",
         Held(ready[e], watch[e])'
  PROVE  WatchStep(e)
<1>1. TypeInv /\ ToldType /\ Watches(e)
  BY DEF RolesInv, WatchesInv
<1>2. state'[e] = "aborted" /\ UNCHANGED <<watch, writers, prober, timer, told>>
  BY <1>1 DEF Abort, TypeInv
<1>3. Watches(e)'
  BY <1>1, <1>2 DEF Watches, Tokens, Places
<1> QED BY <1>2, <1>3, RestKept DEF WatchStep

LEMMA ConnectWatchStep ==
  ASSUME NEW e \in Peer, RolesInv, WatchesInv, Connect(e)
  PROVE  WatchStep(e)
<1>1. TypeInv /\ EndInv(e) /\ ToldType /\ Watches(e)
  BY DEF RolesInv, WatchesInv
<1>2. watch[e] = <<>> /\ ready[e] = <<>> /\ writers[e] = 0
  BY <1>1 DEF Connect, EndInv, Resting
<1>3. /\ watch'[e] = <<"read_probe">> /\ ready'[e] = <<>> /\ writers'[e] = 0
      /\ state'[e] = "probing" /\ prober'[e] = TRUE
  <2>1. Append(<<>>, "read_probe") = <<"read_probe">>
    OBVIOUS
  <2> QED BY <1>1, <1>2, <2>1 DEF Connect, TypeInv, ToldType, dtls
<1>4. Places(e)' = 1 /\ Held(ready[e], watch[e])' /\ Waiting(e)'
  BY <1>3 DEF Places, Held, Waiting
<1>5. Watches(e)'
  BY <1>3, <1>4 DEF Watches, Tokens, Shaking
<1>6. ToldType' /\ \A x \in Peer \ {e} : prober'[x] = prober[x] /\ told'[x] = told[x]
  BY <1>1 DEF Connect, ToldType
<1> QED BY <1>5, <1>6 DEF WatchStep

LEMMA SendProbeWatchStep ==
  ASSUME NEW e \in Peer, RolesInv, WatchesInv, SendProbe(e)
  PROVE  WatchStep(e)
<1>1. ToldType /\ Watches(e)
  BY DEF WatchesInv
<1>2. UNCHANGED <<state, watch, writers, ready, timer, told>>
  BY DEF SendProbe, dtls
<1>3. prober' = prober \/ (state[e] \notin ProbesIn /\ prober' = [prober EXCEPT ![e] = FALSE])
  BY DEF SendProbe
<1>4. ToldType' /\ \A x \in Peer \ {e} : prober'[x] = prober[x] /\ told'[x] = told[x]
  BY <1>1, <1>2, <1>3 DEF ToldType
<1>5. Watches(e)'
  BY <1>1, <1>2, <1>3 DEF Watches, Tokens, Places, Waiting, Shaking, ProbesIn
<1> QED BY <1>4, <1>5 DEF WatchStep

LEMMA WakeWatchStep ==
  ASSUME NEW e \in Peer, RolesInv, WatchesInv, Wake(e)
  PROVE  WatchStep(e)
<1>1. TypeInv /\ Watches(e)
  BY DEF RolesInv, WatchesInv
<1>2. ready'[e] = watch[e] /\ UNCHANGED <<state, watch, writers, prober, timer, told>>
  BY <1>1 DEF Wake, TypeInv
<1>3. Watches(e)'
  BY <1>1, <1>2 DEF Watches, Tokens, Places, Waiting, Shaking, Held
<1> QED BY <1>2, <1>3, RestKept DEF WatchStep

(* The callbacks a handshake adds, and the places they wait in. *)
LEMMA AddedPlaces ==
  ASSUME NEW h, h.r \in Outcome
  PROVE  /\ Readers(h) \in Seq(Callback) /\ Writers(h) \in {0, 1}
         /\ Len(Readers(h)) + Writers(h) = IF h.r \in {"failure", "loops"} THEN 0 ELSE 1
         /\ Readers(h) \in IF h.r = "success" THEN {<<"recv">>} ELSE {<<>>, <<"retry_read">>}
         /\ h.r = "retry_read" => Readers(h) = <<"retry_read">>
         /\ h.r = "retry_write" => Writers(h) = 1
<1>1. <<"recv">> \in Seq(Callback) /\ <<"retry_read">> \in Seq(Callback) /\ <<>> \in Seq(Callback)
  BY DEF Callback
<1>2. Len(<<"recv">>) = 1 /\ Len(<<"retry_read">>) = 1 /\ Len(<<>>) = 0
  OBVIOUS
<1>3. /\ h.r = "success" => Readers(h) = <<"recv">> /\ Writers(h) = 0
      /\ h.r = "retry_read" => Readers(h) = <<"retry_read">> /\ Writers(h) = 0
      /\ h.r = "retry_write" => Readers(h) = <<>> /\ Writers(h) = 1
      /\ h.r \in {"failure", "loops"} => Readers(h) = <<>> /\ Writers(h) = 0
  BY DEF Readers, Writers, Outcome
<1>4. CASE h.r = "success"
  BY <1>1, <1>2, <1>3, <1>4
<1>5. CASE h.r = "retry_read"
  <2>1. Readers(h) = <<"retry_read">> /\ Writers(h) = 0
    BY <1>3, <1>5
  <2>2. Len(Readers(h)) + Writers(h) = 1
    BY <1>2, <2>1
  <2> QED BY <1>1, <1>5, <2>1, <2>2
<1>6. CASE h.r = "retry_write"
  BY <1>1, <1>2, <1>3, <1>6
<1>7. CASE h.r \in {"failure", "loops"}
  <2>1. Readers(h) = <<>> /\ Writers(h) = 0
    BY <1>3, <1>7
  <2>2. Len(Readers(h)) + Writers(h) = 0
    BY <1>2, <2>1
  <2> QED BY <1>1, <1>7, <2>1, <2>2
<1> QED BY <1>4, <1>5, <1>6, <1>7 DEF Outcome

(* A handshake from outside its own callbacks: what waits is added last. *)
LEMMA AddedWatchStep ==
  ASSUME NEW e \in Peer, RolesInv, WatchesInv, EndStep(e), Idle(e), Shaking(e),
         NEW h, h.r \in Outcome, Handshake(e, h), UNCHANGED <<prober, ready>>,
         watch' = [watch EXCEPT ![e] = @ \o Readers(h)],
         NEW n \in Nat, n <= writers[e], writers' = [writers EXCEPT ![e] = n + Writers(h)],
         Len(watch[e]) + n <= 1,
         timer'[e] # "fired" =>
           /\ Len(watch[e]) + n + Len(Readers(h)) + Writers(h) <= 1
           /\ watch[e] \in IF h.r = "failure" THEN {<<>>, <<"retry_read">>} ELSE {<<>>}
  PROVE  WatchStep(e)
<1>1. TypeInv /\ Watches(e) /\ ready[e] = <<>> /\ ready'[e] = <<>>
  BY DEF RolesInv, WatchesInv, Idle
<1>2. watch'[e] = watch[e] \o Readers(h) /\ writers'[e] = n + Writers(h)
  BY <1>1 DEF TypeInv
<1>3. watch[e] \in Seq(Callback) /\ Len(watch[e]) \in Nat
  BY <1>1 DEF TypeInv
<1>4. /\ Readers(h) \in Seq(Callback) /\ Len(Readers(h)) \in Nat /\ Writers(h) \in {0, 1}
      /\ Len(Readers(h)) + Writers(h) <= 1
  BY AddedPlaces
<1>5. Len(watch'[e]) = Len(watch[e]) + Len(Readers(h))
  BY <1>2, <1>3, <1>4
<1>6. Places(e)' = Len(watch[e]) + n + Len(Readers(h)) + Writers(h)
  BY <1>2, <1>3, <1>4, <1>5 DEF Places
<1>7. Places(e)' <= 2 /\ Held(ready[e], watch[e])'
  BY <1>1, <1>3, <1>4, <1>6 DEF Held
<1>8. h.r \in {"retry_read", "retry_write"} => Waiting(e)'
  <2>1. CASE h.r = "retry_read"
    <3>1. Len(watch'[e]) # 0
      <4>1. Len(Readers(h)) = 1
        BY <2>1, AddedPlaces
      <4> QED BY <1>3, <1>5, <4>1
    <3>2. watch'[e] # <<>>
      BY <3>1
    <3> QED BY <3>2 DEF Waiting
  <2>2. CASE h.r = "retry_write"
    <3>1. writers'[e] > 0
      BY <1>2, <2>2, AddedPlaces
    <3> QED BY <3>1 DEF Waiting
  <2> QED BY <2>1, <2>2
<1>9. ASSUME timer'[e] # "fired"
      PROVE  /\ Places(e)' <= 1
             /\ watch'[e] \in IF h.r = "success" THEN {<<"recv">>} ELSE {<<>>, <<"retry_read">>}
  <2>1. Places(e)' <= 1
    BY <1>6, <1>9
  <2>2. CASE h.r # "failure"
    <3>1. <<>> \o Readers(h) = Readers(h)
      BY <1>4
    <3>2. watch'[e] = Readers(h)
      BY <1>2, <1>9, <2>2, <3>1
    <3> QED BY <2>1, <3>2, AddedPlaces
  <2>3. CASE h.r = "failure"
    <3>1. Readers(h) = <<>> /\ watch[e] \o <<>> = watch[e]
      BY <1>3, <2>3 DEF Readers
    <3> QED BY <1>2, <1>9, <2>1, <2>3, <3>1
  <2> QED BY <2>2, <2>3
<1> QED BY <1>7, <1>8, <1>9, ShakesWatchStep

LEMMA RetryWriteWatchStep ==
  ASSUME NEW e \in Peer, RolesInv, WatchesInv, EndStep(e), RetryWrite(e)
  PROVE  WatchStep(e)
<1>1. TypeInv /\ Watches(e) /\ Places(e) <= 2
  BY DEF RolesInv, WatchesInv, Watches, Tokens
<1>2. Idle(e) /\ writers[e] > 0 /\ UNCHANGED ready
  BY DEF RetryWrite
<1>3. watch[e] \in Seq(Callback) /\ Len(watch[e]) \in Nat /\ writers[e] \in Nat
  BY <1>1 DEF TypeInv
<1>4. state[e] \in {"server", "client", "established"}
  BY <1>2, Started DEF Idle
<1>5. timer[e] # "fired" => watch[e] = <<>> /\ writers[e] = 1
  BY <1>1, <1>2, <1>3 DEF Watches, Tokens, Places
<1>6. CASE Shaking(e)
  <2>1. PICK h \in Handshakes(flags[e], flight[e], Nothing) :
          /\ Handshake(e, h)
          /\ watch' = [watch EXCEPT ![e] = @ \o Readers(h)]
          /\ writers' = [writers EXCEPT ![e] = @ - 1 + Writers(h)]
    BY <1>6 DEF RetryWrite
  <2>2. UNCHANGED <<prober, timer>>
    BY <1>6 DEF RetryWrite
  <2>3. h.r \in Outcome
    BY HandshakeResult
  <2>4. PICK n \in Nat : n = writers[e] - 1
    BY <1>2, <1>3
  <2>5. Len(watch[e]) + n <= 1 /\ n <= writers[e]
    BY <1>1, <1>3, <2>4 DEF Places
  <2>6. writers' = [writers EXCEPT ![e] = n + Writers(h)]
    BY <2>1, <2>4
  <2>7. ASSUME timer'[e] # "fired"
        PROVE  /\ Len(watch[e]) + n + Len(Readers(h)) + Writers(h) <= 1
               /\ watch[e] \in IF h.r = "failure" THEN {<<>>, <<"retry_read">>} ELSE {<<>>}
    <3>1. watch[e] = <<>> /\ n = 0
      BY <1>5, <2>2, <2>4, <2>7
    <3>2. Len(Readers(h)) \in Nat /\ Writers(h) \in {0, 1} /\ Len(Readers(h)) + Writers(h) <= 1
      BY <2>3, AddedPlaces
    <3>3. Len(watch[e]) = 0
      BY <3>1
    <3>4. Len(watch[e]) + n + Len(Readers(h)) + Writers(h) <= 1
      BY <3>1, <3>2, <3>3
    <3> QED BY <3>1, <3>4
  <2> QED BY <1>2, <1>6, <2>1, <2>2, <2>3, <2>5, <2>6, <2>7, AddedWatchStep
<1>7. CASE ~Shaking(e)
  <2>1. timer[e] = "fired"
    <3>1. state[e] = "established"
      BY <1>4, <1>7 DEF Shaking
    <3>2. <<"recv">> # <<>>
      OBVIOUS
    <3> QED BY <1>1, <1>5, <3>1, <3>2 DEF Watches, Tokens
  <2>2. Abort(e) /\ Held(ready[e], watch[e])'
    BY <1>1, <1>2, <1>7 DEF RetryWrite, Abort, Watches, Tokens
  <2> QED BY <2>1, <2>2, AbortWatchStep
<1> QED BY <1>6, <1>7

LEMMA HandshakeTimerWatchStep ==
  ASSUME NEW e \in Peer, RolesInv, WatchesInv, EndStep(e), HandshakeTimer(e)
  PROVE  WatchStep(e)
<1>1. TypeInv /\ Watches(e)
  BY DEF RolesInv, WatchesInv
<1>2. Idle(e) /\ timer[e] = "set" /\ UNCHANGED ready /\ UNCHANGED prober
  BY DEF HandshakeTimer
<1>3. watch[e] \in Seq(Callback) /\ Len(watch[e]) \in Nat /\ writers[e] \in Nat
  BY <1>1 DEF TypeInv
<1>4. Len(watch[e]) + writers[e] <= 1
  BY <1>1, <1>2 DEF Watches, Tokens, Places
<1>5. CASE Shaking(e)
  <2>1. \E d, h :
          /\ h \in Handshakes(flags[e], flight[e], d) /\ Handshake(e, h)
          /\ watch' = [watch EXCEPT ![e] = @ \o Readers(h)]
          /\ writers' = [writers EXCEPT ![e] = @ + Writers(h)]
          /\ timer' = [timer EXCEPT ![e] = IF h.r = "failure" THEN "set" ELSE "fired"]
    BY <1>5 DEF HandshakeTimer, Shaking
  <2>2. PICK d, h :
          /\ h \in Handshakes(flags[e], flight[e], d) /\ Handshake(e, h)
          /\ watch' = [watch EXCEPT ![e] = @ \o Readers(h)]
          /\ writers' = [writers EXCEPT ![e] = @ + Writers(h)]
          /\ timer' = [timer EXCEPT ![e] = IF h.r = "failure" THEN "set" ELSE "fired"]
    BY <2>1
  <2>3. h.r \in Outcome
    BY <2>2, HandshakeResult
  <2>4. PICK n \in Nat : n = writers[e]
    BY <1>3
  <2>5. Len(watch[e]) + n <= 1 /\ n <= writers[e]
    BY <1>3, <1>4, <2>4
  <2>6. writers' = [writers EXCEPT ![e] = n + Writers(h)]
    BY <2>2, <2>4
  <2>7. ASSUME timer'[e] # "fired"
        PROVE  /\ Len(watch[e]) + n + Len(Readers(h)) + Writers(h) <= 1
               /\ watch[e] \in IF h.r = "failure" THEN {<<>>, <<"retry_read">>} ELSE {<<>>}
    <3>1. h.r = "failure"
      BY <1>1, <2>2, <2>7 DEF TypeInv
    <3>2. Len(Readers(h)) = 0 /\ Writers(h) = 0
      BY <3>1 DEF Readers, Writers
    <3>3. watch[e] \in {<<>>, <<"retry_read">>}
      BY <1>1, <1>2, <1>5 DEF Watches, Tokens
    <3> QED BY <1>3, <2>5, <3>1, <3>2, <3>3
  <2> QED BY <1>2, <1>5, <2>2, <2>3, <2>5, <2>6, <2>7, AddedWatchStep
<1>6. CASE ~Shaking(e)
  <2>1. /\ state[e] = "established" /\ timer' = [timer EXCEPT ![e] = "fired"]
        /\ UNCHANGED <<state, watch, writers, told>>
    BY <1>6 DEF HandshakeTimer
  <2>2. timer'[e] = "fired"
    BY <1>1, <2>1 DEF TypeInv
  <2>3. Watches(e)'
    BY <1>1, <1>2, <2>1, <2>2 DEF Watches, Tokens, Places, Held
  <2> QED BY <1>2, <2>1, <2>3, RestKept DEF WatchStep
<1> QED BY <1>5, <1>6

(* The callback that runs waits; until the timer fires it is the only one. *)
LEMMA RunsWaits ==
  ASSUME NEW e \in Peer, RolesInv, WatchesInv, NEW k, NEW d, Runs(e, k, d)
  PROVE  /\ watch[e] \in Seq(Callback) /\ Len(watch[e]) <= 2 /\ Len(watch[e]) \in Nat /\ writers[e] \in Nat
         /\ Held(ready[e], watch[e]) /\ ready[e] # <<>> /\ Head(ready[e]) = k
         /\ ready'[e] = Tail(ready[e]) /\ Held(Tail(ready[e]), watch[e])
         /\ timer[e] # "fired" =>
              /\ writers[e] = 0 /\ Len(watch[e]) = 1
              /\ Shaking(e) => k = "retry_read" /\ watch[e] = <<"retry_read">>
              /\ state[e] = "established" => k = "recv"
<1>1. TypeInv /\ Tokens(e)
  BY DEF RolesInv, WatchesInv, Watches
<1>2. watch[e] \in Seq(Callback) /\ Len(watch[e]) \in Nat /\ writers[e] \in Nat
  BY <1>1 DEF TypeInv
<1>3. Held(ready[e], watch[e]) /\ ready[e] # <<>> /\ Head(ready[e]) = k /\ ready'[e] = Tail(ready[e])
  BY <1>1 DEF Tokens, Runs, TypeInv
<1>4. Len(watch[e]) <= 2
  BY <1>1, <1>2 DEF Tokens, Places
<1>5. Held(Tail(ready[e]), watch[e]) /\ \E n \in DOMAIN watch[e] : watch[e][n] = k
  BY <1>2, <1>3, <1>4, TailHeld
<1>6. watch[e] # <<>> /\ Len(watch[e]) # 0
  BY <1>2, <1>5
<1>7. ASSUME timer[e] # "fired"
      PROVE  /\ writers[e] = 0 /\ Len(watch[e]) = 1
             /\ Shaking(e) => k = "retry_read" /\ watch[e] = <<"retry_read">>
             /\ state[e] = "established" => k = "recv"
  <2>1. writers[e] = 0 /\ Len(watch[e]) = 1
    <3>1. Len(watch[e]) + writers[e] <= 1
      BY <1>1, <1>7 DEF Tokens, Places
    <3>2. \A m \in Nat, n \in Nat : m + n <= 1 /\ m # 0 => n = 0 /\ m = 1
      OBVIOUS
    <3> QED BY <1>2, <1>6, <3>1, <3>2
  <2>2. ASSUME NEW c, watch[e] = <<c>> PROVE k = c
    BY <1>5, <2>2
  <2> QED BY <1>1, <1>6, <1>7, <2>1, <2>2 DEF Tokens
<1> QED BY <1>2, <1>3, <1>4, <1>5, <1>7

LEMMA RetryReadWatchStep ==
  ASSUME NEW e \in Peer, RolesInv, WatchesInv, NEW d, RetryRead(e, d)
  PROVE  WatchStep(e)
<1>1. TypeInv /\ Places(e) <= 2 /\ Runs(e, "retry_read", d)
  BY DEF RolesInv, WatchesInv, Watches, Tokens, RetryRead
<1>2. /\ watch[e] \in Seq(Callback) /\ Len(watch[e]) <= 2 /\ Len(watch[e]) \in Nat /\ writers[e] \in Nat
      /\ Held(ready[e], watch[e]) /\ ready[e] # <<>> /\ Head(ready[e]) = "retry_read"
      /\ ready'[e] = Tail(ready[e]) /\ Held(Tail(ready[e]), watch[e])
      /\ timer[e] # "fired" => writers[e] = 0 /\ Len(watch[e]) = 1
      /\ timer[e] # "fired" /\ Shaking(e) => watch[e] = <<"retry_read">>
      /\ timer[e] # "fired" => state[e] # "established"
  BY <1>1, RunsWaits
<1>3. state[e] \in {"server", "client", "established"}
  BY <1>1, <1>2, Started DEF Runs, Handshaker
<1>4. CASE Shaking(e)
  <2>1. PICK h \in Handshakes(flags[e], flight[e], d) :
          /\ Handshake(e, h)
          /\ Kept(e, "retry_read", h.r = "retry_read", IF h.r = "success" THEN <<"recv">> ELSE <<>>)
          /\ writers' = [writers EXCEPT ![e] = @ + Writers(h)]
    BY <1>4 DEF RetryRead
  <2>2. UNCHANGED <<prober, timer>>
    BY <1>4 DEF RetryRead
  <2>3. h.r \in Outcome
    BY HandshakeResult
  <2>4. writers'[e] = writers[e] + Writers(h)
    BY <1>1, <2>1 DEF TypeInv
  <2> DEFINE more == IF h.r = "success" THEN <<"recv">> ELSE <<>>
             left == Without(watch[e], "retry_read") \o more
  <2>5. watch'[e] = IF h.r = "retry_read" THEN watch[e] ELSE left
    <3>1. watch[e] \o <<>> = watch[e]
      BY <1>2
    <3> QED BY <1>1, <2>1, <3>1 DEF Kept, TypeInv
  <2>6. more \in Seq(Callback) /\ Len(more) \in {0, 1}
    <3>1. <<"recv">> \in Seq(Callback) /\ <<>> \in Seq(Callback) /\ Len(<<"recv">>) = 1 /\ Len(<<>>) = 0
      BY DEF Callback
    <3> QED BY <3>1
  <2>7. left \in Seq(Callback) /\ Len(left) = Len(watch[e]) - 1 + Len(more) /\ Held(ready'[e], left)
    <3> DEFINE v == Without(watch[e], Head(ready[e])) \o more
    <3> HIDE DEF more
    <3>1. v \in Seq(Callback) /\ Len(v) = Len(watch[e]) - 1 + Len(more) /\ Held(Tail(ready[e]), v)
      BY <1>2, <2>6, WithoutHeld
    <3>2. v = left
      BY <1>2
    <3> HIDE DEF v, left
    <3> QED BY <1>2, <3>1, <3>2
  <2>8. Held(ready[e], watch[e])'
    BY <1>2, <2>5, <2>7
  <2>9. CASE h.r = "retry_read"
    <3>1. Places(e)' = Places(e)
      BY <1>2, <2>4, <2>5, <2>9 DEF Places, Writers
    <3>2. Waiting(e)'
      <4>1. \E n \in DOMAIN watch[e] : TRUE
        BY <1>2, TailHeld
      <4>2. watch[e] # <<>>
        BY <4>1
      <4> QED BY <2>5, <2>9, <4>2 DEF Waiting
    <3>3. timer'[e] # "fired" => Places(e)' <= 1 /\ watch'[e] = <<"retry_read">>
      <4>1. timer[e] # "fired" => Places(e) = 1
        <5>1. timer[e] # "fired" => Places(e) = 1 + 0
          BY <1>2 DEF Places
        <5> QED BY <5>1
      <4> QED BY <1>2, <1>4, <2>2, <2>5, <2>9, <3>1, <4>1
    <3> QED BY <1>1, <1>4, <2>1, <2>2, <2>3, <2>8, <2>9, <3>1, <3>2, <3>3, ShakesWatchStep
  <2>10. CASE h.r # "retry_read"
    <3>1. Writers(h) \in {0, 1} /\ Len(more) + Writers(h) <= 1
      <4>1. h.r = "retry_write" => more = <<>>
        OBVIOUS
      <4>2. h.r # "retry_write" => Writers(h) = 0
        BY DEF Writers
      <4>3. Writers(h) \in {0, 1}
        BY DEF Writers
      <4>4. Len(<<>>) = 0
        OBVIOUS
      <4>5. CASE h.r = "retry_write"
        <5>1. Len(more) = 0
          BY <4>1, <4>4, <4>5
        <5> HIDE DEF more
        <5> QED BY <4>3, <5>1
      <4>6. CASE h.r # "retry_write"
        <5> DEFINE m == Len(more)
        <5>1. m \in {0, 1} /\ Writers(h) = 0
          BY <2>6, <4>2, <4>6
        <5> HIDE DEF m
        <5>2. m + Writers(h) <= 1
          BY <5>1
        <5> QED BY <4>3, <5>2 DEF m
      <4> QED BY <4>5, <4>6
    <3>2. Places(e)' = Len(watch[e]) - 1 + Len(more) + writers[e] + Writers(h)
      <4> HIDE DEF left, more
      <4> QED BY <1>2, <2>4, <2>5, <2>6, <2>7, <2>10, <3>1 DEF Places
    <3>3. Places(e)' <= Places(e)
      <4> HIDE DEF left, more
      <4> QED BY <1>2, <2>6, <3>1, <3>2 DEF Places
    <3>4. h.r = "retry_write" => Waiting(e)'
      <4>1. h.r = "retry_write" => Writers(h) = 1
        BY DEF Writers
      <4> QED BY <1>2, <2>4, <4>1 DEF Waiting
    <3>5. ASSUME timer'[e] # "fired"
          PROVE  /\ Places(e)' <= 1
                 /\ watch'[e] \in IF h.r = "success" THEN {<<"recv">>} ELSE {<<>>, <<"retry_read">>}
      <4>1. watch[e] = <<"retry_read">> /\ Places(e) = 1
        <5>1. timer[e] # "fired" => Places(e) = 1
          <6>1. timer[e] # "fired" => Places(e) = 1 + 0
            BY <1>2 DEF Places
          <6> QED BY <6>1
        <5> QED BY <1>2, <1>4, <2>2, <3>5, <5>1
      <4>2. Places(e)' <= 1
        <5>1. Places(e)' \in Int
          <6> HIDE DEF left, more
          <6> QED BY <1>2, <2>6, <3>1, <3>2
        <5> QED BY <3>3, <4>1, <5>1
      <4>3. Without(watch[e], "retry_read") = <<>>
        BY <4>1, WithoutOnly
      <4>4. <<>> \o more = more
        <5> HIDE DEF more
        <5> QED BY <2>6
      <4>5. left = more
        BY <4>3, <4>4
      <4> QED BY <2>5, <2>10, <4>2, <4>5
    <3>6. Places(e)' <= 2
      <4> HIDE DEF left, more
      <4> QED BY <1>1, <1>2, <2>6, <3>1, <3>2 DEF Places
    <3> QED BY <1>4, <2>1, <2>2, <2>3, <2>8, <2>10, <3>4, <3>5, <3>6, ShakesWatchStep
  <2> QED BY <2>9, <2>10
<1>5. CASE ~Shaking(e)
  <2>1. timer[e] = "fired"
    BY <1>2, <1>3, <1>5 DEF Shaking
  <2>2. Abort(e) /\ Held(ready[e], watch[e])'
    BY <1>2, <1>5 DEF RetryRead, Abort
  <2> QED BY <2>1, <2>2, AbortWatchStep
<1> QED BY <1>4, <1>5

LEMMA RecvWatchStep ==
  ASSUME NEW e \in Peer, RolesInv, WatchesInv, NEW d, Recv(e, d)
  PROVE  WatchStep(e)
<1>1. Watches(e) /\ Runs(e, "recv", d)
  BY DEF WatchesInv, Recv
<1>2. /\ ready[e] # <<>> /\ Head(ready[e]) = "recv"
      /\ ready'[e] = Tail(ready[e]) /\ Held(Tail(ready[e]), watch[e])
      /\ timer[e] # "fired" => ~Shaking(e)
  BY <1>1, RunsWaits
<1>3. state[e] \in {"server", "client", "established"}
  BY <1>1, <1>2, Started DEF Runs, Handshaker
<1>4. CASE state[e] = "established"
  <2>1. UNCHANGED <<state, watch, writers, prober, timer, told>>
    BY <1>4 DEF Recv
  <2>2. Watches(e)'
    BY <1>1, <1>2, <2>1 DEF Watches, Tokens, Places, Shaking, Waiting
  <2> QED BY <2>1, <2>2, RestKept DEF WatchStep
<1>5. CASE state[e] # "established"
  <2>1. timer[e] = "fired"
    BY <1>2, <1>3, <1>5 DEF Shaking
  <2>2. Abort(e) /\ Held(ready[e], watch[e])'
    BY <1>2, <1>5 DEF Recv, Abort
  <2> QED BY <2>1, <2>2, AbortWatchStep
<1> QED BY <1>4, <1>5

(* A probe is read only while probing, by the only callback there is. *)
LEMMA ProbeReader ==
  ASSUME NEW e \in Peer, RolesInv, NEW d, ReadProbe(e, d)
  PROVE  /\ state[e] = "probing" /\ flags[e] = NoRole /\ writers[e] = 0 /\ timer[e] = "off"
         /\ watch[e] \in {<<>>, <<"read_probe">>}
         /\ ready[e] = <<"read_probe">> /\ ready'[e] = <<>>
<1>1. TypeInv /\ EndInv(e)
  BY DEF RolesInv
<1>2. ~Dead(e) /\ ready[e] # <<>> /\ Head(ready[e]) = "read_probe" /\ ready'[e] = Tail(ready[e])
  BY <1>1 DEF ReadProbe, Runs, TypeInv
<1>3. state[e] = "probing" /\ Probing(e)
  <2>1. ready[e] \notin Seq(Handshaker)
    BY <1>2 DEF Handshaker
  <2> QED BY <1>1, <1>2, <2>1 DEF EndInv, Resting, Handshaking, Shaking, Dead, TypeInv, States
<1>4. ready[e] = <<"read_probe">>
  BY <1>2, <1>3 DEF Probing
<1>5. Tail(<<"read_probe">>) = <<>>
  OBVIOUS
<1> QED BY <1>2, <1>3, <1>4, <1>5 DEF Probing

LEMMA StartTLSWatchStep ==
  ASSUME NEW e \in Peer, RolesInv, WatchesInv, NEW d, ReadProbe(e, d), prober' = prober,
         NEW f \in {"server", "client"}, NEW probe, StartTLS(e, f, probe)
  PROVE  WatchStep(e)
<1>1. TypeInv /\ ToldType /\ Watches(e)
  BY DEF RolesInv, WatchesInv
<1>2. /\ state[e] = "probing" /\ writers[e] = 0 /\ timer[e] = "off" /\ ready'[e] = <<>>
      /\ Without(watch[e], "read_probe") = <<>>
  BY ProbeReader, WithoutOnly
<1>3. prober'[e] = TRUE
  BY <1>1, <1>2 DEF Watches
<1>4. ASSUME NEW s \in SUBSET Status, told' = [told EXCEPT ![e] = @ \cup s]
      PROVE  ToldType' /\ \A x \in Peer \ {e} : prober'[x] = prober[x] /\ told'[x] = told[x]
  BY <1>1, <1>4 DEF ToldType
<1>5. ASSUME NEW more \in Seq(Callback), Kept(e, "read_probe", FALSE, more)
      PROVE  watch'[e] = more
  <2>1. <<>> \o more = more
    OBVIOUS
  <2> QED BY <1>1, <1>2, <1>5, <2>1 DEF Kept, TypeInv
<1>6. <<>> \in Seq(Callback) /\ Len(<<>>) = 0
  OBVIOUS
<1>7. ASSUME NEW h \in Handshakes(f, 1, Nothing),
             state' = [state EXCEPT ![e] = After(h, f)],
             timer' = [timer EXCEPT ![e] = "set"],
             Tell(e, IF h.r = "failure" THEN {"tls"} ELSE {}),
             Kept(e, "read_probe", FALSE, Readers(h)),
             writers' = [writers EXCEPT ![e] = @ + Writers(h)]
      PROVE  WatchStep(e)
  <2>1. h.r \in Outcome
    BY HandshakeResult
  <2>2. /\ Readers(h) \in Seq(Callback) /\ Len(Readers(h)) \in Nat /\ Writers(h) \in {0, 1}
        /\ Len(Readers(h)) + Writers(h) <= 1
    BY <2>1, AddedPlaces
  <2>3. watch'[e] = Readers(h) /\ writers'[e] = Writers(h) /\ state'[e] = After(h, f)
    <3>1. 0 + Writers(h) = Writers(h)
      BY <2>2
    <3> QED BY <1>1, <1>2, <1>5, <1>7, <2>2, <3>1 DEF TypeInv
  <2>4. state'[e] = CASE h.r = "success" -> "established" [] h.r = "loops" -> "looping" [] OTHER -> f
    BY <2>3 DEF After
  <2>5. Places(e)' <= 1 /\ Places(e)' <= 2
    BY <2>2, <2>3 DEF Places
  <2>6. Tokens(e)'
    <3>1. Held(ready[e], watch[e])'
      BY <1>2 DEF Held
    <3>2. watch'[e] \in IF h.r = "success" THEN {<<"recv">>} ELSE {<<>>, <<"retry_read">>}
      BY <2>1, <2>3, AddedPlaces
    <3>3. (Shaking(e) => watch[e] \in {<<>>, <<"retry_read">>})'
      BY <2>1, <2>4, <3>2 DEF Shaking, Outcome
    <3>4. (state[e] = "established" => watch[e] = <<"recv">>)'
      BY <2>1, <2>4, <3>2 DEF Outcome
    <3> QED BY <2>5, <3>1, <3>3, <3>4 DEF Tokens
  <2>7. PICK s \in SUBSET Status : told' = [told EXCEPT ![e] = @ \cup s] /\ (h.r = "failure" => s # {})
    BY <1>7 DEF Tell, Status
  <2>8. h.r \in {"failure", "loops", "success"} \/ Waiting(e)'
    <3>1. CASE h.r = "retry_read"
      <4>1. watch'[e] = <<"retry_read">>
        BY <2>1, <2>3, <3>1, AddedPlaces
      <4>2. <<"retry_read">> # <<>>
        OBVIOUS
      <4> QED BY <4>1, <4>2 DEF Waiting
    <3>2. CASE h.r = "retry_write"
      <4>1. writers'[e] = 1
        BY <2>1, <2>3, <3>2, AddedPlaces
      <4> QED BY <4>1 DEF Waiting
    <3> QED BY <2>1, <3>1, <3>2 DEF Outcome
  <2>9. (state[e] \in {"probing", "server", "client"} /\ told[e] = {} => Waiting(e))'
    <3>1. h.r = "failure" => told'[e] # {}
      BY <1>1, <2>7 DEF ToldType
    <3> QED BY <2>4, <2>8, <3>1
  <2>10. state'[e] # "aborted"
    BY <2>1, <2>4 DEF Outcome
  <2>11. Watches(e)'
    BY <1>3, <2>6, <2>9, <2>10 DEF Watches
  <2> QED BY <1>4, <2>7, <2>11 DEF WatchStep
<1>8. CASE /\ state' = [state EXCEPT ![e] = f]
           /\ Tell(e, {"tls"})
           /\ Kept(e, "read_probe", FALSE, <<>>)
           /\ UNCHANGED dtls
  <2>1. watch'[e] = <<>> /\ writers'[e] = 0 /\ state'[e] = f
    BY <1>1, <1>2, <1>5, <1>6, <1>8 DEF TypeInv, dtls
  <2>2. Places(e)' = 0
    BY <1>6, <2>1 DEF Places
  <2>3. Tokens(e)'
    BY <1>2, <2>1, <2>2 DEF Tokens, Held
  <2>4. told' = [told EXCEPT ![e] = @ \cup {"tls"}] /\ {"tls"} \in SUBSET Status
    BY <1>8 DEF Tell, Status
  <2>5. told'[e] # {}
    BY <1>1, <2>4 DEF ToldType
  <2>6. Watches(e)'
    BY <1>3, <2>1, <2>3, <2>5 DEF Watches
  <2> QED BY <1>4, <2>4, <2>6 DEF WatchStep
<1> QED BY <1>7, <1>8 DEF StartTLS

LEMMA ReadProbeWatchStep ==
  ASSUME NEW e \in Peer, RolesInv, WatchesInv, NEW d, ReadProbe(e, d)
  PROVE  WatchStep(e)
<1>1. TypeInv /\ ToldType /\ Watches(e)
  BY DEF RolesInv, WatchesInv
<1>2. /\ state[e] = "probing" /\ writers[e] = 0 /\ timer[e] = "off" /\ ready'[e] = <<>>
      /\ Without(watch[e], "read_probe") = <<>>
  BY ProbeReader, WithoutOnly
<1>3. prober' = prober
  BY <1>2 DEF ReadProbe
<1>4. CASE KeepProbing(e, d)
  <2>1. UNCHANGED <<state, watch, writers, timer, prober, told>>
    BY <1>3, <1>4 DEF KeepProbing, dtls
  <2>2. Watches(e)'
    BY <1>1, <1>2, <2>1 DEF Watches, Tokens, Places, Waiting, Shaking, Held
  <2> QED BY <2>1, <2>2, RestKept DEF WatchStep
<1>5. CASE Tied(e, d)
  <2>1. <<>> \o <<>> = <<>> /\ Len(<<>>) = 0
    OBVIOUS
  <2>2. watch'[e] = <<>> /\ UNCHANGED <<state, writers, timer>>
    BY <1>1, <1>2, <1>5, <2>1 DEF Tied, Kept, TypeInv, dtls
  <2>3. told' = [told EXCEPT ![e] = @ \cup {"tied"}] /\ "tied" \in Status
    BY <1>5 DEF Tied, Tell, Status
  <2>4. ToldType' /\ told'[e] # {} /\ \A x \in Peer \ {e} : prober'[x] = prober[x] /\ told'[x] = told[x]
    BY <1>1, <1>3, <2>3 DEF ToldType
  <2>5. Places(e)' = 0
    BY <1>2, <2>1, <2>2 DEF Places
  <2>6. Tokens(e)'
    BY <1>2, <2>2, <2>5 DEF Tokens, Held, Shaking
  <2>7. Watches(e)'
    BY <1>1, <1>2, <1>3, <2>2, <2>4, <2>6 DEF Watches
  <2> QED BY <2>4, <2>7 DEF WatchStep
<1>6. CASE BecomeServer(e, d) \/ BecomeClient(e, d)
  BY <1>3, <1>6, StartTLSWatchStep DEF BecomeServer, BecomeClient
<1> QED BY <1>2, <1>4, <1>5, <1>6 DEF ReadProbe

-----------------------------------------------------------------------------
LEMMA NextKeepsWatches == RolesInv /\ WatchesInv /\ [Next]_vars => WatchesInv'
<1> SUFFICES ASSUME RolesInv, WatchesInv, [Next]_vars
             PROVE  WatchesInv'
  OBVIOUS
<1>1. CASE UNCHANGED vars
  BY <1>1 DEF vars, WatchesInv, ToldType, Watches, Tokens, Places, Held, Waiting, Shaking
<1>2. CASE Next
  <2>1. PICK e \in Peer : \/ Connect(e) \/ SendProbe(e) \/ HandshakeTimer(e)
                          \/ Wake(e) \/ RetryWrite(e) \/ Reads(e)
    BY <1>2 DEF Next
  <2>2. EndStep(e)
    BY <2>1, StepIsEndStep
  <2>3. WatchStep(e)
    BY <2>1, <2>2, ConnectWatchStep, SendProbeWatchStep, HandshakeTimerWatchStep, WakeWatchStep,
       RetryWriteWatchStep, ReadProbeWatchStep, RetryReadWatchStep, RecvWatchStep DEF Reads
  <2> QED BY <2>2, <2>3, StepKeepsWatches
<1> QED BY <1>1, <1>2

THEOREM WatchesKept == Spec => [](RolesInv /\ WatchesInv)
BY RolesKept, RolesInit, NextKeepsRoles, WatchesInit, NextKeepsWatches, PTL DEF Spec

-----------------------------------------------------------------------------
(***************************************************************************)
(* How far the ends are in the handshake.  An end has passed a flight of   *)
(* the other only when the other had sent it; the flights on their way     *)
(* were sent by the end whose turn it was.                                 *)
(***************************************************************************)
FlightType ==
  /\ pri \in [Peer -> Priority]
  /\ flight \in [Peer -> 1 .. Ended]
  /\ net \in [Peer -> SUBSET Datagram]

Flights(e) ==
  /\ state[e] = "established" => flight[e] = Ended
  /\ flags[e] = NoRole => flight[e] = 1
  /\ \A j \in 1 .. 4 : j < flight[e] /\ Sender(j) # flags[e] => flight[Other(e)] > j
  /\ \A d \in net[e] : d.op = "dtls" => flags[Other(e)] = Sender(d.flight) /\ flight[Other(e)] > d.flight

FlightsInv == FlightType /\ \A e \in Peer : Flights(e)

(* A step of the end e: it passes a flight of the other end by reading it, *)
(* and sends the flights it has passed itself.                             *)
FlightStep(e) ==
  /\ FlightType'
  /\ flight'[e] >= flight[e] /\ flight'[Other(e)] = flight[Other(e)]
  /\ flags'[e] = flags[e] \/ flags[e] = NoRole
  /\ state'[e] = "established" => flight'[e] = Ended
  /\ flags'[e] = NoRole => flight'[e] = 1
  /\ \A j \in 1 .. 4 : flight[e] <= j /\ j < flight'[e] /\ Sender(j) # flags'[e] => Flight(j) \in net[e]
  /\ net'[e] = net[e]
  /\ \A d \in net'[Other(e)] :
       \/ d \in net[Other(e)]
       \/ d.op = "dtls" => flags'[e] = Sender(d.flight) /\ flight'[e] > d.flight

LEMMA FlightsInit == Init => FlightsInv
<1> SUFFICES ASSUME Init PROVE FlightsInv
  OBVIOUS
<1>1. FlightType
  BY DEF Init, FlightType, Ended
<1>2. ASSUME NEW e \in Peer PROVE Flights(e)
  BY DEF Init, Flights
<1> QED BY <1>1, <1>2 DEF FlightsInv

LEMMA StepKeepsFlights ==
  ASSUME NEW e \in Peer, FlightsInv, EndStep(e), FlightStep(e)
  PROVE  FlightsInv'
<1> DEFINE o == Other(e)
<1>1. o \in Peer /\ o # e /\ Peer = {e, o} /\ Other(o) = e
  BY TwoPeers
<1>2. FlightType /\ Flights(e) /\ Flights(o)
  BY <1>1 DEF FlightsInv
<1>3. flight[e] \in Nat /\ flight'[e] \in Nat /\ flight[o] \in Nat
  BY <1>1, <1>2 DEF FlightStep, FlightType, Ended
<1>4. state'[o] = state[o] /\ flags'[o] = flags[o] /\ flight'[o] = flight[o]
  BY DEF EndStep, Local, FlightStep
<1>5. Flights(e)'
  <2>1. ASSUME NEW j \in 1 .. 4, j < flight'[e], Sender(j) # flags'[e]
        PROVE  flight[o] > j
    <3>1. CASE j < flight[e]
      <4>1. flags[e] # NoRole
        BY <1>2, <3>1 DEF Flights
      <4>2. flags'[e] = flags[e]
        BY <4>1 DEF FlightStep
      <4> QED BY <1>2, <2>1, <3>1, <4>2 DEF Flights
    <3>2. CASE flight[e] <= j
      <4>1. Flight(j) \in net[e]
        BY <2>1, <3>2 DEF FlightStep
      <4>2. Flight(j).op = "dtls" /\ Flight(j).flight = j
        BY DEF Flight
      <4>3. flight[o] > Flight(j).flight
        BY <1>2, <4>1, <4>2 DEF Flights
      <4> QED BY <4>2, <4>3
    <3> QED BY <1>3, <3>1, <3>2
  <2>2. \A d \in net'[e] : d.op = "dtls" => flags'[o] = Sender(d.flight) /\ flight'[o] > d.flight
    BY <1>2, <1>4 DEF Flights, FlightStep
  <2> QED BY <1>4, <2>1, <2>2 DEF FlightStep, Flights
<1>6. Flights(o)'
  <2>1. ASSUME NEW j \in 1 .. 4, j < flight'[o], Sender(j) # flags'[o]
        PROVE  flight'[e] > j
    <3>1. flight[e] > j
      BY <1>1, <1>2, <1>4, <2>1 DEF Flights
    <3> QED BY <1>3, <3>1 DEF FlightStep
  <2>2. ASSUME NEW d \in net'[o], d.op = "dtls"
        PROVE  flags'[e] = Sender(d.flight) /\ flight'[e] > d.flight
    <3>1. CASE d \in net[o]
      <4>1. flags[e] = Sender(d.flight) /\ flight[e] > d.flight
        BY <1>1, <1>2, <2>2, <3>1 DEF Flights
      <4>2. flags'[e] = flags[e]
        BY <4>1 DEF FlightStep, Sender, NoRole
      <4>3. d.flight \in Int
        <5>1. d \in Datagram
          BY <1>1, <1>2, <3>1 DEF FlightType
        <5> QED BY <5>1 DEF Datagram, Probe, Flight
      <4> QED BY <1>3, <4>1, <4>2, <4>3 DEF FlightStep
    <3> QED BY <2>2, <3>1 DEF FlightStep
  <2> QED BY <1>1, <1>2, <1>4, <2>1, <2>2 DEF Flights
<1> QED BY <1>1, <1>5, <1>6 DEF FlightStep, FlightsInv

(* A step that takes no part in the handshake. *)
LEMMA AsideFlightStep ==
  ASSUME NEW e \in Peer, RolesInv, FlightsInv, pri' = pri, flight' = flight,
         flags'[e] = flags[e], state'[e] = "established" => state[e] = "established",
         NEW out \in SUBSET Datagram, Send(e, out),
         \A d \in out : d.op = "dtls" => flags[e] = Sender(d.flight) /\ flight[e] > d.flight
  PROVE  FlightStep(e)
<1>1. Other(e) \in Peer /\ Other(e) # e /\ FlightType /\ Flights(e)
  BY TwoPeers DEF FlightsInv
<1>2. net'[e] = net[e] /\ net'[Other(e)] = net[Other(e)] \cup out /\ net' \in [Peer -> SUBSET Datagram]
  BY <1>1 DEF Send, FlightType
<1>3. flight[e] \in Nat
  BY <1>1 DEF FlightType, Ended
<1> QED BY <1>1, <1>2, <1>3 DEF FlightStep, FlightType, Flights

LEMMA AsideUnsent ==
  ASSUME NEW e \in Peer, RolesInv, FlightsInv, UNCHANGED <<pri, flight, flags, net>>,
         state'[e] = "established" => state[e] = "established"
  PROVE  FlightStep(e)
<1>1. Send(e, {})
  <2>1. net = [net EXCEPT ![Other(e)] = @ \cup {}]
    BY TwoPeers DEF FlightsInv, FlightType
  <2> QED BY <2>1 DEF Send
<1> QED BY <1>1, AsideFlightStep

LEMMA Senders ==
  /\ Sender(1) = "client" /\ Sender(2) = "server" /\ Sender(3) = "client" /\ Sender(4) = "server"
  /\ \A k \in Nat : Sender(k) \in {"server", "client"}
BY DEF Sender

(* gnutls_handshake() passes the flights in turn: its own by sending them, *)
(* those of the other end by reading them.                                 *)
LEMMA HandshakeFlights ==
  ASSUME NEW f \in {"server", "client"}, NEW at \in 1 .. Ended,
         NEW d \in Datagram \cup {Nothing}, NEW h \in Handshakes(f, at, d)
  PROVE  /\ h.flight \in at .. Ended
         /\ h.r = "success" => h.flight = Ended
         /\ h.out \in SUBSET Datagram
         /\ \A x \in h.out : x.op = "dtls" => Sender(x.flight) = f /\ x.flight < h.flight
         /\ \A j \in 1 .. 4 : at <= j /\ j < h.flight /\ Sender(j) # f => d = Flight(j)
<1> DEFINE k == IF Takes(f, at, d) THEN at + 1 ELSE at
<1>1. k \in at .. Ended /\ (k # at => k = at + 1 /\ d = Flight(at))
  <2>1. CASE Takes(f, at, d)
    <3>1. d = Flight(at) /\ d.op = "dtls" /\ d.flight = at
      BY <2>1 DEF Takes, Flight
    <3>2. at \in 1 .. 4
      <4>1. d \notin {Probe(p, ack) : p \in Priority, ack \in BOOLEAN} /\ d # Nothing
        BY <3>1 DEF Probe, Nothing
      <4>2. PICK j \in 1 .. 4 : d = Flight(j)
        BY <4>1 DEF Datagram
      <4>3. Flight(j).flight = j
        BY DEF Flight
      <4> QED BY <3>1, <4>2, <4>3
    <3> QED BY <2>1, <3>1, <3>2 DEF Ended
  <2>2. CASE ~Takes(f, at, d)
    BY <2>2 DEF Ended
  <2> QED BY <2>1, <2>2
<1>2. k # at => Sender(k) = f \/ k = Ended
  <2>1. k # at => Sender(at) # f /\ at \in 1 .. 4 /\ k = at + 1
    BY <1>1 DEF Takes, Ended
  <2>2. at \in {1, 2, 3, 4} => Sender(at) # Sender(at + 1) /\ Sender(at) \in {"server", "client"}
                                /\ Sender(at + 1) \in {"server", "client"}
    BY DEF Sender
  <2> HIDE DEF k
  <2> QED BY <2>1, <2>2
<1>3. \A j \in 1 .. 4 : Flight(j) \in Datagram /\ Flight(j).flight = j
  <2>1. \A j \in 1 .. 4 : Flight(j) \in Datagram
    BY DEF Datagram
  <2> QED BY <2>1 DEF Flight
<1>4. \/ h.r \in {"failure", "loops"} /\ h.flight = k /\ h.out = {}
      \/ k = Ended /\ h.r = "success" /\ h.flight = k /\ h.out = {}
      \/ k # Ended /\ Sender(k) = f /\ h.r = "retry_write" /\ h.flight = k /\ h.out = {}
      \/ /\ k # Ended /\ Sender(k) = f /\ h.r = (IF k = 4 THEN "success" ELSE "retry_read")
         /\ h.flight = k + 1 /\ h.out = {Flight(k)}
      \/ /\ k # Ended /\ Sender(k) # f /\ h.r = "retry_read" /\ h.flight = k
         /\ h.out \in {{}, {Flight(j) : j \in {k - 1} \ {0}}}
  BY DEF Handshakes, Result
<1> HIDE DEF k
<1>5. k \in 1 .. 5 /\ at \in 1 .. 5 /\ Ended = 5
  BY <1>1 DEF Ended
<1>6. ASSUME NEW j \in 1 .. 4, at <= j, j < k, Sender(j) # f PROVE d = Flight(j)
  BY <1>1, <1>5, <1>6
<1>7. CASE h.flight = k /\ h.out = {} /\ (h.r = "success" => k = Ended)
  BY <1>1, <1>5, <1>6, <1>7
<1>8. CASE /\ k # Ended /\ Sender(k) = f /\ h.r = (IF k = 4 THEN "success" ELSE "retry_read")
           /\ h.flight = k + 1 /\ h.out = {Flight(k)}
  <2>1. k \in 1 .. 4 /\ h.flight \in at .. Ended /\ (h.r = "success" => h.flight = Ended)
    BY <1>1, <1>5, <1>8
  <2>2. h.out \in SUBSET Datagram /\ \A x \in h.out : x.op = "dtls" => Sender(x.flight) = f /\ x.flight < h.flight
    BY <1>3, <1>8, <2>1
  <2>3. ASSUME NEW j \in 1 .. 4, at <= j, j < h.flight, Sender(j) # f PROVE d = Flight(j)
    <3>1. j < k
      BY <1>5, <1>8, <2>3
    <3> QED BY <1>6, <2>3, <3>1
  <2> QED BY <2>1, <2>2, <2>3
<1>9. CASE /\ k # Ended /\ Sender(k) # f /\ h.r = "retry_read" /\ h.flight = k
           /\ h.out \in {{}, {Flight(j) : j \in {k - 1} \ {0}}}
  <2>1. h.flight \in at .. Ended /\ h.r # "success"
    BY <1>1, <1>5, <1>9
  <2>2. ASSUME NEW x \in h.out PROVE x \in Datagram /\ Sender(x.flight) = f /\ x.flight < h.flight
    <3>1. x = Flight(k - 1) /\ k - 1 # 0
      BY <1>9, <2>2
    <3>2. k - 1 \in 1 .. 4
      BY <1>5, <3>1
    <3>3. k \in {2, 3, 4} => Sender(k - 1) = f
      <4>1. k = 2 => k - 1 = 1
        OBVIOUS
      <4>2. k = 3 => k - 1 = 2
        OBVIOUS
      <4>3. k = 4 => k - 1 = 3
        OBVIOUS
      <4> QED BY <1>9, <4>1, <4>2, <4>3, Senders
    <3>4. k \in {2, 3, 4}
      BY <1>5, <1>9, <3>1
    <3> QED BY <1>3, <1>5, <1>9, <3>1, <3>2, <3>3, <3>4
  <2> QED BY <1>6, <1>9, <2>1, <2>2
<1> QED BY <1>4, <1>7, <1>8, <1>9

(* A handshake that has started, with whatever datagram it finds. *)
LEMMA ShakesFlightStep ==
  ASSUME NEW e \in Peer, RolesInv, FlightsInv, Shaking(e), flags[e] # NoRole, UNCHANGED <<pri, flags>>,
         NEW d \in net[e] \cup {Nothing}, NEW h \in Handshakes(flags[e], flight[e], d), Handshake(e, h)
  PROVE  FlightStep(e)
<1>1. Other(e) \in Peer /\ Other(e) # e /\ TypeInv /\ FlightType
  BY TwoPeers DEF RolesInv, FlightsInv
<1>2. flags[e] \in {"server", "client"} /\ flight[e] \in 1 .. Ended /\ d \in Datagram \cup {Nothing}
  BY <1>1 DEF TypeInv, FlightType
<1>3. /\ h.flight \in flight[e] .. Ended
      /\ h.r = "success" => h.flight = Ended
      /\ h.out \in SUBSET Datagram
      /\ \A x \in h.out : x.op = "dtls" => Sender(x.flight) = flags[e] /\ x.flight < h.flight
      /\ \A j \in 1 .. 4 : flight[e] <= j /\ j < h.flight /\ Sender(j) # flags[e] => d = Flight(j)
  BY <1>2, HandshakeFlights
<1>4. h.flight \in 1 .. Ended /\ h.flight >= flight[e]
  BY <1>2, <1>3 DEF Ended
<1>5. /\ flight' = [flight EXCEPT ![e] = h.flight] /\ state'[e] = After(h, state[e])
      /\ net' = [net EXCEPT ![Other(e)] = @ \cup h.out]
  BY <1>1 DEF Handshake, Send, TypeInv
<1>6. flight'[e] = h.flight /\ flight'[Other(e)] = flight[Other(e)]
  BY <1>1, <1>5 DEF FlightType
<1>7. net'[e] = net[e] /\ net'[Other(e)] = net[Other(e)] \cup h.out /\ net' \in [Peer -> SUBSET Datagram]
  BY <1>1, <1>3, <1>5 DEF FlightType
<1>8. FlightType'
  BY <1>1, <1>4, <1>5, <1>7 DEF FlightType
<1>9. state'[e] = "established" => flight'[e] = Ended
  <2>1. h.r \in Outcome
    BY HandshakeResult
  <2>2. state'[e] = "established" => h.r = "success"
    BY <1>5, <2>1 DEF After, Shaking, Outcome
  <2> QED BY <1>3, <1>6, <2>2
<1>10. \A j \in 1 .. 4 : flight[e] <= j /\ j < flight'[e] /\ Sender(j) # flags'[e] => Flight(j) \in net[e]
  <2>1. \A j \in 1 .. 4 : Flight(j) # Nothing
    BY DEF Flight, Nothing
  <2> QED BY <1>3, <1>6, <2>1
<1>11. ASSUME NEW x \in h.out, x.op = "dtls" PROVE flags'[e] = Sender(x.flight) /\ flight'[e] > x.flight
  <2>1. x.flight \in Int
    <3>1. x \in Datagram
      BY <1>3
    <3> QED BY <3>1 DEF Datagram, Probe, Flight
  <2> QED BY <1>3, <1>4, <1>6, <1>11, <2>1
<1> QED BY <1>4, <1>6, <1>7, <1>8, <1>9, <1>10, <1>11 DEF FlightStep

LEMMA ProbeDatagrams ==
  ASSUME NEW p \in Priority, NEW ack
  PROVE  /\ ack \in BOOLEAN => Probe(p, ack) \in Datagram
         /\ Probe(p, ack).op # "dtls"
BY DEF Datagram, Probe

LEMMA SendProbeFlightStep ==
  ASSUME NEW e \in Peer, RolesInv, FlightsInv, SendProbe(e)
  PROVE  FlightStep(e)
<1>1. UNCHANGED <<pri, flight, flags, state>> /\ pri[e] \in Priority
  BY DEF SendProbe, dtls, FlightsInv, FlightType
<1>2. CASE net' = net
  BY <1>1, <1>2, AsideUnsent
<1>3. CASE Send(e, {Probe(pri[e], state[e] = "server")})
  <2> DEFINE d == Probe(pri[e], state[e] = "server")
  <2>1. (state[e] = "server") \in BOOLEAN
    OBVIOUS
  <2>2. d \in Datagram /\ d.op # "dtls"
    BY <1>1, <2>1, ProbeDatagrams
  <2> QED BY <1>1, <1>3, <2>2, AsideFlightStep
<1> QED BY <1>2, <1>3 DEF SendProbe

LEMMA HandshakeTimerFlightStep ==
  ASSUME NEW e \in Peer, RolesInv, FlightsInv, HandshakeTimer(e)
  PROVE  FlightStep(e)
<1>1. CASE Shaking(e)
  <2>1. flags[e] # NoRole
    BY <1>1, Started DEF HandshakeTimer
  <2>2. /\ UNCHANGED <<pri, flags>>
        /\ \E d \in net[e] \cup {Nothing} : \E h \in Handshakes(flags[e], flight[e], d) : Handshake(e, h)
    BY <1>1 DEF HandshakeTimer, Shaking
  <2> QED BY <1>1, <2>1, <2>2, ShakesFlightStep
<1>2. CASE ~Shaking(e)
  BY <1>2, AsideUnsent DEF HandshakeTimer
<1> QED BY <1>1, <1>2

LEMMA AbortFlightStep ==
  ASSUME NEW e \in Peer, RolesInv, FlightsInv, Abort(e)
  PROVE  FlightStep(e)
<1>1. state'[e] # "established"
  BY DEF Abort, RolesInv, TypeInv
<1> QED BY <1>1, AsideUnsent DEF Abort

LEMMA RetryFlightStep ==
  ASSUME NEW e \in Peer, RolesInv, FlightsInv,
         RetryWrite(e) \/ \E d \in net[e] \cup {Nothing} : RetryRead(e, d)
  PROVE  FlightStep(e)
<1>1. CASE Shaking(e)
  <2>1. flags[e] # NoRole
    BY Started DEF RetryWrite, RetryRead, Idle, Runs, Handshaker
  <2>2. /\ UNCHANGED <<pri, flags>>
        /\ \E d \in net[e] \cup {Nothing} : \E h \in Handshakes(flags[e], flight[e], d) : Handshake(e, h)
    BY <1>1 DEF RetryWrite, RetryRead
  <2> QED BY <1>1, <2>1, <2>2, ShakesFlightStep
<1>2. CASE ~Shaking(e)
  BY <1>2, AbortFlightStep DEF RetryWrite, RetryRead
<1> QED BY <1>1, <1>2

LEMMA RecvFlightStep ==
  ASSUME NEW e \in Peer, RolesInv, FlightsInv, NEW d, Recv(e, d)
  PROVE  FlightStep(e)
<1>1. CASE state[e] = "established"
  <2> DEFINE out == IF flags[e] = "server" /\ d = Flight(3) THEN {Flight(4)} ELSE {}
  <2>1. UNCHANGED <<pri, flight, flags, state>> /\ Send(e, out)
    BY <1>1 DEF Recv
  <2>2. Flight(4) \in Datagram /\ Flight(4).flight = 4
    BY DEF Flight, Datagram
  <2>3. flight[e] = 5
    BY <1>1 DEF FlightsInv, Flights, Ended
  <2>4. out \in SUBSET Datagram /\ \A x \in out : flags[e] = Sender(x.flight) /\ flight[e] > x.flight
    BY <2>2, <2>3, Senders
  <2> HIDE DEF out
  <2> QED BY <2>1, <2>4, AsideFlightStep
<1>2. CASE state[e] # "established"
  BY <1>2, AbortFlightStep DEF Recv
<1> QED BY <1>1, <1>2

LEMMA StartTLSFlightStep ==
  ASSUME NEW e \in Peer, RolesInv, FlightsInv, flags[e] = NoRole, pri' = pri,
         NEW f \in {"server", "client"}, NEW probe \in {{}, {Probe(pri[e], TRUE)}}, StartTLS(e, f, probe)
  PROVE  FlightStep(e)
<1>1. Other(e) \in Peer /\ Other(e) # e /\ TypeInv /\ FlightType /\ flight[e] = 1
  BY TwoPeers DEF RolesInv, FlightsInv, Flights
<1>2. probe \in SUBSET Datagram /\ \A x \in probe : x.op # "dtls"
  <2>1. pri[e] \in Priority
    BY <1>1 DEF FlightType
  <2> QED BY <2>1, ProbeDatagrams
<1>3. ASSUME NEW h \in Handshakes(f, 1, Nothing),
             flags' = [flags EXCEPT ![e] = f],
             state' = [state EXCEPT ![e] = After(h, f)],
             flight' = [flight EXCEPT ![e] = h.flight],
             Send(e, h.out \cup probe)
      PROVE  FlightStep(e)
  <2>1. /\ h.flight \in 1 .. Ended
        /\ h.r = "success" => h.flight = Ended
        /\ h.out \in SUBSET Datagram
        /\ \A x \in h.out : x.op = "dtls" => Sender(x.flight) = f /\ x.flight < h.flight
        /\ \A j \in 1 .. 4 : 1 <= j /\ j < h.flight /\ Sender(j) # f => Nothing = Flight(j)
    <3>1. 1 \in 1 .. Ended
      BY DEF Ended
    <3> QED BY <3>1, HandshakeFlights
  <2>2. /\ flags'[e] = f /\ state'[e] = After(h, f)
        /\ flight'[e] = h.flight /\ flight'[Other(e)] = flight[Other(e)]
    BY <1>1, <1>3 DEF TypeInv, FlightType
  <2>3. /\ net'[e] = net[e] /\ net'[Other(e)] = net[Other(e)] \cup (h.out \cup probe)
        /\ net' \in [Peer -> SUBSET Datagram]
    BY <1>1, <1>2, <1>3, <2>1 DEF FlightType, Send
  <2>4. FlightType' /\ h.flight \in Nat /\ h.flight >= 1
    <3>1. flight' \in [Peer -> 1 .. Ended]
      BY <1>1, <1>3, <2>1 DEF FlightType
    <3>2. h.flight \in Nat /\ h.flight >= 1
      BY <2>1 DEF Ended
    <3> QED BY <1>1, <2>3, <3>1, <3>2 DEF FlightType
  <2>5. state'[e] = "established" => flight'[e] = Ended
    <3>1. h.r \in Outcome
      BY HandshakeResult
    <3> QED BY <2>1, <2>2, <3>1 DEF After, Outcome
  <2>6. \A j \in 1 .. 4 : flight[e] <= j /\ j < flight'[e] /\ Sender(j) # flags'[e] => Flight(j) \in net[e]
    <3>1. \A j \in 1 .. 4 : Flight(j) # Nothing
      BY DEF Flight, Nothing
    <3> QED BY <1>1, <2>1, <2>2, <3>1
  <2>7. ASSUME NEW x \in h.out \cup probe, x.op = "dtls"
        PROVE  flags'[e] = Sender(x.flight) /\ flight'[e] > x.flight
    <3>1. x \in h.out
      BY <1>2, <2>7
    <3>2. x.flight \in Int
      <4>1. x \in Datagram
        BY <2>1, <3>1
      <4> QED BY <4>1 DEF Datagram, Probe, Flight
    <3> QED BY <2>1, <2>2, <2>4, <2>7, <3>1, <3>2
  <2>8. flags'[e] # NoRole
    BY <2>2 DEF NoRole
  <2>9. flight'[e] >= flight[e]
    BY <1>1, <2>2, <2>4
  <2> QED BY <2>2, <2>3, <2>4, <2>5, <2>6, <2>7, <2>8, <2>9 DEF FlightStep
<1>4. CASE /\ state' = [state EXCEPT ![e] = f] /\ Send(e, probe) /\ flags' = flags /\ flight' = flight
  <2>1. state'[e] # "established"
    BY <1>1, <1>4 DEF TypeInv
  <2> QED BY <1>2, <1>4, <2>1, AsideFlightStep
<1> QED BY <1>3, <1>4 DEF StartTLS, dtls

LEMMA ReadProbeFlightStep ==
  ASSUME NEW e \in Peer, RolesInv, FlightsInv, NEW d, ReadProbe(e, d)
  PROVE  FlightStep(e)
<1>1. state[e] = "probing" /\ flags[e] = NoRole
  BY ProbeReader
<1>2. pri' = pri
  BY <1>1 DEF ReadProbe
<1>3. CASE KeepProbing(e, d) \/ Tied(e, d)
  BY <1>1, <1>2, <1>3, AsideUnsent DEF KeepProbing, Tied, dtls
<1>4. CASE BecomeServer(e, d) \/ BecomeClient(e, d)
  BY <1>1, <1>2, <1>4, StartTLSFlightStep DEF BecomeServer, BecomeClient
<1> QED BY <1>1, <1>3, <1>4 DEF ReadProbe

LEMMA NextKeepsFlights == RolesInv /\ FlightsInv /\ [Next]_vars => FlightsInv'
<1> SUFFICES ASSUME RolesInv, FlightsInv, [Next]_vars
             PROVE  FlightsInv'
  OBVIOUS
<1>1. CASE UNCHANGED vars
  BY <1>1 DEF vars, FlightsInv, FlightType, Flights
<1>2. CASE Next
  <2>1. PICK e \in Peer : \/ Connect(e) \/ SendProbe(e) \/ HandshakeTimer(e)
                          \/ Wake(e) \/ RetryWrite(e) \/ Reads(e)
    BY <1>2 DEF Next
  <2>2. EndStep(e)
    BY <2>1, StepIsEndStep
  <2>3. CASE Connect(e)
    <3>1. state'[e] # "established"
      BY <2>3 DEF Connect, RolesInv, TypeInv
    <3>2. FlightStep(e)
      BY <2>3, <3>1, AsideUnsent DEF Connect, dtls
    <3> QED BY <2>2, <3>2, StepKeepsFlights
  <2>4. CASE Wake(e)
    <3>1. FlightStep(e)
      BY <2>4, AsideUnsent DEF Wake
    <3> QED BY <2>2, <3>1, StepKeepsFlights
  <2>5. CASE SendProbe(e) \/ HandshakeTimer(e)
    BY <2>2, <2>5, SendProbeFlightStep, HandshakeTimerFlightStep, StepKeepsFlights
  <2>6. CASE RetryWrite(e) \/ Reads(e)
    BY <2>2, <2>6, RetryFlightStep, RecvFlightStep, ReadProbeFlightStep, StepKeepsFlights DEF Reads
  <2> QED BY <2>1, <2>3, <2>4, <2>5, <2>6
<1> QED BY <1>1, <1>2

-----------------------------------------------------------------------------
THEOREM FlightsKept == Spec => [](RolesInv /\ WatchesInv /\ FlightsInv)
BY WatchesKept, RolesInit, NextKeepsRoles, FlightsInit, NextKeepsFlights, PTL DEF Spec

(***************************************************************************)
(* The variables of the two ends have the values trill.h gives them; at    *)
(* most two writers wait for a socket.                                     *)
(***************************************************************************)
THEOREM TypeHolds == Spec => []TypeOK
<1>1. RolesInv /\ WatchesInv /\ FlightsInv => TypeOK
  <2> SUFFICES ASSUME RolesInv, WatchesInv, FlightsInv PROVE TypeOK
    OBVIOUS
  <2>1. ASSUME NEW e \in Peer PROVE writers[e] \in 0 .. 2
    <3>1. Len(watch[e]) \in Nat /\ writers[e] \in Nat
      BY DEF RolesInv, TypeInv
    <3> QED BY <3>1 DEF WatchesInv, Watches, Tokens, Places
  <2>2. writers \in [Peer -> 0 .. 2]
    BY <2>1 DEF RolesInv, TypeInv
  <2> QED BY <2>2 DEF TypeOK, RolesInv, TypeInv, WatchesInv, ToldType, FlightsInv, FlightType
<1> QED BY <1>1, FlightsKept, PTL

(***************************************************************************)
(* trill_connection_probe() goes on until the end is the client or has     *)
(* completed the handshake, whatever is lost and however it ends.          *)
(***************************************************************************)
THEOREM ProbesNeverStop == Spec => []ProbesGoOn
<1>1. WatchesInv => ProbesGoOn
  BY DEF WatchesInv, Watches, ProbesGoOn
<1> QED BY <1>1, WatchesKept, PTL

(***************************************************************************)
(* No connection goes to sleep: each way out of a callback of trill/tls.c  *)
(* leaves a watch behind, or has told the client.                          *)
(***************************************************************************)
THEOREM NeverAsleep == Spec => []NoneSleeps
<1>1. WatchesInv => NoneSleeps
  BY DEF WatchesInv, Watches, NoneSleeps
<1> QED BY <1>1, WatchesKept, PTL

(***************************************************************************)
(* A connection is complete at one end only when the other end has reached *)
(* the last flight, in any order the datagrams come.                       *)
(***************************************************************************)
THEOREM NeverAlone == Spec => []BothHandshake
<1>1. RolesInv /\ FlightsInv => BothHandshake
  <2> SUFFICES ASSUME RolesInv, FlightsInv, NEW e \in Peer, state[e] = "established"
               PROVE  flight[Other(e)] >= 4
    BY DEF BothHandshake
  <2>1. flight[e] = 5 /\ flight[Other(e)] \in Nat
    BY TwoPeers DEF FlightsInv, FlightType, Flights, Ended
  <2>2. Sender(3) # flags[e] \/ Sender(4) # flags[e]
    BY Senders
  <2>3. \A j \in 1 .. 4 : j < flight[e] /\ Sender(j) # flags[e] => flight[Other(e)] > j
    BY DEF FlightsInv, Flights
  <2>4. flight[Other(e)] > 3 \/ flight[Other(e)] > 4
    BY <2>1, <2>2, <2>3
  <2> QED BY <2>1, <2>4
<1> QED BY <1>1, FlightsKept, PTL

(***************************************************************************)
(* No callback of trill/tls.c finds a state it asserts against before the  *)
(* handshake timer has fired into a handshake that goes on.                *)
(***************************************************************************)
THEOREM AbortsAfterTimer == Spec => []AbortNeedsTimer
<1>1. WatchesInv => AbortNeedsTimer
  BY DEF WatchesInv, Watches, AbortNeedsTimer
<1> QED BY <1>1, WatchesKept, PTL

=============================================================================
