------------------------------ MODULE PlumeProofs ------------------------------
(* Theorems about a Plume client, for any number of calls and requests. *)
EXTENDS PlumeProps, FiniteSetTheorems, SequenceTheorems, TLAPS

(***************************************************************************)
(* Why the protocol is one sequence of steps: each phase has steps of its  *)
(* own, of which one may be waited for, by one watch, and none when a      *)
(* success was reported.  Only a request that blocks waits to be sent      *)
(* again.                                                                  *)
(***************************************************************************)
Stage(p) ==
  CASE p = "dns_srv" -> {"ares_srv"}
    [] p = "dns_host" -> {"ares_host"}
    [] p = "connecting" -> {"tls_begin"}
    [] p = "tls" -> Shake
    [] OTHER -> {}

Over == phase \in {"connected", "crashed"}

StepInv ==
  /\ Steps \subseteq Stage(phase)
  /\ \A j, k \in Steps : j = k
  /\ \A k \in Shake : watch[k] \in 0 .. 1
  /\ watch["can_recv"] \in 0 .. 1 /\ (watch["can_recv"] = 1 => Over)
  /\ watch["resend"] \in 0 .. asked

(* The last call that a step makes of pc_connected_cb is its own last.     *)
ToldInv ==
  /\ Told("success") => Over
  /\ Len(told) \in 0 .. MaxTold + 1
  /\ Len(told) = MaxTold + 1 => Steps = {}
  /\ phase = "tls" /\ Steps = {} => Reported

TypeInv ==
  /\ phase \in Phases
  /\ asking \subseteq Lookup
  /\ ares \in [AresSock -> 0 .. MaxIo]
  /\ watch \in [Callback -> Nat]
  /\ sessions \in 0 .. 2
  /\ told \in Seq(Status)

RequestInv ==
  /\ asked \in 0 .. MaxSend
  /\ pending \in 0 .. asked
  /\ received \in Seq(1 .. asked)
  /\ SentInOrder

PlumeInv == TypeInv /\ StepInv /\ ToldInv /\ RequestInv

-----------------------------------------------------------------------------
(* What the helpers do. *)

LEMMA InOrOut ==
  ASSUME NEW S, NEW k
  PROVE  Cardinality(S \cap {k}) = IF k \in S THEN 1 ELSE 0
<1>1. CASE k \in S
  <2>1. S \cap {k} = {k}
    BY <1>1
  <2> QED BY <1>1, <2>1, FS_Singleton
<1>2. CASE k \notin S
  <2>1. S \cap {k} = {}
    BY <1>2
  <2> QED BY <1>2, <2>1, FS_EmptySet
<1> QED BY <1>1, <1>2

(* A callback of one step waits, or none; what follows it is another.      *)
LEMMA WatchIs ==
  ASSUME TypeInv, NEW done, NEW more, Watch(done, more), \A k \in done : k \in Callback /\ watch[k] > 0
  PROVE  /\ watch' \in [Callback -> Nat]
         /\ \A k \in Callback :
              watch'[k] = watch[k] - (IF k \in done THEN 1 ELSE 0) + (IF k \in more THEN 1 ELSE 0)
<1>1. \A k \in Callback :
        watch'[k] = watch[k] - (IF k \in done THEN 1 ELSE 0) + (IF k \in more THEN 1 ELSE 0)
  BY InOrOut DEF Watch
<1>2. \A k \in Callback : watch[k] \in Nat
  BY DEF TypeInv
<1>3. \A k \in Callback : watch'[k] \in Nat
  BY <1>1, <1>2
<1>4. watch' = [k \in Callback |-> watch'[k]]
  BY DEF Watch
<1> QED BY <1>1, <1>3, <1>4

LEMMA TellIs ==
  ASSUME told \in Seq(Status), NEW s \in Status, Tell(s)
  PROVE  /\ told' \in Seq(Status) /\ Len(told') = Len(told) + 1
         /\ \A r \in Status : Told(r)' <=> Told(r) \/ r = s
<1>1. told' = Append(told, s)
  BY DEF Tell
<1>2. told' \in Seq(Status) /\ Len(told') = Len(told) + 1
  BY <1>1
<1>3. \A i \in 1 .. Len(told) : told'[i] = told[i]
  BY <1>1
<1>4. told'[Len(told) + 1] = s
  BY <1>1
<1>5. DOMAIN told = 1 .. Len(told) /\ DOMAIN told' = 1 .. Len(told) + 1 /\ Len(told) \in Nat
  BY <1>1, <1>2
<1> QED BY <1>2, <1>3, <1>4, <1>5 DEF Told

LEMMA CallbackKinds ==
  /\ Shake \subseteq Callback /\ "can_recv" \in Callback \ Shake
  /\ "resend" \in Callback \ Shake /\ "can_recv" # "resend" /\ Lookup \cap Shake = {}
  /\ "ares_srv" \in Lookup /\ "ares_host" \in Lookup /\ "tls_begin" \in Shake
BY DEF Callback, Lookup, Shake

LEMMA SameSteps ==
  ASSUME asking' = asking, \A k \in Shake : watch'[k] = watch[k]
  PROVE  Steps' = Steps
BY DEF Steps

(* The watches of the lookups' sockets, whatever c-ares asks for. *)
LEMMA WantIoIs ==
  ASSUME TypeInv, NEW done, NEW L, NEW n \in Calls(L), PlumeAresWantIo(done, n),
         \A s \in done : s \in AresSock /\ ares[s] > 0
  PROVE  ares' \in [AresSock -> 0 .. MaxIo]
<1>1. \A s \in AresSock : ares[s] \in Nat /\ n[s] \in Nat
  BY PlumeAssumption DEF TypeInv, Calls
<1>2. \A s \in AresSock : ares'[s] = ares[s] - (IF s \in done THEN 1 ELSE 0) + n[s]
  BY InOrOut DEF PlumeAresWantIo
<1>3. \A s \in AresSock : ares'[s] \in 0 .. MaxIo
  BY <1>1, <1>2, PlumeAssumption DEF PlumeAresWantIo
<1>4. ares' = [s \in AresSock |-> ares'[s]]
  BY DEF PlumeAresWantIo
<1> QED BY <1>3, <1>4

-----------------------------------------------------------------------------
(***************************************************************************)
(* A step of the protocol: what was waited for is done, and at most one    *)
(* thing of the next stage is.  It tells of a failure when none is, and of *)
(* a success when the handshake is over.                                   *)
(***************************************************************************)
Follows(more) ==
  \/ more = {}
  \/ \E c \in Stage(phase') : more = {c}

Advances(more) ==
  /\ Steps # {} /\ Steps' = more /\ Follows(more)
  /\ ares' \in [AresSock -> 0 .. MaxIo] /\ asking' \subseteq Lookup
  /\ watch' \in [Callback -> Nat] /\ \A k \in Shake : watch'[k] \in 0 .. 1
  /\ watch'["can_recv"] = watch["can_recv"] + (IF phase' = "connected" THEN 1 ELSE 0)
  /\ watch'["resend"] = watch["resend"]
  /\ phase' \in Phases /\ sessions' \in 0 .. 2
  /\ \/ UNCHANGED told /\ ~Over' /\ (phase' = "tls" => more # {})
     \/ Tell("failed") /\ ~Over' /\ more = {}
     \/ Tell("success") /\ phase' = "connected" /\ more = {}
  /\ UNCHANGED requests

LEMMA AdvanceKeeps ==
  ASSUME PlumeInv, NEW more, Advances(more)
  PROVE  PlumeInv'
<1>1. ~Over
  BY DEF Advances, PlumeInv, StepInv, Stage, Over
<1>2. asked' = asked /\ pending' = pending /\ received' = received
  BY DEF Advances, requests
<1>3. watch["can_recv"] = 0 /\ watch["resend"] \in 0 .. asked
  BY <1>1 DEF PlumeInv, StepInv
<1>4. StepInv'
  <2>1. more \subseteq Stage(phase') /\ \A j, k \in more : j = k
    BY DEF Advances, Follows
  <2>2. watch'["can_recv"] \in 0 .. 1 /\ (watch'["can_recv"] = 1 => Over')
    BY <1>3 DEF Advances, Over
  <2> QED BY <1>2, <1>3, <2>1, <2>2 DEF StepInv, Advances
<1>5. RequestInv'
  BY <1>2 DEF PlumeInv, RequestInv, SentInOrder
<1>6. Len(told) \in 0 .. MaxTold /\ ~Told("success") /\ told \in Seq(Status)
  BY <1>1, PlumeAssumption DEF PlumeInv, ToldInv, TypeInv, Advances
<1>7. ToldInv' /\ told' \in Seq(Status)
  <2>1. CASE UNCHANGED told /\ ~Over' /\ (phase' = "tls" => more # {})
    BY <1>6, <2>1, PlumeAssumption DEF ToldInv, Told, Advances
  <2>2. CASE Tell("failed") /\ ~Over' /\ more = {}
    <3>1. /\ told' \in Seq(Status) /\ Len(told') = Len(told) + 1
          /\ \A r \in Status : Told(r)' <=> Told(r) \/ r = "failed"
      BY <1>6, <2>2, TellIs DEF Status
    <3>2. ~Told("success")' /\ Told("failed")'
      BY <1>6, <3>1 DEF Status
    <3> QED BY <1>6, <2>2, <3>1, <3>2, PlumeAssumption DEF ToldInv, Reported, Advances
  <2>3. CASE Tell("success") /\ phase' = "connected" /\ more = {}
    <3>1. told' \in Seq(Status) /\ Len(told') = Len(told) + 1
      BY <1>6, <2>3, TellIs DEF Status
    <3> QED BY <1>6, <2>3, <3>1, PlumeAssumption DEF ToldInv, Over, Advances
  <2> QED BY <2>1, <2>2, <2>3 DEF Advances
<1>8. TypeInv'
  BY <1>7 DEF Advances, TypeInv
<1> QED BY <1>4, <1>5, <1>7, <1>8 DEF PlumeInv

(***************************************************************************)
(* What is not an advance: the call is refused, or made; plume_tls_begin() *)
(* is kept; the requests.                                                  *)
(***************************************************************************)
LEMMA InitInv == Init => PlumeInv
<1> SUFFICES ASSUME Init PROVE PlumeInv
  OBVIOUS
<1>1. told = <<>> /\ Len(told) = 0 /\ told \in Seq(Status) /\ \A s : ~Told(s)
  BY DEF Init, Told
<1>2. received = <<>> /\ received \in Seq(1 .. asked) /\ DOMAIN received = {}
  BY DEF Init
<1>3. TypeInv
  BY <1>1, PlumeAssumption DEF Init, TypeInv, Phases
<1>4. Steps = {}
  BY CallbackKinds DEF Init, Steps
<1>5. StepInv
  BY <1>4, CallbackKinds DEF Init, StepInv
<1>6. ToldInv
  BY <1>1, PlumeAssumption DEF Init, ToldInv
<1>7. RequestInv
  BY <1>2, PlumeAssumption DEF Init, RequestInv, SentInOrder, NoRequest
<1> QED BY <1>3, <1>5, <1>6, <1>7 DEF PlumeInv

(* A step after which the protocol waits for what it waited for. *)
LEMMA WaitsOn ==
  ASSUME PlumeInv, UNCHANGED <<phase, asking, watch, told, sessions, requests>>,
         ares' \in [AresSock -> 0 .. MaxIo]
  PROVE  PlumeInv'
<1>1. Steps' = Steps
  BY SameSteps
<1> QED BY <1>1 DEF PlumeInv, TypeInv, StepInv, ToldInv, RequestInv, SentInOrder, Over, Reported, Told, requests

LEMMA ConnectServerKeeps ==
  ASSUME PlumeInv, PlumeConnectServer
  PROVE  PlumeInv'
<1> USE CallbackKinds
<1>1. Len(told) \in 0 .. MaxTold - 1 /\ told \in Seq(Status)
  BY PlumeAssumption DEF PlumeInv, ToldInv, TypeInv, PlumeConnectServer
<1>2. /\ watch' = watch /\ sessions' = sessions
      /\ asked' = asked /\ pending' = pending /\ received' = received
  BY DEF PlumeConnectServer, requests
<1>3. RequestInv'
  BY <1>2 DEF PlumeInv, RequestInv, SentInOrder
<1>4. CASE phase # "init" /\ Running /\ Tell("in_use") /\ UNCHANGED <<phase, dns>>
  <2>1. /\ told' \in Seq(Status) /\ Len(told') = Len(told) + 1
        /\ \A r \in Status : Told(r)' <=> Told(r) \/ r = "in_use"
    BY <1>1, <1>4, TellIs DEF Status
  <2>2. \A r \in {"success", "failed"} : Told(r)' <=> Told(r)
    BY <2>1 DEF Status
  <2>3. Steps' = Steps /\ asking' = asking /\ ares' = ares /\ phase' = phase
    BY <1>2, <1>4, SameSteps DEF dns
  <2>4. ToldInv'
    BY <1>1, <2>1, <2>2, <2>3, PlumeAssumption DEF PlumeInv, ToldInv, Over, Reported
  <2>5. TypeInv' /\ StepInv'
    BY <1>2, <2>1, <2>3 DEF PlumeInv, TypeInv, StepInv, Over
  <2> QED BY <1>3, <2>4, <2>5 DEF PlumeInv
<1>5. ASSUME phase = "init", phase' = "dns_srv",
             NEW n \in Calls({"ares_srv"}), PlumeAresWantIo({}, n),
             \/ Tell("failed") /\ UNCHANGED asking
             \/ asking' = asking \cup {"ares_srv"} /\ UNCHANGED told
      PROVE  PlumeInv'
  <2>1. Steps = {} /\ watch["can_recv"] = 0 /\ ~Told("success")
    BY <1>5 DEF PlumeInv, StepInv, ToldInv, Stage, Over
  <2>2. asking = {} /\ \A k \in Shake : watch[k] = 0
    BY <2>1 DEF Steps, PlumeInv, StepInv
  <2>3. ares' \in [AresSock -> 0 .. MaxIo]
    BY <1>5, WantIoIs DEF PlumeInv
  <2>4. Steps' = asking'
    BY <1>2, <2>2 DEF Steps
  <2>5. StepInv' /\ asking' \subseteq Lookup
    <3>1. asking' \subseteq {"ares_srv"}
      BY <1>5, <2>2
    <3>2. Stage(phase') = {"ares_srv"}
      BY <1>5 DEF Stage
    <3> QED BY <1>2, <2>1, <2>4, <3>1, <3>2 DEF PlumeInv, StepInv
  <2>6. CASE Tell("failed") /\ UNCHANGED asking
    <3>1. /\ told' \in Seq(Status) /\ Len(told') = Len(told) + 1
          /\ \A r \in Status : Told(r)' <=> Told(r) \/ r = "failed"
      BY <1>1, <2>6, TellIs DEF Status
    <3>2. ~Told("success")'
      BY <2>1, <3>1 DEF Status
    <3>3. ToldInv'
      BY <1>1, <1>5, <3>1, <3>2, PlumeAssumption DEF ToldInv
    <3> QED BY <1>2, <1>3, <1>5, <2>3, <2>5, <3>1, <3>3 DEF PlumeInv, TypeInv, Phases
  <2>7. CASE asking' = asking \cup {"ares_srv"} /\ UNCHANGED told
    <3>1. ToldInv'
      BY <1>1, <1>5, <2>1, <2>7, PlumeAssumption DEF ToldInv, Told
    <3> QED BY <1>2, <1>3, <1>5, <2>3, <2>5, <2>7, <3>1 DEF PlumeInv, TypeInv, Phases
  <2> QED BY <1>5, <2>6, <2>7
<1> QED BY <1>4, <1>5 DEF PlumeConnectServer

(* The lookups. *)
LEMMA SocketConnectAdvances ==
  ASSUME PlumeInv, NEW k \in Lookup, k \in asking, PlumeSocketConnect({k}),
         ares' \in [AresSock -> 0 .. MaxIo], UNCHANGED <<sessions, requests>>
  PROVE  \E more : Advances(more)
<1> USE CallbackKinds
<1>1. Steps = {k} /\ watch \in [Callback -> Nat] /\ \A c \in Shake : watch[c] = 0
  BY DEF Steps, PlumeInv, TypeInv, StepInv
<1>2. asking = {k} /\ asking' = {} /\ phase' \in Phases /\ phase' \notin {"tls", "connected", "crashed"}
  BY <1>1 DEF Steps, PlumeSocketConnect, PlumeInv, TypeInv, Phases
<1>3. sessions' \in 0 .. 2 /\ UNCHANGED requests
  BY DEF PlumeInv, TypeInv
<1>4. CASE phase' = "connecting" /\ UNCHANGED told /\ Watch({}, {"tls_begin"})
  <2>1. \A c \in {} : c \in Callback /\ watch[c] > 0
    OBVIOUS
  <2>2. /\ watch' \in [Callback -> Nat]
        /\ \A c \in Callback :
             watch'[c] = watch[c] - (IF c \in {} THEN 1 ELSE 0) + (IF c \in {"tls_begin"} THEN 1 ELSE 0)
    BY <1>4, <2>1, WatchIs DEF PlumeInv
  <2>3. \A c \in Shake : watch'[c] = IF c = "tls_begin" THEN 1 ELSE 0
    BY <1>1, <2>2
  <2>4. watch'["can_recv"] = watch["can_recv"] /\ watch'["resend"] = watch["resend"]
    BY <1>1, <2>2
  <2>5. Steps' = {"tls_begin"}
    BY <1>2, <2>3 DEF Steps
  <2>6. Follows({"tls_begin"})
    BY <1>4 DEF Follows, Stage
  <2>7. Advances({"tls_begin"})
    BY <1>1, <1>2, <1>3, <1>4, <2>2, <2>3, <2>4, <2>5, <2>6 DEF Advances, Over
  <2> QED BY <2>7
<1>5. CASE UNCHANGED watch /\ (Tell("failed") \/ UNCHANGED told)
  <2>1. Steps' = {}
    BY <1>1, <1>2, <1>5 DEF Steps
  <2>2. \A c \in Shake : watch'[c] \in 0 .. 1
    BY <1>1, <1>5
  <2>3. watch'["can_recv"] = watch["can_recv"] + (IF phase' = "connected" THEN 1 ELSE 0)
    BY <1>1, <1>2, <1>5
  <2>4. Advances({})
    BY <1>1, <1>2, <1>3, <1>5, <2>1, <2>2, <2>3 DEF Advances, Follows, Over
  <2> QED BY <2>4
<1> QED BY <1>4, <1>5 DEF PlumeSocketConnect

LEMMA DnsLookupAdvances ==
  ASSUME PlumeInv, "ares_srv" \in asking, NEW n, PlumeDnsLookup(n),
         ares' \in [AresSock -> 0 .. MaxIo], UNCHANGED <<sessions, requests>>
  PROVE  \E more : Advances(more)
<1> USE CallbackKinds
<1>1. Steps = {"ares_srv"} /\ watch \in [Callback -> Nat] /\ \A c \in Shake : watch[c] = 0
  BY DEF Steps, PlumeInv, TypeInv, StepInv
<1>2. asking = {"ares_srv"} /\ sessions' \in 0 .. 2 /\ UNCHANGED requests
  BY <1>1 DEF Steps, PlumeInv, TypeInv
<1>3. CASE phase' = "dns_srv" /\ Tell("failed") /\ asking' = asking \ {"ares_srv"} /\ UNCHANGED watch
  <2>1. Steps' = {}
    BY <1>1, <1>2, <1>3 DEF Steps
  <2>2. Advances({})
    BY <1>1, <1>2, <1>3, <2>1 DEF Advances, Follows, Over, Phases
  <2> QED BY <2>2
<1>4. CASE /\ phase' = "dns_host" /\ UNCHANGED told
           /\ asking' = (asking \ {"ares_srv"}) \cup {"ares_host"} /\ UNCHANGED watch
  <2>1. Steps' = {"ares_host"}
    BY <1>1, <1>2, <1>4 DEF Steps
  <2>2. Follows({"ares_host"})
    BY <1>4 DEF Follows, Stage
  <2>3. Advances({"ares_host"})
    BY <1>1, <1>2, <1>4, <2>1, <2>2 DEF Advances, Over, Phases
  <2> QED BY <2>3
<1>5. CASE PlumeSocketConnect({"ares_srv"})
  BY <1>5, SocketConnectAdvances
<1> QED BY <1>3, <1>4, <1>5 DEF PlumeDnsLookup

LEMMA AresProcessKeeps ==
  ASSUME PlumeInv, NEW k \in Lookup, NEW e \in {"read", "write"}, PlumeAresProcess(k, e)
  PROVE  PlumeInv'
<1>1. UNCHANGED <<sessions, requests>>
  BY DEF PlumeAresProcess
<1>2. PICK n \in Calls(Lookup) :
        /\ PlumeAresWantIo({<<k, e>>}, n)
        /\ \/ UNCHANGED <<phase, asking, watch, told>>
           \/ k = "ares_srv" /\ k \in asking /\ PlumeDnsLookup(n)
           \/ k = "ares_host" /\ k \in asking /\ PlumeSocketConnect({k})
  BY DEF PlumeAresProcess
<1>3. \A s \in {<<k, e>>} : s \in AresSock /\ ares[s] > 0
  BY DEF AresSock, PlumeAresProcess
<1>4. ares' \in [AresSock -> 0 .. MaxIo]
  BY <1>2, <1>3, WantIoIs DEF PlumeInv
<1>5. CASE UNCHANGED <<phase, asking, watch, told>>
  BY <1>1, <1>4, <1>5, WaitsOn
<1>6. CASE k = "ares_srv" /\ k \in asking /\ PlumeDnsLookup(n)
  BY <1>1, <1>4, <1>6, DnsLookupAdvances, AdvanceKeeps
<1>7. CASE k = "ares_host" /\ k \in asking /\ PlumeSocketConnect({k})
  BY <1>1, <1>4, <1>7, SocketConnectAdvances, AdvanceKeeps
<1> QED BY <1>2, <1>5, <1>6, <1>7

(* The handshake. *)
LEMMA HandshakeAdvances ==
  ASSUME PlumeInv, NEW k \in Shake, watch[k] > 0, NEW n, NEW r \in Results(n),
         PlumeTlsHandshake(r), Watch({k}, NextWatch(r)), sessions' \in 0 .. 2, UNCHANGED <<dns, requests>>
  PROVE  Advances(NextWatch(r) \cap Shake)
<1> USE CallbackKinds
<1>1. r \in {"retry_read", "retry_write", "failure", "loops", "success"}
  BY DEF Results
<1>2. Steps = {k} /\ asking = {} /\ \A c \in Shake : watch[c] = IF c = k THEN 1 ELSE 0
  BY DEF Steps, PlumeInv, StepInv, TypeInv
<1>3. asking' = {} /\ ares' \in [AresSock -> 0 .. MaxIo] /\ UNCHANGED requests
  BY <1>2 DEF dns, PlumeInv, TypeInv
<1>4. \A c \in {k} : c \in Callback /\ watch[c] > 0
  OBVIOUS
<1>5. /\ watch' \in [Callback -> Nat]
      /\ \A c \in Callback :
           watch'[c] = watch[c] - (IF c \in {k} THEN 1 ELSE 0) + (IF c \in NextWatch(r) THEN 1 ELSE 0)
  BY <1>4, WatchIs DEF PlumeInv
<1>6. \A c \in Shake : watch'[c] = IF c \in NextWatch(r) THEN 1 ELSE 0
  BY <1>2, <1>5
<1>7. Steps' = NextWatch(r) \cap Shake
  BY <1>3, <1>6 DEF Steps
<1>8. /\ watch'["can_recv"] = watch["can_recv"] + (IF phase' = "connected" THEN 1 ELSE 0)
      /\ watch'["resend"] = watch["resend"]
  <2>1. "resend" \notin NextWatch(r) /\ ("can_recv" \in NextWatch(r) <=> phase' = "connected")
    BY <1>1 DEF NextWatch, PlumeTlsHandshake, Shake
  <2>2. /\ watch["can_recv"] \in Nat /\ watch["resend"] \in Nat
        /\ "can_recv" \notin {k} /\ "resend" \notin {k}
    BY DEF PlumeInv, TypeInv
  <2>3. "can_recv" \in Callback /\ "resend" \in Callback
    OBVIOUS
  <2>4. watch'["resend"] = watch["resend"]
    BY <1>5, <2>1, <2>2, <2>3
  <2>5. watch'["can_recv"] = watch["can_recv"] + (IF "can_recv" \in NextWatch(r) THEN 1 ELSE 0)
    BY <1>5, <2>2, <2>3
  <2> QED BY <2>1, <2>4, <2>5
<1>9. /\ Follows(NextWatch(r) \cap Shake) /\ phase' \in Phases
      /\ \/ UNCHANGED told /\ ~Over' /\ (phase' = "tls" => NextWatch(r) \cap Shake # {})
         \/ Tell("failed") /\ ~Over' /\ NextWatch(r) \cap Shake = {}
         \/ Tell("success") /\ phase' = "connected" /\ NextWatch(r) \cap Shake = {}
  <2>1. CASE r \in {"retry_read", "retry_write"}
    <3>1. phase' = "tls" /\ UNCHANGED told /\ NextWatch(r) \cap Shake = {r} /\ r \in Stage(phase')
      BY <2>1 DEF PlumeTlsHandshake, NextWatch, Shake, Stage
    <3> QED BY <3>1 DEF Follows, Over, Phases
  <2>2. CASE r = "failure"
    <3>1. phase' = "tls" /\ Tell("failed") /\ NextWatch(r) \cap Shake = {}
      BY <2>2 DEF PlumeTlsHandshake, NextWatch, Shake
    <3> QED BY <3>1 DEF Follows, Over, Phases
  <2>3. CASE r = "loops"
    <3>1. phase' = "looping" /\ UNCHANGED told /\ NextWatch(r) \cap Shake = {}
      BY <2>3 DEF PlumeTlsHandshake, NextWatch, Shake
    <3> QED BY <3>1 DEF Follows, Over, Phases
  <2>4. CASE r = "success"
    <3>1. phase' = "connected" /\ Tell("success") /\ NextWatch(r) \cap Shake = {}
      BY <2>4 DEF PlumeTlsHandshake, NextWatch, Shake
    <3> QED BY <3>1 DEF Follows, Phases
  <2> QED BY <1>1, <2>1, <2>2, <2>3, <2>4
<1>10. \A c \in Shake : watch'[c] \in 0 .. 1
  BY <1>6
<1> QED BY <1>2, <1>3, <1>5, <1>7, <1>8, <1>9, <1>10 DEF Advances

LEMMA TlsRetryKeeps ==
  ASSUME PlumeInv, NEW k \in {"retry_read", "retry_write"}, PlumeTlsRetry(k)
  PROVE  PlumeInv'
<1>1. k \in Shake /\ watch[k] > 0 /\ sessions' \in 0 .. 2 /\ UNCHANGED <<dns, requests>>
  BY DEF Shake, PlumeTlsRetry, Called, PlumeInv, TypeInv
<1>2. PICK r \in Results(sessions) : PlumeTlsHandshake(r) /\ Watch({k}, NextWatch(r))
  BY DEF PlumeTlsRetry
<1> QED BY <1>1, <1>2, HandshakeAdvances, AdvanceKeeps

(* A handshake that fails keeps plume_tls_begin(), and tells. *)
LEMMA BeginAgainKeeps ==
  ASSUME PlumeInv, watch["tls_begin"] > 0, phase' = "tls", UNCHANGED <<dns, requests>>,
         sessions' \in 0 .. 2, watch' \in [Callback -> Nat], \A k \in Callback : watch'[k] = watch[k],
         UNCHANGED told \/ (Tell("failed") /\ Len(told) < MaxTold)
  PROVE  PlumeInv'
<1> USE CallbackKinds
<1>1. Steps = {"tls_begin"} /\ Steps' = Steps
  BY SameSteps DEF Steps, dns, PlumeInv, StepInv
<1>2. ~Over /\ Len(told) \in 0 .. MaxTold /\ told \in Seq(Status)
  BY <1>1, PlumeAssumption DEF PlumeInv, StepInv, ToldInv, Stage, Over, TypeInv
<1>3. ~Told("success")
  BY <1>2 DEF PlumeInv, ToldInv
<1>4. /\ asking' = asking /\ ares' = ares
      /\ asked' = asked /\ pending' = pending /\ received' = received
  BY DEF dns, requests
<1>5. StepInv'
  <2>1. "tls_begin" \in Stage(phase')
    BY DEF Stage
  <2> QED BY <1>1, <1>2, <1>4, <2>1 DEF PlumeInv, StepInv
<1>6. RequestInv'
  BY <1>4 DEF PlumeInv, RequestInv, SentInOrder
<1>7. ToldInv' /\ told' \in Seq(Status)
  <2>1. CASE UNCHANGED told
    BY <1>1, <1>2, <1>3, <2>1, PlumeAssumption DEF ToldInv, Told
  <2>2. CASE Tell("failed") /\ Len(told) < MaxTold
    <3>1. /\ told' \in Seq(Status) /\ Len(told') = Len(told) + 1
          /\ \A r \in Status : Told(r)' <=> Told(r) \/ r = "failed"
      BY <1>2, <2>2, TellIs DEF Status
    <3>2. ~Told("success")'
      BY <1>3, <3>1 DEF Status
    <3> QED BY <1>1, <1>2, <2>2, <3>1, <3>2, PlumeAssumption DEF ToldInv
  <2> QED BY <2>1, <2>2
<1>8. TypeInv'
  BY <1>4, <1>7 DEF PlumeInv, TypeInv, Phases
<1> QED BY <1>5, <1>6, <1>7, <1>8 DEF PlumeInv

LEMMA TlsBeginKeeps ==
  ASSUME PlumeInv, PlumeTlsBegin
  PROVE  PlumeInv'
<1> USE CallbackKinds
<1>1. "tls_begin" \in Shake /\ watch["tls_begin"] > 0 /\ Len(told) < MaxTold /\ UNCHANGED <<dns, requests>>
  BY DEF Shake, PlumeTlsBegin, Called
<1>2. sessions \in 0 .. 2
  BY DEF PlumeInv, TypeInv
<1>3. CASE Tell("failed") /\ Watch({"tls_begin"}, {}) /\ UNCHANGED <<phase, sessions>>
  <2>1. Steps = {"tls_begin"} /\ ~Over /\ phase \in Phases /\ phase # "connected"
    BY <1>1 DEF Steps, PlumeInv, StepInv, TypeInv, Stage, Over
  <2>2. \A c \in {"tls_begin"} : c \in Callback /\ watch[c] > 0
    BY <1>1
  <2>3. /\ watch' \in [Callback -> Nat]
        /\ \A c \in Callback :
             watch'[c] = watch[c] - (IF c \in {"tls_begin"} THEN 1 ELSE 0) + (IF c \in {} THEN 1 ELSE 0)
    BY <1>3, <2>2, WatchIs DEF PlumeInv
  <2>4. asking = {} /\ asking' = {} /\ ares' \in [AresSock -> 0 .. MaxIo]
        /\ \A c \in Shake : watch[c] = IF c = "tls_begin" THEN 1 ELSE 0
    BY <1>1, <2>1 DEF Steps, dns, PlumeInv, StepInv, TypeInv
  <2>5. \A c \in Shake : watch'[c] = 0
    BY <2>3, <2>4
  <2>6. Steps' = {}
    BY <2>4, <2>5 DEF Steps
  <2>7. /\ watch'["can_recv"] = watch["can_recv"] + (IF phase' = "connected" THEN 1 ELSE 0)
        /\ watch'["resend"] = watch["resend"]
    <3>1. /\ watch["can_recv"] \in Nat /\ watch["resend"] \in Nat
          /\ "can_recv" \notin {"tls_begin"} /\ "resend" \notin {"tls_begin"}
      BY DEF PlumeInv, TypeInv
    <3>2. "can_recv" \in Callback /\ "resend" \in Callback /\ phase' # "connected"
      BY <1>3, <2>1
    <3> QED BY <2>3, <3>1, <3>2
  <2>8. /\ ~Over' /\ phase' \in Phases /\ sessions' \in 0 .. 2 /\ UNCHANGED requests
        /\ \A c \in Shake : watch'[c] \in 0 .. 1
        /\ Steps # {} /\ Follows({}) /\ asking' \subseteq Lookup
    BY <1>1, <1>2, <1>3, <2>1, <2>4, <2>5 DEF Over, Follows
  <2>9. Advances({})
    BY <1>3, <2>3, <2>4, <2>6, <2>7, <2>8 DEF Advances
  <2> QED BY <2>9, AdvanceKeeps
<1>4. CASE phase' = "tls" /\ UNCHANGED <<watch, sessions, told>>
  BY <1>1, <1>2, <1>4, BeginAgainKeeps DEF PlumeInv, TypeInv
<1>5. CASE /\ sessions' = IF sessions = 0 THEN 1 ELSE 2
           /\ \E r \in Results(sessions') :
                PlumeTlsHandshake(r) /\ Watch(BeginDone(r), NextWatch(r))
  <2>1. sessions' \in 0 .. 2
    BY <1>5
  <2>2. PICK r \in Results(sessions') : PlumeTlsHandshake(r) /\ Watch(BeginDone(r), NextWatch(r))
    BY <1>5
  <2>3. CASE r = "failure"
    <3>1. phase' = "tls" /\ Tell("failed") /\ Watch({}, {})
      BY <2>2, <2>3 DEF PlumeTlsHandshake, BeginDone, NextWatch, Shake
    <3>2. \A k \in {} : k \in Callback /\ watch[k] > 0
      OBVIOUS
    <3>3. /\ watch' \in [Callback -> Nat]
          /\ \A k \in Callback :
               watch'[k] = watch[k] - (IF k \in {} THEN 1 ELSE 0) + (IF k \in {} THEN 1 ELSE 0)
      BY <3>1, <3>2, WatchIs DEF PlumeInv
    <3>4. \A k \in Callback : watch'[k] = watch[k]
      BY <3>3 DEF PlumeInv, TypeInv
    <3> QED BY <1>1, <2>1, <3>1, <3>3, <3>4, BeginAgainKeeps
  <2>4. CASE r # "failure"
    <3>1. BeginDone(r) = {"tls_begin"}
      BY <2>4 DEF BeginDone
    <3> QED BY <1>1, <2>1, <2>2, <3>1, HandshakeAdvances, AdvanceKeeps
  <2> QED BY <2>3, <2>4
<1> QED BY <1>3, <1>4, <1>5 DEF PlumeTlsBegin

-----------------------------------------------------------------------------
(***************************************************************************)
(* The requests: one that is new is above all that were made, and what is  *)
(* pending is above all that the server has got.                           *)
(***************************************************************************)
LEMMA SameStep ==
  ASSUME PlumeInv, UNCHANGED <<phase, dns, sessions, told>>, watch' \in [Callback -> Nat],
         \A k \in Callback \ {"resend"} : watch'[k] = watch[k], watch'["resend"] \in 0 .. asked'
  PROVE  TypeInv' /\ StepInv' /\ ToldInv'
<1>1. Steps' = Steps /\ asking' = asking /\ ares' = ares
  BY CallbackKinds, SameSteps DEF dns
<1>2. /\ \A k \in Shake : watch'[k] = watch[k]
      /\ watch'["can_recv"] = watch["can_recv"]
  BY CallbackKinds
<1> QED BY <1>1, <1>2 DEF PlumeInv, TypeInv, StepInv, ToldInv, Over, Reported, Told

LEMMA RecordSendOrders ==
  ASSUME PlumeInv, NEW n \in Nat, \E blocked \in BOOLEAN : RecordSend(n, blocked),
         asked' \in 0 .. MaxSend, asked <= asked', n # NoRequest => n = asked' /\ asked < asked'
  PROVE  RequestInv'
<1> DEFINE out == IF pending = NoRequest THEN n ELSE pending
<1>1. asked \in Nat /\ asked' \in Nat /\ pending \in 0 .. asked /\ received \in Seq(1 .. asked)
  BY PlumeAssumption DEF PlumeInv, RequestInv
<1>2. received \in Seq(1 .. asked') /\ Len(received) \in Nat /\ DOMAIN received = 1 .. Len(received)
  <2>1. 1 .. asked \subseteq 1 .. asked'
    BY <1>1
  <2>2. received \in Seq(1 .. asked')
    BY <1>1, <2>1, SeqMonotonic
  <2> QED BY <2>2
<1>3. out \in 0 .. asked' /\ (out # NoRequest => \A i \in DOMAIN received : received[i] < out)
  <2>1. \A i \in DOMAIN received : received[i] \in 1 .. asked
    BY <1>1
  <2>2. CASE pending = NoRequest
    BY <1>1, <2>1, <2>2 DEF NoRequest
  <2>3. CASE pending # NoRequest
    BY <1>1, <2>3 DEF NoRequest, PlumeInv, RequestInv, SentInOrder
  <2> QED BY <2>2, <2>3
<1>4. CASE received' = received /\ pending' \in {out, NoRequest}
  BY <1>1, <1>2, <1>3, <1>4 DEF PlumeInv, RequestInv, SentInOrder, NoRequest
<1>5. CASE received' = Append(received, out) /\ out # NoRequest /\ pending' = NoRequest
  <2> HIDE DEF out
  <2>1. out \in 1 .. asked'
    BY <1>1, <1>3, <1>5 DEF NoRequest
  <2>2. received' \in Seq(1 .. asked') /\ DOMAIN received' = 1 .. Len(received) + 1
    BY <1>2, <1>5, <2>1
  <2>3. (\A i \in 1 .. Len(received) : received'[i] = received[i]) /\ received'[Len(received) + 1] = out
    BY <1>2, <1>5, <2>1
  <2>4. ASSUME NEW i \in DOMAIN received', NEW j \in DOMAIN received', i < j
        PROVE  received'[i] < received'[j]
    <3>1. i \in 1 .. Len(received) /\ (j \in 1 .. Len(received) \/ j = Len(received) + 1)
      BY <1>2, <2>2, <2>4
    <3>2. CASE j \in 1 .. Len(received)
      BY <1>2, <2>3, <2>4, <3>1, <3>2 DEF PlumeInv, RequestInv, SentInOrder
    <3>3. CASE j = Len(received) + 1
      BY <1>2, <1>3, <1>5, <2>3, <3>1, <3>3
    <3> QED BY <3>1, <3>2, <3>3
  <2> QED BY <1>1, <1>5, <2>2, <2>4 DEF RequestInv, SentInOrder, NoRequest
<1> QED BY <1>4, <1>5 DEF RecordSend, NoRequest

LEMMA SendKeeps ==
  ASSUME PlumeInv, PlumeSend
  PROVE  PlumeInv'
<1>1. PICK blocked \in BOOLEAN :
        RecordSend(asked + 1, blocked) /\ Watch({}, IF blocked THEN {"resend"} ELSE {})
  BY DEF PlumeSend
<1>2. asked \in Nat /\ asked' = asked + 1 /\ asked' \in 0 .. MaxSend /\ asked < MaxSend
  BY PlumeAssumption DEF PlumeSend, PlumeInv, RequestInv
<1>3. RequestInv'
  BY <1>1, <1>2, RecordSendOrders
<1>4. /\ watch' \in [Callback -> Nat]
      /\ \A k \in Callback :
           watch'[k] = watch[k] - (IF k \in {} THEN 1 ELSE 0)
                         + (IF k \in (IF blocked THEN {"resend"} ELSE {}) THEN 1 ELSE 0)
  <2>1. \A k \in {} : k \in Callback /\ watch[k] > 0
    OBVIOUS
  <2> QED BY <1>1, <2>1, WatchIs DEF PlumeInv
<1>5. \A k \in Callback \ {"resend"} : watch'[k] = watch[k]
  BY <1>4 DEF PlumeInv, TypeInv
<1>6. watch'["resend"] \in 0 .. asked'
  BY <1>2, <1>4, CallbackKinds DEF PlumeInv, StepInv
<1>7. TypeInv' /\ StepInv' /\ ToldInv'
  BY <1>4, <1>5, <1>6, SameStep DEF PlumeSend
<1> QED BY <1>3, <1>7 DEF PlumeInv

LEMMA ResendKeeps ==
  ASSUME PlumeInv, Resend
  PROVE  PlumeInv'
<1>1. NoRequest \in Nat /\ \E blocked \in BOOLEAN : RecordSend(NoRequest, blocked)
  BY DEF Resend, NoRequest
<1>2. asked \in Nat /\ asked' = asked /\ asked' \in 0 .. MaxSend /\ asked <= asked'
  BY PlumeAssumption DEF Resend, PlumeInv, RequestInv
<1>3. RequestInv'
  BY <1>1, <1>2, RecordSendOrders
<1>4. /\ watch' \in [Callback -> Nat]
      /\ \A k \in Callback :
           watch'[k] = watch[k] - (IF k \in {"resend"} THEN 1 ELSE 0) + (IF k \in {} THEN 1 ELSE 0)
  BY CallbackKinds, WatchIs DEF Resend, Called, PlumeInv
<1>5. \A k \in Callback \ {"resend"} : watch'[k] = watch[k]
  BY <1>4 DEF PlumeInv, TypeInv
<1>6. watch'["resend"] \in 0 .. asked'
  BY <1>2, <1>4, CallbackKinds DEF PlumeInv, StepInv, Resend, Called
<1>7. TypeInv' /\ StepInv' /\ ToldInv'
  BY <1>4, <1>5, <1>6, SameStep DEF Resend
<1> QED BY <1>3, <1>7 DEF PlumeInv

LEMMA CanRecvKeeps ==
  ASSUME PlumeInv, PlumeTlsCanRecv
  PROVE  PlumeInv'
<1>1. watch["can_recv"] = 1 /\ Over
  BY DEF PlumeTlsCanRecv, Called, PlumeInv, StepInv
<1>2. Steps = {}
  BY <1>1 DEF PlumeInv, StepInv, Stage, Over
<1>3. /\ watch' = watch /\ told' = told /\ sessions' = sessions /\ phase' = "crashed"
      /\ asking' = asking /\ ares' = ares
      /\ asked' = asked /\ pending' = pending /\ received' = received
  BY DEF PlumeTlsCanRecv, dns, requests
<1>4. Steps' = {}
  BY <1>2, <1>3 DEF Steps
<1>5. RequestInv'
  BY <1>3 DEF PlumeInv, RequestInv, SentInOrder
<1>6. StepInv'
  BY <1>3, <1>4 DEF PlumeInv, StepInv, Over
<1>7. ToldInv' /\ TypeInv'
  BY <1>2, <1>3, <1>4 DEF PlumeInv, ToldInv, TypeInv, Over, Told, Phases
<1> QED BY <1>5, <1>6, <1>7 DEF PlumeInv

LEMMA NextKeeps == PlumeInv /\ [Next]_vars => PlumeInv'
<1> SUFFICES ASSUME PlumeInv, [Next]_vars PROVE PlumeInv'
  OBVIOUS
<1>1. CASE PlumeConnectServer
  BY <1>1, ConnectServerKeeps
<1>2. CASE PlumeTlsBegin
  BY <1>2, TlsBeginKeeps
<1>3. CASE PlumeSend
  BY <1>3, SendKeeps
<1>4. CASE Resend
  BY <1>4, ResendKeeps
<1>5. CASE PlumeTlsCanRecv
  BY <1>5, CanRecvKeeps
<1>6. CASE \E k \in Lookup, e \in {"read", "write"} : PlumeAresProcess(k, e)
  BY <1>6, AresProcessKeeps
<1>7. CASE \E k \in {"retry_read", "retry_write"} : PlumeTlsRetry(k)
  BY <1>7, TlsRetryKeeps
<1>8. CASE UNCHANGED vars
  BY <1>8, WaitsOn DEF vars, requests, PlumeInv, TypeInv
<1> QED BY <1>1, <1>2, <1>3, <1>4, <1>5, <1>6, <1>7, <1>8 DEF Next

LEMMA PlumeInvariant == Spec => []PlumeInv
<1>1. Init => PlumeInv
  BY InitInv
<1>2. PlumeInv /\ [Next]_vars => PlumeInv'
  BY NextKeeps
<1> QED BY <1>1, <1>2, PTL DEF Spec

-----------------------------------------------------------------------------
(***************************************************************************)
(* Every variable of a client keeps its type, the watches of the event     *)
(* loop and the reports to pc_connected_cb their bounds.                   *)
(***************************************************************************)
THEOREM TypeHolds == Spec => []TypeOK
<1>1. ASSUME PlumeInv PROVE TypeOK
  <2>1. \A k \in Callback : watch[k] \in 0 .. MaxSend + 1
    <3>1. Callback = Shake \cup {"can_recv", "resend"} /\ asked \in 0 .. MaxSend
      BY <1>1 DEF Callback, PlumeInv, RequestInv
    <3> QED BY <1>1, <3>1, PlumeAssumption DEF PlumeInv, StepInv
  <2>2. watch \in [Callback -> 0 .. MaxSend + 1]
    BY <1>1, <2>1 DEF PlumeInv, TypeInv
  <2>3. Len(told) <= MaxTold + 1
    BY <1>1, PlumeAssumption DEF PlumeInv, ToldInv
  <2> QED BY <1>1, <2>2, <2>3 DEF TypeOK, PlumeInv, TypeInv, RequestInv
<1> QED BY <1>1, PlumeInvariant, PTL

(***************************************************************************)
(* The callbacks of plume.c and gnutls.c make one chain: whatever c-ares   *)
(* asks for and however often the start of a session fails, the protocol   *)
(* waits for one lookup or one callback of the handshake at most, and for  *)
(* none when a success was reported.                                       *)
(***************************************************************************)
THEOREM OneStep == Spec => []OneStepAtATime
<1>1. ASSUME PlumeInv PROVE OneStepAtATime
  <2>1. Cardinality(Steps) <= 1
    <3>1. CASE Steps = {}
      BY <3>1, FS_EmptySet
    <3>2. CASE Steps # {}
      <4>1. PICK k : Steps = {k}
        BY <1>1, <3>2 DEF PlumeInv, StepInv
      <4>2. Cardinality({k}) = 1
        BY FS_Singleton
      <4> QED BY <4>1, <4>2
    <3> QED BY <3>1, <3>2
  <2>2. \A k \in Shake : watch[k] <= 1
    BY <1>1 DEF PlumeInv, StepInv
  <2>3. Told("success") => Steps = {}
    BY <1>1 DEF PlumeInv, StepInv, ToldInv, Stage, Over
  <2> QED BY <2>1, <2>2, <2>3 DEF OneStepAtATime
<1> QED BY <1>1, PlumeInvariant, PTL

(***************************************************************************)
(* A connection whose handshake has begun never stops in silence.          *)
(***************************************************************************)
THEOREM HandshakeNeverStops == Spec => []HandshakeGoesOn
<1>1. ASSUME PlumeInv PROVE HandshakeGoesOn
  <2> SUFFICES ASSUME phase = "tls", ~Reported PROVE Steps \cap Shake # {}
    BY DEF HandshakeGoesOn
  <2>1. Steps # {}
    BY <1>1 DEF PlumeInv, ToldInv
  <2>2. Steps \subseteq Shake
    BY <1>1 DEF PlumeInv, StepInv, Stage
  <2> QED BY <2>1, <2>2
<1> QED BY <1>1, PlumeInvariant, PTL

(***************************************************************************)
(* However many requests block and are sent again, the server gets them in *)
(* the order of the calls and none twice.                                  *)
(***************************************************************************)
THEOREM RequestsInOrder == Spec => []SentInOrder
<1>1. PlumeInv => SentInOrder
  BY DEF PlumeInv, RequestInv
<1> QED BY <1>1, PlumeInvariant, PTL

(***************************************************************************)
(* A success that was reported is never taken back: nothing is reported    *)
(* after it but that the client is in use, and the client stays connected  *)
(* until plume_tls_can_recv() brings the process down.                     *)
(***************************************************************************)
THEOREM SuccessStays == Spec => SuccessIsFinal
<1>1. ASSUME PlumeInv, [Next]_vars, Told("success")
      PROVE  phase' \in {"connected", "crashed"} /\ told' \in {told, Append(told, "in_use")}
  <2>1. Over /\ Steps = {}
    BY <1>1 DEF PlumeInv, StepInv, ToldInv, Stage, Over
  <2>2. asking = {} /\ \A k \in Shake : ~Called(k)
    BY <2>1 DEF Steps, Called
  <2>3. CASE PlumeConnectServer
    BY <2>1, <2>3 DEF PlumeConnectServer, Over, Tell
  <2>4. CASE PlumeSend \/ Resend \/ PlumeTlsCanRecv \/ UNCHANGED vars
    BY <2>1, <2>4 DEF PlumeSend, Resend, PlumeTlsCanRecv, vars, Over
  <2>5. CASE PlumeTlsBegin \/ (\E k \in {"retry_read", "retry_write"} : PlumeTlsRetry(k))
    BY <2>2, <2>5 DEF PlumeTlsBegin, PlumeTlsRetry, Shake
  <2>6. CASE \E k \in Lookup, e \in {"read", "write"} : PlumeAresProcess(k, e)
    BY <2>1, <2>2, <2>6 DEF PlumeAresProcess, Over
  <2> QED BY <1>1, <2>3, <2>4, <2>5, <2>6 DEF Next
<1>2. PlumeInv /\ [Next]_vars =>
        [Told("success") => /\ phase' \in {"connected", "crashed"}
                            /\ told' \in {told, Append(told, "in_use")}]_vars
  BY <1>1
<1> QED BY <1>2, PlumeInvariant, PTL DEF Spec, SuccessIsFinal
=============================================================================
