-------------------------------- MODULE Trill --------------------------------
(***************************************************************************)
(* Two ends of a Trill connection: the probes that settle who is the DTLS  *)
(* server, and the handshake, with the watches and timers of the event     *)
(* loop that drive them.  A datagram, once sent, may be read at any later  *)
(* moment, or never, or more than once.                                    *)
(*                                                                         *)
(* One pass of the event loop runs every watch of a socket that is         *)
(* readable (Wake), each one in its turn (ReadProbe, RetryRead, Recv);     *)
(* timers run between passes.  A callback that returns 0 is not called     *)
(* again.                                                                  *)
(***************************************************************************)
EXTENDS Integers, Sequences, FiniteSets

CONSTANT Priority   \* the values of tc_server_priority, two words taken as one number

ASSUME PriorityAssumption == Priority \subseteq Nat

Peer == {0, 1}
Other(e) == 1 - e

Callback == {"read_probe", "retry_read", "recv"}   \* what waits for a socket to be readable
Status == {"success", "tied", "tls"}               \* what trill_connected() tells the client
NoRole == "none"

(* A handshake is four flights of datagrams, sent by the client and the    *)
(* server in turn.                                                         *)
Sender(k) == IF k % 2 = 1 THEN "client" ELSE "server"
Ended == 5

Probe(p, ack) == [op |-> "probe", pri |-> p, ack |-> ack, flight |-> 0]
Flight(k) == [op |-> "dtls", pri |-> 0, ack |-> FALSE, flight |-> k]
Nothing == [op |-> "nothing", pri |-> 0, ack |-> FALSE, flight |-> 0]
Datagram == {Probe(p, ack) : p \in Priority, ack \in BOOLEAN} \cup {Flight(k) : k \in 1 .. 4}

VARIABLES
  pri,      \* tc_server_priority
  state,    \* tc_state, or "aborted" when an assertion has failed, or "looping"
  flags,    \* mt_flags: the side of the handshake that was started
  flight,   \* the flight the handshake is at, Ended when it is complete
  watch,    \* the callbacks that wait to read, in the order they were added
  writers,  \* how many trill_tls_retry_write() wait to write
  ready,    \* the callbacks of this pass of the loop that are still to run
  prober,   \* whether the probe timer runs
  timer,    \* the handshake timer: "off", "set" or "fired"
  told,     \* what the client was told
  net       \* net[e]: the datagrams that were sent to e

vars == <<pri, state, flags, flight, watch, writers, ready, prober, timer, told, net>>
dtls == <<flags, flight, writers, timer>>

States == {"init", "probing", "server", "client", "established", "aborted", "looping"}

TypeOK ==
  /\ pri \in [Peer -> Priority]
  /\ state \in [Peer -> States]
  /\ flags \in [Peer -> {NoRole, "server", "client"}]
  /\ flight \in [Peer -> 1 .. Ended]
  /\ watch \in [Peer -> Seq(Callback)]
  /\ writers \in [Peer -> 0 .. 2]
  /\ ready \in [Peer -> Seq(Callback)]
  /\ prober \in [Peer -> BOOLEAN]
  /\ timer \in [Peer -> {"off", "set", "fired"}]
  /\ told \in [Peer -> SUBSET Status]
  /\ net \in [Peer -> SUBSET Datagram]

(* trill_connection_new() *)
Init ==
  /\ pri \in [Peer -> Priority]
  /\ state = [e \in Peer |-> "init"]
  /\ flags = [e \in Peer |-> NoRole]
  /\ flight = [e \in Peer |-> 1]
  /\ watch = [e \in Peer |-> <<>>]
  /\ writers = [e \in Peer |-> 0]
  /\ ready = [e \in Peer |-> <<>>]
  /\ prober = [e \in Peer |-> FALSE]
  /\ timer = [e \in Peer |-> "off"]
  /\ told = [e \in Peer |-> {}]
  /\ net = [e \in Peer |-> {}]

-----------------------------------------------------------------------------
(* The network and the event loop. *)

Shaking(e) == state[e] \in {"server", "client"}
Dead(e) == state[e] \in {"aborted", "looping"}
Idle(e) == ~Dead(e) /\ ready[e] = <<>>

Send(e, out) == net' = [net EXCEPT ![Other(e)] = @ \cup out]

Without(s, k) ==
  IF \E i \in DOMAIN s : s[i] = k
  THEN LET n == CHOOSE i \in DOMAIN s : s[i] = k
       IN SubSeq(s, 1, n - 1) \o SubSeq(s, n + 1, Len(s))
  ELSE s

(* Mutant: the callback is called again whatever it returns. *)
KeptAlways(e, k, keep, more) == watch' = [watch EXCEPT ![e] = @ \o more]

(* The callbacks that wait once k has returned: k again unless it is done, *)
(* and those it has added.                                                 *)
Kept(e, k, keep, more) ==
  watch' = [watch EXCEPT ![e] = (IF keep THEN @ ELSE Without(@, k)) \o more]

Tell(e, s) == told' = [told EXCEPT ![e] = @ \cup s]

Abort(e) ==
  /\ state' = [state EXCEPT ![e] = "aborted"]
  /\ UNCHANGED <<pri, flags, flight, watch, writers, prober, timer, told, net>>

(* A socket is readable: every callback that waits for it will run. *)
Wake(e) ==
  /\ Idle(e) /\ net[e] # {} /\ watch[e] # <<>>
  /\ ready' = [ready EXCEPT ![e] = watch[e]]
  /\ UNCHANGED <<pri, state, flags, flight, watch, writers, prober, timer, told, net>>

(* The callback k runs, and finds the datagram d, or nothing: a datagram   *)
(* that made the socket readable may be bad, or read by another callback.  *)
Runs(e, k, d) ==
  /\ ~Dead(e) /\ ready[e] # <<>> /\ Head(ready[e]) = k
  /\ d \in net[e] \cup {Nothing}
  /\ ready' = [ready EXCEPT ![e] = Tail(@)]

-----------------------------------------------------------------------------
(* The handshake. *)

(* Mutant: any flight is taken for the one that is waited for. *)
TakesAny(f, at, d) == d.op = "dtls" /\ Sender(at) # f

Takes(f, at, d) == d = Flight(at) /\ Sender(at) # f

(* What gnutls_handshake() makes of the datagram d: how it returns, the    *)
(* flight it is at, and what it has sent.  A flight it waits for takes it  *)
(* on; otherwise it may send its last flight again; a write may block; an  *)
(* alert that is not fatal is a failure; an error that is fatal is tried   *)
(* again at once, and is still fatal: the loop does not end.               *)
Result(r, k, out) == [r |-> r, flight |-> k, out |-> out]

Handshakes(f, at, d) ==
  LET k == IF Takes(f, at, d) THEN at + 1 ELSE at
  IN {Result("failure", k, {}), Result("loops", k, {})} \cup
     IF k = Ended THEN {Result("success", k, {})}
     ELSE IF Sender(k) = f
     THEN {Result("retry_write", k, {}),
           Result(IF k = 4 THEN "success" ELSE "retry_read", k + 1, {Flight(k)})}
     ELSE {Result("retry_read", k, out) : out \in {{}, {Flight(j) : j \in {k - 1} \ {0}}}}

After(h, s) == CASE h.r = "success" -> "established" [] h.r = "loops" -> "looping" [] OTHER -> s

(* trill_tls_handshake(), with the result h. *)
Handshake(e, h) ==
  /\ flight' = [flight EXCEPT ![e] = h.flight]
  /\ state' = [state EXCEPT ![e] = After(h, @)]
  /\ Tell(e, CASE h.r = "success" -> {"success"} [] h.r = "failure" -> {"tls"} [] OTHER -> {})
  /\ Send(e, h.out)

(* Mutants: RETRY_READ is forgotten; RETRY_READ falls through.             *)
ReadersNoRetry(h) == IF h.r = "success" THEN <<"recv">> ELSE <<>>
WritersToo(h) == IF h.r \in {"retry_read", "retry_write"} THEN 1 ELSE 0

(* The callbacks a handshake that was called from outside its own leaves   *)
(* waiting: handshake_retry().                                             *)
Readers(h) == CASE h.r = "success" -> <<"recv">> [] h.r = "retry_read" -> <<"retry_read">> [] OTHER -> <<>>
Writers(h) == IF h.r = "retry_write" THEN 1 ELSE 0

(* trill_start_tls(), once the state is the role f, at the end of the      *)
(* callback that read a probe; the backend may fail to start.  No flight   *)
(* can have come yet.                                                      *)
StartTLS(e, f, probe) ==
  \/ /\ flags' = [flags EXCEPT ![e] = f]
     /\ timer' = [timer EXCEPT ![e] = "set"]
     /\ \E h \in Handshakes(f, 1, Nothing) :
          /\ state' = [state EXCEPT ![e] = After(h, f)]
          /\ flight' = [flight EXCEPT ![e] = h.flight]
          /\ Tell(e, IF h.r = "failure" THEN {"tls"} ELSE {})
          /\ Kept(e, "read_probe", FALSE, Readers(h))
          /\ writers' = [writers EXCEPT ![e] = @ + Writers(h)]
          /\ Send(e, h.out \cup probe)
  \/ /\ state' = [state EXCEPT ![e] = f]
     /\ Tell(e, {"tls"})
     /\ Kept(e, "read_probe", FALSE, <<>>)
     /\ Send(e, probe)
     /\ UNCHANGED dtls

(* trill_tls_retry_read() *)
RetryRead(e, d) ==
  /\ Runs(e, "retry_read", d)
  /\ \/ /\ Shaking(e)
        /\ \E h \in Handshakes(flags[e], flight[e], d) :
             /\ Handshake(e, h)
             /\ Kept(e, "retry_read", h.r = "retry_read",
                     IF h.r = "success" THEN <<"recv">> ELSE <<>>)
             /\ writers' = [writers EXCEPT ![e] = @ + Writers(h)]
        /\ UNCHANGED <<pri, flags, prober, timer>>
     \/ ~Shaking(e) /\ Abort(e)

(* trill_tls_retry_write(): the socket can be written to. *)
RetryWrite(e) ==
  /\ Idle(e) /\ writers[e] > 0
  /\ UNCHANGED ready
  /\ \/ /\ Shaking(e)
        /\ \E h \in Handshakes(flags[e], flight[e], Nothing) :
             /\ Handshake(e, h)
             /\ watch' = [watch EXCEPT ![e] = @ \o Readers(h)]
             /\ writers' = [writers EXCEPT ![e] = @ - 1 + Writers(h)]
        /\ UNCHANGED <<pri, flags, prober, timer>>
     \/ ~Shaking(e) /\ Abort(e)

(* trill_tls_handshake_retry(), from its timer. *)
HandshakeTimer(e) ==
  /\ Idle(e) /\ timer[e] = "set"
  /\ UNCHANGED ready
  /\ \/ /\ state[e] = "established"
        /\ timer' = [timer EXCEPT ![e] = "fired"]
        /\ UNCHANGED <<pri, state, flags, flight, watch, writers, prober, told, net>>
     \/ /\ Shaking(e)
        /\ \E d \in net[e] \cup {Nothing} : \E h \in Handshakes(flags[e], flight[e], d) :
             /\ Handshake(e, h)
             /\ watch' = [watch EXCEPT ![e] = @ \o Readers(h)]
             /\ writers' = [writers EXCEPT ![e] = @ + Writers(h)]
             /\ timer' = [timer EXCEPT ![e] = IF h.r = "failure" THEN "set" ELSE "fired"]
        /\ UNCHANGED <<pri, flags, prober>>

(* trill_tls_recv(): a server that is asked again for its last flight      *)
(* sends it again.                                                         *)
Recv(e, d) ==
  /\ Runs(e, "recv", d)
  /\ \/ /\ state[e] = "established"
        /\ Send(e, IF flags[e] = "server" /\ d = Flight(3) THEN {Flight(4)} ELSE {})
        /\ UNCHANGED <<pri, state, flags, flight, watch, writers, prober, timer, told>>
     \/ state[e] # "established" /\ Abort(e)

-----------------------------------------------------------------------------
(* The probes. *)

(* trill_connect() *)
Connect(e) ==
  /\ state[e] = "init"
  /\ state' = [state EXCEPT ![e] = "probing"]
  /\ watch' = [watch EXCEPT ![e] = Append(@, "read_probe")]
  /\ prober' = [prober EXCEPT ![e] = TRUE]
  /\ UNCHANGED <<pri, dtls, ready, told, net>>

(* Mutant: a server no longer probes. *)
ProbesInProbing == {"probing"}

ProbesIn == {"probing", "server"}

(* trill_connection_probe(), from its timer. *)
SendProbe(e) ==
  /\ Idle(e) /\ prober[e]
  /\ \/ /\ state[e] \in ProbesIn
        /\ Send(e, {Probe(pri[e], state[e] = "server")})
        /\ UNCHANGED prober
     \/ /\ state[e] \notin ProbesIn
        /\ prober' = [prober EXCEPT ![e] = FALSE]
        /\ UNCHANGED net
  /\ UNCHANGED <<pri, state, dtls, watch, ready, told>>

Winning(mine, theirs) == theirs > mine

(* The end of trill_connection_read_probe(), for the four things a probe   *)
(* can say, and for a datagram that is none.                               *)
BecomeServer(e, d) ==
  /\ Winning(pri[e], d.pri)
  /\ StartTLS(e, "server", {Probe(pri[e], TRUE)})

(* Mutant: the loser does not wait for the acknowledge bit. *)
BecomeClientUnasked(e, d) ==
  /\ d.pri # pri[e] /\ ~Winning(pri[e], d.pri)
  /\ StartTLS(e, "client", {})

BecomeClient(e, d) ==
  /\ d.pri # pri[e] /\ ~Winning(pri[e], d.pri) /\ d.ack
  /\ StartTLS(e, "client", {})

Tied(e, d) ==
  /\ d.pri = pri[e]
  /\ Tell(e, {"tied"})
  /\ Kept(e, "read_probe", FALSE, <<>>)
  /\ UNCHANGED <<state, dtls, net>>

KeepProbing(e, d) ==
  /\ d.op # "probe" \/ (d.pri # pri[e] /\ ~Winning(pri[e], d.pri) /\ ~d.ack)
  /\ UNCHANGED <<state, dtls, watch, told, net>>

ReadProbe(e, d) ==
  /\ Runs(e, "read_probe", d)
  /\ \/ /\ state[e] \in {"probing", "client"}
        /\ \/ KeepProbing(e, d)
           \/ d.op = "probe" /\ (BecomeServer(e, d) \/ BecomeClient(e, d) \/ Tied(e, d))
        /\ UNCHANGED <<pri, prober>>
     \/ state[e] \notin {"probing", "client"} /\ Abort(e)

-----------------------------------------------------------------------------
Reads(e) ==
  \E d \in net[e] \cup {Nothing} : ReadProbe(e, d) \/ RetryRead(e, d) \/ Recv(e, d)

Next ==
  \E e \in Peer :
    \/ Connect(e) \/ SendProbe(e) \/ HandshakeTimer(e)
    \/ Wake(e) \/ RetryWrite(e) \/ Reads(e)

Spec == Init /\ [][Next]_vars

=============================================================================
