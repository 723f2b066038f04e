-------------------------------- MODULE Plume --------------------------------
(***************************************************************************)
(* A Plume client: the connect protocol, which goes from one callback of   *)
(* the event loop to the next (two DNS lookups, a TCP connection, a TLS    *)
(* handshake), and the requests that are sent once it is over.  A callback *)
(* that returns 0 is not called again.                                     *)
(***************************************************************************)
EXTENDS Naturals, Sequences, FiniteSets

CONSTANTS
  Ignores,   \* whether a lookup may be left with no watch, as after a datagram that is ignored
  MaxIo,     \* how many watches of a kind a lookup may have, a bound of the model
  MaxTold,   \* how often pc_connected_cb may be called
  MaxSend    \* how many requests are sent

ASSUME PlumeAssumption ==
  Ignores \in BOOLEAN /\ MaxIo \in Nat \ {0} /\ MaxTold \in Nat /\ MaxSend \in Nat

Lookup == {"ares_srv", "ares_host"}
AresSock == Lookup \X {"read", "write"}   \* the lookup, and the event that its sockets wait for
Shake == {"tls_begin", "retry_read", "retry_write"}
Callback == Shake \cup {"can_recv", "resend"}

Status == {"success", "in_use", "failed"}   \* "failed": every other error code
NoRequest == 0

VARIABLES
  phase,     \* pc_state, or "looping" or "crashed" when the process is of no more use
  asking,    \* the lookups that c-ares has not answered
  ares,      \* ares[s]: how many watches call plume_ares_process() for s
  watch,     \* watch[k]: how many watches of the event loop call k
  sessions,  \* how many TLS sessions were started on the connection, 2 for more than one
  told,      \* the calls of pc_connected_cb
  asked,     \* how many requests were given to the session
  pending,   \* the request whose record the session has not sent
  received   \* the requests the server has got

vars == <<phase, asking, ares, watch, sessions, told, asked, pending, received>>
dns == <<asking, ares>>
requests == <<asked, pending, received>>

Phases == {"init", "dns_srv", "dns_host", "connecting", "tls", "connected", "looping", "crashed"}

TypeOK ==
  /\ phase \in Phases
  /\ asking \subseteq Lookup
  /\ ares \in [AresSock -> 0 .. MaxIo]
  /\ watch \in [Callback -> 0 .. MaxSend + 1]
  /\ sessions \in 0 .. 2
  /\ told \in Seq(Status) /\ Len(told) <= MaxTold + 1
  /\ asked \in 0 .. MaxSend
  /\ pending \in 0 .. asked
  /\ received \in Seq(1 .. asked)

(* plume_client_new() *)
Init ==
  /\ phase = "init"
  /\ asking = {} /\ ares = [s \in AresSock |-> 0]
  /\ watch = [k \in Callback |-> 0]
  /\ sessions = 0
  /\ told = <<>>
  /\ asked = 0 /\ pending = NoRequest /\ received = <<>>

(* plume_connected() *)
Tell(s) == told' = Append(told, s)

(* Mutant: every callback returns 1. *)
WatchKept(done, more) == watch' = [k \in Callback |-> watch[k] + Cardinality(more \cap {k})]

(* The watches of the callbacks in done are removed, and those in more     *)
(* added: plume_want_read() and plume_want_write().                        *)
Watch(done, more) ==
  watch' = [k \in Callback |-> watch[k] - Cardinality(done \cap {k}) + Cardinality(more \cap {k})]

Running == phase \notin {"looping", "crashed"}
Called(k) == watch[k] > 0 /\ Running

-----------------------------------------------------------------------------
(* The lookups and the connection. *)

(* How often c-ares may ask to listen on the sockets of the lookups in L:  *)
(* to read on a new one, to read and write on one with something to send,  *)
(* to read again when it is sent.                                          *)
Calls(L) ==
  {n \in [AresSock -> 0 .. MaxIo] :
     \A k \in Lookup : /\ n[<<k, "write">>] <= n[<<k, "read">>]
                       /\ k \notin L => n[<<k, "read">>] = 0}

(* plume_ares_want_io(), for every call: nothing removes a watch but its   *)
(* own event, the one in done.                                             *)
PlumeAresWantIo(done, n) ==
  /\ ares' = [s \in AresSock |-> ares[s] - Cardinality(done \cap {s}) + n[s]]
  /\ \A s \in AresSock : ares'[s] <= MaxIo

(* plume_socket_connect(), which answers a lookup: it has failed, or no    *)
(* memory is left; or connect() goes on, or fails, or succeeds at once,    *)
(* and then nothing is waited for.                                         *)
PlumeSocketConnect(answered) ==
  /\ asking' = asking \ answered
  /\ \/ phase' = "dns_host" /\ Tell("failed") /\ UNCHANGED watch
     \/ phase' = "connecting" /\ UNCHANGED told /\ Watch({}, {"tls_begin"})
     \/ phase' = "connecting" /\ Tell("failed") /\ UNCHANGED watch
     \/ phase' = "connecting" /\ UNCHANGED <<told, watch>>

(* plume_dns_lookup(): the second lookup waits, or has its answer at once. *)
PlumeDnsLookup(n) ==
  \/ /\ n \in Calls({"ares_srv"})
     /\ phase' = "dns_srv" /\ Tell("failed")
     /\ asking' = asking \ {"ares_srv"} /\ UNCHANGED watch
  \/ /\ n[<<"ares_host", "read">>] > 0
     /\ phase' = "dns_host" /\ UNCHANGED told
     /\ asking' = (asking \ {"ares_srv"}) \cup {"ares_host"} /\ UNCHANGED watch
  \/ PlumeSocketConnect({"ares_srv"})

(* plume_connect_server() *)
PlumeConnectServer ==
  /\ Len(told) < MaxTold
  /\ \/ /\ phase # "init" /\ Running
        /\ Tell("in_use")
        /\ UNCHANGED <<phase, dns>>
     \/ /\ phase = "init"
        /\ phase' = "dns_srv"
        /\ \E n \in Calls({"ares_srv"}) :
             /\ PlumeAresWantIo({}, n)
             /\ \/ Tell("failed") /\ UNCHANGED asking
                \/ /\ n[<<"ares_srv", "read">>] > 0
                   /\ asking' = asking \cup {"ares_srv"} /\ UNCHANGED told
  /\ UNCHANGED <<watch, sessions, requests>>

(* plume_ares_process(), which "stops listening": c-ares goes on with the  *)
(* lookup, or ends it; it has nothing to do for one that is over.          *)
PlumeAresProcess(k, e) ==
  /\ ares[<<k, e>>] > 0 /\ Running
  /\ \E n \in Calls(Lookup) :
       /\ PlumeAresWantIo({<<k, e>>}, n)
       /\ \/ /\ n \in Calls(asking \cap {k})
             /\ Ignores \/ k \notin asking \/ (\E f \in {"read", "write"} : ares'[<<k, f>>] > 0)
             /\ UNCHANGED <<phase, asking, watch, told>>
          \/ k = "ares_srv" /\ k \in asking /\ PlumeDnsLookup(n)
          \/ /\ k = "ares_host" /\ k \in asking
             /\ n \in Calls({k}) /\ PlumeSocketConnect({k})
  /\ UNCHANGED <<sessions, requests>>

-----------------------------------------------------------------------------
(* The handshake. *)

(* What plume_tls_handshake() makes of the handshake of the n-th session   *)
(* on the connection.  The server has begun with the first, and finishes   *)
(* no other; an alert that is not fatal is a failure; an error that is     *)
(* fatal is tried again at once, without end.                              *)
Results(n) ==
  {"retry_read", "retry_write", "failure", "loops"} \cup (IF n = 1 THEN {"success"} ELSE {})

PlumeTlsHandshake(r) ==
  /\ phase' = CASE r = "success" -> "connected" [] r = "loops" -> "looping" [] OTHER -> "tls"
  /\ CASE r = "success" -> Tell("success")
       [] r = "failure" -> Tell("failed")
       [] OTHER -> UNCHANGED told

(* Mutants: RETRY_READ is forgotten; the handshake goes on after a success. *)
NextNoRetry(r) == CASE r = "success" -> {"can_recv"} [] r = "retry_write" -> {r} [] OTHER -> {}
NextAgain(r) == CASE r = "success" -> {"can_recv", "retry_read"} [] r = "failure" -> {} [] OTHER -> {r}

(* What waits once a handshake has returned r. *)
NextWatch(r) == CASE r = "success" -> {"can_recv"} [] r \in Shake -> {r} [] OTHER -> {}

(* Mutant: the callback is kept after a success, as it is after a failure. *)
BeginAgain(r) == IF r \in {"failure", "success"} THEN {} ELSE {"tls_begin"}

(* plume_tls_start() returns nonzero after a failure, so that              *)
(* plume_tls_begin() is called again.                                      *)
BeginDone(r) == IF r = "failure" THEN {} ELSE {"tls_begin"}

(* plume_tls_begin(): a connection that was not established, a session     *)
(* that cannot be started, or a handshake.                                 *)
PlumeTlsBegin ==
  /\ Called("tls_begin")
  /\ Len(told) < MaxTold
  /\ \/ /\ Tell("failed") /\ Watch({"tls_begin"}, {})
        /\ UNCHANGED <<phase, sessions>>
     \/ phase' = "tls" /\ UNCHANGED <<watch, sessions, told>>
     \/ /\ sessions' = IF sessions = 0 THEN 1 ELSE 2
        /\ \E r \in Results(sessions') :
             PlumeTlsHandshake(r) /\ Watch(BeginDone(r), NextWatch(r))
  /\ UNCHANGED <<dns, requests>>

(* plume_tls_retry_read() and plume_tls_retry_write() *)
PlumeTlsRetry(k) ==
  /\ Called(k)
  /\ \E r \in Results(sessions) : PlumeTlsHandshake(r) /\ Watch({k}, NextWatch(r))
  /\ UNCHANGED <<dns, sessions, requests>>

-----------------------------------------------------------------------------
(* The requests, and what the server sends. *)

(* gnutls_record_send() of the request n, or of none: a record that is     *)
(* pending goes first, and n is dropped.                                   *)
RecordSend(n, blocked) ==
  LET out == IF pending = NoRequest THEN n ELSE pending
  IN IF blocked THEN pending' = out /\ UNCHANGED received
     ELSE /\ pending' = NoRequest
          /\ received' = IF out = NoRequest THEN received ELSE Append(received, out)

(* plume_send(), for every plume_req_*(): motmot_net_gnutls_send() waits   *)
(* to send again.  pc_data is the channel of the socket, as in main.c.     *)
PlumeSend ==
  /\ phase = "connected" /\ asked < MaxSend
  /\ asked' = asked + 1
  /\ \E blocked \in BOOLEAN :
       RecordSend(asked + 1, blocked) /\ Watch({}, IF blocked THEN {"resend"} ELSE {})
  /\ UNCHANGED <<phase, dns, sessions, told>>

(* Mutant: the request is given to the session again, not what it holds.   *)
ResendNew == Called("resend") /\ Watch({"resend"}, {})
  /\ received' = Append(received, asked) /\ UNCHANGED <<phase, dns, sessions, told, asked, pending>>

(* motmot_net_gnutls_resend() sends once, blocked or not. *)
Resend ==
  /\ Called("resend")
  /\ Watch({"resend"}, {})
  /\ \E blocked \in BOOLEAN : RecordSend(NoRequest, blocked)
  /\ UNCHANGED <<phase, dns, sessions, told, asked>>

(* plume_tls_can_recv(): plume_recv_dispatch() reserves space in an        *)
(* unpacker that nothing has initialized.                                  *)
PlumeTlsCanRecv ==
  /\ Called("can_recv")
  /\ phase' = "crashed"
  /\ UNCHANGED <<dns, watch, sessions, told, requests>>

-----------------------------------------------------------------------------
Next ==
  \/ PlumeConnectServer \/ PlumeTlsBegin \/ PlumeSend \/ Resend \/ PlumeTlsCanRecv
  \/ \E k \in Lookup, e \in {"read", "write"} : PlumeAresProcess(k, e)
  \/ \E k \in {"retry_read", "retry_write"} : PlumeTlsRetry(k)

Spec == Init /\ [][Next]_vars

=============================================================================
