------------------------------ MODULE PaxosProps ------------------------------
(* What the handlers of module Paxos are meant to keep true. *)
EXTENDS Paxos

(* The messages in flight between two members. *)
InFlight(x, a) == {link[x][a][n] : n \in DOMAIN link[x][a]}

(***************************************************************************)
(* Paxos: two members never commit different values for the same instance. *)
(* paxos_acceptor.c relies on it when it takes a commit without looking at *)
(* its ballot.                                                             *)
(***************************************************************************)
Agreement ==
  \A a, b \in Member, i \in Inum :
    ilist[a][i].committed /\ ilist[b][i].committed => ilist[a][i].val = ilist[b][i].val

(***************************************************************************)
(* The invariant that the comment in paxos_commit() states: every instance *)
(* below the hole is committed and learned, and none from the hole on is   *)
(* learned.                                                                *)
(***************************************************************************)
HoleOK ==
  \A a \in Member : \A i \in Inum :
    /\ i < ihole[a] => ilist[a][i].committed /\ ilist[a][i].cached /\ ilist[a][i].learned
    /\ i >= ihole[a] => ~ilist[a][i].learned

(***************************************************************************)
(* Between two calls, the search for the hole starts at the hole, or at    *)
(* the instance before it when the hole is not on the list.                *)
(***************************************************************************)
StartOK ==
  \A a \in Member :
    status[a] = "live" /\ call[a] = Return =>
      istart[a] = At(IF ihole[a] \in Present(ilist[a]) THEN ihole[a] ELSE ihole[a] - 1)

(***************************************************************************)
(* paxos_commit(): "Now learn as many contiguous commits as we can."       *)
(* Between two calls, the hole is never an instance that is committed and  *)
(* has its data.                                                           *)
(***************************************************************************)
HoleIsLearned == \A a \in Member : status[a] = "live" /\ call[a] = Return => ~Learnable(a)

(***************************************************************************)
(* Everyone takes for the proposer the first acceptor, by rank, of itself  *)
(* and those it is connected to, whatever was dropped or parted, in        *)
(* whichever order.                                                        *)
(***************************************************************************)
ProposerIsFirst ==
  \A a \in Member : status[a] = "live" => proposer[a] = Elected(a, peer[a])

(***************************************************************************)
(* proposer_force_kill() is for an "invalid system state": no message that *)
(* only a proposer sends is ever on its way to a member that takes itself  *)
(* for the proposer, and no answer to a proposer is on its way to a member *)
(* that does not.                                                          *)
(***************************************************************************)
RolesMatch ==
  \A a \in Member : status[a] = "live" =>
    \A x \in peer[a] : \A m \in InFlight(x, a) :
      m.op \notin IF IsProposer(a)
                 THEN {"prepare", "decree", "commit", "recommit", "refuse"}
                 ELSE {"promise", "redirect", "accept", "reject"}

(***************************************************************************)
(* A ballot is one proposer's, and it decrees one value for an instance    *)
(* under it.                                                               *)
(***************************************************************************)
OneValuePerBallot ==
  LET decrees == UNION {{m \in InFlight(x, a) : m.op = "decree"} : x, a \in Member}
  IN \A m, n \in decrees : m.bal = n.bal /\ m.inum = n.inum => m.val = n.val

(***************************************************************************)
(* Once its prepare is over, a proposer has decreed a part or a kill for   *)
(* every acceptor on its list that it lost, and has not learned it yet.    *)
(***************************************************************************)
LostArePurged ==
  \A a \in Member : status[a] = "live" /\ IsProposer(a) /\ ~Preparing(a) /\ ~Busy(a) =>
    \A y \in alist[a] \ (peer[a] \cup {a}) :
      \E i \in Inum : /\ i >= ihole[a] /\ ilist[a][i].val.kind \in {"part", "kill"}
                      /\ ilist[a][i].val.arg = y

(***************************************************************************)
(* One loss does not lose the data of a committed chat: some live member   *)
(* has it in its request cache.  (Two do, those of author and proposer.)   *)
(***************************************************************************)
DataHeld ==
  lost <= 1 =>
    \A a \in Member, i \in Inum :
      /\ status[a] = "live" /\ ilist[a][i].committed /\ ilist[a][i].val.kind = "chat"
      => \E b \in Member : status[b] = "live" /\ ilist[a][i].val \in rcache[b]

(***************************************************************************)
(* No assertion of the code fails and no NULL pointer is followed, but for *)
(* the three that are known to: a promise that starts below istart, a      *)
(* session that is used after it has ended, and a redirect to a member     *)
(* that has left.                                                          *)
(***************************************************************************)
NoOtherFailure ==
  \A a \in Member : status[a] \notin
    Failure \ {"promise_glb", "null_session", "redirect_target"}

(***************************************************************************)
(* proposer_ack_promise(): "our instance list is guaranteed to always be   *)
(* nonempty, so this should always return a valid instance".               *)
(***************************************************************************)
PromiseFindsInstance == \A a \in Member : status[a] # "promise_glb"

(***************************************************************************)
(* gen_high covers the ballot of a member and that of its prepare, and a   *)
(* prepare without its majority is above the ballot its proposer has, so   *)
(* that no ballot is prepared twice.                                       *)
(***************************************************************************)
BallotsOK ==
  \A a \in Member : status[a] = "live" =>
    /\ ballot[a].gen <= gen_high[a]
    /\ Preparing(a) => /\ prep[a].bal.gen <= gen_high[a]
                       /\ ballot[a] = prep[a].bal \/ ballot[a].gen < prep[a].bal.gen

(***************************************************************************)
(* A member never goes back to a lower ballot.                             *)
(***************************************************************************)
BallotsGrow == [][\A a \in Member : ~Less(ballot'[a], ballot[a])]_vars

(***************************************************************************)
(* The comment of proposer_prepare(), in capitals: "once a proposer        *)
(* successfully prepares, it remains the proposer until it drops out of    *)
(* the system", and "we do not stop the cycle of waiting on responses and  *)
(* starting a new prepare until we either connect to a proposer or our     *)
(* prepare is accepted by a majority": then it does not prepare again.     *)
(***************************************************************************)
PreparedStays ==
  [][\A a \in Member :
       status[a] = "live" /\ status'[a] = "live" /\ IsProposer(a) /\ ~Preparing(a) =>
         proposer'[a] = a /\ prep'[a] = NoPrep]_vars

(***************************************************************************)
(* proposer_commit() "should only be called when we receive a majority     *)
(* vote": when it is, a majority of the acceptor list has committed the    *)
(* value, or holds it under the ballot of the decree or a later one.       *)
(***************************************************************************)
CommitByMajority ==
  [][\A a \in Member, i \in Inum :
       ilist[a][i].opcode # "commit" /\ ilist'[a][i].opcode = "commit" =>
         Cardinality({b \in alist[a] : /\ ilist[b][i].val = ilist'[a][i].val
                                       /\ \/ ilist[b][i].committed
                                          \/ ~Less(ilist[b][i].bal, ilist[a][i].bal)})
           >= Majority(alist[a])]_vars

(***************************************************************************)
(* A session is a broadcast in one total order: what the members learn,    *)
(* read off their instance lists, is a behaviour of TotalOrder.  What was  *)
(* learned stays, no place is left out, and no two members differ.         *)
(***************************************************************************)
SeenBy(a) == [i \in {j \in Inum : Base < j /\ j < ihole[a]} |-> ilist[a][i].val]

Order == INSTANCE TotalOrder
  WITH Reader <- Member, Decree <- Value, seen <- [a \in Member |-> SeenBy(a)]

InTotalOrder == Order!Spec

(* The event loop of every process runs, at least until something is lost, *)
(* which is all that ChatLearned asks for.                                 *)
LoopsRun ==
  \A a \in Member :
    /\ WF_vars(lost = 0 /\ Step(a))
    /\ \A x \in Member : WF_vars(lost = 0 /\ Dispatch(a, x))

(***************************************************************************)
(* Every chat that is requested is learned by all, unless something is     *)
(* lost.                                                                   *)
(***************************************************************************)
ChatLearned ==
  \A v \in Chat : v \in rcache[v.by] ~>
    \/ lost > 0
    \/ \A a \in Member : \E i \in Inum : ilist[a][i].learned /\ ilist[a][i].val = v

(***************************************************************************)
(* Why ProposerIsFirst and RolesMatch hold, as an inductive invariant.     *)
(* Rank gives every message its direction: a proposer writes to members    *)
(* below it, its acceptors write back up, and who was once first stays     *)
(* first.  Only a proposer prepares, defers and waits for reconnections.   *)
(***************************************************************************)
Proposals == {"prepare", "decree", "commit", "recommit"}
Answers == {"promise", "redirect", "accept", "reject"}

Directed(x, a, m) ==
  /\ m.op \in Proposals => x < a /\ (status[x] = "live" => IsProposer(x))
  /\ m.op \in Answers => a < x /\ (status[a] = "live" => IsProposer(a))
  /\ m.op = "refuse" => x < a
  /\ m.op = "request" => m.who <= x

Working(a) == Preparing(a) \/ dparts[a] # {} \/ idefer[a] # <<>> \/ clist[a] # <<>>

RoleInv ==
  /\ \A a \in Member : a \notin peer[a]
  /\ ProposerIsFirst
  /\ \A a \in Member : status[a] = "live" /\ Working(a) => IsProposer(a)
  /\ \A x, a \in Member : \A m \in InFlight(x, a) : Directed(x, a, m)

=============================================================================
