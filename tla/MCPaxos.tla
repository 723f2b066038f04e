-------------------------------- MODULE MCPaxos -------------------------------
(* Small instances of Paxos for TLC. *)
EXTENDS PaxosProps

Says(a, n) == [kind |-> "chat", by |-> a, arg |-> n]

MCThree == 1 .. 3
MCFour == 1 .. 4
MCFive == 1 .. 5

MCPairs(S) == {{x, y} : x, y \in S}
MCAnyOfThree == MCPairs(MCThree)
MCAnyOfFive == MCPairs(MCFive)

MCNoChat == {}
MCFirstChat == {Says(1, 1)}
MCOneChat == {Says(3, 1)}
MCLastChat == {Says(4, 1)}
MCTwoChats == {Says(1, 1), Says(3, 1)}

(***************************************************************************)
(* Either one loss, with two chats and two prepares of a member at most,   *)
(* or two losses without the chat of the first member.                     *)
(***************************************************************************)
LossesNext ==
  /\ Next
  /\ \/ lost' <= 1 /\ \A a \in Member : gen_high'[a] <= FirstBallot.gen + 2
     \/ Says(1, 1) \notin rcache'[1]

LossesSpec == Init /\ [][LossesNext]_vars

(***************************************************************************)
(* Some of the behaviours of five members, and no others, to reach one     *)
(* that is long: 2, 3 and 5 notice no loss while 4 lives, 1 does not leave *)
(* before it has learned an instance, and 4 leaves after it.               *)
(***************************************************************************)
MinorityNext ==
  /\ Next
  /\ \A a \in {2, 3, 5} : status'[4] = "live" => peer'[a] = peer[a]
  /\ status'[1] # status[1] => ihole[1] > Base + 1
  /\ status'[4] # status[4] => status[1] # "live"

MinoritySpec == Init /\ [][MinorityNext]_vars

(***************************************************************************)
(* Some of the behaviours of five members whose first two proposers leave: *)
(* only 3 hears the first, and 3 hears no decree of the second.  The       *)
(* connections of a member that left are noticed before anything else      *)
(* happens.                                                                *)
(***************************************************************************)
Noticed(x) == status[x] # "live" => \A a \in Member : status[a] = "live" => x \notin peer[a]

SuccessionNext ==
  /\ Next
  /\ (\A x \in Member : Noticed(x)) \/ (\E a \in Member : peer'[a] # peer[a])
  /\ \A a \in {2, 4, 5} : link[1][a] # <<>> => link'[1][a] # Tail(link[1][a]) \/ status[1] # "live"
  /\ status'[1] # status[1] => ilist[3][Base + 1].bal = FirstBallot
  /\ status'[2] # status[2] => ilist[4][Base + 1].bal.id = 2
  /\ status[2] = "live" => ilist'[3][Base + 1].bal.id # 2

SuccessionSpec == Init /\ [][SuccessionNext]_vars

(***************************************************************************)
(* Some of the behaviours of five members in which 2 loses 1 and prepares, *)
(* and prepares again, before 1 leaves; 1 does not miss 2, and the others  *)
(* notice at once that 1 has left.                                         *)
(***************************************************************************)
RedirectedNext ==
  /\ Next
  /\ Noticed(1) \/ (\E a \in Member : peer'[a] # peer[a])
  /\ status'[1] = "live" => peer'[1] = peer[1]
  /\ status'[1] # status[1] => gen_high[2] = FirstBallot.gen + 2

RedirectedSpec == Init /\ [][RedirectedNext]_vars

(***************************************************************************)
(* Either a chat and no loss, or losses and no chat.  A part that is sent  *)
(* again before all have read the last one can be sent any number of times *)
(* when there are four members: bound the messages that wait on a          *)
(* connection once something is lost.                                      *)
(***************************************************************************)
MCQueue == 4

ShortNext ==
  /\ Next
  /\ lost' > 0 => /\ \A v \in Chat : v \notin rcache'[v.by]
                  /\ \A a, x \in Member : Len(link'[a][x]) <= MCQueue

ShortSpec == Init /\ [][ShortNext]_vars /\ LoopsRun

=============================================================================
