----------------------------- MODULE Assignment -----------------------------
(***************************************************************************)
(* What the rounds of the leader promise about who has which config: the    *)
(* abstract specification that Scheduler implements.                        *)
(*                                                                         *)
(* A round opens with the hosts and the configs it read.  It first takes    *)
(* away what must go (a config of a host that is not a member, a config     *)
(* that is not listed, a copy of a config another member has) and is        *)
(* settled when nothing of that kind is left.  From then on a config moves  *)
(* only from a host above the average, and only through nobody's hands.  A  *)
(* round may end after any of its steps.                                    *)
(***************************************************************************)
EXTENDS Integers, FiniteSets

CONSTANTS Hosts, Configs

VARIABLES
  holders,  \* holders[c]: the hosts that have config c
  members,  \* the hosts of the round, {} between rounds
  listed,   \* the configs of the round
  settled   \* every listed config has one holder or none, nothing else has any

vars == <<holders, members, listed, settled>>

Init ==
  /\ holders \in [Configs -> SUBSET Hosts]
  /\ members = {} /\ listed = {} /\ settled = FALSE

Load(h) == Cardinality({c \in Configs : h \in holders[c]})

Stays == UNCHANGED <<members, listed, settled>>

Ends == members' = {} /\ listed' = {} /\ settled' = FALSE

Open ==
  /\ members = {}
  /\ members' \in (SUBSET Hosts) \ {{}}
  /\ listed' \in SUBSET Configs
  /\ UNCHANGED <<holders, settled>>

\* A copy goes only when its host is gone, its config is not listed, or
\* another member keeps the config.
Drop(c, h) ==
  /\ members # {} /\ ~settled
  /\ h \in holders[c]
  /\ h \notin members \/ c \notin listed \/ holders[c] \intersect members # {h}
  /\ holders' = [holders EXCEPT ![c] = @ \ {h}]
  /\ Stays \/ Ends

Settle ==
  /\ members # {} /\ ~settled
  /\ \A c \in Configs : /\ holders[c] \subseteq IF c \in listed THEN members ELSE {}
                        /\ Cardinality(holders[c]) =< 1
  /\ settled' = TRUE
  /\ UNCHANGED <<holders, members, listed>>

Withdraw(c, h) ==
  /\ settled /\ h \in holders[c]
  /\ Load(h) > Cardinality(listed) \div Cardinality(members)
  /\ holders' = [holders EXCEPT ![c] = {}]
  /\ Stays \/ Ends

Place(c, h) ==
  /\ settled /\ c \in listed /\ holders[c] = {} /\ h \in members
  /\ holders' = [holders EXCEPT ![c] = {h}]
  /\ Stays \/ Ends

Close == members # {} /\ Ends /\ UNCHANGED holders

Next ==
  \/ Open \/ Settle \/ Close
  \/ \E c \in Configs, h \in Hosts : Drop(c, h) \/ Withdraw(c, h) \/ Place(c, h)

Spec == Init /\ [][Next]_vars

=============================================================================
