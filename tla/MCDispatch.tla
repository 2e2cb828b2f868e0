----------------------------- MODULE MCDispatch -----------------------------
(***************************************************************************)
(* Session, and the Discovery of its hosts, for TLC.  They share no         *)
(* variable, so that their interleavings add nothing: the initial state     *)
(* chooses which of them moves.                                             *)
(*                                                                         *)
(* Sessions have two datacenters, one of them with two hosts, and two       *)
(* aggregation configs with a key in common.  The answers for discovery     *)
(* hold every kind of row that a parser tells apart.                        *)
(***************************************************************************)
EXTENDS DispatchServices

CONSTANTS h1, h2, h3, d1, d2, a1, a2, k1, k2, s1, s2

DcOf == [h \in Hosts |-> IF h = h3 THEN d2 ELSE d1]
KeysOf == [a \in AggConfigs |-> IF a = a1 THEN {k1} ELSE {k1, k2}]

AnswersOf ==
  [k \in Kinds |->
     CASE k = "tsv"   -> {<<<<"dc1", "h1">>, <<"", "h2">>, <<"dc1", "h3", "x">>>>,
                          <<<<"dc1", "h4">>>>, <<<<"x">>>>}
       [] k = "json"  -> {<<<<"h1", "dc1">>, <<"", "dc1">>, <<"h2", "">>>>,
                          <<<<"h4", "dc1">>>>, <<>>}
       [] k = "rtc"   -> {<<<<"h1">>, <<"h2">>>>, <<>>}
       [] k = "zk"    -> {<<<<"h1", "80">>, <<"h2">>>>, <<>>}
       [] k = "qloud" -> {<<<<"h1", "dc1">>, <<"h2", "error">>, <<"h3", "">>, <<"h4", "other">>>>,
                          <<<<"h5", "dc1">>>>}]

GroupsOf == <<"front", "back">>

VARIABLE part  \* the module that moves

MCInit ==
  /\ part \in {"session", "discovery"}
  /\ Init /\ D!Init
  /\ part = "session" => kind = "tsv"

MCNext ==
  \/ part = "session" /\ Next /\ UNCHANGED <<part, discoveryVars>>
  \/ part = "discovery" /\ D!Next /\ UNCHANGED <<part, vars>>

MCSpec ==
  /\ MCInit /\ [][MCNext]_<<part, vars, discoveryVars>>
  /\ part = "discovery" \/ Fairness

-----------------------------------------------------------------------------
(* Properties *)

\* Every iteration ends, whatever the workers do, with everything counted once
\* (combainer/client.go:217-310).
IterationsEnd == part = "session" => DispatchEnds

=============================================================================
