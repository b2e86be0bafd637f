-------------------------- MODULE MCPlaybookStore --------------------------
(***************************************************************************)
(* Instances of PlaybookStore.  "stop" and "ask" are publishable; "open"   *)
(* may be stored as a draft and not published, and shares the node n2 with *)
(* "ask", so that a read that mixes them shows; "broken", which only the   *)
(* second instance has, violates a foreign key.                            *)
(***************************************************************************)
EXTENDS PlaybookStore, TLC

CONSTANT t1

n1 == <<"client", "n1">>
n2 == <<"client", "n2">>
e1 == <<"client", "e1">>

(* Every playbook is written for alerts of type t1.                        *)
Types == [p \in Playbooks |-> t1]

Terminal == [kind |-> KindTerminal, resolution |-> "resolved"]
Decision == [kind |-> KindDecision, resolution |-> NoResolution]

Stop == [root |-> n1, nodes |-> [n \in {n1} |-> Terminal], edges |-> NoRows]

Ask == [root  |-> n1,
        nodes |-> [n \in {n1, n2} |-> IF n = n1 THEN Decision ELSE Terminal],
        edges |-> [e \in {e1} |-> [from |-> n1, to |-> n2]]]

Open == [root |-> n2, nodes |-> [n \in {n2} |-> Decision], edges |-> NoRows]

Broken == [root |-> n2, nodes |-> NoRows, edges |-> NoRows]

DraftGraphs == {Ask, Open}

CopiedGraphs == {Stop, Open, Broken}

Interchangeable ==
  Permutations(Clients) \cup Permutations(Playbooks) \cup Permutations(Versions)

=============================================================================
