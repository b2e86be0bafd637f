---------------------------- MODULE DemoPlaybook ----------------------------
(***************************************************************************)
(* The demo playbook of frontend/src/lib/demo.ts, which the playbook       *)
(* viewer creates and publishes, and the decisions the form suggests for   *)
(* it.  The keys stand for the ids minted with each installation; an edge  *)
(* is known by the node it leaves and its label.                           *)
(***************************************************************************)
EXTENDS PlaybookGraph

DemoDecisionNodes ==
  {"known_workstation", "maintenance_window", "safety_register", "historian_anomaly",
   "seen_before"}

(* A terminal node and its terminal_resolution.                            *)
DemoTerminalNodes ==
  {<<"close_authorized", "close_authorized_maintenance">>,
   <<"escalate_safety", "escalate_safety_review">>,
   <<"escalate_unauthorized", "escalate_unauthorized_change">>,
   <<"contain_isolate", "contain_isolate_segment">>,
   <<"escalate_suspicious", "escalate_suspicious_activity">>,
   <<"escalate_intrusion", "escalate_possible_intrusion">>}

DemoEdges ==
  {<<"known_workstation", "Yes", "maintenance_window">>,
   <<"known_workstation", "No", "historian_anomaly">>,
   <<"maintenance_window", "Yes", "safety_register">>,
   <<"maintenance_window", "No", "escalate_unauthorized">>,
   <<"safety_register", "Yes", "escalate_safety">>,
   <<"safety_register", "No", "close_authorized">>,
   <<"historian_anomaly", "Yes", "contain_isolate">>,
   <<"historian_anomaly", "No", "seen_before">>,
   <<"seen_before", "Yes", "escalate_suspicious">>,
   <<"seen_before", "No", "escalate_intrusion">>}

(* The definition of buildDemoPlaybookRequest.                             *)
DemoGraph ==
  [root  |-> "known_workstation",
   nodes |-> [n \in DemoDecisionNodes \cup {t[1] : t \in DemoTerminalNodes} |->
                IF n \in DemoDecisionNodes
                THEN [kind |-> KindDecision, resolution |-> NoResolution]
                ELSE [kind |-> KindTerminal,
                      resolution |-> (CHOOSE t \in DemoTerminalNodes : t[1] = n)[2]]],
   edges |-> [e \in {<<d[1], d[2]>> : d \in DemoEdges} |->
                [from |-> e[1],
                 to   |-> (CHOOSE d \in DemoEdges : <<d[1], d[2]>> = e)[3]]]]

(* DEMO_DECISIONS: the answers a rationale and evidence are suggested for. *)
DemoDecisions ==
  {<<"known_workstation", "Yes">>, <<"maintenance_window", "Yes">>, <<"safety_register", "No">>}

(* The second call of an installation is never refused for the graph, and  *)
(* the suggested decisions are a walk to a resolution.                     *)
ASSUME DemoPublishable ==
  /\ Publishable(DemoGraph)
  /\ DemoDecisions \subseteq EdgeIDs(DemoGraph)
  /\ \E n \in NodeIDs(DemoGraph) :
       /\ DemoGraph.nodes[n].kind = KindTerminal
       /\ {DemoGraph.edges[e].to : e \in DemoDecisions} \cup {DemoGraph.root}
            = {e[1] : e \in DemoDecisions} \cup {n}

=============================================================================
