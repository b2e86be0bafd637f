----------------------- MODULE MCInvestigationEngine -----------------------
(***************************************************************************)
(* Instances of InvestigationEngine.  "triage" offers two ways to the same *)
(* terminal node, one of them longer, and a second outcome; "close" has a  *)
(* terminal root.  The edge "foreign" belongs to no version.               *)
(***************************************************************************)
EXTENDS InvestigationRefinement, ReportOverlay

Decision == [kind |-> KindDecision, resolution |-> NoResolution]
Terminal(r) == [kind |-> KindTerminal, resolution |-> r]

TriageGraph ==
  [root  |-> "root",
   nodes |-> [root |-> Decision, inspect |-> Decision,
              benign |-> Terminal("benign"), threat |-> Terminal("threat")],
   edges |-> [dismiss |-> [from |-> "root", to |-> "benign"],
              look    |-> [from |-> "root", to |-> "inspect"],
              clear   |-> [from |-> "inspect", to |-> "benign"],
              raise   |-> [from |-> "inspect", to |-> "threat"]]]

CloseGraph ==
  [root  |-> "closed",
   nodes |-> [closed |-> Terminal("closed")],
   edges |-> [e \in {} |-> e]]

MCGraph == [v \in {"triage", "close"} |-> IF v = "triage" THEN TriageGraph ELSE CloseGraph]

MCEdgeRefs == {"dismiss", "look", "raise", "foreign"}

=============================================================================
