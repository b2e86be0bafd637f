------------------------- MODULE MCDecisionConsole -------------------------
(* An instance of DecisionConsole: two ways to the end, one in two steps.  *)
EXTENDS DecisionConsole, TLC

MCPlaybook ==
  [root  |-> "root",
   nodes |-> [root    |-> [kind |-> KindDecision, resolution |-> NoResolution],
              inspect |-> [kind |-> KindDecision, resolution |-> NoResolution],
              closed  |-> [kind |-> KindTerminal, resolution |-> "closed"]],
   edges |-> [dismiss |-> [from |-> "root", to |-> "closed"],
              look    |-> [from |-> "root", to |-> "inspect"],
              close   |-> [from |-> "inspect", to |-> "closed"]]]

(* A blank row, one that lacks its summary, and one with data.             *)
MCRows ==
  {NewEvidenceDraft,
   [type |-> "lookup", summary |-> NoField, data |-> NoField],
   [type |-> "lookup", summary |-> "known", data |-> "object"]}

Interchangeable == Permutations(Keys) \cup Permutations(Slots)

=============================================================================
