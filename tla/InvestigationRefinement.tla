---------------------- MODULE InvestigationRefinement ----------------------
(***************************************************************************)
(* InvestigationEngine implements AuditTrail: the walk is read off the     *)
(* committed step rows in the order of their sequence numbers, as the      *)
(* report does, and never off the current_node_id pointer.                 *)
(***************************************************************************)
EXTENDS InvestigationEngine, Sequences

DecisionAt(i, k) ==
  LET s == CHOOSE t \in steps[i] : t.seq = k
  IN  [edge |-> s.edge, key |-> s.key, body |-> s.body]

PathOf(i) == [k \in 1..(NextSequenceNumber(steps[i]) - 1) |-> DecisionAt(i, k)]

TrailOf(i) == [version |-> investigations[i].version, path |-> PathOf(i)]

Started == {i \in Investigations : investigations[i] # NoRow}

Abstract == INSTANCE AuditTrail WITH trail <- [i \in Started |-> TrailOf(i)]

(* Every committed step of ApplyDecision is one step of the walk, and      *)
(* everything else the engine does leaves the walk alone.                  *)
ImplementsAuditTrail == Abstract!Spec

=============================================================================
