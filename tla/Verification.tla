------------------------------ MODULE Verification ------------------------------
(***************************************************************************)
(* decide_verification of domain/verification.py: what the evidence of a   *)
(* claim is worth.  Evidence is a finite set of facts, one per article of  *)
(* the event.  The decision is a list of rules and the first that applies  *)
(* decides.  The wording of the rationale is left out.                     *)
(***************************************************************************)
EXTENDS Integers, FiniteSets

Stances == {"supports", "conflicts", "withdrawn", "disproves"}
Statuses == {"withdrawn_or_disproved", "disputed", "primary_source_confirmed",
             "multi_source_corroborated", "single_source_reported"}
Confidences == {"low", "medium", "high"}

\* EvidenceFact
FactsOf(articles, groups) ==
    [article : articles, stance : Stances, group : groups, known : BOOLEAN,
     quality : {"low", "medium", "high"}, primary : BOOLEAN, direct : BOOLEAN]

Supporting(E) == {f \in E : f.stance = "supports"}
Conflicting(E) == {f \in E : f.stance = "conflicts"}
Withdrawn(E) == {f \in E : f.stance \in {"withdrawn", "disproves"}}
DirectPrimary(E) == {f \in Supporting(E) : f.primary /\ f.direct}

\* Mutant: every supporting article counts as a chain of its own.
ArticlesOf(E) == {f.article : f \in Supporting(E)}

\* The independent information chains that support the claim.
ChainsOf(E) ==
    {f.group : f \in {g \in Supporting(E) : g.known /\ g.quality \in {"medium", "high"}}}

Corroborated(E) == Cardinality(ChainsOf(E)) >= 2

\* Mutant: corroboration is looked at before the primary source is.
StatusCorroboratedFirst(E) ==
    IF Withdrawn(E) # {} THEN "withdrawn_or_disproved"
    ELSE IF Conflicting(E) # {} /\ Supporting(E) # {} THEN "disputed"
    ELSE IF Corroborated(E) THEN "multi_source_corroborated"
    ELSE IF DirectPrimary(E) # {} THEN "primary_source_confirmed"
    ELSE "single_source_reported"

Status(E) ==
    IF Withdrawn(E) # {} THEN "withdrawn_or_disproved"
    ELSE IF Conflicting(E) # {} /\ Supporting(E) # {} THEN "disputed"
    ELSE IF DirectPrimary(E) # {} THEN "primary_source_confirmed"
    ELSE IF Corroborated(E) THEN "multi_source_corroborated"
    ELSE "single_source_reported"

Confidence(E) ==
    CASE Status(E) = "withdrawn_or_disproved" ->
            IF \E f \in Withdrawn(E) : f.quality = "high" THEN "high" ELSE "medium"
      [] Status(E) = "disputed" -> "medium"
      [] Status(E) = "primary_source_confirmed" -> "high"
      [] Status(E) = "multi_source_corroborated" ->
            IF Cardinality(ChainsOf(E)) >= 3 THEN "high" ELSE "medium"
      [] OTHER ->
            IF Supporting(E) = {} THEN "low" ELSE "medium"

\* VerificationDecision
Decision(E) == [status |-> Status(E), confidence |-> Confidence(E)]
Decisions == [status : Statuses, confidence : Confidences]

\* How far a status that nobody contests goes.
Strength(status) ==
    CASE status = "single_source_reported" -> 1
      [] status = "multi_source_corroborated" -> 2
      [] status = "primary_source_confirmed" -> 3
      [] OTHER -> 0
=============================================================================
