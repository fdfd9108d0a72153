----------------------------- MODULE MCAnalysis -----------------------------
(* Model checking instance of Analysis. *)
EXTENDS Analysis, TLC

CONSTANTS e1, e2, e3, a1, a2, t1, t2

OneEvent == {e1}
TwoEvents == {e1, e2}
ThreeEvents == {e1, e2, e3}
NoArticle == {}
OneArticle == {a1}
TwoArticles == {a1, a2}
OneTask == {t1}
TwoTasks == {t1, t2}
ModelOnly == {OpenAI}
DeterministicOnly == {Deterministic}
BothModes == {Deterministic, OpenAI}

TaskSymmetry == Permutations({t1, t2})
Symmetry == TaskSymmetry \cup Permutations({e1, e2}) \cup Permutations({a1, a2})
=============================================================================
