----------------------------- MODULE MCClusters -----------------------------
(* Model checking instance of Clusters: three live articles, each a window after the one
   before, and a demo article. *)
EXTENDS Clusters, TLC

CONSTANTS dawn, noon, dusk, sample

MCPublished == [a \in Articles |-> CASE a = dawn -> 0 [] a = dusk -> 2 [] OTHER -> 1]
Interchangeable == Permutations(Events) \cup Permutations(Sessions)
=============================================================================
