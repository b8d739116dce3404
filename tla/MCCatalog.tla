----------------------------- MODULE MCCatalog -----------------------------
(* CatalogCommit for TLC: apps and lanes are interchangeable. *)
EXTENDS CatalogCommit, TLC

\* One backup at a time with errors and crashes; with lost LATEST writes too; of an
\* app without recorded changes; and everything at once.
MCWorlds == {{"fail", "crash"}, {"fail", "crash", "latest"}, {"latest", "unseen"}, AllBehaviours}

Symmetry == Permutations(Apps) \cup Permutations(Lanes)
=============================================================================
