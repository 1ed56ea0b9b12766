---------------------------- MODULE MCAttribution ----------------------------
(* Batches with a view the server stamps, twice, or one the browser stamps.  *)
EXTENDS Attribution, TLC

MCBatches == {<<None, None>>, <<0>>}

Symmetry == Permutations(Clients) \cup Permutations(Tenants)

==============================================================================
