--------------------------- MODULE MCCrawlPipeline ---------------------------
(* Instances of CrawlPipeline for TLC: see the cfg files for the bounds. *)
EXTENDS CrawlPipeline, TLC

\* The daemon never blocks for want of a run identity.
ASSUME RunsSuffice == Cardinality(Sources) * MaxCycles + MaxRequests <= MaxRuns

KeyAndUrlSymmetry == Permutations(Keys) \union Permutations(Urls)
FullSymmetry == KeyAndUrlSymmetry \union Permutations(Workers)
UrlSymmetry == Permutations(Urls)
=============================================================================
