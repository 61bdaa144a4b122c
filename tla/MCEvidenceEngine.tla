-------------------------- MODULE MCEvidenceEngine --------------------------
(* One reader suffices: readers share only the publication they read.      *)
EXTENDS EvidenceEngine, TLC

CONSTANTS backups, gaps

MCRoutes == {backups, gaps}
MCSymmetry == Permutations(MCRoutes)
=============================================================================
