------------------------------ MODULE MCReinit ------------------------------
EXTENDS Reinit, TLC

Symmetric == Permutations(Entry) \cup Permutations(Submitter)
=============================================================================
