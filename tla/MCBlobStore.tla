---------------------------- MODULE MCBlobStore ----------------------------
EXTENDS BlobStore, TLC

Symmetry == Permutations(Servers) \cup Permutations(Repairs) \cup Permutations(Names) \cup Permutations(Refs)
=============================================================================
