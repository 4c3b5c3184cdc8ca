----------------------------- MODULE MCAvatarStore -----------------------------
\* Instances of AvatarStore for TLC.
EXTENDS AvatarStore, TLC

Symmetry == Permutations(Users) \cup Permutations(Files) \cup Permutations(Reqs)
=============================================================================
