------------------------------ MODULE MCXvBio ------------------------------
EXTENDS XvBio, TLC

\* The places of a bucket are interchangeable, and so are the processes.
Interchangeable == Permutations(Slot) \cup Permutations(Proc)
=============================================================================
