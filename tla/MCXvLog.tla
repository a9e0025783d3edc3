------------------------------ MODULE MCXvLog ------------------------------
EXTENDS XvLog, TLC

Interchangeable ==
  Permutations(Proc) \cup Permutations(Block) \cup Permutations(Val)
=============================================================================
