------------------------------ MODULE MCXvPipe ------------------------------
(***************************************************************************)
(* Instances of XvPipe: a writer, a reader and a process with both ends.   *)
(***************************************************************************)
EXTENDS XvPipe, TLC

CONSTANTS writer, reader, both

MCEnds == (writer :> {"w"}) @@ (reader :> {"r"}) @@ (both :> {"r", "w"})

Interchangeable == Permutations(Byte)
=============================================================================
