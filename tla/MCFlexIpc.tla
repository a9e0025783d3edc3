------------------------------ MODULE MCFlexIpc ------------------------------
(* Small instances of FlexIpc for TLC.                                      *)
EXTENDS FlexIpc

CONSTANTS c1, c2, h1, h2

TwoCoroutines == {c1, c2}
OneHandler == {h1}
TwoHandlers == {h1, h2}
=============================================================================
