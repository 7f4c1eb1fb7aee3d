------------------------------ MODULE MCMtpServer ------------------------------
(* MtpServer on two directories of the root, each with one entry that may  *)
(* be a directory with one entry, and three handles.                       *)
EXTENDS MtpServer

CONSTANTS a, b, c, Other

MCNames  == {a, b, c}
MCPaths  == {<<x>> : x \in {a, b}} \cup {<<x, c>> : x \in {a, b}} \cup {<<x, c, c>> : x \in {a, b}}
MCIds    == {Card, Other}
Symmetry == Permutations({a, b})
=============================================================================
