----------------------------- MODULE MCMcpServer -----------------------------
(* Two principals of one workspace and one of another.                     *)
EXTENDS McpServer

CONSTANTS p1, p2, p3, w1, w2

HomeOf == [p \in {p1, p2, p3} |-> IF p = p3 THEN w2 ELSE w1]

=============================================================================
