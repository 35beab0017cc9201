----------------------------- MODULE MCPodFetch -----------------------------
(* An instance of PodFetch for TLC: two namespaces, one with two pods.     *)
EXTENDS PodFetch, TLC

CONSTANTS a, b, n1, n2, n3

MCHome  == (n1 :> a) @@ (n2 :> a) @@ (n3 :> b)
MCFlags == {<<>>, <<a>>, <<a, b>>, <<a, a>>}
=============================================================================
