---------------------------- MODULE MCPoolClient ----------------------------
(* Instances of PoolClient for TLC.                                        *)
EXTENDS PoolClient, TLC

CONSTANTS c1, own, user

\* A pool the client names itself, and one that another tool made.
MCClassOf == (own :> c1) @@ (user :> c1)
MCOwnName == (c1 :> own)
=============================================================================
