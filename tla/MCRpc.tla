------------------------------- MODULE MCRpc --------------------------------
(* Small meshes for Rpc: a ring with an appendix and a client, and a chain. *)
EXTENDS Rpc, TLC

CONSTANTS a, b, c, d, k, c1, c2

\* k dials a, d dials c, and there is the ring a - b - c - a.
RingLink == {<<k, a>>, <<a, b>>, <<b, c>>, <<c, a>>, <<d, c>>}
RingVia == [n \in Node |-> [m \in Node |->
               CASE n = a /\ m = d -> b
                 [] n = b /\ m = d -> c
                 [] n = d /\ m = a -> c
                 [] OTHER -> NoNode]]
\* k's call to d makes d call its neighbour c.
BackOrigin == c1 :> k @@ c2 :> d
BackDest == c1 :> d @@ c2 :> c

\* a dials b, b dials c.
ChainLink == {<<a, b>>, <<b, c>>}
ChainVia == [n \in Node |-> [m \in Node |->
                IF {n, m} = {a, c} THEN b ELSE NoNode]]

\* c's call is served by a, which calls c back while its reader waits.
UpOrigin == c1 :> c @@ c2 :> a
UpDest == c1 :> a @@ c2 :> c
Nested == c1 :> NoCall @@ c2 :> c1

=============================================================================
