---------------------------- MODULE MCRoutePlugin ----------------------------
(***************************************************************************)
(* RoutePlugin on small instances: one connection with several keys, and    *)
(* two connections that share a key.                                        *)
(***************************************************************************)
EXTENDS RoutePlugin, TLC

(* Keys, and connections, differ in nothing but their name.                 *)
Symmetric == Permutations(Key) \cup Permutations(Conn) \cup Permutations(HostKey)

=============================================================================
