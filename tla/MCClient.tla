------------------------------- MODULE MCClient -------------------------------
(***************************************************************************)
(* Two clients of one process.  The first has two consumers of one service *)
(* with a registry, of which the second is created when the first is       *)
(* closed; the other client has a consumer of the same service with the    *)
(* address of a server.  Both clients connect to the same host.            *)
(***************************************************************************)
EXTENDS Client

MCClientOf == [c1 |-> "m1", c2 |-> "m1", d |-> "m2", k1 |-> "m1", k2 |-> "m2"]

MCKeyOf == [c1 |-> "service", c2 |-> "service", d |-> "service",
            k1 |-> "host", k2 |-> "host"]

MCCacheKeyOf == [c1 |-> "service", c2 |-> "service", d |-> "service@host"]
=============================================================================
