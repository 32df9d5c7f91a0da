------------------------- MODULE MCZookeeperRegistry -------------------------
(***************************************************************************)
(* ZookeeperRegistry with values for TLC.  The listeners take all urls, or *)
(* all of them but those in Special do.                                    *)
(***************************************************************************)
EXTENDS ZookeeperRegistry

CONSTANT Special         \* listeners that want a version nobody provides

MCMatching == [l \in Listener |-> IF l \in Special THEN {} ELSE Url]
=============================================================================
