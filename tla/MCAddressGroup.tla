---------------------------- MODULE MCAddressGroup ----------------------------
(***************************************************************************)
(* AddressGroup with values for TLC.  The addresses are pushed in full, in *)
(* part or not at all, so that below EnableThreshold all are used and      *)
(* above it an elastic pool of some.  The windows are an empty one, a good *)
(* one and a bad one, of sizes that change the pool.                       *)
(***************************************************************************)
EXTENDS AddressGroup

CONSTANT First          \* addresses that are pushed without the others, too

MCPushes == {{}, First, Address}

MCCounts == {[total |-> 0, error |-> 0, rt |-> 0],
             [total |-> 10, error |-> 0, rt |-> 100],
             [total |-> 20, error |-> 20, rt |-> 200]}
=============================================================================
