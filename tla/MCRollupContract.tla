---------------------------- MODULE MCRollupContract ----------------------------
(* Model values for RollupContract. *)
EXTENDS RollupContract, TLC
CONSTANTS Alice, Bob
Op(type, owner, amount) == [type |-> type, owner |-> owner, amount |-> amount]
MCPublicDatas ==
    {<<Op("Deposit", Alice, 1)>>,
     <<Op("Deposit", Bob, 1), Op("PartialExit", Bob, 1)>>,
     <<Op("FullExit", Alice, 1), Op("Deposit", Bob, 1)>>,
     <<Op("PartialExit", Alice, 1)>>,
     <<Op("FullExit", Alice, 0)>>}
=============================================================================
