------------------------------ MODULE MCScene -------------------------------
(* A corridor with a door in the middle: a game master and a player.       *)
EXTENDS Scene

MCUser == {"greta", "paul"}
MCRoleOf == [u \in MCUser |-> IF u = "greta" THEN "gm" ELSE "player"]
MCPlace == {<<0, 0>>, <<1, 0>>, <<2, 0>>}
MCDoor == {"door"}
MCDoorAt == [d \in MCDoor |-> <<<<1, -1>>, <<1, 1>>>>]
MCAccessLevel == {LevelNone, LevelOwner}

(* The player's token and a monster, with the closed door between them.    *)
MCInit ==
    /\ Init
    /\ token["hero"] = [pos |-> <<0, 0>>, acl |-> WithLevel(NewACL, "paul", LevelOwner)]
    /\ token["ghoul"] = [pos |-> <<2, 0>>, acl |-> NewACL]
    /\ ~open["door"]
MCSpec == MCInit /\ [][Next]_vars
=============================================================================
