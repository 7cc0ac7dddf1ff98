------------------------------ MODULE MCRules -------------------------------
EXTENDS Rules

MCGrid == (0..2) \X (0..2)
(* On both sides of two walls that cross, on one, and where they meet.     *)
MCSpot == {<<0, 0>>, <<1, 0>>, <<2, 0>>, <<1, 1>>}
MCBarrier == {<<<<1, -1>>, <<1, 1>>>>, <<<<0, 1>>, <<2, 1>>>>}
MCPath == {<<"a">>, <<"a", "b">>, <<"a", "b", "c">>, <<"d">>}
MCPiece == {Constant(2), DicePiece(1, 2, "", 0), DicePiece(2, 2, "kh", 1), DicePiece(2, 2, "dh", 1),
            DicePiece(2, 2, "kl", 1), DicePiece(2, 2, "dl", 3),
            DicePiece(1, 1, "", 0), DicePiece(0, 2, "", 0), Malformed}
=============================================================================
