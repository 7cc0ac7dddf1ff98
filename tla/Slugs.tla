------------------------------- MODULE Slugs --------------------------------
(***************************************************************************)
(* The slug of a world whose title others have, too (nextFreeSlug and its  *)
(* use in createWorld, httpapi/worlds.go).  All have one base; the slug    *)
(* base-n is the number n, the base itself is 1.                           *)
(***************************************************************************)
EXTENDS Naturals, FiniteSets

Base == 1

(* Wrong: the first suffix is taken to be free.                            *)
SecondSlug(taken) == 2

(* nextFreeSlug: the first suffix from 2 on that is not taken.             *)
NextFreeSlug(taken) ==
    CHOOSE n \in 2..Cardinality(taken) + 2 :
        n \notin taken /\ \A m \in 2..n - 1 : m \in taken

(* createWorld, when the user typed no slug.                               *)
DerivedSlug(slug, taken) == IF slug \in taken THEN NextFreeSlug(taken) ELSE slug
=============================================================================
