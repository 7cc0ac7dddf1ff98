------------------------------- MODULE Sight --------------------------------
(***************************************************************************)
(* Which tokens of a scene a member is told of                             *)
(* (internal/core/sight/sight.go over core/access and core/perm).  A token *)
(* is a record of its position and access control list; a wall has a       *)
(* segment and is, as the case may be, a door that is open.  What a query  *)
(* read is a parameter: the code asks for the walls and for the viewpoints *)
(* in queries of their own.                                                *)
(***************************************************************************)
EXTENDS Vision, Perm

(* A position that does not decode, after a patch put something else there.*)
Unreadable == <<>>

(* Grant, for a document in no folder and a world without defaults.        *)
Grant(user, role, doc) == Effective(user, role, doc.acl, <<>>, LevelNone)

(* RedactDocument sends a document to whoever may read it, but its data,   *)
(* and so its position, only above "limited".                              *)
ShowsData(level) == level > LevelLimited

(* BlockersOf: the walls that block sight, except open doors.              *)
BlockersOf(walls) ==
    {w.segment : w \in {w \in walls : w.blocksSight /\ ~(w.door /\ w.open)}}

(* ViewpointsOf: where the tokens stand that a member owns.                *)
ViewpointsOf(user, role, tokens) ==
    {tokens[t].pos : t \in {t \in DOMAIN tokens :
        Grant(user, role, tokens[t]) >= LevelOwner /\ tokens[t].pos # Unreadable}}

(* Wrong: who owns no token on the scene sees nothing of it.               *)
FilterBlinding(views, role, pos, blockers, points) ==
    {u \in views : \/ pos = Unreadable \/ blockers = {} \/ IsStaff(role[u])
                   \/ \E v \in points[u] : Visible(v, pos, blockers)}

(* Filter: the recipients of a token's new position, of those who have a   *)
(* view of it.                                                             *)
Filter(views, role, pos, blockers, points) ==
    {u \in views : \/ pos = Unreadable \/ blockers = {} \/ IsStaff(role[u])
                   \/ VisibleFromAny(points[u], pos, blockers)}

(* VisibleTokens: of the tokens of a listing, the ones a member may see.   *)
VisibleTokens(role, tokens, blockers, points) ==
    {t \in DOMAIN tokens :
        \/ blockers = {} \/ IsStaff(role) \/ points = {}
        \/ tokens[t].pos # Unreadable /\ VisibleFromAny(points, tokens[t].pos, blockers)}

(* Wrong: catch-up does not look at walls.                                 *)
CanSeeAll(role, pos, blockers, points) == TRUE

(* CanSee: whether catch-up may show one token.                            *)
CanSee(role, pos, blockers, points) ==
    \/ IsStaff(role) \/ pos = Unreadable \/ blockers = {}
    \/ VisibleFromAny(points, pos, blockers)
=============================================================================
