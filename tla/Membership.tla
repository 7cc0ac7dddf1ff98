----------------------------- MODULE Membership -----------------------------
(***************************************************************************)
(* Who belongs to a world, in which role, and how invites let people in    *)
(* (internal/transport/httpapi/worlds.go over sqlstore/invites.go).        *)
(*                                                                         *)
(* Requests run concurrently.  A game master's request reads the actor's   *)
(* role first (requireRole) and changes the database in a transaction of   *)
(* its own later; an accept reads the invite and consumes it in one        *)
(* transaction, of which PostgreSQL interleaves the statements.  So every  *)
(* request is two steps: what it reads, then what it commits.              *)
(***************************************************************************)
EXTENDS Naturals, FiniteSets, Slugs

CONSTANTS
    User,       \* accounts, and people who may still create one
    Founder,    \* the user who creates the world
    Request,    \* requests in flight at the same time
    Invite,     \* bound: invites that can be created
    MaxUses,    \* bound: largest max_uses of an invite
    MaxJoins,   \* bound: accepts of an unlimited invite
    MaxWorlds   \* bound: worlds with one title

ASSUME MembershipAssumption ==
    Founder \in User /\ MaxUses \in Nat /\ MaxJoins \in Nat /\ MaxWorlds \in Nat
    /\ IsFiniteSet(Request)

VARIABLES
    account,    \* account[u]: u has a row in users
    role,       \* role[u]: u's role in world_members, "none" without a row
    invites,    \* invites[i]: a row of invites, or NoInvite
    slugs,      \* worlds.slug, of the worlds with the title of this one
    req,        \* req[r]: what request r has read, Idle between requests
    joined      \* history: users who have ever been members

vars == <<account, role, invites, slugs, req, joined>>

Role == {"gm", "player"}
Idle == [op |-> "idle"]
Slug == 1..MaxWorlds + 1
NoInvite == [role |-> "none"]

InviteRow == [role : Role, max : 0..MaxUses, uses : Nat, revoked : BOOLEAN, expired : BOOLEAN]

(* createWorld commits the world and its game master together.  Other      *)
(* users may have accounts already.                                        *)
Init ==
    /\ account \in {a \in [User -> BOOLEAN] : a[Founder]}
    /\ role = [u \in User |-> IF u = Founder THEN "gm" ELSE "none"]
    /\ invites = [i \in Invite |-> NoInvite]
    /\ slugs = {Base}
    /\ req = [r \in Request |-> Idle]
    /\ joined = {Founder}

Start(r, op) ==
    /\ req[r] = Idle
    /\ req' = [req EXCEPT ![r] = op]
    /\ UNCHANGED <<account, role, invites, slugs, joined>>

End(r) == req' = [req EXCEPT ![r] = Idle]

(* requireRole(gmOnly).                                                    *)
IsGM(u) == role[u] = "gm"
Put(u, newRole) == role' = [role EXCEPT ![u] = newRole] /\ joined' = joined \cup {u}
-----------------------------------------------------------------------------
(* Wrong: a game master may take the role from themselves.                 *)
AskSetRoleFreely(r, actor, target, newRole) ==
    /\ IsGM(actor)
    /\ Start(r, [op |-> "setRole", actor |-> actor, target |-> target, role |-> newRole])

(* setMemberRole: a game master may not take the role from themselves.     *)
AskSetRole(r, actor, target, newRole) ==
    /\ IsGM(actor)
    /\ ~(target = actor /\ newRole # "gm")
    /\ Start(r, [op |-> "setRole", actor |-> actor, target |-> target, role |-> newRole])

(* The transaction: PutMember is an upsert, so it also adds a member.      *)
DoSetRole(r) ==
    /\ req[r].op = "setRole"
    /\ IF account[req[r].target] THEN Put(req[r].target, req[r].role)
                                 ELSE UNCHANGED <<role, joined>>
    /\ End(r)
    /\ UNCHANGED <<account, invites, slugs>>

(* removeMember.                                                           *)
AskRemove(r, actor, target) ==
    /\ IsGM(actor)
    /\ target # actor
    /\ Start(r, [op |-> "remove", actor |-> actor, target |-> target])

DoRemove(r) ==
    /\ req[r].op = "remove"
    /\ role' = [role EXCEPT ![req[r].target] = "none"]
    /\ End(r)
    /\ UNCHANGED <<account, invites, slugs, joined>>
-----------------------------------------------------------------------------
(* createInvite, under an id of its own.                                   *)
Fresh(i) ==
    /\ invites[i] = NoInvite
    /\ \A r \in Request : req[r].op = "invite" => req[r].invite # i

AskInvite(r, actor, i, newRole, max) ==
    /\ IsGM(actor)
    /\ Fresh(i)
    /\ Start(r, [op |-> "invite", invite |-> i, role |-> newRole, max |-> max])

DoInvite(r) ==
    /\ req[r].op = "invite"
    /\ invites' = [invites EXCEPT ![req[r].invite] =
          [role |-> req[r].role, max |-> req[r].max, uses |-> 0, revoked |-> FALSE, expired |-> FALSE]]
    /\ End(r)
    /\ UNCHANGED <<account, role, slugs, joined>>

(* revokeInvite; revoking twice changes nothing.                           *)
AskRevoke(r, actor, i) ==
    /\ IsGM(actor)
    /\ invites[i] # NoInvite
    /\ Start(r, [op |-> "revoke", invite |-> i])

DoRevoke(r) ==
    /\ req[r].op = "revoke"
    /\ invites' = [invites EXCEPT ![req[r].invite].revoked = TRUE]
    /\ End(r)
    /\ UNCHANGED <<account, role, slugs, joined>>

(* ExpiresAt passes.                                                       *)
Expire(i) ==
    /\ invites[i] # NoInvite
    /\ ~invites[i].expired
    /\ invites' = [invites EXCEPT ![i].expired = TRUE]
    /\ UNCHANGED <<account, role, slugs, req, joined>>

HasUses(i) == invites[i].max = 0 \/ invites[i].uses < invites[i].max
Usable(i) == ~invites[i].revoked /\ ~invites[i].expired /\ HasUses(i)

(* acceptInvite, its reads: the invite is usable; somebody without a       *)
(* session creates an account on the way.                                  *)
AskAccept(r, u, i) ==
    /\ invites[i] # NoInvite
    /\ Usable(i)
    /\ invites[i].uses < MaxJoins
    /\ Start(r, [op |-> "accept", user |-> u, new |-> ~account[u], invite |-> i])

(* Wrong: trusts the uses read at the start of the transaction.            *)
UnconditionalConsume(i) == ~invites[i].revoked

(* Wrong: does not look at revoked_at.                                     *)
ConsumeRevoked(i) == HasUses(i)

(* ConsumeInvite updates under the row's lock, on its latest committed     *)
(* version: no row updated is an error, and the transaction rolls back.    *)
Consumable(i) == ~invites[i].revoked /\ HasUses(i)

(* Wrong: the account is committed before the invite is consumed.          *)
DoAcceptEagerly(r) ==
    /\ req[r].op = "accept"
    /\ LET u == req[r].user
           i == req[r].invite
       IN /\ account' = [account EXCEPT ![u] = TRUE]
          /\ IF Consumable(i) /\ ~(req[r].new /\ account[u])
             THEN /\ Put(u, invites[i].role)
                  /\ invites' = [invites EXCEPT ![i].uses = @ + 1]
             ELSE UNCHANGED <<role, joined, invites>>
    /\ End(r)
    /\ UNCHANGED slugs

(* Account, membership and use are committed together or not at all.  A    *)
(* username that was taken meanwhile also rolls back.                      *)
DoAccept(r) ==
    /\ req[r].op = "accept"
    /\ LET u == req[r].user
           i == req[r].invite
       IN IF Consumable(i) /\ ~(req[r].new /\ account[u])
          THEN /\ account' = [account EXCEPT ![u] = TRUE]
               /\ Put(u, invites[i].role)
               /\ invites' = [invites EXCEPT ![i].uses = @ + 1]
          ELSE UNCHANGED <<account, role, joined, invites>>
    /\ End(r)
    /\ UNCHANGED slugs
-----------------------------------------------------------------------------
(* createWorld, its reads, for another world of the same title: takenSlugs *)
(* and, unless the user typed a slug, the next one that is free.  A typed  *)
(* slug that is taken is refused at once.                                  *)
AskCreate(r, u, slug, chosen) ==
    /\ account[u]
    /\ Cardinality(slugs) < MaxWorlds
    /\ chosen => slug \notin slugs
    /\ ~chosen => slug = DerivedSlug(Base, slugs)
    /\ Start(r, [op |-> "create", slug |-> slug, chosen |-> chosen, taken |-> slugs])

(* PutWorld: worlds.slug is unique, and a conflict rolls back.             *)
DoCreate(r) ==
    /\ req[r].op = "create"
    /\ slugs' = slugs \cup {req[r].slug}
    /\ End(r)
    /\ UNCHANGED <<account, role, invites, joined>>
-----------------------------------------------------------------------------
GMRequest(r, actor) ==
    \/ \E target \in User, newRole \in Role : AskSetRole(r, actor, target, newRole)
    \/ \E target \in User : AskRemove(r, actor, target)
    \/ \E i \in Invite, newRole \in Role, max \in 0..MaxUses :
          AskInvite(r, actor, i, newRole, max)
    \/ \E i \in Invite : AskRevoke(r, actor, i)

Commit(r) ==
    \/ DoSetRole(r)
    \/ DoRemove(r)
    \/ DoInvite(r)
    \/ DoRevoke(r)
    \/ DoAccept(r)
    \/ DoCreate(r)

Next ==
    \/ \E r \in Request, actor \in User : GMRequest(r, actor)
    \/ \E r \in Request, u \in User, i \in Invite : AskAccept(r, u, i)
    \/ \E r \in Request, u \in User, slug \in Slug, chosen \in BOOLEAN :
          AskCreate(r, u, slug, chosen)
    \/ \E r \in Request : Commit(r)
    \/ \E i \in Invite : Expire(i)

Spec == Init /\ [][Next]_vars
-----------------------------------------------------------------------------
Requests ==
    {Idle}
    \cup [op : {"setRole"}, actor : User, target : User, role : Role]
    \cup [op : {"remove"}, actor : User, target : User]
    \cup [op : {"invite"}, invite : Invite, role : Role, max : 0..MaxUses]
    \cup [op : {"revoke"}, invite : Invite]
    \cup [op : {"create"}, slug : Slug, chosen : BOOLEAN, taken : SUBSET Slug]
    \cup [op : {"accept"}, user : User, new : BOOLEAN, invite : Invite]

(* Only users with an account are members.                                 *)
TypeOK ==
    /\ account \in [User -> BOOLEAN]
    /\ role \in [User -> Role \cup {"none"}]
    /\ \A u \in User : role[u] # "none" => account[u]
    /\ DOMAIN invites = Invite /\ \A i \in Invite : invites[i] \in InviteRow \cup {NoInvite}
    /\ slugs \subseteq Slug
    /\ req \in [Request -> Requests]
    /\ joined \in SUBSET User

(* However many people accept an invite at the same time, no more get in   *)
(* than it allows (Usable, then ConsumeInvite).                            *)
UsesBounded ==
    \A i \in Invite : invites[i] # NoInvite /\ invites[i].max # 0
        => invites[i].uses <= invites[i].max

(* Nobody joins through a revoked invite, not even somebody whose accept   *)
(* had found it valid before it was revoked.                               *)
RevokedIsFinal ==
    [][\A i \in Invite : invites[i] # NoInvite /\ invites[i].revoked
          => invites'[i].revoked /\ invites'[i].uses = invites[i].uses]_vars

(* An account that an accept creates is the account of somebody who joined *)
(* (README.md:148): a rolled-back accept leaves no orphan.                 *)
NoOrphanAccount == [][\A u \in User : ~account[u] /\ account'[u] => u \in joined']_vars

(* A derived slug is refused only because a world created meanwhile took   *)
(* it: README.md:155 "a derived slug that collides gets a numeric suffix   *)
(* rather than an error" is true of what the handler could see.            *)
DerivedRefusedByRace ==
    [][\A r \in Request :
          req[r].op = "create" /\ ~req[r].chosen /\ req'[r] = Idle /\ slugs' = slugs
              => req[r].slug \in slugs \ req[r].taken]_vars

(* README.md:152 "A game master cannot demote or remove themselves,        *)
(* because a world with no game master cannot be repaired through the      *)
(* API".  A world loses its last game master in two ways only: a request   *)
(* commits whose actor has lost the role since requireRole, or the game    *)
(* master accepts an invite to another role.                               *)
HasGM == \E u \in User : IsGM(u)
GMLostByOverlap ==
    [][HasGM /\ ~HasGM' =>
          \E r \in Request :
              /\ req'[r] = Idle
              /\ \/ req[r].op \in {"setRole", "remove"} /\ ~IsGM(req[r].actor)
                 \/ req[r].op = "accept" /\ IsGM(req[r].user)]_vars
=============================================================================
