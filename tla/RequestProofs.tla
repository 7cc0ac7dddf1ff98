--------------------------- MODULE RequestProofs ----------------------------
(***************************************************************************)
(* Proofs about the requests that read and write in several steps: those   *)
(* for members, invites and worlds (Membership), and uploads (Assets), for *)
(* any number of each.                                                     *)
(***************************************************************************)
EXTENDS Membership, Assets, FiniteSetTheorems, WellFoundedInduction, TLAPS

(* Every set of naturals that is not empty has a least element.            *)
LEMMA LeastNatural ==
  ASSUME NEW T, T \subseteq Nat, T # {}
  PROVE  \E n \in T : \A m \in T : n <= m
<1> DEFINE less == {ss \in Nat \X Nat : ss[1] < ss[2]}
<1>1. IsWellFoundedOn(less, Nat)
  BY NatLessThanWellFounded DEF OpToRel
<1>2. PICK n \in T : \A m \in T : ~(<<m, n>> \in less)
  <2> HIDE DEF less
  <2> QED BY <1>1, WFMin
<1>3. ASSUME NEW m \in T PROVE n <= m
  <2>1. m \in Nat /\ n \in Nat
    OBVIOUS
  <2>2. <<m, n>> \in Nat \X Nat /\ <<m, n>>[1] = m /\ <<m, n>>[2] = n
    BY <2>1
  <2>3. ~(m < n)
    BY <1>2, <2>2
  <2> QED BY <2>1, <2>3
<1> QED BY <1>3

(* nextFreeSlug finds a suffix that is free: among one more candidates     *)
(* than there are slugs, not all are taken.                                *)
LEMMA NextFreeSlugIsFree ==
  ASSUME NEW taken, IsFiniteSet(taken)
  PROVE  NextFreeSlug(taken) \notin taken
<1> DEFINE k == Cardinality(taken)
           candidates == 2..k + 2
           free == {n \in candidates : n \notin taken}
<1>1. k \in Nat
  BY FS_CardinalityType
<1>2. Cardinality(candidates) = k + 1
  <2>1. 2 \in Int /\ k + 2 \in Int
    BY <1>1
  <2>2. Cardinality(2..k + 2) = IF 2 > k + 2 THEN 0 ELSE (k + 2) - 2 + 1
    <3> HIDE DEF k
    <3> QED BY <2>1, FS_Interval
  <2> QED BY <1>1, <2>2
<1>3. free # {}
  <2>1. SUFFICES ASSUME candidates \subseteq taken PROVE FALSE
    OBVIOUS
  <2>2. Cardinality(candidates) <= k
    BY <2>1, FS_Subset
  <2> QED BY <1>1, <1>2, <2>2
<1>4. PICK n \in free : \A m \in free : n <= m
  <2>1. free \subseteq Nat
    BY <1>1
  <2> HIDE DEF free
  <2> QED BY <1>3, <2>1, LeastNatural
<1>5. n \in candidates /\ n \notin taken /\ \A m \in 2..n - 1 : m \in taken
  BY <1>1, <1>4
<1> QED
  BY <1>5 DEF NextFreeSlug
-----------------------------------------------------------------------------
(* What a request that has read its part may rely on: requireRole's limits *)
(* on what a game master asks of themselves, the fresh id of an invite,    *)
(* rows that are never deleted, and a slug that was free.                  *)
Sound(r, op) ==
    /\ op.op = "setRole" => op.target # op.actor \/ op.role = "gm"
    /\ op.op = "remove" => op.target # op.actor
    /\ op.op = "invite" =>
          /\ invites[op.invite] = NoInvite
          /\ \A q \in Request \ {r} : req[q].op = "invite" => req[q].invite # op.invite
    /\ op.op \in {"revoke", "accept"} => invites[op.invite] # NoInvite
    /\ op.op = "create" /\ ~op.chosen => op.slug \notin op.taken

(* The inductive invariant.                                                *)
IInv == TypeOK /\ UsesBounded /\ \A r \in Request : Sound(r, req[r])

(* The fields of a request are those of its operation.                     *)
LEMMA RequestFields ==
  ASSUME NEW x \in Requests
  PROVE  /\ x.op = "setRole" => x.actor \in User /\ x.target \in User /\ x.role \in Role
         /\ x.op = "remove" => x.actor \in User /\ x.target \in User
         /\ x.op = "invite" => x.invite \in Invite /\ x.role \in Role /\ x.max \in 0..MaxUses
         /\ x.op \in {"revoke", "accept"} => x.invite \in Invite
         /\ x.op = "accept" => x.user \in User /\ x.new \in BOOLEAN
         /\ x.op = "create" => x.slug \in Slug
BY DEF Requests, Idle

(* A row of invites is not the absence of one.                             *)
LEMMA RowIsThere == NoInvite \notin InviteRow
BY DEF NoInvite, InviteRow, Role

(* A request that has read its part adds what it may rely on.              *)
LEMMA StartStep ==
  ASSUME IInv, NEW r \in Request, NEW op \in Requests, Start(r, op), Sound(r, op)
  PROVE  IInv'
<1>1. req' = [req EXCEPT ![r] = op] /\ UNCHANGED <<account, role, invites, slugs, joined>>
  BY DEF Start
<1>2. req' \in [Request -> Requests] /\ req'[r] = op
      /\ \A q \in Request \ {r} : req'[q] = req[q]
  BY <1>1 DEF IInv, TypeOK
<1>3. TypeOK' /\ UsesBounded'
  BY <1>1, <1>2 DEF IInv, TypeOK, UsesBounded
<1>4. ASSUME NEW q \in Request PROVE Sound(q, req[q])'
  <2>1. CASE q = r
    BY <1>1, <1>2, <2>1 DEF Sound
  <2>2. CASE q # r
    <3>1. Sound(q, req[q])
      BY DEF IInv
    <3> QED BY <1>1, <1>2, <2>2, <3>1 DEF Sound
  <2> QED BY <2>1, <2>2
<1> QED BY <1>3, <1>4 DEF IInv

(* A request that ends leaves the others what they rely on, if it deletes  *)
(* no invite and creates none they are about to create.                    *)
LEMMA OthersSound ==
  ASSUME IInv, NEW r \in Request, End(r),
         \A i \in Invite : invites[i] # NoInvite => invites'[i] # NoInvite,
         \A q \in Request \ {r} : req[q].op = "invite" => invites'[req[q].invite] = NoInvite
  PROVE  req' \in [Request -> Requests] /\ \A q \in Request : Sound(q, req[q])'
<1>1. req' \in [Request -> Requests] /\ req'[r] = Idle
      /\ \A q \in Request \ {r} : req'[q] = req[q]
  BY DEF End, IInv, TypeOK, Requests
<1>2. ASSUME NEW q \in Request PROVE Sound(q, req[q])'
  <2>1. CASE q = r
    BY <1>1, <2>1 DEF Sound, Idle
  <2>2. CASE q # r
    <3>1. Sound(q, req[q]) /\ req[q] \in Requests
      BY DEF IInv, TypeOK
    <3>2. req[q].op \in {"revoke", "accept"} => invites'[req[q].invite] # NoInvite
      BY <3>1, RequestFields DEF Sound
    <3>3. \A p \in Request \ {q} : req'[p].op = "invite" => p # r /\ req'[p] = req[p]
      BY <1>1 DEF Idle
    <3> QED BY <1>1, <2>2, <3>1, <3>2, <3>3 DEF Sound
  <2> QED BY <2>1, <2>2
<1> QED BY <1>1, <1>2
-----------------------------------------------------------------------------
(* A member's role changes only together with an account (PutMember).      *)
LEMMA RolesTyped ==
  ASSUME TypeOK, NEW u \in User, NEW newRole \in Role, Put(u, newRole),
         account' \in [User -> BOOLEAN], account'[u],
         \A v \in User : account[v] => account'[v]
  PROVE  /\ role' \in [User -> Role \cup {"none"}] /\ joined' \in SUBSET User
         /\ \A v \in User : role'[v] # "none" => account'[v]
BY DEF TypeOK, Put

(* The founder alone is a member, and nobody has asked for anything.       *)
LEMMA IInvInit == Init => IInv
<1> SUFFICES ASSUME Init PROVE IInv
  OBVIOUS
<1>1. TypeOK
  BY MembershipAssumption DEF Init, TypeOK, Requests, Role, Slug, Base
<1>2. UsesBounded /\ \A r \in Request : Sound(r, req[r])
  BY DEF Init, UsesBounded, Sound, Idle
<1> QED BY <1>1, <1>2 DEF IInv

(* What game masters ask for (setMemberRole, removeMember, createInvite    *)
(* and revokeInvite, up to their transactions).                            *)
LEMMA GMRequestStep ==
  ASSUME IInv, NEW r \in Request, NEW actor \in User, GMRequest(r, actor)
  PROVE  IInv'
<1>1. ASSUME NEW target \in User, NEW newRole \in Role, AskSetRole(r, actor, target, newRole)
      PROVE  IInv'
  <2> DEFINE op == [op |-> "setRole", actor |-> actor, target |-> target, role |-> newRole]
  <2>1. op \in Requests /\ Sound(r, op) /\ Start(r, op)
    BY <1>1 DEF AskSetRole, Requests, Sound
  <2> HIDE DEF op
  <2> QED BY <2>1, StartStep
<1>2. ASSUME NEW target \in User, AskRemove(r, actor, target) PROVE IInv'
  <2> DEFINE op == [op |-> "remove", actor |-> actor, target |-> target]
  <2>1. op \in Requests /\ Sound(r, op) /\ Start(r, op)
    BY <1>2 DEF AskRemove, Requests, Sound
  <2> HIDE DEF op
  <2> QED BY <2>1, StartStep
<1>3. ASSUME NEW i \in Invite, NEW newRole \in Role, NEW max \in 0..MaxUses,
             AskInvite(r, actor, i, newRole, max)
      PROVE  IInv'
  <2> DEFINE op == [op |-> "invite", invite |-> i, role |-> newRole, max |-> max]
  <2>1. op \in Requests /\ Sound(r, op) /\ Start(r, op)
    BY <1>3 DEF AskInvite, Fresh, Requests, Sound
  <2> HIDE DEF op
  <2> QED BY <2>1, StartStep
<1>4. ASSUME NEW i \in Invite, AskRevoke(r, actor, i) PROVE IInv'
  <2> DEFINE op == [op |-> "revoke", invite |-> i]
  <2>1. op \in Requests /\ Sound(r, op) /\ Start(r, op)
    BY <1>4 DEF AskRevoke, Requests, Sound
  <2> HIDE DEF op
  <2> QED BY <2>1, StartStep
<1> QED BY <1>1, <1>2, <1>3, <1>4 DEF GMRequest

(* What anybody asks for (acceptInvite and createWorld, up to their        *)
(* transactions): a derived slug was free when it was derived.             *)
LEMMA OtherRequestStep ==
  ASSUME IInv, NEW r \in Request, NEW u \in User,
         \/ \E i \in Invite : AskAccept(r, u, i)
         \/ \E slug \in Slug, chosen \in BOOLEAN : AskCreate(r, u, slug, chosen)
  PROVE  IInv'
<1>1. ASSUME NEW i \in Invite, AskAccept(r, u, i) PROVE IInv'
  <2> DEFINE op == [op |-> "accept", user |-> u, new |-> ~account[u], invite |-> i]
  <2>1. op \in Requests /\ Sound(r, op) /\ Start(r, op)
    BY <1>1 DEF AskAccept, Requests, Sound
  <2> HIDE DEF op
  <2> QED BY <2>1, StartStep
<1>2. ASSUME NEW slug \in Slug, NEW chosen \in BOOLEAN, AskCreate(r, u, slug, chosen)
      PROVE  IInv'
  <2> DEFINE op == [op |-> "create", slug |-> slug, chosen |-> chosen, taken |-> slugs]
  <2>1. IsFiniteSet(slugs)
    <3>1. IsFiniteSet(Slug)
      BY MembershipAssumption, FS_Interval DEF Slug
    <3> QED BY <3>1, FS_Subset DEF IInv, TypeOK
  <2>2. ~chosen => slug \notin slugs
    BY <1>2, <2>1, NextFreeSlugIsFree DEF AskCreate, DerivedSlug
  <2>3. op \in Requests /\ Start(r, op)
    BY <1>2 DEF AskCreate, Requests, IInv, TypeOK
  <2>4. Sound(r, op)
    BY <2>2 DEF Sound
  <2> HIDE DEF op
  <2> QED BY <2>3, <2>4, StartStep
<1> QED BY <1>1, <1>2
-----------------------------------------------------------------------------
(* The transactions of setMemberRole, removeMember and createWorld, which  *)
(* leave the invites alone.                                                *)
LEMMA MemberCommitStep ==
  ASSUME IInv, NEW r \in Request, DoSetRole(r) \/ DoRemove(r) \/ DoCreate(r)
  PROVE  IInv'
<1>1. End(r) /\ UNCHANGED invites
  BY DEF DoSetRole, DoRemove, DoCreate
<1>2. \A q \in Request : req[q].op = "invite" => invites[req[q].invite] = NoInvite
  BY DEF IInv, Sound
<1>3. req' \in [Request -> Requests] /\ \A q \in Request : Sound(q, req[q])'
  BY <1>1, <1>2, OthersSound
<1>4. req[r] \in Requests
  BY DEF IInv, TypeOK
<1>5. /\ account' \in [User -> BOOLEAN] /\ role' \in [User -> Role \cup {"none"}]
      /\ \A u \in User : role'[u] # "none" => account'[u]
      /\ slugs' \subseteq Slug /\ joined' \in SUBSET User
  <2>1. CASE DoSetRole(r) /\ account[req[r].target]
    <3>1. req[r].target \in User /\ req[r].role \in Role
      BY <1>4, <2>1, RequestFields DEF DoSetRole
    <3>2. UNCHANGED <<account, slugs>> /\ Put(req[r].target, req[r].role)
      BY <2>1 DEF DoSetRole
    <3> QED BY <2>1, <3>1, <3>2, RolesTyped DEF IInv, TypeOK
  <2>2. CASE DoSetRole(r) /\ ~account[req[r].target]
    BY <2>2 DEF DoSetRole, IInv, TypeOK
  <2>3. CASE DoRemove(r)
    BY <2>3 DEF DoRemove, IInv, TypeOK
  <2>4. CASE DoCreate(r)
    <3>1. req[r].slug \in Slug
      BY <1>4, <2>4, RequestFields DEF DoCreate
    <3> QED BY <2>4, <3>1 DEF DoCreate, IInv, TypeOK
  <2> QED BY <2>1, <2>2, <2>3, <2>4
<1> QED BY <1>1, <1>3, <1>5 DEF IInv, TypeOK, UsesBounded

(* Rows of invites are kept when one of them is replaced by another row.   *)
LEMMA InvitesTyped ==
  ASSUME IInv, NEW i \in Invite, NEW row \in InviteRow, invites' = [invites EXCEPT ![i] = row],
         row.max # 0 => row.uses <= row.max
  PROVE  /\ DOMAIN invites' = Invite /\ \A j \in Invite : invites'[j] \in InviteRow \cup {NoInvite}
         /\ UsesBounded'
         /\ \A j \in Invite : invites[j] # NoInvite => invites'[j] # NoInvite
         /\ invites'[i] = row /\ \A j \in Invite \ {i} : invites'[j] = invites[j]
<1>1. DOMAIN invites' = Invite /\ invites'[i] = row
      /\ \A j \in Invite \ {i} : invites'[j] = invites[j]
  BY DEF IInv, TypeOK
<1> QED BY <1>1, RowIsThere DEF IInv, TypeOK, UsesBounded

(* createInvite's transaction.                                             *)
LEMMA InviteCommitStep ==
  ASSUME IInv, NEW r \in Request, DoInvite(r) PROVE IInv'
<1> DEFINE i == req[r].invite
           row == [role |-> req[r].role, max |-> req[r].max, uses |-> 0,
                   revoked |-> FALSE, expired |-> FALSE]
<1>1. req[r] \in Requests /\ Sound(r, req[r]) /\ req[r].op = "invite"
  BY DEF IInv, TypeOK, DoInvite
<1>2. i \in Invite /\ row \in InviteRow /\ (row.max # 0 => row.uses <= row.max)
  BY <1>1, RequestFields, MembershipAssumption DEF InviteRow
<1>3. invites' = [invites EXCEPT ![i] = row] /\ End(r) /\ UNCHANGED <<account, role, slugs, joined>>
  BY DEF DoInvite
<1>4. \A q \in Request \ {r} : req[q].op = "invite" =>
          req[q].invite \in Invite \ {i} /\ invites[req[q].invite] = NoInvite
  BY <1>1, RequestFields DEF IInv, TypeOK, Sound
<1> HIDE DEF i, row
<1>5. /\ DOMAIN invites' = Invite /\ \A j \in Invite : invites'[j] \in InviteRow \cup {NoInvite}
      /\ UsesBounded'
      /\ \A j \in Invite : invites[j] # NoInvite => invites'[j] # NoInvite
      /\ \A j \in Invite \ {i} : invites'[j] = invites[j]
  BY <1>2, <1>3, InvitesTyped
<1>6. req' \in [Request -> Requests] /\ \A q \in Request : Sound(q, req[q])'
  BY <1>3, <1>4, <1>5, OthersSound
<1> QED BY <1>3, <1>5, <1>6 DEF IInv, TypeOK

(* A row that is there is revoked, expires or is used once more; what was  *)
(* about to be created is not.                                             *)
LEMMA RowUpdate ==
  ASSUME IInv, NEW i \in Invite, invites[i] # NoInvite, NEW row \in InviteRow,
         invites' = [invites EXCEPT ![i] = row]
  PROVE  \A q \in Request : req[q].op = "invite" => invites'[req[q].invite] = NoInvite
<1>1. ASSUME NEW q \in Request, req[q].op = "invite" PROVE invites'[req[q].invite] = NoInvite
  <2>1. req[q].invite \in Invite \ {i} /\ invites[req[q].invite] = NoInvite
    BY <1>1, RequestFields DEF IInv, TypeOK, Sound
  <2> QED BY <2>1 DEF IInv, TypeOK
<1> QED BY <1>1

(* revokeInvite's transaction.                                             *)
LEMMA RevokeCommitStep ==
  ASSUME IInv, NEW r \in Request, DoRevoke(r) PROVE IInv'
<1> DEFINE i == req[r].invite
           row == [invites[i] EXCEPT !.revoked = TRUE]
<1>1. i \in Invite /\ invites[i] # NoInvite
  BY RequestFields DEF IInv, TypeOK, Sound, DoRevoke
<1>2. invites[i] \in InviteRow
  BY <1>1 DEF IInv, TypeOK
<1>3. row \in InviteRow /\ (row.max # 0 => row.uses <= row.max)
  BY <1>1, <1>2 DEF InviteRow, IInv, UsesBounded
<1>4. invites' = [invites EXCEPT ![i] = row] /\ End(r) /\ UNCHANGED <<account, role, slugs, joined>>
  BY DEF DoRevoke
<1> HIDE DEF i, row
<1>5. /\ DOMAIN invites' = Invite /\ \A j \in Invite : invites'[j] \in InviteRow \cup {NoInvite}
      /\ UsesBounded'
      /\ \A j \in Invite : invites[j] # NoInvite => invites'[j] # NoInvite
  BY <1>1, <1>3, <1>4, InvitesTyped
<1>6. req' \in [Request -> Requests] /\ \A q \in Request : Sound(q, req[q])'
  BY <1>1, <1>3, <1>4, <1>5, RowUpdate, OthersSound
<1> QED BY <1>4, <1>5, <1>6 DEF IInv, TypeOK

(* Time passes for an invite.                                              *)
LEMMA ExpireStep ==
  ASSUME IInv, NEW i \in Invite, Expire(i) PROVE IInv'
<1> DEFINE row == [invites[i] EXCEPT !.expired = TRUE]
<1>1. invites[i] \in InviteRow /\ invites[i] # NoInvite
  BY DEF IInv, TypeOK, Expire
<1>2. row \in InviteRow /\ (row.max # 0 => row.uses <= row.max)
  BY <1>1 DEF InviteRow, IInv, UsesBounded
<1>3. invites' = [invites EXCEPT ![i] = row] /\ UNCHANGED <<account, role, slugs, req, joined>>
  BY DEF Expire
<1> HIDE DEF row
<1>4. /\ DOMAIN invites' = Invite /\ \A j \in Invite : invites'[j] \in InviteRow \cup {NoInvite}
      /\ UsesBounded'
      /\ \A j \in Invite : invites[j] # NoInvite => invites'[j] # NoInvite
  BY <1>2, <1>3, InvitesTyped
<1>5. \A q \in Request : req[q].op = "invite" => invites'[req[q].invite] = NoInvite
  BY <1>1, <1>2, <1>3, RowUpdate
<1>6. ASSUME NEW q \in Request PROVE Sound(q, req[q])'
  <2>1. Sound(q, req[q]) /\ req[q] \in Requests
    BY DEF IInv, TypeOK
  <2>2. req[q].op \in {"revoke", "accept"} => invites'[req[q].invite] # NoInvite
    BY <1>4, <2>1, RequestFields DEF Sound
  <2> QED BY <1>3, <1>5, <2>1, <2>2 DEF Sound
<1> QED BY <1>3, <1>4, <1>6 DEF IInv, TypeOK

(* acceptInvite's transaction: ConsumeInvite finds a use left, or all of   *)
(* it is rolled back.                                                      *)
LEMMA AcceptCommitStep ==
  ASSUME IInv, NEW r \in Request, DoAccept(r) PROVE IInv'
<1> DEFINE i == req[r].invite
           u == req[r].user
           row == [invites[i] EXCEPT !.uses = @ + 1]
<1>1. i \in Invite /\ invites[i] # NoInvite /\ u \in User
  BY RequestFields DEF IInv, TypeOK, Sound, DoAccept
<1>2. invites[i] \in InviteRow /\ End(r) /\ UNCHANGED slugs
  BY <1>1 DEF IInv, TypeOK, DoAccept
<1>3. CASE ~(Consumable(i) /\ ~(req[r].new /\ account[u]))
  <2>1. UNCHANGED <<account, role, joined, invites, slugs>>
    BY <1>3 DEF DoAccept
  <2>2. \A q \in Request : req[q].op = "invite" => invites[req[q].invite] = NoInvite
    BY DEF IInv, Sound
  <2>3. req' \in [Request -> Requests] /\ \A q \in Request : Sound(q, req[q])'
    BY <1>2, <2>1, <2>2, OthersSound
  <2> QED BY <2>1, <2>3 DEF IInv, TypeOK, UsesBounded
<1>4. CASE Consumable(i) /\ ~(req[r].new /\ account[u])
  <2>1. /\ account' = [account EXCEPT ![u] = TRUE] /\ Put(u, invites[i].role)
        /\ invites' = [invites EXCEPT ![i] = row]
    BY <1>4 DEF DoAccept
  <2>2. row \in InviteRow /\ (row.max # 0 => row.uses <= row.max)
    BY <1>2, <1>4, MembershipAssumption DEF InviteRow, Consumable, HasUses
  <2>3. /\ account' \in [User -> BOOLEAN] /\ account'[u]
        /\ \A v \in User : account[v] => account'[v]
    BY <1>1, <2>1 DEF IInv, TypeOK
  <2>4. invites[i].role \in Role
    BY <1>2 DEF InviteRow
  <2> HIDE DEF i, u, row
  <2>5. /\ role' \in [User -> Role \cup {"none"}] /\ joined' \in SUBSET User
        /\ \A v \in User : role'[v] # "none" => account'[v]
    BY <1>1, <2>1, <2>3, <2>4, RolesTyped DEF IInv
  <2>6. /\ DOMAIN invites' = Invite /\ \A j \in Invite : invites'[j] \in InviteRow \cup {NoInvite}
        /\ UsesBounded'
        /\ \A j \in Invite : invites[j] # NoInvite => invites'[j] # NoInvite
    BY <1>1, <2>1, <2>2, InvitesTyped
  <2>7. req' \in [Request -> Requests] /\ \A q \in Request : Sound(q, req[q])'
    BY <1>1, <1>2, <2>1, <2>2, <2>6, RowUpdate, OthersSound
  <2> QED BY <1>2, <2>3, <2>5, <2>6, <2>7 DEF IInv, TypeOK
<1> QED BY <1>3, <1>4

(* Every step keeps the invariant.                                         *)
LEMMA IInvStep == IInv /\ [Next]_vars => IInv'
<1> SUFFICES ASSUME IInv, [Next]_vars PROVE IInv'
  OBVIOUS
<1>1. CASE \E r \in Request, actor \in User : GMRequest(r, actor)
  BY <1>1, GMRequestStep
<1>2. CASE \/ \E r \in Request, u \in User, i \in Invite : AskAccept(r, u, i)
           \/ \E r \in Request, u \in User, slug \in Slug, chosen \in BOOLEAN :
                 AskCreate(r, u, slug, chosen)
  BY <1>2, OtherRequestStep
<1>3. CASE \E r \in Request : Commit(r)
  BY <1>3, MemberCommitStep, InviteCommitStep, RevokeCommitStep, AcceptCommitStep DEF Commit
<1>4. CASE \E i \in Invite : Expire(i)
  BY <1>4, ExpireStep
<1>5. CASE UNCHANGED vars
  BY <1>5 DEF vars, IInv, TypeOK, UsesBounded, Sound
<1> QED BY <1>1, <1>2, <1>3, <1>4, <1>5 DEF Next

(* The invariant holds in every state.                                     *)
LEMMA MembershipIInv == Spec => []IInv
BY IInvInit, IInvStep, PTL DEF Spec

(* Requests and rows are well-formed, and only users with an account are   *)
(* members (PutMember after GetUser, acceptInvite).                        *)
THEOREM MembershipTypeOK == Spec => []TypeOK
<1>1. IInv => TypeOK
  BY DEF IInv
<1> QED BY <1>1, MembershipIInv, PTL

(* However many people accept an invite at the same time, no more get in   *)
(* than it allows (acceptInvite and ConsumeInvite).                        *)
THEOREM MembershipUsesBounded == Spec => []UsesBounded
<1>1. IInv => UsesBounded
  BY DEF IInv
<1> QED BY <1>1, MembershipIInv, PTL
-----------------------------------------------------------------------------
(* Until its transaction, a request changes nothing but itself.            *)
LEMMA AskingOnlyAsks ==
  ASSUME IInv, [Next]_vars
  PROVE  \/ \E r \in Request : Commit(r)
         \/ \E i \in Invite : Expire(i)
         \/ /\ UNCHANGED <<account, role, invites, slugs, joined>>
            /\ \A q \in Request : req[q] # Idle => req'[q] = req[q]
<1>1. ASSUME NEW r \in Request, NEW op, Start(r, op)
      PROVE  /\ UNCHANGED <<account, role, invites, slugs, joined>>
             /\ \A q \in Request : req[q] # Idle => req'[q] = req[q]
  BY <1>1 DEF Start, IInv, TypeOK
<1>2. CASE \E r \in Request, actor \in User : GMRequest(r, actor)
  <2>1. PICK r \in Request, actor \in User : GMRequest(r, actor)
    BY <1>2
  <2>2. \E op : Start(r, op)
    BY <2>1 DEF GMRequest, AskSetRole, AskRemove, AskInvite, AskRevoke
  <2> QED BY <1>1, <2>2
<1>3. CASE \/ \E r \in Request, u \in User, i \in Invite : AskAccept(r, u, i)
           \/ \E r \in Request, u \in User, slug \in Slug, chosen \in BOOLEAN :
                 AskCreate(r, u, slug, chosen)
  <2>1. \E r \in Request : \E op : Start(r, op)
    BY <1>3 DEF AskAccept, AskCreate
  <2> QED BY <1>1, <2>1
<1>4. CASE UNCHANGED vars
  BY <1>4 DEF vars
<1> QED BY <1>2, <1>3, <1>4 DEF Next

(* Nobody joins through a revoked invite, and no invite is ever restored,  *)
(* whatever was read before it was revoked (ConsumeInvite).                *)
THEOREM MembershipRevokedIsFinal == Spec => RevokedIsFinal
<1> DEFINE Final(i) == invites[i] # NoInvite /\ invites[i].revoked
                          => invites'[i].revoked /\ invites'[i].uses = invites[i].uses
<1>1. ASSUME IInv, [Next]_vars, NEW i \in Invite PROVE Final(i)
  <2> SUFFICES ASSUME invites[i] # NoInvite, invites[i].revoked
               PROVE  invites'[i].revoked /\ invites'[i].uses = invites[i].uses
    OBVIOUS
  <2>1. invites[i] \in InviteRow /\ DOMAIN invites = Invite
    BY <1>1 DEF IInv, TypeOK
  <2>2. ASSUME NEW r \in Request, DoInvite(r)
        PROVE  invites'[i] = invites[i]
    <3>1. req[r].invite # i
      BY <1>1, <2>2 DEF IInv, Sound, DoInvite
    <3> QED BY <2>1, <2>2, <3>1 DEF DoInvite
  <2>3. ASSUME NEW r \in Request, DoRevoke(r)
        PROVE  invites'[i].revoked /\ invites'[i].uses = invites[i].uses
    BY <2>1, <2>3 DEF DoRevoke, InviteRow
  <2>4. ASSUME NEW r \in Request, DoAccept(r) PROVE invites'[i] = invites[i]
    BY <2>1, <2>4 DEF DoAccept, Consumable
  <2>5. ASSUME NEW r \in Request, DoSetRole(r) \/ DoRemove(r) \/ DoCreate(r)
        PROVE  invites'[i] = invites[i]
    BY <2>5 DEF DoSetRole, DoRemove, DoCreate
  <2>6. ASSUME NEW j \in Invite, Expire(j)
        PROVE  invites'[i].revoked /\ invites'[i].uses = invites[i].uses
    BY <2>1, <2>6 DEF Expire, InviteRow
  <2> QED BY <1>1, <2>2, <2>3, <2>4, <2>5, <2>6, AskingOnlyAsks DEF Commit
<1>2. IInv /\ [Next]_vars => [\A i \in Invite : Final(i)]_vars
  BY <1>1
<1> QED BY <1>2, MembershipIInv, PTL DEF Spec, RevokedIsFinal

(* An account an accept creates is the account of somebody who joined: an  *)
(* accept that is rolled back leaves none (acceptInvite's transaction).    *)
THEOREM MembershipNoOrphanAccount == Spec => NoOrphanAccount
<1>1. ASSUME IInv, [Next]_vars, NEW u \in User, ~account[u], account'[u] PROVE u \in joined'
  <2>1. ASSUME NEW r \in Request, DoAccept(r) PROVE u \in joined'
    BY <1>1, <2>1 DEF DoAccept, Put, IInv, TypeOK
  <2>2. ASSUME NEW r \in Request, DoInvite(r) \/ DoRevoke(r) \/ DoSetRole(r) \/ DoRemove(r)
               \/ DoCreate(r)
        PROVE  UNCHANGED account
    BY <2>2 DEF DoInvite, DoRevoke, DoSetRole, DoRemove, DoCreate
  <2>3. ASSUME NEW i \in Invite, Expire(i) PROVE UNCHANGED account
    BY <2>3 DEF Expire
  <2> QED BY <1>1, <2>1, <2>2, <2>3, AskingOnlyAsks DEF Commit
<1>2. IInv /\ [Next]_vars => [\A u \in User : ~account[u] /\ account'[u] => u \in joined']_vars
  BY <1>1
<1> QED BY <1>2, MembershipIInv, PTL DEF Spec, NoOrphanAccount

(* A step that ends a request is the transaction of that request.          *)
LEMMA OwnCommit ==
  ASSUME IInv, [Next]_vars, NEW r \in Request, req[r] # Idle, req'[r] = Idle
  PROVE  Commit(r)
<1>1. ASSUME NEW q \in Request, Commit(q) PROVE q = r
  <2>1. End(q)
    BY <1>1 DEF Commit, DoSetRole, DoRemove, DoInvite, DoRevoke, DoAccept, DoCreate
  <2> QED BY <2>1 DEF End, IInv, TypeOK
<1>2. ASSUME NEW i \in Invite, Expire(i) PROVE FALSE
  BY <1>2 DEF Expire
<1> QED BY <1>1, <1>2, AskingOnlyAsks

(* A derived slug is refused only if another world took it after the       *)
(* handler read the slugs in use (createWorld and nextFreeSlug), however   *)
(* many worlds have the title.                                             *)
THEOREM MembershipDerivedRefusedByRace == Spec => DerivedRefusedByRace
<1> DEFINE Refused(r) == req[r].op = "create" /\ ~req[r].chosen /\ req'[r] = Idle /\ slugs' = slugs
<1>1. ASSUME IInv, [Next]_vars, NEW r \in Request, Refused(r)
      PROVE  req[r].slug \in slugs \ req[r].taken
  <2>1. req[r] # Idle
    BY <1>1 DEF Idle
  <2>2. DoCreate(r)
    BY <1>1, <2>1, OwnCommit DEF Commit, DoSetRole, DoRemove, DoInvite, DoRevoke, DoAccept
  <2>3. req[r].slug \notin req[r].taken
    BY <1>1 DEF IInv, Sound
  <2> QED BY <1>1, <2>2, <2>3 DEF DoCreate
<1>2. IInv /\ [Next]_vars => [\A r \in Request : Refused(r) => req[r].slug \in slugs \ req[r].taken]_vars
  BY <1>1
<1> QED BY <1>2, MembershipIInv, PTL DEF Spec, DerivedRefusedByRace

(* A world loses its last game master only by the request of somebody who  *)
(* has lost the role meanwhile, or by a game master accepting an invite    *)
(* to another role (setMemberRole, removeMember, acceptInvite).            *)
THEOREM MembershipGMLostByOverlap == Spec => GMLostByOverlap
<1> DEFINE Overlap(r) ==
      /\ req'[r] = Idle
      /\ \/ req[r].op \in {"setRole", "remove"} /\ ~IsGM(req[r].actor)
         \/ req[r].op = "accept" /\ IsGM(req[r].user)
<1>1. ASSUME IInv, [Next]_vars, HasGM, ~HasGM' PROVE \E r \in Request : Overlap(r)
  <2>1. PICK g \in User : role[g] = "gm" /\ role'[g] # "gm"
    BY <1>1 DEF HasGM, IsGM
  <2>2. \A u \in User : role'[u] # "gm"
    BY <1>1 DEF HasGM, IsGM
  <2>3. PICK r \in Request : Commit(r)
    <3>1. ASSUME NEW i \in Invite, Expire(i) PROVE UNCHANGED role
      BY <3>1 DEF Expire
    <3> QED BY <1>1, <2>1, <3>1, AskingOnlyAsks
  <2>4. req[r] \in Requests /\ Sound(r, req[r]) /\ role \in [User -> Role \cup {"none"}]
    BY <1>1 DEF IInv, TypeOK
  <2>5. req'[r] = Idle
    BY <1>1, <2>3 DEF Commit, DoSetRole, DoRemove, DoInvite, DoRevoke, DoAccept, DoCreate, End,
                      IInv, TypeOK
  <2>6. CASE DoSetRole(r)
    <3>1. /\ req[r].op = "setRole" /\ req[r].actor \in User /\ req[r].target \in User
          /\ req[r].target # req[r].actor \/ req[r].role = "gm"
      BY <2>4, <2>6, RequestFields DEF DoSetRole, Sound
    <3>2. role' = [role EXCEPT ![req[r].target] = req[r].role]
      BY <2>1, <2>6 DEF DoSetRole, Put
    <3>3. ~IsGM(req[r].actor)
      BY <2>2, <2>4, <3>1, <3>2 DEF IsGM
    <3> QED BY <2>5, <3>1, <3>3
  <2>7. CASE DoRemove(r)
    <3>1. /\ req[r].op = "remove" /\ req[r].actor \in User /\ req[r].target \in User
          /\ req[r].target # req[r].actor
      BY <2>4, <2>7, RequestFields DEF DoRemove, Sound
    <3>2. role' = [role EXCEPT ![req[r].target] = "none"]
      BY <2>7 DEF DoRemove
    <3>3. ~IsGM(req[r].actor)
      BY <2>2, <2>4, <3>1, <3>2 DEF IsGM
    <3> QED BY <2>5, <3>1, <3>3
  <2>8. CASE DoAccept(r)
    <3>1. req[r].op = "accept" /\ req[r].user \in User
      BY <2>4, <2>8, RequestFields DEF DoAccept
    <3>2. g = req[r].user
      BY <2>1, <2>4, <2>8, <3>1 DEF DoAccept, Put
    <3> QED BY <2>1, <2>5, <3>1, <3>2 DEF IsGM
  <2>9. CASE DoInvite(r) \/ DoRevoke(r) \/ DoCreate(r)
    BY <2>1, <2>9 DEF DoInvite, DoRevoke, DoCreate
  <2> QED BY <2>3, <2>6, <2>7, <2>8, <2>9 DEF Commit
<1>2. IInv /\ [Next]_vars => [HasGM /\ ~HasGM' => \E r \in Request : Overlap(r)]_vars
  BY <1>1
<1> QED BY <1>2, MembershipIInv, PTL DEF Spec, GMLostByOverlap
-----------------------------------------------------------------------------
(* Uploads (Assets).                                                       *)

(* What an upload has written when it has come to a step.                  *)
Written(r) ==
    /\ upload[r].pc \in {"thumbnail", "row"} => <<upload[r].content, "image">> \in blobs
    /\ upload[r].pc = "row" => <<upload[r].content, "thumbnail">> \in blobs

(* The inductive invariant: the order of storeAsset, and the unique index. *)
AssetsIInv == AssetsTypeOK /\ RowHasBlobs /\ StoredOnce /\ \A r \in Uploader : Written(r)

(* Nothing is stored before the first upload (storeAsset has not run).     *)
LEMMA AssetsIInvInit == AssetsInit => AssetsIInv
BY SMTT(30)
   DEF AssetsInit, AssetsIInv, AssetsTypeOK, RowHasBlobs, StoredOnce, Written, NoUpload, Step

(* Every step of storeAsset, a failure and a crash keep the invariant.     *)
LEMMA AssetsIInvStep == AssetsIInv /\ [AssetsNext]_assetsVars => AssetsIInv'
<1> SUFFICES ASSUME AssetsIInv, [AssetsNext]_assetsVars PROVE AssetsIInv'
  OBVIOUS
<1> USE DEF AssetsIInv, AssetsTypeOK, RowHasBlobs, StoredOnce, Written, NoUpload, Step, At,
            Goto, Return
<1>1. ASSUME NEW r \in Uploader, NEW w \in World, NEW c \in Content, Upload(r, w, c) PROVE AssetsIInv'
  BY <1>1, SMTT(30) DEF Upload
<1>2. ASSUME NEW r \in Uploader, LookUp(r) PROVE AssetsIInv'
  <2>1. CASE rows[upload[r].world][upload[r].content] > 0
    BY <1>2, <2>1 DEF LookUp
  <2>2. CASE ~(rows[upload[r].world][upload[r].content] > 0)
    <3>1. upload' = [upload EXCEPT ![r].pc = "quota"] /\ UNCHANGED <<blobs, rows>>
      BY <1>2, <2>2 DEF LookUp
    <3>2. upload[r] \in [pc : Step, world : World, content : Content]
      BY <1>2 DEF LookUp
    <3>3. upload' \in [Uploader -> {NoUpload} \cup [pc : Step, world : World, content : Content]]
      BY <3>1, <3>2
    <3>4. \A q \in Uploader : Written(q)'
      BY <3>1, <3>2
    <3>5. QED
      BY <3>1, <3>3, <3>4
  <2>3. QED
    BY <2>1, <2>2
<1>3. ASSUME NEW r \in Uploader, CheckQuota(r) PROVE AssetsIInv'
  <2>1. CASE ~WithinQuota(upload[r].world)
    <3>1. upload' = [upload EXCEPT ![r] = NoUpload] /\ UNCHANGED <<blobs, rows>>
      BY <1>3, <2>1 DEF CheckQuota
    <3>2. QED
      BY <3>1, SMTT(30)
  <2>2. CASE WithinQuota(upload[r].world)
    <3>1. upload' = [upload EXCEPT ![r].pc = "image"] /\ UNCHANGED <<blobs, rows>>
      BY <1>3, <2>2 DEF CheckQuota
    <3>2. upload[r] \in [pc : Step, world : World, content : Content]
      BY <1>3 DEF CheckQuota
    <3>3. upload' \in [Uploader -> {NoUpload} \cup [pc : Step, world : World, content : Content]]
      BY <3>1, <3>2
    <3>4. \A q \in Uploader : Written(q)'
      BY <3>1, <3>2
    <3>5. QED
      BY <3>1, <3>3, <3>4
  <2>3. QED
    BY <2>1, <2>2
<1>4. ASSUME NEW r \in Uploader, PutImage(r) PROVE AssetsIInv'
  BY <1>4, SMTT(30) DEF PutImage
<1>5. ASSUME NEW r \in Uploader, PutThumbnail(r) PROVE AssetsIInv'
  BY <1>5, SMTT(30) DEF PutThumbnail
<1>6. ASSUME NEW r \in Uploader, PutAsset(r) PROVE AssetsIInv'
  BY <1>6, SMTT(30) DEF PutAsset
<1>7. ASSUME NEW r \in Uploader, Fail(r) PROVE AssetsIInv'
  BY <1>7, SMTT(30) DEF Fail
<1>8. CASE Crash
  BY <1>8, SMTT(30) DEF Crash
<1>9. CASE UNCHANGED assetsVars
  BY <1>9 DEF assetsVars
<1>10. QED
  BY <1>1, <1>2, <1>3, <1>4, <1>5, <1>6, <1>7, <1>8, <1>9, Zenon DEF AssetsNext

(* Every asset the database lists has its files, whatever failed or        *)
(* crashed on the way (storeAsset writes the blobs before the row).        *)
THEOREM AssetsRowHasBlobs == AssetsSpec => []RowHasBlobs
<1>1. AssetsIInv => RowHasBlobs
  BY DEF AssetsIInv
<1>2. QED
  BY AssetsIInvInit, AssetsIInvStep, <1>1, PTL DEF AssetsSpec

(* A world never has two assets with the same content (PutAsset and the    *)
(* unique index).                                                          *)
THEOREM AssetsStoredOnce == AssetsSpec => []StoredOnce
<1>1. AssetsIInv => StoredOnce
  BY DEF AssetsIInv
<1>2. QED
  BY AssetsIInvInit, AssetsIInvStep, <1>1, PTL DEF AssetsSpec

(* Files, rows and uploads are well-formed (storeAsset).                   *)
THEOREM AssetsTyped == AssetsSpec => []AssetsTypeOK
<1>1. AssetsIInv => AssetsTypeOK
  BY DEF AssetsIInv
<1> QED BY AssetsIInvInit, AssetsIInvStep, <1>1, PTL DEF AssetsSpec
-----------------------------------------------------------------------------
(* The contents a world has, and the uploads it has admitted.              *)
Stored(w) == {c \in Content : rows[w][c] > 0}
Admitted(w) == {r \in Uploader : upload[r].pc \in {"image", "thumbnail", "row"} /\ upload[r].world = w}

(* What is stored and what is admitted never take more together than the   *)
(* quota and one image for every upload but one: when an upload is         *)
(* admitted, what is stored leaves room for its own image.                 *)
Promised ==
    WorldQuota > 0 => \A w \in World :
        ImageBytes * (Cardinality(Stored(w)) + Cardinality(Admitted(w)))
            <= WorldQuota + ImageBytes * (Cardinality(Uploader) - 1)

(* Multiplication by a natural number keeps the order.                     *)
LEMMA TimesMonotone ==
  ASSUME NEW a \in Nat, NEW k \in Int, NEW n \in Int, k <= n
  PROVE  a * k <= a * n
<1>1. a * n - a * k = a * (n - k)
  OBVIOUS
<1>2. a * (n - k) >= 0
  OBVIOUS
<1> QED BY <1>1, <1>2

(* Both sets are finite.                                                   *)
LEMMA Counts ==
  ASSUME NEW w \in World
  PROVE  /\ IsFiniteSet(Stored(w)) /\ Cardinality(Stored(w)) \in Nat
         /\ IsFiniteSet(Admitted(w)) /\ Cardinality(Admitted(w)) \in Nat
         /\ Cardinality(Admitted(w)) <= Cardinality(Uploader)
         /\ Cardinality(Uploader) \in Nat /\ Cardinality(Uploader) >= 1
<1>1. IsFiniteSet(Stored(w)) /\ IsFiniteSet(Admitted(w))
      /\ Cardinality(Admitted(w)) <= Cardinality(Uploader)
  BY AssetsAssumption, FS_Subset DEF Stored, Admitted
<1>2. Cardinality(Uploader) \in Nat /\ Cardinality(Uploader) # 0
  BY AssetsAssumption, FS_CardinalityType, FS_EmptySet
<1> QED BY <1>1, <1>2, FS_CardinalityType

(* Only the quota check admits an upload, and only PutAsset adds a row.    *)
LEMMA OthersAdmitNobody ==
  ASSUME AssetsIInv, [AssetsNext]_assetsVars, NEW w \in World
  PROVE  \/ Stored(w)' = Stored(w) /\ Admitted(w)' \subseteq Admitted(w)
         \/ \E r \in Uploader : CheckQuota(r) /\ WithinQuota(w) /\ upload[r].world = w /\ UNCHANGED rows
         \/ \E r \in Uploader : PutAsset(r) /\ upload[r].world = w
<1>1. upload \in [Uploader -> {NoUpload} \cup [pc : Step, world : World, content : Content]]
      /\ rows \in [World -> [Content -> Nat]]
  BY DEF AssetsIInv, AssetsTypeOK
<1> USE <1>1 DEF At, Goto, Return, NoUpload, Step
<1>2. ASSUME NEW r \in Uploader, NEW v \in World, NEW c \in Content, Upload(r, v, c)
      PROVE  Stored(w)' = Stored(w) /\ Admitted(w)' \subseteq Admitted(w)
  BY <1>2 DEF Upload, Stored, Admitted
<1>3. ASSUME NEW r \in Uploader, LookUp(r)
      PROVE  Stored(w)' = Stored(w) /\ Admitted(w)' \subseteq Admitted(w)
  BY <1>3 DEF LookUp, Stored, Admitted
<1>4. ASSUME NEW r \in Uploader, CheckQuota(r), ~(WithinQuota(w) /\ upload[r].world = w)
      PROVE  Stored(w)' = Stored(w) /\ Admitted(w)' \subseteq Admitted(w)
  BY <1>4 DEF CheckQuota, Stored, Admitted
<1>5. ASSUME NEW r \in Uploader, PutImage(r) \/ PutThumbnail(r) \/ Fail(r)
      PROVE  Stored(w)' = Stored(w) /\ Admitted(w)' \subseteq Admitted(w)
  BY <1>5 DEF PutImage, PutThumbnail, Fail, Stored, Admitted
<1>6. ASSUME NEW r \in Uploader, PutAsset(r), upload[r].world # w
      PROVE  Stored(w)' = Stored(w) /\ Admitted(w)' \subseteq Admitted(w)
  <2>1. rows'[w] = rows[w]
    BY <1>6, SMTT(30) DEF PutAsset
  <2> QED BY <1>6, <2>1 DEF PutAsset, Stored, Admitted
<1>7. CASE Crash
  BY <1>7 DEF Crash, Stored, Admitted
<1>8. CASE UNCHANGED assetsVars
  BY <1>8 DEF assetsVars, Stored, Admitted
<1>9. ASSUME NEW r \in Uploader, CheckQuota(r) PROVE UNCHANGED rows
  BY <1>9 DEF CheckQuota
<1> QED BY <1>2, <1>3, <1>4, <1>5, <1>6, <1>7, <1>8, <1>9, Zenon DEF AssetsNext

(* A row takes the place of the upload that inserts it.                    *)
LEMMA RowForUpload ==
  ASSUME AssetsIInv, NEW w \in World, NEW r \in Uploader, PutAsset(r), upload[r].world = w
  PROVE  Cardinality(Stored(w)') + Cardinality(Admitted(w)')
            <= Cardinality(Stored(w)) + Cardinality(Admitted(w))
<1>1. upload \in [Uploader -> {NoUpload} \cup [pc : Step, world : World, content : Content]]
      /\ rows \in [World -> [Content -> Nat]] /\ upload[r].pc = "row"
  BY DEF AssetsIInv, AssetsTypeOK, PutAsset, At
<1>2. upload[r].content \in Content /\ r \in Admitted(w)
  BY <1>1 DEF NoUpload, Admitted
<1>3. Admitted(w)' = Admitted(w) \ {r}
  BY <1>1 DEF PutAsset, Return, Admitted, NoUpload
<1>4. Cardinality(Admitted(w)') = Cardinality(Admitted(w)) - 1
  BY <1>2, <1>3, Counts, FS_RemoveElement, Zenon
<1>5. Stored(w)' \subseteq Stored(w) \cup {upload[r].content}
  <2>1. \A c \in Content : c # upload[r].content => rows'[w][c] = rows[w][c]
    BY <1>1, <1>2 DEF PutAsset
  <2> QED BY <2>1 DEF Stored
<1>6. Cardinality(Stored(w)') <= Cardinality(Stored(w)) + 1
  <2> DEFINE S == Stored(w)
             x == upload[r].content
  <2>1. IsFiniteSet(S) /\ Cardinality(S) \in Nat
    BY Counts
  <2> HIDE DEF S, x
  <2>2. IsFiniteSet(S \cup {x})
        /\ Cardinality(S \cup {x}) = IF x \in S THEN Cardinality(S) ELSE Cardinality(S) + 1
    BY <2>1, FS_AddElement
  <2>3. Cardinality(S \cup {x}) <= Cardinality(S) + 1 /\ Cardinality(S \cup {x}) \in Nat
    BY <2>1, <2>2
  <2>4. Stored(w)' \subseteq S \cup {x}
    BY <1>5 DEF S, x
  <2>5. Cardinality(Stored(w)') <= Cardinality(S \cup {x}) /\ IsFiniteSet(Stored(w)')
    BY <2>2, <2>4, FS_Subset
  <2>6. Cardinality(Stored(w)') \in Nat
    BY <2>5, FS_CardinalityType
  <2>7. Cardinality(Stored(w)') <= Cardinality(S) + 1
    BY <2>1, <2>3, <2>5, <2>6
  <2> QED BY <2>7 DEF S
<1>7. Cardinality(Stored(w)') \in Nat
  <2>1. IsFiniteSet(Stored(w)')
    BY AssetsAssumption, FS_Subset DEF Stored
  <2> QED BY <2>1, FS_CardinalityType
<1> QED BY <1>4, <1>6, <1>7, Counts

(* The promise is kept by every step of storeAsset.                        *)
LEMMA PromisedStep == AssetsIInv /\ Promised /\ [AssetsNext]_assetsVars => Promised'
<1> SUFFICES ASSUME AssetsIInv, Promised, [AssetsNext]_assetsVars, WorldQuota > 0, NEW w \in World
             PROVE  ImageBytes * (Cardinality(Stored(w)') + Cardinality(Admitted(w)'))
                       <= WorldQuota + ImageBytes * (Cardinality(Uploader) - 1)
  BY DEF Promised
<1> DEFINE k == Cardinality(Stored(w))
           a == Cardinality(Admitted(w))
           k2 == Cardinality(Stored(w)')
           a2 == Cardinality(Admitted(w)')
           n == Cardinality(Uploader)
<1>1. k \in Nat /\ a \in Nat /\ n \in Nat /\ n >= 1
  BY Counts
<1>2. k2 \in Nat /\ a2 \in Nat /\ a2 <= n
  <2>1. IsFiniteSet(Stored(w)') /\ IsFiniteSet(Admitted(w)') /\ a2 <= n
    BY AssetsAssumption, FS_Subset DEF Stored, Admitted
  <2> QED BY <2>1, FS_CardinalityType
<1>3. ImageBytes \in Nat /\ ThumbBytes \in Nat /\ WorldQuota \in Nat
  BY AssetsAssumption
<1>4. ImageBytes * (k + a) <= WorldQuota + ImageBytes * (n - 1)
  BY DEF Promised
<1>5. ASSUME k2 + a2 <= k + a PROVE ImageBytes * (k2 + a2) <= WorldQuota + ImageBytes * (n - 1)
  <2> HIDE DEF k, a, k2, a2, n
  <2>1. ImageBytes * (k2 + a2) <= ImageBytes * (k + a)
    BY <1>1, <1>2, <1>3, <1>5, TimesMonotone
  <2>2. /\ ImageBytes * (k2 + a2) \in Int /\ ImageBytes * (k + a) \in Int
        /\ ImageBytes * (n - 1) \in Int
    BY <1>1, <1>2, <1>3
  <2> QED BY <1>3, <1>4, <2>1, <2>2
<1>6. CASE Stored(w)' = Stored(w) /\ Admitted(w)' \subseteq Admitted(w)
  <2>1. a2 <= a
    BY <1>6, Counts, FS_Subset
  <2>2. k2 = k
    BY <1>6
  <2> QED BY <1>1, <1>2, <1>5, <2>1, <2>2
<1>7. ASSUME NEW r \in Uploader, CheckQuota(r), WithinQuota(w), upload[r].world = w, UNCHANGED rows
      PROVE  ImageBytes * (k2 + a2) <= WorldQuota + ImageBytes * (n - 1)
  <2>1. k2 = k
    BY <1>7 DEF Stored
  <2>2. ImageBytes * k + ImageBytes + ThumbBytes <= WorldQuota
    BY <1>7, <1>3 DEF WithinQuota, SumAssetBytes, Stored
  <2> HIDE DEF k, a, k2, a2, n
  <2>3. ImageBytes * a2 <= ImageBytes * n
    BY <1>1, <1>2, <1>3, TimesMonotone
  <2>4. /\ ImageBytes * (k2 + a2) = ImageBytes * k + ImageBytes * a2
        /\ ImageBytes * (n - 1) = ImageBytes * n - ImageBytes
    BY <1>1, <1>2, <1>3, <2>1
  <2>5. ImageBytes * k \in Int /\ ImageBytes * a2 \in Int /\ ImageBytes * n \in Int
    BY <1>1, <1>2, <1>3
  <2> QED BY <1>3, <2>2, <2>3, <2>4, <2>5
<1>8. CASE \E r \in Uploader : PutAsset(r) /\ upload[r].world = w
  <2>1. k2 + a2 <= k + a
    BY <1>8, RowForUpload
  <2> QED BY <1>5, <2>1
<1> QED BY <1>6, <1>7, <1>8, OthersAdmitNobody

(* However many uploads overlap, a world exceeds its quota by no more than *)
(* one image for each upload but one (withinQuota before PutAsset), for    *)
(* every quota, image size and number of uploads.                          *)
THEOREM AssetsOvershootBounded == AssetsSpec => []OvershootBounded
<1>1. AssetsInit => Promised
  <2> SUFFICES ASSUME AssetsInit, WorldQuota > 0, NEW w \in World
               PROVE  ImageBytes * (Cardinality(Stored(w)) + Cardinality(Admitted(w)))
                         <= WorldQuota + ImageBytes * (Cardinality(Uploader) - 1)
    BY DEF Promised
  <2>1. Stored(w) = {} /\ Admitted(w) = {}
    BY DEF AssetsInit, Stored, Admitted, NoUpload
  <2>2. Cardinality(Stored(w)) = 0 /\ Cardinality(Admitted(w)) = 0
    BY <2>1, FS_EmptySet
  <2>3. ImageBytes * (Cardinality(Uploader) - 1) >= 0 /\ ImageBytes * (0 + 0) = 0
    BY AssetsAssumption, Counts
  <2> QED BY <2>2, <2>3, AssetsAssumption, Counts
<1>2. Promised => OvershootBounded
  <2> SUFFICES ASSUME Promised, WorldQuota > 0, NEW w \in World
               PROVE  ImageBytes * Cardinality(Stored(w))
                         <= WorldQuota + ImageBytes * (Cardinality(Uploader) - 1)
    BY DEF OvershootBounded, SumAssetBytes, Stored
  <2> DEFINE k == Cardinality(Stored(w))
             a == Cardinality(Admitted(w))
             n == Cardinality(Uploader)
  <2>1. k \in Nat /\ a \in Nat /\ n \in Nat
    BY Counts
  <2>2. ImageBytes * (k + a) <= WorldQuota + ImageBytes * (n - 1)
    BY DEF Promised
  <2> HIDE DEF k, a, n
  <2>3. ImageBytes * k <= ImageBytes * (k + a)
    BY <2>1, AssetsAssumption, TimesMonotone
  <2>4. ImageBytes * k \in Int /\ ImageBytes * (k + a) \in Int /\ ImageBytes * (n - 1) \in Int
    BY <2>1, AssetsAssumption
  <2>5. ImageBytes * k <= WorldQuota + ImageBytes * (n - 1)
    BY <2>2, <2>3, <2>4, AssetsAssumption
  <2> QED BY <2>5 DEF k, n
<1> QED BY AssetsIInvInit, AssetsIInvStep, PromisedStep, <1>1, <1>2, PTL DEF AssetsSpec
=============================================================================
