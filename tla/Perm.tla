-------------------------------- MODULE Perm --------------------------------
(***************************************************************************)
(* What a member of a world may do with a document                         *)
(* (internal/core/perm/perm.go).  A level is its number in the source, an  *)
(* access control list a function from users and the key "default" to      *)
(* levels, with a key left out where the list has no entry.                *)
(***************************************************************************)
EXTENDS Naturals

Roles == {"gm", "assistant", "player", "observer"}
LevelNone == 0
LevelLimited == 1
LevelObserver == 2
LevelOwner == 3
Levels == LevelNone..LevelOwner
DefaultKey == "default"

IsStaff(role) == role \in {"gm", "assistant"}

Has(acl, key) == key \in DOMAIN acl

(* The first entry that applies, from the document's to the world's.       *)
Applicable(user, document, folder, world) ==
    IF Has(document, user) THEN document[user]
    ELSE IF Has(document, DefaultKey) THEN document[DefaultKey]
    ELSE IF Has(folder, user) THEN folder[user]
    ELSE IF Has(folder, DefaultKey) THEN folder[DefaultKey]
    ELSE world

(* Effective: the level of the grant.                                      *)
Effective(user, role, document, folder, world) ==
    LET level == Applicable(user, document, folder, world)
    IN IF IsStaff(role) THEN LevelOwner
       ELSE IF role = "observer" /\ level > LevelObserver THEN LevelObserver
       ELSE level

CanRead(level) == level > LevelNone
CanEdit(role, level) == role # "observer" /\ level >= LevelOwner

(* The level each visibility of a field requires.                          *)
Visibilities == {"public", "observer", "owner", "gm"}
Required(visibility) ==
    CASE visibility = "observer" -> LevelObserver
      [] visibility \in {"owner", "gm"} -> LevelOwner
      [] OTHER -> LevelLimited

Allows(role, level, visibility) ==
    \/ IsStaff(role)
    \/ visibility # "gm" /\ level >= Required(visibility)
=============================================================================
