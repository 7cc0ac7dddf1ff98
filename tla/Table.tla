------------------------------- MODULE Table --------------------------------
(***************************************************************************)
(* What the players of a world may rely on: every change is made to the    *)
(* documents as they are, all at once, with its event at the end of the    *)
(* log.  Nobody's change is made to an older copy.                         *)
(***************************************************************************)
EXTENDS Documents

VARIABLES
    docs,    \* the documents
    scene,   \* the active scene
    tokens,  \* tokens on the scene
    log      \* the events, oldest first

vars == <<docs, scene, tokens, log>>

Init ==
    /\ docs = InitialDocs
    /\ scene \in Scene
    /\ tokens \in 0..MaxTokens
    /\ log = <<>>

Here == Len(log) + 1
Say(by, kind, id, body) == log' = Append(log, Row(Here, by, kind, id, body))

SetCombat(combat) ==
    /\ Say("staff", CombatKind(combat), "combat", combat)
    /\ docs' = [docs EXCEPT !.combat = CombatDocument(combat, Here)]
    /\ UNCHANGED <<scene, tokens>>

StartCombat == tokens > 0 /\ SetCombat(NewCombat(tokens))

NextTurn ==
    /\ docs.combat # NoDocument
    /\ Running(docs.combat.data)
    /\ SetCombat(Advance(docs.combat.data))

EndCombat == docs.combat # NoDocument /\ SetCombat(Ended(docs.combat.data))

(* A door changes together with what can be seen through it.               *)
ToggleDoor ==
    LET wall == Toggled(docs.wall.data) IN
    /\ log' = log \o <<Row(Here, "staff", "scene.door.toggle", "wall", wall),
                       Row(Here + 1, "staff", "scene.visibility", "scene", NoBody)>>
    /\ docs' = [docs EXCEPT !.wall.data = wall, !.wall.at = Here]
    /\ UNCHANGED <<scene, tokens>>

(* Who patches the token may do so at that moment.                         *)
Patch(by, field, value) ==
    /\ MayEdit(by, docs.token)
    /\ Say(by, "document.patch", "token", [f \in {field} |-> value])
    /\ docs' = [docs EXCEPT !.token = Patched(@, field, value, Here)]
    /\ UNCHANGED <<scene, tokens>>

Activate(s) ==
    /\ Say("staff", "scene.activate", "scene", [scene |-> s])
    /\ scene' = s
    /\ UNCHANGED <<docs, tokens>>

Chat(by) ==
    /\ Say(by, "chat.message", "message", NoBody)
    /\ UNCHANGED <<docs, scene, tokens>>

(* Access rights change without an event.                                  *)
SetAccess(id, level) ==
    /\ docs[id] # NoDocument
    /\ docs' = [docs EXCEPT ![id].acl = level]
    /\ UNCHANGED <<scene, tokens, log>>

AddToken == tokens' = tokens + 1 /\ UNCHANGED <<docs, scene, log>>

Next ==
    \/ StartCombat \/ NextTurn \/ EndCombat \/ ToggleDoor \/ AddToken
    \/ \E by \in {"staff", "player"} :
          \/ Chat(by)
          \/ \E field \in {"place", "name"}, value \in Value : Patch(by, field, value)
    \/ \E s \in Scene : Activate(s)
    \/ \E id \in DocId, level \in Level : SetAccess(id, level)

Spec == Init /\ [][Next]_vars
=============================================================================
