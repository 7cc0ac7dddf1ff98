----------------------------- MODULE Documents ------------------------------
(***************************************************************************)
(* The documents of a world that the intents change, and what each intent  *)
(* makes of the one it read (internal/transport/ws: combat.go, doors.go,   *)
(* intents.go).  Three documents stand for all: the combat tracker, a wall *)
(* that is a door, and a token.                                            *)
(***************************************************************************)
EXTENDS Naturals, Sequences

CONSTANTS
    MaxTokens,  \* bound: tokens on the scene (within maxCombatants)
    MaxSeq,     \* bound: length of the event log
    Scene,      \* scenes of the world
    Value       \* what a patch can set a field of the token to

(* The levels a player can have on a document, as far as patches go: only  *)
(* an owner may edit.                                                      *)
Level == {"observer", "owner"}

DocId == {"combat", "wall", "token"}
NoDocument == [at |-> 0]

(* A row of documents: data, ownership and updated_seq.                    *)
Document(data, acl, at) == [data |-> data, acl |-> acl, at |-> at]
-----------------------------------------------------------------------------
(* The combat tracker; size is the number of combatants.  One that runs is *)
(* in a round that exists, at the turn of one of its combatants.           *)
CombatData ==
    {c \in [active : BOOLEAN, round : Nat, turn : Nat, size : 0..MaxTokens] :
        c.active => c.turn < c.size /\ c.round >= 1}

NewCombat(size) == [active |-> TRUE, round |-> 1, turn |-> 0, size |-> size]

Running(combat) == combat.active /\ combat.size > 0

(* Wrong: the turn after the last combatant's is nobody's.                 *)
AdvanceLate(combat) ==
    IF combat.turn + 1 > combat.size
    THEN [combat EXCEPT !.turn = 0, !.round = @ + 1]
    ELSE [combat EXCEPT !.turn = @ + 1]

Advance(combat) ==
    IF combat.turn + 1 >= combat.size
    THEN [combat EXCEPT !.turn = 0, !.round = @ + 1]
    ELSE [combat EXCEPT !.turn = @ + 1]

Ended(combat) == [combat EXCEPT !.active = FALSE, !.size = 0]

CombatKind(combat) == IF combat.active THEN "combat.update" ELSE "combat.end"

(* commitCombat writes the document anew, its ownership included.          *)
CombatDocument(combat, seq) == Document(combat, "observer", seq)
-----------------------------------------------------------------------------
Toggled(wall) == [wall EXCEPT !.open = ~@]

(* jsonb_set on the row as it is when the UPDATE runs.                     *)
Patched(document, field, value, seq) ==
    [document EXCEPT !.data[field] = value, !.at = seq]

MayEdit(by, document) == by = "staff" \/ document.acl = "owner"
-----------------------------------------------------------------------------
(* The body of an event that no document has to agree with.                *)
NoBody == [about |-> "nothing"]

Row(seq, by, kind, id, body) ==
    [seq |-> seq, by |-> by, kind |-> kind, id |-> id, body |-> body]

InitialDocs ==
    [combat |-> NoDocument,
     wall |-> Document([open |-> FALSE], "observer", 0),
     token |-> Document([place |-> 0, name |-> 0], "observer", 0)]
=============================================================================
