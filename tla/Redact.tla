------------------------------- MODULE Redact -------------------------------
(***************************************************************************)
(* Field redaction (internal/core/perm/redact.go).  The data of a document *)
(* is the set of its paths; a path is the sequence of keys that leads to a *)
(* value, and objects on the way are paths, too.  A policy gives paths a   *)
(* visibility.                                                             *)
(***************************************************************************)
EXTENDS Perm, Sequences, FiniteSets

KeysAt(paths, prefix) ==
    {p[Len(p)] : p \in {p \in paths : Len(p) = Len(prefix) + 1
                                      /\ SubSeq(p, 1, Len(prefix)) = prefix}}

(* Wrong: looks only at the top of an object.                              *)
PruneTop(paths, prefix, role, level, policy) ==
    {p \in paths : Allows(role, level, policy[SubSeq(p, 1, 1)])}

(* pruneObject: a path that is not allowed goes with all that is below it. *)
pruneObject(paths, prefix, role, level, policy) ==
    LET pruned[at \in {<<>>} \cup paths] ==
            UNION {LET path == Append(at, key)
                   IN IF Allows(role, level, policy[path]) THEN {path} \cup pruned[path]
                      ELSE {} : key \in KeysAt(paths, at)}
    IN pruned[prefix]

(* collectHidden: the paths where pruneObject stops.                       *)
collectHidden(paths, prefix, role, level, policy) ==
    LET hidden[at \in {<<>>} \cup paths] ==
            UNION {LET path == Append(at, key)
                   IN IF Allows(role, level, policy[path]) THEN hidden[path]
                      ELSE {path} : key \in KeysAt(paths, at)}
    IN hidden[prefix]

(* RedactDocument: whether the document is sent, and with which data.      *)
RedactDocument(paths, role, level, policy) ==
    IF ~CanRead(level) THEN [send |-> FALSE, data |-> {}]
    ELSE IF level = LevelLimited THEN [send |-> TRUE, data |-> {}]
    ELSE [send |-> TRUE, data |-> pruneObject(paths, <<>>, role, level, policy)]
=============================================================================
