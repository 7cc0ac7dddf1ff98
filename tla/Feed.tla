-------------------------------- MODULE Feed --------------------------------
(***************************************************************************)
(* What the gateway promises a client, whatever happens to its connections *)
(* and to the server: the world's events that are addressed to it, in the  *)
(* order of the log, none twice, and none left out unless it is named in   *)
(* `skippable`.                                                            *)
(***************************************************************************)
EXTENDS Naturals, Sequences

CONSTANT User

VARIABLES
    log,        \* log[s]: the users event s is addressed to
    got,        \* got[u]: the events client u has received, oldest first
    skippable   \* skippable[u]: the events the service may leave out for u

vars == <<log, got, skippable>>

Seen(u) == IF got[u] = <<>> THEN 0 ELSE got[u][Len(got[u])]

Init ==
    /\ log = <<>>
    /\ got = [u \in User |-> <<>>]
    /\ skippable = [u \in User |-> {}]

(* The world moves on, by one event or by the two of a door.               *)
Extend ==
    /\ \E n \in 1..2 : \E who \in [1..n -> SUBSET User] : log' = log \o who
    /\ UNCHANGED <<got, skippable>>

(* The service gives up on some events of the log for good.                *)
GiveUp ==
    /\ \A u \in User : skippable[u] \subseteq skippable'[u]
    /\ \A u \in User : skippable'[u] \subseteq 1..Len(log)
    /\ UNCHANGED <<log, got>>

(* Client u receives event s: the next one addressed to it, but for those  *)
(* the service has given up on.                                            *)
Deliver(u, s) ==
    /\ s > Seen(u) /\ u \in log[s]
    /\ \A t \in Seen(u) + 1..s - 1 : u \in log[t] => t \in skippable[u]
    /\ got' = [got EXCEPT ![u] = Append(@, s)]
    /\ UNCHANGED <<log, skippable>>

Next ==
    \/ Extend
    \/ GiveUp
    \/ \E u \in User : \E s \in 1..Len(log) : Deliver(u, s)

Spec == Init /\ [][Next]_vars
-----------------------------------------------------------------------------
(* Clients receive events in the order of the log, none twice (writeLoop   *)
(* and its sequence check).                                                *)
Increases ==
    \A u \in User : \A i, j \in 1..Len(got[u]) : i < j => got[u][i] < got[u][j]

(* Clients receive only what is addressed to them (fanOut, replayFrames).  *)
OnlyAddressed ==
    \A u \in User : \A i \in 1..Len(got[u]) : got[u][i] \in 1..Len(log) /\ u \in log[got[u][i]]
=============================================================================
