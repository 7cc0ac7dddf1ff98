------------------------------ MODULE Accounts ------------------------------
(***************************************************************************)
(* Accounts, sign-in sessions and WebSocket tickets (core/auth/service.go, *)
(* httpapi/auth.go, sqlstore/users.go, ws/ticket.go, and the handshake of  *)
(* ws/session.go), for one world.                                          *)
(*                                                                         *)
(* A request for setup or for a ticket is several steps, one for each time *)
(* it asks the database, the ticket store or the clock.  Each client has   *)
(* at most one of these in flight, may sign in or out meanwhile (in        *)
(* another tab), and has at most one WebSocket.  Accounts and sessions are *)
(* in the database; tickets are in memory.                                 *)
(***************************************************************************)
EXTENDS Naturals, Sequences

CONSTANTS
    Name,        \* usernames
    Client,      \* browsers
    SessionTTL,  \* Service.sessionTTL
    TicketTTL,   \* TicketStore.ttl
    MaxClock,    \* bound: time
    MaxTokens,   \* bound: session tokens generated
    MaxTickets   \* bound: tickets generated

ASSUME AccountsAssumption ==
    /\ SessionTTL \in Nat /\ TicketTTL \in Nat
    /\ MaxClock \in Nat /\ MaxTokens \in Nat /\ MaxTickets \in Nat

VARIABLES
    users,     \* users: the rows in the order they were inserted, their ids
    sessions,  \* user_sessions, by token
    tokens,    \* session tokens generated so far
    role,      \* the user's role in the world, "none" for who is no member
    tickets,   \* TicketStore.tickets
    minted,    \* tickets generated so far
    clock,     \* now()
    cookie,    \* the token in a client's cookie, 0 for none
    req,       \* the request of several steps a client has in flight
    socket,    \* the client's WebSocket
    gone,      \* history: tokens of sessions that have been deleted
    spent      \* history: how often each ticket was accepted

database == <<users, sessions, tokens, role, gone>>
memory == <<tickets, minted, req, socket, spent>>
vars == <<database, memory, clock, cookie>>

Id == 1..MaxTokens
Role == {"none", "player", "gm"}
Idle == [op |-> "idle"]
Closed == [at |-> "closed"]

(* A map with a key assigned, and with a key deleted.                      *)
With(m, key, value) == [k \in DOMAIN m \cup {key} |-> IF k = key THEN value ELSE m[k]]
Without(m, key) == [k \in DOMAIN m \ {key} |-> m[k]]

Init ==
    /\ users = <<>> /\ tokens = 0 /\ minted = 0 /\ clock = 0 /\ gone = {}
    /\ sessions = [t \in {} |-> Idle] /\ tickets = [t \in {} |-> Idle]
    /\ role = [u \in Id |-> "none"]
    /\ cookie = [c \in Client |-> 0]
    /\ req = [c \in Client |-> Idle]
    /\ socket = [c \in Client |-> Closed]
    /\ spent = [t \in 1..MaxTickets |-> 0]

Goto(c, step) == req' = [req EXCEPT ![c] = step]
-----------------------------------------------------------------------------
(* Wrong: the install needs setup when nobody is signed in.                *)
NobodySignedIn == DOMAIN sessions = {}

(* NeedsSetup: CountUsers is zero.                                         *)
NeedsSetup == users = <<>>

(* insertUser: no row has the username, neither when it is looked up nor,  *)
(* by the unique index, when the row is inserted.                          *)
NameFree(name) == \A i \in 1..Len(users) : users[i].name # name

(* IssueSession and PutUserSession; the answer sets the cookie.            *)
SignIn(c, user) ==
    /\ tokens < MaxTokens
    /\ tokens' = tokens + 1
    /\ sessions' = With(sessions, tokens + 1, [user |-> user, expires |-> clock + SessionTTL])
    /\ cookie' = [cookie EXCEPT ![c] = tokens + 1]

(* The account and its session are one transaction.                        *)
CreateUser(c, name, admin) ==
    /\ users' = Append(users, [name |-> name, admin |-> admin])
    /\ SignIn(c, Len(users) + 1)

(* setupHandler: asks whether setup is needed, then reads the body.        *)
AskSetup(c) ==
    /\ req[c] = Idle
    /\ NeedsSetup
    /\ Goto(c, [op |-> "setup"])
    /\ UNCHANGED <<database, tickets, minted, socket, spent, clock, cookie>>

DoSetup(c, name) ==
    /\ req[c].op = "setup"
    /\ IF NameFree(name) THEN CreateUser(c, name, TRUE)
                         ELSE UNCHANGED <<users, sessions, tokens, cookie>>
    /\ Goto(c, Idle)
    /\ UNCHANGED <<role, gone, tickets, minted, socket, spent, clock>>

(* acceptInvite without a session (Membership has its races): the account, *)
(* its session and the membership.                                         *)
Accept(c, name, newRole) ==
    /\ users # <<>>
    /\ NameFree(name)
    /\ CreateUser(c, name, FALSE)
    /\ role' = [role EXCEPT ![Len(users) + 1] = newRole]
    /\ UNCHANGED <<gone, memory, clock>>

(* Login with the right password.  Nothing it reads ever changes.          *)
Login(c, user) ==
    /\ SignIn(c, user)
    /\ UNCHANGED <<users, role, gone, memory, clock>>

Logout(token) ==
    /\ sessions' = Without(sessions, token)
    /\ gone' = gone \cup (DOMAIN sessions \cap {token})

(* logoutHandler; the cookie is cleared whether or not there was a session. *)
SignOut(c) ==
    /\ Logout(cookie[c])
    /\ cookie' = [cookie EXCEPT ![c] = 0]
    /\ UNCHANGED <<users, tokens, role, memory, clock>>
-----------------------------------------------------------------------------
(* withUser and Authenticate, of a client that asks for a ticket: the      *)
(* session and its user are read in one transaction.                       *)
AskTicket(c) ==
    /\ req[c] = Idle
    /\ cookie[c] \in DOMAIN sessions
    /\ Goto(c, [op |-> "authenticate", session |-> sessions[cookie[c]], token |-> cookie[c]])
    /\ UNCHANGED <<database, tickets, minted, socket, spent, clock, cookie>>

(* Wrong: a session in use is written back to record when it was seen.     *)
AuthenticateTouching(c) ==
    /\ req[c].op = "authenticate"
    /\ IF clock > req[c].session.expires
       THEN Logout(req[c].token) /\ Goto(c, Idle)
       ELSE /\ sessions' = With(sessions, req[c].token, req[c].session)
            /\ Goto(c, [op |-> "member", user |-> req[c].session.user])
            /\ UNCHANGED gone
    /\ UNCHANGED <<users, tokens, role, tickets, minted, socket, spent, clock, cookie>>

(* Then the clock: an expired session is deleted, and the request goes on  *)
(* as nobody's and is refused.                                             *)
Authenticate(c) ==
    /\ req[c].op = "authenticate"
    /\ IF clock > req[c].session.expires
       THEN Logout(req[c].token) /\ Goto(c, Idle)
       ELSE /\ Goto(c, [op |-> "member", user |-> req[c].session.user])
            /\ UNCHANGED <<sessions, gone>>
    /\ UNCHANGED <<users, tokens, role, tickets, minted, socket, spent, clock, cookie>>

(* ticketHandler, GetMember: who is no member gets no ticket.              *)
ReadMember(c) ==
    /\ req[c].op = "member"
    /\ LET r == role[req[c].user] IN
       Goto(c, IF r = "none" THEN Idle ELSE [op |-> "issue", user |-> req[c].user, role |-> r])
    /\ UNCHANGED <<database, tickets, minted, socket, spent, clock, cookie>>

(* sweepLocked.                                                            *)
Unexpired(m) == [t \in {k \in DOMAIN m : clock <= m[k].expires} |-> m[t]]

Issue(c) ==
    /\ req[c].op = "issue"
    /\ minted < MaxTickets
    /\ minted' = minted + 1
    /\ tickets' = Unexpired(With(tickets, minted + 1,
          [user |-> req[c].user, role |-> req[c].role, expires |-> clock + TicketTTL]))
    /\ Goto(c, Idle)
    /\ UNCHANGED <<database, socket, spent, clock, cookie>>

(* A read or a write fails, or the client has gone away.                   *)
Abandon(c) ==
    /\ req[c] # Idle
    /\ Goto(c, Idle)
    /\ UNCHANGED <<database, tickets, minted, socket, spent, clock, cookie>>
-----------------------------------------------------------------------------
(* Wrong: the ticket is deleted only when it has expired.                  *)
RedeemKeeping(c, t) ==
    /\ socket[c] = Closed
    /\ t \in DOMAIN tickets
    /\ IF clock > tickets[t].expires
       THEN tickets' = Without(tickets, t) /\ UNCHANGED <<socket, spent>>
       ELSE /\ socket' = [socket EXCEPT ![c] = [at |-> "hello", ticket |-> tickets[t]]]
            /\ spent' = [spent EXCEPT ![t] = @ + 1]
            /\ UNCHANGED tickets
    /\ UNCHANGED <<database, minted, req, clock, cookie>>

(* Session.authenticate, Redeem.  A hello may be repeated, and two tabs    *)
(* may use one ticket.  An expired ticket is deleted and refused.          *)
Redeem(c, t) ==
    /\ socket[c] = Closed
    /\ t \in DOMAIN tickets
    /\ tickets' = Without(tickets, t)
    /\ IF clock > tickets[t].expires
       THEN UNCHANGED <<socket, spent>>
       ELSE /\ socket' = [socket EXCEPT ![c] = [at |-> "hello", ticket |-> tickets[t]]]
            /\ spent' = [spent EXCEPT ![t] = @ + 1]
    /\ UNCHANGED <<database, minted, req, clock, cookie>>

(* Wrong: the session has the role the ticket was stamped with.            *)
ResolveTicketRole(c) ==
    /\ socket[c].at = "hello"
    /\ socket' = [socket EXCEPT ![c] =
          [at |-> "open", user |-> socket[c].ticket.user, role |-> socket[c].ticket.role]]
    /\ UNCHANGED <<database, tickets, minted, req, spent, clock, cookie>>

(* resolveRole: the role is read again; a ticket outlives a membership.    *)
ResolveRole(c) ==
    /\ socket[c].at = "hello"
    /\ LET u == socket[c].ticket.user IN
       socket' = [socket EXCEPT ![c] =
          IF role[u] = "none" THEN Closed ELSE [at |-> "open", user |-> u, role |-> role[u]]]
    /\ UNCHANGED <<database, tickets, minted, req, spent, clock, cookie>>

CloseSocket(c) ==
    /\ socket[c] # Closed
    /\ socket' = [socket EXCEPT ![c] = Closed]
    /\ UNCHANGED <<database, tickets, minted, req, spent, clock, cookie>>
-----------------------------------------------------------------------------
(* The world's game master changes or takes away a role (Membership).      *)
SetRole(u, newRole) ==
    /\ role' = [role EXCEPT ![u] = newRole]
    /\ UNCHANGED <<users, sessions, tokens, gone, memory, clock, cookie>>

Tick ==
    /\ clock < MaxClock
    /\ clock' = clock + 1
    /\ UNCHANGED <<database, memory, cookie>>

(* The process dies and is started again; tickets are in memory only.      *)
Crash ==
    /\ tickets' = [t \in {} |-> Idle]
    /\ req' = [c \in Client |-> Idle]
    /\ socket' = [c \in Client |-> Closed]
    /\ UNCHANGED <<database, minted, spent, clock, cookie>>

Next ==
    \/ \E c \in Client, name \in Name : DoSetup(c, name) \/ Accept(c, name, "player")
    \/ \E c \in Client, u \in 1..Len(users) : Login(c, u)
    \/ \E c \in Client :
          \/ AskSetup(c) \/ SignOut(c) \/ AskTicket(c) \/ Authenticate(c) \/ ReadMember(c)
          \/ Issue(c) \/ Abandon(c) \/ ResolveRole(c) \/ CloseSocket(c)
    \/ \E c \in Client, t \in 1..MaxTickets : Redeem(c, t)
    \/ \E u \in 1..Len(users), newRole \in Role : SetRole(u, newRole)
    \/ Tick
    \/ Crash

Spec == Init /\ [][Next]_vars
-----------------------------------------------------------------------------
SessionRow == [user : Id, expires : Nat]
Ticket == [user : Id, role : Role \ {"none"}, expires : Nat]

Requests ==
    {Idle} \cup [op : {"setup"}] \cup [op : {"member"}, user : Id]
    \cup [op : {"authenticate"}, session : SessionRow, token : Id]
    \cup [op : {"issue"}, user : Id, role : Role \ {"none"}]
Sockets ==
    {Closed} \cup [at : {"hello"}, ticket : Ticket]
    \cup [at : {"open"}, user : Id, role : Role \ {"none"}]

TypeOK ==
    /\ users \in Seq([name : Name, admin : BOOLEAN]) /\ Len(users) <= tokens
    /\ tokens \in 0..MaxTokens /\ minted \in 0..MaxTickets /\ clock \in Nat
    /\ DOMAIN sessions \subseteq 1..tokens /\ \A t \in DOMAIN sessions : sessions[t] \in SessionRow
    /\ DOMAIN tickets \subseteq 1..minted /\ \A t \in DOMAIN tickets : tickets[t] \in Ticket
    /\ role \in [Id -> Role] /\ cookie \in [Client -> 0..tokens]
    /\ req \in [Client -> Requests] /\ socket \in [Client -> Sockets]
    /\ gone \subseteq 1..tokens /\ spent \in [1..MaxTickets -> Nat]

(* No two accounts have one username, also when two requests that create   *)
(* them overlap (insertUser).                                              *)
UsernamesUnique ==
    \A i, j \in 1..Len(users) : users[i].name = users[j].name => i = j

(* A session that was signed out or has expired never comes back, whatever *)
(* requests were using it (Authenticate, Logout).                          *)
EndedStaysEnded == DOMAIN sessions \cap gone = {}

(* "A short-lived single-use ticket" (README.md:105): no ticket opens two  *)
(* sessions, not by a repeated hello, not across a restart (Redeem).       *)
TicketSpentOnce == \A t \in 1..MaxTickets : spent[t] <= 1

(* A session opens with the role the world records at that moment, even if *)
(* it changed or was taken away since the ticket was issued (resolveRole). *)
RoleIsCurrent ==
    [][\A c \in Client : socket'[c].at = "open" /\ socket[c].at # "open"
          => socket'[c].role = role[socket'[c].user]]_vars

(* "creates the first administrator and then closes permanently"           *)
(* (README.md:94): when an account exists and every setup that had begun   *)
(* before is over, nobody becomes an administrator any more.               *)
Admins == {i \in 1..Len(users) : users[i].admin}
SetupCloses ==
    [][users # <<>> /\ (\A c \in Client : req[c].op # "setup") =>
          Admins' = Admins /\ \A c \in Client : req'[c].op # "setup"]_vars
=============================================================================
