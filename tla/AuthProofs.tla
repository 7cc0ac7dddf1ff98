----------------------------- MODULE AuthProofs -----------------------------
(***************************************************************************)
(* Proofs about accounts, sessions and tickets, for any number of clients, *)
(* names, tokens and tickets, and about the limiter, for any number of     *)
(* logins at the same time, usernames and addresses, and for any limits    *)
(* with a lockout longer than the window.  Of accounts each property rests *)
(* on a few variables and has an inductive invariant of its own.           *)
(***************************************************************************)
EXTENDS Accounts, Limiter, FiniteSetTheorems, TLAPS

(* What the actions leave alone: most of them neither touch the ticket     *)
(* store, nor end or begin a session, nor create an account.               *)
LEMMA Untouched ==
  ASSUME [Next]_vars
  PROVE  /\ \/ UNCHANGED <<tickets, minted, spent>>
            \/ \E c \in Client : Issue(c)
            \/ \E c \in Client, t \in 1..MaxTickets : Redeem(c, t)
            \/ Crash
         /\ \/ UNCHANGED <<sessions, tokens, gone>>
            \/ UNCHANGED tokens /\ \E t : Logout(t)
            \/ UNCHANGED gone /\ \E c, u : SignIn(c, u)
         /\ \/ UNCHANGED users
            \/ \E name \in Name, admin \in BOOLEAN :
                  NameFree(name) /\ users' = Append(users, [name |-> name, admin |-> admin])
<1>1. CASE \E c \in Client, name \in Name : DoSetup(c, name) \/ Accept(c, name, "player")
  BY <1>1, Zenon DEF DoSetup, Accept, CreateUser, memory
<1>2. CASE \E c \in Client, u \in 1..Len(users) : Login(c, u)
  BY <1>2 DEF Login, memory
<1>3. ASSUME NEW c \in Client, AskSetup(c) \/ AskTicket(c) \/ ReadMember(c) \/ Abandon(c)
             \/ ResolveRole(c) \/ CloseSocket(c)
      PROVE  UNCHANGED <<tickets, minted, spent, sessions, tokens, gone, users>>
  BY <1>3 DEF AskSetup, AskTicket, ReadMember, Abandon, ResolveRole, CloseSocket, database
<1>4. ASSUME NEW c \in Client, SignOut(c) \/ Authenticate(c)
      PROVE  /\ UNCHANGED <<tickets, minted, spent, tokens, users>>
             /\ UNCHANGED <<sessions, gone>> \/ \E t : Logout(t)
  BY <1>4 DEF SignOut, Authenticate, memory
<1>5. ASSUME NEW c \in Client, Issue(c) PROVE UNCHANGED database
  BY <1>5 DEF Issue
<1>6. ASSUME NEW c \in Client, NEW t \in 1..MaxTickets, Redeem(c, t) PROVE UNCHANGED database
  BY <1>6 DEF Redeem
<1>7. CASE \E u \in 1..Len(users), newRole \in Role : SetRole(u, newRole)
  BY <1>7 DEF SetRole, memory
<1>8. CASE Tick
  BY <1>8 DEF Tick, database, memory
<1>9. CASE Crash
  BY <1>9 DEF Crash, database
<1>10. CASE UNCHANGED vars
  BY <1>10 DEF vars, database, memory
<1> QED
  BY <1>1, <1>2, <1>3, <1>4, <1>5, <1>6, <1>7, <1>8, <1>9, <1>10, Zenon DEF Next, database
-----------------------------------------------------------------------------
(* A ticket in the store, or not generated yet, has not been spent.        *)
TicketInv ==
    /\ minted \in Nat
    /\ DOMAIN tickets \subseteq 1..minted
    /\ spent \in [1..MaxTickets -> Nat]
    /\ \A t \in 1..MaxTickets : t \in DOMAIN tickets \/ t > minted => spent[t] = 0
    /\ TicketSpentOnce

(* Issue, Redeem and a restart keep the invariant.                         *)
LEMMA TicketInvStep == TicketInv /\ [Next]_vars => TicketInv'
<1> SUFFICES ASSUME TicketInv, [Next]_vars PROVE TicketInv'
  OBVIOUS
<1> USE DEF TicketInv, TicketSpentOnce
<1>1. CASE UNCHANGED <<tickets, minted, spent>>
  BY <1>1
<1>2. ASSUME NEW c \in Client, Issue(c) PROVE TicketInv'
  <2>1. DOMAIN tickets' \subseteq DOMAIN tickets \cup {minted + 1}
    BY <1>2 DEF Issue, Unexpired, With
  <2>2. minted' = minted + 1 /\ UNCHANGED spent
    BY <1>2 DEF Issue
  <2> QED BY <2>1, <2>2
<1>3. ASSUME NEW c \in Client, NEW t \in 1..MaxTickets, Redeem(c, t) PROVE TicketInv'
  <2>1. t \in DOMAIN tickets /\ DOMAIN tickets' = DOMAIN tickets \ {t} /\ UNCHANGED minted
    BY <1>3 DEF Redeem, Without
  <2>2. UNCHANGED spent \/ spent' = [spent EXCEPT ![t] = @ + 1]
    BY <1>3 DEF Redeem
  <2>3. spent[t] = 0
    BY <2>1
  <2>4. spent' \in [1..MaxTickets -> Nat]
    BY <2>2, <2>3
  <2>5. /\ spent'[t] <= 1
        /\ \A k \in 1..MaxTickets : k # t => spent'[k] = spent[k]
    <3>1. CASE UNCHANGED spent
      BY <2>3, <3>1
    <3>2. CASE spent' = [spent EXCEPT ![t] = @ + 1]
      <4>1. spent'[t] = spent[t] + 1
        BY <3>2
      <4>2. \A k \in 1..MaxTickets : k # t => spent'[k] = spent[k]
        BY <3>2
      <4> QED BY <2>3, <4>1, <4>2
    <3> QED BY <2>2, <3>1, <3>2
  <2>6. t <= minted
    BY <2>1
  <2>7. ASSUME NEW k \in 1..MaxTickets, k \in DOMAIN tickets' \/ k > minted'
        PROVE  spent'[k] = 0
    <3>1. k # t
      BY <2>1, <2>6, <2>7
    <3> QED BY <2>1, <2>5, <2>7, <3>1
  <2>8. TicketSpentOnce'
    BY <2>5
  <2> QED BY <2>1, <2>4, <2>7, <2>8
<1>4. CASE Crash
  BY <1>4 DEF Crash
<1> QED BY <1>1, <1>2, <1>3, <1>4, Untouched

(* No ticket opens two sessions, however hellos are repeated, requests     *)
(* overlap, time passes or the process restarts (TicketStore.Redeem).      *)
THEOREM AccountsTicketSpentOnce == Spec => []TicketSpentOnce
<1>1. Init => TicketInv
  BY DEF Init, TicketInv, TicketSpentOnce
<1>2. TicketInv => TicketSpentOnce
  BY DEF TicketInv
<1> QED BY <1>1, <1>2, TicketInvStep, PTL DEF Spec
-----------------------------------------------------------------------------
(* Tokens are generated once, so what was deleted is never inserted again. *)
SessionInv ==
    /\ tokens \in Nat
    /\ DOMAIN sessions \subseteq 1..tokens
    /\ gone \subseteq 1..tokens
    /\ EndedStaysEnded

(* Logout and IssueSession keep the invariant.                             *)
LEMMA SessionInvStep == SessionInv /\ [Next]_vars => SessionInv'
<1> SUFFICES ASSUME SessionInv, [Next]_vars PROVE SessionInv'
  OBVIOUS
<1> USE DEF SessionInv, EndedStaysEnded
<1>1. CASE UNCHANGED <<sessions, tokens, gone>>
  BY <1>1
<1>2. ASSUME UNCHANGED tokens, NEW t, Logout(t) PROVE SessionInv'
  <2>1. DOMAIN sessions' = DOMAIN sessions \ {t} /\ gone' = gone \cup (DOMAIN sessions \cap {t})
    BY <1>2 DEF Logout, Without
  <2> QED BY <1>2, <2>1, Zenon
<1>3. ASSUME UNCHANGED gone, NEW c, NEW u, SignIn(c, u) PROVE SessionInv'
  <2>1. DOMAIN sessions' = DOMAIN sessions \cup {tokens + 1} /\ tokens' = tokens + 1
    BY <1>3 DEF SignIn, With
  <2> QED BY <1>3, <2>1
<1> QED BY <1>1, <1>2, <1>3, Untouched

(* A session that was signed out or has expired never comes back           *)
(* (Service.Logout, Service.Authenticate).                                 *)
THEOREM AccountsEndedStaysEnded == Spec => []EndedStaysEnded
<1>1. Init => SessionInv
  BY DEF Init, SessionInv, EndedStaysEnded
<1>2. SessionInv => EndedStaysEnded
  BY DEF SessionInv
<1> QED BY <1>1, <1>2, SessionInvStep, PTL DEF Spec
-----------------------------------------------------------------------------
(* Accounts are well-formed records with distinct names.                   *)
UserInv == users \in Seq([name : Name, admin : BOOLEAN]) /\ UsernamesUnique

(* An account is added at the end, under a name no other has.              *)
LEMMA UserInvStep == UserInv /\ [Next]_vars => UserInv'
<1> SUFFICES ASSUME UserInv, [Next]_vars PROVE UserInv'
  OBVIOUS
<1>1. CASE UNCHANGED users
  BY <1>1 DEF UserInv, UsernamesUnique
<1>2. ASSUME NEW name \in Name, NEW admin \in BOOLEAN, NameFree(name),
             users' = Append(users, [name |-> name, admin |-> admin])
      PROVE  UserInv'
  <2>1. users' \in Seq([name : Name, admin : BOOLEAN]) /\ Len(users') = Len(users) + 1
    BY <1>2 DEF UserInv
  <2>2. \A i \in 1..Len(users) : users'[i] = users[i]
    BY <1>2 DEF UserInv
  <2>3. users'[Len(users) + 1].name = name
    BY <1>2 DEF UserInv
  <2>4. \A i, j \in 1..Len(users') : users'[i].name = users'[j].name => i = j
    BY <1>2, <2>1, <2>2, <2>3 DEF UserInv, UsernamesUnique, NameFree
  <2> QED BY <2>1, <2>4 DEF UserInv, UsernamesUnique
<1> QED BY <1>1, <1>2, Untouched, Zenon

(* No two accounts have one username, also when the requests that create   *)
(* them overlap (insertUser and the unique index).                         *)
THEOREM AccountsUsernamesUnique == Spec => []UsernamesUnique
<1>1. Init => UserInv
  BY DEF Init, UserInv, UsernamesUnique
<1>2. UserInv => UsernamesUnique
  BY DEF UserInv
<1> QED BY <1>1, <1>2, UserInvStep, PTL DEF Spec
-----------------------------------------------------------------------------
(* The fields of a request and of a socket are those of what it is at.     *)
LEMMA Fields ==
  ASSUME TypeOK, NEW c \in Client
  PROVE  /\ req[c].op = "authenticate" => req[c].session \in SessionRow /\ req[c].token \in Id
         /\ req[c].op = "member" => req[c].user \in Id
         /\ req[c].op = "issue" => req[c].user \in Id /\ req[c].role \in Role \ {"none"}
         /\ socket[c].at = "hello" => socket[c].ticket \in Ticket
<1>1. req[c] \in Requests /\ socket[c] \in Sockets
  BY DEF TypeOK
<1> QED BY <1>1 DEF Requests, Sockets, Idle, Closed

(* What the steps of a request may become.                                 *)
LEMMA GotoTyped ==
  ASSUME TypeOK, NEW c \in Client, NEW step \in Requests, Goto(c, step)
  PROVE  req' \in [Client -> Requests]
BY DEF TypeOK, Goto

(* An account and its session, a login: what PutUserSession leaves.        *)
LEMMA SignInTyped ==
  ASSUME TypeOK, NEW c \in Client, NEW u \in Id, SignIn(c, u)
  PROVE  /\ tokens' \in 0..MaxTokens /\ tokens' = tokens + 1
         /\ DOMAIN sessions' \subseteq 1..tokens'
         /\ \A t \in DOMAIN sessions' : sessions'[t] \in SessionRow
         /\ cookie' \in [Client -> 0..tokens']
<1>1. tokens' = tokens + 1 /\ tokens' \in 0..MaxTokens /\ tokens \in Nat
  BY AccountsAssumption DEF TypeOK, SignIn
<1> DEFINE row == [user |-> u, expires |-> clock + SessionTTL]
<1>2. row \in SessionRow /\ sessions' = With(sessions, tokens + 1, row)
  BY AccountsAssumption DEF TypeOK, SignIn, SessionRow
<1> HIDE DEF row
<1>3. /\ DOMAIN sessions' = DOMAIN sessions \cup {tokens + 1}
      /\ \A t \in DOMAIN sessions' : sessions'[t] \in SessionRow
  <2>1. \A t \in DOMAIN sessions : sessions[t] \in SessionRow
    BY DEF TypeOK
  <2> QED BY <1>2, <2>1 DEF With
<1>4. DOMAIN sessions' \subseteq 1..tokens'
  BY <1>1, <1>3 DEF TypeOK
<1>5. cookie' \in [Client -> 0..tokens']
  BY <1>1 DEF TypeOK, SignIn
<1> QED BY <1>1, <1>3, <1>4, <1>5

(* What Logout leaves of the sessions.                                     *)
LEMMA LogoutTyped ==
  ASSUME TypeOK, NEW t, Logout(t)
  PROVE  /\ DOMAIN sessions' \subseteq 1..tokens /\ gone' \subseteq 1..tokens
         /\ \A k \in DOMAIN sessions' : sessions'[k] \in SessionRow
<1>1. /\ DOMAIN sessions' = DOMAIN sessions \ {t}
      /\ \A k \in DOMAIN sessions' : sessions'[k] \in SessionRow
  <2>1. \A k \in DOMAIN sessions : sessions[k] \in SessionRow
    BY DEF TypeOK
  <2> QED BY <2>1 DEF Logout, Without
<1> QED BY <1>1, Zenon DEF TypeOK, Logout

(* Sign-up, setup and login keep the types.                                *)
LEMMA SignInStep ==
  ASSUME TypeOK, NEW c \in Client,
         \/ \E name \in Name : DoSetup(c, name) \/ Accept(c, name, "player")
         \/ \E u \in 1..Len(users) : Login(c, u)
  PROVE  TypeOK'
<1>1. Len(users) \in Nat /\ tokens \in Nat /\ Len(users) <= tokens
  BY DEF TypeOK
<1>2. ASSUME NEW name \in Name, NEW admin \in BOOLEAN, CreateUser(c, name, admin)
      PROVE  /\ users' \in Seq([name : Name, admin : BOOLEAN]) /\ Len(users') = Len(users) + 1
             /\ Len(users) + 1 \in Id /\ SignIn(c, Len(users) + 1)
  <2>1. Len(users) + 1 \in Id
    BY <1>1, <1>2, AccountsAssumption DEF CreateUser, SignIn, Id
  <2> QED BY <1>2, <2>1 DEF CreateUser, TypeOK
<1>3. ASSUME NEW name \in Name, DoSetup(c, name) PROVE TypeOK'
  <2>1. req' \in [Client -> Requests]
    BY <1>3, GotoTyped DEF DoSetup, Requests
  <2>2. CASE NameFree(name)
    <3>1. CreateUser(c, name, TRUE)
      BY <1>3, <2>2, Zenon DEF DoSetup
    <3>2. /\ users' \in Seq([name : Name, admin : BOOLEAN]) /\ Len(users') = Len(users) + 1
          /\ Len(users) + 1 \in Id /\ SignIn(c, Len(users) + 1)
      BY <1>2, <3>1, Zenon
    <3> QED BY <1>1, <1>3, <2>1, <3>2, SignInTyped, SMTT(30) DEF DoSetup, TypeOK
  <2>3. CASE ~NameFree(name)
    BY <1>3, <2>1, <2>3 DEF DoSetup, TypeOK
  <2> QED BY <2>2, <2>3
<1>4. ASSUME NEW name \in Name, Accept(c, name, "player") PROVE TypeOK'
  <2>1. CreateUser(c, name, FALSE)
    BY <1>4, Zenon DEF Accept
  <2>2. /\ users' \in Seq([name : Name, admin : BOOLEAN]) /\ Len(users') = Len(users) + 1
        /\ Len(users) + 1 \in Id /\ SignIn(c, Len(users) + 1)
    BY <1>2, <2>1, Zenon
  <2>3. role' \in [Id -> Role]
    BY <1>4, <2>2 DEF Accept, TypeOK, Role
  <2> QED BY <1>1, <1>4, <2>2, <2>3, SignInTyped, SMTT(30) DEF Accept, TypeOK, memory
<1>5. ASSUME NEW u \in 1..Len(users), Login(c, u) PROVE TypeOK'
  <2>1. u \in Id /\ SignIn(c, u)
    <3>1. tokens <= MaxTokens
      BY AccountsAssumption DEF TypeOK
    <3> QED BY <1>1, <1>5, <3>1, AccountsAssumption DEF Id, Login
  <2> QED BY <1>1, <1>5, <2>1, SignInTyped, SMTT(30) DEF Login, TypeOK, memory
<1> QED BY <1>3, <1>4, <1>5

(* The steps of a ticket request keep the types.                           *)
LEMMA TicketRequestStep ==
  ASSUME TypeOK, NEW c \in Client,
         AskSetup(c) \/ AskTicket(c) \/ Authenticate(c) \/ ReadMember(c) \/ Issue(c) \/ Abandon(c)
  PROVE  TypeOK'
<1>1. CASE AskSetup(c) \/ Abandon(c)
  <2>1. req' \in [Client -> Requests]
    BY <1>1, GotoTyped DEF AskSetup, Abandon, Requests
  <2> QED BY <1>1, <2>1, Zenon DEF AskSetup, Abandon, TypeOK, database
<1>2. CASE AskTicket(c)
  <2> DEFINE step == [op |-> "authenticate", session |-> sessions[cookie[c]], token |-> cookie[c]]
  <2>1. step \in Requests
    <3>1. cookie[c] \in DOMAIN sessions /\ sessions[cookie[c]] \in SessionRow
      BY <1>2 DEF AskTicket, TypeOK
    <3>2. cookie[c] \in 1..tokens /\ tokens \in Nat /\ tokens <= MaxTokens
      BY <3>1, AccountsAssumption DEF TypeOK
    <3>3. cookie[c] \in Id
      BY <3>2, AccountsAssumption, SMTT(30) DEF Id
    <3> QED BY <3>1, <3>3 DEF Requests
  <2>2. Goto(c, step)
    BY <1>2 DEF AskTicket
  <2> HIDE DEF step
  <2>3. req' \in [Client -> Requests]
    BY <2>1, <2>2, GotoTyped
  <2> QED BY <1>2, <2>3, SMTT(30) DEF AskTicket, TypeOK, database
<1>3. CASE Authenticate(c)
  <2>1. req[c].op = "authenticate" /\ req[c].session \in SessionRow
    BY <1>3, Fields DEF Authenticate
  <2>2. Idle \in Requests /\ [op |-> "member", user |-> req[c].session.user] \in Requests
    BY <2>1, SMTT(30) DEF Requests, SessionRow
  <2>3. req' \in [Client -> Requests]
    BY <1>3, <2>2, GotoTyped, SMTT(30) DEF Authenticate
  <2>4. CASE clock > req[c].session.expires
    BY <1>3, <2>3, <2>4, LogoutTyped, SMTT(30) DEF Authenticate, TypeOK
  <2>5. CASE ~(clock > req[c].session.expires)
    BY <1>3, <2>3, <2>5, Zenon DEF Authenticate, TypeOK
  <2> QED BY <2>4, <2>5
<1>4. CASE ReadMember(c)
  <2>1. req[c].user \in Id
    BY <1>4, Fields DEF ReadMember
  <2>2. role[req[c].user] \in Role
    BY <2>1 DEF TypeOK
  <2>3. Idle \in Requests
    BY SMTT(30) DEF Requests
  <2>4. role[req[c].user] # "none" =>
           [op |-> "issue", user |-> req[c].user, role |-> role[req[c].user]] \in Requests
    BY <2>1, <2>2, SMTT(30) DEF Requests
  <2>5. req' \in [Client -> Requests]
    BY <1>4, <2>3, <2>4, GotoTyped, SMTT(30) DEF ReadMember
  <2> QED BY <1>4, <2>5, SMTT(30) DEF ReadMember, TypeOK, database
<1>5. CASE Issue(c)
  <2> DEFINE new == [user |-> req[c].user, role |-> req[c].role, expires |-> clock + TicketTTL]
  <2>1. new \in Ticket
    BY <1>5, Fields, AccountsAssumption, SMTT(30) DEF Issue, Ticket, TypeOK
  <2>2. tickets' = Unexpired(With(tickets, minted + 1, new))
    BY <1>5 DEF Issue
  <2> HIDE DEF new
  <2>3. \A t \in DOMAIN tickets : tickets[t] \in Ticket
    BY SMTT(30) DEF TypeOK
  <2>4. /\ DOMAIN tickets' \subseteq DOMAIN tickets \cup {minted + 1}
        /\ \A t \in DOMAIN tickets' : tickets'[t] \in Ticket
    BY <2>1, <2>2, <2>3 DEF With, Unexpired
  <2>5. minted' = minted + 1 /\ minted' \in 0..MaxTickets /\ minted \in Nat
    BY <1>5, AccountsAssumption, SMTT(30) DEF Issue, TypeOK
  <2>6. DOMAIN tickets' \subseteq 1..minted'
    BY <2>4, <2>5, SMTT(30) DEF TypeOK
  <2>7. req' \in [Client -> Requests]
    BY <1>5, GotoTyped DEF Issue, Requests
  <2> QED BY <1>5, <2>4, <2>5, <2>6, <2>7, SMTT(30) DEF Issue, TypeOK, database
<1> QED BY <1>1, <1>2, <1>3, <1>4, <1>5

(* The WebSocket handshake keeps the types.                                *)
LEMMA SocketStep ==
  ASSUME TypeOK, NEW c \in Client,
         \/ \E t \in 1..MaxTickets : Redeem(c, t)
         \/ ResolveRole(c) \/ CloseSocket(c)
  PROVE  TypeOK'
<1>1. ASSUME NEW t \in 1..MaxTickets, Redeem(c, t) PROVE TypeOK'
  <2>1. \A k \in DOMAIN tickets : tickets[k] \in Ticket
    BY DEF TypeOK
  <2>2. /\ t \in DOMAIN tickets /\ DOMAIN tickets' = DOMAIN tickets \ {t}
        /\ \A k \in DOMAIN tickets' : tickets'[k] \in Ticket
    BY <1>1, <2>1 DEF Redeem, Without
  <2>3. socket' \in [Client -> Sockets]
    <3>1. [at |-> "hello", ticket |-> tickets[t]] \in Sockets
      BY <2>1, <2>2, SMTT(30) DEF Sockets
    <3> QED BY <1>1, <3>1, Zenon DEF Redeem, TypeOK
  <2>4. spent' \in [1..MaxTickets -> Nat]
    BY <1>1, SMTT(60) DEF Redeem, TypeOK
  <2> QED BY <1>1, <2>2, <2>3, <2>4, SMTT(30) DEF Redeem, TypeOK, database
<1>2. CASE ResolveRole(c)
  <2>1. socket[c].ticket \in Ticket
    BY <1>2, Fields, Zenon DEF ResolveRole
  <2> DEFINE u == socket[c].ticket.user
  <2>2. u \in Id /\ role[u] \in Role
    BY <2>1, SMTT(30) DEF Ticket, TypeOK
  <2>3. Closed \in Sockets
        /\ (role[u] # "none" => [at |-> "open", user |-> u, role |-> role[u]] \in Sockets)
    BY <2>2, Zenon DEF Sockets
  <2>4. socket' \in [Client -> Sockets]
    BY <1>2, <2>3 DEF ResolveRole, TypeOK
  <2> QED BY <1>2, <2>4 DEF ResolveRole, TypeOK, database
<1>3. CASE CloseSocket(c)
  <2>1. socket' \in [Client -> Sockets]
    BY <1>3 DEF CloseSocket, TypeOK, Sockets
  <2> QED BY <1>3, <2>1 DEF CloseSocket, TypeOK, database
<1> QED BY <1>1, <1>2, <1>3, SMTT(30)

(* Every step keeps the types.                                             *)
LEMMA TypeStep == TypeOK /\ [Next]_vars => TypeOK'
<1> SUFFICES ASSUME TypeOK, [Next]_vars PROVE TypeOK'
  OBVIOUS
<1>1. ASSUME NEW c \in Client, SignOut(c) PROVE TypeOK'
  <2>1. cookie' \in [Client -> 0..tokens]
    BY <1>1 DEF SignOut, TypeOK
  <2> QED BY <1>1, <2>1, LogoutTyped DEF SignOut, TypeOK, memory
<1>2. ASSUME NEW u \in 1..Len(users), NEW newRole \in Role, SetRole(u, newRole) PROVE TypeOK'
  <2>1. role' \in [Id -> Role]
    BY <1>2, Zenon DEF SetRole, TypeOK
  <2> QED BY <1>2, <2>1 DEF SetRole, TypeOK, memory
<1>3. CASE Tick
  BY <1>3 DEF Tick, TypeOK, database, memory
<1>4. CASE Crash
  <2>1. req' \in [Client -> Requests] /\ socket' \in [Client -> Sockets]
    BY <1>4 DEF Crash, Requests, Sockets
  <2>2. DOMAIN tickets' = {}
    BY <1>4 DEF Crash
  <2> QED BY <1>4, <2>1, <2>2 DEF Crash, TypeOK, database
<1>5. CASE UNCHANGED vars
  BY <1>5 DEF vars, TypeOK, database, memory
<1> QED BY <1>1, <1>2, <1>3, <1>4, <1>5, SignInStep, TicketRequestStep, SocketStep DEF Next

(* Accounts, sessions, tickets and requests are well-formed in every       *)
(* state: what a ticket or a session names exists (service.go, ticket.go). *)
THEOREM AccountsTypeOK == Spec => []TypeOK
<1>1. Init => TypeOK
  BY AccountsAssumption DEF Init, TypeOK, Role, Requests, Sockets
<1> QED BY <1>1, TypeStep, PTL DEF Spec
-----------------------------------------------------------------------------
(* Only the handshake, the end of a connection and a restart change a      *)
(* socket.                                                                 *)
LEMMA SocketUntouched ==
  ASSUME [Next]_vars
  PROVE  \/ UNCHANGED socket
         \/ \E c \in Client : ResolveRole(c)
         \/ \E c \in Client : CloseSocket(c)
         \/ \E c \in Client, t \in 1..MaxTickets : Redeem(c, t)
         \/ Crash
<1>1. CASE \E c \in Client, name \in Name : DoSetup(c, name) \/ Accept(c, name, "player")
  BY <1>1, Zenon DEF DoSetup, Accept, memory
<1>2. CASE \E c \in Client, u \in 1..Len(users) : Login(c, u)
  BY <1>2, SMTT(30) DEF Login, memory
<1>3. CASE \E c \in Client : \/ AskSetup(c) \/ SignOut(c) \/ AskTicket(c) \/ Authenticate(c)
                           \/ ReadMember(c) \/ Issue(c) \/ Abandon(c)
  BY <1>3 DEF AskSetup, SignOut, AskTicket, Authenticate, ReadMember, Issue, Abandon, memory
<1>4. CASE \E u \in 1..Len(users), newRole \in Role : SetRole(u, newRole)
  BY <1>4 DEF SetRole, memory
<1>5. CASE Tick
  BY <1>5 DEF Tick, memory
<1>6. CASE UNCHANGED vars
  BY <1>6 DEF vars, memory
<1> QED BY <1>1, <1>2, <1>3, <1>4, <1>5, <1>6 DEF Next

(* A session opens with the role the world records at that moment, even if *)
(* it changed or was taken away since the ticket was issued (resolveRole). *)
THEOREM AccountsRoleIsCurrent == Spec => RoleIsCurrent
<1> DEFINE Opens(c) == socket'[c].at = "open" /\ socket[c].at # "open"
<1>1. ASSUME TypeOK, [Next]_vars, NEW c \in Client, Opens(c)
      PROVE  socket'[c].role = role[socket'[c].user]
  <2>1. socket \in [Client -> Sockets]
    BY <1>1 DEF TypeOK
  <2>2. ASSUME NEW d \in Client, ResolveRole(d) PROVE socket'[c].role = role[socket'[c].user]
    <3>1. d = c
      BY <1>1, <2>1, <2>2 DEF ResolveRole
    <3>2. socket'[c] # Closed
      BY <1>1 DEF Closed
    <3> QED BY <2>1, <2>2, <3>1, <3>2 DEF ResolveRole
  <2>3. ASSUME NEW d \in Client, NEW t \in 1..MaxTickets, Redeem(d, t) PROVE FALSE
    BY <1>1, <2>1, <2>3 DEF Redeem
  <2>4. ASSUME NEW d \in Client, CloseSocket(d) PROVE FALSE
    BY <1>1, <2>1, <2>4 DEF CloseSocket, Closed
  <2>5. ASSUME Crash PROVE FALSE
    <3>1. socket'[c] = Closed
      BY <2>5 DEF Crash
    <3> QED BY <1>1, <3>1 DEF Closed
  <2>6. socket' # socket
    BY <1>1
  <2> QED BY <1>1, <2>2, <2>3, <2>4, <2>5, <2>6, SocketUntouched
<1>2. TypeOK /\ [Next]_vars =>
         [\A c \in Client : Opens(c) => socket'[c].role = role[socket'[c].user]]_vars
  BY <1>1
<1> QED BY <1>2, AccountsTypeOK, PTL DEF Spec, RoleIsCurrent
-----------------------------------------------------------------------------
(* When no setup is in flight and there is an account, none begins, and    *)
(* accounts are added for people who accept an invite only.                *)
NoSetup == \A c \in Client : req[c].op # "setup"

(* Every action keeps it so (setupHandler asks NeedsSetup first).          *)
LEMMA NoSetupBegins ==
  ASSUME TypeOK, [Next]_vars, users # <<>>, NoSetup
  PROVE  /\ NoSetup'
         /\ \/ UNCHANGED users
            \/ \E name : users' = Append(users, [name |-> name, admin |-> FALSE])
<1>1. DOMAIN req = Client
  BY DEF TypeOK
<1>2. ASSUME NEW c \in Client, NEW step, step.op # "setup", Goto(c, step) PROVE NoSetup'
  BY <1>1, <1>2 DEF NoSetup, Goto
<1>3. Idle.op # "setup"
  BY DEF Idle
<1>4. ASSUME NEW c \in Client, NEW name \in Name, DoSetup(c, name) PROVE FALSE
  BY <1>4 DEF DoSetup, NoSetup
<1>5. ASSUME NEW c \in Client, AskSetup(c) PROVE FALSE
  BY <1>5 DEF AskSetup, NeedsSetup
<1>6. CASE \E c \in Client, name \in Name : Accept(c, name, "player")
  BY <1>6, Zenon DEF Accept, CreateUser, memory, NoSetup
<1>7. CASE \E c \in Client, u \in 1..Len(users) : Login(c, u)
  BY <1>7, SMTT(30) DEF Login, memory, NoSetup
<1>8. CASE \E c \in Client : SignOut(c) \/ ResolveRole(c) \/ CloseSocket(c)
  BY <1>8 DEF SignOut, ResolveRole, CloseSocket, memory, database, NoSetup
<1>9. ASSUME NEW c \in Client,
             AskTicket(c) \/ Authenticate(c) \/ ReadMember(c) \/ Issue(c) \/ Abandon(c)
      PROVE  UNCHANGED users /\ \E step : step.op # "setup" /\ Goto(c, step)
  <2>1. CASE AskTicket(c)
    BY <2>1 DEF AskTicket, database
  <2>2. CASE Authenticate(c)
    BY <1>3, <2>2 DEF Authenticate
  <2>3. CASE ReadMember(c)
    BY <1>3, <2>3 DEF ReadMember, database
  <2>4. CASE Issue(c) \/ Abandon(c)
    BY <1>3, <2>4 DEF Issue, Abandon, database
  <2> QED BY <1>9, <2>1, <2>2, <2>3, <2>4
<1>10. CASE \E c \in Client, t \in 1..MaxTickets : Redeem(c, t)
  BY <1>10 DEF Redeem, database, NoSetup
<1>11. CASE \E u \in 1..Len(users), newRole \in Role : SetRole(u, newRole)
  BY <1>11 DEF SetRole, memory, NoSetup
<1>12. CASE Tick
  BY <1>12 DEF Tick, database, memory, NoSetup
<1>13. CASE Crash
  BY <1>3, <1>13 DEF Crash, database, NoSetup
<1>14. CASE UNCHANGED vars
  BY <1>14 DEF vars, database, memory, NoSetup
<1>15. CASE \E c \in Client :
               AskTicket(c) \/ Authenticate(c) \/ ReadMember(c) \/ Issue(c) \/ Abandon(c)
  BY <1>2, <1>9, <1>15
<1> QED
  BY <1>4, <1>5, <1>6, <1>7, <1>8, <1>10, <1>11, <1>12, <1>13, <1>14, <1>15, Zenon DEF Next

(* Once there is an account and the setups that had begun before are over, *)
(* nobody becomes an administrator any more (setupHandler, NeedsSetup).    *)
THEOREM AccountsSetupCloses == Spec => SetupCloses
<1> DEFINE Quiet == users # <<>> /\ \A c \in Client : req[c].op # "setup"
           Stays == Admins' = Admins /\ \A c \in Client : req'[c].op # "setup"
<1>1. ASSUME TypeOK, [Next]_vars, Quiet PROVE Stays
  <2>1. /\ NoSetup'
        /\ \/ UNCHANGED users
           \/ \E name : users' = Append(users, [name |-> name, admin |-> FALSE])
    BY <1>1, NoSetupBegins, Zenon DEF NoSetup
  <2>2. ASSUME NEW name, users' = Append(users, [name |-> name, admin |-> FALSE])
        PROVE  Admins' = Admins
    <3>1. users \in Seq([name : Name, admin : BOOLEAN]) /\ Len(users) \in Nat
      BY <1>1 DEF TypeOK
    <3>2. /\ Len(users') = Len(users) + 1 /\ ~users'[Len(users) + 1].admin
          /\ \A i \in 1..Len(users) : users'[i] = users[i]
      BY <2>2, <3>1
    <3> QED BY <3>1, <3>2 DEF Admins
  <2> QED BY <2>1, <2>2, Zenon DEF NoSetup, Admins
<1>2. TypeOK /\ [Next]_vars => [Quiet => Stays]_vars
  BY <1>1
<1> QED BY <1>2, AccountsTypeOK, PTL DEF Spec, SetupCloses
-----------------------------------------------------------------------------
(* What holds of an entry while n logins with its key are being verified.  *)
(* Below the burst it is not locked.  From there on it is locked for as    *)
(* long as it is in the window, so that nobody new is let in, and those    *)
(* that are in already may each add one failure.                           *)
Sound(entry, n) ==
    /\ entry.failures < Burst => entry.lock = Unlocked
    /\ entry.failures >= Burst =>
          /\ entry.age <= Window => entry.lock + entry.age >= Lockout
          /\ entry.failures + n <= Burst - 1 + Cardinality(Caller)

LimiterInv ==
    LimiterTypeOK /\ \A k \in DOMAIN attempts : Sound(attempts[k], Cardinality(InFlight(k)))

(* An entry, or the one Fail starts with.                                  *)
Counted == [failures : Nat, age : 0..Window + 1, lock : Unlocked..Lockout]

(* The logins with a key are finitely many, and no more than the clients.  *)
LEMMA InFlightFinite ==
    ASSUME NEW k
    PROVE  /\ IsFiniteSet(InFlight(k)) /\ Cardinality(InFlight(k)) \in Nat
           /\ Cardinality(Caller) \in Nat
           /\ Cardinality(InFlight(k)) <= Cardinality(Caller)
<1>1. InFlight(k) \in SUBSET Caller
  BY DEF InFlight
<1>2. IsFiniteSet(Caller)
  BY LimiterAssumption
<1>3. IsFiniteSet(InFlight(k)) /\ Cardinality(InFlight(k)) <= Cardinality(Caller)
  BY <1>1, <1>2, FS_Subset
<1>4. Cardinality(Caller) \in Nat /\ Cardinality(InFlight(k)) \in Nat
  BY <1>2, <1>3, FS_CardinalityType
<1>5. QED
  BY <1>3, <1>4

(* Time passes for an entry (Allow and Fail read the clock).               *)
LEMMA LaterSound ==
    ASSUME NEW entry \in Entry, NEW n \in Nat, Sound(entry, n)
    PROVE  Later(entry) \in Entry /\ Sound(Later(entry), n)
<1> DEFINE age == IF entry.age > Window THEN entry.age ELSE entry.age + 1
           lock == IF entry.lock < 0 THEN entry.lock ELSE entry.lock - 1
<1>1. Later(entry) = [failures |-> entry.failures, age |-> age, lock |-> lock]
  BY DEF Later
<1>2. age \in 0..Window + 1 /\ lock \in Unlocked..Lockout
  BY LimiterAssumption DEF Entry, Unlocked
<1>3. Later(entry) \in Entry
  BY <1>1, <1>2 DEF Entry
<1>4. entry.failures < Burst => lock = Unlocked
  BY DEF Sound, Entry, Unlocked
<1>5. entry.failures >= Burst =>
         /\ age <= Window => lock + age >= Lockout
         /\ entry.failures + n <= Burst - 1 + Cardinality(Caller)
  BY LimiterAssumption DEF Sound, Entry, Unlocked
<1>6. QED
  BY <1>1, <1>3, <1>4, <1>5 DEF Sound

(* One of the logins with a key fails (Fail).                              *)
LEMMA FailedSound ==
    ASSUME NEW entry \in Counted, NEW n \in Nat, Sound(entry, n),
           n > 0, n <= Cardinality(Caller), Cardinality(Caller) \in Nat
    PROVE  Failed(entry) \in Entry /\ Sound(Failed(entry), n - 1)
<1> DEFINE failures == entry.failures + 1
           lock == IF failures >= Burst THEN Lockout ELSE entry.lock
<1>1. Failed(entry) = [failures |-> failures, age |-> entry.age, lock |-> lock]
  BY DEF Failed
<1>2. failures \in Nat \ {0} /\ lock \in Unlocked..Lockout
  BY LimiterAssumption DEF Counted, Unlocked
<1>3. Failed(entry) \in Entry
  BY <1>1, <1>2 DEF Entry, Counted
<1>4. failures < Burst => lock = Unlocked
  BY LimiterAssumption DEF Sound, Counted
<1>5. failures >= Burst =>
         /\ entry.age <= Window => lock + entry.age >= Lockout
         /\ failures + (n - 1) <= Burst - 1 + Cardinality(Caller)
  BY LimiterAssumption DEF Sound, Counted
<1>6. QED
  BY <1>1, <1>3, <1>4, <1>5 DEF Sound

(* NewLimiter tracks nothing.                                              *)
LEMMA LimiterInvInit == LimiterInit => LimiterInv
BY DEF LimiterInit, LimiterInv, LimiterTypeOK

(* Allow lets a login in only where the entry, if it stays, is below the   *)
(* burst.                                                                  *)
LEMMA AllowStep ==
    ASSUME LimiterInv, NEW c \in Caller, NEW ks \in SUBSET Key, Allow(c, ks)
    PROVE  LimiterInv'
<1>1. CASE \E k \in ks : Locked(k)
  <2>1. login' = login /\ \A k : InFlight(k)' = InFlight(k)
    BY <1>1 DEF Allow, InFlight
  <2>2. \A k \in DOMAIN attempts' : k \in DOMAIN attempts /\ attempts'[k] = attempts[k]
    BY <1>1, SMTT(30) DEF Allow, Forgetting
  <2>3. QED
    BY <2>1, <2>2 DEF LimiterInv, LimiterTypeOK
<1>2. CASE ~\E k \in ks : Locked(k)
  <2>1. login' = [login EXCEPT ![c] = ks] /\ attempts' = Forgetting({k \in ks : Expired(k)})
    BY <1>2 DEF Allow
  <2>2. \A k \in DOMAIN attempts' : k \in DOMAIN attempts /\ attempts'[k] = attempts[k]
    BY <2>1 DEF Forgetting
  <2>3. login' \in [Caller -> SUBSET Key]
    BY <2>1 DEF LimiterInv, LimiterTypeOK
  <2>4. ASSUME NEW k \in DOMAIN attempts' PROVE Sound(attempts'[k], Cardinality(InFlight(k)'))
    <3>1. /\ k \in DOMAIN attempts /\ attempts'[k] = attempts[k] /\ attempts[k] \in Entry
          /\ Sound(attempts[k], Cardinality(InFlight(k)))
      BY <2>2, <2>4 DEF LimiterInv, LimiterTypeOK
    <3>2. CASE k \in ks
      <4>1. ~Locked(k) /\ ~Expired(k)
        BY <1>2, <2>1, <2>4, <3>2, SMTT(30) DEF Forgetting
      <4>2. attempts[k].lock <= 0 /\ attempts[k].age <= Window
        BY <3>1, <4>1, LimiterAssumption DEF Locked, Expired, Has, Entry, Unlocked
      <4>3. attempts[k].failures < Burst
        BY <3>1, <4>2, LimiterAssumption, SMTT(30) DEF Sound, Entry, Unlocked
      <4>4. QED
        BY <3>1, <4>3, LimiterAssumption DEF Sound, Entry
    <3>3. CASE k \notin ks
      <4>1. InFlight(k)' = InFlight(k)
        BY <2>1, <3>3, SMTT(30) DEF InFlight, LimiterInv, LimiterTypeOK, Allow
      <4>2. QED
        BY <3>1, <4>1, SMTT(30)
    <3>4. QED
      BY <3>2, <3>3
  <2>5. QED
    BY <2>2, <2>3, <2>4 DEF LimiterInv, LimiterTypeOK
<1>3. QED
  BY <1>1, <1>2, SMTT(30)

(* Fail: each login adds one failure to its keys and is over.              *)
LEMMA FailStep ==
    ASSUME LimiterInv, NEW c \in Caller, Fail(c)
    PROVE  LimiterInv'
<1> DEFINE ks == login[c]
           kept == DOMAIN attempts \ Swept
<1>1. /\ ks \subseteq Key /\ kept \subseteq DOMAIN attempts
      /\ login' = [login EXCEPT ![c] = {}]
      /\ DOMAIN attempts' = kept \cup ks
      /\ \A k \in kept \cup ks :
            attempts'[k] = IF k \notin ks THEN attempts[k]
                           ELSE IF k \notin kept \/ Expired(k) THEN Failed(Fresh)
                           ELSE Failed(attempts[k])
  BY SMTT(30) DEF Fail, LimiterInv, LimiterTypeOK
<1>2. login' \in [Caller -> SUBSET Key]
  BY <1>1 DEF LimiterInv, LimiterTypeOK
<1>3. Fresh \in Counted /\ \A n \in Nat : Sound(Fresh, n)
  BY LimiterAssumption DEF Fresh, Counted, Sound, Unlocked
<1>4. ASSUME NEW k \in kept \cup ks
      PROVE  attempts'[k] \in Entry /\ Sound(attempts'[k], Cardinality(InFlight(k)'))
  <2>1. CASE k \notin ks
    <3>1. InFlight(k)' = InFlight(k)
      BY <1>1, <2>1, SMTT(30) DEF InFlight, LimiterInv, LimiterTypeOK
    <3>2. QED
      BY <1>1, <2>1, <3>1, SMTT(30) DEF LimiterInv, LimiterTypeOK
  <2>2. CASE k \in ks
    <3> DEFINE n == Cardinality(InFlight(k))
    <3>1. c \in InFlight(k) /\ InFlight(k)' = InFlight(k) \ {c}
      BY <1>1, <2>2 DEF InFlight, LimiterInv, LimiterTypeOK
    <3>2. /\ IsFiniteSet(InFlight(k)) /\ n \in Nat /\ n <= Cardinality(Caller)
          /\ Cardinality(Caller) \in Nat
      BY InFlightFinite
    <3>3. Cardinality(InFlight(k)') = n - 1 /\ IsFiniteSet(InFlight(k) \ {c})
      BY <3>1, <3>2, FS_RemoveElement
    <3>4. n - 1 \in Nat
      BY <3>1, <3>3, FS_CardinalityType, SMTT(30)
    <3>5. CASE k \notin kept \/ Expired(k)
      <4>1. Failed(Fresh) \in Entry /\ Sound(Failed(Fresh), n - 1)
        BY <1>3, <3>2, <3>4, FailedSound, SMTT(30)
      <4>2. QED
        BY <1>1, <2>2, <3>3, <3>5, <4>1
    <3>6. CASE ~(k \notin kept \/ Expired(k))
      <4>1. attempts[k] \in Counted /\ Sound(attempts[k], n)
        BY <1>1, <3>6, SMTT(30) DEF LimiterInv, LimiterTypeOK, Entry, Counted
      <4>2. Failed(attempts[k]) \in Entry /\ Sound(Failed(attempts[k]), n - 1)
        BY <3>2, <3>4, <4>1, FailedSound
      <4>3. QED
        BY <1>1, <2>2, <3>3, <3>6, <4>2, SMTT(30)
    <3>7. QED
      BY <3>5, <3>6, SMTT(30)
  <2>3. QED
    BY <2>1, <2>2, SMTT(30)
<1>5. QED
  BY <1>1, <1>2, <1>4 DEF LimiterInv, LimiterTypeOK

(* Every step of a login, and of the clock, keeps the invariant.           *)
LEMMA LimiterInvStep == LimiterInv /\ [LimiterNext]_limiterVars => LimiterInv'
<1> SUFFICES ASSUME LimiterInv, [LimiterNext]_limiterVars PROVE LimiterInv'
  OBVIOUS
<1>1. ASSUME NEW c \in Caller, NEW u \in Username, NEW a \in Address, Allow(c, keysFor(u, a))
      PROVE  LimiterInv'
  <2>1. keysFor(u, a) \in SUBSET Key
    BY DEF Key
  <2>2. QED
    BY <1>1, <2>1, AllowStep
<1>2. ASSUME NEW c \in Caller, Fail(c) PROVE LimiterInv'
  BY <1>2, FailStep
<1>3. ASSUME NEW c \in Caller, Succeed(c) PROVE LimiterInv'
  <2>1. /\ login' = [login EXCEPT ![c] = {}]
        /\ DOMAIN attempts' = DOMAIN attempts \ login[c]
        /\ \A k \in DOMAIN attempts' : attempts'[k] = attempts[k]
    BY <1>3 DEF Succeed, Forgetting
  <2>2. \A k \in DOMAIN attempts' : InFlight(k)' = InFlight(k)
    BY <2>1 DEF InFlight, LimiterInv, LimiterTypeOK
  <2>3. login' \in [Caller -> SUBSET Key]
    BY <2>1, SMTT(30) DEF LimiterInv, LimiterTypeOK
  <2>4. QED
    BY <2>1, <2>2, <2>3 DEF LimiterInv, LimiterTypeOK
<1>4. CASE Elapse
  <2>1. /\ login' = login /\ DOMAIN attempts' = DOMAIN attempts
        /\ \A k \in DOMAIN attempts : attempts'[k] = Later(attempts[k])
    BY <1>4 DEF Elapse
  <2>2. ASSUME NEW k \in DOMAIN attempts
        PROVE  attempts'[k] \in Entry /\ Sound(attempts'[k], Cardinality(InFlight(k)'))
    <3>1. InFlight(k)' = InFlight(k) /\ Cardinality(InFlight(k)) \in Nat
      BY <2>1, InFlightFinite DEF InFlight
    <3>2. attempts[k] \in Entry /\ Sound(attempts[k], Cardinality(InFlight(k)))
      BY DEF LimiterInv, LimiterTypeOK
    <3>3. QED
      BY <2>1, <3>1, <3>2, LaterSound
  <2>3. QED
    BY <2>1, <2>2 DEF LimiterInv, LimiterTypeOK
<1>5. CASE UNCHANGED limiterVars
  BY <1>5 DEF limiterVars, LimiterInv, LimiterTypeOK, InFlight
<1>6. QED
  BY <1>1, <1>2, <1>3, <1>4, <1>5 DEF LimiterNext

(* However many logins overlap, a username or address never collects more  *)
(* failures than the burst and the logins already let in (Allow and Fail). *)
THEOREM LimiterFailuresBounded == LimiterSpec => []FailuresBounded
<1>1. LimiterInv => FailuresBounded
  <2> SUFFICES ASSUME LimiterInv, NEW k \in DOMAIN attempts
               PROVE  attempts[k].failures <= Burst - 1 + Cardinality(Caller)
    BY DEF FailuresBounded
  <2>1. attempts[k] \in Entry /\ Sound(attempts[k], Cardinality(InFlight(k)))
    BY DEF LimiterInv, LimiterTypeOK
  <2>2. QED
    BY <2>1, InFlightFinite, LimiterAssumption DEF Sound, Entry
<1>2. QED
  BY LimiterInvInit, LimiterInvStep, <1>1, PTL DEF LimiterSpec

(* The limiter's map is what it is meant to be (Limiter.attempts).         *)
THEOREM LimiterTyped == LimiterSpec => []LimiterTypeOK
<1>1. LimiterInv => LimiterTypeOK
  BY SMTT(30) DEF LimiterInv
<1>2. QED
  BY LimiterInvInit, LimiterInvStep, <1>1, PTL DEF LimiterSpec

(* What a step does to the logins with a key and to the key's entry: Allow *)
(* changes neither unless it lets a login in at a key that is not locked,  *)
(* and deletes expired entries; a login that ends leaves the keys of       *)
(* others alone, but for entries the sweep drops.                          *)
LEMMA StepOfKey ==
    ASSUME LimiterTypeOK, [LimiterNext]_limiterVars, NEW k \in DOMAIN attempts
    PROVE  \/ /\ InFlight(k)' = InFlight(k)
              /\ k \in DOMAIN attempts' /\ attempts'[k] \in {attempts[k], Later(attempts[k])}
           \/ /\ InFlight(k)' = InFlight(k)
              /\ ~Locked(k) /\ Expired(k) /\ k \notin DOMAIN attempts'
           \/ /\ InFlight(k) \subseteq InFlight(k)'
              /\ ~Locked(k)
              /\ Expired(k) \/ (k \in DOMAIN attempts' /\ attempts'[k] = attempts[k])
           \/ \E c \in InFlight(k) :
                 /\ InFlight(k)' = InFlight(k) \ {c}
                 /\ login'[c] = {}
                 /\ \/ k \notin DOMAIN attempts'
                    \/ Expired(k)
                    \/ k \in DOMAIN attempts' /\ attempts'[k] = Failed(attempts[k])
<1> USE DEF LimiterTypeOK
<1>1. ASSUME NEW c \in Caller, NEW u \in Username, NEW a \in Address, Allow(c, keysFor(u, a)),
             \E x \in keysFor(u, a) : Locked(x)
      PROVE  /\ InFlight(k)' = InFlight(k)
             /\ \/ k \in DOMAIN attempts' /\ attempts'[k] = attempts[k]
                \/ ~Locked(k) /\ Expired(k) /\ k \notin DOMAIN attempts'
  BY <1>1, SMTT(30) DEF Allow, Forgetting, InFlight
<1>2. ASSUME NEW c \in Caller, NEW u \in Username, NEW a \in Address, Allow(c, keysFor(u, a)),
             ~\E x \in keysFor(u, a) : Locked(x)
      PROVE  \/ /\ k \in keysFor(u, a) /\ ~Locked(k) /\ InFlight(k) \subseteq InFlight(k)'
                /\ Expired(k) \/ (k \in DOMAIN attempts' /\ attempts'[k] = attempts[k])
             \/ /\ InFlight(k)' = InFlight(k)
                /\ k \in DOMAIN attempts' /\ attempts'[k] = attempts[k]
  BY <1>2, SMTT(30) DEF Allow, Forgetting, InFlight
<1>3. ASSUME NEW c \in Caller, Fail(c) \/ Succeed(c), k \notin login[c]
      PROVE  /\ InFlight(k)' = InFlight(k)
             /\ \/ k \in DOMAIN attempts' /\ attempts'[k] = attempts[k]
                \/ ~Locked(k) /\ Expired(k) /\ k \notin DOMAIN attempts'
  <2>1. InFlight(k)' = InFlight(k)
    BY <1>3 DEF Fail, Succeed, InFlight
  <2>2. CASE Succeed(c)
    BY <1>3, <2>1, <2>2, SMTT(30) DEF Succeed, Forgetting
  <2>3. CASE Fail(c)
    <3>1. /\ DOMAIN attempts' = (DOMAIN attempts \ Swept) \cup login[c]
          /\ k \in DOMAIN attempts' => attempts'[k] = attempts[k]
      BY <1>3, <2>3, SMTT(30) DEF Fail
    <3>2. k \in Swept => ~Locked(k) /\ Expired(k)
      BY LimiterAssumption, SMTT(30) DEF Swept, Locked, Entry, Unlocked
    <3>3. QED
      BY <1>3, <2>1, <3>1, <3>2
  <2>4. QED
    BY <1>3, <2>2, <2>3
<1>4. ASSUME NEW c \in Caller, Fail(c) \/ Succeed(c), k \in login[c]
      PROVE  /\ c \in InFlight(k) /\ InFlight(k)' = InFlight(k) \ {c} /\ login'[c] = {}
             /\ \/ k \notin DOMAIN attempts'
                \/ Expired(k)
                \/ k \in DOMAIN attempts' /\ attempts'[k] = Failed(attempts[k])
  <2>1. /\ c \in InFlight(k) /\ InFlight(k)' = InFlight(k) \ {c} /\ login'[c] = {}
    BY <1>4 DEF Fail, Succeed, InFlight
  <2>2. CASE Succeed(c)
    BY <1>4, <2>1, <2>2, SMTT(30) DEF Succeed, Forgetting
  <2>3. CASE Fail(c)
    <3>1. /\ DOMAIN attempts' = (DOMAIN attempts \ Swept) \cup login[c]
          /\ k \in DOMAIN attempts \ Swept /\ ~Expired(k) => attempts'[k] = Failed(attempts[k])
      BY <1>4, <2>3 DEF Fail
    <3>2. k \in Swept => Expired(k)
      BY DEF Swept
    <3>3. QED
      BY <1>4, <2>1, <3>1, <3>2
  <2>4. QED
    BY <1>4, <2>2, <2>3
<1>5. CASE Elapse
  BY <1>5 DEF Elapse, InFlight
<1>6. CASE UNCHANGED limiterVars
  BY <1>6 DEF limiterVars, InFlight
<1>7. QED
  BY <1>1, <1>2, <1>3, <1>4, <1>5, <1>6, Zenon DEF LimiterNext

(* No login is let in during a lockout, and only its time or a login from  *)
(* before ends it (Allow, Fail, Succeed and sweepLocked).                  *)
THEOREM LimiterLockoutHolds == LimiterSpec => LockoutHolds
<1>1. ASSUME LimiterTypeOK, [LimiterNext]_limiterVars, NEW k \in Key, Locked(k)
      PROVE  /\ InFlight(k)' \subseteq InFlight(k)
             /\ \/ Locked(k)'
                \/ Has(k)' /\ attempts'[k].lock = 0
                \/ InFlight(k)' # InFlight(k)
  <2>1. k \in DOMAIN attempts /\ attempts[k] \in Entry /\ attempts[k].lock > 0
    BY <1>1, SMTT(30) DEF Locked, Has, LimiterTypeOK
  <2>2. \/ /\ InFlight(k)' = InFlight(k)
           /\ k \in DOMAIN attempts' /\ attempts'[k] \in {attempts[k], Later(attempts[k])}
        \/ \E c \in InFlight(k) : InFlight(k)' = InFlight(k) \ {c}
    BY <1>1, <2>1, StepOfKey
  <2>3. Later(attempts[k]).lock = attempts[k].lock - 1
    BY <2>1, LimiterAssumption DEF Later, Entry, Unlocked
  <2>4. attempts[k].lock \in Int
    BY <2>1, LimiterAssumption DEF Entry, Unlocked
  <2>5. QED
    BY <2>1, <2>2, <2>3, <2>4, SMTT(30) DEF Locked, Has
<1>2. LimiterTypeOK /\ [LimiterNext]_limiterVars =>
        [\A k \in Key : Locked(k) =>
          /\ InFlight(k)' \subseteq InFlight(k)
          /\ \/ Locked(k)'
             \/ Has(k)' /\ attempts'[k].lock = 0
             \/ InFlight(k)' # InFlight(k)]_limiterVars
  BY <1>1
<1>3. QED
  BY <1>2, LimiterTyped, PTL DEF LimiterSpec, LockoutHolds

(* A failure is counted until its window is over, or until a login with    *)
(* that username or address succeeds (Allow, Fail and sweepLocked).        *)
THEOREM LimiterCountsWholeWindow == LimiterSpec => CountsWholeWindow
<1>1. ASSUME LimiterTypeOK, [LimiterNext]_limiterVars, NEW k \in DOMAIN attempts, ~Expired(k)
      PROVE  \/ Has(k)' /\ attempts'[k].failures >= attempts[k].failures
             \/ ~Has(k)' /\ \E c \in Caller : k \in login[c] /\ login'[c] = {}
  <2>1. attempts[k].failures \in Nat
    BY <1>1 DEF LimiterTypeOK, Entry
  <2>2. /\ Later(attempts[k]).failures = attempts[k].failures
        /\ Failed(attempts[k]).failures = attempts[k].failures + 1
    BY DEF Later, Failed
  <2>3. \A c \in InFlight(k) : c \in Caller /\ k \in login[c]
    BY SMTT(30) DEF InFlight
  <2>4. QED
    BY <1>1, <2>1, <2>2, <2>3, StepOfKey DEF Has
<1>2. LimiterTypeOK /\ [LimiterNext]_limiterVars =>
        [\A k \in DOMAIN attempts :
          ~Expired(k) =>
              \/ Has(k)' /\ attempts'[k].failures >= attempts[k].failures
              \/ ~Has(k)' /\ \E c \in Caller : k \in login[c] /\ login'[c] = {}]_limiterVars
  BY <1>1
<1>3. QED
  BY <1>2, LimiterTyped, PTL DEF LimiterSpec, CountsWholeWindow
=============================================================================
