------------------------------ MODULE Limiter -------------------------------
(***************************************************************************)
(* The limiter of failed logins (internal/core/auth/ratelimit.go) and the  *)
(* logins that use it (Login in service.go).  A login asks Allow, verifies *)
(* the password under no lock, which takes a while, and then reports Fail  *)
(* or Succeed; others do the same meanwhile.                               *)
(*                                                                         *)
(* Times are kept relative to the clock: the age of an entry is            *)
(* now - firstSeen, and lock is lockedTil - now.  Past Window the age and  *)
(* past the lockout the lock no longer matter, so both stop there; the     *)
(* zero time of an entry that was never locked lies past.                  *)
(***************************************************************************)
EXTENDS Integers, FiniteSets

CONSTANTS
    Caller,     \* logins that may be in progress at the same time
    Username,   \* normalised usernames
    Address,    \* remote addresses
    Burst,      \* Limits
    Window,
    Lockout,
    MaxTracked

(* As in DefaultLimits, a lockout outlasts the window.                     *)
ASSUME LimiterAssumption ==
    /\ IsFiniteSet(Caller)
    /\ Burst \in Nat \ {0} /\ Window \in Nat /\ Lockout \in Nat /\ Window < Lockout
    /\ MaxTracked \in Nat

VARIABLES
    attempts,   \* Limiter.attempts, a function of the keys it has
    login       \* login[c]: the keys of the login that c verifies, or {}

limiterVars == <<attempts, login>>

(* keysFor                                                                 *)
keysFor(user, addr) ==
    {<<"user", u>> : u \in {user} \ {""}} \cup {<<"addr", a>> : a \in {addr} \ {""}}

Key == UNION {keysFor(u, a) : u \in Username, a \in Address}
Unlocked == -1
Entry == [failures : Nat \ {0}, age : 0..Window + 1, lock : Unlocked..Lockout]

Has(k) == k \in DOMAIN attempts
Locked(k) == Has(k) /\ attempts[k].lock > 0
Expired(k) == Has(k) /\ attempts[k].age > Window
Forgetting(ks) == [k \in DOMAIN attempts \ ks |-> attempts[k]]
InFlight(k) == {c \in Caller : k \in login[c]}

LimiterInit ==
    /\ attempts = [k \in {} |-> 0]
    /\ login = [c \in Caller |-> {}]
-----------------------------------------------------------------------------
(* Wrong: another try while locked starts the lockout again.               *)
AllowExtending(c, ks) ==
    /\ login[c] = {}
    /\ IF \E k \in ks : Locked(k)
       THEN /\ attempts' = [k \in DOMAIN attempts |->
                              IF k \in ks /\ Locked(k) THEN [attempts[k] EXCEPT !.lock = Lockout]
                              ELSE attempts[k]]
            /\ UNCHANGED login
       ELSE /\ attempts' = Forgetting({k \in ks : Expired(k)})
            /\ login' = [login EXCEPT ![c] = ks]

(* Wrong: the username is looked at, the address is not.                   *)
AllowByName(c, ks) ==
    /\ login[c] = {}
    /\ IF \E k \in ks : k[1] = "user" /\ Locked(k) THEN UNCHANGED limiterVars
       ELSE /\ attempts' = Forgetting({k \in ks : Expired(k)})
            /\ login' = [login EXCEPT ![c] = ks]

(* Allow, at the start of Login.  Refused at one key, it may already have  *)
(* deleted the one before: keysFor puts the username first.                *)
Allow(c, ks) ==
    /\ login[c] = {}
    /\ IF \E k \in ks : Locked(k)
       THEN /\ attempts' = Forgetting({k \in ks : k[1] = "user" /\ ~Locked(k) /\ Expired(k)})
            /\ UNCHANGED login
       ELSE /\ attempts' = Forgetting({k \in ks : Expired(k)})
            /\ login' = [login EXCEPT ![c] = ks]

(* Wrong: forgets what is older than the window, locked or not.            *)
SweptByAge ==
    IF Cardinality(DOMAIN attempts) < MaxTracked THEN {}
    ELSE {k \in DOMAIN attempts : Expired(k)}

(* sweepLocked: what a full limiter drops.                                 *)
Swept ==
    IF Cardinality(DOMAIN attempts) < MaxTracked THEN {}
    ELSE {k \in DOMAIN attempts : attempts[k].lock < 0 /\ Expired(k)}

(* An entry after one more failure.                                        *)
Failed(entry) ==
    [failures |-> entry.failures + 1, age |-> entry.age,
     lock |-> IF entry.failures + 1 >= Burst THEN Lockout ELSE entry.lock]
Fresh == [failures |-> 0, age |-> 0, lock |-> Unlocked]

(* Fail: nobody by that name, or not this password.                        *)
Fail(c) ==
    /\ login[c] # {}
    /\ LET ks == login[c]
           kept == DOMAIN attempts \ Swept
       IN attempts' = [k \in kept \cup ks |->
              IF k \notin ks THEN attempts[k]
              ELSE IF k \notin kept \/ Expired(k) THEN Failed(Fresh)
              ELSE Failed(attempts[k])]
    /\ login' = [login EXCEPT ![c] = {}]

(* Succeed: the failures of both keys are forgotten.                       *)
Succeed(c) ==
    /\ login[c] # {}
    /\ attempts' = Forgetting(login[c])
    /\ login' = [login EXCEPT ![c] = {}]

(* The clock moves on.                                                     *)
Later(entry) ==
    [failures |-> entry.failures,
     age |-> IF entry.age > Window THEN entry.age ELSE entry.age + 1,
     lock |-> IF entry.lock < 0 THEN entry.lock ELSE entry.lock - 1]
Elapse ==
    /\ attempts' = [k \in DOMAIN attempts |-> Later(attempts[k])]
    /\ UNCHANGED login

LimiterNext ==
    \/ \E c \in Caller, u \in Username, a \in Address : Allow(c, keysFor(u, a))
    \/ \E c \in Caller : Fail(c) \/ Succeed(c)
    \/ Elapse

LimiterSpec == LimiterInit /\ [][LimiterNext]_limiterVars

(* Time passes; nobody need log in, and a verification need not end.       *)
LimiterFairSpec == LimiterSpec /\ WF_limiterVars(Elapse)
-----------------------------------------------------------------------------
LimiterTypeOK ==
    /\ DOMAIN attempts \subseteq Key
    /\ \A k \in DOMAIN attempts : attempts[k] \in Entry
    /\ login \in [Caller -> SUBSET Key]

(* However logins overlap, the failures counted for a username or address  *)
(* never exceed the burst by more than the logins that were being verified *)
(* when it was reached.                                                    *)
FailuresBounded ==
    \A k \in DOMAIN attempts : attempts[k].failures <= Burst - 1 + Cardinality(Caller)

(* README.md:117 "a lockout that also applies to the correct password once *)
(* tripped": no login is let in at a locked username or address, and the   *)
(* lockout ends when its time is over, not when a full limiter sweeps.     *)
(* Only a login that was let in before can end it early: one that succeeds *)
(* late, or fails after the window and so starts a new count.              *)
LockoutHolds ==
    [][\A k \in Key : Locked(k) =>
          /\ InFlight(k)' \subseteq InFlight(k)
          /\ \/ Locked(k)'
             \/ Has(k)' /\ attempts'[k].lock = 0
             \/ InFlight(k)' # InFlight(k)]_limiterVars

(* Failures are forgotten when the window is over, or on a success with    *)
(* that username or address, and for no other reason.                      *)
CountsWholeWindow ==
    [][\A k \in DOMAIN attempts :
          ~Expired(k) =>
              \/ Has(k)' /\ attempts'[k].failures >= attempts[k].failures
              \/ ~Has(k)' /\ \E c \in Caller : k \in login[c] /\ login'[c] = {}]_limiterVars

(* Nobody is locked out for good, and trying to log in does not prolong a  *)
(* lockout: only logins that are already being verified can.               *)
LockoutEnds == \A k \in Key : Locked(k) ~> ~Locked(k)
=============================================================================
