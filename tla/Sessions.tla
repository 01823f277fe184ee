------------------------------ MODULE Sessions ------------------------------
(***************************************************************************)
(* Accounts, sessions and permissions of the user service, seen from the   *)
(* clients that use it through the API gateway.                            *)
(*                                                                         *)
(* A client registers, logs in and gets a cookie with a session token, and *)
(* then makes requests.  For each of them the gateway asks the service to  *)
(* verify the cookie and, when it is accepted, passes the request on with  *)
(* the user's id in a header.  A token younger than RenewalInterval is     *)
(* accepted without looking at the account; an older one makes the service *)
(* look the account up and issue a new token, which travels back with the  *)
(* answer.  The look-up, the new token and the request itself are separate *)
(* steps: the account may be deleted between any two of them.              *)
(*                                                                         *)
(* The token generator of the repository is an example: its tokens bear no *)
(* signature, and Decode takes every token that can be read and is not     *)
(* expired, whoever made it.  So a client may also send a token that the   *)
(* service did not give to it.                                             *)
(*                                                                         *)
(* The gateway is not part of the repository: it is modelled from the      *)
(* comment and the answers of VerifyAuthenticationHandler.                 *)
(***************************************************************************)
EXTENDS Integers, FiniteSets

CONSTANTS
    Clients,          \* those that send requests
    Admins,           \* clients to whose requests the gateway adds the admin header
    Services,         \* clients that are services and send their name
    Users,            \* user ids that NextID may return
    Credentials,      \* pairs of a spelling of a login and a password that a client may send
    Normal,           \* the login a spelling stands for once trimmed and lowered
    Blank,            \* the login of a spelling that trims to nothing
    OtherTokens,      \* for each client, tokens it may send that it did not get by logging in
    None,
    RenewalInterval,  \* userSessionRenewalInterval
    TTL,              \* userSessionTTL
    MaxLatency,       \* bound: time a request takes from its first step to its last
    MaxClock,         \* bound: time
    MaxFaults         \* bound: requests that fail on the way

ASSUME SessionsAssumption ==
    /\ Admins \subseteq Clients /\ Services \subseteq Clients
    /\ None \notin Clients \cup Users /\ None \notin [user: Users, createdAt: Nat, validTill: Nat]
    /\ OtherTokens \in [Clients -> SUBSET [user: Users, createdAt: Nat, validTill: Nat]]
    /\ RenewalInterval \in Nat \ {0} /\ TTL \in Nat /\ RenewalInterval < TTL
    /\ MaxLatency \in Nat /\ MaxClock \in Nat /\ MaxFaults \in Nat

VARIABLES
    clock,
    users,      \* the rows of the user table
    lock,       \* the client whose request holds updateUsersLock
    cookie,     \* the session token a client holds
    req,        \* the request of a client that is being handled
    faults,
    deletedOn,  \* history: when the deletion of a user was committed
    as,         \* history: the credentials that brought a client its cookie or the one it
                \* renews, None when it did not get it from the service
    answered,   \* history: when a client was last answered as a user
    read        \* history: the user whose data a client was answered last, asking as a user

vars == <<clock, users, lock, cookie, req, faults, deletedOn, as, answered, read>>
history == <<deletedOn, as, answered, read>>

Tokens == [user: Users, createdAt: Nat, validTill: Nat]

\* A client whose last request had the given outcome: "ok", "refused" (400, 401, 403, 404
\* and 409) or "error" (500).  Only an error is remembered.
Idle(result) == [pc |-> "idle", user |-> None, target |-> None, cred |-> None, token |-> None,
                 since |-> 0, result |-> IF result = "error" THEN "error" ELSE "none"]

Live(u) == users[u].login # None /\ users[u].deletedAt = None

Init ==
    /\ clock = 0
    /\ users = [u \in Users |-> [login |-> None, password |-> None, deletedAt |-> None]]
    /\ lock = None
    /\ cookie = [c \in Clients |-> None]
    /\ req = [c \in Clients |-> Idle("none")]
    /\ faults = 0
    /\ deletedOn = [u \in Users |-> None]
    /\ as = [c \in Clients |-> None]
    /\ answered = [c \in Clients |-> None]
    /\ read = [c \in Clients |-> None]

(***************************************************************************)
(* The ends of a request.                                                  *)
(***************************************************************************)

\* The request of c is answered without changing what the client holds.
Answer(c, result) ==
    /\ req' = [req EXCEPT ![c] = Idle(result)]
    /\ UNCHANGED <<cookie, as, answered>>

\* The request c made as a user is answered, with the renewed cookie if there is one.
AnswerUser(c, result) ==
    /\ req' = [req EXCEPT ![c] = Idle(result)]
    /\ cookie' = [cookie EXCEPT ![c] = IF req[c].token = None THEN @ ELSE req[c].token]
    /\ answered' = [answered EXCEPT ![c] = IF req[c].user = None THEN @ ELSE clock]
    /\ UNCHANGED as

\* The request of c goes on: the fields of f are set.
Proceed(c, pc, f) ==
    /\ req' = [req EXCEPT ![c] = [field \in DOMAIN @ |->
                  CASE field = "pc" -> pc
                    [] field = "result" -> "none"
                    [] OTHER -> IF field \in DOMAIN f THEN f[field] ELSE @[field]]]
    /\ UNCHANGED <<cookie, as, answered>>

(***************************************************************************)
(* Registration, in a transaction under the named lock updateUsersLock.    *)
(***************************************************************************)

WithLogin(l) == {u \in Users : users[u].login = l}

\* RegisterUserHandler and the first lines of Register: blank credentials are refused,
\* others go on to the transaction.
Register(c, spelling, password) ==
    /\ req[c].pc = "idle"
    /\ \/ Normal[spelling] = Blank /\ Answer(c, "refused")
       \/ /\ Normal[spelling] # Blank
          /\ Proceed(c, "register", [cred |-> <<Normal[spelling], password>>, since |-> clock])
    /\ read' = [read EXCEPT ![c] = None]
    /\ UNCHANGED <<clock, users, lock, faults, deletedOn>>

\* FindOne by login once the lock is held; every outcome but "not found" ends the
\* transaction and so gives the lock back: a live account with the same password is the
\* answer, a deleted one or another password is refused.
RegisterFindUnder(c, free) ==
    /\ req[c].pc = "register" /\ free
    /\ LET found == WithLogin(req[c].cred[1])
       IN  \/ /\ found = {}
              /\ lock' = c
              /\ Proceed(c, "store", [since |-> req[c].since])
           \/ \E u \in found :
                /\ Answer(c, IF Live(u) /\ users[u].password = req[c].cred[2]
                             THEN "ok" ELSE "refused")
                /\ UNCHANGED lock
    /\ UNCHANGED <<clock, users, faults, deletedOn, read>>

\* Faulty variant: Register without updateUsersLock.
RegisterFindUnlocked(c) == RegisterFindUnder(c, TRUE)

RegisterFind(c) == RegisterFindUnder(c, lock = None)

\* Store of a new user and the commit.  The login column is unique: the insert of a
\* login that another transaction stored meanwhile fails.
RegisterStore(c) ==
    /\ req[c].pc = "store"
    /\ \/ /\ WithLogin(req[c].cred[1]) # {}
          /\ Answer(c, "error")
          /\ UNCHANGED users
       \/ /\ WithLogin(req[c].cred[1]) = {}
          /\ \E u \in {v \in Users : users[v].login = None} :
                users' = [users EXCEPT ![u] = [login |-> req[c].cred[1],
                                               password |-> req[c].cred[2],
                                               deletedAt |-> None]]
          /\ Answer(c, "ok")
    /\ lock' = None
    /\ UNCHANGED <<clock, faults, deletedOn, read>>

(***************************************************************************)
(* Sessions.                                                               *)
(***************************************************************************)

\* Authenticate up to the token: the account is found by login, is not deleted, and the
\* hash of the password is the stored one.
Authenticate(c, spelling, password) ==
    /\ req[c].pc = "idle"
    /\ LET found == {u \in WithLogin(Normal[spelling]) : Live(u) /\ users[u].password = password}
       IN  \/ found = {} /\ Answer(c, "refused")
           \/ \E u \in found :
                Proceed(c, "login", [user |-> u, cred |-> <<Normal[spelling], password>>, since |-> clock])
    /\ read' = [read EXCEPT ![c] = None]
    /\ UNCHANGED <<clock, users, lock, faults, deletedOn>>

\* The client takes a token it was not given by the service for its cookie.
Present(c, token) ==
    /\ req[c].pc = "idle"
    /\ cookie' = [cookie EXCEPT ![c] = token]
    /\ as' = [as EXCEPT ![c] = None]
    /\ read' = [read EXCEPT ![c] = None]
    /\ UNCHANGED <<clock, users, lock, req, faults, deletedOn, answered>>

\* Decode: there is a token and its own ValidTill is not past.  Nothing tells a token of
\* Generate from another one.
Valid(token) == IF token = None THEN FALSE ELSE token.validTill >= clock

\* CreatedAt.After(now - userSessionRenewalInterval)
Fresh(token) == token.createdAt > clock - RenewalInterval

\* Faulty variant: the look-up only asks whether there is such a user.
Registered(u) == users[u].login # None

\* FindOne by id: the user is there and is not deleted.
MayRenew(u) == Live(u)

\* VerifyAuthentication of a request of c: a missing or expired token is refused; a fresh
\* one is accepted as it is; for another one the user is looked up.
Verify(c) ==
    /\ req[c].pc = "idle"
    /\ \/ /\ Valid(cookie[c]) => ~Fresh(cookie[c]) /\ ~MayRenew(cookie[c].user)
          /\ Answer(c, "refused")
       \/ /\ Valid(cookie[c]) /\ Fresh(cookie[c])
          /\ Proceed(c, "forward", [user |-> cookie[c].user, since |-> clock])
       \/ /\ Valid(cookie[c]) /\ ~Fresh(cookie[c]) /\ MayRenew(cookie[c].user)
          /\ Proceed(c, "renew", [user |-> cookie[c].user, since |-> clock])
    /\ read' = [read EXCEPT ![c] = None]
    /\ UNCHANGED <<clock, users, lock, faults, deletedOn>>

\* Generate
NewToken(c) == [user |-> req[c].user, createdAt |-> clock, validTill |-> clock + TTL]

\* generateSessionToken at the end of Authenticate: the answer brings the first cookie.
Login(c) ==
    /\ req[c].pc = "login"
    /\ req' = [req EXCEPT ![c] = Idle("ok")]
    /\ cookie' = [cookie EXCEPT ![c] = NewToken(c)]
    /\ as' = [as EXCEPT ![c] = req[c].cred]
    /\ answered' = [answered EXCEPT ![c] = clock]
    /\ UNCHANGED <<clock, users, lock, faults, deletedOn, read>>

\* Faulty variant: the token that is passed back is not a new one.
RenewOld(c) ==
    /\ req[c].pc = "renew"
    /\ Proceed(c, "forward", [token |-> cookie[c]])
    /\ UNCHANGED <<clock, users, lock, faults, deletedOn, read>>

\* generateSessionToken at the end of VerifyAuthentication.
Renew(c) ==
    /\ req[c].pc = "renew"
    /\ Proceed(c, "forward", [token |-> NewToken(c)])
    /\ UNCHANGED <<clock, users, lock, faults, deletedOn, read>>

\* The gateway passes on a request of an admin or a service that has no session.
ForwardUnverified(c) ==
    /\ req[c].pc = "idle" /\ cookie[c] = None /\ c \in Admins \cup Services
    /\ Proceed(c, "forward", [since |-> clock])
    /\ read' = [read EXCEPT ![c] = None]
    /\ UNCHANGED <<clock, users, lock, faults, deletedOn>>

(***************************************************************************)
(* Requests.  The first token provider that finds its header decides who   *)
(* the request is made by: user, then admin, then service.                 *)
(***************************************************************************)

Principal(c) ==
    CASE req[c].user # None -> "user"
      [] req[c].user = None /\ c \in Admins -> "admin"
      [] req[c].user = None /\ c \notin Admins -> "service"

\* Faulty variant: any authenticated principal may do anything.
AllowedAll(c, op, u) == TRUE

CanReadUser(c, u)   == Principal(c) = "user" => u = req[c].user
CanDeleteUser(c, u) == Principal(c) = "admin" \/ u = req[c].user

\* CanGetUserProfile and CanUpdateUserProfile.
CanUseProfile(c, u) == Principal(c) = "admin" \/ u = req[c].user

Allowed(c, op, u) ==
    CASE op = "readUser" -> CanReadUser(c, u)
      [] op = "deleteUser" -> CanDeleteUser(c, u)
      [] op \in {"getProfile", "updateProfile"} -> CanUseProfile(c, u)

AnswerRead(c, u, found) ==
    /\ AnswerUser(c, IF found THEN "ok" ELSE "refused")
    /\ read' = [read EXCEPT ![c] = IF found /\ Principal(c) = "user" THEN u ELSE None]

\* GetByID: a deleted user is still returned.
ReadUser(c, u) ==
    /\ req[c].pc = "forward"
    /\ AnswerRead(c, u, Allowed(c, "readUser", u) /\ users[u].login # None)
    /\ UNCHANGED <<clock, users, lock, faults, deletedOn>>

\* GetCurrentUserHandler takes the id from the principal and refuses one that is not a
\* user.
ReadCurrentUser(c) ==
    \/ Principal(c) = "user" /\ ReadUser(c, req[c].user)
    \/ /\ req[c].pc = "forward" /\ Principal(c) # "user"
       /\ AnswerRead(c, None, FALSE)
       /\ UNCHANGED <<clock, users, lock, faults, deletedOn>>

\* Get and Update of the profile service ask the user service about the user, in their
\* own name, and take a deleted one for missing.
UseProfile(c, u, op) ==
    /\ req[c].pc = "forward"
    /\ AnswerRead(c, u, Allowed(c, op, u) /\ Live(u))
    /\ UNCHANGED <<clock, users, lock, faults, deletedOn>>

RowFree(u) == \A c \in Clients : ~(req[c].pc = "delete" /\ req[c].target = u)

\* Delete up to the store: the permission, the row under LockUpdate, the early returns.
Delete(c, u) ==
    /\ req[c].pc = "forward"
    /\ \/ ~Allowed(c, "deleteUser", u) /\ AnswerUser(c, "refused")
       \/ Allowed(c, "deleteUser", u) /\ RowFree(u) /\ ~Live(u) /\ AnswerUser(c, "ok")
       \/ /\ Allowed(c, "deleteUser", u) /\ RowFree(u) /\ Live(u)
          /\ Proceed(c, "delete", [target |-> u])
    /\ UNCHANGED <<clock, users, lock, faults, deletedOn, read>>

\* SetDeletedAt(now), Store and the commit.
DeleteStore(c) ==
    /\ req[c].pc = "delete"
    /\ users' = [users EXCEPT ![req[c].target].deletedAt = clock]
    /\ deletedOn' = [deletedOn EXCEPT ![req[c].target] = clock]
    /\ AnswerUser(c, "ok")
    /\ UNCHANGED <<clock, lock, faults, read>>

\* A request fails or its client gives up: the transaction is rolled back.
Fail(c) ==
    /\ faults < MaxFaults
    /\ req[c].pc # "idle"
    /\ faults' = faults + 1
    /\ lock' = IF lock = c THEN None ELSE lock
    /\ Answer(c, "error")
    /\ UNCHANGED <<clock, users, deletedOn, read>>

Tick ==
    /\ clock < MaxClock
    /\ \A c \in Clients : req[c].pc # "idle" => clock - req[c].since < MaxLatency
    /\ clock' = clock + 1
    /\ UNCHANGED <<users, lock, cookie, req, faults, deletedOn, as, answered, read>>

Next ==
    \/ Tick
    \/ \E c \in Clients :
        \/ \E k \in Credentials : Register(c, k[1], k[2]) \/ Authenticate(c, k[1], k[2])
        \/ \E token \in OtherTokens[c] : Present(c, token)
        \/ RegisterFind(c) \/ RegisterStore(c)
        \/ Verify(c) \/ Login(c) \/ Renew(c) \/ ForwardUnverified(c)
        \/ \E u \in Users :
            \/ ReadUser(c, u)
            \/ \E op \in {"getProfile", "updateProfile"} : UseProfile(c, u, op)
            \/ Delete(c, u)
        \/ ReadCurrentUser(c) \/ DeleteStore(c)
        \/ Fail(c)

Spec == Init /\ [][Next]_vars

-----------------------------------------------------------------------------
(***************************************************************************)
(* Properties                                                              *)
(***************************************************************************)

Times == 0 .. MaxClock

TypeOK ==
    /\ clock \in Times /\ faults \in 0 .. MaxFaults
    /\ lock \in Clients \cup {None}
    /\ \A u \in Users : users[u].deletedAt \in Times \cup {None}
    /\ \A c \in Clients :
        /\ cookie[c] \in Tokens \cup {None}
        /\ req[c].pc \in {"idle", "register", "store", "login", "renew", "forward", "delete"}
        /\ req[c].user \in Users \cup {None}
        /\ answered[c] \in Times \cup {None}
        /\ read[c] \in Users \cup {None}

\* The session of the client began with a login.
LoggedIn(c) == as[c] # None

(***************************************************************************)
(* A deleted user is let in for at most one renewal interval and the time  *)
(* of two requests: one that looked the account up just before the         *)
(* deletion and got a new token for it (auth.go, VerifyAuthentication and  *)
(* Authenticate), and the one that was verified last with that token.      *)
(* This is so for sessions that began with a login; a token from elsewhere *)
(* bears the dates that its maker chose.                                   *)
(***************************************************************************)
SessionEnds ==
    \A c \in Clients :
        LoggedIn(c) /\ req[c].pc = "forward" /\ req[c].user # None /\ ~Live(req[c].user)
            => clock < deletedOn[req[c].user] + RenewalInterval + 2 * MaxLatency

(***************************************************************************)
(* A client that logged in and keeps using its session keeps it: one whose *)
(* account is not deleted is asked to log in again only when its last      *)
(* answer is older than the time to live less the renewal interval and a   *)
(* request's time.  Refusing is the Verify step that ends the request.     *)
(***************************************************************************)
ActiveStaysIn ==
    [][\A c \in Clients :
        /\ LoggedIn(c) /\ cookie[c] # None /\ Live(cookie[c].user)
        /\ req'[c] = Idle("refused") /\ Verify(c)
        => clock - answered[c] > TTL - RenewalInterval - MaxLatency]_vars

(***************************************************************************)
(* Clients that register at the same time get an id or one of the errors   *)
(* Register documents: the unique login never makes a request fail when    *)
(* the database does not (user.go, Register under updateUsersLock).        *)
(***************************************************************************)
OnlyFaultsFail ==
    \A c \in Clients : req[c].result = "error" => faults > 0

(***************************************************************************)
(* What is answered to a client that asks as a user is about the user its  *)
(* token names, and in a session that began with a login about the user    *)
(* whose login and password were given: through the token and its          *)
(* renewals, the header, the principal and the permission of every         *)
(* request, whoever else registers, logs in or renews a session meanwhile. *)
(* That the token is the client's own is not checked by anything, so a     *)
(* session that did not begin with a login has only the first part.        *)
(***************************************************************************)
DataToOwner ==
    \A c \in Clients :
        read[c] # None =>
            /\ cookie[c] # None /\ read[c] = cookie[c].user
            /\ LoggedIn(c) => as[c] = <<users[read[c]].login, users[read[c]].password>>

=============================================================================
