--------------------------- MODULE SessionsProofs ---------------------------
(***************************************************************************)
(* Proofs about accounts and sessions (pkg/auth and the user service's     *)
(* auth.go and user.go).  The invariant is one of each client: whom its    *)
(* cookie, its request and its last answer are about, and when the token   *)
(* of each was made, relative to the deletion of the account.  Of a token  *)
(* that did not come with a login only its type is known.                  *)
(***************************************************************************)
EXTENDS Sessions, TLAPS

Fields == {"pc", "user", "target", "cred", "token", "since", "result"}

Types ==
    /\ clock \in Nat /\ faults \in Nat
    /\ DOMAIN users = Users
    /\ \A u \in Users : DOMAIN users[u] = {"login", "password", "deletedAt"}
    /\ cookie \in [Clients -> Tokens \cup {None}]
    /\ DOMAIN req = Clients
    /\ DOMAIN as = Clients
    /\ answered \in [Clients -> Nat \cup {None}]
    /\ read \in [Clients -> Users \cup {None}]
    /\ deletedOn \in [Users -> Nat \cup {None}]

Known(u) == users[u].login # None
CredentialsOf(u) == <<users[u].login, users[u].password>>
Deleted(u) == users[u].deletedAt # None

DeletionsAreDated == \A u \in Users : Deleted(u) => deletedOn[u] \in Nat

(* The request of a client: what it knows at each step.                    *)
RequestIsSound(c) ==
    /\ DOMAIN req[c] = Fields
    /\ req[c].pc \in {"idle", "register", "store", "login", "renew", "forward", "delete"}
    /\ req[c].user \in Users \cup {None} /\ req[c].target \in Users \cup {None}
    /\ req[c].token \in Tokens \cup {None} /\ req[c].since \in Nat
    /\ req[c].pc # "idle" => read[c] = None /\ req[c].since <= clock /\ clock <= req[c].since + MaxLatency
    /\ req[c].pc \in {"idle", "register", "store"} => req[c].user = None
    /\ req[c].pc \in {"login", "renew"} => req[c].user # None
    /\ req[c].token # None =>
           req[c].user # None /\ req[c].pc \in {"forward", "delete"} /\ req[c].token.user = req[c].user

(* The insert under the lock is the first of its login, and only a fault   *)
(* makes a request fail.                                                   *)
LockCoversInsert(c) ==
    /\ req[c].pc = "store" => lock = c /\ WithLogin(req[c].cred[1]) = {}
    /\ req[c].result = "error" => faults > 0

(* What a client asks or was told is about the user its cookie names,      *)
(* which is the user it logged in as if it did.                            *)
OwnerIsKnown(c) ==
    /\ cookie[c] # None /\ LoggedIn(c) => Known(cookie[c].user) /\ as[c] = CredentialsOf(cookie[c].user)
    /\ req[c].pc = "login" => Known(req[c].user) /\ req[c].cred = CredentialsOf(req[c].user)
    /\ req[c].pc \in {"renew", "forward", "delete"} /\ req[c].user # None =>
           cookie[c] # None /\ cookie[c].user = req[c].user
    /\ read[c] # None => cookie[c] # None /\ cookie[c].user = read[c]

(* A token of the service is made at most a request's time after the       *)
(* look-up that found the account and lives for TTL, and a request is let  *)
(* in while its token is fresh.                                            *)
TokensAreDated(c) ==
    /\ cookie[c] # None /\ LoggedIn(c) =>
           /\ cookie[c].createdAt <= clock /\ cookie[c].validTill = cookie[c].createdAt + TTL
           /\ Deleted(cookie[c].user) => cookie[c].createdAt <= deletedOn[cookie[c].user] + MaxLatency
    /\ req[c].pc \in {"login", "renew"} /\ Deleted(req[c].user) => req[c].since <= deletedOn[req[c].user]
    /\ req[c].token # None =>
           /\ req[c].since <= req[c].token.createdAt /\ req[c].token.createdAt <= clock
           /\ req[c].token.validTill = req[c].token.createdAt + TTL
           /\ Deleted(req[c].user) => req[c].token.createdAt <= deletedOn[req[c].user] + MaxLatency
    /\ LoggedIn(c) /\ req[c].pc = "forward" /\ req[c].user # None /\ Deleted(req[c].user) =>
           req[c].since < deletedOn[req[c].user] + RenewalInterval + MaxLatency

(* The last answer came while the token was fresh, or brought it.          *)
AnswersAreDated(c) ==
    /\ cookie[c] # None /\ LoggedIn(c) =>
           answered[c] \in Nat /\ answered[c] <= cookie[c].createdAt + RenewalInterval + MaxLatency
    /\ req[c].pc \in {"forward", "delete"} /\ req[c].user # None /\ req[c].token = None =>
           cookie[c] # None /\ req[c].since < cookie[c].createdAt + RenewalInterval

ClientInv(c) ==
    /\ RequestIsSound(c) /\ LockCoversInsert(c) /\ OwnerIsKnown(c)
    /\ TokensAreDated(c) /\ AnswersAreDated(c)

SessionInv == Types /\ DeletionsAreDated /\ \A c \in Clients : ClientInv(c)

-----------------------------------------------------------------------------
(* What a step may do to the accounts: credentials stay, a deletion is     *)
(* dated with the time it is made.                                         *)
WorldGoesOn ==
    /\ clock' \in Nat /\ clock <= clock' /\ faults' \in Nat /\ faults <= faults'
    /\ \A u \in Users : Known(u) => Known(u)' /\ CredentialsOf(u)' = CredentialsOf(u)
    /\ \A u \in Users : Deleted(u)' =>
           /\ deletedOn'[u] \in Nat
           /\ deletedOn'[u] = clock \/ (Deleted(u) /\ deletedOn'[u] = deletedOn[u])

LEMMA SameWorld ==
    ASSUME SessionInv, UNCHANGED <<clock, users, deletedOn>>, faults' \in Nat, faults <= faults'
    PROVE  WorldGoesOn
  BY DEF SessionInv, Types, DeletionsAreDated, WorldGoesOn, Known, CredentialsOf, Deleted

(* A time that is over or was before the deletion is so after the step.    *)
LEMMA DatesStay ==
    ASSUME SessionInv, WorldGoesOn, NEW u \in Users, Deleted(u)', NEW t \in Nat, t <= clock, NEW d \in Nat,
           Deleted(u) => t <= deletedOn[u] + d
    PROVE  deletedOn'[u] \in Nat /\ t <= deletedOn'[u] + d
  BY DEF SessionInv, Types, WorldGoesOn

LEMMA ClientFacts ==
    ASSUME SessionInv, NEW c \in Clients
    PROVE  /\ RequestIsSound(c) /\ LockCoversInsert(c) /\ OwnerIsKnown(c) /\ TokensAreDated(c) /\ AnswersAreDated(c)
           /\ cookie[c] # None => cookie[c].user \in Users /\ cookie[c].createdAt \in Nat
           /\ req[c].token # None => req[c].token.user \in Users /\ req[c].token.createdAt \in Nat
           /\ req[c].user # None => req[c].user \in Users
           /\ read[c] # None => read[c] \in Users
           /\ req[c].since \in Nat
           /\ MaxLatency \in Nat /\ RenewalInterval \in Nat /\ RenewalInterval > 0 /\ clock \in Nat
<1>1. RequestIsSound(c) /\ LockCoversInsert(c) /\ OwnerIsKnown(c) /\ TokensAreDated(c) /\ AnswersAreDated(c)
  BY DEF SessionInv, ClientInv
<1>2. cookie[c] \in Tokens \cup {None} /\ req[c].token \in Tokens \cup {None} /\ read[c] \in Users \cup {None}
      /\ req[c].user \in Users \cup {None} /\ req[c].since \in Nat
  BY <1>1 DEF SessionInv, Types, RequestIsSound
<1>3. MaxLatency \in Nat /\ RenewalInterval \in Nat /\ RenewalInterval > 0 /\ clock \in Nat
  BY SessionsAssumption DEF SessionInv, Types
<1> QED
  BY <1>1, <1>2, <1>3 DEF Tokens

(* What a client holds is as sound after a step of somebody else.          *)
LEMMA CookieStays ==
    ASSUME SessionInv, WorldGoesOn, NEW c \in Clients, UNCHANGED <<cookie[c], as[c]>>, cookie[c] # None, LoggedIn(c)
    PROVE  /\ Known(cookie[c].user)' /\ as'[c] = CredentialsOf(cookie[c].user)'
           /\ cookie'[c].createdAt <= clock' /\ cookie'[c].validTill = cookie'[c].createdAt + TTL
           /\ Deleted(cookie[c].user)' => cookie'[c].createdAt <= deletedOn'[cookie'[c].user] + MaxLatency
<1>1. cookie[c].user \in Users /\ cookie[c].createdAt \in Nat /\ MaxLatency \in Nat /\ clock \in Nat
      /\ OwnerIsKnown(c) /\ TokensAreDated(c)
  BY ClientFacts
<1>2. PICK u \in Users : u = cookie[c].user
  BY <1>1
<1>3. PICK t \in Nat : t = cookie[c].createdAt
  BY <1>1
<1>4. Known(u) /\ as[c] = CredentialsOf(u) /\ t <= clock /\ (Deleted(u) => t <= deletedOn[u] + MaxLatency)
  BY <1>1, <1>2, <1>3 DEF OwnerIsKnown, TokensAreDated
<1>5. Known(u)' /\ as[c] = CredentialsOf(u)' /\ t <= clock'
  BY <1>1, <1>4 DEF WorldGoesOn
<1>6. Deleted(u)' => t <= deletedOn'[u] + MaxLatency
  BY <1>1, <1>4, DatesStay
<1>7. cookie'[c].user = u /\ cookie'[c].createdAt = t
  BY <1>2, <1>3
<1>8. cookie'[c].validTill = cookie'[c].createdAt + TTL
  BY <1>1 DEF TokensAreDated
<1> QED
  BY <1>5, <1>6, <1>7, <1>8 DEF Known, CredentialsOf, Deleted

LEMMA ClientStays ==
    ASSUME SessionInv, WorldGoesOn, NEW c \in Clients,
           UNCHANGED <<cookie[c], req[c], as[c], answered[c], read[c]>>,
           req[c].pc # "idle" => clock' <= req[c].since + MaxLatency,
           req[c].pc = "store" => lock' = lock /\ \A u \in Users : users'[u].login = users[u].login
    PROVE  ClientInv(c)'
<1>0. /\ RequestIsSound(c) /\ LockCoversInsert(c) /\ OwnerIsKnown(c) /\ TokensAreDated(c) /\ AnswersAreDated(c)
      /\ req[c].token # None => req[c].token.user \in Users /\ req[c].token.createdAt \in Nat
      /\ req[c].user # None => req[c].user \in Users
      /\ read[c] # None => read[c] \in Users
      /\ req[c].since \in Nat
      /\ MaxLatency \in Nat /\ RenewalInterval \in Nat /\ clock \in Nat
  BY ClientFacts
<1>1. RequestIsSound(c)'
  <2>1. clock' \in Nat /\ (req[c].since <= clock => req[c].since <= clock')
    BY <1>0 DEF WorldGoesOn
  <2> QED
    BY <1>0, <2>1 DEF RequestIsSound
<1>2. LockCoversInsert(c)'
  <2>1. req[c].pc = "store" => WithLogin(req[c].cred[1])' = WithLogin(req[c].cred[1])
    BY DEF WithLogin
  <2>2. faults > 0 => faults' > 0
    BY DEF WorldGoesOn, SessionInv, Types
  <2> QED
    BY <1>0, <2>1, <2>2 DEF LockCoversInsert
<1>3. OwnerIsKnown(c)'
  <2>1. (cookie[c] # None /\ LoggedIn(c) =>
            Known(cookie[c].user) /\ as[c] = CredentialsOf(cookie[c].user))'
    BY CookieStays DEF LoggedIn
  <2>2. ASSUME NEW u \in Users, Known(u)
        PROVE  users'[u].login # None /\ CredentialsOf(u) = <<users'[u].login, users'[u].password>>
    BY <2>2 DEF WorldGoesOn, Known, CredentialsOf
  <2>3. (req[c].pc = "login" => Known(req[c].user) /\ req[c].cred = CredentialsOf(req[c].user))'
    <3> SUFFICES ASSUME req[c].pc = "login"
                 PROVE  /\ users'[req[c].user].login # None
                        /\ req[c].cred = <<users'[req[c].user].login, users'[req[c].user].password>>
      BY DEF Known, CredentialsOf
    <3> QED
      BY <1>0, <2>2 DEF OwnerIsKnown, RequestIsSound
  <2>4. (req[c].pc \in {"renew", "forward", "delete"} /\ req[c].user # None =>
            cookie[c] # None /\ cookie[c].user = req[c].user)'
    BY <1>0 DEF OwnerIsKnown
  <2>5. (read[c] # None => cookie[c] # None /\ cookie[c].user = read[c])'
    BY <1>0 DEF OwnerIsKnown
  <2> QED
    BY <2>1, <2>3, <2>4, <2>5 DEF OwnerIsKnown
<1>4. TokensAreDated(c)'
  <2>1. (cookie[c] # None /\ LoggedIn(c) =>
            /\ cookie[c].createdAt <= clock /\ cookie[c].validTill = cookie[c].createdAt + TTL
            /\ Deleted(cookie[c].user) => cookie[c].createdAt <= deletedOn[cookie[c].user] + MaxLatency)'
    BY CookieStays DEF LoggedIn
  <2>2. ASSUME req[c].user # None, Deleted(req[c].user)', NEW t \in Nat, t <= clock, NEW d \in Nat,
               Deleted(req[c].user) => t <= deletedOn[req[c].user] + d
        PROVE  deletedOn'[req[c].user] \in Nat /\ t <= deletedOn'[req[c].user] + d
    <3>1. PICK u \in Users : u = req[c].user /\ u = req'[c].user
      BY <1>0, <2>2
    <3>2. Deleted(u)' /\ (Deleted(u) => t <= deletedOn[u] + d)
      BY <2>2, <3>1 DEF Deleted
    <3>3. deletedOn'[u] \in Nat /\ t <= deletedOn'[u] + d
      BY <2>2, <3>2, DatesStay
    <3> QED
      BY <3>1, <3>3
  <2>3. ASSUME req[c].pc \in {"login", "renew"}, Deleted(req[c].user)'
        PROVE  req[c].since <= deletedOn'[req[c].user]
    <3>1. req[c].since \in Nat /\ req[c].since <= clock /\ req[c].user # None
      BY <1>0, <2>3 DEF RequestIsSound
    <3>2. Deleted(req[c].user) => req[c].since <= deletedOn[req[c].user] + 0
      <4>1. Deleted(req[c].user) => deletedOn[req[c].user] \in Nat
        BY <1>0, <3>1 DEF SessionInv, DeletionsAreDated
      <4> QED
        BY <1>0, <2>3, <4>1 DEF TokensAreDated
    <3>3. deletedOn'[req[c].user] \in Nat /\ req[c].since <= deletedOn'[req[c].user] + 0
      BY <2>2, <2>3, <3>1, <3>2
    <3> QED
      BY <3>3
  <2>4. ASSUME req[c].token # None, Deleted(req[c].user)'
        PROVE  req[c].token.createdAt <= deletedOn'[req[c].user] + MaxLatency
    <3>1. req[c].token.createdAt \in Nat /\ req[c].token.createdAt <= clock /\ req[c].user # None
      BY <1>0, <2>4 DEF RequestIsSound, TokensAreDated
    <3> QED
      BY <1>0, <2>2, <2>4, <3>1 DEF TokensAreDated
  <2>5. ASSUME LoggedIn(c), req[c].pc = "forward", req[c].user # None, Deleted(req[c].user)'
        PROVE  req[c].since < deletedOn'[req[c].user] + RenewalInterval + MaxLatency
    <3>0. RenewalInterval > 0
      BY SessionsAssumption
    <3>1. req[c].since \in Nat /\ req[c].since <= clock
      BY <1>0, <2>5 DEF RequestIsSound
    <3>2. RenewalInterval + MaxLatency - 1 \in Nat
      BY <1>0, <3>0
    <3>3. Deleted(req[c].user) => req[c].since <= deletedOn[req[c].user] + (RenewalInterval + MaxLatency - 1)
      <4>1. Deleted(req[c].user) => deletedOn[req[c].user] \in Nat
        BY <1>0, <2>5 DEF SessionInv, DeletionsAreDated
      <4>2. Deleted(req[c].user) => req[c].since < deletedOn[req[c].user] + RenewalInterval + MaxLatency
        BY <1>0, <2>5 DEF TokensAreDated
      <4> QED
        BY <1>0, <3>1, <4>1, <4>2
    <3>4. /\ deletedOn'[req[c].user] \in Nat
          /\ req[c].since <= deletedOn'[req[c].user] + (RenewalInterval + MaxLatency - 1)
      BY <2>2, <2>5, <3>1, <3>2, <3>3
    <3> QED
      BY <1>0, <3>1, <3>4
  <2>6. req[c].token # None =>
            /\ req[c].token.createdAt <= clock' /\ req[c].since <= req[c].token.createdAt
            /\ req[c].token.validTill = req[c].token.createdAt + TTL
    BY <1>0 DEF TokensAreDated, WorldGoesOn
  <2>7. (req[c].pc \in {"login", "renew"} /\ Deleted(req[c].user) => req[c].since <= deletedOn[req[c].user])'
    BY <2>3
  <2>8. (req[c].token # None =>
            /\ req[c].since <= req[c].token.createdAt /\ req[c].token.createdAt <= clock
            /\ req[c].token.validTill = req[c].token.createdAt + TTL
            /\ Deleted(req[c].user) => req[c].token.createdAt <= deletedOn[req[c].user] + MaxLatency)'
    BY <2>4, <2>6
  <2>9. (LoggedIn(c) /\ req[c].pc = "forward" /\ req[c].user # None /\ Deleted(req[c].user) =>
            req[c].since < deletedOn[req[c].user] + RenewalInterval + MaxLatency)'
    BY <2>5 DEF LoggedIn
  <2> QED
    BY <2>1, <2>7, <2>8, <2>9 DEF TokensAreDated
<1>5. AnswersAreDated(c)'
  BY <1>0 DEF AnswersAreDated, LoggedIn
<1> QED
  BY <1>1, <1>2, <1>3, <1>4, <1>5 DEF ClientInv

-----------------------------------------------------------------------------
LEMMA IdleFields ==
    ASSUME NEW result
    PROVE  /\ DOMAIN Idle(result) = Fields /\ Idle(result).pc = "idle" /\ Idle(result).user = None
           /\ Idle(result).target = None /\ Idle(result).token = None /\ Idle(result).since = 0
           /\ Idle(result).result \in {"none", result}
  BY DEF Idle, Fields

(* A request is answered and leaves what the client holds.                 *)
LEMMA AnswerStep ==
    ASSUME SessionInv, WorldGoesOn, NEW c \in Clients, NEW result, result = "error" => faults' > 0,
           req'[c] = Idle(result), UNCHANGED <<cookie[c], as[c], answered[c]>>,
           read'[c] = read[c] \/ read'[c] = None
    PROVE  ClientInv(c)'
<1>0. /\ OwnerIsKnown(c) /\ AnswersAreDated(c)
      /\ read[c] # None => read[c] \in Users
  BY ClientFacts
<1>1. /\ DOMAIN req'[c] = Fields /\ req'[c].pc = "idle" /\ req'[c].user = None
      /\ req'[c].target = None /\ req'[c].token = None /\ req'[c].since = 0
      /\ req'[c].result \in {"none", result}
  BY IdleFields
<1>2. RequestIsSound(c)' /\ LockCoversInsert(c)'
  BY <1>1 DEF RequestIsSound, LockCoversInsert
<1>3. OwnerIsKnown(c)'
  <2>1. (cookie[c] # None /\ LoggedIn(c) =>
            Known(cookie[c].user) /\ as[c] = CredentialsOf(cookie[c].user))'
    BY CookieStays DEF LoggedIn
  <2>2. (read[c] # None => cookie[c] # None /\ cookie[c].user = read[c])'
    BY <1>0 DEF OwnerIsKnown
  <2> QED
    BY <1>1, <2>1, <2>2 DEF OwnerIsKnown
<1>4. TokensAreDated(c)'
  <2>1. (cookie[c] # None /\ LoggedIn(c) =>
            /\ cookie[c].createdAt <= clock /\ cookie[c].validTill = cookie[c].createdAt + TTL
            /\ Deleted(cookie[c].user) => cookie[c].createdAt <= deletedOn[cookie[c].user] + MaxLatency)'
    BY CookieStays DEF LoggedIn
  <2> QED
    BY <1>1, <2>1 DEF TokensAreDated
<1>5. AnswersAreDated(c)'
  BY <1>0, <1>1 DEF AnswersAreDated, LoggedIn
<1> QED
  BY <1>2, <1>3, <1>4, <1>5 DEF ClientInv

(* A request that was passed on is answered, with the renewed cookie.      *)
LEMMA AnswerUserStep ==
    ASSUME SessionInv, WorldGoesOn, clock' = clock, NEW c \in Clients, req[c].pc \in {"forward", "delete"},
           NEW result, result # "error", req'[c] = Idle(result), as'[c] = as[c],
           cookie'[c] = IF req[c].token = None THEN cookie[c] ELSE req[c].token,
           answered'[c] = IF req[c].user = None THEN answered[c] ELSE clock,
           read'[c] = None \/ (read'[c] = req[c].user /\ req[c].user # None)
    PROVE  ClientInv(c)'
<1>0. /\ RequestIsSound(c) /\ OwnerIsKnown(c) /\ TokensAreDated(c) /\ AnswersAreDated(c)
      /\ cookie[c] # None => cookie[c].user \in Users /\ cookie[c].createdAt \in Nat
      /\ req[c].token # None => req[c].token.user \in Users /\ req[c].token.createdAt \in Nat
      /\ req[c].user # None => req[c].user \in Users
      /\ req[c].since \in Nat
      /\ MaxLatency \in Nat /\ RenewalInterval \in Nat /\ RenewalInterval > 0 /\ clock \in Nat
  BY ClientFacts
<1>1. /\ DOMAIN req'[c] = Fields /\ req'[c].pc = "idle" /\ req'[c].user = None
      /\ req'[c].target = None /\ req'[c].token = None /\ req'[c].since = 0
      /\ req'[c].result \in {"none", result}
  BY IdleFields
<1>2. RequestIsSound(c)' /\ LockCoversInsert(c)'
  BY <1>1 DEF RequestIsSound, LockCoversInsert
<1>3. ASSUME NEW u \in Users, Known(u)
      PROVE  users'[u].login # None /\ CredentialsOf(u) = <<users'[u].login, users'[u].password>>
  BY <1>3 DEF WorldGoesOn, Known, CredentialsOf
<1>4. ASSUME req[c].user # None, LoggedIn(c)
      PROVE  /\ users'[req[c].user].login # None
             /\ as[c] = <<users'[req[c].user].login, users'[req[c].user].password>>
  BY <1>0, <1>3, <1>4 DEF OwnerIsKnown
<1>5. (read[c] # None => cookie[c] # None /\ cookie[c].user = read[c])'
  <2> SUFFICES ASSUME read'[c] # None
               PROVE  cookie'[c] # None /\ cookie'[c].user = read'[c]
    OBVIOUS
  <2>1. req[c].user # None /\ read'[c] = req[c].user
    OBVIOUS
  <2>2. cookie[c] # None /\ cookie[c].user = req[c].user
    BY <1>0, <2>1 DEF OwnerIsKnown
  <2>3. req[c].token # None => req[c].token.user = req[c].user
    BY <1>0 DEF RequestIsSound
  <2> QED
    BY <2>1, <2>2, <2>3
<1>6. CASE req[c].token = None
  <2>1. cookie'[c] = cookie[c]
    BY <1>6
  <2>2. OwnerIsKnown(c)'
    <3>1. (cookie[c] # None /\ LoggedIn(c) =>
            Known(cookie[c].user) /\ as[c] = CredentialsOf(cookie[c].user))'
      BY <2>1, CookieStays DEF LoggedIn
    <3> QED
      BY <1>1, <1>5, <3>1 DEF OwnerIsKnown
  <2>3. TokensAreDated(c)'
    <3>1. (cookie[c] # None /\ LoggedIn(c) =>
              /\ cookie[c].createdAt <= clock /\ cookie[c].validTill = cookie[c].createdAt + TTL
              /\ Deleted(cookie[c].user) => cookie[c].createdAt <= deletedOn[cookie[c].user] + MaxLatency)'
      BY <2>1, CookieStays DEF LoggedIn
    <3> QED
      BY <1>1, <3>1 DEF TokensAreDated
  <2>4. AnswersAreDated(c)'
    <3>1. CASE req[c].user = None
      BY <1>0, <1>1, <2>1, <3>1 DEF AnswersAreDated, LoggedIn
    <3>2. CASE req[c].user # None
      <4>1. cookie[c].createdAt \in Nat /\ req[c].since < cookie[c].createdAt + RenewalInterval
        BY <1>0, <1>6, <3>2 DEF AnswersAreDated
      <4>2. clock <= req[c].since + MaxLatency
        BY <1>0 DEF RequestIsSound
      <4>3. answered'[c] \in Nat /\ answered'[c] <= cookie[c].createdAt + RenewalInterval + MaxLatency
        BY <1>0, <3>2, <4>1, <4>2
      <4> QED
        BY <1>1, <2>1, <4>3 DEF AnswersAreDated
    <3> QED
      BY <3>1, <3>2
  <2> QED
    BY <1>2, <2>2, <2>3, <2>4 DEF ClientInv
<1>7. CASE req[c].token # None
  <2>0. /\ cookie'[c] = req[c].token /\ req[c].user # None /\ req[c].user \in Users
        /\ req[c].token.user = req[c].user
    BY <1>0, <1>7 DEF RequestIsSound
  <2>1. PICK u \in Users : u = req[c].user /\ cookie'[c].user = u
    BY <2>0
  <2>2. PICK t \in Nat : t = req[c].token.createdAt /\ cookie'[c].createdAt = t
    BY <1>0, <1>7, <2>0
  <2>3. OwnerIsKnown(c)'
    <3>1. (cookie[c] # None /\ LoggedIn(c) =>
            Known(cookie[c].user) /\ as[c] = CredentialsOf(cookie[c].user))'
      BY <1>4, <2>0, <2>1 DEF Known, CredentialsOf, LoggedIn
    <3> QED
      BY <1>1, <1>5, <3>1 DEF OwnerIsKnown
  <2>4. /\ t <= clock /\ (Deleted(u) => t <= deletedOn[u] + MaxLatency) /\ req[c].since <= t
        /\ req[c].token.validTill = req[c].token.createdAt + TTL
    BY <1>0, <1>7, <2>1, <2>2 DEF TokensAreDated
  <2>5. Deleted(u)' => t <= deletedOn'[u] + MaxLatency
    BY <1>0, <2>4, DatesStay
  <2>6. TokensAreDated(c)'
    <3>1. (cookie[c] # None /\ LoggedIn(c) =>
              /\ cookie[c].createdAt <= clock /\ cookie[c].validTill = cookie[c].createdAt + TTL
              /\ Deleted(cookie[c].user) => cookie[c].createdAt <= deletedOn[cookie[c].user] + MaxLatency)'
      BY <2>0, <2>1, <2>2, <2>4, <2>5 DEF Deleted
    <3> QED
      BY <1>1, <3>1 DEF TokensAreDated
  <2>7. AnswersAreDated(c)'
    <3>1. clock <= req[c].since + MaxLatency
      BY <1>0 DEF RequestIsSound
    <3>2. answered'[c] \in Nat /\ answered'[c] <= t + RenewalInterval + MaxLatency
      BY <1>0, <2>0, <2>4, <3>1
    <3> QED
      BY <1>1, <2>2, <3>2 DEF AnswersAreDated
  <2> QED
    BY <1>2, <2>3, <2>6, <2>7 DEF ClientInv
<1> QED
  BY <1>6, <1>7

(* A request goes on.                                                      *)
LEMMA ProceedFields ==
    ASSUME SessionInv, NEW c \in Clients, NEW pc, NEW f, Proceed(c, pc, f)
    PROVE  /\ DOMAIN req' = Clients /\ DOMAIN req'[c] = Fields /\ req'[c].pc = pc /\ req'[c].result = "none"
           /\ req'[c].user = IF "user" \in DOMAIN f THEN f["user"] ELSE req[c].user
           /\ req'[c].target = IF "target" \in DOMAIN f THEN f["target"] ELSE req[c].target
           /\ req'[c].cred = IF "cred" \in DOMAIN f THEN f["cred"] ELSE req[c].cred
           /\ req'[c].token = IF "token" \in DOMAIN f THEN f["token"] ELSE req[c].token
           /\ req'[c].since = IF "since" \in DOMAIN f THEN f["since"] ELSE req[c].since
           /\ \A e \in Clients : e # c => req'[e] = req[e]
           /\ UNCHANGED <<cookie, as, answered>>
<1>1. DOMAIN req = Clients /\ DOMAIN req[c] = Fields
  BY DEF SessionInv, Types, ClientInv, RequestIsSound
<1> DEFINE r == [field \in Fields |->
                  CASE field = "pc" -> pc
                    [] field = "result" -> "none"
                    [] OTHER -> IF field \in DOMAIN f THEN f[field] ELSE req[c][field]]
<1>2. req' = [req EXCEPT ![c] = r]
  BY <1>1 DEF Proceed
<1>3. /\ DOMAIN r = Fields /\ r.pc = pc /\ r.result = "none"
      /\ r.user = IF "user" \in DOMAIN f THEN f["user"] ELSE req[c].user
      /\ r.target = IF "target" \in DOMAIN f THEN f["target"] ELSE req[c].target
      /\ r.cred = IF "cred" \in DOMAIN f THEN f["cred"] ELSE req[c].cred
      /\ r.token = IF "token" \in DOMAIN f THEN f["token"] ELSE req[c].token
      /\ r.since = IF "since" \in DOMAIN f THEN f["since"] ELSE req[c].since
  BY DEF Fields
<1> HIDE DEF r
<1>4. DOMAIN req' = Clients /\ req'[c] = r /\ \A e \in Clients : e # c => req'[e] = req[e]
  BY <1>1, <1>2
<1> QED
  BY <1>3, <1>4 DEF Proceed

LEMMA GoOn ==
    ASSUME SessionInv, NEW c \in Clients, UNCHANGED <<clock, users, deletedOn, faults, cookie[c], as[c], answered[c]>>,
           read'[c] = None, DOMAIN req'[c] = Fields, req'[c].result = "none", req'[c].target \in Users \cup {None},
           NEW p \in {"register", "store", "login", "renew", "forward", "delete"}, req'[c].pc = p,
           NEW v \in Users \cup {None}, req'[c].user = v, NEW k \in Tokens \cup {None}, req'[c].token = k,
           NEW s \in Nat, req'[c].since = s, s <= clock, clock <= s + MaxLatency, NEW w, req'[c].cred = w,
           p \in {"register", "store"} => v = None,
           p = "store" => lock' = c /\ WithLogin(w[1]) = {},
           p \in {"login", "renew"} => v # None /\ (Deleted(v) => s <= deletedOn[v]),
           p = "login" => Known(v) /\ w = CredentialsOf(v),
           p \in {"renew", "forward", "delete"} /\ v # None => cookie[c] # None /\ cookie[c].user = v,
           LoggedIn(c) /\ p = "forward" /\ v # None /\ Deleted(v) => s < deletedOn[v] + RenewalInterval + MaxLatency,
           k # None => /\ p \in {"forward", "delete"} /\ v # None /\ k.user = v
                       /\ s <= k.createdAt /\ k.createdAt <= clock /\ k.validTill = k.createdAt + TTL
                       /\ Deleted(v) => k.createdAt <= deletedOn[v] + MaxLatency,
           p \in {"forward", "delete"} /\ v # None /\ k = None =>
               cookie[c] # None /\ s < cookie[c].createdAt + RenewalInterval
    PROVE  ClientInv(c)'
<1>0. OwnerIsKnown(c) /\ TokensAreDated(c) /\ AnswersAreDated(c)
  BY ClientFacts
<1>1. RequestIsSound(c)'
  BY DEF RequestIsSound
<1>2. LockCoversInsert(c)'
  BY DEF LockCoversInsert, WithLogin
<1>3. OwnerIsKnown(c)'
  BY <1>0 DEF OwnerIsKnown, Known, CredentialsOf, LoggedIn
<1>4. TokensAreDated(c)'
  BY <1>0 DEF TokensAreDated, Deleted, LoggedIn
<1>5. AnswersAreDated(c)'
  BY <1>0 DEF AnswersAreDated, LoggedIn
<1> QED
  BY <1>1, <1>2, <1>3, <1>4, <1>5 DEF ClientInv

(* The other clients, when nobody's account changes.                       *)
LEMMA OthersStay ==
    ASSUME SessionInv, UNCHANGED <<clock, users, deletedOn>>, faults' \in Nat, faults <= faults',
           NEW c \in Clients, NEW e \in Clients, UNCHANGED <<cookie[e], req[e], as[e], answered[e], read[e]>>,
           lock' = lock \/ lock \in {None, c}, c # e
    PROVE  ClientInv(e)'
<1>1. WorldGoesOn
  BY SameWorld
<1>2. req[e].pc # "idle" => clock' <= req[e].since + MaxLatency
  BY ClientFacts DEF RequestIsSound
<1>3. req[e].pc = "store" => lock = e
  BY ClientFacts DEF LockCoversInsert
<1>4. e # None
  BY SessionsAssumption
<1>5. req[e].pc = "store" => lock' = lock /\ \A u \in Users : users'[u].login = users[u].login
  BY <1>3, <1>4
<1> QED
  BY <1>1, <1>2, <1>5, ClientStays

(* A step of c that changes no account.                                    *)
LEMMA RequestStep ==
    ASSUME SessionInv, NEW c \in Clients, UNCHANGED <<clock, users, deletedOn>>, faults' \in Nat, faults <= faults',
           lock' = lock \/ lock \in {None, c}, Types',
           \A e \in Clients : e # c => UNCHANGED <<cookie[e], req[e], as[e], answered[e], read[e]>>,
           ClientInv(c)'
    PROVE  SessionInv'
<1>1. ASSUME NEW e \in Clients PROVE ClientInv(e)'
  <2>1. CASE e = c
    BY <2>1
  <2>2. CASE e # c
    BY <2>2, OthersStay
  <2> QED
    BY <2>1, <2>2
<1>2. DeletionsAreDated'
  BY DEF SessionInv, DeletionsAreDated, Deleted
<1> QED
  BY <1>1, <1>2 DEF SessionInv

LEMMA ReadIsReset ==
    ASSUME SessionInv, NEW c \in Clients,
           read' = [read EXCEPT ![c] = None] \/ (read' = read /\ req[c].pc # "idle")
    PROVE  /\ read' \in [Clients -> Users \cup {None}] /\ read'[c] = None
           /\ \A e \in Clients : e # c => read'[e] = read[e]
<1>1. read \in [Clients -> Users \cup {None}]
  BY DEF SessionInv, Types
<1>2. req[c].pc # "idle" => read[c] = None
  BY ClientFacts DEF RequestIsSound
<1> QED
  BY <1>1, <1>2

LEMMA Proceeding ==
    ASSUME SessionInv, NEW c \in Clients, NEW p, NEW f, Proceed(c, p, f),
           UNCHANGED <<clock, users, faults, deletedOn>>, lock' = lock \/ lock \in {None, c},
           read' = [read EXCEPT ![c] = None] \/ (read' = read /\ req[c].pc # "idle"),
           ClientInv(c)'
    PROVE  SessionInv'
<1>1. /\ DOMAIN req' = Clients /\ \A e \in Clients : e # c => req'[e] = req[e]
      /\ UNCHANGED <<cookie, as, answered>>
  BY ProceedFields
<1>2. /\ read' \in [Clients -> Users \cup {None}]
      /\ \A e \in Clients : e # c => read'[e] = read[e]
  BY ReadIsReset
<1>3. Types' /\ faults' \in Nat /\ faults <= faults'
  BY <1>1, <1>2 DEF SessionInv, Types
<1>4. \A e \in Clients : e # c => UNCHANGED <<cookie[e], req[e], as[e], answered[e], read[e]>>
  BY <1>1, <1>2
<1> QED
  BY <1>3, <1>4, RequestStep

LEMMA Answering ==
    ASSUME SessionInv, NEW c \in Clients, NEW result, Answer(c, result),
           UNCHANGED <<clock, users, deletedOn>>, lock' = lock \/ lock \in {None, c},
           faults' \in Nat, faults <= faults', result = "error" => faults' > 0,
           read' = [read EXCEPT ![c] = None] \/ read' = read
    PROVE  SessionInv'
<1>0. DOMAIN req = Clients /\ read \in [Clients -> Users \cup {None}]
  BY DEF SessionInv, Types
<1>1. /\ DOMAIN req' = Clients /\ req'[c] = Idle(result) /\ \A e \in Clients : e # c => req'[e] = req[e]
      /\ UNCHANGED <<cookie, as, answered>>
  BY <1>0 DEF Answer
<1>2. /\ read' \in [Clients -> Users \cup {None}] /\ (read'[c] = read[c] \/ read'[c] = None)
      /\ \A e \in Clients : e # c => read'[e] = read[e]
  BY <1>0
<1>3. Types'
  BY <1>1, <1>2 DEF SessionInv, Types
<1>4. WorldGoesOn
  BY SameWorld
<1>5. ClientInv(c)'
  BY <1>1, <1>2, <1>4, AnswerStep
<1>6. \A e \in Clients : e # c => UNCHANGED <<cookie[e], req[e], as[e], answered[e], read[e]>>
  BY <1>1, <1>2
<1> QED
  BY <1>3, <1>5, <1>6, RequestStep

-----------------------------------------------------------------------------
(* What an idle request holds.                                             *)
LEMMA IdleIsEmpty ==
    ASSUME SessionInv, NEW c \in Clients
    PROVE  /\ req[c].pc \in {"idle", "register", "store"} => req[c].user = None /\ req[c].token = None
           /\ req[c].pc \in {"login", "renew"} => req[c].token = None
           /\ req[c].target \in Users \cup {None} /\ req[c].token \in Tokens \cup {None}
           /\ req[c].user \in Users \cup {None}
           /\ clock \in Nat /\ clock <= clock /\ clock <= clock + MaxLatency
  BY ClientFacts DEF RequestIsSound

LEMMA RegisterStep ==
    ASSUME SessionInv, NEW c \in Clients, NEW l, NEW password, Register(c, l, password)
    PROVE  SessionInv'
<1>0. faults \in Nat /\ faults <= faults
  BY DEF SessionInv, Types
<1>1. CASE Answer(c, "refused")
  BY <1>0, <1>1, Answering DEF Register
<1>2. CASE ~Answer(c, "refused")
  <2> DEFINE f == [cred |-> <<Normal[l], password>>, since |-> clock]
  <2>1. /\ req[c].pc = "idle" /\ Proceed(c, "register", f) /\ read' = [read EXCEPT ![c] = None]
        /\ UNCHANGED <<clock, users, lock, faults, deletedOn>>
    BY <1>2 DEF Register
  <2>2. DOMAIN f = {"cred", "since"} /\ f["since"] = clock
    OBVIOUS
  <2> HIDE DEF f
  <2>3. /\ DOMAIN req'[c] = Fields /\ req'[c].pc = "register" /\ req'[c].result = "none"
        /\ req'[c].user = req[c].user /\ req'[c].target = req[c].target /\ req'[c].token = req[c].token
        /\ req'[c].since = clock /\ UNCHANGED <<cookie, as, answered>>
    BY <2>1, <2>2, ProceedFields
  <2>4. read'[c] = None
    BY <2>1, ReadIsReset
  <2>5. ClientInv(c)'
    BY <2>1, <2>3, <2>4, IdleIsEmpty, GoOn
  <2> QED
    BY <2>1, <2>5, Proceeding
<1> QED
  BY <1>1, <1>2

LEMMA RegisterFindStep ==
    ASSUME SessionInv, NEW c \in Clients, RegisterFind(c)
    PROVE  SessionInv'
<1>0. faults \in Nat /\ faults <= faults
  BY DEF SessionInv, Types
<1>1. /\ req[c].pc = "register" /\ lock = None /\ UNCHANGED <<clock, users, faults, deletedOn, read>>
      /\ \/ /\ WithLogin(req[c].cred[1]) = {} /\ lock' = c
            /\ Proceed(c, "store", [since |-> req[c].since])
         \/ \E result \in {"ok", "refused"} : Answer(c, result) /\ UNCHANGED lock
  BY DEF RegisterFind, RegisterFindUnder
<1>2. CASE \E result \in {"ok", "refused"} : Answer(c, result) /\ UNCHANGED lock
  BY <1>0, <1>1, <1>2, Answering
<1>3. CASE WithLogin(req[c].cred[1]) = {} /\ lock' = c /\ Proceed(c, "store", [since |-> req[c].since])
  <2> DEFINE f == [since |-> req[c].since]
  <2>1. DOMAIN f = {"since"} /\ f["since"] = req[c].since /\ Proceed(c, "store", f)
    BY <1>3
  <2> HIDE DEF f
  <2>2. /\ DOMAIN req'[c] = Fields /\ req'[c].pc = "store" /\ req'[c].result = "none"
        /\ req'[c].user = req[c].user /\ req'[c].target = req[c].target /\ req'[c].token = req[c].token
        /\ req'[c].since = req[c].since /\ req'[c].cred = req[c].cred /\ UNCHANGED <<cookie, as, answered>>
    BY <2>1, ProceedFields
  <2>3. read'[c] = None
    BY <1>1, ReadIsReset
  <2>4. req[c].since \in Nat /\ req[c].since <= clock /\ clock <= req[c].since + MaxLatency
    BY <1>1, ClientFacts DEF RequestIsSound
  <2>5. ClientInv(c)'
    <3>1. UNCHANGED <<clock, users, deletedOn, faults, cookie[c], as[c], answered[c]>>
      BY <1>1, <2>2
    <3>2. req'[c].user = None /\ req'[c].token = None /\ req'[c].target \in Users \cup {None}
      BY <1>1, <2>2, IdleIsEmpty
    <3>3. lock' = c /\ WithLogin(req[c].cred[1]) = {}
      BY <1>3
    <3> QED
      BY <2>2, <2>3, <2>4, <3>1, <3>2, <3>3, GoOn
  <2> QED
    BY <1>1, <2>1, <2>5, Proceeding
<1> QED
  BY <1>1, <1>2, <1>3

LEMMA AuthenticateStep ==
    ASSUME SessionInv, NEW c \in Clients, NEW l, NEW password, Authenticate(c, l, password)
    PROVE  SessionInv'
<1>0. faults \in Nat /\ faults <= faults
  BY DEF SessionInv, Types
<1>1. CASE Answer(c, "refused")
  BY <1>0, <1>1, Answering DEF Authenticate
<1>2. CASE ~Answer(c, "refused")
  <2>1. PICK u \in Users : /\ users[u].login = Normal[l] /\ Live(u) /\ users[u].password = password
                           /\ Proceed(c, "login", [user |-> u, cred |-> <<Normal[l], password>>, since |-> clock])
    BY <1>2 DEF Authenticate, WithLogin
  <2> DEFINE f == [user |-> u, cred |-> <<Normal[l], password>>, since |-> clock]
  <2>2. /\ DOMAIN f = {"user", "cred", "since"} /\ f["user"] = u /\ f["since"] = clock
        /\ f["cred"] = <<Normal[l], password>> /\ Proceed(c, "login", f)
    BY <2>1
  <2> HIDE DEF f
  <2>3. /\ req[c].pc = "idle" /\ read' = [read EXCEPT ![c] = None]
        /\ UNCHANGED <<clock, users, lock, faults, deletedOn>>
    BY DEF Authenticate
  <2>4. /\ DOMAIN req'[c] = Fields /\ req'[c].pc = "login" /\ req'[c].result = "none"
        /\ req'[c].user = u /\ req'[c].target = req[c].target /\ req'[c].token = req[c].token
        /\ req'[c].since = clock /\ req'[c].cred = <<Normal[l], password>> /\ UNCHANGED <<cookie, as, answered>>
    <3>1. Proceed(c, "login", f)
      BY <2>2
    <3>2. /\ DOMAIN req'[c] = Fields /\ req'[c].pc = "login" /\ req'[c].result = "none"
          /\ req'[c].user = IF "user" \in DOMAIN f THEN f["user"] ELSE req[c].user
          /\ req'[c].target = IF "target" \in DOMAIN f THEN f["target"] ELSE req[c].target
          /\ req'[c].cred = IF "cred" \in DOMAIN f THEN f["cred"] ELSE req[c].cred
          /\ req'[c].token = IF "token" \in DOMAIN f THEN f["token"] ELSE req[c].token
          /\ req'[c].since = IF "since" \in DOMAIN f THEN f["since"] ELSE req[c].since
          /\ UNCHANGED <<cookie, as, answered>>
      BY <3>1, ProceedFields
    <3> QED
      BY <2>2, <3>2
  <2>5. Known(u) /\ ~Deleted(u) /\ CredentialsOf(u) = <<Normal[l], password>>
    BY <2>1 DEF Live, Known, Deleted, CredentialsOf
  <2>6. read'[c] = None /\ u # None
    BY <2>3, ReadIsReset, SessionsAssumption
  <2>7. ClientInv(c)'
    BY <2>3, <2>4, <2>5, <2>6, IdleIsEmpty, GoOn
  <2> QED
    BY <2>2, <2>3, <2>7, Proceeding
<1> QED
  BY <1>1, <1>2

LEMMA VerifyStep ==
    ASSUME SessionInv, NEW c \in Clients, Verify(c)
    PROVE  SessionInv'
<1>0. /\ faults \in Nat /\ faults <= faults /\ req[c].pc = "idle" /\ read' = [read EXCEPT ![c] = None]
      /\ UNCHANGED <<clock, users, lock, faults, deletedOn>>
  BY DEF SessionInv, Types, Verify
<1>1. /\ OwnerIsKnown(c) /\ TokensAreDated(c)
      /\ cookie[c] # None => cookie[c].user \in Users /\ cookie[c].createdAt \in Nat
      /\ MaxLatency \in Nat /\ RenewalInterval \in Nat /\ RenewalInterval > 0 /\ clock \in Nat
  BY ClientFacts
<1>2. read'[c] = None
  BY <1>0, ReadIsReset
<1>3. CASE Answer(c, "refused")
  BY <1>0, <1>3, Answering
<1>4. ASSUME Valid(cookie[c]), NEW p, Proceed(c, p, [user |-> cookie[c].user, since |-> clock])
      PROVE  /\ cookie[c] # None /\ cookie[c].user # None /\ cookie[c].user \in Users
             /\ cookie[c].createdAt \in Nat
             /\ DOMAIN req'[c] = Fields /\ req'[c].pc = p /\ req'[c].result = "none"
             /\ req'[c].user = cookie[c].user /\ req'[c].target \in Users \cup {None} /\ req'[c].token = None
             /\ req'[c].since = clock
             /\ UNCHANGED <<clock, users, deletedOn, faults, cookie[c], as[c], answered[c]>>
  <2>1. cookie[c] # None
    BY <1>4 DEF Valid
  <2>2. cookie[c].user # None
    BY <1>1, <2>1, SessionsAssumption
  <2> DEFINE f == [user |-> cookie[c].user, since |-> clock]
  <2>3. DOMAIN f = {"user", "since"} /\ f["user"] = cookie[c].user /\ f["since"] = clock
    OBVIOUS
  <2>4. Proceed(c, p, f)
    BY <1>4
  <2> HIDE DEF f
  <2>5. /\ DOMAIN req'[c] = Fields /\ req'[c].pc = p /\ req'[c].result = "none"
        /\ req'[c].user = IF "user" \in DOMAIN f THEN f["user"] ELSE req[c].user
        /\ req'[c].target = IF "target" \in DOMAIN f THEN f["target"] ELSE req[c].target
        /\ req'[c].token = IF "token" \in DOMAIN f THEN f["token"] ELSE req[c].token
        /\ req'[c].since = IF "since" \in DOMAIN f THEN f["since"] ELSE req[c].since
        /\ UNCHANGED <<cookie, as, answered>>
    BY <2>4, ProceedFields
  <2>6. req[c].token = None /\ req[c].target \in Users \cup {None}
    BY <1>0, IdleIsEmpty
  <2> QED
    BY <1>0, <1>1, <2>1, <2>2, <2>3, <2>5, <2>6
<1>5. CASE /\ Valid(cookie[c]) /\ Fresh(cookie[c])
           /\ Proceed(c, "forward", [user |-> cookie[c].user, since |-> clock])
  <2>0. cookie[c] # None /\ cookie[c].user \in Users /\ cookie[c].createdAt \in Nat
    BY <1>4, <1>5
  <2>1. clock < cookie[c].createdAt + RenewalInterval /\ cookie[c] # None /\ cookie[c].user \in Users
    BY <1>1, <1>5, <2>0 DEF Fresh
  <2>2. LoggedIn(c) /\ Deleted(cookie[c].user) =>
            clock < deletedOn[cookie[c].user] + RenewalInterval + MaxLatency
    <3>1. LoggedIn(c) /\ Deleted(cookie[c].user) =>
              /\ deletedOn[cookie[c].user] \in Nat
              /\ cookie[c].createdAt <= deletedOn[cookie[c].user] + MaxLatency
      BY <1>1, <2>1 DEF TokensAreDated, SessionInv, DeletionsAreDated
    <3> QED
      BY <1>1, <2>1, <3>1
  <2>4. clock \in Nat /\ clock <= clock /\ clock <= clock + MaxLatency
    BY <1>1
  <2>5. ClientInv(c)'
    BY <1>2, <1>4, <1>5, <2>1, <2>2, <2>4, GoOn
  <2> QED
    BY <1>0, <1>5, <2>5, Proceeding
<1>6. CASE /\ Valid(cookie[c]) /\ MayRenew(cookie[c].user)
           /\ Proceed(c, "renew", [user |-> cookie[c].user, since |-> clock])
  <2>1. cookie[c] # None /\ cookie[c].user \in Users
    BY <1>4, <1>6
  <2>2. ~Deleted(cookie[c].user)
    BY <1>6 DEF MayRenew, Live, Deleted
  <2>4. clock \in Nat /\ clock <= clock /\ clock <= clock + MaxLatency
    BY <1>1
  <2>5. ClientInv(c)'
    BY <1>2, <1>4, <1>6, <2>1, <2>2, <2>4, GoOn
  <2> QED
    BY <1>0, <1>6, <2>5, Proceeding
<1> QED
  BY <1>3, <1>5, <1>6 DEF Verify

LEMMA RenewStep ==
    ASSUME SessionInv, NEW c \in Clients, Renew(c)
    PROVE  SessionInv'
<1>0. /\ req[c].pc = "renew" /\ Proceed(c, "forward", [token |-> NewToken(c)])
      /\ UNCHANGED <<clock, users, lock, faults, deletedOn, read>>
  BY DEF Renew
<1>1. /\ RequestIsSound(c) /\ OwnerIsKnown(c) /\ TokensAreDated(c)
      /\ req[c].user # None => req[c].user \in Users
      /\ req[c].since \in Nat
      /\ MaxLatency \in Nat /\ RenewalInterval \in Nat /\ RenewalInterval > 0 /\ clock \in Nat
  BY ClientFacts
<1>2. read'[c] = None
  BY <1>0, ReadIsReset
<1>3. /\ req[c].user # None /\ req[c].user \in Users /\ req[c].since <= clock /\ clock <= req[c].since + MaxLatency
      /\ cookie[c] # None /\ cookie[c].user = req[c].user
  BY <1>0, <1>1 DEF RequestIsSound, OwnerIsKnown
<1>4. Deleted(req[c].user) =>
          /\ clock <= deletedOn[req[c].user] + MaxLatency
          /\ req[c].since < deletedOn[req[c].user] + RenewalInterval + MaxLatency
  <2>1. Deleted(req[c].user) => deletedOn[req[c].user] \in Nat /\ req[c].since <= deletedOn[req[c].user]
    BY <1>0, <1>1, <1>3 DEF TokensAreDated, SessionInv, DeletionsAreDated
  <2> QED
    BY <1>1, <1>3, <2>1
<1>5. /\ NewToken(c) \in Tokens /\ NewToken(c) # None /\ NewToken(c).user = req[c].user
      /\ NewToken(c).createdAt = clock /\ NewToken(c).validTill = clock + TTL
  <2>1. NewToken(c) \in [user: Users, createdAt: Nat, validTill: Nat]
    BY <1>1, <1>3, SessionsAssumption DEF NewToken
  <2> QED
    BY <2>1, SessionsAssumption DEF NewToken, Tokens
<1> DEFINE f == [token |-> NewToken(c)]
<1>6. DOMAIN f = {"token"} /\ f["token"] = NewToken(c)
  OBVIOUS
<1>7. Proceed(c, "forward", f)
  BY <1>0
<1> HIDE DEF f
<1>8. /\ DOMAIN req'[c] = Fields /\ req'[c].pc = "forward" /\ req'[c].result = "none"
      /\ req'[c].user = IF "user" \in DOMAIN f THEN f["user"] ELSE req[c].user
      /\ req'[c].target = IF "target" \in DOMAIN f THEN f["target"] ELSE req[c].target
      /\ req'[c].token = IF "token" \in DOMAIN f THEN f["token"] ELSE req[c].token
      /\ req'[c].since = IF "since" \in DOMAIN f THEN f["since"] ELSE req[c].since
      /\ UNCHANGED <<cookie, as, answered>>
  BY <1>7, ProceedFields
<1>9. /\ DOMAIN req'[c] = Fields /\ req'[c].pc = "forward" /\ req'[c].result = "none"
      /\ req'[c].user = req[c].user /\ req'[c].target \in Users \cup {None}
      /\ req'[c].token = NewToken(c) /\ req'[c].since = req[c].since
      /\ UNCHANGED <<clock, users, deletedOn, faults, cookie[c], as[c], answered[c]>>
  BY <1>0, <1>1, <1>6, <1>8 DEF RequestIsSound
<1>10. ClientInv(c)'
  <2>1. PICK v \in Users : v = req[c].user
    BY <1>3
  <2>2. PICK k \in Tokens : k = NewToken(c)
    BY <1>5
  <2>3. /\ k # None /\ k.user = v /\ k.createdAt = clock /\ req[c].since <= k.createdAt /\ k.createdAt <= clock
        /\ k.validTill = k.createdAt + TTL
    BY <1>1, <1>3, <1>5, <2>1, <2>2
  <2>4. /\ req'[c].user = v /\ req'[c].token = k /\ v # None /\ cookie[c] # None /\ cookie[c].user = v
        /\ Deleted(v) => k.createdAt <= deletedOn[v] + MaxLatency
        /\ Deleted(v) => req[c].since < deletedOn[v] + RenewalInterval + MaxLatency
    BY <1>3, <1>4, <1>9, <2>1, <2>2, <2>3
  <2>5. /\ DOMAIN req'[c] = Fields /\ req'[c].pc = "forward" /\ req'[c].result = "none"
        /\ req'[c].target \in Users \cup {None} /\ req'[c].since = req[c].since
        /\ UNCHANGED <<clock, users, deletedOn, faults, cookie[c], as[c], answered[c]>>
    BY <1>9
  <2>6. req[c].since \in Nat /\ req[c].since <= clock /\ clock <= req[c].since + MaxLatency
    BY <1>1, <1>3
  <2> QED
    BY <1>2, <2>3, <2>4, <2>5, <2>6, GoOn
<1> QED
  BY <1>0, <1>10, Proceeding

LEMMA ForwardStep ==
    ASSUME SessionInv, NEW c \in Clients, ForwardUnverified(c)
    PROVE  SessionInv'
<1>0. /\ req[c].pc = "idle" /\ Proceed(c, "forward", [since |-> clock]) /\ read' = [read EXCEPT ![c] = None]
      /\ UNCHANGED <<clock, users, lock, faults, deletedOn>>
  BY DEF ForwardUnverified
<1>1. read'[c] = None
  BY <1>0, ReadIsReset
<1> DEFINE f == [since |-> clock]
<1>2. DOMAIN f = {"since"} /\ f["since"] = clock
  OBVIOUS
<1>3. Proceed(c, "forward", f)
  BY <1>0
<1> HIDE DEF f
<1>4. /\ DOMAIN req'[c] = Fields /\ req'[c].pc = "forward" /\ req'[c].result = "none"
      /\ req'[c].user = req[c].user /\ req'[c].target = req[c].target /\ req'[c].token = req[c].token
      /\ req'[c].since = clock /\ UNCHANGED <<cookie, as, answered>>
  BY <1>2, <1>3, ProceedFields
<1>5. /\ req'[c].user = None /\ req'[c].token = None /\ req'[c].target \in Users \cup {None}
      /\ clock \in Nat /\ clock <= clock /\ clock <= clock + MaxLatency
      /\ UNCHANGED <<clock, users, deletedOn, faults, cookie[c], as[c], answered[c]>>
  BY <1>0, <1>4, IdleIsEmpty
<1>6. ClientInv(c)'
  BY <1>1, <1>4, <1>5, GoOn
<1> QED
  BY <1>0, <1>6, Proceeding

LEMMA LoginStep ==
    ASSUME SessionInv, NEW c \in Clients, Login(c)
    PROVE  SessionInv'
<1>0. /\ req[c].pc = "login" /\ req' = [req EXCEPT ![c] = Idle("ok")]
      /\ cookie' = [cookie EXCEPT ![c] = NewToken(c)] /\ as' = [as EXCEPT ![c] = req[c].cred]
      /\ answered' = [answered EXCEPT ![c] = clock]
      /\ UNCHANGED <<clock, users, lock, faults, deletedOn, read>>
  BY DEF Login
<1>1. /\ RequestIsSound(c) /\ OwnerIsKnown(c) /\ TokensAreDated(c)
      /\ req[c].user # None => req[c].user \in Users
      /\ req[c].since \in Nat
      /\ MaxLatency \in Nat /\ RenewalInterval \in Nat /\ RenewalInterval > 0 /\ clock \in Nat
  BY ClientFacts
<1>2. /\ DOMAIN req = Clients /\ DOMAIN as = Clients
      /\ cookie \in [Clients -> Tokens \cup {None}] /\ answered \in [Clients -> Nat \cup {None}]
      /\ faults \in Nat /\ faults <= faults
  BY DEF SessionInv, Types
<1>3. /\ req[c].user \in Users /\ req[c].since <= clock /\ clock <= req[c].since + MaxLatency /\ read[c] = None
      /\ Known(req[c].user) /\ req[c].cred = CredentialsOf(req[c].user)
  BY <1>0, <1>1 DEF RequestIsSound, OwnerIsKnown
<1>4. PICK u \in Users : u = req[c].user
  BY <1>3
<1>5. Deleted(u) => clock <= deletedOn[u] + MaxLatency
  <2>1. Deleted(u) => deletedOn[u] \in Nat /\ req[c].since <= deletedOn[u]
    BY <1>0, <1>1, <1>4 DEF TokensAreDated, SessionInv, DeletionsAreDated
  <2> QED
    BY <1>1, <1>3, <2>1
<1>6. /\ NewToken(c) \in Tokens /\ NewToken(c).user = u /\ NewToken(c).createdAt = clock
      /\ NewToken(c).validTill = clock + TTL
  BY <1>1, <1>4, SessionsAssumption DEF NewToken, Tokens
<1>7. /\ req'[c] = Idle("ok") /\ cookie'[c] = NewToken(c) /\ as'[c] = CredentialsOf(u) /\ answered'[c] = clock
      /\ \A e \in Clients : e # c => UNCHANGED <<cookie[e], req[e], as[e], answered[e], read[e]>>
  BY <1>0, <1>2, <1>3, <1>4
<1>8. Types'
  <2>1. DOMAIN req' = Clients /\ DOMAIN as' = Clients
    BY <1>0, <1>2
  <2>2. cookie' \in [Clients -> Tokens \cup {None}] /\ answered' \in [Clients -> Nat \cup {None}]
    BY <1>0, <1>1, <1>2, <1>6
  <2> QED
    BY <1>0, <2>1, <2>2 DEF SessionInv, Types
<1>9. /\ DOMAIN req'[c] = Fields /\ req'[c].pc = "idle" /\ req'[c].user = None
      /\ req'[c].target = None /\ req'[c].token = None /\ req'[c].since = 0
      /\ req'[c].result \in {"none", "ok"}
  BY <1>7, IdleFields
<1>10. cookie'[c].user = u /\ cookie'[c].createdAt = clock /\ cookie'[c].validTill = clock + TTL
  BY <1>6, <1>7
<1>11. ClientInv(c)'
  <2>1. RequestIsSound(c)' /\ LockCoversInsert(c)'
    BY <1>9 DEF RequestIsSound, LockCoversInsert
  <2>2. OwnerIsKnown(c)'
    BY <1>0, <1>3, <1>4, <1>7, <1>9, <1>10 DEF OwnerIsKnown, Known, CredentialsOf
  <2>3. TokensAreDated(c)'
    <3>1. clock <= clock
      BY <1>1
    <3> QED
      BY <1>0, <1>5, <1>9, <1>10, <3>1 DEF TokensAreDated, Deleted
  <2>4. AnswersAreDated(c)'
    <3>1. clock <= clock + RenewalInterval + MaxLatency
      BY <1>1
    <3> QED
      BY <1>1, <1>7, <1>9, <1>10, <3>1 DEF AnswersAreDated
  <2> QED
    BY <2>1, <2>2, <2>3, <2>4 DEF ClientInv
<1> QED
  BY <1>0, <1>2, <1>7, <1>8, <1>11, RequestStep

(* A token from elsewhere: nothing is known of it but its type.            *)
LEMMA PresentStep ==
    ASSUME SessionInv, NEW c \in Clients, NEW token \in OtherTokens[c], Present(c, token)
    PROVE  SessionInv'
<1>0. /\ req[c].pc = "idle" /\ cookie' = [cookie EXCEPT ![c] = token] /\ as' = [as EXCEPT ![c] = None]
      /\ read' = [read EXCEPT ![c] = None]
      /\ UNCHANGED <<clock, users, lock, req, faults, deletedOn, answered>>
  BY DEF Present
<1>1. token \in Tokens
  BY SessionsAssumption DEF Tokens
<1>2. /\ DOMAIN as = Clients /\ cookie \in [Clients -> Tokens \cup {None}]
      /\ read \in [Clients -> Users \cup {None}] /\ faults \in Nat /\ faults <= faults
  BY DEF SessionInv, Types
<1>3. /\ as'[c] = None /\ read'[c] = None /\ cookie'[c] = token
      /\ \A e \in Clients : e # c => UNCHANGED <<cookie[e], req[e], as[e], answered[e], read[e]>>
  BY <1>0, <1>2
<1>4. Types'
  <2>1. DOMAIN as' = Clients
    BY <1>0, <1>2
  <2>2. cookie' \in [Clients -> Tokens \cup {None}] /\ read' \in [Clients -> Users \cup {None}]
    BY <1>0, <1>1, <1>2
  <2> QED
    BY <1>0, <2>1, <2>2 DEF SessionInv, Types
<1>5. ClientInv(c)'
  <2>0. RequestIsSound(c) /\ LockCoversInsert(c) /\ req[c].token = None
    BY <1>0, ClientFacts, IdleIsEmpty
  <2>1. RequestIsSound(c)' /\ LockCoversInsert(c)'
    BY <1>0, <1>3, <2>0 DEF RequestIsSound, LockCoversInsert
  <2>2. OwnerIsKnown(c)' /\ TokensAreDated(c)' /\ AnswersAreDated(c)'
    BY <1>0, <1>3, <2>0 DEF OwnerIsKnown, TokensAreDated, AnswersAreDated, LoggedIn
  <2> QED
    BY <2>1, <2>2 DEF ClientInv
<1> QED
  BY <1>0, <1>2, <1>3, <1>4, <1>5, RequestStep

(* A request that was passed on is answered.                               *)
LEMMA AnsweringUser ==
    ASSUME SessionInv, WorldGoesOn, clock' = clock, NEW c \in Clients, req[c].pc \in {"forward", "delete"},
           NEW result, result # "error", AnswerUser(c, result),
           read' = read \/ read' = [read EXCEPT ![c] = None]
               \/ (read' = [read EXCEPT ![c] = req[c].user] /\ req[c].user # None)
    PROVE  /\ ClientInv(c)' /\ DOMAIN req' = Clients /\ DOMAIN as' = Clients
           /\ cookie' \in [Clients -> Tokens \cup {None}] /\ answered' \in [Clients -> Nat \cup {None}]
           /\ read' \in [Clients -> Users \cup {None}]
           /\ \A e \in Clients : e # c => UNCHANGED <<cookie[e], req[e], as[e], answered[e], read[e]>>
<1>0. /\ DOMAIN req = Clients /\ DOMAIN as = Clients /\ clock \in Nat
      /\ cookie \in [Clients -> Tokens \cup {None}] /\ answered \in [Clients -> Nat \cup {None}]
      /\ read \in [Clients -> Users \cup {None}]
  BY DEF SessionInv, Types
<1>1. req[c].token \in Tokens \cup {None} /\ req[c].user \in Users \cup {None} /\ read[c] = None
  BY ClientFacts DEF RequestIsSound
<1>2. /\ req' = [req EXCEPT ![c] = Idle(result)]
      /\ cookie' = [cookie EXCEPT ![c] = IF req[c].token = None THEN cookie[c] ELSE req[c].token]
      /\ answered' = [answered EXCEPT ![c] = IF req[c].user = None THEN answered[c] ELSE clock]
      /\ as' = as
  BY DEF AnswerUser
<1>3. /\ DOMAIN req' = Clients /\ DOMAIN as' = Clients
      /\ cookie' \in [Clients -> Tokens \cup {None}] /\ answered' \in [Clients -> Nat \cup {None}]
  BY <1>0, <1>1, <1>2
<1>4. read' \in [Clients -> Users \cup {None}] /\ (read'[c] = None \/ (read'[c] = req[c].user /\ req[c].user # None))
      /\ \A e \in Clients : e # c => read'[e] = read[e]
  BY <1>0, <1>1
<1>5. /\ req'[c] = Idle(result) /\ as'[c] = as[c]
      /\ cookie'[c] = IF req[c].token = None THEN cookie[c] ELSE req[c].token
      /\ answered'[c] = IF req[c].user = None THEN answered[c] ELSE clock
      /\ \A e \in Clients : e # c => UNCHANGED <<cookie[e], req[e], as[e], answered[e]>>
  BY <1>0, <1>2
<1>6. ClientInv(c)'
  BY <1>4, <1>5, AnswerUserStep
<1> QED
  BY <1>3, <1>4, <1>5, <1>6

LEMMA UserAnswered ==
    ASSUME SessionInv, NEW c \in Clients, req[c].pc = "forward", NEW result, result # "error",
           AnswerUser(c, result), UNCHANGED <<clock, users, lock, faults, deletedOn>>,
           read' = read \/ read' = [read EXCEPT ![c] = None]
               \/ (read' = [read EXCEPT ![c] = req[c].user] /\ req[c].user # None)
    PROVE  SessionInv'
<1>0. faults' \in Nat /\ faults <= faults'
  BY DEF SessionInv, Types
<1>1. WorldGoesOn
  BY <1>0, SameWorld
<1>2. /\ ClientInv(c)' /\ DOMAIN req' = Clients /\ DOMAIN as' = Clients
      /\ cookie' \in [Clients -> Tokens \cup {None}] /\ answered' \in [Clients -> Nat \cup {None}]
      /\ read' \in [Clients -> Users \cup {None}]
      /\ \A e \in Clients : e # c => UNCHANGED <<cookie[e], req[e], as[e], answered[e], read[e]>>
  BY <1>1, AnsweringUser
<1>3. Types'
  BY <1>2 DEF SessionInv, Types
<1> QED
  BY <1>0, <1>2, <1>3, RequestStep

LEMMA PrincipalIsUser ==
    ASSUME NEW c \in Clients
    PROVE  Principal(c) = "user" <=> req[c].user # None
  BY DEF Principal

LEMMA ReadStep ==
    ASSUME SessionInv, NEW c \in Clients, NEW u, NEW found, found \in BOOLEAN,
           found /\ Principal(c) = "user" => u = req[c].user,
           req[c].pc = "forward", AnswerRead(c, u, found), UNCHANGED <<clock, users, lock, faults, deletedOn>>
    PROVE  SessionInv'
<1>1. read' = [read EXCEPT ![c] = IF found /\ Principal(c) = "user" THEN u ELSE None]
  BY DEF AnswerRead
<1>2. read' = [read EXCEPT ![c] = None] \/ (read' = [read EXCEPT ![c] = req[c].user] /\ req[c].user # None)
  BY <1>1, PrincipalIsUser
<1>3. PICK result \in {"ok", "refused"} : AnswerUser(c, result)
  BY DEF AnswerRead
<1> QED
  BY <1>2, <1>3, UserAnswered

LEMMA ReadUserStep ==
    ASSUME SessionInv, NEW c \in Clients, NEW u, ReadUser(c, u)
    PROVE  SessionInv'
<1>1. Allowed(c, "readUser", u) /\ Principal(c) = "user" => u = req[c].user
  BY DEF Allowed, CanReadUser
<1>2. (Allowed(c, "readUser", u) /\ users[u].login # None) \in BOOLEAN
  BY DEF Allowed, CanReadUser
<1> QED
  BY <1>1, <1>2, ReadStep DEF ReadUser

LEMMA ReadCurrentUserStep ==
    ASSUME SessionInv, NEW c \in Clients, ReadCurrentUser(c)
    PROVE  SessionInv'
<1>1. CASE ReadUser(c, req[c].user)
  BY <1>1, ReadUserStep
<1>2. CASE ~ReadUser(c, req[c].user)
  BY <1>2, ReadStep DEF ReadCurrentUser
<1> QED
  BY <1>1, <1>2

LEMMA UseProfileStep ==
    ASSUME SessionInv, NEW c \in Clients, NEW u, NEW op \in {"getProfile", "updateProfile"}, UseProfile(c, u, op)
    PROVE  SessionInv'
<1>1. Allowed(c, op, u) /\ Principal(c) = "user" => u = req[c].user
  BY DEF Allowed, CanUseProfile
<1>2. (Allowed(c, op, u) /\ Live(u)) \in BOOLEAN
  BY DEF Allowed, CanUseProfile, Live
<1> QED
  BY <1>1, <1>2, ReadStep DEF UseProfile

LEMMA DeleteStep ==
    ASSUME SessionInv, NEW c \in Clients, NEW u \in Users, Delete(c, u)
    PROVE  SessionInv'
<1>0. /\ req[c].pc = "forward" /\ UNCHANGED <<clock, users, lock, faults, deletedOn, read>>
      /\ \/ \E result \in {"ok", "refused"} : AnswerUser(c, result)
         \/ Proceed(c, "delete", [target |-> u])
  BY DEF Delete
<1>1. CASE \E result \in {"ok", "refused"} : AnswerUser(c, result)
  BY <1>0, <1>1, UserAnswered
<1>2. CASE Proceed(c, "delete", [target |-> u])
  <2> DEFINE f == [target |-> u]
  <2>1. DOMAIN f = {"target"} /\ f["target"] = u /\ Proceed(c, "delete", f)
    BY <1>2
  <2> HIDE DEF f
  <2>2. /\ DOMAIN req'[c] = Fields /\ req'[c].pc = "delete" /\ req'[c].result = "none"
        /\ req'[c].user = req[c].user /\ req'[c].target = u /\ req'[c].token = req[c].token
        /\ req'[c].since = req[c].since /\ UNCHANGED <<cookie, as, answered>>
    BY <2>1, ProceedFields
  <2>3. read'[c] = None
    BY <1>0, ReadIsReset
  <2>4. RequestIsSound(c) /\ OwnerIsKnown(c) /\ TokensAreDated(c) /\ AnswersAreDated(c)
    BY ClientFacts
  <2>5. /\ req[c].since \in Nat /\ req[c].since <= clock /\ clock <= req[c].since + MaxLatency
        /\ req[c].user \in Users \cup {None} /\ req[c].token \in Tokens \cup {None}
    BY <1>0, <2>4 DEF RequestIsSound
  <2>6. req[c].user # None => cookie[c] # None /\ cookie[c].user = req[c].user
    BY <1>0, <2>4 DEF OwnerIsKnown
  <2>7. req[c].token # None =>
            /\ req[c].user # None /\ req[c].token.user = req[c].user
            /\ req[c].since <= req[c].token.createdAt /\ req[c].token.createdAt <= clock
            /\ req[c].token.validTill = req[c].token.createdAt + TTL
            /\ Deleted(req[c].user) => req[c].token.createdAt <= deletedOn[req[c].user] + MaxLatency
    BY <2>4 DEF RequestIsSound, TokensAreDated
  <2>8. req[c].user # None /\ req[c].token = None =>
            cookie[c] # None /\ req[c].since < cookie[c].createdAt + RenewalInterval
    BY <1>0, <2>4 DEF AnswersAreDated
  <2>9. UNCHANGED <<clock, users, deletedOn, faults, cookie[c], as[c], answered[c]>>
    BY <1>0, <2>2
  <2>10. ClientInv(c)'
    BY <2>2, <2>3, <2>5, <2>6, <2>7, <2>8, <2>9, GoOn
  <2> QED
    BY <1>0, <2>1, <2>10, Proceeding
<1> QED
  BY <1>0, <1>1, <1>2

-----------------------------------------------------------------------------
(* The steps that change the accounts.                                     *)

LEMMA DeleteStoreStep ==
    ASSUME SessionInv, NEW c \in Clients, DeleteStore(c)
    PROVE  SessionInv'
<1>0. /\ req[c].pc = "delete" /\ users' = [users EXCEPT ![req[c].target].deletedAt = clock]
      /\ deletedOn' = [deletedOn EXCEPT ![req[c].target] = clock]
      /\ AnswerUser(c, "ok") /\ UNCHANGED <<clock, lock, faults, read>>
  BY DEF DeleteStore
<1>1. /\ DOMAIN users = Users /\ clock \in Nat /\ faults \in Nat /\ deletedOn \in [Users -> Nat \cup {None}]
      /\ \A u \in Users : DOMAIN users[u] = {"login", "password", "deletedAt"}
  BY DEF SessionInv, Types
<1>2. /\ DOMAIN users' = Users
      /\ \A u \in Users :
             /\ DOMAIN users'[u] = {"login", "password", "deletedAt"}
             /\ users'[u].login = users[u].login /\ users'[u].password = users[u].password
             /\ u # req[c].target => users'[u].deletedAt = users[u].deletedAt
  BY <1>0, <1>1
<1>3. /\ deletedOn' \in [Users -> Nat \cup {None}]
      /\ \A u \in Users : deletedOn'[u] = IF u = req[c].target THEN clock ELSE deletedOn[u]
  BY <1>0, <1>1
<1>4. \A u \in Users : Deleted(u)' =>
          /\ deletedOn'[u] \in Nat
          /\ deletedOn'[u] = clock \/ (Deleted(u) /\ deletedOn'[u] = deletedOn[u])
  BY <1>1, <1>2, <1>3 DEF SessionInv, DeletionsAreDated, Deleted
<1>5. WorldGoesOn
  BY <1>0, <1>1, <1>2, <1>4 DEF WorldGoesOn, Known, CredentialsOf
<1>6. /\ ClientInv(c)' /\ DOMAIN req' = Clients /\ DOMAIN as' = Clients
      /\ cookie' \in [Clients -> Tokens \cup {None}] /\ answered' \in [Clients -> Nat \cup {None}]
      /\ read' \in [Clients -> Users \cup {None}]
      /\ \A e \in Clients : e # c => UNCHANGED <<cookie[e], req[e], as[e], answered[e], read[e]>>
  BY <1>0, <1>5, AnsweringUser
<1>7. Types'
  BY <1>0, <1>1, <1>2, <1>3, <1>6 DEF Types
<1>8. ASSUME NEW e \in Clients, e # c PROVE ClientInv(e)'
  <2>1. req[e].pc # "idle" => clock' <= req[e].since + MaxLatency
    BY <1>0, ClientFacts DEF RequestIsSound
  <2> QED
    BY <1>0, <1>2, <1>5, <1>6, <1>8, <2>1, ClientStays
<1>9. DeletionsAreDated'
  BY <1>4 DEF DeletionsAreDated
<1>10. \A e \in Clients : ClientInv(e)'
  BY <1>6, <1>8
<1> QED
  BY <1>7, <1>9, <1>10 DEF SessionInv

LEMMA RegisterStoreStep ==
    ASSUME SessionInv, NEW c \in Clients, RegisterStore(c)
    PROVE  SessionInv'
<1>0. req[c].pc = "store" /\ lock' = None /\ UNCHANGED <<clock, faults, deletedOn, read>>
  BY DEF RegisterStore
<1>1. lock = c /\ WithLogin(req[c].cred[1]) = {} /\ c # None
  BY <1>0, ClientFacts, SessionsAssumption DEF LockCoversInsert
<1>2. PICK v \in Users : /\ users[v].login = None /\ Answer(c, "ok")
                         /\ users' = [users EXCEPT ![v] = [login |-> req[c].cred[1], password |-> req[c].cred[2],
                                                           deletedAt |-> None]]
  BY <1>1 DEF RegisterStore
<1>3. /\ DOMAIN users = Users /\ clock \in Nat /\ faults \in Nat /\ deletedOn \in [Users -> Nat \cup {None}]
      /\ \A u \in Users : DOMAIN users[u] = {"login", "password", "deletedAt"}
      /\ DOMAIN req = Clients /\ read \in [Clients -> Users \cup {None}]
  BY DEF SessionInv, Types
<1> DEFINE row == [login |-> req[c].cred[1], password |-> req[c].cred[2], deletedAt |-> None]
<1>4. DOMAIN row = {"login", "password", "deletedAt"} /\ row.deletedAt = None
  OBVIOUS
<1>5. users' = [users EXCEPT ![v] = row]
  BY <1>2
<1> HIDE DEF row
<1>6. /\ DOMAIN users' = Users /\ users'[v] = row /\ \A u \in Users : u # v => users'[u] = users[u]
  BY <1>3, <1>5
<1>7. \A u \in Users : DOMAIN users'[u] = {"login", "password", "deletedAt"}
  BY <1>3, <1>4, <1>6
<1>8. \A u \in Users : Deleted(u)' => Deleted(u) /\ deletedOn'[u] = deletedOn[u] /\ deletedOn'[u] \in Nat
  BY <1>0, <1>4, <1>6 DEF SessionInv, DeletionsAreDated, Deleted
<1>9. \A u \in Users : Known(u) => Known(u)' /\ CredentialsOf(u)' = CredentialsOf(u)
  BY <1>2, <1>6 DEF Known, CredentialsOf
<1>10. WorldGoesOn
  BY <1>0, <1>3, <1>8, <1>9 DEF WorldGoesOn
<1>11. /\ DOMAIN req' = Clients /\ req'[c] = Idle("ok") /\ \A e \in Clients : e # c => req'[e] = req[e]
       /\ UNCHANGED <<cookie, as, answered>>
  BY <1>2, <1>3 DEF Answer
<1>12. ClientInv(c)'
  BY <1>0, <1>10, <1>11, AnswerStep
<1>13. ASSUME NEW e \in Clients, e # c PROVE ClientInv(e)'
  <2>1. req[e].pc # "idle" => clock' <= req[e].since + MaxLatency
    BY <1>0, ClientFacts DEF RequestIsSound
  <2>2. req[e].pc # "store"
    BY <1>1, <1>13, ClientFacts DEF LockCoversInsert
  <2>3. UNCHANGED <<cookie[e], req[e], as[e], answered[e], read[e]>>
    BY <1>0, <1>11, <1>13
  <2> QED
    BY <1>10, <2>1, <2>2, <2>3, ClientStays
<1>14. Types'
  BY <1>0, <1>6, <1>7, <1>11 DEF SessionInv, Types
<1>15. DeletionsAreDated'
  BY <1>8 DEF DeletionsAreDated
<1>16. \A e \in Clients : ClientInv(e)'
  BY <1>12, <1>13
<1> QED
  BY <1>14, <1>15, <1>16 DEF SessionInv

LEMMA FailStep ==
    ASSUME SessionInv, NEW c \in Clients, Fail(c)
    PROVE  SessionInv'
<1>1. faults \in Nat
  BY DEF SessionInv, Types
<1>2. faults' \in Nat /\ faults <= faults' /\ faults' > 0
  BY <1>1 DEF Fail
<1>3. lock' = lock \/ lock \in {None, c}
  BY DEF Fail
<1> QED
  BY <1>2, <1>3, Answering DEF Fail

LEMMA TickStep ==
    ASSUME SessionInv, Tick
    PROVE  SessionInv'
<1>0. /\ clock' = clock + 1 /\ \A c \in Clients : req[c].pc # "idle" => clock - req[c].since < MaxLatency
      /\ UNCHANGED <<users, lock, cookie, req, faults, deletedOn, as, answered, read>>
  BY DEF Tick
<1>1. clock \in Nat /\ faults \in Nat /\ DeletionsAreDated
  BY DEF SessionInv, Types
<1>2. WorldGoesOn
  BY <1>0, <1>1 DEF WorldGoesOn, Known, CredentialsOf, Deleted, DeletionsAreDated
<1>3. ASSUME NEW c \in Clients PROVE ClientInv(c)'
  <2>1. req[c].since \in Nat /\ MaxLatency \in Nat
    BY ClientFacts
  <2>2. req[c].pc # "idle" => clock' <= req[c].since + MaxLatency
    BY <1>0, <1>1, <2>1
  <2> QED
    BY <1>0, <1>2, <2>2, ClientStays
<1>4. Types' /\ DeletionsAreDated'
  BY <1>0, <1>1 DEF SessionInv, Types, DeletionsAreDated, Deleted
<1> QED
  BY <1>3, <1>4 DEF SessionInv

-----------------------------------------------------------------------------
LEMMA InitInv ==
    ASSUME Init
    PROVE  SessionInv
<1>1. Types
  BY DEF Init, Types
<1>2. DeletionsAreDated
  BY DEF Init, DeletionsAreDated, Deleted
<1>3. ASSUME NEW c \in Clients PROVE ClientInv(c)
  <2>1. /\ DOMAIN req[c] = Fields /\ req[c].pc = "idle" /\ req[c].user = None
        /\ req[c].target = None /\ req[c].token = None /\ req[c].since = 0 /\ req[c].result = "none"
        /\ cookie[c] = None /\ read[c] = None
    BY IdleFields DEF Init
  <2> QED
    BY <2>1 DEF ClientInv, RequestIsSound, LockCoversInsert, OwnerIsKnown, TokensAreDated, AnswersAreDated
<1> QED
  BY <1>1, <1>2, <1>3 DEF SessionInv

LEMMA NextInv ==
    ASSUME SessionInv, [Next]_vars
    PROVE  SessionInv'
<1>1. CASE Tick
  BY <1>1, TickStep
<1>2. ASSUME NEW c \in Clients, NEW k \in Credentials, Register(c, k[1], k[2]) \/ Authenticate(c, k[1], k[2])
      PROVE  SessionInv'
  BY <1>2, RegisterStep, AuthenticateStep
<1>3. ASSUME NEW c \in Clients, RegisterFind(c) \/ RegisterStore(c) PROVE SessionInv'
  BY <1>3, RegisterFindStep, RegisterStoreStep
<1>4. ASSUME NEW c \in Clients, Verify(c) \/ Login(c) \/ Renew(c) \/ ForwardUnverified(c) PROVE SessionInv'
  BY <1>4, VerifyStep, LoginStep, RenewStep, ForwardStep
<1>5. ASSUME NEW c \in Clients, NEW u \in Users, ReadUser(c, u) \/ Delete(c, u) PROVE SessionInv'
  BY <1>5, ReadUserStep, DeleteStep
<1>6. ASSUME NEW c \in Clients, NEW u \in Users, NEW op \in {"getProfile", "updateProfile"}, UseProfile(c, u, op)
      PROVE  SessionInv'
  BY <1>6, UseProfileStep
<1>7. ASSUME NEW c \in Clients, ReadCurrentUser(c) \/ DeleteStore(c) \/ Fail(c) PROVE SessionInv'
  BY <1>7, ReadCurrentUserStep, DeleteStoreStep, FailStep
<1>8. ASSUME NEW c \in Clients, NEW token \in OtherTokens[c], Present(c, token) PROVE SessionInv'
  BY <1>8, PresentStep
<1>9. CASE UNCHANGED vars
  <2>1. UNCHANGED <<clock, users, lock, cookie, req, faults, deletedOn, as, answered, read>>
    BY <1>9 DEF vars
  <2>2. WorldGoesOn
    <3>1. faults' \in Nat /\ faults <= faults'
      BY <2>1 DEF SessionInv, Types
    <3> QED
      BY <2>1, <3>1, SameWorld
  <2>3. ASSUME NEW c \in Clients PROVE ClientInv(c)'
    <3>1. req[c].pc # "idle" => clock' <= req[c].since + MaxLatency
      BY <2>1, ClientFacts DEF RequestIsSound
    <3> QED
      BY <2>1, <2>2, <3>1, ClientStays
  <2>4. Types' /\ DeletionsAreDated'
    BY <2>1 DEF SessionInv, Types, DeletionsAreDated, Deleted
  <2> QED
    BY <2>3, <2>4 DEF SessionInv
<1> QED
  BY <1>1, <1>2, <1>3, <1>4, <1>5, <1>6, <1>7, <1>8, <1>9 DEF Next

LEMMA SessionInvariant == Spec => []SessionInv
  BY InitInv, NextInv, PTL DEF Spec

-----------------------------------------------------------------------------
(***************************************************************************)
(* A request to register never fails on the unique login: Register of      *)
(* user.go finds that the login is free and inserts it under one           *)
(* updateUsersLock, so that only a fault of the database gives an error.   *)
(***************************************************************************)
THEOREM RegistrationsOnlyFailByFaults == Spec => []OnlyFaultsFail
<1>1. SessionInv => OnlyFaultsFail
  BY ClientFacts DEF OnlyFaultsFail, LockCoversInsert
<1> QED
  BY <1>1, SessionInvariant, PTL

(***************************************************************************)
(* The data answered to a client that asks as a user is that of the user   *)
(* its token names and, in a session that began with a login, of the user  *)
(* whose login and password were given: the tokens of Authenticate and     *)
(* VerifyAuthentication in auth.go, the principal and the permissions lead *)
(* from a login to no other account, however many clients there are and    *)
(* whatever tokens from elsewhere they send.                               *)
(***************************************************************************)
THEOREM ReadsAreTheOwners == Spec => []DataToOwner
<1>1. SessionInv => DataToOwner
  BY ClientFacts DEF DataToOwner, OwnerIsKnown, CredentialsOf
<1> QED
  BY <1>1, SessionInvariant, PTL

(***************************************************************************)
(* In a session that began with a login a request is passed on in the name *)
(* of a deleted user for less than a renewal interval and the time of two  *)
(* requests after the deletion, for all intervals: VerifyAuthentication of *)
(* auth.go looks the account up whenever the token is not fresh.           *)
(***************************************************************************)
THEOREM DeletedUsersAreLetInNoLonger == Spec => []SessionEnds
<1>1. SessionInv => SessionEnds
  <2> SUFFICES ASSUME SessionInv, NEW c \in Clients, LoggedIn(c),
                      req[c].pc = "forward", req[c].user # None, ~Live(req[c].user)
               PROVE  clock < deletedOn[req[c].user] + RenewalInterval + 2 * MaxLatency
    BY DEF SessionEnds
  <2>1. PICK u \in Users : u = req[c].user
    BY ClientFacts
  <2>2. Deleted(u)
    BY <2>1, ClientFacts DEF OwnerIsKnown, Known, Live, Deleted
  <2>3. deletedOn[u] \in Nat
    BY <2>2 DEF SessionInv, DeletionsAreDated
  <2>4. req[c].since < deletedOn[u] + RenewalInterval + MaxLatency
    BY <2>1, <2>2, ClientFacts DEF TokensAreDated
  <2>5. clock <= req[c].since + MaxLatency
    BY ClientFacts DEF RequestIsSound
  <2>6. clock \in Nat /\ req[c].since \in Nat /\ MaxLatency \in Nat /\ RenewalInterval \in Nat
    BY ClientFacts
  <2> QED
    BY <2>1, <2>3, <2>4, <2>5, <2>6
<1> QED
  BY <1>1, SessionInvariant, PTL

(***************************************************************************)
(* A client that logged in and keeps using its session is not asked again: *)
(* VerifyAuthentication of auth.go refuses the cookie of an account that   *)
(* is not deleted only when the last answer is older than the time to live *)
(* less the renewal interval and the time of a request.                    *)
(***************************************************************************)
THEOREM ActiveClientsStayIn == Spec => ActiveStaysIn
<1> DEFINE Explained ==
        \A c \in Clients :
            /\ LoggedIn(c) /\ cookie[c] # None /\ Live(cookie[c].user)
            /\ req'[c] = Idle("refused") /\ Verify(c)
            => clock - answered[c] > TTL - RenewalInterval - MaxLatency
<1>1. SessionInv => Explained
  <2> SUFFICES ASSUME SessionInv, NEW c \in Clients, LoggedIn(c), cookie[c] # None, Verify(c),
                      req'[c] = Idle("refused"), Live(cookie[c].user)
               PROVE  clock - answered[c] > TTL - RenewalInterval - MaxLatency
    OBVIOUS
  <2>1. req'[c].pc = "idle"
    BY IdleFields
  <2>2. ASSUME NEW pc \in {"forward", "renew"}, Proceed(c, pc, [user |-> cookie[c].user, since |-> clock])
        PROVE  FALSE
    <3> DEFINE f == [user |-> cookie[c].user, since |-> clock]
    <3>1. DOMAIN f = {"user", "since"} /\ Proceed(c, pc, f)
      BY <2>2
    <3> HIDE DEF f
    <3>2. req'[c].pc = pc
      BY <3>1, ProceedFields
    <3> QED
      BY <2>1, <2>2, <3>2
  <2>3. ~Valid(cookie[c])
    BY <2>2 DEF Verify, MayRenew
  <2>4. PICK t \in Nat : t = cookie[c].createdAt
    BY ClientFacts
  <2>5. ~(t + TTL >= clock)
    BY <2>3, <2>4, ClientFacts DEF Valid, TokensAreDated
  <2>6. answered[c] \in Nat /\ answered[c] <= t + RenewalInterval + MaxLatency
    BY <2>4, ClientFacts DEF AnswersAreDated
  <2>7. clock \in Nat /\ TTL \in Nat /\ RenewalInterval \in Nat /\ MaxLatency \in Nat
    BY ClientFacts, SessionsAssumption
  <2> QED
    BY <2>5, <2>6, <2>7
<1> HIDE DEF Explained
<1>2. Spec => [][Explained]_vars
  BY <1>1, SessionInvariant, PTL
<1> QED
  BY <1>2 DEF ActiveStaysIn, Explained
=============================================================================
