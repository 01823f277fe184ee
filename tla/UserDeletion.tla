---------------------------- MODULE UserDeletion ----------------------------
(***************************************************************************)
(* The deletion of a user across the two services.                         *)
(*                                                                         *)
(* user-service deletes a user and stores the event EventUserDeleted in    *)
(* one transaction (internal/user/app/service/user.go), under the lock of  *)
(* the user's row.  user-profile-service asks user-service whether a user  *)
(* exists and then stores a profile, outside any transaction.  The message *)
(* pipeline delivers the event at least once, perhaps to two handlers at a *)
(* time; the handler asks user-service again, and removes the profile in a *)
(* transaction that also inserts an idempotency key                        *)
(* (internal/userprofile/app/service/userprofile.go).  A cleaner removes   *)
(* old keys.                                                               *)
(*                                                                         *)
(* Transactions are read committed: their writes are kept by the process   *)
(* and become visible in its commit step, and rows they wrote are locked   *)
(* until then.  An event is named by the call of Delete that created it,   *)
(* for its id is a fresh UUID.                                             *)
(***************************************************************************)
EXTENDS Integers, FiniteSets

CONSTANTS
    Users,      \* registered users
    Deleters,   \* calls of Delete, each with an event id of its own
    Updaters,   \* processes that update profiles
    Handlers,   \* processes that handle delivered events
    MaxFailedRuns, \* bound on handler runs that fail
    Nobody      \* "no call holds the lock", "no user", "no event"

ASSUME FiniteAssumption == IsFiniteSet(Users) /\ IsFiniteSet(Deleters)
ASSUME MaxFailedRunsAssumption == MaxFailedRuns \in Nat
ASSUME NobodyAssumption == Nobody \notin Users \union Deleters \union Handlers

VARIABLES
    deleted,   \* deleted[u]: the committed deleted_at of the user is set
    rowLock,   \* rowLock[u]: the Delete that has locked the user's row
    delete,    \* delete[d]: where the call is
    target,    \* target[d]: the user it deletes
    events,    \* the committed rows of message_storage
    created,   \* every event ever committed
    profiles,  \* profiles[u]: the user has a profile
    stale,     \* stale[u]: a profile was stored after the deletion
    update,    \* update[p]: the user whose profile p is about to store
    handler,   \* handler[h]: where the handler is
    event,     \* event[h]: the event it handles
    keys,      \* the committed idempotency keys, by event
    runs,      \* runs[e]: committed transactions that handled the event
    expired,   \* the events whose key the cleaner has removed
    failedRuns \* how many runs have failed

userVars    == <<deleted, rowLock, delete, target>>
eventVars   == <<events, created>>
profileVars == <<profiles, stale, update>>
handlerVars == <<handler, event, keys, runs, expired>>
deletionVars == <<userVars, eventVars, profileVars, handlerVars, failedRuns>>

DeleteStates  == {"idle", "find", "store", "commit", "done"}
HandlerStates == {"idle", "get", "key", "delete", "removed", "absent", "ack"}

(* The handler's transaction has inserted the key of its event.            *)
HoldsKey(h) == handler[h] \in {"delete", "removed", "absent"}

DeletionTypeOK ==
    /\ deleted \in [Users -> BOOLEAN]
    /\ rowLock \in [Users -> Deleters \union {Nobody}]
    /\ delete \in [Deleters -> DeleteStates]
    /\ target \in [Deleters -> Users \union {Nobody}]
    /\ events \subseteq created /\ created \subseteq Deleters
    /\ profiles \in [Users -> BOOLEAN] /\ stale \in [Users -> BOOLEAN]
    /\ update \in [Updaters -> Users \union {Nobody}]
    /\ handler \in [Handlers -> HandlerStates]
    /\ event \in [Handlers -> Deleters \union {Nobody}]
    /\ keys \subseteq Deleters /\ expired \subseteq Deleters
    /\ runs \in [Deleters -> Nat]
    /\ failedRuns \in Nat

DeletionInit ==
    /\ deleted = [u \in Users |-> FALSE]
    /\ rowLock = [u \in Users |-> Nobody]
    /\ delete = [d \in Deleters |-> "idle"]
    /\ target = [d \in Deleters |-> Nobody]
    /\ events = {} /\ created = {}
    /\ profiles = [u \in Users |-> FALSE] /\ stale = [u \in Users |-> FALSE]
    /\ update = [p \in Updaters |-> Nobody]
    /\ handler = [h \in Handlers |-> "idle"]
    /\ event = [h \in Handlers |-> Nobody]
    /\ keys = {} /\ expired = {}
    /\ runs = [d \in Deleters |-> 0]
    /\ failedRuns = 0

-----------------------------------------------------------------------------
(***************************************************************************)
(* userService.Delete.                                                     *)
(***************************************************************************)

(* The permission is checked and the transaction begins.                   *)
BeginDelete(d, u) ==
    /\ delete[d] = "idle"
    /\ delete' = [delete EXCEPT ![d] = "find"]
    /\ target' = [target EXCEPT ![d] = u]
    /\ UNCHANGED <<deleted, rowLock, eventVars, profileVars, handlerVars, failedRuns>>

(* Faulty variant: FindOne without LockUpdate.                             *)
FindUserUnlocked(d) ==
    /\ delete[d] = "find"
    /\ delete' = [delete EXCEPT ![d] = IF deleted[target[d]] THEN "done" ELSE "store"]
    /\ UNCHANGED <<deleted, rowLock, target, eventVars, profileVars, handlerVars, failedRuns>>

(* FindOne waits for the lock of the row.  When the user is deleted there  *)
(* is nothing to do and the transaction ends.                              *)
FindUser(d) ==
    /\ delete[d] = "find"
    /\ rowLock[target[d]] = Nobody
    /\ IF deleted[target[d]]
       THEN delete' = [delete EXCEPT ![d] = "done"] /\ UNCHANGED rowLock
       ELSE /\ delete' = [delete EXCEPT ![d] = "store"]
            /\ rowLock' = [rowLock EXCEPT ![target[d]] = d]
    /\ UNCHANGED <<deleted, target, eventVars, profileVars, handlerVars, failedRuns>>

(* SetDeletedAt creates the event; Store dispatches it, which inserts its  *)
(* row, and updates the user, all in the transaction.                      *)
StoreUser(d) ==
    /\ delete[d] = "store"
    /\ delete' = [delete EXCEPT ![d] = "commit"]
    /\ UNCHANGED <<deleted, rowLock, target, eventVars, profileVars, handlerVars, failedRuns>>

CommitDelete(d) ==
    /\ delete[d] = "commit"
    /\ delete' = [delete EXCEPT ![d] = "done"]
    /\ deleted' = [deleted EXCEPT ![target[d]] = TRUE]
    /\ events' = events \union {d}
    /\ created' = created \union {d}
    /\ rowLock' = [rowLock EXCEPT ![target[d]] = IF @ = d THEN Nobody ELSE @]
    /\ UNCHANGED <<target, profileVars, handlerVars, failedRuns>>

(* A call fails, or the process crashes: the transaction is rolled back.   *)
RollbackDelete(d) ==
    /\ delete[d] \in {"find", "store", "commit"}
    /\ delete' = [delete EXCEPT ![d] = "done"]
    /\ rowLock' = [rowLock EXCEPT ![target[d]] = IF @ = d THEN Nobody ELSE @]
    /\ UNCHANGED <<deleted, target, eventVars, profileVars, handlerVars, failedRuns>>

-----------------------------------------------------------------------------
(***************************************************************************)
(* userProfileService.Update.                                              *)
(***************************************************************************)

(* The user is looked up in user-service and is not deleted.               *)
CheckUser(p, u) ==
    /\ update[p] = Nobody
    /\ ~deleted[u]
    /\ update' = [update EXCEPT ![p] = u]
    /\ UNCHANGED <<userVars, eventVars, profiles, stale, handlerVars, failedRuns>>

(* A handler's transaction has deleted the profile's row.                  *)
ProfileLocked(u) ==
    \E h \in Handlers : handler[h] = "removed" /\ target[event[h]] = u

(* The profile is stored, after the transaction that holds its row.        *)
StoreUpdate(p) ==
    /\ update[p] # Nobody
    /\ ~ProfileLocked(update[p])
    /\ profiles' = [profiles EXCEPT ![update[p]] = TRUE]
    /\ stale' = [stale EXCEPT ![update[p]] = @ \/ deleted[update[p]]]
    /\ update' = [update EXCEPT ![p] = Nobody]
    /\ UNCHANGED <<userVars, eventVars, handlerVars, failedRuns>>

(* The request ends without the store.                                     *)
AbandonUpdate(p) ==
    /\ update[p] # Nobody
    /\ update' = [update EXCEPT ![p] = Nobody]
    /\ UNCHANGED <<userVars, eventVars, profiles, stale, handlerVars, failedRuns>>

-----------------------------------------------------------------------------
(***************************************************************************)
(* userProfileService.HandleUserDeleted.                                   *)
(***************************************************************************)

(* The pipeline delivers an event that is not acknowledged.                *)
DeliverEvent(h, e) ==
    /\ handler[h] = "idle"
    /\ e \in events
    /\ handler' = [handler EXCEPT ![h] = "get"]
    /\ event' = [event EXCEPT ![h] = e]
    /\ UNCHANGED <<userVars, eventVars, profileVars, keys, runs, expired, failedRuns>>

(* A user that is not deleted: the event is taken for handled.             *)
GetUser(h) ==
    /\ handler[h] = "get"
    /\ handler' = [handler EXCEPT ![h] = IF deleted[target[event[h]]] THEN "key" ELSE "ack"]
    /\ UNCHANGED <<userVars, eventVars, profileVars, event, keys, runs, expired, failedRuns>>

(* Faulty variant: the affected rows of the insert are not looked at.      *)
InsertKeyUnchecked(h) ==
    /\ handler[h] = "key"
    /\ \A g \in Handlers \ {h} : ~(HoldsKey(g) /\ event[g] = event[h])
    /\ handler' = [handler EXCEPT ![h] = "delete"]
    /\ UNCHANGED <<userVars, eventVars, profileVars, event, keys, runs, expired, failedRuns>>

(* Faulty variant: the key is committed by itself, before the removal.     *)
InsertKeyAtOnce(h) ==
    /\ handler[h] = "key"
    /\ keys' = keys \union {event[h]}
    /\ handler' = [handler EXCEPT ![h] = IF event[h] \in keys THEN "ack" ELSE "delete"]
    /\ UNCHANGED <<userVars, eventVars, profileVars, event, runs, expired, failedRuns>>

(* Faulty variant: ErrAlreadyInserted is an error like any other.          *)
InsertKeyOrFail(h) ==
    /\ handler[h] = "key"
    /\ \A g \in Handlers \ {h} : ~(HoldsKey(g) /\ event[g] = event[h])
    /\ handler' = [handler EXCEPT ![h] = IF event[h] \in keys THEN "idle" ELSE "delete"]
    /\ UNCHANGED <<userVars, eventVars, profileVars, event, keys, runs, expired, failedRuns>>

(* The transaction begins and inserts the key, once no other transaction   *)
(* holds the same one.  A key that exists means ErrAlreadyInserted, which  *)
(* the listener's middleware takes for success.                            *)
InsertKey(h) ==
    /\ handler[h] = "key"
    /\ \A g \in Handlers \ {h} : ~(HoldsKey(g) /\ event[g] = event[h])
    /\ handler' = [handler EXCEPT ![h] = IF event[h] \in keys THEN "ack" ELSE "delete"]
    /\ UNCHANGED <<userVars, eventVars, profileVars, event, keys, runs, expired, failedRuns>>

(* DeleteByID locks the row it deletes; no profile is no error.            *)
DeleteProfile(h) ==
    /\ handler[h] = "delete"
    /\ ~ProfileLocked(target[event[h]])
    /\ handler' = [handler EXCEPT ![h] = IF profiles[target[event[h]]] THEN "removed" ELSE "absent"]
    /\ UNCHANGED <<userVars, eventVars, profileVars, event, keys, runs, expired, failedRuns>>

CommitHandler(h) ==
    /\ handler[h] \in {"removed", "absent"}
    /\ handler' = [handler EXCEPT ![h] = "ack"]
    /\ keys' = keys \union {event[h]}
    /\ runs' = [runs EXCEPT ![event[h]] = @ + 1]
    /\ profiles' = [profiles EXCEPT ![target[event[h]]] = @ /\ handler[h] = "absent"]
    /\ UNCHANGED <<userVars, eventVars, stale, update, event, expired, failedRuns>>

(* The listener deletes the event's row.                                   *)
Acknowledge(h) ==
    /\ handler[h] = "ack"
    /\ events' = events \ {event[h]}
    /\ handler' = [handler EXCEPT ![h] = "idle"]
    /\ event' = [event EXCEPT ![h] = Nobody]
    /\ UNCHANGED <<userVars, created, profileVars, keys, runs, expired, failedRuns>>

(* A step fails or the process crashes: what the transaction did is undone *)
(* and the event will be delivered again.                                  *)
FailHandler(h) ==
    /\ handler[h] # "idle"
    /\ failedRuns < MaxFailedRuns
    /\ failedRuns' = failedRuns + 1
    /\ handler' = [handler EXCEPT ![h] = "idle"]
    /\ event' = [event EXCEPT ![h] = Nobody]
    /\ UNCHANGED <<userVars, eventVars, profileVars, keys, runs, expired>>

(* The cleaner task removes a key that has become too old.                 *)
DeleteOutdated(e) ==
    /\ e \in keys
    /\ keys' = keys \ {e}
    /\ expired' = expired \union {e}
    /\ UNCHANGED <<userVars, eventVars, profileVars, handler, event, runs, failedRuns>>

-----------------------------------------------------------------------------
DeleteStep(d) == FindUser(d) \/ StoreUser(d) \/ CommitDelete(d) \/ RollbackDelete(d)

HandlerStep(h) ==
    \/ GetUser(h) \/ InsertKey(h) \/ DeleteProfile(h) \/ CommitHandler(h) \/ Acknowledge(h)

DeletionNext ==
    \/ \E d \in Deleters : DeleteStep(d) \/ \E u \in Users : BeginDelete(d, u)
    \/ \E p \in Updaters : StoreUpdate(p) \/ AbandonUpdate(p) \/ \E u \in Users : CheckUser(p, u)
    \/ \E h \in Handlers : HandlerStep(h) \/ FailHandler(h) \/ \E e \in Deleters : DeliverEvent(h, e)
    \/ \E e \in Deleters : DeleteOutdated(e)

DeletionSpec == DeletionInit /\ [][DeletionNext]_deletionVars

(* The pipeline delivers again what is not acknowledged, handlers run.     *)
DeletionFairness ==
    \A h \in Handlers :
        WF_deletionVars(HandlerStep(h)) /\ \A e \in Deleters : SF_deletionVars(DeliverEvent(h, e))

FairDeletionSpec == DeletionSpec /\ DeletionFairness

-----------------------------------------------------------------------------
(***************************************************************************)
(* Properties.                                                             *)
(***************************************************************************)

(* However many calls of Delete meet on a user, and whichever of them are  *)
(* rolled back, exactly one event is published for a deleted user and none *)
(* for another: the lock of FindOne covers the test of DeletedAt.          *)
OneEventPerDeletion ==
    \A u \in Users :
        Cardinality({d \in created : target[d] = u}) = (IF deleted[u] THEN 1 ELSE 0)

(* A deleted user keeps a profile only while the event is still to be      *)
(* handled, unless Update stored it after the deletion with the answer it  *)
(* had from user-service before: failures between the key and the removal  *)
(* lose nothing, since HandleUserDeleted commits both or none.             *)
ProfileGoesWithUser ==
    \A u \in Users :
        deleted[u] /\ profiles[u] => stale[u] \/ \E e \in events : target[e] = u

(* Deliveries of one event, at a time or after a failure, change the       *)
(* profile once, as long as the cleaner has not removed the event's key.   *)
EffectOnce == \A e \in Deleters \ expired : runs[e] <= 1

(* Every event of a deletion is handled and acknowledged: a duplicate ends *)
(* in ErrAlreadyInserted, which the middleware takes for success.          *)
EventsAreHandled == \A e \in Deleters : (e \in events) ~> (e \notin events)
=============================================================================
