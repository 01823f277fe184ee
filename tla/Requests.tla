------------------------------ MODULE Requests ------------------------------
(***************************************************************************)
(* How a request becomes an answer: the middlewares, the handler wrapper   *)
(* with its deferred response writer, the handlers of the two services,    *)
(* and the HTTP client through which the profile service asks the user     *)
(* service.                                                                *)
(*                                                                         *)
(* A request of a client is handled at a server ("outer"); for a route of  *)
(* the profile service its handler makes a call that is handled at the     *)
(* user service ("inner") by the same machinery.  Every request is about   *)
(* one user, whose account and profile may change at any moment.  What the *)
(* middlewares record about a request (handlerMetadata) is kept apart from *)
(* what is written to the connection.                                      *)
(***************************************************************************)
EXTENDS Integers, Sequences, FiniteSets

CONSTANTS
    Mappings,    \* the lists of error mappings a server may have, outermost first, each a
                 \* function from errors to status codes or NotSet
    MaxFaults    \* bound: database, network and encoding failures, and panics

Errors == {"none", "parse", "blank", "unauthenticated", "denied", "notFound",
           "alreadyDeleted", "alreadyExists", "other"}
Codes == {200, 201, 400, 401, 403, 404, 409, 500}
NotSet == 0  \* statusNotSetValue

ASSUME RequestsAssumption ==
    /\ Mappings \subseteq Seq([Errors \ {"none"} -> {NotSet} \cup {c \in Codes : c >= 400}])
    /\ MaxFaults \in Nat

Routes == {"authenticate", "verify", "register", "currentUser", "getUser", "deleteUser",
           "getProfile", "updateProfile"}
ProfileRoutes == {"getProfile", "updateProfile"}
Principals == {"none", "owner", "otherUser", "admin", "service"}
Places == {"outer", "inner"}

VARIABLES
    errorMaps,  \* the mappings of the servers
    req,      \* the request at each place
    getErr,   \* what Get of the client returned
    account,  \* "absent", "live" or "deleted"
    profile,  \* whether the user has a profile
    faults,
    seen      \* history: what account and profile have been since the outer request came

vars == <<errorMaps, req, getErr, account, profile, faults, seen>>
world == <<account, profile, seen>>

NoRequest == [pc |-> "none", route |-> "getUser", principal |-> "none", input |-> "good",
              user |-> "absent", err |-> "none", code |-> NotSet, body |-> FALSE,
              metaCode |-> NotSet, metaErr |-> "none", metaPanic |-> FALSE,
              level |-> "none", sent |-> NotSet, sentBody |-> FALSE]

Init ==
    /\ errorMaps \in Mappings
    /\ \E route \in Routes, principal \in Principals, input \in {"good", "blank", "bad"} :
        req = [outer |-> [NoRequest EXCEPT !.pc = "require", !.route = route,
                                           !.principal = principal, !.input = input],
               inner |-> NoRequest]
    /\ getErr = "none"
    /\ account \in {"absent", "live", "deleted"} /\ profile \in BOOLEAN
    /\ faults = 0
    /\ seen = {<<account, profile>>}

\* The fields of f are set in the request at p.
Set(p, f) ==
    req' = [req EXCEPT ![p] = [field \in DOMAIN @ |->
                IF field \in DOMAIN f THEN f[field] ELSE @[field]]]

Fault == faults < MaxFaults /\ faults' = faults + 1

\* Account and profile become a and b.
Become(a, b) ==
    /\ account' = a /\ profile' = b
    /\ seen' = seen \cup {<<a, b>>}

(***************************************************************************)
(* The middlewares before the handler.                                     *)
(***************************************************************************)

\* WithAuthenticationRequirement is an option of every route but the first three.
Required(route) == route \notin {"authenticate", "verify", "register"}

\* WithAuth has put the principal, if any, into the context; a request that must have
\* one and has none is answered here and recorded by writeHandlerResult.
Require(p) ==
    /\ req[p].pc = "require"
    /\ IF Required(req[p].route) /\ req[p].principal = "none"
       THEN Set(p, [pc |-> "map", err |-> "unauthenticated", code |-> 401,
                    metaCode |-> 401, metaErr |-> "unauthenticated"])
       ELSE Set(p, [pc |-> "handle"])
    /\ UNCHANGED <<errorMaps, getErr, world, faults>>

(***************************************************************************)
(* The handlers: the error a request ends with, and the status code the    *)
(* handler sets for it.                                                    *)
(***************************************************************************)

\* CanReadUser, CanDeleteUser, CanGetUserProfile and CanUpdateUserProfile.
Allowed(route, principal) ==
    \/ principal \in {"owner", "admin"}
    \/ principal = "service" /\ route = "getUser"

FoundUser == IF account = "absent" THEN "notFound" ELSE "none"

\* GetCurrentUserHandler: only a user is the current one.
CurrentUser(principal) ==
    CASE principal = "owner" -> {FoundUser}
      [] principal = "otherUser" -> {"none", "notFound"}
      [] principal \in {"admin", "service"} -> {"unauthenticated"}

\* The errors with which the user service may answer a good request, all its
\* dependencies working; what depends on passwords and tokens is left open.
UserService(route, principal) ==
    CASE route = "authenticate" -> {"unauthenticated"} \cup (IF account = "live" THEN {"none"} ELSE {})
      [] route = "verify" -> {"none", "unauthenticated"}
      [] route = "register" -> [absent |-> {"none"}, live |-> {"none", "alreadyExists"},
                                deleted |-> {"alreadyDeleted"}][account]
      [] route = "currentUser" -> CurrentUser(principal)
      [] route = "getUser" -> {IF Allowed(route, principal) THEN FoundUser ELSE "denied"}
      [] route = "deleteUser" -> {IF Allowed(route, principal) THEN "none" ELSE "denied"}

\* The status code each handler sets before it returns err.
AuthenticateCode(err) == IF err \in {"parse", "blank"} THEN 401 ELSE NotSet

VerifyCode(err) == IF err = "parse" THEN 401 ELSE NotSet

RegisterCode(err) ==
    CASE err = "blank" -> 400
      [] err = "alreadyDeleted" -> 403
      [] err = "alreadyExists" -> 409
      [] err = "none" -> 201
      [] OTHER -> NotSet

GetUserCode(err) == IF err = "notFound" THEN 404 ELSE NotSet

GetProfileCode(err) == IF err = "notFound" THEN 404 ELSE NotSet

UpdateProfileCode(err) ==
    CASE err = "blank" -> 400
      [] err = "notFound" -> 404
      [] OTHER -> NotSet

SetCode(route, err) ==
    CASE route = "authenticate" -> AuthenticateCode(err)
      [] route = "verify" -> VerifyCode(err)
      [] route = "register" -> RegisterCode(err)
      [] route = "getUser" -> GetUserCode(err)
      [] route = "getProfile" -> GetProfileCode(err)
      [] route = "updateProfile" -> UpdateProfileCode(err)
      [] OTHER -> NotSet

HasBody(route) == route \in {"register", "currentUser", "getUser", "getProfile"}

\* The handler at p returns err, with a body when there is none.
Return(p, err) ==
    Set(p, [pc |-> "write", err |-> err, code |-> SetCode(req[p].route, err), user |-> account,
            body |-> err = "none" /\ HasBody(req[p].route)])

\* The error with which a handler rejects a request before it asks the service.
Rejection(p) ==
    CASE req[p].input = "bad" /\ req[p].route # "currentUser" -> "parse"
      [] req[p].input = "blank" /\ req[p].route \in {"authenticate", "register"} -> "blank"
      [] OTHER -> "none"

Reject(p) ==
    /\ req[p].pc = "handle" /\ Rejection(p) # "none"
    /\ Return(p, Rejection(p))
    /\ UNCHANGED <<errorMaps, getErr, world, faults>>

\* A handler of the user service: the service's answer and what the request changes.
HandleUser(p) ==
    /\ req[p].pc = "handle" /\ Rejection(p) = "none" /\ req[p].route \notin ProfileRoutes
    /\ \E err \in UserService(req[p].route, req[p].principal) :
        /\ Return(p, err)
        /\ CASE err = "none" /\ req[p].route = "register" -> Become("live", profile)
             [] err = "none" /\ req[p].route = "deleteUser" /\ account = "live" -> Become("deleted", profile)
             [] OTHER -> UNCHANGED world
    /\ UNCHANGED <<errorMaps, getErr, faults>>

\* A handler of the profile service up to the call: permission, then for an update blank
\* names, for a read the profile; then NewRequest and Send with the service's own name.
HandleProfile ==
    /\ req.outer.pc = "handle" /\ Rejection("outer") = "none" /\ req.outer.route \in ProfileRoutes
    /\ LET route == req.outer.route
           refusal == CASE ~Allowed(route, req.outer.principal) -> "denied"
                        [] route = "updateProfile" /\ req.outer.input = "blank" -> "blank"
                        [] route = "getProfile" /\ ~profile -> "notFound"
                        [] OTHER -> "none"
       IN  \/ refusal # "none" /\ Return("outer", refusal)
           \/ /\ refusal = "none"
              /\ req' = [req EXCEPT !.outer.pc = "call",
                                    !.inner.pc = "require", !.inner.principal = "service"]
    /\ UNCHANGED <<errorMaps, getErr, world, faults>>

\* Faulty variant: an answer without the user is taken for a user that does not exist.
ReadResponseLoose(code, body) == IF code = 200 /\ body THEN "none" ELSE "notFound"

\* What Get makes of a response: 404 is ErrUserNotFound, any other code but 200 an
\* error, and so is a body that does not parse.
ReadResponse(code, body) ==
    CASE code = 404 -> "notFound"
      [] code = 200 /\ body -> "none"
      [] OTHER -> "other"

\* The handler goes on with what Get returned: a user that is missing or deleted is
\* ErrUserNotFound; a read returns the profile, an update goes on to store it.
AfterGet(err) ==
    IF err = "none" /\ req.inner.user = "live" /\ req.outer.route = "updateProfile"
    THEN Set("outer", [pc |-> "store"])
    ELSE Return("outer", IF err = "none" /\ req.inner.user # "live" THEN "notFound" ELSE err)

Response ==
    /\ req.outer.pc = "call" /\ req.inner.pc = "done"
    /\ LET err == ReadResponse(req.inner.sent, req.inner.sentBody)
       IN  /\ AfterGet(err)
           /\ getErr' = err
    /\ UNCHANGED <<errorMaps, world, faults>>

\* The call fails without a response; the request may still be handled over there.
NoResponse ==
    /\ req.outer.pc = "call" /\ Fault
    /\ AfterGet("other")
    /\ getErr' = "other"
    /\ UNCHANGED <<errorMaps, world>>

\* profileRepo.Store
StoreProfile ==
    /\ req.outer.pc = "store"
    /\ Return("outer", "none")
    /\ Become(account, TRUE)
    /\ UNCHANGED <<errorMaps, getErr, faults>>

\* A dependency of a handler fails.
HandleFails(p) ==
    /\ req[p].pc \in {"handle", "store"} /\ Rejection(p) = "none" /\ Fault
    /\ Return(p, "other")
    /\ UNCHANGED <<errorMaps, getErr, world>>

(***************************************************************************)
(* The wrapper of the handlers, and the middlewares after them.            *)
(***************************************************************************)

\* A handler panics, or the encoder of its body does: recoverPanic and WritePanic.
Panic(p) ==
    /\ req[p].pc \in {"handle", "store", "write"} /\ Fault
    /\ Set(p, [pc |-> "map", code |-> 500, body |-> FALSE, metaCode |-> 500, metaPanic |-> TRUE])
    /\ UNCHANGED <<errorMaps, getErr, world>>

\* Faulty variant: only the errors with a code of their own are told.
DefaultCodeKnown(err) ==
    CASE err = "parse" -> 400
      [] err = "unauthenticated" -> 401
      [] err = "denied" -> 403
      [] OTHER -> NotSet

DefaultCode(err) ==
    CASE err = "none" -> NotSet
      [] err = "parse" -> 400
      [] err = "unauthenticated" -> 401
      [] err = "denied" -> 403
      [] OTHER -> 500

StatusCode(code) == IF code = NotSet THEN 200 ELSE code

\* responseWriter.Write: a code that was set stays, and a body that cannot be encoded
\* makes it 500 all the same.
Write(p) ==
    /\ req[p].pc = "write"
    /\ LET code == IF req[p].code # NotSet THEN req[p].code ELSE DefaultCode(req[p].err)
       IN  \/ /\ Set(p, [pc |-> "map", code |-> code,
                         metaCode |-> StatusCode(code), metaErr |-> req[p].err])
              /\ UNCHANGED faults
           \/ /\ req[p].body /\ Fault
              /\ Set(p, [pc |-> "map", code |-> 500, body |-> FALSE, err |-> "other",
                         metaCode |-> 500, metaErr |-> "other"])
    /\ UNCHANGED <<errorMaps, getErr, world>>

Mapped(err) == {i \in DOMAIN errorMaps : errorMaps[i][err] # NotSet}
Outermost(s) == CHOOSE i \in s : \A k \in s : i <= k

\* Faulty variant: the mapping changes the answer and not the record.
MapErrorsUnrecorded(p) ==
    /\ req[p].pc = "map"
    /\ LET hits == IF req[p].metaErr = "none" \/ req[p].metaPanic THEN {} ELSE Mapped(req[p].metaErr)
       IN  Set(p, [pc |-> "persist",
                   code |-> IF hits = {} THEN req[p].code
                            ELSE errorMaps[Outermost(hits)][req[p].metaErr]])
    /\ UNCHANGED <<errorMaps, getErr, world, faults>>

\* WithErrorMapping, once for every mapping from the inside out: each one that knows the
\* recorded error replaces the code, so the outermost decides.  Panics are left alone.
MapErrors(p) ==
    /\ req[p].pc = "map"
    /\ LET hits == IF req[p].metaErr = "none" \/ req[p].metaPanic THEN {} ELSE Mapped(req[p].metaErr)
           code == errorMaps[Outermost(hits)][req[p].metaErr]
       IN  IF hits = {} THEN Set(p, [pc |-> "persist"])
           ELSE Set(p, [pc |-> "persist", code |-> code, metaCode |-> code])
    /\ UNCHANGED <<errorMaps, getErr, world, faults>>

\* PersistWrite on the connection; the connection may break under the body.
Persist(p) ==
    /\ req[p].pc = "persist"
    /\ \/ /\ Set(p, [pc |-> "record", sent |-> StatusCode(req[p].code), sentBody |-> req[p].body])
          /\ UNCHANGED faults
       \/ /\ req[p].body /\ Fault
          /\ Set(p, [pc |-> "record", sent |-> StatusCode(req[p].code),
                     metaErr |-> IF req[p].metaErr = "none" THEN "other" ELSE req[p].metaErr])
    /\ UNCHANGED <<errorMaps, getErr, world>>

\* WithLogging and WithMetrics read the metadata.
Record(p) ==
    /\ req[p].pc = "record"
    /\ Set(p, [pc |-> "done", level |-> IF req[p].metaPanic \/ req[p].metaCode >= 500
                                        THEN "error" ELSE "info"])
    /\ UNCHANGED <<errorMaps, getErr, world, faults>>

\* Other requests register and delete the user, and write and remove the profile.
WorldChanges ==
    /\ req.outer.pc # "done"
    /\ \/ account = "absent" /\ Become("live", profile)
       \/ account = "live" /\ Become("deleted", profile)
       \/ Become(account, ~profile)
    /\ UNCHANGED <<errorMaps, req, getErr, faults>>

Next ==
    \/ \E p \in Places :
        \/ Require(p) \/ Reject(p) \/ HandleUser(p) \/ HandleFails(p) \/ Panic(p)
        \/ Write(p) \/ MapErrors(p) \/ Persist(p) \/ Record(p)
    \/ HandleProfile \/ Response \/ NoResponse \/ StoreProfile
    \/ WorldChanges

Spec == Init /\ [][Next]_vars

-----------------------------------------------------------------------------
(***************************************************************************)
(* Properties                                                              *)
(***************************************************************************)

TypeOK ==
    /\ \A p \in Places :
        /\ req[p].route \in Routes /\ req[p].principal \in Principals
        /\ {req[p].err, req[p].metaErr} \subseteq Errors
        /\ {req[p].code, req[p].metaCode, req[p].sent} \subseteq Codes \cup {NotSet}
    /\ getErr \in Errors
    /\ account \in {"absent", "live", "deleted"} /\ profile \in BOOLEAN
    /\ faults \in 0 .. MaxFaults

(***************************************************************************)
(* What is logged and measured of a request is what its client got: the    *)
(* status code of the metadata is the one on the wire, through panics,     *)
(* error mappings, early answers of middlewares and encoding errors, and a *)
(* request is logged as an error exactly when the client got a 500.        *)
(***************************************************************************)
RecordedIsSent ==
    \A p \in Places : req[p].pc = "done" =>
        /\ req[p].metaCode = req[p].sent
        /\ (req[p].level = "error") = (req[p].sent >= 500)

(***************************************************************************)
(* A request whose handler failed or panicked is never answered as a       *)
(* success, nor with data: whatever the handler had set by then, in every  *)
(* handler of the services (handler.go, responseWriter.Write).             *)
(***************************************************************************)
FailureIsTold ==
    \A p \in Places :
        req[p].pc = "done" /\ (req[p].err # "none" \/ req[p].metaPanic)
            => req[p].sent >= 400 /\ ~req[p].sentBody

(***************************************************************************)
(* "Not found" is never made of a failure.  The profile service takes      *)
(* ErrUserNotFound as the answer of the user service that there was no     *)
(* such user, and ends its work on a deletion with it; it answers 404 only *)
(* when the user was really gone at some moment of the request, or, to a   *)
(* read, the profile (userservice.go, Get; userprofile.go, Get and Update).*)
(***************************************************************************)
Gone(route, s) == s[1] # "live" \/ (route = "getProfile" /\ ~s[2])

NotFoundIsTrue ==
    /\ getErr = "notFound" => \E b \in BOOLEAN : <<"absent", b>> \in seen
    /\ req.outer.pc = "done" /\ req.outer.route \in ProfileRoutes /\ req.outer.sent = 404
        => \E s \in seen : Gone(req.outer.route, s)
=============================================================================
