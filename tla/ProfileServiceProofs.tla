------------------------ MODULE ProfileServiceProofs ------------------------
(***************************************************************************)
(* Proofs about the profile service and its callers.                       *)
(*                                                                         *)
(* The first part is about Requests, for every list of error mappings and  *)
(* any number of faults: RequestInv says what the stages of a request      *)
(* leave behind, so that a failure never ends as an answer that looks like *)
(* a success, and TruthInv that what is said of the user was so at some    *)
(* moment of the request.  The second part is about UserDeletion, for any  *)
(* number of users, of concurrent calls of Delete and Update, of handlers  *)
(* and of failing runs.                                                    *)
(***************************************************************************)
EXTENDS Requests, UserDeletion, FiniteSetTheorems, WellFoundedInduction, TLAPS

Stages == {"none", "require", "handle", "call", "store", "write", "map", "persist", "record", "done"}

Request == [pc : Stages, route : Routes, principal : Principals, input : {"good", "blank", "bad"},
            user : {"absent", "live", "deleted"}, err : Errors, code : Codes \cup {NotSet},
            body : BOOLEAN, metaCode : Codes \cup {NotSet}, metaErr : Errors, metaPanic : BOOLEAN,
            level : {"none", "info", "error"}, sent : Codes \cup {NotSet}, sentBody : BOOLEAN]

Fields == {"pc", "route", "principal", "input", "user", "err", "code", "body", "metaCode",
           "metaErr", "metaPanic", "level", "sent", "sentBody"}

(* Nothing is known of the answer yet.                                     *)
Untouched(r) ==
    /\ r.err = "none" /\ r.code = NotSet /\ ~r.body
    /\ r.metaCode = NotSet /\ r.metaErr = "none" /\ ~r.metaPanic
    /\ r.sent = NotSet /\ ~r.sentBody

Failed(r) == r.err # "none" \/ r.metaPanic

(* What the stages of a request leave behind: from the mapping on, the     *)
(* record has the code of the answer, and a failure has one of its own and *)
(* no body.                                                                *)
Fits(r) ==
    /\ r.pc \in {"none", "require", "handle", "call", "store"} => Untouched(r)
    /\ r.pc = "handle" /\ Required(r.route) => r.principal # "none"
    /\ r.pc = "write" =>
           /\ r.metaErr = "none" /\ ~r.metaPanic
           /\ r.err # "none" => r.code = NotSet \/ r.code >= 400
    /\ r.pc \in {"write", "map", "persist"} =>
           /\ r.body => ~Failed(r)
           /\ r.metaErr # "none" => r.metaErr = r.err
           /\ r.sent = NotSet /\ ~r.sentBody
    /\ r.pc \in {"map", "persist"} =>
           /\ r.metaCode = StatusCode(r.code)
           /\ Failed(r) => r.code >= 400
           /\ r.metaPanic => r.code = 500
    /\ r.pc \in {"record", "done"} =>
           /\ r.metaCode = r.sent
           /\ Failed(r) => r.sent >= 400 /\ ~r.sentBody
           /\ r.metaPanic => r.sent = 500
    /\ r.pc = "done" => (r.level = "error" <=> r.metaPanic \/ r.metaCode >= 500)

RequestTypes ==
    /\ req \in [Places -> Request] /\ errorMaps \in Mappings
    /\ getErr \in Errors /\ account \in {"absent", "live", "deleted"} /\ profile \in BOOLEAN

(* A mapping answers 404 to no other error than "not found".               *)
MappingsKeepNotFound ==
    \A ms \in Mappings : \A i \in DOMAIN ms : \A e \in Errors \ {"none"} :
        ms[i][e] = 404 => e = "notFound"

CodeIsTrue(r) == r.code = 404 \/ r.sent = 404 => r.err = "notFound"

RequestInv ==
    /\ RequestTypes
    /\ \A p \in Places : Fits(req[p])
    /\ req["outer"].pc \in {"require", "handle"} => req["inner"].pc = "none"

(* What the record of a request and what the client read say of the user   *)
(* was so at some moment.                                                  *)
TruthInv ==
    /\ <<account, profile>> \in seen
    /\ \A p \in Places : CodeIsTrue(req[p])
    /\ req["inner"].route = "getUser"
    /\ req["inner"].err = "notFound" => \E b \in BOOLEAN : <<"absent", b>> \in seen
    /\ req["inner"].body \/ req["inner"].sentBody
           => \E b \in BOOLEAN : <<req["inner"].user, b>> \in seen
    /\ req["outer"].err = "notFound" /\ req["outer"].route \in ProfileRoutes
           => \E s \in seen : Gone(req["outer"].route, s)
    /\ getErr = "notFound" => \E b \in BOOLEAN : <<"absent", b>> \in seen

-----------------------------------------------------------------------------
(* Set changes the fields it is given and no others.                       *)
LEMMA SetFields ==
    ASSUME RequestTypes, NEW p \in Places, NEW f, Set(p, f)
    PROVE  /\ \A q \in Places : q # p => req'[q] = req[q]
           /\ req'[p] = [x \in Fields |-> IF x \in DOMAIN f THEN f[x] ELSE req[p][x]]
           /\ DOMAIN req' = Places
           /\ req' = [req EXCEPT ![p] = req'[p]]
<1>1. DOMAIN req[p] = Fields /\ req \in [Places -> Request]
  BY DEF Request, Fields, RequestTypes
<1> QED
  BY <1>1 DEF Set

LEMMA SetTypes ==
    ASSUME RequestTypes, NEW p \in Places, NEW f, Set(p, f),
           "pc" \in DOMAIN f => f["pc"] \in Stages,
           "err" \in DOMAIN f => f["err"] \in Errors,
           "code" \in DOMAIN f => f["code"] \in Codes \cup {NotSet},
           "metaCode" \in DOMAIN f => f["metaCode"] \in Codes \cup {NotSet},
           "metaErr" \in DOMAIN f => f["metaErr"] \in Errors,
           "metaPanic" \in DOMAIN f => f["metaPanic"] \in BOOLEAN,
           "body" \in DOMAIN f => f["body"] \in BOOLEAN,
           "sentBody" \in DOMAIN f => f["sentBody"] \in BOOLEAN,
           "sent" \in DOMAIN f => f["sent"] \in Codes \cup {NotSet},
           "level" \in DOMAIN f => f["level"] \in {"none", "info", "error"},
           "user" \in DOMAIN f => f["user"] \in {"absent", "live", "deleted"},
           DOMAIN f \cap {"route", "principal", "input"} = {}
    PROVE  req' \in [Places -> Request]
<1> DEFINE g == [x \in Fields |-> IF x \in DOMAIN f THEN f[x] ELSE req[p][x]]
<1>1. req \in [Places -> Request] /\ req[p] \in Request
  BY DEF RequestTypes
<1>2. g = [pc |-> g["pc"], route |-> g["route"], principal |-> g["principal"], input |-> g["input"],
           user |-> g["user"], err |-> g["err"], code |-> g["code"], body |-> g["body"],
           metaCode |-> g["metaCode"], metaErr |-> g["metaErr"], metaPanic |-> g["metaPanic"],
           level |-> g["level"], sent |-> g["sent"], sentBody |-> g["sentBody"]]
  BY DEF Fields
<1>3. /\ g["pc"] \in Stages /\ g["route"] \in Routes /\ g["principal"] \in Principals
      /\ g["input"] \in {"good", "blank", "bad"}
  BY <1>1 DEF Fields, Request
<1>4. /\ g["user"] \in {"absent", "live", "deleted"} /\ g["err"] \in Errors
      /\ g["code"] \in Codes \cup {NotSet} /\ g["body"] \in BOOLEAN
      /\ g["metaCode"] \in Codes \cup {NotSet}
  BY <1>1 DEF Fields, Request
<1>5. /\ g["metaErr"] \in Errors /\ g["metaPanic"] \in BOOLEAN
      /\ g["level"] \in {"none", "info", "error"}
      /\ g["sent"] \in Codes \cup {NotSet} /\ g["sentBody"] \in BOOLEAN
  BY <1>1 DEF Fields, Request
<1> HIDE DEF g
<1>6. g \in Request
  BY <1>2, <1>3, <1>4, <1>5 DEF Request
<1>7. req' = [req EXCEPT ![p] = g]
  <2>1. req'[p] = g
    BY SetFields, Zenon DEF g
  <2>2. req' = [req EXCEPT ![p] = req'[p]]
    BY SetFields, Zenon
  <2> QED
    BY <2>1, <2>2, Zenon
<1> QED
  BY <1>1, <1>6, <1>7

LEMMA SetCodes ==
    ASSUME NEW route \in Routes, NEW err \in Errors
    PROVE  /\ SetCode(route, err) \in Codes \cup {NotSet}
           /\ err # "none" => SetCode(route, err) = NotSet \/ SetCode(route, err) >= 400
           /\ SetCode(route, err) = 404 => err = "notFound"
  BY DEF SetCode, Routes, Errors, Codes, NotSet, AuthenticateCode, VerifyCode, RegisterCode,
         GetUserCode, GetProfileCode, UpdateProfileCode

(* A handler that has returned err.                                        *)
Returned(p, err) ==
    /\ req' \in [Places -> Request] /\ \A q \in Places : q # p => req'[q] = req[q]
    /\ Fits(req'[p]) /\ req'[p].pc = "write" /\ req'[p].err = err
    /\ req'[p].code = SetCode(req[p].route, err) /\ req'[p].user = account
    /\ req'[p].route = req[p].route /\ req'[p].sent = NotSet
    /\ ~req'[p].sentBody /\ req'[p].metaErr = "none"
    /\ req'[p].body => err = "none"

(* A handler returns.                                                      *)
LEMMA ReturnFits ==
    ASSUME RequestInv, NEW p \in Places, NEW err \in Errors, Return(p, err),
           req[p].pc \in {"handle", "call", "store"}
    PROVE  Returned(p, err)
<1> DEFINE f == [pc |-> "write", err |-> err, code |-> SetCode(req[p].route, err), user |-> account,
                 body |-> err = "none" /\ HasBody(req[p].route)]
<1>1. RequestTypes /\ Fits(req[p]) /\ req[p] \in Request /\ req[p].route \in Routes
  BY DEF RequestInv, RequestTypes, Request
<1>2. Set(p, f)
  BY DEF Return
<1>3. DOMAIN f = {"pc", "err", "code", "user", "body"}
  OBVIOUS
<1>4. /\ f["pc"] \in Stages /\ f["err"] \in Errors /\ f["code"] \in Codes \cup {NotSet}
      /\ f["user"] \in {"absent", "live", "deleted"} /\ f["body"] \in BOOLEAN
  BY <1>1, SetCodes DEF RequestTypes, Stages
<1>5. /\ req'[p].pc = "write" /\ req'[p].err = err /\ req'[p].code = SetCode(req[p].route, err)
      /\ req'[p].user = account /\ req'[p].body = (err = "none" /\ HasBody(req[p].route))
      /\ req'[p].route = req[p].route /\ req'[p].sent = req[p].sent /\ req'[p].sentBody = req[p].sentBody
      /\ req'[p].metaErr = req[p].metaErr /\ req'[p].metaPanic = req[p].metaPanic
      /\ \A q \in Places : q # p => req'[q] = req[q]
  <2>1. /\ req'[p] = [x \in Fields |-> IF x \in DOMAIN f THEN f[x] ELSE req[p][x]]
        /\ \A q \in Places : q # p => req'[q] = req[q]
    BY <1>1, <1>2, SetFields
  <2> QED
    BY <2>1 DEF Fields
<1> HIDE DEF f
<1>6. req' \in [Places -> Request]
  BY <1>1, <1>2, <1>3, <1>4, SetTypes
<1>7. Untouched(req[p])
  BY <1>1 DEF Fits
<1>8. Fits(req'[p])
  BY <1>1, <1>5, <1>7, SetCodes DEF Fits, Failed, Untouched
<1> QED
  BY <1>5, <1>6, <1>7, <1>8 DEF Untouched, Returned

(* What every step outside the handlers keeps: it invents neither an error *)
(* "not found", nor a code 404, nor a body.                                *)
Answers(p) ==
    /\ req' \in [Places -> Request] /\ \A q \in Places : q # p => req'[q] = req[q]
    /\ Fits(req'[p]) /\ req'[p].route = req[p].route /\ req'[p].user = req[p].user
    /\ req'[p].err = "notFound" => req[p].err = "notFound"
    /\ req'[p].body \/ req'[p].sentBody => req[p].body \/ req[p].sentBody
    /\ MappingsKeepNotFound /\ CodeIsTrue(req[p]) => CodeIsTrue(req'[p])
    /\ req'[p].pc \in {"require", "handle"} => req[p].pc = "require"
    /\ req[p].pc # "none"

LEMMA RequireAnswers ==
    ASSUME RequestInv, NEW p \in Places, Require(p)
    PROVE  Answers(p)
<1> DEFINE f == [pc |-> "map", err |-> "unauthenticated", code |-> 401,
                 metaCode |-> 401, metaErr |-> "unauthenticated"]
           g == [pc |-> "handle"]
<1>1. RequestTypes /\ Fits(req[p]) /\ req[p] \in Request /\ req[p].pc = "require" /\ Untouched(req[p])
  BY DEF RequestInv, RequestTypes, Require, Fits
<1>2. CASE Set(p, f)
  <2>1. req' \in [Places -> Request]
    BY <1>1, <1>2, SetTypes DEF Stages, Errors, Codes
  <2>2. /\ req'[p].pc = "map" /\ req'[p].err = "unauthenticated" /\ req'[p].code = 401
        /\ req'[p].metaCode = 401 /\ req'[p].metaErr = "unauthenticated"
        /\ req'[p].route = req[p].route /\ req'[p].user = req[p].user /\ req'[p].body = req[p].body
        /\ req'[p].sent = req[p].sent /\ req'[p].sentBody = req[p].sentBody
        /\ req'[p].metaPanic = req[p].metaPanic
        /\ \A q \in Places : q # p => req'[q] = req[q]
    <3>1. /\ req'[p] = [x \in Fields |-> IF x \in DOMAIN f THEN f[x] ELSE req[p][x]]
          /\ \A q \in Places : q # p => req'[q] = req[q]
      BY <1>1, <1>2, SetFields
    <3> QED
      BY <3>1 DEF Fields
  <2> QED
    BY <1>1, <2>1, <2>2 DEF Answers, Fits, Failed, Untouched, CodeIsTrue, StatusCode, NotSet
<1>3. CASE ~(Required(req[p].route) /\ req[p].principal = "none") /\ Set(p, g)
  <2>1. req' \in [Places -> Request]
    BY <1>1, <1>3, SetTypes DEF Stages
  <2>2. /\ req'[p].pc = "handle" /\ \A x \in Fields \ {"pc"} : req'[p][x] = req[p][x]
        /\ \A q \in Places : q # p => req'[q] = req[q]
    <3>1. /\ req'[p] = [x \in Fields |-> IF x \in DOMAIN g THEN g[x] ELSE req[p][x]]
          /\ \A q \in Places : q # p => req'[q] = req[q]
      BY <1>1, <1>3, SetFields
    <3> QED
      BY <3>1 DEF Fields
  <2>3. /\ Untouched(req'[p]) /\ req'[p].route = req[p].route /\ req'[p].user = req[p].user
        /\ req'[p].principal = req[p].principal
    BY <1>1, <2>2 DEF Untouched, Fields
  <2> QED
    BY <1>1, <1>3, <2>1, <2>2, <2>3 DEF Answers, Fits, Untouched, CodeIsTrue, NotSet
<1> QED
  BY <1>2, <1>3 DEF Require

LEMMA PanicAnswers ==
    ASSUME RequestInv, NEW p \in Places, Panic(p)
    PROVE  Answers(p)
<1> DEFINE f == [pc |-> "map", code |-> 500, body |-> FALSE, metaCode |-> 500, metaPanic |-> TRUE]
<1>1. /\ RequestTypes /\ Fits(req[p]) /\ req[p] \in Request /\ Set(p, f)
      /\ req[p].pc \in {"handle", "store", "write"}
  BY DEF RequestInv, RequestTypes, Panic
<1>2. req[p].metaErr = "none" /\ req[p].sent = NotSet /\ ~req[p].sentBody
  BY <1>1 DEF Fits, Untouched
<1>3. req' \in [Places -> Request]
  <2>1. DOMAIN f = {"pc", "code", "body", "metaCode", "metaPanic"}
    OBVIOUS
  <2>2. /\ f["pc"] \in Stages /\ f["code"] \in Codes \cup {NotSet} /\ f["body"] \in BOOLEAN
        /\ f["metaCode"] \in Codes \cup {NotSet} /\ f["metaPanic"] \in BOOLEAN
    BY DEF Stages, Codes
  <2> HIDE DEF f
  <2> QED
    BY <1>1, <2>1, <2>2, SetTypes
<1>4. /\ req'[p].pc = "map" /\ req'[p].code = 500 /\ req'[p].body = FALSE
      /\ req'[p].metaCode = 500 /\ req'[p].metaPanic = TRUE /\ req'[p].err = req[p].err
      /\ req'[p].route = req[p].route /\ req'[p].user = req[p].user /\ req'[p].metaErr = req[p].metaErr
      /\ req'[p].sent = req[p].sent /\ req'[p].sentBody = req[p].sentBody
      /\ \A q \in Places : q # p => req'[q] = req[q]
  <2>1. /\ req'[p] = [x \in Fields |-> IF x \in DOMAIN f THEN f[x] ELSE req[p][x]]
        /\ \A q \in Places : q # p => req'[q] = req[q]
    BY <1>1, SetFields
  <2> QED
    BY <2>1 DEF Fields
<1> QED
  BY <1>1, <1>2, <1>3, <1>4 DEF Answers, Fits, Failed, CodeIsTrue, StatusCode, NotSet

LEMMA DefaultCodes ==
    ASSUME NEW err \in Errors
    PROVE  /\ DefaultCode(err) \in Codes \cup {NotSet} /\ DefaultCode(err) # 404
           /\ err # "none" => DefaultCode(err) >= 400
  BY DEF DefaultCode, Errors, Codes, NotSet

LEMMA StatusCodes ==
    ASSUME NEW code \in Codes \cup {NotSet}
    PROVE  /\ StatusCode(code) \in Codes
           /\ code >= 400 => StatusCode(code) >= 400
           /\ StatusCode(code) = 404 => code = 404
           /\ code = 500 => StatusCode(code) = 500
  BY DEF StatusCode, Codes, NotSet

LEMMA WriteAnswers ==
    ASSUME RequestInv, NEW p \in Places, Write(p)
    PROVE  Answers(p)
<1> DEFINE code == IF req[p].code # NotSet THEN req[p].code ELSE DefaultCode(req[p].err)
           f == [pc |-> "map", code |-> code, metaCode |-> StatusCode(code), metaErr |-> req[p].err]
           g == [pc |-> "map", code |-> 500, body |-> FALSE, err |-> "other",
                 metaCode |-> 500, metaErr |-> "other"]
<1>1. /\ RequestTypes /\ Fits(req[p]) /\ req[p] \in Request /\ req[p].pc = "write"
      /\ req[p].err \in Errors /\ req[p].code \in Codes \cup {NotSet}
  BY DEF RequestInv, RequestTypes, Write, Request
<1>2. /\ req[p].metaErr = "none" /\ ~req[p].metaPanic /\ req[p].sent = NotSet /\ ~req[p].sentBody
      /\ req[p].err # "none" => req[p].code = NotSet \/ req[p].code >= 400
      /\ req[p].body => ~Failed(req[p])
  BY <1>1 DEF Fits
<1>3. /\ code \in Codes \cup {NotSet} /\ StatusCode(code) \in Codes
      /\ req[p].err # "none" => code >= 400
      /\ code = 404 => req[p].code = 404
  BY <1>1, <1>2, DefaultCodes, StatusCodes
<1>4. CASE Set(p, f)
  <2>1. req' \in [Places -> Request]
    <3>1. DOMAIN f = {"pc", "code", "metaCode", "metaErr"}
      OBVIOUS
    <3>2. /\ f["pc"] \in Stages /\ f["code"] \in Codes \cup {NotSet}
          /\ f["metaCode"] \in Codes \cup {NotSet} /\ f["metaErr"] \in Errors
      BY <1>1, <1>3 DEF Stages
    <3> HIDE DEF f
    <3> QED
      BY <1>1, <1>4, <3>1, <3>2, SetTypes
  <2>2. /\ req'[p].pc = "map" /\ req'[p].code = code /\ req'[p].body = req[p].body
        /\ req'[p].metaCode = StatusCode(code) /\ req'[p].metaPanic = req[p].metaPanic
        /\ req'[p].err = req[p].err /\ req'[p].metaErr = req[p].err
        /\ req'[p].route = req[p].route /\ req'[p].user = req[p].user
        /\ req'[p].sent = req[p].sent /\ req'[p].sentBody = req[p].sentBody
        /\ \A q \in Places : q # p => req'[q] = req[q]
    <3>1. /\ req'[p] = [x \in Fields |-> IF x \in DOMAIN f THEN f[x] ELSE req[p][x]]
          /\ \A q \in Places : q # p => req'[q] = req[q]
      BY <1>1, <1>4, SetFields
    <3> HIDE DEF code
    <3> QED
      BY <3>1 DEF Fields
  <2> HIDE DEF code
  <2> QED
    BY <1>1, <1>2, <1>3, <2>1, <2>2 DEF Answers, Fits, Failed, CodeIsTrue, NotSet
<1>5. CASE Set(p, g)
  <2>1. req' \in [Places -> Request]
    <3>1. DOMAIN g = {"pc", "code", "body", "err", "metaCode", "metaErr"}
      OBVIOUS
    <3>2. /\ g["pc"] \in Stages /\ g["code"] \in Codes \cup {NotSet} /\ g["body"] \in BOOLEAN
          /\ g["err"] \in Errors /\ g["metaCode"] \in Codes \cup {NotSet} /\ g["metaErr"] \in Errors
      BY DEF Stages, Codes, Errors
    <3> HIDE DEF g
    <3> QED
      BY <1>1, <1>5, <3>1, <3>2, SetTypes
  <2>2. /\ req'[p].pc = "map" /\ req'[p].code = 500 /\ req'[p].body = FALSE
        /\ req'[p].metaCode = 500 /\ req'[p].metaPanic = req[p].metaPanic
        /\ req'[p].err = "other" /\ req'[p].metaErr = "other"
        /\ req'[p].route = req[p].route /\ req'[p].user = req[p].user
        /\ req'[p].sent = req[p].sent /\ req'[p].sentBody = req[p].sentBody
        /\ \A q \in Places : q # p => req'[q] = req[q]
    <3>1. /\ req'[p] = [x \in Fields |-> IF x \in DOMAIN g THEN g[x] ELSE req[p][x]]
          /\ \A q \in Places : q # p => req'[q] = req[q]
      BY <1>1, <1>5, SetFields
    <3> QED
      BY <3>1 DEF Fields
  <2> QED
    BY <1>1, <1>2, <2>1, <2>2 DEF Answers, Fits, Failed, CodeIsTrue, StatusCode, NotSet
<1> QED
  BY <1>4, <1>5 DEF Write


(* Of several mappings that know an error there is an outermost one.       *)
LEMMA OutermostHit ==
    ASSUME NEW T \in SUBSET Nat, T # {}
    PROVE  Outermost(T) \in T
<1>1. PICK i \in T : \A k \in T : ~(<<k, i>> \in OpToRel(<, Nat))
  BY NatLessThanWellFounded, WFMin
<1>2. \A k \in T : ~(k < i)
  BY <1>1 DEF OpToRel
<1>3. \A k \in T : i <= k
  BY <1>2
<1> QED
  BY <1>3 DEF Outermost

(* What the outermost mapping of an error makes of it.                     *)
LEMMA MappedCodes ==
    ASSUME errorMaps \in Mappings, NEW err \in Errors \ {"none"}, Mapped(err) # {}
    PROVE  /\ errorMaps[Outermost(Mapped(err))][err] \in Codes
           /\ errorMaps[Outermost(Mapped(err))][err] >= 400
           /\ MappingsKeepNotFound /\ errorMaps[Outermost(Mapped(err))][err] = 404 => err = "notFound"
<1> DEFINE M == [Errors \ {"none"} -> {NotSet} \cup {c \in Codes : c >= 400}]
<1>1. errorMaps \in Seq(M)
  BY RequestsAssumption
<1>2. Mapped(err) \in SUBSET Nat
  BY <1>1 DEF Mapped
<1>3. PICK i \in Mapped(err) : i = Outermost(Mapped(err))
  BY <1>2, OutermostHit
<1>4. i \in DOMAIN errorMaps /\ errorMaps[i][err] # NotSet
  BY DEF Mapped
<1>5. errorMaps[i] \in M
  <2> HIDE DEF M
  <2> QED
    BY <1>1, <1>4
<1>6. errorMaps[i][err] \in Codes /\ errorMaps[i][err] >= 400
  BY <1>4, <1>5
<1> QED
  BY <1>3, <1>4, <1>6 DEF MappingsKeepNotFound

LEMMA MapErrorsAnswers ==
    ASSUME RequestInv, NEW p \in Places, MapErrors(p)
    PROVE  Answers(p)
<1> DEFINE hits == IF req[p].metaErr = "none" \/ req[p].metaPanic THEN {} ELSE Mapped(req[p].metaErr)
           code == errorMaps[Outermost(hits)][req[p].metaErr]
           f == [pc |-> "persist"]
           g == [pc |-> "persist", code |-> code, metaCode |-> code]
<1>1. /\ RequestTypes /\ Fits(req[p]) /\ req[p] \in Request /\ req[p].pc = "map"
      /\ req[p].metaErr \in Errors /\ req[p].code \in Codes \cup {NotSet}
  BY DEF RequestInv, RequestTypes, MapErrors, Request
<1>2. /\ req[p].body => ~Failed(req[p])
      /\ req[p].metaErr # "none" => req[p].metaErr = req[p].err
      /\ req[p].sent = NotSet /\ ~req[p].sentBody
      /\ req[p].metaCode = StatusCode(req[p].code)
      /\ Failed(req[p]) => req[p].code >= 400
      /\ req[p].metaPanic => req[p].code = 500
  BY <1>1 DEF Fits
<1>3. CASE hits = {} /\ Set(p, f)
  <2>1. /\ req'[p].pc = "persist" /\ \A x \in Fields \ {"pc"} : req'[p][x] = req[p][x]
        /\ \A q \in Places : q # p => req'[q] = req[q]
    <3>1. /\ req'[p] = [x \in Fields |-> IF x \in DOMAIN f THEN f[x] ELSE req[p][x]]
          /\ \A q \in Places : q # p => req'[q] = req[q]
      BY <1>1, <1>3, SetFields
    <3> QED
      BY <3>1 DEF Fields
  <2>2. req' \in [Places -> Request]
    BY <1>1, <1>3, SetTypes DEF Stages
  <2>3. /\ req'[p].code = req[p].code /\ req'[p].body = req[p].body /\ req'[p].err = req[p].err
        /\ req'[p].metaCode = req[p].metaCode /\ req'[p].metaPanic = req[p].metaPanic
        /\ req'[p].metaErr = req[p].metaErr
        /\ req'[p].route = req[p].route /\ req'[p].user = req[p].user
        /\ req'[p].sent = req[p].sent /\ req'[p].sentBody = req[p].sentBody
    BY <2>1 DEF Fields
  <2> QED
    BY <1>1, <1>2, <2>1, <2>2, <2>3 DEF Answers, Fits, Failed, CodeIsTrue
<1>4. CASE hits # {} /\ Set(p, g)
  <2>1. /\ req[p].metaErr # "none" /\ ~req[p].metaPanic /\ hits = Mapped(req[p].metaErr)
        /\ errorMaps \in Mappings
    BY <1>1, <1>4 DEF RequestTypes
  <2>2. /\ code \in Codes /\ code >= 400
        /\ MappingsKeepNotFound /\ code = 404 => req[p].metaErr = "notFound"
    BY <1>1, <1>4, <2>1, MappedCodes
  <2> HIDE DEF code, hits
  <2>3. req' \in [Places -> Request]
    <3>1. DOMAIN g = {"pc", "code", "metaCode"}
      OBVIOUS
    <3>2. /\ g["pc"] \in Stages /\ g["code"] \in Codes \cup {NotSet}
          /\ g["metaCode"] \in Codes \cup {NotSet}
      BY <2>2 DEF Stages
    <3>3. Set(p, g)
      BY <1>4
    <3> HIDE DEF g
    <3> QED
      BY <1>1, <3>1, <3>2, <3>3, SetTypes
  <2>4. /\ req'[p].pc = "persist" /\ req'[p].code = code /\ req'[p].body = req[p].body
        /\ req'[p].metaCode = code /\ req'[p].metaPanic = req[p].metaPanic
        /\ req'[p].err = req[p].err /\ req'[p].metaErr = req[p].metaErr
        /\ req'[p].route = req[p].route /\ req'[p].user = req[p].user
        /\ req'[p].sent = req[p].sent /\ req'[p].sentBody = req[p].sentBody
        /\ \A q \in Places : q # p => req'[q] = req[q]
    <3>1. /\ req'[p] = [x \in Fields |-> IF x \in DOMAIN g THEN g[x] ELSE req[p][x]]
          /\ \A q \in Places : q # p => req'[q] = req[q]
      BY <1>1, <1>4, SetFields
    <3> QED
      BY <3>1 DEF Fields
  <2>5. StatusCode(code) = code
    BY <2>2 DEF StatusCode, NotSet, Codes
  <2> QED
    BY <1>1, <1>2, <2>1, <2>2, <2>3, <2>4, <2>5 DEF Answers, Fits, Failed, CodeIsTrue, NotSet
<1> QED
  BY <1>3, <1>4 DEF MapErrors

LEMMA PersistAnswers ==
    ASSUME RequestInv, NEW p \in Places, Persist(p)
    PROVE  Answers(p)
<1> DEFINE code == StatusCode(req[p].code)
           err == IF req[p].metaErr = "none" THEN "other" ELSE req[p].metaErr
           f == [pc |-> "record", sent |-> code, sentBody |-> req[p].body]
           g == [pc |-> "record", sent |-> code, metaErr |-> err]
<1>1. /\ RequestTypes /\ Fits(req[p]) /\ req[p] \in Request /\ req[p].pc = "persist"
      /\ req[p].metaErr \in Errors /\ req[p].code \in Codes \cup {NotSet} /\ req[p].body \in BOOLEAN
  BY DEF RequestInv, RequestTypes, Persist, Request
<1>2. /\ req[p].body => ~Failed(req[p])
      /\ req[p].sent = NotSet /\ ~req[p].sentBody
      /\ req[p].metaCode = code
      /\ Failed(req[p]) => req[p].code >= 400
      /\ req[p].metaPanic => req[p].code = 500
  BY <1>1 DEF Fits
<1>3. /\ code \in Codes
      /\ Failed(req[p]) => code >= 400
      /\ code = 404 => req[p].code = 404
      /\ req[p].metaPanic => code = 500
  BY <1>1, <1>2, StatusCodes
<1>4. err \in Errors
  BY <1>1 DEF Errors
<1> HIDE DEF code, err
<1>5. CASE Set(p, f)
  <2>1. req' \in [Places -> Request]
    <3>1. DOMAIN f = {"pc", "sent", "sentBody"}
      OBVIOUS
    <3>2. f["pc"] \in Stages /\ f["sent"] \in Codes \cup {NotSet}
      BY <1>1, <1>3 DEF Stages
    <3>3. f["sentBody"] \in BOOLEAN
      BY <1>1
    <3> HIDE DEF f
    <3> QED
      BY <1>1, <1>5, <3>1, <3>2, <3>3, SetTypes
  <2>2. /\ req'[p].pc = "record" /\ req'[p].code = req[p].code
        /\ req'[p].metaCode = req[p].metaCode /\ req'[p].metaPanic = req[p].metaPanic
        /\ req'[p].err = req[p].err /\ req'[p].body = req[p].body
        /\ req'[p].route = req[p].route /\ req'[p].user = req[p].user
        /\ req'[p].sent = code /\ req'[p].sentBody = req[p].body
        /\ \A q \in Places : q # p => req'[q] = req[q]
    <3>1. /\ req'[p] = [x \in Fields |-> IF x \in DOMAIN f THEN f[x] ELSE req[p][x]]
          /\ \A q \in Places : q # p => req'[q] = req[q]
      BY <1>1, <1>5, SetFields
    <3> QED
      BY <3>1 DEF Fields
  <2>3. Fits(req'[p])
    BY <1>2, <1>3, <2>2 DEF Fits, Failed
  <2>4. MappingsKeepNotFound /\ CodeIsTrue(req[p]) => CodeIsTrue(req'[p])
    BY <1>3, <2>2 DEF CodeIsTrue
  <2> QED
    BY <1>1, <2>1, <2>2, <2>3, <2>4 DEF Answers
<1>6. CASE req[p].body /\ Set(p, g)
  <2>1. req' \in [Places -> Request]
    <3>1. DOMAIN g = {"pc", "sent", "metaErr"}
      OBVIOUS
    <3>2. g["pc"] \in Stages /\ g["sent"] \in Codes \cup {NotSet}
      BY <1>3 DEF Stages
    <3>4. g["metaErr"] \in Errors
      BY <1>4
    <3>3. Set(p, g)
      BY <1>6
    <3> HIDE DEF g
    <3> QED
      BY <1>1, <3>1, <3>2, <3>3, <3>4, SetTypes
  <2>2. /\ req'[p].pc = "record" /\ req'[p].code = req[p].code
        /\ req'[p].metaCode = req[p].metaCode /\ req'[p].metaPanic = req[p].metaPanic
        /\ req'[p].err = req[p].err /\ req'[p].body = req[p].body
        /\ req'[p].route = req[p].route /\ req'[p].user = req[p].user
        /\ req'[p].sent = code /\ req'[p].sentBody = req[p].sentBody
        /\ \A q \in Places : q # p => req'[q] = req[q]
    <3>1. /\ req'[p] = [x \in Fields |-> IF x \in DOMAIN g THEN g[x] ELSE req[p][x]]
          /\ \A q \in Places : q # p => req'[q] = req[q]
      BY <1>1, <1>6, SetFields
    <3> QED
      BY <3>1 DEF Fields
  <2> QED
    BY <1>1, <1>2, <1>3, <1>6, <2>1, <2>2 DEF Answers, Fits, Failed, CodeIsTrue
<1> QED
  BY <1>5, <1>6 DEF Persist, code, err

LEMMA RecordAnswers ==
    ASSUME RequestInv, NEW p \in Places, Record(p)
    PROVE  Answers(p)
<1> DEFINE level == IF req[p].metaPanic \/ req[p].metaCode >= 500 THEN "error" ELSE "info"
           f == [pc |-> "done", level |-> level]
<1>1. /\ RequestTypes /\ Fits(req[p]) /\ req[p] \in Request /\ req[p].pc = "record"
  BY DEF RequestInv, RequestTypes, Record
<1>2. Set(p, f)
  BY DEF Record
<1>3. level \in {"info", "error"} /\ (level = "error" <=> req[p].metaPanic \/ req[p].metaCode >= 500)
  OBVIOUS
<1> HIDE DEF level
<1>4. req' \in [Places -> Request]
  <2>1. DOMAIN f = {"pc", "level"}
    OBVIOUS
  <2>2. f["pc"] \in Stages /\ f["level"] \in {"none", "info", "error"}
    BY <1>3 DEF Stages
  <2> HIDE DEF f
  <2> QED
    BY <1>1, <1>2, <2>1, <2>2, SetTypes
<1>5. /\ req'[p].pc = "done" /\ req'[p].level = level
      /\ req'[p].metaCode = req[p].metaCode /\ req'[p].metaPanic = req[p].metaPanic
      /\ req'[p].err = req[p].err /\ req'[p].body = req[p].body /\ req'[p].code = req[p].code
      /\ req'[p].route = req[p].route /\ req'[p].user = req[p].user
      /\ req'[p].sent = req[p].sent /\ req'[p].sentBody = req[p].sentBody
      /\ \A q \in Places : q # p => req'[q] = req[q]
  <2>1. /\ req'[p] = [x \in Fields |-> IF x \in DOMAIN f THEN f[x] ELSE req[p][x]]
        /\ \A q \in Places : q # p => req'[q] = req[q]
    BY <1>1, <1>2, SetFields
  <2> QED
    BY <2>1 DEF Fields
<1> QED
  BY <1>1, <1>3, <1>4, <1>5 DEF Answers, Fits, Failed, CodeIsTrue

(* The record of a request belongs to the handlers: no other request is    *)
(* touched by a step of one.                                               *)
LEMMA AnswersKeep ==
    ASSUME RequestInv, NEW p \in Places, Answers(p), UNCHANGED <<errorMaps, account, profile>>,
           getErr' \in Errors
    PROVE  RequestInv'
<1>1. RequestTypes'
  BY DEF Answers, RequestInv, RequestTypes
<1>2. ASSUME NEW q \in Places PROVE Fits(req[q])'
  <2>1. CASE q = p
    BY <2>1 DEF Answers
  <2>2. CASE q # p
    <3>1. req'[q] = req[q] /\ Fits(req[q])
      BY <2>2 DEF Answers, RequestInv
    <3> QED
      BY <3>1 DEF Fits, Untouched, Failed
  <2> QED
    BY <2>1, <2>2
<1>3. (req["outer"].pc \in {"require", "handle"} => req["inner"].pc = "none")'
  <2>1. CASE p = "outer"
    BY <2>1 DEF Answers, RequestInv, Places
  <2>2. CASE p = "inner"
    BY <2>2 DEF Answers, RequestInv, Places
  <2> QED
    BY <2>1, <2>2 DEF Places
<1> QED
  BY <1>1, <1>2, <1>3 DEF RequestInv

LEMMA ReturnedKeeps ==
    ASSUME RequestInv, NEW p \in Places, NEW err \in Errors, Returned(p, err), errorMaps' = errorMaps,
           req[p].pc \notin {"none", "require"},
           getErr' \in Errors, account' \in {"absent", "live", "deleted"}, profile' \in BOOLEAN
    PROVE  RequestInv'
<1>1. RequestTypes'
  BY DEF Returned, RequestInv, RequestTypes
<1>2. ASSUME NEW q \in Places PROVE Fits(req[q])'
  <2>1. CASE q = p
    BY <2>1 DEF Returned
  <2>2. CASE q # p
    <3>1. req'[q] = req[q] /\ Fits(req[q])
      BY <2>2 DEF Returned, RequestInv
    <3> QED
      BY <3>1 DEF Fits, Untouched, Failed
  <2> QED
    BY <2>1, <2>2
<1>3. (req["outer"].pc \in {"require", "handle"} => req["inner"].pc = "none")'
  BY DEF Returned, RequestInv, Places
<1> QED
  BY <1>1, <1>2, <1>3 DEF RequestInv

(* What a step outside the handlers tells of the user stays true.          *)
LEMMA AnswersTruth ==
    ASSUME RequestInv, TruthInv, MappingsKeepNotFound, NEW p \in Places, Answers(p),
           UNCHANGED <<account, profile, seen, getErr>>
    PROVE  TruthInv'
<1>1. ASSUME NEW q \in Places PROVE CodeIsTrue(req[q])'
  <2>1. CASE q = p
    BY <2>1 DEF Answers, TruthInv
  <2>2. CASE q # p
    BY <2>2 DEF Answers, TruthInv, CodeIsTrue
  <2> QED
    BY <2>1, <2>2
<1>2. CASE p = "inner"
  <2>1. /\ req'["outer"] = req["outer"] /\ req'["inner"].route = req["inner"].route
        /\ req'["inner"].user = req["inner"].user
        /\ req'["inner"].err = "notFound" => req["inner"].err = "notFound"
        /\ req'["inner"].body \/ req'["inner"].sentBody => req["inner"].body \/ req["inner"].sentBody
    BY <1>2 DEF Answers, Places
  <2> QED
    BY <1>1, <2>1 DEF TruthInv
<1>3. CASE p = "outer"
  <2>1. /\ req'["inner"] = req["inner"] /\ req'["outer"].route = req["outer"].route
        /\ req'["outer"].err = "notFound" => req["outer"].err = "notFound"
    BY <1>3 DEF Answers, Places
  <2> QED
    BY <1>1, <2>1 DEF TruthInv
<1> QED
  BY <1>2, <1>3 DEF Places

(* What a handler that returns tells of the user is true when its error    *)
(* is, and when the user it has read was there.                            *)
LEMMA ReturnedTruth ==
    ASSUME RequestInv, TruthInv, NEW p \in Places, NEW err \in Errors, Returned(p, err),
           seen \subseteq seen', <<account', profile'>> \in seen',
           p = "inner" /\ err = "notFound" => \E b \in BOOLEAN : <<"absent", b>> \in seen,
           p = "outer" /\ err = "notFound" /\ req["outer"].route \in ProfileRoutes
               => \E s \in seen : Gone(req["outer"].route, s),
           getErr' = "notFound" => \E b \in BOOLEAN : <<"absent", b>> \in seen
    PROVE  TruthInv'
<1>0. account \in {"absent", "live", "deleted"} /\ profile \in BOOLEAN /\ req[p].route \in Routes
  BY DEF RequestInv, RequestTypes, Request
<1>1. ASSUME NEW q \in Places PROVE CodeIsTrue(req[q])'
  <2>1. CASE q = p
    <3>1. req'[p].err = err /\ req'[p].code = SetCode(req[p].route, err) /\ req'[p].sent = NotSet
      BY DEF Returned
    <3>2. SetCode(req[p].route, err) = 404 => err = "notFound"
      BY <1>0, SetCodes
    <3> QED
      BY <2>1, <3>1, <3>2 DEF CodeIsTrue, NotSet
  <2>2. CASE q # p
    BY <2>2 DEF Returned, TruthInv, CodeIsTrue
  <2> QED
    BY <2>1, <2>2
<1>2. CASE p = "inner"
  <2>1. /\ req'["outer"] = req["outer"] /\ req'["inner"].route = req["inner"].route
        /\ req'["inner"].user = account /\ req'["inner"].err = err
    BY <1>2 DEF Returned, Places
  <2>2. /\ req["inner"].route = "getUser" /\ <<account, profile>> \in seen
        /\ req["outer"].err = "notFound" /\ req["outer"].route \in ProfileRoutes
               => \E s \in seen : Gone(req["outer"].route, s)
    BY DEF TruthInv
  <2>3. (req["inner"].err = "notFound" => \E b \in BOOLEAN : <<"absent", b>> \in seen)'
    BY <1>2, <2>1
  <2>4. (\E b \in BOOLEAN : <<req["inner"].user, b>> \in seen)'
    BY <1>0, <2>1, <2>2
  <2>5. (req["outer"].err = "notFound" /\ req["outer"].route \in ProfileRoutes
           => \E s \in seen : Gone(req["outer"].route, s))'
    BY <2>1, <2>2
  <2>6. (getErr = "notFound" => \E b \in BOOLEAN : <<"absent", b>> \in seen)'
    OBVIOUS
  <2> QED
    BY <1>1, <2>1, <2>2, <2>3, <2>4, <2>5, <2>6 DEF TruthInv
<1>3. CASE p = "outer"
  <2>1. /\ req'["inner"] = req["inner"] /\ req'["outer"].route = req["outer"].route
        /\ req'["outer"].err = err
    BY <1>3 DEF Returned, Places
  <2>2. /\ req["inner"].route = "getUser"
        /\ req["inner"].err = "notFound" => \E b \in BOOLEAN : <<"absent", b>> \in seen
        /\ req["inner"].body \/ req["inner"].sentBody
               => \E b \in BOOLEAN : <<req["inner"].user, b>> \in seen
    BY DEF TruthInv
  <2>3. (req["inner"].err = "notFound" => \E b \in BOOLEAN : <<"absent", b>> \in seen)'
    BY <2>1, <2>2
  <2>4. (req["inner"].body \/ req["inner"].sentBody
           => \E b \in BOOLEAN : <<req["inner"].user, b>> \in seen)'
    BY <2>1, <2>2
  <2>5. (req["outer"].err = "notFound" /\ req["outer"].route \in ProfileRoutes
           => \E s \in seen : Gone(req["outer"].route, s))'
    BY <1>3, <2>1
  <2>6. (getErr = "notFound" => \E b \in BOOLEAN : <<"absent", b>> \in seen)'
    OBVIOUS
  <2> QED
    BY <1>1, <2>1, <2>2, <2>3, <2>4, <2>5, <2>6 DEF TruthInv
<1> QED
  BY <1>2, <1>3 DEF Places

-----------------------------------------------------------------------------
(* The handlers.                                                           *)
LEMMA Rejections ==
    ASSUME NEW p \in Places
    PROVE  Rejection(p) \in {"none", "parse", "blank"}
  BY DEF Rejection

LEMMA RejectKeeps ==
    ASSUME RequestInv, NEW p \in Places, Reject(p)
    PROVE  /\ RequestInv'
           /\ TruthInv => TruthInv'
<1>1. PICK err \in {"parse", "blank"} : Return(p, err)
  BY Rejections DEF Reject
<1>2. err \in Errors /\ err # "notFound" /\ req[p].pc = "handle"
  BY DEF Errors, Reject
<1>3. Returned(p, err)
  BY <1>1, <1>2, ReturnFits
<1>4. UNCHANGED <<errorMaps, getErr, account, profile, seen>>
  BY DEF Reject, world
<1>5. RequestInv'
  BY <1>2, <1>3, <1>4, ReturnedKeeps DEF RequestInv, RequestTypes
<1>6. ASSUME TruthInv PROVE TruthInv'
  <2>1. /\ <<account', profile'>> \in seen'
        /\ getErr' = "notFound" => \E b \in BOOLEAN : <<"absent", b>> \in seen
    BY <1>4, <1>6 DEF TruthInv
  <2> QED
    BY <1>2, <1>3, <1>4, <1>6, <2>1, ReturnedTruth
<1> QED
  BY <1>5, <1>6

LEMMA HandleFailsKeeps ==
    ASSUME RequestInv, NEW p \in Places, HandleFails(p)
    PROVE  /\ RequestInv'
           /\ TruthInv => TruthInv'
<1>1. Return(p, "other") /\ req[p].pc \in {"handle", "store"} /\ "other" \in Errors
  BY DEF HandleFails, Errors
<1>2. Returned(p, "other")
  BY <1>1, ReturnFits
<1>3. UNCHANGED <<errorMaps, getErr, account, profile, seen>>
  BY DEF HandleFails, world
<1>4. RequestInv'
  BY <1>1, <1>2, <1>3, ReturnedKeeps DEF RequestInv, RequestTypes
<1>5. ASSUME TruthInv PROVE TruthInv'
  <2>1. /\ <<account', profile'>> \in seen'
        /\ getErr' = "notFound" => \E b \in BOOLEAN : <<"absent", b>> \in seen
    BY <1>3, <1>5 DEF TruthInv
  <2> QED
    BY <1>1, <1>2, <1>3, <1>5, <2>1, ReturnedTruth
<1> QED
  BY <1>4, <1>5

(* The answers of the user service: it says "not found" of the user only   *)
(* when there is none.                                                     *)
LEMMA ServiceErrors ==
    ASSUME NEW route \in Routes \ ProfileRoutes, NEW principal \in Principals,
           account \in {"absent", "live", "deleted"},
           route = "currentUser" => principal # "none",
           NEW err \in UserService(route, principal)
    PROVE  /\ err \in Errors
           /\ route = "getUser" /\ err = "notFound" => account = "absent"
<1>1. CASE route = "authenticate"
  BY <1>1 DEF UserService, Errors
<1>2. CASE route = "verify"
  BY <1>2 DEF UserService, Errors
<1>3. CASE route = "register"
  BY <1>3 DEF UserService, Errors
<1>4. CASE route = "currentUser"
  BY <1>4 DEF UserService, Errors, CurrentUser, FoundUser, Principals
<1>5. CASE route = "getUser"
  BY <1>5 DEF UserService, Errors, FoundUser
<1>6. CASE route = "deleteUser"
  BY <1>6 DEF UserService, Errors
<1> QED
  BY <1>1, <1>2, <1>3, <1>4, <1>5, <1>6 DEF Routes, ProfileRoutes


LEMMA HandleUserKeeps ==
    ASSUME RequestInv, NEW p \in Places, HandleUser(p)
    PROVE  /\ RequestInv'
           /\ TruthInv => TruthInv'
<1>1. PICK err \in UserService(req[p].route, req[p].principal) :
          /\ Return(p, err)
          /\ CASE err = "none" /\ req[p].route = "register" -> Become("live", profile)
               [] err = "none" /\ req[p].route = "deleteUser" /\ account = "live" -> Become("deleted", profile)
               [] OTHER -> UNCHANGED world
  BY DEF HandleUser
<1>2. /\ req[p].pc = "handle" /\ req[p].route \in Routes \ ProfileRoutes
      /\ req[p].principal \in Principals
      /\ account \in {"absent", "live", "deleted"} /\ profile \in BOOLEAN
      /\ errorMaps' = errorMaps /\ getErr' = getErr /\ getErr \in Errors
      /\ Fits(req[p])
  BY DEF HandleUser, RequestInv, RequestTypes, Request
<1>3. req[p].route = "currentUser" => req[p].principal # "none"
  BY <1>2 DEF Fits, Required
<1>4. /\ err \in Errors
      /\ req[p].route = "getUser" /\ err = "notFound" => account = "absent"
  BY <1>2, <1>3, ServiceErrors
<1>5. Returned(p, err)
  BY <1>1, <1>2, <1>4, ReturnFits
<1>6. /\ account' \in {"absent", "live", "deleted"} /\ profile' = profile
      /\ seen \subseteq seen' /\ (<<account, profile>> \in seen => <<account', profile'>> \in seen')
  <2>1. CASE Become("live", profile)
    BY <2>1 DEF Become
  <2>2. CASE Become("deleted", profile)
    BY <2>2 DEF Become
  <2>3. CASE UNCHANGED world
    BY <1>2, <2>3 DEF world
  <2> QED
    BY <1>1, <2>1, <2>2, <2>3
<1>7. RequestInv'
  BY <1>2, <1>4, <1>5, <1>6, ReturnedKeeps
<1>8. ASSUME TruthInv PROVE TruthInv'
  <2>1. /\ <<account', profile'>> \in seen'
        /\ getErr' = "notFound" => \E b \in BOOLEAN : <<"absent", b>> \in seen
        /\ <<account, profile>> \in seen /\ req["inner"].route = "getUser"
    BY <1>2, <1>6, <1>8 DEF TruthInv
  <2>2. p = "inner" /\ err = "notFound" => \E b \in BOOLEAN : <<"absent", b>> \in seen
    BY <1>2, <1>4, <2>1
  <2>3. p = "outer" => req["outer"].route \notin ProfileRoutes
    BY <1>2
  <2> QED
    BY <1>4, <1>5, <1>6, <1>8, <2>1, <2>2, <2>3, ReturnedTruth
<1> QED
  BY <1>7, <1>8

LEMMA HandleProfileKeeps ==
    ASSUME RequestInv, HandleProfile
    PROVE  /\ RequestInv'
           /\ TruthInv => TruthInv'
<1> DEFINE route == req.outer.route
           refusal == CASE ~Allowed(route, req.outer.principal) -> "denied"
                        [] route = "updateProfile" /\ req.outer.input = "blank" -> "blank"
                        [] route = "getProfile" /\ ~profile -> "notFound"
                        [] OTHER -> "none"
<1>1. /\ req["outer"].pc = "handle" /\ req["inner"].pc = "none"
      /\ "outer" \in Places /\ "inner" \in Places
      /\ UNCHANGED <<errorMaps, getErr, account, profile, seen>>
      /\ req \in [Places -> Request] /\ profile \in BOOLEAN
  BY DEF HandleProfile, RequestInv, RequestTypes, Places, world
<1>2. refusal \in Errors /\ (refusal = "notFound" => ~profile /\ req["outer"].route = "getProfile")
  BY DEF Errors
<1>3. CASE refusal # "none" /\ Return("outer", refusal)
  <2> HIDE DEF refusal
  <2>1. Returned("outer", refusal)
    BY <1>1, <1>2, <1>3, ReturnFits
  <2>2. RequestInv'
    BY <1>1, <1>2, <2>1, ReturnedKeeps DEF RequestInv, RequestTypes
  <2>3. ASSUME TruthInv PROVE TruthInv'
    <3>1. /\ <<account', profile'>> \in seen' /\ <<account, profile>> \in seen
          /\ getErr' = "notFound" => \E b \in BOOLEAN : <<"absent", b>> \in seen
      BY <1>1, <2>3 DEF TruthInv
    <3>2. refusal = "notFound" => \E s \in seen : Gone(req["outer"].route, s)
      BY <1>1, <1>2, <3>1 DEF Gone
    <3> QED
      BY <1>1, <1>2, <2>1, <2>3, <3>1, <3>2, ReturnedTruth
  <2> QED
    BY <2>2, <2>3
<1>4. CASE req' = [req EXCEPT !.outer.pc = "call",
                              !.inner.pc = "require", !.inner.principal = "service"]
  <2>1. /\ req'["outer"] = [req["outer"] EXCEPT !.pc = "call"]
        /\ req'["inner"] = [req["inner"] EXCEPT !.pc = "require", !.principal = "service"]
        /\ DOMAIN req' = Places
    BY <1>1, <1>4 DEF Places
  <2>2. req["outer"] \in Request /\ req["inner"] \in Request
    BY <1>1
  <2>3. req'["outer"] \in Request /\ req'["inner"] \in Request
    <3>1. "call" \in Stages /\ "require" \in Stages /\ "service" \in Principals
      BY DEF Stages, Principals
    <3>2. req'["outer"] \in Request
      BY <2>1, <2>2, <3>1 DEF Request
    <3>3. req'["inner"] \in Request
      BY <2>1, <2>2, <3>1 DEF Request
    <3> QED
      BY <3>2, <3>3
  <2>4. req' \in [Places -> Request]
    <3>1. req' = [q \in Places |-> req'[q]]
      BY <1>1, <1>4
    <3> QED
      BY <2>3, <3>1 DEF Places
  <2>5. Untouched(req["outer"]) /\ Untouched(req["inner"])
    BY <1>1 DEF RequestInv, Fits
  <2>6. /\ req'["outer"].pc = "call" /\ req'["inner"].pc = "require"
        /\ Untouched(req'["outer"]) /\ Untouched(req'["inner"])
        /\ req'["inner"].route = req["inner"].route
    BY <2>1, <2>2, <2>5 DEF Untouched, Request
  <2>7. Fits(req'["outer"]) /\ Fits(req'["inner"])
    BY <2>6 DEF Fits
  <2>8. RequestInv'
    BY <1>1, <2>4, <2>6, <2>7 DEF RequestInv, RequestTypes, Places
  <2>9. ASSUME TruthInv PROVE TruthInv'
    <3>1. CodeIsTrue(req'["outer"]) /\ CodeIsTrue(req'["inner"])
      BY <2>6 DEF Untouched, CodeIsTrue, NotSet
    <3>2. \A q \in Places : CodeIsTrue(req[q])'
      BY <3>1 DEF Places
    <3>3. /\ ~req'["inner"].body /\ ~req'["inner"].sentBody /\ req'["inner"].err # "notFound"
          /\ req'["outer"].err # "notFound"
      BY <2>6 DEF Untouched
    <3> QED
      BY <1>1, <2>6, <2>9, <3>2, <3>3 DEF TruthInv
  <2> QED
    BY <2>8, <2>9
<1> QED
  BY <1>3, <1>4 DEF HandleProfile

(* What Get makes of the answer of the user service.                       *)
LEMMA ReadResponses ==
    ASSUME NEW code, NEW body
    PROVE  /\ ReadResponse(code, body) \in Errors
           /\ ReadResponse(code, body) = "notFound" => code = 404
           /\ ReadResponse(code, body) = "none" => body
  BY DEF ReadResponse, Errors

(* The handler goes on with what Get returned.                             *)
LEMMA AfterGetKeeps ==
    ASSUME RequestInv, req["outer"].pc = "call", NEW err \in Errors, AfterGet(err), getErr' = err,
           UNCHANGED <<errorMaps, account, profile, seen>>
    PROVE  /\ RequestInv'
           /\ TruthInv /\ (err = "notFound" => \E b \in BOOLEAN : <<"absent", b>> \in seen)
                       /\ (err = "none" => \E b \in BOOLEAN : <<req["inner"].user, b>> \in seen)
                  => TruthInv'
<1>1. "outer" \in Places /\ "inner" \in Places /\ RequestTypes /\ Fits(req["outer"])
  BY DEF Places, RequestInv
<1>2. CASE Set("outer", [pc |-> "store"])
  <2> DEFINE f == [pc |-> "store"]
  <2>1. /\ req'["outer"].pc = "store" /\ \A x \in Fields \ {"pc"} : req'["outer"][x] = req["outer"][x]
        /\ \A q \in Places : q # "outer" => req'[q] = req[q]
    <3>1. /\ req'["outer"] = [x \in Fields |-> IF x \in DOMAIN f THEN f[x] ELSE req["outer"][x]]
          /\ \A q \in Places : q # "outer" => req'[q] = req[q]
      BY <1>1, <1>2, SetFields
    <3> QED
      BY <3>1 DEF Fields
  <2>2. req' \in [Places -> Request]
    BY <1>1, <1>2, SetTypes DEF Stages
  <2>3. Untouched(req["outer"])
    BY <1>1 DEF Fits
  <2>4. Untouched(req'["outer"]) /\ req'["outer"].route = req["outer"].route
    BY <2>1, <2>3 DEF Untouched, Fields
  <2>5. Fits(req'["outer"]) /\ req'["inner"] = req["inner"] /\ Fits(req["inner"])
    BY <1>1, <2>1, <2>4 DEF Fits, Places, RequestInv
  <2>6. \A q \in Places : Fits(req[q])'
    <3>1. Fits(req'["inner"])
      BY <2>5
    <3> QED
      BY <2>5, <3>1 DEF Places
  <2>7. RequestInv'
    BY <1>1, <2>1, <2>2, <2>6 DEF RequestInv, RequestTypes
  <2>8. ASSUME TruthInv, err = "notFound" => \E b \in BOOLEAN : <<"absent", b>> \in seen
        PROVE  TruthInv'
    <3>1. CodeIsTrue(req'["outer"]) /\ CodeIsTrue(req'["inner"])
      BY <1>1, <2>4, <2>5, <2>8 DEF Untouched, CodeIsTrue, NotSet, TruthInv
    <3>2. \A q \in Places : CodeIsTrue(req[q])'
      BY <3>1 DEF Places
    <3>3. req'["outer"].err # "notFound"
      BY <2>4 DEF Untouched
    <3> QED
      BY <2>5, <2>8, <3>2, <3>3 DEF TruthInv
  <2> QED
    BY <2>7, <2>8
<1>3. ASSUME NEW e \in Errors, Return("outer", e),
             e = "notFound" => err = "notFound" \/ (err = "none" /\ req["inner"].user # "live")
      PROVE  /\ RequestInv'
             /\ TruthInv /\ (err = "notFound" => \E b \in BOOLEAN : <<"absent", b>> \in seen)
                         /\ (err = "none" => \E b \in BOOLEAN : <<req["inner"].user, b>> \in seen)
                    => TruthInv'
  <2>1. Returned("outer", e)
    BY <1>1, <1>3, ReturnFits
  <2>2. RequestInv'
    BY <1>1, <2>1, ReturnedKeeps DEF RequestInv, RequestTypes
  <2>3. ASSUME TruthInv, err = "notFound" => \E b \in BOOLEAN : <<"absent", b>> \in seen,
               err = "none" => \E b \in BOOLEAN : <<req["inner"].user, b>> \in seen
        PROVE  TruthInv'
    <3>1. <<account', profile'>> \in seen' /\ seen \subseteq seen'
      BY <2>3 DEF TruthInv
    <3>2. e = "notFound" => \E s \in seen : Gone(req["outer"].route, s)
      BY <1>3, <2>3 DEF Gone
    <3> QED
      BY <1>1, <2>1, <2>3, <3>1, <3>2, ReturnedTruth
  <2> QED
    BY <2>2, <2>3
<1>4. "notFound" \in Errors
  BY DEF Errors
<1> QED
  BY <1>2, <1>3, <1>4 DEF AfterGet

LEMMA ResponseKeeps ==
    ASSUME RequestInv, Response
    PROVE  /\ RequestInv'
           /\ TruthInv => TruthInv'
<1>1. PICK err \in Errors : err = ReadResponse(req["inner"].sent, req["inner"].sentBody)
  BY ReadResponses
<1>2. /\ req["outer"].pc = "call" /\ AfterGet(err) /\ getErr' = err
      /\ UNCHANGED <<errorMaps, account, profile, seen>>
  BY <1>1 DEF Response, world
<1>3. /\ err = "notFound" => req["inner"].sent = 404
      /\ err = "none" => req["inner"].sentBody
  BY <1>1, ReadResponses
<1>4. ASSUME TruthInv
      PROVE  /\ err = "notFound" => \E b \in BOOLEAN : <<"absent", b>> \in seen
             /\ err = "none" => \E b \in BOOLEAN : <<req["inner"].user, b>> \in seen
  <2>1. CodeIsTrue(req["inner"])
    BY <1>4 DEF TruthInv, Places
  <2> QED
    BY <1>3, <1>4, <2>1 DEF TruthInv, CodeIsTrue
<1> QED
  BY <1>2, <1>4, AfterGetKeeps

LEMMA NoResponseKeeps ==
    ASSUME RequestInv, NoResponse
    PROVE  /\ RequestInv'
           /\ TruthInv => TruthInv'
<1>1. /\ req["outer"].pc = "call" /\ AfterGet("other") /\ getErr' = "other" /\ "other" \in Errors
      /\ UNCHANGED <<errorMaps, account, profile, seen>>
  BY DEF NoResponse, world, Errors
<1> QED
  BY <1>1, AfterGetKeeps

LEMMA StoreProfileKeeps ==
    ASSUME RequestInv, StoreProfile
    PROVE  /\ RequestInv'
           /\ TruthInv => TruthInv'
<1>1. /\ Return("outer", "none") /\ req["outer"].pc = "store" /\ "none" \in Errors /\ "outer" \in Places
      /\ errorMaps' = errorMaps /\ getErr' = getErr
      /\ account' = account /\ profile' = TRUE /\ seen' = seen \cup {<<account, TRUE>>}
  BY DEF StoreProfile, Errors, Places, Become
<1>2. Returned("outer", "none")
  BY <1>1, ReturnFits
<1>3. RequestInv'
  BY <1>1, <1>2, ReturnedKeeps DEF RequestInv, RequestTypes
<1>4. ASSUME TruthInv PROVE TruthInv'
  <2>1. /\ <<account', profile'>> \in seen' /\ seen \subseteq seen'
        /\ getErr' = "notFound" => \E b \in BOOLEAN : <<"absent", b>> \in seen
    BY <1>1, <1>4 DEF TruthInv
  <2> QED
    BY <1>1, <1>2, <1>4, <2>1, ReturnedTruth
<1> QED
  BY <1>3, <1>4

LEMMA WorldChangesKeeps ==
    ASSUME RequestInv, WorldChanges
    PROVE  /\ RequestInv'
           /\ TruthInv => TruthInv'
<1>1. /\ UNCHANGED <<errorMaps, req, getErr>>
      /\ account' \in {"absent", "live", "deleted"} /\ profile' \in BOOLEAN
      /\ seen' = seen \cup {<<account', profile'>>}
  BY DEF WorldChanges, Become, RequestInv, RequestTypes
<1>2. RequestInv'
  BY <1>1 DEF RequestInv, RequestTypes, Fits, Untouched, Failed
<1>3. ASSUME TruthInv PROVE TruthInv'
  <2>1. \A q \in Places : CodeIsTrue(req[q])'
    BY <1>1, <1>3 DEF TruthInv, CodeIsTrue
  <2>2. seen \subseteq seen' /\ <<account', profile'>> \in seen' /\ req' = req /\ getErr' = getErr
    BY <1>1
  <2>3. (req["inner"].err = "notFound" \/ getErr = "notFound" => \E b \in BOOLEAN : <<"absent", b>> \in seen)'
    BY <1>3, <2>2 DEF TruthInv
  <2>4. (req["inner"].body \/ req["inner"].sentBody
           => \E b \in BOOLEAN : <<req["inner"].user, b>> \in seen)'
    BY <1>3, <2>2 DEF TruthInv
  <2>5. (req["outer"].err = "notFound" /\ req["outer"].route \in ProfileRoutes
           => \E s \in seen : Gone(req["outer"].route, s))'
    BY <1>3, <2>2 DEF TruthInv
  <2>6. req'["inner"].route = "getUser"
    BY <1>3, <2>2 DEF TruthInv
  <2> QED
    BY <2>1, <2>2, <2>3, <2>4, <2>5, <2>6 DEF TruthInv
<1> QED
  BY <1>2, <1>3

LEMMA InitKeeps ==
    ASSUME Init
    PROVE  RequestInv /\ TruthInv
<1>1. PICK route \in Routes, principal \in Principals, input \in {"good", "blank", "bad"} :
        req = [outer |-> [NoRequest EXCEPT !.pc = "require", !.route = route,
                                           !.principal = principal, !.input = input],
               inner |-> NoRequest]
  BY DEF Init
<1>2. /\ NoRequest \in Request /\ Untouched(NoRequest)
      /\ NoRequest.pc = "none" /\ NoRequest.route = "getUser"
  BY DEF NoRequest, Request, Untouched, Stages, Routes, Principals, Errors, Codes, NotSet
<1>3. /\ req["inner"] = NoRequest
      /\ req["outer"] = [NoRequest EXCEPT !.pc = "require", !.route = route,
                                          !.principal = principal, !.input = input]
  BY <1>1
<1>4. req["outer"] \in Request /\ Untouched(req["outer"]) /\ req["outer"].pc = "require"
  <2>1. /\ "require" \in Stages /\ route \in Routes /\ principal \in Principals
        /\ input \in {"good", "blank", "bad"}
    BY DEF Stages
  <2>2. req["outer"] \in Request
    BY <1>2, <1>3, <2>1 DEF Request
  <2>3. /\ req["outer"].pc = "require"
        /\ \A x \in {"err", "code", "body", "metaCode", "metaErr", "metaPanic", "sent", "sentBody"} :
               req["outer"][x] = NoRequest[x]
    BY <1>2, <1>3 DEF Request
  <2> QED
    BY <1>2, <2>2, <2>3 DEF Untouched
<1>5. req \in [Places -> Request]
  <2>1. req = [q \in {"outer", "inner"} |-> req[q]]
    BY <1>1
  <2> QED
    BY <1>2, <1>3, <1>4, <2>1 DEF Places
<1>6. \A q \in Places : Fits(req[q])
  BY <1>2, <1>3, <1>4 DEF Fits, Places
<1>7. RequestInv
  BY <1>2, <1>3, <1>4, <1>5, <1>6 DEF RequestInv, RequestTypes, Init, Errors
<1>8. \A q \in Places : CodeIsTrue(req[q])
  <2>1. CodeIsTrue(req["outer"]) /\ CodeIsTrue(req["inner"])
    BY <1>2, <1>3, <1>4 DEF Untouched, CodeIsTrue, NotSet
  <2> QED
    BY <2>1 DEF Places
<1>9. TruthInv
  BY <1>2, <1>3, <1>4, <1>8 DEF TruthInv, Untouched, Init
<1> QED
  BY <1>7, <1>9

(* The steps of the wrapper and of the middlewares.                        *)
LEMMA WrapperKeeps ==
    ASSUME RequestInv, NEW p \in Places,
           \/ Require(p) \/ Panic(p) \/ Write(p) \/ MapErrors(p) \/ Persist(p) \/ Record(p)
    PROVE  /\ RequestInv'
           /\ MappingsKeepNotFound /\ TruthInv => TruthInv'
<1>1. Answers(p)
  BY RequireAnswers, PanicAnswers, WriteAnswers, MapErrorsAnswers, PersistAnswers, RecordAnswers
<1>2. UNCHANGED <<errorMaps, getErr, account, profile, seen>>
  BY DEF Require, Panic, Write, MapErrors, Persist, Record, world
<1>3. getErr' \in Errors
  BY <1>2 DEF RequestInv, RequestTypes
<1>4. RequestInv'
  BY <1>1, <1>2, <1>3, AnswersKeep
<1>5. MappingsKeepNotFound /\ TruthInv => TruthInv'
  BY <1>1, <1>2, AnswersTruth
<1> QED
  BY <1>4, <1>5

LEMMA NextKeeps ==
    ASSUME RequestInv, [Next]_vars
    PROVE  /\ RequestInv'
           /\ MappingsKeepNotFound /\ TruthInv => TruthInv'
<1>1. CASE UNCHANGED vars
  <2>1. UNCHANGED <<errorMaps, req, getErr, account, profile, seen>>
    BY <1>1 DEF vars
  <2>2. RequestInv'
    BY <2>1 DEF RequestInv, RequestTypes, Fits, Untouched, Failed
  <2>3. ASSUME TruthInv PROVE TruthInv'
    <3>1. \A q \in Places : CodeIsTrue(req[q])'
      BY <2>1, <2>3 DEF TruthInv, CodeIsTrue
    <3> QED
      BY <2>1, <2>3, <3>1 DEF TruthInv
  <2> QED
    BY <2>2, <2>3
<1>2. ASSUME NEW p \in Places,
             Require(p) \/ Panic(p) \/ Write(p) \/ MapErrors(p) \/ Persist(p) \/ Record(p)
      PROVE  /\ RequestInv'
             /\ MappingsKeepNotFound /\ TruthInv => TruthInv'
  BY <1>2, WrapperKeeps
<1>3. ASSUME NEW p \in Places, Reject(p) \/ HandleUser(p) \/ HandleFails(p)
      PROVE  /\ RequestInv'
             /\ MappingsKeepNotFound /\ TruthInv => TruthInv'
  BY <1>3, RejectKeeps, HandleUserKeeps, HandleFailsKeeps
<1>4. CASE HandleProfile \/ Response \/ NoResponse \/ StoreProfile \/ WorldChanges
  BY <1>4, HandleProfileKeeps, ResponseKeeps, NoResponseKeeps, StoreProfileKeeps, WorldChangesKeeps
<1> QED
  BY <1>1, <1>2, <1>3, <1>4 DEF Next

(* The inductive invariant of a request.                                   *)
LEMMA RequestsAreInOrder ==
    Spec => []RequestInv
<1>1. Init => RequestInv
  BY InitKeeps
<1>2. RequestInv /\ [Next]_vars => RequestInv'
  BY NextKeeps
<1> QED
  BY <1>1, <1>2, PTL DEF Spec

(***************************************************************************)
(* A request whose handler returned an error, or panicked, is answered with*)
(* the code of a failure and without the body of a success, whichever of   *)
(* the wrapper, the mappings and the recovery chose the code.              *)
(***************************************************************************)
THEOREM FailuresAreTold ==
    Spec => []FailureIsTold
<1>1. RequestInv => FailureIsTold
  BY DEF RequestInv, Fits, Failed, FailureIsTold
<1> QED
  BY <1>1, RequestsAreInOrder, PTL

(***************************************************************************)
(* What the metrics and the access log keep of a request is what was sent: *)
(* the recorded code is the code of the answer, and the line is an error   *)
(* line exactly when that code is one of the server (500 or more).         *)
(***************************************************************************)
THEOREM RecordsAreTrue ==
    Spec => []RecordedIsSent
<1>1. ASSUME RequestInv PROVE RecordedIsSent
  <2>1. ASSUME NEW p \in Places, req[p].pc = "done"
        PROVE  /\ req[p].metaCode = req[p].sent
               /\ (req[p].level = "error") = (req[p].sent >= 500)
    <3>1. Fits(req[p]) /\ req[p] \in Request
      BY <1>1 DEF RequestInv, RequestTypes
    <3>2. /\ req[p].metaCode = req[p].sent /\ (req[p].metaPanic => req[p].sent = 500)
          /\ (req[p].level = "error" <=> req[p].metaPanic \/ req[p].metaCode >= 500)
      BY <2>1, <3>1 DEF Fits
    <3> QED
      BY <3>2
  <2> QED
    BY <2>1 DEF RecordedIsSent
<1> QED
  BY <1>1, RequestsAreInOrder, PTL

(***************************************************************************)
(* A client of the profile service that is told "not found" is told what   *)
(* was so at some moment of its request, through the handler, the client of*)
(* the user service and the handler there.  The mappings of the servers may*)
(* choose any code but 404 for another error; a server of the two services *)
(* has no mapping at all.                                                  *)
(***************************************************************************)
THEOREM NotFoundIsNeverMadeUp ==
    ASSUME MappingsKeepNotFound
    PROVE  Spec => []NotFoundIsTrue
<1>1. Init => RequestInv /\ TruthInv
  BY InitKeeps
<1>2. RequestInv /\ TruthInv /\ [Next]_vars => RequestInv' /\ TruthInv'
  BY NextKeeps
<1>3. RequestInv /\ TruthInv => NotFoundIsTrue
  BY DEF TruthInv, CodeIsTrue, NotFoundIsTrue, Places
<1> QED
  BY <1>1, <1>2, <1>3, PTL DEF Spec

-----------------------------------------------------------------------------
(***************************************************************************)
(* The deletion of users.                                                  *)
(***************************************************************************)

(* A call has a target from its begin on, and only one that is done has    *)
(* published its event.                                                    *)
CallsHaveTargets ==
    \A d \in Deleters :
        /\ delete[d] # "idle" => target[d] \in Users
        /\ d \in created => delete[d] = "done"

(* A call that is about to delete a user has locked the user's row, and    *)
(* what it read there still holds.                                         *)
LockCoversTest ==
    \A d \in Deleters :
        delete[d] \in {"store", "commit"} => rowLock[target[d]] = d /\ ~deleted[target[d]]

(* The users that are deleted are those that have an event, and one event. *)
EventsAreDeletions ==
    /\ \A u \in Users : deleted[u] => \E d \in created : target[d] = u
    /\ \A d \in created : deleted[target[d]]
    /\ \A d, e \in created : target[d] = target[e] => d = e

(* A handler works on an event that was published.                         *)
HandlersHaveEvents == \A h \in Handlers : handler[h] # "idle" => event[h] \in created

DeleteInv ==
    /\ DeletionTypeOK /\ HandlersHaveEvents
    /\ CallsHaveTargets /\ LockCoversTest /\ EventsAreDeletions

(* No profile is left of a user, but for one stored after the deletion.    *)
Clean(u) == profiles[u] => stale[u]

(* A key means that no profile is left, and so does a run that is about to *)
(* be committed without a removal or to be acknowledged.                   *)
HandledIsClean ==
    /\ keys \subseteq created
    /\ \A e \in keys : Clean(target[e])
    /\ \A h \in Handlers : handler[h] \in {"absent", "ack"} => Clean(target[event[h]])

ProfileInv == DeleteInv /\ HandledIsClean /\ ProfileGoesWithUser

(* A transaction that has inserted the key of its event is the only one,   *)
(* and the key was not there.                                              *)
KeyIsExclusive ==
    \A h \in Handlers :
        HoldsKey(h) =>
            /\ event[h] \in Deleters \ keys
            /\ \A g \in Handlers : HoldsKey(g) /\ event[g] = event[h] => g = h

(* A run that is committed leaves its key, until the cleaner takes it.     *)
RunLeavesKey == \A e \in Deleters : runs[e] > 0 => e \in keys \union expired

EffectInv == ProfileInv /\ KeyIsExclusive /\ RunLeavesKey /\ EffectOnce

-----------------------------------------------------------------------------
(* The steps, by whose they are.                                           *)
CallStep(d) == DeleteStep(d) \/ \E u \in Users : BeginDelete(d, u)

UpdateStep(p) == StoreUpdate(p) \/ AbandonUpdate(p) \/ \E u \in Users : CheckUser(p, u)

EventStep(h) == HandlerStep(h) \/ FailHandler(h) \/ \E e \in Deleters : DeliverEvent(h, e)

LEMMA NextSteps ==
    ASSUME DeletionNext
    PROVE  \/ \E d \in Deleters : CallStep(d)
           \/ \E p \in Updaters : UpdateStep(p)
           \/ \E h \in Handlers : EventStep(h)
           \/ \E e \in Deleters : DeleteOutdated(e)
  BY DEF DeletionNext, CallStep, UpdateStep, EventStep

(* Update, the handlers and the cleaner leave alone what Delete works on,  *)
(* but for the acknowledged events.                                        *)
LEMMA OthersLeaveUsers ==
    /\ \A p \in Updaters : UpdateStep(p) => UNCHANGED <<userVars, eventVars, handlerVars>>
    /\ \A h \in Handlers : EventStep(h) =>
          UNCHANGED <<userVars, created, stale, update>> /\ events' \subseteq events
    /\ \A e \in Deleters : DeleteOutdated(e) => UNCHANGED <<userVars, eventVars, profileVars>>
  BY DEF UpdateStep, StoreUpdate, AbandonUpdate, CheckUser, EventStep, HandlerStep, GetUser,
         InsertKey, DeleteProfile, CommitHandler, Acknowledge, FailHandler, DeliverEvent,
         DeleteOutdated, eventVars, profileVars, handlerVars

LEMMA CallLeavesProfiles ==
    ASSUME NEW d \in Deleters, CallStep(d)
    PROVE  UNCHANGED <<profileVars, handlerVars>>
  BY DEF CallStep, DeleteStep, BeginDelete, FindUser, StoreUser, CommitDelete, RollbackDelete

LEMMA DeleteStepInv == DeleteInv /\ [DeletionNext]_deletionVars => DeleteInv'
<1> SUFFICES ASSUME DeleteInv, [DeletionNext]_deletionVars
             PROVE  DeleteInv'
  OBVIOUS
<1> USE NobodyAssumption DEF DeleteInv
<1>1. CASE UNCHANGED deletionVars
  BY <1>1 DEF deletionVars, userVars, eventVars, profileVars, handlerVars, DeletionTypeOK,
              HandlersHaveEvents, CallsHaveTargets, LockCoversTest, EventsAreDeletions
<1>2. ASSUME NEW d \in Deleters, CallStep(d)
      PROVE  DeleteInv'
  <2> USE DEF userVars, eventVars, profileVars, handlerVars
  <2>0. UNCHANGED <<profileVars, handlerVars>>
    BY <1>2, CallLeavesProfiles
  <2> USE <2>0 DEF DeletionTypeOK, DeleteStates, HandlersHaveEvents, CallsHaveTargets, LockCoversTest,
                   EventsAreDeletions
  <2>1. ASSUME NEW u \in Users, BeginDelete(d, u)
        PROVE  DeleteInv'
    BY <2>1 DEF BeginDelete
  <2>2. CASE FindUser(d)
    BY <2>2 DEF FindUser
  <2>3. CASE StoreUser(d)
    BY <2>3 DEF StoreUser
  <2>4. CASE CommitDelete(d)
    BY <2>4 DEF CommitDelete
  <2>5. CASE RollbackDelete(d)
    BY <2>5 DEF RollbackDelete
  <2> QED
    BY <1>2, <2>1, <2>2, <2>3, <2>4, <2>5 DEF CallStep, DeleteStep
<1>3. ASSUME NEW p \in Updaters, UpdateStep(p)
      PROVE  DeleteInv'
  <2>1. DeletionTypeOK'
    <3> USE DEF DeletionTypeOK, userVars, eventVars, handlerVars
    <3>1. CASE StoreUpdate(p)
      BY <3>1 DEF StoreUpdate
    <3>2. CASE AbandonUpdate(p) \/ \E u \in Users : CheckUser(p, u)
      BY <3>2 DEF AbandonUpdate, CheckUser
    <3> QED
      BY <1>3, <3>1, <3>2 DEF UpdateStep
  <2> QED
    BY <1>3, <2>1, OthersLeaveUsers
       DEF userVars, eventVars, handlerVars, HandlersHaveEvents, CallsHaveTargets,
           LockCoversTest, EventsAreDeletions
<1>4. ASSUME NEW h \in Handlers, EventStep(h)
      PROVE  DeleteInv'
  <2>1. DeletionTypeOK'
    <3> USE DEF DeletionTypeOK, HandlerStates, userVars, eventVars, profileVars
    <3>1. ASSUME NEW e \in Deleters, DeliverEvent(h, e)
          PROVE  DeletionTypeOK'
      BY <3>1 DEF DeliverEvent
    <3>2. CASE GetUser(h) \/ InsertKey(h) \/ DeleteProfile(h)
      <4>1. PICK s \in HandlerStates : handler' = [handler EXCEPT ![h] = s]
        BY <3>2 DEF GetUser, InsertKey, DeleteProfile
      <4>2. UNCHANGED <<userVars, eventVars, profileVars, event, keys, runs, expired, failedRuns>>
        BY <3>2 DEF GetUser, InsertKey, DeleteProfile
      <4> QED
        BY <4>1, <4>2
    <3>3. CASE CommitHandler(h)
      <4>1. target[event[h]] \in Users /\ event[h] \in Deleters
        BY <3>3 DEF CommitHandler, CallsHaveTargets, HandlersHaveEvents
      <4> QED
        BY <3>3, <4>1 DEF CommitHandler
    <3>4. CASE Acknowledge(h)
      BY <3>4 DEF Acknowledge
    <3>5. CASE FailHandler(h)
      BY <3>5 DEF FailHandler
    <3> QED
      BY <1>4, <3>1, <3>2, <3>3, <3>4, <3>5 DEF EventStep, HandlerStep
  <2>2. HandlersHaveEvents'
    <3>1. /\ \A g \in Handlers \ {h} : handler'[g] = handler[g] /\ event'[g] = event[g]
          /\ \/ handler'[h] = "idle"
             \/ handler[h] # "idle" /\ event'[h] = event[h]
             \/ event'[h] \in events
          /\ UNCHANGED created
      BY <1>4 DEF EventStep, HandlerStep, GetUser, InsertKey, DeleteProfile, CommitHandler,
                  Acknowledge, FailHandler, DeliverEvent, DeletionTypeOK, eventVars
    <3> QED
      BY <3>1 DEF HandlersHaveEvents, DeletionTypeOK
  <2> QED
    BY <1>4, <2>1, <2>2, OthersLeaveUsers
       DEF userVars, CallsHaveTargets, LockCoversTest, EventsAreDeletions
<1>5. ASSUME NEW e \in Deleters, DeleteOutdated(e)
      PROVE  DeleteInv'
  BY <1>5 DEF DeleteOutdated, DeletionTypeOK, HandlersHaveEvents, CallsHaveTargets, LockCoversTest,
              EventsAreDeletions, userVars, eventVars, profileVars
<1> QED
  BY <1>1, <1>2, <1>3, <1>4, <1>5, NextSteps

LEMMA DeleteInvariant == DeletionSpec => []DeleteInv
<1>1. DeletionInit => DeleteInv
  BY DEF DeletionInit, DeleteInv, DeletionTypeOK, DeleteStates, HandlerStates, HandlersHaveEvents,
         CallsHaveTargets, LockCoversTest, EventsAreDeletions
<1> QED
  BY <1>1, DeleteStepInv, PTL DEF DeletionSpec

(***************************************************************************)
(* One event is published for every deleted user, and none for another     *)
(* one, however many calls of Delete meet on a user.                       *)
(***************************************************************************)
THEOREM OneEvent == DeletionSpec => []OneEventPerDeletion
<1>1. DeleteInv => OneEventPerDeletion
  <2> SUFFICES ASSUME DeleteInv, NEW u \in Users
               PROVE  Cardinality({d \in created : target[d] = u}) = (IF deleted[u] THEN 1 ELSE 0)
    BY DEF OneEventPerDeletion
  <2> USE DEF DeleteInv, EventsAreDeletions
  <2>1. CASE deleted[u]
    <3>1. PICK d \in created : target[d] = u
      BY <2>1
    <3>2. {e \in created : target[e] = u} = {d}
      BY <3>1
    <3> QED
      BY <2>1, <3>2, FS_Singleton
  <2>2. CASE ~deleted[u]
    <3>1. {e \in created : target[e] = u} = {}
      BY <2>2
    <3> QED
      BY <2>2, <3>1, FS_EmptySet
  <2> QED
    BY <2>1, <2>2
<1> QED
  BY <1>1, DeleteInvariant, PTL

-----------------------------------------------------------------------------
LEMMA ProfileStepInv == ProfileInv /\ DeleteInv' /\ [DeletionNext]_deletionVars => ProfileInv'
<1> SUFFICES ASSUME ProfileInv, DeleteInv', [DeletionNext]_deletionVars
             PROVE  HandledIsClean' /\ ProfileGoesWithUser'
  BY DEF ProfileInv
<1> USE DEF ProfileInv, DeleteInv, HandledIsClean, ProfileGoesWithUser, Clean
<1>0. \A e \in created : target[e] \in Users /\ deleted[target[e]]
  BY DEF DeletionTypeOK, CallsHaveTargets, EventsAreDeletions
<1>1. CASE UNCHANGED deletionVars
  BY <1>1 DEF deletionVars, userVars, eventVars, profileVars, handlerVars
<1>2. ASSUME NEW d \in Deleters, CallStep(d)
      PROVE  HandledIsClean' /\ ProfileGoesWithUser'
  <2>1. /\ \A e \in created : target'[e] = target[e]
        /\ created \subseteq created' /\ events \subseteq events'
    BY <1>2 DEF CallStep, DeleteStep, BeginDelete, FindUser, StoreUser, CommitDelete,
                RollbackDelete, DeletionTypeOK, CallsHaveTargets, eventVars
  <2>2. \A u \in Users : deleted'[u] => deleted[u] \/ \E e \in events' : target'[e] = u
    BY <1>2 DEF CallStep, DeleteStep, BeginDelete, FindUser, StoreUser, CommitDelete,
                RollbackDelete, DeletionTypeOK
  <2>3. UNCHANGED <<profileVars, handlerVars>>
    BY <1>2, CallLeavesProfiles
  <2> QED
    BY <2>1, <2>2, <2>3 DEF profileVars, handlerVars, HandlersHaveEvents, DeletionTypeOK
<1>3. ASSUME NEW p \in Updaters, UpdateStep(p)
      PROVE  HandledIsClean' /\ ProfileGoesWithUser'
  <2>1. \A u \in Users : deleted[u] => (Clean(u) => Clean(u)') /\ (stale[u] => stale'[u])
    BY <1>3 DEF UpdateStep, StoreUpdate, AbandonUpdate, CheckUser, DeletionTypeOK
  <2>2. \A u \in Users : deleted[u] /\ profiles'[u] => profiles[u] \/ stale'[u]
    BY <1>3 DEF UpdateStep, StoreUpdate, AbandonUpdate, CheckUser, DeletionTypeOK
  <2>3. UNCHANGED <<userVars, eventVars, handlerVars>>
    BY <1>3, OthersLeaveUsers
  <2> QED
    BY <1>0, <2>1, <2>2, <2>3 DEF userVars, eventVars, handlerVars, HandlersHaveEvents
<1>4. ASSUME NEW h \in Handlers, EventStep(h)
      PROVE  HandledIsClean' /\ ProfileGoesWithUser'
  <2>1. UNCHANGED <<userVars, created, stale, update>> /\ events' \subseteq events
    BY <1>4, OthersLeaveUsers
  <2> USE <1>0, <2>1 DEF DeletionTypeOK, HandlerStates, HandlersHaveEvents, userVars, eventVars,
                         profileVars
  <2>2. ASSUME NEW e \in Deleters, DeliverEvent(h, e)
        PROVE  HandledIsClean' /\ ProfileGoesWithUser'
    BY <2>2 DEF DeliverEvent
  <2>3. CASE GetUser(h)
    BY <2>3 DEF GetUser
  <2>4. CASE InsertKey(h)
    BY <2>4 DEF InsertKey
  <2>5. CASE DeleteProfile(h)
    BY <2>5 DEF DeleteProfile
  <2>6. CASE CommitHandler(h)
    BY <2>6 DEF CommitHandler
  <2>7. CASE Acknowledge(h)
    BY <2>7 DEF Acknowledge, EventsAreDeletions
  <2>8. CASE FailHandler(h)
    BY <2>8 DEF FailHandler
  <2> QED
    BY <1>4, <2>2, <2>3, <2>4, <2>5, <2>6, <2>7, <2>8 DEF EventStep, HandlerStep
<1>5. ASSUME NEW e \in Deleters, DeleteOutdated(e)
      PROVE  HandledIsClean' /\ ProfileGoesWithUser'
  BY <1>5 DEF DeleteOutdated, userVars, eventVars, profileVars
<1> QED
  BY <1>1, <1>2, <1>3, <1>4, <1>5, NextSteps

LEMMA ProfileInvariant == DeletionSpec => []ProfileInv
<1>1. DeletionInit => HandledIsClean /\ ProfileGoesWithUser
  BY DEF DeletionInit, HandledIsClean, ProfileGoesWithUser, Clean
<1>2. HandledIsClean /\ ProfileGoesWithUser /\ DeleteInv <=> ProfileInv
  BY DEF ProfileInv
<1> QED
  BY <1>1, <1>2, DeleteInvariant, ProfileStepInv, PTL DEF DeletionSpec

(***************************************************************************)
(* The profile goes with its user: a deleted user has one only while the   *)
(* event waits to be handled, or when Update stored it too late.           *)
(***************************************************************************)
THEOREM ProfileGoes == DeletionSpec => []ProfileGoesWithUser
  BY ProfileInvariant, PTL DEF ProfileInv

-----------------------------------------------------------------------------
LEMMA EffectStepInv == EffectInv /\ ProfileInv' /\ [DeletionNext]_deletionVars => EffectInv'
<1> SUFFICES ASSUME EffectInv, ProfileInv', [DeletionNext]_deletionVars
             PROVE  KeyIsExclusive' /\ RunLeavesKey' /\ EffectOnce'
  BY DEF EffectInv
<1> USE DEF EffectInv, KeyIsExclusive, RunLeavesKey, EffectOnce, HoldsKey
<1>0. DeletionTypeOK /\ HandlersHaveEvents
  BY DEF ProfileInv, DeleteInv
<1>1. CASE UNCHANGED deletionVars
  BY <1>1 DEF deletionVars, handlerVars
<1>2. ASSUME NEW d \in Deleters, CallStep(d)
      PROVE  KeyIsExclusive' /\ RunLeavesKey' /\ EffectOnce'
  BY <1>2, CallLeavesProfiles DEF handlerVars
<1>3. ASSUME NEW p \in Updaters, UpdateStep(p)
      PROVE  KeyIsExclusive' /\ RunLeavesKey' /\ EffectOnce'
  BY <1>3, OthersLeaveUsers DEF handlerVars
<1>4. ASSUME NEW h \in Handlers, EventStep(h)
      PROVE  KeyIsExclusive' /\ RunLeavesKey' /\ EffectOnce'
  <2> USE <1>0 DEF DeletionTypeOK, HandlersHaveEvents
  <2>1. ASSUME NEW e \in Deleters, DeliverEvent(h, e)
        PROVE  KeyIsExclusive' /\ RunLeavesKey' /\ EffectOnce'
    BY <2>1 DEF DeliverEvent
  <2>2. CASE GetUser(h)
    BY <2>2 DEF GetUser
  <2>3. CASE InsertKey(h)
    BY <2>3 DEF InsertKey
  <2>4. CASE DeleteProfile(h)
    BY <2>4 DEF DeleteProfile
  <2>5. CASE CommitHandler(h)
    <3>1. event[h] \in Deleters \ keys
      BY <2>5 DEF CommitHandler
    <3>2. event[h] \notin expired => runs[event[h]] = 0
      BY <3>1
    <3> QED
      BY <2>5, <3>1, <3>2 DEF CommitHandler
  <2>6. CASE Acknowledge(h) \/ FailHandler(h)
    BY <2>6 DEF Acknowledge, FailHandler
  <2> QED
    BY <1>4, <2>1, <2>2, <2>3, <2>4, <2>5, <2>6 DEF EventStep, HandlerStep
<1>5. ASSUME NEW e \in Deleters, DeleteOutdated(e)
      PROVE  KeyIsExclusive' /\ RunLeavesKey' /\ EffectOnce'
  BY <1>5, <1>0 DEF DeleteOutdated
<1> QED
  BY <1>1, <1>2, <1>3, <1>4, <1>5, NextSteps

(***************************************************************************)
(* Deliveries of one event take effect once, at a time or one after the    *)
(* other, as long as the cleaner has not removed the key.                  *)
(***************************************************************************)
THEOREM EffectIsOnce == DeletionSpec => []EffectOnce
<1>1. DeletionInit => KeyIsExclusive /\ RunLeavesKey /\ EffectOnce
  BY DEF DeletionInit, KeyIsExclusive, RunLeavesKey, EffectOnce, HoldsKey
<1>2. KeyIsExclusive /\ RunLeavesKey /\ EffectOnce /\ ProfileInv <=> EffectInv
  BY DEF EffectInv
<1> QED
  BY <1>1, <1>2, ProfileInvariant, EffectStepInv, PTL DEF DeletionSpec
=============================================================================
