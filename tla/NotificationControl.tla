------------------------- MODULE NotificationControl -------------------------
(***************************************************************************)
(* Discovery controls the Notification collection: it creates              *)
(* notifications, dismisses and cancels them, and reads the active ones    *)
(* for the home list.  Every request runs in a worker of some replica and  *)
(* holds no lock; the only atomic unit is one MongoIO call.  A request is  *)
(* therefore a little process that takes one step per MongoIO call, and    *)
(* requests interleave freely with each other, with a document being       *)
(* archived by another domain API, and with the death of their worker.     *)
(*                                                                         *)
(* The breadcrumb that a request mints when it starts (`_auth_context`) is *)
(* identified with the request itself.  The active read is taken whole:    *)
(* Doc is no larger than the section size, paging is modelled elsewhere.   *)
(***************************************************************************)
EXTENDS ObjectIds

CONSTANTS
  Doc,        \* ids of Notification documents
  Request,    \* the requests that may arrive, each at most once
  Token,      \* the tokens callers hold
  Payload,    \* the JSON bodies sent to create
  Seed,       \* the collection before the first request
  Forged      \* a system-managed value written by a client

TargetField  == {"profile_id", "customer_id", "mentor_id"}
ControlField == {"dismissed", "cancelled"}
ManagedField == {"created"} \cup ControlField
Status       == {"active", "archived"}

TokenSpace   == [admin : BOOLEAN, claim : [TargetField -> Claim]]

(* `sent` holds the system-managed fields the client put into the body. *)
PayloadSpace == [target : [TargetField -> Claim], global : BOOLEAN,
                 status : Status, sent : SUBSET ManagedField]

Breadcrumb == Request \cup {Absent}

Document == [target  : [TargetField -> Reference],
             global  : BOOLEAN,
             status  : Status,
             created : Breadcrumb,
             control : [ControlField -> Breadcrumb]]

ControlOp == {"dismiss", "cancel"}

FieldOf(op) == IF op = "dismiss" THEN "dismissed" ELSE "cancelled"

Call == [op : {"create"}, by : Token, doc : Doc, payload : Payload]
          \cup [op : ControlOp, by : Token, doc : Doc]
          \cup [op : {"home"}, by : Token]

ASSUME TokenAssumption   == Token \subseteq TokenSpace
ASSUME PayloadAssumption == Payload \subseteq PayloadSpace
ASSUME AbsentAssumption  ==
  /\ Absent \notin Request \cup Document \cup Call
  /\ Forged \notin Breadcrumb
ASSUME SeedAssumption ==
  /\ Seed \in [Doc -> Document \cup {Absent}]
  /\ \A d \in Doc : Seed[d] # Absent =>
       /\ Seed[d].created = Absent
       /\ \A f \in ControlField : Seed[d].control[f] = Absent

VARIABLES
  store,    \* the Notification collection
  pc,       \* where each request is
  call,     \* what each request asks for
  page,     \* the active notifications a home read returned
  before    \* history: what a home read could already rely on when it began

vars == <<store, pc, call, page, before>>

-----------------------------------------------------------------------------
(* Requests *)

Working  == {"insert", "read", "write", "query", "reply"}
Answered == {"ok", "badRequest", "forbidden", "notFound", "error"}
PC       == {"new", "gone"} \cup Working \cup Answered

IsControl(r) == call[r] # Absent /\ call[r].op \in ControlOp
IsCreate(r)  == call[r] # Absent /\ call[r].op = "create"
IsHome(r)    == call[r] # Absent /\ call[r].op = "home"

Exists(d) == store[d] # Absent

(* Documents whose dismiss or cancel has been answered with 200. *)
Acknowledged ==
  {d \in Doc : \E r \in Request : pc[r] = "ok" /\ IsControl(r) /\ call[r].doc = d}

-----------------------------------------------------------------------------
(* Scopes and checks *)

(* The document targets an identity that the token claims (MongoDB compares *)
(* the encoded claim).                                                      *)
Targets(doc, token) ==
  \E f \in TargetField :
    token.claim[f] # Absent /\ doc.target[f] = Encode(token.claim[f])

(* build_outbound_match: what a caller may see. *)
Visible(doc, token) ==
  \/ token.admin
  \/ doc.status # "archived" /\ (doc.global \/ Targets(doc, token))

(* _check_permission: text is compared, not ObjectIds. *)
Permitted(doc, token) ==
  \/ token.admin
  \/ \E f \in TargetField :
       /\ doc.target[f] # Absent
       /\ token.claim[f] # Absent
       /\ Str(doc.target[f]) = token.claim[f]

(* Mutant of Active: the match forgets that cancelling hides, too. *)
ActiveUnlessDismissed(doc) == doc.control["dismissed"] = Absent

(* active_match: neither control breadcrumb is present. *)
Active(doc) == \A f \in ControlField : doc.control[f] = Absent

(* The match of the home section: active, addressed to profile_id, visible. *)
HomeMatch(doc, token) ==
  /\ Active(doc)
  /\ doc.target["profile_id"] = Encode(token.claim["profile_id"])
  /\ Visible(doc, token)

(* SYSTEM_MANAGED_FIELDS are stripped from a create body. *)
StripManaged(payload) == [payload EXCEPT !.sent = {}]

(* The document create_notification inserts: encoded ids, created breadcrumb. *)
NewDocument(payload, r) ==
  [target  |-> [f \in TargetField |-> EncodeField(payload.target[f])],
   global  |-> payload.global,
   status  |-> payload.status,
   created |-> IF "created" \in payload.sent THEN Forged ELSE r,
   control |-> [f \in ControlField |-> IF f \in payload.sent THEN Forged ELSE Absent]]

-----------------------------------------------------------------------------
(* Arrival: the route reads the token, mints the breadcrumb, parses the body *)

Step(r, from, to) == pc[r] = from /\ pc' = [pc EXCEPT ![r] = to]

Begin(r, c, next) ==
  /\ Step(r, "new", next)
  /\ call' = [call EXCEPT ![r] = c]

(* pymongo mints the _id of an insert, so no two creates share one. *)
FreshId(d) == ~Exists(d) /\ \A q \in Request : IsCreate(q) => call[q].doc # d

ArriveCreate(r) ==
  /\ \E t \in Token, p \in Payload, d \in Doc :
       /\ FreshId(d)
       /\ Begin(r, [op |-> "create", by |-> t, doc |-> d, payload |-> p], "insert")
  /\ UNCHANGED <<store, page, before>>

(* _request_document refuses a body that is not an object before any MongoIO. *)
ArriveMalformed(r) ==
  /\ Step(r, "new", "badRequest")
  /\ UNCHANGED <<store, call, page, before>>

ArriveControl(r) ==
  /\ \E t \in Token, d \in Doc, op \in ControlOp :
       Begin(r, [op |-> op, by |-> t, doc |-> d], "read")
  /\ UNCHANGED <<store, page, before>>

(* A token without profile_id skips the notification section. *)
ArriveHome(r) ==
  /\ \E t \in Token :
       Begin(r, [op |-> "home", by |-> t],
             IF t.claim["profile_id"] = Absent THEN "reply" ELSE "query")
  /\ before' = [before EXCEPT ![r] = [stored  |-> {d \in Doc : Exists(d)},
                                      retired |-> Acknowledged]]
  /\ UNCHANGED <<store, page>>

-----------------------------------------------------------------------------
(* One step per MongoIO call *)

InsertDocument(r) ==
  /\ Step(r, "insert", "reply")
  /\ store' = [store EXCEPT ![call[r].doc] =
                 NewDocument(StripManaged(call[r].payload), r)]
  /\ UNCHANGED <<call, page, before>>

(* Mutant of GetDocument: the inbound check is skipped, as if seeing a      *)
(* notification were enough to control it.                                  *)
GetDocumentUnchecked(r) ==
  LET doc == store[call[r].doc]
  IN /\ pc[r] = "read"
     /\ IF doc # Absent /\ Visible(doc, call[r].by)
        THEN Step(r, "read", "write")
        ELSE Step(r, "read", "notFound")
     /\ UNCHANGED <<store, call, page, before>>

(* Mutant of GetDocument: the inbound check runs before require_outbound. *)
GetDocumentCheckFirst(r) ==
  LET doc == store[call[r].doc]
  IN /\ pc[r] = "read"
     /\ \/ doc = Absent /\ Step(r, "read", "notFound")
        \/ doc # Absent /\ ~Permitted(doc, call[r].by) /\ Step(r, "read", "forbidden")
        \/ doc # Absent /\ Permitted(doc, call[r].by) /\ Step(r, "read", "write")
     /\ UNCHANGED <<store, call, page, before>>

(* Mutant of GetDocument: a document that is not there is waited for. *)
GetDocumentPolling(r) ==
  LET doc == store[call[r].doc]
  IN /\ pc[r] = "read" /\ doc # Absent /\ Visible(doc, call[r].by)
     /\ Step(r, "read", IF Permitted(doc, call[r].by) THEN "write" ELSE "forbidden")
     /\ UNCHANGED <<store, call, page, before>>

(* mongo.get_document, then require_outbound, then _check_permission. *)
GetDocument(r) ==
  LET doc   == store[call[r].doc]
      token == call[r].by
      found == doc # Absent /\ Visible(doc, token)
  IN /\ pc[r] = "read"
     /\ \/ ~found /\ Step(r, "read", "notFound")
        \/ found /\ ~Permitted(doc, token) /\ Step(r, "read", "forbidden")
        \/ found /\ Permitted(doc, token) /\ Step(r, "read", "write")
     /\ UNCHANGED <<store, call, page, before>>

(* Mutant of SetBreadcrumb: the document read earlier is written back whole, *)
(* so the other control field is overwritten.                                *)
SetOnlyBreadcrumb(doc, field, r) ==
  [doc EXCEPT !.control = [f \in ControlField |-> IF f = field THEN r ELSE Absent]]

(* Mutant of SetBreadcrumb: a flag is stored instead of a breadcrumb. *)
SetFlag(doc, field, r) == [doc EXCEPT !.control[field] = TRUE]

(* mongo.update_document(set_data={field: breadcrumb}): unconditional. *)
SetBreadcrumb(doc, field, r) == [doc EXCEPT !.control[field] = r]

(* Mutant of UpdateDocument: an update that matched nothing is not noticed. *)
UpdateIfStillActive(r) ==
  /\ Step(r, "write", "reply")
  /\ store' = IF store[call[r].doc].status = "active"
              THEN [store EXCEPT ![call[r].doc] =
                      SetBreadcrumb(@, FieldOf(call[r].op), r)]
              ELSE store
  /\ UNCHANGED <<call, page, before>>

(* Mutant of UpdateDocument: a document that another request has retired in *)
(* the meantime, by either operation, is taken for done.                    *)
UpdateUnlessRetired(r) ==
  /\ Step(r, "write", "reply")
  /\ store' = IF Active(store[call[r].doc])
              THEN [store EXCEPT ![call[r].doc] =
                      SetBreadcrumb(@, FieldOf(call[r].op), r)]
              ELSE store
  /\ UNCHANGED <<call, page, before>>

UpdateDocument(r) ==
  /\ Step(r, "write", "reply")
  /\ store' = [store EXCEPT ![call[r].doc] =
                 SetBreadcrumb(@, FieldOf(call[r].op), r)]
  /\ UNCHANGED <<call, page, before>>

(* Mutant of QueryActive: documents no create of Discovery made are skipped. *)
QueryCreatedHere(r) ==
  /\ Step(r, "query", "reply")
  /\ page' = [page EXCEPT ![r] =
                {d \in Doc : /\ Exists(d) /\ HomeMatch(store[d], call[r].by)
                            /\ store[d].created # Absent}]
  /\ UNCHANGED <<store, call, before>>

QueryActive(r) ==
  /\ Step(r, "query", "reply")
  /\ page' = [page EXCEPT ![r] =
                {d \in Doc : Exists(d) /\ HomeMatch(store[d], call[r].by)}]
  /\ UNCHANGED <<store, call, before>>

Respond(r) ==
  /\ Step(r, "reply", "ok")
  /\ UNCHANGED <<store, call, page, before>>

(* A MongoIO call raises: handle_route_exceptions answers 500.  From "reply" *)
(* the write has been applied and only its acknowledgement was lost.         *)
MongoFails(r) ==
  /\ pc[r] \in Working
  /\ pc' = [pc EXCEPT ![r] = "error"]
  /\ UNCHANGED <<store, call, page, before>>

(* SIGTERM or a worker timeout ends the process: the client gets no answer. *)
WorkerDies(r) ==
  /\ pc[r] \in Working
  /\ pc' = [pc EXCEPT ![r] = "gone"]
  /\ UNCHANGED <<store, call, page, before>>

(* Another domain API archives the document. *)
Archive(d) ==
  /\ Exists(d) /\ store[d].status = "active"
  /\ store' = [store EXCEPT ![d].status = "archived"]
  /\ UNCHANGED <<pc, call, page, before>>

(* Every request of the bounded supply has been settled. *)
Quiescent ==
  /\ \A r \in Request : pc[r] \in Answered \cup {"gone"}
  /\ UNCHANGED vars

-----------------------------------------------------------------------------
NothingBefore == [stored |-> {}, retired |-> {}]

Init ==
  /\ store = Seed
  /\ pc = [r \in Request |-> "new"]
  /\ call = [r \in Request |-> Absent]
  /\ page = [r \in Request |-> {}]
  /\ before = [r \in Request |-> NothingBefore]

Arrive(r) ==
  ArriveCreate(r) \/ ArriveMalformed(r) \/ ArriveControl(r) \/ ArriveHome(r)

Serve(r) ==
  \/ InsertDocument(r) \/ GetDocument(r) \/ UpdateDocument(r)
  \/ QueryActive(r) \/ Respond(r)

Next ==
  \/ \E r \in Request : Arrive(r) \/ Serve(r) \/ MongoFails(r) \/ WorkerDies(r)
  \/ \E d \in Doc : Archive(d)
  \/ Quiescent

Spec == Init /\ [][Next]_vars

(* A handler never waits for anyone: it runs on until it answers or dies. *)
(* Nobody is obliged to send a request, to archive or to fail.            *)
FairSpec == Spec /\ \A r \in Request : WF_vars(Serve(r))

-----------------------------------------------------------------------------
(* Properties *)

(* Every variable has its shape.  In particular no document ever holds a    *)
(* system-managed value a client wrote into a create body.                  *)
TypeOK ==
  /\ store \in [Doc -> Document \cup {Absent}]
  /\ pc \in [Request -> PC]
  /\ call \in [Request -> Call \cup {Absent}]
  /\ page \in [Request -> SUBSET Doc]
  /\ before \in [Request -> [stored : SUBSET Doc, retired : SUBSET Doc]]

(* Provenance.  Each control breadcrumb in the collection was minted by a   *)
(* request of the matching operation on that very document, whose caller    *)
(* the document permits, and which was not refused: neither a create body,  *)
(* nor a refused, failed-before-write or unrelated request leaves a trace   *)
(* (create_notification strips, _set_control_breadcrumb checks first).      *)
BreadcrumbsEarned ==
  \A d \in Doc, f \in ControlField :
    Exists(d) /\ store[d].control[f] # Absent =>
      \E r \in Request :
        /\ store[d].control[f] = r
        /\ IsControl(r) /\ call[r].doc = d /\ FieldOf(call[r].op) = f
        /\ Permitted(store[d], call[r].by)
        /\ pc[r] \in {"reply", "ok", "error", "gone"}

(* Nothing acknowledged is lost.  Once a dismiss or a cancel is answered    *)
(* with 200 its field is set, whatever other control requests, retries and  *)
(* archivals of the same document overlapped it (the update sets one field, *)
(* it does not write the document back).                                    *)
AckedControlSticks ==
  \A r \in Request :
    pc[r] = "ok" /\ IsControl(r) =>
      /\ Exists(call[r].doc)
      /\ store[call[r].doc].control[FieldOf(call[r].op)] # Absent

(* The check-then-act window is harmless for permission.  A request about   *)
(* to write still has the permission it was granted on an earlier read,     *)
(* although it holds no lock and other writers ran in between.              *)
PermittedAtWrite ==
  \A r \in Request :
    pc[r] = "write" => /\ Exists(call[r].doc)
                       /\ Permitted(store[call[r].doc], call[r].by)

(* A 403 is the answer for globally scoped notifications only.  A targeted *)
(* notification the caller can see is one the caller may retire, and a      *)
(* notification outbound RBAC hides is a 404: the refusal neither reveals   *)
(* a hidden id nor hits a caller the notification is addressed to (F030,    *)
(* dismiss / cancel inbound check).                                         *)
ForbiddenOnlyForGlobal ==
  \A r \in Request :
    pc[r] = "forbidden" =>
      /\ Exists(call[r].doc)
      /\ store[call[r].doc].global
      /\ ~Targets(store[call[r].doc], call[r].by)

(* A dismissed or cancelled notification is excluded from the home list, in *)
(* real time: a home read that begins after the 200 of a dismiss or cancel  *)
(* does not return that document, on whichever replica either ran.          *)
AckedRetirementHidden ==
  \A r \in Request : page[r] \cap before[r].retired = {}

(* Completeness of the home read: a document that was already stored when   *)
(* the read began, and that nobody has retired or archived since, is in the *)
(* page that was read, for the caller whose profile it targets.             *)
HomeMissesNothing ==
  \A r \in Request :
    /\ IsHome(r) /\ pc[r] \in {"reply", "ok"}
    /\ call[r].by.claim["profile_id"] # Absent
    => \A d \in before[r].stored : HomeMatch(store[d], call[r].by) => d \in page[r]

(* A document, once stored, keeps its target for ever, and a retirement is  *)
(* never undone: no step takes a control breadcrumb away again.             *)
RetirementIsFinal ==
  [][\A d \in Doc : Exists(d) =>
       /\ store'[d] # Absent
       /\ store'[d].target = store[d].target
       /\ store'[d].global = store[d].global
       /\ \A f \in ControlField :
            store[d].control[f] # Absent => store'[d].control[f] # Absent]_vars

(* A request that passed the checks takes effect, whatever overlaps it: the *)
(* field of its own operation gets set, also on a document that the other   *)
(* operation retired first, or the caller gets a 500 or no answer at all.   *)
AdmittedControlLands ==
  \A r \in Request :
    pc[r] = "write" ~>
      \/ pc[r] \in {"error", "gone"}
      \/ /\ pc[r] = "ok" /\ IsControl(r) /\ Exists(call[r].doc)
         /\ store[call[r].doc].control[FieldOf(call[r].op)] # Absent

(* Nobody waits for ever: each request that arrived is answered or dropped. *)
EveryRequestSettles ==
  \A r \in Request : pc[r] # "new" ~> pc[r] \in Answered \cup {"gone"}
=============================================================================
