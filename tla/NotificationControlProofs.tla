---------------------- MODULE NotificationControlProofs ----------------------
(***************************************************************************)
(* Proofs about NotificationControl for every set of documents, requests,  *)
(* tokens and payloads.  The argument is one inductive invariant, IInv,    *)
(* whose parts say what each program point already guarantees, and two     *)
(* facts about every step: stored documents only grow (targets are fixed,  *)
(* breadcrumbs are never removed, archiving is final), and a request that  *)
(* has arrived keeps its call.                                             *)
(*                                                                         *)
(* The second part shows that the notification API implements the board:   *)
(* each action of NotificationControl is matched with one action of        *)
(* NotificationBoard or with a stutter; what a request relies on from an   *)
(* earlier read (permission, a fresh id) comes from the same IInv.         *)
(***************************************************************************)
EXTENDS NotificationRefinement, TLAPS

-----------------------------------------------------------------------------
(* The inductive invariant *)

(* Each program point belongs to requests of one kind. *)
CallFitsPC ==
  \A r \in Request :
    /\ pc[r] = "new" => call[r] = Absent /\ page[r] = {} /\ before[r] = NothingBefore
    /\ pc[r] = "insert" => IsCreate(r)
    /\ pc[r] \in {"read", "write", "notFound", "forbidden"} => IsControl(r)
    /\ pc[r] = "query" => IsHome(r) /\ page[r] = {}
                          /\ call[r].by.claim["profile_id"] # Absent

(* The id of a pending create is not stored and is not shared. *)
InsertIsFresh ==
  \A r \in Request :
    /\ pc[r] = "insert" => ~Exists(call[r].doc)
    /\ IsCreate(r) => \A q \in Request :
                        IsCreate(q) /\ call[q].doc = call[r].doc => q = r

(* A control write that was applied is still there. *)
WriteLanded ==
  \A r \in Request :
    pc[r] \in {"reply", "ok"} /\ IsControl(r) =>
      /\ Exists(call[r].doc)
      /\ store[call[r].doc].control[FieldOf(call[r].op)] # Absent

Retired(d) == Exists(d) /\ \E f \in ControlField : store[d].control[f] # Absent

(* What a home read relied on when it began still holds. *)
BeforeHolds ==
  \A r \in Request :
    /\ \A d \in before[r].stored : Exists(d)
    /\ \A d \in before[r].retired : Retired(d)

IInv ==
  /\ TypeOK /\ CallFitsPC /\ InsertIsFresh /\ WriteLanded /\ BeforeHolds
  /\ PermittedAtWrite /\ BreadcrumbsEarned
  /\ AckedRetirementHidden /\ HomeMissesNothing

-----------------------------------------------------------------------------
(* What every step keeps *)

(* A stored document stays stored, keeps its target, and only gathers       *)
(* breadcrumbs and the archived status.                                     *)
DocGrows(d) ==
  Exists(d) =>
    /\ store'[d] # Absent
    /\ store'[d].target = store[d].target
    /\ store'[d].global = store[d].global
    /\ store[d].status = "archived" => store'[d].status = "archived"
    /\ \A f \in ControlField :
         store[d].control[f] # Absent => store'[d].control[f] # Absent

StoreGrows == \A d \in Doc : DocGrows(d)

(* A request that has arrived keeps its call and never becomes new again. *)
CallsStay ==
  \A r \in Request :
    pc[r] # "new" => call'[r] = call[r] /\ before'[r] = before[r] /\ pc'[r] # "new"

USE AbsentIsNoId, AbsentIsNoText, TokenAssumption, PayloadAssumption,
    AbsentAssumption

-----------------------------------------------------------------------------
(* The shape of calls and documents *)

(* A call names an operation, a token and, unless it reads home, a document. *)
LEMMA CallShape ==
  ASSUME NEW c \in Call
  PROVE  /\ c # Absent
         /\ c.op \in {"create", "dismiss", "cancel", "home"}
         /\ c.by \in TokenSpace
         /\ c.op # "home" => c.doc \in Doc
         /\ c.op = "create" => c.payload \in PayloadSpace
BY DEF Call, ControlOp

(* Each control operation has a control field (dismiss, cancel). *)
LEMMA FieldOfIsControl == \A op : FieldOf(op) \in ControlField
BY DEF FieldOf, ControlField

(* A created document is well-formed and carries its own breadcrumb only. *)
LEMMA NewDocumentShape ==
  ASSUME NEW p \in PayloadSpace, NEW r \in Request
  PROVE  /\ NewDocument(StripManaged(p), r) \in Document
         /\ \A f \in ControlField :
              NewDocument(StripManaged(p), r).control[f] = Absent
<1>1. StripManaged(p) \in PayloadSpace /\ StripManaged(p).sent = {}
  BY DEF StripManaged, PayloadSpace
<1>2. \A f \in TargetField : EncodeField(StripManaged(p).target[f]) \in Reference
  BY <1>1 DEF PayloadSpace, EncodeField, Encode, Claim, IdText, Reference
<1>3. QED
  BY <1>1, <1>2 DEF NewDocument, Document, PayloadSpace, Breadcrumb

(* Setting one control breadcrumb keeps everything else of a document. *)
LEMMA SetBreadcrumbShape ==
  ASSUME NEW doc \in Document, NEW f \in ControlField, NEW r \in Request
  PROVE  LET new == SetBreadcrumb(doc, f, r)
         IN /\ new \in Document
            /\ new.target = doc.target /\ new.global = doc.global
            /\ new.status = doc.status /\ new.created = doc.created
            /\ new.control[f] = r
            /\ \A g \in ControlField : g # f => new.control[g] = doc.control[g]
BY DEF SetBreadcrumb, Document, Breadcrumb

(* Archiving changes the status and nothing else. *)
LEMMA ArchivedShape ==
  ASSUME NEW doc \in Document
  PROVE  LET new == [doc EXCEPT !.status = "archived"]
         IN /\ new \in Document /\ new # Absent
            /\ new.target = doc.target /\ new.global = doc.global
            /\ new.status = "archived" /\ new.control = doc.control
BY DEF Document, Status

(* Permission depends on the target only, which never changes. *)
LEMMA PermissionFollowsTarget ==
  ASSUME NEW doc, NEW new, NEW token, new.target = doc.target
  PROVE  /\ Permitted(new, token) <=> Permitted(doc, token)
         /\ Targets(new, token) <=> Targets(doc, token)
BY DEF Permitted, Targets

-----------------------------------------------------------------------------
(* The steps, grouped by what they change *)

(* A step that moves one request and touches nothing else: a refused or     *)
(* granted read, an answer, a failure, a death, a malformed body.           *)
PcOnly(r) ==
  /\ \/ ArriveMalformed(r) \/ GetDocument(r) \/ Respond(r)
     \/ MongoFails(r) \/ WorkerDies(r)
  /\ UNCHANGED <<store, call, page, before>>

(* The steps, grouped by what they change besides pc. *)
LEMMA NextSplit ==
  ASSUME [Next]_vars
  PROVE  \/ UNCHANGED vars
         \/ \E d \in Doc : Archive(d)
         \/ \E r \in Request :
              \/ ArriveCreate(r) \/ ArriveControl(r) \/ ArriveHome(r)
              \/ InsertDocument(r) \/ UpdateDocument(r) \/ QueryActive(r)
              \/ PcOnly(r)
BY DEF Next, Arrive, Serve, PcOnly, Quiescent, ArriveMalformed, GetDocument,
       Respond, MongoFails, WorkerDies

(* How a pc-only step moves its request. *)
LEMMA PcOnlyMoves ==
  ASSUME TypeOK, NEW r \in Request, PcOnly(r)
  PROVE  /\ \E to \in PC : pc' = [pc EXCEPT ![r] = to]
         /\ \A q \in Request : q # r => pc'[q] = pc[q]
         /\ pc'[r] \in {"badRequest", "notFound", "forbidden", "write", "ok",
                         "error", "gone"}
         /\ pc'[r] = "badRequest" => pc[r] = "new"
         /\ pc'[r] = "ok" => pc[r] = "reply"
         /\ pc'[r] \in {"notFound", "forbidden", "write"} => pc[r] = "read"
         /\ pc'[r] \in {"error", "gone"} => pc[r] \in Working
BY DEF PcOnly, TypeOK, Step, ArriveMalformed, GetDocument, Respond, MongoFails,
       WorkerDies, PC, Answered, Working

(* The arrival of a create or of a control request. *)
LEMMA WriteArrival ==
  ASSUME NEW r \in Request, ArriveCreate(r) \/ ArriveControl(r)
  PROVE  \E c \in Call, to \in {"insert", "read"} :
           /\ Begin(r, c, to)
           /\ to = "insert" => c.op = "create"
           /\ to = "read" => c.op \in ControlOp
<1>1. CASE ArriveCreate(r)
  <2>1. PICK t \in Token, p \in Payload, d \in Doc :
          Begin(r, [op |-> "create", by |-> t, doc |-> d, payload |-> p], "insert")
    BY <1>1 DEF ArriveCreate
  <2>2. [op |-> "create", by |-> t, doc |-> d, payload |-> p] \in Call
    BY DEF Call
  <2>3. QED
    BY <2>1, <2>2
<1>2. CASE ArriveControl(r)
  <2>1. PICK t \in Token, d \in Doc, op \in ControlOp :
          Begin(r, [op |-> op, by |-> t, doc |-> d], "read")
    BY <1>2 DEF ArriveControl
  <2>2. [op |-> op, by |-> t, doc |-> d] \in Call
    BY DEF Call
  <2>3. QED
    BY <2>1, <2>2
<1>3. QED
  BY <1>1, <1>2

(* The call of a request that is past its arrival. *)
LEMMA CallOf ==
  ASSUME TypeOK, NEW r \in Request, call[r] # Absent
  PROVE  call[r] \in Call
BY DEF TypeOK

-----------------------------------------------------------------------------
(* What every step keeps *)

(* No step takes anything from a stored document: there is no delete, an
   insert uses a fresh id, and an update sets one field. *)
LEMMA StepGrowsStore == IInv /\ [Next]_vars => StoreGrows
<1> SUFFICES ASSUME IInv, [Next]_vars, NEW d \in Doc, Exists(d)
             PROVE  DocGrows(d)
  BY DEF StoreGrows, DocGrows
<1> USE DEF DocGrows, Exists
<1>0. store[d] \in Document
  BY DEF IInv, TypeOK
<1>1. CASE UNCHANGED store
  BY <1>1
<1>2. ASSUME NEW e \in Doc, Archive(e) PROVE DocGrows(d)
  <2>1. CASE e = d
    <3>1. store'[d] = [store[d] EXCEPT !.status = "archived"]
      BY <1>2, <2>1 DEF Archive, IInv, TypeOK
    <3>2. QED
      BY <3>1, <1>0, ArchivedShape
  <2>2. CASE e # d
    BY <1>2, <2>2 DEF Archive, IInv, TypeOK
  <2>3. QED
    BY <2>1, <2>2
<1>3. ASSUME NEW r \in Request, InsertDocument(r) PROVE DocGrows(d)
  <2>1. call[r].doc # d
    BY <1>3 DEF InsertDocument, Step, IInv, InsertIsFresh
  <2>2. QED
    BY <2>1, <1>3 DEF InsertDocument, IInv, TypeOK
<1>4. ASSUME NEW r \in Request, UpdateDocument(r) PROVE DocGrows(d)
  <2>1. FieldOf(call[r].op) \in ControlField
    BY FieldOfIsControl
  <2>2. CASE call[r].doc = d
    <3>1. store'[d] = SetBreadcrumb(store[d], FieldOf(call[r].op), r)
      BY <1>4, <2>2 DEF UpdateDocument, IInv, TypeOK
    <3>2. store'[d] \in Document
      BY <3>1, <1>0, <2>1, SetBreadcrumbShape
    <3>3. QED
      BY <3>1, <3>2, <1>0, <2>1, SetBreadcrumbShape
  <2>3. CASE call[r].doc # d
    BY <1>4, <2>3 DEF UpdateDocument, IInv, TypeOK
  <2>4. QED
    BY <2>2, <2>3
<1>5. QED
  BY <1>1, <1>2, <1>3, <1>4, NextSplit
     DEF vars, PcOnly, ArriveCreate, ArriveControl, ArriveHome, QueryActive

(* No step rewrites the call or the history of a request that has arrived. *)
LEMMA StepKeepsCalls == TypeOK /\ [Next]_vars => CallsStay
<1> SUFFICES ASSUME TypeOK, [Next]_vars PROVE CallsStay
  OBVIOUS
<1> USE DEF CallsStay
<1>1. CASE UNCHANGED <<pc, call, before>>
  BY <1>1
<1>2. ASSUME NEW r \in Request,
             ArriveCreate(r) \/ ArriveControl(r) \/ ArriveHome(r)
      PROVE  CallsStay
  <2>1. pc[r] = "new" /\ \E to \in PC : pc' = [pc EXCEPT ![r] = to]
    BY <1>2 DEF ArriveCreate, ArriveControl, ArriveHome, Begin, Step, PC, Working
  <2>2. \A q \in Request : q # r => call'[q] = call[q] /\ before'[q] = before[q]
    BY <1>2 DEF ArriveCreate, ArriveControl, ArriveHome, Begin, TypeOK
  <2>3. QED
    BY <2>1, <2>2 DEF TypeOK
<1>3. ASSUME NEW r \in Request,
             InsertDocument(r) \/ UpdateDocument(r) \/ QueryActive(r)
      PROVE  CallsStay
  BY <1>3 DEF InsertDocument, UpdateDocument, QueryActive, Step, TypeOK
<1>4. ASSUME NEW r \in Request, PcOnly(r) PROVE CallsStay
  BY <1>4, PcOnlyMoves DEF PcOnly
<1>5. QED
  BY <1>1, <1>2, <1>3, <1>4, NextSplit DEF vars, Archive

-----------------------------------------------------------------------------
(* The initial state *)

(* The initial state satisfies the invariant. *)
LEMMA InitIInv == Init => IInv
<1> SUFFICES ASSUME Init PROVE IInv
  OBVIOUS
<1> USE SeedAssumption DEF Init
<1>1. TypeOK
  BY DEF TypeOK, PC, NothingBefore
<1>2. CallFitsPC
  BY DEF CallFitsPC, NothingBefore
<1>3. InsertIsFresh /\ WriteLanded
  BY DEF InsertIsFresh, WriteLanded, IsCreate, IsControl
<1>4. BeforeHolds /\ PermittedAtWrite /\ AckedRetirementHidden
  BY DEF BeforeHolds, PermittedAtWrite, AckedRetirementHidden, NothingBefore
<1>5. BreadcrumbsEarned
  BY DEF BreadcrumbsEarned, Exists
<1>6. HomeMissesNothing
  BY DEF HomeMissesNothing, IsHome
<1>7. QED
  BY <1>1, <1>2, <1>3, <1>4, <1>5, <1>6 DEF IInv

-----------------------------------------------------------------------------
(* Type correctness of a step *)

(* A step keeps every variable in its type. *)
LEMMA TypeStep == IInv /\ [Next]_vars => TypeOK'
<1> SUFFICES ASSUME IInv, [Next]_vars PROVE TypeOK'
  OBVIOUS
<1> USE DEF TypeOK
<1>0. TypeOK
  BY DEF IInv
<1>1. CASE UNCHANGED vars
  BY <1>0, <1>1 DEF vars
<1>2. ASSUME NEW d \in Doc, Archive(d) PROVE TypeOK'
  <2>1. store[d] \in Document
    BY <1>0, <1>2 DEF Archive, Exists
  <2>2. [store[d] EXCEPT !.status = "archived"] \in Document
    BY <2>1, ArchivedShape
  <2>3. QED
    BY <1>0, <1>2, <2>2 DEF Archive
<1>3. ASSUME NEW r \in Request, PcOnly(r) PROVE TypeOK'
  BY <1>0, <1>3, PcOnlyMoves DEF PcOnly
<1>4. ASSUME NEW r \in Request, ArriveCreate(r) \/ ArriveControl(r)
      PROVE  TypeOK'
  <2>1. PICK c \in Call, to \in {"insert", "read"} : Begin(r, c, to)
    BY <1>4, WriteArrival
  <2>2. UNCHANGED <<store, page, before>>
    BY <1>4 DEF ArriveCreate, ArriveControl
  <2>3. QED
    BY <1>0, <2>1, <2>2 DEF Begin, Step, PC, Working
<1>5. ASSUME NEW r \in Request, ArriveHome(r) PROVE TypeOK'
  <2>1. Acknowledged \in SUBSET Doc /\ {d \in Doc : Exists(d)} \in SUBSET Doc
    BY DEF Acknowledged
  <2>2. before' \in [Request -> [stored : SUBSET Doc, retired : SUBSET Doc]]
    BY <1>0, <1>5, <2>1 DEF ArriveHome
  <2>3. QED
    BY <1>0, <1>5, <2>2 DEF ArriveHome, Begin, Step, Call, PC, Working
<1>6. ASSUME NEW r \in Request, InsertDocument(r) PROVE TypeOK'
  <2>1. call[r] \in Call /\ call[r].op = "create"
    BY <1>0, <1>6 DEF InsertDocument, Step, IInv, CallFitsPC, IsCreate
  <2>2. NewDocument(StripManaged(call[r].payload), r) \in Document
    BY <2>1, CallShape, NewDocumentShape
  <2>3. store' \in [Doc -> Document \cup {Absent}]
    BY <1>0, <1>6, <2>2 DEF InsertDocument
  <2>4. QED
    BY <1>0, <1>6, <2>3 DEF InsertDocument, Step, PC, Working
<1>7. ASSUME NEW r \in Request, UpdateDocument(r) PROVE TypeOK'
  <2>1. store[call[r].doc] # Absent
    BY <1>7 DEF UpdateDocument, Step, IInv, PermittedAtWrite, Exists
  <2>2. call[r] \in Call /\ call[r].doc \in Doc
    BY <1>0, <1>7, CallShape
       DEF UpdateDocument, Step, IInv, CallFitsPC, IsControl, ControlOp
  <2>3. SetBreadcrumb(store[call[r].doc], FieldOf(call[r].op), r) \in Document
    BY <1>0, <2>1, <2>2, FieldOfIsControl, SetBreadcrumbShape
  <2>4. store' \in [Doc -> Document \cup {Absent}]
    BY <1>0, <1>7, <2>3 DEF UpdateDocument
  <2>5. QED
    BY <1>0, <1>7, <2>4 DEF UpdateDocument, Step, PC, Working
<1>8. ASSUME NEW r \in Request, QueryActive(r) PROVE TypeOK'
  BY <1>0, <1>8 DEF QueryActive, Step, PC, Working
<1>9. QED
  BY <1>1, <1>2, <1>3, <1>4, <1>5, <1>6, <1>7, <1>8, NextSplit

-----------------------------------------------------------------------------
(* The other parts of the invariant *)

(* A step leads each request to points of its own kind only. *)
LEMMA CallFitsStep == IInv /\ [Next]_vars => CallFitsPC'
<1> SUFFICES ASSUME IInv, [Next]_vars PROVE CallFitsPC'
  OBVIOUS
<1> USE DEF CallFitsPC, IsCreate, IsControl, IsHome
<1>0. TypeOK /\ CallFitsPC
  BY DEF IInv
<1>1. CASE UNCHANGED <<pc, call, page, before>>
  BY <1>0, <1>1
<1>2. ASSUME NEW r \in Request, PcOnly(r) PROVE CallFitsPC'
  BY <1>0, <1>2, PcOnlyMoves DEF PcOnly
<1>3. ASSUME NEW r \in Request, ArriveCreate(r) \/ ArriveControl(r)
      PROVE  CallFitsPC'
  <2>1. PICK c \in Call, to \in {"insert", "read"} :
          /\ Begin(r, c, to)
          /\ to = "insert" => c.op = "create"
          /\ to = "read" => c.op \in ControlOp
    BY <1>3, WriteArrival
  <2>2. UNCHANGED <<page, before>>
    BY <1>3 DEF ArriveCreate, ArriveControl
  <2>3. QED
    BY <1>0, <2>1, <2>2, CallShape DEF Begin, Step, TypeOK
<1>4. ASSUME NEW r \in Request, ArriveHome(r) PROVE CallFitsPC'
  <2>1. PICK t \in Token :
          Begin(r, [op |-> "home", by |-> t],
                IF t.claim["profile_id"] = Absent THEN "reply" ELSE "query")
    BY <1>4 DEF ArriveHome
  <2>2. /\ call' = [call EXCEPT ![r] = [op |-> "home", by |-> t]]
        /\ pc[r] = "new" /\ pc'[r] \in {"reply", "query"}
        /\ pc'[r] = "query" => t.claim["profile_id"] # Absent
        /\ \A q \in Request : q # r => pc'[q] = pc[q]
    BY <1>0, <2>1 DEF Begin, Step, TypeOK
  <2>3. \A q \in Request : q # r => before'[q] = before[q]
    BY <1>0, <1>4 DEF ArriveHome, TypeOK
  <2>4. page' = page
    BY <1>4 DEF ArriveHome
  <2>5. [op |-> "home", by |-> t] \in Call
    BY DEF Call
  <2>6. QED
    BY <1>0, <2>2, <2>3, <2>4, <2>5, CallShape DEF TypeOK
<1>5. ASSUME NEW r \in Request,
             InsertDocument(r) \/ UpdateDocument(r) \/ QueryActive(r)
      PROVE  CallFitsPC'
  <2>1. /\ pc' = [pc EXCEPT ![r] = "reply"] /\ pc[r] # "new"
        /\ UNCHANGED <<call, before>>
    BY <1>5 DEF InsertDocument, UpdateDocument, QueryActive, Step
  <2>2. \A q \in Request : q # r => page'[q] = page[q]
    BY <1>0, <1>5 DEF InsertDocument, UpdateDocument, QueryActive, TypeOK
  <2>3. QED
    BY <1>0, <2>1, <2>2 DEF TypeOK
<1>6. QED
  BY <1>1, <1>2, <1>3, <1>4, <1>5, NextSplit DEF vars, Archive

(* Nobody takes the id of a pending create. *)
LEMMA InsertFreshStep == IInv /\ [Next]_vars => InsertIsFresh'
<1> SUFFICES ASSUME IInv, [Next]_vars PROVE InsertIsFresh'
  OBVIOUS
<1> USE DEF InsertIsFresh, IsCreate, Exists
<1>0. TypeOK /\ CallFitsPC /\ InsertIsFresh /\ PermittedAtWrite
  BY DEF IInv
<1>1. CASE UNCHANGED <<store, pc, call>>
  BY <1>0, <1>1
<1>2. ASSUME NEW d \in Doc, Archive(d) PROVE InsertIsFresh'
  BY <1>0, <1>2 DEF Archive, TypeOK
<1>3. ASSUME NEW r \in Request, PcOnly(r) PROVE InsertIsFresh'
  BY <1>0, <1>3, PcOnlyMoves DEF PcOnly
<1>4. ASSUME NEW r \in Request, ArriveCreate(r) PROVE InsertIsFresh'
  <2>1. PICK t \in Token, p \in Payload, d \in Doc :
          /\ FreshId(d)
          /\ Begin(r, [op |-> "create", by |-> t, doc |-> d, payload |-> p], "insert")
    BY <1>4 DEF ArriveCreate
  <2>2. /\ call'[r].doc = d /\ call'[r].op = "create"
        /\ \A q \in Request : q # r => call'[q] = call[q] /\ pc'[q] = pc[q]
    BY <1>0, <2>1 DEF Begin, Step, TypeOK
  <2>3. QED
    BY <1>0, <1>4, <2>1, <2>2 DEF FreshId, ArriveCreate
<1>5. ASSUME NEW r \in Request, ArriveControl(r) \/ ArriveHome(r)
      PROVE  InsertIsFresh'
  <2>1. /\ call'[r].op # "create" /\ pc'[r] # "insert" /\ UNCHANGED store
        /\ \A q \in Request : q # r => call'[q] = call[q] /\ pc'[q] = pc[q]
    BY <1>0, <1>5
       DEF ArriveControl, ArriveHome, Begin, Step, TypeOK, ControlOp
  <2>2. QED
    BY <1>0, <2>1
<1>6. ASSUME NEW r \in Request, InsertDocument(r) PROVE InsertIsFresh'
  <2>1. \A q \in Request : q # r => pc'[q] = pc[q]
    BY <1>0, <1>6 DEF InsertDocument, Step, TypeOK
  <2>2. pc'[r] = "reply" /\ call' = call /\ pc[r] = "insert"
    BY <1>0, <1>6 DEF InsertDocument, Step, TypeOK
  <2>3. \A d \in Doc : d # call[r].doc => store'[d] = store[d]
    BY <1>0, <1>6 DEF InsertDocument, TypeOK
  <2>4. \A q \in Request : pc[q] = "insert" => call[q].doc \in Doc
    BY <1>0, CallShape DEF CallFitsPC, TypeOK
  <2>5. QED
    BY <1>0, <2>1, <2>2, <2>3, <2>4 DEF CallFitsPC
<1>7. ASSUME NEW r \in Request, UpdateDocument(r) PROVE InsertIsFresh'
  <2>1. \A q \in Request : pc'[q] = "insert" => pc[q] = "insert"
    BY <1>0, <1>7 DEF UpdateDocument, Step, TypeOK
  <2>2. call' = call /\ store[call[r].doc] # Absent
    BY <1>0, <1>7 DEF UpdateDocument, Step, PermittedAtWrite
  <2>3. \A d \in Doc : d # call[r].doc => store'[d] = store[d]
    BY <1>0, <1>7 DEF UpdateDocument, TypeOK
  <2>4. \A q \in Request : pc[q] = "insert" => call[q].doc \in Doc
    BY <1>0, CallShape DEF CallFitsPC, TypeOK
  <2>5. QED
    BY <1>0, <2>1, <2>2, <2>3, <2>4
<1>8. ASSUME NEW r \in Request, QueryActive(r) PROVE InsertIsFresh'
  BY <1>0, <1>8 DEF QueryActive, Step, TypeOK
<1>9. QED
  BY <1>1, <1>2, <1>3, <1>4, <1>5, <1>6, <1>7, <1>8, NextSplit DEF vars

(* Requests only ever reach these points in these ways. *)
LEMMA Reaching ==
  ASSUME IInv, [Next]_vars, NEW q \in Request
  PROVE  /\ pc'[q] = "write" /\ pc[q] # "write" => GetDocument(q)
         /\ pc'[q] = "reply" /\ pc[q] # "reply" =>
              \/ InsertDocument(q) \/ UpdateDocument(q)
              \/ QueryActive(q) \/ ArriveHome(q)
         /\ pc'[q] = "ok" => pc[q] \in {"ok", "reply"}
         /\ pc'[q] = "forbidden" /\ pc[q] # "forbidden" => GetDocument(q)
         /\ pc[q] \in {"ok", "error", "gone"} => pc'[q] = pc[q]
         /\ pc[q] = "reply" => pc'[q] \in {"reply", "ok", "error", "gone"}
<1>0. TypeOK
  BY DEF IInv
<1>1. CASE UNCHANGED pc
  BY <1>1
<1>2. ASSUME NEW r \in Request, PcOnly(r), pc'[q] # pc[q]
      PROVE  /\ q = r
             /\ pc'[q] \in {"write", "forbidden"} => GetDocument(q)
             /\ pc'[q] = "ok" => pc[q] = "reply"
             /\ pc'[q] # "reply" /\ pc[q] \notin {"ok", "error", "gone"}
             /\ pc[q] = "reply" => pc'[q] \in {"reply", "ok", "error", "gone"}
  <2>1. q = r
    BY <1>0, <1>2, PcOnlyMoves
  <2>2. pc'[q] \in {"write", "forbidden"} => GetDocument(q)
    BY <1>0, <1>2, <2>1
       DEF PcOnly, ArriveMalformed, Respond, MongoFails, WorkerDies, Step, TypeOK
  <2>3. QED
    BY <1>0, <1>2, <2>1, <2>2, PcOnlyMoves DEF Working
<1>3. ASSUME NEW r \in Request,
             ArriveCreate(r) \/ ArriveControl(r) \/ ArriveHome(r)
      PROVE  /\ \A s \in Request : s # r => pc'[s] = pc[s]
             /\ pc[r] = "new" /\ pc'[r] \in {"insert", "read", "query", "reply"}
             /\ pc'[r] = "reply" => ArriveHome(r)
  BY <1>0, <1>3 DEF ArriveCreate, ArriveControl, ArriveHome, Begin, Step, TypeOK
<1>4. ASSUME NEW r \in Request,
             InsertDocument(r) \/ UpdateDocument(r) \/ QueryActive(r)
      PROVE  /\ \A s \in Request : s # r => pc'[s] = pc[s]
             /\ pc'[r] = "reply" /\ pc[r] \in {"insert", "write", "query"}
  BY <1>0, <1>4 DEF InsertDocument, UpdateDocument, QueryActive, Step, TypeOK
<1>5. QED
  BY <1>1, <1>2, <1>3, <1>4, NextSplit DEF vars, Archive

(* A step away from "write" to "reply" sets the field, and it stays set. *)
LEMMA WriteLandedStep == IInv /\ [Next]_vars => WriteLanded'
<1> SUFFICES ASSUME IInv, [Next]_vars, NEW q \in Request,
                    pc'[q] \in {"reply", "ok"}, IsControl(q)'
             PROVE  /\ Exists(call[q].doc)'
                    /\ store'[call'[q].doc].control[FieldOf(call'[q].op)] # Absent
  BY DEF WriteLanded, Exists
<1> USE DEF Exists
<1>0. TypeOK /\ CallFitsPC /\ StoreGrows /\ CallsStay /\ WriteLanded
      /\ PermittedAtWrite
  BY StepGrowsStore, StepKeepsCalls DEF IInv
<1>1. CASE pc[q] \in {"reply", "ok"}
  <2>1. call'[q] = call[q] /\ IsControl(q)
    BY <1>0, <1>1 DEF CallsStay, IsControl
  <2>2. call[q].doc \in Doc
    BY <1>0, <2>1, CallShape DEF IsControl, TypeOK, ControlOp
  <2>3. QED
    BY <1>0, <1>1, <2>1, <2>2, FieldOfIsControl DEF WriteLanded, StoreGrows, DocGrows
<1>2. CASE pc[q] \notin {"reply", "ok"}
  <2>1. UpdateDocument(q)
    <3>1. ~InsertDocument(q) /\ ~QueryActive(q)
      BY <1>0 DEF InsertDocument, QueryActive, Step, CallFitsPC, IsCreate, IsHome,
                  IsControl, ControlOp
    <3>2. ~ArriveHome(q)
      BY <1>0 DEF ArriveHome, Begin, IsControl, ControlOp, TypeOK
    <3>3. QED
      BY <1>2, <3>1, <3>2, Reaching
  <2>2. /\ pc[q] = "write" /\ call' = call
        /\ store' = [store EXCEPT ![call[q].doc] =
                       SetBreadcrumb(@, FieldOf(call[q].op), q)]
    BY <2>1 DEF UpdateDocument, Step
  <2>3. call[q].doc \in Doc /\ store[call[q].doc] \in Document
    BY <1>0, <2>2, CallShape
       DEF CallFitsPC, IsControl, ControlOp, TypeOK, PermittedAtWrite
  <2>4. store'[call[q].doc] = SetBreadcrumb(store[call[q].doc], FieldOf(call[q].op), q)
    BY <1>0, <2>2, <2>3 DEF TypeOK
  <2>5. QED
    BY <2>2, <2>3, <2>4, FieldOfIsControl, SetBreadcrumbShape
<1>3. QED
  BY <1>1, <1>2

(* What a home read relied on when it began outlives every step. *)
LEMMA BeforeHoldsStep == IInv /\ [Next]_vars => BeforeHolds'
<1> SUFFICES ASSUME IInv, [Next]_vars, NEW q \in Request
             PROVE  /\ \A d \in before'[q].stored : Exists(d)'
                    /\ \A d \in before'[q].retired : Retired(d)'
  BY DEF BeforeHolds
<1> USE DEF Exists, Retired
<1>0. TypeOK /\ StoreGrows /\ BeforeHolds /\ WriteLanded
  BY StepGrowsStore DEF IInv
<1>1. CASE before'[q] = before[q]
  <2>1. before[q].stored \subseteq Doc /\ before[q].retired \subseteq Doc
    BY <1>0 DEF TypeOK
  <2>2. QED
    BY <1>0, <1>1, <2>1 DEF BeforeHolds, StoreGrows, DocGrows
<1>2. CASE before'[q] # before[q]
  <2>1. ArriveHome(q)
    BY <1>0, <1>2, NextSplit
       DEF vars, Archive, ArriveCreate, ArriveControl, ArriveHome, InsertDocument,
           UpdateDocument, QueryActive, PcOnly, TypeOK
  <2>2. /\ before'[q] = [stored |-> {d \in Doc : Exists(d)}, retired |-> Acknowledged]
        /\ store' = store
    BY <1>0, <2>1 DEF ArriveHome, TypeOK
  <2>3. \A d \in Acknowledged : Retired(d)
    BY <1>0, FieldOfIsControl DEF Acknowledged, WriteLanded
  <2>4. QED
    BY <2>2, <2>3
<1>3. QED
  BY <1>1, <1>2

(* A permission granted at the read survives until the write, because the
   target of a stored document never changes. *)
LEMMA PermittedStep == IInv /\ [Next]_vars => PermittedAtWrite'
<1> SUFFICES ASSUME IInv, [Next]_vars, NEW q \in Request, pc'[q] = "write"
             PROVE  /\ store'[call'[q].doc] # Absent
                    /\ Permitted(store'[call'[q].doc], call'[q].by)
  BY DEF PermittedAtWrite, Exists, Permitted
<1>0. TypeOK /\ CallFitsPC /\ StoreGrows /\ CallsStay /\ PermittedAtWrite
  BY StepGrowsStore, StepKeepsCalls DEF IInv
<1>1. CASE pc[q] = "write"
  <2>1. call'[q] = call[q] /\ call[q].doc \in Doc
    BY <1>0, <1>1, CallShape
       DEF CallsStay, CallFitsPC, IsControl, ControlOp, TypeOK
  <2>2. Exists(call[q].doc) /\ Permitted(store[call[q].doc], call[q].by)
    BY <1>0, <1>1 DEF PermittedAtWrite
  <2>3. /\ store'[call[q].doc] # Absent
        /\ store'[call[q].doc].target = store[call[q].doc].target
    BY <1>0, <2>1, <2>2 DEF StoreGrows, DocGrows
  <2>4. QED
    BY <2>1, <2>2, <2>3, PermissionFollowsTarget
<1>2. CASE pc[q] # "write"
  <2>1. GetDocument(q)
    BY <1>2, Reaching
  <2>2. QED
    BY <1>0, <2>1 DEF GetDocument, Step, TypeOK
<1>3. QED
  BY <1>1, <1>2

(* The request that earned a breadcrumb, as a predicate of its own. *)
Earns(r, d, f) ==
  /\ store[d].control[f] = r
  /\ IsControl(r) /\ call[r].doc = d /\ FieldOf(call[r].op) = f
  /\ Permitted(store[d], call[r].by)
  /\ pc[r] \in {"reply", "ok", "error", "gone"}

(* A new breadcrumb is written by UpdateDocument alone, in a request that is
   permitted at that moment; an old one keeps the request that earned it. *)
LEMMA EarnedStep == IInv /\ [Next]_vars => BreadcrumbsEarned'
<1> SUFFICES ASSUME IInv, [Next]_vars, NEW d \in Doc, NEW f \in ControlField,
                    store'[d] # Absent, store'[d].control[f] # Absent
             PROVE  \E r \in Request : Earns(r, d, f)'
  BY DEF BreadcrumbsEarned, Earns, Exists
<1>0. TypeOK /\ CallFitsPC /\ StoreGrows /\ CallsStay /\ PermittedAtWrite
      /\ BreadcrumbsEarned
  BY StepGrowsStore, StepKeepsCalls DEF IInv
<1>1. ASSUME Exists(d), store'[d].control[f] = store[d].control[f]
      PROVE  \E r \in Request : Earns(r, d, f)'
  <2>1. PICK r \in Request : Earns(r, d, f)
    BY <1>0, <1>1 DEF BreadcrumbsEarned, Earns
  <2>2. call'[r] = call[r] /\ pc'[r] \in {"reply", "ok", "error", "gone"}
    BY <1>0, <2>1, Reaching DEF CallsStay, Earns
  <2>3. store'[d].target = store[d].target
    BY <1>0, <1>1 DEF StoreGrows, DocGrows
  <2>4. Permitted(store'[d], call'[r].by)
    BY <2>1, <2>2, <2>3, PermissionFollowsTarget DEF Earns
  <2>5. QED
    BY <1>1, <2>1, <2>2, <2>4 DEF Earns, IsControl, Permitted
<1>2. CASE UNCHANGED store
  BY <1>1, <1>2 DEF Exists
<1>3. ASSUME NEW e \in Doc, Archive(e) PROVE \E r \in Request : Earns(r, d, f)'
  <2>1. store[e] \in Document
    BY <1>0, <1>3 DEF Archive, Exists, TypeOK
  <2>2. Exists(d) /\ store'[d].control[f] = store[d].control[f]
    BY <1>0, <1>3, <2>1, ArchivedShape DEF Archive, Exists, TypeOK
  <2>3. QED
    BY <1>1, <2>2
<1>4. ASSUME NEW r \in Request, InsertDocument(r)
      PROVE  \E q \in Request : Earns(q, d, f)'
  <2>1. call[r] \in Call /\ call[r].op = "create"
    BY <1>0, <1>4 DEF InsertDocument, Step, CallFitsPC, IsCreate, TypeOK
  <2>2. \A g \in ControlField :
          NewDocument(StripManaged(call[r].payload), r).control[g] = Absent
    BY <2>1, CallShape, NewDocumentShape
  <2>3. call[r].doc # d /\ store'[d] = store[d]
    BY <1>0, <1>4, <2>2 DEF InsertDocument, TypeOK
  <2>4. QED
    BY <1>1, <2>3 DEF Exists
<1>5. ASSUME NEW r \in Request, UpdateDocument(r)
      PROVE  \E q \in Request : Earns(q, d, f)'
  <2>1. /\ pc[r] = "write" /\ pc'[r] = "reply" /\ call' = call
        /\ store' = [store EXCEPT ![call[r].doc] =
                       SetBreadcrumb(@, FieldOf(call[r].op), r)]
    BY <1>0, <1>5 DEF UpdateDocument, Step, TypeOK
  <2>2. /\ IsControl(r) /\ call[r].doc \in Doc /\ store[call[r].doc] \in Document
        /\ Permitted(store[call[r].doc], call[r].by)
    BY <1>0, <2>1, CallShape
       DEF CallFitsPC, IsControl, ControlOp, TypeOK, PermittedAtWrite, Exists
  <2>3. CASE call[r].doc = d
    <3>1. store'[d] = SetBreadcrumb(store[d], FieldOf(call[r].op), r)
      BY <1>0, <2>1, <2>2, <2>3 DEF TypeOK
    <3>2. CASE FieldOf(call[r].op) = f
      <4>1. store'[d].control[f] = r /\ store'[d].target = store[d].target
        BY <2>2, <2>3, <3>1, <3>2, SetBreadcrumbShape
      <4>2. Permitted(store'[d], call'[r].by)
        BY <2>1, <2>2, <2>3, <4>1, PermissionFollowsTarget
      <4>3. QED
        BY <2>1, <2>2, <2>3, <3>2, <4>1, <4>2 DEF Earns, IsControl, Permitted
    <3>3. CASE FieldOf(call[r].op) # f
      <4>1. Exists(d) /\ store'[d].control[f] = store[d].control[f]
        BY <2>2, <2>3, <3>1, <3>3, SetBreadcrumbShape, FieldOfIsControl DEF Exists
      <4>2. QED
        BY <1>1, <4>1
    <3>4. QED
      BY <3>2, <3>3
  <2>4. CASE call[r].doc # d
    <3>1. store'[d] = store[d]
      BY <1>0, <2>1, <2>4 DEF TypeOK
    <3>2. QED
      BY <1>1, <3>1 DEF Exists
  <2>5. QED
    BY <2>3, <2>4
<1>6. QED
  BY <1>2, <1>3, <1>4, <1>5, NextSplit
     DEF vars, PcOnly, ArriveCreate, ArriveControl, ArriveHome, QueryActive

(* When a home read has its page: at the query, from the store of that step. *)
LEMMA PageChanges ==
  ASSUME IInv, [Next]_vars, NEW q \in Request
  PROVE  \/ page'[q] = page[q] /\ before'[q] = before[q]
         \/ page'[q] = {} /\ page[q] = {} /\ ArriveHome(q)
         \/ QueryActive(q) /\ before'[q] = before[q]
<1>0. TypeOK /\ CallFitsPC
  BY DEF IInv
<1>1. ASSUME NEW r \in Request, QueryActive(r), q # r
      PROVE  page'[q] = page[q] /\ before'[q] = before[q]
  BY <1>0, <1>1 DEF QueryActive, TypeOK
<1>2. ASSUME NEW r \in Request, ArriveHome(r)
      PROVE  /\ q # r => page'[q] = page[q] /\ before'[q] = before[q]
             /\ q = r => page'[q] = {} /\ page[q] = {}
  BY <1>0, <1>2 DEF ArriveHome, Begin, Step, CallFitsPC, TypeOK
<1>3. QED
  BY <1>1, <1>2, NextSplit
     DEF vars, Archive, ArriveCreate, ArriveControl, InsertDocument, UpdateDocument,
         QueryActive, PcOnly

(* A page is read when the documents retired before it are retired still. *)
LEMMA HiddenStep == IInv /\ [Next]_vars => AckedRetirementHidden'
<1> SUFFICES ASSUME IInv, [Next]_vars, NEW q \in Request
             PROVE  page'[q] \cap before'[q].retired = {}
  BY DEF AckedRetirementHidden
<1>1. TypeOK /\ BeforeHolds /\ AckedRetirementHidden
  BY DEF IInv
<1>2. CASE QueryActive(q) /\ before'[q] = before[q]
  <2>1. page'[q] = {d \in Doc : Exists(d) /\ HomeMatch(store[d], call[q].by)}
    BY <1>1, <1>2 DEF QueryActive, TypeOK
  <2>2. \A d \in before[q].retired : Retired(d)
    BY <1>1 DEF BeforeHolds
  <2>3. QED
    BY <1>2, <2>1, <2>2 DEF HomeMatch, Active, Retired
<1>3. QED
  BY <1>1, <1>2, PageChanges DEF AckedRetirementHidden

(* A document that still matches the home section matched it all along. *)
LEMMA HomeMatchPersists ==
  ASSUME NEW d \in Doc, NEW token, Exists(d), DocGrows(d),
         HomeMatch(store'[d], token)
  PROVE  HomeMatch(store[d], token)
BY PermissionFollowsTarget DEF DocGrows, HomeMatch, Active, Visible, Targets

(* A document that matches after the step matched at the query, too, so
   the page already holds it. *)
LEMMA MissesNothingStep == IInv /\ [Next]_vars => HomeMissesNothing'
<1> SUFFICES ASSUME IInv, [Next]_vars, NEW q \in Request,
                    IsHome(q)', pc'[q] \in {"reply", "ok"},
                    call'[q].by.claim["profile_id"] # Absent,
                    NEW d \in before'[q].stored,
                    HomeMatch(store'[d], call'[q].by)
             PROVE  d \in page'[q]
  BY DEF HomeMissesNothing, HomeMatch, Visible, Targets, Active
<1>0. TypeOK /\ CallFitsPC /\ StoreGrows /\ CallsStay /\ HomeMissesNothing
      /\ BeforeHolds
  BY StepGrowsStore, StepKeepsCalls DEF IInv
<1>1. before'[q].stored \subseteq Doc
  BY TypeStep DEF TypeOK
<1>2. CASE QueryActive(q)
  <2>1. /\ store' = store /\ call' = call /\ before' = before
        /\ page'[q] = {e \in Doc : Exists(e) /\ HomeMatch(store[e], call[q].by)}
    BY <1>0, <1>2 DEF QueryActive, TypeOK
  <2>2. QED
    BY <1>0, <1>1, <2>1 DEF BeforeHolds
<1>3. CASE ~QueryActive(q)
  <2>1. ~ArriveHome(q)
    <3> SUFFICES ASSUME ArriveHome(q) PROVE FALSE
      OBVIOUS
    <3>1. PICK t \in Token :
            Begin(q, [op |-> "home", by |-> t],
                  IF t.claim["profile_id"] = Absent THEN "reply" ELSE "query")
      BY DEF ArriveHome
    <3>2. call'[q].by = t
      BY <1>0, <3>1 DEF Begin, TypeOK
    <3>3. pc'[q] = "query"
      BY <1>0, <3>1, <3>2 DEF Begin, Step, TypeOK
    <3>4. QED
      BY <3>3
  <2>2. page'[q] = page[q] /\ before'[q] = before[q]
    BY <1>3, <2>1, PageChanges
  <2>3. pc[q] \in {"reply", "ok"}
    <3>1. ~InsertDocument(q) /\ ~UpdateDocument(q)
      BY <1>0 DEF InsertDocument, UpdateDocument, Step, CallFitsPC, IsCreate,
                  IsHome, IsControl, ControlOp
    <3>2. QED
      BY <1>3, <2>1, <3>1, Reaching
  <2>4. call'[q] = call[q]
    BY <1>0, <2>3 DEF CallsStay
  <2>5. Exists(d) /\ HomeMatch(store[d], call[q].by)
    BY <1>0, <1>1, <2>2, <2>4, HomeMatchPersists DEF BeforeHolds, StoreGrows
  <2>6. QED
    BY <1>0, <2>2, <2>3, <2>4, <2>5 DEF HomeMissesNothing, IsHome
<1>4. QED
  BY <1>2, <1>3

(* Every step preserves the invariant. *)
LEMMA StepIInv == IInv /\ [Next]_vars => IInv'
BY TypeStep, CallFitsStep, InsertFreshStep, WriteLandedStep, BeforeHoldsStep,
   PermittedStep, EarnedStep, HiddenStep, MissesNothingStep DEF IInv

-----------------------------------------------------------------------------
(* The theorems *)

(* The inductive invariant holds in every behaviour of NotificationControl. *)
THEOREM Invariance == Spec => []IInv
BY InitIInv, StepIInv, PTL DEF Spec

(* TypeOK: whatever clients put into a create body, stored documents are    *)
(* well-formed and their breadcrumbs come from requests.                    *)
THEOREM TypeCorrect == Spec => []TypeOK
<1>1. IInv => TypeOK
  BY DEF IInv
<1>2. QED
  BY Invariance, <1>1, PTL

(* BreadcrumbsEarned: every breadcrumb was written by a matching request of *)
(* a caller whom the document permits (_set_control_breadcrumb).            *)
THEOREM Provenance == Spec => []BreadcrumbsEarned
<1>1. IInv => BreadcrumbsEarned
  BY DEF IInv
<1>2. QED
  BY Invariance, <1>1, PTL

(* PermittedAtWrite: the permission checked on the read of a control        *)
(* request still holds when its update runs, whatever happened in between.  *)
THEOREM CheckThenActIsSafe == Spec => []PermittedAtWrite
<1>1. IInv => PermittedAtWrite
  BY DEF IInv
<1>2. QED
  BY Invariance, <1>1, PTL

(* AckedControlSticks: no overlapping dismiss, cancel, retry or archival    *)
(* loses a control write that was answered with 200.                        *)
THEOREM NoLostControl == Spec => []AckedControlSticks
<1>1. IInv => AckedControlSticks
  BY DEF IInv, WriteLanded, AckedControlSticks
<1>2. QED
  BY Invariance, <1>1, PTL

(* AckedRetirementHidden: a home read that begins after a dismissal was     *)
(* answered does not show the notification, on whichever replica.           *)
THEOREM HomeReadIsFresh == Spec => []AckedRetirementHidden
<1>1. IInv => AckedRetirementHidden
  BY DEF IInv
<1>2. QED
  BY Invariance, <1>1, PTL

(* HomeMissesNothing: a notification that is there throughout the home read *)
(* is in it.                                                                *)
THEOREM HomeReadIsComplete == Spec => []HomeMissesNothing
<1>1. IInv => HomeMissesNothing
  BY DEF IInv
<1>2. QED
  BY Invariance, <1>1, PTL

(* RetirementIsFinal: a retirement is never undone and a target never moves. *)
THEOREM Finality == Spec => RetirementIsFinal
<1>1. IInv /\ [Next]_vars =>
        [\A d \in Doc : Exists(d) =>
           /\ store'[d] # Absent
           /\ store'[d].target = store[d].target
           /\ store'[d].global = store[d].global
           /\ \A f \in ControlField :
                store[d].control[f] # Absent => store'[d].control[f] # Absent]_vars
  BY StepGrowsStore DEF StoreGrows, DocGrows
<1>2. QED
  BY Invariance, <1>1, PTL DEF Spec, RetirementIsFinal

-----------------------------------------------------------------------------
(* Refusals, when every token spells its claims the way str(ObjectId) does *)

CanonicalClaims ==
  \A t \in Token, f \in TargetField :
    t.claim[f] # Absent => t.claim[f].spelling = "lower"

(* With canonical claims, seeing a targeted notification and being allowed  *)
(* to retire it are the same thing.                                         *)
LEMMA CanonicalPermission ==
  ASSUME CanonicalClaims, NEW doc \in Document, NEW t \in Token
  PROVE  Targets(doc, t) => Permitted(doc, t)
<1> SUFFICES ASSUME NEW f \in TargetField, t.claim[f] # Absent,
                    doc.target[f] = Encode(t.claim[f])
             PROVE  Permitted(doc, t)
  BY DEF Targets
<1>1. t.claim[f] \in IdText /\ t.claim[f].spelling = "lower"
  BY DEF CanonicalClaims, TokenSpace, Claim
<1>2. doc.target[f] \in Id /\ Str(doc.target[f]) = t.claim[f]
  BY <1>1 DEF Encode, IdText, Str
<1>3. QED
  BY <1>2 DEF Permitted

(* ForbiddenOnlyForGlobal, for canonical claims: a 403 is only ever given   *)
(* for a globally scoped notification that does not name the caller.        *)
THEOREM RefusalOnlyForGlobal ==
  ASSUME CanonicalClaims
  PROVE  Spec => []ForbiddenOnlyForGlobal
<1>1. Init => ForbiddenOnlyForGlobal
  BY DEF Init, ForbiddenOnlyForGlobal
<1>2. IInv /\ ForbiddenOnlyForGlobal /\ [Next]_vars => ForbiddenOnlyForGlobal'
  <2> SUFFICES ASSUME IInv, ForbiddenOnlyForGlobal, [Next]_vars,
                      NEW q \in Request, pc'[q] = "forbidden"
               PROVE  /\ store'[call'[q].doc] # Absent
                      /\ store'[call'[q].doc].global
                      /\ ~Targets(store'[call'[q].doc], call'[q].by)
    BY DEF ForbiddenOnlyForGlobal, Exists, Targets
  <2>0. TypeOK /\ CallFitsPC /\ StoreGrows /\ CallsStay
    BY StepGrowsStore, StepKeepsCalls DEF IInv
  <2>1. CASE pc[q] = "forbidden"
    <3>1. call'[q] = call[q] /\ call[q].doc \in Doc
      BY <2>0, <2>1, CallShape
         DEF CallsStay, CallFitsPC, IsControl, ControlOp, TypeOK
    <3>2. /\ store'[call[q].doc] # Absent
          /\ store'[call[q].doc].target = store[call[q].doc].target
          /\ store'[call[q].doc].global = store[call[q].doc].global
      BY <2>0, <2>1, <3>1 DEF ForbiddenOnlyForGlobal, StoreGrows, DocGrows
    <3>3. store[call[q].doc].global /\ ~Targets(store[call[q].doc], call[q].by)
      BY <2>1 DEF ForbiddenOnlyForGlobal
    <3>4. QED
      BY <3>1, <3>2, <3>3, PermissionFollowsTarget
  <2>2. CASE pc[q] # "forbidden"
    <3>1. GetDocument(q)
      BY <2>2, Reaching
    <3>2. /\ UNCHANGED <<store, call>> /\ pc[q] = "read"
          /\ store[call[q].doc] # Absent
          /\ Visible(store[call[q].doc], call[q].by)
          /\ ~Permitted(store[call[q].doc], call[q].by)
      BY <2>0, <3>1 DEF GetDocument, Step, TypeOK
    <3>3. call[q].by \in Token /\ store[call[q].doc] \in Document
      BY <2>0, <3>2, CallShape
         DEF CallFitsPC, IsControl, ControlOp, TypeOK, Call
    <3>4. QED
      BY <3>2, <3>3, CanonicalPermission DEF Visible, Permitted
  <2>3. QED
    BY <2>1, <2>2
<1>3. QED
  BY Invariance, <1>1, <1>2, PTL DEF Spec

-----------------------------------------------------------------------------
(* The notification API implements the board *)

USE AbsentIsNoId, AbsentIsNoText, TokenAssumption, PayloadAssumption,
    AbsentAssumption

-----------------------------------------------------------------------------
(* How the mapped variables follow the code's *)

(* An entry of the board has the shape the board expects and is no blank. *)
LEMMA EntryShape ==
  ASSUME NEW doc
  PROVE  EntryOf(doc) \in Board!Entry
BY DEF EntryOf, Board!Entry

(* A request that moves changes its phase accordingly, and no other's. *)
LEMMA PhaseMoves ==
  ASSUME TypeOK, NEW r \in Request, NEW from, NEW to \in PC, Step(r, from, to)
  PROVE  Board!Move(r, PhaseOf(from), PhaseOf(to))
BY DEF TypeOK, phaseNow, Step, Board!Move

(* The program points. *)
LEMMA Points ==
  PC = {"new", "gone", "insert", "read", "write", "query", "reply",
        "ok", "badRequest", "forbidden", "notFound", "error"}
BY DEF PC, Working, Answered

(* The phase of each program point. *)
LEMMA Phases ==
  /\ PhaseOf("new") = "idle"
  /\ PhaseOf("insert") = "pending" /\ PhaseOf("read") = "pending"
  /\ PhaseOf("write") = "pending" /\ PhaseOf("query") = "pending"
  /\ PhaseOf("reply") = "taken"
  /\ PhaseOf("ok") = "done"
  /\ PhaseOf("badRequest") = "refused" /\ PhaseOf("forbidden") = "refused"
  /\ PhaseOf("notFound") = "refused"
  /\ PhaseOf("error") = "lost" /\ PhaseOf("gone") = "lost"
BY DEF PhaseOf

(* What a call wishes, by its operation. *)
LEMMA Wishes ==
  ASSUME NEW c \in Call
  PROVE  /\ WishOf(c) \in Board!Wish
         /\ c.op = "create" => WishOf(c) = [op |-> "post", by |-> c.by, notice |-> c.doc]
         /\ c.op = "home" => WishOf(c) = [op |-> "read", by |-> c.by]
         /\ c.op \in ControlOp =>
              WishOf(c) = [op |-> "mark", by |-> c.by, notice |-> c.doc,
                           mark |-> FieldOf(c.op)]
<1>1. c # Absent /\ c.op \in {"create", "home"} \cup ControlOp /\ ControlOp = {"dismiss", "cancel"}
  BY CallShape DEF ControlOp
<1>2. c.by \in Token /\ (c.op # "home" => c.doc \in Doc)
  BY DEF Call
<1>3. c.op = "create" => WishOf(c) = [op |-> "post", by |-> c.by, notice |-> c.doc]
  BY <1>1 DEF WishOf
<1>4. c.op = "home" => WishOf(c) = [op |-> "read", by |-> c.by]
  BY <1>1 DEF WishOf
<1>5. c.op \in ControlOp =>
        WishOf(c) = [op |-> "mark", by |-> c.by, notice |-> c.doc, mark |-> FieldOf(c.op)]
  BY <1>1 DEF WishOf
<1>6. WishOf(c) \in Board!Wish
  BY <1>1, <1>2, <1>3, <1>4, <1>5, FieldOfIsControl DEF Board!Wish
<1>7. QED
  BY <1>3, <1>4, <1>5, <1>6

(* Writing one document changes one entry. *)
LEMMA BoardChanges ==
  ASSUME TypeOK, NEW d \in Doc, NEW doc \in Document, store' = [store EXCEPT ![d] = doc]
  PROVE  /\ boardNow' = [boardNow EXCEPT ![d] = EntryOf(doc)]
         /\ boardNow'[d] = EntryOf(doc)
BY DEF TypeOK, boardNow

(* A notice hangs on the board when its document is stored. *)
LEMMA PostedIsStored ==
  ASSUME NEW d \in Doc
  PROVE  /\ Board!Posted(d) <=> Exists(d)
         /\ Exists(d) => boardNow[d] = EntryOf(store[d])
<1>1. EntryOf(store[d]) # Absent
  BY EntryShape, NoneAssumption
<1>2. QED
  BY <1>1 DEF Board!Posted, Exists, boardNow
-----------------------------------------------------------------------------
(* The initial states, and each action *)

(* The initial collection is a board of which nothing was asked yet. *)
LEMMA InitMaps == Init => Board!Init
<1> SUFFICES ASSUME Init PROVE Board!Init
  OBVIOUS
<1>1. boardNow \in [Doc -> Board!Entry \cup {Absent}]
  BY EntryShape DEF boardNow
<1>2. phaseNow = [r \in Request |-> "idle"]
  BY Phases DEF Init, phaseNow
<1>3. wishNow = [r \in Request |-> Absent]
  BY DEF Init, wishNow, WishOf
<1>4. QED
  BY <1>1, <1>2, <1>3 DEF Init, Board!Init

(* An arrival puts a wish, and leaves the other wishes alone. *)
LEMMA WishPut ==
  ASSUME TypeOK, NEW r \in Request, NEW c \in Call, call' = [call EXCEPT ![r] = c]
  PROVE  wishNow' = [wishNow EXCEPT ![r] = WishOf(c)]
BY DEF TypeOK, wishNow

(* The wish of a request about to take effect is the one of its call. *)
LEMMA WishKept ==
  ASSUME IInv, NEW r \in Request
  PROVE  /\ pc[r] = "insert" => /\ wishNow[r].op = "post"
                                /\ wishNow[r].notice = call[r].doc
         /\ pc[r] \in {"read", "write"} => /\ wishNow[r].op = "mark"
                                           /\ wishNow[r].notice = call[r].doc
                                           /\ wishNow[r].by = call[r].by
                                           /\ wishNow[r].mark = FieldOf(call[r].op)
         /\ pc[r] = "query" => wishNow[r].op = "read" /\ wishNow[r].by = call[r].by
<1>1. /\ pc[r] = "insert" => call[r] \in Call /\ call[r].op = "create"
      /\ pc[r] \in {"read", "write"} => call[r] \in Call /\ call[r].op \in ControlOp
      /\ pc[r] = "query" => call[r] \in Call /\ call[r].op = "home"
  BY DEF IInv, TypeOK, CallFitsPC, IsCreate, IsControl, IsHome
<1>2. wishNow[r] = WishOf(call[r])
  BY DEF wishNow
<1>3. CASE pc[r] = "insert"
  <2>1. wishNow[r] = [op |-> "post", by |-> call[r].by, notice |-> call[r].doc]
    BY <1>1, <1>2, <1>3, Wishes
  <2>2. QED
    BY <1>3, <2>1
<1>4. CASE pc[r] \in {"read", "write"}
  <2>1. wishNow[r] = [op |-> "mark", by |-> call[r].by, notice |-> call[r].doc,
                      mark |-> FieldOf(call[r].op)]
    BY <1>1, <1>2, <1>4, Wishes
  <2>2. QED
    BY <1>4, <2>1
<1>5. CASE pc[r] = "query"
  <2>1. wishNow[r] = [op |-> "read", by |-> call[r].by]
    BY <1>1, <1>2, <1>5, Wishes
  <2>2. QED
    BY <1>5, <2>1
<1>6. QED
  BY <1>3, <1>4, <1>5

(* An arrival asks, or is turned away before any MongoIO call. *)
LEMMA ArrivalMaps ==
  ASSUME IInv, NEW r \in Request, Arrive(r)
  PROVE  Board!Ask(r) \/ Board!AskForNothing(r) \/ Board!TurnAway(r)
<1>1. TypeOK /\ pc \in [Request -> PC]
  BY DEF IInv, TypeOK
<1>2. ASSUME NEW c \in Call, NEW to \in {"insert", "read", "query"}, Begin(r, c, to),
             UNCHANGED <<store, page>>
      PROVE  Board!Ask(r)
  <2>1. Board!Move(r, "idle", "pending")
    <3>1. to \in PC /\ PhaseOf(to) = "pending"
      BY Phases, Points
    <3>2. Step(r, "new", to)
      BY <1>2 DEF Begin
    <3>3. QED
      BY <1>1, <3>1, <3>2, PhaseMoves, Phases
  <2>2. WishOf(c) \in Board!Wish /\ wishNow' = [wishNow EXCEPT ![r] = WishOf(c)]
    BY <1>1, <1>2, WishPut, Wishes DEF Begin
  <2>3. UNCHANGED <<boardNow, page>>
    BY <1>2 DEF boardNow
  <2>4. QED
    BY <2>1, <2>2, <2>3 DEF Board!Ask
<1>3. CASE ArriveCreate(r)
  <2>1. PICK t \in Token, p \in Payload, d \in Doc :
          Begin(r, [op |-> "create", by |-> t, doc |-> d, payload |-> p], "insert")
    BY <1>3 DEF ArriveCreate
  <2>2. [op |-> "create", by |-> t, doc |-> d, payload |-> p] \in Call
    BY DEF Call
  <2>3. QED
    BY <1>2, <1>3, <2>1, <2>2 DEF ArriveCreate
<1>4. CASE ArriveMalformed(r)
  <2>1. Board!Move(r, "idle", "refused")
    <3>1. Step(r, "new", "badRequest") /\ "badRequest" \in PC
      BY <1>4, Points DEF ArriveMalformed
    <3>2. QED
      BY <1>1, <3>1, PhaseMoves, Phases
  <2>2. UNCHANGED <<boardNow, wishNow, page>>
    BY <1>4 DEF ArriveMalformed, boardNow, wishNow
  <2>3. QED
    BY <2>1, <2>2 DEF Board!TurnAway
<1>5. CASE ArriveControl(r)
  <2>1. PICK t \in Token, d \in Doc, op \in ControlOp :
          Begin(r, [op |-> op, by |-> t, doc |-> d], "read")
    BY <1>5 DEF ArriveControl
  <2>2. [op |-> op, by |-> t, doc |-> d] \in Call
    BY DEF Call
  <2>3. QED
    BY <1>2, <1>5, <2>1, <2>2 DEF ArriveControl
<1>6. CASE ArriveHome(r)
  <2>1. PICK t \in Token :
          Begin(r, [op |-> "home", by |-> t],
                IF t.claim["profile_id"] = Absent THEN "reply" ELSE "query")
    BY <1>6 DEF ArriveHome
  <2>2. [op |-> "home", by |-> t] \in Call
    BY DEF Call
  <2>3. CASE t.claim["profile_id"] # Absent
    BY <1>2, <1>6, <2>1, <2>2, <2>3 DEF ArriveHome
  <2>4. CASE t.claim["profile_id"] = Absent
    <3>1. Board!Move(r, "idle", "taken")
      <4>1. Step(r, "new", "reply") /\ "reply" \in PC
        BY <2>1, <2>4, Points DEF Begin
      <4>2. QED
        BY <1>1, <4>1, PhaseMoves, Phases
    <3>2. WishOf([op |-> "home", by |-> t]) = [op |-> "read", by |-> t]
      BY <2>2, Wishes
    <3>3. [op |-> "read", by |-> t] \in Board!Wish
      BY DEF Board!Wish
    <3>4. wishNow' = [wishNow EXCEPT ![r] = [op |-> "read", by |-> t]]
      BY <1>1, <2>1, <2>2, <3>2, WishPut DEF Begin
    <3>5. Board!Shown(t) = {}
      <4>1. \A d \in Doc : t \notin EntryOf(store[d]).addressees
        BY <2>4 DEF EntryOf, Addressed
      <4>2. QED
        BY <4>1, PostedIsStored DEF Board!Shown
    <3>6. UNCHANGED <<boardNow, page>>
      BY <1>6 DEF ArriveHome, boardNow
    <3>7. QED
      BY <3>1, <3>3, <3>4, <3>5, <3>6 DEF Board!AskForNothing
  <2>5. QED
    BY <2>3, <2>4
<1>7. QED
  BY <1>3, <1>4, <1>5, <1>6 DEF Arrive


-----------------------------------------------------------------------------
(* The steps of the handlers *)

(* A step that touches only pc is a step of the phases. *)
LEMMA PcStep ==
  ASSUME TypeOK, NEW r \in Request, NEW from, NEW to \in PC, Step(r, from, to),
         UNCHANGED <<store, call, page>>
  PROVE  Board!Move(r, PhaseOf(from), PhaseOf(to)) /\ UNCHANGED <<boardNow, wishNow, page>>
BY PhaseMoves DEF boardNow, wishNow

(* The insert posts an unmarked notice: the id was fresh when minted. *)
LEMMA InsertMaps ==
  ASSUME IInv, NEW r \in Request, InsertDocument(r)
  PROVE  Board!Post(r)
<1> DEFINE d == call[r].doc
           new == NewDocument(StripManaged(call[r].payload), r)
<1>1. /\ TypeOK /\ pc[r] = "insert" /\ call[r] \in Call /\ call[r].op = "create"
      /\ ~Exists(d)
  BY DEF IInv, TypeOK, CallFitsPC, InsertIsFresh, IsCreate, InsertDocument, Step
<1>2. /\ d \in Doc /\ call[r].payload \in PayloadSpace
      /\ wishNow[r].op = "post" /\ wishNow[r].notice = d
  BY <1>1, CallShape, WishKept
<1>3. new \in Document /\ \A f \in ControlField : new.control[f] = Absent
  BY <1>2, NewDocumentShape
<1>4. boardNow' = [boardNow EXCEPT ![d] = EntryOf(new)] /\ boardNow'[d] = EntryOf(new)
  <2>1. store' = [store EXCEPT ![d] = new]
    BY DEF InsertDocument
  <2>2. QED
    BY <1>1, <1>2, <1>3, <2>1, BoardChanges
<1>5. EntryOf(new).marks = {}
  BY <1>3 DEF EntryOf
<1>6. Board!Move(r, "pending", "taken")
  BY <1>1, Points, Phases, PhaseMoves DEF InsertDocument
<1>7. UNCHANGED <<wishNow, page>>
  BY DEF InsertDocument, wishNow
<1>8. ~Board!Posted(d)
  BY <1>1, <1>2, PostedIsStored
<1>9. EntryOf(new) \in Board!Entry
  BY EntryShape
<1> HIDE DEF d, new
<1>10. QED
  BY <1>2, <1>4, <1>5, <1>6, <1>7, <1>8, <1>9 DEF Board!Post

(* The update marks a notice its caller keeps, long after the check. *)
LEMMA UpdateMaps ==
  ASSUME IInv, NEW r \in Request, UpdateDocument(r)
  PROVE  Board!PutMark(r)
<1> DEFINE d == call[r].doc
           f == FieldOf(call[r].op)
           new == SetBreadcrumb(store[d], f, r)
<1>1. /\ TypeOK /\ pc[r] = "write" /\ call[r] \in Call /\ call[r].op \in ControlOp
      /\ Exists(d) /\ Permitted(store[d], call[r].by)
  BY DEF IInv, TypeOK, CallFitsPC, PermittedAtWrite, IsControl, UpdateDocument, Step
<1>2. /\ d \in Doc /\ f \in ControlField /\ call[r].by \in Token
      /\ wishNow[r].op = "mark" /\ wishNow[r].notice = d
      /\ wishNow[r].by = call[r].by /\ wishNow[r].mark = f
  <2>1. d \in Doc /\ f \in ControlField
    BY <1>1, CallShape, FieldOfIsControl DEF ControlOp
  <2>2. call[r].by \in Token
    BY <1>1 DEF Call
  <2>3. QED
    BY <1>1, <2>1, <2>2, WishKept
<1>3. store[d] \in Document
  BY <1>1, <1>2 DEF TypeOK, Exists
<1>4. /\ new \in Document /\ new.target = store[d].target /\ new.global = store[d].global
      /\ new.status = store[d].status /\ new.control[f] = r
      /\ \A g \in ControlField : g # f => new.control[g] = store[d].control[g]
  BY <1>2, <1>3, SetBreadcrumbShape
<1>5. boardNow' = [boardNow EXCEPT ![d] = EntryOf(new)]
  <2>1. store' = [store EXCEPT ![d] = new]
    BY DEF UpdateDocument
  <2>2. QED
    BY <1>1, <1>2, <1>4, <2>1, BoardChanges
<1>6. Board!Posted(d) /\ boardNow[d] = EntryOf(store[d])
  BY <1>1, <1>2, PostedIsStored
<1>7. EntryOf(new) = [EntryOf(store[d]) EXCEPT !.marks = @ \cup {f}]
  <2>1. EntryOf(new).marks = EntryOf(store[d]).marks \cup {f}
    BY <1>2, <1>4 DEF EntryOf
  <2>2. /\ EntryOf(new).viewers = EntryOf(store[d]).viewers
        /\ EntryOf(new).keepers = EntryOf(store[d]).keepers
        /\ EntryOf(new).addressees = EntryOf(store[d]).addressees
    BY <1>4, PermissionFollowsTarget DEF EntryOf, Visible, Addressed
  <2>3. QED
    BY <2>1, <2>2 DEF EntryOf
<1>8. call[r].by \in boardNow[d].keepers
  BY <1>1, <1>2, <1>6 DEF EntryOf
<1>9. Board!Move(r, "pending", "taken")
  BY <1>1, Points, Phases, PhaseMoves DEF UpdateDocument
<1>10. UNCHANGED <<wishNow, page>>
  BY DEF UpdateDocument, wishNow
<1> HIDE DEF d, f, new
<1>11. boardNow' = [boardNow EXCEPT ![d].marks = @ \cup {f}]
  BY <1>5, <1>6, <1>7
<1>12. QED
  BY <1>2, <1>6, <1>8, <1>9, <1>10, <1>11 DEF Board!PutMark

(* The home query sees exactly the board of one moment. *)
LEMMA QueryMaps ==
  ASSUME IInv, NEW r \in Request, QueryActive(r)
  PROVE  Board!Read(r)
<1> DEFINE t == call[r].by
<1>1. /\ TypeOK /\ pc[r] = "query" /\ call[r] \in Call
      /\ t.claim["profile_id"] # Absent
  BY DEF IInv, TypeOK, CallFitsPC, IsHome, QueryActive, Step
<1>2. t \in Token /\ wishNow[r].op = "read" /\ wishNow[r].by = t
  BY <1>1, WishKept DEF Call
<1>3. \A d \in Doc :
        Exists(d) => (HomeMatch(store[d], t) <=>
                        /\ EntryOf(store[d]).marks = {}
                        /\ t \in EntryOf(store[d]).viewers
                        /\ t \in EntryOf(store[d]).addressees)
  BY <1>1, <1>2 DEF HomeMatch, Active, EntryOf, Addressed
<1>4. Board!Shown(t) = {d \in Doc : Exists(d) /\ HomeMatch(store[d], t)}
  <2>1. \A d \in Doc :
          (/\ Board!Posted(d) /\ boardNow[d].marks = {}
           /\ t \in boardNow[d].viewers \cap boardNow[d].addressees)
          <=> Exists(d) /\ HomeMatch(store[d], t)
    BY <1>3, PostedIsStored
  <2>2. QED
    BY <2>1 DEF Board!Shown
<1>5. page' = [page EXCEPT ![r] = Board!Shown(wishNow[r].by)]
  BY <1>2, <1>4 DEF QueryActive
<1>6. Board!Move(r, "pending", "taken")
  BY <1>1, Points, Phases, PhaseMoves DEF QueryActive
<1>7. UNCHANGED <<boardNow, wishNow>>
  BY DEF QueryActive, boardNow, wishNow
<1>8. QED
  BY <1>2, <1>5, <1>6, <1>7 DEF Board!Read


(* The read before an update refuses; on success nothing shows yet. *)
LEMMA GetMaps ==
  ASSUME IInv, NEW r \in Request, GetDocument(r)
  PROVE  Board!Refuse(r) \/ UNCHANGED Board!bvars
<1> DEFINE d == call[r].doc
           t == call[r].by
<1>1. /\ TypeOK /\ pc[r] = "read" /\ UNCHANGED <<store, call, page>>
      /\ call[r] \in Call /\ call[r].op \in ControlOp
  BY DEF IInv, TypeOK, CallFitsPC, IsControl, GetDocument
<1>2. /\ d \in Doc /\ t \in Token
      /\ wishNow[r].op = "mark" /\ wishNow[r].notice = d /\ wishNow[r].by = t
  <2>1. d \in Doc
    BY <1>1, CallShape DEF ControlOp
  <2>2. t \in Token
    BY <1>1 DEF Call
  <2>3. QED
    BY <1>1, <2>1, <2>2, WishKept
<1>3. ASSUME NEW to \in {"notFound", "forbidden"}, Step(r, "read", to),
             Exists(d) => ~Visible(store[d], t) \/ ~Permitted(store[d], t)
      PROVE  Board!Refuse(r)
  <2>1. Board!Move(r, "pending", "refused") /\ UNCHANGED <<boardNow, wishNow, page>>
    <3>1. to \in PC /\ PhaseOf(to) = "refused" /\ PhaseOf("read") = "pending"
      BY Points, Phases
    <3>2. QED
      BY <1>1, <1>3, <3>1, PcStep
  <2>2. Board!Posted(d) => t \notin boardNow[d].viewers \cap boardNow[d].keepers
    <3>1. Exists(d) => t \notin EntryOf(store[d]).viewers \cap EntryOf(store[d]).keepers
      BY <1>2, <1>3 DEF EntryOf
    <3>2. QED
      BY <1>2, <3>1, PostedIsStored
  <2>3. QED
    BY <1>2, <2>1, <2>2 DEF Board!Refuse
<1>4. ASSUME Step(r, "read", "write")
      PROVE  UNCHANGED Board!bvars
  <2>1. phaseNow' = phaseNow
    BY <1>1, <1>4, Phases DEF TypeOK, phaseNow, Step
  <2>2. QED
    BY <1>1, <2>1 DEF boardNow, wishNow, Board!bvars
<1>5. QED
  BY <1>3, <1>4 DEF GetDocument, Exists

(* The answer follows the effect. *)
LEMMA RespondMaps ==
  ASSUME IInv, NEW r \in Request, Respond(r)
  PROVE  Board!Answer(r)
<1>1. Board!Move(r, "taken", "done") /\ UNCHANGED <<boardNow, wishNow, page>>
  BY Points, Phases, PcStep DEF IInv, Respond
<1>2. QED
  BY <1>1 DEF Board!Answer

(* A lost answer may leave the effect behind, or not. *)
LEMMA LossMaps ==
  ASSUME IInv, NEW r \in Request, MongoFails(r) \/ WorkerDies(r)
  PROVE  Board!Lose(r)
<1>1. PICK to \in {"error", "gone"} : Step(r, pc[r], to)
  BY DEF MongoFails, WorkerDies, Step
<1>2. pc[r] \in Working /\ UNCHANGED <<store, call, page>>
  BY DEF MongoFails, WorkerDies
<1>3. /\ Board!Move(r, PhaseOf(pc[r]), "lost") /\ UNCHANGED <<boardNow, wishNow, page>>
  <2>1. to \in PC /\ PhaseOf(to) = "lost"
    BY Points, Phases
  <2>2. QED
    BY <1>1, <1>2, <2>1, PcStep DEF IInv
<1>4. phaseNow[r] \in {"pending", "taken"}
  BY <1>2, Phases DEF phaseNow, Working
<1>5. QED
  BY <1>3, <1>4 DEF Board!Lose, Board!Move

(* Archiving hides a notice from all but admins and changes no mark. *)
LEMMA ArchiveMaps ==
  ASSUME IInv, NEW d \in Doc, Archive(d)
  PROVE  Board!Hide(d)
<1> DEFINE new == [store[d] EXCEPT !.status = "archived"]
<1>1. TypeOK /\ Exists(d) /\ store[d] \in Document
  BY DEF IInv, TypeOK, Archive, Exists
<1>2. /\ new \in Document /\ new.target = store[d].target /\ new.global = store[d].global
      /\ new.status = "archived" /\ new.control = store[d].control
  BY <1>1, ArchivedShape
<1>3. store' = [store EXCEPT ![d] = new]
  BY DEF Archive
<1>4. boardNow' = [boardNow EXCEPT ![d] = EntryOf(new)]
  BY <1>1, <1>2, <1>3, BoardChanges
<1>5. Board!Posted(d) /\ boardNow[d] = EntryOf(store[d])
  BY <1>1, PostedIsStored
<1> DEFINE v == {t \in Token : Visible(new, t)}
<1>6. v \in SUBSET EntryOf(store[d]).viewers
  BY <1>2, PermissionFollowsTarget DEF EntryOf, Visible
<1>7. EntryOf(new) = [EntryOf(store[d]) EXCEPT !.viewers = v]
  <2>1. EntryOf(new).viewers = v /\ EntryOf(new).marks = EntryOf(store[d]).marks
    BY <1>2 DEF EntryOf
  <2>2. /\ EntryOf(new).keepers = EntryOf(store[d]).keepers
        /\ EntryOf(new).addressees = EntryOf(store[d]).addressees
    BY <1>2, PermissionFollowsTarget DEF EntryOf, Addressed
  <2>3. QED
    BY <2>1, <2>2 DEF EntryOf
<1>8. UNCHANGED <<phaseNow, wishNow, page>>
  BY DEF Archive, phaseNow, wishNow
<1> HIDE DEF new, v
<1>9. boardNow' = [boardNow EXCEPT ![d].viewers = v] /\ v \in SUBSET boardNow[d].viewers
  BY <1>4, <1>5, <1>6, <1>7
<1>10. QED
  BY <1>5, <1>8, <1>9 DEF Board!Hide

-----------------------------------------------------------------------------
(* Linearizability of dismiss, cancel, create and the home read, for any    *)
(* number of documents, concurrent requests and tokens: every behaviour of  *)
(* NotificationControl is a behaviour of the board under the mapping of     *)
(* NotificationRefinement (the run control_live shows it for two requests). *)
THEOREM Linearizable == Spec => BoardSpec
<1>1. IInv /\ [Next]_vars => [Board!Next]_Board!bvars
  <2> SUFFICES ASSUME IInv, [Next]_vars
               PROVE  Board!Next \/ UNCHANGED Board!bvars
    OBVIOUS
  <2>1. CASE UNCHANGED vars \/ Quiescent
    BY <2>1 DEF Quiescent, vars, Board!bvars, boardNow, phaseNow, wishNow
  <2>2. ASSUME NEW d \in Doc, Archive(d)
        PROVE  Board!Next
    BY <2>2, ArchiveMaps DEF Board!Next
  <2>3. ASSUME NEW r \in Request, Arrive(r)
        PROVE  Board!Next
    BY <2>3, ArrivalMaps DEF Board!Next
  <2>4. ASSUME NEW r \in Request, Serve(r)
        PROVE  Board!Next \/ UNCHANGED Board!bvars
    BY <2>4, InsertMaps, GetMaps, UpdateMaps, QueryMaps, RespondMaps
       DEF Serve, Board!Next
  <2>5. ASSUME NEW r \in Request, MongoFails(r) \/ WorkerDies(r)
        PROVE  Board!Next
    BY <2>5, LossMaps DEF Board!Next
  <2>6. QED
    BY <2>1, <2>2, <2>3, <2>4, <2>5 DEF Next
<1>2. QED
  BY <1>1, InitMaps, Invariance, PTL DEF Spec, BoardSpec, Board!Spec
=============================================================================
