------------------------ MODULE NotificationRefinement ------------------------
(***************************************************************************)
(* The control requests implement the board.  The read of a document       *)
(* before its update, and the answer after it, are invisible there: the    *)
(* effect of a request is the one MongoIO call that inserts, updates or    *)
(* queries.                                                                *)
(***************************************************************************)
EXTENDS NotificationControl

(* The caller whose profile the notification targets. *)
Addressed(doc, token) ==
  /\ token.claim["profile_id"] # Absent
  /\ doc.target["profile_id"] = Encode(token.claim["profile_id"])

EntryOf(doc) ==
  [marks      |-> {f \in ControlField : doc.control[f] # Absent},
   viewers    |-> {t \in Token : Visible(doc, t)},
   addressees |-> {t \in Token : Addressed(doc, t)},
   keepers    |-> {t \in Token : Permitted(doc, t)}]

PhaseOf(at) ==
  CASE at = "new" -> "idle"
    [] at \in {"insert", "read", "write", "query"} -> "pending"
    [] at = "reply" -> "taken"
    [] at = "ok" -> "done"
    [] at \in {"badRequest", "forbidden", "notFound"} -> "refused"
    [] at \in {"error", "gone"} -> "lost"

WishOf(c) ==
  CASE c = Absent -> Absent
    [] c # Absent /\ c.op = "create" -> [op |-> "post", by |-> c.by, notice |-> c.doc]
    [] c # Absent /\ c.op = "home" -> [op |-> "read", by |-> c.by]
    [] c # Absent /\ c.op \in ControlOp ->
         [op |-> "mark", by |-> c.by, notice |-> c.doc, mark |-> FieldOf(c.op)]

boardNow == [d \in Doc |-> IF store[d] = Absent THEN Absent ELSE EntryOf(store[d])]
phaseNow == [r \in Request |-> PhaseOf(pc[r])]
wishNow  == [r \in Request |-> WishOf(call[r])]

Board == INSTANCE NotificationBoard WITH
           Notice <- Doc, Caller <- Token, Mark <- ControlField, None <- Absent,
           board <- boardNow, phase <- phaseNow, wish <- wishNow, seen <- page

ASSUME NoneAssumption == Absent \notin Board!Entry

(* Linearizability of the notification API, and its promise to callers.     *)
(* However requests, archivals, failing MongoIO calls and dying workers     *)
(* interleave, each request acts as one atomic step of the board between    *)
(* its arrival and its answer: a 200 means the effect happened exactly as   *)
(* if alone, a refusal means none did, and only a caller who may not retire *)
(* the notification or cannot see it is refused (notification_routes.py     *)
(* handlers, _set_control_breadcrumb, get_active_notifications).            *)
BoardSpec == Board!Spec
=============================================================================
