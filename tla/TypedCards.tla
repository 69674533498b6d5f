----------------------------- MODULE TypedCards -----------------------------
(***************************************************************************)
(* One request to a typed card list, /api/cards/{events, notifications,    *)
(* paths, plans, resources}, while other domain APIs write.  A list is one *)
(* MongoIO call; events need a second one, for the display names of the    *)
(* profiles they are about, and profiles may be renamed in between.        *)
(*                                                                         *)
(* The size of a page is no smaller than Doc, so a query is a set; the     *)
(* filters of the lists other than notifications belong to the shared      *)
(* factories and are left out.                                             *)
(***************************************************************************)
EXTENDS Naturals, CardProjection

CONSTANTS
  Doc,         \* ids of the listed documents
  Profile,     \* ids of Profile documents
  Malformed,   \* text in the place of a profile id that is no ObjectId
  Caller,      \* the callers that may ask
  MaxWrites,   \* bound: writes of other domain APIs
  Docs0,       \* every document, stored already or yet to be stored
  Stored0,     \* the documents stored at first
  Names0       \* the display names at first

TypedList == {"events", "notifications", "paths", "plans", "resources"}
Status    == {"active", "archived"}
FilterKey == {"name", "status"}

(* A reference in an event is an ObjectId, or text in a document of old. *)
StoredRef == Reference \cup IdText \cup {Malformed}

Document == [list : TypedList, field : [SourceField -> Text \cup {Absent}],
             status : Status, global : BOOLEAN, at : Text \cup {Absent},
             context : StoredRef, top : StoredRef]

CallerSpace == [roles : SUBSET {"admin", "mentor", "mentee"}, profile : Claim]

(* A query parameter is not sent, sent blank, or sent with a value. *)
Filters == [name : {"unsent", "blank"} \cup Text, status : {"unsent", "blank"} \cup Status]

Unfiltered == [name |-> "unsent", status |-> "unsent"]

LinkSpace ==
  [place : {"mentor", "mentee", "discovery"} \X {"resource", "path", "plan", "notification"},
   id : IdText]

(* The body of an event card: up to three lines. *)
Lines == UNION {[1..n -> Text] : n \in 1..3}

Query == [list : TypedList, by : Caller, filters : Filters, about : Reference]

ASSUME TypedAssumption ==
  /\ Doc \subseteq Id /\ Profile \subseteq Id
  /\ Caller \subseteq CallerSpace
  /\ Docs0 \in [Doc -> Document] /\ Stored0 \subseteq Doc
  /\ Names0 \in [Profile -> Text \cup {Absent}]
  /\ MaxWrites \in Nat
  /\ Absent \notin Text \cup Query \cup LinkSpace \cup Lines
  /\ {"unsent", "blank"} \cap Text = {}
  /\ Malformed \notin Id \cup IdText \cup {Absent}

VARIABLES
  docs, stored,   \* the collections: documents, and which of them exist
  names,          \* Profile.display_name
  writes,         \* number of writes so far
  pc, ask,        \* the request
  found,          \* the documents its list query returned, as they were
  cards,          \* the cards it answers with
  span            \* history: what the request could have seen since it began

store == <<docs, stored, names, writes>>
vars  == <<store, pc, ask, found, cards, span>>

-----------------------------------------------------------------------------
(* Queries *)

IsAdmin(by) == "admin" \in by.roles

(* Outbound RBAC of the shared services. *)
Outbound(doc, by) ==
  \/ IsAdmin(by)
  \/ /\ doc.status # "archived"
     /\ \/ doc.global
        \/ by.profile # Absent /\ Encode(by.profile) \in {doc.context, doc.top}

(* parse_filter_params skips a blank parameter. *)
Parsed(filters) == {k \in FilterKey : filters[k] \notin {"unsent", "blank"}}

(* get_notification_cards puts back a key that was sent and skipped. *)
Sent(filters) == Parsed(filters) \cup {k \in FilterKey \ Parsed(filters) : filters[k] # "unsent"}

(* _admin_filter_requested: the key is there, even with an empty value. *)
AdminFilterRequested(filters) == Sent(filters) # {}

(* Mutant of Applicable: blank values become clauses. *)
ApplicableAsSent(filters, by) == IF IsAdmin(by) THEN Sent(filters) ELSE {}

(* _applicable_card_filters, for an admin only; blank values are dropped. *)
Applicable(filters, by) ==
  IF IsAdmin(by) THEN {k \in Sent(filters) : filters[k] # "blank"} ELSE {}

(* build_match_filter; matching a text is taken as equality. *)
Satisfies(doc, key, value) ==
  value = IF key = "name" THEN doc.field["name"] ELSE doc.status

(* What the list query of a request returns now. *)
Result(q) ==
  {d \in stored :
     /\ docs[d].list = q.list
     /\ Outbound(docs[d], q.by)
     /\ q.about # Absent => q.about \in {docs[d].context, docs[d].top}
     /\ \A k \in Applicable(q.filters, q.by) : Satisfies(docs[d], k, q.filters[k])}

-----------------------------------------------------------------------------
(* Display names of events *)

(* Mutant of EventProfile: the older field is preferred. *)
EventProfileTopFirst(doc) == IF doc.top # Absent THEN doc.top ELSE doc.context

(* _event_profile_id: live context.profile_id, else the legacy field. *)
EventProfile(doc) == IF doc.context # Absent THEN doc.context ELSE doc.top

(* str(profile_id) *)
Key(ref) == IF ref \in Id THEN Str(ref) ELSE ref

EventProfiles(copies) ==
  {EventProfile(copies[d]) : d \in DOMAIN copies} \ {Absent}

(* display_names_for_ids: the ids it asks for.  What is no ObjectId is       *)
(* skipped.                                                                 *)
UniqueIds(refs) == {Encode(Key(ref)) : ref \in refs \ {Malformed}}

(* One query; the answer is keyed by str(_id). *)
DisplayNames(ids) ==
  LET known == {p \in Profile \cap ids : names[p] # Absent}
  IN [key \in {Str(p) : p \in known} |-> names[key.id]]

(* _enrich_events: names.get(str(profile_id)), else no name. *)
Enriched(doc, display) ==
  LET ref  == EventProfile(doc)
      name == IF ref # Absent /\ Key(ref) \in DOMAIN display THEN display[Key(ref)] ELSE Absent
      body == EventDescription(doc.field["type"], name, doc.at)
  IN IF body = Absent THEN doc.field
     ELSE [doc.field EXCEPT !["description"] = body]

NoNames == [key \in {} |-> Absent]

(* project_all *)
CardsOf(q, copies, display) ==
  {Project(q.list, d,
           IF q.list = "events" THEN Enriched(copies[d], display) ELSE copies[d].field,
           q.by.roles) : d \in DOMAIN copies}

-----------------------------------------------------------------------------
(* The request *)

(* Filters on notifications are for admins, blank ones too. *)
Refused(q) ==
  q.list = "notifications" /\ ~IsAdmin(q.by) /\ q.filters # Unfiltered

(* What the contract promises of a document, filters included: a blank      *)
(* filter is as good as none, and no status hides from an admin.            *)
Wanted(doc, q) ==
  /\ doc.list = q.list /\ Outbound(doc, q.by)
  /\ q.about # Absent => q.about \in {doc.context, doc.top}
  /\ q.filters.name \in Text => doc.field["name"] = q.filters.name
  /\ q.filters.status \in Status => doc.status = q.filters.status

WantedNow(q) == {d \in stored : Wanted(docs[d], q)}

(* The list the contract promises now; none to a caller it refuses. *)
Promised(q) == IF Refused(q) THEN {} ELSE {WantedNow(q)}

(* The service refuses filters of non-admins before any list query. *)
Ask ==
  /\ pc = "idle"
  /\ \E q \in Query :
       /\ q.list # "notifications" => q.filters = Unfiltered
       /\ q.list # "events" => q.about = Absent
       /\ ask' = q
       /\ pc' = IF q.list = "notifications" /\ AdminFilterRequested(q.filters)
                     /\ ~IsAdmin(q.by)
                THEN "forbidden" ELSE "list"
       /\ span' = [lists |-> Promised(q), called |-> [p \in Profile |-> {names[p]}]]
  /\ UNCHANGED <<store, found, cards>>

Answer(q, copies, display) == pc' = "answered" /\ cards' = CardsOf(q, copies, display)

(* The shared list query; without an id to ask for there is no second one. *)
ReadList ==
  /\ pc = "list"
  /\ found' = [d \in Result(ask) |-> docs[d]]
  /\ IF ask.list = "events" /\ UniqueIds(EventProfiles(found')) # {}
     THEN pc' = "names" /\ UNCHANGED cards
     ELSE Answer(ask, found', NoNames)
  /\ UNCHANGED <<store, ask, span>>

ReadNames ==
  /\ pc = "names"
  /\ Answer(ask, found, DisplayNames(UniqueIds(EventProfiles(found))))
  /\ UNCHANGED <<store, ask, found, span>>

(* A MongoIO call raises: a 500, and no cards. *)
MongoFails ==
  /\ pc \in {"list", "names"} /\ pc' = "failed"
  /\ UNCHANGED <<store, ask, found, cards, span>>

-----------------------------------------------------------------------------
(* The other domain APIs *)

Write ==
  /\ writes < MaxWrites /\ writes' = writes + 1
  /\ UNCHANGED <<pc, ask, found, cards>>
  /\ span' = IF ask = Absent THEN span
             ELSE [lists  |-> span.lists \cup Promised(ask)',
                   called |-> [p \in Profile |-> span.called[p] \cup {names'[p]}]]

Store(d) ==
  /\ d \notin stored /\ stored' = stored \cup {d}
  /\ UNCHANGED <<docs, names>>
  /\ Write

Archive(d) ==
  /\ d \in stored /\ docs[d].status = "active"
  /\ docs' = [docs EXCEPT ![d].status = "archived"]
  /\ UNCHANGED <<stored, names>>
  /\ Write

Rename(p) ==
  /\ \E t \in (Text \cup {Absent}) \ {names[p]} : names' = [names EXCEPT ![p] = t]
  /\ UNCHANGED <<docs, stored>>
  /\ Write

Done == pc \in {"answered", "forbidden", "failed"} /\ UNCHANGED vars

Init ==
  /\ docs = Docs0 /\ stored = Stored0 /\ names = Names0 /\ writes = 0
  /\ pc = "idle" /\ ask = Absent
  /\ found = [d \in {} |-> Absent] /\ cards = {}
  /\ span = [lists |-> {}, called |-> [p \in Profile |-> {Names0[p]}]]

Next ==
  \/ Ask \/ ReadList \/ ReadNames \/ MongoFails \/ Done
  \/ \E d \in Doc : Store(d) \/ Archive(d)
  \/ \E p \in Profile : Rename(p)

Spec == Init /\ [][Next]_vars

-----------------------------------------------------------------------------
(* Properties *)

CardSpace ==
  [id : Doc, name : Text \cup {Absent}, description : Text \cup Lines \cup {Absent},
   type : {CardType[l] : l \in TypedList},
   link : LinkSpace \cup {Absent}]

(* Shapes.  A card has the five properties of the Card schema; an optional  *)
(* one is left out rather than empty.                                       *)
TypeOK ==
  /\ docs \in [Doc -> Document] /\ stored \subseteq Doc
  /\ names \in [Profile -> Text \cup {Absent}] /\ writes \in 0..MaxWrites
  /\ pc \in {"idle", "list", "names", "answered", "forbidden", "failed"}
  /\ ask \in Query \cup {Absent}
  /\ DOMAIN found \subseteq Doc /\ \A d \in DOMAIN found : found[d] \in Document
  /\ cards \subseteq CardSpace
  /\ span \in [lists : SUBSET SUBSET Doc, called : [Profile -> SUBSET (Text \cup {Absent})]]

(* The list is the list of one moment.  The cards stand for exactly the     *)
(* documents the contract promised at some instant of the request, none     *)
(* more and none less, although for events a second query and writes come   *)
(* between the list and the answer, and whatever filters were sent blank.   *)
(* To a caller without the admin role who sent a filter on notifications,   *)
(* even a blank one, nothing was promised: answering him breaks this.       *)
ListIsOfOneMoment == pc = "answered" => {c.id : c \in cards} \in span.lists

(* The profile id that a reference stands for, in whatever form. *)
Denotes(ref) ==
  IF ref \in Id THEN ref ELSE IF ref \in IdText THEN ref.id ELSE Absent

(* An event card names the profile the event is about ("the Profile         *)
(* display_name for context.profile_id", or for the field of old), by a     *)
(* name that profile had while the request ran: neither another profile's   *)
(* name, nor the caller's, nor one kept from earlier; none only for a       *)
(* profile that had none or that there is not.                              *)
NamesAreOwn ==
  pc = "answered" /\ ask.list = "events" =>
    \A c \in cards :
      LET doc     == found[c.id]
          profile == Denotes(IF doc.context # Absent THEN doc.context ELSE doc.top)
          options == IF profile \in Profile THEN span.called[profile] ELSE {Absent}
      IN \E name \in options :
           LET body == Given(doc.field["type"]) \o Given(name) \o Given(doc.at)
           IN c.description = IF body = <<>> THEN doc.field["description"] ELSE body

(* The link table of the API contract, by the document a card stands for:   *)
(* type, application, page and id.  Resources and paths lead to the         *)
(* reader's own application, plans to the mentor's whoever reads them,      *)
(* notifications to Discovery, and events nowhere.                          *)
LinksFollowContract ==
  \A c \in cards :
    LET reader        == IF "mentor" \in ask.by.roles THEN "mentor" ELSE "mentee"
        to(app, page) == [place |-> <<app, page>>, id |-> Str(c.id)]
    IN <<c.type, c.link>> =
         CASE found[c.id].list = "events"        -> <<"Event", Absent>>
           [] found[c.id].list = "notifications" ->
                <<"Notification", to("discovery", "notification")>>
           [] found[c.id].list = "resources"     -> <<"Resource", to(reader, "resource")>>
           [] found[c.id].list = "paths"         -> <<"Path", to(reader, "path")>>
           [] found[c.id].list = "plans"         -> <<"Plan", to("mentor", "plan")>>
=============================================================================
