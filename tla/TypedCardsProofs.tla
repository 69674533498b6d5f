-------------------------- MODULE TypedCardsProofs --------------------------
(***************************************************************************)
(* Theorems about TypedCards, for any documents, callers, queries, names   *)
(* and number of writes: an answered list is the list of one moment, every *)
(* card links where the contract says, and, if references are spelled the  *)
(* canonical way, an event card names the profile the event is about.      *)
(***************************************************************************)
EXTENDS TypedCards, SequenceTheorems, TLAPS

(* The request and what its state means. *)
Phases ==
  /\ pc \in {"idle", "list", "names", "answered", "forbidden", "failed"}
  /\ ask \in Query \cup {Absent}
  /\ ask = Absent <=> pc = "idle"
  /\ stored \subseteq Doc
  /\ DOMAIN found \subseteq Doc
  /\ pc \in {"idle", "list", "forbidden"} => DOMAIN found = {}
  /\ pc # "answered" => cards = {}

(* The span holds what the list query will find, and then what it found. *)
Seen ==
  /\ pc = "list" => WantedNow(ask) \in span.lists
  /\ pc = "names" => DOMAIN found \in span.lists

(* A request that goes on to the list query was not to be refused. *)
Admitted ==
  pc \in {"list", "names"} =>
    ~Refused(ask) /\ (Sent(ask.filters) = {} \/ IsAdmin(ask.by))

(* What a card takes from the document found for it. *)
Linked(c) ==
  /\ c.id \in DOMAIN found /\ c.type = CardType[ask.list]
  /\ c.link = Link(ask.list, c.id, ask.by.roles)

IInv ==
  /\ Phases /\ Seen /\ Admitted /\ ListIsOfOneMoment
  /\ \A d \in DOMAIN found : found[d].list = ask.list
  /\ \A c \in cards : Linked(c)

-----------------------------------------------------------------------------
LEMMA SentKeys ==
  ASSUME NEW f \in Filters
  PROVE  /\ Sent(f) = {k \in FilterKey : f[k] # "unsent"}
         /\ Sent(f) = {} => f = Unfiltered
<1>1. Sent(f) = {k \in FilterKey : f[k] # "unsent"}
  BY DEF Sent, Parsed
<1>2. Sent(f) = {} => f = Unfiltered
  BY <1>1 DEF FilterKey, Filters, Unfiltered
<1>3. QED
  BY <1>1, <1>2

(* A query that was not refused finds what the contract promises: a blank   *)
(* filter of an admin is dropped, anybody else sent none.                   *)
LEMMA ResultIsWanted ==
  ASSUME NEW q \in Query, Sent(q.filters) = {} \/ IsAdmin(q.by)
  PROVE  Result(q) = WantedNow(q)
<1> DEFINE f == q.filters
           Apply(d) == \A k \in Applicable(f, q.by) : Satisfies(docs[d], k, f[k])
           Promise(d) == /\ f.name \in Text => docs[d].field["name"] = f.name
                         /\ f.status \in Status => docs[d].status = f.status
<1>1. f \in Filters
  BY DEF Query
<1>2. /\ f.name \in {"unsent", "blank"} \cup Text /\ f["name"] = f.name
      /\ f.status \in {"unsent", "blank"} \cup Status /\ f["status"] = f.status
  BY <1>1 DEF Filters
<1>3. {"unsent", "blank"} \cap Text = {} /\ {"unsent", "blank"} \cap Status = {}
  BY TypedAssumption DEF Status
<1> HIDE DEF f
<1>4. /\ "name" \in Applicable(f, q.by) <=> f.name \in Text
      /\ "status" \in Applicable(f, q.by) <=> f.status \in Status
      /\ Applicable(f, q.by) \subseteq {"name", "status"}
  <2>0. Sent(f) = {k \in FilterKey : f[k] # "unsent"}
    BY <1>1, SentKeys
  <2>1. CASE Sent(f) = {}
    BY <1>2, <1>3, <2>0, <2>1 DEF Applicable, FilterKey
  <2>2. CASE IsAdmin(q.by)
    BY <1>2, <1>3, <2>0, <2>2 DEF Applicable, FilterKey
  <2>3. QED
    BY <2>1, <2>2 DEF f
<1>5. ASSUME NEW d
      PROVE  Apply(d) <=> Promise(d)
  <2>1. Satisfies(docs[d], "name", f.name) <=> f.name = docs[d].field["name"]
    BY DEF Satisfies
  <2>2. Satisfies(docs[d], "status", f.status) <=> f.status = docs[d].status
    BY DEF Satisfies
  <2>3. Apply(d) <=> /\ f.name \in Text => Satisfies(docs[d], "name", f.name)
                     /\ f.status \in Status => Satisfies(docs[d], "status", f.status)
    BY <1>2, <1>4
  <2>4. QED
    BY <2>1, <2>2, <2>3
<1>6. Result(q) = {d \in stored :
         /\ docs[d].list = q.list /\ Outbound(docs[d], q.by)
         /\ q.about # Absent => q.about \in {docs[d].context, docs[d].top}
         /\ Apply(d)}
  BY DEF Result, f
<1>7. WantedNow(q) = {d \in stored :
         /\ docs[d].list = q.list /\ Outbound(docs[d], q.by)
         /\ q.about # Absent => q.about \in {docs[d].context, docs[d].top}
         /\ Promise(d)}
  BY DEF WantedNow, Wanted, f
<1>8. QED
  BY <1>5, <1>6, <1>7

(* There is a card for every document found, and it links as projected. *)
LEMMA CardsShape ==
  ASSUME NEW q, NEW copies, NEW display
  PROVE  {c.id : c \in CardsOf(q, copies, display)} = DOMAIN copies
<1> DEFINE field(d) == IF q.list = "events" THEN Enriched(copies[d], display) ELSE copies[d].field
           card(d) == Project(q.list, d, field(d), q.by.roles)
<1>1. \A d : card(d).id = d
  BY DEF Project
<1>2. CardsOf(q, copies, display) = {card(d) : d \in DOMAIN copies}
  BY DEF CardsOf
<1> HIDE DEF card
<1>3. QED
  BY <1>1, <1>2

LEMMA CardIsLinked ==
  ASSUME NEW q, NEW copies, NEW display, NEW c \in CardsOf(q, copies, display)
  PROVE  /\ c.id \in DOMAIN copies /\ c.type = CardType[q.list]
         /\ c.link = Link(q.list, c.id, q.by.roles)
<1> DEFINE field(d) == IF q.list = "events" THEN Enriched(copies[d], display) ELSE copies[d].field
           card(d) == Project(q.list, d, field(d), q.by.roles)
<1>1. PICK d \in DOMAIN copies : c = card(d)
  BY DEF CardsOf
<1>2. QED
  BY <1>1 DEF Project

-----------------------------------------------------------------------------
LEMMA InitIInv == Init => IInv
<1> SUFFICES ASSUME Init PROVE IInv
  OBVIOUS
<1>1. /\ pc = "idle" /\ ask = Absent /\ cards = {} /\ DOMAIN found = {} /\ stored \subseteq Doc
  BY TypedAssumption DEF Init
<1>2. QED
  BY <1>1 DEF IInv, Phases, Seen, Admitted, ListIsOfOneMoment

LEMMA AskKeeps ==
  ASSUME IInv, Ask
  PROVE  IInv'
<1>1. PICK q \in Query :
        /\ ask' = q
        /\ pc' = IF q.list = "notifications" /\ AdminFilterRequested(q.filters) /\ ~IsAdmin(q.by)
                 THEN "forbidden" ELSE "list"
        /\ span' = [lists |-> Promised(q), called |-> [p \in Profile |-> {names[p]}]]
        /\ q.list # "notifications" => q.filters = Unfiltered
  BY DEF Ask
<1>2. UNCHANGED <<store, found, cards>> /\ pc = "idle" /\ cards = {} /\ DOMAIN found = {}
  BY DEF Ask, IInv, Phases
<1>3. q # Absent
  BY TypedAssumption
<1>4. Phases'
  BY <1>1, <1>2, <1>3 DEF IInv, Phases, store
<1>5. q.filters \in Filters
  BY DEF Query
<1>6. q.list # "notifications" => Sent(q.filters) = {}
  BY <1>1, <1>5, SentKeys DEF Unfiltered, FilterKey
<1>7. Admitted'
  <2>1. pc' = "list" => Sent(q.filters) = {} \/ IsAdmin(q.by)
    BY <1>1, <1>6 DEF AdminFilterRequested
  <2>2. pc' = "list" => ~Refused(q)
    BY <1>5, <2>1, SentKeys DEF Refused
  <2>3. QED
    BY <1>1, <2>1, <2>2 DEF Admitted
<1>8. Seen'
  <2>1. pc' = "list" => WantedNow(q) \in span'.lists
    BY <1>1, <1>7 DEF Admitted, Promised
  <2>2. WantedNow(q)' = WantedNow(q)
    BY <1>2 DEF WantedNow, store
  <2>3. QED
    BY <1>1, <2>1, <2>2 DEF Seen
<1>9. QED
  BY <1>1, <1>2, <1>4, <1>7, <1>8 DEF IInv, ListIsOfOneMoment

(* The answer stands for the documents the list query found. *)
LEMMA AnswerKeeps ==
  ASSUME IInv, pc \in {"list", "names"}, NEW copies, NEW display, Answer(ask, copies, display),
         found' = copies, DOMAIN copies \subseteq Doc, DOMAIN copies \in span.lists,
         \A d \in DOMAIN copies : copies[d].list = ask.list,
         UNCHANGED <<store, ask, span>>
  PROVE  IInv'
<1>1. pc' = "answered" /\ cards' = CardsOf(ask, copies, display)
  BY DEF Answer
<1>2. /\ {c.id : c \in cards'} = DOMAIN copies
      /\ \A c \in cards' : /\ c.id \in DOMAIN copies /\ c.type = CardType[ask.list]
                           /\ c.link = Link(ask.list, c.id, ask.by.roles)
  <2>1. PICK q : q = ask
    OBVIOUS
  <2>2. cards' = CardsOf(q, copies, display)
    BY <1>1, <2>1
  <2>3. {c.id : c \in CardsOf(q, copies, display)} = DOMAIN copies
    BY CardsShape
  <2>4. \A c \in CardsOf(q, copies, display) :
             /\ c.id \in DOMAIN copies /\ c.type = CardType[q.list]
             /\ c.link = Link(q.list, c.id, q.by.roles)
    BY CardIsLinked
  <2>5. QED
    BY <2>1, <2>2, <2>3, <2>4
<1>3. Phases' /\ Seen'
  BY <1>1 DEF IInv, Phases, Seen, store
<1>4. Admitted'
  BY <1>1 DEF Admitted
<1>5. ListIsOfOneMoment'
  BY <1>2 DEF ListIsOfOneMoment
<1>6. QED
  BY <1>2, <1>3, <1>4, <1>5 DEF IInv, Linked

LEMMA ReadListKeeps ==
  ASSUME IInv, ReadList
  PROVE  IInv'
<1>1. /\ pc = "list" /\ found' = [d \in Result(ask) |-> docs[d]]
      /\ UNCHANGED <<store, ask, span>>
  BY DEF ReadList
<1>2. ask \in Query /\ (Sent(ask.filters) = {} \/ IsAdmin(ask.by)) /\ stored \subseteq Doc
  BY <1>1 DEF IInv, Phases, Admitted
<1>3. /\ DOMAIN found' \subseteq Doc /\ DOMAIN found' \in span.lists
      /\ \A d \in DOMAIN found' : found'[d].list = ask.list
  BY <1>1, <1>2, ResultIsWanted DEF IInv, Seen, WantedNow, Wanted
<1>4. CASE pc' = "names" /\ UNCHANGED cards
  <2>1. cards' = {}
    BY <1>1, <1>4 DEF IInv, Phases
  <2>2. Phases' /\ Seen' /\ Admitted' /\ ListIsOfOneMoment'
    BY <1>1, <1>3, <1>4, <2>1 DEF IInv, Phases, Seen, Admitted, ListIsOfOneMoment, store
  <2>3. QED
    BY <1>1, <1>3, <2>1, <2>2 DEF IInv
<1>5. CASE Answer(ask, found', NoNames)
  <2>1. PICK copies : copies = found'
    OBVIOUS
  <2>2. Answer(ask, copies, NoNames)
    BY <1>5, <2>1
  <2>3. QED
    BY <1>1, <1>3, <2>1, <2>2, AnswerKeeps
<1>6. QED
  BY <1>4, <1>5 DEF ReadList

LEMMA ReadNamesKeeps ==
  ASSUME IInv, ReadNames
  PROVE  IInv'
<1>1. /\ pc = "names" /\ UNCHANGED <<store, ask, found, span>>
      /\ Answer(ask, found, DisplayNames(UniqueIds(EventProfiles(found))))
  BY DEF ReadNames
<1>2. /\ DOMAIN found \subseteq Doc /\ DOMAIN found \in span.lists
      /\ \A d \in DOMAIN found : found[d].list = ask.list
  BY <1>1 DEF IInv, Phases, Seen
<1>3. QED
  BY <1>1, <1>2, AnswerKeeps

LEMMA WriteKeeps ==
  ASSUME IInv, Write, stored' \subseteq Doc
  PROVE  IInv'
<1>1. /\ UNCHANGED <<pc, ask, found, cards>>
      /\ span' = IF ask = Absent THEN span
                 ELSE [lists  |-> span.lists \cup Promised(ask)',
                       called |-> [p \in Profile |-> span.called[p] \cup {names'[p]}]]
  BY DEF Write
<1>2. span.lists \subseteq span'.lists /\ (ask # Absent => Promised(ask)' \subseteq span'.lists)
  BY <1>1
<1>3. Phases' /\ Admitted' /\ ListIsOfOneMoment'
  BY <1>1, <1>2 DEF IInv, Phases, Admitted, ListIsOfOneMoment
<1>4. Seen'
  <2>1. pc = "list" => Promised(ask)' = {WantedNow(ask)'} /\ ask # Absent
    BY <1>1 DEF IInv, Phases, Admitted, Promised
  <2>2. QED
    BY <1>1, <1>2, <2>1 DEF IInv, Seen
<1>5. QED
  BY <1>1, <1>3, <1>4 DEF IInv, Linked

LEMMA StepIInv == IInv /\ [Next]_vars => IInv'
<1> SUFFICES ASSUME IInv, [Next]_vars PROVE IInv'
  OBVIOUS
<1>1. CASE Ask
  BY <1>1, AskKeeps
<1>2. CASE ReadList
  BY <1>2, ReadListKeeps
<1>3. CASE ReadNames
  BY <1>3, ReadNamesKeeps
<1>4. CASE MongoFails
  BY <1>4 DEF MongoFails, IInv, Phases, Seen, Admitted, ListIsOfOneMoment, Linked, store
<1>5. CASE \E d \in Doc : Store(d) \/ Archive(d)
  <2>1. stored' \subseteq Doc /\ Write
    BY <1>5 DEF Store, Archive, IInv, Phases
  <2>2. QED
    BY <2>1, WriteKeeps
<1>6. CASE \E p \in Profile : Rename(p)
  <2>1. stored' \subseteq Doc /\ Write
    BY <1>6 DEF Rename, IInv, Phases
  <2>2. QED
    BY <2>1, WriteKeeps
<1>7. CASE Done \/ UNCHANGED vars
  <2>1. UNCHANGED <<store, pc, ask, found, cards, span>>
    BY <1>7 DEF Done, vars
  <2>2. Seen'
    BY <2>1 DEF IInv, Seen, WantedNow, store
  <2>3. QED
    BY <2>1, <2>2 DEF IInv, Phases, Admitted, ListIsOfOneMoment, Linked, store
<1>8. QED
  BY <1>1, <1>2, <1>3, <1>4, <1>5, <1>6, <1>7 DEF Next

THEOREM ListInvariance == Spec => []IInv
BY InitIInv, StepIInv, PTL DEF Spec

(* The documents on an answered list are those the contract promised at one *)
(* instant of the request (get_cards of the five services): the name query  *)
(* of an event list and the writes around it neither add nor drop a card.   *)
THEOREM OneMoment == Spec => []ListIsOfOneMoment
<1>1. IInv => ListIsOfOneMoment
  BY DEF IInv
<1>2. QED
  BY <1>1, ListInvariance, PTL

(* Every card has the type and the link that the contract gives for the     *)
(* document it stands for: its application, its page and its id (project).  *)
THEOREM LinksAreRight == Spec => []LinksFollowContract
<1>1. ASSUME IInv
      PROVE  LinksFollowContract
  <2> SUFFICES ASSUME NEW c \in cards
               PROVE  LET reader        == IF "mentor" \in ask.by.roles THEN "mentor" ELSE "mentee"
                          to(app, page) == [place |-> <<app, page>>, id |-> Str(c.id)]
                      IN <<c.type, c.link>> =
                           CASE found[c.id].list = "events" -> <<"Event", Absent>>
                             [] found[c.id].list = "notifications" ->
                                  <<"Notification", to("discovery", "notification")>>
                             [] found[c.id].list = "resources" ->
                                  <<"Resource", to(reader, "resource")>>
                             [] found[c.id].list = "paths" -> <<"Path", to(reader, "path")>>
                             [] found[c.id].list = "plans" -> <<"Plan", to("mentor", "plan")>>
    BY DEF LinksFollowContract
  <2>1. /\ c.type = CardType[ask.list] /\ c.link = Link(ask.list, c.id, ask.by.roles)
        /\ found[c.id].list = ask.list /\ ask.list \in TypedList
    <3>1. Linked(c) /\ c.id \in DOMAIN found /\ found[c.id].list = ask.list
      BY <1>1 DEF IInv, Linked
    <3>2. ask \in Query
      BY <1>1 DEF IInv, Phases
    <3>3. QED
      BY <3>1, <3>2 DEF Linked, Query
  <2>2. CASE ask.list = "events"
    BY <2>1, <2>2 DEF Link, CardType
  <2>3. CASE ask.list = "notifications"
    BY <2>1, <2>3 DEF Link, Place, CardType
  <2>4. CASE ask.list = "resources"
    BY <2>1, <2>4 DEF Link, Place, CardType
  <2>5. CASE ask.list = "paths"
    BY <2>1, <2>5 DEF Link, Place, CardType
  <2>6. CASE ask.list = "plans"
    BY <2>1, <2>6 DEF Link, Place, CardType
  <2>7. QED
    BY <2>1, <2>2, <2>3, <2>4, <2>5, <2>6 DEF TypedList
<1>2. QED
  BY <1>1, ListInvariance, PTL

-----------------------------------------------------------------------------
(* Shapes, and the names on event cards *)

(* While a query is still to come, what it will find has been recorded. *)
Recorded ==
  pc \in {"list", "names"} => \A p \in Profile : names[p] \in span.called[p]

(* Nobody changes what an event refers to. *)
ReferencesStay ==
  /\ \A d \in Doc : docs[d].context = Docs0[d].context /\ docs[d].top = Docs0[d].top
  /\ \A d \in DOMAIN found :
       found[d].context = Docs0[d].context /\ found[d].top = Docs0[d].top

(* The names that a card of this event may show, given what was called: a   *)
(* reference that is not spelled the canonical way may also go unnamed.     *)
Options(doc, called) ==
  LET profile == Denotes(EventProfile(doc))
      exact   == profile \in Profile /\ Key(EventProfile(doc)) = Str(profile)
  IN (IF profile \in Profile THEN called[profile] ELSE {})
       \cup (IF exact THEN {} ELSE {Absent})

(* The name that _enrich_events finds. *)
NameFrom(doc, display) ==
  LET ref == EventProfile(doc)
  IN IF ref # Absent /\ Key(ref) \in DOMAIN display THEN display[Key(ref)] ELSE Absent

Body(doc, name) == Given(doc.field["type"]) \o Given(name) \o Given(doc.at)

Shows(doc, name, description) ==
  description = IF Body(doc, name) = <<>> THEN doc.field["description"] ELSE Body(doc, name)

(* What the code does about names, however references are spelled. *)
NamesFound ==
  pc = "answered" /\ ask.list = "events" =>
    \A c \in cards : \E name \in Options(found[c.id], span.called) :
      Shows(found[c.id], name, c.description)

NInv ==
  /\ TypeOK /\ Recorded /\ (pc = "names" => ask.list = "events")
  /\ ReferencesStay /\ NamesFound

(* A body has up to three lines, and none that is empty. *)
LEMMA BodyShape ==
  ASSUME NEW doc \in Document, NEW name \in Text \cup {Absent}
  PROVE  Body(doc, name) = <<>> \/ Body(doc, name) \in Lines
<1> DEFINE a == Given(doc.field["type"])
           b == Given(name)
           c == Given(doc.at)
<1>1. doc.field["type"] \in Text \cup {Absent} /\ doc.at \in Text \cup {Absent}
  BY DEF Document, SourceField
<1>2. \A t \in Text \cup {Absent} : Given(t) \in Seq(Text) /\ Len(Given(t)) \in 0..1
  BY EmptySeq DEF Given
<1>3. a \in Seq(Text) /\ b \in Seq(Text) /\ c \in Seq(Text)
      /\ Len(a) \in 0..1 /\ Len(b) \in 0..1 /\ Len(c) \in 0..1
  BY <1>1, <1>2
<1> HIDE DEF a, b, c
<1>4. a \o b \in Seq(Text) /\ Len(a \o b) = Len(a) + Len(b)
  BY <1>3, ConcatProperties
<1>5. (a \o b) \o c \in Seq(Text) /\ Len((a \o b) \o c) = Len(a) + Len(b) + Len(c)
  BY <1>3, <1>4, ConcatProperties
<1>6. PICK n : n = Len((a \o b) \o c)
  OBVIOUS
<1>7. n \in 0..3
  <2>1. \A x, y, z \in 0..1 : x + y + z \in 0..3
    OBVIOUS
  <2>2. n = Len(a) + Len(b) + Len(c)
    BY <1>5, <1>6
  <2>3. QED
    BY <1>3, <2>1, <2>2
<1>8. n = 0 => (a \o b) \o c = <<>>
  BY <1>5, <1>6, EmptySeq
<1>9. (a \o b) \o c \in [1..n -> Text]
  BY <1>5, <1>6, LenProperties
<1>10. n # 0 => (a \o b) \o c \in Lines
  BY <1>7, <1>9 DEF Lines
<1>11. QED
  BY <1>8, <1>10 DEF Body, a, b, c

(* What an enriched event shows. *)
LEMMA EnrichedShape ==
  ASSUME NEW doc \in Document, NEW display, NameFrom(doc, display) \in Text \cup {Absent}
  PROVE  LET e == Enriched(doc, display)
         IN /\ e["type"] = doc.field["type"]
            /\ Shows(doc, NameFrom(doc, display), e["description"])
            /\ e["description"] \in Text \cup Lines \cup {Absent}
<1> DEFINE name == NameFrom(doc, display)
           body == Body(doc, name)
<1>1. body = <<>> \/ body \in Lines
  BY BodyShape
<1>2. EventDescription(doc.field["type"], name, doc.at) = IF body = <<>> THEN Absent ELSE body
  BY DEF EventDescription, Body
<1>3. Absent \notin Lines
  BY TypedAssumption
<1>4. Enriched(doc, display) =
        IF body = <<>> THEN doc.field ELSE [doc.field EXCEPT !["description"] = body]
  BY <1>1, <1>2, <1>3 DEF Enriched, NameFrom
<1>5. doc.field \in [SourceField -> Text \cup {Absent}]
  BY DEF Document
<1> HIDE DEF body, name
<1>6. QED
  BY <1>1, <1>4, <1>5 DEF SourceField, Shows, body, name

(* The name query answers for the profile the event is about, or not at all. *)
LEMMA NameIsOwn ==
  ASSUME NEW copies, NEW d \in DOMAIN copies, copies[d] \in Document,
         NEW display, NEW called, names \in [Profile -> Text \cup {Absent}],
         \A p \in Profile : names[p] \in called[p],
         \/ display = DisplayNames(UniqueIds(EventProfiles(copies)))
         \/ display = NoNames /\ UniqueIds(EventProfiles(copies)) = {}
  PROVE  /\ NameFrom(copies[d], display) \in Options(copies[d], called)
         /\ NameFrom(copies[d], display) \in Text \cup {Absent}
<1> DEFINE ref == EventProfile(copies[d])
           key == Key(ref)
<1>1. ref \in Id \cup IdText \cup {Absent, Malformed}
  BY DEF EventProfile, Document, StoredRef, Reference
<1>2. /\ Absent \notin Profile \cup Id \cup IdText /\ Profile \subseteq Id
      /\ Malformed \notin Id \cup IdText \cup {Absent}
  BY AbsentIsNoId, AbsentIsNoText, TypedAssumption
<1>3. \A k \in DOMAIN display :
        \E p \in Profile : k = Str(p) /\ display[k] = names[p] /\ names[p] # Absent
  <2>1. CASE display = NoNames
    BY <2>1 DEF NoNames
  <2>2. CASE display = DisplayNames(UniqueIds(EventProfiles(copies)))
    BY <2>2 DEF DisplayNames, Str
  <2>3. QED
    BY <2>1, <2>2
<1>4. CASE ref \notin Id \cup IdText
  <2>1. ref = Absent \/ (ref = Malformed /\ key = Malformed)
    BY <1>1, <1>2, <1>4 DEF Key
  <2>2. \A p \in Profile : Str(p) \in IdText
    BY <1>2 DEF Str, IdText, Spelling
  <2>3. NameFrom(copies[d], display) = Absent
    BY <1>2, <1>3, <2>1, <2>2 DEF NameFrom
  <2>4. Denotes(ref) = Absent
    BY <1>4 DEF Denotes
  <2>5. QED
    BY <1>2, <2>3, <2>4 DEF Options
<1>5. CASE ref \in Id \cup IdText
  <2>1. ref # Absent /\ Denotes(ref) = Encode(key)
    BY <1>2, <1>5 DEF Denotes, Key, Encode, Str
  <2>2. Encode(key) \in UniqueIds(EventProfiles(copies))
    BY <1>2, <1>5, <2>1 DEF EventProfiles, UniqueIds
  <2>3. display = DisplayNames(UniqueIds(EventProfiles(copies)))
    BY <2>2
  <2>4. CASE key \in DOMAIN display
    <3>1. PICK p \in Profile : key = Str(p) /\ display[key] = names[p]
      BY <1>3, <2>4
    <3>2. NameFrom(copies[d], display) = names[p] /\ Denotes(ref) = p
      BY <2>1, <2>4, <3>1 DEF NameFrom, Encode, Str
    <3>3. QED
      BY <3>1, <3>2 DEF Options
  <2>5. CASE key \notin DOMAIN display
    <3>1. NameFrom(copies[d], display) = Absent
      BY <2>5 DEF NameFrom
    <3>2. ASSUME Denotes(ref) \in Profile, key = Str(Denotes(ref))
          PROVE  Absent \in called[Denotes(ref)]
      <4>1. names[Denotes(ref)] = Absent
        BY <2>1, <2>2, <2>3, <2>5, <3>2 DEF DisplayNames
      <4>2. QED
        BY <3>2, <4>1
    <3>3. QED
      BY <3>1, <3>2 DEF Options
  <2>6. QED
    BY <2>4, <2>5
<1>6. QED
  BY <1>4, <1>5

(* The cards of an answer have the shape of a Card. *)
LEMMA CardsTyped ==
  ASSUME NEW q \in Query, NEW copies, DOMAIN copies \subseteq Doc, NEW display,
         \A d \in DOMAIN copies : copies[d] \in Document,
         q.list = "events" =>
           \A d \in DOMAIN copies : NameFrom(copies[d], display) \in Text \cup {Absent}
  PROVE  CardsOf(q, copies, display) \subseteq CardSpace
<1> SUFFICES ASSUME NEW d \in DOMAIN copies
             PROVE  Project(q.list, d,
                      IF q.list = "events" THEN Enriched(copies[d], display)
                      ELSE copies[d].field, q.by.roles) \in CardSpace
  BY DEF CardsOf
<1> DEFINE field == IF q.list = "events" THEN Enriched(copies[d], display) ELSE copies[d].field
<1>1. q.list \in TypedList /\ d \in Doc /\ d \in Id
  BY TypedAssumption DEF Query
<1>2. copies[d].field \in [SourceField -> Text \cup {Absent}]
  BY DEF Document
<1>3. /\ field[NameField(q.list)] \in Text \cup {Absent}
      /\ field[DescriptionField(q.list)] \in Text \cup Lines \cup {Absent}
  <2>1. CASE q.list = "events"
    BY <1>2, <2>1, EnrichedShape DEF NameField, DescriptionField, SourceField
  <2>2. CASE q.list # "events"
    BY <1>1, <1>2, <2>2 DEF NameField, DescriptionField, SourceField, TypedList
  <2>3. QED
    BY <2>1, <2>2
<1> HIDE DEF field
<1>4. CardType[q.list] \in {CardType[l] : l \in TypedList}
  BY <1>1
<1>5. Link(q.list, d, q.by.roles) \in LinkSpace \cup {Absent}
  <2>1. CASE q.list = "events"
    BY <2>1 DEF Link
  <2>2. CASE q.list # "events"
    <3>1. Place(q.list, q.by.roles) \in
            {"mentor", "mentee", "discovery"} \X {"resource", "path", "plan", "notification"}
      BY <1>1, <2>2 DEF Place, TypedList
    <3>2. Str(d) \in IdText
      BY <1>1 DEF Str, IdText, Spelling
    <3>3. QED
      BY <2>2, <3>1, <3>2 DEF Link, LinkSpace
  <2>3. QED
    BY <2>1, <2>2
<1>6. QED
  BY <1>1, <1>3, <1>4, <1>5 DEF Project, CardSpace, field

-----------------------------------------------------------------------------
LEMMA InitNInv == Init => NInv
<1> SUFFICES ASSUME Init PROVE NInv
  OBVIOUS
<1>1. /\ docs \in [Doc -> Document] /\ stored \subseteq Doc
      /\ names \in [Profile -> Text \cup {Absent}] /\ writes \in 0..MaxWrites
      /\ pc = "idle" /\ ask = Absent /\ DOMAIN found = {} /\ cards = {}
  BY TypedAssumption DEF Init
<1>2. span \in [lists : SUBSET SUBSET Doc, called : [Profile -> SUBSET (Text \cup {Absent})]]
  BY TypedAssumption DEF Init
<1>3. TypeOK
  BY <1>1, <1>2 DEF TypeOK
<1>4. QED
  BY <1>1, <1>3 DEF NInv, Recorded, NamesFound, ReferencesStay, Init

LEMMA AskNames ==
  ASSUME IInv, NInv, Ask
  PROVE  NInv'
<1>1. PICK q \in Query :
        /\ ask' = q /\ pc' \in {"forbidden", "list"}
        /\ span' = [lists |-> Promised(q), called |-> [p \in Profile |-> {names[p]}]]
  BY DEF Ask
<1>2. UNCHANGED <<docs, stored, names, writes, found, cards>>
  BY DEF Ask, store
<1>3. Promised(q) \subseteq SUBSET Doc
  BY DEF Promised, WantedNow, NInv, TypeOK
<1>4. span' \in [lists : SUBSET SUBSET Doc, called : [Profile -> SUBSET (Text \cup {Absent})]]
  BY <1>1, <1>3 DEF NInv, TypeOK
<1>5. TypeOK'
  BY <1>1, <1>2, <1>4 DEF NInv, TypeOK
<1>6. Recorded'
  BY <1>1, <1>2 DEF Recorded
<1>7. QED
  BY <1>1, <1>2, <1>5, <1>6 DEF NInv, NamesFound, ReferencesStay

(* An answer names every profile as the name query found it, or, when no    *)
(* event is about a profile, none.                                          *)
LEMMA AnswerNames ==
  ASSUME IInv, NInv, pc \in {"list", "names"}, NEW copies, NEW display,
         Answer(ask, copies, display), found' = copies, DOMAIN copies \subseteq Doc,
         \A d \in DOMAIN copies :
           /\ copies[d] \in Document
           /\ copies[d].context = Docs0[d].context /\ copies[d].top = Docs0[d].top,
         ask.list = "events" =>
           \/ display = DisplayNames(UniqueIds(EventProfiles(copies)))
           \/ display = NoNames /\ UniqueIds(EventProfiles(copies)) = {},
         UNCHANGED <<store, ask, span>>
  PROVE  NInv'
<1>1. ask \in Query
  BY DEF IInv, Phases
<1>2. pc' = "answered" /\ cards' = CardsOf(ask, copies, display)
  BY DEF Answer
<1>3. ask.list = "events" =>
        \A d \in DOMAIN copies :
          /\ NameFrom(copies[d], display) \in Options(copies[d], span.called)
          /\ NameFrom(copies[d], display) \in Text \cup {Absent}
  BY NameIsOwn DEF NInv, TypeOK, Recorded
<1>4. cards' \subseteq CardSpace
  BY <1>1, <1>2, <1>3, CardsTyped
<1>5. TypeOK'
  BY <1>2, <1>4 DEF NInv, TypeOK, store
<1>6. ASSUME ask.list = "events", NEW c \in cards'
      PROVE  \E name \in Options(copies[c.id], span.called) :
               Shows(copies[c.id], name, c.description)
  <2>1. PICK d \in DOMAIN copies :
          c = Project(ask.list, d, Enriched(copies[d], display), ask.by.roles)
    BY <1>2, <1>6 DEF CardsOf
  <2>2. c.id = d /\ c.description = Enriched(copies[d], display)["description"]
    BY <1>6, <2>1 DEF Project, DescriptionField
  <2>3. Shows(copies[d], NameFrom(copies[d], display), c.description)
    BY <1>3, <1>6, <2>2, EnrichedShape
  <2>4. QED
    BY <1>3, <1>6, <2>2, <2>3
<1>7. NamesFound'
  BY <1>6 DEF NamesFound
<1>8. ReferencesStay'
  BY DEF NInv, ReferencesStay, store
<1>9. QED
  BY <1>2, <1>5, <1>7, <1>8 DEF NInv, Recorded

LEMMA ReadListNames ==
  ASSUME IInv, NInv, ReadList
  PROVE  NInv'
<1>1. /\ pc = "list" /\ found' = [d \in Result(ask) |-> docs[d]]
      /\ UNCHANGED <<store, ask, span>>
  BY DEF ReadList
<1>2. Result(ask) \subseteq stored /\ stored \subseteq Doc
  BY DEF Result, NInv, TypeOK
<1>3. /\ DOMAIN found' \subseteq Doc
      /\ \A d \in DOMAIN found' :
           /\ found'[d] \in Document
           /\ found'[d].context = Docs0[d].context /\ found'[d].top = Docs0[d].top
  BY <1>1, <1>2 DEF NInv, TypeOK, ReferencesStay
<1>4. CASE ask.list = "events" /\ pc' = "names" /\ UNCHANGED cards
  <2>1. TypeOK'
    BY <1>1, <1>3, <1>4 DEF NInv, TypeOK, store
  <2>2. Recorded'
    BY <1>1, <1>4 DEF NInv, Recorded, store
  <2>3. NamesFound'
    BY <1>4 DEF NamesFound
  <2>4. ReferencesStay'
    BY <1>1, <1>3 DEF NInv, ReferencesStay, store
  <2>5. QED
    BY <1>1, <1>4, <2>1, <2>2, <2>3, <2>4 DEF NInv
<1>5. CASE /\ Answer(ask, found', NoNames)
           /\ ~(ask.list = "events" /\ UniqueIds(EventProfiles(found')) # {})
  <2>1. PICK copies, display : copies = found' /\ display = NoNames
    OBVIOUS
  <2>2. Answer(ask, copies, display)
    BY <1>5, <2>1
  <2>3. ask.list = "events" =>
          \/ display = DisplayNames(UniqueIds(EventProfiles(copies)))
          \/ display = NoNames /\ UniqueIds(EventProfiles(copies)) = {}
    BY <1>5, <2>1
  <2>4. /\ pc \in {"list", "names"} /\ found' = copies /\ UNCHANGED <<store, ask, span>>
        /\ DOMAIN copies \subseteq Doc
        /\ \A d \in DOMAIN copies :
             /\ copies[d] \in Document
             /\ copies[d].context = Docs0[d].context /\ copies[d].top = Docs0[d].top
    BY <1>1, <1>3, <2>1
  <2>5. QED
    BY <2>2, <2>3, <2>4, AnswerNames
<1>6. QED
  BY <1>4, <1>5 DEF ReadList

LEMMA ReadNamesNames ==
  ASSUME IInv, NInv, ReadNames
  PROVE  NInv'
<1>1. /\ pc = "names" /\ UNCHANGED <<store, ask, found, span>>
      /\ Answer(ask, found, DisplayNames(UniqueIds(EventProfiles(found))))
  BY DEF ReadNames
<1>2. /\ DOMAIN found \subseteq Doc
      /\ \A d \in DOMAIN found :
           /\ found[d] \in Document
           /\ found[d].context = Docs0[d].context /\ found[d].top = Docs0[d].top
  BY DEF NInv, TypeOK, ReferencesStay
<1>3. PICK copies, display :
        copies = found /\ display = DisplayNames(UniqueIds(EventProfiles(found)))
  OBVIOUS
<1>4. /\ pc \in {"list", "names"} /\ found' = copies /\ UNCHANGED <<store, ask, span>>
      /\ DOMAIN copies \subseteq Doc
      /\ \A d \in DOMAIN copies :
           /\ copies[d] \in Document
           /\ copies[d].context = Docs0[d].context /\ copies[d].top = Docs0[d].top
      /\ Answer(ask, copies, display)
      /\ display = DisplayNames(UniqueIds(EventProfiles(copies)))
  BY <1>1, <1>2, <1>3
<1>5. QED
  BY <1>4, AnswerNames

(* What was called something stays so on record. *)
LEMMA WriteNames ==
  ASSUME IInv, NInv, Write, docs' \in [Doc -> Document], stored' \subseteq Doc,
         \A d \in Doc : docs'[d].context = docs[d].context /\ docs'[d].top = docs[d].top,
         names' \in [Profile -> Text \cup {Absent}]
  PROVE  NInv'
<1>1. /\ UNCHANGED <<pc, ask, found, cards>> /\ writes' \in 0..MaxWrites
      /\ span' = IF ask = Absent THEN span
                 ELSE [lists  |-> span.lists \cup Promised(ask)',
                       called |-> [p \in Profile |-> span.called[p] \cup {names'[p]}]]
  BY TypedAssumption DEF Write, NInv, TypeOK
<1>2. Promised(ask)' \subseteq SUBSET Doc
  BY DEF Promised, WantedNow
<1>3. span \in [lists : SUBSET SUBSET Doc, called : [Profile -> SUBSET (Text \cup {Absent})]]
  BY DEF NInv, TypeOK
<1>4. /\ span' \in [lists : SUBSET SUBSET Doc, called : [Profile -> SUBSET (Text \cup {Absent})]]
      /\ \A p \in Profile : span.called[p] \subseteq span'.called[p]
      /\ ask # Absent => \A p \in Profile : names'[p] \in span'.called[p]
  <2>1. CASE ask = Absent
    BY <1>1, <1>3, <2>1
  <2>2. CASE ask # Absent
    <3>1. PICK w : w = Promised(ask)'
      OBVIOUS
    <3>2. span' = [lists |-> span.lists \cup w,
                   called |-> [p \in Profile |-> span.called[p] \cup {names'[p]}]]
      BY <1>1, <2>2, <3>1
    <3>3. span.lists \cup w \in SUBSET SUBSET Doc
      BY <1>2, <1>3, <3>1
    <3>4. [p \in Profile |-> span.called[p] \cup {names'[p]}]
             \in [Profile -> SUBSET (Text \cup {Absent})]
      BY <1>3
    <3>5. QED
      BY <3>2, <3>3, <3>4
  <2>3. QED
    BY <2>1, <2>2
<1>5. TypeOK'
  BY <1>1, <1>4 DEF NInv, TypeOK
<1>6. Recorded'
  BY <1>1, <1>4 DEF Recorded, IInv, Phases
<1>7. NamesFound'
  <2>1. \A doc : Options(doc, span.called) \subseteq Options(doc, span'.called)
    BY <1>4 DEF Options
  <2>2. QED
    BY <1>1, <2>1 DEF NInv, NamesFound
<1>8. ReferencesStay'
  BY <1>1 DEF NInv, ReferencesStay
<1>9. QED
  BY <1>1, <1>5, <1>6, <1>7, <1>8 DEF NInv

LEMMA StepNInv == IInv /\ NInv /\ [Next]_vars => NInv'
<1> SUFFICES ASSUME IInv, NInv, [Next]_vars PROVE NInv'
  OBVIOUS
<1>1. CASE Ask
  BY <1>1, AskNames
<1>2. CASE ReadList
  BY <1>2, ReadListNames
<1>3. CASE ReadNames
  BY <1>3, ReadNamesNames
<1>4. CASE MongoFails
  BY <1>4 DEF MongoFails, NInv, TypeOK, Recorded, ReferencesStay, NamesFound, store
<1>5. CASE \E d \in Doc : Store(d) \/ Archive(d)
  <2>1. PICK d \in Doc : Store(d) \/ Archive(d)
    BY <1>5
  <2>2. stored \subseteq Doc /\ docs \in [Doc -> Document]
    BY DEF NInv, TypeOK
  <2>3. UNCHANGED names /\ Write
    BY <2>1 DEF Store, Archive
  <2>4. CASE Store(d)
    <3>1. stored' \subseteq Doc /\ docs' \in [Doc -> Document] /\ docs' = docs
      BY <2>2, <2>4 DEF Store
    <3>2. QED
      BY <3>1, <2>3, WriteNames DEF NInv, TypeOK
  <2>5. CASE Archive(d)
    <3>1. [docs[d] EXCEPT !.status = "archived"] \in Document
      BY <2>2 DEF Document, Status
    <3>2. docs' = [docs EXCEPT ![d] = [docs[d] EXCEPT !.status = "archived"]] /\ stored' = stored
      BY <2>5 DEF Archive
    <3>3. /\ stored' \subseteq Doc /\ docs' \in [Doc -> Document]
          /\ \A x \in Doc : docs'[x].context = docs[x].context /\ docs'[x].top = docs[x].top
      BY <2>2, <3>1, <3>2 DEF Document
    <3>4. QED
      BY <3>3, <2>3, WriteNames DEF NInv, TypeOK
  <2>6. QED
    BY <2>1, <2>4, <2>5
<1>6. CASE \E p \in Profile : Rename(p)
  <2>1. names' \in [Profile -> Text \cup {Absent}] /\ UNCHANGED <<docs, stored>> /\ Write
    BY <1>6 DEF Rename, NInv, TypeOK
  <2>2. QED
    BY <2>1, WriteNames DEF NInv, TypeOK
<1>7. CASE Done \/ UNCHANGED vars
  BY <1>7 DEF Done, vars, NInv, TypeOK, Recorded, ReferencesStay, NamesFound, store
<1>8. QED
  BY <1>1, <1>2, <1>3, <1>4, <1>5, <1>6, <1>7 DEF Next

(* A card has the five properties of the Card schema, a missing one left    *)
(* out and never empty: names, bodies of one to three lines and links of    *)
(* every list, for any documents and writes (project, _event_description).  *)
THEOREM CardsFitSchema == Spec => []TypeOK
<1>1. NInv => TypeOK
  BY DEF NInv
<1>2. QED
  BY <1>1, InitNInv, StepNInv, ListInvariance, PTL DEF Spec

(* The ids of the events of old are spelled the way str(ObjectId) does. *)
CanonicalReferences ==
  \A d \in Doc : {Docs0[d].context, Docs0[d].top} \cap IdText \subseteq {Str(i) : i \in Id}

(* Of a canonical reference, the only names are those of the profile it     *)
(* stands for.                                                              *)
LEMMA CanonicalOptions ==
  ASSUME CanonicalReferences, NEW d \in Doc, NEW doc, NEW called,
         doc.context = Docs0[d].context, doc.top = Docs0[d].top
  PROVE  LET profile == Denotes(EventProfile(doc))
         IN Options(doc, called) = IF profile \in Profile THEN called[profile] ELSE {Absent}
<1> DEFINE ref     == EventProfile(doc)
           profile == Denotes(ref)
<1>1. ref \in IdText => \E i \in Id : ref = Str(i)
  BY DEF CanonicalReferences, EventProfile
<1>2. /\ Absent \notin Profile /\ Profile \subseteq Id
  BY AbsentIsNoId, TypedAssumption
<1>3. profile \in Profile => Key(ref) = Str(profile)
  <2>1. CASE ref \in Id
    BY <2>1 DEF Denotes, Key
  <2>2. CASE ref \notin Id /\ ref \in IdText
    BY <1>1, <2>2 DEF Denotes, Key, Str
  <2>3. CASE ref \notin Id /\ ref \notin IdText
    BY <1>2, <2>3 DEF Denotes
  <2>4. QED
    BY <2>1, <2>2, <2>3
<1>4. QED
  BY <1>3 DEF Options

(* An event card shows a name that the very profile it is about had while   *)
(* the request ran (display_names_for_ids, asked after the events were      *)
(* read, and _enrich_events), although profiles are renamed in between and  *)
(* some references are malformed; if references are spelled the canonical   *)
(* way, a profile is never shown without the name it had throughout.        *)
THEOREM NamesBelong ==
  ASSUME CanonicalReferences
  PROVE  Spec => []NamesAreOwn
<1>1. IInv /\ NInv => NamesAreOwn
  <2> SUFFICES ASSUME IInv, NInv, pc = "answered", ask.list = "events", NEW c \in cards
               PROVE  LET doc     == found[c.id]
                          profile == Denotes(IF doc.context # Absent THEN doc.context ELSE doc.top)
                          options == IF profile \in Profile THEN span.called[profile]
                                     ELSE {Absent}
                      IN \E name \in options :
                           LET body == Given(doc.field["type"]) \o Given(name) \o Given(doc.at)
                           IN c.description =
                                IF body = <<>> THEN doc.field["description"] ELSE body
    BY DEF NamesAreOwn
  <2> DEFINE doc     == found[c.id]
             profile == Denotes(EventProfile(doc))
  <2>1. c.id \in DOMAIN found /\ c.id \in Doc
    BY DEF IInv, Linked, Phases
  <2>2. doc.context = Docs0[c.id].context /\ doc.top = Docs0[c.id].top
    BY <2>1 DEF NInv, ReferencesStay
  <2>3. PICK name \in Options(doc, span.called) : Shows(doc, name, c.description)
    BY DEF NInv, NamesFound
  <2>4. Options(doc, span.called) = IF profile \in Profile THEN span.called[profile] ELSE {Absent}
    BY <2>1, <2>2, CanonicalOptions
  <2>5. QED
    BY <2>3, <2>4 DEF Shows, Body, EventProfile
<1>2. QED
  BY <1>1, InitNInv, StepNInv, ListInvariance, PTL DEF Spec
=============================================================================
