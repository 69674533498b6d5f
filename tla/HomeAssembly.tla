---------------------------- MODULE HomeAssembly ----------------------------
(***************************************************************************)
(* A caller reads the home list page by page while other domain APIs write *)
(* the collections it is made of.  One page request makes one MongoIO call *)
(* per opened section, then two per Member and two per Mentee that came    *)
(* back, and nothing ties those calls to a common snapshot.                *)
(*                                                                         *)
(* The walk of the client (ask for a page, go on while pages are full) and *)
(* the writers are the environment; the steps of a request are the code.   *)
(***************************************************************************)
EXTENDS HomeSections

CONSTANTS
  Caller,      \* the callers that may read the home list
  PageSize,    \* the `size` header of every page request
  Reach,       \* bound: the walk asks for no card beyond this index
  MaxWrites,   \* bound: writes of other domain APIs
  Notices0, Profiles0, Customers0   \* the collections before the first write

ASSUME CallerAssumption == Caller \subseteq CallerSpace
ASSUME BoundAssumption  ==
  /\ PageSize \in 1..MaxSize
  /\ Reach \in Nat /\ MaxWrites \in Nat
ASSUME CollectionAssumption ==
  /\ Notices0 \in [Notice -> NoticeDoc \cup {Absent}]
  /\ Profiles0 \in [Profile -> ProfileDoc]
  /\ Customers0 \in [Customer -> CustomerDoc]

VARIABLES
  notices, profiles, customers,  \* the collections
  events,    \* events of each profile inside the 30-day window
  clock,     \* number of writes so far, the time of the next one
  caller,    \* who reads
  offset,    \* the page being asked for
  pc,        \* where the page request is
  stage,     \* the section it is working on
  queue,     \* Member or Mentee cards still to be described
  cards,     \* the cards gathered so far
  page,      \* the last page answered
  got,       \* history: all pages of the walk so far
  drift,     \* history: what writes did to the sections since the walk began
  span       \* history: what the request could have seen since it began

store   == <<notices, profiles, customers, events, clock>>
request == <<pc, stage, queue, cards>>
walk    == <<caller, offset, page, got>>
vars    == <<store, request, walk, drift, span>>

SectionOrder == <<"notifications", "admin", "customer", "members", "mentees", "journey">>

Source == {"notifications", "customer", "members", "mentees"}

Synthetic == [admin |-> <<"Products", "Discounts", "Logs">>, journey |-> <<"Journey">>]

Working == {"fetch", "journeys", "events", "notes", "slice"}

-----------------------------------------------------------------------------
(* Sections as lists of cards *)

Card(section, doc, activity) == [section |-> section, doc |-> doc, activity |-> activity]

CardsOf(section, docs) == [i \in 1..Len(docs) |-> Card(section, docs[i], Absent)]

(* Mutant of Listings: profiles are sorted oldest save first. *)
ListingsOldestFirst(section) ==
  CASE section = "notifications" -> NewestFirst(ActiveFor(caller, notices), notices)
    [] section = "customer"      -> CustomerQuery(caller, customers)
    [] section = "members"       -> OldestFirst(MembersFor(caller, profiles), profiles)
    [] section = "mentees"       -> OldestFirst(MenteesFor(caller, profiles), profiles)
    [] OTHER                     -> {Synthetic[section]}

(* What a query of the section may return now, without its size. *)
Listings(section) ==
  CASE section = "notifications" -> NewestFirst(ActiveFor(caller, notices), notices)
    [] section = "customer"      -> CustomerQuery(caller, customers)
    [] section = "members"       -> NewestFirst(MembersFor(caller, profiles), profiles)
    [] section = "mentees"       -> NewestFirst(MenteesFor(caller, profiles), profiles)
    [] OTHER                     -> {Synthetic[section]}

DocsOf(list, section) == {list[i].doc : i \in {j \in DOMAIN list : list[j].section = section}}

(* The documents each section stands for now, for this caller. *)
Matching ==
  [s \in Source |->
     IF Opens(caller, s)
     THEN UNION {{list[i] : i \in DOMAIN list} : list \in Listings(s)}
     ELSE {}]

(* Mutant of Described: the shared event list counts the caller's own events. *)
DescribedByCaller(card) ==
  IF card.section \in {"members", "mentees"}
  THEN [card EXCEPT !.activity = events[Encode(caller.claim["profile_id"])]]
  ELSE card

(* The card with the description it would get now. *)
Described(card) ==
  IF card.section \in {"members", "mentees"}
  THEN [card EXCEPT !.activity = events[card.doc]]
  ELSE card

-----------------------------------------------------------------------------
(* The page request *)

here == SectionOrder[stage]

Limit == SectionSize(offset, PageSize)

(* What the section contributes if its query returns this list. *)
Fetched(list) ==
  Contribution(caller, [s \in {here} |-> CardsOf(s, list)], here, Limit)

NextStage ==
  /\ stage' = stage + 1
  /\ pc' = IF stage = Len(SectionOrder) THEN "slice" ELSE "fetch"

Begin(o) ==
  /\ offset' = o
  /\ pc' = "fetch" /\ stage' = 1 /\ queue' = <<>> /\ cards' = <<>>
  /\ span' = [seen |-> Matching, stayed |-> Matching,
              counts |-> [p \in Profile |-> {events[p]}],
              journeys |-> {}, activity |-> {}, notes |-> {}]
  /\ UNCHANGED <<store, caller, page, got>>

SkipSection ==
  /\ pc = "fetch" /\ ~Opens(caller, here)
  /\ NextStage
  /\ UNCHANGED <<store, walk, drift, span, queue, cards>>

(* One query, or a synthetic card: its cards are complete at once. *)
FetchCards ==
  /\ pc = "fetch" /\ Opens(caller, here) /\ here \notin {"members", "mentees"}
  /\ \E list \in Listings(here) : cards' = cards \o Fetched(list)
  /\ NextStage
  /\ UNCHANGED <<store, walk, drift, span, queue>>

(* Mutant of Enrich: both sections go through the same helper. *)
EnrichAsMember(section) == "journeys"

(* The first description read of a profile card. *)
Enrich(section) == IF section = "members" THEN "journeys" ELSE "events"

(* Mutant of FetchProfiles: an empty section enters the description loop, too. *)
FetchNonEmptyProfiles ==
  /\ pc = "fetch" /\ Opens(caller, here) /\ here \in {"members", "mentees"}
  /\ \E list \in Listings(here) : queue' = Fetched(list)
  /\ pc' = Enrich(here)
  /\ UNCHANGED <<store, walk, drift, span, stage, cards>>

(* _project_member_cards and _project_mentee_cards: a loop over the copy. *)
FetchProfiles ==
  /\ pc = "fetch" /\ Opens(caller, here) /\ here \in {"members", "mentees"}
  /\ \E list \in Listings(here) : queue' = Fetched(list)
  /\ IF queue' = <<>> THEN NextStage ELSE pc' = Enrich(here) /\ UNCHANGED stage
  /\ UNCHANGED <<store, walk, drift, span, cards>>

Subject == Head(queue).doc

(* Mutant of AppendCard: every profile is projected as a Member. *)
AppendMemberCard(card) ==
  /\ cards' = Append(cards, [card EXCEPT !.section = "members"])
  /\ queue' = Tail(queue)
  /\ IF queue' = <<>> THEN NextStage ELSE pc' = Enrich(here) /\ UNCHANGED stage

(* The profile is projected; the loop goes on or its section is done. *)
AppendCard(card) ==
  /\ cards' = Append(cards, card)
  /\ queue' = Tail(queue)
  /\ IF queue' = <<>> THEN NextStage ELSE pc' = Enrich(here) /\ UNCHANGED stage

(* JourneyService.resource_counts_for_profile *)
ReadJourney ==
  /\ pc = "journeys" /\ pc' = "events"
  /\ span' = [span EXCEPT !.journeys = @ \cup {Subject}]
  /\ UNCHANGED <<store, walk, drift, stage, queue, cards>>

(* EventService.recent_event_count_for_profile *)
CountEvents ==
  /\ pc = "events"
  /\ span' = [span EXCEPT !.activity = @ \cup {Subject}]
  /\ \/ /\ here = "members"
        /\ AppendCard(Described(Head(queue)))
     \/ /\ here = "mentees"
        /\ queue' = <<Described(Head(queue))>> \o Tail(queue)
        /\ pc' = "notes"
        /\ UNCHANGED <<stage, cards>>
  /\ UNCHANGED <<store, walk, drift>>

(* Mutant of ReadNotes: waits for a profile that is not archived. *)
ReadNotesOfActive ==
  /\ pc = "notes" /\ profiles[Subject].status = "active"
  /\ AppendCard(Head(queue))
  /\ span' = [span EXCEPT !.notes = @ \cup {Subject}]
  /\ UNCHANGED <<store, walk, drift>>

(* NoteService.notes_for_profile *)
ReadNotes ==
  /\ pc = "notes"
  /\ AppendCard(Head(queue))
  /\ span' = [span EXCEPT !.notes = @ \cup {Subject}]
  /\ UNCHANGED <<store, walk, drift>>

(* page = cards[offset : offset + size] *)
Slice ==
  /\ pc = "slice" /\ pc' = "answered"
  /\ page' = PageOf(cards, offset, PageSize)
  /\ got' = got \o page'
  /\ UNCHANGED <<store, caller, offset, drift, span, stage, queue, cards>>

(* A MongoIO call raises: no partial page is sent, the caller gets a 500. *)
MongoFails ==
  /\ pc \in Working /\ pc' = "failed"
  /\ UNCHANGED <<store, walk, drift, span, stage, queue, cards>>

-----------------------------------------------------------------------------
(* The client *)

Ask == pc = "idle" /\ Begin(0) /\ drift' = [way |-> "none", since |-> clock]

TurnsPage ==
  /\ pc = "answered" /\ Len(page) = PageSize
  /\ offset + 2 * PageSize <= Reach

TurnPage == TurnsPage /\ Begin(offset + PageSize) /\ UNCHANGED drift

(* The walk is over: a short page, the client's own bound, or an error. *)
WalkOver ==
  /\ pc = "failed" \/ (pc = "answered" /\ ~TurnsPage)
  /\ UNCHANGED vars

-----------------------------------------------------------------------------
(* The other domain APIs.  Every write widens the span.  It lets the        *)
(* combined list drift: backward if a section loses a document, else forward. *)

Write ==
  /\ clock < MaxWrites /\ clock' = clock + 1
  /\ UNCHANGED <<request, walk>>
  /\ drift' = [drift EXCEPT !.way =
                 IF @ # "backward" /\ \A s \in Source : Matching[s] \subseteq Matching'[s]
                 THEN "forward" ELSE "backward"]
  /\ span' = [span EXCEPT
                !.seen   = [s \in Source |-> @[s] \cup Matching'[s]],
                !.stayed = [s \in Source |-> @[s] \cap Matching'[s]],
                !.counts = [p \in Profile |-> @[p] \cup {events'[p]}]]

(* A write is newer than every document of the seed. *)
Now == 100 + clock

(* Somebody wrote the document since the walk began. *)
Written(section, d) ==
  CASE section = "notifications"        -> notices[d].at >= 100 + drift.since
    [] section \in {"members", "mentees"} -> profiles[d].at >= 100 + drift.since
    [] section = "customer"             -> FALSE

CreateNotice(n) ==
  /\ notices[n] = Absent
  /\ \E p \in Profile :
       notices' = [notices EXCEPT ![n] =
         [profile |-> p, status |-> "active", live |-> TRUE, at |-> Now]]
  /\ UNCHANGED <<profiles, customers, events>>
  /\ Write

RetireNotice(n) ==
  /\ notices[n] # Absent /\ notices[n].live
  /\ notices' = [notices EXCEPT ![n].live = FALSE]
  /\ UNCHANGED <<profiles, customers, events>>
  /\ Write

SaveProfile(p) ==
  /\ \E m \in Profile \cup {Absent}, s \in Status :
       profiles' = [profiles EXCEPT ![p].mentor = m, ![p].status = s, ![p].at = Now]
  /\ UNCHANGED <<notices, customers, events>>
  /\ Write

ArchiveCustomer(c) ==
  /\ customers[c].status = "active"
  /\ customers' = [customers EXCEPT ![c].status = "archived"]
  /\ UNCHANGED <<notices, profiles, events>>
  /\ Write

(* An event is recorded, or leaves the 30-day window. *)
EventsMove(p) ==
  /\ \E n \in {events[p] - 1, events[p] + 1} \cap Nat : events' = [events EXCEPT ![p] = n]
  /\ UNCHANGED <<notices, profiles, customers>>
  /\ Write

-----------------------------------------------------------------------------
Init ==
  /\ notices = Notices0 /\ profiles = Profiles0 /\ customers = Customers0
  /\ events = [p \in Profile |-> 1]
  /\ clock = 0
  /\ caller \in Caller
  /\ offset = 0 /\ pc = "idle" /\ stage = 1 /\ queue = <<>> /\ cards = <<>>
  /\ page = <<>> /\ got = <<>>
  /\ drift = [way |-> "none", since |-> 0]
  /\ span = [seen |-> Matching, stayed |-> Matching,
             counts |-> [p \in Profile |-> {1}],
             journeys |-> {}, activity |-> {}, notes |-> {}]

Work ==
  \/ SkipSection \/ FetchCards \/ FetchProfiles
  \/ ReadJourney \/ CountEvents \/ ReadNotes \/ Slice

Others ==
  \/ \E n \in Notice : CreateNotice(n) \/ RetireNotice(n)
  \/ \E p \in Profile : SaveProfile(p) \/ EventsMove(p)
  \/ \E c \in Customer : ArchiveCustomer(c)

Next == Ask \/ TurnPage \/ Work \/ MongoFails \/ Others \/ WalkOver

Spec == Init /\ [][Next]_vars

(* A request runs on by itself; clients and writers may stop at any time. *)
FairSpec == Spec /\ WF_vars(Work)

-----------------------------------------------------------------------------
(* Properties *)

Item == Notice \cup Profile \cup Customer \cup {"Products", "Discounts", "Logs", "Journey"}

CardSpace == [section : Section, doc : Item, activity : Nat \cup {Absent}]

TypeOK ==
  /\ notices \in [Notice -> NoticeDoc \cup {Absent}]
  /\ profiles \in [Profile -> ProfileDoc]
  /\ customers \in [Customer -> CustomerDoc]
  /\ events \in [Profile -> Nat]
  /\ clock \in 0..MaxWrites /\ caller \in Caller
  /\ offset \in 0..Reach
  /\ pc \in Working \cup {"idle", "answered", "failed"}
  /\ stage \in 1..Len(SectionOrder) + 1
  /\ {queue, cards, page, got} \subseteq Seq(CardSpace)
  /\ pc \in {"journeys", "events", "notes"} => queue # <<>>
  /\ drift \in [way : {"none", "forward", "backward"}, since : 0..MaxWrites]

(* Every section in full, as one listing of its query has it. *)
Lists ==
  [s \in Section |->
     IF Opens(caller, s) THEN CardsOf(s, CHOOSE list \in Listings(s) : TRUE) ELSE <<>>]

(* Paging.  While nothing is written, the pages of a walk are consecutive   *)
(* slices of the one combined list that the contract describes, and a page  *)
(* shorter than asked for means that the walk has seen all of it: the only  *)
(* end marker a bare array offers.  (get_home_cards asks every source again *)
(* from its beginning for each page, whatever section the offset falls in.) *)
WalkIsExact ==
  drift.way = "none" =>
    LET all  == CombinedList(caller, Lists)
        full == [i \in DOMAIN all |-> Described(all[i])]
    IN /\ got = FirstOf(full, Len(got))
       /\ pc = "answered" /\ Len(page) < PageSize => got = full

(* A walk without a cursor loses nothing while the list only drifts         *)
(* forward.  As long as no write takes a document off one of the caller's   *)
(* sections, every document that nobody wrote since the walk began is on    *)
(* some page by the time a short one ends it: new and newly saved documents *)
(* enter at the front of a section (all sections sort newest first) and     *)
(* push the others towards pages that are still to come, never back.  It is *)
(* allowed to show a card twice.                                            *)
ForwardDriftLosesNothing ==
  drift.way # "backward" /\ pc = "answered" /\ Len(page) < PageSize =>
    \A s \in Source : {d \in Matching[s] : ~Written(s, d)} \subseteq DocsOf(got, s)

(* Each card was earned: a document on the list matched the section it is   *)
(* shown in at some moment after this request began, so no card is left     *)
(* over from an earlier page or another section.                            *)
CardsAreCurrent ==
  pc # "idle" =>
    \A s \in Source : DocsOf(cards, s) \cup DocsOf(queue, s) \subseteq span.seen[s]

(* Nothing is overlooked: a first page that is not full shows every         *)
(* document that matched its section all the while, although the sections   *)
(* were read at different moments.                                          *)
NothingStayingIsMissed ==
  pc = "answered" /\ offset = 0 /\ Len(page) < PageSize =>
    \A s \in Source : span.stayed[s] \subseteq DocsOf(page, s)

(* The 30-day count on a card is the count of that very profile, as it was  *)
(* at some moment of this request; it is not shared between cards, callers  *)
(* or pages.                                                                *)
CountsAreCurrent ==
  pc # "idle" =>
    \A i \in DOMAIN cards :
      cards[i].section \in {"members", "mentees"} =>
        cards[i].activity \in span.counts[cards[i].doc]

(* The description reads skip the shared outbound match ("callers must      *)
(* already have this Profile on the Member or Mentee home section"): the    *)
(* request reads journeys only of its Members, notes only of its Mentees    *)
(* and events only of either.                                               *)
ReadsStayInScope ==
  /\ span.journeys \subseteq span.seen["members"]
  /\ span.notes \subseteq span.seen["mentees"]
  /\ span.activity \subseteq span.seen["members"] \cup span.seen["mentees"]

(* A page names no document twice in one section, even when a profile is    *)
(* saved again and moves to the front while the page is put together.       *)
NoCardTwice ==
  \A i, j \in DOMAIN cards :
    cards[i].section = cards[j].section /\ cards[i].doc = cards[j].doc => i = j

(* One Customer card for the token's customer_id: never another customer's. *)
CustomerCardIsOwn ==
  \A i \in DOMAIN cards :
    cards[i].section = "customer" => Names(caller, "customer_id", cards[i].doc)

(* A page request neither waits nor loops: it is answered or it fails.      *)
EveryPageSettles == pc \in Working ~> pc \in {"answered", "failed"}
=============================================================================
