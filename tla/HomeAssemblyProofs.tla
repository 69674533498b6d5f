------------------------- MODULE HomeAssemblyProofs -------------------------
(***************************************************************************)
(* Theorems about HomeAssembly, for any finite collections, callers, page  *)
(* size and number of writes: what a home page shows is current, counted   *)
(* for its own profile, read in scope, and shown once, although every      *)
(* section is read at another moment and no sort breaks its ties.          *)
(***************************************************************************)
EXTENDS HomeAssembly, HomePageProofs, FiniteSetTheorems

Profiled == {"members", "mentees"}

InLoop == pc \in {"journeys", "events", "notes"}

SpanSpace ==
  [seen : [Source -> SUBSET Item], stayed : [Source -> SUBSET Item],
   counts : [Profile -> SUBSET Nat],
   journeys : SUBSET Profile, activity : SUBSET Profile, notes : SUBSET Profile]

(* The sections that are complete. *)
Past == {SectionOrder[k] : k \in 1..stage - 1}

(* No caller is both admin and customer (the exception of the Customer card). *)
CustomersAreNoAdmins == \A c \in Caller : ~({"admin", "customer"} \subseteq c.roles)

(* What is true of a card once it is on the list. *)
Good(c, sp, who) ==
  /\ c.section \in Source => c.doc \in sp.seen[c.section]
  /\ c.section \in Profiled => c.doc \in Profile /\ c.activity \in sp.counts[c.doc]
  /\ CustomersAreNoAdmins /\ c.section = "customer" => Names(who, "customer_id", c.doc)

(* What is true of a profile whose description is still to be read. *)
Pending(c, sp) ==
  /\ c.section \in Profiled /\ c.doc \in Profile
  /\ c.doc \in sp.seen[c.section]

(* A span that has seen no less. *)
Wider(sp, tp) ==
  /\ \A s \in Source : sp.seen[s] \subseteq tp.seen[s]
  /\ \A p \in Profile : sp.counts[p] \subseteq tp.counts[p]

StageFits ==
  /\ pc \in {"fetch", "journeys", "events", "notes"} => stage \in 1..6
  /\ InLoop => here \in Profiled
  /\ pc = "journeys" => here = "members"
  /\ pc = "notes" => here = "mentees"

QueueFits ==
  /\ \A i \in 1..Len(queue) : Pending(queue[i], span) /\ (InLoop => queue[i].section = here)
  /\ pc = "notes" => queue[1].activity \in span.counts[queue[1].doc]

(* The history has seen everything there is to be read now. *)
SpanCovers ==
  /\ span \in SpanSpace
  /\ \A s \in Source : Matching[s] \subseteq span.seen[s]
  /\ \A p \in Profile : events[p] \in span.counts[p]

(* Every card belongs to a complete section or to the one in the loop, and  *)
(* there it is not queued any more.                                         *)
Apart ==
  pc \in Working =>
    /\ \A i \in 1..Len(cards) :
         /\ cards[i].section \in Past \/ (InLoop /\ cards[i].section = here)
         /\ \A j \in 1..Len(queue) :
              InLoop /\ cards[i].section = here => cards[i].doc # queue[j].doc
    /\ InLoop => \A i, j \in 1..Len(queue) : queue[i].doc = queue[j].doc => i = j

IInv ==
  /\ TypeOK /\ StageFits /\ QueueFits /\ SpanCovers /\ ReadsStayInScope
  /\ \A i \in 1..Len(cards) : Good(cards[i], span, caller)
  /\ Apart /\ NoCardTwice

-----------------------------------------------------------------------------
(* Queries *)

(* An ordering is a list of its ids, each once. *)
LEMMA OrderingShape ==
  ASSUME NEW ids, IsFiniteSet(ids), NEW key, NEW list \in Orderings(ids, key)
  PROVE  /\ list \in Seq(ids)
         /\ \A i, j \in 1..Len(list) : list[i] = list[j] => i = j
<1>1. Cardinality(ids) \in Nat
  BY FS_CardinalityType
<1>2. list \in [1..Cardinality(ids) -> ids]
  BY DEF Orderings
<1>3. list \in Seq(ids) /\ Len(list) = Cardinality(ids)
  BY <1>1, <1>2, IsASeq, LenProperties
<1>4. \A i, j \in 1..Len(list) : i < j => list[i] # list[j]
  BY <1>3 DEF Orderings
<1>5. QED
  BY <1>1, <1>3, <1>4

(* A shorter list of the same elements. *)
LEMMA FirstKeepsDistinct ==
  ASSUME NEW S, NEW list \in Seq(S), NEW n \in Nat,
         \A i, j \in 1..Len(list) : list[i] = list[j] => i = j
  PROVE  LET q == FirstOf(list, n)
         IN /\ q \in Seq(S) /\ Len(q) \in Nat /\ Len(q) <= Len(list)
            /\ \A i \in 1..Len(q) : q[i] = list[i]
            /\ \A i, j \in 1..Len(q) : q[i] = q[j] => i = j
<1> DEFINE q == FirstOf(list, n)
<1>1. /\ q \in Seq(S) /\ Len(list) \in Nat
      /\ Len(q) = IF n < Len(list) THEN n ELSE Len(list)
      /\ \A i \in 1..Len(q) : q[i] = list[i]
  BY FirstOfShape, LenProperties
<1> HIDE DEF q
<1>2. \A i, j \in 1..Len(q) : q[i] = q[j] => i = j
  BY <1>1
<1>3. QED
  BY <1>1, <1>2 DEF q

(* What a section's query returns: documents of its collection, each once. *)
LEMMA ListingShape ==
  ASSUME NEW s \in Section, NEW list \in Listings(s)
  PROVE  /\ list \in Seq(Item)
         /\ \A i, j \in 1..Len(list) : list[i] = list[j] => i = j
         /\ s \in Profiled => \A i \in 1..Len(list) : list[i] \in Profile
         /\ s = "customer" =>
              \A i \in 1..Len(list) : list[i] \in CustomersFor(caller, customers)
<1>1. CASE s = "notifications"
  <2>1. ActiveFor(caller, notices) \subseteq Notice /\ IsFiniteSet(ActiveFor(caller, notices))
    BY FiniteAssumption, FS_Subset DEF ActiveFor
  <2>2. list \in NewestFirst(ActiveFor(caller, notices), notices)
    BY <1>1 DEF Listings
  <2>3. /\ list \in Seq(ActiveFor(caller, notices))
        /\ \A i, j \in 1..Len(list) : list[i] = list[j] => i = j
    BY <2>1, <2>2, OrderingShape DEF NewestFirst
  <2>4. QED
    BY <1>1, <2>1, <2>3 DEF Item, Profiled
<1>2. CASE s = "members"
  <2>1. MembersFor(caller, profiles) \subseteq Profile /\ IsFiniteSet(MembersFor(caller, profiles))
    BY FiniteAssumption, FS_Subset DEF MembersFor
  <2>2. list \in NewestFirst(MembersFor(caller, profiles), profiles)
    BY <1>2 DEF Listings
  <2>3. /\ list \in Seq(MembersFor(caller, profiles))
        /\ \A i, j \in 1..Len(list) : list[i] = list[j] => i = j
    BY <2>1, <2>2, OrderingShape DEF NewestFirst
  <2>4. QED
    BY <1>2, <2>1, <2>3 DEF Item
<1>3. CASE s = "mentees"
  <2>1. MenteesFor(caller, profiles) \subseteq Profile /\ IsFiniteSet(MenteesFor(caller, profiles))
    BY FiniteAssumption, FS_Subset DEF MenteesFor
  <2>2. list \in NewestFirst(MenteesFor(caller, profiles), profiles)
    BY <1>3 DEF Listings
  <2>3. /\ list \in Seq(MenteesFor(caller, profiles))
        /\ \A i, j \in 1..Len(list) : list[i] = list[j] => i = j
    BY <2>1, <2>2, OrderingShape DEF NewestFirst
  <2>4. QED
    BY <1>3, <2>1, <2>3 DEF Item
<1>4. CASE s = "customer"
  <2> DEFINE ids == CustomersFor(caller, customers)
             key == [c \in ids |-> customers[c].name]
  <2>1. ids \subseteq Customer /\ IsFiniteSet(ids)
    BY FiniteAssumption, FS_Subset DEF CustomersFor
  <2>2. list \in CustomerQuery(caller, customers)
    BY <1>4 DEF Listings
  <2>3. PICK l \in Orderings(ids, key) : list = FirstOf(l, 1)
    BY <2>2 DEF CustomerQuery
  <2>4. l \in Seq(ids) /\ \A i, j \in 1..Len(l) : l[i] = l[j] => i = j
    BY <2>1, OrderingShape
  <2> HIDE DEF ids
  <2>5. list \in Seq(ids) /\ \A i, j \in 1..Len(list) : list[i] = list[j] => i = j
    BY <2>3, <2>4, FirstKeepsDistinct
  <2>6. QED
    BY <1>4, <2>1, <2>5 DEF Item, Profiled, ids
<1>5. CASE s \in {"admin", "journey"}
  <2>1. list = Synthetic[s]
    BY <1>5 DEF Listings
  <2>2. CASE s = "admin"
    <3>1. list = <<"Products", "Discounts", "Logs">>
      BY <2>1, <2>2 DEF Synthetic
    <3>2. QED
      BY <2>2, <3>1 DEF Item, Profiled
  <2>3. CASE s = "journey"
    <3>1. list = <<"Journey">>
      BY <2>1, <2>3 DEF Synthetic
    <3>2. QED
      BY <2>3, <3>1 DEF Item, Profiled
  <2>4. QED
    BY <1>5, <2>2, <2>3
<1>6. QED
  BY <1>1, <1>2, <1>3, <1>4, <1>5 DEF Section

(* What a section may show belongs to its documents. *)
LEMMA MatchingShape ==
  /\ Matching \in [Source -> SUBSET Item]
  /\ \A s \in Source : Opens(caller, s) =>
       \A list \in Listings(s) : \A i \in 1..Len(list) : list[i] \in Matching[s]
<1>1. Source \subseteq Section
  BY DEF Source, Section
<1>2. ASSUME NEW s \in Source, NEW list \in Listings(s)
      PROVE  /\ list \in Seq(Item) /\ DOMAIN list = 1..Len(list)
             /\ {list[i] : i \in DOMAIN list} \subseteq Item
  <2>1. list \in Seq(Item)
    BY <1>1, ListingShape
  <2>2. Len(list) \in Nat /\ DOMAIN list = 1..Len(list)
    BY <2>1, LenProperties
  <2>3. \A i \in 1..Len(list) : list[i] \in Item
    BY <2>1, <2>2, ElementOfSeq
  <2>4. QED
    BY <2>1, <2>2, <2>3
<1>3. \A s \in Source : UNION {{list[i] : i \in DOMAIN list} : list \in Listings(s)} \subseteq Item
  BY <1>2
<1>4. QED
  BY <1>2, <1>3 DEF Matching

(* The contribution of an open section: its documents, each once, undescribed. *)
LEMMA FetchedShape ==
  ASSUME TypeOK, stage \in 1..6, Opens(caller, here), NEW list \in Listings(here)
  PROVE  LET f == Fetched(list)
         IN /\ f \in Seq(CardSpace) /\ Len(f) \in Nat
            /\ \A i \in 1..Len(f) :
                 /\ f[i].section = here
                 /\ here \in Source => f[i].doc \in Matching[here]
                 /\ here \in Profiled => f[i].doc \in Profile
                 /\ here = "customer" => f[i].doc \in CustomersFor(caller, customers)
            /\ \A i, j \in 1..Len(f) : f[i].doc = f[j].doc => i = j
<1> DEFINE docs == CardsOf(here, list)
<1>1. here \in Section
  BY DEF here, SectionOrder, Section
<1>2. Limit \in Nat
  BY MaxSizeAssumption, BoundAssumption DEF Limit, SectionSize, TypeOK
<1>3. /\ list \in Seq(Item)
      /\ \A i, j \in 1..Len(list) : list[i] = list[j] => i = j
      /\ here \in Profiled => \A i \in 1..Len(list) : list[i] \in Profile
      /\ here = "customer" => \A i \in 1..Len(list) : list[i] \in CustomersFor(caller, customers)
  BY <1>1, ListingShape
<1>4. here \in Source => \A i \in 1..Len(list) : list[i] \in Matching[here]
  BY MatchingShape
<1>5. Len(list) \in Nat /\ \A i \in 1..Len(list) : list[i] \in Item
  BY <1>3, LenProperties, ElementOfSeq
<1>6. /\ docs \in [1..Len(list) -> CardSpace]
      /\ \A i \in 1..Len(list) : docs[i].section = here /\ docs[i].doc = list[i]
  BY <1>1, <1>5 DEF CardsOf, Card, CardSpace
<1> HIDE DEF docs
<1>7. docs \in Seq(CardSpace) /\ Len(docs) = Len(list)
  BY <1>5, <1>6, IsASeq, LenProperties
<1>8. Fetched(list) = IF here \in PagedSection THEN FirstOf(docs, Limit) ELSE docs
  BY DEF Fetched, Contribution, docs
<1>9. \A i, j \in 1..Len(docs) : docs[i] = docs[j] => i = j
  BY <1>3, <1>6, <1>7
<1>10. /\ Fetched(list) \in Seq(CardSpace) /\ Len(Fetched(list)) \in Nat
       /\ Len(Fetched(list)) <= Len(list)
       /\ \A i \in 1..Len(Fetched(list)) : Fetched(list)[i] = docs[i]
  <2>1. CASE here \in PagedSection
    BY <1>2, <1>7, <1>8, <1>9, <2>1, FirstKeepsDistinct
  <2>2. CASE here \notin PagedSection
    BY <1>5, <1>7, <1>8, <2>2
  <2>3. QED
    BY <2>1, <2>2
<1>11. QED
  BY <1>3, <1>4, <1>5, <1>6, <1>10

-----------------------------------------------------------------------------
(* Steps of the request: the parts that several steps share *)

(* A wider span keeps what is known of a card. *)
LEMMA GoodGrows ==
  ASSUME NEW sp, NEW tp, NEW who, NEW c, Wider(sp, tp)
  PROVE  /\ Good(c, sp, who) => Good(c, tp, who)
         /\ Pending(c, sp) => Pending(c, tp)
BY DEF Wider, Good, Pending, Profiled, Source

(* The sections are worked on in order, each once. *)
LEMMA StageFacts ==
  ASSUME stage \in 1..6
  PROVE  here \in Section /\ here \notin Past /\ Len(SectionOrder) = 6
<1>1. \A k \in 1..stage - 1 : k \in 1..6 /\ SectionOrder[k] # SectionOrder[stage]
  BY DEF SectionOrder
<1>2. QED
  BY <1>1 DEF here, Past, SectionOrder, Section

LEMMA NextStageFacts ==
  ASSUME stage \in 1..6, NextStage
  PROVE  /\ stage' \in 1..7 /\ Past' = Past \cup {here}
         /\ pc' \in {"fetch", "slice"} /\ (pc' = "fetch" => stage' \in 1..6)
         /\ ~InLoop'
<1>1. stage' = stage + 1 /\ Len(SectionOrder) = 6
  BY StageFacts DEF NextStage
<1>2. 1..stage' - 1 = (1..stage - 1) \cup {stage}
  BY <1>1
<1>3. Past' = Past \cup {here}
  BY <1>2 DEF Past, here
<1>4. QED
  BY <1>1, <1>3 DEF NextStage, InLoop

(* While the collections rest, the sections and what is known of cards rest. *)
LEMMA RestingStore ==
  ASSUME IInv, UNCHANGED <<store, caller>>, span' \in SpanSpace,
         span'.seen = span.seen, span'.counts = span.counts
  PROVE  /\ SpanCovers'
         /\ \A c : (Good(c, span, caller) => Good(c, span', caller'))
                /\ (Pending(c, span) => Pending(c, span'))
<1>1. Matching' = Matching
  BY DEF Matching, Listings, store
<1>2. SpanCovers'
  BY <1>1 DEF IInv, SpanCovers, store
<1>3. Wider(span, span')
  BY DEF Wider
<1>4. QED
  BY <1>2, <1>3, GoodGrows

-----------------------------------------------------------------------------
(* One lemma per step *)

(* A new page request starts with nothing on its list. *)
LEMMA BeginKeeps ==
  ASSUME IInv, NEW o \in 0..Reach, Begin(o),
         drift' \in [way : {"none", "forward", "backward"}, since : 0..MaxWrites]
  PROVE  IInv'
<1>1. /\ cards' = <<>> /\ queue' = <<>> /\ pc' = "fetch" /\ stage' = 1 /\ offset' = o
      /\ UNCHANGED <<store, caller, page, got>>
  BY DEF Begin
<1>2. <<>> \in Seq(CardSpace) /\ Len(<<>>) = 0
  BY EmptySeq
<1>3. TypeOK'
  BY <1>1, <1>2 DEF IInv, TypeOK, store, Working, SectionOrder
<1>4. StageFits' /\ QueueFits' /\ Apart' /\ NoCardTwice'
  BY <1>1, <1>2 DEF StageFits, QueueFits, Apart, NoCardTwice, InLoop
<1>5. Matching' = Matching
  BY <1>1 DEF Matching, Listings, store
<1>6. span' = [seen |-> Matching, stayed |-> Matching,
               counts |-> [p \in Profile |-> {events[p]}],
               journeys |-> {}, activity |-> {}, notes |-> {}]
  BY DEF Begin
<1>7. Matching \in [Source -> SUBSET Item] /\ events \in [Profile -> Nat]
  BY MatchingShape DEF IInv, TypeOK
<1>8. SpanCovers' /\ ReadsStayInScope'
  BY <1>1, <1>5, <1>6, <1>7 DEF SpanCovers, SpanSpace, ReadsStayInScope, store
<1>9. QED
  BY <1>1, <1>2, <1>3, <1>4, <1>8 DEF IInv

LEMMA SkipSectionKeeps ==
  ASSUME IInv, SkipSection
  PROVE  IInv'
<1>1. stage \in 1..6 /\ NextStage /\ UNCHANGED <<store, walk, drift, span, queue, cards>>
  BY DEF IInv, StageFits, SkipSection
<1>2. /\ stage' \in 1..7 /\ Past' = Past \cup {here}
      /\ pc' \in {"fetch", "slice"} /\ (pc' = "fetch" => stage' \in 1..6) /\ ~InLoop'
  BY <1>1, NextStageFacts
<1>3. SpanCovers' /\ \A c : Pending(c, span) => Pending(c, span')
  BY <1>1, RestingStore DEF walk, IInv, SpanCovers
<1>4. TypeOK'
  BY <1>1, <1>2 DEF IInv, TypeOK, store, walk, Working, SectionOrder
<1>5. StageFits' /\ QueueFits' /\ NoCardTwice' /\ ReadsStayInScope'
  BY <1>1, <1>2 DEF IInv, StageFits, QueueFits, NoCardTwice, ReadsStayInScope, InLoop
<1>6. Apart'
  BY <1>1, <1>2 DEF IInv, Apart, SkipSection, Working, InLoop
<1>7. QED
  BY <1>1, <1>3, <1>4, <1>5, <1>6 DEF IInv, walk

(* The cards of a section join a list that has none of its section yet. *)
LEMMA FetchCardsKeeps ==
  ASSUME IInv, FetchCards
  PROVE  IInv'
<1>1. /\ stage \in 1..6 /\ Opens(caller, here) /\ here \notin Profiled
      /\ NextStage /\ UNCHANGED <<store, walk, drift, span, queue>>
  BY DEF IInv, StageFits, FetchCards, Profiled
<1>2. PICK list \in Listings(here) : cards' = cards \o Fetched(list)
  BY DEF FetchCards
<1> DEFINE f == Fetched(list)
<1>3. /\ f \in Seq(CardSpace) /\ Len(f) \in Nat
      /\ \A i \in 1..Len(f) :
           /\ f[i].section = here
           /\ here \in Source => f[i].doc \in Matching[here]
           /\ here = "customer" => f[i].doc \in CustomersFor(caller, customers)
      /\ \A i, j \in 1..Len(f) : f[i].doc = f[j].doc => i = j
  BY <1>1, FetchedShape DEF IInv
<1> HIDE DEF f
<1>4. cards \in Seq(CardSpace) /\ Len(cards) \in Nat
  BY LenProperties DEF IInv, TypeOK
<1>5. /\ cards' \in Seq(CardSpace) /\ Len(cards') = Len(cards) + Len(f)
      /\ \A i \in 1..Len(cards) + Len(f) :
           cards'[i] = IF i <= Len(cards) THEN cards[i] ELSE f[i - Len(cards)]
  BY <1>2, <1>3, <1>4, ConcatProperties DEF f
<1>6. \A i \in 1..Len(cards') :
        \/ i \in 1..Len(cards) /\ cards'[i] = cards[i]
        \/ i - Len(cards) \in 1..Len(f) /\ cards'[i] = f[i - Len(cards)]
  BY <1>3, <1>4, <1>5
<1>7. /\ stage' \in 1..7 /\ Past' = Past \cup {here} /\ here \notin Past
      /\ pc' \in {"fetch", "slice"} /\ (pc' = "fetch" => stage' \in 1..6) /\ ~InLoop'
  BY <1>1, NextStageFacts, StageFacts
<1>8. /\ SpanCovers' /\ \A c : Pending(c, span) => Pending(c, span')
      /\ \A c : Good(c, span, caller) => Good(c, span', caller')
  BY <1>1, RestingStore DEF walk, IInv, SpanCovers
<1>9. TypeOK'
  BY <1>1, <1>5, <1>7 DEF IInv, TypeOK, store, walk, Working, SectionOrder
<1>10. StageFits' /\ QueueFits' /\ ReadsStayInScope'
  BY <1>1, <1>7 DEF IInv, StageFits, QueueFits, ReadsStayInScope, InLoop
<1>11. \A i \in 1..Len(cards) : cards[i].section \in Past
  BY DEF IInv, Apart, FetchCards, Working, InLoop
<1>12. Apart'
  BY <1>3, <1>6, <1>7, <1>11 DEF Apart
<1>13. \A i \in 1..Len(f) : Good(f[i], span, caller)
  <2>1. here = "customer" /\ CustomersAreNoAdmins =>
          \A i \in 1..Len(f) : Names(caller, "customer_id", f[i].doc)
    <3>1. caller \in Caller
      BY DEF IInv, TypeOK
    <3>2. here = "customer" => "customer" \in caller.roles
      BY <1>1 DEF Opens
    <3>3. here = "customer" /\ CustomersAreNoAdmins => ~IsAdmin(caller)
      BY <3>1, <3>2 DEF CustomersAreNoAdmins, IsAdmin
    <3>4. QED
      BY <1>3, <3>3 DEF CustomersFor, Outbound
  <2>2. here \in Source => \A i \in 1..Len(f) : f[i].doc \in span.seen[here]
    BY <1>3 DEF IInv, SpanCovers
  <2>3. QED
    BY <1>1, <1>3, <2>1, <2>2 DEF Good
<1>14. \A i \in 1..Len(cards') : Good(cards'[i], span', caller')
  BY <1>6, <1>8, <1>13 DEF IInv
<1>15. NoCardTwice'
  <2>1. SUFFICES ASSUME NEW i \in 1..Len(cards'), NEW j \in 1..Len(cards'),
                        cards'[i].section = cards'[j].section, cards'[i].doc = cards'[j].doc
                 PROVE  i = j
    BY <1>5, LenProperties DEF NoCardTwice
  <2>2. CASE i \in 1..Len(cards) /\ j \in 1..Len(cards)
    <3>1. cards'[i] = cards[i] /\ cards'[j] = cards[j]
      BY <1>3, <1>4, <1>5, <2>2
    <3>2. DOMAIN cards = 1..Len(cards)
      BY <1>4, LenProperties
    <3>3. QED
      BY <2>1, <2>2, <3>1, <3>2 DEF IInv, NoCardTwice
  <2>3. \A k \in 1..Len(cards') : k \in 1..Len(cards) => cards'[k].section # here
    <3>1. \A k \in 1..Len(cards) : cards'[k] = cards[k]
      BY <1>3, <1>4, <1>5
    <3>2. QED
      BY <1>7, <1>11, <3>1
  <2>4. \A k \in 1..Len(cards') : k \notin 1..Len(cards) => cards'[k].section = here
    BY <1>3, <1>6
  <2>5. CASE i \notin 1..Len(cards) /\ j \notin 1..Len(cards)
    <3>1. /\ i - Len(cards) \in 1..Len(f) /\ cards'[i] = f[i - Len(cards)]
          /\ j - Len(cards) \in 1..Len(f) /\ cards'[j] = f[j - Len(cards)]
      BY <1>6, <2>5
    <3>2. i - Len(cards) = j - Len(cards)
      BY <1>3, <2>1, <3>1
    <3>3. QED
      BY <1>4, <3>2
  <2>6. QED
    BY <2>1, <2>2, <2>3, <2>4, <2>5
<1>16. QED
  BY <1>8, <1>9, <1>10, <1>12, <1>14, <1>15 DEF IInv

(* A section's profiles are queued: none of them is on the list yet. *)
LEMMA FetchProfilesKeeps ==
  ASSUME IInv, FetchProfiles
  PROVE  IInv'
<1>1. /\ pc = "fetch" /\ stage \in 1..6 /\ Opens(caller, here) /\ here \in Profiled
      /\ UNCHANGED <<store, walk, drift, span, cards>>
  BY DEF IInv, StageFits, FetchProfiles, Profiled
<1>2. PICK list \in Listings(here) : queue' = Fetched(list)
  BY DEF FetchProfiles
<1>3. /\ queue' \in Seq(CardSpace) /\ Len(queue') \in Nat
      /\ \A i \in 1..Len(queue') :
           /\ queue'[i].section = here /\ queue'[i].doc \in Matching[here]
           /\ queue'[i].doc \in Profile
      /\ \A i, j \in 1..Len(queue') : queue'[i].doc = queue'[j].doc => i = j
  BY <1>1, <1>2, FetchedShape DEF IInv, Profiled, Source
<1>4. \/ queue' = <<>> /\ NextStage
      \/ queue' # <<>> /\ pc' = Enrich(here) /\ UNCHANGED stage
  BY DEF FetchProfiles
<1>5. here \notin Past /\ Past \subseteq Past' /\ stage' \in 1..7
  <2>1. CASE NextStage
    BY <1>1, <2>1, NextStageFacts, StageFacts
  <2>2. CASE UNCHANGED stage
    BY <1>1, <2>2, StageFacts DEF Past
  <2>3. QED
    BY <1>4, <2>1, <2>2
<1>6. /\ pc' \in {"fetch", "slice", "journeys", "events"} /\ (pc' # "slice" => stage' \in 1..6)
      /\ pc' \in {"journeys", "events"} => stage' = stage /\ queue' # <<>>
      /\ pc' = "journeys" => here = "members"
  <2>1. CASE NextStage
    BY <1>1, <2>1, NextStageFacts
  <2>2. CASE queue' # <<>> /\ pc' = Enrich(here) /\ UNCHANGED stage
    BY <1>1, <2>2 DEF Enrich
  <2>3. QED
    BY <1>4, <2>1, <2>2
<1>7. SpanCovers' /\ \A c : Good(c, span, caller) => Good(c, span', caller')
  BY <1>1, RestingStore DEF walk, IInv, SpanCovers
<1>8. TypeOK'
  BY <1>1, <1>3, <1>5, <1>6 DEF IInv, TypeOK, store, walk, Working, SectionOrder
<1>9. here \in Profiled => (InLoop' => here' = here /\ here' \in Profiled)
  BY <1>6 DEF InLoop, here
<1>10. StageFits'
  BY <1>1, <1>6, <1>9 DEF StageFits, InLoop
<1>11. QueueFits'
  <2>1. \A i \in 1..Len(queue') : Pending(queue'[i], span)
    BY <1>1, <1>3 DEF Pending, IInv, SpanCovers, Profiled, Source
  <2>2. QED
    BY <1>1, <1>3, <1>6, <1>9, <2>1 DEF QueueFits
<1>12. \A i \in 1..Len(cards) : cards[i].section \in Past
  BY <1>1 DEF IInv, Apart, Working, InLoop
<1>13. Apart'
  BY <1>1, <1>3, <1>5, <1>9, <1>12 DEF Apart
<1>14. ReadsStayInScope' /\ NoCardTwice'
  BY <1>1 DEF IInv, ReadsStayInScope, NoCardTwice
<1>15. QED
  BY <1>1, <1>7, <1>8, <1>10, <1>11, <1>13, <1>14 DEF IInv

(* The queue in the description loop. *)
LEMMA LoopFacts ==
  ASSUME IInv, InLoop
  PROVE  /\ stage \in 1..6 /\ here \in Profiled /\ here \notin Past
         /\ queue \in Seq(CardSpace) /\ queue # <<>> /\ Len(queue) \in Nat \ {0}
         /\ Head(queue) = queue[1] /\ queue[1] \in CardSpace /\ queue[1].section = here
         /\ Subject = queue[1].doc /\ Subject \in Profile /\ Subject \in span.seen[here]
         /\ Tail(queue) \in Seq(CardSpace) /\ Len(Tail(queue)) = Len(queue) - 1
         /\ \A i \in 1..Len(Tail(queue)) : Tail(queue)[i] = queue[i + 1]
<1>1. stage \in 1..6 /\ here \in Profiled /\ here \notin Past
  BY StageFacts DEF IInv, StageFits, InLoop
<1>2. queue \in Seq(CardSpace) /\ queue # <<>>
  BY DEF IInv, TypeOK, InLoop
<1>3. /\ Len(queue) \in Nat \ {0} /\ Head(queue) = queue[1] /\ queue[1] \in CardSpace
      /\ Tail(queue) \in Seq(CardSpace) /\ Len(Tail(queue)) = Len(queue) - 1
      /\ \A i \in 1..Len(Tail(queue)) : Tail(queue)[i] = queue[i + 1]
  BY <1>2, HeadTailProperties, EmptySeq, LenProperties, ElementOfSeq
<1>4. Pending(queue[1], span) /\ queue[1].section = here
  BY <1>3 DEF IInv, QueueFits
<1>5. QED
  BY <1>1, <1>2, <1>3, <1>4 DEF Subject, Pending

(* A described profile leaves the queue and joins the list. *)
LEMMA AppendKeeps ==
  ASSUME IInv, InLoop, NEW card \in CardSpace,
         card.section = here, card.doc = queue[1].doc, Good(card, span, caller),
         AppendCard(card), UNCHANGED <<store, walk, drift>>,
         span' \in SpanSpace, span'.seen = span.seen, span'.counts = span.counts,
         ReadsStayInScope'
  PROVE  IInv'
<1>1. /\ stage \in 1..6 /\ here \in Profiled /\ here \notin Past
      /\ queue \in Seq(CardSpace) /\ Len(queue) \in Nat \ {0}
      /\ Tail(queue) \in Seq(CardSpace) /\ Len(Tail(queue)) = Len(queue) - 1
      /\ \A i \in 1..Len(Tail(queue)) : Tail(queue)[i] = queue[i + 1]
  BY LoopFacts
<1>2. /\ cards' = Append(cards, card) /\ queue' = Tail(queue)
      /\ \/ queue' = <<>> /\ NextStage
         \/ queue' # <<>> /\ pc' = Enrich(here) /\ UNCHANGED stage
  BY DEF AppendCard
<1>3. cards \in Seq(CardSpace) /\ Len(cards) \in Nat
  BY LenProperties DEF IInv, TypeOK
<1>4. /\ cards' \in Seq(CardSpace) /\ Len(cards') = Len(cards) + 1
      /\ \A i \in 1..Len(cards) : cards'[i] = cards[i]
      /\ cards'[Len(cards) + 1] = card
  BY <1>2, <1>3, AppendProperties
<1>5. /\ pc' \in {"fetch", "slice", "journeys", "events"} /\ (pc' # "slice" => stage' \in 1..6)
      /\ stage' \in 1..7
      /\ pc' \in {"journeys", "events"} => stage' = stage /\ queue' # <<>>
      /\ pc' \notin {"journeys", "events"} => Past' = Past \cup {here}
      /\ pc' = "journeys" => here = "members"
  <2>1. CASE NextStage
    BY <1>1, <2>1, NextStageFacts
  <2>2. CASE queue' # <<>> /\ pc' = Enrich(here) /\ UNCHANGED stage
    BY <1>1, <2>2 DEF Enrich
  <2>3. QED
    BY <1>2, <2>1, <2>2
<1>6. Past \subseteq Past' /\ (InLoop' <=> pc' \in {"journeys", "events"})
      /\ (InLoop' => here' = here) /\ (~InLoop' => here \in Past')
  BY <1>5 DEF Past, InLoop, here
<1>7. /\ SpanCovers'
      /\ \A c : (Good(c, span, caller) => Good(c, span', caller'))
             /\ (Pending(c, span) => Pending(c, span'))
  BY RestingStore DEF walk
<1>8. TypeOK'
  BY <1>1, <1>2, <1>4, <1>5 DEF IInv, TypeOK, store, walk, Working, SectionOrder
<1>9. StageFits'
  BY <1>1, <1>5, <1>6 DEF StageFits
<1>10. QueueFits'
  BY <1>1, <1>2, <1>5, <1>6, <1>7 DEF IInv, QueueFits
<1>11. \A i \in 1..Len(cards') : Good(cards'[i], span', caller')
  BY <1>3, <1>4, <1>7 DEF IInv
<1>12. /\ \A i \in 1..Len(cards) :
            /\ cards[i].section \in Past \/ cards[i].section = here
            /\ cards[i].section = here =>
                 \A j \in 1..Len(queue) : cards[i].doc # queue[j].doc
       /\ \A i, j \in 1..Len(queue) : queue[i].doc = queue[j].doc => i = j
  BY DEF IInv, Apart, InLoop, Working
<1>13. Apart'
  <2>1. ASSUME NEW i \in 1..Len(cards')
        PROVE  /\ cards'[i].section \in Past \/ cards'[i].section = here
               /\ cards'[i].section = here =>
                    \A j \in 1..Len(queue') : cards'[i].doc # queue'[j].doc
    <3>1. CASE i \in 1..Len(cards)
      BY <1>1, <1>2, <1>4, <1>12, <3>1
    <3>2. CASE i = Len(cards) + 1
      BY <1>1, <1>2, <1>4, <1>12, <3>2
    <3>3. QED
      BY <1>3, <1>4, <3>1, <3>2
  <2>2. \A i, j \in 1..Len(queue') : queue'[i].doc = queue'[j].doc => i = j
    BY <1>1, <1>2, <1>12
  <2>3. QED
    BY <1>6, <2>1, <2>2 DEF Apart
<1>14. NoCardTwice'
  <2>1. SUFFICES ASSUME NEW i \in 1..Len(cards'), NEW j \in 1..Len(cards'),
                        cards'[i].section = cards'[j].section, cards'[i].doc = cards'[j].doc
                 PROVE  i = j
    BY <1>4, LenProperties DEF NoCardTwice
  <2>2. DOMAIN cards = 1..Len(cards)
    BY <1>3, LenProperties
  <2>3. CASE i \in 1..Len(cards) /\ j \in 1..Len(cards)
    BY <1>4, <2>1, <2>2, <2>3 DEF IInv, NoCardTwice
  <2>4. CASE i = Len(cards) + 1 /\ j \in 1..Len(cards)
    BY <1>1, <1>4, <1>12, <2>1, <2>4
  <2>5. CASE i \in 1..Len(cards) /\ j = Len(cards) + 1
    BY <1>1, <1>4, <1>12, <2>1, <2>5
  <2>6. QED
    BY <1>3, <1>4, <2>3, <2>4, <2>5
<1>15. QED
  BY <1>7, <1>8, <1>9, <1>10, <1>11, <1>13, <1>14 DEF IInv

(* What one more description read does to the history. *)
LEMMA ReadWidens ==
  ASSUME IInv, InLoop,
         \/ here = "members" /\ span' = [span EXCEPT !.journeys = @ \cup {Subject}]
         \/ span' = [span EXCEPT !.activity = @ \cup {Subject}]
         \/ here = "mentees" /\ span' = [span EXCEPT !.notes = @ \cup {Subject}]
  PROVE  /\ span' \in SpanSpace /\ span'.seen = span.seen /\ span'.counts = span.counts
         /\ ReadsStayInScope'
<1>1. here \in Profiled /\ Subject \in Profile /\ Subject \in span.seen[here]
  BY LoopFacts
<1>2. span \in SpanSpace /\ ReadsStayInScope
  BY DEF IInv, SpanCovers
<1>3. here \in {"members", "mentees"}
  BY <1>1 DEF Profiled
<1>4. QED
  BY <1>1, <1>2, <1>3 DEF SpanSpace, ReadsStayInScope

LEMMA ReadJourneyKeeps ==
  ASSUME IInv, ReadJourney
  PROVE  IInv'
<1>1. /\ pc = "journeys" /\ pc' = "events" /\ InLoop /\ here = "members"
      /\ UNCHANGED <<store, walk, drift, stage, queue, cards>>
  BY DEF IInv, StageFits, ReadJourney, InLoop
<1>2. /\ span' \in SpanSpace /\ span'.seen = span.seen /\ span'.counts = span.counts
      /\ ReadsStayInScope'
  BY <1>1, ReadWidens DEF ReadJourney
<1>3. /\ SpanCovers'
      /\ \A c : (Good(c, span, caller) => Good(c, span', caller'))
             /\ (Pending(c, span) => Pending(c, span'))
  BY <1>1, <1>2, RestingStore DEF walk
<1>4. TypeOK'
  BY <1>1 DEF IInv, TypeOK, store, walk, Working, SectionOrder
<1>5. here' = here /\ Past' = Past
  BY <1>1 DEF here, Past
<1>6. StageFits' /\ NoCardTwice' /\ Apart'
  BY <1>1, <1>5 DEF IInv, StageFits, NoCardTwice, Apart, InLoop, Working
<1>7. QueueFits'
  BY <1>1, <1>3, <1>5 DEF IInv, QueueFits, InLoop
<1>8. QED
  BY <1>1, <1>2, <1>3, <1>4, <1>6, <1>7 DEF IInv

(* A Member is complete with its count; a Mentee waits for its notes. *)
LEMMA CountEventsKeeps ==
  ASSUME IInv, CountEvents
  PROVE  IInv'
<1>1. /\ pc = "events" /\ InLoop
      /\ UNCHANGED <<store, walk, drift>>
  BY DEF CountEvents, InLoop
<1>2. /\ here \in Profiled /\ queue \in Seq(CardSpace) /\ Len(queue) \in Nat \ {0}
      /\ Head(queue) = queue[1] /\ queue[1] \in CardSpace /\ queue[1].section = here
      /\ queue[1].doc \in Profile /\ queue[1].doc \in span.seen[here]
      /\ Tail(queue) \in Seq(CardSpace) /\ Len(Tail(queue)) = Len(queue) - 1
      /\ \A i \in 1..Len(Tail(queue)) : Tail(queue)[i] = queue[i + 1]
  BY <1>1, LoopFacts
<1>3. /\ span' \in SpanSpace /\ span'.seen = span.seen /\ span'.counts = span.counts
      /\ ReadsStayInScope'
  BY <1>1, ReadWidens DEF CountEvents
<1>4. PICK card : card = Described(Head(queue))
  OBVIOUS
<1>5. card = [queue[1] EXCEPT !.activity = events[queue[1].doc]]
  BY <1>2, <1>4 DEF Described, Profiled
<1>6. events[queue[1].doc] \in Nat /\ events[queue[1].doc] \in span.counts[queue[1].doc]
  BY <1>2 DEF IInv, TypeOK, SpanCovers
<1>7. /\ card \in CardSpace /\ card.section = here /\ card.doc = queue[1].doc
      /\ card.activity \in span.counts[card.doc]
  BY <1>2, <1>5, <1>6 DEF CardSpace
<1>8. CASE here = "members" /\ AppendCard(Described(Head(queue)))
  <2>1. Good(card, span, caller)
    BY <1>2, <1>7, <1>8 DEF Good
  <2>2. AppendCard(card)
    BY <1>4, <1>8
  <2>3. QED
    BY <1>1, <1>3, <1>7, <2>1, <2>2, AppendKeeps
<1>9. CASE /\ here = "mentees" /\ queue' = <<Described(Head(queue))>> \o Tail(queue)
           /\ pc' = "notes" /\ UNCHANGED <<stage, cards>>
  <2>1. queue' = <<card>> \o Tail(queue) /\ <<card>> \in Seq(CardSpace)
        /\ Len(<<card>>) = 1 /\ <<card>>[1] = card
    BY <1>4, <1>7, <1>9
  <2>2. /\ queue' \in Seq(CardSpace) /\ Len(queue') = Len(queue)
        /\ \A i \in 1..Len(queue') : queue'[i] = IF i = 1 THEN card ELSE queue[i]
    <3>1. /\ queue' \in Seq(CardSpace) /\ Len(queue') = 1 + Len(Tail(queue))
          /\ \A i \in 1..Len(<<card>>) + Len(Tail(queue)) :
               queue'[i] = IF i <= Len(<<card>>) THEN <<card>>[i]
                           ELSE Tail(queue)[i - Len(<<card>>)]
      BY <1>2, <2>1, ConcatProperties
    <3>2. QED
      BY <1>2, <2>1, <3>1
  <2>3. \A i \in 1..Len(queue') :
          /\ queue'[i].doc = queue[i].doc /\ queue'[i].section = queue[i].section
    BY <1>2, <1>7, <2>2
  <2>4. /\ SpanCovers'
        /\ \A c : (Good(c, span, caller) => Good(c, span', caller'))
               /\ (Pending(c, span) => Pending(c, span'))
    BY <1>1, <1>3, RestingStore DEF walk
  <2>5. queue' # <<>>
    BY <1>2, <2>2, EmptySeq
  <2>6. TypeOK'
    BY <1>1, <1>9, <2>2, <2>5 DEF IInv, TypeOK, store, walk, Working, SectionOrder
  <2>7. here' = here /\ Past' = Past /\ InLoop'
    BY <1>9 DEF here, Past, InLoop
  <2>8. StageFits' /\ NoCardTwice'
    BY <1>1, <1>2, <1>9, <2>7 DEF IInv, StageFits, NoCardTwice
  <2>9. Apart'
    <3>1. /\ \A i \in 1..Len(cards) :
               /\ cards[i].section \in Past \/ cards[i].section = here
               /\ cards[i].section = here =>
                    \A j \in 1..Len(queue) : cards[i].doc # queue[j].doc
          /\ \A i, j \in 1..Len(queue) : queue[i].doc = queue[j].doc => i = j
      BY <1>1 DEF IInv, Apart, InLoop, Working
    <3>2. \A i \in 1..Len(cards) : cards[i].section = here =>
            \A j \in 1..Len(queue') : cards[i].doc # queue'[j].doc
      BY <2>2, <2>3, <3>1
    <3>3. \A i, j \in 1..Len(queue') : queue'[i].doc = queue'[j].doc => i = j
      BY <2>2, <2>3, <3>1
    <3>4. cards' = cards
      BY <1>9
    <3>5. QED
      BY <2>7, <3>1, <3>2, <3>3, <3>4 DEF Apart
  <2>10. QueueFits'
    <3>1. \A i \in 1..Len(queue) : Pending(queue[i], span) /\ queue[i].section = here
      BY <1>1 DEF IInv, QueueFits
    <3>2. \A i \in 1..Len(queue') : Pending(queue'[i], span') /\ queue'[i].section = here
      BY <1>3, <2>2, <2>3, <3>1 DEF Pending
    <3>3. queue'[1] = card
      BY <1>2, <2>2
    <3>4. QED
      BY <1>3, <1>7, <2>7, <3>2, <3>3 DEF QueueFits
  <2>11. QED
    BY <1>1, <1>3, <1>9, <2>4, <2>6, <2>8, <2>9, <2>10 DEF IInv
<1>10. QED
  BY <1>8, <1>9 DEF CountEvents

LEMMA ReadNotesKeeps ==
  ASSUME IInv, ReadNotes
  PROVE  IInv'
<1>1. /\ pc = "notes" /\ InLoop /\ here = "mentees" /\ UNCHANGED <<store, walk, drift>>
  BY DEF IInv, StageFits, ReadNotes, InLoop
<1>2. /\ span' \in SpanSpace /\ span'.seen = span.seen /\ span'.counts = span.counts
      /\ ReadsStayInScope'
  BY <1>1, ReadWidens DEF ReadNotes
<1>3. PICK card : card = Head(queue)
  OBVIOUS
<1>4. /\ card = queue[1] /\ card \in CardSpace /\ card.section = here
      /\ card.doc \in Profile /\ card.doc \in span.seen[here]
  BY <1>1, <1>3, LoopFacts
<1>5. card.activity \in span.counts[card.doc]
  BY <1>1, <1>4 DEF IInv, QueueFits
<1>6. Good(card, span, caller)
  BY <1>1, <1>4, <1>5 DEF Good
<1>7. AppendCard(card)
  BY <1>3 DEF ReadNotes
<1>8. QED
  BY <1>1, <1>2, <1>4, <1>6, <1>7, AppendKeeps

(* The page and the walk's history are made of cards. *)
LEMMA SliceKeeps ==
  ASSUME IInv, Slice
  PROVE  IInv'
<1>1. /\ pc' = "answered" /\ page' = PageOf(cards, offset, PageSize) /\ got' = got \o page'
      /\ UNCHANGED <<store, caller, offset, drift, span, stage, queue, cards>>
  BY DEF Slice
<1>2. cards \in Seq(CardSpace) /\ got \in Seq(CardSpace) /\ offset \in Nat /\ PageSize \in Nat
  BY BoundAssumption DEF IInv, TypeOK
<1>3. page' \in Seq(CardSpace)
  BY <1>1, <1>2, PageShape
<1>4. got' \in Seq(CardSpace)
  BY <1>1, <1>2, <1>3, ConcatProperties
<1>5. SpanCovers' /\ \A c : Pending(c, span) => Pending(c, span')
  BY <1>1, RestingStore DEF IInv, SpanCovers
<1>6. TypeOK'
  BY <1>1, <1>3, <1>4 DEF IInv, TypeOK, store, Working, SectionOrder
<1>7. StageFits' /\ QueueFits' /\ Apart' /\ NoCardTwice' /\ ReadsStayInScope'
  BY <1>1 DEF IInv, StageFits, QueueFits, Apart, NoCardTwice, ReadsStayInScope, InLoop, Working
<1>8. QED
  BY <1>1, <1>5, <1>6, <1>7 DEF IInv

LEMMA MongoFailsKeeps ==
  ASSUME IInv, MongoFails
  PROVE  IInv'
<1>1. pc' = "failed" /\ UNCHANGED <<store, walk, drift, span, stage, queue, cards>>
  BY DEF MongoFails
<1>2. SpanCovers' /\ \A c : Pending(c, span) => Pending(c, span')
  BY <1>1, RestingStore DEF IInv, SpanCovers, walk
<1>3. TypeOK'
  BY <1>1 DEF IInv, TypeOK, store, walk, Working, SectionOrder
<1>4. StageFits' /\ QueueFits' /\ Apart' /\ NoCardTwice' /\ ReadsStayInScope'
  BY <1>1 DEF IInv, StageFits, QueueFits, Apart, NoCardTwice, ReadsStayInScope, InLoop, Working
<1>5. QED
  BY <1>1, <1>2, <1>3, <1>4 DEF IInv, walk

-----------------------------------------------------------------------------
(* Writes of other domain APIs *)

(* MatchingShape does not depend on the state. *)
LEMMA MatchingShapeNext == Matching' \in [Source -> SUBSET Item]
<1>1. Matching \in [Source -> SUBSET Item]
  BY MatchingShape
<1>2. (Matching \in [Source -> SUBSET Item])'
  BY <1>1, PTL
<1>3. QED
  BY <1>2

(* Whatever is written, the span grows with it. *)
LEMMA WriteKeeps ==
  ASSUME IInv, Write,
         notices' \in [Notice -> NoticeDoc \cup {Absent}],
         profiles' \in [Profile -> ProfileDoc],
         customers' \in [Customer -> CustomerDoc],
         events' \in [Profile -> Nat]
  PROVE  IInv'
<1>1. UNCHANGED <<pc, stage, queue, cards, caller, offset, page, got>>
  BY DEF Write, request, walk
<1>2. Matching' \in [Source -> SUBSET Item]
  BY MatchingShapeNext
<1>3. /\ span \in SpanSpace
      /\ span' = [span EXCEPT
                    !.seen   = [s \in Source |-> span.seen[s] \cup Matching'[s]],
                    !.stayed = [s \in Source |-> span.stayed[s] \cap Matching'[s]],
                    !.counts = [p \in Profile |-> span.counts[p] \cup {events'[p]}]]
  BY DEF Write, IInv, SpanCovers
<1>4. /\ span'.seen = [s \in Source |-> span.seen[s] \cup Matching'[s]]
      /\ span'.stayed = [s \in Source |-> span.stayed[s] \cap Matching'[s]]
      /\ span'.counts = [p \in Profile |-> span.counts[p] \cup {events'[p]}]
      /\ span'.journeys = span.journeys /\ span'.activity = span.activity
      /\ span'.notes = span.notes
      /\ span' = [seen |-> span'.seen, stayed |-> span'.stayed, counts |-> span'.counts,
                  journeys |-> span'.journeys, activity |-> span'.activity,
                  notes |-> span'.notes]
  BY <1>3 DEF SpanSpace
<1>5. /\ span'.seen \in [Source -> SUBSET Item] /\ span'.stayed \in [Source -> SUBSET Item]
      /\ span'.counts \in [Profile -> SUBSET Nat]
  BY <1>2, <1>3, <1>4 DEF SpanSpace
<1>6. span' \in SpanSpace
  BY <1>3, <1>4, <1>5 DEF SpanSpace
<1>7. SpanCovers'
  BY <1>4, <1>6 DEF SpanCovers
<1>8. Wider(span, span')
  BY <1>4 DEF Wider
<1>9. \A c : (Good(c, span, caller) => Good(c, span', caller'))
          /\ (Pending(c, span) => Pending(c, span'))
  BY <1>1, <1>8, GoodGrows
<1>10. clock' \in 0..MaxWrites
       /\ drift' \in [way : {"none", "forward", "backward"}, since : 0..MaxWrites]
  <2>1. drift \in [way : {"none", "forward", "backward"}, since : 0..MaxWrites]
    BY DEF IInv, TypeOK
  <2>2. \E w \in {"forward", "backward"} : drift' = [drift EXCEPT !.way = w]
    BY DEF Write
  <2>3. clock \in 0..MaxWrites /\ clock < MaxWrites /\ clock' = clock + 1
    BY DEF IInv, TypeOK, Write
  <2>4. QED
    BY <2>1, <2>2, <2>3, BoundAssumption
<1>11. TypeOK'
  BY <1>1, <1>10 DEF IInv, TypeOK, Working, SectionOrder
<1>12. StageFits' /\ Apart' /\ NoCardTwice'
  BY <1>1 DEF IInv, StageFits, Apart, NoCardTwice, InLoop, Working, here, Past
<1>13. QueueFits'
  <2>1. /\ \A i \in 1..Len(queue) : Pending(queue[i], span) /\ (InLoop => queue[i].section = here)
        /\ pc = "notes" => queue[1].activity \in span.counts[queue[1].doc]
    BY DEF IInv, QueueFits
  <2>2. pc = "notes" => queue[1].doc \in Profile
    BY LoopFacts DEF InLoop
  <2>3. QED
    BY <1>1, <1>8, <1>9, <2>1, <2>2 DEF QueueFits, InLoop, here, Wider
<1>14. ReadsStayInScope'
  <2>1. {"members", "mentees"} \subseteq Source
    BY DEF Source
  <2>2. QED
    BY <1>4, <1>8, <2>1 DEF IInv, ReadsStayInScope, Wider
<1>15. QED
  BY <1>1, <1>7, <1>9, <1>11, <1>12, <1>13, <1>14 DEF IInv

LEMMA OthersKeep ==
  ASSUME IInv, Others
  PROVE  IInv'
<1>1. /\ notices \in [Notice -> NoticeDoc \cup {Absent}]
      /\ profiles \in [Profile -> ProfileDoc]
      /\ customers \in [Customer -> CustomerDoc]
      /\ events \in [Profile -> Nat]
      /\ Now \in Nat
  BY DEF IInv, TypeOK, Now
<1>2. ASSUME NEW n \in Notice, CreateNotice(n)
      PROVE  IInv'
  <2>1. notices' \in [Notice -> NoticeDoc \cup {Absent}]
    <3>1. \A p \in Profile :
            [profile |-> p, status |-> "active", live |-> TRUE, at |-> Now] \in NoticeDoc
      BY <1>1, ProfilesAreIds DEF NoticeDoc, Reference, Status
    <3>2. QED
      BY <1>1, <1>2, <3>1 DEF CreateNotice
  <2>2. QED
    BY <1>1, <1>2, <2>1, WriteKeeps DEF CreateNotice
<1>3. ASSUME NEW n \in Notice, RetireNotice(n)
      PROVE  IInv'
  <2>1. notices[n] \in NoticeDoc
    BY <1>1, <1>3 DEF RetireNotice
  <2>2. [notices[n] EXCEPT !.live = FALSE] \in NoticeDoc
    BY <2>1 DEF NoticeDoc
  <2>3. notices' \in [Notice -> NoticeDoc \cup {Absent}]
    BY <1>1, <1>3, <2>2 DEF RetireNotice
  <2>4. QED
    BY <1>1, <1>3, <2>3, WriteKeeps DEF RetireNotice
<1>4. ASSUME NEW p \in Profile, SaveProfile(p)
      PROVE  IInv'
  <2>1. PICK m \in Profile \cup {Absent}, s \in Status :
          profiles' = [profiles EXCEPT ![p].mentor = m, ![p].status = s, ![p].at = Now]
    BY <1>4 DEF SaveProfile
  <2>2. m \in Reference
    BY ProfilesAreIds DEF Reference
  <2>3. [profiles[p] EXCEPT !.mentor = m, !.status = s, !.at = Now] \in ProfileDoc
    BY <1>1, <2>2 DEF ProfileDoc
  <2>4. profiles' = [profiles EXCEPT
                       ![p] = [profiles[p] EXCEPT !.mentor = m, !.status = s, !.at = Now]]
    BY <1>1, <2>1
  <2>5. profiles' \in [Profile -> ProfileDoc]
    BY <1>1, <2>3, <2>4
  <2>6. QED
    BY <1>1, <1>4, <2>5, WriteKeeps DEF SaveProfile
<1>5. ASSUME NEW p \in Profile, EventsMove(p)
      PROVE  IInv'
  <2>1. events' \in [Profile -> Nat]
    BY <1>1, <1>5 DEF EventsMove
  <2>2. QED
    BY <1>1, <1>5, <2>1, WriteKeeps DEF EventsMove
<1>6. ASSUME NEW c \in Customer, ArchiveCustomer(c)
      PROVE  IInv'
  <2>1. [customers[c] EXCEPT !.status = "archived"] \in CustomerDoc
    BY <1>1 DEF CustomerDoc, Status
  <2>2. customers' \in [Customer -> CustomerDoc]
    BY <1>1, <1>6, <2>1 DEF ArchiveCustomer
  <2>3. QED
    BY <1>1, <1>6, <2>2, WriteKeeps DEF ArchiveCustomer
<1>7. QED
  BY <1>2, <1>3, <1>4, <1>5, <1>6 DEF Others

-----------------------------------------------------------------------------
(* Theorems *)

LEMMA StutterKeeps ==
  ASSUME IInv, UNCHANGED vars
  PROVE  IInv'
<1>1. UNCHANGED <<store, request, walk, drift, span>>
  BY DEF vars
<1>2. SpanCovers' /\ \A c : Pending(c, span) => Pending(c, span')
  BY <1>1, RestingStore DEF IInv, SpanCovers, walk
<1>3. TypeOK'
  BY <1>1 DEF IInv, TypeOK, store, walk, request, Working, SectionOrder
<1>4. StageFits' /\ QueueFits' /\ Apart' /\ NoCardTwice' /\ ReadsStayInScope'
  BY <1>1 DEF IInv, StageFits, QueueFits, Apart, NoCardTwice, ReadsStayInScope, InLoop,
              Working, request, here, Past
<1>5. QED
  BY <1>1, <1>2, <1>3, <1>4 DEF IInv, walk, request

(* IInv holds in every reachable state: the code never shows a document the *)
(* caller's section did not hold, wherever the writes of others fall.       *)
THEOREM HomeInvariance == Spec => []IInv
<1>1. ASSUME Init
      PROVE  IInv
  <2>1. /\ cards = <<>> /\ queue = <<>> /\ page = <<>> /\ got = <<>>
        /\ pc = "idle" /\ stage = 1 /\ offset = 0 /\ clock = 0 /\ caller \in Caller
        /\ events = [p \in Profile |-> 1] /\ drift = [way |-> "none", since |-> 0]
        /\ notices = Notices0 /\ profiles = Profiles0 /\ customers = Customers0
    BY <1>1 DEF Init
  <2>2. <<>> \in Seq(CardSpace) /\ Len(<<>>) = 0
    BY EmptySeq
  <2>3. TypeOK
    BY <2>1, <2>2, BoundAssumption, CollectionAssumption DEF TypeOK, SectionOrder
  <2>4. StageFits /\ QueueFits /\ Apart /\ NoCardTwice
    BY <2>1, <2>2 DEF StageFits, QueueFits, Apart, NoCardTwice, InLoop, Working
  <2>5. span = [seen |-> Matching, stayed |-> Matching,
                counts |-> [p \in Profile |-> {1}],
                journeys |-> {}, activity |-> {}, notes |-> {}]
    BY <1>1 DEF Init
  <2>6. SpanCovers /\ ReadsStayInScope
    BY <2>1, <2>5, MatchingShape DEF SpanCovers, SpanSpace, ReadsStayInScope
  <2>7. QED
    BY <2>1, <2>2, <2>3, <2>4, <2>6 DEF IInv
<1>2. ASSUME IInv, [Next]_vars
      PROVE  IInv'
  <2>1. CASE Ask
    <3>1. 0 \in 0..Reach /\ Begin(0)
      BY <2>1, BoundAssumption DEF Ask
    <3>2. drift' \in [way : {"none", "forward", "backward"}, since : 0..MaxWrites]
      BY <1>2, <2>1 DEF Ask, IInv, TypeOK
    <3>3. QED
      BY <1>2, <3>1, <3>2, BeginKeeps
  <2>2. CASE TurnPage
    <3>1. offset + PageSize \in 0..Reach
      BY <1>2, <2>2, BoundAssumption DEF TurnPage, TurnsPage, IInv, TypeOK
    <3>2. Begin(offset + PageSize)
          /\ drift' \in [way : {"none", "forward", "backward"}, since : 0..MaxWrites]
      BY <1>2, <2>2 DEF TurnPage, IInv, TypeOK
    <3>3. QED
      BY <1>2, <3>1, <3>2, BeginKeeps
  <2>3. CASE Work
    BY <1>2, <2>3, SkipSectionKeeps, FetchCardsKeeps, FetchProfilesKeeps, ReadJourneyKeeps,
       CountEventsKeeps, ReadNotesKeeps, SliceKeeps DEF Work
  <2>4. CASE MongoFails
    BY <1>2, <2>4, MongoFailsKeeps
  <2>5. CASE Others
    BY <1>2, <2>5, OthersKeep
  <2>6. CASE WalkOver \/ UNCHANGED vars
    BY <1>2, <2>6, StutterKeeps DEF WalkOver
  <2>7. QED
    BY <1>2, <2>1, <2>2, <2>3, <2>4, <2>5, <2>6 DEF Next
<1>3. QED
  BY <1>1, <1>2, PTL DEF Spec

(* Every value a page request or a write of another API leaves is of its    *)
(* kind (all modelled steps of get_home_cards).                             *)
THEOREM HomeTypes == Spec => []TypeOK
<1>1. IInv => TypeOK
  BY DEF IInv
<1>2. QED
  BY <1>1, HomeInvariance, PTL

(* A card on the list, or about to be described, matched its own section at *)
(* some moment of this very request, although get_home_cards reads section  *)
(* after section and each Mongo call may see another state.                 *)
THEOREM HomeIsCurrent == Spec => []CardsAreCurrent
<1>1. ASSUME IInv
      PROVE  CardsAreCurrent
  <2>1. /\ cards \in Seq(CardSpace) /\ DOMAIN cards = 1..Len(cards)
        /\ queue \in Seq(CardSpace) /\ DOMAIN queue = 1..Len(queue)
    BY <1>1, LenProperties DEF IInv, TypeOK
  <2>2. \A s \in Source : DocsOf(cards, s) \subseteq span.seen[s]
    BY <1>1, <2>1 DEF IInv, Good, DocsOf
  <2>3. \A s \in Source : DocsOf(queue, s) \subseteq span.seen[s]
    BY <1>1, <2>1 DEF IInv, QueueFits, Pending, DocsOf
  <2>4. QED
    BY <2>2, <2>3 DEF CardsAreCurrent
<1>2. QED
  BY <1>1, HomeInvariance, PTL

(* The 30-day count of a Member or Mentee card is that profile's own, as of *)
(* some moment of this request (recent_event_count_for_profile, called once *)
(* per card while the events of all profiles come and go).                  *)
THEOREM HomeCounts == Spec => []CountsAreCurrent
<1>1. ASSUME IInv
      PROVE  CountsAreCurrent
  <2>1. DOMAIN cards = 1..Len(cards)
    BY <1>1, LenProperties DEF IInv, TypeOK
  <2>2. QED
    BY <1>1, <2>1 DEF IInv, Good, Profiled, CountsAreCurrent
<1>2. QED
  BY <1>1, HomeInvariance, PTL

(* The unscoped description reads (journeys, events, notes) are made only   *)
(* for profiles this caller's sections held during the request.             *)
THEOREM HomeReadsInScope == Spec => []ReadsStayInScope
<1>1. IInv => ReadsStayInScope
  BY DEF IInv
<1>2. QED
  BY <1>1, HomeInvariance, PTL

(* No section names a document twice on one combined list, whatever is      *)
(* saved between the Mongo calls and however ties are broken.               *)
THEOREM HomeShowsOnce == Spec => []NoCardTwice
<1>1. IInv => NoCardTwice
  BY DEF IInv
<1>2. QED
  BY <1>1, HomeInvariance, PTL

(* As long as no token carries both the admin and the customer role, the    *)
(* Customer card is the one the token's customer_id names (_customer_match  *)
(* drops that clause for an admin, which the hypothesis excludes).          *)
THEOREM HomeCustomerIsOwn ==
  ASSUME CustomersAreNoAdmins
  PROVE  Spec => []CustomerCardIsOwn
<1>1. ASSUME IInv
      PROVE  CustomerCardIsOwn
  <2>1. DOMAIN cards = 1..Len(cards)
    BY <1>1, LenProperties DEF IInv, TypeOK
  <2>2. QED
    BY <1>1, <2>1, CustomersAreNoAdmins DEF IInv, Good, CustomerCardIsOwn
<1>2. QED
  BY <1>1, HomeInvariance, PTL
=============================================================================
