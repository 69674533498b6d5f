----------------------- MODULE HomeCompletenessProofs -----------------------
(***************************************************************************)
(* A home page overlooks nothing: a first page that is not full shows      *)
(* every document that matched its section all the while.  The hypothesis  *)
(* on customers keeps the Customer section down to one candidate; if two   *)
(* of the same name are open to one caller, the query of one document may  *)
(* return either.                                                          *)
(***************************************************************************)
EXTENDS HomeAssemblyProofs

(* What stayed so far and is not on the list must still be in the queue, or *)
(* the list is as long as a page can be.                                    *)
Complete ==
  /\ \A s \in Source : span.stayed[s] \subseteq Matching[s]
  /\ pc \in Working =>
       \A s \in Source \cap Past :
         span.stayed[s] \subseteq DocsOf(cards, s) \/ Len(cards) >= Limit
  /\ InLoop =>
       \/ span.stayed[here] \subseteq DocsOf(cards, here) \cup DocsOf(queue, here)
       \/ Len(cards) + Len(queue) >= Limit
  /\ pc = "slice" => stage = 7
  /\ NothingStayingIsMissed

-----------------------------------------------------------------------------
(* Orderings by distinct keys *)

(* An ordering leaves no id out. *)
LEMMA OrderingComplete ==
  ASSUME NEW ids, IsFiniteSet(ids), NEW key, NEW list \in Orderings(ids, key), NEW m \in ids
  PROVE  \E i \in 1..Len(list) : list[i] = m
<1>1. Cardinality(ids) \in Nat
  BY FS_CardinalityType
<1>2. list \in [1..Cardinality(ids) -> ids]
  BY DEF Orderings
<1>3. /\ list \in Seq(ids) /\ Len(list) = Cardinality(ids)
      /\ \A i, j \in 1..Len(list) : list[i] = list[j] => i = j
  BY <1>1, <1>2, OrderingShape, IsASeq, LenProperties
<1>4. list \in Injection(1..Cardinality(ids), ids)
  BY <1>2, <1>3 DEF Injection, IsInjective
<1>5. Cardinality(1..Cardinality(ids)) = Cardinality(ids)
  BY <1>1, FS_Interval
<1>6. list \in Surjection(1..Cardinality(ids), ids)
  BY <1>4, <1>5, FS_Injection
<1>7. QED
  BY <1>3, <1>6 DEF Surjection

(* The ids that a sort puts before d. *)
Before(ids, key, d) == {e \in ids : key[e] < key[d]}

Rank(ids, key, d) == Cardinality(Before(ids, key, d))

(* Keys that never meet. *)
DistinctKeys(ids, key) ==
  key \in [ids -> Int] /\ \A d, e \in ids : key[d] = key[e] => d = e

(* Ranks are different places, in the order of the keys. *)
LEMMA RankShape ==
  ASSUME NEW ids, IsFiniteSet(ids), NEW key, DistinctKeys(ids, key)
  PROVE  /\ \A d \in ids : Rank(ids, key, d) \in 0..Cardinality(ids) - 1
         /\ \A d, e \in ids : key[d] < key[e] => Rank(ids, key, d) < Rank(ids, key, e)
         /\ \A d, e \in ids : Rank(ids, key, d) = Rank(ids, key, e) => d = e
<1> DEFINE B(d) == Before(ids, key, d)
<1>1. key \in [ids -> Int] /\ \A d, e \in ids : key[d] = key[e] => d = e
  BY DEF DistinctKeys
<1>2. \A d \in ids : B(d) \subseteq ids /\ d \notin B(d)
  BY <1>1 DEF Before
<1>3. \A d, e \in ids : key[d] < key[e] => B(d) \subseteq B(e) /\ d \in B(e)
  BY <1>1 DEF Before
<1> HIDE DEF B
<1>4. ASSUME NEW S, NEW T, IsFiniteSet(T), S \subseteq T, S # T
      PROVE  /\ Cardinality(S) \in Nat /\ Cardinality(T) \in Nat
             /\ Cardinality(S) < Cardinality(T)
  <2>1. /\ IsFiniteSet(S) /\ Cardinality(S) <= Cardinality(T)
        /\ Cardinality(S) # Cardinality(T)
    BY <1>4, FS_Subset
  <2>2. QED
    BY <1>4, <2>1, FS_CardinalityType
<1>5. \A d \in ids : IsFiniteSet(B(d))
  BY <1>2, FS_Subset
<1>6. \A d \in ids : /\ Cardinality(B(d)) \in Nat /\ Cardinality(ids) \in Nat
                     /\ Cardinality(B(d)) < Cardinality(ids)
  <2> SUFFICES ASSUME NEW d \in ids
               PROVE  /\ Cardinality(B(d)) \in Nat /\ Cardinality(ids) \in Nat
                      /\ Cardinality(B(d)) < Cardinality(ids)
    OBVIOUS
  <2>1. B(d) \subseteq ids /\ B(d) # ids
    BY <1>2
  <2>2. QED
    BY <1>4, <2>1
<1>7. \A d, e \in ids : key[d] < key[e] => Cardinality(B(d)) < Cardinality(B(e))
  <2> SUFFICES ASSUME NEW d \in ids, NEW e \in ids, key[d] < key[e]
               PROVE  Cardinality(B(d)) < Cardinality(B(e))
    OBVIOUS
  <2>1. B(d) \subseteq B(e) /\ B(d) # B(e) /\ IsFiniteSet(B(e))
    BY <1>2, <1>3, <1>5
  <2>2. QED
    BY <1>4, <2>1
<1>8. \A d, e \in ids : Cardinality(B(d)) = Cardinality(B(e)) => d = e
  <2> SUFFICES ASSUME NEW d \in ids, NEW e \in ids, Cardinality(B(d)) = Cardinality(B(e))
               PROVE  d = e
    OBVIOUS
  <2>1. Cardinality(B(d)) \in Nat /\ Cardinality(B(e)) \in Nat
    BY <1>6
  <2>2. ~(key[d] < key[e]) /\ ~(key[e] < key[d])
    BY <1>7, <2>1
  <2>3. key[d] \in Int /\ key[e] \in Int
    BY <1>1
  <2>4. QED
    BY <1>1, <2>2, <2>3
<1>9. QED
  BY <1>6, <1>7, <1>8 DEF Rank, B

(* In an ordering every id stands at its rank. *)
LEMMA OrderingRanks ==
  ASSUME NEW ids, IsFiniteSet(ids), NEW key, DistinctKeys(ids, key),
         NEW list \in Orderings(ids, key), NEW i \in 1..Len(list)
  PROVE  Rank(ids, key, list[i]) = i - 1
<1>1. /\ list \in Seq(ids) /\ Len(list) \in Nat
      /\ \A j, k \in 1..Len(list) : list[j] = list[k] => j = k
  BY OrderingShape, LenProperties
<1>2. Len(list) = Cardinality(ids)
  <2>1. Cardinality(ids) \in Nat /\ list \in [1..Cardinality(ids) -> ids]
    BY FS_CardinalityType DEF Orderings
  <2>2. QED
    BY <1>1, <2>1, LenProperties
<1>3. \A j \in 1..Len(list) : list[j] \in ids
  BY <1>1, ElementOfSeq
<1>4. \A j, k \in 1..Len(list) : j < k => key[list[j]] <= key[list[k]]
  BY <1>2 DEF Orderings
<1>5. key \in [ids -> Int] /\ \A d, e \in ids : key[d] = key[e] => d = e
  BY DEF DistinctKeys
<1>6. \A j, k \in 1..Len(list) : j < k => key[list[j]] < key[list[k]]
  BY <1>1, <1>3, <1>4, <1>5
<1> DEFINE B == Before(ids, key, list[i])
           f == [j \in 1..i - 1 |-> list[j]]
<1>7. \A j \in 1..Len(list) : j < i => list[j] \in B
  BY <1>3, <1>6 DEF Before
<1>8. \A d \in B : \E j \in 1..i - 1 : list[j] = d
  <2> SUFFICES ASSUME NEW d \in B PROVE \E j \in 1..i - 1 : list[j] = d
    OBVIOUS
  <2>1. d \in ids /\ key[d] < key[list[i]]
    BY DEF Before
  <2>2. PICK j \in 1..Len(list) : list[j] = d
    BY <2>1, OrderingComplete
  <2>3. key[list[i]] \in Int /\ key[list[j]] \in Int
    BY <1>3, <1>5
  <2>4. ~(i < j) /\ i # j
    BY <1>6, <2>1, <2>2, <2>3
  <2>5. QED
    BY <1>1, <2>2, <2>4
<1> HIDE DEF B
<1>9. f \in [1..i - 1 -> B] /\ \A j \in 1..i - 1 : j \in 1..Len(list) /\ f[j] = list[j]
  BY <1>1, <1>7
<1> HIDE DEF f
<1>10. f \in Bijection(1..i - 1, B)
  <2>1. f \in Injection(1..i - 1, B)
    BY <1>1, <1>9 DEF Injection, IsInjective
  <2>2. f \in Surjection(1..i - 1, B)
    BY <1>8, <1>9 DEF Surjection
  <2>3. QED
    BY <2>1, <2>2 DEF Bijection
<1>11. i \in Nat /\ IsFiniteSet(1..i - 1) /\ Cardinality(1..i - 1) = i - 1
  BY FS_Interval
<1>12. QED
  BY <1>10, <1>11, FS_Bijection DEF ExistsBijection, Rank, B

(* A sort by distinct keys leaves the database no choice. *)
LEMMA OneOrdering ==
  ASSUME NEW ids, IsFiniteSet(ids), NEW key, DistinctKeys(ids, key)
  PROVE  \E list : Orderings(ids, key) = {list}
<1> DEFINE n == Cardinality(ids)
           place == [d \in ids |-> Rank(ids, key, d) + 1]
<1>1. n \in Nat
  BY FS_CardinalityType
<1>2. /\ key \in [ids -> Int]
      /\ \A d \in ids : Rank(ids, key, d) \in 0..n - 1
      /\ \A d, e \in ids : key[d] < key[e] => Rank(ids, key, d) < Rank(ids, key, e)
      /\ \A d, e \in ids : Rank(ids, key, d) = Rank(ids, key, e) => d = e
  BY RankShape DEF DistinctKeys
<1>3. /\ place \in [ids -> 1..n]
      /\ \A d \in ids : place[d] = Rank(ids, key, d) + 1
  BY <1>1, <1>2
<1>4. \A d, e \in ids : place[d] = place[e] => d = e
  <2> SUFFICES ASSUME NEW d \in ids, NEW e \in ids, place[d] = place[e] PROVE d = e
    OBVIOUS
  <2>1. Rank(ids, key, d) \in Int /\ Rank(ids, key, e) \in Int
    BY <1>1, <1>2
  <2>2. Rank(ids, key, d) = Rank(ids, key, e)
    BY <1>3, <2>1
  <2>3. QED
    BY <1>2, <2>2
<1> HIDE DEF place, n
<1>5. place \in Surjection(ids, 1..n)
  <2>1. place \in Injection(ids, 1..n)
    BY <1>3, <1>4 DEF Injection, IsInjective
  <2>2. IsFiniteSet(1..n) /\ Cardinality(1..n) = n
    BY <1>1, FS_Interval
  <2>3. QED
    BY <2>1, <2>2, FS_Injection DEF n
<1> DEFINE list == [i \in 1..n |-> CHOOSE d \in ids : place[d] = i]
<1>6. list \in [1..n -> ids] /\ \A i \in 1..n : place[list[i]] = i
  <2>1. \A i \in 1..n : \E d \in ids : place[d] = i
    BY <1>5 DEF Surjection
  <2>2. QED
    BY <2>1
<1> HIDE DEF list
<1>7. \A i, j \in 1..n : i < j => list[i] # list[j] /\ key[list[i]] <= key[list[j]]
  <2> SUFFICES ASSUME NEW i \in 1..n, NEW j \in 1..n, i < j
               PROVE  list[i] # list[j] /\ key[list[i]] <= key[list[j]]
    OBVIOUS
  <2>1. list[i] \in ids /\ list[j] \in ids /\ place[list[i]] = i /\ place[list[j]] = j
    BY <1>6
  <2>2. key[list[i]] \in Int /\ key[list[j]] \in Int
    BY <1>2, <2>1
  <2>3. ~(key[list[j]] < key[list[i]])
    <3> SUFFICES ASSUME key[list[j]] < key[list[i]] PROVE FALSE
      OBVIOUS
    <3>1. Rank(ids, key, list[j]) < Rank(ids, key, list[i])
      BY <1>2, <2>1
    <3>2. /\ Rank(ids, key, list[j]) + 1 = j /\ Rank(ids, key, list[i]) + 1 = i
          /\ Rank(ids, key, list[j]) \in Int /\ Rank(ids, key, list[i]) \in Int
      BY <1>1, <1>2, <1>3, <2>1
    <3>3. QED
      BY <1>1, <3>1, <3>2
  <2>4. QED
    BY <1>1, <2>1, <2>2, <2>3
<1>8. list \in Orderings(ids, key)
  BY <1>6, <1>7 DEF Orderings, n
<1>9. ASSUME NEW other \in Orderings(ids, key)
      PROVE  other = list
  <2>1. other \in [1..n -> ids] /\ Len(other) = n /\ list \in Seq(ids) /\ Len(list) = n
    <3>1. other \in Seq(ids) /\ list \in Seq(ids)
      BY <1>8, OrderingShape
    <3>2. other \in [1..n -> ids]
      BY DEF Orderings, n
    <3>3. Len(other) = n
      BY <1>1, <3>1, <3>2, LenProperties
    <3>4. Len(list) = n
      BY <1>1, <1>6, <3>1, LenProperties
    <3>5. QED
      BY <3>1, <3>2, <3>3, <3>4
  <2>2. \A i \in 1..n : other[i] = list[i]
    <3> SUFFICES ASSUME NEW i \in 1..n PROVE other[i] = list[i]
      OBVIOUS
    <3>1. Rank(ids, key, other[i]) = i - 1 /\ Rank(ids, key, list[i]) = i - 1
      BY <1>8, <2>1, OrderingRanks
    <3>2. other[i] \in ids /\ list[i] \in ids
      BY <1>6, <2>1
    <3>3. QED
      BY <1>2, <3>1, <3>2
  <2>3. QED
    BY <1>6, <2>1, <2>2
<1>10. QED
  BY <1>8, <1>9

-----------------------------------------------------------------------------
(* The one Customer card *)

(* Of the customers that one caller can ask for, the first by name is       *)
(* certain: no token carries both roles, or no two names are the same.      *)
CustomerIsCertain ==
  \/ CustomersAreNoAdmins
  \/ \A c, d \in Customer : Customers0[c].name = Customers0[d].name => c = d

(* No write renames a customer. *)
NamesKept == \A c \in Customer : customers[c].name = Customers0[c].name

LEMMA StepNamesKept ==
  ASSUME IInv, NamesKept, [Next]_vars
  PROVE  NamesKept'
<1>1. customers \in [Customer -> CustomerDoc]
  BY DEF IInv, TypeOK
<1>2. CASE UNCHANGED customers
  BY <1>2 DEF NamesKept
<1>3. ASSUME NEW c \in Customer, ArchiveCustomer(c)
      PROVE  NamesKept'
  <2>1. customers' = [customers EXCEPT ![c] = [customers[c] EXCEPT !.status = "archived"]]
    BY <1>3 DEF ArchiveCustomer
  <2>2. [customers[c] EXCEPT !.status = "archived"].name = customers[c].name
    BY <1>1 DEF CustomerDoc
  <2>3. QED
    BY <1>1, <2>1, <2>2 DEF NamesKept
<1>4. UNCHANGED store => UNCHANGED customers
  BY DEF store
<1>5. QED
  BY <1>2, <1>3, <1>4 DEF Next, Others, CreateNotice, RetireNotice, SaveProfile, EventsMove, Ask,
     TurnPage, Begin, Work, SkipSection, FetchCards, FetchProfiles, ReadJourney, CountEvents,
     ReadNotes, Slice, MongoFails, WalkOver, vars

(* So their query has one answer, with at most one customer, and with one   *)
(* if there is any.                                                         *)
LEMMA OneCustomerList ==
  ASSUME CustomerIsCertain, NEW who \in Caller, NEW docs \in [Customer -> CustomerDoc],
         \A c \in Customer : docs[c].name = Customers0[c].name, Opens(who, "customer")
  PROVE  \E list \in Seq(CustomersFor(who, docs)) :
           /\ CustomerQuery(who, docs) = {list}
           /\ Len(list) = IF CustomersFor(who, docs) = {} THEN 0 ELSE 1
<1> DEFINE ids == CustomersFor(who, docs)
           key == [c \in ids |-> docs[c].name]
<1>1. ids \subseteq Customer /\ IsFiniteSet(ids)
  BY FiniteAssumption, FS_Subset DEF CustomersFor
<1>2. \A c \in ids : docs[c].name \in Nat /\ docs[c].name = Customers0[c].name
  BY <1>1 DEF CustomerDoc
<1>3. ASSUME CustomersAreNoAdmins
      PROVE  \A c, d \in ids : c = d
  <2>1. ~IsAdmin(who)
    BY <1>3 DEF Opens, CustomersAreNoAdmins, IsAdmin
  <2>2. \A c \in ids : c = Encode(who.claim["customer_id"])
    BY <2>1 DEF CustomersFor, Outbound, Names
  <2>3. QED
    BY <2>2
<1>4. CustomerQuery(who, docs) = {FirstOf(list, 1) : list \in Orderings(ids, key)}
  BY DEF CustomerQuery
<1> HIDE DEF ids
<1>5. \A c, d \in ids : key[c] = key[d] => c = d
  BY <1>1, <1>2, <1>3 DEF CustomerIsCertain
<1>6. DistinctKeys(ids, key)
  BY <1>2, <1>5 DEF DistinctKeys
<1>7. PICK l : Orderings(ids, key) = {l}
  BY <1>1, <1>6, OneOrdering
<1>8. CustomerQuery(who, docs) = {FirstOf(l, 1)}
  BY <1>4, <1>7
<1> HIDE DEF key
<1>9. l \in Seq(ids) /\ Len(l) \in Nat /\ \A m \in ids : \E i \in 1..Len(l) : l[i] = m
  BY <1>1, <1>7, OrderingShape, OrderingComplete, LenProperties
<1>10. ids # {} <=> Len(l) >= 1
  BY <1>9, ElementOfSeq
<1>11. PICK k, one : k = Len(l) /\ one = FirstOf(l, 1)
  OBVIOUS
<1>12. one \in Seq(ids) /\ Len(one) = IF 1 < k THEN 1 ELSE k
  BY <1>9, <1>11, FirstOfShape
<1>13. k \in Nat /\ (ids # {} <=> k >= 1)
  BY <1>9, <1>10, <1>11
<1>14. (IF 1 < k THEN 1 ELSE k) = IF ids = {} THEN 0 ELSE 1
  BY <1>13
<1>15. QED
  BY <1>8, <1>11, <1>12, <1>14 DEF ids

-----------------------------------------------------------------------------
(* Queries *)

(* A listing of an open section has every document that a listing may have. *)
LEMMA ListingComplete ==
  ASSUME CustomerIsCertain, NamesKept, TypeOK, NEW s \in Source, Opens(caller, s),
         NEW list \in Listings(s), NEW m \in Matching[s]
  PROVE  \E i \in 1..Len(list) : list[i] = m
<1>1. PICK other \in Listings(s) : m \in {other[i] : i \in DOMAIN other}
  BY DEF Matching
<1>2. s \in Section
  BY DEF Source, Section
<1>3. other \in Seq(Item) /\ \E i \in 1..Len(other) : other[i] = m
  BY <1>1, <1>2, ListingShape, LenProperties
<1>4. CASE s = "notifications"
  <2> DEFINE ids == ActiveFor(caller, notices)
  <2>1. ids \subseteq Notice /\ IsFiniteSet(ids)
    BY FiniteAssumption, FS_Subset DEF ActiveFor
  <2>2. /\ list \in Orderings(ids, [d \in ids |-> -notices[d].at])
        /\ other \in Orderings(ids, [d \in ids |-> -notices[d].at])
    BY <1>4 DEF Listings, NewestFirst
  <2> HIDE DEF ids
  <2>3. m \in ids
    BY <1>3, <2>1, <2>2, OrderingShape, ElementOfSeq
  <2>4. QED
    BY <2>1, <2>2, <2>3, OrderingComplete
<1>5. CASE s = "members"
  <2> DEFINE ids == MembersFor(caller, profiles)
  <2>1. ids \subseteq Profile /\ IsFiniteSet(ids)
    BY FiniteAssumption, FS_Subset DEF MembersFor
  <2>2. /\ list \in Orderings(ids, [d \in ids |-> -profiles[d].at])
        /\ other \in Orderings(ids, [d \in ids |-> -profiles[d].at])
    BY <1>5 DEF Listings, NewestFirst
  <2> HIDE DEF ids
  <2>3. m \in ids
    BY <1>3, <2>1, <2>2, OrderingShape, ElementOfSeq
  <2>4. QED
    BY <2>1, <2>2, <2>3, OrderingComplete
<1>6. CASE s = "mentees"
  <2> DEFINE ids == MenteesFor(caller, profiles)
  <2>1. ids \subseteq Profile /\ IsFiniteSet(ids)
    BY FiniteAssumption, FS_Subset DEF MenteesFor
  <2>2. /\ list \in Orderings(ids, [d \in ids |-> -profiles[d].at])
        /\ other \in Orderings(ids, [d \in ids |-> -profiles[d].at])
    BY <1>6 DEF Listings, NewestFirst
  <2> HIDE DEF ids
  <2>3. m \in ids
    BY <1>3, <2>1, <2>2, OrderingShape, ElementOfSeq
  <2>4. QED
    BY <2>1, <2>2, <2>3, OrderingComplete
<1>7. CASE s = "customer"
  <2>1. PICK l : Listings(s) = {l}
    BY <1>7, OneCustomerList DEF Listings, NamesKept, TypeOK
  <2>2. QED
    BY <1>3, <2>1
<1>8. QED
  BY <1>4, <1>5, <1>6, <1>7 DEF Source

(* A contribution is cut at the limit, or it is complete. *)
LEMMA FetchedComplete ==
  ASSUME CustomerIsCertain, NamesKept, IInv, stage \in 1..6, Opens(caller, here), here \in Source,
         NEW list \in Listings(here)
  PROVE  LET f == Fetched(list)
         IN Len(f) >= Limit \/ Matching[here] \subseteq DocsOf(f, here)
<1> DEFINE docs == CardsOf(here, list)
           f == Fetched(list)
<1>1. here \in Section
  BY DEF here, SectionOrder, Section
<1>2. Limit \in Nat
  BY MaxSizeAssumption, BoundAssumption DEF Limit, SectionSize, IInv, TypeOK
<1>3. list \in Seq(Item) /\ Len(list) \in Nat /\ \A i \in 1..Len(list) : list[i] \in Item
  BY <1>1, ListingShape, LenProperties, ElementOfSeq
<1>4. /\ docs \in [1..Len(list) -> CardSpace]
      /\ \A i \in 1..Len(list) : docs[i].section = here /\ docs[i].doc = list[i]
  BY <1>1, <1>3 DEF CardsOf, Card, CardSpace
<1> HIDE DEF docs
<1>5. docs \in Seq(CardSpace) /\ Len(docs) = Len(list)
  BY <1>3, <1>4, IsASeq, LenProperties
<1>6. f = IF here \in PagedSection THEN FirstOf(docs, Limit) ELSE docs
  BY DEF Fetched, Contribution, docs
<1> HIDE DEF f
<1>7. f \in Seq(CardSpace) /\ Len(f) \in Nat
      /\ \/ Len(f) >= Limit
         \/ Len(f) = Len(docs) /\ \A i \in 1..Len(f) : f[i] = docs[i]
  <2>1. CASE here \in PagedSection
    BY <1>2, <1>3, <1>5, <1>6, <2>1, FirstOfShape
  <2>2. CASE here \notin PagedSection
    BY <1>3, <1>5, <1>6, <2>2
  <2>3. QED
    BY <2>1, <2>2
<1>8. TypeOK
  BY DEF IInv
<1>9. \A m \in Matching[here] : \E i \in 1..Len(list) : list[i] = m
  BY <1>8, ListingComplete
<1>10. DOMAIN f = 1..Len(f)
  BY <1>7, LenProperties
<1>11. ASSUME Len(f) = Len(docs), \A i \in 1..Len(f) : f[i] = docs[i], NEW m \in Matching[here]
       PROVE  m \in DocsOf(f, here)
  <2>1. PICK i \in 1..Len(list) : list[i] = m
    BY <1>9
  <2>2. i \in DOMAIN f /\ f[i].section = here /\ f[i].doc = m
    BY <1>4, <1>5, <1>10, <1>11, <2>1
  <2>3. QED
    BY <2>2 DEF DocsOf
<1>12. QED
  BY <1>7, <1>11 DEF f

-----------------------------------------------------------------------------
(* Documents of a list of cards *)

LEMMA DocsOfShape ==
  ASSUME NEW list \in Seq(CardSpace), NEW s, NEW m
  PROVE  m \in DocsOf(list, s) <=>
           \E i \in 1..Len(list) : list[i].section = s /\ list[i].doc = m
<1>1. DOMAIN list = 1..Len(list)
  BY LenProperties
<1>2. QED
  BY <1>1 DEF DocsOf

LEMMA DocsOfNothing ==
  ASSUME NEW s
  PROVE  DocsOf(<<>>, s) = {}
<1>1. DOMAIN <<>> = {}
  OBVIOUS
<1>2. QED
  BY <1>1 DEF DocsOf

LEMMA DocsOfConcat ==
  ASSUME NEW a \in Seq(CardSpace), NEW b \in Seq(CardSpace), NEW s
  PROVE  DocsOf(a, s) \cup DocsOf(b, s) \subseteq DocsOf(a \o b, s)
<1>1. /\ a \o b \in Seq(CardSpace) /\ Len(a) \in Nat /\ Len(b) \in Nat
      /\ Len(a \o b) = Len(a) + Len(b)
      /\ \A i \in 1..Len(a) + Len(b) : (a \o b)[i] = IF i <= Len(a) THEN a[i] ELSE b[i - Len(a)]
  BY ConcatProperties, LenProperties
<1> DEFINE ab == a \o b
<1> HIDE DEF ab
<1>2. /\ ab \in Seq(CardSpace) /\ Len(ab) = Len(a) + Len(b)
      /\ \A i \in 1..Len(a) : ab[i] = a[i]
      /\ \A i \in 1..Len(b) : ab[Len(a) + i] = b[i]
  BY <1>1 DEF ab
<1>3. ASSUME NEW m \in DocsOf(a, s)
      PROVE  m \in DocsOf(ab, s)
  <2>1. PICK i \in 1..Len(a) : a[i].section = s /\ a[i].doc = m
    BY DocsOfShape
  <2>2. i \in 1..Len(ab) /\ ab[i].section = s /\ ab[i].doc = m
    BY <1>1, <1>2, <2>1
  <2>3. QED
    BY <1>2, <2>2, DocsOfShape
<1>4. ASSUME NEW m \in DocsOf(b, s)
      PROVE  m \in DocsOf(ab, s)
  <2>1. PICK i \in 1..Len(b) : b[i].section = s /\ b[i].doc = m
    BY DocsOfShape
  <2>2. Len(a) + i \in 1..Len(ab) /\ ab[Len(a) + i].section = s /\ ab[Len(a) + i].doc = m
    BY <1>1, <1>2, <2>1
  <2>3. QED
    BY <1>2, <2>2, DocsOfShape
<1>5. QED
  BY <1>3, <1>4 DEF ab

(* A queued card that is appended to the list is lost to neither. *)
LEMMA DocsOfMove ==
  ASSUME NEW list \in Seq(CardSpace), NEW line \in Seq(CardSpace), line # <<>>,
         NEW card \in CardSpace, NEW s,
         card.section = line[1].section, card.doc = line[1].doc
  PROVE  /\ DocsOf(list, s) \subseteq DocsOf(Append(list, card), s)
         /\ DocsOf(line, s) \subseteq DocsOf(Append(list, card), s) \cup DocsOf(Tail(line), s)
<1> DEFINE list2 == Append(list, card)
           line2 == Tail(line)
<1>1. /\ list2 \in Seq(CardSpace) /\ Len(list) \in Nat /\ Len(list2) = Len(list) + 1
      /\ \A i \in 1..Len(list) : list2[i] = list[i]
      /\ list2[Len(list) + 1] = card
  BY AppendProperties, LenProperties
<1>2. /\ line2 \in Seq(CardSpace) /\ Len(line) \in Nat \ {0} /\ Len(line2) = Len(line) - 1
      /\ \A i \in 1..Len(line2) : line2[i] = line[i + 1]
  BY HeadTailProperties, LenProperties, EmptySeq
<1> HIDE DEF list2, line2
<1>3. ASSUME NEW m \in DocsOf(list, s)
      PROVE  m \in DocsOf(list2, s)
  <2>1. PICK i \in 1..Len(list) : list[i].section = s /\ list[i].doc = m
    BY DocsOfShape
  <2>2. i \in 1..Len(list2) /\ list2[i].section = s /\ list2[i].doc = m
    BY <1>1, <2>1
  <2>3. QED
    BY <1>1, <2>2, DocsOfShape
<1>4. ASSUME NEW m \in DocsOf(line, s)
      PROVE  m \in DocsOf(list2, s) \cup DocsOf(line2, s)
  <2>1. PICK i \in 1..Len(line) : line[i].section = s /\ line[i].doc = m
    BY DocsOfShape
  <2>2. CASE i = 1
    <3>1. Len(list) + 1 \in 1..Len(list2) /\ list2[Len(list) + 1].section = s
          /\ list2[Len(list) + 1].doc = m
      BY <1>1, <2>1, <2>2
    <3>2. QED
      BY <1>1, <3>1, DocsOfShape
  <2>3. CASE i # 1
    <3>1. i - 1 \in 1..Len(line2) /\ line2[i - 1].section = s /\ line2[i - 1].doc = m
      BY <1>2, <2>1, <2>3
    <3>2. QED
      BY <1>2, <3>1, DocsOfShape
  <2>4. QED
    BY <2>2, <2>3
<1>5. QED
  BY <1>3, <1>4 DEF list2, line2

-----------------------------------------------------------------------------
(* Steps *)

(* A step that writes nothing keeps what the sections hold. *)
LEMMA StillMatching ==
  ASSUME Complete, UNCHANGED <<store, caller>>, span'.stayed = span.stayed
  PROVE  Matching' = Matching /\ \A s \in Source : span'.stayed[s] \subseteq Matching'[s]
<1>1. Matching' = Matching
  BY DEF Matching, Listings, store
<1>2. QED
  BY <1>1 DEF Complete

LEMMA BeginCompletes ==
  ASSUME IInv, NEW o, Begin(o)
  PROVE  Complete'
<1>1. /\ pc' = "fetch" /\ stage' = 1 /\ UNCHANGED <<store, caller>> /\ span'.stayed = Matching
  BY DEF Begin
<1>2. Matching' = Matching
  BY <1>1 DEF Matching, Listings, store
<1>3. Past' = {}
  BY <1>1 DEF Past
<1>4. QED
  BY <1>1, <1>2, <1>3 DEF Complete, InLoop, NothingStayingIsMissed

(* The end of a section whose cards are on the list. *)
LEMMA SectionDone ==
  ASSUME IInv, Complete, pc \in Working, NextStage, stage \in 1..6,
         UNCHANGED <<store, caller, offset>>, span'.stayed = span.stayed,
         \A s \in Source : DocsOf(cards, s) \subseteq DocsOf(cards', s),
         Len(cards) \in Nat, Len(cards') \in Nat, Len(cards') >= Len(cards),
         here \in Source =>
           span.stayed[here] \subseteq DocsOf(cards', here) \/ Len(cards') >= Limit
  PROVE  Complete'
<1>1. Limit' = Limit /\ Limit \in Nat
  BY MaxSizeAssumption, BoundAssumption DEF Limit, SectionSize, IInv, TypeOK
<1>2. /\ Past' = Past \cup {here} /\ pc' \in {"fetch", "slice"} /\ ~InLoop'
      /\ pc' = "slice" => stage' = 7
  <2>1. Past' = Past \cup {here} /\ pc' \in {"fetch", "slice"} /\ ~InLoop'
    BY NextStageFacts
  <2>2. Len(SectionOrder) = 6
    BY StageFacts
  <2>3. pc' = "slice" => stage' = 7
    BY <2>2 DEF NextStage
  <2>4. QED
    BY <2>1, <2>3
<1>3. \A s \in Source : span'.stayed[s] \subseteq Matching'[s]
  BY StillMatching
<1>4. \A s \in Source \cap Past' :
        span'.stayed[s] \subseteq DocsOf(cards', s) \/ Len(cards') >= Limit'
  <2>1. ASSUME NEW s \in Source \cap Past
        PROVE  span'.stayed[s] \subseteq DocsOf(cards', s) \/ Len(cards') >= Limit'
    <3>1. span.stayed[s] \subseteq DocsOf(cards, s) \/ Len(cards) >= Limit
      BY DEF Complete
    <3>2. CASE span.stayed[s] \subseteq DocsOf(cards, s)
      BY <3>2
    <3>3. CASE Len(cards) >= Limit
      BY <1>1, <3>3
    <3>4. QED
      BY <3>1, <3>2, <3>3
  <2>2. here \in Source =>
          span'.stayed[here] \subseteq DocsOf(cards', here) \/ Len(cards') >= Limit'
    BY <1>1
  <2>3. QED
    BY <1>2, <2>1, <2>2
<1>5. NothingStayingIsMissed'
  BY <1>2 DEF NothingStayingIsMissed
<1>6. QED
  BY <1>2, <1>3, <1>4, <1>5 DEF Complete

LEMMA SkipSectionCompletes ==
  ASSUME IInv, Complete, SkipSection
  PROVE  Complete'
<1>1. /\ pc \in Working /\ stage \in 1..6 /\ NextStage /\ ~Opens(caller, here)
      /\ UNCHANGED <<store, caller, offset>> /\ span' = span /\ cards' = cards
  BY DEF IInv, StageFits, SkipSection, walk, Working
<1>2. here \in Source => span.stayed[here] = {}
  BY <1>1 DEF Complete, Matching
<1>3. Len(cards) \in Nat
  BY LenProperties DEF IInv, TypeOK
<1>4. QED
  BY <1>1, <1>2, <1>3, SectionDone

LEMMA FetchCardsCompletes ==
  ASSUME CustomerIsCertain, NamesKept, IInv, Complete, FetchCards
  PROVE  Complete'
<1>1. /\ pc \in Working /\ stage \in 1..6 /\ NextStage /\ Opens(caller, here)
      /\ UNCHANGED <<store, caller, offset>> /\ span' = span
  BY DEF IInv, StageFits, FetchCards, walk, Working
<1>2. PICK list \in Listings(here) : cards' = cards \o Fetched(list)
  BY DEF FetchCards
<1> DEFINE f == Fetched(list)
<1>3. f \in Seq(CardSpace) /\ Len(f) \in Nat
  BY <1>1, FetchedShape DEF IInv
<1>4. here \in Source => Len(f) >= Limit \/ Matching[here] \subseteq DocsOf(f, here)
  BY <1>1, FetchedComplete
<1> HIDE DEF f
<1>5. cards \in Seq(CardSpace) /\ Len(cards) \in Nat
  BY LenProperties DEF IInv, TypeOK
<1>6. /\ Len(cards') = Len(cards) + Len(f)
      /\ \A s : DocsOf(cards, s) \cup DocsOf(f, s) \subseteq DocsOf(cards', s)
  BY <1>2, <1>3, <1>5, ConcatProperties, DocsOfConcat DEF f
<1>7. here \in Source =>
        span.stayed[here] \subseteq DocsOf(cards', here) \/ Len(cards') >= Limit
  <2>1. Limit \in Nat
    BY MaxSizeAssumption, BoundAssumption DEF Limit, SectionSize, IInv, TypeOK
  <2>2. ASSUME here \in Source, Len(f) >= Limit
        PROVE  Len(cards') >= Limit
    BY <1>3, <1>5, <1>6, <2>1, <2>2
  <2>3. ASSUME here \in Source, Matching[here] \subseteq DocsOf(f, here)
        PROVE  span.stayed[here] \subseteq DocsOf(cards', here)
    BY <1>6, <2>3 DEF Complete
  <2>4. QED
    BY <1>4, <2>2, <2>3
<1>8. Len(cards') \in Nat /\ Len(cards') >= Len(cards)
  BY <1>3, <1>5, <1>6
<1>9. QED
  BY <1>1, <1>5, <1>6, <1>7, <1>8, SectionDone

(* In the loop nothing is lost between the queue and the list. *)
LEMMA LoopGoesOn ==
  ASSUME IInv, Complete, pc \in Working, InLoop', UNCHANGED <<store, caller, offset, stage>>,
         span'.stayed = span.stayed, here \in Source, here \notin Past,
         \A s \in Source : DocsOf(cards, s) \subseteq DocsOf(cards', s),
         Len(cards) \in Nat, Len(cards') \in Nat, Len(cards') >= Len(cards),
         \/ span.stayed[here] \subseteq DocsOf(cards', here) \cup DocsOf(queue', here)
         \/ Len(cards') + Len(queue') >= Limit
  PROVE  Complete'
<1>1. Limit' = Limit /\ here' = here /\ Past' = Past /\ Limit \in Nat
  BY MaxSizeAssumption, BoundAssumption DEF Limit, here, Past, SectionSize, IInv, TypeOK
<1>2. \A s \in Source : span'.stayed[s] \subseteq Matching'[s]
  BY StillMatching
<1>3. ASSUME NEW s \in Source \cap Past'
      PROVE  span'.stayed[s] \subseteq DocsOf(cards', s) \/ Len(cards') >= Limit'
  <2>1. span.stayed[s] \subseteq DocsOf(cards, s) \/ Len(cards) >= Limit
    BY <1>1 DEF Complete
  <2>2. CASE span.stayed[s] \subseteq DocsOf(cards, s)
    BY <2>2
  <2>3. CASE Len(cards) >= Limit
    BY <1>1, <2>3
  <2>4. QED
    BY <2>1, <2>2, <2>3
<1>4. pc' # "slice" /\ NothingStayingIsMissed'
  BY DEF InLoop, NothingStayingIsMissed
<1>5. QED
  BY <1>1, <1>2, <1>3, <1>4 DEF Complete

LEMMA FetchProfilesCompletes ==
  ASSUME CustomerIsCertain, NamesKept, IInv, Complete, FetchProfiles
  PROVE  Complete'
<1>1. /\ pc \in Working /\ stage \in 1..6 /\ Opens(caller, here) /\ here \in Profiled
      /\ here \in Source /\ here \notin Past
      /\ UNCHANGED <<store, caller, offset>> /\ span' = span /\ cards' = cards
  BY StageFacts DEF IInv, StageFits, FetchProfiles, walk, Working, Profiled, Source
<1>2. PICK list \in Listings(here) : queue' = Fetched(list)
  BY DEF FetchProfiles
<1>3. queue' \in Seq(CardSpace) /\ Len(queue') \in Nat
  BY <1>1, <1>2, FetchedShape DEF IInv
<1>4. Len(queue') >= Limit \/ Matching[here] \subseteq DocsOf(queue', here)
  BY <1>1, <1>2, FetchedComplete
<1>5. cards \in Seq(CardSpace) /\ Len(cards) \in Nat /\ Limit \in Nat
  BY LenProperties, MaxSizeAssumption, BoundAssumption DEF Limit, SectionSize, IInv, TypeOK
<1>6. span.stayed[here] \subseteq Matching[here]
  BY <1>1 DEF Complete
<1>7. CASE queue' = <<>> /\ NextStage
  <2>1. Len(queue') = 0
    BY <1>7, EmptySeq
  <2>2. DocsOf(queue', here) = {}
    BY <1>7, DocsOfNothing
  <2>3. span.stayed[here] \subseteq DocsOf(cards', here) \/ Len(cards') >= Limit
    BY <1>1, <1>4, <1>5, <1>6, <2>1, <2>2
  <2>4. QED
    BY <1>1, <1>5, <1>7, <2>3, SectionDone
<1>8. CASE queue' # <<>> /\ pc' = Enrich(here) /\ UNCHANGED stage
  <2>1. InLoop'
    BY <1>1, <1>8 DEF Enrich, InLoop
  <2>2. \/ span.stayed[here] \subseteq DocsOf(cards', here) \cup DocsOf(queue', here)
        \/ Len(cards') + Len(queue') >= Limit
    <3>1. CASE Len(queue') >= Limit
      BY <1>1, <1>3, <1>5, <3>1
    <3>2. CASE Matching[here] \subseteq DocsOf(queue', here)
      BY <1>6, <3>2
    <3>3. QED
      BY <1>4, <3>1, <3>2
  <2>3. QED
    BY <1>1, <1>5, <1>8, <2>1, <2>2, LoopGoesOn
<1>9. QED
  BY <1>7, <1>8 DEF FetchProfiles

LEMMA AppendCompletes ==
  ASSUME IInv, Complete, InLoop, NEW card \in CardSpace,
         card.section = here, card.doc = queue[1].doc, AppendCard(card),
         UNCHANGED <<store, walk>>, span'.stayed = span.stayed
  PROVE  Complete'
<1>1. /\ stage \in 1..6 /\ here \in Source /\ here \notin Past /\ pc \in Working
      /\ queue \in Seq(CardSpace) /\ queue # <<>> /\ queue[1].section = here
      /\ Len(queue) \in Nat \ {0}
      /\ Tail(queue) \in Seq(CardSpace) /\ Len(Tail(queue)) = Len(queue) - 1
      /\ UNCHANGED <<caller, offset>>
  BY LoopFacts DEF Profiled, Source, InLoop, Working, walk
<1>2. /\ cards' = Append(cards, card) /\ queue' = Tail(queue)
      /\ \/ queue' = <<>> /\ NextStage
         \/ queue' # <<>> /\ pc' = Enrich(here) /\ UNCHANGED stage
  BY DEF AppendCard
<1>3. cards \in Seq(CardSpace) /\ Len(cards) \in Nat /\ Limit \in Nat
  BY LenProperties, MaxSizeAssumption, BoundAssumption DEF Limit, SectionSize, IInv, TypeOK
<1>4. Len(cards') = Len(cards) + 1
  BY <1>2, <1>3, AppendProperties
<1>5. /\ \A s : DocsOf(cards, s) \subseteq DocsOf(cards', s)
      /\ DocsOf(queue, here) \subseteq DocsOf(cards', here) \cup DocsOf(queue', here)
  BY <1>1, <1>2, <1>3, DocsOfMove
<1>6. /\ Len(cards') \in Nat /\ Len(cards') >= Len(cards) /\ Len(queue') \in Nat
      /\ Len(cards') + Len(queue') = Len(cards) + Len(queue)
  BY <1>1, <1>2, <1>3, <1>4
<1>7. \/ span.stayed[here] \subseteq DocsOf(cards', here) \cup DocsOf(queue', here)
      \/ Len(cards') + Len(queue') >= Limit
  <2>1. \/ span.stayed[here] \subseteq DocsOf(cards, here) \cup DocsOf(queue, here)
        \/ Len(cards) + Len(queue) >= Limit
    BY DEF Complete
  <2>2. CASE span.stayed[here] \subseteq DocsOf(cards, here) \cup DocsOf(queue, here)
    BY <1>5, <2>2
  <2>3. CASE Len(cards) + Len(queue) >= Limit
    BY <1>6, <2>3
  <2>4. QED
    BY <2>1, <2>2, <2>3
<1>8. CASE queue' = <<>> /\ NextStage
  <2>1. Len(queue') = 0 /\ queue' \in Seq(CardSpace)
    BY <1>8, EmptySeq
  <2>2. DocsOf(queue', here) = {}
    BY <1>8, DocsOfNothing
  <2>3. span.stayed[here] \subseteq DocsOf(cards', here) \/ Len(cards') >= Limit
    BY <1>6, <1>7, <2>1, <2>2
  <2>4. QED
    BY <1>1, <1>3, <1>5, <1>6, <1>8, <2>3, SectionDone
<1>9. CASE queue' # <<>> /\ pc' = Enrich(here) /\ UNCHANGED stage
  <2>1. InLoop'
    BY <1>9 DEF Enrich, InLoop
  <2>2. QED
    BY <1>1, <1>3, <1>5, <1>6, <1>7, <1>9, <2>1, LoopGoesOn
<1>10. QED
  BY <1>2, <1>8, <1>9

LEMMA DescribeCompletes ==
  ASSUME IInv, Complete, ReadJourney \/ CountEvents \/ ReadNotes
  PROVE  Complete'
<1>1. /\ InLoop /\ pc \in Working /\ UNCHANGED <<store, walk>>
      /\ UNCHANGED <<caller, offset>>
  BY DEF ReadJourney, CountEvents, ReadNotes, InLoop, walk, Working
<1>2. span'.stayed = span.stayed
  BY DEF ReadJourney, CountEvents, ReadNotes, IInv, SpanCovers, SpanSpace
<1>3. /\ here \in Source /\ here \notin Past
      /\ queue \in Seq(CardSpace) /\ queue # <<>> /\ Len(queue) \in Nat \ {0}
      /\ Head(queue) = queue[1] /\ queue[1] \in CardSpace /\ queue[1].section = here
      /\ queue[1].doc \in Profile
      /\ Tail(queue) \in Seq(CardSpace) /\ Len(Tail(queue)) = Len(queue) - 1
      /\ \A i \in 1..Len(Tail(queue)) : Tail(queue)[i] = queue[i + 1]
  BY <1>1, LoopFacts DEF Profiled, Source
<1>4. Len(cards) \in Nat
  BY LenProperties DEF IInv, TypeOK
<1>5. \/ span.stayed[here] \subseteq DocsOf(cards, here) \cup DocsOf(queue, here)
      \/ Len(cards) + Len(queue) >= Limit
  BY <1>1 DEF Complete
<1>6. CASE ReadJourney
  <2>1. InLoop' /\ UNCHANGED <<stage, queue, cards>>
    BY <1>6 DEF ReadJourney, InLoop
  <2>2. QED
    BY <1>1, <1>2, <1>3, <1>4, <1>5, <2>1, LoopGoesOn
<1>7. CASE CountEvents
  <2>1. PICK card : card = Described(Head(queue))
    OBVIOUS
  <2>2. card \in CardSpace /\ card.section = here /\ card.doc = queue[1].doc
    BY <1>3, <2>1 DEF Described, CardSpace, IInv, TypeOK
  <2>3. CASE AppendCard(Described(Head(queue)))
    <3>1. AppendCard(card)
      BY <2>1, <2>3
    <3>2. QED
      BY <1>1, <1>2, <2>2, <3>1, AppendCompletes
  <2>4. CASE /\ queue' = <<Described(Head(queue))>> \o Tail(queue)
             /\ pc' = "notes" /\ UNCHANGED <<stage, cards>>
    <3>1. queue' = <<card>> \o Tail(queue) /\ <<card>> \in Seq(CardSpace)
          /\ Len(<<card>>) = 1 /\ <<card>>[1] = card
      BY <2>1, <2>2, <2>4
    <3>2. /\ queue' \in Seq(CardSpace) /\ Len(queue') = Len(queue)
          /\ \A i \in 1..Len(queue') : queue'[i] = IF i = 1 THEN card ELSE queue[i]
      <4>1. /\ queue' \in Seq(CardSpace) /\ Len(queue') = 1 + Len(Tail(queue))
            /\ \A i \in 1..Len(<<card>>) + Len(Tail(queue)) :
                 queue'[i] = IF i <= Len(<<card>>) THEN <<card>>[i]
                             ELSE Tail(queue)[i - Len(<<card>>)]
        BY <1>3, <3>1, ConcatProperties
      <4>2. QED
        BY <1>3, <3>1, <4>1
    <3>3. \A i \in 1..Len(queue) :
            queue'[i].doc = queue[i].doc /\ queue'[i].section = queue[i].section
      BY <1>3, <2>2, <3>2
    <3>4. DocsOf(queue, here) \subseteq DocsOf(queue', here)
      <4>1. ASSUME NEW m \in DocsOf(queue, here)
            PROVE  m \in DocsOf(queue', here)
        <5>1. PICK i \in 1..Len(queue) : queue[i].section = here /\ queue[i].doc = m
          BY <1>3, DocsOfShape
        <5>2. i \in 1..Len(queue') /\ queue'[i].section = here /\ queue'[i].doc = m
          BY <3>2, <3>3, <5>1
        <5>3. QED
          BY <3>2, <5>2, DocsOfShape
      <4>2. QED
        BY <4>1
    <3>5. InLoop'
      BY <2>4 DEF InLoop
    <3>6. \/ span.stayed[here] \subseteq DocsOf(cards', here) \cup DocsOf(queue', here)
          \/ Len(cards') + Len(queue') >= Limit
      BY <1>5, <2>4, <3>2, <3>4
    <3>7. QED
      BY <1>1, <1>2, <1>3, <1>4, <2>4, <3>5, <3>6, LoopGoesOn
  <2>5. QED
    BY <1>7, <2>3, <2>4 DEF CountEvents
<1>8. CASE ReadNotes
  <2>1. PICK card : card = Head(queue)
    OBVIOUS
  <2>2. AppendCard(card) /\ card \in CardSpace /\ card.section = here /\ card.doc = queue[1].doc
    BY <1>3, <1>8, <2>1 DEF ReadNotes
  <2>3. QED
    BY <1>1, <1>2, <2>2, AppendCompletes
<1>9. QED
  BY <1>6, <1>7, <1>8

(* The slice of a first page that is not full is the whole list. *)
LEMMA SliceCompletes ==
  ASSUME IInv, Complete, Slice
  PROVE  Complete'
<1>1. /\ pc = "slice" /\ stage = 7 /\ pc' = "answered" /\ page' = PageOf(cards, offset, PageSize)
      /\ UNCHANGED <<store, caller, offset>> /\ span' = span
  BY DEF Slice, Complete
<1>2. cards \in Seq(CardSpace) /\ Len(cards) \in Nat
  BY LenProperties DEF IInv, TypeOK
<1>3. /\ PageSize \in Nat /\ PageSize <= MaxSize /\ MaxSize \in Nat
  BY BoundAssumption, MaxSizeAssumption
<1>4. Source \subseteq Past
  <2>1. 1 \in 1..stage - 1 /\ 3 \in 1..stage - 1 /\ 4 \in 1..stage - 1 /\ 5 \in 1..stage - 1
    BY <1>1
  <2>2. /\ SectionOrder[1] = "notifications" /\ SectionOrder[3] = "customer"
        /\ SectionOrder[4] = "members" /\ SectionOrder[5] = "mentees"
    BY DEF SectionOrder
  <2>3. QED
    BY <2>1, <2>2 DEF Source, Past
<1>5. ASSUME offset = 0, Len(page') < PageSize
      PROVE  \A s \in Source : span.stayed[s] \subseteq DocsOf(page', s)
  <2>1. Limit = PageSize
    BY <1>3, <1>5 DEF Limit, SectionSize
  <2>0. offset \in Nat
    BY <1>5
  <2> DEFINE last == IF offset + PageSize < Len(cards) THEN offset + PageSize ELSE Len(cards)
             len  == IF offset < last THEN last - offset ELSE 0
  <2>2. /\ page' \in Seq(CardSpace) /\ Len(page') = len
        /\ \A i \in 1..len : page'[i] = cards[offset + i]
    BY <1>1, <1>2, <1>3, <2>0, PageShape
  <2>3. PICK k : k = Len(cards)
    OBVIOUS
  <2>4. k \in Nat /\ len = IF PageSize < k THEN PageSize ELSE k
    BY <1>2, <1>3, <1>5, <2>3
  <2>5. len = k /\ k < PageSize
    BY <1>3, <1>5, <2>2, <2>4
  <2> HIDE DEF last, len
  <2>6. \A i \in 1..k : page'[i] = cards[i]
    BY <1>5, <2>2, <2>4, <2>5
  <2>7. Len(page') = k
    BY <2>2, <2>5
  <2>8. ASSUME NEW s \in Source, NEW m \in span.stayed[s]
        PROVE  m \in DocsOf(page', s)
    <3>1. span.stayed[s] \subseteq DocsOf(cards, s) \/ Len(cards) >= Limit
      BY <1>1, <1>4 DEF Complete, Working
    <3>2. ~(Len(cards) >= Limit)
      BY <1>3, <2>1, <2>3, <2>4, <2>5
    <3>3. PICK i \in 1..Len(cards) : cards[i].section = s /\ cards[i].doc = m
      BY <1>2, <2>8, <3>1, <3>2, DocsOfShape
    <3>4. i \in 1..Len(page') /\ page'[i].section = s /\ page'[i].doc = m
      BY <2>3, <2>6, <2>7, <3>3
    <3>5. QED
      BY <2>2, <3>4, DocsOfShape
  <2>9. QED
    BY <2>8
<1>6. \A s \in Source : span'.stayed[s] \subseteq Matching'[s]
  BY <1>1, StillMatching
<1>7. NothingStayingIsMissed'
  BY <1>1, <1>5 DEF NothingStayingIsMissed
<1>8. QED
  BY <1>1, <1>6, <1>7 DEF Complete, InLoop, Working

LEMMA MongoFailsCompletes ==
  ASSUME IInv, Complete, MongoFails
  PROVE  Complete'
<1>1. pc' = "failed" /\ UNCHANGED <<store, caller>> /\ span' = span
  BY DEF MongoFails, walk
<1>2. \A s \in Source : span'.stayed[s] \subseteq Matching'[s]
  BY <1>1, StillMatching
<1>3. QED
  BY <1>1, <1>2 DEF Complete, InLoop, Working, NothingStayingIsMissed

(* A write takes from what stayed; the lists of the request are not touched. *)
LEMMA WriteCompletes ==
  ASSUME IInv, Complete, Write
  PROVE  Complete'
<1>1. UNCHANGED <<pc, stage, queue, cards, caller, offset, page>>
  BY DEF Write, request, walk
<1>2. \A s \in Source : span'.stayed[s] = span.stayed[s] \cap Matching'[s]
  BY DEF Write, IInv, SpanCovers, SpanSpace
<1>3. Limit' = Limit /\ here' = here /\ Past' = Past /\ InLoop' = InLoop
  BY <1>1 DEF Limit, here, Past, InLoop
<1>4. /\ \A s \in Source : span'.stayed[s] \subseteq Matching'[s]
      /\ \A s \in Source : span'.stayed[s] \subseteq span.stayed[s]
  BY <1>2
<1>5. ASSUME pc' \in Working, NEW s \in Source \cap Past'
      PROVE  span'.stayed[s] \subseteq DocsOf(cards', s) \/ Len(cards') >= Limit'
  <2>1. span.stayed[s] \subseteq DocsOf(cards, s) \/ Len(cards) >= Limit
    BY <1>1, <1>3, <1>5 DEF Complete
  <2>2. CASE span.stayed[s] \subseteq DocsOf(cards, s)
    BY <1>1, <1>4, <2>2
  <2>3. CASE Len(cards) >= Limit
    BY <1>1, <1>3, <2>3
  <2>4. QED
    BY <2>1, <2>2, <2>3
<1>6. ASSUME InLoop'
      PROVE  \/ span'.stayed[here'] \subseteq DocsOf(cards', here') \cup DocsOf(queue', here')
             \/ Len(cards') + Len(queue') >= Limit'
  <2>1. here \in Source
    BY <1>3, <1>6, LoopFacts DEF Profiled, Source
  <2>2. \/ span.stayed[here] \subseteq DocsOf(cards, here) \cup DocsOf(queue, here)
        \/ Len(cards) + Len(queue) >= Limit
    BY <1>3, <1>6 DEF Complete
  <2>3. CASE span.stayed[here] \subseteq DocsOf(cards, here) \cup DocsOf(queue, here)
    BY <1>1, <1>3, <1>4, <2>1, <2>3
  <2>4. CASE Len(cards) + Len(queue) >= Limit
    BY <1>1, <1>3, <2>4
  <2>5. QED
    BY <2>2, <2>3, <2>4
<1>7. (pc' = "slice" => stage' = 7) /\ NothingStayingIsMissed'
  BY <1>1, <1>4 DEF Complete, NothingStayingIsMissed
<1>8. QED
  BY <1>4, <1>5, <1>6, <1>7 DEF Complete

LEMMA StutterCompletes ==
  ASSUME IInv, Complete, UNCHANGED vars
  PROVE  Complete'
<1>1. /\ UNCHANGED <<pc, stage, queue, cards, caller, offset, page, span>>
      /\ UNCHANGED <<store, caller>>
  BY DEF vars, request, walk
<1>2. Matching' = Matching
  BY <1>1, StillMatching
<1>3. Limit' = Limit /\ here' = here /\ Past' = Past /\ InLoop' = InLoop
  BY <1>1 DEF Limit, here, Past, InLoop
<1>4. QED
  BY <1>1, <1>2, <1>3 DEF Complete, NothingStayingIsMissed

-----------------------------------------------------------------------------
LEMMA InitCompletes ==
  ASSUME Init
  PROVE  NamesKept /\ Complete
<1>1. pc = "idle" /\ span.stayed = Matching /\ NamesKept
  BY DEF Init, NamesKept
<1>2. QED
  BY <1>1 DEF Complete, InLoop, Working, NothingStayingIsMissed

LEMMA StepCompletes ==
  ASSUME CustomerIsCertain, NamesKept, IInv, Complete, [Next]_vars
  PROVE  Complete'
<1>1. CASE Ask \/ TurnPage
  BY <1>1, BeginCompletes DEF Ask, TurnPage
<1>2. CASE Work
  BY <1>2, SkipSectionCompletes, FetchCardsCompletes, FetchProfilesCompletes,
     DescribeCompletes, SliceCompletes DEF Work
<1>3. CASE MongoFails
  BY <1>3, MongoFailsCompletes
<1>4. CASE Others
  <2>1. Write
    BY <1>4 DEF Others, CreateNotice, RetireNotice, SaveProfile, EventsMove, ArchiveCustomer
  <2>2. QED
    BY <2>1, WriteCompletes
<1>5. CASE WalkOver \/ UNCHANGED vars
  BY <1>5, StutterCompletes DEF WalkOver
<1>6. QED
  BY <1>1, <1>2, <1>3, <1>4, <1>5 DEF Next

(* As long as no token carries both the admin and the customer role, or no  *)
(* two customers have the same name, a first home page that is not full     *)
(* shows every document that was in its section throughout the request,     *)
(* although get_home_cards reads the sections one after the other, cuts     *)
(* each at its limit and describes the profiles in between.                 *)
THEOREM HomeIsComplete ==
  ASSUME CustomerIsCertain
  PROVE  Spec => []NothingStayingIsMissed
<1>1. Init => NamesKept /\ Complete
  BY InitCompletes
<1>2. IInv /\ NamesKept /\ Complete /\ [Next]_vars => NamesKept' /\ Complete'
  BY StepNamesKept, StepCompletes, CustomerIsCertain
<1>3. Complete => NothingStayingIsMissed
  BY DEF Complete
<1>4. QED
  BY <1>1, <1>2, <1>3, HomeInvariance, PTL DEF Spec
=============================================================================
