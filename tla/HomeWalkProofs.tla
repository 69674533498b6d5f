--------------------------- MODULE HomeWalkProofs ---------------------------
(***************************************************************************)
(* A client walks through the home list, page by page and without a        *)
(* cursor.  While nobody writes, the pages are consecutive slices of one   *)
(* combined list; while writes take nothing off the caller's sections, the *)
(* walk shows every document that nobody wrote meanwhile.  Needed for      *)
(* both: every sort is certain, no page is asked for beyond MAX_SIZE.      *)
(***************************************************************************)
EXTENDS HomeCompletenessProofs

-----------------------------------------------------------------------------
(* Collections whose queries leave no choice *)

(* No two documents of a seed collection were saved at the same moment,     *)
(* which is before any write, and the Customer card is certain.             *)
SeedsApart ==
  /\ \A n \in Notice : Notices0[n] # Absent => Notices0[n].at < 100
  /\ \A n, m \in Notice :
       Notices0[n] # Absent /\ Notices0[m] # Absent /\ Notices0[n].at = Notices0[m].at => n = m
  /\ \A p \in Profile : Profiles0[p].at < 100
  /\ \A p, q \in Profile : Profiles0[p].at = Profiles0[q].at => p = q
  /\ CustomerIsCertain

(* It stays so: a write saves one document, later than any other.           *)
SavedApart ==
  /\ \A n \in Notice : notices[n] # Absent => notices[n].at < 100 + clock
  /\ \A n, m \in Notice :
       notices[n] # Absent /\ notices[m] # Absent /\ notices[n].at = notices[m].at => n = m
  /\ \A p \in Profile : profiles[p].at < 100 + clock
  /\ \A p, q \in Profile : profiles[p].at = profiles[q].at => p = q
  /\ NamesKept

LEMMA InitSavedApart ==
  ASSUME SeedsApart, Init
  PROVE  SavedApart
BY DEF Init, SeedsApart, SavedApart, NamesKept

LEMMA StepSavedApart ==
  ASSUME IInv, SavedApart, [Next]_vars
  PROVE  SavedApart'
<1>0. NamesKept'
  BY StepNamesKept DEF SavedApart
<1>1. /\ notices \in [Notice -> NoticeDoc \cup {Absent}] /\ clock \in Nat
      /\ profiles \in [Profile -> ProfileDoc] /\ customers \in [Customer -> CustomerDoc]
  BY DEF IInv, TypeOK
<1>2. \A p \in Profile : profiles[p].at \in Nat
  BY <1>1 DEF ProfileDoc
<1>3. \A n \in Notice : notices[n] # Absent => notices[n] \in NoticeDoc /\ notices[n].at \in Nat
  BY <1>1 DEF NoticeDoc
<1>4. CASE UNCHANGED store
  BY <1>0, <1>4 DEF SavedApart, store
<1>5. ASSUME NEW n \in Notice, CreateNotice(n) \/ RetireNotice(n)
      PROVE  SavedApart'
  <2>1. clock' = clock + 1 /\ UNCHANGED <<profiles, customers>>
    BY <1>5 DEF CreateNotice, RetireNotice, Write
  <2>2. /\ DOMAIN notices' = Notice
        /\ \A m \in Notice : m # n => notices'[m] = notices[m]
        /\ \/ notices'[n].at = 100 + clock
           \/ notices[n] # Absent /\ notices'[n].at = notices[n].at
    <3>1. CASE CreateNotice(n)
      BY <1>1, <3>1 DEF CreateNotice, Now
    <3>2. CASE RetireNotice(n)
      <4>1. notices' = [notices EXCEPT ![n] = [notices[n] EXCEPT !.live = FALSE]]
            /\ notices[n] \in NoticeDoc /\ notices[n] # Absent
        BY <1>3, <3>2 DEF RetireNotice
      <4>2. [notices[n] EXCEPT !.live = FALSE].at = notices[n].at
        BY <4>1 DEF NoticeDoc
      <4>3. QED
        BY <1>1, <4>1, <4>2
    <3>3. QED
      BY <1>5, <3>1, <3>2
  <2>3. \A m \in Notice : notices'[m] # Absent => notices'[m].at < 100 + clock'
    BY <1>1, <1>3, <2>1, <2>2 DEF SavedApart
  <2>4. ASSUME NEW m \in Notice, NEW k \in Notice, notices'[m] # Absent, notices'[k] # Absent,
               notices'[m].at = notices'[k].at
        PROVE  m = k
    BY <1>1, <1>3, <2>2, <2>4 DEF SavedApart
  <2>5. QED
    BY <1>0, <1>1, <1>2, <2>1, <2>3, <2>4 DEF SavedApart
<1>6. ASSUME NEW p \in Profile, SaveProfile(p)
      PROVE  SavedApart'
  <2>1. clock' = clock + 1 /\ UNCHANGED <<notices, customers>>
    BY <1>6 DEF SaveProfile, Write
  <2>2. /\ DOMAIN profiles' = Profile
        /\ \A q \in Profile : q # p => profiles'[q] = profiles[q]
        /\ profiles'[p].at = 100 + clock
    <3>1. PICK m, st : profiles' = [profiles EXCEPT ![p].mentor = m, ![p].status = st, ![p].at = Now]
      BY <1>6 DEF SaveProfile
    <3>2. profiles[p] \in ProfileDoc
      BY <1>1
    <3>3. QED
      BY <1>1, <3>1, <3>2 DEF Now, ProfileDoc
  <2>3. \A q \in Profile : profiles'[q].at < 100 + clock'
    BY <1>1, <1>2, <2>1, <2>2 DEF SavedApart
  <2>4. ASSUME NEW q \in Profile, NEW r \in Profile, profiles'[q].at = profiles'[r].at
        PROVE  q = r
    BY <1>1, <1>2, <2>2, <2>4 DEF SavedApart
  <2>5. QED
    BY <1>0, <1>1, <1>3, <2>1, <2>3, <2>4 DEF SavedApart
<1>7. ASSUME NEW c \in Customer, ArchiveCustomer(c)
      PROVE  SavedApart'
  <2>1. clock' = clock + 1 /\ UNCHANGED <<notices, profiles>>
    BY <1>7 DEF ArchiveCustomer, Write
  <2>2. QED
    BY <1>0, <1>1, <1>2, <1>3, <2>1 DEF SavedApart
<1>8. ASSUME NEW p \in Profile, EventsMove(p)
      PROVE  SavedApart'
  <2>1. clock' = clock + 1 /\ UNCHANGED <<notices, profiles, customers>>
    BY <1>8 DEF EventsMove, Write
  <2>2. QED
    BY <1>0, <1>1, <1>2, <1>3, <2>1 DEF SavedApart
<1>9. CASE Others
  BY <1>5, <1>6, <1>7, <1>8, <1>9 DEF Others
<1>10. QED
  BY <1>4, <1>9 DEF Next, Ask, TurnPage, Begin, Work, SkipSection, FetchCards, FetchProfiles,
     ReadJourney, CountEvents, ReadNotes, Slice, MongoFails, WalkOver, vars

(* The query of an open section has one answer. *)
LEMMA OneListing ==
  ASSUME SeedsApart, TypeOK, SavedApart, NEW s \in Section, Opens(caller, s)
  PROVE  \E list : Listings(s) = {list}
<1>1. CASE s = "notifications"
  <2> DEFINE ids == ActiveFor(caller, notices)
             key == [d \in ids |-> -notices[d].at]
  <2>1. ids \subseteq Notice /\ IsFiniteSet(ids) /\ \A d \in ids : notices[d] # Absent
    BY FiniteAssumption, FS_Subset DEF ActiveFor
  <2>2. \A d \in ids : notices[d].at \in Nat
    BY <2>1 DEF TypeOK, NoticeDoc
  <2> HIDE DEF ids
  <2>3. DistinctKeys(ids, key)
    BY <2>1, <2>2 DEF DistinctKeys, SavedApart
  <2>4. Listings(s) = Orderings(ids, key)
    BY <1>1 DEF Listings, NewestFirst, ids
  <2>5. QED
    BY <2>1, <2>3, <2>4, OneOrdering
<1>2. ASSUME s \in Profiled
      PROVE  \E list : Listings(s) = {list}
  <2>1. PICK ids \in SUBSET Profile : Listings(s) = NewestFirst(ids, profiles)
    BY <1>2 DEF Listings, Profiled, MembersFor, MenteesFor
  <2> DEFINE key == [d \in ids |-> -profiles[d].at]
  <2>2. IsFiniteSet(ids)
    BY FiniteAssumption, FS_Subset
  <2>3. \A d \in ids : profiles[d].at \in Nat
    BY DEF TypeOK, ProfileDoc
  <2>4. DistinctKeys(ids, key)
    BY <2>3 DEF DistinctKeys, SavedApart
  <2>5. Listings(s) = Orderings(ids, key)
    BY <2>1 DEF NewestFirst
  <2>6. QED
    BY <2>2, <2>4, <2>5, OneOrdering
<1>3. CASE s = "customer"
  BY <1>3, OneCustomerList DEF Listings, SeedsApart, SavedApart, NamesKept, TypeOK
<1>4. CASE s \in {"admin", "journey"}
  BY <1>4 DEF Listings
<1>5. QED
  BY <1>1, <1>2, <1>3, <1>4 DEF Section, Profiled

(* Lists is what the queries answer. *)
LEMMA ListsAre ==
  ASSUME SeedsApart, TypeOK, SavedApart
  PROVE  /\ Lists \in [Section -> Seq(CardSpace)]
         /\ \A s \in Section : Opens(caller, s) =>
              \A list \in Listings(s) : Lists[s] = CardsOf(s, list)
<1>1. ASSUME NEW s \in Section, Opens(caller, s)
      PROVE  /\ Lists[s] \in Seq(CardSpace)
             /\ \A list \in Listings(s) : Lists[s] = CardsOf(s, list)
  <2>1. PICK l : Listings(s) = {l}
    BY <1>1, OneListing
  <2>2. (CHOOSE list \in Listings(s) : TRUE) = l
    BY <2>1
  <2>3. Lists[s] = CardsOf(s, l)
    BY <1>1, <2>2 DEF Lists
  <2>4. l \in Seq(Item) /\ Len(l) \in Nat /\ \A i \in 1..Len(l) : l[i] \in Item
    BY <2>1, ListingShape, LenProperties, ElementOfSeq
  <2>5. CardsOf(s, l) \in [1..Len(l) -> CardSpace]
    BY <2>4 DEF CardsOf, Card, CardSpace
  <2>6. CardsOf(s, l) \in Seq(CardSpace)
    BY <2>4, <2>5, IsASeq
  <2>7. QED
    BY <2>1, <2>3, <2>6
<1>2. ASSUME NEW s \in Section, ~Opens(caller, s)
      PROVE  Lists[s] \in Seq(CardSpace)
  BY <1>2, EmptySeq DEF Lists
<1>3. Lists = [s \in Section |-> Lists[s]]
  BY DEF Lists
<1>4. QED
  BY <1>1, <1>2, <1>3

-----------------------------------------------------------------------------
(* Described lists *)

Shown == CardSpace \cup {Described(c) : c \in CardSpace}

AllDescribed(list) == [i \in DOMAIN list |-> Described(list[i])]

(* The combined list as a reader would see it now. *)
Full == AllDescribed(CombinedList(caller, Lists))

LEMMA AllDescribedShape ==
  ASSUME NEW list \in Seq(CardSpace)
  PROVE  /\ AllDescribed(list) \in Seq(Shown)
         /\ Len(AllDescribed(list)) = Len(list)
         /\ \A i \in 1..Len(list) : AllDescribed(list)[i] = Described(list[i])
<1>1. Len(list) \in Nat /\ DOMAIN list = 1..Len(list) /\ \A i \in 1..Len(list) : list[i] \in CardSpace
  BY LenProperties, ElementOfSeq
<1>2. /\ AllDescribed(list) \in [1..Len(list) -> Shown]
      /\ \A i \in 1..Len(list) : AllDescribed(list)[i] = Described(list[i])
  BY <1>1 DEF AllDescribed, Shown
<1>3. AllDescribed(list) = [i \in 1..Len(list) |-> Described(list[i])]
  BY <1>1 DEF AllDescribed
<1>4. AllDescribed(list) \in Seq(Shown)
  BY <1>1, <1>3, <1>2, IsASeq
<1>5. QED
  BY <1>1, <1>2, <1>4, LenProperties

LEMMA AllDescribedConcat ==
  ASSUME NEW a \in Seq(CardSpace), NEW b \in Seq(CardSpace)
  PROVE  AllDescribed(a \o b) = AllDescribed(a) \o AllDescribed(b)
<1> DEFINE ab == a \o b
           da == AllDescribed(a)
           db == AllDescribed(b)
           dab == AllDescribed(ab)
<1>1. /\ Len(a) \in Nat /\ Len(b) \in Nat
      /\ ab \in Seq(CardSpace) /\ Len(ab) = Len(a) + Len(b)
      /\ \A i \in 1..Len(a) + Len(b) : ab[i] = IF i <= Len(a) THEN a[i] ELSE b[i - Len(a)]
  BY LenProperties, ConcatProperties
<1> HIDE DEF ab
<1>2. /\ da \in Seq(Shown) /\ Len(da) = Len(a) /\ \A i \in 1..Len(a) : da[i] = Described(a[i])
      /\ db \in Seq(Shown) /\ Len(db) = Len(b) /\ \A i \in 1..Len(b) : db[i] = Described(b[i])
      /\ dab \in Seq(Shown) /\ Len(dab) = Len(ab) /\ \A i \in 1..Len(ab) : dab[i] = Described(ab[i])
  BY <1>1, AllDescribedShape
<1> HIDE DEF da, db, dab
<1>3. /\ da \o db \in Seq(Shown) /\ Len(da \o db) = Len(a) + Len(b)
      /\ \A i \in 1..Len(a) + Len(b) : (da \o db)[i] = IF i <= Len(a) THEN da[i] ELSE db[i - Len(a)]
  <2>1. da \in Seq(Shown) /\ db \in Seq(Shown) /\ Len(da) = Len(a) /\ Len(db) = Len(b)
    BY <1>2
  <2>2. /\ da \o db \in Seq(Shown) /\ Len(da \o db) = Len(da) + Len(db)
        /\ \A i \in 1..Len(da) + Len(db) :
             (da \o db)[i] = IF i <= Len(da) THEN da[i] ELSE db[i - Len(da)]
    BY <2>1, ConcatProperties
  <2>3. QED
    BY <2>1, <2>2
<1>4. \A i \in 1..Len(dab) : dab[i] = (da \o db)[i]
  <2> SUFFICES ASSUME NEW i \in 1..Len(a) + Len(b) PROVE dab[i] = (da \o db)[i]
    BY <1>1, <1>2
  <2>1. dab[i] = Described(ab[i])
    BY <1>1, <1>2
  <2>2. CASE i <= Len(a)
    <3>1. i \in 1..Len(a) /\ ab[i] = a[i] /\ (da \o db)[i] = da[i]
      BY <1>1, <1>3, <2>2
    <3>2. QED
      BY <1>2, <2>1, <3>1
  <2>3. CASE ~(i <= Len(a))
    <3>1. i - Len(a) \in 1..Len(b) /\ ab[i] = b[i - Len(a)] /\ (da \o db)[i] = db[i - Len(a)]
      BY <1>1, <1>3, <2>3
    <3>2. QED
      BY <1>2, <2>1, <3>1
  <2>4. QED
    BY <2>2, <2>3
<1>5. dab = da \o db
  BY <1>1, <1>2, <1>3, <1>4, SeqEqual
<1>6. QED
  BY <1>5 DEF ab, da, db, dab

LEMMA AllDescribedAgree ==
  ASSUME NEW a \in Seq(CardSpace), NEW b \in Seq(CardSpace), NEW k \in Nat, AgreeUpTo(a, b, k)
  PROVE  AgreeUpTo(AllDescribed(a), AllDescribed(b), k)
<1> DEFINE da == AllDescribed(a)
           db == AllDescribed(b)
<1>1. /\ Len(a) \in Nat /\ Len(b) \in Nat
      /\ Len(da) = Len(a) /\ \A i \in 1..Len(a) : da[i] = Described(a[i])
      /\ Len(db) = Len(b) /\ \A i \in 1..Len(b) : db[i] = Described(b[i])
  BY AllDescribedShape, LenProperties
<1> HIDE DEF da, db
<1>2. AgreeUpTo(da, db, k)
  BY <1>1 DEF AgreeUpTo
<1>3. QED
  BY <1>2 DEF da, db

(* The count is put in the place of a count: describing twice is as good.   *)
LEMMA DescribedTwice ==
  ASSUME NEW c \in CardSpace
  PROVE  /\ Described(c).section = c.section /\ Described(c).doc = c.doc
         /\ Described(Described(c)) = Described(c)
BY DEF Described, CardSpace

-----------------------------------------------------------------------------
(* What is still to come *)

(* The contributions of section k and of those after it. *)
Rest(k, n) ==
  LET part(s) == Contribution(caller, Lists, s, n)
  IN CASE k = 7 -> <<>>
       [] k = 6 -> part("journey")
       [] k = 5 -> part("mentees") \o part("journey")
       [] k = 4 -> part("members") \o (part("mentees") \o part("journey"))
       [] k = 3 -> part("customer") \o (part("members") \o (part("mentees") \o part("journey")))
       [] k = 2 -> part("admin") \o (part("customer") \o (part("members")
                     \o (part("mentees") \o part("journey"))))
       [] k = 1 -> Assembled(caller, Lists, n)

(* The rest of a section's contribution is the queue, while it is in the loop. *)
ToCome(n) == IF InLoop THEN queue \o Rest(stage + 1, n) ELSE Rest(stage, n)

LEMMA RestShape ==
  ASSUME Lists \in [Section -> Seq(CardSpace)], NEW n \in Nat
  PROVE  /\ \A k \in 1..7 : Rest(k, n) \in Seq(CardSpace)
         /\ \A k \in 1..6 :
              /\ Contribution(caller, Lists, SectionOrder[k], n) \in Seq(CardSpace)
              /\ Rest(k, n) = Contribution(caller, Lists, SectionOrder[k], n) \o Rest(k + 1, n)
<1>1. \A s \in Section : Contribution(caller, Lists, s, n) \in Seq(CardSpace)
  <2>1. PICK who, lists : who = caller /\ lists = Lists
    OBVIOUS
  <2>2. lists \in [Section -> Seq(CardSpace)] /\ 0 \in Nat /\ 0 <= n
    BY <2>1
  <2>3. \A s \in Section : Contribution(who, lists, s, n) \in Seq(CardSpace)
    BY <2>2, SectionAgrees
  <2>4. QED
    BY <2>1, <2>3
<1>2. /\ SectionOrder[1] = "notifications" /\ SectionOrder[2] = "admin"
      /\ SectionOrder[3] = "customer" /\ SectionOrder[4] = "members"
      /\ SectionOrder[5] = "mentees" /\ SectionOrder[6] = "journey"
  BY DEF SectionOrder
<1>3. \A k \in 1..6 : SectionOrder[k] \in Section
  BY DEF SectionOrder, Section
<1> DEFINE Part(k) == Contribution(caller, Lists, SectionOrder[k], n)
<1>4. \A k \in 1..6 : Part(k) \in Seq(CardSpace)
  BY <1>1, <1>3
<1>5. Rest(7, n) = <<>> /\ Rest(7, n) \in Seq(CardSpace)
  <2>1. Rest(7, n) = <<>>
    BY DEF Rest
  <2>2. QED
    BY <2>1, EmptySeq
<1>6. Rest(6, n) = Part(6)
  <2>1. Rest(6, n) = Contribution(caller, Lists, "journey", n)
    BY DEF Rest
  <2>2. QED
    BY <1>2, <2>1, Zenon
<1>7. Rest(5, n) = Part(5) \o Rest(6, n)
  <2>1. Rest(5, n) = Contribution(caller, Lists, "mentees", n) \o Rest(6, n)
    BY DEF Rest
  <2>2. QED
    BY <1>2, <2>1, Zenon
<1>8. Rest(4, n) = Part(4) \o Rest(5, n)
  <2>1. Rest(4, n) = Contribution(caller, Lists, "members", n) \o Rest(5, n)
    BY DEF Rest
  <2>2. QED
    BY <1>2, <2>1, Zenon
<1>9. Rest(3, n) = Part(3) \o Rest(4, n)
  <2>1. Rest(3, n) = Contribution(caller, Lists, "customer", n) \o Rest(4, n)
    BY DEF Rest
  <2>2. QED
    BY <1>2, <2>1, Zenon
<1>10. Rest(2, n) = Part(2) \o Rest(3, n)
  <2>1. Rest(2, n) = Contribution(caller, Lists, "admin", n) \o Rest(3, n)
    BY DEF Rest
  <2>2. QED
    BY <1>2, <2>1, Zenon
<1>11. Rest(1, n) = Part(1) \o Rest(2, n)
  <2>1. Rest(1, n) = Contribution(caller, Lists, "notifications", n) \o Rest(2, n)
    <3>1. Rest(1, n) = Assembled(caller, Lists, n)
      BY DEF Rest
    <3>2. Rest(2, n) = Contribution(caller, Lists, "admin", n)
                         \o (Contribution(caller, Lists, "customer", n)
                         \o (Contribution(caller, Lists, "members", n)
                         \o (Contribution(caller, Lists, "mentees", n)
                         \o  Contribution(caller, Lists, "journey", n))))
      BY DEF Rest
    <3>3. QED
      BY <3>1, <3>2, Zenon DEF Assembled
  <2>2. QED
    BY <1>2, <2>1, Zenon
<1> DEFINE Step(k) == Rest(k, n) = Part(k) \o Rest(k + 1, n)
           Typed(k) == Rest(k, n) \in Seq(CardSpace)
<1>12. 1 + 1 = 2 /\ 2 + 1 = 3 /\ 3 + 1 = 4 /\ 4 + 1 = 5 /\ 5 + 1 = 6 /\ 6 + 1 = 7
  OBVIOUS
<1>13. 1 \in 1..6 /\ 2 \in 1..6 /\ 3 \in 1..6 /\ 4 \in 1..6 /\ 5 \in 1..6 /\ 6 \in 1..6
  OBVIOUS
<1>14. Step(6) /\ Typed(6) /\ Typed(7)
  <2>1. Part(6) \in Seq(CardSpace)
    BY <1>4, <1>13
  <2>2. Part(6) \o <<>> = Part(6)
    BY <2>1, ConcatEmptySeq
  <2>3. QED
    BY <1>5, <1>6, <1>12, <2>1, <2>2, Zenon
<1>15. Step(5) /\ Typed(5)
  <2>1. Part(5) \in Seq(CardSpace) /\ Rest(6, n) \in Seq(CardSpace)
    BY <1>4, <1>13, <1>14
  <2>2. Part(5) \o Rest(6, n) \in Seq(CardSpace)
    BY <2>1, ConcatProperties
  <2>3. QED
    BY <1>7, <1>12, <2>2, Zenon
<1>16. Step(4) /\ Typed(4)
  <2>1. Part(4) \in Seq(CardSpace) /\ Rest(5, n) \in Seq(CardSpace)
    BY <1>4, <1>13, <1>15
  <2>2. Part(4) \o Rest(5, n) \in Seq(CardSpace)
    BY <2>1, ConcatProperties
  <2>3. QED
    BY <1>8, <1>12, <2>2, Zenon
<1>17. Step(3) /\ Typed(3)
  <2>1. Part(3) \in Seq(CardSpace) /\ Rest(4, n) \in Seq(CardSpace)
    BY <1>4, <1>13, <1>16
  <2>2. Part(3) \o Rest(4, n) \in Seq(CardSpace)
    BY <2>1, ConcatProperties
  <2>3. QED
    BY <1>9, <1>12, <2>2, Zenon
<1>18. Step(2) /\ Typed(2)
  <2>1. Part(2) \in Seq(CardSpace) /\ Rest(3, n) \in Seq(CardSpace)
    BY <1>4, <1>13, <1>17
  <2>2. Part(2) \o Rest(3, n) \in Seq(CardSpace)
    BY <2>1, ConcatProperties
  <2>3. QED
    BY <1>10, <1>12, <2>2, Zenon
<1>19. Step(1) /\ Typed(1)
  <2>1. Part(1) \in Seq(CardSpace) /\ Rest(2, n) \in Seq(CardSpace)
    BY <1>4, <1>13, <1>18
  <2>2. Part(1) \o Rest(2, n) \in Seq(CardSpace)
    BY <2>1, ConcatProperties
  <2>3. QED
    BY <1>11, <1>12, <2>2, Zenon
<1> HIDE DEF Step, Typed
<1>20. \A k \in 1..7 : k \in {1, 2, 3, 4, 5, 6, 7}
  OBVIOUS
<1>21. \A k \in 1..6 : k \in {1, 2, 3, 4, 5, 6}
  OBVIOUS
<1>22. \A k \in 1..7 : Typed(k)
  BY <1>14, <1>15, <1>16, <1>17, <1>18, <1>19, <1>20, Zenon
<1>23. \A k \in 1..6 : Step(k)
  BY <1>14, <1>15, <1>16, <1>17, <1>18, <1>19, <1>21, Zenon
<1>24. QED
  BY <1>4, <1>22, <1>23 DEF Step, Typed

(* A step that writes nothing leaves the combined list alone. *)
LEMMA RestingLists ==
  ASSUME SeedsApart, TypeOK, SavedApart, UNCHANGED <<store, caller>>
  PROVE  /\ Lists' = Lists /\ Full' = Full
         /\ \A l : AllDescribed(l)' = AllDescribed(l)
         /\ \A n : Assembled(caller, Lists, n)' = Assembled(caller, Lists, n)
         /\ \A k, n : Rest(k, n)' = Rest(k, n)
<1>1. UNCHANGED <<notices, profiles, customers, events, caller>>
  BY DEF store
<1>2. \A s \in Section : Listings(s)' = Listings(s)
  BY <1>1 DEF Listings
<1>3. Lists' = Lists
  <2>1. ASSUME NEW s \in Section, Opens(caller, s)
        PROVE  (CHOOSE list \in Listings(s) : TRUE)' = (CHOOSE list \in Listings(s) : TRUE)
    <3>1. PICK l : Listings(s) = {l}
      BY <2>1, OneListing
    <3>2. (CHOOSE list \in Listings(s) : TRUE) = l
      BY <3>1
    <3>3. Listings(s)' = {l}
      BY <1>2, <3>1
    <3>4. (CHOOSE list \in Listings(s) : TRUE)' = l
      BY <3>3
    <3>5. QED
      BY <3>2, <3>4
  <2>2. ASSUME NEW s \in Section
        PROVE  Lists'[s] = Lists[s]
    <3>1. CASE Opens(caller, s)
      <4>1. PICK l : l = (CHOOSE list \in Listings(s) : TRUE)
        OBVIOUS
      <4>2. Lists[s] = CardsOf(s, l)
        BY <3>1, <4>1 DEF Lists
      <4>3. Lists'[s] = CardsOf(s, l)'
        BY <1>1, <2>1, <3>1, <4>1 DEF Lists
      <4>4. QED
        BY <4>2, <4>3 DEF CardsOf, Card
    <3>2. CASE ~Opens(caller, s)
      BY <1>1, <3>2 DEF Lists
    <3>3. QED
      BY <3>1, <3>2
  <2>3. QED
    BY <2>2 DEF Lists
<1>4. \A l : AllDescribed(l)' = AllDescribed(l)
  BY <1>1 DEF AllDescribed, Described
<1>5. \A n : Assembled(caller, Lists, n)' = Assembled(caller, Lists, n)
  BY <1>1, <1>3 DEF Assembled, Contribution
<1>6. CombinedList(caller, Lists)' = CombinedList(caller, Lists)
  BY <1>1, <1>3 DEF CombinedList, Contents
<1>7. PICK all : all = CombinedList(caller, Lists)
  OBVIOUS
<1>8. Full' = Full
  BY <1>4, <1>6, <1>7 DEF Full
<1>9. \A k, n : Rest(k, n)' = Rest(k, n)
  BY <1>1, <1>3, <1>5 DEF Rest, Contribution
<1>10. QED
  BY <1>3, <1>4, <1>5, <1>8, <1>9

-----------------------------------------------------------------------------
(* The walk *)

(* What is on the list, and what is still to come, make up the page's list. *)
Gathering(to) == cards \o AllDescribed(to) = AllDescribed(Assembled(caller, Lists, Limit))

(* As long as nothing is written, every page continues the combined list    *)
(* where the one before stopped.                                            *)
Exact ==
  /\ pc = "idle" => got = <<>>
  /\ pc \in Working => offset + PageSize <= MaxSize
  /\ pc = "slice" => stage = 7
  /\ drift.way = "none" =>
       /\ got = FirstOf(Full, Len(got))
       /\ pc \in Working => Len(got) = offset /\ Gathering(ToCome(Limit))
       /\ pc = "notes" => Described(queue[1]) = queue[1]
       /\ pc = "answered" =>
            Len(got) = offset + Len(page) /\ (Len(page) < PageSize => got = Full)

LEMMA ListShapes ==
  ASSUME SeedsApart, TypeOK, SavedApart, NEW n \in Nat
  PROVE  /\ Lists \in [Section -> Seq(CardSpace)]
         /\ CombinedList(caller, Lists) \in Seq(CardSpace)
         /\ Assembled(caller, Lists, n) \in Seq(CardSpace)
         /\ AgreeUpTo(Assembled(caller, Lists, n), CombinedList(caller, Lists), n)
         /\ Full \in Seq(Shown)
<1>1. PICK who, lists : who = caller /\ lists = Lists
  OBVIOUS
<1>2. lists \in [Section -> Seq(CardSpace)] /\ n <= n
  BY <1>1, ListsAre
<1>3. /\ Assembled(who, lists, n) \in Seq(CardSpace)
      /\ CombinedList(who, lists) \in Seq(CardSpace)
      /\ AgreeUpTo(Assembled(who, lists, n), CombinedList(who, lists), n)
  BY <1>2, AssembledAgrees
<1>4. Full \in Seq(Shown)
  BY <1>1, <1>3, AllDescribedShape DEF Full
<1>5. QED
  BY <1>1, <1>2, <1>3, <1>4

(* An empty beginning is the beginning of any list. *)
LEMMA FirstOfNothing ==
  ASSUME NEW S, NEW list \in Seq(S)
  PROVE  <<>> = FirstOf(list, Len(<<>>))
<1>1. Len(<<>>) = 0 /\ Len(list) \in Nat
  BY LenProperties, EmptySeq
<1>2. FirstOf(list, 0) = SubSeq(list, 1, 0)
  BY <1>1 DEF FirstOf
<1>3. SubSeq(list, 1, 0) = <<>>
  BY SubSeqEmpty
<1>4. QED
  BY <1>1, <1>2, <1>3

(* Cards that are described move from what is to come onto the list. *)
LEMMA CardsMove ==
  ASSUME NEW list \in Seq(Shown), NEW a \in Seq(CardSpace), NEW b \in Seq(CardSpace)
  PROVE  /\ (list \o AllDescribed(a)) \o AllDescribed(b) = list \o AllDescribed(a \o b)
         /\ list \o AllDescribed(a) \in Seq(Shown)
<1>1. AllDescribed(a) \in Seq(Shown) /\ AllDescribed(b) \in Seq(Shown)
  BY AllDescribedShape
<1>2. (list \o AllDescribed(a)) \o AllDescribed(b) = list \o (AllDescribed(a) \o AllDescribed(b))
  BY <1>1, ConcatAssociative
<1>3. AllDescribed(a \o b) = AllDescribed(a) \o AllDescribed(b)
  BY AllDescribedConcat
<1>4. list \o AllDescribed(a) \in Seq(Shown)
  BY <1>1, ConcatProperties
<1>5. QED
  BY <1>2, <1>3, <1>4, Zenon

(* A step of a request that keeps the sum of what is there and to come. *)
LEMMA StillExact ==
  ASSUME SeedsApart, IInv, SavedApart, Exact,
         UNCHANGED <<store, caller, offset, got, drift>>, pc \in Working, pc' \in Working,
         pc' = "slice" => stage' = 7, NEW to,
         to = IF InLoop' THEN queue' \o Rest(stage' + 1, Limit) ELSE Rest(stage', Limit),
         drift.way = "none" =>
           /\ cards' \o AllDescribed(to) = cards \o AllDescribed(ToCome(Limit))
           /\ pc' = "notes" => Described(queue'[1]) = queue'[1]
  PROVE  Exact'
<1>1. TypeOK /\ Limit' = Limit
  BY DEF IInv, Limit
<1>2. /\ Lists' = Lists /\ Full' = Full
      /\ \A l : AllDescribed(l)' = AllDescribed(l)
      /\ \A n : Assembled(caller, Lists, n)' = Assembled(caller, Lists, n)
      /\ \A k, n : Rest(k, n)' = Rest(k, n)
  BY <1>1, RestingLists
<1>3. ToCome(Limit)' = to
  <2>1. PICK n, k, j : n = Limit /\ k = stage' /\ j = stage' + 1
    OBVIOUS
  <2>2. ToCome(Limit)' = IF InLoop' THEN queue' \o Rest(j, n)' ELSE Rest(k, n)'
    BY <1>1, <2>1 DEF ToCome
  <2>3. QED
    BY <1>2, <2>1, <2>2
<1>4. ASSUME drift.way = "none"
      PROVE  Gathering(ToCome(Limit))'
  <2>1. Gathering(ToCome(Limit))
    BY <1>4 DEF Exact
  <2>2. PICK n : n = Limit
    OBVIOUS
  <2>3. Assembled(caller, Lists, Limit)' = Assembled(caller, Lists, Limit)
    BY <1>1, <1>2, <2>2
  <2>4. QED
    BY <1>2, <1>3, <1>4, <2>1, <2>3 DEF Gathering
<1>5. \A c : Described(c)' = Described(c)
  BY DEF Described, store
<1>6. QED
  BY <1>2, <1>4, <1>5 DEF Exact, Working

LEMMA LimitIsNat ==
  ASSUME TypeOK
  PROVE  /\ Limit \in Nat
         /\ offset + PageSize <= MaxSize => Limit = offset + PageSize
BY MaxSizeAssumption, BoundAssumption DEF Limit, SectionSize, TypeOK

LEMMA NextStageExact ==
  ASSUME stage \in 1..6, NextStage
  PROVE  /\ stage' = stage + 1 /\ pc' \in {"fetch", "slice"} /\ ~InLoop'
         /\ pc' = "slice" => stage' = 7
<1>1. Len(SectionOrder) = 6
  BY StageFacts
<1>2. QED
  BY <1>1 DEF NextStage, InLoop

(* The section being worked on is first of what is to come. *)
LEMMA RestHere ==
  ASSUME SeedsApart, TypeOK, SavedApart, stage \in 1..6, NEW n \in Nat
  PROVE  /\ Rest(stage + 1, n) \in Seq(CardSpace)
         /\ Rest(stage, n) = Contribution(caller, Lists, here, n) \o Rest(stage + 1, n)
<1>1. stage + 1 \in 1..7
  OBVIOUS
<1>2. Lists \in [Section -> Seq(CardSpace)]
  BY ListsAre
<1>3. /\ \A k \in 1..7 : Rest(k, n) \in Seq(CardSpace)
      /\ \A k \in 1..6 :
           Rest(k, n) = Contribution(caller, Lists, SectionOrder[k], n) \o Rest(k + 1, n)
  BY <1>2, RestShape
<1>4. QED
  BY <1>1, <1>3, Zenon DEF here

LEMMA BeginExact ==
  ASSUME SeedsApart, TypeOK, SavedApart, NEW o \in Nat, Begin(o), o + PageSize <= MaxSize,
         drift'.way = "none" => Len(got) = o /\ got = FirstOf(Full, Len(got))
  PROVE  Exact'
<1>1. /\ pc' = "fetch" /\ stage' = 1 /\ cards' = <<>> /\ queue' = <<>> /\ offset' = o
      /\ UNCHANGED <<store, caller>> /\ got' = got
  BY DEF Begin
<1>2. /\ Lists' = Lists /\ Full' = Full
      /\ \A l : AllDescribed(l)' = AllDescribed(l)
      /\ \A n : Assembled(caller, Lists, n)' = Assembled(caller, Lists, n)
      /\ \A k, n : Rest(k, n)' = Rest(k, n)
  BY <1>1, RestingLists
<1>3. PICK n, k : n = Limit' /\ k = 1
  OBVIOUS
<1>4. n \in Nat
  BY <1>1, <1>3, MaxSizeAssumption, BoundAssumption DEF Limit, SectionSize
<1>5. PICK all : all = Assembled(caller, Lists, n)
  OBVIOUS
<1>6. ToCome(Limit)' = all
  <2>1. ToCome(Limit)' = Rest(k, n)'
    BY <1>1, <1>3 DEF ToCome, InLoop
  <2>2. Rest(k, n) = all
    BY <1>3, <1>5 DEF Rest
  <2>3. QED
    BY <1>2, <2>1, <2>2
<1>7. all \in Seq(CardSpace) /\ AllDescribed(all) \in Seq(Shown)
  BY <1>4, <1>5, ListShapes, AllDescribedShape
<1>8. <<>> \o AllDescribed(all) = AllDescribed(all)
  BY <1>7, ConcatEmptySeq
<1>9. Gathering(ToCome(Limit))'
  <2>1. Assembled(caller, Lists, Limit)' = all
    BY <1>2, <1>3, <1>5
  <2>2. AllDescribed(all)' = AllDescribed(all)
    BY <1>2
  <2>3. QED
    BY <1>1, <1>6, <1>8, <2>1, <2>2 DEF Gathering
<1>10. QED
  BY <1>1, <1>2, <1>9 DEF Exact, Working

LEMMA SkipSectionExact ==
  ASSUME SeedsApart, IInv, SavedApart, Exact, SkipSection
  PROVE  Exact'
<1>1. /\ pc = "fetch" /\ ~Opens(caller, here) /\ stage \in 1..6 /\ NextStage
      /\ UNCHANGED <<store, caller, offset, got, drift, queue, cards>>
  BY DEF SkipSection, walk, IInv, StageFits
<1>2. /\ stage' = stage + 1 /\ pc' \in {"fetch", "slice"} /\ ~InLoop'
      /\ pc' = "slice" => stage' = 7
  BY <1>1, NextStageExact
<1>3. TypeOK /\ Limit \in Nat
  BY LimitIsNat DEF IInv
<1>4. PICK n : n = Limit
  OBVIOUS
<1>5. PICK to : to = Rest(stage + 1, n)
  OBVIOUS
<1>6. Rest(stage, n) = Contribution(caller, Lists, here, n) \o to /\ to \in Seq(CardSpace)
  <2>1. /\ Rest(stage + 1, n) \in Seq(CardSpace)
        /\ Rest(stage, n) = Contribution(caller, Lists, here, n) \o Rest(stage + 1, n)
    BY <1>1, <1>3, <1>4, RestHere
  <2>2. QED
    BY <1>5, <2>1, Zenon
<1>7. Contribution(caller, Lists, here, n) = <<>>
  BY <1>1 DEF Contribution
<1>8. Rest(stage, n) = to
  BY <1>6, <1>7, ConcatEmptySeq
<1>9. ToCome(Limit) = to
  BY <1>1, <1>4, <1>8 DEF ToCome, InLoop
<1>10. to = IF InLoop' THEN queue' \o Rest(stage' + 1, Limit) ELSE Rest(stage', Limit)
  BY <1>2, <1>4, <1>5
<1>11. QED
  BY <1>1, <1>2, <1>9, <1>10, StillExact DEF Working

(* A query contributes what the combined list has of its section.           *)
LEMMA FetchedIsPart ==
  ASSUME SeedsApart, TypeOK, SavedApart, stage \in 1..6, Opens(caller, here),
         NEW list \in Listings(here)
  PROVE  LET f == Fetched(list)
         IN /\ f = Contribution(caller, Lists, here, Limit) /\ f \in Seq(CardSpace)
            /\ here \notin Profiled => AllDescribed(f) = f
<1> DEFINE f == Fetched(list)
<1>1. here \in Section
  BY DEF here, SectionOrder, Section
<1>2. Lists[here] = CardsOf(here, list)
  BY <1>1, ListsAre
<1>3. f = Contribution(caller, Lists, here, Limit)
  BY <1>2 DEF Fetched, Contribution
<1>4. /\ f \in Seq(CardSpace) /\ Len(f) \in Nat
      /\ \A i \in 1..Len(f) : f[i].section = here
  BY FetchedShape
<1> HIDE DEF f
<1>5. ASSUME here \notin Profiled
      PROVE  AllDescribed(f) = f
  <2>1. /\ AllDescribed(f) \in Seq(Shown) /\ Len(AllDescribed(f)) = Len(f)
        /\ \A i \in 1..Len(f) : AllDescribed(f)[i] = Described(f[i])
    BY <1>4, AllDescribedShape
  <2>2. \A i \in 1..Len(f) : Described(f[i]) = f[i]
    BY <1>4, <1>5 DEF Described, Profiled
  <2>3. f \in Seq(Shown)
    BY <1>4, SeqMonotonic DEF Shown
  <2>4. \A i \in 1..Len(AllDescribed(f)) : AllDescribed(f)[i] = f[i]
    BY <2>1, <2>2
  <2>5. QED
    BY <2>1, <2>3, <2>4, SeqEqual
<1>6. QED
  BY <1>3, <1>4, <1>5 DEF f

LEMMA FetchCardsExact ==
  ASSUME SeedsApart, IInv, SavedApart, Exact, FetchCards
  PROVE  Exact'
<1>1. /\ pc = "fetch" /\ Opens(caller, here) /\ here \notin Profiled
      /\ stage \in 1..6 /\ NextStage
      /\ UNCHANGED <<store, caller, offset, got, drift, queue>>
  BY DEF FetchCards, walk, IInv, StageFits, Profiled
<1>2. /\ stage' = stage + 1 /\ pc' \in {"fetch", "slice"} /\ ~InLoop'
      /\ pc' = "slice" => stage' = 7
  BY <1>1, NextStageExact
<1>3. TypeOK /\ Limit \in Nat
  BY LimitIsNat DEF IInv
<1>4. PICK list \in Listings(here) : cards' = cards \o Fetched(list)
  BY DEF FetchCards
<1>5. PICK n, f, to : n = Limit /\ f = Fetched(list) /\ to = Rest(stage + 1, n)
  OBVIOUS
<1>6. f = Contribution(caller, Lists, here, n) /\ f \in Seq(CardSpace) /\ AllDescribed(f) = f
  BY <1>1, <1>3, <1>5, FetchedIsPart
<1>7. Rest(stage, n) = f \o to /\ to \in Seq(CardSpace)
  <2>1. /\ Rest(stage + 1, n) \in Seq(CardSpace)
        /\ Rest(stage, n) = Contribution(caller, Lists, here, n) \o Rest(stage + 1, n)
    BY <1>1, <1>3, <1>5, RestHere
  <2>2. QED
    BY <1>5, <1>6, <2>1, Zenon
<1>8. ToCome(Limit) = f \o to
  BY <1>1, <1>5, <1>7 DEF ToCome, InLoop
<1>9. cards \in Seq(Shown)
  <2>1. cards \in Seq(CardSpace)
    BY <1>3 DEF TypeOK
  <2>2. QED
    BY <2>1, SeqMonotonic DEF Shown
<1>10. cards' \o AllDescribed(to) = cards \o AllDescribed(ToCome(Limit))
  <2>1. (cards \o AllDescribed(f)) \o AllDescribed(to) = cards \o AllDescribed(f \o to)
    BY <1>6, <1>7, <1>9, CardsMove
  <2>2. QED
    BY <1>4, <1>5, <1>6, <1>8, <2>1, Zenon
<1>11. to = IF InLoop' THEN queue' \o Rest(stage' + 1, Limit) ELSE Rest(stage', Limit)
  BY <1>2, <1>5
<1>12. QED
  BY <1>1, <1>2, <1>10, <1>11, StillExact DEF Working

LEMMA FetchProfilesExact ==
  ASSUME SeedsApart, IInv, SavedApart, Exact, FetchProfiles
  PROVE  Exact'
<1>1. /\ pc = "fetch" /\ Opens(caller, here) /\ stage \in 1..6 /\ here \in Profiled
      /\ UNCHANGED <<store, caller, offset, got, drift, cards>>
  BY DEF FetchProfiles, walk, IInv, StageFits, Profiled
<1>2. TypeOK /\ Limit \in Nat
  BY LimitIsNat DEF IInv
<1>3. PICK list \in Listings(here) : queue' = Fetched(list)
  BY DEF FetchProfiles
<1>4. PICK n, f, r : n = Limit /\ f = Fetched(list) /\ r = Rest(stage + 1, n)
  OBVIOUS
<1>5. f = Contribution(caller, Lists, here, n) /\ f \in Seq(CardSpace)
  BY <1>1, <1>2, <1>4, FetchedIsPart
<1>6. Rest(stage, n) = f \o r /\ r \in Seq(CardSpace)
  <2>1. /\ Rest(stage + 1, n) \in Seq(CardSpace)
        /\ Rest(stage, n) = Contribution(caller, Lists, here, n) \o Rest(stage + 1, n)
    BY <1>1, <1>2, <1>4, RestHere
  <2>2. QED
    BY <1>4, <1>5, <2>1, Zenon
<1>7. ToCome(Limit) = f \o r
  BY <1>1, <1>4, <1>6 DEF ToCome, InLoop
<1>8. CASE queue' = <<>> /\ NextStage
  <2>1. /\ stage' = stage + 1 /\ pc' \in {"fetch", "slice"} /\ ~InLoop'
        /\ pc' = "slice" => stage' = 7
    BY <1>1, <1>8, NextStageExact
  <2>2. f \o r = r
    BY <1>3, <1>4, <1>6, <1>8, ConcatEmptySeq
  <2>3. r = IF InLoop' THEN queue' \o Rest(stage' + 1, Limit) ELSE Rest(stage', Limit)
    BY <1>4, <2>1
  <2>4. cards' \o AllDescribed(r) = cards \o AllDescribed(ToCome(Limit))
    BY <1>1, <1>7, <2>2
  <2>5. QED
    BY <1>1, <2>1, <2>3, <2>4, StillExact DEF Working
<1>9. CASE queue' # <<>> /\ pc' = Enrich(here) /\ UNCHANGED stage
  <2>1. InLoop' /\ pc' \in {"journeys", "events"}
    BY <1>1, <1>9 DEF Enrich, InLoop
  <2>2. PICK to : to = f \o r
    OBVIOUS
  <2>3. to = IF InLoop' THEN queue' \o Rest(stage' + 1, Limit) ELSE Rest(stage', Limit)
    BY <1>3, <1>4, <1>9, <2>1, <2>2
  <2>4. cards' \o AllDescribed(to) = cards \o AllDescribed(ToCome(Limit))
    BY <1>1, <1>7, <2>2
  <2>5. QED
    BY <1>1, <2>1, <2>3, <2>4, StillExact DEF Working
<1>10. QED
  BY <1>8, <1>9 DEF FetchProfiles

LEMMA HeadAndTail ==
  ASSUME NEW S, NEW list \in Seq(S), list # <<>>
  PROVE  /\ list[1] \in S /\ Tail(list) \in Seq(S) /\ <<list[1]>> \in Seq(S)
         /\ list = <<list[1]>> \o Tail(list)
<1>1. /\ Len(list) \in Nat \ {0} /\ Tail(list) \in Seq(S) /\ Len(Tail(list)) = Len(list) - 1
      /\ \A i \in 1..Len(Tail(list)) : Tail(list)[i] = list[i + 1]
  BY HeadTailProperties, EmptySeq
<1>2. list[1] \in S
  BY <1>1, ElementOfSeq
<1>3. PICK one, tail : one = <<list[1]>> /\ tail = Tail(list)
  OBVIOUS
<1>4. one \in Seq(S) /\ Len(one) = 1 /\ one[1] = list[1]
  BY <1>2, <1>3
<1>5. /\ one \o tail \in Seq(S) /\ Len(one \o tail) = Len(one) + Len(tail)
      /\ \A i \in 1..Len(one) + Len(tail) :
           (one \o tail)[i] = IF i <= Len(one) THEN one[i] ELSE tail[i - Len(one)]
  BY <1>1, <1>3, <1>4, ConcatProperties
<1>6. PICK both : both = one \o tail
  OBVIOUS
<1>7. \A i \in 1..Len(list) : list[i] = both[i]
  <2> SUFFICES ASSUME NEW i \in 1..Len(list) PROVE list[i] = both[i]
    OBVIOUS
  <2>1. CASE i = 1
    BY <1>1, <1>3, <1>4, <1>5, <1>6, <2>1
  <2>2. CASE i # 1
    <3>1. i - 1 \in 1..Len(Tail(list)) /\ i - 1 + 1 = i
      BY <1>1, <2>2
    <3>2. tail[i - 1] = list[i]
      BY <1>1, <1>3, <3>1
    <3>3. both[i] = tail[i - 1]
      BY <1>1, <1>3, <1>4, <1>5, <1>6, <2>2
    <3>4. QED
      BY <3>2, <3>3
  <2>3. QED
    BY <2>1, <2>2
<1>8. both \in Seq(S) /\ Len(both) = Len(list)
  BY <1>1, <1>3, <1>4, <1>5, <1>6
<1>9. list = both
  BY <1>7, <1>8, SeqEqual
<1>10. QED
  BY <1>1, <1>2, <1>3, <1>4, <1>6, <1>9, Zenon

(* The first of the queue, once described, is the next card of the list.    *)
LEMMA FirstMoves ==
  ASSUME NEW list \in Seq(Shown), NEW line \in Seq(CardSpace), line # <<>>,
         NEW r \in Seq(CardSpace), NEW card, card = Described(line[1])
  PROVE  /\ Append(list, card) \o AllDescribed(Tail(line) \o r) = list \o AllDescribed(line \o r)
         /\ Tail(line) \o r \in Seq(CardSpace)
<1>1. PICK one, tail : one = <<line[1]>> /\ tail = Tail(line)
  OBVIOUS
<1>2. /\ line[1] \in CardSpace /\ one \in Seq(CardSpace) /\ tail \in Seq(CardSpace)
      /\ line = one \o tail
  BY <1>1, HeadAndTail
<1>3. AllDescribed(one) = <<card>>
  <2>1. DOMAIN one = {1} /\ one[1] = line[1]
    BY <1>1
  <2>2. AllDescribed(one) = [i \in {1} |-> card]
    BY <2>1 DEF AllDescribed
  <2>3. QED
    BY <2>2
<1>4. card \in Shown
  BY <1>2 DEF Shown
<1>5. Append(list, card) = list \o AllDescribed(one)
  BY <1>3, <1>4, AppendIsConcat
<1>6. tail \o r \in Seq(CardSpace) /\ (one \o tail) \o r = one \o (tail \o r)
  <2>1. one \in Seq(CardSpace) /\ tail \in Seq(CardSpace)
    BY <1>2
  <2>2. tail \o r \in Seq(CardSpace)
    BY <2>1, ConcatProperties
  <2>3. (one \o tail) \o r = one \o (tail \o r)
    BY <2>1, ConcatAssociative
  <2>4. QED
    BY <2>2, <2>3, Zenon
<1>7. PICK next : next = tail \o r
  OBVIOUS
<1>8. (list \o AllDescribed(one)) \o AllDescribed(next) = list \o AllDescribed(one \o next)
  BY <1>2, <1>6, <1>7, CardsMove
<1>9. QED
  BY <1>1, <1>2, <1>5, <1>6, <1>7, <1>8, Zenon

LEMMA AppendExact ==
  ASSUME SeedsApart, IInv, SavedApart, Exact, InLoop, NEW card, AppendCard(card),
         drift.way = "none" => card = Described(queue[1]),
         UNCHANGED <<store, caller, offset, got, drift>>
  PROVE  Exact'
<1>1. /\ stage \in 1..6 /\ here \in Profiled /\ pc \in Working
      /\ queue \in Seq(CardSpace) /\ queue # <<>>
  BY LoopFacts DEF InLoop, Working
<1>2. TypeOK /\ Limit \in Nat
  BY LimitIsNat DEF IInv
<1>3. PICK n, r, tail : n = Limit /\ r = Rest(stage + 1, n) /\ tail = Tail(queue)
  OBVIOUS
<1>4. r \in Seq(CardSpace)
  BY <1>1, <1>2, <1>3, RestHere
<1>5. ToCome(Limit) = queue \o r
  BY <1>3 DEF ToCome
<1>6. cards \in Seq(Shown)
  <2>1. cards \in Seq(CardSpace)
    BY <1>2 DEF TypeOK
  <2>2. QED
    BY <2>1, SeqMonotonic DEF Shown
<1>7. PICK to : to = tail \o r
  OBVIOUS
<1>8. cards' = Append(cards, card) /\ queue' = tail
  BY <1>3 DEF AppendCard
<1>9. ASSUME drift.way = "none"
      PROVE  cards' \o AllDescribed(to) = cards \o AllDescribed(ToCome(Limit))
  <2>1. card = Described(queue[1])
    BY <1>9
  <2>2. Append(cards, card) \o AllDescribed(Tail(queue) \o r) = cards \o AllDescribed(queue \o r)
    BY <1>1, <1>4, <1>6, <2>1, FirstMoves
  <2>3. QED
    BY <1>3, <1>5, <1>7, <1>8, <2>2, Zenon
<1>10. CASE queue' = <<>> /\ NextStage
  <2>1. /\ stage' = stage + 1 /\ pc' \in {"fetch", "slice"} /\ ~InLoop'
        /\ pc' = "slice" => stage' = 7
    BY <1>1, <1>10, NextStageExact
  <2>2. to = r
    BY <1>4, <1>7, <1>8, <1>10, ConcatEmptySeq
  <2>3. to = IF InLoop' THEN queue' \o Rest(stage' + 1, Limit) ELSE Rest(stage', Limit)
    BY <1>3, <2>1, <2>2
  <2>4. QED
    BY <1>1, <1>9, <2>1, <2>3, StillExact DEF Working
<1>11. CASE queue' # <<>> /\ pc' = Enrich(here) /\ UNCHANGED stage
  <2>1. InLoop' /\ pc' \in {"journeys", "events"}
    BY <1>1, <1>11 DEF Enrich, InLoop
  <2>2. to = IF InLoop' THEN queue' \o Rest(stage' + 1, Limit) ELSE Rest(stage', Limit)
    BY <1>3, <1>7, <1>8, <1>11, <2>1
  <2>3. QED
    BY <1>1, <1>9, <2>1, <2>2, StillExact DEF Working
<1>12. QED
  BY <1>10, <1>11 DEF AppendCard

LEMMA DescribeExact ==
  ASSUME SeedsApart, IInv, SavedApart, Exact, ReadJourney \/ CountEvents \/ ReadNotes
  PROVE  Exact'
<1>1. /\ InLoop /\ pc \in Working /\ UNCHANGED <<store, caller, offset, got, drift>>
  BY DEF ReadJourney, CountEvents, ReadNotes, InLoop, walk, Working
<1>2. /\ stage \in 1..6 /\ queue \in Seq(CardSpace) /\ queue # <<>>
      /\ Head(queue) = queue[1] /\ queue[1] \in CardSpace /\ queue[1].doc \in Profile
  BY <1>1, LoopFacts
<1>3. TypeOK /\ Limit \in Nat
  BY LimitIsNat DEF IInv
<1>4. CASE ReadJourney
  <2>1. PICK to : to = ToCome(Limit)
    OBVIOUS
  <2>2. /\ pc' = "events" /\ InLoop' /\ UNCHANGED <<stage, queue, cards>>
    BY <1>4 DEF ReadJourney, InLoop
  <2>3. to = IF InLoop' THEN queue' \o Rest(stage' + 1, Limit) ELSE Rest(stage', Limit)
    BY <1>1, <2>1, <2>2 DEF ToCome
  <2>4. QED
    BY <1>1, <2>1, <2>2, <2>3, StillExact DEF Working
<1>5. CASE CountEvents
  <2>1. PICK card : card = Described(Head(queue))
    OBVIOUS
  <2>2. CASE AppendCard(Described(Head(queue)))
    <3>1. AppendCard(card) /\ card = Described(queue[1])
      BY <1>2, <2>1, <2>2
    <3>2. QED
      BY <1>1, <3>1, AppendExact
  <2>3. CASE /\ queue' = <<Described(Head(queue))>> \o Tail(queue)
             /\ pc' = "notes" /\ UNCHANGED <<stage, cards>>
    <3>1. PICK one, two, tail : one = <<queue[1]>> /\ two = <<card>> /\ tail = Tail(queue)
      OBVIOUS
    <3>2. /\ one \in Seq(CardSpace) /\ tail \in Seq(CardSpace) /\ queue = one \o tail
      BY <1>2, <3>1, HeadAndTail
    <3>3. card \in CardSpace /\ Described(card) = Described(queue[1])
      <4>1. PICK first : first = queue[1]
        OBVIOUS
      <4>2. first \in CardSpace /\ first.doc \in Profile /\ card = Described(first)
        BY <1>2, <2>1, <4>1
      <4>3. events[first.doc] \in Nat
        BY <1>3, <4>2 DEF TypeOK
      <4>4. card \in CardSpace
        BY <4>2, <4>3 DEF Described, CardSpace
      <4>5. Described(card) = card
        BY <4>2, DescribedTwice
      <4>6. QED
        BY <4>1, <4>2, <4>4, <4>5
    <3>4. two \in Seq(CardSpace) /\ queue' = two \o tail
      BY <1>2, <2>1, <2>3, <3>1, <3>3
    <3>5. AllDescribed(two) = AllDescribed(one)
      <4>1. DOMAIN one = {1} /\ DOMAIN two = {1} /\ one[1] = queue[1] /\ two[1] = card
        BY <3>1
      <4>2. QED
        BY <3>3, <4>1 DEF AllDescribed
    <3>6. PICK line : line = queue'
      OBVIOUS
    <3>7. line \in Seq(CardSpace) /\ AllDescribed(line) = AllDescribed(queue)
      <4>1. /\ AllDescribed(two \o tail) = AllDescribed(two) \o AllDescribed(tail)
            /\ AllDescribed(one \o tail) = AllDescribed(one) \o AllDescribed(tail)
            /\ two \o tail \in Seq(CardSpace)
        BY <3>2, <3>4, AllDescribedConcat, ConcatProperties
      <4>2. QED
        BY <3>2, <3>4, <3>5, <3>6, <4>1, Zenon
    <3>8. PICK n, r : n = Limit /\ r = Rest(stage + 1, n)
      OBVIOUS
    <3>9. r \in Seq(CardSpace)
      BY <1>2, <1>3, <3>8, RestHere
    <3>10. PICK to : to = line \o r
      OBVIOUS
    <3>11. AllDescribed(to) = AllDescribed(queue \o r)
      <4>1. /\ AllDescribed(line \o r) = AllDescribed(line) \o AllDescribed(r)
            /\ AllDescribed(queue \o r) = AllDescribed(queue) \o AllDescribed(r)
        BY <1>2, <3>7, <3>9, AllDescribedConcat
      <4>2. QED
        BY <3>7, <3>10, <4>1, Zenon
    <3>12. ToCome(Limit) = queue \o r
      BY <1>1, <3>8 DEF ToCome
    <3>13. InLoop' /\ UNCHANGED <<stage, cards>> /\ pc' = "notes"
      BY <2>3 DEF InLoop
    <3>14. to = IF InLoop' THEN queue' \o Rest(stage' + 1, Limit) ELSE Rest(stage', Limit)
      BY <3>6, <3>8, <3>10, <3>13
    <3>15. cards' \o AllDescribed(to) = cards \o AllDescribed(ToCome(Limit))
      BY <3>11, <3>12, <3>13
    <3>16. Described(queue'[1]) = queue'[1]
      <4>1. line # <<>> /\ line[1] = card
        <5>1. /\ Len(two) = 1 /\ two[1] = card /\ Len(tail) \in Nat
          BY <3>1, <3>2, LenProperties
        <5>2. /\ Len(two \o tail) = Len(two) + Len(tail)
              /\ \A i \in 1..Len(two) + Len(tail) :
                   (two \o tail)[i] = IF i <= Len(two) THEN two[i] ELSE tail[i - Len(two)]
          BY <3>2, <3>4, ConcatProperties
        <5>3. Len(line) = 1 + Len(tail) /\ line[1] = card
          BY <3>4, <3>6, <5>1, <5>2
        <5>4. QED
          BY <5>1, <5>3, EmptySeq
      <4>2. QED
        BY <2>1, <1>2, <3>3, <3>6, <4>1
    <3>17. QED
      BY <1>1, <3>13, <3>14, <3>15, <3>16, StillExact DEF Working
  <2>4. QED
    BY <1>5, <2>2, <2>3 DEF CountEvents
<1>6. CASE ReadNotes
  <2>1. PICK card : card = Head(queue)
    OBVIOUS
  <2>2. AppendCard(card) /\ (drift.way = "none" => card = Described(queue[1]))
    BY <1>2, <1>6, <2>1 DEF ReadNotes, Exact
  <2>3. QED
    BY <1>1, <2>2, AppendExact
<1>7. QED
  BY <1>4, <1>5, <1>6

(* What has been shown of a walk, measured: it is the offset asked for next. *)
LEMMA GotReaches ==
  ASSUME SeedsApart, IInv, SavedApart, Exact, drift.way = "none", pc \in Working
  PROVE  /\ offset \in Nat /\ Full \in Seq(Shown) /\ Len(Full) \in Nat /\ offset <= Len(Full)
         /\ got = FirstOf(Full, offset) /\ Len(got) = offset
<1>1. TypeOK /\ offset \in Nat
  BY BoundAssumption DEF IInv, TypeOK
<1>2. Full \in Seq(Shown)
  <2>1. 0 \in Nat
    OBVIOUS
  <2>2. QED
    BY <1>1, <2>1, ListShapes
<1>3. Len(got) = offset /\ got = FirstOf(Full, offset)
  BY DEF Exact
<1>4. PICK full : full = Full
  OBVIOUS
<1>5. Len(full) \in Nat /\ Len(FirstOf(full, offset)) = IF offset < Len(full) THEN offset ELSE Len(full)
  BY <1>1, <1>2, <1>4, FirstOfShape, LenProperties
<1>6. offset <= Len(full)
  BY <1>1, <1>3, <1>4, <1>5
<1>7. QED
  BY <1>1, <1>2, <1>3, <1>4, <1>5, <1>6

LEMMA SliceExact ==
  ASSUME SeedsApart, IInv, SavedApart, Exact, Slice
  PROVE  Exact'
<1>1. /\ pc = "slice" /\ pc \in Working /\ stage = 7 /\ pc' = "answered"
      /\ page' = PageOf(cards, offset, PageSize) /\ got' = got \o page'
      /\ UNCHANGED <<store, caller, offset, drift>>
  BY DEF Slice, Exact, Working
<1>2. TypeOK /\ PageSize \in Nat \ {0} /\ cards \in Seq(CardSpace)
  BY BoundAssumption DEF IInv, TypeOK
<1>3. Full' = Full
  BY <1>1, <1>2, RestingLists
<1>4. ASSUME drift.way = "none"
      PROVE  /\ got' = FirstOf(Full, Len(got'))
             /\ Len(got') = offset + Len(page')
             /\ Len(page') < PageSize => got' = Full
  <2>1. PICK full, o, n : full = Full /\ o = offset /\ n = Limit
    OBVIOUS
  <2>2. /\ o \in Nat /\ full \in Seq(Shown) /\ Len(full) \in Nat /\ o <= Len(full)
        /\ got = FirstOf(full, o) /\ Len(got) = o
    BY <1>1, <1>4, <2>1, GotReaches
  <2>3. n \in Nat /\ n = o + PageSize
    BY <1>1, <1>2, <2>1, LimitIsNat DEF Exact
  <2>4. PICK all, whole : all = Assembled(caller, Lists, n) /\ whole = CombinedList(caller, Lists)
    OBVIOUS
  <2>5. all \in Seq(CardSpace) /\ whole \in Seq(CardSpace) /\ AgreeUpTo(all, whole, n)
    BY <1>2, <2>3, <2>4, ListShapes
  <2>6. cards = AllDescribed(all)
    <3>1. ToCome(n) = <<>>
      <4>1. ToCome(n) = Rest(stage, n)
        BY <1>1 DEF ToCome, InLoop
      <4>2. PICK k : k = stage
        OBVIOUS
      <4>3. Rest(k, n) = <<>>
        BY <1>1, <4>2 DEF Rest
      <4>4. QED
        BY <4>1, <4>2, <4>3
    <3>2. AllDescribed(<<>>) = <<>>
      BY DEF AllDescribed
    <3>3. cards \o <<>> = AllDescribed(all)
      <4>1. Gathering(ToCome(n))
        BY <1>1, <1>4, <2>1 DEF Exact
      <4>2. cards \o AllDescribed(ToCome(n)) = AllDescribed(all)
        BY <2>1, <2>4, <4>1, Zenon DEF Gathering
      <4>3. QED
        BY <3>1, <3>2, <4>2, Zenon
    <3>4. QED
      BY <1>2, <3>3, ConcatEmptySeq
  <2>7. full = AllDescribed(whole)
    BY <2>1, <2>4 DEF Full
  <2>8. page' = PageOf(full, o, PageSize)
    <3>1. AgreeUpTo(AllDescribed(all), AllDescribed(whole), n)
      BY <2>3, <2>5, AllDescribedAgree
    <3>2. cards \in Seq(Shown) /\ AgreeUpTo(cards, full, o + PageSize)
      BY <2>3, <2>5, <2>6, <2>7, <3>1, AllDescribedShape
    <3>3. PageOf(cards, o, PageSize) = PageOf(full, o, PageSize)
      BY <1>2, <2>2, <3>2, PageAgrees
    <3>4. QED
      BY <1>1, <2>1, <3>3
  <2>9. PICK p, more : p = page' /\ more = FirstOf(full, o) \o p
    OBVIOUS
  <2>10. /\ got' = more
         /\ more = FirstOf(full, o + PageSize)
         /\ Len(p) < PageSize => more = full
    <3>1. got' = more
      BY <1>1, <2>2, <2>9
    <3>2. PICK q : q = PageOf(full, o, PageSize)
      OBVIOUS
    <3>3. /\ FirstOf(full, o) \o q = FirstOf(full, o + PageSize)
          /\ Len(q) < PageSize => FirstOf(full, o) \o q = full
      BY <1>2, <2>2, <3>2, PagesTile
    <3>4. p = q
      BY <2>8, <2>9, <3>2
    <3>5. QED
      BY <2>9, <3>1, <3>3, <3>4
  <2>11. /\ p \in Seq(Shown) /\ Len(p) \in Nat /\ Len(more) = o + Len(p)
    <3>1. p \in Seq(Shown)
      BY <1>2, <2>2, <2>8, <2>9, PageShape
    <3>2. got \in Seq(Shown)
      BY <2>2, FirstOfShape
    <3>3. Len(got \o p) = Len(got) + Len(p)
      BY <3>1, <3>2, ConcatProperties
    <3>4. QED
      BY <2>2, <2>9, <3>1, <3>3, LenProperties
  <2>12. more = FirstOf(full, Len(more))
    <3>1. PICK m, k : m = Len(more) /\ k = o + PageSize
      OBVIOUS
    <3>2. k \in Nat /\ m \in Nat /\ m = IF k < Len(full) THEN k ELSE Len(full)
      <4>1. k \in Nat /\ m \in Nat
        BY <1>2, <2>2, <2>11, <3>1
      <4>2. Len(FirstOf(full, k)) = IF k < Len(full) THEN k ELSE Len(full)
        BY <2>2, <4>1, FirstOfShape
      <4>3. FirstOf(full, k) = more
        BY <2>10, <3>1
      <4>4. QED
        BY <3>1, <4>1, <4>2, <4>3
    <3>3. FirstOf(full, k) = FirstOf(full, m)
      BY <2>2, <3>2 DEF FirstOf
    <3>4. QED
      BY <2>10, <3>1, <3>3
  <2>13. QED
    BY <2>1, <2>9, <2>10, <2>11, <2>12
<1>5. QED
  BY <1>1, <1>3, <1>4 DEF Exact, Working

LEMMA MongoFailsExact ==
  ASSUME SeedsApart, IInv, SavedApart, Exact, MongoFails
  PROVE  Exact'
<1>1. pc' = "failed" /\ UNCHANGED <<store, caller, got, drift>> /\ TypeOK
  BY DEF MongoFails, walk, IInv
<1>2. Full' = Full
  BY <1>1, RestingLists
<1>3. QED
  BY <1>1, <1>2 DEF Exact, Working

LEMMA AskExact ==
  ASSUME SeedsApart, IInv, SavedApart, Exact, Ask
  PROVE  Exact'
<1>1. Begin(0) /\ got = <<>> /\ TypeOK
  BY DEF Ask, Exact, IInv
<1>2. 0 \in Nat /\ 0 + PageSize <= MaxSize
  BY BoundAssumption, MaxSizeAssumption
<1>3. Full \in Seq(Shown)
  BY <1>1, <1>2, ListShapes
<1>4. PICK full : full = Full
  OBVIOUS
<1>5. Len(got) = 0 /\ got = FirstOf(Full, Len(got))
  BY <1>1, <1>3, <1>4, FirstOfNothing, EmptySeq
<1>6. QED
  BY <1>1, <1>2, <1>5, BeginExact

(* A page is only followed by another if it was full.                       *)
LEMMA TurnPageExact ==
  ASSUME Reach <= MaxSize, SeedsApart, IInv, SavedApart, Exact, TurnPage
  PROVE  Exact'
<1>1. /\ pc = "answered" /\ Len(page) = PageSize /\ offset + 2 * PageSize <= Reach
      /\ Begin(offset + PageSize) /\ drift' = drift
  BY DEF TurnPage, TurnsPage
<1>2. TypeOK /\ offset \in Nat /\ PageSize \in Nat /\ Reach \in Nat /\ MaxSize \in Nat
  BY BoundAssumption, MaxSizeAssumption DEF IInv, TypeOK
<1>3. offset + PageSize \in Nat /\ (offset + PageSize) + PageSize <= MaxSize
  BY <1>1, <1>2
<1>4. drift'.way = "none" => Len(got) = offset + PageSize /\ got = FirstOf(Full, Len(got))
  BY <1>1 DEF Exact
<1>5. QED
  BY <1>1, <1>2, <1>3, <1>4, BeginExact

(* A write lets the list drift; the request and the walk stay as they are.  *)
LEMMA WriteExact ==
  ASSUME IInv, Exact, Write
  PROVE  Exact'
<1>1. /\ UNCHANGED <<pc, stage, offset, got>>
      /\ drift' = [drift EXCEPT !.way =
                    IF @ # "backward" /\ \A s \in Source : Matching[s] \subseteq Matching'[s]
                    THEN "forward" ELSE "backward"]
  BY DEF Write, request, walk
<1>2. drift'.way # "none"
  <2>1. drift \in [way : {"none", "forward", "backward"}, since : 0..MaxWrites]
    BY DEF IInv, TypeOK
  <2>2. QED
    BY <1>1, <2>1
<1>3. QED
  BY <1>1, <1>2 DEF Exact

LEMMA StutterExact ==
  ASSUME SeedsApart, IInv, SavedApart, Exact, UNCHANGED vars
  PROVE  Exact'
<1>1. /\ UNCHANGED <<pc, stage, queue, cards, offset, page, got, drift>>
      /\ UNCHANGED <<store, caller>> /\ TypeOK /\ UNCHANGED events
  BY DEF vars, request, walk, store, IInv
<1>2. /\ Full' = Full
      /\ \A l : AllDescribed(l)' = AllDescribed(l)
      /\ \A n : Assembled(caller, Lists, n)' = Assembled(caller, Lists, n)
      /\ \A k, n : Rest(k, n)' = Rest(k, n)
  BY <1>1, RestingLists
<1>3. PICK n, k, j : n = Limit /\ k = stage /\ j = stage + 1
  OBVIOUS
<1>4. Limit' = n
  BY <1>1, <1>3 DEF Limit
<1>5. PICK to : to = ToCome(Limit)
  OBVIOUS
<1>6. ToCome(Limit)' = to
  <2>1. ToCome(Limit)' = IF InLoop' THEN queue' \o Rest(j, n)' ELSE Rest(k, n)'
    BY <1>1, <1>3, <1>4 DEF ToCome
  <2>2. to = IF InLoop THEN queue \o Rest(j, n) ELSE Rest(k, n)
    BY <1>3, <1>5 DEF ToCome
  <2>3. InLoop' = InLoop
    BY <1>1 DEF InLoop
  <2>4. QED
    BY <1>1, <1>2, <2>1, <2>2, <2>3
<1>7. Gathering(ToCome(Limit)) => Gathering(ToCome(Limit))'
  <2>1. Assembled(caller, Lists, Limit)' = Assembled(caller, Lists, Limit)
    BY <1>2, <1>3, <1>4
  <2>2. QED
    BY <1>1, <1>2, <1>5, <1>6, <2>1 DEF Gathering
<1>8. \A c : Described(c)' = Described(c)
  BY <1>1 DEF Described
<1>9. QED
  BY <1>1, <1>2, <1>7, <1>8 DEF Exact

LEMMA InitExact ==
  ASSUME SeedsApart, Init, IInv
  PROVE  SavedApart /\ Exact
<1>1. SavedApart
  BY InitSavedApart
<1>2. pc = "idle" /\ got = <<>> /\ TypeOK /\ 0 \in Nat
  BY DEF Init, IInv
<1>3. Full \in Seq(Shown)
  BY <1>1, <1>2, ListShapes
<1>4. PICK full : full = Full
  OBVIOUS
<1>5. got = FirstOf(Full, Len(got))
  BY <1>2, <1>3, <1>4, FirstOfNothing
<1>6. QED
  BY <1>1, <1>2, <1>5 DEF Exact, Working

LEMMA StepExact ==
  ASSUME SeedsApart, Reach <= MaxSize, IInv, SavedApart, Exact, [Next]_vars
  PROVE  SavedApart' /\ Exact'
<1>1. SavedApart'
  BY StepSavedApart
<1>2. CASE Ask \/ TurnPage
  BY <1>1, <1>2, AskExact, TurnPageExact
<1>3. CASE Work
  BY <1>1, <1>3, SkipSectionExact, FetchCardsExact, FetchProfilesExact, DescribeExact, SliceExact
     DEF Work
<1>4. CASE MongoFails
  BY <1>1, <1>4, MongoFailsExact
<1>5. CASE Others
  <2>1. Write
    BY <1>5 DEF Others, CreateNotice, RetireNotice, SaveProfile, EventsMove, ArchiveCustomer
  <2>2. QED
    BY <1>1, <2>1, WriteExact
<1>6. CASE WalkOver \/ UNCHANGED vars
  BY <1>1, <1>6, StutterExact DEF WalkOver
<1>7. QED
  BY <1>1, <1>2, <1>3, <1>4, <1>5, <1>6 DEF Next

-----------------------------------------------------------------------------
(* As long as nobody writes, the pages of a walk are consecutive slices of  *)
(* the one combined list that the contract describes, and a page shorter    *)
(* than asked for ends the walk with all of it, although get_home_cards     *)
(* puts every page together from the start, section after section with a    *)
(* query each.  Two things are needed: documents were saved at different    *)
(* moments (the sorts of MongoIO break no tie, so two pages may see two     *)
(* orders), and the walk asks for nothing beyond MAX_SIZE (SectionSize      *)
(* stops growing there).                                                    *)
THEOREM HomeWalkIsExact ==
  ASSUME SeedsApart, Reach <= MaxSize
  PROVE  Spec => []WalkIsExact
<1>1. Init /\ IInv => SavedApart /\ Exact
  BY InitExact
<1>2. IInv /\ SavedApart /\ Exact /\ [Next]_vars => SavedApart' /\ Exact'
  BY StepExact
<1>3. Exact => WalkIsExact
  BY DEF Exact, WalkIsExact, Full, AllDescribed
<1>4. QED
  BY <1>1, <1>2, <1>3, HomeInvariance, PTL DEF Spec
-----------------------------------------------------------------------------
(* A walk while the list drifts forward *)

(* The place of a section in the order of the list. *)
Nr(s) ==
  CASE s = "notifications" -> 1 [] s = "admin" -> 2 [] s = "customer" -> 3
    [] s = "members" -> 4 [] s = "mentees" -> 5 [] s = "journey" -> 6

(* The documents of every section now. *)
Shelves ==
  [s \in Section |->
     IF s \in Source THEN Matching[s]
     ELSE IF Opens(caller, s) THEN {Synthetic[s][i] : i \in DOMAIN Synthetic[s]} ELSE {}]

(* Those that were there all the time since the request began. *)
Kept == [s \in Section |-> IF s \in Source THEN span.stayed[s] ELSE Shelves[s]]

Newer(s, e, d) ==
  CASE s = "notifications" -> notices[e].at > notices[d].at
    [] s \in Profiled      -> profiles[e].at > profiles[d].at
    [] OTHER               -> FALSE

(* x and y are a section and one of its documents: x is listed before y. *)
StandsBefore(x, y) ==
  Nr(x[1]) < Nr(y[1]) \/ (x[1] = y[1] /\ Newer(y[1], x[2], y[2]))

InFront(shelves, y) == {x \in Section \X Item : x[2] \in shelves[x[1]] /\ StandsBefore(x, y)}

(* The list as it stands: what is complete and what waits for a description. *)
Count == Len(cards) + Len(queue)

Marks(a, b) ==
  [i \in 1..Len(a) + Len(b) |->
     IF i <= Len(a) THEN <<a[i].section, a[i].doc>>
     ELSE <<b[i - Len(a)].section, b[i - Len(a)].doc>>]

Line == Marks(cards, queue)

(* The section's query was made. *)
Read(s) == Nr(s) < stage \/ (InLoop /\ s = here)

(* The walk still owes the document to the client. *)
Owed(y) ==
  /\ y[1] \in Source /\ y[2] \in Matching[y[1]]
  /\ ~Written(y[1], y[2]) /\ y[2] \notin DocsOf(got, y[1])

(* It is on the list behind the pages before, or too far behind to be there. *)
Placed(y) ==
  \/ \E i \in 1..Count : offset < i /\ Line[i] = y
  \/ Count >= Limit /\ Cardinality(InFront(Shelves, y)) >= Limit

Underway ==
  /\ \A i \in 1..Count : Line[i][2] \in Shelves[Line[i][1]]
  /\ \A i \in 1..Count : \A j \in 1..i - 1 :
       Line[i][1] \in Source /\ ~Written(Line[i][1], Line[i][2]) => StandsBefore(Line[j], Line[i])
  /\ stage > 2 => Shelves["admin"] \subseteq DocsOf(cards, "admin")
  /\ \A y \in Section \X Item : Owed(y) =>
       /\ Cardinality(InFront(Kept, y)) >= offset
       /\ Read(y[1]) => Placed(y)

(* What a page leaves out is behind it, and then the page was full. *)
LeftBehind ==
  \A y \in Section \X Item : Owed(y) =>
    Len(page) >= PageSize /\ Cardinality(InFront(Shelves, y)) >= Len(got)

Lossless ==
  /\ drift.since <= clock
  /\ pc \in {"fetch", "slice"} => queue = <<>>
  /\ pc \in Working => Len(got) = offset
  /\ pc = "answered" => Len(got) = offset + Len(page)
  /\ drift.way # "backward" =>
       /\ pc \in Working => Underway
       /\ pc = "answered" => LeftBehind

-----------------------------------------------------------------------------
(* Counting what is in front *)

LEMMA AtMost ==
  ASSUME NEW n \in Nat, NEW f, NEW S, \A x \in S : \E j \in 1..n : f[j] = x
  PROVE  Cardinality(S) <= n
<1> DEFINE g == [x \in S |-> CHOOSE j \in 1..n : f[j] = x]
<1>1. /\ g \in [S -> 1..n]
      /\ \A x \in S : f[g[x]] = x
  OBVIOUS
<1> HIDE DEF g
<1>2. g \in Injection(S, 1..n)
  BY <1>1 DEF Injection, IsInjective
<1>3. IsFiniteSet(1..n) /\ Cardinality(1..n) = n
  BY FS_Interval
<1>4. QED
  BY <1>2, <1>3, FS_Injection

LEMMA AtLeast ==
  ASSUME NEW n \in Nat, NEW f, NEW S, IsFiniteSet(S), \A j \in 1..n : f[j] \in S,
         \A j, k \in 1..n : f[j] = f[k] => j = k
  PROVE  n <= Cardinality(S)
<1> DEFINE g == [j \in 1..n |-> f[j]]
<1>1. g \in [1..n -> S] /\ \A j \in 1..n : g[j] = f[j]
  OBVIOUS
<1> HIDE DEF g
<1>2. g \in Injection(1..n, S)
  BY <1>1 DEF Injection, IsInjective
<1>3. Cardinality(1..n) = n
  BY FS_Interval
<1>4. QED
  BY <1>2, <1>3, FS_Injection

LEMMA FewItems == IsFiniteSet(Section) /\ IsFiniteSet(Item)
<1>0. \A n \in Nat : IsFiniteSet(1..n)
  BY FS_Interval
<1>1. IsFiniteSet(Section)
  <2>1. SectionOrder \in [1..6 -> Section]
    BY DEF SectionOrder, Section
  <2>2. SectionOrder \in Surjection(1..6, Section)
    BY <2>1 DEF Surjection, SectionOrder, Section
  <2>3. IsFiniteSet(1..6)
    BY <1>0
  <2>4. QED
    BY <2>2, <2>3, FS_Surjection
<1>2. IsFiniteSet({"Products", "Discounts", "Logs", "Journey"})
  <2> DEFINE f == <<"Products", "Discounts", "Logs", "Journey">>
             S == {"Products", "Discounts", "Logs", "Journey"}
  <2>1. f \in [1..4 -> S]
    OBVIOUS
  <2>2. f \in Surjection(1..4, S)
    BY <2>1 DEF Surjection
  <2>3. IsFiniteSet(1..4)
    BY <1>0
  <2>4. QED
    BY <2>2, <2>3, FS_Surjection
<1>3. IsFiniteSet(Item)
  BY <1>2, FiniteAssumption, FS_Union DEF Item
<1>4. QED
  BY <1>1, <1>3

LEMMA FrontIsFinite ==
  ASSUME NEW shelves, NEW y
  PROVE  /\ IsFiniteSet(InFront(shelves, y))
         /\ Cardinality(InFront(shelves, y)) \in Nat
<1>1. IsFiniteSet(Section \X Item)
  BY FewItems, FS_Product
<1>2. InFront(shelves, y) \subseteq Section \X Item
  BY DEF InFront
<1>3. QED
  BY <1>1, <1>2, FS_Subset, FS_CardinalityType

LEMMA SectionNumbers ==
  /\ \A s \in Section : Nr(s) \in 1..6 /\ SectionOrder[Nr(s)] = s
  /\ \A k \in 1..6 : SectionOrder[k] \in Section /\ Nr(SectionOrder[k]) = k
  /\ Source \subseteq Section
<1>1. \A s \in Section : Nr(s) \in 1..6 /\ SectionOrder[Nr(s)] = s
  BY DEF Section, SectionOrder, Nr
<1>2. \A k \in 1..6 : k = 1 \/ k = 2 \/ k = 3 \/ k = 4 \/ k = 5 \/ k = 6
  OBVIOUS
<1>3. \A k \in 1..6 : SectionOrder[k] \in Section /\ Nr(SectionOrder[k]) = k
  BY <1>2 DEF Section, SectionOrder, Nr
<1>4. QED
  BY <1>1, <1>3 DEF Source, Section

LEMMA PastNumbers ==
  ASSUME stage \in 1..7, NEW s \in Section
  PROVE  s \in Past <=> Nr(s) < stage
<1>1. \A k \in 1..stage - 1 : k \in 1..6 /\ Nr(SectionOrder[k]) = k
  BY SectionNumbers
<1>2. Nr(s) \in 1..6 /\ SectionOrder[Nr(s)] = s
  BY SectionNumbers
<1>3. QED
  BY <1>1, <1>2 DEF Past

LEMMA HereNumber ==
  ASSUME stage \in 1..6
  PROVE  here \in Section /\ Nr(here) = stage
BY SectionNumbers DEF here

LEMMA ShelfShape ==
  /\ Shelves \in [Section -> SUBSET Item]
  /\ \A s \in Source : Shelves[s] = Matching[s]
<1>1. Source \subseteq Section
  BY SectionNumbers
<1>2. ASSUME NEW s \in Section \ Source
      PROVE  {Synthetic[s][i] : i \in DOMAIN Synthetic[s]} \subseteq Item
  <2>1. s \in {"admin", "journey"}
    BY <1>2 DEF Section, Source
  <2>2. CASE s = "admin"
    BY <2>2 DEF Synthetic, Item
  <2>3. CASE s = "journey"
    BY <2>3 DEF Synthetic, Item
  <2>4. QED
    BY <2>1, <2>2, <2>3
<1>3. QED
  BY <1>1, <1>2, MatchingShape DEF Shelves

LEMMA LineShape ==
  ASSUME TypeOK
  PROVE  /\ Len(cards) \in Nat /\ Len(queue) \in Nat /\ Count \in Nat
         /\ Line \in [1..Count -> Section \X Item]
         /\ \A i \in 1..Len(cards) :
              i \in 1..Count /\ Line[i] = <<cards[i].section, cards[i].doc>>
         /\ \A i \in 1..Len(queue) :
              /\ Len(cards) + i \in 1..Count
              /\ Line[Len(cards) + i] = <<queue[i].section, queue[i].doc>>
<1>1. /\ Len(cards) \in Nat /\ Len(queue) \in Nat
      /\ \A i \in 1..Len(cards) : cards[i] \in CardSpace
      /\ \A i \in 1..Len(queue) : queue[i] \in CardSpace
  BY LenProperties, ElementOfSeq DEF TypeOK
<1>2. PICK a, b : a = Len(cards) /\ b = Len(queue)
  OBVIOUS
<1>3. /\ \A i \in 1..a : <<cards[i].section, cards[i].doc>> \in Section \X Item
      /\ \A i \in 1..b : <<queue[i].section, queue[i].doc>> \in Section \X Item
  BY <1>1, <1>2 DEF CardSpace
<1>4. Count = a + b /\ a \in Nat /\ b \in Nat
  BY <1>1, <1>2 DEF Count
<1>5. Line = [i \in 1..a + b |->
                IF i <= a THEN <<cards[i].section, cards[i].doc>>
                ELSE <<queue[i - a].section, queue[i - a].doc>>]
  BY <1>2, <1>4 DEF Line, Marks
<1>6. Line \in [1..a + b -> Section \X Item]
  <2>1. \A i \in 1..a + b :
          (IF i <= a THEN <<cards[i].section, cards[i].doc>>
           ELSE <<queue[i - a].section, queue[i - a].doc>>) \in Section \X Item
    BY <1>3, <1>4
  <2>2. QED
    BY <1>5, <2>1
<1>7. \A i \in 1..a : i \in 1..a + b /\ Line[i] = <<cards[i].section, cards[i].doc>>
  BY <1>4, <1>5
<1>8. \A i \in 1..b : a + i \in 1..a + b /\ Line[a + i] = <<queue[i].section, queue[i].doc>>
  BY <1>4, <1>5
<1>9. /\ Line \in [1..Count -> Section \X Item] /\ Count \in Nat
      /\ \A i \in 1..Len(cards) :
           i \in 1..Count /\ Line[i] = <<cards[i].section, cards[i].doc>>
  BY <1>2, <1>4, <1>6, <1>7
<1>10. \A i \in 1..Len(queue) :
         /\ Len(cards) + i \in 1..Count
         /\ Line[Len(cards) + i] = <<queue[i].section, queue[i].doc>>
  BY <1>2, <1>4, <1>8
<1>11. QED
  BY <1>1, <1>9, <1>10

-----------------------------------------------------------------------------
(* What the queries list, and in which order *)

LEMMA NewerIs ==
  /\ \A e, d : Newer("notifications", e, d) <=> notices[e].at > notices[d].at
  /\ \A s \in Profiled : \A e, d : Newer(s, e, d) <=> profiles[e].at > profiles[d].at
  /\ \A e, d : ~Newer("customer", e, d)
<1>1. \A e, d : Newer("notifications", e, d) <=> notices[e].at > notices[d].at
  BY DEF Newer, Profiled
<1>2. \A s \in Profiled : \A e, d : Newer(s, e, d) <=> profiles[e].at > profiles[d].at
  <2>1. \A s \in Profiled : s # "notifications"
    BY DEF Profiled
  <2>2. QED
    BY <2>1 DEF Newer
<1>3. \A e, d : ~Newer("customer", e, d)
  BY DEF Newer, Profiled
<1>4. QED
  BY <1>1, <1>2, <1>3

LEMMA OrderingsCover ==
  ASSUME NEW ids, IsFiniteSet(ids), NEW key
  PROVE  /\ UNION {{list[i] : i \in DOMAIN list} : list \in Orderings(ids, key)} \subseteq ids
         /\ DistinctKeys(ids, key) =>
              UNION {{list[i] : i \in DOMAIN list} : list \in Orderings(ids, key)} = ids
<1>1. ASSUME NEW list \in Orderings(ids, key)
      PROVE  {list[i] : i \in DOMAIN list} = ids
  <2>1. list \in Seq(ids) /\ \A m \in ids : \E i \in 1..Len(list) : list[i] = m
    BY OrderingShape, OrderingComplete
  <2>2. DOMAIN list = 1..Len(list) /\ \A i \in 1..Len(list) : list[i] \in ids
    BY <2>1, LenProperties, ElementOfSeq
  <2>3. QED
    BY <2>1, <2>2
<1>2. DistinctKeys(ids, key) => \E list : Orderings(ids, key) = {list}
  BY OneOrdering
<1>3. QED
  BY <1>1, <1>2

LEMMA KeysApart ==
  ASSUME TypeOK, SavedApart
  PROVE  /\ \A ids \in SUBSET Profile : DistinctKeys(ids, [d \in ids |-> -profiles[d].at])
         /\ \A ids \in SUBSET Notice : (\A n \in ids : notices[n] # Absent) =>
              DistinctKeys(ids, [d \in ids |-> -notices[d].at])
<1>1. \A p \in Profile : profiles[p].at \in Nat
  BY DEF TypeOK, ProfileDoc
<1>2. \A n \in Notice : notices[n] # Absent => notices[n].at \in Nat
  BY DEF TypeOK, NoticeDoc
<1>3. ASSUME NEW ids \in SUBSET Profile
      PROVE  DistinctKeys(ids, [d \in ids |-> -profiles[d].at])
  BY <1>1 DEF DistinctKeys, SavedApart
<1>4. ASSUME NEW ids \in SUBSET Notice, \A n \in ids : notices[n] # Absent
      PROVE  DistinctKeys(ids, [d \in ids |-> -notices[d].at])
  BY <1>2, <1>4 DEF DistinctKeys, SavedApart
<1>5. QED
  BY <1>3, <1>4

(* A query lists what it stands for, each document behind the newer ones.   *)
LEMMA ListingSorted ==
  ASSUME SeedsApart, TypeOK, SavedApart, NEW s \in Source, Opens(caller, s),
         NEW list \in Listings(s)
  PROVE  /\ list \in Seq(Item) /\ Len(list) \in Nat
         /\ \A i \in 1..Len(list) : list[i] \in Matching[s]
         /\ \A m \in Matching[s] : \E i \in 1..Len(list) : list[i] = m
         /\ \A i, j \in 1..Len(list) : list[i] = list[j] => i = j
         /\ \A i, j \in 1..Len(list) : i < j <=> Newer(s, list[i], list[j])
<1>1. s \in Section
  BY SectionNumbers
<1>2. /\ list \in Seq(Item) /\ Len(list) \in Nat
      /\ \A i, j \in 1..Len(list) : list[i] = list[j] => i = j
      /\ \A i \in 1..Len(list) : list[i] \in Matching[s]
  BY <1>1, ListingShape, MatchingShape, LenProperties
<1>3. CustomerIsCertain /\ NamesKept
  BY DEF SeedsApart, SavedApart
<1>4. \A m \in Matching[s] : \E i \in 1..Len(list) : list[i] = m
  BY <1>3, ListingComplete
<1>5. ASSUME NEW ids, IsFiniteSet(ids), NEW key, list \in Orderings(ids, key), DistinctKeys(ids, key)
      PROVE  \A i, j \in 1..Len(list) :
               /\ list[i] \in ids /\ key[list[i]] \in Int /\ key[list[j]] \in Int
               /\ i < j <=> key[list[i]] < key[list[j]]
  <2>1. list \in Seq(ids) /\ \A i \in 1..Len(list) : list[i] \in ids
    BY <1>5, OrderingShape, ElementOfSeq
  <2>2. key \in [ids -> Int] /\ \A d, e \in ids : key[d] = key[e] => d = e
    BY <1>5 DEF DistinctKeys
  <2>3. Len(list) = Cardinality(ids)
    <3>1. list \in [1..Cardinality(ids) -> ids] /\ Cardinality(ids) \in Nat
      BY <1>5, FS_CardinalityType DEF Orderings
    <3>2. QED
      BY <1>2, <3>1, LenProperties
  <2>4. \A i, j \in 1..Len(list) : i < j => key[list[i]] <= key[list[j]]
    BY <1>5, <2>3 DEF Orderings
  <2>5. \A i, j \in 1..Len(list) : i < j => key[list[i]] < key[list[j]]
    BY <1>2, <2>1, <2>2, <2>4
  <2>6. ASSUME NEW i \in 1..Len(list), NEW j \in 1..Len(list), key[list[i]] < key[list[j]]
        PROVE  i < j
    <3>1. ~(j < i)
      BY <2>1, <2>2, <2>5, <2>6
    <3>2. i # j
      BY <2>1, <2>2, <2>6
    <3>3. QED
      BY <1>2, <3>1, <3>2
  <2>7. QED
    BY <2>1, <2>2, <2>5, <2>6
<1>6. CASE s = "notifications"
  <2> DEFINE ids == ActiveFor(caller, notices)
             key == [d \in ids |-> -notices[d].at]
  <2>1. ids \subseteq Notice /\ IsFiniteSet(ids) /\ \A d \in ids : notices[d] # Absent
    BY FiniteAssumption, FS_Subset DEF ActiveFor
  <2>2. list \in Orderings(ids, key)
    BY <1>6 DEF Listings, NewestFirst
  <2> HIDE DEF ids
  <2>3. DistinctKeys(ids, key)
    BY <2>1, KeysApart
  <2>4. \A i, j \in 1..Len(list) :
          list[i] \in ids /\ list[j] \in ids /\ (i < j <=> key[list[i]] < key[list[j]])
    BY <1>5, <2>1, <2>2, <2>3
  <2>5. \A d \in ids : notices[d].at \in Nat
    BY <2>1 DEF TypeOK, NoticeDoc
  <2>6. ASSUME NEW i \in 1..Len(list), NEW j \in 1..Len(list)
        PROVE  i < j <=> Newer(s, list[i], list[j])
    <3>1. PICK a, b : a = notices[list[i]].at /\ b = notices[list[j]].at
      OBVIOUS
    <3>2. /\ a \in Nat /\ b \in Nat /\ key[list[i]] = -a /\ key[list[j]] = -b
          /\ i < j <=> key[list[i]] < key[list[j]]
      BY <2>4, <2>5, <3>1
    <3>3. Newer(s, list[i], list[j]) <=> a > b
      BY <1>6, <3>1, NewerIs
    <3>4. QED
      BY <3>2, <3>3
  <2>7. QED
    BY <1>2, <1>4, <2>6
<1>7. CASE s \in Profiled
  <2>1. PICK ids \in SUBSET Profile : Listings(s) = NewestFirst(ids, profiles)
    BY <1>7 DEF Listings, Profiled, MembersFor, MenteesFor
  <2> DEFINE key == [d \in ids |-> -profiles[d].at]
  <2>2. list \in Orderings(ids, key) /\ IsFiniteSet(ids)
    BY <2>1, FiniteAssumption, FS_Subset DEF NewestFirst
  <2>3. DistinctKeys(ids, key)
    BY KeysApart
  <2>4. \A i, j \in 1..Len(list) :
          list[i] \in ids /\ list[j] \in ids /\ (i < j <=> key[list[i]] < key[list[j]])
    BY <1>5, <2>2, <2>3
  <2>5. \A d \in ids : profiles[d].at \in Nat
    BY DEF TypeOK, ProfileDoc
  <2>6. ASSUME NEW i \in 1..Len(list), NEW j \in 1..Len(list)
        PROVE  i < j <=> Newer(s, list[i], list[j])
    <3>1. PICK a, b : a = profiles[list[i]].at /\ b = profiles[list[j]].at
      OBVIOUS
    <3>2. /\ a \in Nat /\ b \in Nat /\ key[list[i]] = -a /\ key[list[j]] = -b
          /\ i < j <=> key[list[i]] < key[list[j]]
      BY <2>4, <2>5, <3>1
    <3>3. Newer(s, list[i], list[j]) <=> a > b
      BY <1>7, <3>1, NewerIs
    <3>4. QED
      BY <3>2, <3>3
  <2>7. QED
    BY <1>2, <1>4, <2>6
<1>8. CASE s = "customer"
  <2>1. PICK l \in Seq(CustomersFor(caller, customers)) :
          /\ CustomerQuery(caller, customers) = {l}
          /\ Len(l) = IF CustomersFor(caller, customers) = {} THEN 0 ELSE 1
    BY <1>3, <1>8, OneCustomerList DEF NamesKept, TypeOK
  <2>2. list = l
    BY <1>8, <2>1 DEF Listings
  <2>0. PICK n : n = Len(list)
    OBVIOUS
  <2>3. \A i, j \in 1..Len(list) : i = 1 /\ j = 1
    <3>1. n = 0 \/ n = 1
      BY <2>0, <2>1, <2>2
    <3>2. QED
      BY <2>0, <3>1
  <2>4. \A i, j \in 1..Len(list) : i < j <=> Newer(s, list[i], list[j])
    BY <1>8, <2>3 DEF Newer, Profiled
  <2>5. QED
    BY <1>2, <1>4, <2>4
<1>9. QED
  BY <1>6, <1>7, <1>8 DEF Source, Profiled

-----------------------------------------------------------------------------
(* What a forward write leaves alone *)

LEMMA MatchingNow ==
  ASSUME TypeOK, SavedApart, NEW s \in Source
  PROVE  Matching[s] = IF ~Opens(caller, s) THEN {}
                       ELSE CASE s = "notifications" -> ActiveFor(caller, notices)
                              [] s = "customer" -> Matching["customer"]
                              [] s = "members" -> MembersFor(caller, profiles)
                              [] s = "mentees" -> MenteesFor(caller, profiles)
<1>1. CASE s = "notifications" /\ Opens(caller, s)
  <2> DEFINE ids == ActiveFor(caller, notices)
             key == [d \in ids |-> -notices[d].at]
  <2>1. ids \subseteq Notice /\ IsFiniteSet(ids) /\ \A d \in ids : notices[d] # Absent
    BY FiniteAssumption, FS_Subset DEF ActiveFor
  <2>2. Matching[s] = UNION {{list[i] : i \in DOMAIN list} : list \in Orderings(ids, key)}
    BY <1>1 DEF Matching, Listings, NewestFirst
  <2> HIDE DEF ids
  <2>3. Matching[s] = ids
    BY <2>1, <2>2, KeysApart, OrderingsCover
  <2>4. QED
    BY <1>1, <2>3 DEF ids
<1>2. ASSUME s \in Profiled, Opens(caller, s), NEW ids \in SUBSET Profile,
             Listings(s) = NewestFirst(ids, profiles)
      PROVE  Matching[s] = ids
  <2> DEFINE key == [d \in ids |-> -profiles[d].at]
  <2>1. IsFiniteSet(ids) /\ DistinctKeys(ids, key)
    BY FiniteAssumption, FS_Subset, KeysApart
  <2>2. Matching[s] = UNION {{list[i] : i \in DOMAIN list} : list \in Orderings(ids, key)}
    BY <1>2 DEF Matching, NewestFirst
  <2> HIDE DEF key
  <2>3. QED
    BY <2>1, <2>2, OrderingsCover
<1>3. CASE s = "members" /\ Opens(caller, s)
  <2>1. /\ Listings(s) = NewestFirst(MembersFor(caller, profiles), profiles)
        /\ MembersFor(caller, profiles) \in SUBSET Profile /\ s \in Profiled
    BY <1>3 DEF Listings, MembersFor, Profiled
  <2>2. Matching[s] = MembersFor(caller, profiles)
    BY <1>2, <1>3, <2>1
  <2>3. QED
    BY <1>3, <2>2
<1>4. CASE s = "mentees" /\ Opens(caller, s)
  <2>1. /\ Listings(s) = NewestFirst(MenteesFor(caller, profiles), profiles)
        /\ MenteesFor(caller, profiles) \in SUBSET Profile /\ s \in Profiled
    BY <1>4 DEF Listings, MenteesFor, Profiled
  <2>2. Matching[s] = MenteesFor(caller, profiles)
    BY <1>2, <1>4, <2>1
  <2>3. QED
    BY <1>4, <2>2
<1>5. CASE s = "customer" /\ Opens(caller, s)
  BY <1>5
<1>6. CASE ~Opens(caller, s)
  BY <1>6 DEF Matching
<1>7. QED
  BY <1>1, <1>3, <1>4, <1>5, <1>6 DEF Source

(* Also after a step: nothing matches that its query would not return.      *)
LEMMA MatchingNext ==
  /\ \A d \in Matching'["notifications"] :
       d \in ActiveFor(caller', notices') /\ Opens(caller', "notifications")
  /\ \A d \in Matching'["members"] :
       d \in MembersFor(caller', profiles') /\ Opens(caller', "members")
  /\ \A d \in Matching'["mentees"] :
       d \in MenteesFor(caller', profiles') /\ Opens(caller', "mentees")
<1>1. ASSUME NEW d \in Matching'["notifications"]
      PROVE  d \in ActiveFor(caller', notices') /\ Opens(caller', "notifications")
  <2> DEFINE ids == ActiveFor(caller', notices')
             key == [n \in ids |-> -notices'[n].at]
  <2>1. IsFiniteSet(ids)
    BY FiniteAssumption, FS_Subset DEF ActiveFor
  <2>2. /\ Opens(caller', "notifications")
        /\ d \in UNION {{list[i] : i \in DOMAIN list} : list \in Orderings(ids, key)}
    BY <1>1 DEF Matching, Source, Listings, NewestFirst
  <2> HIDE DEF ids, key
  <2>3. d \in ids
    BY <2>1, <2>2, OrderingsCover
  <2>4. QED
    BY <2>2, <2>3 DEF ids
<1>2. ASSUME NEW d \in Matching'["members"]
      PROVE  d \in MembersFor(caller', profiles') /\ Opens(caller', "members")
  <2> DEFINE ids == MembersFor(caller', profiles')
             key == [n \in ids |-> -profiles'[n].at]
  <2>1. IsFiniteSet(ids)
    BY FiniteAssumption, FS_Subset DEF MembersFor
  <2>2. /\ Opens(caller', "members")
        /\ d \in UNION {{list[i] : i \in DOMAIN list} : list \in Orderings(ids, key)}
    BY <1>2 DEF Matching, Source, Listings, NewestFirst
  <2> HIDE DEF ids, key
  <2>3. d \in ids
    BY <2>1, <2>2, OrderingsCover
  <2>4. QED
    BY <2>2, <2>3 DEF ids
<1>3. ASSUME NEW d \in Matching'["mentees"]
      PROVE  d \in MenteesFor(caller', profiles') /\ Opens(caller', "mentees")
  <2> DEFINE ids == MenteesFor(caller', profiles')
             key == [n \in ids |-> -profiles'[n].at]
  <2>1. IsFiniteSet(ids)
    BY FiniteAssumption, FS_Subset DEF MenteesFor
  <2>2. /\ Opens(caller', "mentees")
        /\ d \in UNION {{list[i] : i \in DOMAIN list} : list \in Orderings(ids, key)}
    BY <1>3 DEF Matching, Source, Listings, NewestFirst
  <2> HIDE DEF ids, key
  <2>3. d \in ids
    BY <2>1, <2>2, OrderingsCover
  <2>4. QED
    BY <2>2, <2>3 DEF ids
<1>4. QED
  BY <1>1, <1>2, <1>3

(* What a write may do to a document. *)
LEMMA DocsMove ==
  ASSUME IInv, Others
  PROVE  /\ clock' = clock + 1 /\ caller' = caller
         /\ \A n \in Notice :
              \/ notices'[n] = notices[n]
              \/ notices[n] = Absent /\ notices'[n].at = 100 + clock
              \/ notices[n] # Absent /\ notices'[n].at = notices[n].at /\ ~notices'[n].live
         /\ \A p \in Profile : profiles'[p] = profiles[p] \/ profiles'[p].at = 100 + clock
         /\ \A c \in Customer : customers'[c] = customers[c] \/ customers'[c].status = "archived"
<1>1. /\ notices \in [Notice -> NoticeDoc \cup {Absent}]
      /\ profiles \in [Profile -> ProfileDoc] /\ customers \in [Customer -> CustomerDoc]
  BY DEF IInv, TypeOK
<1>2. Write
  BY DEF Others, CreateNotice, RetireNotice, SaveProfile, EventsMove, ArchiveCustomer
<1>3. clock' = clock + 1 /\ caller' = caller
  BY <1>2 DEF Write, walk
<1>4. ASSUME NEW n \in Notice, CreateNotice(n) \/ RetireNotice(n)
      PROVE  /\ UNCHANGED <<profiles, customers>>
             /\ \A m \in Notice :
                  \/ notices'[m] = notices[m]
                  \/ notices[m] = Absent /\ notices'[m].at = 100 + clock
                  \/ notices[m] # Absent /\ notices'[m].at = notices[m].at /\ ~notices'[m].live
  <2>1. CASE CreateNotice(n)
    BY <1>1, <2>1 DEF CreateNotice, Now
  <2>2. CASE RetireNotice(n)
    <3>1. notices' = [notices EXCEPT ![n] = [notices[n] EXCEPT !.live = FALSE]]
          /\ notices[n] \in NoticeDoc /\ notices[n] # Absent
      BY <1>1, <2>2 DEF RetireNotice
    <3>2. /\ [notices[n] EXCEPT !.live = FALSE].at = notices[n].at
          /\ ~[notices[n] EXCEPT !.live = FALSE].live
      BY <3>1 DEF NoticeDoc
    <3>3. \A m \in Notice : notices'[m] = IF m = n THEN [notices[n] EXCEPT !.live = FALSE] ELSE notices[m]
      BY <1>1, <3>1
    <3>4. QED
      BY <2>2, <3>1, <3>2, <3>3 DEF RetireNotice
  <2>3. QED
    BY <1>4, <2>1, <2>2
<1>5. ASSUME NEW p \in Profile, SaveProfile(p)
      PROVE  /\ UNCHANGED <<notices, customers>>
             /\ \A q \in Profile : profiles'[q] = profiles[q] \/ profiles'[q].at = 100 + clock
  <2>1. PICK m, st : profiles' = [profiles EXCEPT ![p].mentor = m, ![p].status = st, ![p].at = Now]
    BY <1>5 DEF SaveProfile
  <2>2. profiles[p] \in ProfileDoc
    BY <1>1
  <2>3. profiles'[p].at = Now /\ \A q \in Profile : q # p => profiles'[q] = profiles[q]
    BY <1>1, <2>1, <2>2 DEF ProfileDoc
  <2>4. QED
    BY <1>5, <2>3 DEF SaveProfile, Now
<1>6. ASSUME NEW c \in Customer, ArchiveCustomer(c)
      PROVE  /\ UNCHANGED <<notices, profiles>>
             /\ \A d \in Customer : customers'[d] = customers[d] \/ customers'[d].status = "archived"
  <2>1. customers' = [customers EXCEPT ![c] = [customers[c] EXCEPT !.status = "archived"]]
    BY <1>6 DEF ArchiveCustomer
  <2>2. [customers[c] EXCEPT !.status = "archived"].status = "archived"
    BY <1>1 DEF CustomerDoc
  <2>3. \A d \in Customer :
          customers'[d] = IF d = c THEN [customers[c] EXCEPT !.status = "archived"] ELSE customers[d]
    BY <1>1, <2>1
  <2>4. QED
    BY <1>6, <2>2, <2>3 DEF ArchiveCustomer
<1>7. ASSUME NEW p \in Profile, EventsMove(p)
      PROVE  UNCHANGED <<notices, profiles, customers>>
  BY <1>7 DEF EventsMove
<1>8. QED
  BY <1>3, <1>4, <1>5, <1>6, <1>7 DEF Others

(* The Customer card does not change unless it is lost. *)
LEMMA CustomerStays ==
  ASSUME SeedsApart, IInv, SavedApart, Others, Matching["customer"] \subseteq Matching'["customer"],
         NEW d \in Matching'["customer"]
  PROVE  d \in Matching["customer"]
<1>1. /\ CustomerIsCertain /\ caller \in Caller /\ caller' = caller
      /\ customers \in [Customer -> CustomerDoc] /\ customers' \in [Customer -> CustomerDoc]
      /\ \A c \in Customer : customers[c].name = Customers0[c].name
      /\ \A c \in Customer : customers'[c].name = Customers0[c].name
  BY DocsMove, OthersKeep, StepNamesKept
     DEF SeedsApart, SavedApart, IInv, TypeOK, NamesKept, Next
<1>2. Opens(caller, "customer")
  BY <1>1 DEF Matching, Source
<1>3. PICK l \in Seq(CustomersFor(caller, customers)) :
        /\ CustomerQuery(caller, customers) = {l}
        /\ Len(l) = IF CustomersFor(caller, customers) = {} THEN 0 ELSE 1
  BY <1>1, <1>2, OneCustomerList
<1>4. PICK m \in Seq(CustomersFor(caller, customers')) :
        /\ CustomerQuery(caller, customers') = {m}
        /\ Len(m) = IF CustomersFor(caller, customers') = {} THEN 0 ELSE 1
  BY <1>1, <1>2, OneCustomerList
<1>5. /\ Matching["customer"] = {l[i] : i \in DOMAIN l}
      /\ Matching'["customer"] = {m[i] : i \in DOMAIN m}
  BY <1>1, <1>2, <1>3, <1>4 DEF Matching, Source, Listings
<1>6. DOMAIN l = 1..Len(l) /\ DOMAIN m = 1..Len(m)
  BY <1>3, <1>4, LenProperties
<1>7. d = m[1] /\ Len(m) = 1 /\ d \in CustomersFor(caller, customers')
  BY <1>4, <1>5, <1>6, ElementOfSeq
<1>8. d \in CustomersFor(caller, customers)
  BY <1>7, DocsMove DEF CustomersFor, Outbound
<1>9. l[1] \in Matching["customer"]
  BY <1>3, <1>5, <1>6, <1>8
<1>10. l[1] \in Matching'["customer"]
  BY <1>9
<1>11. l[1] = d
  BY <1>5, <1>6, <1>7, <1>10
<1>12. QED
  BY <1>9, <1>11

(* While the list only drifts forward, what nobody wrote since the walk     *)
(* began was there before, and nothing in front of it falls behind it.      *)
LEMMA WriteDrifts ==
  ASSUME SeedsApart, IInv, SavedApart, drift.since <= clock, Others, drift'.way # "backward"
  PROVE  /\ drift.way # "backward" /\ drift'.since = drift.since
         /\ \A s \in Source : Matching[s] \subseteq Matching'[s]
         /\ \A s \in Source : \A d \in Matching'[s] :
              ~Written(s, d)' => d \in Matching[s] /\ ~Written(s, d)
         /\ \A s \in Source : \A d, e \in Matching[s] :
              ~Written(s, d)' /\ Newer(s, e, d) => Newer(s, e, d)'
<1>1. Write
  BY DEF Others, CreateNotice, RetireNotice, SaveProfile, EventsMove, ArchiveCustomer
<1>2. drift \in [way : {"none", "forward", "backward"}, since : 0..MaxWrites] /\ clock \in Nat
  BY DEF IInv, TypeOK
<1>3. /\ drift.way # "backward" /\ drift'.since = drift.since
      /\ \A s \in Source : Matching[s] \subseteq Matching'[s]
  BY <1>1, <1>2 DEF Write
<1>4. PICK b : b = 100 + drift.since
  OBVIOUS
<1>5. b \in Nat /\ b <= 100 + clock /\ 100 + drift'.since = b
  BY <1>2, <1>3, <1>4, BoundAssumption
<1>6. TypeOK /\ caller' = caller
  BY DocsMove DEF IInv
<1>7. /\ \A d : Written("notifications", d)' <=> notices'[d].at >= b
      /\ \A d : Written("notifications", d) <=> notices[d].at >= b
  BY <1>4, <1>5 DEF Written
<1>8. \A s \in Profiled : \A d :
        /\ Written(s, d)' <=> profiles'[d].at >= b
        /\ Written(s, d) <=> profiles[d].at >= b
  <2>1. \A s \in Profiled : s # "notifications" /\ s \in {"members", "mentees"}
    BY DEF Profiled
  <2>2. QED
    BY <1>4, <1>5, <2>1 DEF Written
<1>9. \A n \in Notice : notices[n] # Absent => notices[n].at \in Nat
  BY <1>6 DEF TypeOK, NoticeDoc
<1>10. \A p \in Profile : profiles[p].at \in Nat
  BY <1>6 DEF TypeOK, ProfileDoc
<1>11. ASSUME NEW d \in Matching'["notifications"], ~Written("notifications", d)'
       PROVE  d \in Matching["notifications"] /\ ~Written("notifications", d)
  <2>1. d \in ActiveFor(caller, notices') /\ Opens(caller, "notifications")
    BY <1>6, MatchingNext
  <2>2. d \in Notice /\ notices'[d].live
    BY <2>1 DEF ActiveFor
  <2>3. notices'[d].at # 100 + clock
    BY <1>2, <1>5, <1>7, <1>11
  <2>4. notices'[d] = notices[d]
    BY <2>2, <2>3, DocsMove
  <2>5. d \in ActiveFor(caller, notices)
    BY <2>1, <2>4 DEF ActiveFor
  <2>6. d \in Matching["notifications"]
    BY <1>6, <2>1, <2>5, MatchingNow DEF Source
  <2>7. QED
    BY <1>7, <1>11, <2>4, <2>6
<1>12. ASSUME NEW s \in Profiled, NEW d \in Matching'[s], ~Written(s, d)'
       PROVE  d \in Matching[s] /\ ~Written(s, d)
  <2>1. /\ s = "members" => d \in MembersFor(caller, profiles')
        /\ s = "mentees" => d \in MenteesFor(caller, profiles')
        /\ Opens(caller, s) /\ s \in Source
    BY <1>6, MatchingNext DEF Profiled, Source
  <2>2. d \in Profile
    BY <2>1 DEF MembersFor, MenteesFor, Profiled
  <2>3. profiles'[d].at # 100 + clock
    BY <1>2, <1>5, <1>8, <1>12
  <2>4. profiles'[d] = profiles[d]
    BY <2>2, <2>3, DocsMove
  <2>5. /\ s = "members" => d \in MembersFor(caller, profiles)
        /\ s = "mentees" => d \in MenteesFor(caller, profiles)
    BY <2>1, <2>4 DEF MembersFor, MenteesFor, OutboundProfile
  <2>6. d \in Matching[s]
    BY <1>6, <2>1, <2>5, MatchingNow DEF Profiled
  <2>7. QED
    BY <1>8, <1>12, <2>4, <2>6
<1>13. ASSUME NEW d \in Matching'["customer"]
       PROVE  d \in Matching["customer"] /\ ~Written("customer", d)
  <2>1. d \in Matching["customer"]
    BY <1>3, CustomerStays DEF Source
  <2>2. QED
    BY <2>1 DEF Written
<1>14. ASSUME NEW d \in Matching["notifications"], NEW e \in Matching["notifications"],
              ~Written("notifications", d)', Newer("notifications", e, d)
       PROVE  Newer("notifications", e, d)'
  <2>1. d \in ActiveFor(caller, notices) /\ e \in ActiveFor(caller, notices)
    BY <1>6, <1>14, MatchingNow DEF Source
  <2>2. /\ d \in Notice /\ notices[d] # Absent /\ e \in Notice /\ notices[e] # Absent
    BY <2>1 DEF ActiveFor
  <2>3. notices'[d].at = notices[d].at /\ notices'[e].at = notices[e].at
    BY <2>2, DocsMove
  <2>4. notices[e].at > notices[d].at
    BY <1>14, NewerIs
  <2>5. notices'[e].at > notices'[d].at
    BY <2>3, <2>4
  <2>6. QED
    BY <2>5 DEF Newer, Profiled
<1>15. ASSUME NEW s \in Profiled, NEW d \in Matching[s], NEW e \in Matching[s],
              ~Written(s, d)', Newer(s, e, d)
       PROVE  Newer(s, e, d)'
  <2>1. d \in Profile /\ e \in Profile
    BY <1>6, <1>15, MatchingNow DEF Source, Profiled, MembersFor, MenteesFor
  <2>2. profiles[e].at > profiles[d].at
    BY <1>15, NewerIs
  <2>3. profiles'[d] = profiles[d] /\ (profiles'[e] = profiles[e] \/ profiles'[e].at = 100 + clock)
    BY <1>2, <1>5, <1>8, <1>15, <2>1, DocsMove
  <2>4. profiles[d].at < 100 + clock
    BY <2>1 DEF SavedApart
  <2>5. profiles'[e].at > profiles'[d].at
    BY <1>2, <1>10, <2>1, <2>2, <2>3, <2>4
  <2>6. s # "notifications"
    BY DEF Profiled
  <2>7. QED
    BY <2>5, <2>6 DEF Newer
<1>16. \A d, e : ~Newer("customer", e, d)
  BY NewerIs
<1>17. \A s \in Source : s = "notifications" \/ s = "customer" \/ s \in Profiled
  BY DEF Source, Profiled
<1>18. QED
  BY <1>3, <1>11, <1>12, <1>13, <1>14, <1>15, <1>16, <1>17

-----------------------------------------------------------------------------
(* Steps of a walk that drifts *)

(* While nothing is written, the shelves and their order stay.              *)
LEMMA RestingShelves ==
  ASSUME UNCHANGED <<store, caller>>
  PROVE  /\ Matching' = Matching /\ Shelves' = Shelves
         /\ \A x, y : StandsBefore(x, y)' <=> StandsBefore(x, y)
         /\ \A shelves, y : InFront(shelves, y)' = InFront(shelves, y)
<1>1. UNCHANGED <<notices, profiles, customers, events, caller>>
  BY DEF store
<1>2. Matching' = Matching
  BY <1>1 DEF Matching, Listings
<1>3. Shelves' = Shelves
  BY <1>1, <1>2 DEF Shelves
<1>4. \A x, y : StandsBefore(x, y)' <=> StandsBefore(x, y)
  BY <1>1 DEF StandsBefore, Newer
<1>5. \A shelves, y : InFront(shelves, y)' = InFront(shelves, y)
  BY <1>4 DEF InFront
<1>6. QED
  BY <1>2, <1>3, <1>4, <1>5

(* A bigger shelf has no fewer in front. *)
LEMMA FrontGrows ==
  ASSUME NEW S, NEW T, IsFiniteSet(T), S \subseteq T
  PROVE  Cardinality(S) \in Nat /\ Cardinality(T) \in Nat /\ Cardinality(S) <= Cardinality(T)
BY FS_Subset, FS_CardinalityType

(* The request's own reads leave the walk and the collections alone.        *)
Resting ==
  /\ UNCHANGED <<store, caller, offset, got, drift>> /\ span'.stayed = span.stayed
  /\ pc \in Working /\ pc' \in Working

LEMMA RestingWalk ==
  ASSUME Resting
  PROVE  /\ Matching' = Matching /\ Shelves' = Shelves /\ Kept' = Kept /\ Limit' = Limit
         /\ \A x, y : StandsBefore(x, y)' <=> StandsBefore(x, y)
         /\ \A s, d : Written(s, d)' <=> Written(s, d)
         /\ \A y : Owed(y)' <=> Owed(y)
         /\ \A y : Cardinality(InFront(Shelves, y))' = Cardinality(InFront(Shelves, y))
         /\ \A y : Cardinality(InFront(Kept, y))' = Cardinality(InFront(Kept, y))
<1>1. /\ UNCHANGED <<notices, profiles, customers, events, caller, offset, got, drift>>
      /\ UNCHANGED <<store, caller>> /\ span'.stayed = span.stayed
  BY DEF Resting, store
<1>2. /\ Matching' = Matching /\ Shelves' = Shelves
      /\ \A x, y : StandsBefore(x, y)' <=> StandsBefore(x, y)
      /\ \A shelves, y : InFront(shelves, y)' = InFront(shelves, y)
  BY <1>1, RestingShelves
<1>3. Kept' = Kept
  BY <1>1, <1>2 DEF Kept
<1>4. \A s, d : Written(s, d)' <=> Written(s, d)
  BY <1>1 DEF Written
<1>5. \A y : Owed(y)' <=> Owed(y)
  BY <1>1, <1>2, <1>4 DEF Owed, DocsOf
<1>6. PICK all, kept : all = Shelves /\ kept = Kept
  OBVIOUS
<1>7. \A y : InFront(Shelves, y)' = InFront(all, y) /\ InFront(Kept, y)' = InFront(kept, y)
  BY <1>2, <1>3, <1>6 DEF InFront
<1>8. QED
  BY <1>1, <1>2, <1>3, <1>4, <1>5, <1>6, <1>7 DEF Limit

(* A step in the loop moves or describes a card: the line stays as it is.   *)
LEMMA LineStays ==
  ASSUME Lossless, Resting, Count' = Count, Line' = Line,
         DocsOf(cards, "admin") \subseteq DocsOf(cards', "admin"),
         stage' > 2 => stage > 2 \/ Shelves["admin"] = {},
         \A s \in Source : Read(s)' => Read(s) \/ Matching[s] = {},
         pc' \in {"fetch", "slice"} => queue' = <<>>
  PROVE  Lossless'
<1>1. /\ Matching' = Matching /\ Shelves' = Shelves /\ Kept' = Kept /\ Limit' = Limit
      /\ \A x, y : StandsBefore(x, y)' <=> StandsBefore(x, y)
      /\ \A s, d : Written(s, d)' <=> Written(s, d)
      /\ \A y : Owed(y)' <=> Owed(y)
      /\ \A y : Cardinality(InFront(Shelves, y))' = Cardinality(InFront(Shelves, y))
      /\ \A y : Cardinality(InFront(Kept, y))' = Cardinality(InFront(Kept, y))
  BY RestingWalk
<1>2. /\ UNCHANGED <<clock, offset, got, drift>> /\ pc \in Working /\ pc' \in Working
      /\ pc' # "answered"
  BY DEF Resting, store, Working
<1>3. ASSUME drift'.way # "backward"
      PROVE  Underway'
  <2>1. Underway
    BY <1>2, <1>3 DEF Lossless
  <2>2. \A i \in 1..Count' : Line'[i][2] \in Shelves'[Line'[i][1]]
    BY <1>1, <2>1 DEF Underway
  <2>3. \A i \in 1..Count' : \A j \in 1..i - 1 :
          Line'[i][1] \in Source /\ ~Written(Line[i][1], Line[i][2])' =>
            StandsBefore(Line[j], Line[i])'
    BY <1>1, <2>1 DEF Underway
  <2>4. stage' > 2 => Shelves'["admin"] \subseteq DocsOf(cards', "admin")
    BY <1>1, <2>1 DEF Underway
  <2>5. ASSUME NEW y \in Section \X Item, Owed(y)'
        PROVE  /\ Cardinality(InFront(Kept, y))' >= offset'
               /\ Read(y[1])' => Placed(y)'
    <3>1. Owed(y) /\ y[1] \in Source /\ Matching[y[1]] # {}
      BY <1>1, <2>5 DEF Owed
    <3>2. Cardinality(InFront(Kept, y)) >= offset /\ (Read(y[1]) => Placed(y))
      BY <2>1, <3>1 DEF Underway
    <3>3. Placed(y) => Placed(y)'
      BY <1>1, <1>2 DEF Placed
    <3>4. QED
      BY <1>1, <1>2, <3>1, <3>2, <3>3
  <2>6. QED
    BY <2>2, <2>3, <2>4, <2>5 DEF Underway
<1>4. QED
  BY <1>2, <1>3 DEF Lossless

LEMMA LineMoves ==
  ASSUME NEW a \in Seq(CardSpace), NEW b \in Seq(CardSpace), b # <<>>,
         NEW card \in CardSpace, card.section = b[1].section, card.doc = b[1].doc
  PROVE  /\ Len(Append(a, card)) + Len(Tail(b)) = Len(a) + Len(b)
         /\ Marks(Append(a, card), Tail(b)) = Marks(a, b)
<1> DEFINE c == Append(a, card)
           d == Tail(b)
<1>0. Len(a) \in Nat /\ Len(b) \in Nat /\ Len(b) # 0
  BY LenProperties, EmptySeq
<1>a. PICK m, n : m = Len(a) /\ n = Len(b)
  OBVIOUS
<1>1. m = Len(a) /\ n = Len(b) /\ m \in Nat /\ n \in Nat /\ n > 0
  BY <1>0, <1>a
<1>2. Len(c) = m + 1 /\ c[m + 1] = card /\ \A i \in 1..m : c[i] = a[i]
  BY <1>1, AppendProperties
<1>3. Len(d) = n - 1 /\ \A i \in 1..n - 1 : d[i] = b[i + 1]
  BY <1>1, HeadTailProperties, LenProperties
<1> HIDE DEF c, d
<1>4. ASSUME NEW i \in 1..m + n
      PROVE  (IF i <= m + 1 THEN <<c[i].section, c[i].doc>>
              ELSE <<d[i - (m + 1)].section, d[i - (m + 1)].doc>>) =
             (IF i <= m THEN <<a[i].section, a[i].doc>>
              ELSE <<b[i - m].section, b[i - m].doc>>)
  <2>1. CASE i <= m
    BY <1>1, <1>2, <2>1
  <2>2. CASE i = m + 1
    <3>1. i - m = 1 /\ c[i] = card
      BY <1>1, <1>2, <2>2
    <3>2. QED
      BY <1>1, <2>2, <3>1
  <2>3. CASE i > m + 1
    <3>1. i - (m + 1) \in 1..n - 1 /\ (i - (m + 1)) + 1 = i - m
      BY <1>1, <2>3
    <3>2. d[i - (m + 1)] = b[i - m]
      BY <1>3, <3>1
    <3>3. QED
      BY <1>1, <2>3, <3>2
  <2>4. i <= m \/ i = m + 1 \/ i > m + 1
    BY <1>1
  <2>5. QED
    BY <2>1, <2>2, <2>3, <2>4, Zenon
<1>5. (m + 1) + (n - 1) = m + n
  BY <1>1
<1>6. /\ Len(c) + Len(d) = m + n
      /\ Marks(a, b) = [i \in 1..m + n |-> IF i <= m THEN <<a[i].section, a[i].doc>>
                                           ELSE <<b[i - m].section, b[i - m].doc>>]
      /\ Marks(c, d) = [i \in 1..m + n |-> IF i <= m + 1 THEN <<c[i].section, c[i].doc>>
                                           ELSE <<d[i - (m + 1)].section, d[i - (m + 1)].doc>>]
  BY <1>1, <1>2, <1>3, <1>5 DEF Marks
<1>7. Marks(c, d) = Marks(a, b)
  BY <1>4, <1>6, Zenon
<1>8. QED
  BY <1>1, <1>6, <1>7 DEF c, d

LEMMA LoopReads ==
  ASSUME stage \in 1..6, InLoop, stage' = stage \/ (stage' = stage + 1 /\ ~InLoop')
  PROVE  \A s \in Source : Read(s)' => Read(s)
<1>1. here \in Section /\ Nr(here) = stage /\ SectionOrder[stage] = here
  BY HereNumber, SectionNumbers DEF here
<1>2. ASSUME NEW s \in Source
      PROVE  Nr(s) \in 1..6 /\ SectionOrder[Nr(s)] = s
  BY SectionNumbers
<1>3. ASSUME NEW s \in Source, Read(s)'
      PROVE  Read(s)
  <2>1. CASE stage' = stage
    BY <1>3, <2>1 DEF Read, here
  <2>2. CASE stage' = stage + 1 /\ ~InLoop'
    <3>1. Nr(s) < stage + 1
      BY <1>3, <2>2 DEF Read
    <3>2. Nr(s) < stage \/ Nr(s) = stage
      BY <1>2, <3>1
    <3>3. QED
      BY <1>1, <1>2, <3>2 DEF Read
  <2>3. QED
    BY <2>1, <2>2
<1>4. QED
  BY <1>3

LEMMA AppendLossless ==
  ASSUME IInv, Lossless, InLoop, NEW card \in CardSpace,
         card.section = here, card.doc = queue[1].doc, AppendCard(card),
         UNCHANGED <<store, walk, drift>>, span'.stayed = span.stayed
  PROVE  Lossless'
<1>1. /\ stage \in 1..6 /\ here \in Profiled
      /\ queue \in Seq(CardSpace) /\ queue # <<>> /\ queue[1].section = here
  BY LoopFacts
<1>2. /\ cards \in Seq(CardSpace) /\ cards' = Append(cards, card) /\ queue' = Tail(queue)
      /\ \/ queue' = <<>> /\ NextStage
         \/ queue' # <<>> /\ pc' = Enrich(here) /\ UNCHANGED stage
  BY DEF AppendCard, IInv, TypeOK
<1>3. /\ stage' = stage \/ (stage' = stage + 1 /\ ~InLoop')
      /\ pc' \in Working
      /\ pc' \in {"fetch", "slice"} => queue' = <<>>
  <2>1. CASE queue' = <<>>
    BY <1>1, <1>2, <2>1, NextStageExact DEF Working
  <2>2. CASE queue' # <<>>
    <3>1. pc' \in {"journeys", "events"} /\ stage' = stage
      BY <1>2, <2>2 DEF Enrich
    <3>2. QED
      BY <3>1 DEF Working
  <2>3. QED
    BY <2>1, <2>2
<1>4. Count' = Count /\ Line' = Line
  <2>1. /\ Len(Append(cards, card)) + Len(Tail(queue)) = Len(cards) + Len(queue)
        /\ Marks(Append(cards, card), Tail(queue)) = Marks(cards, queue)
    BY <1>1, <1>2, LineMoves
  <2>2. QED
    BY <1>2, <2>1 DEF Count, Line, Marks
<1>5. DocsOf(cards, "admin") \subseteq DocsOf(cards', "admin")
  BY <1>1, <1>2, DocsOfMove
<1>6. stage' > 2 => stage > 2
  <2>1. here # SectionOrder[1] /\ here # SectionOrder[2]
    BY <1>1 DEF SectionOrder, Profiled
  <2>2. stage # 1 /\ stage # 2
    BY <2>1 DEF here
  <2>3. QED
    BY <1>1, <2>2
<1>7. \A s \in Source : Read(s)' => Read(s)
  BY <1>1, <1>3, LoopReads
<1>8. Resting
  BY <1>3 DEF Resting, walk, InLoop, Working
<1>9. QED
  BY <1>3, <1>4, <1>5, <1>6, <1>7, <1>8, LineStays

LEMMA DescribeLossless ==
  ASSUME IInv, Lossless, ReadJourney \/ CountEvents \/ ReadNotes
  PROVE  Lossless'
<1>1. InLoop /\ UNCHANGED <<store, walk, drift>>
  BY DEF ReadJourney, CountEvents, ReadNotes, InLoop
<1>2. span'.stayed = span.stayed
  BY DEF ReadJourney, CountEvents, ReadNotes, IInv, SpanCovers, SpanSpace
<1>3. /\ stage \in 1..6 /\ here \in Profiled
      /\ queue \in Seq(CardSpace) /\ queue # <<>> /\ Len(queue) \in Nat \ {0}
      /\ Head(queue) = queue[1] /\ queue[1] \in CardSpace /\ queue[1].section = here
      /\ queue[1].doc \in Profile
      /\ Tail(queue) \in Seq(CardSpace) /\ Len(Tail(queue)) = Len(queue) - 1
      /\ \A i \in 1..Len(Tail(queue)) : Tail(queue)[i] = queue[i + 1]
  BY <1>1, LoopFacts
<1>4. Len(cards) \in Nat
  BY LenProperties DEF IInv, TypeOK
<1>5. ASSUME InLoop', UNCHANGED <<stage, cards>>, Count' = Count, Line' = Line
      PROVE  Lossless'
  <2>1. Resting
    BY <1>1, <1>2, <1>5 DEF Resting, InLoop, Working, walk
  <2>2. \A s \in Source : Read(s)' => Read(s)
    BY <1>1, <1>3, <1>5, LoopReads
  <2>3. DocsOf(cards, "admin") \subseteq DocsOf(cards', "admin")
    BY <1>5
  <2>4. pc' \notin {"fetch", "slice"}
    BY <1>5 DEF InLoop
  <2>5. QED
    BY <1>5, <2>1, <2>2, <2>3, <2>4, LineStays
<1>6. CASE ReadJourney
  <2>1. InLoop' /\ UNCHANGED <<stage, queue, cards>>
    BY <1>6 DEF ReadJourney, InLoop
  <2>2. Count' = Count /\ Line' = Line
    BY <2>1 DEF Count, Line, Marks
  <2>3. QED
    BY <1>5, <2>1, <2>2
<1>7. CASE CountEvents
  <2>1. PICK card : card = Described(Head(queue))
    OBVIOUS
  <2>2. card \in CardSpace /\ card.section = here /\ card.doc = queue[1].doc
    BY <1>3, <2>1 DEF Described, CardSpace, IInv, TypeOK
  <2>3. CASE AppendCard(Described(Head(queue)))
    <3>1. AppendCard(card)
      BY <2>1, <2>3
    <3>2. QED
      BY <1>1, <1>2, <2>2, <3>1, AppendLossless
  <2>4. CASE /\ queue' = <<Described(Head(queue))>> \o Tail(queue)
             /\ pc' = "notes" /\ UNCHANGED <<stage, cards>>
    <3>1. queue' = <<card>> \o Tail(queue) /\ <<card>> \in Seq(CardSpace)
          /\ Len(<<card>>) = 1 /\ <<card>>[1] = card
      BY <2>1, <2>2, <2>4
    <3>2. /\ Len(queue') = Len(queue)
          /\ \A i \in 1..Len(queue') : queue'[i] = IF i = 1 THEN card ELSE queue[i]
      <4>1. /\ Len(queue') = 1 + Len(Tail(queue))
            /\ \A i \in 1..Len(<<card>>) + Len(Tail(queue)) :
                 queue'[i] = IF i <= Len(<<card>>) THEN <<card>>[i]
                             ELSE Tail(queue)[i - Len(<<card>>)]
        BY <1>3, <3>1, ConcatProperties
      <4>2. QED
        BY <1>3, <3>1, <4>1
    <3>3. \A i \in 1..Len(queue) :
            <<queue'[i].section, queue'[i].doc>> = <<queue[i].section, queue[i].doc>>
      BY <1>3, <2>2, <3>2
    <3>4. Count' = Count
      BY <2>4, <3>2 DEF Count
    <3>5. Line' = Line
      <4>1. PICK a, b, line : a = Len(cards) /\ b = Len(queue) /\ line = queue'
        OBVIOUS
      <4>2. \A i \in 1..a + b : ~(i <= a) => i - a \in 1..b
        BY <1>3, <1>4, <4>1
      <4>3. Line = [i \in 1..a + b |->
                      IF i <= a THEN <<cards[i].section, cards[i].doc>>
                      ELSE <<queue[i - a].section, queue[i - a].doc>>]
        BY <4>1 DEF Line, Marks
      <4>4. Line' = [i \in 1..a + b |->
                       IF i <= a THEN <<cards[i].section, cards[i].doc>>
                       ELSE <<line[i - a].section, line[i - a].doc>>]
        BY <2>4, <3>2, <4>1 DEF Line, Marks
      <4>5. \A i \in 1..b : <<line[i].section, line[i].doc>> = <<queue[i].section, queue[i].doc>>
        BY <3>3, <4>1
      <4>6. QED
        BY <4>2, <4>3, <4>4, <4>5, Zenon
    <3>6. InLoop'
      BY <2>4 DEF InLoop
    <3>7. QED
      BY <1>5, <2>4, <3>4, <3>5, <3>6
  <2>5. QED
    BY <1>7, <2>3, <2>4 DEF CountEvents
<1>8. CASE ReadNotes
  <2>1. PICK card : card = Head(queue)
    OBVIOUS
  <2>2. AppendCard(card) /\ card \in CardSpace /\ card.section = here /\ card.doc = queue[1].doc
    BY <1>3, <1>8, <2>1 DEF ReadNotes
  <2>3. QED
    BY <1>1, <1>2, <2>2, AppendLossless
<1>9. QED
  BY <1>6, <1>7, <1>8

(* A section that is not opened has nothing to list. *)
LEMMA SkipSectionLossless ==
  ASSUME IInv, Lossless, SkipSection
  PROVE  Lossless'
<1>1. /\ stage \in 1..6 /\ pc = "fetch" /\ ~Opens(caller, here) /\ NextStage
      /\ UNCHANGED <<store, walk, drift, span, queue, cards>>
  BY DEF SkipSection, IInv, StageFits
<1>2. /\ stage' = stage + 1 /\ pc' \in {"fetch", "slice"} /\ ~InLoop' /\ queue = <<>>
  BY <1>1, NextStageExact DEF Lossless
<1>3. Resting
  BY <1>1, <1>2 DEF Resting, walk, Working
<1>4. Count' = Count /\ Line' = Line
  BY <1>1 DEF Count, Line, Marks
<1>5. here \in Section /\ Nr(here) = stage /\ SectionOrder[stage] = here
  BY <1>1, HereNumber DEF here
<1>6. stage' > 2 => stage > 2 \/ Shelves["admin"] = {}
  <2>1. ASSUME stage' > 2, ~(stage > 2)
        PROVE  Shelves["admin"] = {}
    <3>1. stage = 2
      BY <1>1, <1>2, <2>1
    <3>2. here = "admin" /\ "admin" \notin Source /\ "admin" \in Section
      BY <1>5, <3>1 DEF SectionOrder, Source, Section
    <3>3. QED
      BY <1>1, <3>2 DEF Shelves
  <2>2. QED
    BY <2>1
<1>7. ASSUME NEW s \in Source, Read(s)'
      PROVE  Read(s) \/ Matching[s] = {}
  <2>1. Nr(s) \in 1..6 /\ SectionOrder[Nr(s)] = s /\ s \in Section
    BY SectionNumbers
  <2>2. Nr(s) < stage + 1
    BY <1>2, <1>7 DEF Read
  <2>3. Nr(s) < stage \/ Nr(s) = stage
    BY <1>1, <2>1, <2>2
  <2>4. CASE Nr(s) = stage
    <3>1. s = here
      BY <1>5, <2>1, <2>4
    <3>2. QED
      BY <1>1, <3>1 DEF Matching
  <2>5. QED
    BY <2>3, <2>4 DEF Read
<1>8. QED
  BY <1>1, <1>2, <1>3, <1>4, <1>6, <1>7, LineStays

-----------------------------------------------------------------------------
(* A query in a walk that drifts *)

(* The cards of a query, and where it is cut. *)
LEMMA FetchedIs ==
  ASSUME TypeOK, stage \in 1..6, Opens(caller, here), NEW list \in Listings(here)
  PROVE  LET f == Fetched(list)
         IN /\ f \in Seq(CardSpace) /\ Len(f) \in Nat /\ Len(list) \in Nat
            /\ Len(f) <= Len(list)
            /\ Len(f) < Len(list) => Len(f) = Limit /\ here \in PagedSection
            /\ \A i \in 1..Len(f) : f[i].section = here /\ f[i].doc = list[i]
<1> DEFINE docs == CardsOf(here, list)
           f == Fetched(list)
<1>1. here \in Section
  BY StageFacts
<1>2. Limit \in Nat
  BY LimitIsNat
<1>3. list \in Seq(Item) /\ Len(list) \in Nat /\ \A i \in 1..Len(list) : list[i] \in Item
  BY <1>1, ListingShape, LenProperties, ElementOfSeq
<1>4. /\ docs \in [1..Len(list) -> CardSpace]
      /\ \A i \in 1..Len(list) : docs[i].section = here /\ docs[i].doc = list[i]
  BY <1>1, <1>3 DEF CardsOf, Card, CardSpace
<1> HIDE DEF docs
<1>5. docs \in Seq(CardSpace) /\ Len(docs) = Len(list)
  BY <1>3, <1>4, IsASeq, LenProperties
<1>6. f = IF here \in PagedSection THEN FirstOf(docs, Limit) ELSE docs
  BY DEF Fetched, Contribution, docs
<1> HIDE DEF f
<1>7. CASE here \in PagedSection
  <2>1. PICK g : g = FirstOf(docs, Limit)
    OBVIOUS
  <2>2. /\ g \in Seq(CardSpace)
        /\ Len(g) = IF Limit < Len(docs) THEN Limit ELSE Len(docs)
        /\ \A i \in 1..Len(g) : g[i] = docs[i]
    BY <1>2, <1>5, <2>1, FirstOfShape
  <2>3. PICK m, n : m = Len(g) /\ n = Len(list)
    OBVIOUS
  <2>4. n \in Nat /\ m = IF Limit < n THEN Limit ELSE n
    BY <1>3, <1>5, <2>2, <2>3
  <2>5. m \in Nat /\ m <= n /\ (m < n => m = Limit)
    BY <1>2, <2>4
  <2>6. \A i \in 1..m : i \in 1..n
    BY <2>4, <2>5
  <2>7. \A i \in 1..m : g[i].section = here /\ g[i].doc = list[i]
    BY <1>4, <2>2, <2>3, <2>6
  <2>8. f = g
    BY <1>6, <1>7, <2>1
  <2>9. QED
    BY <1>7, <2>2, <2>3, <2>4, <2>5, <2>7, <2>8 DEF f
<1>8. CASE here \notin PagedSection
  BY <1>3, <1>4, <1>5, <1>6, <1>8 DEF f
<1>9. QED
  BY <1>7, <1>8

LEMMA MarksShape ==
  ASSUME NEW a \in Seq(CardSpace), NEW b \in Seq(CardSpace)
  PROVE  /\ Len(a) \in Nat /\ Len(b) \in Nat
         /\ \A i \in 1..Len(a) : Marks(a, b)[i] = <<a[i].section, a[i].doc>>
         /\ \A i \in 1..Len(b) : Marks(a, b)[Len(a) + i] = <<b[i].section, b[i].doc>>
<1>1. Len(a) \in Nat /\ Len(b) \in Nat
  BY LenProperties
<1>2. PICK m, n : m = Len(a) /\ n = Len(b)
  OBVIOUS
<1>3. m \in Nat /\ n \in Nat
  BY <1>1, <1>2
<1>4. Marks(a, b) = [i \in 1..m + n |-> IF i <= m THEN <<a[i].section, a[i].doc>>
                                        ELSE <<b[i - m].section, b[i - m].doc>>]
  BY <1>2 DEF Marks
<1>5. \A i \in 1..m : Marks(a, b)[i] = <<a[i].section, a[i].doc>>
  BY <1>3, <1>4
<1>6. \A i \in 1..n : Marks(a, b)[m + i] = <<b[i].section, b[i].doc>>
  <2>1. \A i \in 1..n : m + i \in 1..m + n /\ ~(m + i <= m) /\ (m + i) - m = i
    BY <1>3
  <2>2. QED
    BY <1>4, <2>1
<1>7. QED
  BY <1>2, <1>3, <1>5, <1>6

LEMMA MarksJoin ==
  ASSUME NEW a \in Seq(CardSpace), NEW b \in Seq(CardSpace)
  PROVE  /\ Len(a \o b) + Len(<<>>) = Len(a) + Len(b)
         /\ Marks(a \o b, <<>>) = Marks(a, b)
<1> DEFINE c == a \o b
<1>1. Len(a) \in Nat /\ Len(b) \in Nat
  BY LenProperties
<1>2. PICK m, n : m = Len(a) /\ n = Len(b)
  OBVIOUS
<1>3. /\ Len(c) = m + n /\ m \in Nat /\ n \in Nat
      /\ \A i \in 1..m + n : c[i] = IF i <= m THEN a[i] ELSE b[i - m]
  BY <1>1, <1>2, ConcatProperties
<1> HIDE DEF c
<1>4. Len(<<>>) = 0
  OBVIOUS
<1>5. Marks(c, <<>>) = [i \in 1..m + n |-> <<c[i].section, c[i].doc>>]
  <2>1. \A i \in 1..(m + n) + 0 : i <= m + n
    BY <1>3
  <2>2. (m + n) + 0 = m + n
    BY <1>3
  <2>3. QED
    BY <1>3, <1>4, <2>1, <2>2 DEF Marks
<1>6. Marks(a, b) = [i \in 1..m + n |-> IF i <= m THEN <<a[i].section, a[i].doc>>
                                        ELSE <<b[i - m].section, b[i - m].doc>>]
  BY <1>2 DEF Marks
<1>7. \A i \in 1..m + n : <<c[i].section, c[i].doc>> =
        IF i <= m THEN <<a[i].section, a[i].doc>> ELSE <<b[i - m].section, b[i - m].doc>>
  BY <1>3
<1>8. Marks(c, <<>>) = Marks(a, b)
  BY <1>5, <1>6, <1>7, Zenon
<1>9. Len(c) + 0 = m + n
  BY <1>3
<1>10. QED
  BY <1>2, <1>4, <1>8, <1>9 DEF c

(* Whatever stood in front of a document when the request began is on the   *)
(* list before it, if the list is not full already.                         *)
LEMMA FrontIsListed ==
  ASSUME SeedsApart, IInv, SavedApart, Complete, Underway, pc = "fetch", queue = <<>>,
         Opens(caller, here), here \in Source, NEW list \in Listings(here),
         NEW f, f = Fetched(list), NEW i \in 1..Len(f), ~(Len(cards) >= Limit)
  PROVE  Cardinality(InFront(Kept, <<here, list[i]>>)) <= Len(cards) + i - 1
<1>1. stage \in 1..6 /\ TypeOK /\ cards \in Seq(CardSpace) /\ ~InLoop /\ pc \in Working
  BY DEF IInv, StageFits, TypeOK, InLoop, Working
<1>2. /\ f \in Seq(CardSpace) /\ Len(f) \in Nat /\ Len(list) \in Nat /\ Len(f) <= Len(list)
      /\ \A k \in 1..Len(f) : f[k].section = here /\ f[k].doc = list[k]
  BY <1>1, FetchedIs
<1>3. PICK m, n : m = Len(cards) /\ n = Len(f)
  OBVIOUS
<1>4. PICK line : line = Marks(cards, f)
  OBVIOUS
<1>5. /\ m \in Nat /\ n \in Nat /\ i \in 1..n
      /\ \A k \in 1..m : line[k] = <<cards[k].section, cards[k].doc>>
      /\ \A k \in 1..n : line[m + k] = <<here, list[k]>>
  <2>1. /\ \A k \in 1..m : line[k] = <<cards[k].section, cards[k].doc>>
        /\ \A k \in 1..n : line[m + k] = <<f[k].section, f[k].doc>>
        /\ m \in Nat
    BY <1>1, <1>2, <1>3, <1>4, MarksShape
  <2>2. \A k \in 1..n : f[k].section = here /\ f[k].doc = list[k]
    BY <1>2, <1>3
  <2>3. \A k \in 1..n : line[m + k] = <<here, list[k]>>
    BY <2>1, <2>2
  <2>4. QED
    BY <1>2, <1>3, <2>1, <2>3
<1>6. here \in Section /\ Nr(here) = stage
  BY <1>1, HereNumber
<1>7. ASSUME NEW x \in InFront(Kept, <<here, list[i]>>)
      PROVE  \E k \in 1..m + i - 1 : line[k] = x
  <2>1. PICK s \in Section, d \in Item : x = <<s, d>>
    BY <1>7 DEF InFront
  <2>2. d \in Kept[s] /\ (Nr(s) < Nr(here) \/ (s = here /\ Newer(here, d, list[i])))
    BY <1>7, <2>1 DEF InFront, StandsBefore
  <2>3. s \in Source => d \in span.stayed[s] /\ d \in Matching[s]
    BY <2>2 DEF Kept, Complete
  <2>4. CASE s = here
    <3>1. ~(Nr(s) < Nr(here))
      BY <1>1, <1>6, <2>4
    <3>2. Newer(here, d, list[i]) /\ d \in Matching[here]
      BY <2>2, <2>3, <2>4, <3>1
    <3>3. /\ \A e \in Matching[here] : \E k \in 1..Len(list) : list[k] = e
          /\ \A j, k \in 1..Len(list) : j < k <=> Newer(here, list[j], list[k])
      BY <1>1, ListingSorted
    <3>4. PICK k \in 1..Len(list) : list[k] = d
      BY <3>2, <3>3
    <3>5. i \in 1..Len(list)
      BY <1>2
    <3>6. k < i
      BY <3>2, <3>3, <3>4, <3>5
    <3>7. k \in 1..n /\ m + k \in 1..m + i - 1
      BY <1>5, <3>6
    <3>8. line[m + k] = x
      BY <1>5, <2>1, <2>4, <3>4, <3>7
    <3>9. QED
      BY <3>7, <3>8
  <2>5. CASE s # here
    <3>1. Nr(s) < stage
      BY <1>6, <2>2, <2>5
    <3>2. s \in Past
      BY <1>1, <3>1, PastNumbers
    <3>3. d \in DocsOf(cards, s)
      <4>1. CASE s \in Source
        BY <1>1, <2>3, <3>2, <4>1 DEF Complete
      <4>2. CASE s \notin Source
        <5>1. s = "admin" \/ s = "journey"
          BY <4>2 DEF Section, Source
        <5>2. Nr("admin") = 2 /\ Nr("journey") = 6
          BY DEF Nr
        <5>3. here # "journey"
          BY DEF Source
        <5>4. s = "admin" /\ stage > 2
          BY <1>1, <3>1, <5>1, <5>2
        <5>5. d \in Shelves["admin"]
          BY <2>2, <4>2, <5>4 DEF Kept
        <5>6. QED
          BY <5>4, <5>5 DEF Underway
      <4>3. QED
        BY <4>1, <4>2
    <3>4. PICK k \in 1..Len(cards) : cards[k].section = s /\ cards[k].doc = d
      BY <1>1, <3>3, DocsOfShape
    <3>5. k \in 1..m + i - 1 /\ line[k] = x
      BY <1>3, <1>5, <2>1, <3>4
    <3>6. QED
      BY <3>5
  <2>6. QED
    BY <2>4, <2>5
<1>8. m + i - 1 \in Nat
  BY <1>5
<1>9. PICK front : front = InFront(Kept, <<here, list[i]>>)
  OBVIOUS
<1>10. Cardinality(front) <= m + i - 1
  BY <1>7, <1>8, <1>9, AtMost
<1>11. QED
  BY <1>3, <1>9, <1>10

(* A document that the limit cuts off stands behind as many.                *)
LEMMA CutIsBehind ==
  ASSUME SeedsApart, IInv, SavedApart, pc = "fetch",
         Opens(caller, here), here \in Source, NEW list \in Listings(here),
         NEW f, f = Fetched(list), NEW i \in 1..Len(list), i > Len(f)
  PROVE  Len(f) = Limit /\ Cardinality(InFront(Shelves, <<here, list[i]>>)) >= Limit
<1>1. stage \in 1..6 /\ TypeOK
  BY DEF IInv, StageFits
<1>2. /\ Len(f) \in Nat /\ Len(list) \in Nat /\ Len(f) <= Len(list)
      /\ Len(f) < Len(list) => Len(f) = Limit
  BY <1>1, FetchedIs
<1>3. /\ \A k \in 1..Len(list) : list[k] \in Matching[here]
      /\ \A j, k \in 1..Len(list) : list[j] = list[k] => j = k
      /\ \A j, k \in 1..Len(list) : j < k <=> Newer(here, list[j], list[k])
  BY <1>1, ListingSorted
<1>4. PICK n, front : n = Len(f) /\ front = InFront(Shelves, <<here, list[i]>>)
  OBVIOUS
<1>5. n \in Nat /\ n = Limit /\ \A j \in 1..n : j \in 1..Len(list) /\ j < i
  BY <1>2, <1>4
<1>6. PICK g : g = [j \in 1..n |-> <<here, list[j]>>]
  OBVIOUS
<1>7. here \in Section /\ Shelves[here] = Matching[here] /\ Matching[here] \subseteq Item
  BY <1>1, StageFacts, ShelfShape, MatchingShape
<1>8. ASSUME NEW j \in 1..n
      PROVE  g[j] \in front
  <2>1. list[j] \in Matching[here] /\ Newer(here, list[j], list[i])
    BY <1>3, <1>5
  <2>2. <<here, list[j]>> \in Section \X Item
    BY <1>7, <2>1
  <2>3. g[j] = <<here, list[j]>>
    BY <1>6
  <2>4. QED
    BY <1>4, <1>7, <2>1, <2>2, <2>3 DEF InFront, StandsBefore
<1>9. \A j, k \in 1..n : g[j] = g[k] => j = k
  BY <1>3, <1>5, <1>6
<1>10. IsFiniteSet(front) /\ Cardinality(front) \in Nat
  BY <1>4, FrontIsFinite
<1>11. n <= Cardinality(front)
  BY <1>5, <1>8, <1>9, <1>10, AtLeast
<1>12. Cardinality(front) >= Limit
  BY <1>5, <1>10, <1>11
<1>13. QED
  BY <1>4, <1>5, <1>12

(* What a query adds is in its place, and nothing of the section is lost.   *)
LEMMA FetchGrows ==
  ASSUME SeedsApart, IInv, SavedApart, Complete, Exact, Lossless, Resting,
         pc = "fetch", Opens(caller, here), NEW list \in Listings(here),
         NEW f, f = Fetched(list),
         Count' = Len(cards) + Len(f), Line' = Marks(cards, f),
         DocsOf(cards, "admin") \subseteq DocsOf(cards', "admin"),
         here = "admin" => cards' = cards \o f,
         stage' = stage \/ stage' = stage + 1,
         \A s \in Source : Read(s)' => Read(s) \/ s = here,
         pc' \in {"fetch", "slice"} => queue' = <<>>
  PROVE  Lossless'
<1>1. /\ Matching' = Matching /\ Shelves' = Shelves /\ Limit' = Limit
      /\ \A x, y : StandsBefore(x, y)' <=> StandsBefore(x, y)
      /\ \A s, d : Written(s, d)' <=> Written(s, d)
      /\ \A y : Owed(y)' <=> Owed(y)
      /\ \A y : Cardinality(InFront(Shelves, y))' = Cardinality(InFront(Shelves, y))
      /\ \A y : Cardinality(InFront(Kept, y))' = Cardinality(InFront(Kept, y))
  BY RestingWalk
<1>2. /\ UNCHANGED <<clock, offset, got, drift>> /\ pc \in Working /\ pc' \in Working
      /\ pc' # "answered"
  BY DEF Resting, store, Working
<1>3. /\ stage \in 1..6 /\ TypeOK /\ cards \in Seq(CardSpace) /\ ~InLoop /\ queue = <<>>
      /\ offset \in Nat
  BY DEF IInv, StageFits, TypeOK, InLoop, Lossless
<1>4. /\ f \in Seq(CardSpace) /\ Len(f) \in Nat /\ Len(list) \in Nat /\ Len(f) <= Len(list)
      /\ Len(f) < Len(list) => Len(f) = Limit /\ here \in PagedSection
      /\ \A i \in 1..Len(f) : f[i].section = here /\ f[i].doc = list[i]
  BY <1>3, FetchedIs
<1>5. PICK m, n, line : m = Len(cards) /\ n = Len(f) /\ line = Marks(cards, f)
  OBVIOUS
<1>6. /\ m \in Nat /\ n \in Nat /\ Count' = m + n /\ Line' = line
      /\ \A k \in 1..m : line[k] = <<cards[k].section, cards[k].doc>>
      /\ \A k \in 1..n : line[m + k] = <<here, list[k]>>
  <2>1. /\ m \in Nat /\ \A k \in 1..m : line[k] = <<cards[k].section, cards[k].doc>>
        /\ \A k \in 1..n : line[m + k] = <<f[k].section, f[k].doc>>
    BY <1>3, <1>4, <1>5, MarksShape
  <2>2. \A k \in 1..n : f[k].section = here /\ f[k].doc = list[k]
    BY <1>4, <1>5
  <2>3. \A k \in 1..n : line[m + k] = <<here, list[k]>>
    BY <2>1, <2>2
  <2>4. QED
    BY <1>4, <1>5, <2>1, <2>3
<1>7. Count = m /\ \A k \in 1..m : Line[k] = line[k]
  <2>1. Len(queue) = 0 /\ Count = m + 0
    BY <1>3, <1>5 DEF Count
  <2>2. \A k \in 1..m : Line[k] = <<cards[k].section, cards[k].doc>>
    BY <1>3, <1>5, LineShape
  <2>3. QED
    BY <1>6, <2>1, <2>2
<1>8. \A k \in 1..m + n : k \in 1..m \/ k - m \in 1..n
  BY <1>6
<1>9. \A k \in 1..m + n : k \notin 1..m => k - m \in 1..n /\ line[k] = <<here, list[k - m]>>
  <2>1. \A k \in 1..m + n : m + (k - m) = k
    BY <1>6
  <2>2. QED
    BY <1>6, <1>8, <2>1
<1>10. Limit \in Nat /\ offset < Limit
  BY <1>2, <1>3, LimitIsNat, BoundAssumption DEF Exact
<1>11. here \in Section /\ Nr(here) = stage
  BY <1>3, HereNumber
<1>12. here \in Source =>
         /\ \A k \in 1..Len(list) : list[k] \in Matching[here]
         /\ \A e \in Matching[here] : \E k \in 1..Len(list) : list[k] = e
         /\ \A j, k \in 1..Len(list) : j < k <=> Newer(here, list[j], list[k])
  BY <1>3, ListingSorted
<1>13. here \notin Source => Shelves[here] = {list[k] : k \in DOMAIN list} /\ Len(f) = Len(list)
  <2>1. ASSUME here \notin Source
        PROVE  here \in {"admin", "journey"}
    BY <1>11, <2>1 DEF Section, Source
  <2>2. here \notin Source => list = Synthetic[here]
    BY <2>1 DEF Listings
  <2>3. here \notin Source => here \notin PagedSection
    BY <2>1 DEF PagedSection
  <2>4. here \notin Source => ~(Len(f) < Len(list))
    BY <1>4, <2>3
  <2>5. QED
    BY <1>4, <1>11, <2>2, <2>4 DEF Shelves
<1>14. \A k \in 1..Len(list) : list[k] \in Shelves[here]
  <2>1. list \in Seq(Item)
    BY <1>11, ListingShape
  <2>2. DOMAIN list = 1..Len(list)
    BY <2>1, LenProperties
  <2>3. here \in Source => Shelves[here] = Matching[here]
    BY ShelfShape
  <2>4. QED
    BY <1>12, <1>13, <2>2, <2>3
<1>15. ASSUME drift'.way # "backward"
       PROVE  Underway'
  <2>1. Underway
    BY <1>2, <1>15 DEF Lossless
  <2>2. ASSUME NEW i \in 1..Count'
        PROVE  line[i][2] \in Shelves[line[i][1]]
    <3>1. CASE i \in 1..m
      BY <1>7, <2>1, <3>1 DEF Underway
    <3>2. CASE i \notin 1..m
      <4>1. line[i] = <<here, list[i - m]>> /\ i - m \in 1..Len(list)
        BY <1>4, <1>5, <1>6, <1>9, <3>2
      <4>2. QED
        BY <1>14, <4>1
    <3>3. QED
      BY <3>1, <3>2
  <2>3. ASSUME NEW i \in 1..Count', NEW j \in 1..i - 1,
               line[i][1] \in Source, ~Written(line[i][1], line[i][2])
        PROVE  StandsBefore(line[j], line[i])
    <3>1. j \in 1..m + n /\ j < i
      BY <1>6
    <3>2. CASE i \in 1..m
      <4>1. j \in 1..m
        BY <3>1, <3>2, <1>6
      <4>2. QED
        BY <1>7, <2>1, <2>3, <3>2, <4>1 DEF Underway
    <3>3. CASE i \notin 1..m
      <4>1. line[i] = <<here, list[i - m]>> /\ i - m \in 1..Len(list) /\ here \in Source
        BY <1>4, <1>5, <1>6, <1>9, <2>3, <3>3
      <4>2. CASE j \in 1..m
        <5>1. line[j] = <<cards[j].section, cards[j].doc>> /\ cards[j].section \in Past
          BY <1>2, <1>3, <1>5, <1>6, <4>2 DEF IInv, Apart
        <5>2. cards[j].section \in Section
          <6>1. j \in 1..Len(cards)
            BY <1>5, <4>2
          <6>2. cards[j] \in CardSpace
            BY <1>3, <6>1, ElementOfSeq
          <6>3. QED
            BY <6>2 DEF CardSpace
        <5>3. Nr(cards[j].section) < stage
          BY <1>3, <5>1, <5>2, PastNumbers
        <5>4. QED
          BY <1>11, <4>1, <5>1, <5>3 DEF StandsBefore
      <4>3. CASE j \notin 1..m
        <5>1. line[j] = <<here, list[j - m]>> /\ j - m \in 1..Len(list)
          BY <1>4, <1>5, <1>9, <3>1, <4>3
        <5>2. j - m < i - m
          BY <1>6, <3>1
        <5>3. Newer(here, list[j - m], list[i - m])
          BY <1>12, <4>1, <5>1, <5>2
        <5>4. QED
          BY <4>1, <5>1, <5>3 DEF StandsBefore
      <4>4. QED
        BY <4>2, <4>3
    <3>4. QED
      BY <3>2, <3>3
  <2>4. ASSUME stage' > 2
        PROVE  Shelves["admin"] \subseteq DocsOf(cards', "admin")
    <3>1. CASE stage > 2
      BY <2>1, <3>1 DEF Underway
    <3>2. CASE ~(stage > 2)
      <4>1. stage = 2
        BY <1>3, <2>4, <3>2
      <4>2. here = "admin" /\ here \notin Source
        BY <4>1 DEF here, SectionOrder, Source
      <4>3. DocsOf(f, "admin") \subseteq DocsOf(cards', "admin")
        BY <1>3, <1>4, <4>2, DocsOfConcat
      <4>4. ASSUME NEW d \in Shelves["admin"]
            PROVE  d \in DocsOf(f, "admin")
        <5>1. PICK k \in DOMAIN list : d = list[k]
          BY <1>13, <4>2
        <5>2. DOMAIN list = 1..Len(list)
          BY <1>11, ListingShape, LenProperties
        <5>3. k \in 1..Len(f) /\ f[k].section = "admin" /\ f[k].doc = d
          BY <1>4, <1>13, <4>2, <5>1, <5>2
        <5>4. QED
          BY <1>4, <5>3, DocsOfShape
      <4>5. QED
        BY <4>3, <4>4
    <3>3. QED
      BY <3>1, <3>2
  <2>5. ASSUME NEW y \in Section \X Item, Owed(y), Read(y[1])'
        PROVE  \/ \E i \in 1..m + n : offset < i /\ line[i] = y
               \/ m + n >= Limit /\ Cardinality(InFront(Shelves, y)) >= Limit
    <3>1. y[1] \in Source /\ y[2] \in Matching[y[1]]
      BY <2>5 DEF Owed
    <3>2. Cardinality(InFront(Kept, y)) >= offset /\ (Read(y[1]) => Placed(y))
      BY <2>1, <2>5 DEF Underway
    <3>3. CASE Read(y[1])
      <4>1. \/ \E i \in 1..m : offset < i /\ Line[i] = y
            \/ m >= Limit /\ Cardinality(InFront(Shelves, y)) >= Limit
        BY <1>7, <3>2, <3>3 DEF Placed
      <4>2. CASE \E i \in 1..m : offset < i /\ Line[i] = y
        <5>1. PICK i \in 1..m : offset < i /\ Line[i] = y
          BY <4>2
        <5>2. i \in 1..m + n /\ line[i] = y
          BY <1>6, <1>7, <5>1
        <5>3. QED
          BY <5>1, <5>2
      <4>3. CASE m >= Limit /\ Cardinality(InFront(Shelves, y)) >= Limit
        <5>1. m + n >= Limit
          BY <1>6, <1>10, <4>3
        <5>2. QED
          BY <4>3, <5>1
      <4>4. QED
        BY <4>1, <4>2, <4>3
    <3>4. CASE y[1] = here
      <4>1. here \in Source /\ y[2] \in Matching[here]
        BY <3>1, <3>4
      <4>2. PICK i \in 1..Len(list) : list[i] = y[2]
        BY <1>12, <4>1
      <4>3. y = <<here, list[i]>>
        BY <3>4, <4>2
      <4>4. CASE i \in 1..n
        <5>1. m + i \in 1..m + n /\ line[m + i] = y
          BY <1>6, <4>3, <4>4
        <5>2. CASE m >= Limit
          <6>1. offset < m + i
            BY <1>3, <1>6, <1>10, <4>4, <5>2
          <6>2. QED
            BY <5>1, <6>1
        <5>3. CASE ~(m >= Limit)
          <6>1. ~(Len(cards) >= Limit) /\ i \in 1..Len(f)
            BY <1>5, <4>4, <5>3
          <6>2. Cardinality(InFront(Kept, <<here, list[i]>>)) <= Len(cards) + i - 1
            BY <1>3, <2>1, <4>1, <6>1, FrontIsListed
          <6>3. PICK c : c = Cardinality(InFront(Kept, y))
            OBVIOUS
          <6>4. c \in Nat /\ c >= offset /\ c <= m + i - 1
            BY <1>5, <3>2, <4>3, <6>2, <6>3, FrontIsFinite
          <6>5. offset < m + i
            BY <1>3, <1>6, <4>4, <6>4
          <6>6. QED
            BY <5>1, <6>5
        <5>4. QED
          BY <5>2, <5>3
      <4>5. CASE i \notin 1..n
        <5>1. i > Len(f)
          BY <1>4, <1>5, <4>5
        <5>2. Len(f) = Limit /\ Cardinality(InFront(Shelves, <<here, list[i]>>)) >= Limit
          BY <4>1, <5>1, CutIsBehind
        <5>3. m + n >= Limit
          BY <1>5, <1>6, <5>2
        <5>4. QED
          BY <4>3, <5>2, <5>3
      <4>6. QED
        BY <4>4, <4>5
    <3>5. QED
      BY <2>5, <3>1, <3>3, <3>4
  <2>6. ASSUME NEW y \in Section \X Item, Owed(y)'
        PROVE  Cardinality(InFront(Kept, y))' >= offset' /\ (Read(y[1])' => Placed(y)')
    <3>1. Owed(y)
      BY <1>1, <2>6
    <3>2. Cardinality(InFront(Kept, y)) >= offset
      BY <2>1, <3>1 DEF Underway
    <3>3. ASSUME Read(y[1])'
          PROVE  Placed(y)'
      <4>1. \/ \E i \in 1..m + n : offset < i /\ line[i] = y
            \/ m + n >= Limit /\ Cardinality(InFront(Shelves, y)) >= Limit
        BY <2>5, <3>1, <3>3
      <4>2. QED
        BY <1>1, <1>2, <1>6, <4>1 DEF Placed
    <3>4. QED
      BY <1>1, <1>2, <3>2, <3>3
  <2>7. \A i \in 1..Count' : Line'[i][2] \in Shelves'[Line'[i][1]]
    BY <1>1, <1>6, <2>2
  <2>8. \A i \in 1..Count' : \A j \in 1..i - 1 :
          Line'[i][1] \in Source /\ ~Written(Line[i][1], Line[i][2])' =>
            StandsBefore(Line[j], Line[i])'
    BY <1>1, <1>6, <2>3
  <2>9. stage' > 2 => Shelves'["admin"] \subseteq DocsOf(cards', "admin")
    BY <1>1, <2>4
  <2>10. QED
    BY <2>6, <2>7, <2>8, <2>9 DEF Underway
<1>16. QED
  BY <1>2, <1>15 DEF Lossless

LEMMA FetchReads ==
  ASSUME stage \in 1..6, stage' = stage \/ (stage' = stage + 1 /\ ~InLoop')
  PROVE  \A s \in Source : Read(s)' => Read(s) \/ s = here
<1>1. here \in Section /\ Nr(here) = stage /\ SectionOrder[stage] = here
  BY HereNumber DEF here
<1>2. ASSUME NEW s \in Source, Read(s)'
      PROVE  Read(s) \/ s = here
  <2>0. Nr(s) \in 1..6 /\ SectionOrder[Nr(s)] = s
    BY SectionNumbers
  <2>1. CASE stage' = stage
    BY <1>2, <2>1 DEF Read, here
  <2>2. CASE stage' = stage + 1 /\ ~InLoop'
    <3>1. Nr(s) < stage + 1
      BY <1>2, <2>2 DEF Read
    <3>2. Nr(s) < stage \/ Nr(s) = stage
      BY <2>0, <3>1
    <3>3. QED
      BY <1>1, <2>0, <3>2 DEF Read
  <2>3. QED
    BY <2>1, <2>2
<1>3. QED
  BY <1>2

LEMMA FetchCardsLossless ==
  ASSUME SeedsApart, IInv, SavedApart, Complete, Exact, Lossless, FetchCards
  PROVE  Lossless'
<1>1. /\ pc = "fetch" /\ Opens(caller, here) /\ here \notin Profiled
      /\ stage \in 1..6 /\ NextStage /\ TypeOK /\ cards \in Seq(CardSpace)
      /\ UNCHANGED <<store, walk, drift, span, queue>>
  BY DEF FetchCards, IInv, StageFits, Profiled, TypeOK
<1>2. queue = <<>> /\ stage' = stage + 1 /\ pc' \in {"fetch", "slice"} /\ ~InLoop'
  BY <1>1, NextStageExact DEF Lossless
<1>3. PICK list \in Listings(here) : cards' = cards \o Fetched(list)
  BY DEF FetchCards
<1>4. PICK f : f = Fetched(list)
  OBVIOUS
<1>5. f \in Seq(CardSpace)
  BY <1>1, <1>4, FetchedIs
<1>6. Count' = Len(cards) + Len(f) /\ Line' = Marks(cards, f)
  <2>1. Len(cards \o f) + Len(<<>>) = Len(cards) + Len(f) /\ Marks(cards \o f, <<>>) = Marks(cards, f)
    BY <1>1, <1>5, MarksJoin
  <2>2. cards' = cards \o f /\ queue' = <<>>
    BY <1>1, <1>2, <1>3, <1>4
  <2>3. QED
    BY <2>1, <2>2 DEF Count, Line, Marks
<1>7. DocsOf(cards, "admin") \subseteq DocsOf(cards', "admin")
  BY <1>1, <1>3, <1>4, <1>5, DocsOfConcat
<1>8. Resting
  BY <1>1, <1>2 DEF Resting, walk, Working
<1>9. \A s \in Source : Read(s)' => Read(s) \/ s = here
  BY <1>1, <1>2, FetchReads
<1>10. queue' = <<>> /\ cards' = cards \o f
  BY <1>1, <1>2, <1>3, <1>4
<1>11. QED
  BY <1>1, <1>2, <1>3, <1>4, <1>6, <1>7, <1>8, <1>9, <1>10, FetchGrows

LEMMA FetchProfilesLossless ==
  ASSUME SeedsApart, IInv, SavedApart, Complete, Exact, Lossless, FetchProfiles
  PROVE  Lossless'
<1>1. /\ pc = "fetch" /\ Opens(caller, here) /\ here \in Profiled
      /\ stage \in 1..6 /\ TypeOK /\ cards \in Seq(CardSpace)
      /\ UNCHANGED <<store, walk, drift, span, cards>>
      /\ IF queue' = <<>> THEN NextStage ELSE pc' = Enrich(here) /\ UNCHANGED stage
  BY DEF FetchProfiles, IInv, StageFits, Profiled, TypeOK
<1>2. /\ stage' = stage \/ (stage' = stage + 1 /\ ~InLoop')
      /\ pc' \in Working
      /\ pc' \in {"fetch", "slice"} => queue' = <<>>
  <2>1. CASE queue' = <<>>
    BY <1>1, <2>1, NextStageExact DEF Working
  <2>2. CASE queue' # <<>>
    <3>1. pc' \in {"journeys", "events"} /\ stage' = stage
      BY <1>1, <2>2 DEF Enrich
    <3>2. QED
      BY <3>1 DEF Working
  <2>3. QED
    BY <2>1, <2>2
<1>3. PICK list \in Listings(here) : queue' = Fetched(list)
  BY DEF FetchProfiles
<1>4. PICK f : f = Fetched(list)
  OBVIOUS
<1>5. Count' = Len(cards) + Len(f) /\ Line' = Marks(cards, f)
  BY <1>1, <1>3, <1>4 DEF Count, Line, Marks
<1>6. DocsOf(cards, "admin") \subseteq DocsOf(cards', "admin") /\ here # "admin"
  BY <1>1 DEF Profiled
<1>7. Resting
  BY <1>1, <1>2 DEF Resting, walk, Working
<1>8. \A s \in Source : Read(s)' => Read(s) \/ s = here
  BY <1>1, <1>2, FetchReads
<1>9. stage' = stage \/ stage' = stage + 1
  BY <1>2
<1>10. QED
  BY <1>1, <1>2, <1>3, <1>4, <1>5, <1>6, <1>7, <1>8, <1>9, FetchGrows

-----------------------------------------------------------------------------
(* The page, and the next one *)

LEMMA SliceLossless ==
  ASSUME IInv, Exact, Lossless, Slice
  PROVE  Lossless'
<1>1. /\ pc = "slice" /\ pc' = "answered" /\ pc \in Working /\ queue = <<>> /\ stage = 7
      /\ page' = PageOf(cards, offset, PageSize) /\ got' = got \o page'
      /\ UNCHANGED <<store, caller, offset, drift>> /\ UNCHANGED <<notices, profiles, clock>>
  BY DEF Slice, Exact, Lossless, Working, store
<1>2. /\ cards \in Seq(CardSpace) /\ got \in Seq(CardSpace) /\ TypeOK
      /\ offset \in Nat /\ PageSize \in Nat /\ PageSize > 0
  BY BoundAssumption DEF IInv, TypeOK
<1>3. Len(cards) \in Nat /\ Len(got) = offset /\ Limit = offset + PageSize
  BY <1>1, <1>2, LenProperties, LimitIsNat DEF Exact, Lossless
<1>4. PICK m, b : m = Len(cards) /\ b = page'
  OBVIOUS
<1>5. /\ b \in Seq(CardSpace) /\ Len(b) \in Nat
      /\ offset + PageSize <= m => Len(b) = PageSize
      /\ \A i \in 1..m : offset < i /\ i <= offset + PageSize =>
           i - offset \in 1..Len(b) /\ b[i - offset] = cards[i]
  <2>1. PICK last, len : /\ last = (IF offset + PageSize < m THEN offset + PageSize ELSE m)
                         /\ len = IF offset < last THEN last - offset ELSE 0
    OBVIOUS
  <2>2. b \in Seq(CardSpace) /\ Len(b) = len /\ \A i \in 1..len : b[i] = cards[offset + i]
    BY <1>1, <1>2, <1>4, <2>1, PageShape
  <2>3. m \in Nat /\ len \in Nat
    BY <1>2, <1>3, <1>4, <2>1
  <2>4. offset + PageSize <= m => len = PageSize
    BY <1>2, <2>1, <2>3
  <2>5. ASSUME NEW i \in 1..m, offset < i, i <= offset + PageSize
        PROVE  i - offset \in 1..len /\ b[i - offset] = cards[i]
    <3>1. i - offset \in 1..len /\ offset + (i - offset) = i
      BY <1>2, <2>1, <2>3, <2>5
    <3>2. QED
      BY <2>2, <3>1
  <2>6. QED
    BY <2>2, <2>3, <2>4, <2>5
<1>6. got' = got \o b /\ Len(got \o b) = offset + Len(b)
  BY <1>1, <1>2, <1>3, <1>4, <1>5, ConcatProperties
<1>7. \A s : DocsOf(got, s) \cup DocsOf(b, s) \subseteq DocsOf(got', s)
  BY <1>2, <1>5, <1>6, DocsOfConcat
<1>8. /\ Matching' = Matching /\ Shelves' = Shelves
      /\ \A shelves, y : InFront(shelves, y)' = InFront(shelves, y)
  BY <1>1, RestingShelves
<1>9. \A s, d : Written(s, d)' <=> Written(s, d)
  BY <1>1 DEF Written
<1>10. PICK all : all = Shelves
  OBVIOUS
<1>11. \A y : InFront(Shelves, y)' = InFront(all, y)
  BY <1>8, <1>10 DEF InFront
<1>12. ASSUME drift.way # "backward", NEW y \in Section \X Item, Owed(y)'
       PROVE  Len(b) = PageSize /\ Cardinality(InFront(all, y)) >= Limit
  <2>1. /\ y[1] \in Source /\ y[2] \in Matching[y[1]] /\ ~Written(y[1], y[2])
        /\ y[2] \notin DocsOf(got', y[1])
    BY <1>8, <1>9, <1>12 DEF Owed
  <2>2. Owed(y) /\ y[2] \notin DocsOf(b, y[1])
    BY <1>7, <2>1 DEF Owed
  <2>3. Read(y[1])
    <3>1. Nr(y[1]) \in 1..6
      BY <2>1, SectionNumbers
    <3>2. QED
      BY <1>1, <3>1 DEF Read
  <2>4. Underway
    BY <1>1, <1>12 DEF Lossless
  <2>5. Placed(y)
    BY <2>2, <2>3, <2>4 DEF Underway
  <2>6. Len(queue) = 0 /\ Count = m + 0 /\ m \in Nat
    BY <1>1, <1>3, <1>4 DEF Count
  <2>7. Count = m /\ Line \in [1..m -> Section \X Item]
        /\ \A i \in 1..m : Line[i] = <<cards[i].section, cards[i].doc>>
    BY <1>2, <1>4, <2>6, LineShape
  <2>8. ASSUME NEW i \in 1..m, offset < i, Line[i] = y
        PROVE  Len(b) = PageSize /\ Cardinality(InFront(all, y)) >= Limit
    <3>1. y = <<cards[i].section, cards[i].doc>>
      BY <2>7, <2>8
    <3>2. ~(i <= offset + PageSize)
      <4>1. ASSUME i <= offset + PageSize
            PROVE  FALSE
        <5>1. i - offset \in 1..Len(b) /\ b[i - offset].section = y[1] /\ b[i - offset].doc = y[2]
          BY <1>5, <2>8, <3>1, <4>1
        <5>2. y[2] \in DocsOf(b, y[1])
          BY <1>5, <5>1, DocsOfShape
        <5>3. QED
          BY <2>2, <5>2
      <4>2. QED
        BY <4>1
    <3>3. i - 1 \in Nat /\ i - 1 >= Limit /\ offset + PageSize <= m
      BY <1>2, <1>3, <2>6, <3>2
    <3>4. PICK n, front : n = i - 1 /\ front = InFront(all, y)
      OBVIOUS
    <3>5. ASSUME NEW j \in 1..n
          PROVE  Line[j] \in front /\ j \in 1..m
      <4>1. j \in 1..i - 1 /\ j \in 1..m /\ i \in 1..Count
        BY <2>6, <2>7, <3>4
      <4>2. StandsBefore(Line[j], y) /\ Line[j][2] \in Shelves[Line[j][1]]
        BY <2>1, <2>4, <2>7, <2>8, <4>1 DEF Underway
      <4>3. Line[j] \in Section \X Item
        BY <2>7, <4>1
      <4>4. QED
        BY <1>10, <3>4, <4>1, <4>2, <4>3 DEF InFront
    <3>6. DOMAIN cards = 1..m
      BY <1>2, <1>4, LenProperties
    <3>7. \A j, k \in 1..n : Line[j] = Line[k] => j = k
      BY <2>7, <3>5, <3>6 DEF IInv, NoCardTwice
    <3>8. IsFiniteSet(front) /\ Cardinality(front) \in Nat
      BY <3>4, FrontIsFinite
    <3>9. n <= Cardinality(front)
      BY <3>3, <3>4, <3>5, <3>7, <3>8, AtLeast
    <3>10. Cardinality(front) >= Limit
      BY <1>2, <1>3, <3>3, <3>4, <3>8, <3>9
    <3>11. QED
      BY <1>5, <3>3, <3>4, <3>10
  <2>9. CASE Count >= Limit /\ Cardinality(InFront(Shelves, y)) >= Limit
    BY <1>3, <1>5, <1>10, <2>7, <2>9
  <2>10. QED
    BY <2>5, <2>7, <2>8, <2>9 DEF Placed
<1>13. ASSUME drift'.way # "backward"
       PROVE  LeftBehind'
  <2>1. drift.way # "backward" /\ Len(page') = Len(b)
    BY <1>1, <1>4, <1>13
  <2>2. Len(got') = offset + Len(b)
    BY <1>6
  <2>3. ASSUME NEW y \in Section \X Item, Owed(y)'
        PROVE  Len(page') >= PageSize /\ Cardinality(InFront(Shelves, y))' >= Len(got')
    <3>1. Len(b) = PageSize /\ Cardinality(InFront(all, y)) >= Limit
      BY <1>12, <2>1, <2>3
    <3>2. Cardinality(InFront(Shelves, y))' = Cardinality(InFront(all, y))
      BY <1>11
    <3>3. Len(got') = Limit /\ Len(page') = PageSize
      BY <1>3, <2>1, <2>2, <3>1
    <3>4. QED
      BY <1>2, <3>1, <3>2, <3>3
  <2>4. QED
    BY <2>3 DEF LeftBehind
<1>14. Len(got') = offset' + Len(page')
  BY <1>1, <1>4, <1>6
<1>15. drift'.since <= clock' /\ pc' \notin Working /\ pc' \notin {"fetch", "slice"}
  BY <1>1 DEF Lossless, Working
<1>16. QED
  BY <1>13, <1>14, <1>15 DEF Lossless

(* A page request starts with nothing, behind the pages before.             *)
LEMMA BeginLossless ==
  ASSUME NEW o \in Nat, Begin(o), Len(got) = o, drift'.since <= clock,
         drift'.way # "backward" =>
           \A y \in Section \X Item : Owed(y)' => Cardinality(InFront(Shelves, y)) >= o
  PROVE  Lossless'
<1>1. /\ offset' = o /\ pc' = "fetch" /\ stage' = 1 /\ queue' = <<>> /\ cards' = <<>>
      /\ UNCHANGED <<store, caller, page, got>> /\ clock' = clock
      /\ span'.stayed = Matching
  BY DEF Begin, store
<1>2. /\ Matching' = Matching /\ Shelves' = Shelves
      /\ \A shelves, y : InFront(shelves, y)' = InFront(shelves, y)
  BY <1>1, RestingShelves
<1>3. Kept' = Shelves
  BY <1>1, <1>2, ShelfShape DEF Kept, Shelves
<1>4. PICK all : all = Shelves
  OBVIOUS
<1>5. \A y : InFront(Kept, y)' = InFront(all, y)
  BY <1>2, <1>3, <1>4 DEF InFront
<1>6. Count' = 0
  BY <1>1 DEF Count
<1>7. ASSUME NEW y \in Section \X Item, Owed(y)'
      PROVE  ~Read(y[1])'
  <2>1. Nr(y[1]) \in 1..6
    BY SectionNumbers
  <2>2. ~(Nr(y[1]) < 1) /\ ~InLoop'
    BY <1>1, <2>1 DEF InLoop
  <2>3. QED
    BY <1>1, <2>2 DEF Read
<1>8. ASSUME drift'.way # "backward"
      PROVE  Underway'
  <2>1. \A y \in Section \X Item : Owed(y)' => Cardinality(InFront(Kept, y))' >= offset'
    BY <1>1, <1>4, <1>5, <1>8
  <2>2. \A i \in 1..Count' : FALSE
    BY <1>6
  <2>3. ~(stage' > 2)
    BY <1>1
  <2>4. QED
    BY <1>7, <2>1, <2>2, <2>3 DEF Underway
<1>9. QED
  BY <1>1, <1>8 DEF Lossless

LEMMA AskLossless ==
  ASSUME IInv, Exact, Ask
  PROVE  Lossless'
<1>1. Begin(0) /\ 0 \in Nat /\ drift' = [way |-> "none", since |-> clock] /\ Len(got) = 0
  BY DEF Ask, Exact
<1>2. \A y : Cardinality(InFront(Shelves, y)) >= 0
  BY FrontIsFinite
<1>3. drift'.since <= clock
  BY <1>1 DEF IInv, TypeOK
<1>4. QED
  BY <1>1, <1>2, <1>3, BeginLossless

LEMMA TurnPageLossless ==
  ASSUME IInv, Lossless, TurnPage
  PROVE  Lossless'
<1>1. /\ pc = "answered" /\ Len(page) = PageSize /\ Begin(offset + PageSize) /\ drift' = drift
      /\ UNCHANGED <<store, caller, got>> /\ UNCHANGED <<notices, profiles>>
  BY DEF TurnPage, TurnsPage, Begin, store
<1>2. offset \in Nat /\ PageSize \in Nat /\ offset + PageSize \in Nat
  BY BoundAssumption DEF IInv, TypeOK
<1>3. Len(got) = offset + PageSize
  BY <1>1 DEF Lossless
<1>4. Matching' = Matching /\ \A s, d : Written(s, d)' <=> Written(s, d)
  BY <1>1, RestingShelves DEF Written
<1>5. ASSUME drift'.way # "backward", NEW y \in Section \X Item, Owed(y)'
      PROVE  Cardinality(InFront(Shelves, y)) >= offset + PageSize
  <2>1. Owed(y)
    BY <1>1, <1>4, <1>5 DEF Owed, DocsOf
  <2>2. LeftBehind
    BY <1>1, <1>5 DEF Lossless
  <2>3. QED
    BY <1>3, <2>1, <2>2 DEF LeftBehind
<1>6. drift'.since <= clock
  BY <1>1 DEF Lossless
<1>7. QED
  BY <1>1, <1>2, <1>3, <1>5, <1>6, BeginLossless

LEMMA MongoFailsLossless ==
  ASSUME Lossless, MongoFails
  PROVE  Lossless'
<1>1. pc' = "failed" /\ UNCHANGED <<store, drift>> /\ clock' = clock
  BY DEF MongoFails, store
<1>2. QED
  BY <1>1 DEF Lossless, Working

(* The shelves grow in front of what nobody wrote, the request stands still. *)
LEMMA StillLossless ==
  ASSUME TypeOK, Lossless, UNCHANGED <<request, walk>>, drift'.since <= clock',
         drift'.way # "backward" =>
           /\ drift.way # "backward" /\ Kept' = Kept
           /\ \A s \in Source : Kept[s] \subseteq Shelves[s]
           /\ \A s \in Section : Shelves[s] \subseteq Shelves'[s]
           /\ Shelves'["admin"] = Shelves["admin"]
           /\ \A s \in Source : \A d \in Shelves'[s] :
                ~Written(s, d)' => d \in Shelves[s] /\ ~Written(s, d)
           /\ \A s \in Source : \A d, e \in Shelves[s] :
                ~Written(s, d)' /\ Newer(s, e, d) => Newer(s, e, d)'
  PROVE  Lossless'
<1>1. /\ UNCHANGED <<pc, stage, queue, cards, caller, offset, page, got>>
      /\ Limit' = Limit
  BY DEF request, walk, Limit
<1>2. Count' = Count /\ Line' = Line
  BY <1>1 DEF Count, Line, Marks
<1>3. \A s : Read(s)' <=> Read(s)
  BY <1>1 DEF Read, InLoop, here
<1>4. /\ \A s \in Source : Shelves[s] = Matching[s] /\ s \in Section
      /\ \A s \in Source : Shelves'[s] = Matching'[s]
  BY ShelfShape, SectionNumbers DEF Shelves
<1>5. ASSUME drift'.way # "backward", NEW y \in Section \X Item, Owed(y)'
      PROVE  /\ Owed(y)
             /\ Cardinality(InFront(Kept, y))' >= Cardinality(InFront(Kept, y))
             /\ Cardinality(InFront(Shelves, y))' >= Cardinality(InFront(Shelves, y))
             /\ Cardinality(InFront(Kept, y))' \in Nat /\ Cardinality(InFront(Kept, y)) \in Nat
             /\ Cardinality(InFront(Shelves, y))' \in Nat /\ Cardinality(InFront(Shelves, y)) \in Nat
  <2>1. y[1] \in Source /\ y[2] \in Shelves'[y[1]] /\ ~Written(y[1], y[2])'
        /\ y[2] \notin DocsOf(got', y[1])
    BY <1>4, <1>5 DEF Owed
  <2>2. y[2] \in Shelves[y[1]] /\ ~Written(y[1], y[2])
    BY <1>5, <2>1
  <2>3. Owed(y)
    BY <1>1, <1>4, <2>1, <2>2 DEF Owed
  <2>4. ASSUME NEW x \in Section \X Item, StandsBefore(x, y), x[1] = y[1] => x[2] \in Shelves[y[1]]
        PROVE  StandsBefore(x, y)'
    BY <1>5, <2>1, <2>2, <2>4 DEF StandsBefore
  <2>5. InFront(Kept, y) \subseteq InFront(Kept, y)'
    <3>1. ASSUME NEW x \in InFront(Kept, y)
          PROVE  x \in InFront(Kept, y)'
      <4>1. x \in Section \X Item /\ x[2] \in Kept[x[1]] /\ StandsBefore(x, y)
        BY <3>1 DEF InFront
      <4>2. x[1] = y[1] => x[2] \in Shelves[y[1]]
        BY <1>5, <2>1, <4>1
      <4>3. StandsBefore(x, y)' /\ x[2] \in Kept'[x[1]]
        BY <1>5, <2>4, <4>1, <4>2
      <4>4. QED
        BY <4>1, <4>3 DEF InFront
    <3>2. QED
      BY <3>1
  <2>6. InFront(Shelves, y) \subseteq InFront(Shelves, y)'
    <3>1. ASSUME NEW x \in InFront(Shelves, y)
          PROVE  x \in InFront(Shelves, y)'
      <4>1. x \in Section \X Item /\ x[2] \in Shelves[x[1]] /\ StandsBefore(x, y)
        BY <3>1 DEF InFront
      <4>2. x[1] \in Section /\ x[1] = y[1] => x[2] \in Shelves[y[1]]
        BY <4>1
      <4>3. StandsBefore(x, y)' /\ x[2] \in Shelves'[x[1]]
        BY <1>5, <2>4, <4>1, <4>2
      <4>4. QED
        BY <4>1, <4>3 DEF InFront
    <3>2. QED
      BY <3>1
  <2>7. PICK k, l, a, b : /\ k = InFront(Kept, y) /\ l = InFront(Kept, y)'
                          /\ a = InFront(Shelves, y) /\ b = InFront(Shelves, y)'
    OBVIOUS
  <2>8. IsFiniteSet(l) /\ IsFiniteSet(b)
    <3>1. IsFiniteSet(Section \X Item)
      BY FewItems, FS_Product
    <3>2. l \subseteq Section \X Item /\ b \subseteq Section \X Item
      BY <2>7 DEF InFront
    <3>3. QED
      BY <3>1, <3>2, FS_Subset
  <2>9. k \subseteq l /\ a \subseteq b
    BY <2>5, <2>6, <2>7
  <2>10. /\ Cardinality(k) \in Nat /\ Cardinality(l) \in Nat /\ Cardinality(k) <= Cardinality(l)
         /\ Cardinality(a) \in Nat /\ Cardinality(b) \in Nat /\ Cardinality(a) <= Cardinality(b)
    BY <2>8, <2>9, FrontGrows
  <2>11. QED
    BY <2>3, <2>7, <2>10
<1>6. ASSUME drift'.way # "backward", Underway
      PROVE  Underway'
  <2>1. Line \in [1..Count -> Section \X Item] /\ Count \in Nat
    BY LineShape
  <2>2. ASSUME NEW i \in 1..Count
        PROVE  Line[i][2] \in Shelves[Line[i][1]] /\ Line[i][2] \in Shelves'[Line[i][1]]
    <3>1. Line[i] \in Section \X Item
      BY <2>1
    <3>2. QED
      BY <1>6, <3>1 DEF Underway
  <2>3. ASSUME NEW i \in 1..Count, NEW j \in 1..i - 1,
               Line[i][1] \in Source, ~Written(Line[i][1], Line[i][2])'
        PROVE  StandsBefore(Line[j], Line[i])'
    <3>0. PICK x, y : x = Line[j] /\ y = Line[i]
      OBVIOUS
    <3>1. y[1] \in Source /\ ~Written(y[1], y[2])'
      BY <1>2, <2>3, <3>0 DEF Written
    <3>2. j \in 1..Count
      BY <2>1
    <3>3. /\ x[2] \in Shelves[x[1]] /\ y[2] \in Shelves[y[1]] /\ y[2] \in Shelves'[y[1]]
      BY <2>2, <3>0, <3>2
    <3>4. ~Written(y[1], y[2])
      BY <1>6, <3>1, <3>3
    <3>5. StandsBefore(x, y)
      BY <1>6, <2>3, <3>0, <3>1, <3>4 DEF Underway
    <3>6. x[1] = y[1] /\ Newer(y[1], x[2], y[2]) => Newer(y[1], x[2], y[2])'
      BY <1>6, <3>1, <3>3
    <3>7. StandsBefore(x, y)'
      BY <3>5, <3>6 DEF StandsBefore
    <3>8. QED
      BY <1>2, <3>0, <3>7 DEF StandsBefore
  <2>4. stage' > 2 => Shelves'["admin"] \subseteq DocsOf(cards', "admin")
    BY <1>1, <1>6 DEF Underway
  <2>5. ASSUME NEW y \in Section \X Item, Owed(y)'
        PROVE  Cardinality(InFront(Kept, y))' >= offset' /\ (Read(y[1])' => Placed(y)')
    <3>1. PICK k, l : k = Cardinality(InFront(Kept, y)) /\ l = Cardinality(InFront(Kept, y))'
      OBVIOUS
    <3>2. PICK a, b : a = Cardinality(InFront(Shelves, y)) /\ b = Cardinality(InFront(Shelves, y))'
      OBVIOUS
    <3>3. Owed(y) /\ k \in Nat /\ l \in Nat /\ a \in Nat /\ b \in Nat /\ l >= k /\ b >= a
      BY <1>5, <1>6, <2>5, <3>1, <3>2
    <3>4. k >= offset /\ (Read(y[1]) => Placed(y))
      BY <1>6, <3>1, <3>3 DEF Underway
    <3>5. l >= offset' /\ offset \in Nat /\ Limit \in Nat
      BY <1>1, <3>3, <3>4, LimitIsNat DEF TypeOK
    <3>6. Placed(y) => Placed(y)'
      <4>1. a >= Limit => b >= Limit
        BY <3>3, <3>5
      <4>2. QED
        BY <1>1, <1>2, <3>2, <4>1 DEF Placed
    <3>7. QED
      BY <1>3, <3>1, <3>4, <3>5, <3>6
  <2>6. \A i \in 1..Count' : Line'[i][2] \in Shelves'[Line'[i][1]]
    BY <1>2, <2>2
  <2>7. \A i \in 1..Count' : \A j \in 1..i - 1 :
          Line'[i][1] \in Source /\ ~Written(Line[i][1], Line[i][2])' =>
            StandsBefore(Line[j], Line[i])'
    BY <1>2, <2>3
  <2>8. QED
    BY <2>4, <2>5, <2>6, <2>7 DEF Underway
<1>7. ASSUME drift'.way # "backward", LeftBehind, Len(got) \in Nat
      PROVE  LeftBehind'
  <2>1. ASSUME NEW y \in Section \X Item, Owed(y)'
        PROVE  Len(page') >= PageSize /\ Cardinality(InFront(Shelves, y))' >= Len(got')
    <3>1. PICK a, b : a = Cardinality(InFront(Shelves, y)) /\ b = Cardinality(InFront(Shelves, y))'
      OBVIOUS
    <3>2. Owed(y) /\ a \in Nat /\ b \in Nat /\ b >= a
      BY <1>5, <1>7, <2>1, <3>1
    <3>3. Len(page) >= PageSize /\ a >= Len(got)
      BY <1>7, <3>1, <3>2 DEF LeftBehind
    <3>4. b >= Len(got)
      BY <1>7, <3>2, <3>3
    <3>5. QED
      BY <1>1, <3>1, <3>3, <3>4
  <2>2. QED
    BY <2>1 DEF LeftBehind
<1>8. Len(got) \in Nat
  BY LenProperties DEF TypeOK
<1>9. QED
  BY <1>1, <1>6, <1>7, <1>8 DEF Lossless

LEMMA WriteLossless ==
  ASSUME SeedsApart, IInv, SavedApart, Complete, Lossless, Others
  PROVE  Lossless'
<1>1. Write
  BY DEF Others, CreateNotice, RetireNotice, SaveProfile, EventsMove, ArchiveCustomer
<1>2. /\ UNCHANGED <<request, walk>> /\ clock' = clock + 1 /\ clock \in Nat
      /\ drift'.since = drift.since /\ drift.since <= clock /\ drift.since \in Nat
      /\ TypeOK
  BY <1>1 DEF Write, Lossless, IInv, TypeOK
<1>3. drift'.since <= clock'
  BY <1>2
<1>4. ASSUME drift'.way # "backward"
      PROVE  /\ drift.way # "backward" /\ Kept' = Kept
             /\ \A s \in Source : Kept[s] \subseteq Shelves[s]
             /\ \A s \in Section : Shelves[s] \subseteq Shelves'[s]
             /\ Shelves'["admin"] = Shelves["admin"]
             /\ \A s \in Source : \A d \in Shelves'[s] :
                  ~Written(s, d)' => d \in Shelves[s] /\ ~Written(s, d)
             /\ \A s \in Source : \A d, e \in Shelves[s] :
                  ~Written(s, d)' /\ Newer(s, e, d) => Newer(s, e, d)'
  <2>1. /\ drift.way # "backward"
        /\ \A s \in Source : Matching[s] \subseteq Matching'[s]
        /\ \A s \in Source : \A d \in Matching'[s] :
             ~Written(s, d)' => d \in Matching[s] /\ ~Written(s, d)
        /\ \A s \in Source : \A d, e \in Matching[s] :
             ~Written(s, d)' /\ Newer(s, e, d) => Newer(s, e, d)'
    BY <1>2, <1>4, WriteDrifts
  <2>2. Source \subseteq Section /\ "admin" \in Section /\ "admin" \notin Source
    BY SectionNumbers DEF Section, Source
  <2>3. /\ \A s \in Source : Shelves[s] = Matching[s] /\ Shelves'[s] = Matching'[s]
        /\ \A s \in Section \ Source : Shelves'[s] = Shelves[s]
    BY <1>2, <2>2 DEF Shelves, walk
  <2>4. \A s \in Source : span.stayed[s] \subseteq Matching[s]
    BY DEF Complete
  <2>5. \A s \in Source : span'.stayed[s] = span.stayed[s]
    <3>1. span' = [span EXCEPT
                     !.seen   = [s \in Source |-> span.seen[s] \cup Matching'[s]],
                     !.stayed = [s \in Source |-> span.stayed[s] \cap Matching'[s]],
                     !.counts = [p \in Profile |-> span.counts[p] \cup {events'[p]}]]
          /\ span \in SpanSpace
      BY <1>1 DEF Write, IInv, SpanCovers
    <3>2. span'.stayed = [s \in Source |-> span.stayed[s] \cap Matching'[s]]
      BY <3>1 DEF SpanSpace
    <3>3. \A s \in Source : span.stayed[s] \cap Matching'[s] = span.stayed[s]
      BY <2>1, <2>4
    <3>4. QED
      BY <3>2, <3>3
  <2>6. Kept' = Kept
    BY <2>3, <2>5 DEF Kept
  <2>7. \A s \in Source : Kept[s] \subseteq Shelves[s]
    BY <2>2, <2>3, <2>4 DEF Kept
  <2>8. \A s \in Section : Shelves[s] \subseteq Shelves'[s]
    BY <2>1, <2>3
  <2>9. QED
    BY <2>1, <2>2, <2>3, <2>6, <2>7, <2>8
<1>5. QED
  BY <1>2, <1>3, <1>4, StillLossless

LEMMA StutterLossless ==
  ASSUME IInv, Complete, Lossless, UNCHANGED vars
  PROVE  Lossless'
<1>1. /\ UNCHANGED <<request, walk>> /\ UNCHANGED <<store, caller>> /\ TypeOK
      /\ UNCHANGED <<notices, profiles, drift, span, clock>>
  BY DEF vars, request, walk, store, IInv
<1>2. drift'.since <= clock'
  BY <1>1 DEF Lossless
<1>3. Matching' = Matching /\ Shelves' = Shelves
  BY <1>1, RestingShelves
<1>4. Kept' = Kept
  BY <1>1, <1>3 DEF Kept
<1>5. /\ \A s, d : Written(s, d)' <=> Written(s, d)
      /\ \A s, d, e : Newer(s, e, d)' <=> Newer(s, e, d)
  BY <1>1 DEF Written, Newer
<1>6. \A s \in Source : Kept[s] \subseteq Shelves[s]
  BY ShelfShape, SectionNumbers DEF Kept, Complete
<1>7. QED
  BY <1>1, <1>2, <1>3, <1>4, <1>5, <1>6, StillLossless

LEMMA InitLossless ==
  ASSUME Init
  PROVE  Lossless
BY DEF Init, Lossless, Working

LEMMA StepLossless ==
  ASSUME Reach <= MaxSize, SeedsApart, IInv, SavedApart, Complete, Exact, Lossless, [Next]_vars
  PROVE  Lossless'
<1>1. CASE Ask \/ TurnPage
  BY <1>1, AskLossless, TurnPageLossless
<1>2. CASE Work
  BY <1>2, SkipSectionLossless, FetchCardsLossless, FetchProfilesLossless, DescribeLossless,
     SliceLossless DEF Work
<1>3. CASE MongoFails
  BY <1>3, MongoFailsLossless
<1>4. CASE Others
  BY <1>4, WriteLossless
<1>5. CASE WalkOver \/ UNCHANGED vars
  BY <1>5, StutterLossless DEF WalkOver
<1>6. QED
  BY <1>1, <1>2, <1>3, <1>4, <1>5 DEF Next

(* The last page is short, so nothing is owed any more.                     *)
LEMMA LosslessShows ==
  ASSUME IInv, Lossless
  PROVE  ForwardDriftLosesNothing
<1>1. ASSUME drift.way # "backward", pc = "answered", Len(page) < PageSize,
             NEW s \in Source, NEW d \in Matching[s], ~Written(s, d)
      PROVE  d \in DocsOf(got, s)
  <2>1. <<s, d>> \in Section \X Item
    BY MatchingShape, SectionNumbers
  <2>2. ~(Len(page) >= PageSize)
    <3>1. Len(page) \in Nat /\ PageSize \in Nat
      BY BoundAssumption, LenProperties DEF IInv, TypeOK
    <3>2. QED
      BY <1>1, <3>1
  <2>3. ~Owed(<<s, d>>)
    BY <1>1, <2>1, <2>2 DEF Lossless, LeftBehind
  <2>4. QED
    BY <1>1, <2>3 DEF Owed
<1>2. QED
  BY <1>1 DEF ForwardDriftLosesNothing

(* A walk without a cursor loses nothing while the list only drifts         *)
(* forward: get_home_cards re-reads every section from its front, and a     *)
(* write that takes nothing off a section only pushes cards to later pages. *)
THEOREM HomeWalkLosesNothing ==
  ASSUME SeedsApart, Reach <= MaxSize
  PROVE  Spec => []ForwardDriftLosesNothing
<1>1. Init /\ IInv => SavedApart /\ Exact /\ Complete /\ Lossless
  BY InitExact, InitCompletes, InitLossless
<1>2. IInv /\ SavedApart /\ Exact /\ Complete /\ Lossless /\ [Next]_vars =>
        SavedApart' /\ Exact' /\ Complete' /\ Lossless'
  BY StepExact, StepCompletes, StepLossless DEF SeedsApart, SavedApart
<1>3. IInv /\ Lossless => ForwardDriftLosesNothing
  BY LosslessShows
<1>4. QED
  BY <1>1, <1>2, <1>3, HomeInvariance, PTL DEF Spec
=============================================================================
