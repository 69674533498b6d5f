--------------------------- MODULE HomePageProofs ---------------------------
(***************************************************************************)
(* Home paging is correct up to MaxSize, for every caller, every content   *)
(* of the sections and every page: although each source is only asked for  *)
(* its first offset + size documents, the page is the slice of the full    *)
(* combined list.  The argument: limiting a section does not change its    *)
(* first k cards, concatenation keeps that, and a page depends on the      *)
(* first offset + size cards alone.                                        *)
(***************************************************************************)
EXTENDS HomePage, SequenceTheorems, TLAPS

(* Two lists agree on their first k elements. *)
AgreeUpTo(a, b, k) ==
  \A i \in 1..k : /\ i <= Len(a) <=> i <= Len(b)
                  /\ i <= Len(a) => a[i] = b[i]

-----------------------------------------------------------------------------
(* Prefixes and pages of a list *)

(* What FirstOf returns: the elements up to n, as far as there are any. *)
LEMMA FirstOfShape ==
  ASSUME NEW S, NEW list \in Seq(S), NEW n \in Nat
  PROVE  /\ FirstOf(list, n) \in Seq(S)
         /\ Len(FirstOf(list, n)) = IF n < Len(list) THEN n ELSE Len(list)
         /\ \A i \in 1..Len(FirstOf(list, n)) : FirstOf(list, n)[i] = list[i]
<1> DEFINE last == IF n < Len(list) THEN n ELSE Len(list)
<1>1. Len(list) \in Nat /\ last \in Nat /\ last <= Len(list)
  BY LenProperties
<1>2. \A i \in 1..last : list[i] \in S
  BY <1>1, ElementOfSeq
<1>3. /\ SubSeq(list, 1, last) \in Seq(S)
      /\ Len(SubSeq(list, 1, last)) = IF 1 <= last THEN last - 1 + 1 ELSE 0
      /\ \A i \in 1..last - 1 + 1 : SubSeq(list, 1, last)[i] = list[1 + i - 1]
  BY <1>1, <1>2, SubSeqProperties
<1>4. QED
  BY <1>1, <1>3 DEF FirstOf

(* What PageOf returns: the elements after offset, at most size of them. *)
LEMMA PageShape ==
  ASSUME NEW S, NEW list \in Seq(S), NEW offset \in Nat, NEW size \in Nat
  PROVE  LET last == IF offset + size < Len(list) THEN offset + size ELSE Len(list)
             len  == IF offset < last THEN last - offset ELSE 0
         IN /\ PageOf(list, offset, size) \in Seq(S)
            /\ Len(PageOf(list, offset, size)) = len
            /\ \A i \in 1..len : PageOf(list, offset, size)[i] = list[offset + i]
<1> DEFINE last == IF offset + size < Len(list) THEN offset + size ELSE Len(list)
<1>1. Len(list) \in Nat /\ last \in Nat /\ last <= Len(list)
  BY LenProperties
<1>2. \A i \in offset + 1..last : list[i] \in S
  BY <1>1, ElementOfSeq
<1>3. /\ SubSeq(list, offset + 1, last) \in Seq(S)
      /\ Len(SubSeq(list, offset + 1, last)) =
           IF offset + 1 <= last THEN last - (offset + 1) + 1 ELSE 0
      /\ \A i \in 1..last - (offset + 1) + 1 :
           SubSeq(list, offset + 1, last)[i] = list[offset + 1 + i - 1]
  BY <1>1, <1>2, SubSeqProperties
<1>4. QED
  BY <1>1, <1>3 DEF PageOf

(* A limit of n leaves the first k <= n elements alone. *)
LEMMA LimitAgrees ==
  ASSUME NEW S, NEW list \in Seq(S), NEW n \in Nat, NEW k \in Nat, k <= n
  PROVE  AgreeUpTo(FirstOf(list, n), list, k)
<1>1. Len(list) \in Nat
  BY LenProperties
<1>2. QED
  BY <1>1, FirstOfShape DEF AgreeUpTo

(* Concatenation preserves agreement. *)
LEMMA ConcatAgrees ==
  ASSUME NEW S, NEW a \in Seq(S), NEW b \in Seq(S), NEW c \in Seq(S), NEW d \in Seq(S),
         NEW k \in Nat, AgreeUpTo(a, b, k), AgreeUpTo(c, d, k)
  PROVE  AgreeUpTo(a \o c, b \o d, k)
<1>1. /\ Len(a) \in Nat /\ Len(b) \in Nat /\ Len(c) \in Nat /\ Len(d) \in Nat
      /\ Len(a \o c) = Len(a) + Len(c) /\ Len(b \o d) = Len(b) + Len(d)
  BY LenProperties, ConcatProperties
<1>2. /\ \A i \in 1..Len(a) + Len(c) :
           (a \o c)[i] = IF i <= Len(a) THEN a[i] ELSE c[i - Len(a)]
      /\ \A i \in 1..Len(b) + Len(d) :
           (b \o d)[i] = IF i <= Len(b) THEN b[i] ELSE d[i - Len(b)]
  BY ConcatProperties
<1> SUFFICES ASSUME NEW i \in 1..k
             PROVE  /\ i <= Len(a \o c) <=> i <= Len(b \o d)
                    /\ i <= Len(a \o c) => (a \o c)[i] = (b \o d)[i]
  BY DEF AgreeUpTo
<1>3. CASE i <= Len(a)
  <2>1. i <= Len(b) /\ a[i] = b[i]
    BY <1>3 DEF AgreeUpTo
  <2>2. QED
    BY <1>1, <1>2, <1>3, <2>1
<1>4. CASE Len(a) < i
  <2>1. Len(a) + 1 \in 1..k /\ ~(Len(a) + 1 <= Len(a))
    BY <1>1, <1>4
  <2>2. ~(Len(a) + 1 <= Len(b))
    BY <2>1 DEF AgreeUpTo
  <2>3. ~(Len(b) < Len(a))
    <3> SUFFICES ASSUME Len(b) < Len(a) PROVE FALSE
      OBVIOUS
    <3>1. Len(a) \in 1..k /\ Len(a) <= Len(a)
      BY <1>1, <2>1
    <3>2. Len(a) <= Len(b)
      BY <3>1 DEF AgreeUpTo
    <3>3. QED
      BY <1>1, <3>2
  <2>4. Len(a) = Len(b)
    BY <1>1, <2>2, <2>3
  <2>5. i - Len(a) \in 1..k
    BY <1>1, <1>4
  <2>6. /\ i - Len(a) <= Len(c) <=> i - Len(a) <= Len(d)
        /\ i - Len(a) <= Len(c) => c[i - Len(a)] = d[i - Len(a)]
    BY <2>5 DEF AgreeUpTo
  <2>7. QED
    BY <1>1, <1>2, <1>4, <2>4, <2>6
<1>5. QED
  BY <1>1, <1>3, <1>4

(* A page depends on the first offset + size elements only. *)
LEMMA PageAgrees ==
  ASSUME NEW S, NEW a \in Seq(S), NEW b \in Seq(S),
         NEW offset \in Nat, NEW size \in Nat, AgreeUpTo(a, b, offset + size)
  PROVE  PageOf(a, offset, size) = PageOf(b, offset, size)
<1> DEFINE k == offset + size
           Last(l) == IF k < Len(l) THEN k ELSE Len(l)
           Size(l) == IF offset < Last(l) THEN Last(l) - offset ELSE 0
<1>1. Len(a) \in Nat /\ Len(b) \in Nat /\ k \in Nat
  BY LenProperties
<1>2. Last(a) = Last(b)
  <2>1. CASE k <= Len(a)
    <3>1. CASE k = 0
      BY <1>1, <3>1
    <3>2. CASE k # 0
      <4>1. k \in 1..k
        BY <1>1, <3>2
      <4>2. k <= Len(b)
        BY <2>1, <4>1 DEF AgreeUpTo
      <4>3. QED
        BY <1>1, <2>1, <4>2
    <3>3. QED
      BY <3>1, <3>2
  <2>2. CASE Len(a) < k
    <3>1. Len(a) + 1 \in 1..k /\ ~(Len(a) + 1 <= Len(a))
      BY <1>1, <2>2
    <3>2. ~(Len(a) + 1 <= Len(b))
      BY <3>1 DEF AgreeUpTo
    <3>3. Len(a) = 0 \/ Len(a) \in 1..k
      BY <1>1, <2>2
    <3>4. Len(a) = 0 \/ Len(a) <= Len(b)
      BY <1>1, <3>3 DEF AgreeUpTo
    <3>5. Len(a) = Len(b)
      BY <1>1, <3>2, <3>4
    <3>6. QED
      BY <3>5
  <2>3. QED
    BY <1>1, <2>1, <2>2
<1>3. /\ PageOf(a, offset, size) \in Seq(S) /\ PageOf(b, offset, size) \in Seq(S)
      /\ Len(PageOf(a, offset, size)) = Size(a) /\ Len(PageOf(b, offset, size)) = Size(b)
      /\ \A i \in 1..Size(a) : PageOf(a, offset, size)[i] = a[offset + i]
      /\ \A i \in 1..Size(b) : PageOf(b, offset, size)[i] = b[offset + i]
  BY PageShape
<1>4. Size(a) = Size(b) /\ Size(a) \in Nat
  BY <1>1, <1>2
<1>5. \A i \in 1..Size(a) : a[offset + i] = b[offset + i]
  <2> SUFFICES ASSUME NEW i \in 1..Size(a) PROVE a[offset + i] = b[offset + i]
    OBVIOUS
  <2>1. offset + i \in 1..k /\ offset + i <= Len(a)
    BY <1>1
  <2>2. QED
    BY <2>1 DEF AgreeUpTo
<1> HIDE DEF k, Last, Size
<1>6. \A i \in 1..Len(PageOf(a, offset, size)) :
        PageOf(a, offset, size)[i] = PageOf(b, offset, size)[i]
  BY <1>3, <1>4, <1>5
<1>7. QED
  BY <1>3, <1>4, <1>6, SeqEqual


-----------------------------------------------------------------------------
(* The page of a combined list *)

(* A section limited to n <= MaxSize documents agrees with its full content *)
(* on the first k <= n cards.                                               *)
LEMMA SectionAgrees ==
  ASSUME NEW S, NEW caller, NEW lists \in [Section -> Seq(S)], NEW section \in Section,
         NEW n \in Nat, NEW k \in Nat, k <= n
  PROVE  /\ Contribution(caller, lists, section, n) \in Seq(S)
         /\ Contents(caller, lists, section) \in Seq(S)
         /\ AgreeUpTo(Contribution(caller, lists, section, n),
                      Contents(caller, lists, section), k)
<1>1. lists[section] \in Seq(S) /\ <<>> \in Seq(S)
  BY EmptySeq
<1>2. /\ FirstOf(lists[section], n) \in Seq(S)
      /\ AgreeUpTo(FirstOf(lists[section], n), lists[section], k)
  BY <1>1, FirstOfShape, LimitAgrees
<1>3. \A l \in Seq(S) : AgreeUpTo(l, l, k)
  BY DEF AgreeUpTo
<1>4. QED
  BY <1>1, <1>2, <1>3 DEF Contribution, Contents

(* The list assembled with limit n agrees with the combined list on the     *)
(* first k <= n cards.                                                      *)
LEMMA AssembledAgrees ==
  ASSUME NEW S, NEW caller, NEW lists \in [Section -> Seq(S)],
         NEW n \in Nat, NEW k \in Nat, k <= n
  PROVE  /\ Assembled(caller, lists, n) \in Seq(S)
         /\ CombinedList(caller, lists) \in Seq(S)
         /\ AgreeUpTo(Assembled(caller, lists, n), CombinedList(caller, lists), k)
<1> DEFINE A(s) == Contribution(caller, lists, s, n)
           C(s) == Contents(caller, lists, s)
<1>1. \A s \in Section : A(s) \in Seq(S) /\ C(s) \in Seq(S) /\ AgreeUpTo(A(s), C(s), k)
  BY SectionAgrees
<1> DEFINE A5 == A("mentees") \o A("journey")
           C5 == C("mentees") \o C("journey")
           A4 == A("members") \o A5
           C4 == C("members") \o C5
           A3 == A("customer") \o A4
           C3 == C("customer") \o C4
           A2 == A("admin") \o A3
           C2 == C("admin") \o C3
           A1 == A("notifications") \o A2
           C1 == C("notifications") \o C2
<1>2. {"notifications", "admin", "customer", "members", "mentees", "journey"} = Section
  BY DEF Section
<1>3. Assembled(caller, lists, n) = A1 /\ CombinedList(caller, lists) = C1
  BY DEF Assembled, CombinedList
<1> HIDE DEF A, C
<1>5. A5 \in Seq(S) /\ C5 \in Seq(S) /\ AgreeUpTo(A5, C5, k)
  BY <1>1, <1>2, ConcatProperties, ConcatAgrees
<1> HIDE DEF A5, C5
<1>6. A4 \in Seq(S) /\ C4 \in Seq(S) /\ AgreeUpTo(A4, C4, k)
  BY <1>1, <1>2, <1>5, ConcatProperties, ConcatAgrees
<1> HIDE DEF A4, C4
<1>7. A3 \in Seq(S) /\ C3 \in Seq(S) /\ AgreeUpTo(A3, C3, k)
  BY <1>1, <1>2, <1>6, ConcatProperties, ConcatAgrees
<1> HIDE DEF A3, C3
<1>8. A2 \in Seq(S) /\ C2 \in Seq(S) /\ AgreeUpTo(A2, C2, k)
  BY <1>1, <1>2, <1>7, ConcatProperties, ConcatAgrees
<1> HIDE DEF A2, C2
<1>9. A1 \in Seq(S) /\ C1 \in Seq(S) /\ AgreeUpTo(A1, C1, k)
  BY <1>1, <1>2, <1>8, ConcatProperties, ConcatAgrees
<1>10. QED
  BY <1>3, <1>9

(* get_home_cards: up to MaxSize, the page is the slice of the combined     *)
(* composite list that the API contract promises.                           *)
THEOREM PageIsSlice ==
  ASSUME NEW S, NEW caller, NEW lists \in [Section -> Seq(S)],
         NEW offset \in Nat, NEW size \in Nat, offset + size <= MaxSize
  PROVE  HomeCards(caller, lists, offset, size) =
           PageOf(CombinedList(caller, lists), offset, size)
<1> DEFINE n == SectionSize(offset, size)
<1>1. n \in Nat /\ offset + size \in Nat /\ offset + size <= n
  BY MaxSizeAssumption DEF SectionSize
<1> HIDE DEF n
<1>2. /\ Assembled(caller, lists, n) \in Seq(S)
      /\ CombinedList(caller, lists) \in Seq(S)
      /\ AgreeUpTo(Assembled(caller, lists, n), CombinedList(caller, lists), offset + size)
  BY <1>1, AssembledAgrees
<1>3. QED
  BY <1>2, PageAgrees DEF HomeCards, n

-----------------------------------------------------------------------------
(* A walk over consecutive pages *)

(* What a walk has gathered, extended by the page that starts where it      *)
(* stopped, is again the beginning of the list; and a page shorter than     *)
(* asked for ends the walk with the whole list.  This is what lets a client *)
(* of a bare array page through home without a cursor.                      *)
THEOREM PagesTile ==
  ASSUME NEW S, NEW list \in Seq(S), NEW offset \in Nat, NEW size \in Nat,
         offset <= Len(list)
  PROVE  LET page == PageOf(list, offset, size)
             got  == FirstOf(list, offset) \o page
         IN /\ got = FirstOf(list, offset + size)
            /\ Len(page) < size => got = list
<1> DEFINE page == PageOf(list, offset, size)
           head == FirstOf(list, offset)
           more == FirstOf(list, offset + size)
           last == IF offset + size < Len(list) THEN offset + size ELSE Len(list)
           len  == IF offset < last THEN last - offset ELSE 0
<1>1. Len(list) \in Nat /\ offset + size \in Nat
  BY LenProperties
<1>2. /\ page \in Seq(S) /\ Len(page) = len
      /\ \A i \in 1..len : page[i] = list[offset + i]
  BY PageShape
<1>3. /\ head \in Seq(S) /\ Len(head) = offset
      /\ \A i \in 1..Len(head) : head[i] = list[i]
  BY <1>1, FirstOfShape
<1>4. /\ more \in Seq(S) /\ Len(more) = last
      /\ \A i \in 1..Len(more) : more[i] = list[i]
  BY <1>1, FirstOfShape
<1>5. len \in Nat /\ last \in Nat /\ offset + len = last
  BY <1>1
<1> HIDE DEF page, head, more, len
<1>6. /\ head \o page \in Seq(S) /\ Len(head \o page) = offset + len
      /\ \A i \in 1..offset + len :
           (head \o page)[i] = IF i <= offset THEN head[i] ELSE page[i - offset]
  BY <1>2, <1>3, ConcatProperties
<1>7. \A i \in 1..last : (head \o page)[i] = list[i]
  <2> SUFFICES ASSUME NEW i \in 1..last PROVE (head \o page)[i] = list[i]
    OBVIOUS
  <2>1. CASE i <= offset
    BY <1>3, <1>5, <1>6, <2>1
  <2>2. CASE offset < i
    <3>1. i - offset \in 1..len /\ offset + (i - offset) = i /\ ~(i <= offset)
      BY <1>5, <2>2
    <3>2. (head \o page)[i] = page[i - offset]
      BY <1>5, <1>6, <3>1
    <3>3. page[i - offset] = list[offset + (i - offset)]
      BY <1>2, <3>1
    <3>4. QED
      BY <3>1, <3>2, <3>3
  <2>3. i <= offset \/ offset < i
    BY <1>1, <1>5
  <2>4. QED
    BY <2>1, <2>2, <2>3
<1>8. head \o page = more
  BY <1>4, <1>5, <1>6, <1>7, SeqEqual
<1>9. Len(page) < size => head \o page = list
  <2> SUFFICES ASSUME Len(page) < size PROVE head \o page = list
    OBVIOUS
  <2>1. last = Len(list)
    BY <1>1, <1>2, <1>5
  <2>2. QED
    BY <1>5, <1>6, <1>7, <2>1, SeqEqual
<1>10. QED
  BY <1>8, <1>9 DEF page, head, more
=============================================================================
