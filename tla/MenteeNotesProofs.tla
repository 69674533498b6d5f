-------------------------- MODULE MenteeNotesProofs --------------------------
(***************************************************************************)
(* Proofs about MenteeNotes for every collection of notes and every length *)
(* limit that has room for the heading and the empty-notes line.  The room *)
(* left is measured on the lines so far: one more line adds its length and *)
(* a joiner.  The fetched notes are apart and the newest first, so that    *)
(* what stands before a note bounds what is newer than it.                 *)
(***************************************************************************)
EXTENDS MenteeNotes, SequenceTheorems, FiniteSetTheorems, WellFoundedInduction, TLAPS

(* Which variables are still in their initial state at each program point,  *)
(* and that the fetched notes answer the query.                             *)
Progress ==
  /\ pc = "fetch" => notes = <<>> /\ bodies = <<>> /\ k = 0
  /\ pc \in {"fetch", "collect"} => lines = <<>>
  /\ pc = "lines" => k = Len(lines)
  /\ pc # "fetch" => IsAnswer(notes)
  /\ Len(notes) <= CardLimit

(* How many of the notes have been looked at for a text. *)
Collected == IF pc \in {"fetch", "collect"} THEN k ELSE Len(notes)

(* The bodies are the notes with a text, in the order of the notes. *)
BodiesFollowNotes ==
  /\ Collected <= Len(notes)
  /\ \A a \in DOMAIN bodies : bodies[a] <= Collected
  /\ \A a, b \in DOMAIN bodies : a < b => bodies[a] < bodies[b]
  /\ \A j \in 1..Collected :
       docs[notes[j]].text => \E a \in DOMAIN bodies : bodies[a] = j

(* The lines are the first bodies; once one had to be cut, nothing is left: *)
(* the description is full.                                                 *)
LinesFollowBodies ==
  \A i \in DOMAIN lines :
    /\ i <= Len(bodies) /\ lines[i].note = bodies[i]
    /\ lines[i].length # BodyLength(lines[i].note) =>
         i = Len(lines) /\ HeaderLength + Joined(lines) = MaxLength

(* f[i] is the length of the first i lines without the joiners. *)
Sums(f, list) ==
  f = [i \in 0..Len(list) |->
         IF i = 0 THEN 0 ELSE f[i - 1] + PrefixLength + list[i].length]

(* There are such sums of the lines. *)
Measured == \E f \in [0..Len(lines) -> Nat] : Sums(f, lines)

IInv ==
  /\ TypeOK /\ Progress /\ Measured
  /\ BodiesFollowNotes /\ FitsSchema /\ LinesFollowBodies

USE LengthAssumption, NoteAssumption, NoUserAssumption DEF PrefixLength, EmptyLength

-----------------------------------------------------------------------------
(* The length of the joined lines *)

(* Every set of natural numbers has a least element: of the intervals 0..n  *)
(* for n in the set, one is minimal for inclusion.                          *)
LEMMA LeastNatural ==
  ASSUME NEW X \in SUBSET Nat, X # {}
  PROVE  \E m \in X : \A n \in X : m <= n
<1> DEFINE T == {0..n : n \in X}
<1>1. \A n \in X : 0..n \in SUBSET Nat /\ IsFiniteSet(0..n)
  BY FS_Interval
<1>2. T \subseteq FiniteSubsetsOf(Nat) /\ T # {}
  BY <1>1 DEF FiniteSubsetsOf
<1>3. PICK s \in T : \A t \in T : <<t, s>> \notin StrictSubsetOrdering(Nat)
  BY <1>2, FS_StrictSubsetOrderingWellFounded, WFMin
<1>4. PICK m \in X : s = 0..m
  BY <1>3
<1>5. ASSUME NEW n \in X, n < m
      PROVE  FALSE
  <2>1. 0..n \in T /\ 0..n \subseteq 0..m /\ 0..n # 0..m /\ 0..m \subseteq Nat
    BY <1>5
  <2>2. <<0..n, s>> \in StrictSubsetOrdering(Nat)
    BY <1>4, <2>1 DEF StrictSubsetOrdering
  <2>3. QED
    BY <1>3, <2>1, <2>2
<1>6. QED
  BY <1>5

(* Sums are unique: no position is the first at which two differ. *)
LEMMA SumsUnique ==
  ASSUME NEW list, Len(list) \in Nat, NEW f, NEW g, Sums(f, list), Sums(g, list)
  PROVE  \A i \in 0..Len(list) : f[i] = g[i]
<1>1. \A i \in 0..Len(list) :
        /\ f[i] = IF i = 0 THEN 0 ELSE f[i - 1] + PrefixLength + list[i].length
        /\ g[i] = IF i = 0 THEN 0 ELSE g[i - 1] + PrefixLength + list[i].length
  BY DEF Sums
<1> DEFINE X == {i \in 0..Len(list) : f[i] # g[i]}
<1>2. SUFFICES ASSUME X # {} PROVE FALSE
  OBVIOUS
<1>3. PICK m \in X : \A n \in X : m <= n
  <2>1. X \in SUBSET Nat
    OBVIOUS
  <2> HIDE DEF X
  <2>2. QED
    BY <1>2, <2>1, LeastNatural
<1>4. m \in 0..Len(list) /\ f[m] # g[m]
  OBVIOUS
<1>5. m # 0
  BY <1>1, <1>4
<1>6. m - 1 \in 0..Len(list) /\ m - 1 \notin X
  BY <1>3, <1>4, <1>5
<1>7. f[m - 1] = g[m - 1]
  BY <1>6
<1>8. QED
  BY <1>1, <1>4, <1>5, <1>7

(* The joined length is read off any such sums. *)
LEMMA JoinedFromSums ==
  ASSUME NEW list, Len(list) \in Nat, NEW f, Sums(f, list)
  PROVE  Joined(list) = f[Len(list)] + (IF list = <<>> THEN 0 ELSE Len(list) - 1)
<1> DEFINE total == CHOOSE g : g = [i \in 0..Len(list) |->
             IF i = 0 THEN 0 ELSE g[i - 1] + PrefixLength + list[i].length]
<1>1. Sums(total, list)
  BY DEF Sums
<1>2. Joined(list) = total[Len(list)] + (IF list = <<>> THEN 0 ELSE Len(list) - 1)
  BY DEF Joined
<1> HIDE DEF total
<1>3. total[Len(list)] = f[Len(list)]
  BY <1>1, SumsUnique
<1>4. QED
  BY <1>2, <1>3

(* No lines have no length. *)
LEMMA NothingJoined ==
  ASSUME lines = <<>>
  PROVE  Measured /\ Joined(lines) = 0
<1> DEFINE f == [i \in 0..0 |-> 0]
<1>1. Len(lines) = 0
  BY EmptySeq
<1>2. f \in [0..Len(lines) -> Nat] /\ Sums(f, lines) /\ f[Len(lines)] = 0
  BY <1>1 DEF Sums
<1> HIDE DEF f
<1>3. QED
  BY <1>1, <1>2, JoinedFromSums DEF Measured

LEMMA JoinedIsNat ==
  ASSUME lines \in Seq(Line), Measured
  PROVE  Joined(lines) \in Nat
<1>1. PICK f \in [0..Len(lines) -> Nat] : Sums(f, lines)
  BY DEF Measured
<1>2. Len(lines) \in Nat /\ (lines # <<>> => Len(lines) > 0)
  BY LenProperties, EmptySeq
<1>3. QED
  BY <1>1, <1>2, JoinedFromSums

-----------------------------------------------------------------------------
(* The invariant is inductive. *)

(* The lengths that an iteration computes are integers, and a shown body is *)
(* neither longer than the body nor than the room.                          *)
LEMMA ShownBounds ==
  ASSUME TypeOK, Measured, NEW i \in 1..Len(notes)
  PROVE  /\ Available \in Int /\ Joiner \in 0..1 /\ BodyLength(i) \in Nat
         /\ Shown(i) \in Int /\ Shown(i) <= Available /\ Shown(i) <= BodyLength(i)
         /\ Shown(i) # BodyLength(i) => Shown(i) = Available
<1>1. notes[i] \in Note /\ Joined(lines) \in Nat
  BY ElementOfSeq, JoinedIsNat DEF TypeOK
<1>2. BodyLength(i) \in Nat
  BY <1>1 DEF BodyLength, TypeOK, NoteDoc
<1>3. Available \in Int /\ Joiner \in 0..1
  BY <1>1 DEF Available, Joiner
<1>4. QED
  BY <1>2, <1>3 DEF Shown

(* What an appended line changes. *)
LEMMA LineAppended ==
  ASSUME TypeOK, Measured, AddLine
  PROVE  LET line == [note |-> bodies[k + 1], length |-> Shown(bodies[k + 1])]
         IN /\ line \in Line /\ bodies[k + 1] \in 1..Len(notes)
            /\ lines' \in Seq(Line) /\ Len(lines') = Len(lines) + 1
            /\ \A i \in 1..Len(lines) : lines'[i] = lines[i]
            /\ lines'[Len(lines) + 1] = line
            /\ lines' # <<>>
<1> DEFINE line == [note |-> bodies[k + 1], length |-> Shown(bodies[k + 1])]
<1>1. k + 1 \in 1..Len(bodies)
  BY LenProperties DEF AddLine, TypeOK
<1>2. bodies[k + 1] \in 1..Len(notes)
  BY <1>1, ElementOfSeq DEF TypeOK
<1>3. line \in Line
  <2>1. Shown(bodies[k + 1]) \in Int /\ Shown(bodies[k + 1]) > 0
    BY <1>2, ShownBounds DEF AddLine
  <2>2. QED
    BY <1>2, <2>1 DEF Line
<1>4. lines \in Seq(Line) /\ lines' = Append(lines, line)
  BY DEF TypeOK, AddLine
<1> HIDE DEF line
<1>5. /\ lines' \in Seq(Line) /\ Len(lines') = Len(lines) + 1
      /\ \A i \in 1..Len(lines) : lines'[i] = lines[i]
      /\ lines'[Len(lines) + 1] = line
  BY <1>3, <1>4, AppendProperties
<1>6. lines' # <<>>
  BY <1>4, <1>5, LenProperties, EmptySeq
<1>7. QED
  BY <1>2, <1>3, <1>5, <1>6 DEF line

(* A line more: the joiner goes before it unless it is the first. *)
LEMMA AddLineMeasures ==
  ASSUME TypeOK, Measured, AddLine
  PROVE  /\ Measured'
         /\ Joined(lines)' = Joined(lines) + Joiner + PrefixLength + Shown(bodies[k + 1])
<1> DEFINE b == bodies[k + 1]
<1>2. /\ lines' \in Seq(Line) /\ Len(lines') = Len(lines) + 1 /\ lines' # <<>>
      /\ \A i \in 1..Len(lines) : lines'[i] = lines[i]
      /\ lines'[Len(lines) + 1].length = Shown(b)
      /\ [note |-> b, length |-> Shown(b)] \in Line
  BY LineAppended
<1>3. /\ Len(lines) \in Nat /\ (lines = <<>> <=> Len(lines) = 0)
      /\ Shown(b) \in Nat
  BY <1>2, LenProperties, EmptySeq DEF TypeOK, AddLine, Line
<1> HIDE DEF b
<1>4. PICK f \in [0..Len(lines) -> Nat] : Sums(f, lines)
  BY DEF Measured
<1>5. PICK n : n = Len(lines)
  OBVIOUS
<1> DEFINE g == [i \in 0..n + 1 |->
                   IF i <= n THEN f[i] ELSE f[n] + PrefixLength + Shown(b)]
<1>6. n \in Nat /\ Len(lines') = n + 1 /\ f[n] \in Nat
  BY <1>2, <1>3, <1>4, <1>5
<1>7. g \in [0..n + 1 -> Nat]
  BY <1>3, <1>4, <1>5, <1>6
<1>8. \A i \in 0..n : f[i] = IF i = 0 THEN 0 ELSE f[i - 1] + PrefixLength + lines[i].length
  BY <1>4, <1>5 DEF Sums
<1>9. ASSUME NEW i \in 0..n + 1
      PROVE  g[i] = IF i = 0 THEN 0 ELSE g[i - 1] + PrefixLength + lines'[i].length
  <2>1. CASE i = 0
    BY <1>6, <1>8, <2>1
  <2>2. CASE i # 0 /\ i <= n
    <3>1. i - 1 \in 0..n /\ i \in 0..n /\ lines'[i] = lines[i]
      BY <1>2, <1>5, <1>6, <2>2
    <3>2. g[i] = f[i] /\ g[i - 1] = f[i - 1]
      BY <1>6, <3>1
    <3>3. QED
      BY <1>8, <2>2, <3>1, <3>2
  <2>3. CASE i = n + 1
    <3>1. g[i] = f[n] + PrefixLength + Shown(b) /\ g[i - 1] = f[n]
      BY <1>6, <2>3
    <3>2. lines'[i].length = Shown(b)
      BY <1>2, <1>5, <2>3
    <3>3. QED
      BY <1>6, <2>3, <3>1, <3>2
  <2>4. QED
    BY <1>6, <2>1, <2>2, <2>3
<1>10. g[n + 1] = f[n] + PrefixLength + Shown(b)
  BY <1>6
<1> HIDE DEF g
<1>11. Sums(g, lines')
  BY <1>6, <1>7, <1>9 DEF Sums
<1>12. Measured'
  BY <1>6, <1>7, <1>11 DEF Measured
<1>13. Joined(lines) = f[n] + (IF n = 0 THEN 0 ELSE n - 1)
  BY <1>3, <1>4, <1>5, JoinedFromSums
<1>14. Joined(lines') = g[n + 1] + n
  BY <1>2, <1>6, <1>11, JoinedFromSums
<1>15. Joiner = IF n = 0 THEN 0 ELSE 1
  BY <1>3, <1>5 DEF Joiner
<1>16. QED
  BY <1>3, <1>6, <1>10, <1>12, <1>13, <1>14, <1>15 DEF b

(* The initial state satisfies the invariant. *)
LEMMA InitIInv == Init => IInv
<1> SUFFICES ASSUME Init PROVE IInv
  OBVIOUS
<1>1. TypeOK
  BY EmptySeq DEF Init, TypeOK
<1>2. QED
  BY <1>1, EmptySeq, NothingJoined
     DEF Init, IInv, Progress, BodiesFollowNotes, Collected, FitsSchema,
         DescriptionLength, LinesFollowBodies

(* Fetch fills `notes` and nothing else. *)
LEMMA FetchStep == IInv /\ Fetch => IInv'
<1> SUFFICES ASSUME IInv, Fetch PROVE IInv'
  OBVIOUS
<1>1. bodies = <<>> /\ lines = <<>> /\ bodies' = <<>> /\ lines' = <<>>
  BY DEF IInv, Progress, Fetch
<1>2. notes' \in Seq(Note) /\ Len(notes') <= CardLimit
  <2>1. PICK m \in 0..CardLimit : notes' \in [1..m -> Note]
    BY DEF Fetch
  <2>2. m \in Nat
    BY <2>1
  <2>3. QED
    BY <2>1, <2>2, SeqDef
<1>3. TypeOK'
  <2>1. k = 0 /\ k' = k /\ pc' = "collect" /\ Len(notes') \in Nat
    BY <1>2, LenProperties DEF IInv, Progress, Fetch
  <2>2. bodies' \in Seq(1..Len(notes')) /\ lines' \in Seq(Line')
    BY <1>1, EmptySeq
  <2>3. QED
    BY <1>2, <2>1, <2>2 DEF IInv, TypeOK, Fetch
<1>4. Progress'
  BY <1>1, <1>2 DEF IInv, Progress, Fetch, IsAnswer, IsNewestFirst, Mine
<1>5. Measured' /\ FitsSchema' /\ LinesFollowBodies'
  BY <1>1, EmptySeq
     DEF IInv, Measured, FitsSchema, DescriptionLength, LinesFollowBodies, Fetch
<1>6. BodiesFollowNotes'
  <2>1. Collected' = 0
    BY DEF IInv, Progress, Fetch, Collected
  <2>2. Len(notes') \in Nat
    BY <1>2, LenProperties
  <2>3. QED
    BY <1>1, <2>1, <2>2, EmptySeq DEF BodiesFollowNotes
<1>7. QED
  BY <1>3, <1>4, <1>5, <1>6 DEF IInv

(* Collect and StartLines only touch the positions of the bodies. *)
LEMMA CollectStep == IInv /\ (Collect \/ StartLines) => IInv'
<1> SUFFICES ASSUME IInv, Collect \/ StartLines PROVE IInv'
  OBVIOUS
<1>1. /\ lines = <<>> /\ lines' = <<>> /\ notes' = notes
      /\ docs' = docs /\ user' = user
  BY DEF IInv, Progress, Collect, StartLines
<1>2. /\ bodies' \in Seq(1..Len(notes)) /\ pc' \in {"collect", "lines"}
      /\ k' \in 0..Len(IF pc' = "collect" THEN notes ELSE bodies')
  <2>1. CASE Collect
    <3>1. k + 1 \in 1..Len(notes)
      BY <2>1, LenProperties DEF Collect, IInv, TypeOK
    <3>2. bodies \in Seq(1..Len(notes)) /\ k \in Nat
      BY <2>1, LenProperties DEF Collect, IInv, TypeOK
    <3>3. Append(bodies, k + 1) \in Seq(1..Len(notes))
      BY <3>1, <3>2, AppendProperties
    <3>4. /\ bodies' = Append(bodies, k + 1) \/ bodies' = bodies
          /\ k' = k + 1 /\ pc' = "collect"
      BY <2>1 DEF Collect
    <3>5. QED
      BY <3>1, <3>2, <3>3, <3>4
  <2>2. CASE StartLines
    BY <2>2, LenProperties DEF StartLines, IInv, TypeOK
  <2>3. QED
    BY <2>1, <2>2
<1>3. TypeOK'
  BY <1>1, <1>2, EmptySeq DEF IInv, TypeOK
<1>4. Progress'
  BY <1>1, <1>2, EmptySeq
     DEF IInv, Progress, Collect, StartLines, IsAnswer, IsNewestFirst, Mine
<1>5. Measured' /\ FitsSchema' /\ LinesFollowBodies'
  BY <1>1, EmptySeq DEF IInv, Measured, FitsSchema, DescriptionLength, LinesFollowBodies
<1>6. BodiesFollowNotes'
  <2>0. bodies \in Seq(1..Len(notes)) /\ k \in Nat /\ BodiesFollowNotes
    BY LenProperties DEF IInv, TypeOK
  <2>1. CASE Collect
    <3>1. k + 1 \in 1..Len(notes) /\ Collected = k /\ Collected' = k + 1
      BY <2>0, <2>1, LenProperties DEF Collect, Collected, IInv, TypeOK
    <3>2. CASE ~docs[notes[k + 1]].text
      <4>1. bodies' = bodies
        BY <2>1, <3>2 DEF Collect
      <4>2. \A a \in DOMAIN bodies : bodies[a] \in Nat
        BY <2>0, ElementOfSeq, LenProperties
      <4>3. QED
        BY <1>1, <2>0, <3>1, <3>2, <4>1, <4>2 DEF BodiesFollowNotes
    <3>3. CASE docs[notes[k + 1]].text
      <4>1. bodies' = Append(bodies, k + 1)
        BY <2>1, <3>3 DEF Collect
      <4>2. /\ Len(bodies) \in Nat /\ DOMAIN bodies = 1..Len(bodies)
            /\ DOMAIN bodies' = 1..Len(bodies) + 1
            /\ bodies'[Len(bodies) + 1] = k + 1
            /\ \A a \in 1..Len(bodies) : bodies'[a] = bodies[a] /\ bodies[a] \in Nat
        BY <1>2, <2>0, <3>1, <4>1, AppendProperties, LenProperties, ElementOfSeq
      <4>3. \A a \in 1..Len(bodies) : bodies[a] <= k
        BY <2>0, <3>1, <4>2 DEF BodiesFollowNotes
      <4>4. \A a \in 1..Len(bodies) + 1 : bodies'[a] <= k + 1
        BY <2>0, <4>2, <4>3
      <4>5. \A a, b \in 1..Len(bodies) + 1 : a < b => bodies'[a] < bodies'[b]
        <5> SUFFICES ASSUME NEW a \in 1..Len(bodies) + 1, NEW b \in 1..Len(bodies) + 1,
                            a < b
                     PROVE  bodies'[a] < bodies'[b]
          OBVIOUS
        <5>1. a \in 1..Len(bodies)
          BY <4>2
        <5>2. CASE b = Len(bodies) + 1
          BY <2>0, <4>2, <4>3, <5>1, <5>2
        <5>3. CASE b \in 1..Len(bodies)
          BY <2>0, <4>2, <5>1, <5>3 DEF BodiesFollowNotes
        <5>4. QED
          BY <4>2, <5>2, <5>3
      <4>6. \A j \in 1..k + 1 :
              docs[notes[j]].text => \E a \in 1..Len(bodies) + 1 : bodies'[a] = j
        <5> SUFFICES ASSUME NEW j \in 1..k + 1, docs[notes[j]].text
                     PROVE  \E a \in 1..Len(bodies) + 1 : bodies'[a] = j
          OBVIOUS
        <5>1. CASE j = k + 1
          BY <4>2, <5>1
        <5>2. CASE j \in 1..k
          <6>1. PICK a \in 1..Len(bodies) : bodies[a] = j
            BY <2>0, <3>1, <4>2, <5>2 DEF BodiesFollowNotes
          <6>2. QED
            BY <4>2, <6>1
        <5>3. QED
          BY <2>0, <5>1, <5>2
      <4>7. QED
        BY <1>1, <3>1, <4>2, <4>4, <4>5, <4>6 DEF BodiesFollowNotes
    <3>4. QED
      BY <3>2, <3>3
  <2>2. CASE StartLines
    <3>1. Collected = Len(notes) /\ Collected' = Len(notes) /\ bodies' = bodies
      BY <1>1, <2>2 DEF StartLines, Collected
    <3>2. QED
      BY <1>1, <2>0, <3>1 DEF BodiesFollowNotes
  <2>3. QED
    BY <2>1, <2>2
<1>7. QED
  BY <1>3, <1>4, <1>5, <1>6 DEF IInv

(* AddLine: the room that is measured includes the joiner and the prefix,   *)
(* so the new length is at most MaxLength, and a cut fills it exactly.      *)
LEMMA AddLineStep == IInv /\ AddLine => IInv'
<1> SUFFICES ASSUME IInv, AddLine PROVE IInv'
  OBVIOUS
<1> DEFINE b == bodies[k + 1]
<1>0. TypeOK /\ Progress /\ Measured /\ BodiesFollowNotes /\ FitsSchema /\ LinesFollowBodies
  BY DEF IInv
<1>1. /\ b \in 1..Len(notes)
      /\ lines' \in Seq(Line) /\ Len(lines') = Len(lines) + 1 /\ lines' # <<>>
      /\ \A i \in 1..Len(lines) : lines'[i] = lines[i]
      /\ lines'[Len(lines) + 1] = [note |-> b, length |-> Shown(b)]
  BY <1>0, LineAppended
<1>2. /\ Joined(lines) \in Nat /\ Measured'
      /\ Joined(lines') = Joined(lines) + Joiner + PrefixLength + Shown(b)
      /\ Available > 0 /\ Shown(b) > 0
      /\ k < Len(bodies) /\ pc = "lines" /\ k = Len(lines)
      /\ UNCHANGED <<docs, user, notes, pc, bodies>> /\ k' = k + 1
  BY <1>0, AddLineMeasures, JoinedIsNat DEF AddLine, TypeOK, Progress
<1>3. /\ Available \in Int /\ Joiner \in 0..1 /\ Shown(b) \in Int
      /\ Shown(b) <= Available
      /\ Shown(b) # BodyLength(b) => Shown(b) = Available
  BY <1>0, <1>1, ShownBounds
<1>4. Len(lines) \in Nat /\ DOMAIN lines = 1..Len(lines) /\ DOMAIN lines' = 1..Len(lines')
  BY <1>0, <1>1, LenProperties DEF TypeOK
<1> HIDE DEF b
<1>5. HeaderLength + Joined(lines') <= MaxLength
  BY <1>2, <1>3 DEF Available
<1>6. TypeOK'
  BY <1>0, <1>1, <1>2, LenProperties DEF TypeOK, Line
<1>7. Progress'
  BY <1>0, <1>1, <1>2 DEF Progress, IsAnswer, IsNewestFirst, Mine
<1>8. FitsSchema'
  BY <1>1, <1>5 DEF FitsSchema, DescriptionLength
<1>9. LinesFollowBodies'
  <2> SUFFICES ASSUME NEW i \in 1..Len(lines) + 1
               PROVE  /\ i <= Len(bodies) /\ lines'[i].note = bodies[i]
                      /\ lines'[i].length # BodyLength(lines'[i].note) =>
                           i = Len(lines) + 1 /\ HeaderLength + Joined(lines') = MaxLength
    BY <1>1, <1>2, <1>4 DEF LinesFollowBodies, BodyLength
  <2>1. CASE i = Len(lines) + 1
    <3>1. lines'[i].note = b /\ lines'[i].length = Shown(b) /\ b = bodies[i]
      BY <1>1, <1>2, <2>1 DEF b
    <3>2. Shown(b) = Available => HeaderLength + Joined(lines') = MaxLength
      <4>1. Available = MaxLength - HeaderLength - Joined(lines) - Joiner - PrefixLength
        BY DEF Available
      <4>2. Joined(lines') = Joined(lines) + Joiner + PrefixLength + Shown(b)
        BY <1>2
      <4>3. Joined(lines) \in Int /\ Joiner \in Int /\ Shown(b) \in Int /\ Available \in Int
        BY <1>2, <1>3
      <4>4. MaxLength \in Int /\ HeaderLength \in Int
        OBVIOUS
      <4>5. QED
        BY ONLY <4>1, <4>2, <4>3, <4>4 DEF PrefixLength
    <3>3. i <= Len(bodies)
      <4>1. Len(bodies) \in Nat
        BY <1>0, LenProperties DEF TypeOK
      <4>2. QED
        BY <1>2, <2>1, <4>1
    <3>4. QED
      BY <1>3, <2>1, <3>1, <3>2, <3>3
  <2>2. CASE i \in 1..Len(lines)
    <3>1. HeaderLength + Joined(lines) # MaxLength
      BY <1>2, <1>3 DEF Available
    <3>2. lines'[i] = lines[i] /\ i \in DOMAIN lines
      BY <1>1, <1>4, <2>2
    <3>3. /\ i <= Len(bodies) /\ lines[i].note = bodies[i]
          /\ lines[i].length # BodyLength(lines[i].note) =>
               HeaderLength + Joined(lines) = MaxLength
      BY <1>0, <3>2 DEF LinesFollowBodies
    <3>4. QED
      BY <3>1, <3>2, <3>3
  <2>3. QED
    BY <1>4, <2>1, <2>2
<1>10. BodiesFollowNotes'
  BY <1>0, <1>2 DEF BodiesFollowNotes, Collected
<1>11. QED
  BY <1>2, <1>6, <1>7, <1>8, <1>9, <1>10 DEF IInv

(* Every step preserves the invariant. *)
LEMMA StepIInv == IInv /\ [Next]_vars => IInv'
<1> SUFFICES ASSUME IInv, [Next]_vars PROVE IInv'
  OBVIOUS
<1>1. CASE Finish \/ Done \/ UNCHANGED vars
  <2>1. /\ UNCHANGED <<docs, user, notes, k, bodies, lines>>
        /\ pc' = pc \/ (pc = "lines" /\ pc' = "done")
    BY <1>1 DEF Finish, Done, vars
  <2>2. TypeOK' /\ Progress'
    <3>1. Line' = Line /\ (pc' \in {"fetch", "collect"} <=> pc \in {"fetch", "collect"})
      BY <2>1 DEF Line
    <3>2. TypeOK'
      BY <2>1, <3>1 DEF IInv, TypeOK
    <3>3. QED
      BY <2>1, <3>2 DEF IInv, Progress, IsAnswer, IsNewestFirst, Mine
  <2>3. BodiesFollowNotes'
    <3>1. Collected' = Collected
      BY <2>1 DEF Collected
    <3>2. QED
      BY <2>1, <3>1 DEF IInv, BodiesFollowNotes
  <2>4. Measured' /\ FitsSchema' /\ LinesFollowBodies'
    BY <2>1 DEF IInv, Measured, FitsSchema, DescriptionLength, LinesFollowBodies, BodyLength
  <2>5. QED
    BY <2>2, <2>3, <2>4 DEF IInv
<1>2. QED
  BY <1>1, FetchStep, CollectStep, AddLineStep DEF Next

(* The inductive invariant holds in every behaviour of MenteeNotes. *)
THEOREM Invariance == Spec => []IInv
BY InitIInv, StepIInv, PTL DEF Spec

(* FitsSchema: a Mentee description never exceeds the maxLength of the Card *)
(* schema, for any notes, any limit and any heading that leave room for the *)
(* empty-notes line (_mentee_description).                                  *)
THEOREM DescriptionFits == Spec => []FitsSchema
<1>1. IInv => FitsSchema
  BY DEF IInv
<1>2. QED
  BY Invariance, <1>1, PTL

(* TypeOK: the index of each loop of _mentee_description, the positions it  *)
(* collects and those its lines refer to stay inside the lists it reads.    *)
THEOREM NotesTypes == Spec => []TypeOK
<1>1. IInv => TypeOK
  BY DEF IInv
<1>2. QED
  BY Invariance, <1>1, PTL

(* NewestNotesShown: of all the caller's notes with a text, a card shows    *)
(* the newest, in their order and, except for the last one, whole.  A note  *)
(* is only ever cut because the description is full, so nothing can follow  *)
(* it (LinesFollowBodies).                                                  *)
THEOREM NewestFirst == Spec => []NewestNotesShown
<1>1. IInv => NewestNotesShown
  <2> SUFFICES ASSUME IInv, NEW i \in DOMAIN lines
               PROVE  /\ Mine(ShownNote(i))
                      /\ i < Len(lines) => lines[i].length = BodyLength(lines[i].note)
                      /\ \A n \in Note :
                           Mine(n) /\ docs[n].text /\ docs[n].at > docs[ShownNote(i)].at =>
                             \E m \in 1..i - 1 : ShownNote(m) = n
    BY DEF NewestNotesShown
  <2>1. /\ i \in 1..Len(lines) /\ Len(lines) \in Nat /\ DOMAIN lines = 1..Len(lines)
        /\ \A m \in 1..Len(lines) : m <= Len(bodies) /\ lines[m].note = bodies[m]
        /\ bodies \in Seq(1..Len(notes)) /\ notes \in Seq(Note)
    BY LenProperties DEF IInv, LinesFollowBodies, TypeOK
  <2>2. i < Len(lines) => lines[i].length = BodyLength(lines[i].note)
    BY <2>1 DEF IInv, LinesFollowBodies
  <2>3. /\ Len(bodies) \in Nat /\ DOMAIN bodies = 1..Len(bodies)
        /\ Len(notes) \in Nat /\ DOMAIN notes = 1..Len(notes)
        /\ \A a \in 1..Len(bodies) : bodies[a] \in 1..Len(notes)
    BY <2>1, ElementOfSeq, LenProperties
  <2>4. pc \in {"lines", "done"} /\ IsAnswer(notes) /\ Collected = Len(notes)
    <3>1. lines # <<>>
      BY <2>1, EmptySeq
    <3>2. pc \in {"lines", "done"}
      BY <3>1 DEF IInv, TypeOK, Progress
    <3>3. QED
      BY <3>2 DEF IInv, Progress, Collected
  <2>5. ShownNote(i) = notes[bodies[i]] /\ bodies[i] \in 1..Len(notes)
    BY <2>1, <2>3 DEF ShownNote
  <2>6. Mine(ShownNote(i))
    BY <2>3, <2>4, <2>5 DEF IsAnswer
  <2>7. ASSUME NEW n \in Note, Mine(n), docs[n].text, docs[n].at > docs[ShownNote(i)].at
        PROVE  \E m \in 1..i - 1 : ShownNote(m) = n
    <3>0. /\ \A q \in Note : docs[q].at \in Nat
          /\ \A q \in 1..Len(notes) : notes[q] \in Note
      BY <2>1, ElementOfSeq DEF IInv, TypeOK, NoteDoc
    <3>1. PICK j \in 1..Len(notes) : notes[j] = n
      <4>1. docs[notes[bodies[i]]].at \in Nat /\ docs[n].at \in Nat
        BY <2>5, <3>0
      <4>2. ~(docs[notes[bodies[i]]].at >= docs[n].at)
        BY <2>5, <2>7, <4>1
      <4>3. QED
        BY <2>3, <2>4, <2>5, <2>7, <4>2 DEF IsAnswer
    <3>2. j < bodies[i]
      <4>1. CASE bodies[i] < j
        <5>1. docs[notes[bodies[i]]].at >= docs[notes[j]].at
          BY <2>3, <2>4, <2>5, <4>1 DEF IsAnswer, IsNewestFirst
        <5>2. QED
          BY <2>5, <2>7, <3>0, <3>1, <5>1
      <4>2. CASE bodies[i] = j
        BY <2>5, <2>7, <3>0, <3>1, <4>2
      <4>3. QED
        BY <2>5, <4>1, <4>2
    <3>3. PICK a \in 1..Len(bodies) : bodies[a] = j
      BY <2>3, <2>4, <2>7, <3>1 DEF IInv, BodiesFollowNotes
    <3>4. a < i
      <4>0. i \in 1..Len(bodies)
        BY <2>1, <2>3
      <4>1. i < a => bodies[i] < bodies[a]
        BY <2>3, <4>0 DEF IInv, BodiesFollowNotes
      <4>2. bodies[i] \in Nat /\ j \in Nat
        BY <2>5
      <4>3. QED
        BY <3>2, <3>3, <4>0, <4>1, <4>2
    <3>5. a \in 1..i - 1 /\ ShownNote(a) = n
      BY <2>1, <3>1, <3>3, <3>4 DEF ShownNote
    <3>6. QED
      BY <3>5
  <2>8. QED
    BY <2>2, <2>6, <2>7
<1>2. QED
  BY Invariance, <1>1, PTL

(* OnlyNewestFew: whatever a card shows is among the newest CardLimit of    *)
(* the caller's notes on the mentee, with or without a text: every newer    *)
(* one stands before it in the fetched notes.                               *)
THEOREM NewestFew == Spec => []OnlyNewestFew
<1>1. IInv => OnlyNewestFew
  <2> SUFFICES ASSUME IInv, NEW i \in DOMAIN lines
               PROVE  Cardinality({n \in Note : Mine(n) /\ docs[n].at > docs[ShownNote(i)].at})
                        < CardLimit
    BY DEF OnlyNewestFew
  <2> DEFINE p     == lines[i].note
             Newer == {n \in Note : Mine(n) /\ docs[n].at > docs[ShownNote(i)].at}
             J     == {j \in 1..p - 1 : notes[j] \in Newer}
             f     == [j \in J |-> notes[j]]
  <2>1. /\ p \in 1..Len(notes) /\ Len(notes) \in Nat /\ DOMAIN notes = 1..Len(notes)
        /\ Len(notes) <= CardLimit /\ IsAnswer(notes)
        /\ \A q \in 1..Len(notes) : notes[q] \in Note /\ docs[notes[q]].at \in Nat
        /\ \A q \in Note : docs[q].at \in Nat
    <3>1. lines # <<>> /\ lines[i] \in Line
      BY EmptySeq, LenProperties, ElementOfSeq DEF IInv, TypeOK
    <3>2. IsAnswer(notes) /\ Len(notes) <= CardLimit
      BY <3>1 DEF IInv, Progress
    <3>3. \A q \in Note : docs[q].at \in Nat
      BY DEF IInv, TypeOK, NoteDoc
    <3>4. /\ Len(notes) \in Nat /\ DOMAIN notes = 1..Len(notes)
          /\ \A q \in 1..Len(notes) : notes[q] \in Note
      BY LenProperties, ElementOfSeq DEF IInv, TypeOK
    <3>5. QED
      BY <3>1, <3>2, <3>3, <3>4 DEF Line
  <2>2. ASSUME NEW n \in Newer
        PROVE  \E j \in J : notes[j] = n
    <3>1. n \in Note /\ Mine(n) /\ docs[n].at > docs[notes[p]].at
      BY DEF ShownNote
    <3> HIDE DEF p
    <3>2. ~(docs[notes[p]].at >= docs[n].at)
      BY <2>1, <3>1
    <3>3. PICK j \in 1..Len(notes) : notes[j] = n
      BY <2>1, <3>1, <3>2 DEF IsAnswer
    <3>4. ~(p < j)
      BY <2>1, <3>2, <3>3 DEF IsAnswer, IsNewestFirst
    <3>5. p # j
      BY <2>1, <3>1, <3>3
    <3>6. j \in 1..p - 1
      BY <2>1, <3>4, <3>5
    <3>7. QED
      BY <3>3, <3>6
  <2>3. f \in Surjection(J, Newer)
    <3>1. \A j \in J : notes[j] \in Newer
      OBVIOUS
    <3> HIDE DEF J, Newer
    <3>2. f \in [J -> Newer] /\ \A j \in J : f[j] = notes[j]
      BY <3>1
    <3> HIDE DEF f
    <3>3. QED
      BY <2>2, <3>2 DEF Surjection
  <2>4. IsFiniteSet(J) /\ Cardinality(J) <= p - 1
    <3>1. IsFiniteSet(1..p - 1) /\ Cardinality(1..p - 1) = p - 1
      <4>1. p \in Nat /\ p >= 1 /\ 1 \in Int /\ p - 1 \in Int
        BY <2>1
      <4> HIDE DEF p
      <4>2. /\ IsFiniteSet(1..p - 1)
            /\ Cardinality(1..p - 1) = IF 1 > p - 1 THEN 0 ELSE p - 1 - 1 + 1
        BY <4>1, FS_Interval
      <4>3. QED
        BY <4>1, <4>2
    <3>2. J \in SUBSET (1..p - 1)
      OBVIOUS
    <3> HIDE DEF J
    <3>3. QED
      BY <3>1, <3>2, FS_Subset
  <2>5. IsFiniteSet(Newer) /\ Cardinality(Newer) <= Cardinality(J)
    BY <2>3, <2>4, FS_Surjection
  <2>6. Cardinality(Newer) \in Nat /\ Cardinality(J) \in Nat
    BY <2>4, <2>5, FS_CardinalityType
  <2>7. p \in Nat /\ p <= CardLimit /\ CardLimit \in Nat
    BY <2>1
  <2> HIDE DEF p, Newer, J
  <2>8. Cardinality(Newer) < CardLimit
    BY <2>4, <2>5, <2>6, <2>7
  <2>9. QED
    BY <2>8 DEF Newer
<1>2. QED
  BY Invariance, <1>1, PTL
=============================================================================
