----------------------------- MODULE MenteeNotes -----------------------------
(***************************************************************************)
(* The description of one Mentee card: the caller's newest notes on the    *)
(* mentee are fetched, brought into one line each, and added until the     *)
(* description has reached its maximal length.                             *)
(*                                                                         *)
(* A text is represented by its length.                                    *)
(***************************************************************************)
EXTENDS Integers, Sequences, FiniteSets

CONSTANTS
  Note,           \* ids of Note documents
  User,           \* authors
  NoUser,         \* the user_id of a token that carries none
  NoteDocs,       \* the collections to start from
  MaxLength,      \* CARD_DESCRIPTION_MAX_LENGTH, 4096 in the code
  HeaderLength,   \* length of the Activity block and the Notes heading
  CardLimit       \* NOTE_CARD_LIMIT, 3 in the code

PrefixLength == 2     \* "- "
EmptyLength  == 10    \* CARD_NOTES_EMPTY

(* `text` is Python's truth of the note field; `length` is what is left of  *)
(* it when runs of white space are folded, so it may be 0 for a true text.  *)
NoteDoc ==
  [author : User, aboutMentee : BOOLEAN, archived : BOOLEAN, at : Nat,
   text : BOOLEAN, length : Nat]

ASSUME NoUserAssumption == NoUser \notin User
ASSUME NoteAssumption   == NoteDocs \subseteq [Note -> NoteDoc]
ASSUME LengthAssumption ==
  /\ MaxLength \in Nat /\ HeaderLength \in Nat /\ CardLimit \in Nat
  /\ HeaderLength + PrefixLength + EmptyLength <= MaxLength

VARIABLES
  docs,      \* the Note collection
  user,      \* the caller's user_id
  notes,     \* fetched notes, newest first
  pc,
  k,         \* notes consumed by the loop that is running
  bodies,    \* notes with a body, by position in `notes`
  lines      \* the lines: which note, how much of its body

vars == <<docs, user, notes, pc, k, bodies, lines>>

-----------------------------------------------------------------------------
(* The query *)

(* notes_for_profile: about the mentee, not archived, by the caller when    *)
(* the token says who that is.                                              *)
Mine(n) ==
  /\ docs[n].aboutMentee /\ ~docs[n].archived
  /\ user = NoUser \/ docs[n].author = user

(* A list of some notes, newest first, those of one age in any order. *)
IsNewestFirst(list) ==
  \A i, j \in DOMAIN list :
    i < j => list[i] # list[j] /\ docs[list[i]].at >= docs[list[j]].at

(* Mutant of IsAnswer: notes without a text are left out of the query.     *)
IsAnswerWithText(list) ==
  /\ \A i \in DOMAIN list : Mine(list[i]) /\ docs[list[i]].text
  /\ IsNewestFirst(list)
  /\ \A n \in Note :
       Mine(n) /\ docs[n].text =>
         \/ \E i \in DOMAIN list : list[i] = n
         \/ Len(list) = CardLimit /\ \A i \in DOMAIN list : docs[list[i]].at >= docs[n].at

(* The first CardLimit of the matching notes. *)
IsAnswer(list) ==
  /\ \A i \in DOMAIN list : Mine(list[i])
  /\ IsNewestFirst(list)
  /\ \A n \in Note :
       Mine(n) => \/ \E i \in DOMAIN list : list[i] = n
                  \/ /\ Len(list) = CardLimit
                     /\ \A i \in DOMAIN list : docs[list[i]].at >= docs[n].at

Fetch ==
  /\ pc = "fetch" /\ pc' = "collect"
  /\ notes' \in UNION {[1..m -> Note] : m \in 0..CardLimit}
  /\ IsAnswer(notes')
  /\ UNCHANGED <<docs, user, k, bodies, lines>>

-----------------------------------------------------------------------------
(* _mentee_description *)

(* for note in notes: skip a note without text, else append its body. *)
Collect ==
  /\ pc = "collect" /\ k < Len(notes)
  /\ k' = k + 1
  /\ bodies' = IF docs[notes[k + 1]].text THEN Append(bodies, k + 1) ELSE bodies
  /\ UNCHANGED <<docs, user, notes, pc, lines>>

StartLines ==
  /\ pc = "collect" /\ k = Len(notes)
  /\ pc' = "lines" /\ k' = 0
  /\ UNCHANGED <<docs, user, notes, bodies, lines>>

(* len("\n".join(list)) *)
Joined(list) ==
  LET total[i \in 0..Len(list)] ==
        IF i = 0 THEN 0 ELSE total[i - 1] + PrefixLength + list[i].length
  IN total[Len(list)] + (IF list = <<>> THEN 0 ELSE Len(list) - 1)

Joiner == IF lines = <<>> THEN 0 ELSE 1

(* Mutant of Available: the joiner is not counted. *)
AvailableNoJoiner == MaxLength - HeaderLength - Joined(lines) - PrefixLength

Available == MaxLength - HeaderLength - Joined(lines) - Joiner - PrefixLength

BodyLength(i) == docs[notes[i]].length

Shown(i) == IF BodyLength(i) > Available THEN Available ELSE BodyLength(i)

(* Mutant of AddLine: a body that does not fit is left out, the next tried. *)
AddFittingLine ==
  /\ pc = "lines" /\ k < Len(bodies)
  /\ Available > 0 /\ BodyLength(bodies[k + 1]) > 0
  /\ lines' = IF BodyLength(bodies[k + 1]) > Available
              THEN lines
              ELSE Append(lines, [note |-> bodies[k + 1], length |-> BodyLength(bodies[k + 1])])
  /\ k' = k + 1
  /\ UNCHANGED <<docs, user, notes, pc, bodies>>

(* Mutant of AddLine: an empty body becomes a line of its own. *)
AddAnyLine ==
  /\ pc = "lines" /\ k < Len(bodies) /\ Available > 0
  /\ k' = k + 1
  /\ lines' = Append(lines, [note |-> bodies[k + 1], length |-> Shown(bodies[k + 1])])
  /\ UNCHANGED <<docs, user, notes, pc, bodies>>

(* One iteration that appends: the body is cut to the room that is left. *)
AddLine ==
  /\ pc = "lines" /\ k < Len(bodies)
  /\ Available > 0 /\ Shown(bodies[k + 1]) > 0
  /\ k' = k + 1
  /\ lines' = Append(lines, [note |-> bodies[k + 1], length |-> Shown(bodies[k + 1])])
  /\ UNCHANGED <<docs, user, notes, pc, bodies>>

(* Either `break`, or the end of the loop. *)
Finish ==
  /\ pc = "lines"
  /\ \/ k = Len(bodies)
     \/ k < Len(bodies) /\ (Available <= 0 \/ Shown(bodies[k + 1]) = 0)
  /\ pc' = "done"
  /\ UNCHANGED <<docs, user, notes, k, bodies, lines>>

Done == pc = "done" /\ UNCHANGED vars

(* The length of the description that is returned. *)
DescriptionLength ==
  HeaderLength + (IF lines = <<>> THEN PrefixLength + EmptyLength ELSE Joined(lines))

Init ==
  /\ docs \in NoteDocs
  /\ user \in User \cup {NoUser}
  /\ notes = <<>> /\ pc = "fetch" /\ k = 0
  /\ bodies = <<>> /\ lines = <<>>

Next == Fetch \/ Collect \/ StartLines \/ AddLine \/ Finish \/ Done

Spec == Init /\ [][Next]_vars

-----------------------------------------------------------------------------
(* Properties *)

Line == [note : 1..Len(notes), length : Nat \ {0}]

(* Shapes.  The index of a loop, and the positions it collects, stay inside *)
(* the list that the loop goes through.                                     *)
TypeOK ==
  /\ docs \in [Note -> NoteDoc]
  /\ user \in User \cup {NoUser}
  /\ notes \in Seq(Note)
  /\ pc \in {"fetch", "collect", "lines", "done"}
  /\ k \in 0..Len(IF pc \in {"fetch", "collect"} THEN notes ELSE bodies)
  /\ bodies \in Seq(1..Len(notes))
  /\ lines \in Seq(Line)

(* Whatever the notes are, the description never exceeds the maxLength of   *)
(* the Card schema, prefixes, joiners and the empty-notes line included.    *)
FitsSchema == DescriptionLength <= MaxLength

ShownNote(i) == notes[lines[i].note]

(* A card shows the mentor's own notes on that mentee, newest first, and    *)
(* cuts none but the last one it shows: of the whole collection, no note    *)
(* that is newer than a shown one and has a text is left out or comes later *)
(* (the query, the collecting loop and the truncating loop together).       *)
NewestNotesShown ==
  \A i \in DOMAIN lines :
    /\ Mine(ShownNote(i))
    /\ i < Len(lines) => lines[i].length = BodyLength(lines[i].note)
    /\ \A n \in Note :
         Mine(n) /\ docs[n].text /\ docs[n].at > docs[ShownNote(i)].at =>
           \E m \in 1..i - 1 : ShownNote(m) = n

(* "Newest, capped at NOTE_CARD_LIMIT" is about the notes, not about those  *)
(* with a text: what a card shows is among the newest CardLimit notes of    *)
(* the mentor on that mentee, so a note without text uses up a place (the   *)
(* cap of the query and the loop that skips such notes, in this order).     *)
OnlyNewestFew ==
  \A i \in DOMAIN lines :
    Cardinality({n \in Note : Mine(n) /\ docs[n].at > docs[ShownNote(i)].at}) < CardLimit

(* "The mentor's notes (or an explicit empty-notes line)": the empty-notes  *)
(* line is shown only when no fetched note has anything to show.            *)
EmptyLineMeansNoNotes ==
  pc = "done" /\ lines = <<>> => \A i \in DOMAIN notes : BodyLength(i) = 0
=============================================================================
