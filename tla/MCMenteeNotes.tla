--------------------------- MODULE MCMenteeNotes ---------------------------
(***************************************************************************)
(* Small instances of MenteeNotes for TLC: three notes, of distinct age or *)
(* with the newer or the older two of one age, on the mentee or not, by    *)
(* the caller or by somebody else, blank, short or too long, with room for *)
(* about two short lines.                                                  *)
(***************************************************************************)
EXTENDS MenteeNotes

CONSTANTS n1, n2, n3, mentor, other

(* The ages of n1, n2 and n3. *)
Ages == {<<1, 2, 3>>, <<1, 1, 2>>, <<1, 2, 2>>}

AgeOf(n, ages) == CASE n = n1 -> ages[1] [] n = n2 -> ages[2] [] n = n3 -> ages[3]

DocsOver(shapes) ==
  {[n \in Note |-> [f[n] EXCEPT !.at = AgeOf(n, ages)]] : f \in [Note -> shapes], ages \in Ages}

(* Length 0 with a true text is a note of white space only. *)
Shape(author, about, archived, text, length) ==
  [author |-> author, aboutMentee |-> about, archived |-> archived, at |-> 0,
   text |-> text, length |-> length]

Shapes ==
  {Shape(mentor, TRUE, FALSE, TRUE, l) : l \in {0, 1, 3, 4, 12}}
    \cup {Shape(mentor, TRUE, FALSE, FALSE, 0), Shape(mentor, TRUE, TRUE, TRUE, 1),
          Shape(other, TRUE, FALSE, TRUE, 3), Shape(other, FALSE, FALSE, TRUE, 3)}

AllDocs == DocsOver(Shapes)
=============================================================================
