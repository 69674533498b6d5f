---------------------------- MODULE MCTypedCards ----------------------------
(***************************************************************************)
(* Small instances of TypedCards: nine documents of all five lists, two    *)
(* profiles.  Event e1 is about p1; the others are of old: e2 names p1 in  *)
(* text and p2 in the legacy field, e3 has only that field, and e4 has no  *)
(* ObjectId for a context and the id of a profile that is gone, p3.        *)
(***************************************************************************)
EXTENDS TypedCards, FiniteSets, TLC

CONSTANTS p1, p2, p3, e1, e2, e3, e4, n1, n2, r1, q1, h1, t1, t2

Lower(id) == [id |-> id, spelling |-> "lower"]
Upper(id) == [id |-> id, spelling |-> "upper"]

Blank == [f \in SourceField |-> Absent]

Named == [Blank EXCEPT !["name"] = t1, !["message"] = t2, !["description"] = t1]

Event(context, top, type, at) ==
  [list |-> "events", field |-> [Blank EXCEPT !["type"] = type], status |-> "active",
   global |-> FALSE, at |-> at, context |-> context, top |-> top]

Item(list, global, top) ==
  [list |-> list, field |-> Named, status |-> "active", global |-> global,
   at |-> Absent, context |-> Absent, top |-> top]

(* How the text of e2 is spelled is left open. *)
DocumentsNaming(text) ==
  e1 :> Event(p1, p2, Absent, Absent)
    @@ e2 :> Event(text, p2, t1, t2)
    @@ e4 :> Event(Malformed, p3, t1, Absent)
    @@ e3 :> Event(Absent, p2, t2, Absent)
    @@ n1 :> Item("notifications", FALSE, p1)
    @@ n2 :> [Item("notifications", TRUE, Absent) EXCEPT !.status = "archived"]
    @@ r1 :> Item("resources", TRUE, Absent)
    @@ q1 :> Item("plans", TRUE, Absent)
    @@ h1 :> Item("paths", TRUE, Absent)

Documents      == DocumentsNaming(Lower(p1))
DocumentsOfOld == DocumentsNaming(Upper(p1))

Stored == {e1, e2, e3, e4, n1, n2, r1, h1}

DisplayNamesSeed == p1 :> t1 @@ p2 :> t2

Callers == {[roles |-> {"admin"}, profile |-> Absent],
            [roles |-> {"mentee"}, profile |-> Upper(p1)],
            [roles |-> {"mentor", "mentee"}, profile |-> Lower(p2)]}
=============================================================================
