--------------------------- MODULE CardProjection ---------------------------
(***************************************************************************)
(* How a source document becomes a Card: which of its fields the card      *)
(* shows, its type, and the page of the single-page application it links   *)
(* to.  A property whose source is missing is left out (Absent here).      *)
(* Texts are opaque; only "is it set" and "is it the same" matter.         *)
(***************************************************************************)
EXTENDS Sequences, ObjectIds

CONSTANT Text    \* names, descriptions, messages, times

SourceField == {"name", "display_name", "type", "description", "message"}

List == {"events", "notifications", "paths", "plans", "resources",
         "customer", "members", "mentees"}

CardType ==
  [events |-> "Event", notifications |-> "Notification", paths |-> "Path",
   plans |-> "Plan", resources |-> "Resource", customer |-> "Customer",
   members |-> "Member", mentees |-> "Mentee"]

NameField(list) ==
  CASE list \in {"members", "mentees"} -> "display_name"
    [] list = "events"                 -> "type"
    [] OTHER                           -> "name"

DescriptionField(list) == IF list = "notifications" THEN "message" ELSE "description"

(* Mutant of Place: the mentee's pages for whoever has the mentee role. *)
PlaceMenteeFirst(list, roles) ==
  CASE list \in {"resources", "paths"} ->
         <<IF "mentee" \in roles THEN "mentee" ELSE "mentor",
           IF list = "paths" THEN "path" ELSE "resource">>
    [] list = "plans"         -> <<"mentor", "plan">>
    [] list = "notifications" -> <<"discovery", "notification">>
    [] list = "members"       -> <<"customer", "profile">>
    [] list = "mentees"       -> <<"mentor", "mentee">>
    [] list = "customer"      -> <<"customer", "customer">>

(* The application and page a card links to. *)
Place(list, roles) ==
  CASE list \in {"resources", "paths"} ->
         <<IF "mentor" \in roles THEN "mentor" ELSE "mentee",
           IF list = "paths" THEN "path" ELSE "resource">>
    [] list = "plans"         -> <<"mentor", "plan">>
    [] list = "notifications" -> <<"discovery", "notification">>
    [] list = "members"       -> <<"customer", "profile">>
    [] list = "mentees"       -> <<"mentor", "mentee">>
    [] list = "customer"      -> <<"customer", "customer">>

(* Events have no page of their own. *)
Link(list, id, roles) ==
  IF list = "events" THEN Absent ELSE [place |-> Place(list, roles), id |-> Str(id)]

(* project *)
Project(list, id, field, roles) ==
  [id          |-> id,
   name        |-> field[NameField(list)],
   description |-> field[DescriptionField(list)],
   type        |-> CardType[list],
   link        |-> Link(list, id, roles)]

(* A line of text, if there is one. *)
Given(text) == IF text = Absent THEN <<>> ELSE <<text>>

(* Mutant of EventDescription: a body is written even if nothing is known. *)
EventDescriptionAlways(type, display, at) == Given(type) \o Given(display) \o Given(at)

(* _event_description: the parts that are known, in this order, or none. *)
EventDescription(type, display, at) ==
  LET lines == Given(type) \o Given(display) \o Given(at)
  IN IF lines = <<>> THEN Absent ELSE lines
=============================================================================
