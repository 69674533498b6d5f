------------------------------ MODULE HomePage ------------------------------
(***************************************************************************)
(* How GET /api/cards composes one page out of its sections, as a function *)
(* of the sections' contents.  Home has no cursor: every page request asks *)
(* each source for its first documents, concatenates what comes back, and  *)
(* slices the combined list.  What the caller's roles and claims open is   *)
(* decided here; which documents a source holds is not.                    *)
(***************************************************************************)
EXTENDS Integers, Sequences, ObjectIds

CONSTANT MaxSize     \* list_query.MAX_SIZE, 100 in the code

ASSUME MaxSizeAssumption == MaxSize \in Nat \ {0}

Role == {"admin", "customer", "coordinator", "mentor", "mentee"}

ClaimField == {"profile_id", "customer_id", "mentor_id"}

CallerSpace == [roles : SUBSET Role, claim : [ClaimField -> Claim]]

Holds(caller, field) == caller.claim[field] # Absent

(* The documented sections; `admin` stands for the three admin synthetics. *)
Section == {"notifications", "admin", "customer", "members", "mentees", "journey"}

(* The sections whose query takes a size. *)
PagedSection == {"notifications", "members", "mentees"}

(* Mentees are scoped by the caller's profile_id, not by the mentor_id claim. *)
MentorScope(caller) == caller.claim["profile_id"]

(* The role and claim gates of get_home_cards. *)
Opens(caller, section) ==
  CASE section = "notifications" -> Holds(caller, "profile_id")
    [] section = "admin"         -> "admin" \in caller.roles
    [] section = "customer"      -> "customer" \in caller.roles /\ Holds(caller, "customer_id")
    [] section = "members"       -> /\ Holds(caller, "customer_id")
                                    /\ caller.roles \cap {"customer", "coordinator"} # {}
    [] section = "mentees"       -> "mentor" \in caller.roles /\ MentorScope(caller) # Absent
    [] section = "journey"       -> "mentee" \in caller.roles

(* The first n of a list: a query with that size. *)
FirstOf(list, n) == SubSeq(list, 1, IF n < Len(list) THEN n ELSE Len(list))

(* Mutant of PageOf: the slice ends one card early. *)
PageOfShort(list, offset, size) ==
  SubSeq(list, offset + 1,
         IF offset + size < Len(list) THEN offset + size ELSE Len(list) - 1)

(* list[offset : offset + size] *)
PageOf(list, offset, size) ==
  SubSeq(list, offset + 1, IF offset + size < Len(list) THEN offset + size ELSE Len(list))

(* Mutant of SectionSize: the size alone, as for a list that is not combined. *)
SizeOnly(offset, size) == IF size < MaxSize THEN size ELSE MaxSize

(* Every source is asked for min(offset + size, MAX_SIZE) documents. *)
SectionSize(offset, size) ==
  IF offset + size < MaxSize THEN offset + size ELSE MaxSize

(* What one section adds to the combined list when `limit` bounds its query. *)
Contribution(caller, lists, section, limit) ==
  IF ~Opens(caller, section) THEN <<>>
  ELSE IF section \in PagedSection THEN FirstOf(lists[section], limit)
  ELSE lists[section]

(* Contribution of a section that is not limited. *)
Contents(caller, lists, section) ==
  IF Opens(caller, section) THEN lists[section] ELSE <<>>

Assembled(caller, lists, limit) ==
  Contribution(caller, lists, "notifications", limit)
    \o (Contribution(caller, lists, "admin", limit)
    \o (Contribution(caller, lists, "customer", limit)
    \o (Contribution(caller, lists, "members", limit)
    \o (Contribution(caller, lists, "mentees", limit)
    \o  Contribution(caller, lists, "journey", limit)))))

(* get_home_cards, when no source changes while it runs. *)
HomeCards(caller, lists, offset, size) ==
  PageOf(Assembled(caller, lists, SectionSize(offset, size)), offset, size)

(* The combined composite list of the API contract: every section in full. *)
CombinedList(caller, lists) ==
  Contents(caller, lists, "notifications")
    \o (Contents(caller, lists, "admin")
    \o (Contents(caller, lists, "customer")
    \o (Contents(caller, lists, "members")
    \o (Contents(caller, lists, "mentees")
    \o  Contents(caller, lists, "journey")))))
=============================================================================
