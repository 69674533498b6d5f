---------------------------- MODULE HomeSections ----------------------------
(***************************************************************************)
(* What each home section's query returns from the collections it reads.   *)
(* The collections are arguments: HomeAssembly evaluates a query against   *)
(* the collections as they are at the step that makes the MongoIO call.    *)
(* A query answers with a list, and where the sort leaves two documents    *)
(* equal it may put either first: a query stands for a set of lists.       *)
(***************************************************************************)
EXTENDS HomePage, FiniteSets

CONSTANTS
  Notice,     \* ids of Notification documents
  Profile,    \* ids of Profile documents
  Customer    \* ids of Customer documents

ASSUME ProfilesAreIds == Profile \subseteq Id /\ Customer \subseteq Id
ASSUME FiniteAssumption ==
  IsFiniteSet(Notice) /\ IsFiniteSet(Profile) /\ IsFiniteSet(Customer)

Status == {"active", "archived"}

(* `live` holds while neither control breadcrumb is set. *)
NoticeDoc   == [profile : Reference, status : Status, live : BOOLEAN, at : Nat]
ProfileDoc  == [customer : Reference, mentor : Reference, status : Status, at : Nat]
CustomerDoc == [status : Status, name : Nat]

IsAdmin(caller) == "admin" \in caller.roles

(* A stored reference equals a claim: the claim is encoded before matching. *)
Names(caller, field, ref) == Holds(caller, field) /\ ref = Encode(caller.claim[field])

(* build_outbound_match: {} for an admin, else not archived and in scope. *)
Outbound(caller, status, inScope) ==
  IsAdmin(caller) \/ (status # "archived" /\ inScope)

(* The lists of all ids, each once, by ascending key. *)
Orderings(ids, key) ==
  {list \in [1..Cardinality(ids) -> ids] :
     \A i, j \in 1..Cardinality(ids) :
       i < j => list[i] # list[j] /\ key[list[i]] <= key[list[j]]}

(* Newest first; build_sort_by(field, "desc"). *)
NewestFirst(ids, doc) == Orderings(ids, [d \in ids |-> -doc[d].at])

(* Mutant of NewestFirst: the sort order is lost. *)
OldestFirst(ids, doc) == Orderings(ids, [d \in ids |-> doc[d].at])

(* get_active_notifications with match {profile_id: claim}. *)
ActiveFor(caller, notices) ==
  {n \in Notice :
     /\ notices[n] # Absent
     /\ notices[n].live
     /\ Names(caller, "profile_id", notices[n].profile)
     /\ Outbound(caller, notices[n].status, TRUE)}

(* Mutant of CustomersFor: the identity clause is lost. *)
AllCustomersFor(caller, customers) ==
  {c \in Customer : Outbound(caller, customers[c].status, TRUE)}

(* _customer_match, then the first match by name. *)
CustomersFor(caller, customers) ==
  {c \in Customer :
     Outbound(caller, customers[c].status, Names(caller, "customer_id", c))}

(* The shared Profile scope: the caller's own, its customer's, its mentor's. *)
OutboundProfile(caller, p, doc) ==
  Outbound(caller, doc.status,
           \/ Names(caller, "profile_id", p)
           \/ Names(caller, "customer_id", doc.customer)
           \/ Names(caller, "mentor_id", doc.mentor))

(* _scoped_profiles on customer_id, AND'd outside the outbound match. *)
MembersFor(caller, profiles) ==
  {p \in Profile :
     /\ Names(caller, "customer_id", profiles[p].customer)
     /\ OutboundProfile(caller, p, profiles[p])}

(* get_mentee_profiles: not the shared outbound match, which would use the  *)
(* mentor_id claim.                                                         *)
MenteesFor(caller, profiles) ==
  {p \in Profile :
     /\ profiles[p].status # "archived"
     /\ MentorScope(caller) # Absent
     /\ profiles[p].mentor = Encode(MentorScope(caller))}

CustomerQuery(caller, customers) ==
  LET ids == CustomersFor(caller, customers)
  IN {FirstOf(list, 1) : list \in Orderings(ids, [c \in ids |-> customers[c].name])}
=============================================================================
