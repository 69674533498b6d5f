----------------------- MODULE MCNotificationControl -----------------------
(***************************************************************************)
(* Small instances of NotificationControl for TLC.  Three identities play  *)
(* the three target scopes; the callers are an admin without identity, the *)
(* profile owner, a customer member who also reads a home list, and        *)
(* someone else.  The collection starts with one notification addressed to *)
(* the profile and free ids for creates.                                   *)
(***************************************************************************)
EXTENDS NotificationRefinement, FiniteSets, TLC

CONSTANTS p1, p2, c1, d1, d2, r1, r2, r3

Lower(id) == [id |-> id, spelling |-> "lower"]
Upper(id) == [id |-> id, spelling |-> "upper"]
NoClaim   == [f \in TargetField |-> Absent]

Admin   == [admin |-> TRUE,  claim |-> NoClaim]
Owner   == [admin |-> FALSE, claim |-> [NoClaim EXCEPT !["profile_id"] = Lower(p1)]]
Member  == [admin |-> FALSE, claim |-> [NoClaim EXCEPT !["profile_id"] = Lower(p2),
                                                       !["customer_id"] = Lower(c1)]]
Persona == [admin |-> FALSE, claim |-> [NoClaim EXCEPT !["profile_id"] = Upper(p1)]]

ToOwner == [target |-> [NoClaim EXCEPT !["profile_id"] = Upper(p1)], global |-> FALSE,
            status |-> "active", sent |-> {"dismissed"}]
ToCustomer == [target |-> [NoClaim EXCEPT !["customer_id"] = Lower(c1)], global |-> FALSE,
               status |-> "active", sent |-> {}]
ToAll == [target |-> NoClaim, global |-> TRUE, status |-> "active",
          sent |-> {"created", "cancelled"}]

Stored(field, id, all) ==
  [target  |-> [NoClaim EXCEPT ![field] = id],
   global  |-> all,
   status  |-> "active",
   created |-> Absent,
   control |-> [f \in ControlField |-> Absent]]

Tokens   == {Admin, Owner, Member}
Payloads == {ToOwner, ToCustomer, ToAll}

OneSeeded == d1 :> Stored("profile_id", p1, FALSE) @@ d2 :> Absent

PersonaTokens == {Owner, Persona}

Requests == {r1, r2, r3}
Symmetry == Permutations(Requests)
=============================================================================
