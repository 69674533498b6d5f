--------------------------- MODULE MCHomeAssembly ---------------------------
(***************************************************************************)
(* Small instances of HomeAssembly for TLC: up to three profiles, two      *)
(* customers, two notices.  p1 is of customer c1 and is p2's mentor, so    *)
(* that the same profile can be a Member and a Mentee of one caller;       *)
(* claims are spelled in upper case, as the login personas spell them.     *)
(***************************************************************************)
EXTENDS HomeAssembly, TLC

CONSTANTS p1, p2, p3, c1, c2, n1, n2

Text(id) == [id |-> id, spelling |-> "upper"]
Nobody   == [f \in ClaimField |-> Absent]

Claims(p, c) == [Nobody EXCEPT !["profile_id"] = Text(p), !["customer_id"] = Text(c)]

(* Everything but admin. *)
Head1   == [roles |-> {"customer", "mentor"}, claim |-> Claims(p1, c1)]
Coord   == [roles |-> {"coordinator"}, claim |-> Claims(p1, c1)]
Mentor  == [roles |-> {"mentor"}, claim |-> [Nobody EXCEPT !["profile_id"] = Text(p1)]]
Mentee  == [roles |-> {"mentee"},
            claim |-> [Claims(p2, c1) EXCEPT !["mentor_id"] = Text(p1)]]
Owner   == [roles |-> {"admin", "customer", "mentor", "mentee"}, claim |-> Claims(p1, c2)]
Admin   == [roles |-> {"admin"}, claim |-> Nobody]

NoticeTo(p, t)  == [profile |-> p, status |-> "active", live |-> TRUE, at |-> t]
Member(c, m, t) == [customer |-> c, mentor |-> m, status |-> "active", at |-> t]

NoticesSeed   == n1 :> NoticeTo(p1, 1) @@ n2 :> Absent
ProfilesSeed  == p1 :> Member(c1, Absent, 1) @@ p2 :> Member(c1, p1, 2)
CustomersSeed == c1 :> [status |-> "active", name |-> 1]
                   @@ c2 :> [status |-> "active", name |-> 2]

(* Both saved at the same moment. *)
ProfilesTied == [ProfilesSeed EXCEPT ![p2].at = 1]

(* More Members than a page holds. *)
ManyProfiles == ProfilesSeed @@ p3 :> Member(c1, p1, 3)

Everyone == {Head1, Coord, Mentor, Mentee, Admin}
Walkers  == Everyone \cup {Owner}
Owners   == {Owner}
=============================================================================
