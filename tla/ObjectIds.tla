------------------------------ MODULE ObjectIds ------------------------------
(***************************************************************************)
(* Identifiers as the service layer sees them.  A stored reference is a    *)
(* BSON ObjectId; the same identifier reaches the service as text in a     *)
(* token claim or a request body, and hexadecimal text has more than one   *)
(* spelling.  `encode_document` and `ObjectId(text)` fold the spellings,   *)
(* `str(object_id)` always prints the lower-case one.  The two conversions *)
(* are therefore not inverses of each other, and code that compares text   *)
(* behaves differently from code that compares ObjectIds.                  *)
(***************************************************************************)

CONSTANTS
  Id,       \* the ObjectIds in play
  Absent    \* Python's None: a field that is not set, a document not found

ASSUME AbsentIsNoId == Absent \notin Id

Spelling == {"lower", "upper"}

(* Hexadecimal text of an ObjectId. *)
IdText == [id : Id, spelling : Spelling]

ASSUME AbsentIsNoText == Absent \notin IdText

(* A token claim: text, or not carried by the token. *)
Claim == IdText \cup {Absent}

(* A stored reference: an ObjectId, or not set. *)
Reference == Id \cup {Absent}

(* encode_document / ObjectId(text): the spelling is lost. *)
Encode(text) == text.id

(* encode_document on an optional field leaves a missing field missing. *)
EncodeField(claim) == IF claim = Absent THEN Absent ELSE Encode(claim)

(* str(ObjectId): the canonical lower-case spelling. *)
Str(id) == [id |-> id, spelling |-> "lower"]
=============================================================================
