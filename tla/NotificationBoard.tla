-------------------------- MODULE NotificationBoard --------------------------
(***************************************************************************)
(* What Discovery promises about notifications, with no word on how: a     *)
(* board of notices.  Each request takes effect at most once, in one step  *)
(* between its arrival and its answer; whoever is told "done" saw its      *)
(* effect happen; a request whose answer is lost may or may not have had   *)
(* one.  A mark on a notice is never taken off.                            *)
(***************************************************************************)
CONSTANTS Notice, Request, Caller, Mark, None

VARIABLES
  board,   \* what hangs on the board
  phase,   \* where each request is
  wish,    \* what each request wants
  seen     \* what a read was shown

bvars == <<board, phase, wish, seen>>

(* Once posted, a notice keeps its addressees and the callers who may mark  *)
(* it (keepers); viewers can only become fewer.                             *)
Entry == [marks : SUBSET Mark, viewers : SUBSET Caller,
          addressees : SUBSET Caller, keepers : SUBSET Caller]

Wish == [op : {"post"}, by : Caller, notice : Notice]
          \cup [op : {"mark"}, by : Caller, notice : Notice, mark : Mark]
          \cup [op : {"read"}, by : Caller]

Phase == {"idle", "pending", "taken", "done", "refused", "lost"}

Posted(n) == board[n] # None

(* The notices a caller finds on its home list. *)
Shown(c) == {n \in Notice : /\ Posted(n) /\ board[n].marks = {}
                            /\ c \in board[n].viewers \cap board[n].addressees}

Move(r, from, to) == phase[r] = from /\ phase' = [phase EXCEPT ![r] = to]

-----------------------------------------------------------------------------
Ask(r) ==
  /\ Move(r, "idle", "pending")
  /\ \E w \in Wish : wish' = [wish EXCEPT ![r] = w]
  /\ UNCHANGED <<board, seen>>

(* A read that has nothing to show needs no look at the board. *)
AskForNothing(r) ==
  /\ Move(r, "idle", "taken")
  /\ \E w \in Wish : w.op = "read" /\ Shown(w.by) = {} /\ wish' = [wish EXCEPT ![r] = w]
  /\ UNCHANGED <<board, seen>>

(* Nonsense is refused unheard. *)
TurnAway(r) == Move(r, "idle", "refused") /\ UNCHANGED <<board, wish, seen>>

(* A new notice bears no mark, whatever its author writes on it. *)
Post(r) ==
  /\ Move(r, "pending", "taken") /\ wish[r].op = "post"
  /\ LET n == wish[r].notice
     IN /\ ~Posted(n)
        /\ board'[n] \in Entry /\ board'[n].marks = {}
        /\ board' = [board EXCEPT ![n] = board'[n]]
  /\ UNCHANGED <<wish, seen>>

(* Only a keeper leaves a mark, and it leaves the other marks alone. *)
PutMark(r) ==
  /\ Move(r, "pending", "taken") /\ wish[r].op = "mark"
  /\ Posted(wish[r].notice) /\ wish[r].by \in board[wish[r].notice].keepers
  /\ board' = [board EXCEPT ![wish[r].notice].marks = @ \cup {wish[r].mark}]
  /\ UNCHANGED <<wish, seen>>

Read(r) ==
  /\ Move(r, "pending", "taken") /\ wish[r].op = "read"
  /\ seen' = [seen EXCEPT ![r] = Shown(wish[r].by)]
  /\ UNCHANGED <<board, wish>>

(* Only a mark is refused, and never to a keeper who can see the notice. *)
Refuse(r) ==
  /\ Move(r, "pending", "refused") /\ wish[r].op = "mark"
  /\ Posted(wish[r].notice) =>
       wish[r].by \notin board[wish[r].notice].viewers \cap board[wish[r].notice].keepers
  /\ UNCHANGED <<board, wish, seen>>

Answer(r) == Move(r, "taken", "done") /\ UNCHANGED <<board, wish, seen>>

Lose(r) ==
  /\ phase[r] \in {"pending", "taken"}
  /\ phase' = [phase EXCEPT ![r] = "lost"]
  /\ UNCHANGED <<board, wish, seen>>

(* A notice may be hidden from some of its viewers. *)
Hide(n) ==
  /\ Posted(n)
  /\ \E v \in SUBSET board[n].viewers : board' = [board EXCEPT ![n].viewers = v]
  /\ UNCHANGED <<phase, wish, seen>>

-----------------------------------------------------------------------------
Init ==
  /\ board \in [Notice -> Entry \cup {None}]
  /\ phase = [r \in Request |-> "idle"]
  /\ wish = [r \in Request |-> None]
  /\ seen = [r \in Request |-> {}]

Next ==
  \/ \E r \in Request :
       \/ Ask(r) \/ AskForNothing(r) \/ TurnAway(r)
       \/ Post(r) \/ PutMark(r) \/ Read(r)
       \/ Refuse(r) \/ Answer(r) \/ Lose(r)
  \/ \E n \in Notice : Hide(n)

Spec == Init /\ [][Next]_bvars
=============================================================================
