-------------------------- MODULE ServerLifecycle --------------------------
(***************************************************************************)
(* One server process, from the import of server.py to its end: the boot   *)
(* steps in their order, the URL rules they leave behind, the requests it  *)
(* then answers, and handle_exit, which a signal may start between any two *)
(* of their MongoIO calls and which closes the connection they all share.  *)
(*                                                                         *)
(* Two hosts run the module.  A gunicorn worker has one thread: a signal   *)
(* handler suspends the request.  It has handlers of its own, installed    *)
(* before the import, which server.py replaces at its end.  app.run, on    *)
(* the last line of server.py, answers in threads of their own, which go   *)
(* on while the main thread shuts down.                                    *)
(***************************************************************************)
EXTENDS Naturals, Sequences

CONSTANTS
  Request,       \* requests the process may accept
  Calls,         \* MongoIO calls a request makes
  MaxSignals,    \* bound: signals sent to the process
  Absent

Host   == {"gunicorn", "flask"}
Signal == {"TERM", "INT"}

ASSUME ServerAssumption ==
  Calls \in Nat \ {0} /\ MaxSignals \in Nat /\ Absent \notin Nat

VARIABLES
  host,        \* what runs the module
  main,        \* the main thread
  step,        \* the boot step it is at
  adder,       \* which add_url_rule the application has
  rules,       \* the URL map
  handlers,    \* the signals handle_exit is installed for
  mongo,       \* the connection of the process
  request,     \* the requests: where they are and the calls they have made
  signals,     \* signals sent so far
  alive,       \* gunicorn's flag: the worker may go on serving
  handled,     \* history: handle_exit has begun
  closes,      \* history: handle_exit's attempts to disconnect
  code         \* the exit code, 1 for any that reports a failure

boot    == <<step, adder, rules, handlers>>
process == <<main, mongo, handled, closes, code>>
vars    == <<host, boot, process, request, signals, alive>>

-----------------------------------------------------------------------------
(* Boot *)

(* A rule has a place and may take a path argument. *)
Plain(place)  == [place |-> place, argument |-> FALSE]
ById(place)   == [place |-> place, argument |-> TRUE]

(* The rules each blueprint brings along; the GET factories shared between  *)
(* the domain APIs mount a by-id rule beside the list.                      *)
Brings ==
  [docs          |-> {ById("docs")},
   config        |-> {Plain("config")},
   cards         |-> {Plain("cards")},
   resources     |-> {Plain("resources"), ById("resources")},
   paths         |-> {Plain("paths"), ById("paths")},
   plans         |-> {Plain("plans"), ById("plans")},
   notifications |-> {Plain("notifications")},
   events        |-> {Plain("events")},
   notification  |-> {Plain("notification"), ById("dismiss"), ById("cancel")},
   metrics       |-> {Plain("metrics")}]

ListOnly == {"resources", "paths", "plans"}

BootSteps ==
  <<"connect", "enumerators", "versions", "docs", "config", "cards", "resources", "paths",
    "plans", "notifications", "events", "notification", "metrics", "TERM", "INT", "run">>

here == BootSteps[step]

Booting(s) == main = "boot" /\ here = s

NextStep == step' = step + 1

Connect ==
  /\ Booting("connect") /\ mongo' = "open" /\ NextStep
  /\ UNCHANGED <<host, main, adder, rules, handlers, request, signals, alive>>
  /\ UNCHANGED <<handled, closes, code>>

(* set_enumerators, set_versions: a read each *)
ReadCollection ==
  /\ Booting("enumerators") \/ Booting("versions")
  /\ NextStep
  /\ UNCHANGED <<host, adder, rules, handlers, process, request, signals, alive>>

(* What the add_url_rule in place lets through. *)
Added(bp, by) == {r \in Brings[bp] : by = "plain" \/ ~r.argument}

Register(bp) ==
  /\ Booting(bp) /\ bp \notin ListOnly
  /\ rules' = rules \cup Added(bp, adder) /\ NextStep
  /\ UNCHANGED <<host, adder, handlers, process, request, signals, alive>>

(* Mutant of RegisterListOnly: the filter stays in place. *)
RegisterListOnlyForGood(bp) ==
  /\ Booting(bp) /\ bp \in ListOnly
  /\ rules' = rules \cup Added(bp, "argument_free") /\ NextStep
  /\ adder' = "argument_free"
  /\ UNCHANGED <<host, handlers, process, request, signals, alive>>

(* register_list_only_blueprint: the filter is put over app.add_url_rule,   *)
(* the blueprint registers, the filter is deleted from the instance.        *)
RegisterListOnly(bp) ==
  /\ Booting(bp) /\ bp \in ListOnly
  /\ rules' = rules \cup Added(bp, "argument_free") /\ NextStep
  /\ adder' = "plain"
  /\ UNCHANGED <<host, handlers, process, request, signals, alive>>

Install(s) ==
  /\ Booting(s) /\ handlers' = handlers \cup {s} /\ NextStep
  /\ UNCHANGED <<host, adder, rules, process, request, signals, alive>>

(* The import is done and the worker enters its loop, or app.run listens.   *)
Serve ==
  /\ Booting("run") /\ alive /\ main' = "serve"
  /\ UNCHANGED <<host, boot, mongo, handled, closes, code, request, signals, alive>>

(* A worker told to stop while it imported the module finds its loop over.  *)
StopBeforeServing ==
  /\ Booting("run") /\ ~alive
  /\ main' = "exited" /\ code' = 0
  /\ UNCHANGED <<host, boot, mongo, handled, closes, request, signals, alive>>

(* An exception at import time, uncaught.  Last of all, and with both       *)
(* handlers installed, API_PORT may be no number and the port may be taken; *)
(* gunicorn does not come to these lines.                                   *)
BootFails ==
  /\ main = "boot" /\ here \notin Signal /\ (here = "run" => host = "flask")
  /\ main' = "exited" /\ code' = 1
  /\ UNCHANGED <<host, boot, mongo, handled, closes, request, signals, alive>>

-----------------------------------------------------------------------------
(* Requests *)

Running(r) == request[r].pc = "running"

(* The thread of a request gets to run. *)
Runs(r) ==
  /\ Running(r)
  /\ main = "serve" \/ (host = "flask" /\ main \in {"closing", "exiting"})

Settle(r, how) == request' = [request EXCEPT ![r].pc = how]

Accept(r) ==
  /\ main = "serve" /\ request[r].pc = "idle"
  /\ host = "gunicorn" => \A q \in Request : ~Running(q)
  /\ Settle(r, "running")
  /\ UNCHANGED <<host, boot, process, signals, alive>>

Call(r) ==
  /\ Runs(r) /\ request[r].calls < Calls
  /\ IF mongo = "open"
     THEN request' = [request EXCEPT ![r].calls = @ + 1]
     ELSE Settle(r, "closed")
  /\ UNCHANGED <<host, boot, process, signals, alive>>

CallFails(r) ==
  /\ Runs(r) /\ request[r].calls < Calls /\ Settle(r, "failed")
  /\ UNCHANGED <<host, boot, process, signals, alive>>

Answer(r) ==
  /\ Runs(r) /\ request[r].calls = Calls /\ Settle(r, "ok")
  /\ UNCHANGED <<host, boot, process, signals, alive>>

-----------------------------------------------------------------------------
(* Signals *)

Live == {"boot", "serve", "closing", "exiting"}

Send == signals < MaxSignals /\ signals' = signals + 1

(* What is still running is dropped without an answer.  This takes it that  *)
(* the SystemExit of sys.exit passes through the host's worker loop.        *)
Dropped ==
  [r \in Request |-> IF Running(r) THEN [request[r] EXCEPT !.pc = "dropped"] ELSE request[r]]

(* Before handle_exit is installed.  Under app.run a signal ends the        *)
(* process by itself.                                                       *)
Killed(s) ==
  /\ host = "flask" /\ main \in Live /\ s \notin handlers /\ Send
  /\ main' = "killed" /\ request' = Dropped
  /\ UNCHANGED <<host, boot, mongo, handled, closes, code, alive>>

(* gunicorn's handler for TERM only clears the flag: the import goes on.    *)
StopLater ==
  /\ host = "gunicorn" /\ main \in Live /\ "TERM" \notin handlers /\ Send
  /\ alive' = FALSE
  /\ UNCHANGED <<host, boot, process, request>>

(* gunicorn's handler for INT exits, out of an import or of a handle_exit.  *)
StopNow ==
  /\ host = "gunicorn" /\ main \in Live /\ "INT" \notin handlers /\ Send
  /\ main' = "exited" /\ code' = 0 /\ alive' = FALSE /\ request' = Dropped
  /\ UNCHANGED <<host, boot, mongo, handled, closes>>

(* handle_exit begins, on top of whatever the main thread is doing, an      *)
(* earlier handle_exit included.                                            *)
SignalHandled(s) ==
  /\ main \in Live /\ s \in handlers /\ Send
  /\ main' = "closing" /\ handled' = TRUE
  /\ UNCHANGED <<host, boot, mongo, closes, code, request, alive>>

(* mongo.disconnect() *)
Disconnect ==
  /\ main = "closing" /\ main' = "exiting"
  /\ mongo' = "closed" /\ closes' = closes + 1
  /\ UNCHANGED <<host, boot, handled, code, request, signals, alive>>

(* Mutant of DisconnectFails: the exception is not caught. *)
DisconnectRaises ==
  /\ main = "closing" /\ main' = "exited" /\ code' = 1
  /\ mongo' \in {mongo, "closed"} /\ closes' = closes + 1
  /\ UNCHANGED <<host, boot, handled, request, signals, alive>>

(* It raises: the exception is logged and handle_exit goes on. *)
DisconnectFails ==
  /\ main = "closing" /\ main' = "exiting"
  /\ mongo' \in {mongo, "closed"} /\ closes' = closes + 1
  /\ UNCHANGED <<host, boot, handled, code, request, signals, alive>>

(* Mutant of Exit: the exit code is the number of the signal. *)
ExitWithSignal ==
  /\ main = "exiting" /\ main' = "exited" /\ code' = 15 /\ request' = Dropped
  /\ UNCHANGED <<host, boot, mongo, handled, closes, signals, alive>>

(* Mutant of Exit: requests under way are finished first. *)
ExitWhenIdle ==
  /\ main = "exiting"
  /\ IF \E r \in Request : Running(r)
     THEN main' = "serve" /\ UNCHANGED <<code, request>>
     ELSE main' = "exited" /\ code' = 0 /\ request' = Dropped
  /\ UNCHANGED <<host, boot, mongo, handled, closes, signals, alive>>

(* Mutant of Exit: only a successful disconnect is followed by the exit. *)
ExitIfClosed ==
  /\ main = "exiting"
  /\ IF mongo = "closed"
     THEN main' = "exited" /\ code' = 0 /\ request' = Dropped
     ELSE main' = "serve" /\ UNCHANGED <<code, request>>
  /\ UNCHANGED <<host, boot, mongo, handled, closes, signals, alive>>

(* sys.exit(0) *)
Exit ==
  /\ main = "exiting" /\ main' = "exited" /\ code' = 0 /\ request' = Dropped
  /\ UNCHANGED <<host, boot, mongo, handled, closes, signals, alive>>

(* Nothing to do: the process waits for a request, or is over. *)
Rest ==
  /\ main \in {"serve", "exited", "killed"} /\ \A r \in Request : ~Running(r)
  /\ UNCHANGED vars

-----------------------------------------------------------------------------
Init ==
  /\ host \in Host /\ main = "boot" /\ step = 1 /\ adder = "plain" /\ rules = {}
  /\ handlers = {} /\ mongo = "none"
  /\ request = [r \in Request |-> [pc |-> "idle", calls |-> 0]]
  /\ signals = 0 /\ alive = TRUE /\ handled = FALSE /\ closes = 0 /\ code = Absent

Boot ==
  \/ Connect \/ ReadCollection \/ Serve \/ StopBeforeServing \/ BootFails
  \/ \E bp \in DOMAIN Brings : Register(bp) \/ RegisterListOnly(bp)
  \/ \E s \in Signal : Install(s)

Next ==
  \/ Boot \/ Disconnect \/ DisconnectFails \/ Exit \/ Rest
  \/ \E r \in Request : Accept(r) \/ Call(r) \/ CallFails(r) \/ Answer(r)
  \/ StopLater \/ StopNow \/ \E s \in Signal : Killed(s) \/ SignalHandled(s)

(* The interpreter goes on with the import, which is straight-line code,    *)
(* with the main thread and with each request; a driver call, a disconnect  *)
(* included, returns or raises.                                             *)
Fairness ==
  /\ WF_vars(Boot) /\ WF_vars(Disconnect \/ DisconnectFails) /\ WF_vars(Exit)
  /\ \A r \in Request : WF_vars(Call(r) \/ CallFails(r)) /\ WF_vars(Answer(r))

Spec     == Init /\ [][Next]_vars
FairSpec == Spec /\ Fairness

-----------------------------------------------------------------------------
(* Properties *)

RequestSpace ==
  [pc : {"idle", "running", "ok", "failed", "closed", "dropped"}, calls : 0..Calls]

(* Shapes.  A process that exited has an exit code, no other has one, and   *)
(* no request runs before it serves or after it ended.                      *)
TypeOK ==
  /\ host \in Host /\ main \in Live \cup {"exited", "killed"}
  /\ step \in 1..Len(BootSteps) /\ adder \in {"plain", "argument_free"}
  /\ rules \subseteq UNION {Brings[bp] : bp \in DOMAIN Brings}
  /\ handlers \subseteq Signal /\ mongo \in {"none", "open", "closed"}
  /\ request \in [Request -> RequestSpace]
  /\ signals \in 0..MaxSignals /\ closes \in 0..MaxSignals
  /\ alive \in BOOLEAN /\ handled \in BOOLEAN
  /\ code \in {0, 1, Absent} /\ (main = "exited" <=> code # Absent)
  /\ main \in {"boot", "exited", "killed"} => \A r \in Request : ~Running(r)

Documented ==
  {Plain(place) : place \in {"cards", "resources", "paths", "plans", "notifications", "events",
                             "notification", "config", "metrics"}}
    \cup {ById(place) : place \in {"docs", "dismiss", "cancel"}}

(* The rules that the blueprints left in the URL map of a serving process   *)
(* are the documented ones: no by-id rule of a card list, and all the rules *)
(* that take an argument and were registered before or after the filtered   *)
(* blueprints.  (Flask's own rule for static files is not a blueprint's.)   *)
SurfaceIsDocumented == main = "serve" => rules = Documented

(* Once handle_exit has begun the process cannot exit with another code     *)
(* than 0, nor, with both handlers installed, without an attempt to         *)
(* disconnect: however many signals come, in whatever order, in the middle  *)
(* of handle_exit too, and whether or not the driver raises.  (Between the  *)
(* two installations gunicorn's own handler may cut handle_exit short.)     *)
ShutdownIsClean ==
  main = "exited" /\ handled => code = 0 /\ (handlers = Signal => closes > 0)

(* Under gunicorn a shutdown never turns a request into a 500: the request  *)
(* is either answered or dropped, because nothing of it runs between the    *)
(* disconnect and the exit.  (Threads of app.run may answer 500.)           *)
WorkerNeverRunsClosed ==
  host = "gunicorn" => \A r \in Request : request[r].pc # "closed"

(* A signal ends the process and settles its requests with it, whenever it  *)
(* comes: during the import, between the two installations, in a request or *)
(* in handle_exit, and even if every disconnect raises.                     *)
SignalEndsServer ==
  signals > 0 ~> main \in {"exited", "killed"} /\ \A r \in Request : ~Running(r)
=============================================================================
