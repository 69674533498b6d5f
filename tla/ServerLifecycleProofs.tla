----------------------- MODULE ServerLifecycleProofs -----------------------
(***************************************************************************)
(* Theorems about ServerLifecycle, for any number of requests, calls and   *)
(* signals: the blueprints leave the documented rules to a serving         *)
(* process, handle_exit ends in a clean exit, and a worker never runs a    *)
(* request over a closed connection.                                       *)
(***************************************************************************)
EXTENDS ServerLifecycle, TLAPS

LastStep == 16

Blueprint ==
  {"docs", "config", "cards", "resources", "paths", "plans", "notifications", "events",
   "notification", "metrics"}

(* What the registration of a blueprint leaves in the URL map. *)
Kept(bp) == Added(bp, IF bp \in ListOnly THEN "argument_free" ELSE "plain")

(* The URL map when the boot has come to a step. *)
KeptBefore(n) == UNION {Kept(BootSteps[i]) : i \in {k \in 1..n - 1 : BootSteps[k] \in Blueprint}}

(* How far the boot is, seen from the other variables. *)
BootProgress ==
  /\ main = "serve" => step = LastStep
  /\ handlers # {} => step \in 15..LastStep
  /\ main \in {"boot", "serve"} /\ step # 1 => mongo = "open"
  /\ adder = "plain" /\ rules = KeptBefore(step)

(* handle_exit cannot run without having been installed, never returns to   *)
(* the boot it interrupted, disconnects before it exits, and disconnects    *)
(* once for each signal at most.                                            *)
ExitProgress ==
  /\ main \in {"closing", "exiting"} => handlers # {}
  /\ handled => main \notin {"boot", "serve"}
  /\ main = "exiting" => closes > 0
  /\ closes <= signals
  /\ main = "closing" => closes < signals

IInv == TypeOK /\ BootProgress /\ ExitProgress /\ ShutdownIsClean /\ WorkerNeverRunsClosed

-----------------------------------------------------------------------------
(* The boot steps, spelled out. *)

LEMMA StepNames ==
  /\ Len(BootSteps) = LastStep
  /\ BootSteps[1] = "connect" /\ BootSteps[2] = "enumerators" /\ BootSteps[3] = "versions"
  /\ BootSteps[4] = "docs" /\ BootSteps[5] = "config" /\ BootSteps[6] = "cards"
  /\ BootSteps[7] = "resources" /\ BootSteps[8] = "paths" /\ BootSteps[9] = "plans"
  /\ BootSteps[10] = "notifications" /\ BootSteps[11] = "events"
  /\ BootSteps[12] = "notification" /\ BootSteps[13] = "metrics"
  /\ BootSteps[14] = "TERM" /\ BootSteps[15] = "INT" /\ BootSteps[16] = "run"
BY DEF BootSteps, LastStep

LEMMA Blueprints == DOMAIN Brings = Blueprint
BY DEF Brings, Blueprint

(* Where in the boot a step can be. *)
LEMMA StepPlaces ==
  ASSUME step \in 1..LastStep
  PROVE  /\ here = "connect" => step = 1
         /\ here \in {"enumerators", "versions"} => step \in 2..3
         /\ here \in Blueprint => step \in 4..13
         /\ here \in Signal => step \in 14..15
         /\ here = "run" => step = LastStep
         /\ here \notin Signal => step \in 1..13 \cup {LastStep}
BY StepNames DEF here, LastStep, Blueprint, Signal

(* One step more adds what that step leaves. *)
LEMMA KeptStep ==
  ASSUME NEW n \in 1..LastStep
  PROVE  /\ BootSteps[n] \in Blueprint =>
              KeptBefore(n + 1) = KeptBefore(n) \cup Kept(BootSteps[n])
         /\ BootSteps[n] \notin Blueprint => KeptBefore(n + 1) = KeptBefore(n)
<1>1. 1..(n + 1) - 1 = (1..n - 1) \cup {n}
  BY DEF LastStep
<1>2. QED
  BY <1>1 DEF KeptBefore

(* The end of the boot. *)
LEMMA KeptIsDocumented == KeptBefore(LastStep) = Documented
<1>1. /\ Kept("docs") = {ById("docs")} /\ Kept("config") = {Plain("config")}
      /\ Kept("cards") = {Plain("cards")} /\ Kept("events") = {Plain("events")}
      /\ Kept("notifications") = {Plain("notifications")}
      /\ Kept("metrics") = {Plain("metrics")}
      /\ Kept("notification") = {Plain("notification"), ById("dismiss"), ById("cancel")}
  BY DEF Kept, Added, Brings, ListOnly
<1>2. /\ Kept("resources") = {Plain("resources")}
      /\ Kept("paths") = {Plain("paths")}
      /\ Kept("plans") = {Plain("plans")}
  BY DEF Kept, Added, Brings, ListOnly, Plain, ById
<1>3. {k \in 1..LastStep - 1 : BootSteps[k] \in Blueprint} = 4..13
  BY StepNames DEF LastStep, Blueprint
<1>4. KeptBefore(LastStep) = UNION {Kept(BootSteps[i]) : i \in 4..13}
  BY <1>3 DEF KeptBefore
<1>5. UNION {Kept(BootSteps[i]) : i \in 4..13} =
        Kept("docs") \cup Kept("config") \cup Kept("cards") \cup Kept("resources")
          \cup Kept("paths") \cup Kept("plans") \cup Kept("notifications")
          \cup Kept("events") \cup Kept("notification") \cup Kept("metrics")
  <2>1. 4..13 = {4, 5, 6, 7, 8, 9, 10, 11, 12, 13}
    OBVIOUS
  <2>2. QED
    BY <2>1, StepNames
<1>6. QED
  BY <1>1, <1>2, <1>4, <1>5 DEF Documented


-----------------------------------------------------------------------------
(* The invariant is inductive. *)

LEMMA CodesPresent == 0 # Absent /\ 1 # Absent
BY ServerAssumption

LEMMA Initial == Init => IInv
<1> SUFFICES ASSUME Init PROVE IInv
  OBVIOUS
<1>1. KeptBefore(1) = {}
  BY DEF KeptBefore
<1>2. TypeOK
  <2>1. request \in [Request -> RequestSpace] /\ \A r \in Request : ~Running(r)
    BY ServerAssumption DEF Init, RequestSpace, Running
  <2>2. host \in Host /\ main \in Live /\ step \in 1..Len(BootSteps)
    BY StepNames DEF Init, Live, LastStep
  <2>3. signals \in 0..MaxSignals /\ closes \in 0..MaxSignals
    BY ServerAssumption DEF Init
  <2>4. /\ rules \subseteq UNION {Brings[bp] : bp \in DOMAIN Brings}
        /\ handlers \subseteq Signal
    BY DEF Init
  <2>5. code \in {0, 1, Absent} /\ (main = "exited" <=> code # Absent)
    BY DEF Init
  <2>6. QED
    BY <2>1, <2>2, <2>3, <2>4, <2>5 DEF Init, TypeOK
<1>3. QED
  BY <1>1, <1>2 DEF Init, IInv, BootProgress, ExitProgress, ShutdownIsClean, WorkerNeverRunsClosed

(* Every rule ever added is one that a blueprint brings along. *)
LEMMA KeptIsBrought ==
  \A bp \in Blueprint : Kept(bp) \subseteq UNION {Brings[b] : b \in DOMAIN Brings}
BY Blueprints DEF Kept, Added

LEMMA BootKeepsInvariant == IInv /\ Boot => IInv'
<1> SUFFICES ASSUME IInv, Boot PROVE IInv'
  OBVIOUS
<1> USE DEF IInv
<1>1. /\ step \in 1..LastStep /\ main = "boot" /\ main' \in {"boot", "serve", "exited"}
      /\ UNCHANGED <<host, signals, closes, request>>
  BY StepNames DEF TypeOK, Boot, Booting, Connect, ReadCollection, Register, RegisterListOnly,
       Install, Serve, StopBeforeServing, BootFails, process, boot
<1>2. CASE Connect
  <2>1. step = 1 /\ step' = 2 /\ mongo' = "open"
    BY <1>1, <1>2, StepPlaces DEF Connect, Booting, NextStep
  <2>2. KeptBefore(step') = KeptBefore(step)
    BY <2>1, KeptStep, StepNames DEF LastStep, Blueprint
  <2>3. QED
    BY <1>1, <1>2, <2>1, <2>2, StepNames DEF Connect, TypeOK, Running, BootProgress,
       ExitProgress, ShutdownIsClean, WorkerNeverRunsClosed, LastStep
<1>3. CASE ReadCollection
  <2>1. step \in 2..3 /\ step' = step + 1
    BY <1>1, <1>3, StepPlaces DEF ReadCollection, Booting, NextStep
  <2>2. KeptBefore(step') = KeptBefore(step)
    BY <2>1, KeptStep, StepNames DEF LastStep, Blueprint
  <2>3. QED
    BY <1>1, <1>3, <2>1, <2>2, StepNames DEF ReadCollection, TypeOK, Running, BootProgress,
       ExitProgress, ShutdownIsClean, WorkerNeverRunsClosed, LastStep, process
<1>4. ASSUME NEW bp \in DOMAIN Brings, Register(bp) \/ RegisterListOnly(bp)
      PROVE  IInv'
  <2>1. here = bp /\ bp \in Blueprint /\ step \in 4..13 /\ step' = step + 1
    BY <1>1, <1>4, Blueprints, StepPlaces DEF Register, RegisterListOnly, Booting, NextStep
  <2>2. /\ UNCHANGED <<host, handlers, process, request, signals, alive>> /\ adder' = "plain"
        /\ rules' = rules \cup Kept(bp)
    BY <1>4 DEF Register, RegisterListOnly, Kept, BootProgress
  <2>3. rules' = KeptBefore(step')
    BY <2>1, <2>2, KeptStep DEF here, BootProgress, LastStep
  <2>4. rules' \subseteq UNION {Brings[b] : b \in DOMAIN Brings}
    BY <2>1, <2>2, KeptIsBrought DEF TypeOK
  <2>5. TypeOK'
    <3>1. \A r \in Request : ~Running(r)'
      BY <1>1 DEF TypeOK, Running
    <3>2. step' \in 1..Len(BootSteps) /\ main' = main
      BY <2>1, <2>2, StepNames DEF LastStep, process
    <3>3. QED
      BY <1>1, <2>2, <2>4, <3>1, <3>2 DEF TypeOK, process
  <2>6. QED
    BY <1>1, <2>1, <2>2, <2>3, <2>5 DEF BootProgress, ExitProgress,
       ShutdownIsClean, WorkerNeverRunsClosed, LastStep, process
<1>5. ASSUME NEW s \in Signal, Install(s)
      PROVE  IInv'
  <2>1. step \in 14..15 /\ step' = step + 1 /\ here \notin Blueprint
    BY <1>1, <1>5, StepPlaces DEF Install, Booting, NextStep, Signal, Blueprint
  <2>2. KeptBefore(step') = KeptBefore(step)
    BY <2>1, KeptStep DEF LastStep, here
  <2>3. QED
    BY <1>1, <1>5, <2>1, <2>2, StepNames DEF Install, TypeOK, Running, BootProgress,
       ExitProgress, ShutdownIsClean, WorkerNeverRunsClosed, LastStep, process
<1>6. CASE Serve
  <2>1. step = LastStep
    BY <1>1, <1>6, StepPlaces DEF Serve, Booting
  <2>2. QED
    BY <1>1, <1>6, <2>1 DEF Serve, TypeOK, Running, BootProgress, ExitProgress,
       ShutdownIsClean, WorkerNeverRunsClosed, LastStep, boot, Live
<1>7. CASE StopBeforeServing \/ BootFails
  <2>1. main' = "exited" /\ code' \in {0, 1} /\ ~handled
    BY <1>1, <1>7 DEF StopBeforeServing, BootFails, ExitProgress
  <2>2. UNCHANGED <<host, boot, mongo, handled, closes, request, signals, alive>>
    BY <1>7 DEF StopBeforeServing, BootFails
  <2>3. 0 # Absent /\ 1 # Absent
    BY CodesPresent
  <2>4. TypeOK'
    BY <1>1, <2>1, <2>2, <2>3 DEF TypeOK, boot, Running
  <2>5. QED
    BY <1>1, <2>1, <2>2, <2>4 DEF BootProgress, ExitProgress, ShutdownIsClean,
       WorkerNeverRunsClosed, boot
<1>8. QED
  BY <1>2, <1>3, <1>4, <1>5, <1>6, <1>7 DEF Boot

(* A request moves by itself; only over an open connection, if a worker     *)
(* serves it.                                                               *)
LEMMA RequestKeepsInvariant ==
  ASSUME IInv, NEW r \in Request, Accept(r) \/ Call(r) \/ CallFails(r) \/ Answer(r)
  PROVE  IInv'
<1> USE DEF IInv
<1>1. UNCHANGED <<host, boot, process, signals>>
  BY DEF Accept, Call, CallFails, Answer
<1>2. request' \in [Request -> RequestSpace]
  BY ServerAssumption DEF TypeOK, Accept, Call, CallFails, Answer, Settle, RequestSpace
<1>3. TypeOK'
  <2>1. main' = main /\ main \notin {"boot", "exited", "killed"}
    BY <1>1 DEF Accept, Call, CallFails, Answer, Runs, process
  <2>2. (\A q \in Request : ~Running(q))' \/ main' \notin {"boot", "exited", "killed"}
    BY <2>1
  <2>3. alive' = alive
    BY DEF Accept, Call, CallFails, Answer
  <2>4. QED
    BY <1>1, <1>2, <2>1, <2>2, <2>3 DEF TypeOK, boot, process
<1>4. WorkerNeverRunsClosed'
  <2>1. ASSUME NEW q \in Request, host = "gunicorn", request'[q].pc = "closed"
        PROVE  FALSE
    <3>1. request[q].pc # "closed" /\ request[q] \in RequestSpace
      BY <2>1 DEF WorkerNeverRunsClosed, TypeOK
    <3>2. Call(r) /\ mongo # "open"
      BY <2>1, <3>1 DEF Accept, Call, CallFails, Answer, Settle, TypeOK, RequestSpace
    <3>3. main = "serve"
      BY <2>1, <3>2 DEF Call, Runs
    <3>4. QED
      BY <3>2, <3>3 DEF BootProgress, LastStep
  <2>2. QED
    BY <1>1, <2>1 DEF WorkerNeverRunsClosed
<1>5. QED
  BY <1>1, <1>3, <1>4 DEF BootProgress, ExitProgress, ShutdownIsClean, boot, process

(* Dropping requests answers none of them with a 500. *)
LEMMA DroppedShape ==
  ASSUME TypeOK
  PROVE  /\ Dropped \in [Request -> RequestSpace]
         /\ \A r \in Request : Dropped[r].pc = "closed" => request[r].pc = "closed"
         /\ \A r \in Request : Dropped[r].pc # "running"
BY DEF TypeOK, Dropped, RequestSpace, Running

LEMMA SignalKeepsInvariant ==
  ASSUME IInv, NEW s \in Signal, StopLater \/ StopNow \/ Killed(s) \/ SignalHandled(s)
  PROVE  IInv'
<1> USE DEF IInv
<1>1. UNCHANGED <<host, boot, mongo, closes>> /\ main \in Live /\ Send
  <2>1. CASE StopLater
    BY <2>1 DEF StopLater, process
  <2>2. CASE StopNow
    BY <2>2 DEF StopNow
  <2>3. CASE Killed(s) \/ SignalHandled(s)
    BY <2>3 DEF Killed, SignalHandled
  <2>4. QED
    BY <2>1, <2>2, <2>3
<1> signals' = signals + 1 /\ signals' \in 0..MaxSignals
  BY <1>1, ServerAssumption DEF Send, TypeOK
<1>2. 0 # Absent
  BY CodesPresent
<1>3. CASE StopLater
  <2>1. UNCHANGED <<main, handled, code, request>> /\ alive' = FALSE
    BY <1>3 DEF StopLater, process
  <2>2. TypeOK'
    BY <1>1, <2>1 DEF TypeOK, boot, Running
  <2>3. QED
    BY <1>1, <2>1, <2>2 DEF TypeOK, BootProgress, ExitProgress, ShutdownIsClean,
       WorkerNeverRunsClosed, boot
<1>4. CASE StopNow
  <2>1. /\ main' = "exited" /\ code' = 0 /\ alive' = FALSE /\ request' = Dropped
        /\ UNCHANGED handled /\ handlers # Signal
    BY <1>4 DEF StopNow, Signal
  <2>2. TypeOK' /\ WorkerNeverRunsClosed'
    BY <1>1, <1>2, <2>1, DroppedShape DEF TypeOK, Running, WorkerNeverRunsClosed, boot
  <2>3. QED
    BY <1>1, <2>1, <2>2 DEF TypeOK, BootProgress, ExitProgress, ShutdownIsClean, boot
<1>5. CASE Killed(s)
  <2>1. /\ main' = "killed" /\ request' = Dropped /\ UNCHANGED <<handled, code, alive>>
        /\ code = Absent
    BY <1>1, <1>5 DEF Killed, TypeOK, Live
  <2>2. TypeOK' /\ WorkerNeverRunsClosed'
    BY <1>1, <2>1, DroppedShape DEF TypeOK, Running, WorkerNeverRunsClosed, boot
  <2>3. QED
    BY <1>1, <2>1, <2>2 DEF TypeOK, BootProgress, ExitProgress, ShutdownIsClean, boot
<1>6. CASE SignalHandled(s)
  <2>1. /\ main' = "closing" /\ handled' = TRUE /\ UNCHANGED <<code, request, alive>>
        /\ handlers # {} /\ code = Absent
    BY <1>1, <1>6 DEF SignalHandled, TypeOK, Live
  <2>2. TypeOK' /\ WorkerNeverRunsClosed'
    BY <1>1, <2>1 DEF TypeOK, WorkerNeverRunsClosed, boot, Live
  <2>3. QED
    BY <1>1, <2>1, <2>2 DEF TypeOK, BootProgress, ExitProgress, ShutdownIsClean, boot
<1>7. QED
  BY <1>3, <1>4, <1>5, <1>6

LEMMA ShutdownKeepsInvariant ==
  IInv /\ (Disconnect \/ DisconnectFails \/ Exit) => IInv'
<1> SUFFICES ASSUME IInv, Disconnect \/ DisconnectFails \/ Exit PROVE IInv'
  OBVIOUS
<1> USE DEF IInv
<1>1. CASE Disconnect \/ DisconnectFails
  <2>1. /\ main = "closing" /\ main' = "exiting" /\ closes' = closes + 1
        /\ UNCHANGED <<host, boot, handled, code, request, signals, alive>>
        /\ mongo' \in {"none", "open", "closed"}
    BY <1>1 DEF Disconnect, DisconnectFails, TypeOK
  <2>2. closes' \in 0..MaxSignals /\ closes' <= signals /\ closes' > 0
    BY <2>1, ServerAssumption DEF TypeOK, ExitProgress
  <2>3. QED
    BY <2>1, <2>2 DEF TypeOK, BootProgress, ExitProgress, ShutdownIsClean,
       WorkerNeverRunsClosed, boot, Live
<1>2. CASE Exit
  <2>1. TypeOK' /\ WorkerNeverRunsClosed'
    BY <1>2, CodesPresent, DroppedShape DEF Exit, TypeOK, Running, WorkerNeverRunsClosed, boot
  <2>2. QED
    BY <1>2, <2>1 DEF Exit, BootProgress, ExitProgress, ShutdownIsClean, boot, TypeOK
<1>3. QED
  BY <1>1, <1>2

LEMMA Inductive == IInv /\ [Next]_vars => IInv'
<1> SUFFICES ASSUME IInv, [Next]_vars PROVE IInv'
  OBVIOUS
<1>1. CASE Rest \/ UNCHANGED vars
  BY <1>1 DEF Rest, vars, boot, process, IInv, TypeOK, Running, BootProgress, ExitProgress,
     ShutdownIsClean, WorkerNeverRunsClosed
<1>2. CASE StopLater \/ StopNow \/ \E s \in Signal : Killed(s) \/ SignalHandled(s)
  <2>1. PICK s \in Signal : StopLater \/ StopNow \/ Killed(s) \/ SignalHandled(s)
    BY <1>2 DEF Signal
  <2>2. QED
    BY <2>1, SignalKeepsInvariant
<1>3. QED
  BY <1>1, <1>2, BootKeepsInvariant, RequestKeepsInvariant, ShutdownKeepsInvariant DEF Next

-----------------------------------------------------------------------------
(* The invariant holds in every behaviour. *)
THEOREM Invariance == Spec => []IInv
BY Initial, Inductive, PTL DEF Spec

(* The process and its requests keep their shapes: a process that exited has *)
(* an exit code, and one that ended has dropped its requests.                *)
THEOREM TypeCorrect == Spec => []TypeOK
<1>1. IInv => TypeOK
  BY DEF IInv
<1>2. QED
  BY <1>1, Invariance, PTL

(* Boot: the blueprints leave exactly the documented URL rules to a serving *)
(* process, because add_url_rule is the plain one again before each later   *)
(* registration.                                                            *)
THEOREM SurfaceCorrect == Spec => []SurfaceIsDocumented
<1>1. IInv => SurfaceIsDocumented
  BY KeptIsDocumented DEF IInv, BootProgress, SurfaceIsDocumented
<1>2. QED
  BY <1>1, Invariance, PTL

(* handle_exit: once it has begun the process exits with code 0 only and,   *)
(* with both handlers installed, not before a disconnect was attempted,     *)
(* whatever signals interrupt it and whatever the driver does.              *)
THEOREM CleanExit == Spec => []ShutdownIsClean
<1>1. IInv => ShutdownIsClean
  BY DEF IInv
<1>2. QED
  BY <1>1, Invariance, PTL

(* handle_exit under gunicorn: no request meets the connection it closed. *)
THEOREM NoClosedCalls == Spec => []WorkerNeverRunsClosed
<1>1. IInv => WorkerNeverRunsClosed
  BY DEF IInv
<1>2. QED
  BY <1>1, Invariance, PTL
=============================================================================
