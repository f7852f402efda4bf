---------------------------- MODULE ControlServer ----------------------------
(***************************************************************************)
(* The process cmd/singbox-core: the goroutines that serve its control     *)
(* socket (internal/control/server.go), the life of the one Box they all   *)
(* work on (internal/core/core.go, outbound.go), and the shutdown in       *)
(* main.go.  A request is its command; what a Box does with an outbound    *)
(* is LiveApply.                                                           *)
(*                                                                         *)
(* Core.mu is held for a few assignments, so what it guards is one step.   *)
(* isRunning always equals instance # None and is left out.                *)
(***************************************************************************)
EXTENDS Naturals, FiniteSets

CONSTANTS
  Conns,   \* connections, one request at a time
  Main,    \* the main goroutine, which calls Stop too
  Boxes,   \* identities of Box objects, used again when nobody knows them
  None

ASSUME ServerAssumption ==
  /\ Main \notin Conns /\ None \notin Conns \cup Boxes \cup {Main}
  /\ Conns \cap {"accept", "wait", "returned"} = {}
  /\ IsFiniteSet(Conns) /\ IsFiniteSet(Boxes)
  /\ Cardinality(Boxes) > Cardinality(Conns) + 1

VARIABLES
  main,      \* where main.go is, from "serving" to "exited"
  closed,    \* Server.closed
  serve,     \* Serve: "accept", a connection accepted and not yet counted,
             \* "wait" or "returned"
  conn,      \* connection -> "out", "backlog", "accepted" or "reading"
  open,      \* the connections whose client has not hung up
  group,     \* Server.wg, as the connections counted in it
  task,      \* the Core operation each handler, or main, is in
  holder,    \* Core.lifecycleMu
  instance,  \* Core.instance
  box,       \* Box -> "none", "built" or "started"
  late       \* history: Close returned while an accepted connection was uncounted

vars == <<main, closed, serve, conn, open, group, task, holder, instance, box, late>>
server == <<main, closed, serve, conn, open, group, late>>
core == <<task, holder, instance, box>>

NoTask == [at |-> "none", box |-> None]
Commands == {"start", "stop", "outbound", "is_running"}

\* main starts a Box from -config, if it is given, before it listens.
Init ==
  /\ main = "serving" /\ closed = FALSE /\ serve = "accept"
  /\ conn = [c \in Conns |-> "out"] /\ open = {} /\ group = {} /\ late = FALSE
  /\ task = [x \in Conns \cup {Main} |-> NoTask]
  /\ holder = None
  /\ \/ instance = None /\ box = [b \in Boxes |-> "none"]
     \/ LET first == CHOOSE b \in Boxes : TRUE
        IN instance = first /\ box = [b \in Boxes |-> IF b = first THEN "started" ELSE "none"]

Up == main # "exited"
Listening == main \in {"serving", "close"}
At(x, at) == task[x].at = at
Free == CHOOSE b \in Boxes :
  box[b] = "none" /\ b # instance /\ \A x \in DOMAIN task : task[x].box # b

-----------------------------------------------------------------------------
(* Core: the steps of an operation by x, a handler or main.                 *)

Ends(x) == task' = [task EXCEPT ![x] = [NoTask EXCEPT !.at = "answer"]]
Goes(x, at, b) == task' = [task EXCEPT ![x] = [at |-> at, box |-> b]]

\* Start: already running, a config it cannot build from, or a Box.
StartLocks(x) ==
  /\ At(x, "start") /\ holder = None
  /\ \/ Ends(x) /\ UNCHANGED <<holder, box>>
     \/ /\ instance = None
        /\ box' = [box EXCEPT ![Free] = "built"]
        /\ holder' = x
        /\ Goes(x, "built", Free)
  /\ UNCHANGED <<server, instance>>

\* Box.Start; a Box that fails to start is closed.
StartsBox(x) ==
  /\ At(x, "built")
  /\ \/ box' = [box EXCEPT ![task[x].box] = "started"]
        /\ Goes(x, "started", task[x].box) /\ UNCHANGED holder
     \/ box' = [box EXCEPT ![task[x].box] = "none"]
        /\ Ends(x) /\ holder' = None
  /\ UNCHANGED <<server, instance>>

Publishes(x) ==
  /\ At(x, "started")
  /\ instance' = task[x].box
  /\ Ends(x) /\ holder' = None
  /\ UNCHANGED <<server, box>>

\* Mutant: Stop detaches the Box and closes it without lifecycleMu.
StopUnlocked(x) ==
  /\ At(x, "stop")
  /\ instance' = None
  /\ IF instance = None THEN Ends(x) ELSE Goes(x, "detached", instance)
  /\ UNCHANGED <<server, holder, box>>

\* Stop: detached under both locks, closed under the outer one.
StopLocks(x) ==
  /\ At(x, "stop") /\ holder = None
  /\ instance' = None
  /\ IF instance = None THEN Ends(x) /\ UNCHANGED holder
     ELSE Goes(x, "detached", instance) /\ holder' = x
  /\ UNCHANGED <<server, box>>

\* Mutant: the lock is not released.
ClosesBoxHolding(x) ==
  /\ At(x, "detached")
  /\ box' = [box EXCEPT ![task[x].box] = "none"]
  /\ Ends(x)
  /\ UNCHANGED <<server, holder, instance>>

ClosesBox(x) ==
  /\ At(x, "detached")
  /\ box' = [box EXCEPT ![task[x].box] = "none"]
  /\ Ends(x) /\ holder' = None
  /\ UNCHANGED <<server, instance>>

\* AddOutbound and RemoveOutbound: running, and then the call on that Box,
\* which may have been stopped since.
Picks(x) ==
  /\ At(x, "outbound")
  /\ IF instance = None THEN Ends(x) ELSE Goes(x, "acting", instance)
  /\ UNCHANGED <<server, holder, instance, box>>

Answers(x) ==
  /\ task[x].at \in {"acting", "is_running"}
  /\ Ends(x)
  /\ UNCHANGED <<server, holder, instance, box>>

Operation(x) ==
  StartLocks(x) \/ StartsBox(x) \/ Publishes(x) \/ StopLocks(x) \/ ClosesBox(x)
  \/ Picks(x) \/ Answers(x)

-----------------------------------------------------------------------------
(* Server: clients, the accept loop, the handlers.                          *)

Dial(c) ==
  /\ conn[c] = "out" /\ Listening
  /\ conn' = [conn EXCEPT ![c] = "backlog"]
  /\ open' = open \cup {c}
  /\ UNCHANGED <<main, closed, serve, group, late, core>>

\* A client closes its socket after an answer, or after five seconds.
HangUp(c) ==
  /\ conn[c] # "out" /\ c \in open
  /\ open' = open \ {c}
  /\ UNCHANGED <<main, closed, serve, conn, group, late, core>>

Accept(c) ==
  /\ serve = "accept" /\ conn[c] = "backlog" /\ Listening
  /\ serve' = c
  /\ conn' = [conn EXCEPT ![c] = "accepted"]
  /\ UNCHANGED <<main, closed, open, group, late, core>>

\* wg.Add, after the connection was accepted.
Count(c) ==
  /\ serve = c
  /\ serve' = "accept"
  /\ group' = group \cup {c}
  /\ conn' = [conn EXCEPT ![c] = "reading"]
  /\ UNCHANGED <<main, closed, open, late, core>>

\* An error: because Close closed the listener, or for want of descriptors.
AcceptFails ==
  /\ serve = "accept"
  /\ serve' = IF closed THEN "wait" ELSE "returned"
  /\ UNCHANGED <<main, closed, conn, open, group, late, core>>

ServeReturns ==
  /\ serve = "wait" /\ group = {}
  /\ serve' = "returned"
  /\ UNCHANGED <<main, closed, conn, open, group, late, core>>

\* handleConn scans a command.  One that the client sent just before it hung
\* up is read after that in the code, here before it: the steps commute, since
\* nothing but Scan looks at the client's end.
Request(c) ==
  /\ conn[c] = "reading" /\ c \in open /\ At(c, "none")
  /\ \E cmd \in Commands : Goes(c, cmd, None)
  /\ UNCHANGED <<server, holder, instance, box>>

Respond(c) ==
  /\ At(c, "answer")
  /\ task' = [task EXCEPT ![c] = NoTask]
  /\ UNCHANGED <<server, holder, instance, box>>

\* Mutant: no wg.Done.
DoneUncounted(c) ==
  /\ conn[c] = "reading" /\ c \notin open /\ At(c, "none")
  /\ conn' = [conn EXCEPT ![c] = "out"]
  /\ UNCHANGED <<main, closed, serve, open, group, late, core>>

\* Scan ends when the client has hung up.
Done(c) ==
  /\ conn[c] = "reading" /\ c \notin open /\ At(c, "none")
  /\ conn' = [conn EXCEPT ![c] = "out"]
  /\ group' = group \ {c}
  /\ UNCHANGED <<main, closed, serve, open, late, core>>

-----------------------------------------------------------------------------
(* main after a signal, or after Serve returned.                            *)

\* Close: the flag first.
Shutdown ==
  /\ main = "serving"
  /\ main' = "close" /\ closed' = TRUE
  /\ UNCHANGED <<serve, conn, open, group, late, core>>

CloseListener ==
  /\ main = "close"
  /\ main' = "wait"
  /\ conn' = [c \in Conns |-> IF conn[c] = "backlog" THEN "out" ELSE conn[c]]
  /\ open' = {c \in open : conn'[c] # "out"}
  /\ UNCHANGED <<closed, serve, group, late, core>>

\* Mutant: Close does not wait.
CloseAtOnce ==
  /\ main = "wait"
  /\ main' = "closed"
  /\ late' = (serve \in Conns)
  /\ UNCHANGED <<closed, serve, conn, open, group, core>>

CloseReturns ==
  /\ main = "wait" /\ group = {}
  /\ main' = "closed"
  /\ late' = (serve \in Conns)
  /\ UNCHANGED <<closed, serve, conn, open, group, core>>

\* Mutant: main leaves the Box to the end of the process.
ExitAtOnce ==
  /\ main = "closed"
  /\ main' = "exited" /\ UNCHANGED task
  /\ UNCHANGED <<closed, serve, conn, open, group, late, holder, instance, box>>

StopIfRunning ==
  /\ main = "closed"
  /\ IF instance = None THEN main' = "exited" /\ UNCHANGED task
     ELSE main' = "stopping" /\ Goes(Main, "stop", None)
  /\ UNCHANGED <<closed, serve, conn, open, group, late, holder, instance, box>>

Exit ==
  /\ main = "stopping" /\ At(Main, "answer")
  /\ main' = "exited"
  /\ UNCHANGED <<closed, serve, conn, open, group, late, core>>

Loop == (\E c \in Conns : Accept(c) \/ Count(c)) \/ AcceptFails \/ ServeReturns
Handle(c) == Request(c) \/ Respond(c) \/ Done(c)
MainStep == CloseListener \/ CloseReturns \/ StopIfRunning \/ Exit

Next ==
  /\ Up
  /\ \/ Shutdown \/ MainStep \/ Loop
     \/ \E c \in Conns : Dial(c) \/ HangUp(c) \/ Handle(c)
     \/ \E x \in DOMAIN task : Operation(x)

\* Goroutines go on when they can, sync.Mutex starves nobody, and a client
\* hangs up, because of its timeout.
Spec ==
  /\ Init /\ [][Next]_vars
  /\ WF_vars(Up /\ MainStep) /\ WF_vars(Up /\ Loop)
  /\ \A c \in Conns :
       /\ WF_vars(Up /\ HangUp(c)) /\ WF_vars(Up /\ (Respond(c) \/ Done(c)))
  /\ \A x \in Conns \cup {Main} :
       SF_vars(Up /\ (StartLocks(x) \/ StopLocks(x))) /\ WF_vars(Up /\ Operation(x))

-----------------------------------------------------------------------------
(* Properties.                                                              *)

\* The type invariant.
TypeOK ==
  /\ main \in {"serving", "close", "wait", "closed", "stopping", "exited"}
  /\ closed \in BOOLEAN /\ late \in BOOLEAN
  /\ serve \in Conns \cup {"accept", "wait", "returned"}
  /\ conn \in [Conns -> {"out", "backlog", "accepted", "reading"}]
  /\ group = {c \in Conns : conn[c] = "reading"}
  /\ open \subseteq {c \in Conns : conn[c] # "out"}
  /\ holder \in Conns \cup {Main, None}
  /\ instance \in Boxes \cup {None}
  /\ box \in [Boxes -> {"none", "built", "started"}]

\* There is never more than one Box, which would claim the TUN device and the
\* ports a second time, and the one that requests see is started: never half
\* built, never one that Stop is closing (core.go:34-41 and 82-88).
OneBox ==
  /\ Cardinality({b \in Boxes : box[b] # "none"}) <= 1
  /\ instance # None => box[instance] = "started"

\* Close waits for the requests in flight, but for the one connection that
\* Serve had accepted and not yet counted (server.go:112-113 and 121-134).
OneLateConnection ==
  main \in {"closed", "stopping", "exited"} => Cardinality(group) <= (IF late THEN 1 ELSE 0)

\* The process leaves no Box behind, unless that late connection starts one
\* behind main's back (main.go:69-76).
NoBoxLeft == main = "exited" /\ ~late => \A b \in Boxes : box[b] = "none"

\* A shutdown ends, whatever requests are running (server.go:123-136): none
\* waits for a lock for ever, and main does not wait for idle clients, since
\* those hang up.
ShutdownEnds == main = "close" ~> main = "exited"
==============================================================================
