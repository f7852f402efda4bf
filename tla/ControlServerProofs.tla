-------------------------- MODULE ControlServerProofs --------------------------
(***************************************************************************)
(* The safety invariants of ControlServer, proved for every set of         *)
(* connections and every supply of Box identities.                         *)
(***************************************************************************)
EXTENDS ControlServer, FiniteSetTheorems, TLAPS

Actors == Conns \cup {Main}

\* An operation between these points holds lifecycleMu.
Locked == {"built", "started", "detached"}

TaskType ==
  [at : {"none", "answer", "acting"} \cup Commands \cup Locked, box : Boxes \cup {None}]

\* lifecycleMu is held by whoever is between its Lock and its Unlock, and by
\* nobody else.
LockInv ==
  /\ task \in [Actors -> TaskType]
  /\ \A x \in Actors : task[x].at \in Locked <=> holder = x

\* The holder works on a Box of its own, while there is no other; without a
\* holder, the Box there may be is the instance.
BoxInv ==
  /\ \A x \in Actors : task[x].at \in Locked =>
       /\ instance = None
       /\ task[x].box \in Boxes
       /\ box[task[x].box] = IF task[x].at = "built" THEN "built" ELSE "started"
       /\ \A b \in Boxes : box[b] # "none" => b = task[x].box
  /\ holder = None => \A b \in Boxes : box[b] # "none" => b = instance
  /\ instance # None => box[instance] = "started"

\* Only a connection that is counted has a request; main has one task, to stop
\* the Box, and only at the end.
TasksInv ==
  /\ \A c \in Conns : conn[c] # "reading" => At(c, "none")
  /\ main \notin {"stopping", "exited"} => At(Main, "none")
  /\ main = "stopping" => task[Main].at \in {"stop", "detached", "answer"}

Closed == main \in {"closed", "stopping", "exited"}

\* Once Close has returned, the connections there are come from the one that
\* was accepted and not yet counted.
LateInv ==
  Closed =>
    /\ serve \in Conns => late /\ group = {}
    /\ ~late => group = {}
    /\ late => \E c \in Conns : group \subseteq {c}

\* What main's Stop, or finding nothing to stop, establishes.
StoppedInv ==
  ~late /\ (main = "exited" \/ (main = "stopping" /\ task[Main].at \in {"detached", "answer"}))
    => /\ instance = None
       /\ main = "exited" => holder = None

IInv == TypeOK /\ LockInv /\ BoxInv /\ TasksInv /\ LateInv /\ StoppedInv

-----------------------------------------------------------------------------
(* Core: the lock and the Box.                                              *)

USE DEF Actors, Commands, Locked, TaskType, NoTask

\* A Box identity is free for whoever may construct one.
LEMMA FreeExists ==
  ASSUME TypeOK, LockInv, BoxInv, holder = None, instance = None
  PROVE  /\ Free \in Boxes
         /\ box[Free] = "none"
<1> DEFINE used == {task[x].box : x \in Actors}
<1>1. IsFiniteSet(Actors) /\ Cardinality(Actors) = Cardinality(Conns) + 1
  BY FS_AddElement, ServerAssumption
<1>2. IsFiniteSet(used) /\ Cardinality(used) <= Cardinality(Actors)
  <2>1. [x \in Actors |-> task[x].box] \in Surjection(Actors, used)
    BY DEF Surjection
  <2> QED
    BY <1>1, <2>1, FS_Surjection
<1>3. ~(Boxes \subseteq used)
  <2>1. Boxes \subseteq used => Cardinality(Boxes) <= Cardinality(used)
    BY <1>2, FS_Subset
  <2>2. /\ Cardinality(Boxes) \in Nat /\ Cardinality(used) \in Nat
        /\ Cardinality(Conns) \in Nat /\ Cardinality(Actors) \in Nat
    BY <1>1, <1>2, FS_CardinalityType, ServerAssumption
  <2> HIDE DEF used
  <2> QED
    BY <1>1, <1>2, <2>1, <2>2, ServerAssumption
<1>4. PICK b \in Boxes : b \notin used
  BY <1>3
<1>5. box[b] = "none" /\ b # instance /\ \A x \in DOMAIN task : task[x].box # b
  BY <1>4, ServerAssumption DEF LockInv, BoxInv, TypeOK
<1> QED
  BY <1>5 DEF Free

\* Each step of an operation keeps the lock with whoever works on the Box.
LEMMA OperationKeepsLock ==
  ASSUME TypeOK, LockInv, BoxInv, NEW x \in Actors, Operation(x)
  PROVE  LockInv' /\ BoxInv'
<1> USE ServerAssumption DEF LockInv, BoxInv, TypeOK, At, Ends, Goes, server
<1>1. CASE StartLocks(x)
  <2>1. CASE Ends(x) /\ UNCHANGED <<holder, box>>
    BY <1>1, <2>1 DEF StartLocks
  <2>2. CASE /\ instance = None
             /\ box' = [box EXCEPT ![Free] = "built"]
             /\ holder' = x
             /\ Goes(x, "built", Free)
    <3>1. holder = None /\ instance' = None
      BY <1>1, <2>2 DEF StartLocks
    <3>2. Free \in Boxes /\ box[Free] = "none"
      BY <3>1, <2>2, FreeExists
    <3> HIDE DEF Free
    <3> QED
      BY <1>1, <2>2, <3>1, <3>2 DEF StartLocks
  <2> QED
    BY <1>1, <2>1, <2>2 DEF StartLocks
<1>2. CASE StartsBox(x)
  BY <1>2 DEF StartsBox
<1>3. CASE Publishes(x)
  BY <1>3 DEF Publishes
<1>4. CASE StopLocks(x)
  BY <1>4 DEF StopLocks
<1>5. CASE ClosesBox(x)
  BY <1>5 DEF ClosesBox
<1>6. CASE Picks(x)
  BY <1>6 DEF Picks
<1>7. CASE Answers(x)
  BY <1>7 DEF Answers
<1> QED
  BY <1>1, <1>2, <1>3, <1>4, <1>5, <1>6, <1>7 DEF Operation

LEMMA OperationType ==
  ASSUME TypeOK, LockInv, BoxInv, NEW x \in Actors, Operation(x)
  PROVE  TypeOK'
<1> USE ServerAssumption DEF LockInv, BoxInv, TypeOK, At, Ends, Goes, server
<1>1. UNCHANGED server /\ holder' \in {holder, None, x}
  BY DEF Operation, StartLocks, StartsBox, Publishes, StopLocks, ClosesBox, Picks, Answers
<1>3. instance' \in Boxes \cup {None}
  BY DEF Operation, StartLocks, StartsBox, Publishes, StopLocks, ClosesBox, Picks, Answers
<1>2. box' \in [Boxes -> {"none", "built", "started"}]
  <2>1. \/ box' = box
        \/ \E b : box' = [box EXCEPT ![b] = "none"]
        \/ \E b : box' = [box EXCEPT ![b] = "built"]
        \/ \E b : box' = [box EXCEPT ![b] = "started"]
    BY DEF Operation, StartLocks, StartsBox, Publishes, StopLocks, ClosesBox, Picks, Answers
  <2> QED
    BY <2>1
<1> QED
  BY <1>1, <1>2, <1>3

\* Only what main and a counted connection do moves an operation on.
LEMMA OperationOfCounted ==
  ASSUME TypeOK, LockInv, TasksInv, NEW x \in Actors, Operation(x), main # "exited"
  PROVE  /\ UNCHANGED server
         /\ x \in Conns => conn[x] = "reading"
         /\ x = Main => /\ main = "stopping"
                        /\ StopLocks(x) \/ ClosesBox(x)
         /\ task' = [task EXCEPT ![x] = task'[x]]
<1> USE ServerAssumption DEF LockInv, TypeOK, At, Ends, Goes
<1>1. task[x].at \notin {"none", "answer"}
  BY DEF Operation, StartLocks, StartsBox, Publishes, StopLocks, ClosesBox, Picks, Answers
<1>2. UNCHANGED server
  BY DEF Operation, StartLocks, StartsBox, Publishes, StopLocks, ClosesBox, Picks, Answers
<1>4. \E t : task' = [task EXCEPT ![x] = t]
  BY DEF Operation, StartLocks, StartsBox, Publishes, StopLocks, ClosesBox, Picks, Answers
<1>3. x = Main => /\ main = "stopping"
                  /\ StopLocks(x) \/ ClosesBox(x)
  BY <1>1 DEF TasksInv, Operation, StartLocks, StartsBox, Publishes, Picks, Answers
<1> QED
  BY <1>1, <1>2, <1>3, <1>4 DEF TasksInv

LEMMA OperationKeepsRest ==
  ASSUME IInv, NEW x \in Actors, Operation(x), main # "exited"
  PROVE  TasksInv' /\ LateInv' /\ StoppedInv'
<1> USE ServerAssumption DEF IInv, LockInv, TypeOK
<1>1. /\ UNCHANGED server
      /\ x \in Conns => conn[x] = "reading"
      /\ x = Main => main = "stopping" /\ (StopLocks(x) \/ ClosesBox(x))
      /\ task' = [task EXCEPT ![x] = task'[x]]
  BY OperationOfCounted
<1>2. x = Main => /\ task'[Main].at \in {"detached", "answer"}
                  /\ instance' = None
  BY <1>1 DEF StopLocks, ClosesBox, At, Ends, Goes, BoxInv
<1>3. TasksInv'
  BY <1>1, <1>2 DEF TasksInv, server, At
<1>4. LateInv'
  BY <1>1 DEF LateInv, Closed, server
<1>5. StoppedInv'
  <2> SUFFICES ASSUME ~late, main = "stopping"
               PROVE  instance' = None
    BY <1>1 DEF StoppedInv, server
  <2>1. x \notin Conns
    BY <1>1 DEF LateInv, Closed
  <2> QED
    BY <1>2, <2>1
<1> QED
  BY <1>3, <1>4, <1>5

-----------------------------------------------------------------------------
(* The server and main.                                                     *)

LEMMA InitIInv == Init => IInv
<1> SUFFICES ASSUME Init PROVE IInv
  OBVIOUS
<1> USE ServerAssumption DEF Init
<1> DEFINE first == CHOOSE b \in Boxes : TRUE
<1>1. first \in Boxes
  BY FS_EmptySet, FS_CardinalityType
<1> HIDE DEF first
<1>2. \/ instance = None /\ box = [b \in Boxes |-> "none"]
      \/ instance = first /\ box = [b \in Boxes |-> IF b = first THEN "started" ELSE "none"]
  BY DEF first
<1>3. TypeOK
  BY <1>1, <1>2 DEF TypeOK
<1>4. LockInv
  BY DEF LockInv
<1>5. BoxInv
  BY <1>1, <1>2 DEF BoxInv
<1>6. TasksInv /\ LateInv /\ StoppedInv
  BY DEF TasksInv, LateInv, Closed, StoppedInv, At
<1> QED
  BY <1>3, <1>4, <1>5, <1>6 DEF IInv

\* What leaves Core alone leaves its invariants alone.
LEMMA CoreUnchanged ==
  ASSUME LockInv, BoxInv, UNCHANGED core PROVE LockInv' /\ BoxInv'
BY DEF LockInv, BoxInv, core

\* A task that holds no lock before and after is none of Core's invariants'.
LEMMA TaskChanges ==
  ASSUME TypeOK, LockInv, BoxInv, NEW x \in Actors, NEW t \in TaskType,
         task[x].at \notin Locked, t.at \notin Locked,
         task' = [task EXCEPT ![x] = t], UNCHANGED <<holder, instance, box>>
  PROVE  LockInv' /\ BoxInv'
<1>1. LockInv'
  BY DEF LockInv
<1>2. BoxInv'
  BY DEF LockInv, BoxInv
<1> QED
  BY <1>1, <1>2

\* The steps of a connection.
LEMMA ConnectionStep ==
  ASSUME IInv, NEW c \in Conns,
         Dial(c) \/ HangUp(c) \/ Accept(c) \/ Count(c) \/ Done(c)
  PROVE  IInv'
<1> USE ServerAssumption DEF TypeOK, TasksInv, LateInv, StoppedInv, Closed, At, Listening
<1>a. /\ TypeOK /\ TasksInv /\ LateInv /\ StoppedInv
      /\ task \in [Actors -> TaskType]
  BY DEF IInv, LockInv
<1>0. LockInv' /\ BoxInv'
  BY CoreUnchanged DEF IInv, Dial, HangUp, Accept, Count, Done
<1>1. CASE Dial(c)
  BY <1>0, <1>1, <1>a DEF Dial, core, IInv
<1>2. CASE HangUp(c)
  BY <1>0, <1>2, <1>a DEF HangUp, core, IInv
<1>3. CASE Accept(c)
  BY <1>0, <1>3, <1>a DEF Accept, core, IInv
<1>4. CASE Count(c)
  BY <1>0, <1>4, <1>a DEF Count, core, IInv
<1>5. CASE Done(c)
  BY <1>0, <1>5, <1>a DEF Done, core, IInv
<1> QED
  BY <1>1, <1>2, <1>3, <1>4, <1>5

\* The steps of the accept loop and of main that no connection is in.
LEMMA ProcessStep ==
  ASSUME IInv,
         AcceptFails \/ ServeReturns \/ Shutdown \/ CloseListener \/ CloseReturns \/ Exit
  PROVE  IInv'
<1> USE ServerAssumption DEF TypeOK, TasksInv, LateInv, StoppedInv, Closed, At
<1>a. /\ TypeOK /\ TasksInv /\ LateInv /\ StoppedInv
      /\ task \in [Actors -> TaskType]
      /\ \A x \in Actors : task[x].at \in Locked <=> holder = x
  BY DEF IInv, LockInv
<1>0. LockInv' /\ BoxInv'
  BY CoreUnchanged DEF IInv, AcceptFails, ServeReturns, Shutdown, CloseListener,
     CloseReturns, Exit
<1>1. CASE AcceptFails
  BY <1>0, <1>1, <1>a DEF AcceptFails, core, IInv
<1>2. CASE ServeReturns
  BY <1>0, <1>2, <1>a DEF ServeReturns, core, IInv
<1>3. CASE Shutdown
  BY <1>0, <1>3, <1>a DEF Shutdown, core, IInv
<1>4. CASE CloseListener
  BY <1>0, <1>4, <1>a DEF CloseListener, core, IInv
<1>5. CASE CloseReturns
  <2>1. \/ serve \in Conns /\ late' = TRUE
        \/ serve \notin Conns /\ late' = FALSE
    <3>1. late' = (serve \in Conns)
      BY ONLY <1>5, Zenon DEF CloseReturns
    <3>2. CASE serve \in Conns
      <4>1. (serve \in Conns) = TRUE
        BY <3>2
      <4> QED
        BY ONLY <3>1, <3>2, <4>1
    <3>3. CASE serve \notin Conns
      <4>1. (serve \in Conns) = FALSE
        BY <3>3
      <4> QED
        BY ONLY <3>1, <3>3, <4>1
    <3> QED
      BY <3>2, <3>3
  <2>2. main' = "closed" /\ group = {} /\ main = "wait"
        /\ UNCHANGED <<closed, serve, conn, open, group, task, holder, instance, box>>
    BY <1>5 DEF CloseReturns, core
  <2>3. TypeOK'
    BY <1>a, <2>1, <2>2
  <2>4. TasksInv' /\ StoppedInv'
    BY <1>a, <2>2
  <2>5. LateInv'
    BY <1>a, <2>1, <2>2
  <2> QED
    BY <1>0, <2>3, <2>4, <2>5 DEF IInv
<1>6. CASE Exit
  <2>1. ~late => instance = None /\ holder = None
    BY <1>6, <1>a DEF Exit
  <2> QED
    BY <1>0, <1>6, <1>a, <2>1 DEF Exit, core, IInv
<1> QED
  BY <1>1, <1>2, <1>3, <1>4, <1>5, <1>6

\* A request, its answer, and main's one request.
LEMMA TaskStep ==
  ASSUME IInv, NEW c \in Actors, (c \in Conns /\ (Request(c) \/ Respond(c))) \/ StopIfRunning
  PROVE  IInv'
<1> USE ServerAssumption DEF TypeOK, LockInv, At, Goes, core, server
<1>a. TypeOK /\ LockInv /\ BoxInv /\ TasksInv /\ LateInv /\ StoppedInv
  BY DEF IInv
<1>1. CASE c \in Conns /\ Request(c)
  <2>1. PICK cmd \in Commands : task' = [task EXCEPT ![c] = [at |-> cmd, box |-> None]]
    BY <1>1 DEF Request
  <2>2. LockInv' /\ BoxInv'
    BY <1>1, <1>a, <2>1, TaskChanges DEF Request
  <2>3. TypeOK' /\ TasksInv' /\ LateInv' /\ StoppedInv'
    BY <1>1, <1>a, <2>1 DEF Request, TasksInv, LateInv, StoppedInv, Closed
  <2> QED
    BY <2>2, <2>3 DEF IInv
<1>2. CASE c \in Conns /\ Respond(c)
  <2>1. LockInv' /\ BoxInv'
    BY <1>2, <1>a, TaskChanges DEF Respond
  <2>2. TypeOK' /\ TasksInv' /\ LateInv' /\ StoppedInv'
    BY <1>2, <1>a DEF Respond, TasksInv, LateInv, StoppedInv, Closed
  <2> QED
    BY <2>1, <2>2 DEF IInv
<1>3. CASE StopIfRunning
  <2>1. LockInv' /\ BoxInv'
    <3>1. CASE UNCHANGED task
      BY <1>3, <1>a, <3>1, CoreUnchanged DEF StopIfRunning
    <3>2. CASE task' = [task EXCEPT ![Main] = [at |-> "stop", box |-> None]]
      <4>1. task[Main].at = "none"
        BY <1>3, <1>a DEF StopIfRunning, TasksInv
      <4> QED
        BY <1>3, <1>a, <3>2, <4>1, TaskChanges DEF StopIfRunning
    <3> QED
      BY <1>3, <3>1, <3>2 DEF StopIfRunning
  <2>2. TypeOK' /\ TasksInv' /\ LateInv'
    BY <1>3, <1>a DEF StopIfRunning, TasksInv, LateInv, Closed
  <2>3. StoppedInv'
    BY <1>3, <1>a DEF StopIfRunning, TasksInv, LateInv, StoppedInv, Closed
  <2> QED
    BY <2>1, <2>2, <2>3 DEF IInv
<1> QED
  BY <1>1, <1>2, <1>3

LEMMA NextIInv == IInv /\ [Next]_vars => IInv'
<1> SUFFICES ASSUME IInv, [Next]_vars PROVE IInv'
  OBVIOUS
<1>1. CASE UNCHANGED vars
  BY <1>1 DEF vars, IInv, TypeOK, LockInv, BoxInv, TasksInv, LateInv, StoppedInv, Closed, At
<1>2. ASSUME Up, NEW x \in DOMAIN task, Operation(x) PROVE IInv'
  <2>1. x \in Actors /\ main # "exited"
    BY <1>2 DEF Up, IInv, LockInv
  <2> QED
    BY <1>2, <2>1, OperationKeepsLock, OperationType, OperationKeepsRest DEF IInv
<1>3. ASSUME NEW c \in Conns, Dial(c) \/ HangUp(c) \/ Handle(c) \/ Accept(c) \/ Count(c)
      PROVE  IInv'
  BY <1>3, ConnectionStep, TaskStep DEF Handle
<1>4. CASE Shutdown \/ MainStep \/ AcceptFails \/ ServeReturns
  BY <1>4, ProcessStep, TaskStep DEF MainStep
<1> QED
  BY <1>1, <1>2, <1>3, <1>4 DEF Next, Loop

-----------------------------------------------------------------------------
(* What follows from the invariant.                                         *)

LEMMA Inductive == Spec => []IInv
BY InitIInv, NextIInv, PTL DEF Spec

\* Type correctness.
THEOREM TypeCorrect == Spec => []TypeOK
<1>1. IInv => TypeOK
  BY DEF IInv
<1> QED
  BY <1>1, Inductive, PTL

\* At most one Box exists, and requests never see one that is half built or
\* being closed, for any number of clients.
THEOREM OneBoxEver == Spec => []OneBox
<1>1. IInv => OneBox
  <2> SUFFICES ASSUME IInv PROVE OneBox
    OBVIOUS
  <2> DEFINE there == {b \in Boxes : box[b] # "none"}
  <2>1. \E b : there \subseteq {b}
    BY DEF IInv, LockInv, BoxInv, TypeOK
  <2>2. Cardinality(there) <= 1
    <3>1. PICK b : there \subseteq {b}
      BY <2>1
    <3>2. Cardinality(there) <= Cardinality({b}) /\ Cardinality({b}) = 1
      BY <3>1, FS_Singleton, FS_Subset
    <3> QED
      BY <3>2
  <2> QED
    BY <2>2 DEF OneBox, IInv, BoxInv
<1> QED
  BY <1>1, Inductive, PTL

\* Close leaves at most the one connection behind that was not yet counted.
THEOREM CloseWaits == Spec => []OneLateConnection
<1>1. IInv => OneLateConnection
  <2> SUFFICES ASSUME IInv, Closed PROVE Cardinality(group) <= (IF late THEN 1 ELSE 0)
    BY DEF OneLateConnection, Closed
  <2>1. CASE ~late
    BY <2>1, FS_EmptySet DEF IInv, LateInv
  <2>2. CASE late
    <3>1. PICK c \in Conns : group \subseteq {c}
      BY <2>2 DEF IInv, LateInv
    <3>2. Cardinality(group) <= Cardinality({c}) /\ Cardinality({c}) = 1
      BY <3>1, FS_Singleton, FS_Subset
    <3> QED
      BY <2>2, <3>2
  <2> QED
    BY <2>1, <2>2
<1> QED
  BY <1>1, Inductive, PTL

\* The process leaves no Box behind, unless that connection starts one.
THEOREM ExitLeavesNoBox == Spec => []NoBoxLeft
<1>1. IInv => NoBoxLeft
  BY ServerAssumption DEF IInv, StoppedInv, BoxInv, TypeOK, NoBoxLeft
<1> QED
  BY <1>1, Inductive, PTL
==============================================================================
