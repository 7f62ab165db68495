-------------------------- MODULE QueueSystemProofs ---------------------------
(***************************************************************************)
(* Proofs about TaskQueueSystem, for any servers, commands, agents, tasks  *)
(* and runs: an inductive invariant of the locked store together with the  *)
(* handlers that take no lock, and the properties of the run queue_system. *)
(***************************************************************************)
EXTENDS TaskQueueSystem, TaskStoreProofs

-----------------------------------------------------------------------------
(* The inductive invariant.  The parts before the last hold whatever the        *)
(* unlocked handlers have overwritten, the last until they overwrite a change.  *)

UnlockedLabels == {"idle", "apply", "pr", "save", "results", "dashboard", "audit"}

SysTypes ==
  /\ queue \in Queue
  /\ runs \in [RunIds -> RunRecord \cup {None}]
  /\ lock \in Clients \cup {None}
  /\ pc \in [Clients -> Labels] /\ req \in [Clients -> Request] /\ snap \in [Clients -> Queue]
  /\ granted \subseteq RunIds
  /\ opc \in [Clients -> UnlockedLabels] /\ change \in [Clients -> Changes]
  /\ copy \in [Clients -> Queue]

OneHandlerEach == \A c \in Clients : pc[c] # "idle" => opc[c] = "idle"

Writing == {"results", "dashboard", "audit", "unlock"}

(* The run of a checkout under way is its own, and exists once it is created. *)
RunIsOwn ==
  \A c \in Clients : req[c].op = "checkout" =>
    /\ req[c].run \notin granted
    /\ \A d \in Clients : d # c /\ req[d].op = "checkout" => req[d].run # req[c].run
    /\ pc[c] \in {"lock", "load", "decide", "create"} => runs[req[c].run] = None
    /\ pc[c] \in {"write"} \cup Writing =>
         runs[req[c].run] = [state |-> "created", task |-> req[c].task, agent |-> req[c].agent]

GrantedExist == \A r \in granted : runs[r] # None

(* A pointer, on disk or in the memory of a handler, names a run of its task, and
   not one that a checkout has yet to write. *)
Pointing(q) ==
  /\ \A t \in Tasks : q[t].run # None => runs[q[t].run] # None /\ runs[q[t].run].task = t
  /\ \A c \in Clients : req[c].op = "checkout" /\ pc[c] = "write" =>
       \A t \in Tasks : q[t].run # req[c].run

PointersHold == Pointing(queue) /\ \A c \in Clients : Pointing(snap[c]) /\ Pointing(copy[c])

(* What was decided still holds of the copy that will be written. *)
Decided ==
  \A c \in Clients :
    /\ req[c].op = "checkout" /\ pc[c] \in {"create", "write"} =>
         Loaded(c).status \in CheckoutableStates /\ ~Active(Loaded(c).run)
    /\ req[c].op \in {"transition", "ready"} /\ pc[c] = "write" =>
         IsLegalTaskTransition(Loaded(c).status, req[c].to)

(* The change an unlocked handler makes: an audited one moves a task that the copy
   holds, along the table if it is about to be saved. *)
ChangeIsDue ==
  \A c \in Clients :
    /\ opc[c] \in {"apply", "pr"} => change[c].audited
    /\ opc[c] = "audit" => change[c].audited
    /\ opc[c] \in {"apply", "pr", "save"} /\ change[c].audited =>
         /\ change[c].task \in Tasks
         /\ copy[c][change[c].task].status # "absent"
         /\ opc[c] # "apply" => IsLegalTaskTransition(copy[c][change[c].task].status, change[c].to)

Unlogged ==
  {c \in Clients : \/ pc[c] \in {"results", "dashboard", "audit"}
                   \/ opc[c] \in {"results", "dashboard", "audit"} /\ change[c].audited}

EventsCounted ==
  /\ writes \in Nat /\ logged \in Nat /\ crashes \in Nat /\ silent \in Nat
  /\ IsFiniteSet(Unlogged)
  /\ EventsMatchWrites

(* The pointers of a copy loaded under the lock are those on disk, and a live run
   that an agent holds is the one its task points to. *)
NothingLost ==
  /\ \A c \in Clients : pc[c] \in LockedLabels \ {"load"} =>
       \A t \in Tasks : snap[c][t].run = queue[t].run
  /\ \A c \in Clients : req[c].op = "checkout" /\ pc[c] \in Writing =>
       queue[req[c].task].run = req[c].run
  /\ \A r \in granted : Active(r) => queue[runs[r].task].run = r

Files == RunIsOwn /\ GrantedExist /\ PointersHold /\ Decided

SysInv ==
  /\ SysTypes /\ LockOwner /\ RequestShape /\ OneHandlerEach
  /\ Files
  /\ ChangeIsDue
  /\ EventsCounted
  /\ ~clobbered => NothingLost

-----------------------------------------------------------------------------
(* The count of events: what a step does to the handlers that owe one.          *)
LEMMA EventsStep ==
  ASSUME EventsCounted, NEW c \in Clients,
         \/ Unlogged' = Unlogged /\ UNCHANGED <<writes, logged, crashes, silent>>
         \/ Unlogged' = Unlogged /\ writes' = writes + 1 /\ silent' = silent + 1
            /\ UNCHANGED <<logged, crashes>>
         \/ c \notin Unlogged /\ Unlogged' = Unlogged \cup {c} /\ writes' = writes + 1
            /\ UNCHANGED <<logged, crashes, silent>>
         \/ c \in Unlogged /\ Unlogged' = Unlogged \ {c} /\ logged' = logged + 1
            /\ UNCHANGED <<writes, crashes, silent>>
         \/ Unlogged' = Unlogged \ {c} /\ crashes' = crashes + 1
            /\ UNCHANGED <<writes, logged, silent>>
  PROVE  EventsCounted'
<1> DEFINE n == Cardinality(Unlogged)
           m == Cardinality(Unlogged')
<1>1. /\ writes \in Nat /\ logged \in Nat /\ crashes \in Nat /\ silent \in Nat
      /\ n \in Nat /\ logged + silent + n <= writes /\ writes <= logged + silent + n + crashes
  BY FS_CardinalityType DEF EventsCounted, EventsMatchWrites, Unlogged
<1>2. /\ IsFiniteSet(Unlogged)
      /\ IsFiniteSet(Unlogged \cup {c}) /\ IsFiniteSet(Unlogged \ {c})
      /\ c \notin Unlogged => Cardinality(Unlogged \cup {c}) = n + 1
      /\ c \in Unlogged => Cardinality(Unlogged \ {c}) = n - 1
      /\ c \notin Unlogged => Unlogged \ {c} = Unlogged
  BY FS_AddElement, FS_RemoveElement DEF EventsCounted
<1>3. IsFiniteSet(Unlogged')  BY <1>2
<1> HIDE DEF n, m
<1>4. /\ writes' \in Nat /\ logged' \in Nat /\ crashes' \in Nat /\ silent' \in Nat
      /\ logged' + silent' + m <= writes' /\ writes' <= logged' + silent' + m + crashes'
  <2>1. CASE Unlogged' = Unlogged /\ UNCHANGED <<writes, logged, crashes, silent>>
    BY <1>1, <2>1 DEF n, m
  <2>2. CASE Unlogged' = Unlogged /\ writes' = writes + 1 /\ silent' = silent + 1
             /\ UNCHANGED <<logged, crashes>>
    <3>1. m = n  BY <2>2 DEF n, m
    <3> QED  BY <1>1, <2>2, <3>1
  <2>3. CASE c \notin Unlogged /\ Unlogged' = Unlogged \cup {c} /\ writes' = writes + 1
             /\ UNCHANGED <<logged, crashes, silent>>
    <3>1. m = n + 1  BY <1>2, <2>3 DEF m
    <3> QED  BY <1>1, <2>3, <3>1
  <2>4. CASE c \in Unlogged /\ Unlogged' = Unlogged \ {c} /\ logged' = logged + 1
             /\ UNCHANGED <<writes, crashes, silent>>
    <3>1. m = n - 1  BY <1>2, <2>4 DEF m
    <3> QED  BY <1>1, <2>4, <3>1
  <2>5. CASE Unlogged' = Unlogged \ {c} /\ crashes' = crashes + 1
             /\ UNCHANGED <<writes, logged, silent>>
    <3>1. m = n \/ m = n - 1  BY <1>2, <2>5 DEF m, n
    <3>2. m \in Nat  BY <1>3, FS_CardinalityType DEF m
    <3> QED  BY <1>1, <2>5, <3>1, <3>2
  <2> QED  BY <2>1, <2>2, <2>3, <2>4, <2>5
<1>5. EventsMatchWrites'  BY <1>4 DEF EventsMatchWrites, Unlogged, m
<1> QED  BY <1>3, <1>4, <1>5 DEF EventsCounted

-----------------------------------------------------------------------------
(* Steps of the agent API.  None of them touches what the unlocked handlers     *)
(* hold, except for a write over a queue they changed.                          *)

AgentKeeps == UNCHANGED <<kind, opc, change, copy, branches, silent>>

(* The step moves the handler on, and leaves the files the proofs speak of.     *)
LEMMA OnwardsInv ==
  ASSUME SysInv, NEW c \in Clients, AgentKeeps, ~clobbered' => ~clobbered,
         \/ AcquireLock(c) \/ LoadQueue(c) \/ CheckoutFresh(c) \/ TransitionAccepted(c)
         \/ ReadyAccepted(c) \/ WriteResultsMirror(c) \/ WriteDashboardMirror(c) \/ AppendAudit(c)
  PROVE  SysInv'
<1> DEFINE p == pc'[c]
<1>1. /\ UNCHANGED <<queue, runs, granted, req, crashes, writes>> /\ pc[c] # "idle"
      /\ pc' = [pc EXCEPT ![c] = p]
      /\ \/ pc[c] = "lock" /\ p = "load" /\ lock = None /\ lock' = c /\ snap' = snap /\ logged' = logged
         \/ pc[c] = "load" /\ p = "decide" /\ lock' = lock /\ snap' = [snap EXCEPT ![c] = queue] /\ logged' = logged
         \/ /\ pc[c] = "decide" /\ p = "create" /\ lock' = lock /\ snap' = snap /\ logged' = logged
            /\ req[c].op = "checkout" /\ Loaded(c).status \in CheckoutableStates /\ ~Active(Loaded(c).run)
         \/ /\ pc[c] = "decide" /\ p = "write" /\ lock' = lock /\ snap' = snap /\ logged' = logged
            /\ req[c].op \in {"transition", "ready"} /\ IsLegalTaskTransition(Loaded(c).status, req[c].to)
         \/ pc[c] = "lookup" /\ p = "lock" /\ lock' = lock /\ snap' = snap /\ logged' = logged
         \/ pc[c] = "results" /\ p = "dashboard" /\ lock' = lock /\ snap' = snap /\ logged' = logged
         \/ pc[c] = "dashboard" /\ p = "audit" /\ lock' = lock /\ snap' = snap /\ logged' = logged
         \/ pc[c] = "audit" /\ p = "unlock" /\ lock' = lock /\ snap' = snap /\ logged' = logged + 1
  BY DEF SysInv, SysTypes, AcquireLock, LoadQueue, CheckoutFresh, TransitionAccepted,
         ReadyAccepted, WriteResultsMirror, WriteDashboardMirror, AppendAudit
<1>2. SysTypes /\ LockOwner /\ RequestShape /\ OneHandlerEach /\ RunIsOwn /\ GrantedExist
      /\ PointersHold /\ Decided /\ ChangeIsDue /\ EventsCounted /\ (~clobbered => NothingLost)
  BY DEF SysInv, Files
<1> HIDE DEF p
<1>3. SysTypes'
  BY <1>1, <1>2 DEF SysTypes, Labels, AgentKeeps
<1>4. LockOwner' /\ OneHandlerEach'
  BY <1>1, <1>2, NoneIsNew DEF SysTypes, LockOwner, OneHandlerEach, LockedLabels, AgentKeeps
<1>5. RequestShape'
  BY <1>1, <1>2 DEF SysTypes, RequestShape, LockedLabels
<1>6. RunIsOwn' /\ GrantedExist'
  BY <1>1, <1>2 DEF SysTypes, RunIsOwn, GrantedExist, RequestShape, Writing
<1>7. PointersHold'
  BY <1>1, <1>2 DEF SysTypes, PointersHold, Pointing, AgentKeeps
<1>8. Decided'
  BY <1>1, <1>2 DEF SysTypes, Decided, Loaded, Active
<1>9. ChangeIsDue'
  BY <1>2 DEF ChangeIsDue, AgentKeeps
<1>10. EventsCounted'
  <2>1. Unlogged' = IF pc[c] = "audit" THEN Unlogged \ {c} ELSE Unlogged
    BY <1>1, <1>2 DEF SysTypes, Unlogged, AgentKeeps, OneHandlerEach
  <2>2. pc[c] = "audit" => c \in Unlogged  BY DEF Unlogged
  <2> QED  BY <1>1, <1>2, <2>1, <2>2, EventsStep DEF AgentKeeps
<1>11. ~clobbered' => NothingLost'
  BY <1>1, <1>2 DEF SysTypes, NothingLost, LockedLabels, Writing, Active
<1> QED  BY <1>3, <1>4, <1>5, <1>6, <1>7, <1>8, <1>9, <1>10, <1>11 DEF SysInv, Files

(* Pointers are kept by a step that ends no run and only copies queues about.    *)
LEMMA PointersCopied ==
  ASSUME PointersHold, RequestShape, queue' = queue, copy' = copy,
         \A r : runs[r] # None => runs'[r] # None /\ runs'[r].task = runs[r].task,
         \A d \in Clients : snap'[d] \in {snap[d], queue, EmptyQueue},
         \A d \in Clients : req'[d].op = "checkout" /\ pc'[d] = "write" =>
           req[d].op = "checkout" /\ pc[d] = "write" /\ req'[d].run = req[d].run
  PROVE  PointersHold'
<1> DEFINE Now(q) ==
      /\ \A t \in Tasks : q[t].run # None => runs'[q[t].run] # None /\ runs'[q[t].run].task = t
      /\ \A c \in Clients : req'[c].op = "checkout" /\ pc'[c] = "write" =>
           \A t \in Tasks : q[t].run # req'[c].run
<1>1. ASSUME NEW q, Pointing(q)  PROVE Now(q)  BY <1>1 DEF Pointing
<1>2. ASSUME NEW d \in Clients, snap'[d] = EmptyQueue  PROVE Now(EmptyQueue)
  <2>1. \A t \in Tasks : EmptyQueue[t].run = None  BY DEF EmptyQueue
  <2>2. \A e \in Clients : req[e].op = "checkout" => req[e].run # None
    BY NoneIsNew DEF RequestShape
  <2> QED  BY <2>1, <2>2
<1>3. \A d \in Clients : Now(snap'[d])
  BY <1>1, <1>2 DEF PointersHold
<1> QED  BY <1>1, <1>3 DEF PointersHold, Pointing

(* An answer clears the request and frees the lock it held.                     *)
LEMMA SysAnswer ==
  ASSUME SysInv, NEW c \in Clients, AgentKeeps, Answer(c), queue' = queue, pc[c] # "idle",
         granted \subseteq granted', granted' \subseteq RunIds,
         runs' \in [RunIds -> RunRecord \cup {None}]
  PROVE  /\ SysTypes' /\ LockOwner' /\ OneHandlerEach' /\ RequestShape' /\ ChangeIsDue'
         /\ pc'[c] = "idle" /\ req'[c].op = "none"
         /\ \A d \in Clients : d # c => /\ pc'[d] = pc[d] /\ req'[d] = req[d] /\ snap'[d] = snap[d]
         /\ snap'[c] = EmptyQueue
         /\ Unlogged' = Unlogged \ {c}
<1>1. SysTypes /\ LockOwner /\ RequestShape /\ OneHandlerEach /\ ChangeIsDue
  BY DEF SysInv
<1>2. /\ pc' \in [Clients -> Labels] /\ req' \in [Clients -> Request]
      /\ snap' \in [Clients -> Queue] /\ lock' \in Clients \cup {None}
      /\ pc'[c] = "idle" /\ req'[c] = NoRequest /\ req'[c].op = "none" /\ snap'[c] = EmptyQueue
      /\ \A d \in Clients : d # c => /\ pc'[d] = pc[d] /\ req'[d] = req[d] /\ snap'[d] = snap[d]
  BY <1>1, RunStateNames DEF Answer, SysTypes, Labels, Request, NoRequest, TaskStatuses,
                             EmptyQueue, Queue, TaskRecord
<1>3. SysTypes'  BY <1>1, <1>2 DEF SysTypes, AgentKeeps
<1>4. LockOwner' /\ OneHandlerEach'
  BY <1>1, <1>2, NoneIsNew DEF Answer, LockOwner, OneHandlerEach, LockedLabels, AgentKeeps
<1>5. RequestShape'
  BY <1>1, <1>2 DEF RequestShape, LockedLabels, NoRequest
<1>6. ChangeIsDue'  BY <1>1 DEF ChangeIsDue, AgentKeeps
<1>7. Unlogged' = Unlogged \ {c}
  BY <1>1, <1>2 DEF Unlogged, OneHandlerEach, AgentKeeps
<1> QED  BY <1>2, <1>3, <1>4, <1>5, <1>6, <1>7

(* Nothing is written.                                                          *)
LEMMA SysRefusedInv ==
  ASSUME SysInv, NEW c \in Clients, AgentKeeps, ~clobbered' => ~clobbered,
         \/ CheckoutRefused(c) \/ TransitionRefused(c) \/ ReadyRefused(c) \/ Crash(c)
  PROVE  SysInv'
<1>1. /\ Answer(c) /\ UNCHANGED <<queue, runs, granted, writes, logged>> /\ pc[c] # "idle"
      /\ \/ pc[c] \in {"decide", "lookup"} /\ crashes' = crashes
         \/ crashes' = crashes + 1
  BY DEF CheckoutRefused, TransitionRefused, ReadyRefused, Crash
<1>2. /\ SysTypes /\ RunIsOwn /\ GrantedExist /\ PointersHold /\ Decided /\ EventsCounted
      /\ OneHandlerEach /\ (~clobbered => NothingLost)
  BY DEF SysInv, Files
<1>3. /\ SysTypes' /\ LockOwner' /\ OneHandlerEach' /\ RequestShape' /\ ChangeIsDue'
      /\ pc'[c] = "idle" /\ req'[c].op = "none"
      /\ \A d \in Clients : d # c => /\ pc'[d] = pc[d] /\ req'[d] = req[d] /\ snap'[d] = snap[d]
      /\ snap'[c] = EmptyQueue
      /\ Unlogged' = Unlogged \ {c}
  BY <1>1, <1>2, SysAnswer DEF SysTypes
<1>4. RunIsOwn' /\ GrantedExist'
  BY <1>1, <1>2, <1>3 DEF RunIsOwn, GrantedExist
<1>5. PointersHold'
  <2>1. \A d \in Clients : snap'[d] \in {snap[d], queue, EmptyQueue}  BY <1>3
  <2>2. RequestShape  BY DEF SysInv
  <2> QED  BY <1>1, <1>2, <1>3, <2>1, <2>2, PointersCopied DEF AgentKeeps
<1>6. Decided'  BY <1>1, <1>2, <1>3 DEF Decided, Loaded, Active
<1>7. EventsCounted'
  <2>1. pc[c] \in {"decide", "lookup"} => c \notin Unlogged
    BY <1>2 DEF Unlogged, OneHandlerEach
  <2> QED  BY <1>1, <1>2, <1>3, <2>1, EventsStep DEF AgentKeeps
<1>8. ~clobbered' => NothingLost'
  BY <1>1, <1>2, <1>3 DEF NothingLost, LockedLabels, Writing, Active
<1> QED  BY <1>3, <1>4, <1>5, <1>6, <1>7, <1>8 DEF SysInv, Files

(* A run already granted, or the one the checkout wrote, is handed out.         *)
LEMMA SysGrantInv ==
  ASSUME SysInv, NEW c \in Clients, AgentKeeps, ~clobbered' => ~clobbered,
         CheckoutResumed(c) \/ Return(c)
  PROVE  SysInv'
<1>1. /\ SysTypes /\ RunIsOwn /\ GrantedExist /\ PointersHold /\ Decided /\ EventsCounted
      /\ LockOwner /\ RequestShape /\ OneHandlerEach /\ (~clobbered => NothingLost)
  BY DEF SysInv, Files
<1> DEFINE t == req[c].task
<1>2. /\ granted \subseteq granted'
      /\ \A r \in granted' : \/ r \in granted
                             \/ /\ r \in RunIds /\ runs[r] # None
                                /\ t \in Tasks /\ runs[r].task = t
                                /\ \/ r = snap[c][t].run /\ pc[c] = "decide"
                                   \/ r = req[c].run /\ req[c].op = "checkout" /\ pc[c] = "unlock"
  <2>1. CASE CheckoutResumed(c)
    <3>1. /\ t \in Tasks /\ pc[c] = "decide" /\ Active(snap[c][t].run)
          /\ granted' = granted \cup {snap[c][t].run}
      BY <1>1, <2>1 DEF CheckoutResumed, RequestShape, Loaded
    <3>2. snap[c][t].run \in RunIds /\ runs[snap[c][t].run] # None
      BY <1>1, <3>1 DEF Active, SysTypes, Queue, TaskRecord
    <3>3. runs[snap[c][t].run].task = t
      BY <1>1, <3>1 DEF PointersHold, Pointing, Active
    <3> QED  BY <3>1, <3>2, <3>3
  <2>2. CASE Return(c) /\ req[c].op = "checkout"
    <3>1. /\ req[c].run \in RunIds /\ t \in Tasks /\ req[c].agent \in Agents
          /\ runs[req[c].run] = [state |-> "created", task |-> t, agent |-> req[c].agent]
      BY <1>1, <2>2 DEF Return, RequestShape, RunIsOwn, Writing
    <3>2. runs[req[c].run] # None
      BY <3>1, NoneIsNew, RunStateNames DEF RunRecord
    <3> QED  BY <2>2, <3>1, <3>2 DEF Return
  <2>3. CASE Return(c) /\ req[c].op # "checkout"
    BY <2>3 DEF Return
  <2> QED  BY <2>1, <2>2, <2>3
<1>3. /\ Answer(c) /\ UNCHANGED <<queue, runs, writes, logged, crashes>> /\ lock = c
      /\ pc[c] \in {"decide", "unlock"}
  BY <1>1 DEF CheckoutResumed, Return, LockOwner, LockedLabels
<1>4. /\ SysTypes' /\ LockOwner' /\ OneHandlerEach' /\ RequestShape' /\ ChangeIsDue'
      /\ pc'[c] = "idle" /\ req'[c].op = "none"
      /\ \A d \in Clients : d # c => /\ pc'[d] = pc[d] /\ req'[d] = req[d] /\ snap'[d] = snap[d]
      /\ snap'[c] = EmptyQueue
      /\ Unlogged' = Unlogged \ {c}
  BY <1>1, <1>2, <1>3, SysAnswer DEF SysTypes
<1>5. RunIsOwn' /\ GrantedExist'
  <2>1. \A d \in Clients : d # c /\ req[d].op = "checkout" => runs[req[d].run] = None
    <3>1. \A d \in Clients : d # c => pc[d] \notin LockedLabels  BY <1>1, <1>3 DEF LockOwner
    <3>2. \A d \in Clients : req[d].op = "checkout" => pc[d] \in LockedLabels \cup {"lock"}
      BY <1>1 DEF SysTypes, RequestShape, Labels, LockedLabels, NoRequest
    <3> QED  BY <1>1, <3>1, <3>2 DEF RunIsOwn
  <2> QED  BY <1>1, <1>2, <1>3, <1>4, <2>1 DEF RunIsOwn, GrantedExist
<1>6. PointersHold'
  <2>1. \A d \in Clients : snap'[d] \in {snap[d], queue, EmptyQueue}  BY <1>4
  <2> QED  BY <1>1, <1>3, <1>4, <2>1, PointersCopied DEF AgentKeeps
<1>7. Decided'  BY <1>1, <1>3, <1>4 DEF Decided, Loaded, Active
<1>8. EventsCounted'
  <2>1. c \notin Unlogged  BY <1>1, <1>3 DEF Unlogged, OneHandlerEach
  <2> QED  BY <1>1, <1>3, <1>4, <2>1, EventsStep DEF AgentKeeps
<1>9. ~clobbered' => NothingLost'
  <2> SUFFICES ASSUME NothingLost PROVE NothingLost'  BY <1>1
  <2>1. \A q \in granted' : Active(q) => queue[runs[q].task].run = q
    BY <1>2 DEF NothingLost, LockedLabels, Writing
  <2> QED  BY <1>3, <1>4, <2>1 DEF NothingLost, LockedLabels, Writing, Active
<1> QED  BY <1>4, <1>5, <1>6, <1>7, <1>8, <1>9 DEF SysInv, Files

(* The file of the run appears, which no pointer names yet.                     *)
LEMMA SysCreateRunInv ==
  ASSUME SysInv, NEW c \in Clients, AgentKeeps, ~clobbered' => ~clobbered, CreateRun(c)
  PROVE  SysInv'
<1>1. /\ SysTypes /\ RunIsOwn /\ GrantedExist /\ PointersHold /\ Decided /\ EventsCounted
      /\ LockOwner /\ RequestShape /\ OneHandlerEach /\ ChangeIsDue /\ (~clobbered => NothingLost)
  BY DEF SysInv, Files
<1> DEFINE r == req[c].run
           new == [state |-> "created", task |-> req[c].task, agent |-> req[c].agent]
<1>2. /\ pc[c] = "create" /\ req[c].op = "checkout" /\ r \in RunIds /\ runs[r] = None
      /\ new \in RunRecord /\ r \notin granted
  BY <1>1, RunStateNames DEF CreateRun, RequestShape, RunIsOwn, RunRecord
<1>3. /\ runs' \in [RunIds -> RunRecord \cup {None}] /\ runs'[r] = new /\ new # None
      /\ \A q \in RunIds : q # r => runs'[q] = runs[q]
      /\ pc' = [pc EXCEPT ![c] = "write"]
      /\ UNCHANGED <<queue, lock, req, snap, granted, writes, logged, crashes>>
  BY <1>1, <1>2, NoneIsNew DEF CreateRun, SysTypes
<1>4. \A d \in Clients : pc'[d] = IF d = c THEN "write" ELSE pc[d]
  BY <1>1, <1>3 DEF SysTypes
<1>5. SysTypes'  BY <1>1, <1>3 DEF SysTypes, Labels, AgentKeeps
<1>6. LockOwner' /\ OneHandlerEach' /\ RequestShape' /\ ChangeIsDue'
  BY <1>1, <1>2, <1>3, <1>4 DEF LockOwner, OneHandlerEach, RequestShape, ChangeIsDue, LockedLabels, AgentKeeps
<1> HIDE DEF r, new
<1>7. RunIsOwn' /\ GrantedExist'
  <2>1. \A d \in Clients : d # c /\ req[d].op = "checkout" => req[d].run # r /\ req[d].run \in RunIds
    BY <1>1, <1>2 DEF RunIsOwn, RequestShape, r
  <2>2. req'[c].op = "checkout" => runs'[req'[c].run] = [state |-> "created", task |-> req'[c].task, agent |-> req'[c].agent]
    BY <1>3 DEF r, new
  <2>3. GrantedExist'
    BY <1>1, <1>2, <1>3 DEF GrantedExist, SysTypes
  <2> QED  BY <1>1, <1>2, <1>3, <1>4, <2>1, <2>2, <2>3 DEF RunIsOwn, Writing
<1>8. ASSUME NEW q \in Queue, Pointing(q)
      PROVE  Pointing(q)' /\ \A u \in Tasks : q[u].run # r
  <2>1. \A u \in Tasks : q[u].run # r
    BY <1>2, <1>8, NoneIsNew DEF Pointing
  <2>2. \A u \in Tasks : q[u].run # None => q[u].run \in RunIds
    BY <1>8 DEF Queue, TaskRecord
  <2> QED  BY <1>3, <1>4, <1>8, <2>1, <2>2 DEF Pointing, r
<1>9. PointersHold'
  <2>1. queue \in Queue /\ \A d \in Clients : snap[d] \in Queue /\ copy[d] \in Queue
    BY <1>1 DEF SysTypes
  <2>2. Pointing(queue)' /\ \A d \in Clients : Pointing(snap[d])' /\ Pointing(copy[d])'
    BY <1>1, <1>8, <2>1, <1>3 DEF PointersHold, AgentKeeps, Pointing
  <2> QED  BY <1>3, <2>2 DEF PointersHold, AgentKeeps
<1>10. \A q \in RunIds : q # r => (Active(q)' <=> Active(q))  BY <1>3 DEF Active
<1>11. Decided'
  <2>1. ASSUME NEW d \in Clients, req[d].op = "checkout"
        PROVE  Loaded(d).run # r /\ Loaded(d).run \in RunIds \cup {None}
    <3>1. req[d].task \in Tasks  BY <1>1, <2>1 DEF RequestShape
    <3>2. snap[d] \in Queue /\ Pointing(snap[d])  BY <1>1 DEF SysTypes, PointersHold
    <3>3. snap[d][req[d].task].run # r  BY <1>8, <3>1, <3>2
    <3>4. snap[d][req[d].task].run \in RunIds \cup {None}
      BY <3>1, <3>2 DEF Queue, TaskRecord
    <3> QED  BY <3>3, <3>4 DEF Loaded
  <2>2. ~(Active(None)')  BY DEF Active
  <2>3. \A d \in Clients : Loaded(d)' = Loaded(d)  BY <1>3 DEF Loaded
  <2> QED  BY <1>1, <1>2, <1>3, <1>4, <1>10, <2>1, <2>2, <2>3 DEF Decided
<1>12. EventsCounted'
  <2>1. Unlogged' = Unlogged  BY <1>1, <1>2, <1>4 DEF Unlogged, AgentKeeps
  <2> QED  BY <1>1, <1>3, <2>1, EventsStep DEF AgentKeeps
<1>13. ~clobbered' => NothingLost'
  <2> SUFFICES ASSUME NothingLost PROVE NothingLost'  BY <1>1
  <2>1. \A q \in granted : q \in RunIds /\ q # r  BY <1>1, <1>2 DEF SysTypes
  <2> QED  BY <1>2, <1>3, <1>4, <1>10, <2>1 DEF NothingLost, LockedLabels, Writing
<1> QED  BY <1>5, <1>6, <1>7, <1>9, <1>11, <1>12, <1>13 DEF SysInv, Files

(* The queue is written.  Unless that discards a change, the copy is the queue. *)
LEMMA SysWriteQueueInv ==
  ASSUME SysInv, NEW c \in Clients, AgentKeeps, WriteQueue(c),
         ~clobbered' => ~clobbered /\ snap[c] = queue
  PROVE  SysInv'
<1>1. /\ SysTypes /\ RunIsOwn /\ GrantedExist /\ PointersHold /\ Decided /\ EventsCounted
      /\ LockOwner /\ RequestShape /\ OneHandlerEach /\ ChangeIsDue /\ (~clobbered => NothingLost)
  BY DEF SysInv, Files
<1>2. PICK t \in Tasks : t = req[c].task
  BY <1>1 DEF WriteQueue, RequestShape, LockedLabels
<1> DEFINE new == [snap[c] EXCEPT ![t] = UpdatedTask(c)]
<1>3. /\ pc[c] = "write" /\ queue' = new /\ snap' = [snap EXCEPT ![c] = new]
      /\ writes' = writes + 1 /\ pc' = [pc EXCEPT ![c] = "results"]
      /\ UNCHANGED <<runs, lock, req, granted, logged, crashes>>
      /\ req[c].op \in {"checkout", "transition", "ready"}
      /\ snap[c] \in Queue
  BY <1>1, <1>2 DEF WriteQueue, RequestShape, LockedLabels, SysTypes
<1>4. /\ UpdatedTask(c) \in TaskRecord
      /\ UpdatedTask(c).run = IF req[c].op = "checkout" THEN req[c].run ELSE snap[c][t].run
  <2>1. CASE req[c].op = "checkout"
    BY <1>1, <2>1, TaskStateNames DEF UpdatedTask, TaskRecord, TaskStatuses, RequestShape
  <2>2. CASE req[c].op # "checkout"
    <3>1. req[c].to \in TaskStates /\ snap[c][t] \in TaskRecord
      BY <1>1, <1>3, <2>2 DEF RequestShape, Queue
    <3> QED  BY <1>2, <2>2, <3>1 DEF UpdatedTask, TaskRecord, TaskStatuses, Loaded
  <2> QED  BY <2>1, <2>2
<1>5. /\ new \in Queue /\ new[t] = UpdatedTask(c)
      /\ \A u \in Tasks : u # t => new[u] = snap[c][u]
  BY <1>3, <1>4 DEF Queue
<1> HIDE DEF new
<1>6. \A d \in Clients : /\ pc'[d] = IF d = c THEN "results" ELSE pc[d]
                         /\ snap'[d] = IF d = c THEN new ELSE snap[d]
  BY <1>1, <1>3 DEF SysTypes
<1>7. \A d \in Clients : d # c => pc[d] \notin LockedLabels
  BY <1>1, <1>3 DEF LockOwner, LockedLabels
<1>8. SysTypes'
  BY <1>1, <1>3, <1>5 DEF SysTypes, Labels, AgentKeeps
<1>9. LockOwner' /\ OneHandlerEach' /\ RequestShape' /\ ChangeIsDue'
  BY <1>1, <1>3, <1>6 DEF LockOwner, OneHandlerEach, RequestShape, ChangeIsDue, LockedLabels, AgentKeeps
<1>10. RunIsOwn' /\ GrantedExist'
  BY <1>1, <1>3, <1>6 DEF RunIsOwn, GrantedExist, Writing
<1>11. PointersHold'
  <2> DEFINE Now(q) ==
        \A u \in Tasks : q[u].run # None => runs[q[u].run] # None /\ runs[q[u].run].task = u
  <2>1. \A d \in Clients : pc'[d] # "write"  BY <1>6, <1>7 DEF LockedLabels
  <2>2. Now(new)
    <3>1. req[c].op = "checkout" => /\ runs[req[c].run] # None /\ runs[req[c].run].task = t
      <4>1. req[c].op = "checkout" =>
              /\ runs[req[c].run] = [state |-> "created", task |-> t, agent |-> req[c].agent]
              /\ req[c].agent \in Agents
        BY <1>1, <1>2, <1>3 DEF RunIsOwn, RequestShape
      <4> QED  BY <4>1, NoneIsNew, RunStateNames DEF RunRecord
    <3>2. Pointing(snap[c])  BY <1>1 DEF PointersHold
    <3> QED  BY <1>4, <1>5, <3>1, <3>2 DEF Pointing
  <2>3. \A d \in Clients : Now(copy[d]) /\ Now(snap[d])  BY <1>1 DEF PointersHold, Pointing
  <2>4. Now(queue)' /\ \A d \in Clients : Now(snap[d])' /\ Now(copy[d])'
    BY <1>3, <1>6, <2>2, <2>3 DEF AgentKeeps
  <2> QED  BY <2>1, <2>4 DEF PointersHold, Pointing
<1>12. Decided'
  BY <1>1, <1>3, <1>6, <1>7 DEF Decided, Loaded, Active, LockedLabels
<1>13. EventsCounted'
  <2>1. c \notin Unlogged /\ Unlogged' = Unlogged \cup {c}
    BY <1>1, <1>3, <1>6 DEF Unlogged, OneHandlerEach, AgentKeeps
  <2> QED  BY <1>1, <1>3, <2>1, EventsStep DEF AgentKeeps
<1>14. ~clobbered' => NothingLost'
  <2> SUFFICES ASSUME NothingLost, snap[c] = queue  PROVE NothingLost'  BY <1>1
  <2>1. ASSUME NEW r \in granted, Active(r)
        PROVE  new[runs[r].task].run = r
    <3>1. r \in RunIds /\ runs[r] # None /\ runs[r].task \in Tasks /\ queue[runs[r].task].run = r
      BY <1>1, <2>1 DEF SysTypes, NothingLost, Active, RunRecord
    <3>2. CASE runs[r].task = t
      <4>1. req[c].op # "checkout"
        BY <1>1, <1>2, <1>3, <2>1, <3>1, <3>2 DEF Decided, Loaded
      <4> QED  BY <1>4, <1>5, <3>1, <3>2, <4>1
    <3>3. CASE runs[r].task # t
      BY <1>5, <3>1, <3>3
    <3> QED  BY <3>2, <3>3
  <2>2. req[c].op = "checkout" => new[req[c].task].run = req[c].run
    BY <1>2, <1>4, <1>5
  <2>3. \A r \in granted : Active(r)' => queue'[runs'[r].task].run = r
    BY <1>3, <2>1 DEF Active
  <2>4. \A d \in Clients : pc'[d] \in LockedLabels => d = c  BY <1>6, <1>7
  <2>5. \A d \in Clients : pc'[d] \in Writing => d = c  BY <2>4 DEF Writing, LockedLabels
  <2> QED  BY <1>3, <1>6, <2>2, <2>3, <2>4, <2>5 DEF NothingLost
<1> QED  BY <1>8, <1>9, <1>10, <1>11, <1>12, <1>13, <1>14 DEF SysInv, Files

(* FinishRun and CancelRun end a run that an agent was given.                   *)
LEMMA SysEnded ==
  ASSUME SysInv, NEW c \in Clients, FinishRun(c) \/ CancelRun(c)
  PROVE  /\ runs' \in [RunIds -> RunRecord \cup {None}]
         /\ \A q \in RunIds : /\ runs[q] # None => runs'[q] # None /\ runs'[q].task = runs[q].task
                              /\ Active(q)' => Active(q)
         /\ \A q \in RunIds : q \notin granted => runs'[q] = runs[q]
<1>1. SysTypes /\ RequestShape /\ GrantedExist  BY DEF SysInv, Files
<1>2. PICK r \in granted : r = req[c].run
  BY <1>1 DEF FinishRun, CancelRun, RequestShape
<1>3. r \in RunIds /\ runs[r] \in RunRecord
  BY <1>1 DEF SysTypes, GrantedExist
<1>4. PICK s \in RunStates \ ActiveRunStates : runs' = [runs EXCEPT ![r].state = s]
  <2>1. req[c].seen \in RunStates  BY <1>1 DEF SysTypes, Request
  <2> QED  BY <1>2, <2>1, RunStateNames, LiveRunsMaySucceed DEF FinishRun, CancelRun, ActiveRunStates
<1>5. runs'[r] = [runs[r] EXCEPT !.state = s] /\ \A q \in RunIds : q # r => runs'[q] = runs[q]
  BY <1>1, <1>3, <1>4 DEF SysTypes
<1>6. runs'[r] \in RunRecord /\ runs'[r].task = runs[r].task /\ runs'[r].state = s
  BY <1>3, <1>5 DEF RunRecord
<1>7. runs' \in [RunIds -> RunRecord \cup {None}]
  BY <1>1, <1>3, <1>4, <1>6 DEF SysTypes
<1> QED  BY <1>5, <1>6, <1>7, NoneIsNew DEF Active

LEMMA SysEndRunInv ==
  ASSUME SysInv, NEW c \in Clients, AgentKeeps, ~clobbered' => ~clobbered,
         FinishRun(c) \/ CancelRun(c)
  PROVE  SysInv'
<1>1. /\ SysTypes /\ RunIsOwn /\ GrantedExist /\ PointersHold /\ Decided /\ EventsCounted
      /\ LockOwner /\ RequestShape /\ OneHandlerEach /\ ChangeIsDue /\ (~clobbered => NothingLost)
  BY DEF SysInv, Files
<1>2. /\ runs' \in [RunIds -> RunRecord \cup {None}]
      /\ \A q \in RunIds : /\ runs[q] # None => runs'[q] # None /\ runs'[q].task = runs[q].task
                           /\ Active(q)' => Active(q)
      /\ \A q \in RunIds : q \notin granted => runs'[q] = runs[q]
  BY SysEnded
<1>3. /\ UNCHANGED <<queue, granted, writes, logged, crashes>> /\ pc[c] \in {"finish", "cancel"}
      /\ req[c].op \in {"ready", "cancel"}
  BY <1>1 DEF FinishRun, CancelRun, RequestShape
<1>4. /\ SysTypes' /\ LockOwner' /\ OneHandlerEach' /\ RequestShape' /\ ChangeIsDue'
      /\ pc'[c] \in {"lookup", "idle"} /\ req'[c].op # "checkout"
      /\ \A d \in Clients : d # c => /\ pc'[d] = pc[d] /\ req'[d] = req[d] /\ snap'[d] = snap[d]
      /\ snap'[c] \in {snap[c], EmptyQueue}
      /\ Unlogged' = Unlogged
  <2>1. CASE CancelRun(c)
    <3>1. Answer(c) /\ granted \subseteq RunIds  BY <1>1, <2>1 DEF CancelRun, SysTypes
    <3>2. Unlogged \ {c} = Unlogged  BY <1>1, <1>3 DEF Unlogged, OneHandlerEach
    <3> QED  BY <1>2, <1>3, <3>1, <3>2, SysAnswer
  <2>2. CASE FinishRun(c)
    <3>1. /\ pc' = [pc EXCEPT ![c] = "lookup"] /\ UNCHANGED <<lock, req, snap>> /\ pc[c] = "finish"
      BY <2>2 DEF FinishRun
    <3>2. \A d \in Clients : pc'[d] = IF d = c THEN "lookup" ELSE pc[d]
      BY <1>1, <3>1 DEF SysTypes
    <3>3. SysTypes'  BY <1>1, <1>2, <1>3, <3>1 DEF SysTypes, Labels, AgentKeeps
    <3>4. LockOwner' /\ OneHandlerEach' /\ RequestShape' /\ ChangeIsDue'
      BY <1>1, <1>3, <3>1, <3>2 DEF LockOwner, OneHandlerEach, RequestShape, ChangeIsDue, LockedLabels, AgentKeeps
    <3>5. Unlogged' = Unlogged
      BY <1>1, <3>1, <3>2 DEF Unlogged, AgentKeeps
    <3> QED  BY <1>3, <3>1, <3>2, <3>3, <3>4, <3>5
  <2> QED  BY <2>1, <2>2
<1>5. RunIsOwn' /\ GrantedExist'
  <2>1. \A d \in Clients : req[d].op = "checkout" => req[d].run \in RunIds /\ req[d].run \notin granted
    BY <1>1 DEF RunIsOwn, RequestShape
  <2>2. GrantedExist'  BY <1>1, <1>2, <1>3 DEF GrantedExist, SysTypes
  <2> QED  BY <1>1, <1>2, <1>3, <1>4, <2>1, <2>2 DEF RunIsOwn, Writing
<1>6. PointersHold'
  <2> DEFINE Now(q) ==
        /\ \A t \in Tasks : q[t].run # None => runs'[q[t].run] # None /\ runs'[q[t].run].task = t
        /\ \A d \in Clients : req'[d].op = "checkout" /\ pc'[d] = "write" =>
             \A t \in Tasks : q[t].run # req'[d].run
  <2>1. ASSUME NEW q \in Queue, Pointing(q)  PROVE Now(q)
    <3>1. \A t \in Tasks : q[t].run # None => q[t].run \in RunIds  BY DEF Queue, TaskRecord
    <3> QED  BY <1>2, <1>4, <2>1, <3>1 DEF Pointing
  <2>2. Now(EmptyQueue)
    <3>1. \A t \in Tasks : EmptyQueue[t].run = None  BY DEF EmptyQueue
    <3>2. \A e \in Clients : req[e].op = "checkout" => req[e].run # None
      BY <1>1, NoneIsNew DEF RequestShape
    <3> QED  BY <1>4, <3>1, <3>2
  <2>3. Now(queue) /\ \A d \in Clients : Now(copy[d]) /\ Now(snap'[d])
    BY <1>1, <1>4, <2>1, <2>2 DEF PointersHold, SysTypes
  <2> QED  BY <1>3, <2>3 DEF PointersHold, Pointing, AgentKeeps
<1>7. Decided'
  <2>1. ~(Active(None)')  BY DEF Active
  <2>2. \A d \in Clients : req[d].op = "checkout" => Loaded(d).run \in RunIds \cup {None}
    BY <1>1 DEF RequestShape, SysTypes, Queue, TaskRecord, Loaded
  <2> QED  BY <1>1, <1>2, <1>4, <2>1, <2>2 DEF Decided, Loaded
<1>8. EventsCounted'
  BY <1>1, <1>3, <1>4, EventsStep DEF AgentKeeps
<1>9. ~clobbered' => NothingLost'
  <2> SUFFICES ASSUME NothingLost PROVE NothingLost'  BY <1>1
  <2>1. \A r \in granted' : Active(r)' => queue'[runs'[r].task].run = r
    <3> SUFFICES ASSUME NEW r \in granted, Active(r)'  PROVE queue[runs'[r].task].run = r
      BY <1>3
    <3>1. r \in RunIds /\ Active(r) /\ runs[r] # None
      BY <1>1, <1>2 DEF SysTypes, GrantedExist
    <3>2. queue[runs[r].task].run = r /\ runs'[r].task = runs[r].task
      BY <1>2, <3>1 DEF NothingLost
    <3> QED  BY <3>2
  <2> QED  BY <1>3, <1>4, <2>1 DEF NothingLost, LockedLabels, Writing
<1> QED  BY <1>4, <1>5, <1>6, <1>7, <1>8, <1>9 DEF SysInv, Files

(* A request arrives; the run id that a checkout draws is unused.               *)
LEMMA SysBeginInv ==
  ASSUME SysInv, NEW c \in Clients, AgentRequest(c)
  PROVE  SysInv'
<1>1. /\ SysTypes /\ RunIsOwn /\ GrantedExist /\ PointersHold /\ Decided /\ EventsCounted
      /\ LockOwner /\ RequestShape /\ OneHandlerEach /\ ChangeIsDue /\ (~clobbered => NothingLost)
  BY DEF SysInv, Files
<1>2. /\ pc[c] = "idle" /\ opc[c] = "idle"
      /\ UNCHANGED <<queue, runs, lock, snap, granted, writes, logged, crashes, unlockedVars>>
  BY DEF AgentRequest, Begin, BeginCheckout, BeginTransition, BeginReady, BeginCancel
<1> DEFINE Arrives(p, q) ==
        /\ pc' = [pc EXCEPT ![c] = p] /\ req' = [req EXCEPT ![c] = q]
        /\ p = "lock" => q.op \in {"checkout", "transition"}
        /\ p = "finish" => q.op = "ready"
        /\ p = "cancel" => q.op = "cancel"
        /\ q.op = "checkout" => /\ q.agent \in Agents /\ q.task \in Tasks /\ q.run \in RunIds
                                /\ runs[q.run] = None /\ \A d \in Clients : req[d].run # q.run
        /\ q.op \in {"transition", "ready"} => q.task \in Tasks /\ q.to \in TaskStates \ {"checked_out"}
        /\ q.op \in {"ready", "cancel"} => q.run \in granted
<1>3. \E p \in {"lock", "finish", "cancel"}, q \in Request : Arrives(p, q)
  <2>1. ASSUME NEW a \in Agents, NEW t \in Tasks, NEW r \in RunIds, BeginCheckout(c, a, t, r)
        PROVE  \E p \in {"lock", "finish", "cancel"}, q \in Request : Arrives(p, q)
    <3> DEFINE q == [NoRequest EXCEPT !.op = "checkout", !.agent = a, !.task = t, !.run = r]
    <3>1. /\ q.op = "checkout" /\ q.agent = a /\ q.task = t /\ q.run = r /\ q \in Request
      BY RunStateNames DEF NoRequest, Request, TaskStatuses
    <3>2. /\ pc' = [pc EXCEPT ![c] = "lock"] /\ req' = [req EXCEPT ![c] = q]
          /\ runs[r] = None /\ \A d \in Clients : req[d].run # r
      BY <2>1 DEF BeginCheckout, Unused
    <3> HIDE DEF q
    <3> QED  BY <3>1, <3>2
  <2>2. ASSUME NEW t \in Tasks, NEW s \in TransitionTargets, BeginTransition(c, t, s)
        PROVE  \E p \in {"lock", "finish", "cancel"}, q \in Request : Arrives(p, q)
    <3> DEFINE q == [NoRequest EXCEPT !.op = "transition", !.task = t, !.to = s]
    <3>1. /\ q.op = "transition" /\ q.task = t /\ q.to = s /\ q \in Request
          /\ s \in TaskStates \ {"checked_out"}
      BY TransitionTargetsAssumption, RunStateNames DEF NoRequest, Request, TaskStatuses
    <3>2. pc' = [pc EXCEPT ![c] = "lock"] /\ req' = [req EXCEPT ![c] = q]
      BY <2>2 DEF BeginTransition
    <3> HIDE DEF q
    <3> QED  BY <3>1, <3>2
  <2>3. ASSUME NEW r \in RunIds, BeginReady(c, r)
        PROVE  \E p \in {"lock", "finish", "cancel"}, q \in Request : Arrives(p, q)
    <3> DEFINE q == [NoRequest EXCEPT !.op = "ready", !.run = r, !.task = runs[r].task,
                                      !.to = "ready_for_review", !.seen = runs[r].state]
    <3>1. runs[r] \in RunRecord /\ r \in granted
      BY <1>1, <2>3 DEF SysTypes, GrantedExist, BeginReady
    <3>2. /\ q.op = "ready" /\ q.task \in Tasks /\ q.to = "ready_for_review" /\ q.run = r
          /\ q \in Request
      BY <3>1, TaskStateNames, RunStateNames DEF NoRequest, Request, TaskStatuses, RunRecord
    <3>3. pc' = [pc EXCEPT ![c] = "finish"] /\ req' = [req EXCEPT ![c] = q]
      BY <2>3 DEF BeginReady
    <3>4. q.to \in TaskStates \ {"checked_out"}  BY <3>2, TaskStateNames
    <3> HIDE DEF q
    <3> QED  BY <3>1, <3>2, <3>3, <3>4
  <2>4. ASSUME NEW r \in RunIds, BeginCancel(c, r)
        PROVE  \E p \in {"lock", "finish", "cancel"}, q \in Request : Arrives(p, q)
    <3> DEFINE q == [NoRequest EXCEPT !.op = "cancel", !.run = r, !.seen = runs[r].state]
    <3>1. runs[r] \in RunRecord /\ r \in granted
      BY <1>1, <2>4 DEF SysTypes, GrantedExist, BeginCancel
    <3>2. q.op = "cancel" /\ q.run = r /\ q \in Request
      BY <3>1, RunStateNames DEF NoRequest, Request, TaskStatuses, RunRecord
    <3>3. pc' = [pc EXCEPT ![c] = "cancel"] /\ req' = [req EXCEPT ![c] = q]
      BY <2>4 DEF BeginCancel
    <3> HIDE DEF q
    <3> QED  BY <3>1, <3>2, <3>3
  <2> QED  BY <2>1, <2>2, <2>3, <2>4 DEF AgentRequest, Begin
<1>4. PICK p \in {"lock", "finish", "cancel"}, q \in Request : Arrives(p, q)
  BY <1>3
<1>5. /\ \A d \in Clients : d # c => pc'[d] = pc[d] /\ req'[d] = req[d]
      /\ pc'[c] = p /\ req'[c] = q
  BY <1>1, <1>4 DEF SysTypes
<1>6. SysTypes'
  BY <1>1, <1>2, <1>4 DEF SysTypes, Labels, unlockedVars
<1>7. LockOwner' /\ OneHandlerEach' /\ RequestShape' /\ ChangeIsDue'
  BY <1>1, <1>2, <1>4, <1>5 DEF LockOwner, OneHandlerEach, RequestShape, ChangeIsDue, LockedLabels, unlockedVars
<1>8. RunIsOwn' /\ GrantedExist'
  BY <1>1, <1>2, <1>4, <1>5 DEF RunIsOwn, GrantedExist, Writing
<1>9. PointersHold'
  BY <1>1, <1>2, <1>5, PointersCopied DEF unlockedVars
<1>10. Decided'
  BY <1>1, <1>2, <1>5 DEF Decided, Loaded, Active
<1>11. EventsCounted'
  <2>1. Unlogged' = Unlogged  BY <1>2, <1>5 DEF Unlogged, unlockedVars
  <2> QED  BY <1>1, <1>2, <2>1, EventsStep DEF unlockedVars
<1>12. ~clobbered' => NothingLost'
  BY <1>1, <1>2, <1>5 DEF NothingLost, LockedLabels, Writing, Active, unlockedVars
<1> QED  BY <1>6, <1>7, <1>8, <1>9, <1>10, <1>11, <1>12 DEF SysInv, Files

-----------------------------------------------------------------------------
(* Steps of the handlers that take no lock. *)

StoreKeeps == UNCHANGED <<queue, runs, lock, pc, req, snap, granted>>

(* What the store and its pointers keep while such a handler holds a copy.      *)
LEMMA UnlockedKeeps ==
  ASSUME SysInv, NEW c \in Clients, StoreKeeps, ~clobbered' => ~clobbered, pc[c] = "idle",
         opc' \in [Clients -> UnlockedLabels], change' \in [Clients -> Changes],
         copy' \in [Clients -> Queue],
         \A d \in Clients : d # c => opc'[d] = opc[d],
         \A d \in Clients : copy'[d] \in {copy[d], queue, EmptyQueue}
  PROVE  /\ SysTypes' /\ LockOwner' /\ RequestShape' /\ OneHandlerEach' /\ Files'
         /\ ~clobbered' => NothingLost'
<1>1. /\ SysTypes /\ RunIsOwn /\ GrantedExist /\ PointersHold /\ Decided
      /\ LockOwner /\ RequestShape /\ OneHandlerEach /\ (~clobbered => NothingLost)
  BY DEF SysInv, Files
<1>2. SysTypes'  BY <1>1 DEF SysTypes, StoreKeeps
<1>3. LockOwner' /\ RequestShape' /\ OneHandlerEach'
  BY <1>1 DEF LockOwner, RequestShape, OneHandlerEach, StoreKeeps
<1>4. RunIsOwn' /\ GrantedExist' /\ Decided'
  BY <1>1 DEF RunIsOwn, GrantedExist, Decided, Loaded, Active, StoreKeeps
<1>5. PointersHold'
  <2>1. \A d \in Clients : req[d].op = "checkout" => req[d].run # None
    BY <1>1, NoneIsNew DEF RequestShape
  <2>2. \A t \in Tasks : EmptyQueue[t].run = None  BY DEF EmptyQueue
  <2>3. Pointing(EmptyQueue)  BY <2>1, <2>2 DEF Pointing
  <2> DEFINE Now(q) ==
        /\ \A t \in Tasks : q[t].run # None => runs'[q[t].run] # None /\ runs'[q[t].run].task = t
        /\ \A d \in Clients : req'[d].op = "checkout" /\ pc'[d] = "write" =>
             \A t \in Tasks : q[t].run # req'[d].run
  <2>4. ASSUME NEW q, Pointing(q)  PROVE Now(q)  BY <2>4 DEF Pointing, StoreKeeps
  <2>5. \A d \in Clients : Now(copy'[d])
    BY <1>1, <2>3, <2>4 DEF PointersHold
  <2>6. Now(queue) /\ \A d \in Clients : Now(snap[d])
    BY <1>1, <2>4 DEF PointersHold
  <2> QED  BY <2>5, <2>6 DEF PointersHold, Pointing, StoreKeeps
<1>6. ~clobbered' => NothingLost'
  BY <1>1 DEF NothingLost, Active, StoreKeeps
<1> QED  BY <1>2, <1>3, <1>4, <1>5, <1>6 DEF Files

(* A handler loads the queue and goes to work.                                  *)
LEMMA OpenQueueInv ==
  ASSUME SysInv, NEW c \in Clients, NEW label \in {"apply", "pr", "save"}, NEW ch \in Changes,
         OpenQueue(c, label, ch),
         label # "save" => ch.audited,
         ch.audited => /\ ch.task \in Tasks /\ queue[ch.task].status # "absent"
                       /\ label # "apply" => IsLegalTaskTransition(queue[ch.task].status, ch.to)
  PROVE  SysInv'
<1>1. SysTypes /\ ChangeIsDue /\ EventsCounted  BY DEF SysInv
<1>2. /\ pc[c] = "idle" /\ opc[c] = "idle"
      /\ UNCHANGED <<queue, runs, lock, pc, req, snap, granted, writes, logged, crashes, silent, clobbered>>
      /\ opc' = [opc EXCEPT ![c] = label] /\ change' = [change EXCEPT ![c] = ch]
      /\ copy' = [copy EXCEPT ![c] = queue]
  BY DEF OpenQueue, Idle, vars
<1>3. /\ opc' \in [Clients -> UnlockedLabels] /\ change' \in [Clients -> Changes]
      /\ copy' \in [Clients -> Queue]
      /\ \A d \in Clients : d # c => opc'[d] = opc[d] /\ change'[d] = change[d] /\ copy'[d] = copy[d]
      /\ opc'[c] = label /\ change'[c] = ch /\ copy'[c] = queue
  BY <1>1, <1>2 DEF SysTypes, UnlockedLabels
<1>4. /\ SysTypes' /\ LockOwner' /\ RequestShape' /\ OneHandlerEach' /\ Files'
      /\ ~clobbered' => NothingLost'
  BY <1>2, <1>3, UnlockedKeeps DEF StoreKeeps
<1>5. ChangeIsDue'  BY <1>1, <1>2, <1>3 DEF ChangeIsDue
<1>6. EventsCounted'
  <2>1. Unlogged' = Unlogged  BY <1>2, <1>3 DEF Unlogged
  <2> QED  BY <1>1, <1>2, <2>1, EventsStep
<1> QED  BY <1>4, <1>5, <1>6 DEF SysInv

(* The statuses the handlers name are states of the table.                      *)
LEMMA HandlerStates ==
  {"ready", "cancelled", "pr_open", "approved", "pending_approval", "in_progress", "blocked",
   "ready_for_review", "done"} \subseteq TaskStates
BY DEF TaskStates, TaskTransitions

LEMMA RequestsInv ==
  ASSUME SysInv, NEW c \in Clients, Dashboard(c) \/ Command(c)
  PROVE  SysInv'
<1>1. SysTypes  BY DEF SysInv
<1>2. ASSUME NEW t \in Tasks, NEW s \in TaskStates, NEW label \in {"pr", "save"},
             IsLegalTaskTransition(queue[t].status, s), OpenQueue(c, label, ChangeTo(t, s))
      PROVE  SysInv'
  <2>1. ChangeTo(t, s) \in Changes /\ ChangeTo(t, s).task = t /\ ChangeTo(t, s).to = s
        /\ ChangeTo(t, s).audited
    BY DEF Changes, ChangeTo, TaskStatuses
  <2>2. queue[t].status # "absent"  BY <1>2, TaskStateNames DEF IsLegalTaskTransition
  <2> HIDE DEF ChangeTo
  <2> QED  BY <1>2, <2>1, <2>2, OpenQueueInv
<1>3. ASSUME NEW t \in Tasks, NEW s \in TaskStates, OpenQueue(c, "save", SilentChangeTo(t, s))
      PROVE  SysInv'
  <2>1. SilentChangeTo(t, s) \in Changes /\ ~SilentChangeTo(t, s).audited
    BY DEF Changes, ChangeTo, SilentChangeTo, TaskStatuses
  <2> QED  BY <1>3, <2>1, OpenQueueInv
<1>4. ASSUME OpenQueue(c, "save", NoChange)
      PROVE  SysInv'
  <2>1. NoChange \in Changes /\ ~NoChange.audited
    BY DEF Changes, NoChange, TaskStatuses
  <2> QED  BY <1>4, <2>1, OpenQueueInv
<1>5. ASSUME NEW t \in Tasks, ApplyFix(c, t)
      PROVE  SysInv'
  <2>1. ChangeTo(t, "ready") \in Changes /\ ChangeTo(t, "ready").task = t
        /\ ChangeTo(t, "ready").audited
    BY HandlerStates DEF Changes, ChangeTo, TaskStatuses
  <2> QED  BY <1>5, <2>1, OpenQueueInv DEF ApplyFix
<1>6. ASSUME Dashboard(c)
      PROVE  SysInv'
  BY <1>2, <1>3, <1>4, <1>5, <1>6, HandlerStates
     DEF Dashboard, Approve, CancelTask, RequestPr, ApproveProduct, QueueNew
<1>7. ASSUME Command(c)
      PROVE  SysInv'
  BY <1>2, <1>3, <1>4, <1>7, HandlerStates, CommandsAssumption
     DEF Command, UpdateStatus, CreateTask, Touch
<1> QED  BY <1>6, <1>7

(* The work between load and save; the mirrors; the event.                      *)
LEMMA UnlockedInv ==
  ASSUME SysInv, NEW c \in Clients,
         \/ FixApplied(c) \/ FixFailed(c) \/ FixRecorded(c) \/ PrOpened(c) \/ Abandoned(c)
         \/ SaveResultsMirror(c) \/ SaveDashboardMirror(c) \/ EmitAudit(c)
         \/ opc[c] # "idle" /\ Die(c)
  PROVE  SysInv'
<1>1. SysTypes /\ ChangeIsDue /\ EventsCounted /\ OneHandlerEach  BY DEF SysInv
<1>2. opc[c] # "idle"
  BY DEF FixApplied, FixFailed, FixRecorded, PrOpened, Abandoned,
         SaveResultsMirror, SaveDashboardMirror, EmitAudit
<1>3. pc[c] = "idle"  BY <1>1, <1>2 DEF OneHandlerEach
<1>4. /\ StoreKeeps /\ UNCHANGED <<writes, silent, clobbered>>
      /\ logged' = IF opc[c] = "audit" /\ crashes' = crashes THEN logged + 1 ELSE logged
      /\ crashes' = crashes \/ (crashes' = crashes + 1 /\ Finish(c))
      /\ opc[c] = "audit" => Finish(c)
      /\ \/ Finish(c) /\ (opc[c] \in {"results", "dashboard"} /\ crashes' = crashes => ~change[c].audited)
         \/ /\ opc[c] \in {"apply", "pr"} /\ copy' = copy
            /\ opc' = [opc EXCEPT ![c] = "save"]
            /\ \/ change' = [change EXCEPT ![c] = NoChange]
               \/ change' = change /\ opc[c] = "pr"
               \/ \E s \in {"ready_for_review", "blocked"} :
                    /\ change' = [change EXCEPT ![c] = ChangeTo(change[c].task, s)]
                    /\ IsLegalTaskTransition(copy[c][change[c].task].status, s)
         \/ /\ opc[c] = "results" /\ opc' = [opc EXCEPT ![c] = "dashboard"] /\ UNCHANGED <<change, copy>>
         \/ /\ opc[c] = "dashboard" /\ opc' = [opc EXCEPT ![c] = "audit"] /\ UNCHANGED <<change, copy>>
            /\ change[c].audited
  <2>0. crashes \in Nat /\ logged \in Nat /\ crashes + 1 # crashes  BY <1>1 DEF EventsCounted
  <2>1. CASE FixApplied(c) \/ FixFailed(c) \/ FixRecorded(c) \/ PrOpened(c) \/ Abandoned(c)
    <3>1. change = [change EXCEPT ![c] = change[c]]  BY <1>1 DEF SysTypes
    <3> QED  BY <2>0, <2>1, <3>1 DEF FixApplied, FixFailed, FixRecorded, PrOpened, Abandoned, Proceed, StoreKeeps, vars
  <2>2. CASE SaveResultsMirror(c) \/ SaveDashboardMirror(c) \/ EmitAudit(c)
    BY <2>0, <2>2 DEF SaveResultsMirror, SaveDashboardMirror, EmitAudit, StoreKeeps
  <2>3. CASE Die(c)
    <3>1. ~Crash(c)  BY <1>3 DEF Crash
    <3> QED  BY <2>0, <2>3, <3>1 DEF Die, StoreKeeps
  <2> QED  BY <2>1, <2>2, <2>3
<1>5. NoChange \in Changes /\ ~NoChange.audited /\ EmptyQueue \in Queue
  BY DEF Changes, NoChange, EmptyQueue, Queue, TaskRecord, TaskStatuses
<1> DEFINE ch == change[c]
<1>6. ASSUME ch.task \in Tasks, NEW s \in {"ready_for_review", "blocked"}
      PROVE  /\ ChangeTo(ch.task, s) \in Changes
             /\ ChangeTo(ch.task, s).task = ch.task /\ ChangeTo(ch.task, s).to = s
  BY <1>6, HandlerStates DEF Changes, ChangeTo, TaskStatuses
<1>7. opc[c] \in {"apply", "pr"} => ch.task \in Tasks /\ ch.audited
  BY <1>1 DEF ChangeIsDue
<1>8. /\ opc' \in [Clients -> UnlockedLabels] /\ change' \in [Clients -> Changes]
      /\ copy' \in [Clients -> Queue]
      /\ \A d \in Clients : d # c => opc'[d] = opc[d] /\ change'[d] = change[d] /\ copy'[d] = copy[d]
      /\ copy'[c] \in {copy[c], EmptyQueue}
  BY <1>1, <1>4, <1>5, <1>6, <1>7 DEF SysTypes, UnlockedLabels, Finish
<1>9. /\ SysTypes' /\ LockOwner' /\ RequestShape' /\ OneHandlerEach' /\ Files'
      /\ ~clobbered' => NothingLost'
  BY <1>3, <1>4, <1>8, UnlockedKeeps
<1>10. ChangeIsDue'
  <2>1. opc'[c] \in {"idle", "dashboard", "save"} \/ (opc'[c] = "audit" /\ change'[c].audited)
    BY <1>1, <1>4 DEF SysTypes, Finish
  <2>2. opc'[c] = "save" /\ change'[c].audited =>
          /\ change'[c].task \in Tasks
          /\ copy'[c][change'[c].task].status # "absent"
          /\ IsLegalTaskTransition(copy'[c][change'[c].task].status, change'[c].to)
    BY <1>1, <1>4, <1>5, <1>6, <1>7 DEF SysTypes, Finish, ChangeIsDue
  <2> QED  BY <1>1, <1>8, <2>1, <2>2 DEF ChangeIsDue
<1>11. EventsCounted'
  <2>1. \A d \in Clients : d # c => (d \in Unlogged' <=> d \in Unlogged)
    BY <1>4, <1>8 DEF Unlogged, StoreKeeps
  <2>2. c \in Unlogged <=> opc[c] \in {"results", "dashboard", "audit"} /\ ch.audited
    BY <1>3 DEF Unlogged
  <2>3. c \in Unlogged' <=> opc'[c] \in {"results", "dashboard", "audit"} /\ change'[c].audited
    BY <1>3, <1>4 DEF Unlogged, StoreKeeps
  <2>4. Unlogged \subseteq Clients /\ Unlogged' \subseteq Clients  BY DEF Unlogged
  <2>5. Finish(c) => c \notin Unlogged'  BY <1>1, <2>3 DEF Finish, SysTypes
  <2>6. opc[c] = "audit" => c \in Unlogged  BY <1>1, <2>2 DEF ChangeIsDue
  <2>7. ~Finish(c) => (c \in Unlogged' <=> c \in Unlogged) /\ opc[c] # "audit" /\ crashes' = crashes
    BY <1>1, <1>4, <2>2, <2>3 DEF SysTypes
  <2>8. Finish(c) /\ crashes' = crashes /\ opc[c] # "audit" => c \notin Unlogged
    <3>1. opc[c] \in UnlockedLabels  BY <1>1 DEF SysTypes
    <3> QED  BY <1>1, <1>4, <2>2, <3>1 DEF Finish, SysTypes
  <2>9. CASE crashes' # crashes
    <3>1. Unlogged' = Unlogged \ {c} /\ crashes' = crashes + 1 /\ logged' = logged
      BY <1>4, <2>1, <2>4, <2>5, <2>9
    <3> QED  BY <1>1, <1>4, <3>1, EventsStep
  <2>10. CASE crashes' = crashes /\ opc[c] = "audit"
    <3>1. Unlogged' = Unlogged \ {c} /\ logged' = logged + 1
      BY <1>4, <2>1, <2>4, <2>5, <2>10
    <3> QED  BY <1>1, <1>4, <2>6, <2>10, <3>1, EventsStep
  <2>11. CASE crashes' = crashes /\ opc[c] # "audit"
    <3>1. Unlogged' = Unlogged /\ logged' = logged
      BY <1>4, <2>1, <2>4, <2>5, <2>7, <2>8, <2>11
    <3> QED  BY <1>1, <1>4, <2>11, <3>1, EventsStep
  <2> QED  BY <2>9, <2>10, <2>11
<1> QED  BY <1>9, <1>10, <1>11 DEF SysInv

(* What save_payload writes: the loaded queue, with one status changed.         *)
LEMMA ChangedIs ==
  ASSUME SysTypes, NEW c \in Clients
  PROVE  /\ Changed(c) \in Queue
         /\ \A t \in Tasks : Changed(c)[t].run = copy[c][t].run
         /\ \A t \in Tasks : t # change[c].task => Changed(c)[t] = copy[c][t]
         /\ change[c].task \in Tasks => Changed(c)[change[c].task].status = change[c].to
<1>1. copy[c] \in Queue /\ change[c] \in Changes  BY DEF SysTypes
<1>2. \A t \in Tasks : copy[c][t] \in TaskRecord  BY <1>1 DEF Queue
<1>3. CASE change[c].task = None
  <2>1. Changed(c) = copy[c]  BY <1>3 DEF Changed
  <2>2. change[c].task \notin Tasks  BY <1>3, NoneIsNew
  <2> QED  BY <1>1, <2>1, <2>2
<1>4. CASE change[c].task # None
  <2>1. PICK u \in Tasks : u = change[c].task  BY <1>1, <1>4 DEF Changes
  <2>2. PICK s \in TaskStatuses : s = change[c].to  BY <1>1 DEF Changes
  <2>3. Changed(c) = [copy[c] EXCEPT ![u].status = s]  BY <1>4, <2>1, <2>2 DEF Changed
  <2>4. [copy[c][u] EXCEPT !.status = s] = [status |-> s, run |-> copy[c][u].run]
    BY <1>2 DEF TaskRecord
  <2>5. Changed(c) = [t \in Tasks |-> IF t = u THEN [status |-> s, run |-> copy[c][u].run] ELSE copy[c][t]]
    BY <1>1, <2>3, <2>4 DEF Queue
  <2> QED  BY <1>2, <2>1, <2>2, <2>5 DEF Queue, TaskRecord
<1> QED  BY <1>3, <1>4

LEMMA SaveQueueInv ==
  ASSUME SysInv, NEW c \in Clients, SaveQueue(c), ~clobbered' => ~clobbered /\ copy[c] = queue
  PROVE  SysInv'
<1>1. /\ SysTypes /\ RunIsOwn /\ GrantedExist /\ PointersHold /\ Decided /\ EventsCounted
      /\ LockOwner /\ RequestShape /\ OneHandlerEach /\ ChangeIsDue /\ (~clobbered => NothingLost)
  BY DEF SysInv, Files
<1>2. PICK new \in Queue : new = Changed(c) /\ \A t \in Tasks : new[t].run = copy[c][t].run
  BY <1>1, ChangedIs
<1>3. /\ opc[c] = "save" /\ pc[c] = "idle" /\ queue' = new /\ copy' = [copy EXCEPT ![c] = new]
      /\ opc' = [opc EXCEPT ![c] = "results"]
      /\ UNCHANGED <<runs, lock, pc, req, snap, granted, logged, crashes, change>>
      /\ writes' = IF Moves(c) THEN writes + 1 ELSE writes
      /\ silent' = IF Moves(c) /\ ~change[c].audited THEN silent + 1 ELSE silent
  BY <1>1, <1>2 DEF SaveQueue, OneHandlerEach
<1>4. \A d \in Clients : /\ opc'[d] = IF d = c THEN "results" ELSE opc[d]
                         /\ copy'[d] = IF d = c THEN new ELSE copy[d]
  BY <1>1, <1>3 DEF SysTypes
<1>5. SysTypes'  BY <1>1, <1>2, <1>3 DEF SysTypes, UnlockedLabels
<1>6. LockOwner' /\ RequestShape' /\ OneHandlerEach'
  BY <1>1, <1>3, <1>4 DEF LockOwner, RequestShape, OneHandlerEach
<1>7. RunIsOwn' /\ GrantedExist' /\ Decided'
  BY <1>1, <1>3 DEF RunIsOwn, GrantedExist, Decided, Loaded, Active
<1>8. PointersHold'
  <2> DEFINE Now(q) ==
        /\ \A t \in Tasks : q[t].run # None => runs'[q[t].run] # None /\ runs'[q[t].run].task = t
        /\ \A d \in Clients : req'[d].op = "checkout" /\ pc'[d] = "write" =>
             \A t \in Tasks : q[t].run # req'[d].run
  <2>1. ASSUME NEW q, Pointing(q)  PROVE Now(q)  BY <1>3, <2>1 DEF Pointing
  <2>2. Now(new)
    <3>1. Now(copy[c])  BY <1>1, <2>1 DEF PointersHold
    <3> QED  BY <1>2, <3>1
  <2>3. \A d \in Clients : Now(copy'[d])  BY <1>1, <1>4, <2>1, <2>2 DEF PointersHold
  <2>4. Now(queue') /\ \A d \in Clients : Now(snap'[d])
    BY <1>1, <1>3, <2>1, <2>2 DEF PointersHold
  <2> QED  BY <2>3, <2>4 DEF PointersHold, Pointing
<1>9. ChangeIsDue'  BY <1>1, <1>3, <1>4 DEF ChangeIsDue
<1>10. EventsCounted'
  <2>1. c \notin Unlogged  BY <1>3 DEF Unlogged
  <2>2. Unlogged' = IF change[c].audited THEN Unlogged \cup {c} ELSE Unlogged
    BY <1>3, <1>4 DEF Unlogged
  <2>3. change[c].audited => Moves(c)
    BY <1>1, <1>3, NoneIsNew DEF ChangeIsDue, Moves
  <2>4. CASE change[c].audited  BY <1>1, <1>3, <2>1, <2>2, <2>3, <2>4, EventsStep
  <2>5. CASE ~change[c].audited  BY <1>1, <1>3, <2>2, <2>5, EventsStep
  <2> QED  BY <2>4, <2>5
<1>11. ~clobbered' => NothingLost'
  <2> SUFFICES ASSUME NothingLost, copy[c] = queue  PROVE NothingLost'  BY <1>1
  <2>1. \A t \in Tasks : queue'[t].run = queue[t].run  BY <1>2, <1>3
  <2>2. \A d \in Clients : req[d].op = "checkout" => req[d].task \in Tasks
    BY <1>1 DEF RequestShape
  <2>3. \A r \in granted : runs[r].task \in Tasks
    BY <1>1 DEF GrantedExist, SysTypes, RunRecord
  <2> QED  BY <1>3, <2>1, <2>2, <2>3 DEF NothingLost, Active
<1> QED  BY <1>5, <1>6, <1>7, <1>8, <1>9, <1>10, <1>11 DEF SysInv, Files

-----------------------------------------------------------------------------
(* The invariant is inductive. *)

LEMMA SysInvInit == SysInit => SysInv
<1> SUFFICES ASSUME SysInit PROVE SysInv
  OBVIOUS
<1>1. Init  BY DEF SysInit
<1>2. IndInv  BY <1>1, InitInv
<1>3. SysTypes
  BY <1>2 DEF SysInit, IndInv, TypeOK, SysTypes, UnlockedLabels, Changes, NoChange, EmptyQueue,
              Queue, TaskRecord, TaskStatuses
<1>4. LockOwner /\ RequestShape /\ OneHandlerEach
  BY <1>2 DEF SysInit, IndInv, OneHandlerEach
<1>5. \A c \in Clients : req[c].op # "checkout" /\ pc[c] = "idle"
  BY <1>1 DEF Init, NoRequest
<1>6. RunIsOwn /\ GrantedExist /\ Decided
  BY <1>1, <1>5 DEF RunIsOwn, GrantedExist, Decided, Init
<1>7. PointersHold
  <2>1. /\ \A t \in Tasks : queue[t].run = None
        /\ \A c \in Clients : snap[c] = EmptyQueue /\ copy[c] = EmptyQueue
    BY <1>1 DEF Init, SysInit
  <2>2. \A t \in Tasks : EmptyQueue[t].run = None  BY DEF EmptyQueue
  <2> QED  BY <1>5, <2>1, <2>2 DEF PointersHold, Pointing
<1>8. ChangeIsDue  BY DEF SysInit, ChangeIsDue
<1>9. EventsCounted
  <2>1. Unlogged = {}  BY <1>5 DEF Unlogged, SysInit
  <2>2. IsFiniteSet({}) /\ Cardinality({}) = 0  BY FS_EmptySet
  <2>3. writes = 0 /\ logged = 0 /\ crashes = 0 /\ silent = 0  BY <1>1 DEF Init, SysInit
  <2> QED  BY <2>1, <2>2, <2>3 DEF EventsCounted, EventsMatchWrites, Unlogged
<1>10. NothingLost
  BY <1>1, <1>5 DEF NothingLost, Init, LockedLabels
<1> QED  BY <1>3, <1>4, <1>6, <1>7, <1>8, <1>9, <1>10 DEF SysInv, Files

LEMMA SysInvStep == SysInv /\ [SysNext]_sysVars => SysInv'
<1> SUFFICES ASSUME SysInv, [SysNext]_sysVars PROVE SysInv'
  OBVIOUS
<1>1. CASE UNCHANGED sysVars
  <2> USE <1>1 DEF sysVars, vars, unlockedVars
  <2>1. SysTypes' /\ LockOwner' /\ RequestShape' /\ OneHandlerEach' /\ ChangeIsDue'
    BY DEF SysInv, SysTypes, LockOwner, RequestShape, OneHandlerEach, ChangeIsDue
  <2>2. Files'
    BY DEF SysInv, Files, RunIsOwn, GrantedExist, PointersHold, Pointing, Decided, Loaded, Active
  <2>3. EventsCounted'
    BY DEF SysInv, EventsCounted, EventsMatchWrites, Unlogged
  <2>4. ~clobbered' => NothingLost'
    BY DEF SysInv, NothingLost, Active
  <2> QED  BY <2>1, <2>2, <2>3, <2>4 DEF SysInv
<1>2. ASSUME NEW c \in Clients, AgentStep(c)
      PROVE  SysInv'
  <2>1. AgentKeeps /\ (~clobbered' => ~clobbered /\ (pc[c] = "write" => snap[c] = queue))
    BY <1>2 DEF AgentStep, AgentKeeps
  <2>2. WriteQueue(c) => pc[c] = "write"  BY DEF WriteQueue
  <2>3. Step(c)  BY <1>2 DEF AgentStep
  <2> QED  BY <2>1, <2>2, <2>3, OnwardsInv, SysRefusedInv, SysGrantInv, SysCreateRunInv,
              SysWriteQueueInv, SysEndRunInv DEF Step
<1>3. ASSUME NEW c \in Clients, UnlockedStep(c)
      PROVE  SysInv'
  <2>1. SaveQueue(c) => (~clobbered' => ~clobbered /\ copy[c] = queue)  BY DEF SaveQueue
  <2> QED  BY <1>3, <2>1, SaveQueueInv, UnlockedInv DEF UnlockedStep
<1>4. ASSUME NEW c \in Clients, Die(c)
      PROVE  SysInv'
  <2>1. CASE Crash(c) /\ UNCHANGED unlockedVars
    <3>1. AgentKeeps /\ clobbered' = clobbered  BY <2>1 DEF unlockedVars, AgentKeeps
    <3> QED  BY <2>1, <3>1, SysRefusedInv
  <2>2. CASE opc[c] # "idle"  BY <1>4, <2>2, UnlockedInv
  <2> QED  BY <1>4, <2>1, <2>2 DEF Die
<1>5. Servers \subseteq Clients /\ Commands \subseteq Clients  BY ProcessesAssumption
<1> QED  BY <1>1, <1>2, <1>3, <1>4, <1>5, SysBeginInv, RequestsInv DEF SysNext

-----------------------------------------------------------------------------
(* The theorems. *)

(* Whatever the servers and the commands interleave and wherever they die: the  *)
(* files and the copies point to run files that exist, and while no write has   *)
(* discarded a change, the pointer of a task follows its live run.              *)
THEOREM QueueInvariant == SysSpec => []SysInv
BY SysInvInit, SysInvStep, PTL DEF SysSpec

(* Two live runs of one task come into agents' hands only after a handler has   *)
(* written back a queue it had read before another one changed it.              *)
THEOREM HoldersUnlessLost == SysSpec => []HoldersUnlessClobbered
<1>1. SysInv => HoldersUnlessClobbered
  BY DEF SysInv, NothingLost, HoldersUnlessClobbered, SingleHolder
<1> QED  BY <1>1, QueueInvariant, PTL

(* The log has an event for each change of status written, except those under   *)
(* way, one per death, and the product approvals, and no other event; lost      *)
(* updates do not affect it.                                                    *)
THEOREM EventsMatch == SysSpec => []EventsMatchWrites
<1>1. SysInv => EventsMatchWrites  BY DEF SysInv, EventsCounted
<1> QED  BY <1>1, QueueInvariant, PTL

(* While no change is lost, and product approval aside, a task on disk moves    *)
(* along the table, although each handler checked a copy it had read before.    *)
THEOREM MovesStayLegal == SysSpec => MovesLegalUnlessClobbered
<1> DEFINE LegalMoves ==
      \A t \in Tasks :
        /\ queue'[t].status # queue[t].status
        /\ queue[t].status # "absent"
        /\ silent' = silent
        /\ ~clobbered'
        => IsLegalTaskTransition(queue[t].status, queue'[t].status)
<1>1. ASSUME SysInv, NEW c \in Clients, AgentStep(c), WriteQueue(c)
      PROVE  LegalMoves
  <2> SUFFICES ASSUME NEW t \in Tasks, queue'[t].status # queue[t].status, ~clobbered'
               PROVE  IsLegalTaskTransition(queue[t].status, queue'[t].status)
    OBVIOUS
  <2>1. snap[c] = queue /\ pc[c] = "write"  BY <1>1 DEF AgentStep, WriteQueue
  <2>2. queue \in Queue /\ Decided /\ RequestShape  BY <1>1 DEF SysInv, SysTypes, Files
  <2>3. queue' = [queue EXCEPT ![req[c].task] = UpdatedTask(c)]  BY <1>1, <2>1 DEF WriteQueue
  <2>4. /\ t = req[c].task /\ queue'[t] = UpdatedTask(c)
        /\ Loaded(c) = queue[t] /\ Loaded(c) \in TaskRecord
    BY <2>1, <2>2, <2>3 DEF Queue, Loaded
  <2>5. CASE req[c].op = "checkout"
    <3>1. queue[t].status \in CheckoutableStates /\ queue'[t].status = "checked_out"
      BY <2>1, <2>2, <2>4, <2>5 DEF Decided, UpdatedTask
    <3>2. \A s \in CheckoutableStates : IsLegalTaskTransition(s, "checked_out")
      BY DEF CheckoutableStates, IsLegalTaskTransition, TaskStates, TaskTransitions
    <3> QED  BY <3>1, <3>2
  <2>6. CASE req[c].op # "checkout"
    <3>1. req[c].op \in {"transition", "ready"}
      BY <2>1, <2>2, <2>6 DEF RequestShape, LockedLabels
    <3>2. queue'[t].status = req[c].to  BY <2>4, <2>6 DEF UpdatedTask, TaskRecord
    <3> QED  BY <2>1, <2>2, <2>4, <3>1, <3>2 DEF Decided
  <2> QED  BY <2>5, <2>6
<1>2. ASSUME SysInv, NEW c \in Clients, SaveQueue(c)
      PROVE  LegalMoves
  <2> SUFFICES ASSUME NEW t \in Tasks, queue'[t].status # queue[t].status,
                      queue[t].status # "absent", silent' = silent, ~clobbered'
               PROVE  IsLegalTaskTransition(queue[t].status, queue'[t].status)
    OBVIOUS
  <2>1. copy[c] = queue /\ opc[c] = "save"  BY <1>2 DEF SaveQueue
  <2>2. /\ \A u \in Tasks : u # change[c].task => queue'[u] = queue[u]
        /\ change[c].task \in Tasks => queue'[change[c].task].status = change[c].to
    BY <1>2, <2>1, ChangedIs DEF SysInv, SaveQueue
  <2>3. t = change[c].task /\ queue'[t].status = change[c].to  BY <2>2
  <2>4. Moves(c)  BY <2>1, <2>3, NoneIsNew DEF Moves
  <2>5. silent \in Nat /\ silent + 1 # silent  BY <1>2 DEF SysInv, EventsCounted
  <2>6. change[c].audited  BY <1>2, <2>4, <2>5 DEF SaveQueue
  <2> QED  BY <1>2, <2>1, <2>3, <2>6 DEF SysInv, ChangeIsDue
<1>3. ASSUME NEW c \in Clients, AgentRequest(c) \/ AgentStep(c) \/ Dashboard(c) \/ Command(c)
                               \/ UnlockedStep(c) \/ Die(c)
      PROVE  (AgentStep(c) /\ WriteQueue(c)) \/ SaveQueue(c) \/ UNCHANGED queue
  <2>1. CASE AgentRequest(c)
    BY <2>1 DEF AgentRequest, Begin, BeginCheckout, BeginTransition, BeginReady, BeginCancel
  <2>2. CASE AgentStep(c)
    BY <2>2 DEF AgentStep, Step,
       AcquireLock, LoadQueue, CheckoutRefused, CheckoutResumed, CheckoutFresh, CreateRun,
       TransitionRefused, TransitionAccepted, WriteResultsMirror, WriteDashboardMirror,
       AppendAudit, Return, FinishRun, ReadyRefused, ReadyAccepted, CancelRun
  <2>3. CASE Dashboard(c) \/ Command(c)
    BY <2>3 DEF Dashboard, Command, Approve, CancelTask, RequestPr, ApproveProduct, QueueNew,
       ApplyFix, UpdateStatus, CreateTask, Touch, OpenQueue, vars
  <2>4. CASE UnlockedStep(c)
    BY <2>4 DEF UnlockedStep, FixApplied, FixFailed, FixRecorded, PrOpened, Abandoned, Proceed,
       SaveResultsMirror, SaveDashboardMirror, EmitAudit, vars
  <2>5. CASE Die(c)
    BY <2>5 DEF Die, Crash
  <2> QED  BY <1>3, <2>1, <2>2, <2>3, <2>4, <2>5
<1>4. ASSUME UNCHANGED queue  PROVE LegalMoves  BY <1>4
<1>5. SysInv /\ [SysNext]_sysVars => [LegalMoves]_sysVars
  <2> SUFFICES ASSUME SysInv, SysNext PROVE LegalMoves
    OBVIOUS
  <2>1. PICK c \in Clients : AgentRequest(c) \/ AgentStep(c) \/ Dashboard(c) \/ Command(c)
                             \/ UnlockedStep(c) \/ Die(c)
    BY ProcessesAssumption DEF SysNext
  <2> HIDE DEF LegalMoves
  <2> QED  BY <1>1, <1>2, <1>3, <1>4, <2>1
<1> QED  BY <1>5, QueueInvariant, PTL DEF SysSpec, MovesLegalUnlessClobbered

=============================================================================
