--------------------------- MODULE TaskStoreProofs ---------------------------
(***************************************************************************)
(* Proofs about TaskStore: the inductive invariant behind its safety       *)
(* properties, the properties, and the refinement of TaskClaim.            *)
(***************************************************************************)
EXTENDS TaskStore, FiniteSetTheorems, TLAPS

-----------------------------------------------------------------------------
(* The parts of the inductive invariant. *)

(* The flock and the program counters agree. *)
LockOwner == \A c \in Clients : lock = c <=> pc[c] \in LockedLabels

(* Inside the lock the copy in memory is the queue on disk. *)
CopyIsCurrent ==
  \A c \in Clients : pc[c] \in LockedLabels \ {"load"} => snap[c] = queue

(* Which request each step belongs to, and what the request carries. *)
RequestShape ==
  \A c \in Clients :
    /\ pc[c] = "idle" => req[c] = NoRequest
    /\ pc[c] \in LockedLabels \cup {"lock"} => req[c].op \in {"checkout", "transition", "ready"}
    /\ pc[c] = "create" => req[c].op = "checkout"
    /\ pc[c] \in {"finish", "lookup"} => req[c].op = "ready"
    /\ pc[c] = "cancel" => req[c].op = "cancel"
    /\ req[c].op = "checkout" =>
         req[c].agent \in Agents /\ req[c].task \in Tasks /\ req[c].run \in RunIds
    /\ req[c].op \in {"transition", "ready"} =>
         req[c].task \in Tasks /\ req[c].to \in TaskStates \ {"checked_out"}
    /\ req[c].op \in {"ready", "cancel"} => req[c].run \in granted

(* The run of a checkout under way belongs to that checkout alone. *)
RunIsReserved ==
  \A c \in Clients : req[c].op = "checkout" =>
    /\ req[c].run \notin granted
    /\ \A d \in Clients : d # c /\ req[d].op = "checkout" => req[d].run # req[c].run
    /\ pc[c] \in {"lock", "load", "decide", "create"} => runs[req[c].run] = None
    /\ pc[c] = "write" =>
         /\ runs[req[c].run] = [state |-> "created", task |-> req[c].task, agent |-> req[c].agent]
         /\ \A t \in Tasks : queue[t].run # req[c].run
    /\ pc[c] \in {"results", "dashboard", "audit", "unlock"} =>
         queue[req[c].task].run = req[c].run

(* What was decided under the lock still holds when it is written. *)
DecisionStands ==
  \A c \in Clients :
    /\ req[c].op = "checkout" /\ pc[c] \in {"create", "write"} =>
         /\ queue[req[c].task].status \in CheckoutableStates
         /\ ~Active(queue[req[c].task].run)
    /\ req[c].op \in {"transition", "ready"} /\ pc[c] = "write" =>
         IsLegalTaskTransition(queue[req[c].task].status, req[c].to)

(* A live run that an agent holds is the one its task points to. *)
GrantedIsPointed ==
  \A r \in granted : runs[r] # None /\ (Active(r) => queue[runs[r].task].run = r)

(* How far the mirrors are behind, as long as nobody has died. *)
MirrorLag ==
  crashes = 0 =>
    /\ lock = None => \A f \in MirrorFiles : mirrors[f] = queue
    /\ \A c \in Clients :
         /\ pc[c] \in {"load", "decide", "create", "write", "audit", "unlock"} =>
              \A f \in MirrorFiles : mirrors[f] = queue
         /\ pc[c] = "dashboard" => mirrors["results"] = queue

(* Between the queue and the audit log there is at most the holder's event. *)
AuditLag ==
  /\ (\A c \in Clients : pc[c] \notin {"results", "dashboard", "audit"}) =>
       logged <= writes /\ writes <= logged + crashes
  /\ (\E c \in Clients : pc[c] \in {"results", "dashboard", "audit"}) =>
       logged + 1 <= writes /\ writes <= logged + 1 + crashes

IndInv ==
  /\ TypeOK
  /\ LockOwner
  /\ CopyIsCurrent
  /\ RequestShape
  /\ RunIsReserved
  /\ DecisionStands
  /\ GrantedIsPointed
  /\ PointerNamesRun
  /\ CheckedOutHasRun
  /\ MirrorLag
  /\ AuditLag
-----------------------------------------------------------------------------
(* The two state machines, as far as the proofs look into them. *)

(* The statuses the store names; "absent" is none of the table. *)
LEMMA TaskStateNames ==
  /\ {"ready", "queued", "checked_out", "ready_for_review"} \subseteq TaskStates
  /\ "absent" \notin TaskStates
BY DEF TaskStates, TaskTransitions

(* The eight run states, spelled out. *)
LEMMA RunStateNames ==
  RunStates = {"created", "queued", "starting", "running",
               "succeeded", "failed", "cancelled", "timed_out"}
BY DEF RunStates, RunTransitions

(* A run that cannot succeed any more is not live. *)
LEMMA LiveRunsMaySucceed ==
  \A s \in ActiveRunStates : IsLegalRunTransition(s, "succeeded")
BY DEF ActiveRunStates, IsLegalRunTransition, RunStates, RunTransitions

-----------------------------------------------------------------------------
(* Nobody is inside the lock and nothing is owed to mirrors or log. *)
LEMMA InitInv == Init => IndInv
<1> SUFFICES ASSUME Init PROVE IndInv
  OBVIOUS
<1> USE NoneIsNew, InitialStatusesAssumption DEF Init
<1>1. TypeOK
  BY RunStateNames DEF TypeOK, Queue, TaskRecord, TaskStatuses, Labels, Request, NoRequest, EmptyQueue, RunRecord
<1>2. LockOwner /\ CopyIsCurrent
  BY DEF LockOwner, CopyIsCurrent, LockedLabels
<1>3. RequestShape /\ RunIsReserved /\ DecisionStands
  BY DEF RequestShape, RunIsReserved, DecisionStands, LockedLabels, NoRequest
<1>4. GrantedIsPointed /\ PointerNamesRun /\ CheckedOutHasRun
  BY DEF GrantedIsPointed, PointerNamesRun, CheckedOutHasRun
<1>5. MirrorLag /\ AuditLag
  BY DEF MirrorLag, AuditLag
<1> QED
  BY <1>1, <1>2, <1>3, <1>4, <1>5 DEF IndInv

-----------------------------------------------------------------------------
(* Steps that leave the run files, the queue and the grants alone keep what *)
(* only speaks of them.                                                     *)

(* Conjuncts about files alone survive a step that leaves the files. *)
LEMMA FilesUntouched ==
  ASSUME IndInv, UNCHANGED <<queue, runs, granted>>
  PROVE  GrantedIsPointed' /\ PointerNamesRun' /\ CheckedOutHasRun'
BY DEF IndInv, GrantedIsPointed, PointerNamesRun, CheckedOutHasRun, Active

(* A checkout that holds the lock is at one of the labels of the write. *)
LEMMA CheckoutLabels ==
  ASSUME IndInv, NEW c \in Clients, req[c].op = "checkout"
  PROVE  pc[c] \in LockedLabels \cup {"lock"}
BY DEF IndInv, TypeOK, RequestShape, Labels, LockedLabels, NoRequest

(* A request arrives: the process was idle, so it holds no lock.            *)

(* The run id drawn is unused, so it is reserved. *)
LEMMA BeginCheckoutInv ==
  ASSUME NEW c \in Clients, NEW a \in Agents, NEW t \in Tasks, NEW r \in RunIds,
         IndInv, BeginCheckout(c, a, t, r)
  PROVE  IndInv'
<1> USE DEF IndInv, BeginCheckout
<1>1. TypeOK'
  BY TaskStateNames, RunStateNames DEF TypeOK, Labels, Request, NoRequest, TaskStatuses
<1>2. LockOwner' /\ CopyIsCurrent'
  BY DEF TypeOK, LockOwner, CopyIsCurrent, LockedLabels
<1>3. RequestShape'
  BY DEF TypeOK, RequestShape, LockedLabels, NoRequest
<1>4. RunIsReserved'
  <2>1. req'[c].op = "checkout" /\ req'[c].run = r /\ pc'[c] = "lock"
    BY DEF TypeOK, Request, NoRequest
  <2>2. runs[r] = None /\ r \notin granted /\ \A d \in Clients : req[d].run # r
    BY DEF Unused, GrantedIsPointed
  <2>3. \A d \in Clients : d # c => req'[d] = req[d] /\ pc'[d] = pc[d]
    BY DEF TypeOK
  <2> QED
    BY <2>1, <2>2, <2>3 DEF RunIsReserved
<1>5. DecisionStands'
  BY DEF TypeOK, DecisionStands, Active
<1>6. MirrorLag' /\ AuditLag'
  BY DEF TypeOK, MirrorLag, AuditLag
<1> QED
  BY <1>1, <1>2, <1>3, <1>4, <1>5, <1>6, FilesUntouched

(* A transition brings no run. *)
LEMMA BeginTransitionInv ==
  ASSUME NEW c \in Clients, NEW t \in Tasks, NEW s \in TransitionTargets,
         IndInv, BeginTransition(c, t, s)
  PROVE  IndInv'
<1> USE DEF IndInv, BeginTransition
<1>1. TypeOK'
  BY TransitionTargetsAssumption, RunStateNames DEF TypeOK, Labels, Request, NoRequest, TaskStatuses
<1>2. LockOwner' /\ CopyIsCurrent'
  BY DEF TypeOK, LockOwner, CopyIsCurrent, LockedLabels
<1>3. RequestShape' /\ RunIsReserved'
  BY TransitionTargetsAssumption DEF TypeOK, RequestShape, RunIsReserved, LockedLabels, NoRequest
<1>4. DecisionStands'
  BY DEF TypeOK, DecisionStands, Active
<1>5. MirrorLag' /\ AuditLag'
  BY DEF TypeOK, MirrorLag, AuditLag
<1> QED
  BY <1>1, <1>2, <1>3, <1>4, <1>5, FilesUntouched

(* ready-for-review remembers the state it read the run in. *)
LEMMA BeginReadyInv ==
  ASSUME NEW c \in Clients, NEW r \in RunIds, IndInv, BeginReady(c, r)
  PROVE  IndInv'
<1> USE DEF IndInv, BeginReady
<1>1. runs[r] \in RunRecord
  BY DEF GrantedIsPointed, TypeOK
<1>2. TypeOK'
  BY <1>1, TaskStateNames DEF TypeOK, Labels, Request, NoRequest, TaskStatuses, RunRecord
<1>3. LockOwner' /\ CopyIsCurrent'
  BY DEF TypeOK, LockOwner, CopyIsCurrent, LockedLabels
<1>4. RequestShape' /\ RunIsReserved'
  BY <1>1, TaskStateNames DEF TypeOK, RequestShape, RunIsReserved, LockedLabels, NoRequest, RunRecord
<1>5. DecisionStands'
  BY DEF TypeOK, DecisionStands, Active
<1>6. MirrorLag' /\ AuditLag'
  BY DEF TypeOK, MirrorLag, AuditLag
<1> QED
  BY <1>2, <1>3, <1>4, <1>5, <1>6, FilesUntouched

(* A cancel brings a run that may still be cancelled. *)
LEMMA BeginCancelInv ==
  ASSUME NEW c \in Clients, NEW r \in RunIds, IndInv, BeginCancel(c, r)
  PROVE  IndInv'
<1> USE DEF IndInv, BeginCancel
<1>1. runs[r] \in RunRecord
  BY DEF GrantedIsPointed, TypeOK
<1>2. TypeOK'
  BY <1>1 DEF TypeOK, Labels, Request, NoRequest, TaskStatuses, RunRecord
<1>3. LockOwner' /\ CopyIsCurrent'
  BY DEF TypeOK, LockOwner, CopyIsCurrent, LockedLabels
<1>4. RequestShape' /\ RunIsReserved'
  BY DEF TypeOK, RequestShape, RunIsReserved, LockedLabels, NoRequest
<1>5. DecisionStands'
  BY DEF TypeOK, DecisionStands, Active
<1>6. MirrorLag' /\ AuditLag'
  BY DEF TypeOK, MirrorLag, AuditLag
<1> QED
  BY <1>2, <1>3, <1>4, <1>5, <1>6, FilesUntouched

-----------------------------------------------------------------------------
(* Steps inside the lock that write no file. *)

(* The flock goes to a waiting process and to it alone. *)
LEMMA AcquireLockInv ==
  ASSUME NEW c \in Clients, IndInv, AcquireLock(c)
  PROVE  IndInv'
<1> USE DEF IndInv, AcquireLock
<1>1. TypeOK'
  BY DEF TypeOK, Labels
<1>2. LockOwner' /\ CopyIsCurrent'
  BY NoneIsNew DEF TypeOK, LockOwner, CopyIsCurrent, LockedLabels
<1>3. RequestShape' /\ RunIsReserved' /\ DecisionStands'
  BY DEF TypeOK, RequestShape, RunIsReserved, DecisionStands, LockedLabels, Active
<1>4. MirrorLag' /\ AuditLag'
  BY NoneIsNew DEF TypeOK, MirrorLag, AuditLag, LockOwner, LockedLabels
<1> QED
  BY <1>1, <1>2, <1>3, <1>4, FilesUntouched

(* What is loaded under the lock is the queue on disk. *)
LEMMA LoadQueueInv ==
  ASSUME NEW c \in Clients, IndInv, LoadQueue(c)
  PROVE  IndInv'
<1> USE DEF IndInv, LoadQueue
<1>1. TypeOK'
  BY DEF TypeOK, Labels
<1>2. LockOwner' /\ CopyIsCurrent'
  BY DEF TypeOK, LockOwner, CopyIsCurrent, LockedLabels
<1>3. RequestShape' /\ RunIsReserved' /\ DecisionStands'
  BY DEF TypeOK, RequestShape, RunIsReserved, DecisionStands, LockedLabels, Active
<1>4. MirrorLag' /\ AuditLag'
  BY DEF TypeOK, MirrorLag, AuditLag
<1> QED
  BY <1>1, <1>2, <1>3, <1>4, FilesUntouched

(* The checks made on the copy hold of the queue on disk. *)
LEMMA CheckoutFreshInv ==
  ASSUME NEW c \in Clients, IndInv, CheckoutFresh(c)
  PROVE  IndInv'
<1> USE DEF IndInv, CheckoutFresh
<1>1. TypeOK'
  BY DEF TypeOK, Labels
<1>2. LockOwner' /\ CopyIsCurrent'
  BY DEF TypeOK, LockOwner, CopyIsCurrent, LockedLabels
<1>3. RequestShape' /\ RunIsReserved'
  BY DEF TypeOK, RequestShape, RunIsReserved, LockedLabels
<1>4. DecisionStands'
  <2>1. Loaded(c) = queue[req[c].task]
    BY DEF Loaded, CopyIsCurrent, LockedLabels
  <2>2. \A d \in Clients : d # c => pc'[d] = pc[d]
    BY DEF TypeOK
  <2> QED
    BY <2>1, <2>2 DEF DecisionStands, Active
<1>5. MirrorLag' /\ AuditLag'
  BY DEF TypeOK, MirrorLag, AuditLag
<1> QED
  BY <1>1, <1>2, <1>3, <1>4, <1>5, FilesUntouched

(* The legality found on the copy holds of the queue on disk. *)
LEMMA TransitionAcceptedInv ==
  ASSUME NEW c \in Clients, IndInv, TransitionAccepted(c)
  PROVE  IndInv'
<1> USE DEF IndInv, TransitionAccepted
<1>1. TypeOK'
  BY DEF TypeOK, Labels
<1>2. LockOwner' /\ CopyIsCurrent'
  BY DEF TypeOK, LockOwner, CopyIsCurrent, LockedLabels
<1>3. RequestShape' /\ RunIsReserved'
  BY DEF TypeOK, RequestShape, RunIsReserved, LockedLabels
<1>4. DecisionStands'
  <2>1. Loaded(c) = queue[req[c].task]
    BY DEF Loaded, CopyIsCurrent, LockedLabels
  <2>2. \A d \in Clients : d # c => pc'[d] = pc[d]
    BY DEF TypeOK
  <2> QED
    BY <2>1, <2>2 DEF DecisionStands, Active
<1>5. MirrorLag' /\ AuditLag'
  BY DEF TypeOK, MirrorLag, AuditLag
<1> QED
  BY <1>1, <1>2, <1>3, <1>4, <1>5, FilesUntouched

(* The unlocked look-up promises nothing; only the lock is next. *)
LEMMA ReadyAcceptedInv ==
  ASSUME NEW c \in Clients, IndInv, ReadyAccepted(c)
  PROVE  IndInv'
<1> USE DEF IndInv, ReadyAccepted
<1>1. TypeOK'
  BY DEF TypeOK, Labels
<1>2. LockOwner' /\ CopyIsCurrent'
  BY DEF TypeOK, LockOwner, CopyIsCurrent, LockedLabels
<1>3. RequestShape'
  BY DEF TypeOK, RequestShape, LockedLabels
<1>4. RunIsReserved'
  <2>1. req[c].op # "checkout"
    BY DEF RequestShape
  <2>2. \A d \in Clients : d # c => pc'[d] = pc[d]
    BY DEF TypeOK
  <2> QED
    BY <2>1, <2>2 DEF RunIsReserved
<1>5. DecisionStands'
  BY DEF TypeOK, DecisionStands, Active
<1>6. MirrorLag' /\ AuditLag'
  BY DEF TypeOK, MirrorLag, AuditLag
<1> QED
  BY <1>1, <1>2, <1>3, <1>4, <1>5, <1>6, FilesUntouched

-----------------------------------------------------------------------------
(* Answers: what Answer(c) preserves, then each step that ends with one. *)

(* An answer clears the request and frees the lock it held. *)
LEMMA AnswerShape ==
  ASSUME NEW c \in Clients, IndInv, Answer(c), queue' = queue, granted \subseteq granted'
  PROVE  /\ lock' \in Clients \cup {None}
         /\ pc' \in [Clients -> Labels]
         /\ req' \in [Clients -> Request]
         /\ snap' \in [Clients -> Queue]
         /\ LockOwner' /\ CopyIsCurrent' /\ RequestShape'
<1> USE DEF IndInv, Answer
<1>1. lock' \in Clients \cup {None} /\ pc' \in [Clients -> Labels]
  BY DEF TypeOK, Labels
<1>2. req' \in [Clients -> Request] /\ snap' \in [Clients -> Queue]
  BY RunStateNames DEF TypeOK, Request, NoRequest, TaskStatuses, EmptyQueue, Queue, TaskRecord
<1>3. LockOwner' /\ CopyIsCurrent'
  BY NoneIsNew DEF TypeOK, LockOwner, CopyIsCurrent, LockedLabels
<1>4. RequestShape'
  BY DEF TypeOK, RequestShape, LockedLabels, NoRequest
<1> QED
  BY <1>1, <1>2, <1>3, <1>4

(* An answer leaves the decisions of the other processes alone. *)
LEMMA AnswerKeepsDecisions ==
  ASSUME NEW c \in Clients, IndInv, Answer(c), UNCHANGED <<queue, runs, granted>>
  PROVE  RunIsReserved' /\ DecisionStands'
BY DEF IndInv, Answer, TypeOK, RunIsReserved, DecisionStands, NoRequest, Active

(* An answer that writes nothing, from a step with no file half written. *)
LEMMA PlainAnswerInv ==
  ASSUME NEW c \in Clients, IndInv, Answer(c), pc[c] \in {"decide", "lookup"},
         UNCHANGED <<queue, mirrors, runs, granted, writes, logged, crashes>>
  PROVE  IndInv'
<1> USE DEF IndInv
<1>1. TypeOK'
  BY AnswerShape DEF TypeOK
<1>2. MirrorLag'
  <2>1. lock' = None => \A f \in MirrorFiles : crashes = 0 => mirrors[f] = queue
    BY DEF Answer, MirrorLag, LockOwner, LockedLabels
  <2>2. \A d \in Clients : pc'[d] = pc[d] \/ pc'[d] = "idle"
    BY DEF Answer, TypeOK
  <2> QED
    BY <2>1, <2>2 DEF MirrorLag
<1>3. AuditLag'
  <2>1. \A d \in Clients : pc'[d] = pc[d] \/ (d = c /\ pc'[d] = "idle")
    BY DEF Answer, TypeOK
  <2> QED
    BY <2>1 DEF AuditLag
<1> QED
  BY <1>1, <1>2, <1>3, AnswerShape, AnswerKeepsDecisions, FilesUntouched

(* A refused checkout is a plain answer. *)
LEMMA CheckoutRefusedInv ==
  ASSUME NEW c \in Clients, IndInv, CheckoutRefused(c)
  PROVE  IndInv'
BY PlainAnswerInv DEF CheckoutRefused

(* A refused transition is a plain answer. *)
LEMMA TransitionRefusedInv ==
  ASSUME NEW c \in Clients, IndInv, TransitionRefused(c)
  PROVE  IndInv'
BY PlainAnswerInv DEF TransitionRefused

(* A refused ready-for-review is a plain answer. *)
LEMMA ReadyRefusedInv ==
  ASSUME NEW c \in Clients, IndInv, ReadyRefused(c)
  PROVE  IndInv'
BY PlainAnswerInv DEF ReadyRefused

(* A death between the queue write and the audit append costs one event. *)
LEMMA CrashInv ==
  ASSUME NEW c \in Clients, IndInv, Crash(c)
  PROVE  IndInv'
<1> USE DEF IndInv, Crash
<1>1. TypeOK'
  BY AnswerShape DEF TypeOK
<1>2. MirrorLag'
  BY DEF TypeOK, MirrorLag
<1>3. AuditLag'
  <2>1. \A d \in Clients : d # c => pc'[d] = pc[d]
    BY DEF Answer, TypeOK
  <2>2. pc'[c] = "idle"
    BY DEF Answer, TypeOK
  <2>3. /\ logged' = logged /\ writes' = writes /\ crashes' = crashes + 1
        /\ logged \in Nat /\ writes \in Nat /\ crashes \in Nat
    BY DEF TypeOK
  <2>4. CASE pc[c] \in {"results", "dashboard", "audit"}
    <3>1. \A d \in Clients : d # c => pc[d] \notin {"results", "dashboard", "audit"}
      BY <2>4 DEF LockOwner, LockedLabels
    <3> QED
      BY <2>1, <2>2, <2>3, <2>4, <3>1 DEF AuditLag
  <2>5. CASE pc[c] \notin {"results", "dashboard", "audit"}
    BY <2>1, <2>2, <2>3, <2>5 DEF AuditLag
  <2> QED
    BY <2>4, <2>5
<1> QED
  BY <1>1, <1>2, <1>3, AnswerShape, AnswerKeepsDecisions, FilesUntouched

(* The run handed out again is the one the task points to, and no checkout
   under way has it reserved: it has a file. *)
LEMMA CheckoutResumedInv ==
  ASSUME NEW c \in Clients, IndInv, CheckoutResumed(c)
  PROVE  IndInv'
<1> USE DEF IndInv, CheckoutResumed
<1> DEFINE t == req[c].task
           r == queue[t].run
<1>1. Loaded(c) = queue[t] /\ lock = c /\ t \in Tasks
  BY DEF Loaded, CopyIsCurrent, LockedLabels, LockOwner, RequestShape
<1>2. r \in RunIds /\ runs[r] # None /\ runs[r].task = t /\ granted' = granted \cup {r}
  BY <1>1 DEF Active, PointerNamesRun, TypeOK, Queue, TaskRecord
<1>3. TypeOK'
  BY <1>2, AnswerShape DEF TypeOK
<1>4. RunIsReserved'
  <2>1. \A d \in Clients : d # c /\ req[d].op = "checkout" => runs[req[d].run] = None
    <3>1. \A d \in Clients : d # c => pc[d] \notin LockedLabels
      BY <1>1 DEF LockOwner
    <3> QED
      BY <3>1, CheckoutLabels DEF RunIsReserved
  <2>2. \A d \in Clients : d # c => req'[d] = req[d] /\ pc'[d] = pc[d]
    BY DEF Answer, TypeOK
  <2>3. req'[c].op # "checkout"
    BY DEF Answer, TypeOK, NoRequest
  <2> QED
    BY <1>2, <2>1, <2>2, <2>3 DEF RunIsReserved
<1>5. DecisionStands'
  BY DEF Answer, TypeOK, DecisionStands, NoRequest, Active
<1>6. GrantedIsPointed' /\ PointerNamesRun' /\ CheckedOutHasRun'
  BY <1>2 DEF GrantedIsPointed, PointerNamesRun, CheckedOutHasRun, Active
<1>7. MirrorLag'
  BY <1>1 DEF Answer, TypeOK, MirrorLag
<1>8. AuditLag'
  BY DEF Answer, TypeOK, AuditLag
<1> QED
  BY <1>3, <1>4, <1>5, <1>6, <1>7, <1>8, AnswerShape

(* A checkout hands out the run its task now points to. *)
LEMMA ReturnInv ==
  ASSUME NEW c \in Clients, IndInv, Return(c)
  PROVE  IndInv'
<1> USE DEF IndInv, Return
<1> DEFINE t == req[c].task
           r == req[c].run
<1>1. lock = c
  BY DEF LockOwner, LockedLabels
<1>2. granted \subseteq granted'
  OBVIOUS
<1>3. ASSUME req[c].op = "checkout"
      PROVE  t \in Tasks /\ r \in RunIds /\ queue[t].run = r /\ runs[r] # None /\ runs[r].task = t
  <2>1. t \in Tasks /\ r \in RunIds /\ r # None
    BY <1>3, NoneIsNew DEF RequestShape
  <2>2. queue[t].run = r
    BY <1>3 DEF RunIsReserved
  <2> QED
    BY <2>1, <2>2 DEF PointerNamesRun
<1>4. TypeOK'
  BY <1>2, <1>3, AnswerShape DEF TypeOK
<1>5. RunIsReserved'
  <2>1. \A d \in Clients : d # c => req'[d] = req[d] /\ pc'[d] = pc[d]
    BY DEF Answer, TypeOK
  <2>2. req'[c].op # "checkout"
    BY DEF Answer, TypeOK, NoRequest
  <2> QED
    BY <2>1, <2>2 DEF RunIsReserved
<1>6. DecisionStands'
  BY DEF Answer, TypeOK, DecisionStands, NoRequest, Active
<1>7. GrantedIsPointed' /\ PointerNamesRun' /\ CheckedOutHasRun'
  BY <1>3 DEF GrantedIsPointed, PointerNamesRun, CheckedOutHasRun, Active
<1>8. MirrorLag'
  BY <1>1 DEF Answer, TypeOK, MirrorLag
<1>9. AuditLag'
  BY DEF Answer, TypeOK, AuditLag
<1> QED
  BY <1>2, <1>4, <1>5, <1>6, <1>7, <1>8, <1>9, AnswerShape

-----------------------------------------------------------------------------
(* Steps that write a file. *)

(* The new run file is nobody else's: no pointer, no grant and no other
   checkout names it. *)
LEMMA CreateRunInv ==
  ASSUME NEW c \in Clients, IndInv, CreateRun(c)
  PROVE  IndInv'
<1> USE DEF IndInv, CreateRun
<1> DEFINE r == req[c].run
           new == [state |-> "created", task |-> req[c].task, agent |-> req[c].agent]
<1>1. req[c].op = "checkout" /\ r \in RunIds /\ runs[r] = None /\ r \notin granted
  BY DEF RequestShape, RunIsReserved
<1>2. new \in RunRecord /\ new # None
  BY <1>1, NoneIsNew, RunStateNames DEF RequestShape, RunRecord
<1>3. runs'[r] = new /\ \A q \in RunIds : q # r => runs'[q] = runs[q]
  BY <1>1 DEF TypeOK
<1>4. \A t \in Tasks : queue[t].run # r
  BY <1>1, NoneIsNew DEF PointerNamesRun
<1>5. \A t \in Tasks : queue[t].run \in RunIds \cup {None}
  BY DEF TypeOK, Queue, TaskRecord
<1>6. \A d \in Clients : d # c => pc'[d] = pc[d] /\ pc[d] \notin LockedLabels
  BY DEF TypeOK, LockOwner, LockedLabels
<1>7. TypeOK'
  BY <1>1, <1>2 DEF TypeOK, Labels
<1>8. LockOwner' /\ CopyIsCurrent' /\ RequestShape'
  BY <1>1 DEF TypeOK, LockOwner, CopyIsCurrent, RequestShape, LockedLabels
<1>9. RunIsReserved'
  <2>1. pc'[c] = "write"
    BY DEF TypeOK
  <2>2. \A d \in Clients : d # c /\ req[d].op = "checkout" =>
          req[d].run \in RunIds /\ req[d].run # r /\ pc[d] = "lock" /\ pc'[d] = "lock"
    BY <1>1, <1>6, CheckoutLabels DEF RequestShape, RunIsReserved
  <2> QED
    BY <1>1, <1>3, <1>4, <2>1, <2>2 DEF RunIsReserved
<1>10. DecisionStands'
  <2>1. \A t \in Tasks : Active(queue[t].run)' <=> Active(queue[t].run)
    BY <1>3, <1>4, <1>5, NoneIsNew DEF Active
  <2> QED
    BY <1>1, <1>6, <2>1 DEF DecisionStands, RequestShape, LockedLabels
<1>11. GrantedIsPointed' /\ PointerNamesRun' /\ CheckedOutHasRun'
  BY <1>1, <1>3, <1>4, <1>5 DEF GrantedIsPointed, PointerNamesRun, CheckedOutHasRun, Active, TypeOK
<1>12. MirrorLag' /\ AuditLag'
  BY DEF TypeOK, MirrorLag, AuditLag
<1> QED
  BY <1>7, <1>8, <1>9, <1>10, <1>11, <1>12

(* The queue changes at one task, and the old pointer of a task that is
   checked out was to no live run. *)
LEMMA WriteQueueEffect ==
  ASSUME NEW c \in Clients, IndInv, WriteQueue(c)
  PROVE  /\ req[c].task \in Tasks
         /\ queue' = [queue EXCEPT ![req[c].task] = UpdatedTask(c)]
         /\ snap' = [snap EXCEPT ![c] = queue']
         /\ req[c].op = "checkout" =>
              UpdatedTask(c) = [status |-> "checked_out", run |-> req[c].run]
         /\ req[c].op # "checkout" =>
              /\ req[c].op \in {"transition", "ready"}
              /\ UpdatedTask(c) = [status |-> req[c].to, run |-> queue[req[c].task].run]
         /\ UpdatedTask(c) \in TaskRecord
<1> USE DEF IndInv, WriteQueue
<1>1. snap[c] = queue /\ req[c].op \in {"checkout", "transition", "ready"}
  BY DEF CopyIsCurrent, RequestShape, LockedLabels
<1>2. req[c].task \in Tasks
  BY <1>1 DEF RequestShape
<1>3. Loaded(c) = queue[req[c].task] /\ Loaded(c) \in TaskRecord
  BY <1>1, <1>2 DEF Loaded, TypeOK, Queue
<1>4. CASE req[c].op = "checkout"
  BY <1>1, <1>2, <1>3, <1>4, TaskStateNames DEF UpdatedTask, RequestShape, TaskRecord, TaskStatuses, TypeOK
<1>5. CASE req[c].op \in {"transition", "ready"}
  BY <1>1, <1>2, <1>3, <1>5 DEF UpdatedTask, RequestShape, TaskRecord, TaskStatuses, TypeOK
<1> QED
  BY <1>1, <1>4, <1>5

(* The queue write, under the lock, from a copy that is current. *)
LEMMA WriteQueueInv ==
  ASSUME NEW c \in Clients, IndInv, WriteQueue(c)
  PROVE  IndInv'
<1> USE DEF IndInv, WriteQueue
<1> DEFINE t == req[c].task
           r == req[c].run
<1>1. /\ t \in Tasks
      /\ queue'[t] = UpdatedTask(c)
      /\ \A u \in Tasks : u # t => queue'[u] = queue[u]
      /\ queue' \in Queue
  BY WriteQueueEffect DEF TypeOK, Queue
<1>2. \A d \in Clients : d # c => pc'[d] = pc[d] /\ pc[d] \notin LockedLabels
  BY DEF TypeOK, LockOwner, LockedLabels
<1>3. pc'[c] = "results" /\ lock = c
  BY DEF TypeOK, LockOwner, LockedLabels
<1>4. req[c].op = "checkout" =>
        /\ r \in RunIds /\ r # None
        /\ runs[r] = [state |-> "created", task |-> t, agent |-> req[c].agent]
        /\ runs[r] # None
        /\ ~Active(queue[t].run)
        /\ queue'[t] = [status |-> "checked_out", run |-> r]
  <2>1. req[c].op = "checkout" => r \in RunIds /\ r # None
    BY NoneIsNew DEF RequestShape
  <2>2. req[c].op = "checkout" =>
          runs[r] = [state |-> "created", task |-> t, agent |-> req[c].agent]
    BY DEF RunIsReserved
  <2>3. req[c].op = "checkout" =>
          [state |-> "created", task |-> t, agent |-> req[c].agent] \in RunRecord
    BY RunStateNames DEF RequestShape, RunRecord
  <2>4. req[c].op = "checkout" => ~Active(queue[t].run)
    BY DEF DecisionStands
  <2> QED
    BY <1>1, <2>1, <2>2, <2>3, <2>4, NoneIsNew, WriteQueueEffect
<1>5. req[c].op # "checkout" =>
        queue'[t].run = queue[t].run /\ queue'[t].status = req[c].to /\ req[c].to # "checked_out"
  <2> SUFFICES ASSUME req[c].op # "checkout"
               PROVE  /\ queue'[t].run = queue[t].run /\ queue'[t].status = req[c].to
                      /\ req[c].to # "checked_out"
    OBVIOUS
  <2>1. /\ req[c].op \in {"transition", "ready"}
        /\ UpdatedTask(c) = [status |-> req[c].to, run |-> queue[t].run]
    BY WriteQueueEffect
  <2>2. req[c].to # "checked_out"
    BY <2>1 DEF RequestShape
  <2> QED
    BY <1>1, <2>1, <2>2
<1>6. TypeOK'
  BY <1>1, WriteQueueEffect DEF TypeOK, Labels
<1>7. LockOwner' /\ RequestShape'
  BY <1>2, <1>3 DEF LockOwner, RequestShape, LockedLabels, TypeOK
<1>8. CopyIsCurrent'
  BY <1>2, <1>3, WriteQueueEffect DEF CopyIsCurrent, TypeOK, LockedLabels
<1>9. RunIsReserved'
  <2>1. \A d \in Clients : d # c /\ req[d].op = "checkout" => pc[d] = "lock" /\ pc'[d] = "lock"
    BY <1>2, CheckoutLabels
  <2> QED
    BY <1>3, <1>4, <2>1 DEF RunIsReserved
<1>10. DecisionStands'
  BY <1>2, <1>3 DEF DecisionStands, LockedLabels
<1>11. GrantedIsPointed'
  <2> SUFFICES ASSUME NEW g \in granted, Active(g)
               PROVE  queue'[runs[g].task].run = g
    BY DEF GrantedIsPointed, Active
  <2>1. runs[g].task \in Tasks /\ queue[runs[g].task].run = g
    BY DEF GrantedIsPointed, TypeOK, RunRecord
  <2>2. CASE runs[g].task # t
    BY <1>1, <2>1, <2>2
  <2>3. CASE runs[g].task = t
    BY <1>4, <1>5, <2>1, <2>3
  <2> QED
    BY <2>2, <2>3
<1>12. PointerNamesRun' /\ CheckedOutHasRun'
  BY <1>1, <1>4, <1>5 DEF PointerNamesRun, CheckedOutHasRun
<1>13. MirrorLag'
  BY <1>2, <1>3, NoneIsNew DEF MirrorLag, LockedLabels
<1>14. AuditLag'
  <2>1. \A d \in Clients : pc[d] \notin {"results", "dashboard", "audit"}
    BY <1>2 DEF LockedLabels
  <2> QED
    BY <1>3, <2>1 DEF AuditLag, TypeOK
<1> QED
  BY <1>6, <1>7, <1>8, <1>9, <1>10, <1>11, <1>12, <1>13, <1>14

(* The first mirror catches up. *)
LEMMA WriteResultsMirrorInv ==
  ASSUME NEW c \in Clients, IndInv, WriteResultsMirror(c)
  PROVE  IndInv'
<1> USE DEF IndInv, WriteResultsMirror
<1>1. snap[c] = queue /\ lock = c
  BY DEF CopyIsCurrent, LockOwner, LockedLabels
<1>2. TypeOK'
  BY <1>1 DEF TypeOK, Labels, MirrorFiles
<1>3. LockOwner' /\ CopyIsCurrent'
  BY DEF TypeOK, LockOwner, CopyIsCurrent, LockedLabels
<1>4. RequestShape' /\ RunIsReserved' /\ DecisionStands'
  BY DEF TypeOK, RequestShape, RunIsReserved, DecisionStands, LockedLabels, Active
<1>5. MirrorLag'
  <2>1. \A d \in Clients : d # c => pc'[d] = pc[d] /\ pc[d] \notin LockedLabels
    BY DEF TypeOK, LockOwner, LockedLabels
  <2>2. pc'[c] = "dashboard" /\ mirrors'["results"] = queue
    BY <1>1 DEF TypeOK, MirrorFiles
  <2> QED
    BY <1>1, <2>1, <2>2, NoneIsNew DEF MirrorLag, LockedLabels
<1>6. AuditLag'
  BY DEF TypeOK, AuditLag
<1> QED
  BY <1>2, <1>3, <1>4, <1>5, <1>6, FilesUntouched

(* The second mirror catches up. *)
LEMMA WriteDashboardMirrorInv ==
  ASSUME NEW c \in Clients, IndInv, WriteDashboardMirror(c)
  PROVE  IndInv'
<1> USE DEF IndInv, WriteDashboardMirror
<1>1. snap[c] = queue /\ lock = c
  BY DEF CopyIsCurrent, LockOwner, LockedLabels
<1>2. TypeOK'
  BY <1>1 DEF TypeOK, Labels, MirrorFiles
<1>3. LockOwner' /\ CopyIsCurrent'
  BY DEF TypeOK, LockOwner, CopyIsCurrent, LockedLabels
<1>4. RequestShape' /\ RunIsReserved' /\ DecisionStands'
  BY DEF TypeOK, RequestShape, RunIsReserved, DecisionStands, LockedLabels, Active
<1>5. MirrorLag'
  <2>1. \A d \in Clients : d # c => pc'[d] = pc[d] /\ pc[d] \notin LockedLabels
    BY DEF TypeOK, LockOwner, LockedLabels
  <2>2. pc'[c] = "audit" /\ \A f \in MirrorFiles : crashes = 0 => mirrors'[f] = queue
    BY <1>1 DEF TypeOK, MirrorFiles, MirrorLag
  <2> QED
    BY <1>1, <2>1, <2>2, NoneIsNew DEF MirrorLag, LockedLabels
<1>6. AuditLag'
  BY DEF TypeOK, AuditLag
<1> QED
  BY <1>2, <1>3, <1>4, <1>5, <1>6, FilesUntouched

(* The event owed by the lock holder is written. *)
LEMMA AppendAuditInv ==
  ASSUME NEW c \in Clients, IndInv, AppendAudit(c)
  PROVE  IndInv'
<1> USE DEF IndInv, AppendAudit
<1>1. TypeOK'
  BY DEF TypeOK, Labels
<1>2. LockOwner' /\ CopyIsCurrent'
  BY DEF TypeOK, LockOwner, CopyIsCurrent, LockedLabels
<1>3. RequestShape' /\ RunIsReserved' /\ DecisionStands'
  BY DEF TypeOK, RequestShape, RunIsReserved, DecisionStands, LockedLabels, Active
<1>4. MirrorLag'
  BY DEF TypeOK, MirrorLag
<1>5. AuditLag'
  <2>1. \A d \in Clients : d # c => pc'[d] = pc[d] /\ pc[d] \notin LockedLabels
    BY DEF TypeOK, LockOwner, LockedLabels
  <2>2. pc'[c] = "unlock"
    BY DEF TypeOK
  <2>3. \A d \in Clients : pc'[d] \notin {"results", "dashboard", "audit"}
    BY <2>1, <2>2 DEF LockedLabels
  <2>4. logged + 1 <= writes /\ writes <= logged + 1 + crashes
    BY DEF AuditLag
  <2> QED
    BY <2>3, <2>4 DEF AuditLag, TypeOK
<1> QED
  BY <1>1, <1>2, <1>3, <1>4, <1>5, FilesUntouched

-----------------------------------------------------------------------------
(* Steps that end a run.  The file is overwritten with a copy read earlier, *)
(* and still the state written is always terminal.                          *)

(* ready-for-review leaves the run in a terminal state. *)
LEMMA FinishRunEnds ==
  ASSUME NEW c \in Clients, IndInv, FinishRun(c)
  PROVE  /\ req[c].run \in granted
         /\ \E s \in RunStates \ ActiveRunStates : runs' = [runs EXCEPT ![req[c].run].state = s]
<1> USE DEF IndInv, FinishRun
<1>1. req[c].run \in granted
  BY DEF RequestShape
<1>2. req[c].seen \in RunStates
  BY DEF TypeOK, Request
<1>3. CASE IsLegalRunTransition(req[c].seen, "succeeded")
  BY <1>1, <1>3, RunStateNames DEF ActiveRunStates
<1>4. CASE ~IsLegalRunTransition(req[c].seen, "succeeded")
  BY <1>1, <1>2, <1>4, LiveRunsMaySucceed
<1> QED
  BY <1>3, <1>4

(* So does cancel. *)
LEMMA CancelRunEnds ==
  ASSUME NEW c \in Clients, IndInv, CancelRun(c)
  PROVE  /\ req[c].run \in granted
         /\ \E s \in RunStates \ ActiveRunStates : runs' = [runs EXCEPT ![req[c].run].state = s]
BY RunStateNames DEF IndInv, CancelRun, RequestShape, ActiveRunStates

(* Ending a run makes no run live and moves no run to another task. *)
LEMMA EndedRun ==
  ASSUME IndInv, NEW r \in granted, NEW s \in RunStates \ ActiveRunStates,
         runs' = [runs EXCEPT ![r].state = s]
  PROVE  /\ r \in RunIds /\ runs[r] \in RunRecord /\ runs'[r] \in RunRecord
         /\ runs' \in [RunIds -> RunRecord \cup {None}]
         /\ runs'[r].task = runs[r].task /\ runs'[r] # None /\ ~(Active(r)')
         /\ \A q \in RunIds : q # r => runs'[q] = runs[q]
<1> USE DEF IndInv
<1>1. r \in RunIds /\ runs[r] \in RunRecord
  BY DEF TypeOK, GrantedIsPointed
<1>2. runs'[r] = [runs[r] EXCEPT !.state = s] /\ \A q \in RunIds : q # r => runs'[q] = runs[q]
  BY <1>1 DEF TypeOK
<1>3. /\ runs'[r] \in RunRecord /\ runs'[r].task = runs[r].task /\ runs'[r].state = s
  BY <1>1, <1>2 DEF RunRecord
<1>4. runs' \in [RunIds -> RunRecord \cup {None}]
  BY <1>1, <1>2, <1>3 DEF TypeOK
<1> QED
  BY <1>1, <1>2, <1>3, <1>4, NoneIsNew DEF Active

(* What survives the end of a run, whichever handler writes it. *)
LEMMA EndedRunInv ==
  ASSUME IndInv, NEW r \in granted, NEW s \in RunStates \ ActiveRunStates,
         runs' = [runs EXCEPT ![r].state = s], UNCHANGED <<queue, granted>>
  PROVE  /\ GrantedIsPointed' /\ PointerNamesRun' /\ CheckedOutHasRun'
         /\ \A q \in RunIds \cup {None} : Active(q)' => Active(q)
         /\ \A c \in Clients : req[c].op = "checkout" => runs'[req[c].run] = runs[req[c].run]
<1> USE DEF IndInv
<1>1. \A t \in Tasks : queue[t].run \in RunIds \cup {None}
  BY DEF TypeOK, Queue, TaskRecord
<1>2. \A q \in RunIds : /\ runs[q] # None => runs'[q] # None /\ runs'[q].task = runs[q].task
                        /\ Active(q)' => Active(q)
  BY EndedRun DEF Active
<1>3. GrantedIsPointed'
  BY <1>2 DEF GrantedIsPointed, TypeOK
<1>4. PointerNamesRun' /\ CheckedOutHasRun'
  BY <1>1, <1>2 DEF PointerNamesRun, CheckedOutHasRun
<1>5. \A c \in Clients : req[c].op = "checkout" => runs'[req[c].run] = runs[req[c].run]
  <2>1. \A c \in Clients : req[c].op = "checkout" => req[c].run \in RunIds
    BY DEF RequestShape
  <2>2. \A c \in Clients : req[c].op = "checkout" => req[c].run # r
    BY DEF RunIsReserved
  <2> QED
    BY <2>1, <2>2, EndedRun
<1>6. ~(Active(None)')
  BY DEF Active
<1> QED
  BY <1>2, <1>3, <1>4, <1>5, <1>6

(* FinishRun is an ended run and one step of the handler. *)
LEMMA FinishRunInv ==
  ASSUME NEW c \in Clients, IndInv, FinishRun(c)
  PROVE  IndInv'
<1> USE DEF IndInv, FinishRun
<1>1. PICK s \in RunStates \ ActiveRunStates : runs' = [runs EXCEPT ![req[c].run].state = s]
  BY FinishRunEnds
<1>2. req[c].run \in granted
  BY FinishRunEnds
<1>3. TypeOK'
  BY <1>1, <1>2, EndedRun DEF TypeOK, Labels
<1>4. LockOwner' /\ CopyIsCurrent'
  BY DEF TypeOK, LockOwner, CopyIsCurrent, LockedLabels
<1>5. RequestShape'
  BY DEF TypeOK, RequestShape, LockedLabels
<1>6. req[c].op = "ready"
  BY DEF RequestShape
<1>7. \A d \in Clients : d # c => pc'[d] = pc[d]
  BY DEF TypeOK
<1>8. RunIsReserved'
  BY <1>1, <1>2, <1>6, <1>7, EndedRunInv DEF RunIsReserved
<1>9. DecisionStands'
  <2>1. \A t \in Tasks : queue[t].run \in RunIds \cup {None}
    BY DEF TypeOK, Queue, TaskRecord
  <2>2. \A d \in Clients : req[d].op = "checkout" => req[d].task \in Tasks
    BY DEF RequestShape
  <2>3. pc'[c] = "lookup"
    BY DEF TypeOK
  <2>4. \A q \in RunIds \cup {None} : Active(q)' => Active(q)
    BY <1>1, <1>2, EndedRunInv
  <2> QED
    BY <1>6, <1>7, <2>1, <2>2, <2>3, <2>4 DEF DecisionStands
<1>10. MirrorLag' /\ AuditLag'
  BY DEF TypeOK, MirrorLag, AuditLag
<1> QED
  BY <1>1, <1>2, <1>3, <1>4, <1>5, <1>8, <1>9, <1>10, EndedRunInv

(* CancelRun is an ended run and an answer. *)
LEMMA CancelRunInv ==
  ASSUME NEW c \in Clients, IndInv, CancelRun(c)
  PROVE  IndInv'
<1> USE DEF IndInv, CancelRun
<1>1. PICK s \in RunStates \ ActiveRunStates : runs' = [runs EXCEPT ![req[c].run].state = s]
  BY CancelRunEnds
<1>2. req[c].run \in granted
  BY CancelRunEnds
<1>3. TypeOK'
  BY <1>1, <1>2, EndedRun, AnswerShape DEF TypeOK
<1>4. /\ pc'[c] = "idle" /\ req'[c].op = "none" /\ lock' = lock
      /\ \A d \in Clients : d # c => pc'[d] = pc[d] /\ req'[d] = req[d]
  BY DEF Answer, TypeOK, NoRequest, LockOwner, LockedLabels
<1>5. RunIsReserved'
  BY <1>1, <1>2, <1>4, EndedRunInv DEF RunIsReserved
<1>6. DecisionStands'
  <2>1. \A t \in Tasks : queue[t].run \in RunIds \cup {None}
    BY DEF TypeOK, Queue, TaskRecord
  <2>2. \A d \in Clients : req[d].op = "checkout" => req[d].task \in Tasks
    BY DEF RequestShape
  <2>3. \A q \in RunIds \cup {None} : Active(q)' => Active(q)
    BY <1>1, <1>2, EndedRunInv
  <2> QED
    BY <1>4, <2>1, <2>2, <2>3 DEF DecisionStands
<1>7. MirrorLag' /\ AuditLag'
  BY <1>4 DEF MirrorLag, AuditLag
<1> QED
  BY <1>1, <1>2, <1>3, <1>5, <1>6, <1>7, EndedRunInv, AnswerShape

-----------------------------------------------------------------------------
(* The invariant is inductive. *)

(* Nothing changes. *)
LEMMA StutterInv == IndInv /\ UNCHANGED vars => IndInv'
<1> SUFFICES ASSUME IndInv, UNCHANGED vars PROVE IndInv'
  OBVIOUS
<1> USE DEF IndInv, vars
<1>1. TypeOK' /\ LockOwner' /\ CopyIsCurrent' /\ RequestShape'
  BY DEF TypeOK, LockOwner, CopyIsCurrent, RequestShape
<1>2. RunIsReserved' /\ DecisionStands'
  BY DEF RunIsReserved, DecisionStands, Active
<1>3. MirrorLag' /\ AuditLag'
  BY DEF MirrorLag, AuditLag
<1> QED
  BY <1>1, <1>2, <1>3, FilesUntouched

(* Each action preserves the inductive invariant. *)
LEMMA StepInv == IndInv /\ [Next]_vars => IndInv'
<1> SUFFICES ASSUME IndInv, [Next]_vars PROVE IndInv'
  OBVIOUS
<1>1. CASE UNCHANGED vars
  BY <1>1, StutterInv
<1>2. ASSUME NEW c \in Clients, Begin(c)
      PROVE  IndInv'
  BY <1>2, BeginCheckoutInv, BeginTransitionInv, BeginReadyInv, BeginCancelInv DEF Begin
<1>3. ASSUME NEW c \in Clients, Step(c)
      PROVE  IndInv'
  BY <1>3, AcquireLockInv, LoadQueueInv, CheckoutRefusedInv, CheckoutResumedInv,
     CheckoutFreshInv, CreateRunInv, TransitionRefusedInv, TransitionAcceptedInv,
     WriteQueueInv, WriteResultsMirrorInv, WriteDashboardMirrorInv, AppendAuditInv,
     ReturnInv, FinishRunInv, ReadyRefusedInv, ReadyAcceptedInv, CancelRunInv DEF Step
<1>4. ASSUME NEW c \in Clients, Crash(c)
      PROVE  IndInv'
  BY <1>4, CrashInv
<1> QED
  BY <1>1, <1>2, <1>3, <1>4 DEF Next

(* Every reachable state satisfies the inductive invariant. *)
THEOREM Inductive == Spec => []IndInv
BY InitInv, StepInv, PTL DEF Spec

-----------------------------------------------------------------------------
(* The properties. *)

(* The files and the processes keep their shape; in particular a handler
   never follows a pointer to a run file that is not there. *)
THEOREM TypeCorrect == Spec => []TypeOK
<1>1. IndInv => TypeOK
  BY DEF IndInv
<1> QED
  BY <1>1, Inductive, PTL

(* Two agents never hold live runs of one task (checkout_task). *)
THEOREM ClaimIsExclusive == Spec => []SingleHolder
<1>1. IndInv => SingleHolder
  <2> SUFFICES ASSUME IndInv, NEW q \in granted, NEW r \in granted,
                      Active(q), Active(r), runs[q].task = runs[r].task
               PROVE  q = r
    BY DEF SingleHolder
  <2> QED
    BY DEF IndInv, GrantedIsPointed
<1> QED
  BY <1>1, Inductive, PTL

(* current_run_id always names a run file of that task, and a checked_out
   task has one (create_run comes before the queue write). *)
THEOREM PointersStayConsistent == Spec => []PointersAgree
<1>1. IndInv => PointersAgree
  BY DEF IndInv, PointersAgree
<1> QED
  BY <1>1, Inductive, PTL

(* With nobody in the lock and nobody dead, the mirrors are the queue. *)
THEOREM MirrorsFollow == Spec => []MirrorsSettle
<1>1. IndInv => MirrorsSettle
  BY DEF IndInv, MirrorLag, MirrorsSettle
<1> QED
  BY <1>1, Inductive, PTL

(* The audit log trails the queue by the lock holder's event and by one
   event for each death. *)
THEOREM AuditLossIsBounded == Spec => []AuditLossBounded
<1>1. IndInv => AuditLossBounded
  <2> SUFFICES ASSUME IndInv PROVE AuditLossBounded
    OBVIOUS
  <2> DEFINE unlogged == {c \in Clients : pc[c] \in {"results", "dashboard", "audit"}}
  <2>1. logged \in Nat /\ writes \in Nat /\ crashes \in Nat
    BY DEF IndInv, TypeOK
  <2>2. CASE unlogged = {}
    <3>1. Cardinality(unlogged) = 0
      BY <2>2, FS_EmptySet
    <3>2. logged <= writes /\ writes <= logged + crashes
      BY <2>2 DEF IndInv, AuditLag
    <3> QED
      BY <2>1, <3>1, <3>2 DEF AuditLossBounded
  <2>3. CASE unlogged # {}
    <3>1. PICK c \in Clients : pc[c] \in {"results", "dashboard", "audit"}
      BY <2>3
    <3>2. \A d \in unlogged : lock = d
      BY DEF IndInv, LockOwner, LockedLabels
    <3>3. unlogged = {c}
      BY <3>1, <3>2
    <3>4. Cardinality(unlogged) = 1
      BY <3>3, FS_Singleton
    <3>5. logged + 1 <= writes /\ writes <= logged + 1 + crashes
      BY <3>1 DEF IndInv, AuditLag
    <3> QED
      BY <2>1, <3>4, <3>5 DEF AuditLossBounded
  <2> QED
    BY <2>2, <2>3
<1> QED
  BY <1>1, Inductive, PTL

(* No handler reopens a run that reached a terminal state, whatever it read
   before it wrote. *)
THEOREM NoRunIsRevived == Spec => RunsNeverRevived
<1> DEFINE NotRevived == \A r \in RunIds :
             runs[r] # None /\ ~Active(r) => runs'[r] # None /\ ~(Active(r)')
<1>1. ASSUME IndInv, NEW c \in Clients, FinishRun(c) \/ CancelRun(c)
      PROVE  NotRevived
  <2>1. /\ req[c].run \in granted
        /\ \E s \in RunStates \ ActiveRunStates : runs' = [runs EXCEPT ![req[c].run].state = s]
    BY <1>1, FinishRunEnds, CancelRunEnds
  <2> QED
    BY <2>1, <1>1, EndedRun DEF Active
<1>2. ASSUME IndInv, NEW c \in Clients, CreateRun(c)
      PROVE  NotRevived
  <2>1. req[c].run \in RunIds /\ runs[req[c].run] = None
    BY <1>2 DEF IndInv, CreateRun, RequestShape, RunIsReserved
  <2> QED
    BY <1>2, <2>1 DEF IndInv, TypeOK, CreateRun, Active
<1>3. ASSUME NEW c \in Clients, Begin(c) \/ Step(c) \/ Crash(c)
      PROVE  CreateRun(c) \/ FinishRun(c) \/ CancelRun(c) \/ UNCHANGED runs
  BY <1>3 DEF Begin, BeginCheckout, BeginTransition, BeginReady, BeginCancel, Crash, Step,
     AcquireLock, LoadQueue, CheckoutRefused, CheckoutResumed, CheckoutFresh,
     TransitionRefused, TransitionAccepted, WriteQueue, WriteResultsMirror,
     WriteDashboardMirror, AppendAudit, Return, ReadyRefused, ReadyAccepted
<1>4. ASSUME UNCHANGED runs
      PROVE  NotRevived
  BY <1>4 DEF Active
<1>5. IndInv /\ [Next]_vars => [NotRevived]_vars
  <2> SUFFICES ASSUME IndInv, [Next]_vars, ~UNCHANGED vars PROVE NotRevived
    OBVIOUS
  <2>1. PICK c \in Clients : Begin(c) \/ Step(c) \/ Crash(c)
    BY DEF Next
  <2> QED
    BY <1>1, <1>2, <1>3, <1>4, <2>1
<1> QED
  BY <1>5, Inductive, PTL DEF Spec, RunsNeverRevived

-----------------------------------------------------------------------------
(* The refinement of TaskClaim. *)

(* TaskClaim uses the same transition table. *)
LEMMA SameTable ==
  \A s, u : Claims!IsLegalTaskTransition(s, u) <=> IsLegalTaskTransition(s, u)
BY DEF Claims!IsLegalTaskTransition, IsLegalTaskTransition, Claims!TaskStates, TaskStates,
       Claims!TaskTransitions, TaskTransitions

(* At the start no task has a holder. *)
LEMMA InitClaim == Init => Claims!ClaimInit
<1> SUFFICES ASSUME Init PROVE Claims!ClaimInit
  OBVIOUS
<1>1. \A t \in Tasks : queue[t].run = None /\ queue[t].status \in TaskStatuses
  BY InitialStatusesAssumption DEF Init, TaskStatuses
<1>2. Holder = [t \in Tasks |-> None]
  BY <1>1 DEF Holder, Active
<1>3. Claims!TaskStates = TaskStates
  BY DEF Claims!TaskStates, TaskStates, Claims!TaskTransitions, TaskTransitions
<1> QED
  BY <1>1, <1>2, <1>3 DEF Claims!ClaimInit, TaskStatuses

(* Creating the run is invisible: nothing points to it yet. *)
LEMMA CreateRunClaim ==
  ASSUME IndInv, NEW c \in Clients, CreateRun(c)
  PROVE  UNCHANGED Claims!claimVars
<1>1. \A t \in Tasks : queue[t].run # req[c].run
  <2>1. req[c].run \in RunIds /\ runs[req[c].run] = None
    BY DEF IndInv, CreateRun, RequestShape, RunIsReserved
  <2> QED
    BY <2>1, NoneIsNew DEF IndInv, PointerNamesRun
<1>2. \A t \in Tasks : queue[t].run \in RunIds \cup {None}
  BY DEF IndInv, TypeOK, Queue, TaskRecord
<1>3. \A t \in Tasks : queue[t].run # None => runs'[queue[t].run] = runs[queue[t].run]
  BY <1>1, <1>2 DEF IndInv, TypeOK, CreateRun
<1>4. queue' = queue
  BY DEF CreateRun
<1> QED
  BY <1>3, <1>4 DEF Claims!claimVars, Holder, Active

(* Ending a run ends the claim of the one task that points to it, if that
   task still does and the run was live. *)
LEMMA EndedRunClaim ==
  ASSUME IndInv, NEW r \in granted, NEW s \in RunStates \ ActiveRunStates,
         runs' = [runs EXCEPT ![r].state = s], queue' = queue
  PROVE  [Claims!ClaimNext]_(Claims!claimVars)
<1>1. \A t \in Tasks : queue[t].run \in RunIds \cup {None}
  BY DEF IndInv, TypeOK, Queue, TaskRecord
<1>2. \A t \in Tasks : queue[t].run # r => Holder'[t] = Holder[t]
  BY <1>1, EndedRun DEF Holder, Active
<1>3. \A t \in Tasks : queue[t].run = r => t = runs[r].task /\ Holder'[t] = None
  <2> SUFFICES ASSUME NEW t \in Tasks, queue[t].run = r
               PROVE  t = runs[r].task /\ Holder'[t] = None
    OBVIOUS
  <2>1. t = runs[r].task
    BY NoneIsNew DEF IndInv, PointerNamesRun, GrantedIsPointed, TypeOK
  <2>2. ~(Active(queue[t].run)')
    BY EndedRun DEF Active
  <2> QED
    BY <2>1, <2>2 DEF Holder
<1>4. CASE \E t \in Tasks : queue[t].run = r /\ Holder[t] # None
  <2>1. PICK t \in Tasks : queue[t].run = r /\ Holder[t] # None
    BY <1>4
  <2>2. Holder'[t] = None /\ \A u \in Tasks : u # t => Holder'[u] = Holder[u]
    BY <1>2, <1>3, <2>1
  <2>3. Holder' = [Holder EXCEPT ![t] = None]
    BY <2>2 DEF Holder
  <2>4. Claims!EndClaim(t)
    BY <2>1, <2>3 DEF Claims!EndClaim
  <2> QED
    BY <2>4 DEF Claims!ClaimNext
<1>5. CASE \A t \in Tasks : queue[t].run = r => Holder[t] = None
  <2>1. \A t \in Tasks : Holder'[t] = Holder[t]
    BY <1>2, <1>3, <1>5
  <2>2. Holder' = Holder
    BY <2>1 DEF Holder
  <2> QED
    BY <2>2 DEF Claims!claimVars
<1> QED
  BY <1>4, <1>5

(* The queue write is where a claim happens, and where a status moves. *)
LEMMA WriteQueueClaim ==
  ASSUME IndInv, NEW c \in Clients, WriteQueue(c)
  PROVE  Claims!ClaimNext
<1> DEFINE status == [u \in Tasks |-> queue[u].status]
<1>1. PICK t \in Tasks :
        /\ t = req[c].task
        /\ queue'[t] = UpdatedTask(c)
        /\ \A u \in Tasks : u # t => queue'[u] = queue[u]
  BY WriteQueueEffect DEF IndInv, TypeOK, Queue
<1>2. runs' = runs
  BY DEF WriteQueue
<1>3. \A u \in Tasks : u # t => Holder'[u] = Holder[u]
  BY <1>1, <1>2 DEF Holder, Active
<1>4. CASE req[c].op = "checkout"
  <2>1. PICK a \in Agents, r \in RunIds :
          /\ r = req[c].run
          /\ runs[r] = [state |-> "created", task |-> t, agent |-> a]
    BY <1>1, <1>4 DEF IndInv, RequestShape, RunIsReserved, WriteQueue
  <2>2. queue'[t].status = "checked_out" /\ queue'[t].run = r
    BY <1>1, <1>4, <2>1, WriteQueueEffect
  <2>3. queue[t].status \in CheckoutableStates /\ ~Active(queue[t].run)
    BY <1>1, <1>4 DEF IndInv, DecisionStands, WriteQueue
  <2>4. r # None /\ runs[r] # None
    BY <2>1, NoneIsNew, RunStateNames DEF RunRecord
  <2>5. Holder'[t] = a
    BY <1>2, <2>1, <2>2, <2>4 DEF Holder, Active, ActiveRunStates
  <2>6. Holder[t] = None
    BY <2>3 DEF Holder
  <2>7. Holder' = [Holder EXCEPT ![t] = a]
    BY <1>3, <2>5 DEF Holder
  <2>8. status' = [status EXCEPT ![t] = "checked_out"]
    BY <1>1, <2>2
  <2>9. Claims!Claim(t, a)
    BY <2>3, <2>6, <2>7, <2>8 DEF Claims!Claim, Claims!Claimable, CheckoutableStates
  <2> QED
    BY <2>9 DEF Claims!ClaimNext
<1>5. CASE req[c].op # "checkout"
  <2>1. /\ req[c].op \in {"transition", "ready"}
        /\ queue'[t].status = req[c].to /\ queue'[t].run = queue[t].run
    BY <1>1, <1>5, WriteQueueEffect
  <2>2. PICK s \in TaskStates : s = req[c].to /\ IsLegalTaskTransition(queue[t].status, s)
    BY <1>1, <2>1 DEF IndInv, RequestShape, DecisionStands, WriteQueue
  <2>3. Holder'[t] = Holder[t]
    BY <1>2, <2>1 DEF Holder, Active
  <2>4. Holder' = Holder
    BY <1>3, <2>3 DEF Holder
  <2>5. status' = [status EXCEPT ![t] = s]
    BY <1>1, <2>1, <2>2
  <2>6. Claims!Move(t, s)
    BY <2>2, <2>4, <2>5, SameTable DEF Claims!Move
  <2>7. s \in Claims!TaskStates
    BY <2>2 DEF Claims!TaskStates, TaskStates, Claims!TaskTransitions, TaskTransitions
  <2> QED
    BY <2>6, <2>7 DEF Claims!ClaimNext
<1> QED
  BY <1>4, <1>5

(* A step that leaves queue and runs alone is a stutter of TaskClaim. *)
LEMMA SilentClaim ==
  ASSUME UNCHANGED <<queue, runs>>
  PROVE  UNCHANGED Claims!claimVars
BY DEF Claims!claimVars, Holder, Active

(* Each step of the store is a step of TaskClaim or a stutter. *)
LEMMA StepClaim == IndInv /\ [Next]_vars => [Claims!ClaimNext]_(Claims!claimVars)
<1> SUFFICES ASSUME IndInv, [Next]_vars PROVE [Claims!ClaimNext]_(Claims!claimVars)
  OBVIOUS
<1>1. CASE UNCHANGED vars
  BY <1>1, SilentClaim DEF vars
<1>2. ASSUME NEW c \in Clients, Begin(c) \/ Step(c) \/ Crash(c)
      PROVE  CreateRun(c) \/ WriteQueue(c) \/ FinishRun(c) \/ CancelRun(c) \/ UNCHANGED <<queue, runs>>
  BY <1>2 DEF Begin, BeginCheckout, BeginTransition, BeginReady, BeginCancel, Crash, Step,
     AcquireLock, LoadQueue, CheckoutRefused, CheckoutResumed, CheckoutFresh,
     TransitionRefused, TransitionAccepted, WriteResultsMirror,
     WriteDashboardMirror, AppendAudit, Return, ReadyRefused, ReadyAccepted
<1>3. ASSUME NEW c \in Clients, FinishRun(c) \/ CancelRun(c)
      PROVE  [Claims!ClaimNext]_(Claims!claimVars)
  <2>1. /\ req[c].run \in granted
        /\ \E s \in RunStates \ ActiveRunStates : runs' = [runs EXCEPT ![req[c].run].state = s]
    BY <1>3, FinishRunEnds, CancelRunEnds
  <2>2. queue' = queue
    BY <1>3 DEF FinishRun, CancelRun
  <2> QED
    BY <2>1, <2>2, EndedRunClaim
<1>4. CASE Next
  <2>1. PICK c \in Clients : Begin(c) \/ Step(c) \/ Crash(c)
    BY <1>4 DEF Next
  <2> QED
    BY <2>1, <1>2, <1>3, CreateRunClaim, WriteQueueClaim, SilentClaim
<1> QED
  BY <1>1, <1>4

(* checkout_task and the handlers around it implement the claim discipline:
   every step is one claim, one end of a claim, one legal move, or nothing. *)
THEOREM StoreImplementsClaims == Spec => ImplementsTaskClaim
BY InitClaim, StepClaim, Inductive, PTL DEF Spec, ImplementsTaskClaim, Claims!ClaimSpec

=============================================================================
