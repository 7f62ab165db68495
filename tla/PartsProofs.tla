----------------------------- MODULE PartsProofs -----------------------------
(***************************************************************************)
(* Proofs about the parts of BackOffice, for every value of the constants: *)
(* of each part an inductive invariant of its own steps, then the property *)
(* as a theorem of the whole, in which the part either steps or rests.     *)
(***************************************************************************)
EXTENDS BackOffice, WellFoundedInduction, FiniteSetTheorems, TLAPS

-----------------------------------------------------------------------------
(* Routines. *)

RoutineRecords ==
  [kind : {"routine"}, trigger : TriggerKinds, interval : Nat, action : ActionKinds,
   budget : BOOLEAN, paused : BOOLEAN, last : Nat]

RoutineCalls ==
  [op : {"toggle"}, copy : RoutineRecords, to : BOOLEAN]
    \cup [op : {"gate", "handler"}, copy : RoutineRecords, scheduled : BOOLEAN]

RoutineTypes ==
  /\ routine \in {NoRoutine} \cup RoutineRecords
  /\ caller \in [RoutineCallers -> {Free} \cup RoutineCalls]
  /\ clock \in Nat /\ lastRun \in Nat
  /\ decided \in BOOLEAN /\ overwrote \in BOOLEAN /\ tooSoon \in BOOLEAN

(* A run that the schedule began was due on its copy, and stays so as time passes. *)
ScheduledWasDue(call) ==
  (call.op = "gate" /\ call.scheduled) =>
    call.copy.last = 0 \/ clock - call.copy.last >= call.copy.interval

RoutinesInv ==
  /\ RoutineTypes
  /\ \A c \in RoutineCallers : caller[c] # Free => ScheduledWasDue(caller[c])
  /\ (Stored /\ ~overwrote) => routine.last = lastRun
  /\ RoutinesObeyDecisions

LEMMA RoutinesStart == RoutinesInit => RoutinesInv
<1> SUFFICES ASSUME RoutinesInit PROVE RoutinesInv
  OBVIOUS
<1>1. RoutineTypes
  BY DEF RoutinesInit, RoutineTypes
<1>2. \A c \in RoutineCallers : caller[c] = Free
  BY DEF RoutinesInit
<1>3. ~Stored /\ ~tooSoon
  BY DEF RoutinesInit, Stored
<1> QED
  BY <1>1, <1>2, <1>3 DEF RoutinesInv, RoutinesObeyDecisions

LEMMA FreeIsNoCall == Free \notin RoutineCalls /\ NoRoutine \notin RoutineRecords /\ Free.op = "none"
BY DEF Free, RoutineCalls, NoRoutine, RoutineRecords

LEMMA RoutineSteps == RoutinesInv /\ [RoutinesNext]_routineVars => RoutinesInv'
<1> SUFFICES ASSUME RoutinesInv, [RoutinesNext]_routineVars PROVE RoutinesInv'
  OBVIOUS
<1> USE DEF RoutinesInv, RoutineTypes, RoutinesObeyDecisions, Stored, ScheduledWasDue
<1>1. ASSUME NEW d \in Declared, Reload(d) PROVE RoutinesInv'
  <2>1. routine' \in RoutineRecords
    BY <1>1, DeclaredAssumption DEF Reload, RoutineRecords
  <2> QED
    BY <1>1, <2>1, DeclaredAssumption DEF Reload
<1>2. ASSUME NEW c \in RoutineCallers, NEW paused \in BOOLEAN, Toggle(c, paused) PROVE RoutinesInv'
  <2>1. [op |-> "toggle", copy |-> routine, to |-> paused] \in RoutineCalls
    BY <1>2 DEF Toggle, RoutineCalls
  <2> QED
    BY <1>2, <2>1 DEF Toggle
<1>3. ASSUME NEW c \in RoutineCallers, Toggled(c) PROVE RoutinesInv'
  <2>1. caller[c].copy \in RoutineRecords /\ caller[c].to \in BOOLEAN
    BY <1>3, FreeIsNoCall DEF Toggled, RoutineCalls
  <2>2. /\ routine' \in RoutineRecords /\ routine'.paused = caller[c].to
        /\ routine'.last = caller[c].copy.last
    BY <1>3, <2>1 DEF Toggled, WriteOver, RoutineRecords
  <2>3. RoutineTypes'
    BY <1>3, <2>1, <2>2 DEF Toggled, WriteOver
  <2> QED
    BY <1>3, <2>1, <2>2, <2>3, FreeIsNoCall DEF Toggled, WriteOver
<1>4. ASSUME NEW c \in RoutineCallers, NEW scheduled \in BOOLEAN, FireBegins(c, scheduled)
      PROVE  RoutinesInv'
  <2>1. [op |-> "gate", copy |-> routine, scheduled |-> scheduled] \in RoutineCalls
    BY <1>4 DEF FireBegins, RoutineCalls
  <2> QED
    BY <1>4, <2>1 DEF FireBegins, Due
<1>5. ASSUME NEW c \in RoutineCallers, FireGate(c) PROVE RoutinesInv'
  <2>1. /\ caller[c].copy \in RoutineRecords /\ caller[c].scheduled \in BOOLEAN
        /\ caller[c] \in [op : {"gate", "handler"}, copy : RoutineRecords, scheduled : BOOLEAN]
    BY <1>5, FreeIsNoCall DEF FireGate, RoutineCalls
  <2>2. caller' \in [RoutineCallers -> {Free} \cup RoutineCalls]
    BY <1>5, <2>1 DEF FireGate, RoutineCalls
  <2>3. \A d \in RoutineCallers : caller'[d] # Free => ScheduledWasDue(caller[d])'
    BY <1>5, <2>1 DEF FireGate
  <2>4. ~overwrote => ~tooSoon'
    BY <1>5, <2>1, FreeIsNoCall DEF FireGate, RoutineRecords
  <2> QED
    BY <1>5, <2>1, <2>2, <2>3, <2>4 DEF FireGate
<1>6. ASSUME NEW c \in RoutineCallers, HandlerFails(c) PROVE RoutinesInv'
  BY <1>6 DEF HandlerFails
<1>7. ASSUME NEW c \in RoutineCallers, HandlerReturns(c) PROVE RoutinesInv'
  <2>1. caller[c].copy \in RoutineRecords
    BY <1>7, FreeIsNoCall DEF HandlerReturns, RoutineCalls
  <2>2. /\ routine' \in RoutineRecords /\ routine'.paused = caller[c].copy.paused
        /\ routine'.last = clock
    BY <1>7, <2>1 DEF HandlerReturns, WriteOver, Fired, RoutineRecords
  <2>3. RoutineTypes'
    BY <1>7, <2>1, <2>2 DEF HandlerReturns, WriteOver
  <2> QED
    BY <1>7, <2>1, <2>2, <2>3, FreeIsNoCall DEF HandlerReturns, WriteOver
<1>8. CASE Tick
  <2>1. ASSUME NEW c \in RoutineCallers, caller[c] # Free PROVE ScheduledWasDue(caller[c])'
    <3>1. caller[c].copy.last \in Nat /\ caller[c].copy.interval \in Nat
      BY <2>1 DEF RoutineCalls, RoutineRecords
    <3> QED
      BY <1>8, <2>1, <3>1 DEF Tick
  <2> QED
    BY <1>8, <2>1 DEF Tick
<1>9. CASE UNCHANGED routineVars
  BY <1>9 DEF routineVars
<1> QED
  BY <1>1, <1>2, <1>3, <1>4, <1>5, <1>6, <1>7, <1>8, <1>9 DEF RoutinesNext

(* pause, resume, the reload and every firing, without an overlap: a routine is paused
   as last decided, and a schedule keeps its interval. *)
THEOREM RoutinesObey == Spec => []RoutinesObeyDecisions
<1>1. Init => RoutinesInv
  BY RoutinesStart DEF Init
<1>2. [Next]_vars => [RoutinesNext]_routineVars
  BY DEF Next, vars, Rests, Parts
<1>3. RoutinesInv /\ [Next]_vars => RoutinesInv'
  BY <1>2, RoutineSteps
<1>4. RoutinesInv => RoutinesObeyDecisions
  BY DEF RoutinesInv
<1> QED
  BY <1>1, <1>3, <1>4, PTL DEF Spec

-----------------------------------------------------------------------------
(* The agent registry. *)

AgentRecords == [status : {"active", "paused", "retired"}, role : Roles, paused_at : BOOLEAN]

RegistryCalls ==
  [op : {"create", "pause", "resume", "retire", "sync"}, copy : {NoAgent} \cup AgentRecords,
   new : AgentRecords, status : {"active", "paused", "retired"}]

RegistryTypes ==
  /\ agent \in {NoAgent} \cup AgentRecords
  /\ registering \in [RegistryCallers -> {Waiting} \cup RegistryCalls]
  /\ clobbered \in BOOLEAN

(* What an operation is about to write: the synced record has the status of the copy,
   any other the status that is audited; neither is active and marked as paused unless
   the copy was. *)
CallKeepsStatus(call) ==
  IF call.op = "sync"
  THEN /\ call.copy # NoAgent
       /\ call.new.status = call.copy.status /\ call.new.paused_at = call.copy.paused_at
  ELSE /\ call.new.status = call.status
       /\ call.new.status = "active" => ~call.new.paused_at

RegistryInv ==
  /\ RegistryTypes
  /\ \A c \in RegistryCallers : registering[c] # Waiting => CallKeepsStatus(registering[c])
  /\ StatusIsTheOperators

LEMMA WaitingIsNoCall == Waiting \notin RegistryCalls /\ NoAgent \notin AgentRecords
BY DEF Waiting, RegistryCalls, NoAgent, AgentRecords

LEMMA RegistryStarts == RegistryInit => RegistryInv
BY WaitingIsNoCall DEF RegistryInit, RegistryInv, RegistryTypes, StatusIsTheOperators, Registered

(* Every operation that begins reads the record it is going to replace. *)
LEMMA RegistryBegins ==
  ASSUME RegistryInv, NEW c \in RegistryCallers, NEW op, NEW new, NEW status,
         Begins(c, op, new, status),
         [op |-> op, copy |-> agent, new |-> new, status |-> status] \in RegistryCalls,
         CallKeepsStatus([op |-> op, copy |-> agent, new |-> new, status |-> status])
  PROVE  RegistryInv'
BY DEF RegistryInv, RegistryTypes, Begins, StatusIsTheOperators, Registered

LEMMA CreateKeepsStatus ==
  ASSUME RegistryInv, NEW c \in RegistryCallers, NEW role \in Roles, Create(c, role)
  PROVE  RegistryInv'
<1>1. NewAgent(role) \in AgentRecords
  BY DEF NewAgent, AgentRecords
<1>2. CallKeepsStatus([op |-> "create", copy |-> agent, new |-> NewAgent(role), status |-> "active"])
  BY DEF CallKeepsStatus, NewAgent
<1> QED
  BY <1>1, <1>2, RegistryBegins DEF Create, RegistryCalls, RegistryInv, RegistryTypes

LEMMA RegistrySteps == RegistryInv /\ [RegistryNext]_registryVars => RegistryInv'
<1> SUFFICES ASSUME RegistryInv, [RegistryNext]_registryVars PROVE RegistryInv'
  OBVIOUS
<1>1. ASSUME NEW c \in RegistryCallers, NEW role \in Roles, Create(c, role) PROVE RegistryInv'
  BY <1>1, CreateKeepsStatus
<1>2. ASSUME NEW c \in RegistryCallers, NEW role \in Roles, SyncFromConfig(c, role) PROVE RegistryInv'
  <2>1. CASE Registered
    <3>1. agent \in AgentRecords /\ agent # NoAgent
      BY <2>1 DEF Registered, RegistryInv, RegistryTypes
    <3>2. Synced(agent, role) \in AgentRecords
      BY <3>1 DEF Synced, AgentRecords
    <3>3. CallKeepsStatus([op |-> "sync", copy |-> agent, new |-> Synced(agent, role),
                           status |-> agent.status])
      BY <3>1 DEF CallKeepsStatus, Synced, AgentRecords
    <3> QED
      BY <1>2, <2>1, <3>1, <3>2, <3>3, RegistryBegins
      DEF SyncFromConfig, RegistryCalls, AgentRecords
  <2>2. CASE ~Registered
    BY <1>2, <2>2, CreateKeepsStatus DEF SyncFromConfig
  <2> QED
    BY <2>1, <2>2
<1>3. ASSUME NEW c \in RegistryCallers, Pause(c) \/ Resume(c) \/ Retire(c) PROVE RegistryInv'
  <2>1. agent \in AgentRecords
    BY <1>3 DEF Pause, Resume, Retire, Registered, RegistryInv, RegistryTypes
  <2>2. /\ Paused(agent) \in AgentRecords /\ Resumed(agent) \in AgentRecords
        /\ Retired(agent) \in AgentRecords
    BY <2>1 DEF Paused, Resumed, Retired, AgentRecords
  <2>3. /\ CallKeepsStatus([op |-> "pause", copy |-> agent, new |-> Paused(agent), status |-> "paused"])
        /\ CallKeepsStatus([op |-> "resume", copy |-> agent, new |-> Resumed(agent), status |-> "active"])
        /\ CallKeepsStatus([op |-> "retire", copy |-> agent, new |-> Retired(agent), status |-> "retired"])
    BY <2>1 DEF CallKeepsStatus, Paused, Resumed, Retired, AgentRecords
  <2> QED
    BY <1>3, <2>1, <2>2, <2>3, RegistryBegins DEF Pause, Resume, Retire, RegistryCalls
<1>4. ASSUME NEW c \in RegistryCallers, RegistryWrites(c) PROVE RegistryInv'
  <2>1. registering[c] \in RegistryCalls /\ CallKeepsStatus(registering[c])
    BY <1>4 DEF RegistryWrites, RegistryInv, RegistryTypes
  <2>2. RegistryTypes'
    BY <1>4, <2>1 DEF RegistryWrites, RegistryInv, RegistryTypes, RegistryCalls
  <2>3. \A d \in RegistryCallers : registering'[d] # Waiting => CallKeepsStatus(registering'[d])
    BY <1>4 DEF RegistryWrites, RegistryInv, RegistryTypes
  <2>4. StatusIsTheOperators'
    BY <1>4, <2>1 DEF RegistryWrites, RegistryInv, RegistryTypes, StatusIsTheOperators,
      Registered, CallKeepsStatus, RegistryCalls
  <2> QED
    BY <2>2, <2>3, <2>4 DEF RegistryInv, CallKeepsStatus
<1>5. CASE UNCHANGED registryVars
  BY <1>5 DEF registryVars, RegistryInv, RegistryTypes, StatusIsTheOperators, Registered
<1> QED
  BY <1>1, <1>2, <1>3, <1>4, <1>5 DEF RegistryNext

(* sync_from_config, pause, resume and retire, without an overlap: an agent's status is
   the one the operator's last decision gave it. *)
THEOREM RegistryObeysOperator == Spec => []StatusIsTheOperators
<1>1. Init => RegistryInv
  BY RegistryStarts DEF Init
<1>2. [Next]_vars => [RegistryNext]_registryVars
  BY DEF Next, vars, Rests, Parts
<1>3. RegistryInv /\ [Next]_vars => RegistryInv'
  BY <1>2, RegistrySteps
<1>4. RegistryInv => StatusIsTheOperators
  BY DEF RegistryInv
<1> QED
  BY <1>1, <1>3, <1>4, PTL DEF Spec

-----------------------------------------------------------------------------
(* API tokens. *)

TokenFiles == UNION {[S -> SUBSET Scopes] : S \in SUBSET Tokens}

TokenCalls ==
  [op : {"issue"}, token : Tokens, copy : TokenFiles]
    \cup [op : {"revoke"}, tokens : SUBSET Tokens, copy : TokenFiles]
    \cup [op : {"auth"}, token : Tokens, late : BOOLEAN, copy : TokenFiles]

TokenTypes ==
  /\ tokenFile \in TokenFiles
  /\ tokenCall \in [TokenCallers -> {NoCall} \cup TokenCalls]
  /\ DOMAIN tokenFile \subseteq issued
  /\ revoked \subseteq issued

Adds(call, t) == call.op = "issue" /\ call.token = t
Removes(call, t) == call.op = "revoke" /\ t \in call.tokens

(* What a call is about to save: its own token is new, its own revocations are done, and
   it knows only issued tokens. *)
CallIsSound(call) ==
  /\ \A t \in DOMAIN call.copy : t \in issued \/ Adds(call, t)
  /\ \A t \in Tokens : Adds(call, t) => t \in DOMAIN call.copy /\ t \notin issued
  /\ \A t \in Tokens : Removes(call, t) => t \notin DOMAIN call.copy /\ t \in issued

(* It agrees with the file about every token that is not exposed and not its own. *)
CallAgrees(call) ==
  \A t \in Tokens \ exposed :
    (t \in DOMAIN call.copy <=> t \in DOMAIN tokenFile) \/ Adds(call, t) \/ Removes(call, t)

TokensInv ==
  /\ TokenTypes
  /\ \A c \in TokenCallers : tokenCall[c] # NoCall =>
       /\ CallIsSound(tokenCall[c]) /\ CallAgrees(tokenCall[c])
       /\ tokenCall[c].op = "auth" /\ tokenCall[c].late => tokenCall[c].token \in exposed
  /\ \A c, d \in TokenCallers :
       tokenCall[c].op = "issue" /\ tokenCall[d].op = "issue" /\ tokenCall[c].token = tokenCall[d].token
         => c = d
  /\ TokensKeepDecisions

LEMMA TokensStart == TokensInit => TokensInv
<1> SUFFICES ASSUME TokensInit PROVE TokensInv
  OBVIOUS
<1>1. tokenFile \in TokenFiles
  <2>1. tokenFile \in [{} -> SUBSET Scopes] /\ {} \in SUBSET Tokens
    BY DEF TokensInit
  <2> QED
    BY <2>1 DEF TokenFiles
<1>2. DOMAIN tokenFile = {} /\ \A c \in TokenCallers : tokenCall[c] = NoCall
  BY DEF TokensInit
<1> QED
  BY <1>1, <1>2 DEF TokensInit, TokensInv, TokenTypes, TokensKeepDecisions, NoCall

LEMMA CallsAreNotIdle == NoCall \notin TokenCalls /\ NoCall.op = "none"
BY DEF NoCall, TokenCalls

LEMMA FilesAreFunctions ==
  ASSUME NEW f \in TokenFiles
  PROVE  /\ DOMAIN f \subseteq Tokens
         /\ \A t \in Tokens, scopes \in SUBSET Scopes :
              With(f, t, scopes) \in TokenFiles /\ DOMAIN With(f, t, scopes) = DOMAIN f \cup {t}
         /\ \A S \in SUBSET Tokens :
              Dropping(f, S) \in TokenFiles /\ DOMAIN Dropping(f, S) = DOMAIN f \ S
<1>1. PICK D \in SUBSET Tokens : f \in [D -> SUBSET Scopes]
  BY DEF TokenFiles
<1>2. ASSUME NEW t \in Tokens, NEW scopes \in SUBSET Scopes
      PROVE  With(f, t, scopes) \in TokenFiles /\ DOMAIN With(f, t, scopes) = DOMAIN f \cup {t}
  <2>1. With(f, t, scopes) \in [D \cup {t} -> SUBSET Scopes] /\ D \cup {t} \in SUBSET Tokens
    BY <1>1 DEF With
  <2> QED
    BY <1>1, <2>1 DEF TokenFiles
<1>3. ASSUME NEW S \in SUBSET Tokens
      PROVE  Dropping(f, S) \in TokenFiles /\ DOMAIN Dropping(f, S) = DOMAIN f \ S
  <2>1. Dropping(f, S) \in [D \ S -> SUBSET Scopes] /\ D \ S \in SUBSET Tokens
    BY <1>1 DEF Dropping
  <2> QED
    BY <1>1, <2>1 DEF TokenFiles
<1> QED
  BY <1>1, <1>2, <1>3

(* A call that begins: only its own entry changes. *)
LEMMA TokenCallBegins ==
  ASSUME TokensInv, NEW c \in TokenCallers, NEW call \in TokenCalls, Loads(c, call),
         CallIsSound(call), CallAgrees(call),
         call.op = "auth" /\ call.late => call.token \in exposed,
         call.op = "issue" =>
           \A d \in TokenCallers : tokenCall[d].op = "issue" => tokenCall[d].token # call.token
  PROVE  TokensInv'
<1> USE DEF TokensInv, TokenTypes, Loads
<1>1. tokenCall' = [tokenCall EXCEPT ![c] = call]
      /\ UNCHANGED <<tokenFile, revoked, issued, exposed, lateEntry>>
  OBVIOUS
<1>2. TokenTypes'
  BY <1>1
<1>3. \A d \in TokenCallers : tokenCall'[d] # NoCall =>
        /\ CallIsSound(tokenCall[d])' /\ CallAgrees(tokenCall[d])'
        /\ tokenCall'[d].op = "auth" /\ tokenCall'[d].late => tokenCall'[d].token \in exposed'
  BY <1>1 DEF CallIsSound, CallAgrees, Adds, Removes
<1>4. TokensKeepDecisions'
  BY <1>1 DEF TokensKeepDecisions
<1>5. \A d, e \in TokenCallers :
        tokenCall'[d].op = "issue" /\ tokenCall'[e].op = "issue" /\ tokenCall'[d].token = tokenCall'[e].token
          => d = e
  BY <1>1
<1> QED
  BY <1>2, <1>3, <1>4, <1>5

LEMMA SaveKeepsDecisions ==
  ASSUME TokensInv, NEW c \in TokenCallers, Save(c)
  PROVE  TokensInv'
<1> DEFINE call == tokenCall[c]
<1>1. /\ call \in TokenCalls /\ CallIsSound(call) /\ CallAgrees(call)
      /\ call.op = "auth" /\ call.late => call.token \in exposed
  BY DEF Save, TokensInv, TokenTypes
<1>2. /\ tokenFile' = call.copy /\ exposed' = exposed \cup Contested(c)
      /\ revoked' = (IF call.op = "revoke" THEN revoked \cup call.tokens ELSE revoked)
      /\ issued' = (IF call.op = "issue" THEN issued \cup {call.token} ELSE issued)
      /\ lateEntry' = (IF call.op = "auth" /\ call.late THEN lateEntry \cup {call.token} ELSE lateEntry)
      /\ tokenCall' = [tokenCall EXCEPT ![c] = NoCall]
  BY DEF Save
<1>3. call.copy \in TokenFiles /\ DOMAIN call.copy \subseteq Tokens
  BY <1>1, FilesAreFunctions DEF TokenCalls
<1>4. TokenTypes'
  <2>1. tokenCall' \in [TokenCallers -> {NoCall} \cup TokenCalls]
    BY <1>2 DEF TokensInv, TokenTypes
  <2>2. DOMAIN tokenFile' \subseteq issued'
    BY <1>1, <1>2 DEF CallIsSound, Adds
  <2>3. revoked' \subseteq issued'
    BY <1>1, <1>2 DEF CallIsSound, Removes, TokensInv, TokenTypes, TokenCalls
  <2> QED
    BY <1>2, <1>3, <2>1, <2>2, <2>3 DEF TokenTypes
<1>5. ASSUME NEW d \in TokenCallers, tokenCall'[d] # NoCall
      PROVE  /\ CallIsSound(tokenCall[d])' /\ CallAgrees(tokenCall[d])'
             /\ tokenCall'[d].op = "auth" /\ tokenCall'[d].late => tokenCall'[d].token \in exposed'
  <2>1. d # c /\ tokenCall'[d] = tokenCall[d] /\ tokenCall[d] # NoCall
    BY <1>2, <1>5 DEF TokensInv, TokenTypes
  <2>2. /\ CallIsSound(tokenCall[d]) /\ CallAgrees(tokenCall[d]) /\ tokenCall[d] \in TokenCalls
        /\ tokenCall[d].op = "auth" /\ tokenCall[d].late => tokenCall[d].token \in exposed
    BY <2>1 DEF TokensInv, TokenTypes
  <2>3. \A t \in Tokens : Adds(tokenCall[d], t) => ~Adds(call, t)
    BY <2>1 DEF TokensInv, Adds
  <2>4. CallIsSound(tokenCall[d])'
    BY <1>2, <2>1, <2>2, <2>3 DEF CallIsSound, Adds, Removes
  <2>5. \A t \in Tokens \ exposed' : t \in DOMAIN call.copy <=> t \in DOMAIN tokenCall[d].copy
    BY <1>2, <2>1 DEF Contested
  <2>6. CallAgrees(tokenCall[d])'
    BY <1>2, <2>1, <2>5 DEF CallAgrees
  <2> QED
    BY <1>2, <2>1, <2>2, <2>4, <2>6
<1>6. \A d, e \in TokenCallers :
        tokenCall'[d].op = "issue" /\ tokenCall'[e].op = "issue" /\ tokenCall'[d].token = tokenCall'[e].token
          => d = e
  BY <1>2, CallsAreNotIdle DEF TokensInv, TokenTypes
<1>7. ASSUME NEW t \in Tokens, t \notin exposed'
      PROVE  /\ t \in issued' => (t \in DOMAIN tokenFile' <=> t \notin revoked')
             /\ t \notin lateEntry'
  <2>1. /\ t \notin exposed
        /\ t \in issued => (t \in DOMAIN tokenFile <=> t \notin revoked)
        /\ t \notin lateEntry
    BY <1>2, <1>7 DEF TokensInv, TokensKeepDecisions
  <2>2. t \notin lateEntry'
    BY <1>1, <1>2, <2>1
  <2>3. CASE Adds(call, t)
    BY <1>1, <1>2, <2>2, <2>3 DEF CallIsSound, Adds, TokensInv, TokenTypes
  <2>4. CASE Removes(call, t)
    BY <1>1, <1>2, <2>2, <2>4 DEF CallIsSound, Removes
  <2>5. CASE ~Adds(call, t) /\ ~Removes(call, t)
    <3>1. t \in DOMAIN tokenFile' <=> t \in DOMAIN tokenFile
      BY <1>1, <1>2, <2>1, <2>5 DEF CallAgrees
    <3>2. (t \in issued' <=> t \in issued) /\ (t \in revoked' <=> t \in revoked)
      BY <1>2, <2>5 DEF Adds, Removes
    <3> QED
      BY <2>1, <2>2, <3>1, <3>2
  <2> QED
    BY <2>3, <2>4, <2>5
<1>8. TokensKeepDecisions'
  BY <1>7 DEF TokensKeepDecisions
<1> QED
  BY <1>4, <1>5, <1>6, <1>8 DEF TokensInv

LEMMA TokenSteps == TokensInv /\ [TokensNext]_tokenVars => TokensInv'
<1> SUFFICES ASSUME TokensInv, [TokensNext]_tokenVars PROVE TokensInv'
  OBVIOUS
<1>1. tokenFile \in TokenFiles /\ DOMAIN tokenFile \subseteq issued /\ DOMAIN tokenFile \subseteq Tokens
  BY FilesAreFunctions DEF TokensInv, TokenTypes
<1>2. ASSUME NEW c \in TokenCallers, NEW t \in Tokens, NEW scopes \in SUBSET Scopes, Issue(c, t, scopes)
      PROVE  TokensInv'
  <2> DEFINE call == [op |-> "issue", token |-> t, copy |-> With(tokenFile, t, scopes)]
  <2>1. /\ call \in TokenCalls /\ DOMAIN call.copy = DOMAIN tokenFile \cup {t}
        /\ call.op = "issue" /\ call.token = t
    BY <1>1, FilesAreFunctions DEF TokenCalls
  <2>2. CallIsSound(call) /\ CallAgrees(call)
    BY <1>1, <1>2, <2>1 DEF Issue, CallIsSound, CallAgrees, Adds, Removes
  <2> QED
    BY <1>2, <2>1, <2>2, TokenCallBegins DEF Issue
<1>3. ASSUME NEW c \in TokenCallers, NEW S \in SUBSET Tokens, Revoke(c, S) PROVE TokensInv'
  <2> DEFINE call == [op |-> "revoke", tokens |-> S \cap DOMAIN tokenFile, copy |-> Dropping(tokenFile, S)]
  <2>1. /\ call \in TokenCalls /\ DOMAIN call.copy = DOMAIN tokenFile \ S
        /\ call.op = "revoke" /\ call.tokens = S \cap DOMAIN tokenFile
    BY <1>1, FilesAreFunctions DEF TokenCalls
  <2>2. CallIsSound(call) /\ CallAgrees(call)
    BY <1>1, <2>1 DEF CallIsSound, CallAgrees, Adds, Removes
  <2> QED
    BY <1>3, <2>1, <2>2, TokenCallBegins DEF Revoke
<1>4. ASSUME NEW c \in TokenCallers, NEW t \in Tokens, Authenticate(c, t) PROVE TokensInv'
  <2> DEFINE call == [op |-> "auth", token |-> t, late |-> t \in revoked, copy |-> tokenFile]
  <2>1. /\ call \in TokenCalls /\ call.copy = tokenFile
        /\ call.op = "auth" /\ call.token = t /\ call.late = (t \in revoked)
    BY <1>1 DEF TokenCalls
  <2>2. CallIsSound(call) /\ CallAgrees(call)
    BY <1>1, <2>1 DEF CallIsSound, CallAgrees, Adds, Removes
  <2>3. t \in revoked => t \in exposed
    BY <1>1, <1>4 DEF Authenticate, TokensInv, TokensKeepDecisions
  <2> QED
    BY <1>4, <2>1, <2>2, <2>3, TokenCallBegins DEF Authenticate
<1>5. ASSUME NEW c \in TokenCallers, Save(c) PROVE TokensInv'
  BY <1>5, SaveKeepsDecisions
<1>6. CASE UNCHANGED tokenVars
  <2> USE <1>6 DEF tokenVars
  <2>1. \A c \in TokenCallers :
          /\ CallIsSound(tokenCall[c])' <=> CallIsSound(tokenCall[c])
          /\ CallAgrees(tokenCall[c])' <=> CallAgrees(tokenCall[c])
    BY DEF CallIsSound, CallAgrees
  <2> QED
    BY <2>1 DEF TokensInv, TokenTypes, TokensKeepDecisions
<1>7. ASSUME NEW c \in TokenCallers, NEW t \in Tokens, RevokeOne(c, t) PROVE TokensInv'
  BY <1>3, <1>7 DEF RevokeOne
<1>8. ASSUME NEW c \in TokenCallers, NEW a \in AgentsOf(Tokens), RevokeAll(c, a) PROVE TokensInv'
  BY <1>3, <1>8 DEF RevokeAll
<1> QED
  BY <1>2, <1>4, <1>5, <1>6, <1>7, <1>8 DEF TokensNext

(* issue, revoke and authenticate: where no two operations had an opposite idea of a
   token, it lets its agent in exactly from its issue to its revocation. *)
THEOREM TokensKeep == Spec => []TokensKeepDecisions
<1>1. Init => TokensInv
  BY TokensStart DEF Init
<1>2. [Next]_vars => [TokensNext]_tokenVars
  BY DEF Next, vars, Rests, Parts
<1>3. TokensInv /\ [Next]_vars => TokensInv'
  BY <1>2, TokenSteps
<1>4. TokensInv => TokensKeepDecisions
  BY DEF TokensInv
<1> QED
  BY <1>1, <1>3, <1>4, PTL DEF Spec

-----------------------------------------------------------------------------
(* Adapters. *)

(* A handle of the memory, if it can be that of a command, speaks of one that has exited
   with 0 if it says so. *)
SpeaksTrue(adapter, how, r) ==
  AdapterStatus(<<adapter, how, r>>) = "succeeded" => <<adapter, r>> \in exited

LEMMA AdapterSteps == SuccessIsReal /\ [AdaptersNext]_adapterVars => SuccessIsReal'
<1> SUFFICES ASSUME SuccessIsReal, [AdaptersNext]_adapterVars,
                    NEW adapter \in {AdapterOf[r] : r \in AdapterRuns} \ {"noop"}, NEW q \in AdapterRuns,
                    NEW how \in {"", "timeout", "error"}
             PROVE SpeaksTrue(adapter, how, q)'
  BY DEF SuccessIsReal, SpeaksTrue
<1>1. SpeaksTrue(adapter, how, q) /\ adapter # "noop"
  BY DEF SuccessIsReal, SpeaksTrue
<1>2. <<adapter, how, q>>[1] = adapter
  OBVIOUS
<1>3. ASSUME UNCHANGED <<answers, exited>> PROVE SpeaksTrue(adapter, how, q)'
  BY <1>1, <1>3 DEF SpeaksTrue, AdapterStatus
<1>4. ASSUME NEW c \in AdapterCallers, InvokeDry(c) PROVE SpeaksTrue(adapter, how, q)'
  <2>1. DryHandle(Adapter(calling[c]), calling[c].run) # <<adapter, how, q>>
    BY DEF DryHandle
  <2>2. UNCHANGED exited /\ Remembered(DryHandle(Adapter(calling[c]), calling[c].run), "succeeded")
    BY <1>4 DEF InvokeDry
  <2> QED
    BY <1>1, <1>2, <2>1, <2>2 DEF SpeaksTrue, AdapterStatus, Remembered
<1>5. ASSUME NEW c \in AdapterCallers, InvocationEnds(c) PROVE SpeaksTrue(adapter, how, q)'
  <2> DEFINE a == Adapter(calling[c])
             r == calling[c].run
  <2>1. PICK o \in Outcomes(a) :
          /\ Remembered(<<a, o[1], r>>, o[2])
          /\ exited' = IF o[2] = "succeeded" THEN exited \cup {<<a, r>>} ELSE exited
    BY <1>5 DEF InvocationEnds
  <2>2. CASE <<a, o[1], r>> = <<adapter, how, q>>
    <3>1. a = adapter /\ r = q
      BY <2>2
    <3>2. answers'[<<adapter, how, q>>] = o[2] /\ <<adapter, how, q>> \in DOMAIN answers'
      BY <2>1, <2>2 DEF Remembered
    <3> QED
      BY <1>1, <1>2, <2>1, <3>1, <3>2 DEF SpeaksTrue, AdapterStatus
  <2>3. CASE <<a, o[1], r>> # <<adapter, how, q>>
    <3>1. exited \subseteq exited'
      BY <2>1
    <3> QED
      BY <1>1, <1>2, <2>1, <2>3, <3>1 DEF SpeaksTrue, AdapterStatus, Remembered
  <2> QED
    BY <2>2, <2>3
<1>6. ASSUME HostRestarts PROVE SpeaksTrue(adapter, how, q)'
  BY <1>1, <1>2, <1>6 DEF HostRestarts, NoStatuses, SpeaksTrue, AdapterStatus
<1> QED
  BY <1>3, <1>4, <1>5, <1>6 DEF AdaptersNext, LoadsAgent, InvokeInVain, Invoke, PauseOrResume, adapterVars

(* invoke and status: whatever callers try again, at once or after a restart of the process,
   in a dry run or not, a run is answered to have succeeded only if a command of it has
   exited with 0. *)
THEOREM SuccessesAreReal == Spec => []SuccessIsReal
<1>1. Init => SuccessIsReal
  BY DEF Init, AdaptersInit, NoStatuses, SuccessIsReal, AdapterStatus
<1>2. [Next]_vars => [AdaptersNext]_adapterVars
  BY DEF Next, vars, Rests, Parts
<1>3. SuccessIsReal /\ [Next]_vars => SuccessIsReal'
  BY <1>2, AdapterSteps
<1> QED
  BY <1>1, <1>3, PTL DEF Spec

-----------------------------------------------------------------------------
(* Deterministic scans. *)

ScanSteps ==
  [step : {"tools", "write", "head"}, of : Nat, whole : BOOLEAN, out : BOOLEAN]
    \cup [step : {"record"}, sha : Nat]

ScanTypes ==
  /\ head \in Nat \ {0} /\ recorded \in Nat
  /\ output \in [of : Nat, whole : BOOLEAN]
  /\ scan \in [Scanners -> {NotScanning} \cup ScanSteps]
  /\ disturbed \in BOOLEAN

OutputIsCurrent == output.of = head /\ output.whole

(* What a scan that nothing disturbs knows and has done at each of its steps. *)
ScanIsCurrent(p) ==
  /\ scan[p].step \in {"tools", "write", "head"} =>
       scan[p].of = head /\ scan[p].whole /\ ~scan[p].out
  /\ scan[p].step \in {"head", "record"} => OutputIsCurrent
  /\ scan[p].step = "record" => scan[p].sha = head

(* The recorded HEAD never runs ahead of the file. *)
RecordIsSound ==
  /\ recorded <= head
  /\ recorded = head => OutputIsCurrent
  /\ \A p, q \in Scanners : Scanning(p) /\ Scanning(q) => p = q
  /\ \A p \in Scanners : ScanIsCurrent(p)
  /\ answered.of = answered.head /\ answered.whole

ScanInv == ScanTypes /\ (~disturbed => RecordIsSound)

LEMMA NotScanningIsNoStep == NotScanning \notin ScanSteps /\ NotScanning.step = "none"
BY DEF NotScanning, ScanSteps

LEMMA ScansStart == ScanInit => ScanInv
<1> SUFFICES ASSUME ScanInit PROVE ScanInv
  OBVIOUS
<1>1. /\ \A p \in Scanners : scan[p].step = "none"
      /\ scan \in [Scanners -> {NotScanning} \cup ScanSteps]
  BY NotScanningIsNoStep DEF ScanInit
<1>2. head = 1 /\ recorded = 0 /\ output = [of |-> 0, whole |-> FALSE] /\ disturbed = FALSE
  BY DEF ScanInit, NoOutput
<1>3. answered.of = answered.head /\ answered.whole
  BY DEF ScanInit
<1>4. ScanTypes
  <2>1. head \in Nat \ {0} /\ recorded \in Nat /\ output \in [of : Nat, whole : BOOLEAN]
    BY <1>2
  <2>2. disturbed \in BOOLEAN
    BY <1>2
  <2> QED
    BY <1>1, <2>1, <2>2 DEF ScanTypes
<1>5. RecordIsSound
  BY <1>1, <1>2, <1>3 DEF RecordIsSound, ScanIsCurrent, Scanning
<1> QED
  BY <1>4, <1>5 DEF ScanInv

LEMMA ScanStepsKeep == ScanInv /\ [ScanNext]_scanVars => ScanInv'
<1> SUFFICES ASSUME ScanInv, [ScanNext]_scanVars PROVE ScanInv'
  OBVIOUS
<1> USE NotScanningIsNoStep
    DEF ScanInv, ScanTypes, RecordIsSound, ScanIsCurrent, Scanning, OutputIsCurrent
<1>1. CASE CommitLands
  <2>1. /\ head' = head + 1 /\ UNCHANGED <<output, recorded, scan, answered>>
        /\ disturbed' = (disturbed \/ \E p \in Scanners : Scanning(p))
    BY <1>1 DEF CommitLands
  <2>2. disturbed' \in BOOLEAN
    BY <2>1
  <2>3. ~disturbed' => ~disturbed /\ \A p \in Scanners : scan[p].step = "none"
    BY <2>1
  <2> QED
    BY <2>1, <2>2, <2>3
<1>2. ASSUME NEW p \in Scanners, ScanSkips(p) PROVE ScanInv'
  BY <1>2 DEF ScanSkips, ShouldSkip
<1>3. ASSUME NEW p \in Scanners, NEW force \in BOOLEAN, NEW all \in BOOLEAN, NEW out \in BOOLEAN,
             ScanStarts(p, force, all, out)
      PROVE  ScanInv'
  <2>1. scan' \in [Scanners -> {NotScanning} \cup ScanSteps]
    BY <1>3 DEF ScanStarts, ScanSteps
  <2> QED
    BY <1>3, <2>1 DEF ScanStarts
<1>4. ASSUME NEW p \in Scanners, ToolsEnd(p) PROVE ScanInv'
  <2>1. scan' \in [Scanners -> {NotScanning} \cup ScanSteps]
    BY <1>4 DEF ToolsEnd, ScanSteps
  <2> QED
    BY <1>4, <2>1 DEF ToolsEnd, ScanSteps
<1>5. ASSUME NEW p \in Scanners, WritesOutput(p) PROVE ScanInv'
  <2>1. scan' \in [Scanners -> {NotScanning} \cup ScanSteps] /\ scan[p].of \in Nat /\ scan[p].whole \in BOOLEAN
    BY <1>5 DEF WritesOutput, ScanSteps
  <2> QED
    BY <1>5, <2>1 DEF WritesOutput, ScanSteps
<1>6. ASSUME NEW p \in Scanners, ReadsHead(p) PROVE ScanInv'
  <2>1. scan' \in [Scanners -> {NotScanning} \cup ScanSteps]
    BY <1>6 DEF ReadsHead, ScanSteps
  <2> QED
    BY <1>6, <2>1 DEF ReadsHead
<1>7. ASSUME NEW p \in Scanners, RecordsHead(p) PROVE ScanInv'
  <2>1. scan[p].sha \in Nat
    BY <1>7 DEF RecordsHead, ScanSteps
  <2> QED
    BY <1>7, <2>1 DEF RecordsHead
<1>8. ASSUME NEW p \in Scanners, ScannerDies(p) PROVE ScanInv'
  BY <1>8 DEF ScannerDies
<1>9. CASE UNCHANGED scanVars
  BY <1>9 DEF scanVars
<1> QED
  BY <1>1, <1>2, <1>3, <1>4, <1>5, <1>6, <1>7, <1>8, <1>9 DEF ScanNext

(* run_scan, any number of scanners, commits and deaths: as long as nothing interferes, a
   scan that is skipped is answered with the findings of the commit checked out. *)
THEOREM UndisturbedSkips == Spec => []UndisturbedSkipIsCurrent
<1>1. Init => ScanInv
  BY ScansStart DEF Init
<1>2. [Next]_vars => [ScanNext]_scanVars
  BY DEF Next, vars, Rests, Parts
<1>3. ScanInv /\ [Next]_vars => ScanInv'
  BY <1>2, ScanStepsKeep
<1>4. ScanInv => UndisturbedSkipIsCurrent
  BY DEF ScanInv, RecordIsSound, UndisturbedSkipIsCurrent, SkipsOnlyUnchanged
<1> QED
  BY <1>1, <1>3, <1>4, PTL DEF Spec

-----------------------------------------------------------------------------
(* The router. *)

(* The natural numbers are well ordered. *)
LEMMA LeastNumber == ASSUME NEW T, T \subseteq Nat, T # {} PROVE \E n \in T : \A m \in T : n <= m
<1>1. PICK n \in T : \A m \in T : <<m, n>> \notin OpToRel(<, Nat)
  BY NatLessThanWellFounded, WFMin
<1>2. \A m \in T : ~(m < n)
  BY <1>1 DEF OpToRel
<1> QED
  BY <1>2

LEMMA FirstIsIn ==
  ASSUME NEW order \in Seq(STRING), NEW S
  PROVE  IF S \cap Range(order) = {} THEN FirstOf(order, S) = "" ELSE FirstOf(order, S) \in S
<1> SUFFICES ASSUME S \cap Range(order) # {} PROVE FirstOf(order, S) \in S
  BY DEF FirstOf
<1> DEFINE T == {i \in DOMAIN order : order[i] \in S}
<1>1. T \subseteq Nat /\ T # {}
  BY DEF Range
<1>2. PICK n \in T : \A m \in T : n <= m
  BY <1>1, LeastNumber
<1>3. order[n] \in S /\ \A j \in 1 .. n - 1 : order[j] \notin S
  BY <1>2
<1> QED
  BY <1>2, <1>3 DEF FirstOf

LEMMA RouterSteps == AssignedCanDoIt /\ [RouterNext]_routerVars => AssignedCanDoIt'
<1> SUFFICES ASSUME AssignedCanDoIt, [RouterNext]_routerVars PROVE AssignedCanDoIt'
  OBVIOUS
<1>1. ASSUME NEW type \in DOMAIN TaskTypes, NEW preferred \in Preferences, Assign(type, preferred)
      PROVE  AssignedCanDoIt'
  <2>a. PICK cache : cache = IF limits = NotLooked THEN Health ELSE limits
    OBVIOUS
  <2>b. PICK order \in Seq(STRING) : order = IF preferred = <<>> THEN Backends ELSE preferred
    BY BackendsAssumption
  <2>c. PICK able : able = {b \in Range(order) : CanHandle(b, type, cache)}
    OBVIOUS
  <2>d. PICK first : first = FirstOf(order, able)
    OBVIOUS
  <2>1. assigned' = [type |-> type, order |-> order, fresh |-> cache = Health,
                     up |-> {b \in Range(Backends) : installed[b]},
                     backend |-> first, fallback |-> FirstOf(order, able \ {first})]
    BY <1>1, <2>a, <2>b, <2>c, <2>d DEF Assign
  <2> DEFINE up == {b \in Range(Backends) : installed[b]}
  <2>2. SUFFICES ASSUME cache = Health PROVE AssignedCanDoIt'
    <3>1. assigned'.fresh = (cache = Health)
      BY <2>1
    <3> QED
      BY <3>1, Zenon DEF AssignedCanDoIt
  <2>3. \A b : CanHandle(b, type, Health) <=>
          /\ b \in {c \in Range(Backends) : installed[c]}
          /\ TaskTypes[type] \subseteq Capabilities[b]
    BY DEF CanHandle, Health
  <2>4. ~CanHandle("", type, Health)
    BY <2>3, BackendsAssumption
  <2>7. assigned' = [type |-> type, order |-> order, fresh |-> TRUE,
                     up |-> up, backend |-> first, fallback |-> FirstOf(order, able \ {first})]
    BY <2>1, <2>2
  <2>8. IF able = {} THEN first = "" ELSE first \in able
    <3>1. able \cap Range(order) = able
      BY <2>c
    <3> QED
      BY <2>d, <3>1, FirstIsIn
  <2>9. FirstOf(order, able \ {first}) \in {""} \cup (able \ {first})
    BY <2>d, FirstIsIn
  <2>10. \A b \in Range(order) :
           b \in able <=> b \in up /\ TaskTypes[type] \subseteq Capabilities[b]
    BY <2>2, <2>3, <2>c
  <2>11. "" \notin able /\ able \subseteq Range(order)
    BY <2>2, <2>4, <2>c
  <2>12. IF first = "" THEN \A b \in Range(order) : b \notin able ELSE first \in able
    BY <2>8, <2>11
  <2> HIDE DEF up
  <2> QED
    BY <2>7, <2>9, <2>10, <2>11, <2>12 DEF AssignedCanDoIt
<1>2. CASE RefreshLimits
  BY <1>2 DEF RefreshLimits, AssignedCanDoIt
<1>3. CASE RouterRestarts
  BY <1>3 DEF RouterRestarts, AssignedCanDoIt, NotAssigned
<1>4. ASSUME NEW b \in Range(Backends), BackendFlips(b) PROVE AssignedCanDoIt'
  BY <1>4 DEF BackendFlips, AssignedCanDoIt
<1>5. CASE UNCHANGED routerVars
  BY <1>5 DEF routerVars, AssignedCanDoIt
<1> QED
  BY <1>1, <1>2, <1>3, <1>4, <1>5 DEF RouterNext

LEMMA RouterStart == RouterInit => AssignedCanDoIt
<1> SUFFICES ASSUME RouterInit PROVE AssignedCanDoIt
  OBVIOUS
<1>1. assigned.type = "none"
  BY DEF RouterInit, NotAssigned
<1> QED
  BY <1>1, Zenon DEF AssignedCanDoIt

(* assign, whatever the capabilities, the preferences and the restarts: a task that is
   assigned while what the router knows of the backends is fresh goes to a backend that
   is up and can do it, with another such as the fallback, and to none only if none can. *)
THEOREM AssignmentsAreAble == Spec => []AssignedCanDoIt
<1>1. Init => AssignedCanDoIt
  BY RouterStart DEF Init
<1>2. [Next]_vars => [RouterNext]_routerVars
  BY DEF Next, vars, Rests, Parts
<1>3. AssignedCanDoIt /\ [Next]_vars => AssignedCanDoIt'
  BY <1>2, RouterSteps
<1> QED
  BY <1>1, <1>3, PTL DEF Spec

-----------------------------------------------------------------------------
(* The portfolio regression. *)

Regresses(w) == regressing[w] # NoRun

IsRegression(r) ==
  /\ r = [run |-> r.run, dir |-> r.dir, left |-> r.left, at |-> r.at,
          coverage |-> r.coverage, records |-> r.records, alone |-> r.alone]
  /\ r.run \in Nat \ {0} /\ r.dir \in 1 .. MaxSecond /\ r.alone \in BOOLEAN

RegressionTypes ==
  /\ stamp \in 1 .. MaxSecond /\ runCount \in Nat /\ clashed \in BOOLEAN /\ whole \in BOOLEAN
  /\ runReport = [x \in (1 .. MaxSecond) \X Range(Suites) |-> runReport[x]]
  /\ archive = [s \in 1 .. MaxSecond |-> archive[s]]
  /\ outcome = [n \in 1 .. MaxRuns |-> [t \in Range(Suites) |-> outcome[n][t]]]
  /\ regressing = [w \in Workers |-> regressing[w]]
  /\ \A w \in Workers : Regresses(w) =>
       IsRegression(regressing[w]) /\ regressing[w].run <= runCount
  /\ latest = Summary(latest) /\ latest.run \in 0 .. runCount
  /\ latest.run = 0 => latest = NoSummary
  /\ runCount <= MaxRuns

(* Every regression has a number of its own. *)
Numbered ==
  \A w \in Workers : Regresses(w) =>
    /\ regressing[w].run # latest.run
    /\ \A v \in Workers \ {w} : Regresses(v) => regressing[v].run # regressing[w].run

(* What is recorded of a regression is what its tests returned. *)
Recorded(n, records) ==
  /\ DOMAIN records \subseteq Complete
  /\ \A t \in DOMAIN records : records[t].passed = (outcome[n][t] = "0")

AllRecorded ==
  /\ \A w \in Workers : Regresses(w) => Recorded(regressing[w].run, regressing[w].records)
  /\ Recorded(latest.run, latest.records)

(* Its coverage of python targets is its own. *)
Measured(n, records) ==
  \A t \in DOMAIN records : CoverageKind[t] = "python" => records[t].coverage \in {0, n}

AtWork(t) == t \notin {""} \cup Writing

Archived(r) == r.at \in {"archived", "publishing"}

InOwnDirectory(w) ==
  LET r == regressing[w] IN
  /\ \A v \in Workers \ {w} : Regresses(v) => regressing[v].dir # r.dir
  /\ archive[r.dir] = IF Archived(r) THEN Summary(r) ELSE NoSummary
  /\ r.at = "archiving" => r.alone
  /\ \A t \in Range(Suites) : runReport[<<r.dir, t>>] \in {0, r.run}
  /\ AtWork(r.at) /\ CoverageKind[r.at] = "python" => r.coverage \in {0, r.run}
  /\ Measured(r.run, r.records)

DirectoriesAreOwn ==
  /\ \A w \in Workers : Regresses(w) => InOwnDirectory(w)
  /\ latest = NoSummary \/ \E s \in 1 .. MaxSecond : archive[s] = latest
  /\ Measured(latest.run, latest.records)

Publishes(w) == Regresses(w) /\ regressing[w].at = "publishing"

(* A dashboard that one regression wrote to the end parses until the next opens it. *)
WholeIsShown == whole => latest # NoSummary \/ \E w \in Workers : Publishes(w)

RegressionInv ==
  /\ RegressionTypes /\ Numbered /\ AllRecorded
  /\ ~clashed => DirectoriesAreOwn
  /\ WholeIsShown

LEMMA ShownRests ==
  ASSUME WholeIsShown, UNCHANGED <<latest, whole>>, \A v \in Workers : Publishes(v) => Publishes(v)'
  PROVE  WholeIsShown'
BY DEF WholeIsShown

LEMMA NoRunIsNoRegression == NoRun.run = 0 /\ \A r : IsRegression(r) => r # NoRun
BY DEF NoRun, IsRegression

LEMMA RegressionStart == RegressionInit => RegressionInv
<1> SUFFICES ASSUME RegressionInit PROVE RegressionInv
  OBVIOUS
<1> USE DEF Regresses
<1>a. /\ stamp = 1 /\ runCount = 0 /\ clashed = FALSE /\ whole = FALSE /\ latest = NoSummary
      /\ runReport = [x \in (1 .. MaxSecond) \X Range(Suites) |-> 0]
      /\ archive = [s \in 1 .. MaxSecond |-> NoSummary]
      /\ outcome = [n \in 1 .. MaxRuns |-> [t \in Range(Suites) |-> "none"]]
      /\ regressing = [w \in Workers |-> NoRun]
  BY DEF RegressionInit
<1>1. RegressionTypes
  <2>1. latest = Summary(latest) /\ latest.run \in 0 .. runCount /\ latest = NoSummary
    BY <1>a DEF NoSummary, Summary
  <2>2. runReport = [x \in (1 .. MaxSecond) \X Range(Suites) |-> runReport[x]]
    BY <1>a, Zenon
  <2>3. outcome = [n \in 1 .. MaxRuns |-> [t \in Range(Suites) |-> outcome[n][t]]]
    BY <1>a
  <2>4. /\ archive = [s \in 1 .. MaxSecond |-> archive[s]]
        /\ regressing = [w \in Workers |-> regressing[w]]
        /\ \A w \in Workers : ~Regresses(w)
    BY <1>a, Zenon
  <2>5. /\ stamp \in 1 .. MaxSecond /\ runCount \in Nat /\ runCount <= MaxRuns
        /\ clashed \in BOOLEAN /\ whole \in BOOLEAN
    <3>1. stamp = 1 /\ runCount = 0 /\ clashed \in BOOLEAN /\ whole \in BOOLEAN
      BY <1>a
    <3>2. 1 \in 1 .. MaxSecond /\ 0 <= MaxRuns
      BY RegressionBoundsAssumption
    <3> QED
      BY <3>1, <3>2
  <2> QED
    BY <2>1, <2>2, <2>3, <2>4, <2>5 DEF RegressionTypes
<1>2. Numbered /\ AllRecorded /\ DirectoriesAreOwn /\ WholeIsShown
  BY <1>a DEF NoSummary, Numbered, AllRecorded, Recorded, DirectoriesAreOwn, Measured, WholeIsShown
<1> QED
  BY <1>1, <1>2 DEF RegressionInv

(* A step of one worker: what is left of the regressions of the others. *)
Only(w, r) ==
  /\ regressing'[w] = r
  /\ \A v \in Workers \ {w} : regressing'[v] = regressing[v]
  /\ regressing' = [v \in Workers |-> regressing'[v]]

LEMMA StartInv ==
  ASSUME RegressionInv, NEW w \in Workers, NEW only \in SUBSET Range(Suites), StartRegression(w, only)
  PROVE  RegressionInv'
<1>1. PICK r : /\ r = [run |-> runCount + 1, dir |-> stamp, left |-> r.left, at |-> r.at,
                       coverage |-> 0, records |-> NoSummary.records, alone |-> TRUE]
               /\ ~AtWork(r.at) /\ r.at \notin Writing
               /\ regressing' = [regressing EXCEPT ![w] = r]
  <2>1. PICK left : left = SelectSeq(Suites, LAMBDA t : t \in only \ Incomplete)
    OBVIOUS
  <2>2. PICK nothing : nothing = ""
    OBVIOUS
  <2>3. ~AtWork(nothing) /\ nothing \notin Writing
    BY <2>2 DEF AtWork, Writing
  <2>4. PICK r : r = [run |-> runCount + 1, dir |-> stamp, left |-> left, at |-> nothing,
                      coverage |-> 0, records |-> NoSummary.records, alone |-> TRUE]
    OBVIOUS
  <2>5. regressing' = [regressing EXCEPT ![w] = r]
    BY <2>1, <2>2, <2>4 DEF StartRegression
  <2> QED
    BY <2>3, <2>4, <2>5
<1>2. /\ ~Regresses(w) /\ runCount < MaxRuns /\ runCount' = runCount + 1
      /\ UNCHANGED <<stamp, suiteReport, runReport, archive, latest, outcome, whole>>
  BY DEF StartRegression, Regresses
<1>3. clashed' = \/ clashed
                 \/ \E v \in Workers : regressing[v] # NoRun /\ regressing[v].dir = stamp
                 \/ archive[stamp] # NoSummary
                 \/ \E t \in Range(Suites) : runReport[<<stamp, t>>] # 0
  BY DEF StartRegression
<1>4. /\ r.run = runCount + 1 /\ r.dir = stamp /\ ~AtWork(r.at) /\ r.at \notin Writing
      /\ DOMAIN r.records = {} /\ r.alone = TRUE
  <2>1. DOMAIN NoSummary.records = {}
    BY DEF NoSummary
  <2>2. r.run = runCount + 1 /\ r.dir = stamp /\ r.records = NoSummary.records /\ r.alone = TRUE
    BY <1>1
  <2> QED
    BY <1>1, <2>1, <2>2
<1>5. Only(w, r)
  BY <1>1 DEF Only, RegressionInv, RegressionTypes
<1>6. runCount \in Nat /\ runCount' \in Nat /\ MaxRuns \in Nat /\ stamp \in 1 .. MaxSecond
  BY <1>2, RegressionBoundsAssumption DEF RegressionInv, RegressionTypes
<1>7. r = [run |-> r.run, dir |-> r.dir, left |-> r.left, at |-> r.at,
           coverage |-> r.coverage, records |-> r.records, alone |-> r.alone]
  BY <1>1
<1>8. IsRegression(r)
  <2>1. r.run \in Nat \ {0} /\ r.dir \in 1 .. MaxSecond
    BY <1>4, <1>6
  <2>2. r.alone \in BOOLEAN
    BY <1>4, Zenon
  <2> QED
    BY <1>7, <2>1, <2>2, Zenon DEF IsRegression
<1>9. ASSUME NEW v \in Workers \ {w}, Regresses(v)'
      PROVE  /\ regressing'[v] = regressing[v] /\ Regresses(v) /\ IsRegression(regressing[v])
             /\ regressing[v].run \in Nat /\ regressing[v].run <= runCount
             /\ regressing[v].run # latest.run
  BY <1>5, <1>9 DEF Only, Regresses, RegressionInv, RegressionTypes, IsRegression, Numbered
<1>10. RegressionTypes'
  <2>1. \A v \in Workers : Regresses(v)' =>
          IsRegression(regressing'[v]) /\ regressing'[v].run <= runCount'
    <3>1. regressing'[w].run <= runCount' /\ IsRegression(regressing'[w])
      BY <1>2, <1>4, <1>5, <1>6, <1>8 DEF Only
    <3>2. ASSUME NEW v \in Workers \ {w}, Regresses(v)'
          PROVE  IsRegression(regressing'[v]) /\ regressing'[v].run <= runCount'
      BY <1>2, <1>6, <1>9, <3>2
    <3> QED
      BY <3>1, <3>2
  <2>2. clashed' \in BOOLEAN
    BY <1>3 DEF RegressionInv, RegressionTypes
  <2>3. latest'.run \in 0 .. runCount' /\ runCount' <= MaxRuns
    BY <1>2, <1>6 DEF RegressionInv, RegressionTypes
  <2> QED
    BY <1>2, <1>5, <1>6, <2>1, <2>2, <2>3 DEF Only, RegressionInv, RegressionTypes, IsRegression, Summary
<1>11. Numbered'
  <2>1. regressing'[w].run = runCount + 1 /\ latest' = latest /\ latest.run <= runCount
    BY <1>2, <1>4, <1>5, <1>6 DEF Only, RegressionInv, RegressionTypes
  <2>2. \A v \in Workers \ {w} : Regresses(v)' => regressing'[v].run # runCount + 1
    BY <1>6, <1>9
  <2>3. regressing'[w].run # latest'.run
    BY <1>6, <2>1 DEF RegressionInv, RegressionTypes
  <2>4. \A v \in Workers \ {w} : Regresses(v)' =>
          \A u \in Workers \ {v} : Regresses(u)' => regressing'[u].run # regressing'[v].run
    BY <1>9, <2>1, <2>2 DEF Numbered, RegressionInv
  <2> QED
    BY <1>9, <2>1, <2>2, <2>3, <2>4 DEF Numbered
<1>12. AllRecorded'
  BY <1>2, <1>4, <1>5, <1>9 DEF Only, AllRecorded, Recorded, RegressionInv
<1>13. ASSUME ~clashed' PROVE DirectoriesAreOwn'
  <2>1. /\ \A v \in Workers : Regresses(v) => regressing[v].dir # stamp
        /\ archive[stamp] = NoSummary
        /\ \A t \in Range(Suites) : runReport[<<stamp, t>>] = 0
        /\ DirectoriesAreOwn
    BY <1>3, <1>13 DEF Regresses, RegressionInv
  <2>2. InOwnDirectory(w)'
    BY <1>2, <1>4, <1>5, <1>9, <2>1 DEF Only, InOwnDirectory, Measured, Archived, Writing
  <2>3. ASSUME NEW v \in Workers \ {w}, Regresses(v)' PROVE InOwnDirectory(v)'
    BY <1>2, <1>4, <1>5, <1>9, <2>1, <2>3 DEF Only, DirectoriesAreOwn, InOwnDirectory, Measured, Archived
  <2> QED
    BY <1>2, <2>1, <2>2, <2>3 DEF DirectoriesAreOwn, Measured
<1>14. WholeIsShown'
  BY <1>2, <1>5, ShownRests DEF RegressionInv, Publishes, Regresses, Only
<1> QED
  BY <1>10, <1>11, <1>12, <1>13, <1>14 DEF RegressionInv

(* A regression goes on under its number, in its directory. *)
LEMMA RunGoesOn ==
  ASSUME RegressionTypes, Numbered, NEW w \in Workers, Regresses(w), NEW r, Only(w, r), IsRegression(r),
         r.run = regressing[w].run, UNCHANGED <<stamp, runCount, latest, clashed, whole>>,
         runReport' = [x \in (1 .. MaxSecond) \X Range(Suites) |-> runReport'[x]],
         archive' = [s \in 1 .. MaxSecond |-> archive'[s]],
         outcome' = [n \in 1 .. MaxRuns |-> [t \in Range(Suites) |-> outcome'[n][t]]]
  PROVE  /\ RegressionTypes' /\ Numbered'
         /\ \A v \in Workers : Regresses(v)' => Regresses(v)
<1>1. \A v \in Workers : Regresses(v)' => Regresses(v) /\ regressing'[v].run = regressing[v].run
  BY DEF Only, Regresses
<1>2. Numbered'
  BY <1>1 DEF Numbered
<1>3. ASSUME NEW v \in Workers, Regresses(v)'
      PROVE  IsRegression(regressing'[v]) /\ regressing'[v].run <= runCount'
  BY <1>1, <1>3 DEF Only, RegressionTypes
<1>4. RegressionTypes'
  BY <1>3 DEF Only, RegressionTypes, Summary, IsRegression
<1> QED
  BY <1>1, <1>2, <1>4

LEMMA TryCoverageInv ==
  ASSUME RegressionInv, NEW w \in Workers, NEW t \in Complete, TryCoverage(w, t)
  PROVE  RegressionInv'
<1>1. PICK wrote \in BOOLEAN, ok \in BOOLEAN :
        /\ runReport' = IF wrote /\ InRunDir(t)
                        THEN [runReport EXCEPT ![<<regressing[w].dir, t>>] = regressing[w].run] ELSE runReport
        /\ regressing' = [regressing EXCEPT ![w].at = t, ![w].coverage =
             IF ~ok THEN 0
             ELSE IF InRunDir(t) THEN runReport'[<<regressing[w].dir, t>>] ELSE suiteReport'[t]]
  BY DEF TryCoverage
<1>2. /\ Regresses(w) /\ regressing[w].at \notin Writing
      /\ UNCHANGED <<stamp, runCount, archive, latest, outcome, clashed, whole>>
  BY DEF TryCoverage, Regresses, Writing
<1>3. IsRegression(regressing[w])
  BY <1>2 DEF RegressionInv, RegressionTypes
<1>4. PICK coverage : coverage = IF ~ok THEN 0
             ELSE IF InRunDir(t) THEN runReport'[<<regressing[w].dir, t>>] ELSE suiteReport'[t]
  OBVIOUS
<1>5. PICK r : r = [run |-> regressing[w].run, dir |-> regressing[w].dir, left |-> regressing[w].left,
                    at |-> t, coverage |-> coverage, records |-> regressing[w].records,
                    alone |-> regressing[w].alone]
  OBVIOUS
<1>6. Only(w, r)
  <2>1. regressing' = [regressing EXCEPT ![w].at = t, ![w].coverage = coverage]
    BY <1>1, <1>4
  <2>2. regressing = [v \in Workers |-> regressing[v]]
    BY DEF RegressionInv, RegressionTypes
  <2>3. [regressing[w] EXCEPT !.at = t, !.coverage = coverage] = r
    <3>1. PICK x : /\ x = regressing[w]
                   /\ x = [run |-> x.run, dir |-> x.dir, left |-> x.left, at |-> x.at,
                           coverage |-> x.coverage, records |-> x.records, alone |-> x.alone]
      BY <1>3 DEF IsRegression
    <3>2. PICK y : y = [x EXCEPT !.at = t]
      OBVIOUS
    <3>3. y = [run |-> x.run, dir |-> x.dir, left |-> x.left, at |-> t,
               coverage |-> x.coverage, records |-> x.records, alone |-> x.alone]
      BY <3>1, <3>2
    <3>4. [y EXCEPT !.coverage = coverage] = r
      BY <1>5, <3>1, <3>3
    <3> QED
      BY <3>1, <3>2, <3>4
  <2> QED
    BY <2>1, <2>2, <2>3 DEF Only
<1>7. /\ r.run = regressing[w].run /\ r.dir = regressing[w].dir /\ r.at = t /\ r.coverage = coverage
      /\ r.records = regressing[w].records /\ IsRegression(r)
  BY <1>3, <1>5 DEF IsRegression
<1>8. runReport' = [x \in (1 .. MaxSecond) \X Range(Suites) |-> runReport'[x]]
  BY <1>1 DEF RegressionInv, RegressionTypes
<1>9. /\ RegressionTypes' /\ Numbered'
      /\ \A v \in Workers : Regresses(v)' => Regresses(v)
  BY <1>2, <1>6, <1>7, <1>8, RunGoesOn DEF RegressionInv, RegressionTypes
<1>10. AllRecorded'
  BY <1>2, <1>6, <1>7, <1>9 DEF Only, AllRecorded, Recorded, RegressionInv
<1>11. ASSUME ~clashed PROVE DirectoriesAreOwn'
  <2>1. DirectoriesAreOwn
    BY <1>11 DEF RegressionInv
  <2>2. <<regressing[w].dir, t>> \in (1 .. MaxSecond) \X Range(Suites)
    BY <1>3 DEF IsRegression, Complete
  <2>3. \A u \in Range(Suites) : runReport'[<<regressing[w].dir, u>>] \in {0, regressing[w].run}
    BY <1>1, <1>2, <2>1, <2>2 DEF RegressionInv, RegressionTypes, DirectoriesAreOwn, InOwnDirectory
  <2>4. ASSUME NEW v \in Workers \ {w}, Regresses(v), NEW u \in Range(Suites)
        PROVE  runReport'[<<regressing[v].dir, u>>] = runReport[<<regressing[v].dir, u>>]
    BY <1>1, <1>2, <2>1, <2>2, <2>4 DEF RegressionInv, RegressionTypes, DirectoriesAreOwn, InOwnDirectory,
         IsRegression
  <2>5. CoverageKind[t] = "python" => coverage \in {0, regressing[w].run}
    BY <1>4, <2>3 DEF InRunDir, Complete
  <2>6. t \notin Writing
    BY SuitesAssumption
  <2>7. InOwnDirectory(w)'
    BY <1>2, <1>6, <1>7, <1>9, <2>1, <2>3, <2>5, <2>6
       DEF Only, DirectoriesAreOwn, InOwnDirectory, Measured, Archived, Writing
  <2>8. ASSUME NEW v \in Workers \ {w}, Regresses(v)' PROVE InOwnDirectory(v)'
    BY <1>2, <1>6, <1>7, <1>9, <2>1, <2>4, <2>8
       DEF Only, DirectoriesAreOwn, InOwnDirectory, Measured, Summary, Archived
  <2> QED
    BY <1>2, <2>1, <2>7, <2>8 DEF DirectoriesAreOwn, Measured
<1>12. WholeIsShown'
  BY <1>2, <1>6, ShownRests DEF RegressionInv, Publishes, Regresses, Only, Writing
<1> QED
  BY <1>2, <1>9, <1>10, <1>11, <1>12 DEF RegressionInv

LEMMA RunTestsInv ==
  ASSUME RegressionInv, NEW w \in Workers, RunTests(w)
  PROVE  RegressionInv'
<1>1. PICK x : x = regressing[w]
  OBVIOUS
<1>2. /\ Regresses(w) /\ x.at \in Complete
      /\ UNCHANGED <<stamp, runCount, suiteReport, runReport, archive, latest, clashed, whole>>
  BY <1>1 DEF RunTests, Regresses
<1>3. /\ IsRegression(x) /\ x.run \in 1 .. MaxRuns
      /\ x = [run |-> x.run, dir |-> x.dir, left |-> x.left, at |-> x.at,
              coverage |-> x.coverage, records |-> x.records, alone |-> x.alone]
  BY <1>1, <1>2, RegressionBoundsAssumption DEF RegressionInv, RegressionTypes, IsRegression
<1>4. PICK nothing : nothing = "" /\ ~AtWork(nothing) /\ nothing \notin Writing
  <2>1. PICK nothing : nothing = ""
    OBVIOUS
  <2>2. ~AtWork(nothing) /\ nothing \notin Writing
    BY <2>1 DEF AtWork, Writing
  <2> QED
    BY <2>1, <2>2, Zenon
<1>5. PICK code \in {"0", "1"} :
        /\ outcome' = [outcome EXCEPT ![x.run][x.at] = code]
        /\ regressing' = [regressing EXCEPT ![w] =
             [x EXCEPT !.left = Tail(@), !.at = nothing, !.coverage = 0,
                       !.records = [u \in DOMAIN @ \cup {x.at} |->
                          IF u = x.at THEN [passed |-> code = "0", coverage |-> x.coverage] ELSE @[u]]]]
  BY <1>1, <1>4 DEF RunTests
<1>6. PICK passed \in BOOLEAN : passed = (code = "0")
  OBVIOUS
<1>7. PICK records :
        records = [u \in DOMAIN x.records \cup {x.at} |->
                     IF u = x.at THEN [passed |-> passed, coverage |-> x.coverage] ELSE x.records[u]]
  OBVIOUS
<1>8. PICK r : r = [run |-> x.run, dir |-> x.dir, left |-> Tail(x.left), at |-> nothing,
                    coverage |-> 0, records |-> records, alone |-> x.alone]
  OBVIOUS
<1>9. regressing' = [regressing EXCEPT ![w] = r]
  <2>1. PICK y1 : y1 = [x EXCEPT !.left = Tail(x.left)]
    OBVIOUS
  <2>2. y1 = [run |-> x.run, dir |-> x.dir, left |-> Tail(x.left), at |-> x.at,
              coverage |-> x.coverage, records |-> x.records, alone |-> x.alone]
    BY <1>3, <2>1
  <2>3. PICK y2 : y2 = [y1 EXCEPT !.at = nothing]
    OBVIOUS
  <2>4. y2 = [run |-> x.run, dir |-> x.dir, left |-> Tail(x.left), at |-> nothing,
              coverage |-> x.coverage, records |-> x.records, alone |-> x.alone]
    BY <2>2, <2>3
  <2>5. PICK y3 : y3 = [y2 EXCEPT !.coverage = 0]
    OBVIOUS
  <2>6. y3 = [run |-> x.run, dir |-> x.dir, left |-> Tail(x.left), at |-> nothing,
              coverage |-> 0, records |-> x.records, alone |-> x.alone]
    BY <2>4, <2>5
  <2>7. [y3 EXCEPT !.records = records] = r
    <3>1. PICK left : left = Tail(x.left)
      OBVIOUS
    <3>2. y3 = [run |-> x.run, dir |-> x.dir, left |-> left, at |-> nothing,
                coverage |-> 0, records |-> x.records, alone |-> x.alone]
      BY <2>6, <3>1
    <3>3. PICK y4 : y4 = [y3 EXCEPT !.records = records]
      OBVIOUS
    <3>4. y4 = [run |-> x.run, dir |-> x.dir, left |-> left, at |-> nothing,
                coverage |-> 0, records |-> records, alone |-> x.alone]
      BY <3>2, <3>3
    <3> QED
      BY <1>8, <3>1, <3>3, <3>4
  <2>8. regressing' = [regressing EXCEPT ![w] =
          [x EXCEPT !.left = Tail(x.left), !.at = nothing, !.coverage = 0, !.records = records]]
    BY <1>5, <1>6, <1>7
  <2> QED
    BY <2>1, <2>3, <2>5, <2>7, <2>8
<1>10. Only(w, r)
  BY <1>9 DEF Only, RegressionInv, RegressionTypes
<1>11. /\ r.run = x.run /\ r.dir = x.dir /\ ~AtWork(r.at) /\ r.at \notin Writing /\ r.records = records
       /\ IsRegression(r)
  BY <1>3, <1>4, <1>8 DEF IsRegression
<1>12. x.at \in Range(Suites) /\ AtWork(x.at)
  BY <1>2, SuitesAssumption DEF Complete, AtWork
<1>13. /\ outcome' = [n \in 1 .. MaxRuns |-> [t \in Range(Suites) |-> outcome'[n][t]]]
       /\ outcome'[x.run][x.at] = code
       /\ \A n \in 1 .. MaxRuns, t \in Range(Suites) :
            <<n, t>> # <<x.run, x.at>> => outcome'[n][t] = outcome[n][t]
  <2>1. DOMAIN outcome = 1 .. MaxRuns /\ outcome = [n \in 1 .. MaxRuns |-> outcome[n]]
    BY DEF RegressionInv, RegressionTypes
  <2>2. \A n \in 1 .. MaxRuns : outcome[n] = [t \in Range(Suites) |-> outcome[n][t]]
    BY DEF RegressionInv, RegressionTypes
  <2>3. PICK row : row = [outcome[x.run] EXCEPT ![x.at] = code]
    OBVIOUS
  <2>4. /\ row = [t \in Range(Suites) |-> row[t]] /\ row[x.at] = code
        /\ \A t \in Range(Suites) : t # x.at => row[t] = outcome[x.run][t]
    BY <1>3, <1>12, <2>2, <2>3
  <2>5. outcome' = [outcome EXCEPT ![x.run] = row]
    BY <1>5, <2>3
  <2>6. /\ outcome'[x.run] = row /\ DOMAIN outcome' = 1 .. MaxRuns
        /\ outcome' = [n \in 1 .. MaxRuns |-> outcome'[n]]
        /\ \A n \in 1 .. MaxRuns : n # x.run => outcome'[n] = outcome[n]
    BY <1>3, <2>1, <2>5
  <2>7. \A n \in 1 .. MaxRuns : outcome'[n] = [t \in Range(Suites) |-> outcome'[n][t]]
    BY <2>2, <2>4, <2>6
  <2>8. outcome' = [n \in 1 .. MaxRuns |-> [t \in Range(Suites) |-> outcome'[n][t]]]
    BY <2>6, <2>7
  <2> QED
    BY <2>4, <2>6, <2>8
<1>14. /\ RegressionTypes' /\ Numbered'
       /\ \A v \in Workers : Regresses(v)' => Regresses(v)
  BY <1>1, <1>2, <1>10, <1>11, <1>13, RunGoesOn DEF RegressionInv, RegressionTypes
<1>15. ASSUME NEW n \in Nat, NEW old, n # x.run, Recorded(n, old), DOMAIN old = {} \/ n \in 1 .. MaxRuns
       PROVE  Recorded(n, old)'
  BY <1>13, <1>15 DEF Recorded, Complete
<1>16. AllRecorded'
  <2>1. Recorded(x.run, records)'
    <3>1. Recorded(x.run, x.records)
      BY <1>1, <1>2 DEF AllRecorded, RegressionInv
    <3>2. \A t \in DOMAIN records : records[t].passed = (outcome'[x.run][t] = "0")
      BY <1>3, <1>6, <1>7, <1>13, <3>1 DEF Recorded, Complete
    <3> QED
      BY <1>2, <1>7, <3>1, <3>2 DEF Recorded
  <2>2. ASSUME NEW v \in Workers \ {w}, Regresses(v)'
        PROVE  Recorded(regressing[v].run, regressing[v].records)' /\ regressing'[v] = regressing[v]
    <3>1. /\ regressing'[v] = regressing[v] /\ Regresses(v)
          /\ regressing[v].run # x.run /\ regressing[v].run \in 1 .. MaxRuns
      BY <1>1, <1>2, <1>10, <1>14, <2>2, RegressionBoundsAssumption
         DEF Only, RegressionInv, RegressionTypes, Numbered, IsRegression
    <3> QED
      BY <1>15, <3>1, RegressionBoundsAssumption DEF AllRecorded, RegressionInv
  <2>3. Recorded(latest.run, latest.records)'
    <3>1. latest.run # x.run /\ latest.run \in Nat /\ (latest.run \in 1 .. MaxRuns \/ latest.run = 0)
      BY <1>1, <1>2, RegressionBoundsAssumption DEF RegressionInv, RegressionTypes, Numbered
    <3>2. latest.run = 0 => DOMAIN latest.records = {}
      BY DEF RegressionInv, RegressionTypes, NoSummary
    <3> QED
      BY <1>2, <1>15, <3>1, <3>2 DEF AllRecorded, RegressionInv
  <2> QED
    BY <1>10, <1>11, <2>1, <2>2, <2>3 DEF AllRecorded, Only
<1>17. ASSUME ~clashed PROVE DirectoriesAreOwn'
  <2>1. DirectoriesAreOwn
    BY <1>17 DEF RegressionInv
  <2>2. InOwnDirectory(w)
    BY <1>2, <2>1 DEF DirectoriesAreOwn
  <2>3. x.at \notin Writing /\ Measured(x.run, records)
    BY <1>1, <1>7, <1>12, <2>2 DEF InOwnDirectory, Measured, AtWork
  <2>4. InOwnDirectory(w)'
    BY <1>1, <1>2, <1>10, <1>11, <1>14, <2>2, <2>3 DEF Only, InOwnDirectory, Measured, Archived, Writing
  <2>5. ASSUME NEW v \in Workers \ {w}, Regresses(v)' PROVE InOwnDirectory(v)'
    BY <1>1, <1>2, <1>10, <1>11, <1>14, <2>1, <2>5
       DEF Only, DirectoriesAreOwn, InOwnDirectory, Measured, Summary, Archived
  <2> QED
    BY <1>2, <2>1, <2>4, <2>5 DEF DirectoriesAreOwn, Measured
<1>18. WholeIsShown'
  <2>1. x.at # "publishing"
    BY <1>2, SuitesAssumption DEF Writing
  <2> QED
    BY <1>1, <1>2, <1>10, <2>1, ShownRests DEF RegressionInv, Publishes, Regresses, Only
<1> QED
  BY <1>2, <1>14, <1>16, <1>17, <1>18 DEF RegressionInv

(* What a regression has written while it had the file open to itself is whole. *)
LEMMA FillArchiveInv ==
  ASSUME RegressionInv, NEW w \in Workers, FillArchive(w)
  PROVE  RegressionInv'
<1>1. PICK x : x = regressing[w]
  OBVIOUS
<1>2. /\ Regresses(w) /\ x.at = "archiving"
      /\ UNCHANGED <<stamp, runCount, suiteReport, runReport, latest, outcome, clashed, whole>>
      /\ regressing' = [regressing EXCEPT ![w].at = "archived"]
  BY <1>1 DEF FillArchive, Regresses
<1>3. /\ IsRegression(x)
      /\ x = [run |-> x.run, dir |-> x.dir, left |-> x.left, at |-> x.at,
              coverage |-> x.coverage, records |-> x.records, alone |-> x.alone]
  BY <1>1, <1>2 DEF RegressionInv, RegressionTypes, IsRegression
<1>4. PICK r : r = [run |-> x.run, dir |-> x.dir, left |-> x.left, at |-> "archived",
                    coverage |-> x.coverage, records |-> x.records, alone |-> x.alone]
  OBVIOUS
<1>5. Only(w, r)
  <2>1. [x EXCEPT !.at = "archived"] = r
    BY <1>3, <1>4
  <2>2. regressing' = [regressing EXCEPT ![w] = r]
    BY <1>1, <1>2, <2>1
  <2> QED
    BY <2>2 DEF Only, RegressionInv, RegressionTypes
<1>6. /\ r.run = x.run /\ r.dir = x.dir /\ r.at = "archived" /\ ~AtWork(r.at) /\ Archived(r)
      /\ r.records = x.records /\ IsRegression(r) /\ Summary(r) = Summary(x)
  BY <1>3, <1>4 DEF IsRegression, AtWork, Archived, Writing, Summary
<1>7. PICK s \in Written(x) : archive' = [archive EXCEPT ![x.dir] = s]
  BY <1>1 DEF FillArchive
<1>8. /\ archive' = [d \in 1 .. MaxSecond |-> archive'[d]] /\ archive'[x.dir] = s
      /\ \A d \in 1 .. MaxSecond : d # x.dir => archive'[d] = archive[d]
  BY <1>3, <1>7 DEF RegressionInv, RegressionTypes, IsRegression
<1>9. /\ RegressionTypes' /\ Numbered'
      /\ \A v \in Workers : Regresses(v)' => Regresses(v)
  <2>1. RegressionTypes /\ Numbered
    BY DEF RegressionInv
  <2>2. /\ runReport' = [y \in (1 .. MaxSecond) \X Range(Suites) |-> runReport'[y]]
        /\ outcome' = [n \in 1 .. MaxRuns |-> [t \in Range(Suites) |-> outcome'[n][t]]]
    BY <1>2, <2>1 DEF RegressionTypes
  <2>3. r.run = regressing[w].run
    BY <1>1, <1>6
  <2> QED
    BY <1>2, <1>5, <1>6, <1>8, <2>1, <2>2, <2>3, RunGoesOn
<1>10. AllRecorded'
  BY <1>1, <1>2, <1>5, <1>6, <1>9 DEF Only, AllRecorded, Recorded, RegressionInv
<1>11. ASSUME ~clashed PROVE DirectoriesAreOwn'
  <2>1. DirectoriesAreOwn /\ InOwnDirectory(w)
    BY <1>2, <1>11 DEF RegressionInv, DirectoriesAreOwn
  <2>2. archive'[x.dir] = Summary(x)
    BY <1>1, <1>2, <1>7, <1>8, <2>1 DEF InOwnDirectory, Written
  <2>3. InOwnDirectory(w)'
    BY <1>1, <1>2, <1>5, <1>6, <1>9, <2>1, <2>2 DEF Only, InOwnDirectory, Measured
  <2>4. ASSUME NEW v \in Workers \ {w}, Regresses(v)' PROVE InOwnDirectory(v)'
    <3>1. /\ Regresses(v) /\ regressing'[v] = regressing[v] /\ InOwnDirectory(v)
          /\ regressing[v].dir # x.dir /\ regressing[v].dir \in 1 .. MaxSecond
      BY <1>1, <1>5, <1>9, <2>1, <2>4
         DEF Only, DirectoriesAreOwn, InOwnDirectory, RegressionInv, RegressionTypes, IsRegression
    <3> QED
      BY <1>1, <1>2, <1>5, <1>6, <1>8, <1>9, <3>1 DEF Only, InOwnDirectory, Measured, Summary, Archived
  <2>5. archive[x.dir] = NoSummary
    BY <1>1, <1>2, <2>1 DEF InOwnDirectory, Archived
  <2>6. latest = NoSummary \/ \E d \in 1 .. MaxSecond : archive'[d] = latest
    BY <1>8, <2>1, <2>5 DEF DirectoriesAreOwn
  <2> QED
    BY <1>2, <2>1, <2>3, <2>4, <2>6 DEF DirectoriesAreOwn, Measured
<1>12. WholeIsShown'
  BY <1>1, <1>2, <1>5, ShownRests DEF RegressionInv, Publishes, Regresses, Only
<1> QED
  BY <1>2, <1>9, <1>10, <1>11, <1>12 DEF RegressionInv

(* Opening a file changes where its writer is, and of those that have it open only
   whether they write it alone. *)
StillAt(v) ==
  /\ regressing'[v].run = regressing[v].run /\ regressing'[v].dir = regressing[v].dir
  /\ regressing'[v].records = regressing[v].records /\ regressing'[v].coverage = regressing[v].coverage

LEMMA OpensFileFields ==
  ASSUME RegressionInv, NEW w \in Workers, Regresses(w), NEW stage \in Writing, OpensFile(w, stage)
  PROVE  /\ regressing' = [v \in Workers |-> regressing'[v]]
         /\ \A v \in Workers : Regresses(v)' <=> Regresses(v)
         /\ \A v \in Workers : Regresses(v) => StillAt(v) /\ IsRegression(regressing'[v])
         /\ regressing'[w].at = stage /\ regressing'[w].alone = (WriteToo(w, stage) = {})
         /\ \A v \in Workers \ {w} : Regresses(v) =>
              /\ regressing'[v].at = regressing[v].at
              /\ v \notin WriteToo(w, stage) => regressing'[v].alone = regressing[v].alone
<1>1. regressing' = [v \in Workers |->
        IF v = w THEN [regressing[w] EXCEPT !.at = stage, !.alone = (WriteToo(w, stage) = {})]
        ELSE IF v \in WriteToo(w, stage) THEN [regressing[v] EXCEPT !.alone = FALSE]
        ELSE regressing[v]]
  BY DEF OpensFile
<1>2. \A v \in Workers : Regresses(v) => IsRegression(regressing[v])
  BY DEF RegressionInv, RegressionTypes
<1>3. \A v \in WriteToo(w, stage) : v \in Workers \ {w} /\ Regresses(v)
  BY DEF WriteToo, Regresses
<1>4. PICK alone \in BOOLEAN : alone = (WriteToo(w, stage) = {})
  OBVIOUS
<1>5. /\ regressing'[w].at = stage /\ regressing'[w].alone = alone
      /\ StillAt(w) /\ IsRegression(regressing'[w])
  <2>1. PICK x : x = regressing[w] /\ IsRegression(x)
    BY <1>2
  <2>2. x = [run |-> x.run, dir |-> x.dir, left |-> x.left, at |-> x.at,
             coverage |-> x.coverage, records |-> x.records, alone |-> x.alone]
    BY <2>1 DEF IsRegression
  <2>3. PICK y : y = [x EXCEPT !.at = stage]
    OBVIOUS
  <2>4. y = [run |-> x.run, dir |-> x.dir, left |-> x.left, at |-> stage,
             coverage |-> x.coverage, records |-> x.records, alone |-> x.alone]
    BY <2>2, <2>3
  <2>5. PICK z : z = [y EXCEPT !.alone = alone]
    OBVIOUS
  <2>6. z = [run |-> x.run, dir |-> x.dir, left |-> x.left, at |-> stage,
             coverage |-> x.coverage, records |-> x.records, alone |-> alone]
    BY <2>4, <2>5
  <2>7. regressing'[w] = z
    BY <1>1, <1>4, <2>1, <2>3, <2>5
  <2> QED
    BY <2>1, <2>6, <2>7 DEF StillAt, IsRegression
<1>6. ASSUME NEW v \in Workers \ {w}, Regresses(v)
      PROVE  /\ StillAt(v) /\ IsRegression(regressing'[v]) /\ regressing'[v].at = regressing[v].at
             /\ v \notin WriteToo(w, stage) => regressing'[v].alone = regressing[v].alone
  <2>1. PICK x : x = regressing[v] /\ IsRegression(x)
    BY <1>2, <1>6
  <2>2. x = [run |-> x.run, dir |-> x.dir, left |-> x.left, at |-> x.at,
             coverage |-> x.coverage, records |-> x.records, alone |-> x.alone]
    BY <2>1 DEF IsRegression
  <2>3. PICK y : y = [x EXCEPT !.alone = FALSE]
    OBVIOUS
  <2>4. y = [run |-> x.run, dir |-> x.dir, left |-> x.left, at |-> x.at,
             coverage |-> x.coverage, records |-> x.records, alone |-> FALSE]
    BY <2>2, <2>3
  <2>5. IsRegression(y)
    BY <2>1, <2>4 DEF IsRegression
  <2>6. regressing'[v] = IF v \in WriteToo(w, stage) THEN y ELSE x
    BY <1>1, <2>1, <2>3
  <2>7. y.run = x.run /\ y.dir = x.dir /\ y.records = x.records /\ y.coverage = x.coverage /\ y.at = x.at
    BY <2>4
  <2>8. CASE v \in WriteToo(w, stage)
    BY <2>1, <2>5, <2>6, <2>7, <2>8 DEF StillAt
  <2>9. CASE v \notin WriteToo(w, stage)
    BY <2>1, <2>6, <2>9 DEF StillAt
  <2> QED
    BY <2>8, <2>9
<1>7. \A v \in Workers : ~Regresses(v) => regressing'[v] = regressing[v]
  BY <1>1, <1>3
<1>8. \A v \in Workers : Regresses(v)' <=> Regresses(v)
  <2>1. \A v \in Workers : Regresses(v) => IsRegression(regressing'[v])
    BY <1>5, <1>6
  <2> QED
    BY <1>7, <2>1, NoRunIsNoRegression DEF Regresses
<1> QED
  BY <1>1, <1>4, <1>5, <1>6, <1>8

(* The archive of the run is opened, or the dashboard's file. *)
LEMMA OpensInv ==
  ASSUME RegressionInv, NEW w \in Workers, Regresses(w), NEW stage \in {"archiving", "publishing"},
         OpensFile(w, stage),
         IF stage = "archiving"
         THEN /\ archive' = [archive EXCEPT ![regressing[w].dir] = NoSummary] /\ UNCHANGED latest
              /\ regressing[w].at \notin Writing
         ELSE latest' = NoSummary /\ UNCHANGED archive /\ regressing[w].at = "archived",
         UNCHANGED <<stamp, runCount, suiteReport, runReport, outcome, clashed, whole>>
  PROVE  RegressionInv'
<1>1. /\ regressing' = [v \in Workers |-> regressing'[v]]
      /\ \A v \in Workers : Regresses(v)' <=> Regresses(v)
      /\ \A v \in Workers : Regresses(v) => StillAt(v) /\ IsRegression(regressing'[v])
      /\ regressing'[w].at = stage /\ regressing'[w].alone = (WriteToo(w, stage) = {})
      /\ \A v \in Workers \ {w} : Regresses(v) =>
           /\ regressing'[v].at = regressing[v].at
           /\ v \notin WriteToo(w, stage) => regressing'[v].alone = regressing[v].alone
  <2>1. stage \in Writing
    BY DEF Writing
  <2> QED
    BY <2>1, OpensFileFields
<1>2. /\ latest' \in {latest, NoSummary} /\ NoSummary.run = 0 /\ DOMAIN NoSummary.records = {}
      /\ NoSummary = Summary(NoSummary)
  BY DEF NoSummary, Summary
<1>3. RegressionTypes'
  <2>1. archive' = [s \in 1 .. MaxSecond |-> archive'[s]]
    BY DEF RegressionInv, RegressionTypes
  <2>2. ASSUME NEW v \in Workers, Regresses(v)'
        PROVE  IsRegression(regressing'[v]) /\ regressing'[v].run <= runCount'
    BY <1>1, <2>2 DEF StillAt, RegressionInv, RegressionTypes
  <2>3. latest' = Summary(latest') /\ latest'.run \in 0 .. runCount' /\ (latest'.run = 0 => latest' = NoSummary)
    BY <1>2 DEF RegressionInv, RegressionTypes
  <2> QED
    BY <1>1, <2>1, <2>2, <2>3 DEF RegressionInv, RegressionTypes, Summary
<1>4. Numbered'
  <2>1. ASSUME NEW v \in Workers, Regresses(v) PROVE regressing[v].run # 0
    BY <2>1 DEF RegressionInv, RegressionTypes, IsRegression
  <2> QED
    BY <1>1, <1>2, <2>1 DEF StillAt, RegressionInv, Numbered
<1>5. AllRecorded'
  BY <1>1, <1>2 DEF StillAt, RegressionInv, AllRecorded, Recorded
<1>6. ASSUME ~clashed PROVE DirectoriesAreOwn'
  <2>1. DirectoriesAreOwn
    BY <1>6 DEF RegressionInv
  <2>2. \A v \in Workers : Regresses(v) => InOwnDirectory(v) /\ regressing[v].dir \in 1 .. MaxSecond
    BY <2>1 DEF DirectoriesAreOwn, RegressionInv, RegressionTypes, IsRegression
  <2>3. archive' = archive
    <3>1. CASE stage = "archiving"
      <4>1. archive[regressing[w].dir] = NoSummary
        BY <2>2, <3>1 DEF InOwnDirectory, Archived, Writing
      <4> QED
        BY <3>1, <4>1 DEF RegressionInv, RegressionTypes
    <3> QED
      BY <3>1
  <2>4. ASSUME stage = "archiving" PROVE WriteToo(w, stage) = {}
    BY <2>2, <2>4 DEF WriteToo, InOwnDirectory, Regresses
  <2>5. InOwnDirectory(w)'
    <3>1. /\ \A v \in Workers \ {w} : Regresses(v)' => regressing'[v].dir # regressing'[w].dir
          /\ \A t \in Range(Suites) : runReport'[<<regressing'[w].dir, t>>] \in {0, regressing'[w].run}
          /\ Measured(regressing'[w].run, regressing'[w].records)
      BY <1>1, <2>2 DEF StillAt, InOwnDirectory, Measured
    <3>2. ~AtWork(regressing'[w].at)
      BY <1>1 DEF AtWork, Writing
    <3>3. regressing'[w].at = "archiving" => regressing'[w].alone
      BY <1>1, <2>4
    <3>4. Summary(regressing'[w]) = Summary(regressing[w])
      BY <1>1 DEF StillAt, Summary
    <3>5. archive'[regressing'[w].dir] = IF Archived(regressing'[w]) THEN Summary(regressing'[w]) ELSE NoSummary
      BY <1>1, <2>2, <2>3, <3>4 DEF StillAt, InOwnDirectory, Archived, Writing
    <3> QED
      BY <3>1, <3>2, <3>3, <3>5 DEF InOwnDirectory, Archived, Summary, Measured, AtWork
  <2>6. ASSUME NEW v \in Workers \ {w}, Regresses(v)' PROVE InOwnDirectory(v)'
    <3>1. /\ Regresses(v) /\ StillAt(v) /\ regressing'[v].at = regressing[v].at /\ InOwnDirectory(v)
          /\ v \notin WriteToo(w, stage) => regressing'[v].alone = regressing[v].alone
      BY <1>1, <2>2, <2>6
    <3>2. regressing'[v].at = "archiving" => regressing'[v].alone
      <4>1. SUFFICES ASSUME regressing[v].at = "archiving" PROVE v \notin WriteToo(w, stage)
        BY <3>1 DEF InOwnDirectory
      <4> QED
        BY <2>4, <4>1 DEF WriteToo
    <3>3. Summary(regressing'[v]) = Summary(regressing[v]) /\ Archived(regressing'[v]) = Archived(regressing[v])
      BY <3>1 DEF StillAt, Summary, Archived
    <3>4. archive'[regressing'[v].dir] = IF Archived(regressing'[v]) THEN Summary(regressing'[v]) ELSE NoSummary
      BY <2>3, <3>1, <3>3 DEF StillAt, InOwnDirectory
    <3>5. \A u \in Workers \ {v} : Regresses(u)' => regressing'[u].dir # regressing'[v].dir
      BY <1>1, <3>1 DEF StillAt, InOwnDirectory
    <3> QED
      BY <3>1, <3>2, <3>4, <3>5 DEF StillAt, InOwnDirectory, Archived, Summary, Measured
  <2> QED
    BY <1>2, <2>1, <2>3, <2>5, <2>6 DEF DirectoriesAreOwn, Measured
<1>7. WholeIsShown'
  <2>1. CASE stage = "archiving"
    <3>1. \A v \in Workers : Publishes(v) => Publishes(v)'
      BY <1>1, <2>1 DEF Publishes, Writing
    <3> QED
      BY <2>1, <3>1, ShownRests DEF RegressionInv
  <2>2. CASE stage = "publishing"
    BY <1>1, <2>2 DEF WholeIsShown, Publishes
  <2> QED
    BY <2>1, <2>2
<1> QED
  BY <1>3, <1>4, <1>5, <1>6, <1>7 DEF RegressionInv

(* A regression that is over, whatever it has left. *)
LEMMA RunIsOver ==
  ASSUME RegressionInv, NEW w \in Workers, Regresses(w),
         regressing' = [regressing EXCEPT ![w] = NoRun],
         latest' \in {latest, Summary(regressing[w]), NoSummary},
         latest' \in {latest, NoSummary} \/ Archived(regressing[w]),
         UNCHANGED <<stamp, runCount, suiteReport, runReport, archive, outcome, clashed>>,
         whole' \in BOOLEAN, WholeIsShown'
  PROVE  RegressionInv'
<1>1. Only(w, NoRun)
  BY DEF Only, RegressionInv, RegressionTypes
<1>2. \A v \in Workers : Regresses(v)' =>
        v # w /\ Regresses(v) /\ regressing'[v] = regressing[v]
  BY <1>1 DEF Only, Regresses
<1>3. IsRegression(regressing[w]) /\ regressing[w].run <= runCount
  BY DEF RegressionInv, RegressionTypes
<1>4. \/ latest' = latest
      \/ latest' = NoSummary
      \/ /\ latest' = Summary(regressing[w]) /\ latest'.run = regressing[w].run
         /\ latest'.records = regressing[w].records /\ latest' = Summary(latest')
         /\ latest'.run # 0 /\ latest'.run \in 0 .. runCount /\ Archived(regressing[w])
  BY <1>3 DEF Summary, IsRegression, RegressionInv, RegressionTypes
<1>5. /\ NoSummary.run = 0 /\ NoSummary = Summary(NoSummary) /\ DOMAIN NoSummary.records = {}
      /\ runCount \in Nat
  BY DEF NoSummary, Summary, RegressionInv, RegressionTypes
<1>6. RegressionTypes'
  <2>1. \A v \in Workers : Regresses(v)' => IsRegression(regressing'[v]) /\ regressing'[v].run <= runCount'
    BY <1>2 DEF RegressionInv, RegressionTypes
  <2>2. latest' = Summary(latest') /\ latest'.run \in 0 .. runCount' /\ (latest'.run = 0 => latest' = NoSummary)
    BY <1>4, <1>5 DEF RegressionInv, RegressionTypes
  <2> QED
    BY <1>1, <2>1, <2>2 DEF Only, RegressionInv, RegressionTypes, IsRegression, Summary
<1>7. Numbered'
  <2>1. \A v \in Workers : Regresses(v) => regressing[v].run # 0
    BY DEF RegressionInv, RegressionTypes, IsRegression
  <2> QED
    BY <1>2, <1>4, <1>5, <2>1 DEF RegressionInv, Numbered
<1>8. AllRecorded'
  BY <1>2, <1>4, <1>5 DEF RegressionInv, AllRecorded, Recorded
<1>9. ASSUME ~clashed PROVE DirectoriesAreOwn'
  <2>1. DirectoriesAreOwn /\ InOwnDirectory(w)
    BY <1>9 DEF RegressionInv, DirectoriesAreOwn
  <2>2. ASSUME NEW v \in Workers, Regresses(v)' PROVE InOwnDirectory(v)'
    BY <1>2, <2>1, <2>2 DEF DirectoriesAreOwn, InOwnDirectory, Measured, Summary, Archived
  <2>3. latest' = NoSummary \/ \E s \in 1 .. MaxSecond : archive'[s] = latest'
    BY <1>3, <1>4, <2>1 DEF DirectoriesAreOwn, InOwnDirectory, IsRegression
  <2>4. Measured(latest.run, latest.records)'
    BY <1>4, <1>5, <2>1 DEF DirectoriesAreOwn, InOwnDirectory, Measured
  <2> QED
    BY <2>2, <2>3, <2>4 DEF DirectoriesAreOwn
<1> QED
  BY <1>6, <1>7, <1>8, <1>9 DEF RegressionInv

LEMMA RegressionSteps == RegressionInv /\ [RegressionNext]_regressionVars => RegressionInv'
<1> SUFFICES ASSUME RegressionInv, [RegressionNext]_regressionVars PROVE RegressionInv'
  OBVIOUS
<1>1. ASSUME NEW w \in Workers, FillLatest(w) PROVE RegressionInv'
  <2>1. PICK x : x = regressing[w]
    OBVIOUS
  <2>2. /\ Regresses(w) /\ x.at = "publishing" /\ latest' \in Written(x) /\ whole' = x.alone
        /\ regressing' = [regressing EXCEPT ![w] = NoRun]
        /\ UNCHANGED <<stamp, runCount, suiteReport, runReport, archive, outcome, clashed>>
    BY <1>1, <2>1 DEF FillLatest, Regresses
  <2>3. IsRegression(x)
    BY <2>1, <2>2 DEF RegressionInv, RegressionTypes
  <2>4. latest' \in {Summary(x), NoSummary} /\ Archived(x) /\ whole' \in BOOLEAN
    BY <2>2, <2>3 DEF Written, Archived, IsRegression
  <2>5. Summary(x) # NoSummary
    BY <2>3 DEF Summary, NoSummary, IsRegression
  <2>6. WholeIsShown'
    BY <2>2, <2>5 DEF WholeIsShown, Written
  <2> QED
    BY <2>1, <2>2, <2>4, <2>6, RunIsOver
<1>2. ASSUME NEW w \in Workers, RegressionAborts(w) PROVE RegressionInv'
  <2>1. PICK x : x = regressing[w]
    OBVIOUS
  <2>2. /\ Regresses(w) /\ whole' = (whole /\ x.at # "publishing")
        /\ regressing' = [regressing EXCEPT ![w] = NoRun]
        /\ UNCHANGED <<stamp, runCount, suiteReport, runReport, archive, latest, outcome, clashed>>
    BY <1>2, <2>1 DEF RegressionAborts, Regresses
  <2>3. \A v \in Workers \ {w} : regressing'[v] = regressing[v]
    BY <2>2 DEF RegressionInv, RegressionTypes
  <2>4. WholeIsShown'
    BY <2>1, <2>2, <2>3 DEF WholeIsShown, Publishes, Regresses, RegressionInv
  <2> QED
    BY <2>2, <2>4, RunIsOver
<1>3. CASE NextSecond \/ UNCHANGED regressionVars
  <2>1. UNCHANGED <<runCount, suiteReport, runReport, archive, latest, regressing, outcome, clashed, whole>>
    BY <1>3 DEF NextSecond, regressionVars
  <2>2. stamp' \in 1 .. MaxSecond
    BY <1>3, RegressionBoundsAssumption DEF NextSecond, regressionVars, RegressionInv, RegressionTypes
  <2>3. RegressionTypes'
    BY <2>1, <2>2 DEF RegressionInv, RegressionTypes, Regresses, IsRegression, Summary
  <2>4. Numbered' /\ AllRecorded' /\ WholeIsShown'
    BY <2>1 DEF RegressionInv, Numbered, AllRecorded, Recorded, Regresses, WholeIsShown, Publishes
  <2>5. DirectoriesAreOwn => DirectoriesAreOwn'
    BY <2>1 DEF DirectoriesAreOwn, InOwnDirectory, Measured, Regresses, Summary, Archived
  <2> QED
    BY <2>1, <2>3, <2>4, <2>5 DEF RegressionInv
<1>4. ASSUME NEW w \in Workers, TruncateArchive(w) PROVE RegressionInv'
  <2>1. Regresses(w) /\ regressing[w].at \notin Writing
    BY <1>4 DEF TruncateArchive, Regresses, Writing
  <2>2. /\ OpensFile(w, "archiving")
        /\ archive' = [archive EXCEPT ![regressing[w].dir] = NoSummary]
        /\ UNCHANGED <<stamp, runCount, suiteReport, runReport, latest, outcome, clashed, whole>>
    BY <1>4 DEF TruncateArchive
  <2> QED
    BY <2>1, <2>2, OpensInv
<1>5. ASSUME NEW w \in Workers, TruncateLatest(w) PROVE RegressionInv'
  <2>1. /\ Regresses(w) /\ regressing[w].at = "archived" /\ OpensFile(w, "publishing") /\ latest' = NoSummary
        /\ UNCHANGED <<stamp, runCount, suiteReport, runReport, archive, outcome, clashed, whole>>
    BY <1>5 DEF TruncateLatest, Regresses
  <2> QED
    BY <2>1, OpensInv
<1> QED
  BY <1>1, <1>2, <1>3, <1>4, <1>5, StartInv, TryCoverageInv, RunTestsInv, FillArchiveInv DEF RegressionNext

LEMMA LatestFollows == RegressionInv => LatestIsHonest
<1> SUFFICES ASSUME RegressionInv PROVE LatestIsHonest
  OBVIOUS
<1>1. whole => latest # NoSummary \/ Publishing
  BY DEF RegressionInv, WholeIsShown, Publishes, Regresses, Publishing
<1> QED
  BY <1>1 DEF RegressionInv, RegressionTypes, AllRecorded, Recorded, DirectoriesAreOwn, Measured, LatestIsHonest

(* main of the regression, any number of them at once, of any targets, killed anywhere or
   writing one file together: what the dashboard shows, if anything, is what the tests of
   one regression returned; as long as no two regressions shared a directory it is the one
   of its archive and its python coverage is its own; and there is something to show once
   a regression wrote the file alone and to its end. *)
THEOREM LatestIsTrue == Spec => []LatestIsHonest
<1>1. Init => RegressionInv
  BY RegressionStart DEF Init
<1>2. [Next]_vars => [RegressionNext]_regressionVars
  BY DEF Next, vars, Rests, Parts
<1>3. RegressionInv /\ [Next]_vars => RegressionInv'
  BY <1>2, RegressionSteps
<1>4. RegressionInv => LatestIsHonest
  BY LatestFollows
<1> QED
  BY <1>1, <1>3, <1>4, PTL DEF Spec

-----------------------------------------------------------------------------
(* From the audits to the dashboard. *)

Boards == [Payloads -> [Audited -> Nat]]

Sends(x) == x.step \in {"write", "fill"} /\ Stages[x.at] # "backlog"

IsRefresh(x) ==
  /\ x = [step |-> x.step, at |-> x.at, found |-> x.found, buffer |-> x.buffer, alone |-> x.alone,
          due |-> x.due]
  /\ x.at \in 1 .. Len(Stages) + 1 /\ x.found \in [Entries -> Nat] /\ x.due \in Boards
  /\ x.step \in {"write", "fill"} => x.at <= Len(Stages)
  /\ Sends(x) => x.buffer \in [Audited -> Nat]

PipelineTypes ==
  /\ results = [f \in Audited \X Range(Depts) |-> results[f]]
  /\ scans \in Nat /\ \A f \in Audited \X Range(Depts) :
       results[f].scan \in 0 .. scans /\ results[f].found \in [Findings -> Nat]
  /\ board \in Boards /\ owed \in Boards /\ merged \in [Entries -> Nat] /\ crossed \in Nat
  /\ command = [c \in Commands |-> command[c]]
  /\ \A c \in Commands : Refreshing(c) => IsRefresh(command[c])

(* What is owed has been scanned. *)
HasBeenScanned(due) == \A s \in Payloads, r \in Audited : due[s][r] <= NewestScan(r, s)

AllScanned ==
  HasBeenScanned(owed) /\ \A c \in Commands : Refreshing(c) => HasBeenScanned(command[c].due)

OneRefresh == \A c, d \in Commands : Refreshing(c) /\ Refreshing(d) => c = d

Fills(x, s) == x.step = "fill" /\ Stages[x.at] = s

(* The stages that a refresh is through with show what it owes, unless it has one of them
   open again. *)
ShowsDue(x) ==
  /\ \A s \in Payloads, r \in Audited : x.due[s][r] >= owed[s][r]
  /\ \A i \in 1 .. x.at - 1 : Stages[i] # "backlog" /\ ~Fills(x, Stages[i]) =>
       \A r \in Audited : board[Stages[i]][r] >= x.due[Stages[i]][r]
  /\ Sends(x) => \A r \in Audited : x.buffer[r] >= x.due[Stages[x.at]][r]
  /\ x.step = "fill" => x.alone

(* A payload shows what is owed, or is open, or a command died as it wrote it. *)
Shown(s) == Filling(s) \/ \A r \in Audited : board[s][r] >= owed[s][r]

Merging(x) == x.step \in {"write", "fill"} /\ Stages[x.at] = "backlog"

History == [e \in {x \in Entries : merged[x] > 0} |-> merged[e]]

HistoryIsKept ==
  /\ backlog = IF Filling("backlog") THEN EmptyBacklog ELSE History
  /\ \A c \in Commands : Merging(command[c]) => command[c].buffer = Upsert(History, command[c].found)

Undisturbed ==
  /\ OneRefresh
  /\ \A c \in Commands : Refreshing(c) => ShowsDue(command[c])
  /\ \A s \in Payloads \ cut : Shown(s)
  /\ HistoryIsKept

PipelineInv == PipelineTypes /\ AllScanned /\ (crossed = 0 => Undisturbed)

-----------------------------------------------------------------------------
LEMMA TwoMore ==
  ASSUME NEW S, NEW T \in Seq(S), NEW x, NEW y
  PROVE  T \o <<x, y>> \in Seq(S \cup {x, y})
<1>1. <<x, y>> \in Seq(S \cup {x, y}) /\ T \in Seq(S \cup {x, y})
  OBVIOUS
<1> QED
  BY <1>1

LEMMA StagesOfRefresh ==
  /\ Len(Stages) \in Nat /\ DOMAIN Stages = 1 .. Len(Stages)
  /\ \A i \in 1 .. Len(Stages) : Stages[i] # "backlog" => Stages[i] \in Payloads
  /\ \A s \in Payloads : s # "backlog" /\ \E i \in 1 .. Len(Stages) : Stages[i] = s
<1>1. PICK S : Stages \in Seq(S)
  BY TwoMore, DeptsAssumption DEF Stages
<1> QED
  BY <1>1 DEF Payloads, Range

LEMMA SourcesAreDepts ==
  ASSUME NEW s PROVE SourceOf(s) # {} /\ SourceOf(s) \subseteq Range(Depts)
BY DeptsAssumption DEF SourceOf, Range

(* The largest of a bounded set of numbers. *)
LEMMA LargestNumber ==
  ASSUME NEW read \in SUBSET Nat, read # {}, NEW k \in Nat, \A n \in read : n <= k
  PROVE  \E max \in read : \A t \in read : t <= max
<1>1. PICK T : T = {n \in Nat : \A m \in read : m <= n}
  OBVIOUS
<1>2. T \subseteq Nat /\ T # {}
  BY <1>1
<1>3. PICK n \in T : \A m \in T : n <= m
  BY <1>2, LeastNumber
<1>4. n \in Nat /\ \A m \in read : m <= n
  BY <1>1, <1>3
<1>5. n \in read
  <2>1. CASE n = 0
    <3>1. \A m \in read : m = 0
      BY <1>4, <2>1
    <3> QED
      BY <2>1, <3>1
  <2>2. CASE n # 0 /\ n \notin read
    <3>1. n - 1 \in Nat /\ \A m \in read : m <= n - 1
      BY <1>4, <2>2
    <3>2. n - 1 \in T
      BY <1>1, <3>1
    <3> QED
      BY <1>3, <1>4, <3>1, <3>2
  <2> QED
    BY <2>1, <2>2
<1> QED
  BY <1>4, <1>5

LEMMA LargestOfRange ==
  ASSUME NEW read, NEW k \in Nat, read # {}, \A n \in read : n \in 0 .. k
  PROVE  read \subseteq Nat /\ \E max \in read : \A t \in read : t <= max
<1>1. read \in SUBSET Nat /\ \A n \in read : n <= k
  OBVIOUS
<1> QED
  BY <1>1, LargestNumber

LEMMA NewestIsNewest ==
  ASSUME PipelineTypes, NEW r \in Audited, NEW s
  PROVE  NewestScan(r, s) \in Nat
<1>1. scans \in Nat /\ \A f \in Audited \X Range(Depts) : results[f].scan \in 0 .. scans
  BY DEF PipelineTypes
<1>2. PICK read : read = {results[<<r, d>>].scan : d \in SourceOf(s)}
  OBVIOUS
<1>3. read \subseteq Nat /\ \E max \in read : \A t \in read : t <= max
  <2>1. read # {} /\ \A n \in read : n \in 0 .. scans
    BY <1>1, <1>2, SourcesAreDepts
  <2> QED
    BY <1>1, <2>1, LargestOfRange
<1>4. NewestScan(r, s) \in read
  BY <1>2, <1>3, Zenon DEF NewestScan
<1> QED
  BY <1>3, <1>4

(* Scanning makes nothing older. *)
LEMMA NewestGrows ==
  ASSUME PipelineTypes, PipelineTypes',
         \A f \in Audited \X Range(Depts) : results[f].scan <= results'[f].scan,
         NEW r \in Audited, NEW s
  PROVE  NewestScan(r, s) <= NewestScan(r, s)' /\ NewestScan(r, s)' \in Nat
<1>1. /\ scans \in Nat /\ \A f \in Audited \X Range(Depts) : results[f].scan \in 0 .. scans
      /\ scans' \in Nat /\ \A f \in Audited \X Range(Depts) : results'[f].scan \in 0 .. scans'
  BY DEF PipelineTypes
<1>2. PICK d \in SourceOf(s) : d \in Range(Depts) /\ NewestScan(r, s) = results[<<r, d>>].scan
  <2>1. PICK read : read = {results[<<r, d>>].scan : d \in SourceOf(s)}
    OBVIOUS
  <2>2. \E max \in read : \A t \in read : t <= max
    <3>1. read # {} /\ \A n \in read : n \in 0 .. scans
      BY <1>1, <2>1, SourcesAreDepts
    <3> QED
      BY <1>1, <3>1, LargestOfRange
  <2>3. NewestScan(r, s) \in read
    BY <2>1, <2>2, Zenon DEF NewestScan
  <2> QED
    BY <2>1, <2>3, SourcesAreDepts
<1>3. NewestScan(r, s)' \in Nat /\ results'[<<r, d>>].scan <= NewestScan(r, s)'
  <2>1. PICK read : read = {results'[<<r, x>>].scan : x \in SourceOf(s)}
    OBVIOUS
  <2>2. read \subseteq Nat /\ \E max \in read : \A t \in read : t <= max
    <3>1. read # {} /\ \A n \in read : n \in 0 .. scans'
      BY <1>1, <2>1, SourcesAreDepts
    <3> QED
      BY <1>1, <3>1, LargestOfRange
  <2>3. NewestScan(r, s)' \in read /\ \A t \in read : t <= NewestScan(r, s)'
    BY <2>1, <2>2, Zenon DEF NewestScan
  <2> QED
    BY <1>2, <2>1, <2>2, <2>3
<1>4. results[<<r, d>>].scan \in Nat /\ results'[<<r, d>>].scan \in Nat
      /\ results[<<r, d>>].scan <= results'[<<r, d>>].scan
  BY <1>1, <1>2
<1> QED
  BY <1>2, <1>3, <1>4

LEMMA NothingMerged ==
  ASSUME merged = [e \in Entries |-> 0] PROVE History = EmptyBacklog
<1>1. {x \in Entries : merged[x] > 0} = {}
  OBVIOUS
<1> QED
  BY <1>1 DEF History, EmptyBacklog

LEMMA PipelineStart == PipelineInit => PipelineInv
<1> SUFFICES ASSUME PipelineInit PROVE PipelineInv
  OBVIOUS
<1>1. /\ results = [f \in Audited \X Range(Depts) |-> NoFile] /\ NoFile.scan = 0
      /\ NoFile.found \in [Findings -> Nat]
      /\ board = [s \in Payloads |-> EmptyBoard] /\ owed = board
      /\ command = [c \in Commands |-> NotRunning] /\ NotRunning.step = "none"
      /\ scans = 0 /\ merged = [e \in Entries |-> 0] /\ crossed = 0
      /\ backlog = EmptyBacklog
  BY DEF PipelineInit, NoFile, NotRunning
<1>2. \A c \in Commands : command[c].step = "none" /\ ~Refreshing(c)
  BY <1>1 DEF Refreshing
<1>3. PipelineTypes
  <2>1. /\ scans \in Nat
        /\ \A f \in Audited \X Range(Depts) :
             results[f].scan \in 0 .. scans /\ results[f].found \in [Findings -> Nat]
    BY <1>1
  <2>2. board \in Boards /\ owed \in Boards /\ merged \in [Entries -> Nat] /\ crossed \in Nat
    BY <1>1 DEF Boards, EmptyBoard
  <2> QED
    BY <1>1, <1>2, <2>1, <2>2 DEF PipelineTypes
<1>4. \A s \in Payloads, r \in Audited : owed[s][r] = 0 /\ board[s][r] = 0
  BY <1>1 DEF EmptyBoard
<1>5. AllScanned
  BY <1>2, <1>3, <1>4, NewestIsNewest DEF AllScanned, HasBeenScanned
<1>6. backlog = History /\ ~Filling("backlog")
  BY <1>1, <1>2, NothingMerged DEF Filling
<1>7. HistoryIsKept
  BY <1>2, <1>6 DEF HistoryIsKept, Merging
<1> QED
  BY <1>2, <1>3, <1>4, <1>5, <1>7 DEF PipelineInv, Undisturbed, OneRefresh, Shown

(* Who is not in a refresh has no file open. *)
LEMMA FillingIsRefreshing ==
  \A c \in Commands : (command[c].step = "fill" \/ Merging(command[c])) => Refreshing(c)
BY DEF Merging, Refreshing

LEMMA HistoryRests ==
  ASSUME UNCHANGED merged
  PROVE  History' = History /\ \A F : Upsert(History, F)' = Upsert(History, F)
BY DEF History, Upsert

(* Steps before a refresh. *)
LEMMA BeforeRefresh ==
  ASSUME PipelineInv, UNCHANGED <<board, backlog, owed, cut, merged, crossed>>,
         UNCHANGED <<results, scans>> \/ \E f : Scans(f),
         command' = [c \in Commands |-> command'[c]],
         \A c \in Commands : command'[c] = command[c] \/ (~Refreshing(c) /\ ~Refreshing(c)')
  PROVE  PipelineInv'
<1>1. PipelineTypes
  BY DEF PipelineInv
<1>2. /\ results' = [f \in Audited \X Range(Depts) |-> results'[f]]
      /\ scans' \in Nat /\ \A f \in Audited \X Range(Depts) :
           /\ results'[f].scan \in 0 .. scans' /\ results[f].scan <= results'[f].scan
           /\ results'[f].found \in [Findings -> Nat]
  <2>1. CASE UNCHANGED <<results, scans>>
    BY <1>1, <2>1 DEF PipelineTypes
  <2>2. CASE \E f : Scans(f)
    <3>1. PICK f : Scans(f)
      BY <2>2
    <3>2. PICK found \in Listings : results' = [results EXCEPT ![f] = [scan |-> scans + 1, found |-> found]]
      BY <3>1 DEF Scans
    <3>3. PICK file : file = [scan |-> scans + 1, found |-> found]
      OBVIOUS
    <3>4. /\ results' = [results EXCEPT ![f] = file] /\ file.scan = scans + 1
          /\ file.found \in [Findings -> Nat]
      BY <3>2, <3>3, ListingsAssumption
    <3>5. scans' = scans + 1
      BY <3>1 DEF Scans
    <3>6. \A g \in Audited \X Range(Depts) : results'[g] = IF g = f THEN file ELSE results[g]
      BY <1>1, <3>4 DEF PipelineTypes
    <3>7. results' = [g \in Audited \X Range(Depts) |-> results'[g]]
      BY <1>1, <3>4 DEF PipelineTypes
    <3>8. scans \in Nat /\ \A g \in Audited \X Range(Depts) :
            results[g].scan \in 0 .. scans /\ results[g].found \in [Findings -> Nat]
      BY <1>1 DEF PipelineTypes
    <3>9. ASSUME NEW g \in Audited \X Range(Depts)
          PROVE  /\ results'[g].scan \in 0 .. scans' /\ results[g].scan <= results'[g].scan
                 /\ results'[g].found \in [Findings -> Nat]
      <4>1. CASE g = f
        BY <3>4, <3>5, <3>6, <3>8, <4>1
      <4>2. CASE g # f
        BY <3>5, <3>6, <3>8, <4>2
      <4> QED
        BY <4>1, <4>2
    <3> QED
      BY <3>5, <3>7, <3>8, <3>9
  <2> QED
    BY <2>1, <2>2
<1>3. ASSUME NEW c \in Commands, Refreshing(c)' PROVE command'[c] = command[c] /\ Refreshing(c)
  BY <1>3 DEF Refreshing
<1>4. PipelineTypes'
  BY <1>1, <1>2, <1>3 DEF PipelineTypes, IsRefresh, Sends
<1>5. ASSUME NEW due \in Boards, HasBeenScanned(due) PROVE HasBeenScanned(due)'
  <2>1. ASSUME NEW s \in Payloads, NEW r \in Audited PROVE due[s][r] <= NewestScan(r, s)'
    <3>1. due[s][r] \in Nat /\ due[s][r] <= NewestScan(r, s)
      BY <1>5 DEF Boards, HasBeenScanned
    <3>2. NewestScan(r, s) \in Nat
      BY <1>1, NewestIsNewest
    <3>3. NewestScan(r, s) <= NewestScan(r, s)' /\ NewestScan(r, s)' \in Nat
      BY <1>1, <1>2, <1>4, NewestGrows
    <3> QED
      BY <3>1, <3>2, <3>3
  <2> QED
    BY <2>1 DEF HasBeenScanned
<1>6. AllScanned'
  BY <1>1, <1>3, <1>5 DEF AllScanned, PipelineInv, PipelineTypes, IsRefresh
<1>7. ASSUME crossed = 0 PROVE Undisturbed'
  <2>1. Undisturbed
    BY <1>7 DEF PipelineInv
  <2>2. OneRefresh'
    BY <1>3, <2>1 DEF Undisturbed, OneRefresh
  <2>3. \A c \in Commands : Refreshing(c)' => ShowsDue(command[c])'
    BY <1>3, <2>1 DEF Undisturbed, ShowsDue, Fills, Sends
  <2>4. \A s : Filling(s)' <=> Filling(s)
    BY FillingIsRefreshing DEF Filling, Refreshing
  <2>5. \A s \in Payloads \ cut : Shown(s)'
    BY <2>1, <2>4 DEF Undisturbed, Shown
  <2>6. \A c \in Commands : Merging(command[c])' => Merging(command[c]) /\ command'[c] = command[c]
    BY <1>3 DEF Merging, Refreshing
  <2>7. HistoryIsKept'
    <3>1. History' = History /\ \A F : Upsert(History, F)' = Upsert(History, F)
      BY HistoryRests
    <3>2. \A c \in Commands : Merging(command[c])' =>
            command'[c].buffer = Upsert(History, command[c].found)'
      BY <2>1, <2>6, <3>1 DEF Undisturbed, HistoryIsKept, Upsert
    <3> QED
      BY <2>1, <2>4, <3>1, <3>2 DEF Undisturbed, HistoryIsKept, EmptyBacklog
  <2> QED
    BY <2>2, <2>3, <2>5, <2>7 DEF Undisturbed
<1> QED
  BY <1>4, <1>6, <1>7 DEF PipelineInv

LEMMA ScannedRests ==
  ASSUME NEW due, HasBeenScanned(due), UNCHANGED results PROVE HasBeenScanned(due)'
<1>1. \A r, s : NewestScan(r, s)' = NewestScan(r, s)
  BY DEF NewestScan
<1> QED
  BY <1>1 DEF HasBeenScanned

LEMMA RefreshBegins ==
  ASSUME PipelineInv, NEW c \in Commands, ~Refreshing(c), BeginsRefresh(c),
         UNCHANGED <<results, board, backlog, scans, owed, cut, merged>>
  PROVE  PipelineInv'
<1>1. PipelineTypes /\ AllScanned /\ command' = [command EXCEPT ![c] = RefreshStep]
  BY DEF PipelineInv, BeginsRefresh
<1>2. PICK due : due = [s \in Payloads |-> [r \in Audited |-> NewestScan(r, s)]]
  OBVIOUS
<1>3. due \in Boards /\ \A s \in Payloads, r \in Audited : due[s][r] = NewestScan(r, s)
  BY <1>1, <1>2, NewestIsNewest DEF Boards
<1>4. PICK x : x = [step |-> "read", at |-> 1, found |-> [e \in Entries |-> 0], buffer |-> <<>>,
                    alone |-> TRUE, due |-> due]
  OBVIOUS
<1>5. /\ command'[c] = x /\ command' = [d \in Commands |-> command'[d]]
      /\ \A d \in Commands \ {c} : command'[d] = command[d]
  BY <1>1, <1>2, <1>4 DEF PipelineTypes, RefreshStep
<1>6. /\ x.step = "read" /\ x.at = 1 /\ x.due = due /\ x.found \in [Entries -> Nat]
      /\ x = [step |-> x.step, at |-> x.at, found |-> x.found, buffer |-> x.buffer, alone |-> x.alone,
              due |-> x.due]
  BY <1>4
<1>7. IsRefresh(x)
  BY <1>3, <1>6, StagesOfRefresh DEF IsRefresh, Sends
<1>8. PipelineTypes'
  <2>1. crossed' \in Nat
    BY <1>1 DEF BeginsRefresh, PipelineTypes
  <2>2. \A d \in Commands : Refreshing(d)' => IsRefresh(command'[d])
    BY <1>1, <1>5, <1>7 DEF PipelineTypes, Refreshing
  <2> QED
    BY <1>1, <1>5, <2>1, <2>2 DEF PipelineTypes, IsRefresh, Sends
<1>9. AllScanned'
  <2>1. HasBeenScanned(due)
    BY <1>1, <1>3, NewestIsNewest DEF HasBeenScanned
  <2>2. \A d \in Commands : Refreshing(d)' => HasBeenScanned(command'[d].due)
    BY <1>1, <1>5, <1>6, <2>1 DEF AllScanned, Refreshing
  <2> QED
    BY <1>1, <2>2, ScannedRests DEF AllScanned
<1>10. ASSUME crossed' = 0 PROVE Undisturbed'
  <2>1. crossed = 0 /\ \A d \in Commands : ~Refreshing(d)
    BY <1>1, <1>10 DEF BeginsRefresh, PipelineTypes
  <2>2. Undisturbed
    BY <2>1 DEF PipelineInv
  <2>3. \A d \in Commands : Refreshing(d)' => d = c
    BY <1>5, <2>1 DEF Refreshing
  <2>4. ShowsDue(x)'
    <3>1. \A s \in Payloads, r \in Audited : x.due[s][r] >= owed[s][r]
      BY <1>1, <1>3, <1>6, NewestIsNewest DEF AllScanned, HasBeenScanned, PipelineTypes, Boards
    <3> QED
      BY <1>6, <3>1 DEF ShowsDue, Sends
  <2>5. \A d \in Commands : ~Merging(command[d])' /\ command[d].step # "fill" /\ command'[d].step # "fill"
    BY <1>5, <1>6, <2>1 DEF Merging, Refreshing
  <2>6. \A s : ~Filling(s) /\ ~Filling(s)'
    BY <2>5 DEF Filling
  <2>7. HistoryIsKept'
    <3>1. backlog = History /\ History' = History
      BY <2>2, <2>6, HistoryRests DEF Undisturbed, HistoryIsKept
    <3> QED
      BY <2>5, <2>6, <3>1 DEF HistoryIsKept
  <2>8. \A s \in Payloads \ cut : Shown(s)'
    BY <2>2, <2>6 DEF Undisturbed, Shown
  <2> QED
    BY <1>5, <2>3, <2>4, <2>7, <2>8 DEF Undisturbed, OneRefresh
<1> QED
  BY <1>8, <1>9, <1>10 DEF PipelineInv

(* The other commands, when one goes on: of one that has the same file open it is noted
   that it does not write it alone. *)
Bystands(d) ==
  \/ command'[d] = command[d]
  \/ crossed # 0 /\ Refreshing(d) /\ IsRefresh(command'[d]) /\ command'[d].due = command[d].due

(* What a refresh that goes on leaves, when it is the only one. *)
GoesOnWell(x) ==
  /\ ShowsDue(x)'
  /\ \A s \in Payloads \ cut' : Fills(x, s) \/ \A r \in Audited : board'[s][r] >= owed[s][r]
  /\ backlog' = IF Fills(x, "backlog") THEN EmptyBacklog ELSE History'
  /\ Merging(x) => x.buffer = Upsert(History, x.found)'

LEMMA RefreshGoesOn ==
  ASSUME PipelineInv, NEW c \in Commands, Refreshing(c), NEW x, command'[c] = x,
         command' = [d \in Commands |-> command'[d]], \A d \in Commands \ {c} : Bystands(d),
         IsRefresh(x), x.step \in {"read", "write", "fill"}, x.due = command[c].due,
         UNCHANGED <<results, scans, owed, crossed>>, board' \in Boards, merged' \in [Entries -> Nat],
         crossed = 0 => GoesOnWell(x)
  PROVE  PipelineInv'
<1>1. PipelineTypes /\ AllScanned
  BY DEF PipelineInv
<1>2. ASSUME NEW d \in Commands, Refreshing(d)'
      PROVE  Refreshing(d) /\ IsRefresh(command'[d]) /\ command'[d].due = command[d].due
  BY <1>1, <1>2 DEF Bystands, Refreshing, PipelineTypes
<1>3. PipelineTypes'
  BY <1>1, <1>2 DEF PipelineTypes, IsRefresh, Sends
<1>4. AllScanned'
  <2>1. \A d \in Commands : Refreshing(d)' => HasBeenScanned(command'[d].due)
    BY <1>1, <1>2 DEF AllScanned
  <2> QED
    BY <1>1, <2>1, ScannedRests DEF AllScanned
<1>5. ASSUME crossed = 0 PROVE Undisturbed'
  <2>1. Undisturbed /\ GoesOnWell(x)
    BY <1>5 DEF PipelineInv
  <2>2. \A d \in Commands : Refreshing(d)' => d = c
    BY <1>2, <2>1 DEF Undisturbed, OneRefresh
  <2>3. \A d \in Commands : (command'[d].step = "fill" \/ Merging(command'[d])) => d = c
    BY <2>2 DEF Merging, Refreshing
  <2>4. \A s : Filling(s)' <=> Fills(x, s)
    BY <2>3 DEF Filling, Fills
  <2>5. \A d \in Commands : Refreshing(d)' => ShowsDue(command[d])'
    BY <2>1, <2>2 DEF GoesOnWell
  <2>6. HistoryIsKept'
    BY <2>1, <2>3, <2>4 DEF GoesOnWell, HistoryIsKept, EmptyBacklog
  <2>7. \A s \in Payloads \ cut' : Shown(s)'
    BY <2>1, <2>4 DEF GoesOnWell, Shown
  <2> QED
    BY <2>2, <2>5, <2>6, <2>7 DEF Undisturbed, OneRefresh
<1> QED
  BY <1>3, <1>4, <1>5 DEF PipelineInv

(* Only this command goes on. *)
LEMMA OthersStay ==
  ASSUME PipelineInv, NEW c \in Commands, NEW x, command' = [command EXCEPT ![c] = x]
  PROVE  /\ command'[c] = x /\ command' = [d \in Commands |-> command'[d]]
         /\ \A d \in Commands \ {c} : command'[d] = command[d] /\ Bystands(d)
BY DEF PipelineInv, PipelineTypes, Bystands

(* The file that a command has open, if any. *)
OpenFile(x) == IF x.step = "fill" THEN {Stages[x.at]} ELSE {}

LEMMA CommandEnds ==
  ASSUME PipelineInv, NEW c \in Commands, command' = [command EXCEPT ![c] = NotRunning],
         UNCHANGED <<results, board, backlog, scans, crossed>>,
         owed' = owed \/ (Refreshing(c) /\ command[c].step = "read" /\ command[c].at > Len(Stages)
                          /\ owed' = command[c].due),
         cut' = cut \cup (OpenFile(command[c]) \ {"backlog"}),
         merged' = IF "backlog" \in OpenFile(command[c]) THEN [e \in Entries |-> 0] ELSE merged
  PROVE  PipelineInv'
<1>1. PipelineTypes /\ AllScanned
  BY DEF PipelineInv
<1>2. /\ command'[c].step = "none" /\ command' = [d \in Commands |-> command'[d]]
      /\ \A d \in Commands \ {c} : command'[d] = command[d]
  BY <1>1 DEF PipelineTypes, NotRunning
<1>3. \A d \in Commands : Refreshing(d)' => d # c /\ Refreshing(d) /\ command'[d] = command[d]
  BY <1>2 DEF Refreshing
<1>4. owed' \in Boards /\ HasBeenScanned(owed')
  BY <1>1 DEF PipelineTypes, AllScanned, IsRefresh
<1>5. PipelineTypes'
  <2>1. merged' \in [Entries -> Nat]
    BY <1>1 DEF PipelineTypes
  <2> QED
    BY <1>1, <1>2, <1>3, <1>4, <2>1 DEF PipelineTypes, IsRefresh, Sends
<1>6. AllScanned'
  <2>1. \A d \in Commands : Refreshing(d)' => HasBeenScanned(command'[d].due)
    BY <1>1, <1>3 DEF AllScanned
  <2> QED
    BY <1>4, <2>1, ScannedRests DEF AllScanned
<1>7. ASSUME crossed = 0 PROVE Undisturbed'
  <2>1. Undisturbed
    BY <1>7 DEF PipelineInv
  <2>2. OneRefresh'
    BY <1>3, <2>1 DEF Undisturbed, OneRefresh
  <2>3. ASSUME NEW d \in Commands, Refreshing(d)' PROVE ShowsDue(command[d])'
    <3>1. ~Refreshing(c)
      BY <1>3, <2>1, <2>3 DEF Undisturbed, OneRefresh
    <3> QED
      BY <1>3, <2>1, <2>3, <3>1 DEF Undisturbed, ShowsDue, Sends, Fills
  <2>4. \A s : Filling(s) => Filling(s)' \/ s \in OpenFile(command[c])
    BY <1>2 DEF Filling, OpenFile
  <2>5. \A s : Filling(s)' => Filling(s)
    BY <1>2 DEF Filling
  <2>6. \A s \in Payloads \ cut' : Shown(s)'
    <3>1. CASE owed' = owed
      <4>1. ASSUME NEW s \in Payloads \ cut' PROVE s \notin OpenFile(command[c]) /\ s \in Payloads \ cut
        BY StagesOfRefresh
      <4> QED
        BY <2>1, <2>4, <3>1, <4>1 DEF Undisturbed, Shown
    <3>2. CASE Refreshing(c) /\ command[c].at > Len(Stages) /\ owed' = command[c].due /\ command[c].step = "read"
      <4>1. ShowsDue(command[c]) /\ IsRefresh(command[c])
        BY <1>1, <2>1, <3>2 DEF Undisturbed, PipelineTypes
      <4>2. 1 .. Len(Stages) \subseteq 1 .. command[c].at - 1
        BY <3>2, <4>1, StagesOfRefresh DEF IsRefresh
      <4>3. \A i \in 1 .. Len(Stages) : Stages[i] # "backlog" =>
              \A r \in Audited : board[Stages[i]][r] >= command[c].due[Stages[i]][r]
        BY <3>2, <4>1, <4>2 DEF ShowsDue, Fills
      <4>4. \A s \in Payloads, r \in Audited : board[s][r] >= command[c].due[s][r]
        BY <4>3, StagesOfRefresh
      <4> QED
        BY <3>2, <4>4 DEF Shown
    <3> QED
      BY <3>1, <3>2
  <2>7. \A d \in Commands : Merging(command[d])' =>
          d # c /\ Refreshing(d) /\ Merging(command[d]) /\ command'[d] = command[d]
    BY <1>3 DEF Merging, Refreshing
  <2>8. HistoryIsKept'
    <3>1. CASE "backlog" \in OpenFile(command[c])
      <4>1. command[c].step = "fill" /\ Filling("backlog")
        BY <3>1 DEF OpenFile, Filling
      <4>2. Refreshing(c) /\ backlog = EmptyBacklog
        BY <2>1, <4>1 DEF Refreshing, Undisturbed, HistoryIsKept
      <4>3. \A d \in Commands : ~Refreshing(d)'
        BY <1>3, <2>1, <4>2 DEF Undisturbed, OneRefresh
      <4>4. merged' = [e \in Entries |-> 0]
        BY <3>1
      <4>5. History' = EmptyBacklog
        <5>1. {x \in Entries : merged'[x] > 0} = {}
          BY <4>4
        <5> QED
          BY <5>1 DEF History, EmptyBacklog
      <4>6. \A d \in Commands : ~Merging(command[d])'
        BY <4>3 DEF Merging, Refreshing
      <4> QED
        BY <4>2, <4>5, <4>6 DEF HistoryIsKept, EmptyBacklog
    <3>2. CASE "backlog" \notin OpenFile(command[c])
      <4>1. UNCHANGED merged
        BY <3>2
      <4>2. History' = History /\ \A F : Upsert(History, F)' = Upsert(History, F)
        BY <4>1, HistoryRests
      <4>3. Filling("backlog")' <=> Filling("backlog")
        BY <2>4, <2>5, <3>2
      <4>4. \A d \in Commands : Merging(command[d])' =>
              command'[d].buffer = Upsert(History, command[d].found)'
        BY <2>1, <2>7, <4>2 DEF Undisturbed, HistoryIsKept, Upsert
      <4> QED
        BY <2>1, <4>2, <4>3, <4>4 DEF Undisturbed, HistoryIsKept, EmptyBacklog
    <3> QED
      BY <3>1, <3>2
  <2> QED
    BY <2>2, <2>3, <2>6, <2>8 DEF Undisturbed
<1> QED
  BY <1>5, <1>6, <1>7 DEF PipelineInv

-----------------------------------------------------------------------------
(* The steps of a refresh. *)
LEMMA RefreshAt ==
  ASSUME PipelineInv, NEW c \in Commands, Refreshing(c)
  PROVE  LET run == command[c] IN
         /\ IsRefresh(run) /\ run.at \in Nat /\ run.at >= 1 /\ run.due \in Boards /\ Len(Stages) \in Nat
         /\ board \in Boards /\ owed \in Boards /\ merged \in [Entries -> Nat]
         /\ run.at <= Len(Stages) /\ Stages[run.at] # "backlog" => Stages[run.at] \in Payloads
<1>1. IsRefresh(command[c])
  BY DEF PipelineInv, PipelineTypes
<1>2. /\ command[c].at \in Nat /\ command[c].at >= 1 /\ command[c].due \in Boards /\ Len(Stages) \in Nat
  BY <1>1, StagesOfRefresh DEF IsRefresh
<1> QED
  BY <1>1, <1>2, StagesOfRefresh DEF PipelineInv, PipelineTypes

LEMMA RefreshAlone ==
  ASSUME PipelineInv, NEW c \in Commands, Refreshing(c), crossed = 0
  PROVE  LET run == command[c] IN
         /\ ShowsDue(run)
         /\ \A s \in Payloads \ cut : Fills(run, s) \/ \A r \in Audited : board[s][r] >= owed[s][r]
         /\ backlog = IF Fills(run, "backlog") THEN EmptyBacklog ELSE History
         /\ Merging(run) => run.buffer = Upsert(History, run.found)
         /\ \A d \in Commands : Refreshing(d) => d = c
<1>1. Undisturbed
  BY DEF PipelineInv
<1>2. \A d \in Commands : Refreshing(d) => d = c
  BY <1>1 DEF Undisturbed, OneRefresh
<1>3. \A d \in Commands : command[d].step = "fill" => d = c
  BY <1>2 DEF Refreshing
<1>4. \A s : Filling(s) <=> Fills(command[c], s)
  BY <1>3 DEF Filling, Fills
<1> QED
  BY <1>1, <1>2, <1>4 DEF Undisturbed, Shown, HistoryIsKept

(* A refresh whose step, stage, buffer, findings or company have changed. *)
RefreshIn(run, step, at, found, buffer, alone) ==
  [step |-> step, at |-> at, found |-> found, buffer |-> buffer, alone |-> alone, due |-> run.due]

LEMMA RefreshFields ==
  ASSUME NEW run, NEW step, NEW at, NEW found, NEW buffer, NEW alone, NEW x,
         x = RefreshIn(run, step, at, found, buffer, alone)
  PROVE  /\ x.step = step /\ x.at = at /\ x.found = found /\ x.buffer = buffer /\ x.alone = alone
         /\ x.due = run.due
         /\ x = [step |-> x.step, at |-> x.at, found |-> x.found, buffer |-> x.buffer,
                 alone |-> x.alone, due |-> x.due]
BY DEF RefreshIn

LEMMA BufferMoves ==
  ASSUME NEW o, IsRefresh(o), NEW step, NEW buffer
  PROVE  [o EXCEPT !.step = step, !.buffer = buffer] = RefreshIn(o, step, o.at, o.found, buffer, o.alone)
<1>1. PICK y1 : y1 = [o EXCEPT !.step = step]
  OBVIOUS
<1>2. y1 = RefreshIn(o, step, o.at, o.found, o.buffer, o.alone)
  BY <1>1 DEF IsRefresh, RefreshIn
<1>3. [y1 EXCEPT !.buffer = buffer] = RefreshIn(o, step, o.at, o.found, buffer, o.alone)
  BY <1>2 DEF RefreshIn
<1> QED
  BY <1>1, <1>3

LEMMA FindingsMove ==
  ASSUME NEW o, IsRefresh(o), NEW step, NEW buffer, NEW found
  PROVE  [o EXCEPT !.step = step, !.buffer = buffer, !.found = found]
           = RefreshIn(o, step, o.at, found, buffer, o.alone)
<1>1. PICK y1 : y1 = [o EXCEPT !.step = step, !.buffer = buffer]
  OBVIOUS
<1>2. y1 = RefreshIn(o, step, o.at, o.found, buffer, o.alone)
  BY <1>1, BufferMoves
<1>3. [y1 EXCEPT !.found = found] = RefreshIn(o, step, o.at, found, buffer, o.alone)
  BY <1>2 DEF RefreshIn
<1> QED
  BY <1>1, <1>3

LEMMA CompanyMoves ==
  ASSUME NEW o, IsRefresh(o), NEW step, NEW alone
  PROVE  [o EXCEPT !.step = step, !.alone = alone] = RefreshIn(o, step, o.at, o.found, o.buffer, alone)
<1>1. PICK y1 : y1 = [o EXCEPT !.step = step]
  OBVIOUS
<1>2. y1 = RefreshIn(o, step, o.at, o.found, o.buffer, o.alone)
  BY <1>1 DEF IsRefresh, RefreshIn
<1>3. [y1 EXCEPT !.alone = alone] = RefreshIn(o, step, o.at, o.found, o.buffer, alone)
  BY <1>2 DEF RefreshIn
<1> QED
  BY <1>1, <1>3

LEMMA StageMoves ==
  ASSUME NEW o, IsRefresh(o)
  PROVE  NextStage(o) = RefreshIn(o, "read", o.at + 1, o.found, <<>>, TRUE)
<1>1. PICK read : read = "read"
  OBVIOUS
<1>2. PICK at, yes : at = o.at + 1 /\ yes = TRUE
  OBVIOUS
<1>3. PICK y1 : y1 = [o EXCEPT !.step = read]
  OBVIOUS
<1>4. y1 = RefreshIn(o, read, o.at, o.found, o.buffer, o.alone) /\ y1.at = o.at
  BY <1>3 DEF IsRefresh, RefreshIn
<1>5. PICK y2 : y2 = [y1 EXCEPT !.at = at]
  OBVIOUS
<1>6. y2 = RefreshIn(o, read, at, o.found, o.buffer, o.alone)
  BY <1>4, <1>5 DEF RefreshIn
<1>7. PICK y3 : y3 = [y2 EXCEPT !.buffer = <<>>]
  OBVIOUS
<1>8. y3 = RefreshIn(o, read, at, o.found, <<>>, o.alone)
  BY <1>6, <1>7 DEF RefreshIn
<1>9. [y3 EXCEPT !.alone = yes] = RefreshIn(o, read, at, o.found, <<>>, yes)
  BY <1>8 DEF RefreshIn
<1>10. NextStage(o) = [o EXCEPT !.step = read, !.at = at, !.buffer = <<>>, !.alone = yes]
  BY <1>1, <1>2 DEF NextStage
<1> QED
  BY <1>1, <1>2, <1>3, <1>5, <1>7, <1>9, <1>10

LEMMA ReadsOn ==
  ASSUME PipelineInv, NEW c \in Commands, ReadPayload(c),
         command' # [command EXCEPT ![c] = NotRunning]
  PROVE  PipelineInv'
<1>1. PICK run, stage, buffer :
        run = command[c] /\ stage = Stages[run.at] /\ buffer = [r \in Audited |-> NewestScan(r, stage)]
  OBVIOUS
<1>2. /\ run.step = "read" /\ run.at <= Len(Stages) /\ stage # "backlog"
      /\ UNCHANGED <<results, board, backlog, scans, owed, cut, merged, crossed>>
  BY <1>1 DEF ReadPayload
<1>3. PICK found : found = [e \in Entries |-> IF e[2] = stage THEN results[<<e[1], e[2]>>].found[e[3]]
                                              ELSE run.found[e]]
  OBVIOUS
<1>4. command' = [command EXCEPT ![c] = [run EXCEPT !.step = "write", !.buffer = buffer, !.found = found]]
  BY <1>1, <1>3 DEF ReadPayload, EndsInError
<1>5. Refreshing(c)
  BY <1>1, <1>2 DEF Refreshing
<1>6. /\ IsRefresh(run) /\ run.at \in Nat /\ run.at >= 1 /\ Len(Stages) \in Nat /\ stage \in Payloads
      /\ board \in Boards /\ owed \in Boards /\ merged \in [Entries -> Nat]
  BY <1>1, <1>2, <1>5, RefreshAt
<1>7. found \in [Entries -> Nat]
  <2>1. ASSUME NEW e \in Entries PROVE results[<<e[1], e[2]>>].found[e[3]] \in Nat
    <3>1. e[1] \in Audited /\ e[2] \in Range(Depts) /\ e[3] \in Findings
      BY DEF Entries
    <3>2. results[<<e[1], e[2]>>].found \in [Findings -> Nat]
      BY <3>1 DEF PipelineInv, PipelineTypes
    <3> QED
      BY <3>1, <3>2
  <2> QED
    BY <1>3, <1>6, <2>1 DEF IsRefresh
<1>8. PICK x : x = RefreshIn(run, "write", run.at, found, buffer, run.alone)
  OBVIOUS
<1>9. command' = [command EXCEPT ![c] = x]
  <2>1. PICK write : write = "write"
    OBVIOUS
  <2>2. [run EXCEPT !.step = write, !.buffer = buffer, !.found = found] = x
    BY <1>6, <1>8, <2>1, FindingsMove
  <2> QED
    BY <1>4, <2>1, <2>2
<1>10. /\ x.step = "write" /\ x.at = run.at /\ x.found = found /\ x.due = run.due /\ x.buffer = buffer
       /\ x = [step |-> x.step, at |-> x.at, found |-> x.found, buffer |-> x.buffer,
               alone |-> x.alone, due |-> x.due]
  BY <1>8, RefreshFields
<1>11. buffer \in [Audited -> Nat] /\ \A r \in Audited : buffer[r] = NewestScan(r, stage)
  BY <1>1, NewestIsNewest DEF PipelineInv
<1>12. IsRefresh(x)
  BY <1>2, <1>6, <1>7, <1>10, <1>11 DEF IsRefresh, Sends
<1>13. HasBeenScanned(run.due)
  BY <1>1, <1>5 DEF PipelineInv, AllScanned
<1>14. ASSUME crossed = 0 PROVE GoesOnWell(x)
  <2>1. /\ ShowsDue(run) /\ ~Fills(run, "backlog") /\ backlog = History
        /\ \A s \in Payloads \ cut : \A r \in Audited : board[s][r] >= owed[s][r]
    BY <1>1, <1>2, <1>5, <1>14, RefreshAlone DEF Fills
  <2>2. \A r \in Audited : buffer[r] >= run.due[stage][r]
    <3>1. \A r \in Audited : run.due[stage][r] \in Nat /\ buffer[r] \in Nat
      BY <1>6, <1>11 DEF IsRefresh, Boards
    <3> QED
      BY <1>6, <1>11, <1>13, <3>1 DEF HasBeenScanned
  <2>3. ShowsDue(x)'
    BY <1>1, <1>2, <1>10, <2>1, <2>2 DEF ShowsDue, Fills, Sends
  <2>4. ~Fills(x, "backlog") /\ ~Merging(x)
    BY <1>1, <1>2, <1>10 DEF Fills, Merging
  <2>5. backlog' = History'
    BY <1>2, <2>1, HistoryRests
  <2> QED
    BY <1>2, <2>1, <2>3, <2>4, <2>5 DEF GoesOnWell
<1>15. /\ command'[c] = x /\ command' = [d \in Commands |-> command'[d]]
       /\ \A d \in Commands \ {c} : Bystands(d)
  BY <1>9, OthersStay
<1>16. /\ x.step \in {"read", "write", "fill"} /\ x.due = command[c].due
       /\ board' \in Boards /\ merged' \in [Entries -> Nat]
       /\ UNCHANGED <<results, scans, owed, crossed>>
  BY <1>1, <1>2, <1>6, <1>10
<1> QED
  BY <1>5, <1>12, <1>14, <1>15, <1>16, RefreshGoesOn

LEMMA ReadsBacklog ==
  ASSUME PipelineInv, NEW c \in Commands, ReadBacklog(c) PROVE PipelineInv'
<1>1. PICK run, buffer : run = command[c] /\ buffer = Upsert(backlog, run.found)
  OBVIOUS
<1>2. /\ run.step = "read" /\ run.at <= Len(Stages) /\ Stages[run.at] = "backlog"
      /\ UNCHANGED <<results, board, backlog, scans, owed, cut, merged, crossed>>
      /\ command' = [command EXCEPT ![c] = [run EXCEPT !.step = "write", !.buffer = buffer]]
  BY <1>1 DEF ReadBacklog
<1>3. Refreshing(c)
  BY <1>1, <1>2 DEF Refreshing
<1>4. /\ IsRefresh(run) /\ run.at \in Nat /\ run.at >= 1 /\ Len(Stages) \in Nat
      /\ board \in Boards /\ merged \in [Entries -> Nat]
  BY <1>1, <1>3, RefreshAt
<1>5. PICK x : x = RefreshIn(run, "write", run.at, run.found, buffer, run.alone)
  OBVIOUS
<1>6. command' = [command EXCEPT ![c] = x]
  <2>1. [run EXCEPT !.step = "write", !.buffer = buffer] = x
    BY <1>4, <1>5, BufferMoves
  <2> QED
    BY <1>2, <2>1, Zenon
<1>7. /\ x.step = "write" /\ x.at = run.at /\ x.found = run.found /\ x.due = run.due /\ x.buffer = buffer
      /\ x = [step |-> x.step, at |-> x.at, found |-> x.found, buffer |-> x.buffer,
              alone |-> x.alone, due |-> x.due]
  BY <1>5, RefreshFields
<1>8. IsRefresh(x)
  BY <1>2, <1>4, <1>7 DEF IsRefresh, Sends
<1>9. ASSUME crossed = 0 PROVE GoesOnWell(x)
  <2>1. /\ ShowsDue(run) /\ ~Fills(run, "backlog") /\ backlog = History
        /\ \A s \in Payloads \ cut : \A r \in Audited : board[s][r] >= owed[s][r]
    BY <1>1, <1>2, <1>3, <1>9, RefreshAlone DEF Fills
  <2>2. ShowsDue(x)'
    BY <1>1, <1>2, <1>7, <2>1 DEF ShowsDue, Fills, Sends
  <2>3. ~Fills(x, "backlog")
    BY <1>7 DEF Fills
  <2>4. backlog' = History' /\ x.buffer = Upsert(History, x.found)'
    <3>1. History' = History /\ \A F : Upsert(History, F)' = Upsert(History, F)
      BY <1>2, HistoryRests
    <3>2. x.buffer = Upsert(History, x.found)
      BY <1>1, <1>7, <2>1
    <3> QED
      BY <1>2, <2>1, <3>1, <3>2 DEF Upsert
  <2> QED
    BY <1>2, <2>1, <2>2, <2>3, <2>4 DEF GoesOnWell
<1>10. /\ command'[c] = x /\ command' = [d \in Commands |-> command'[d]]
       /\ \A d \in Commands \ {c} : Bystands(d)
  BY <1>6, OthersStay
<1>11. /\ x.step \in {"read", "write", "fill"} /\ x.due = command[c].due
       /\ board' \in Boards /\ merged' \in [Entries -> Nat]
       /\ UNCHANGED <<results, scans, owed, crossed>>
  BY <1>1, <1>2, <1>4, <1>7
<1> QED
  BY <1>3, <1>8, <1>9, <1>10, <1>11, RefreshGoesOn

LEMMA EmptiesFile ==
  ASSUME PipelineInv, NEW c \in Commands, Truncate(c) PROVE PipelineInv'
<1>1. PICK run, alone : run = command[c] /\ alone = (FillToo(c) = {})
  OBVIOUS
<1>2. /\ run.step = "write"
      /\ UNCHANGED <<results, scans, owed, cut, merged, crossed>>
      /\ command' = [d \in Commands |->
                       IF d = c THEN [run EXCEPT !.step = "fill", !.alone = alone]
                       ELSE IF d \in FillToo(c) THEN [command[d] EXCEPT !.alone = FALSE]
                       ELSE command[d]]
      /\ IF Stages[run.at] = "backlog" THEN backlog' = EmptyBacklog /\ UNCHANGED board
         ELSE board' = [board EXCEPT ![Stages[run.at]] = EmptyBoard] /\ UNCHANGED backlog
  BY <1>1 DEF Truncate
<1>3. Refreshing(c)
  BY <1>1, <1>2 DEF Refreshing
<1>4. /\ IsRefresh(run) /\ run.at \in Nat /\ run.at >= 1 /\ Len(Stages) \in Nat /\ run.at <= Len(Stages)
      /\ board \in Boards /\ owed \in Boards /\ merged \in [Entries -> Nat]
      /\ Stages[run.at] # "backlog" => Stages[run.at] \in Payloads
  BY <1>1, <1>2, <1>3, RefreshAt DEF IsRefresh
<1>5. PICK x : x = RefreshIn(run, "fill", run.at, run.found, run.buffer, alone)
  OBVIOUS
<1>6. command'[c] = x /\ command' = [d \in Commands |-> command'[d]]
  <2>1. [run EXCEPT !.step = "fill", !.alone = alone] = x
    BY <1>4, <1>5, CompanyMoves
  <2>2. command'[c] = [run EXCEPT !.step = "fill", !.alone = alone]
    BY <1>2
  <2>3. command' = [d \in Commands |-> command'[d]]
    BY <1>2
  <2> QED
    BY <2>1, <2>2, <2>3, Zenon
<1>7. /\ x.step = "fill" /\ x.at = run.at /\ x.found = run.found /\ x.due = run.due
      /\ x.buffer = run.buffer /\ x.alone = alone
      /\ x = [step |-> x.step, at |-> x.at, found |-> x.found, buffer |-> x.buffer,
              alone |-> x.alone, due |-> x.due]
  BY <1>5, RefreshFields
<1>8. IsRefresh(x)
  BY <1>2, <1>4, <1>7 DEF IsRefresh, Sends
<1>9. \A d \in FillToo(c) : d \in Commands \ {c} /\ Refreshing(d)
  BY DEF FillToo, Refreshing
<1>10. ASSUME NEW d \in Commands \ {c} PROVE Bystands(d)
  <2>1. CASE d \notin FillToo(c)
    BY <1>2, <2>1 DEF Bystands
  <2>2. CASE d \in FillToo(c)
    <3>1. Refreshing(d) /\ crossed # 0
      BY <1>3, <1>9, <2>2 DEF PipelineInv, Undisturbed, OneRefresh
    <3>2. PICK y : y = command[d] /\ IsRefresh(y)
      BY <3>1 DEF PipelineInv, PipelineTypes
    <3>3. PICK z : z = [y EXCEPT !.alone = FALSE]
      OBVIOUS
    <3>4. z = RefreshIn(y, y.step, y.at, y.found, y.buffer, FALSE)
      BY <3>2, <3>3 DEF IsRefresh, RefreshIn
    <3>5. /\ z.step = y.step /\ z.at = y.at /\ z.found = y.found /\ z.due = y.due /\ z.buffer = y.buffer
          /\ z = [step |-> z.step, at |-> z.at, found |-> z.found, buffer |-> z.buffer,
                  alone |-> z.alone, due |-> z.due]
      BY <3>4 DEF RefreshIn
    <3>6. IsRefresh(z)
      BY <3>2, <3>5 DEF IsRefresh, Sends
    <3>7. command'[d] = z
      BY <1>2, <2>2, <3>2, <3>3
    <3> QED
      BY <3>1, <3>2, <3>5, <3>6, <3>7 DEF Bystands
  <2> QED
    BY <2>1, <2>2
<1>11. board' \in Boards
  <2>1. EmptyBoard \in [Audited -> Nat]
    BY DEF EmptyBoard
  <2> QED
    BY <1>2, <1>4, <2>1 DEF Boards
<1>12. ASSUME crossed = 0 PROVE GoesOnWell(x)
  <2>1. /\ ShowsDue(run) /\ ~Fills(run, "backlog") /\ backlog = History
        /\ \A s \in Payloads \ cut : \A r \in Audited : board[s][r] >= owed[s][r]
        /\ Merging(run) => run.buffer = Upsert(History, run.found)
        /\ \A d \in Commands : Refreshing(d) => d = c
    BY <1>1, <1>2, <1>3, <1>12, RefreshAlone DEF Fills
  <2>2. alone
    BY <1>1, <1>9, <2>1
  <2>3. \A s \in Payloads : s # Stages[run.at] => board'[s] = board[s]
    BY <1>2, <1>4 DEF Boards
  <2>4. \A s : Fills(x, s) <=> s = Stages[run.at]
    BY <1>7 DEF Fills
  <2>5. Sends(x) => \A r \in Audited : x.buffer[r] >= x.due[Stages[x.at]][r]
    BY <1>2, <1>7, <2>1 DEF ShowsDue, Sends
  <2>6. ASSUME NEW i \in 1 .. x.at - 1, Stages[i] # "backlog", Stages[i] # Stages[run.at], NEW r \in Audited
        PROVE  board'[Stages[i]][r] >= x.due[Stages[i]][r]
    <3>1. i \in 1 .. run.at - 1 /\ i \in 1 .. Len(Stages)
      BY <1>4, <1>7
    <3>2. board'[Stages[i]] = board[Stages[i]]
      BY <2>3, <2>6, <3>1, StagesOfRefresh
    <3>3. ~Fills(run, Stages[i])
      BY <1>2 DEF Fills
    <3> QED
      BY <1>7, <2>1, <2>6, <3>1, <3>2, <3>3 DEF ShowsDue
  <2>7. ShowsDue(x)'
    <3>1. \A s \in Payloads, r \in Audited : x.due[s][r] >= owed[s][r]
      BY <1>7, <2>1 DEF ShowsDue
    <3> QED
      BY <1>2, <1>7, <2>2, <2>4, <2>5, <2>6, <3>1 DEF ShowsDue, Fills, Sends
  <2>8. \A s \in Payloads \ cut' : Fills(x, s) \/ \A r \in Audited : board'[s][r] >= owed[s][r]
    BY <1>2, <2>1, <2>3, <2>4
  <2>9. backlog' = IF Fills(x, "backlog") THEN EmptyBacklog ELSE History'
    <3>1. History' = History
      BY <1>2, HistoryRests
    <3> QED
      BY <1>2, <2>1, <2>4, <3>1
  <2>10. Merging(x) => x.buffer = Upsert(History, x.found)'
    <3>1. Merging(x) => Merging(run)
      BY <1>2, <1>7 DEF Merging
    <3>2. History' = History
      BY <1>2, HistoryRests
    <3> QED
      BY <1>7, <2>1, <3>1, <3>2 DEF Upsert
  <2> QED
    BY <2>7, <2>8, <2>9, <2>10 DEF GoesOnWell
<1>13. /\ x.step \in {"read", "write", "fill"} /\ x.due = command[c].due /\ merged' \in [Entries -> Nat]
       /\ UNCHANGED <<results, scans, owed, crossed>>
  BY <1>1, <1>2, <1>4, <1>7
<1> QED
  BY <1>3, <1>6, <1>8, <1>10, <1>11, <1>12, <1>13, RefreshGoesOn

LEMMA FillsPayload ==
  ASSUME PipelineInv, NEW c \in Commands, FillPayload(c) PROVE PipelineInv'
<1>1. PICK run : run = command[c]
  OBVIOUS
<1>2. /\ run.step = "fill" /\ Stages[run.at] # "backlog"
      /\ cut' = cut \ {Stages[run.at]}
      /\ UNCHANGED <<results, backlog, scans, owed, merged, crossed>>
      /\ command' = [command EXCEPT ![c] = NextStage(run)]
  BY <1>1 DEF FillPayload
<1>3. PICK payload \in Lands(run, EmptyBoard) : board' = [board EXCEPT ![Stages[run.at]] = payload]
  BY <1>1 DEF FillPayload
<1>4. Refreshing(c)
  BY <1>1, <1>2 DEF Refreshing
<1>5. /\ IsRefresh(run) /\ run.at \in Nat /\ run.at >= 1 /\ Len(Stages) \in Nat /\ run.at <= Len(Stages)
      /\ board \in Boards /\ owed \in Boards /\ merged \in [Entries -> Nat] /\ run.due \in Boards
  BY <1>1, <1>2, <1>4, RefreshAt DEF IsRefresh
<1>6. PICK s \in Payloads : s = Stages[run.at]
  BY <1>1, <1>2, <1>4, <1>5, RefreshAt
<1>7. PICK x : x = RefreshIn(run, "read", run.at + 1, run.found, <<>>, TRUE)
  OBVIOUS
<1>8. command' = [command EXCEPT ![c] = x]
  BY <1>2, <1>5, <1>7, StageMoves
<1>9. /\ x.step = "read" /\ x.at = run.at + 1 /\ x.found = run.found /\ x.due = run.due
      /\ x = [step |-> x.step, at |-> x.at, found |-> x.found, buffer |-> x.buffer,
              alone |-> x.alone, due |-> x.due]
  BY <1>7 DEF RefreshIn
<1>10. IsRefresh(x)
  BY <1>5, <1>9 DEF IsRefresh, Sends
<1>11. run.buffer \in [Audited -> Nat] /\ payload \in [Audited -> Nat]
  <2>1. run.buffer \in [Audited -> Nat]
    BY <1>2, <1>5 DEF IsRefresh, Sends
  <2>2. EmptyBoard \in [Audited -> Nat]
    BY DEF EmptyBoard
  <2> QED
    BY <1>3, <2>1, <2>2 DEF Lands
<1>12. /\ board' \in Boards /\ board'[s] = payload
       /\ \A t \in Payloads : t # s => board'[t] = board[t]
  BY <1>3, <1>5, <1>6, <1>11 DEF Boards
<1>13. ASSUME crossed = 0 PROVE GoesOnWell(x)
  <2>1. /\ ShowsDue(run) /\ backlog = IF Fills(run, "backlog") THEN EmptyBacklog ELSE History
        /\ \A t \in Payloads \ cut : Fills(run, t) \/ \A r \in Audited : board[t][r] >= owed[t][r]
    BY <1>1, <1>4, <1>13, RefreshAlone
  <2>2. payload = run.buffer
    BY <1>2, <1>3, <2>1 DEF ShowsDue, Lands
  <2>3. \A t : Fills(run, t) <=> t = s
    BY <1>2, <1>6 DEF Fills
  <2>4. /\ \A t \in Payloads, r \in Audited : run.due[t][r] >= owed[t][r]
        /\ \A r \in Audited : run.buffer[r] >= run.due[s][r]
    BY <1>2, <1>6, <2>1 DEF ShowsDue, Sends
  <2>5. \A t \in Payloads, r \in Audited : /\ owed[t][r] \in Nat /\ run.due[t][r] \in Nat
                                         /\ run.buffer[r] \in Nat /\ board[t][r] \in Nat
    BY <1>5, <1>11 DEF Boards
  <2>6. \A r \in Audited : run.buffer[r] >= owed[s][r]
    BY <1>6, <2>4, <2>5
  <2>7. \A t \in Payloads \ cut' : \A r \in Audited : board'[t][r] >= owed[t][r]
    <3>1. ASSUME NEW t \in Payloads \ cut', t # s, NEW r \in Audited PROVE board'[t][r] >= owed[t][r]
      <4>1. t \notin cut /\ board'[t] = board[t] /\ ~Fills(run, t)
        BY <1>2, <1>6, <1>12, <2>3, <3>1
      <4> QED
        BY <2>1, <4>1
    <3>2. \A r \in Audited : board'[s][r] >= owed[s][r]
      BY <1>12, <2>2, <2>6
    <3> QED
      BY <3>1, <3>2
  <2>8. ASSUME NEW i \in 1 .. run.at, Stages[i] # "backlog", NEW r \in Audited
        PROVE  board'[Stages[i]][r] >= run.due[Stages[i]][r]
    <3>1. CASE Stages[i] = s
      BY <1>12, <2>2, <2>4, <3>1
    <3>2. CASE Stages[i] # s
      <4>1. i \in 1 .. run.at - 1 /\ i \in 1 .. Len(Stages)
        BY <1>5, <1>6, <2>8, <3>2
      <4>2. board'[Stages[i]] = board[Stages[i]]
        BY <1>12, <2>8, <3>2, <4>1, StagesOfRefresh
      <4> QED
        BY <2>1, <2>3, <2>8, <3>2, <4>1, <4>2 DEF ShowsDue
    <3> QED
      BY <3>1, <3>2
  <2>9. x.at - 1 = run.at
    BY <1>5, <1>9
  <2>10. ShowsDue(x)'
    BY <1>2, <1>9, <2>4, <2>8, <2>9 DEF ShowsDue, Sends
  <2>11. ~Fills(x, "backlog") /\ ~Merging(x) /\ ~Fills(run, "backlog")
    BY <1>2, <1>9 DEF Fills, Merging
  <2>12. backlog' = History'
    BY <1>2, <2>1, <2>11, HistoryRests
  <2> QED
    BY <2>7, <2>10, <2>11, <2>12 DEF GoesOnWell
<1>14. /\ command'[c] = x /\ command' = [d \in Commands |-> command'[d]]
       /\ \A d \in Commands \ {c} : Bystands(d)
  BY <1>8, OthersStay
<1>15. /\ x.step \in {"read", "write", "fill"} /\ x.due = command[c].due /\ merged' \in [Entries -> Nat]
       /\ UNCHANGED <<results, scans, owed, crossed>>
  BY <1>1, <1>2, <1>5, <1>9
<1> QED
  BY <1>4, <1>10, <1>12, <1>13, <1>14, <1>15, RefreshGoesOn

(* What is merged into the backlog is what was merged before, and the listings of this
   refresh besides. *)
LEMMA HistoryGoesOn ==
  ASSUME merged \in [Entries -> Nat], NEW found \in [Entries -> Nat],
         merged' = [e \in Entries |-> merged[e] + found[e]]
  PROVE  History' = Upsert(History, found) /\ merged' \in [Entries -> Nat]
<1>1. DOMAIN History = {e \in Entries : merged[e] > 0} /\ \A e \in DOMAIN History : History[e] = merged[e]
  BY DEF History
<1>2. PICK H : H = History
  OBVIOUS
<1>3. \A e \in Entries : merged[e] \in Nat /\ found[e] \in Nat /\ merged'[e] = merged[e] + found[e]
  OBVIOUS
<1>4. PICK both : both = DOMAIN H \cup {e \in Entries : found[e] > 0}
  OBVIOUS
<1>5. {e \in Entries : merged'[e] > 0} = both
  BY <1>1, <1>2, <1>3, <1>4
<1>6. \A e \in both : merged'[e] = (IF e \in DOMAIN H THEN H[e] ELSE 0) + found[e]
  BY <1>1, <1>2, <1>3, <1>4
<1>7. History' = [e \in both |-> merged'[e]]
  BY <1>5 DEF History
<1>8. Upsert(H, found) = [e \in both |-> (IF e \in DOMAIN H THEN H[e] ELSE 0) + found[e]]
  BY <1>4 DEF Upsert
<1>9. merged' \in [Entries -> Nat]
  BY <1>3
<1> QED
  BY <1>2, <1>6, <1>7, <1>8, <1>9

LEMMA FillsBacklog ==
  ASSUME PipelineInv, NEW c \in Commands, FillBacklog(c) PROVE PipelineInv'
<1>1. PICK run : run = command[c]
  OBVIOUS
<1>2. /\ run.step = "fill" /\ Stages[run.at] = "backlog" /\ backlog' \in Lands(run, EmptyBacklog)
      /\ UNCHANGED <<results, board, scans, owed, cut, crossed>>
      /\ merged' = [e \in Entries |-> merged[e] + run.found[e]]
      /\ command' = [command EXCEPT ![c] = NextStage(run)]
  BY <1>1 DEF FillBacklog
<1>3. Refreshing(c)
  BY <1>1, <1>2 DEF Refreshing
<1>4. /\ IsRefresh(run) /\ run.at \in Nat /\ run.at >= 1 /\ Len(Stages) \in Nat /\ run.at <= Len(Stages)
      /\ run.found \in [Entries -> Nat] /\ board \in Boards /\ merged \in [Entries -> Nat]
  BY <1>1, <1>2, <1>3, RefreshAt DEF IsRefresh
<1>5. PICK x : x = RefreshIn(run, "read", run.at + 1, run.found, <<>>, TRUE)
  OBVIOUS
<1>6. command' = [command EXCEPT ![c] = x]
  BY <1>2, <1>4, <1>5, StageMoves
<1>7. /\ x.step = "read" /\ x.at = run.at + 1 /\ x.found = run.found /\ x.due = run.due
      /\ x = [step |-> x.step, at |-> x.at, found |-> x.found, buffer |-> x.buffer,
              alone |-> x.alone, due |-> x.due]
  BY <1>5 DEF RefreshIn
<1>8. IsRefresh(x)
  BY <1>4, <1>7 DEF IsRefresh, Sends
<1>9. History' = Upsert(History, run.found) /\ merged' \in [Entries -> Nat]
  BY <1>2, <1>4, HistoryGoesOn
<1>10. ASSUME crossed = 0 PROVE GoesOnWell(x)
  <2>1. /\ ShowsDue(run) /\ run.alone /\ run.buffer = Upsert(History, run.found)
        /\ \A t \in Payloads \ cut : Fills(run, t) \/ \A r \in Audited : board[t][r] >= owed[t][r]
    BY <1>1, <1>2, <1>3, <1>10, RefreshAlone DEF ShowsDue, Merging
  <2>2. \A t \in Payloads : ~Fills(run, t)
    BY <1>2, StagesOfRefresh DEF Fills
  <2>3. \A i \in 1 .. x.at - 1 : Stages[i] # "backlog" => i \in 1 .. run.at - 1 /\ ~Fills(run, Stages[i])
    BY <1>2, <1>4, <1>7 DEF Fills
  <2>4. ShowsDue(x)'
    BY <1>2, <1>7, <2>1, <2>3 DEF ShowsDue, Sends
  <2>5. ~Fills(x, "backlog") /\ ~Merging(x)
    BY <1>7 DEF Fills, Merging
  <2>6. backlog' = History'
    BY <1>2, <1>9, <2>1 DEF Lands
  <2> QED
    BY <1>2, <2>1, <2>2, <2>4, <2>5, <2>6 DEF GoesOnWell
<1>11. /\ command'[c] = x /\ command' = [d \in Commands |-> command'[d]]
       /\ \A d \in Commands \ {c} : Bystands(d)
  BY <1>6, OthersStay
<1>12. /\ x.step \in {"read", "write", "fill"} /\ x.due = command[c].due /\ board' \in Boards
       /\ UNCHANGED <<results, scans, owed, crossed>>
  BY <1>1, <1>2, <1>4, <1>7
<1> QED
  BY <1>3, <1>8, <1>9, <1>10, <1>11, <1>12, RefreshGoesOn

-----------------------------------------------------------------------------
(* Every step of the pipeline. *)
LEMMA EndsWithNothingOpen ==
  ASSUME PipelineInv, NEW c \in Commands, command[c].step # "fill",
         command' = [command EXCEPT ![c] = NotRunning],
         UNCHANGED <<results, board, backlog, scans, cut, merged, crossed>>,
         owed' = owed \/ (Refreshing(c) /\ command[c].step = "read" /\ command[c].at > Len(Stages)
                          /\ owed' = command[c].due)
  PROVE  PipelineInv'
<1>1. OpenFile(command[c]) = {}
  BY DEF OpenFile
<1>2. /\ cut' = cut \cup (OpenFile(command[c]) \ {"backlog"})
      /\ merged' = IF "backlog" \in OpenFile(command[c]) THEN [e \in Entries |-> 0] ELSE merged
  BY <1>1
<1> QED
  BY <1>2, CommandEnds

LEMMA ReadsOrEnds ==
  ASSUME PipelineInv, NEW c \in Commands, ReadPayload(c) PROVE PipelineInv'
<1>1. CASE command' = [command EXCEPT ![c] = NotRunning]
  <2>1. command[c].step = "read" /\ UNCHANGED <<results, board, backlog, scans, owed, cut, merged, crossed>>
    BY DEF ReadPayload
  <2> QED
    BY <1>1, <2>1, EndsWithNothingOpen
<1>2. CASE command' # [command EXCEPT ![c] = NotRunning]
  BY <1>2, ReadsOn
<1> QED
  BY <1>1, <1>2

LEMMA ScansGoOn ==
  ASSUME PipelineInv, NEW c \in Commands, NEW r \in Audited, RunDepartment(c, r) PROVE PipelineInv'
<1>1. command[c].step = "scan" /\ UNCHANGED <<board, backlog, owed, cut, merged, crossed>>
  BY DEF RunDepartment
<1>2. UNCHANGED <<results, scans>> \/ \E f : Scans(f)
  BY DEF RunDepartment
<1>3. PICK x : command' = [command EXCEPT ![c] = x] /\ x.step = "scan"
  <2>1. PICK run : run = command[c]
    OBVIOUS
  <2>2. CASE command' = [command EXCEPT ![c].left[r] = Tail(@)]
    <3>1. PICK x : x = [run EXCEPT !.left[r] = Tail(run.left[r])]
      OBVIOUS
    <3>2. x.step = run.step
      BY <3>1
    <3> QED
      BY <1>1, <2>1, <2>2, <3>1, <3>2
  <2>3. CASE command' = [command EXCEPT ![c].left[r] = <<>>, ![c].failed = TRUE]
    <3>1. PICK y : y = [run EXCEPT !.left[r] = <<>>]
      OBVIOUS
    <3>2. PICK yes : yes = TRUE
      OBVIOUS
    <3>3. PICK x : x = [y EXCEPT !.failed = yes]
      OBVIOUS
    <3>4. x.step = y.step /\ y.step = run.step
      BY <3>1, <3>3
    <3>5. command' = [command EXCEPT ![c] = x]
      BY <2>1, <2>3, <3>1, <3>2, <3>3
    <3> QED
      BY <1>1, <2>1, <3>4, <3>5
  <2> QED
    BY <2>2, <2>3 DEF RunDepartment
<1>4. /\ command' = [d \in Commands |-> command'[d]] /\ command'[c] = x
      /\ \A d \in Commands : d # c => command'[d] = command[d]
  BY <1>3 DEF PipelineInv, PipelineTypes
<1>5. \A d \in Commands : command'[d] = command[d] \/ (~Refreshing(d) /\ ~Refreshing(d)')
  BY <1>1, <1>3, <1>4 DEF Refreshing
<1> QED
  BY <1>1, <1>2, <1>4, <1>5, BeforeRefresh

LEMMA ScansEnd ==
  ASSUME PipelineInv, NEW c \in Commands, EndScans(c) PROVE PipelineInv'
<1>1. /\ command[c].step = "scan" /\ UNCHANGED <<results, board, backlog, scans, owed, cut, merged>>
      /\ \/ command' = [command EXCEPT ![c] = NotRunning] /\ UNCHANGED crossed
         \/ BeginsRefresh(c)
  BY DEF EndScans
<1>2. ~Refreshing(c) /\ command[c].step # "fill"
  BY <1>1 DEF Refreshing
<1>3. CASE command' = [command EXCEPT ![c] = NotRunning] /\ UNCHANGED crossed
  BY <1>1, <1>2, <1>3, EndsWithNothingOpen
<1>4. CASE BeginsRefresh(c)
  BY <1>1, <1>2, <1>4, RefreshBegins
<1> QED
  BY <1>1, <1>3, <1>4

LEMMA PipelineRests == ASSUME PipelineInv, UNCHANGED pipelineVars PROVE PipelineInv'
<1>1. UNCHANGED <<results, board, backlog, command, scans, owed, cut, merged, crossed>>
  BY DEF pipelineVars
<1>2. command' = [c \in Commands |-> command'[c]] /\ \A c \in Commands : command'[c] = command[c]
  BY <1>1 DEF PipelineInv, PipelineTypes
<1> QED
  BY <1>1, <1>2, BeforeRefresh

LEMMA PipelineSteps == PipelineInv /\ [PipelineNext]_pipelineVars => PipelineInv'
<1> SUFFICES ASSUME PipelineInv, [PipelineNext]_pipelineVars PROVE PipelineInv'
  OBVIOUS
<1>1. CASE UNCHANGED pipelineVars
  BY <1>1, PipelineRests
<1>2. ASSUME NEW f \in Audited \X Range(Depts), ServerScans(f) PROVE PipelineInv'
  <2>1. UNCHANGED <<board, backlog, command, owed, cut, merged, crossed>> /\ Scans(f)
    BY <1>2 DEF ServerScans
  <2>2. command' = [c \in Commands |-> command'[c]] /\ \A c \in Commands : command'[c] = command[c]
    BY <2>1 DEF PipelineInv, PipelineTypes
  <2> QED
    BY <2>1, <2>2, BeforeRefresh
<1>3. ASSUME NEW c \in Commands, NEW targets, StartRun(c, targets) PROVE PipelineInv'
  <2>1. command[c].step = "none" /\ UNCHANGED <<results, board, backlog, scans, owed, cut, merged, crossed>>
    BY <1>3 DEF StartRun, Running
  <2>2. PICK x : command' = [command EXCEPT ![c] = x] /\ x.step = "scan"
    <3>1. PICK x : x = [step |-> "scan", left |-> [r \in targets |-> Depts], failed |-> FALSE]
      OBVIOUS
    <3>2. x.step = "scan"
      BY <3>1
    <3>3. command' = [command EXCEPT ![c] = x]
      BY <1>3, <3>1 DEF StartRun
    <3> QED
      BY <3>2, <3>3
  <2>3. /\ command' = [d \in Commands |-> command'[d]] /\ command'[c] = x
        /\ \A d \in Commands : d # c => command'[d] = command[d]
    BY <2>2 DEF PipelineInv, PipelineTypes
  <2>4. \A d \in Commands : command'[d] = command[d] \/ (~Refreshing(d) /\ ~Refreshing(d)')
    BY <2>1, <2>2, <2>3 DEF Refreshing
  <2> QED
    BY <2>1, <2>3, <2>4, BeforeRefresh
<1>4. ASSUME NEW c \in Commands, StartRefresh(c) PROVE PipelineInv'
  <2>1. ~Refreshing(c)
    BY <1>4 DEF StartRefresh, Running, Refreshing
  <2> QED
    BY <1>4, <2>1, RefreshBegins DEF StartRefresh
<1>5. ASSUME NEW c \in Commands, EndRefresh(c) PROVE PipelineInv'
  <2>1. /\ command' = [command EXCEPT ![c] = NotRunning]
        /\ UNCHANGED <<results, board, backlog, scans, cut, merged, crossed>>
        /\ command[c].step = "read" /\ command[c].at > Len(Stages) /\ owed' = command[c].due
    BY <1>5 DEF EndRefresh
  <2>2. Refreshing(c)
    BY <2>1 DEF Refreshing
  <2> QED
    BY <2>1, <2>2, EndsWithNothingOpen
<1>6. ASSUME NEW c \in Commands, CommandDies(c) PROVE PipelineInv'
  <2>1. /\ command' = [command EXCEPT ![c] = NotRunning]
        /\ UNCHANGED <<results, board, backlog, scans, owed, crossed>>
        /\ cut' = cut \cup (OpenFile(command[c]) \ {"backlog"})
        /\ merged' = IF "backlog" \in OpenFile(command[c]) THEN [e \in Entries |-> 0] ELSE merged
    BY <1>6 DEF CommandDies, OpenFile
  <2> QED
    BY <2>1, CommandEnds
<1> QED
  BY <1>1, <1>2, <1>3, <1>4, <1>5, <1>6, ScansGoOn, ScansEnd, ReadsOrEnds, ReadsBacklog, EmptiesFile,
     FillsPayload, FillsBacklog DEF PipelineNext

LEMMA BoardsFollow == PipelineInv => BoardKeepsUp
BY DEF PipelineInv, Undisturbed, Shown, BoardKeepsUp

LEMMA HistoryFollows == PipelineInv => BacklogKeepsHistory
<1> SUFFICES ASSUME PipelineInv, crossed = 0, ~Filling("backlog")
             PROVE  /\ DOMAIN backlog = {e \in Entries : merged[e] > 0}
                    /\ \A e \in DOMAIN backlog : backlog[e] = merged[e]
  BY DEF BacklogKeepsHistory
<1>1. backlog = History
  BY DEF PipelineInv, Undisturbed, HistoryIsKept
<1> QED
  BY <1>1 DEF History

(* Workflow commands, dashboard scans and refreshes in any number and order, failing or
   killed anywhere: what a command that returned 0 has published stays or gets newer, but
   for a payload that a command has open or died writing, until the next one writes it;
   as long as refreshes do not overlap. *)
THEOREM BoardsKeepUp == Spec => []BoardKeepsUp
<1>1. Init => PipelineInv
  BY PipelineStart DEF Init
<1>2. [Next]_vars => [PipelineNext]_pipelineVars
  BY DEF Next, vars, Rests, Parts
<1>3. PipelineInv /\ [Next]_vars => PipelineInv'
  BY <1>2, PipelineSteps
<1>4. PipelineInv => BoardKeepsUp
  BY BoardsFollow
<1> QED
  BY <1>1, <1>3, <1>4, PTL DEF Spec

(* merge_backlog, run after run: the backlog keeps every finding that was merged since a
   command last died as it wrote the file, and counts how often the refreshes listed it,
   as long as no refresh ran beside another. *)
THEOREM BacklogStays == Spec => []BacklogKeepsHistory
<1>1. Init => PipelineInv
  BY PipelineStart DEF Init
<1>2. [Next]_vars => [PipelineNext]_pipelineVars
  BY DEF Next, vars, Rests, Parts
<1>3. PipelineInv /\ [Next]_vars => PipelineInv'
  BY <1>2, PipelineSteps
<1>4. PipelineInv => BacklogKeepsHistory
  BY HistoryFollows
<1> QED
  BY <1>1, <1>3, <1>4, PTL DEF Spec

-----------------------------------------------------------------------------
(* The sync. *)

Places == Zones \cup {""}

Working == {"upload", "put", "purge"}

(* A run in a target. *)
IsSyncRun(s) ==
  s = [step |-> s.step, dept |-> s.dept, at |-> s.at, rc |-> s.rc, done |-> s.done,
       left |-> s.left, logs |-> s.logs, seen |-> s.seen, try |-> s.try, data |-> s.data]

FileTypes ==
  /\ disk \in [Produced -> Nat]
  /\ storage \in [RemoteFiles -> Nat]
  /\ edge \in [Zones -> [RemoteFiles -> Nat]]
  /\ promised \in [Places \X RemoteFiles -> Nat]

RunTypes ==
  /\ sync.step \in Working \cup {"none", "target"}
  /\ sync.step = "target" => sync.at \in 1 .. Len(SyncTargets) + 1
  /\ sync.step \in Working =>
       /\ IsSyncRun(sync)
       /\ sync.at \in Serviced /\ sync.left \in Seq(Uploads) /\ sync.logs \in BOOLEAN
       /\ sync.seen \subseteq RemoteFiles \X Nat
  /\ sync.step = "put" => sync.left # <<>> /\ sync.data \in Nat

(* The targets that a run without an error has done. *)
Before(at) == {i \in Serviced : i < at}

Accounted ==
  sync.rc = 0 =>
    /\ sync.step = "none" => sync.done = Serviced
    /\ sync.step = "target" => sync.done = Before(sync.at)
    /\ sync.step \in Working =>
         sync.done = Before(sync.at) \cup (IF sync.step = "purge" \/ sync.logs THEN {sync.at} ELSE {})

(* A version that a file has had: older than the file, unless it was discarded. *)
HasHad(m, v) == v <= disk[m.local] \/ (disk[m.local] = 0 /\ v <= 1)

HasBeen(r, v) == \A m \in Uploads : m.remote = r => HasHad(m, v)

(* What the storage zone, the visitors and the operator have of a file. *)
ServedAsPromised(r) ==
  /\ HasBeen(r, storage[r])
  /\ \A z \in Places : promised[<<z, r>>] <= storage[r]
  /\ \A z \in Zones : edge[z][r] = 0 \/ edge[z][r] >= promised[<<z, r>>]

(* What a run saw is uploaded, or still to be. *)
SeenIsUploaded(r) ==
  \A v \in sync.seen : v[1] = r =>
    /\ HasBeen(r, v[2])
    /\ \/ storage[r] >= v[2]
       \/ /\ ~sync.logs /\ sync.step # "purge"
          /\ \E k \in DOMAIN sync.left : sync.left[k].remote = r

(* What an upload has read is newer than what the storage zone has. *)
DataIsNew(r) ==
  sync.left[1].remote = r =>
    /\ HasBeen(r, sync.data) /\ sync.data >= storage[r]
    /\ \A v \in sync.seen : v[1] = r => sync.data >= v[2]

SyncInv ==
  /\ FileTypes /\ RunTypes /\ Accounted
  /\ \A r \in RemoteFiles : OneSource(r) =>
       /\ ServedAsPromised(r)
       /\ sync.step \in Working => SeenIsUploaded(r)
       /\ sync.step = "put" => DataIsNew(r)

-----------------------------------------------------------------------------
(* The list of files of a target. *)
LEMMA ListedAreUploads ==
  ASSUME NEW i \in DOMAIN SyncTargets, NEW dept
  PROVE  /\ Present(Mappings(SyncTargets[i], dept)) \subseteq Uploads
         /\ Present(Named(Regression, SyncTargets[i].path)) \subseteq Uploads
<1>1. PICK t : t = SyncTargets[i]
  OBVIOUS
<1>2. \A m : /\ m.local \in Produced
             /\ \/ m \in Mappings(t, "") \/ m \in Named(Regression, t.path)
                \/ \E d \in DOMAIN DeptData : m \in Mappings(t, d)
             => m \in Uploads
  <2>1. \A m \in MayUpload(t) : m.local \in Produced => m \in Uploads
    BY <1>1 DEF Uploads
  <2> QED
    BY <2>1 DEF MayUpload
<1>3. Mappings(t, dept) \subseteq Mappings(t, "") \cup UNION {Mappings(t, d) : d \in DOMAIN DeptData}
  <2>1. CASE dept = "" \/ dept \in DOMAIN DeptData
    BY <2>1
  <2>2. CASE dept # "" /\ dept \notin DOMAIN DeptData
    <3>1. Mappings(t, dept) = Named(SharedMeta \cup JobFiles, t.path)
      BY <2>2 DEF Mappings, DeptMappings
    <3> QED
      BY <3>1 DEF Mappings
  <2> QED
    BY <2>1, <2>2
<1> QED
  BY <1>1, <1>2, <1>3 DEF Present

LEMMA LocalsAreProduced == \A m \in Uploads : m.local \in Produced /\ m.remote \in RemoteFiles
BY DEF Uploads, RemoteFiles

LEMMA NamedIsFinite == ASSUME NEW files, IsFiniteSet(files), NEW path PROVE IsFiniteSet(Named(files, path))
<1> DEFINE name == [f \in files |-> [local |-> f, remote |-> <<path, f[2]>>]]
<1>1. name \in Surjection(files, Named(files, path))
  BY DEF Named, Surjection
<1> QED
  BY <1>1, FS_Surjection

LEMMA PreviewsAreFinite == ASSUME NEW t PROVE IsFiniteSet(PreviewMappings(t))
<1> DEFINE name == [p \in Previews |-> [local |-> p, remote |-> <<t.path, p[1], p[2]>>]]
<1>1. name \in Surjection(Previews, PreviewMappings(t))
  BY DEF PreviewMappings, Surjection
<1> QED
  BY <1>1, FS_Surjection, SyncAssumption

LEMMA AggregateIsFinite == ASSUME NEW t PROVE IsFiniteSet(AggMappings(t))
<1> DEFINE name == [src \in DOMAIN AggData |->
                      [local |-> <<"dashboard", src>>, remote |-> <<t.path, AggData[src]>>]]
<1>1. name \in Surjection(DOMAIN AggData, AggMappings(t))
  BY DEF AggMappings, Surjection
<1>2. DOMAIN AggData = {"data.json"} \cup {"seo-data.json"}
  BY DEF AggData
<1>3. \A a, b : IsFiniteSet({a} \cup {b})
  BY FS_Singleton, FS_Union
<1>4. IsFiniteSet(DOMAIN AggData)
  BY <1>2, <1>3
<1> QED
  BY <1>1, <1>4, FS_Surjection

LEMMA DeptIsFinite == ASSUME NEW t, NEW dept PROVE IsFiniteSet(DeptMappings(t, dept))
BY FS_EmptySet, FS_Singleton DEF DeptMappings

LEMMA ListsAreFinite ==
  ASSUME NEW t, NEW dept
  PROVE  IsFiniteSet(Present(Mappings(t, dept))) /\ IsFiniteSet(Present(Named(Regression, t.path)))
<1>1. /\ IsFiniteSet(SharedMeta \cup JobFiles) /\ IsFiniteSet(DashboardFiles)
      /\ IsFiniteSet(Regression)
  BY FS_Singleton, FS_Union DEF SharedMeta, JobFiles, DashboardFiles, Regression
<1>2. IsFiniteSet(UNION {DeptMappings(t, d) : d \in DOMAIN DeptData})
  <2>1. DOMAIN DeptData = {"qa", "seo", "selfaudit"}
    BY DEF DeptData
  <2>2. UNION {DeptMappings(t, d) : d \in DOMAIN DeptData} =
          DeptMappings(t, "qa") \cup DeptMappings(t, "seo") \cup DeptMappings(t, "selfaudit")
    BY <2>1
  <2> QED
    BY <2>2, DeptIsFinite, FS_Union
<1>3. PICK named : named = Named(SharedMeta \cup JobFiles, t.path) /\ IsFiniteSet(named)
  BY <1>1, NamedIsFinite
<1>4. PICK full : /\ full = Named(DashboardFiles, t.path) \cup PreviewMappings(t) \cup
                       IF t.repo # "" THEN UNION {DeptMappings(t, d) : d \in DOMAIN DeptData} ELSE AggMappings(t)
                  /\ IsFiniteSet(full)
  BY <1>1, <1>2, NamedIsFinite, PreviewsAreFinite, AggregateIsFinite, FS_Union
<1>5. IsFiniteSet(Mappings(t, dept))
  <2>1. Mappings(t, dept) = named \cup IF dept # "" THEN DeptMappings(t, dept) ELSE full
    BY <1>3, <1>4 DEF Mappings
  <2>2. CASE dept = ""
    <3>1. Mappings(t, dept) = named \cup full
      BY <2>1, <2>2
    <3>2. IsFiniteSet(named) /\ IsFiniteSet(full)
      BY <1>3, <1>4
    <3> QED
      BY <3>1, <3>2, FS_Union
  <2>3. CASE dept # ""
    <3>1. Mappings(t, dept) = named \cup DeptMappings(t, dept)
      BY <2>1, <2>3
    <3> QED
      BY <1>3, <3>1, DeptIsFinite, FS_Union
  <2> QED
    BY <2>2, <2>3
<1>6. IsFiniteSet(Named(Regression, t.path))
  BY <1>1, NamedIsFinite
<1>7. \A S : Present(S) \subseteq S
  BY DEF Present
<1> QED
  BY <1>5, <1>6, <1>7, FS_Subset

(* SetToSeq of a finite set has all its elements. *)
LEMMA InSomeOrder ==
  ASSUME NEW S, IsFiniteSet(S)
  PROVE  SetToSeq(S) \in Seq(S) /\ \A x \in S : \E k \in DOMAIN SetToSeq(S) : SetToSeq(S)[k] = x
<1>1. PICK n \in Nat : n = Cardinality(S)
  BY FS_CardinalityType
<1>2. \E f \in [1 .. n -> S] : IsInjective(f)
  BY <1>1, FS_CardinalityType DEF ExistsBijection, Bijection, Injection
<1>3. PICK f : f = SetToSeq(S) /\ f \in [1 .. n -> S] /\ IsInjective(f)
  BY <1>1, <1>2 DEF SetToSeq
<1>4. f \in Injection(1 .. n, S)
  BY <1>3 DEF Injection
<1>5. IsFiniteSet(1 .. n) /\ Cardinality(1 .. n) = n
  BY FS_Interval
<1>6. f \in Surjection(1 .. n, S)
  BY <1>1, <1>4, <1>5, FS_Injection
<1> QED
  BY <1>3, <1>6 DEF Surjection

LEMMA SyncStart == SyncInit => SyncInv
<1> SUFFICES ASSUME SyncInit PROVE SyncInv
  OBVIOUS
<1>1. /\ disk = [f \in Produced |-> 1] /\ storage = [r \in RemoteFiles |-> 0]
      /\ edge = [z \in Zones |-> [r \in RemoteFiles |-> 0]]
      /\ promised = [p \in Places \X RemoteFiles |-> 0]
      /\ sync.step = "none" /\ sync.rc = 2
  BY DEF SyncInit, NoSync, Places
<1>2. FileTypes /\ RunTypes /\ Accounted
  BY <1>1 DEF FileTypes, RunTypes, Accounted, Working
<1>3. ASSUME NEW r \in RemoteFiles PROVE ServedAsPromised(r)
  <2>1. storage[r] = 0 /\ \A z \in Places : promised[<<z, r>>] = 0
    BY <1>1
  <2>2. \A z \in Zones : edge[z][r] = 0
    BY <1>1
  <2>3. HasBeen(r, 0)
    BY <1>1, LocalsAreProduced DEF HasBeen, HasHad
  <2> QED
    BY <2>1, <2>2, <2>3 DEF ServedAsPromised
<1> QED
  BY <1>1, <1>2, <1>3 DEF SyncInv, Working

(* The next state of a run that stays in its target. *)
InTarget(s, step, done, left, logs, try, data) ==
  [step |-> step, dept |-> s.dept, at |-> s.at, rc |-> s.rc, done |-> done,
   left |-> left, logs |-> logs, seen |-> s.seen, try |-> try, data |-> data]

LEMMA ReadFields ==
  ASSUME NEW s, IsSyncRun(s), NEW step, NEW data
  PROVE  [s EXCEPT !.step = step, !.data = data] = InTarget(s, step, s.done, s.left, s.logs, s.try, data)
<1>1. PICK y1 : y1 = [s EXCEPT !.step = step]
  OBVIOUS
<1>2. y1 = InTarget(s, step, s.done, s.left, s.logs, s.try, s.data)
  BY <1>1 DEF IsSyncRun, InTarget
<1>3. [y1 EXCEPT !.data = data] = InTarget(s, step, s.done, s.left, s.logs, s.try, data)
  BY <1>2 DEF InTarget
<1> QED
  BY <1>1, <1>3

LEMMA RetryFields ==
  ASSUME NEW s, IsSyncRun(s), NEW step, NEW try
  PROVE  [s EXCEPT !.step = step, !.try = try] = InTarget(s, step, s.done, s.left, s.logs, try, s.data)
<1>1. PICK y1 : y1 = [s EXCEPT !.step = step]
  OBVIOUS
<1>2. y1 = InTarget(s, step, s.done, s.left, s.logs, s.try, s.data)
  BY <1>1 DEF IsSyncRun, InTarget
<1>3. [y1 EXCEPT !.try = try] = InTarget(s, step, s.done, s.left, s.logs, try, s.data)
  BY <1>2 DEF InTarget
<1> QED
  BY <1>1, <1>3

LEMMA DoneFields ==
  ASSUME NEW s, IsSyncRun(s), NEW step, NEW done
  PROVE  [s EXCEPT !.step = step, !.done = done] = InTarget(s, step, done, s.left, s.logs, s.try, s.data)
<1>1. PICK y1 : y1 = [s EXCEPT !.step = step]
  OBVIOUS
<1>2. y1 = InTarget(s, step, s.done, s.left, s.logs, s.try, s.data)
  BY <1>1 DEF IsSyncRun, InTarget
<1>3. [y1 EXCEPT !.done = done] = InTarget(s, step, done, s.left, s.logs, s.try, s.data)
  BY <1>2 DEF InTarget
<1> QED
  BY <1>1, <1>3

LEMMA AnsweredFields ==
  ASSUME NEW s, IsSyncRun(s), NEW step, NEW left, NEW try
  PROVE  [s EXCEPT !.step = step, !.left = left, !.try = try]
           = InTarget(s, step, s.done, left, s.logs, try, s.data)
<1>1. PICK y1 : y1 = [s EXCEPT !.step = step]
  OBVIOUS
<1>2. y1 = InTarget(s, step, s.done, s.left, s.logs, s.try, s.data)
  BY <1>1 DEF IsSyncRun, InTarget
<1>3. PICK y2 : y2 = [y1 EXCEPT !.left = left]
  OBVIOUS
<1>4. y2 = InTarget(s, step, s.done, left, s.logs, s.try, s.data)
  BY <1>2, <1>3 DEF InTarget
<1>5. [y2 EXCEPT !.try = try] = InTarget(s, step, s.done, left, s.logs, try, s.data)
  BY <1>4 DEF InTarget
<1> QED
  BY <1>1, <1>3, <1>5

LEMMA StaysInTarget ==
  ASSUME RunTypes, sync.step \in Working,
         NEW step \in Working, NEW done, NEW left \in Seq(Uploads), NEW logs \in BOOLEAN, NEW try, NEW data,
         sync' = InTarget(sync, step, done, left, logs, try, data),
         step = "put" => left # <<>> /\ data \in Nat,
         sync.rc = 0 => done = Before(sync.at) \cup (IF step = "purge" \/ logs THEN {sync.at} ELSE {})
  PROVE  RunTypes' /\ Accounted' /\ sync'.step = step /\ sync'.left = left
         /\ sync'.logs = logs /\ sync'.seen = sync.seen /\ sync'.data = data
<1>1. /\ sync'.step = step /\ sync'.at = sync.at /\ sync'.rc = sync.rc /\ sync'.done = done
      /\ sync'.left = left /\ sync'.logs = logs /\ sync'.seen = sync.seen /\ sync'.data = data
  BY DEF InTarget
<1>2. IsSyncRun(sync')
  BY <1>1 DEF InTarget, IsSyncRun
<1>3. RunTypes'
  BY <1>1, <1>2 DEF RunTypes, IsSyncRun, Working
<1>4. Accounted'
  BY <1>1 DEF Accounted, Before, Working
<1> QED
  BY <1>1, <1>3, <1>4

LEMMA TargetsAreCounted == Len(SyncTargets) \in Nat /\ DOMAIN SyncTargets = 1 .. Len(SyncTargets)
BY SyncAssumption

LEMMA LeavesTarget ==
  ASSUME RunTypes, Accounted, sync.step \in Working, NEW rc,
         rc = 0 => sync.rc = 0 /\ (sync.step = "purge" \/ sync.logs), sync' = NextTarget(sync, rc)
  PROVE  RunTypes' /\ Accounted' /\ sync'.step = "target"
<1>1. sync'.step = "target" /\ sync'.at = sync.at + 1 /\ sync'.rc = rc /\ sync'.done = sync.done
  BY DEF NextTarget
<1>2. sync.at \in 1 .. Len(SyncTargets) /\ sync.at \in Serviced
  BY TargetsAreCounted DEF RunTypes, Serviced
<1>3. sync'.at \in 1 .. Len(SyncTargets) + 1
  BY <1>1, <1>2, TargetsAreCounted
<1>4. Before(sync.at + 1) = Before(sync.at) \cup {sync.at}
  BY <1>2, TargetsAreCounted DEF Before, Serviced
<1>5. Accounted'
  BY <1>1, <1>4 DEF Accounted, Before, Working
<1> QED
  BY <1>1, <1>3, <1>5 DEF RunTypes, Working

(* Steps that leave the files, and what is promised of them, as they are. *)
FilesRest == UNCHANGED <<disk, storage, edge, promised>>

LEMMA OutOfTarget ==
  ASSUME SyncInv, FilesRest, RunTypes', Accounted', sync'.step \notin Working
  PROVE  SyncInv'
<1>1. FileTypes'
  BY DEF FilesRest, SyncInv, FileTypes
<1>2. \A r \in RemoteFiles : ServedAsPromised(r) => ServedAsPromised(r)'
  BY DEF FilesRest, ServedAsPromised, HasBeen, HasHad
<1>3. sync'.step # "put"
  BY DEF Working
<1> QED
  BY <1>1, <1>2, <1>3 DEF SyncInv

LEMMA ChangeKeepsVersions ==
  ASSUME FileTypes, NEW f \in Produced, LocalChange(f)
  PROVE  FileTypes' /\ \A r \in RemoteFiles, v \in Nat : HasBeen(r, v) => HasBeen(r, v)'
<1>1. MaxVersion \in Nat \ {0}
  BY SyncAssumption
<1>2. PICK v \in Nat : /\ disk' = [disk EXCEPT ![f] = v]
                       /\ v > disk[f] \/ (v = 0 /\ disk[f] = 1)
  BY <1>1 DEF LocalChange, FileTypes
<1>3. \A m \in Uploads, n \in Nat : HasHad(m, n) => HasHad(m, n)'
  BY <1>2, LocalsAreProduced DEF HasHad, FileTypes
<1> QED
  BY <1>2, <1>3 DEF HasBeen, LocalChange, FileTypes

LEMMA LocalChangeInv == ASSUME SyncInv, NEW f \in Produced, LocalChange(f) PROVE SyncInv'
<1>1. FileTypes /\ RunTypes /\ FileTypes'
  BY ChangeKeepsVersions DEF SyncInv
<1>2. UNCHANGED <<storage, edge, sync, promised>>
  BY DEF LocalChange
<1>3. ASSUME NEW r \in RemoteFiles, NEW v \in Nat, HasBeen(r, v) PROVE HasBeen(r, v)'
  BY <1>1, <1>3, ChangeKeepsVersions
<1>4. RunTypes' /\ Accounted'
  BY <1>2 DEF SyncInv, RunTypes, Accounted, Before, IsSyncRun
<1>5. ASSUME NEW r \in RemoteFiles, ServedAsPromised(r) PROVE ServedAsPromised(r)'
  <2>1. storage[r] \in Nat
    BY <1>1 DEF FileTypes
  <2> QED
    BY <1>2, <1>3, <1>5, <2>1 DEF ServedAsPromised
<1>6. ASSUME NEW r \in RemoteFiles, sync.step \in Working, SeenIsUploaded(r) PROVE SeenIsUploaded(r)'
  <2>1. \A v \in sync.seen : v[2] \in Nat
    BY <1>1, <1>6 DEF RunTypes
  <2> QED
    BY <1>2, <1>3, <1>6, <2>1 DEF SeenIsUploaded
<1>7. ASSUME NEW r \in RemoteFiles, sync.step = "put", DataIsNew(r) PROVE DataIsNew(r)'
  <2>1. sync.data \in Nat
    BY <1>1, <1>7 DEF RunTypes
  <2> QED
    BY <1>2, <1>3, <1>7, <2>1 DEF DataIsNew
<1> QED
  BY <1>1, <1>2, <1>4, <1>5, <1>6, <1>7 DEF SyncInv

LEMMA VisitInv == ASSUME SyncInv, NEW z \in Zones, NEW r \in RemoteFiles, Visit(z, r) PROVE SyncInv'
<1>1. FileTypes /\ UNCHANGED <<disk, storage, sync, promised>>
  BY DEF SyncInv, Visit
<1>2. PICK page : page = [edge[z] EXCEPT ![r] = storage[r]]
  OBVIOUS
<1>3. edge' = [edge EXCEPT ![z] = page]
  BY <1>2 DEF Visit
<1>4. /\ page \in [RemoteFiles -> Nat] /\ page[r] = storage[r]
      /\ \A q \in RemoteFiles \ {r} : page[q] = edge[z][q]
  BY <1>1, <1>2 DEF FileTypes
<1>5. FileTypes' /\ \A y \in Zones, q \in RemoteFiles :
        edge'[y][q] = edge[y][q] \/ edge'[y][q] = storage[q]
  BY <1>1, <1>3, <1>4 DEF FileTypes
<1>6. RunTypes' /\ Accounted'
  BY <1>1 DEF SyncInv, RunTypes, Accounted, Before, IsSyncRun
<1>7. ASSUME NEW q \in RemoteFiles, ServedAsPromised(q) PROVE ServedAsPromised(q)'
  <2>1. \A y \in Zones : promised[<<y, q>>] <= storage[q] /\ promised[<<y, q>>] \in Nat
    BY <1>1, <1>7 DEF ServedAsPromised, FileTypes, Places
  <2>2. storage[q] \in Nat
    BY <1>1 DEF FileTypes
  <2>3. ASSUME NEW y \in Zones PROVE edge'[y][q] = 0 \/ edge'[y][q] >= promised[<<y, q>>]
    BY <1>5, <1>7, <2>1, <2>2 DEF ServedAsPromised
  <2> QED
    BY <1>1, <1>7, <2>3 DEF ServedAsPromised, HasBeen, HasHad
<1>8. \A q \in RemoteFiles : /\ SeenIsUploaded(q) => SeenIsUploaded(q)'
                             /\ DataIsNew(q) => DataIsNew(q)'
  BY <1>1 DEF SeenIsUploaded, DataIsNew, HasBeen, HasHad
<1> QED
  BY <1>1, <1>5, <1>6, <1>7, <1>8 DEF SyncInv

LEMMA StartSyncInv == ASSUME SyncInv, NEW dept \in SyncDepts, StartSync(dept) PROVE SyncInv'
<1>1. /\ FilesRest /\ sync'.step = "target" /\ sync'.at = 1 /\ sync'.done = {} /\ sync'.rc = 0
  BY DEF StartSync, FilesRest
<1>2. Before(1) = {}
  BY TargetsAreCounted DEF Before, Serviced
<1>3. RunTypes' /\ Accounted'
  BY <1>1, <1>2, TargetsAreCounted DEF RunTypes, Accounted, Working, Before
<1> QED
  BY <1>1, <1>3, OutOfTarget DEF Working

LEMMA SyncDiesInv == ASSUME SyncInv, SyncDies PROVE SyncInv'
<1>1. FilesRest /\ sync'.step = "none" /\ sync'.rc = 2
  BY DEF SyncDies, FilesRest, NoSync
<1>2. RunTypes' /\ Accounted'
  BY <1>1 DEF RunTypes, Accounted, Working
<1> QED
  BY <1>1, <1>2, OutOfTarget DEF Working

LEMMA BeginTargetInv == ASSUME SyncInv, BeginTarget PROVE SyncInv'
<1>1. sync.step = "target" /\ FilesRest /\ RunTypes /\ Accounted /\ FileTypes
  BY DEF BeginTarget, FilesRest, SyncInv
<1>2. sync.at \in 1 .. Len(SyncTargets) + 1 /\ Len(SyncTargets) \in Nat
  BY <1>1, TargetsAreCounted DEF RunTypes
<1>3. sync.rc = 0 => sync.done = Before(sync.at)
  BY <1>1 DEF Accounted
<1>4. CASE sync.at > Len(SyncTargets)
  <2>1. sync'.step = "none" /\ sync'.rc = sync.rc /\ sync'.done = sync.done
    BY <1>4 DEF BeginTarget
  <2>2. Before(sync.at) = Serviced
    BY <1>2, <1>4, TargetsAreCounted DEF Before, Serviced
  <2>3. RunTypes' /\ Accounted'
    BY <1>3, <2>1, <2>2 DEF RunTypes, Accounted, Working, Serviced
  <2> QED
    BY <1>1, <2>1, <2>3, OutOfTarget DEF Working
<1>5. CASE sync.at <= Len(SyncTargets) /\ ~PassesGate(SyncTargets[sync.at])
  <2>1. sync' = NextTarget(sync, sync.rc)
    BY <1>2, <1>5 DEF BeginTarget
  <2>2. sync'.step = "target" /\ sync'.at = sync.at + 1 /\ sync'.rc = sync.rc /\ sync'.done = sync.done
    BY <2>1 DEF NextTarget
  <2>3. Before(sync.at + 1) = Before(sync.at)
    BY <1>2, <1>5, TargetsAreCounted DEF Before, Serviced
  <2>4. RunTypes'
    BY <1>2, <1>5, <2>2 DEF RunTypes, Working
  <2>5. Accounted'
    BY <1>3, <2>2, <2>3 DEF Accounted, Before, Working
  <2> QED
    BY <1>1, <2>2, <2>4, <2>5, OutOfTarget DEF Working
<1>6. CASE sync.at <= Len(SyncTargets) /\ PassesGate(SyncTargets[sync.at])
  <2>1. PICK listed : listed = Present(Mappings(SyncTargets[sync.at], sync.dept))
    OBVIOUS
  <2>2. PICK left : left = SetToSeq(listed)
    OBVIOUS
  <2>3. PICK seen : seen = {<<m.remote, disk[m.local]>> : m \in listed}
    OBVIOUS
  <2>4. sync' = [step |-> "upload", dept |-> sync.dept, at |-> sync.at, rc |-> sync.rc, done |-> sync.done,
                 left |-> left, logs |-> FALSE, seen |-> seen, try |-> 1, data |-> 0]
    BY <1>2, <1>6, <2>1, <2>2, <2>3 DEF BeginTarget
  <2>5. sync.at \in DOMAIN SyncTargets /\ sync.at \in Serviced
    BY <1>2, <1>6, TargetsAreCounted DEF Serviced
  <2>6. IsFiniteSet(listed) /\ listed \subseteq Uploads
    BY <2>1, <2>5, ListsAreFinite, ListedAreUploads
  <2>7. left \in Seq(Uploads) /\ \A m \in listed : \E k \in DOMAIN left : left[k] = m
    <3>1. left \in Seq(listed)
      BY <2>2, <2>6, InSomeOrder
    <3>2. left \in Seq(Uploads)
      BY <2>6, <3>1
    <3> QED
      BY <2>2, <2>6, <3>2, InSomeOrder
  <2>8. \A v \in seen : \E m \in listed :
          /\ v = <<m.remote, disk[m.local]>> /\ m \in Uploads
          /\ m.local \in Produced /\ m.remote \in RemoteFiles /\ disk[m.local] \in Nat
    BY <1>1, <2>3, <2>6, LocalsAreProduced DEF FileTypes
  <2>9. /\ sync'.step = "upload" /\ sync'.at = sync.at /\ sync'.rc = sync.rc /\ sync'.done = sync.done
        /\ sync'.left = left /\ sync'.logs = FALSE /\ sync'.seen = seen
    BY <2>4
  <2>10. RunTypes'
    <3>1. IsSyncRun(sync')
      BY <2>4, <2>9 DEF IsSyncRun
    <3>2. seen \subseteq RemoteFiles \X Nat
      BY <2>8
    <3> QED
      BY <2>5, <2>7, <2>9, <3>1, <3>2 DEF RunTypes, Working, IsSyncRun
  <2>11. Accounted'
    BY <1>3, <2>9 DEF Accounted, Before, Working
  <2>12. ASSUME NEW r \in RemoteFiles, OneSource(r) PROVE SeenIsUploaded(r)'
    <3>1. SUFFICES ASSUME NEW v \in seen, v[1] = r
                   PROVE  HasBeen(r, v[2])' /\ \E k \in DOMAIN left : left[k].remote = r
      BY <2>9 DEF SeenIsUploaded
    <3>2. PICK m \in listed : v = <<m.remote, disk[m.local]>> /\ m \in Uploads /\ disk[m.local] \in Nat
      BY <2>8
    <3>3. m.remote = r /\ v[2] = disk[m.local]
      BY <3>1, <3>2
    <3>4. \A n \in Uploads : n.remote = r => n.local = m.local
      BY <2>12, <3>2, <3>3 DEF OneSource
    <3>5. HasBeen(r, v[2])'
      BY <1>1, <3>2, <3>3, <3>4 DEF HasBeen, HasHad, FilesRest
    <3> QED
      BY <2>7, <3>3, <3>5
  <2>13. \A r \in RemoteFiles : ServedAsPromised(r) => ServedAsPromised(r)'
    BY <1>1 DEF FilesRest, ServedAsPromised, HasBeen, HasHad
  <2>14. FileTypes'
    BY <1>1 DEF FileTypes, FilesRest
  <2> QED
    BY <2>9, <2>10, <2>11, <2>12, <2>13, <2>14 DEF SyncInv
<1> QED
  BY <1>2, <1>4, <1>5, <1>6

LEMMA ReadFileInv == ASSUME SyncInv, ReadFile PROVE SyncInv'
<1>1. sync.step = "upload" /\ sync.left # <<>> /\ FilesRest /\ RunTypes /\ Accounted /\ FileTypes
  BY DEF ReadFile, FilesRest, SyncInv
<1>2. IsSyncRun(sync) /\ sync.left \in Seq(Uploads) /\ sync.logs \in BOOLEAN
  BY <1>1 DEF RunTypes, Working
<1>3. PICK m \in Uploads : m = sync.left[1]
  BY <1>1, <1>2
<1>4. m.local \in Produced /\ disk[m.local] \in Nat
  BY <1>1, LocalsAreProduced DEF FileTypes
<1>5. CASE disk[m.local] = 0
  <2>1. \/ sync' = NextTarget(sync, 1)
        \/ sync' = [sync EXCEPT !.step = "upload", !.try = @ + 1]
    BY <1>3, <1>5 DEF ReadFile, TriesAgain, GivesUp
  <2>2. CASE sync' = NextTarget(sync, 1)
    <3>1. RunTypes' /\ Accounted' /\ sync'.step = "target"
      BY <1>1, <2>2, LeavesTarget DEF Working
    <3> QED
      BY <1>1, <3>1, OutOfTarget DEF Working
  <2>3. CASE sync' = [sync EXCEPT !.step = "upload", !.try = @ + 1]
    <3>1. PICK try : try = sync.try + 1
      OBVIOUS
    <3>2. sync' = [sync EXCEPT !.step = "upload", !.try = try]
      BY <2>3, <3>1
    <3>3. sync' = InTarget(sync, "upload", sync.done, sync.left, sync.logs, try, sync.data)
      BY <1>2, <3>2, RetryFields
    <3>4. sync.rc = 0 =>
            sync.done = Before(sync.at) \cup (IF "upload" = "purge" \/ sync.logs THEN {sync.at} ELSE {})
      BY <1>1 DEF Accounted, Working
    <3>5. /\ RunTypes' /\ Accounted' /\ sync'.step = "upload" /\ sync'.left = sync.left
          /\ sync'.logs = sync.logs /\ sync'.seen = sync.seen
      BY <1>1, <1>2, <3>3, <3>4, StaysInTarget DEF Working
    <3>6. FileTypes' /\ \A r \in RemoteFiles : ServedAsPromised(r) => ServedAsPromised(r)'
      BY <1>1 DEF FileTypes, FilesRest, ServedAsPromised, HasBeen, HasHad
    <3>7. \A r \in RemoteFiles : SeenIsUploaded(r) => SeenIsUploaded(r)'
      BY <1>1, <3>5 DEF FilesRest, SeenIsUploaded, HasBeen, HasHad
    <3> QED
      BY <1>1, <3>5, <3>6, <3>7 DEF SyncInv, Working
  <2> QED
    BY <2>1, <2>2, <2>3
<1>6. CASE disk[m.local] # 0
  <2>1. PICK data \in Nat : data = disk[m.local]
    BY <1>4
  <2>2. sync' = InTarget(sync, "put", sync.done, sync.left, sync.logs, sync.try, data)
    <3>1. sync' = [sync EXCEPT !.step = "put", !.data = data]
      BY <1>3, <1>6, <2>1 DEF ReadFile
    <3> QED
      BY <1>2, <3>1, ReadFields
  <2>3. /\ RunTypes' /\ Accounted' /\ sync'.step = "put" /\ sync'.left = sync.left
        /\ sync'.logs = sync.logs /\ sync'.seen = sync.seen /\ sync'.data = data
    <3>1. sync.rc = 0 => sync.done = Before(sync.at) \cup (IF "put" = "purge" \/ sync.logs THEN {sync.at} ELSE {})
      BY <1>1 DEF Accounted, Working
    <3> QED
      BY <1>1, <1>2, <2>2, <3>1, StaysInTarget DEF Working
  <2>4. \A r \in RemoteFiles : ServedAsPromised(r) => ServedAsPromised(r)'
    BY <1>1 DEF FilesRest, ServedAsPromised, HasBeen, HasHad
  <2>5. \A r \in RemoteFiles : SeenIsUploaded(r) => SeenIsUploaded(r)'
    BY <1>1, <2>3 DEF FilesRest, SeenIsUploaded, HasBeen, HasHad
  <2>6. ASSUME NEW r \in RemoteFiles, OneSource(r), ServedAsPromised(r), SeenIsUploaded(r)
        PROVE  DataIsNew(r)'
    <3>1. SUFFICES ASSUME m.remote = r
                   PROVE  /\ HasBeen(r, data)' /\ data >= storage[r]
                          /\ \A v \in sync.seen : v[1] = r => data >= v[2]
      BY <1>1, <1>3, <2>3 DEF DataIsNew, FilesRest
    <3>2. \A n \in Uploads : n.remote = r => n.local = m.local
      BY <2>6, <3>1 DEF OneSource
    <3>3. HasBeen(r, data)'
      BY <1>1, <2>1, <3>2 DEF HasBeen, HasHad, FilesRest
    <3>4. storage[r] \in Nat /\ HasHad(m, storage[r])
      BY <1>1, <2>6, <3>1 DEF FileTypes, ServedAsPromised, HasBeen
    <3>5. data >= storage[r]
      BY <1>6, <2>1, <3>4 DEF HasHad
    <3>6. ASSUME NEW v \in sync.seen, v[1] = r PROVE data >= v[2]
      <4>1. v[2] \in Nat
        BY <1>1 DEF RunTypes, Working
      <4>2. HasHad(m, v[2])
        BY <2>6, <3>1, <3>6 DEF SeenIsUploaded, HasBeen
      <4> QED
        BY <1>6, <2>1, <4>1, <4>2 DEF HasHad
    <3> QED
      BY <3>3, <3>5, <3>6
  <2>7. FileTypes'
    BY <1>1 DEF FileTypes, FilesRest
  <2> QED
    BY <1>1, <2>3, <2>4, <2>5, <2>6, <2>7 DEF SyncInv, Working
<1> QED
  BY <1>5, <1>6

(* A request of an upload: what it does to the storage zone. *)
LEMMA StoredKeeps ==
  ASSUME SyncInv, sync.step = "put", NEW stored \in BOOLEAN, UNCHANGED <<disk, edge, promised>>,
         storage' = IF stored THEN [storage EXCEPT ![sync.left[1].remote] = sync.data] ELSE storage
  PROVE  /\ FileTypes'
         /\ \A r \in RemoteFiles : OneSource(r) =>
              /\ ServedAsPromised(r)' /\ storage'[r] >= storage[r]
              /\ stored /\ sync.left[1].remote = r => storage'[r] = sync.data
<1>1. FileTypes /\ RunTypes /\ sync.data \in Nat /\ sync.left \in Seq(Uploads) /\ sync.left # <<>>
  BY DEF SyncInv, RunTypes, Working
<1>2. PICK m \in Uploads : m = sync.left[1]
  BY <1>1
<1>3. m.remote \in RemoteFiles
  BY LocalsAreProduced
<1>4. /\ FileTypes'
      /\ \A r \in RemoteFiles : storage'[r] = IF stored /\ m.remote = r THEN sync.data ELSE storage[r]
  BY <1>1, <1>2, <1>3 DEF FileTypes
<1>5. ASSUME NEW r \in RemoteFiles, OneSource(r)
      PROVE  ServedAsPromised(r)' /\ storage'[r] >= storage[r]
  <2>1. ServedAsPromised(r) /\ DataIsNew(r) /\ storage[r] \in Nat
    BY <1>1, <1>5 DEF SyncInv, FileTypes
  <2>2. storage'[r] >= storage[r]
    BY <1>1, <1>2, <1>4, <2>1 DEF DataIsNew
  <2>3. HasBeen(r, storage'[r])
    BY <1>2, <1>4, <2>1 DEF DataIsNew, ServedAsPromised
  <2>4. storage'[r] \in Nat /\ \A z \in Places : promised[<<z, r>>] \in Nat
    BY <1>1, <1>4 DEF FileTypes
  <2>5. \A z \in Places : promised[<<z, r>>] <= storage'[r]
    BY <2>1, <2>2, <2>4 DEF ServedAsPromised
  <2> QED
    BY <2>1, <2>2, <2>3, <2>5 DEF ServedAsPromised, HasBeen, HasHad
<1> QED
  BY <1>2, <1>4, <1>5

LEMMA PutFileInv == ASSUME SyncInv, PutFile PROVE SyncInv'
<1>1. /\ sync.step = "put" /\ UNCHANGED <<disk, edge, promised>>
      /\ RunTypes /\ Accounted /\ FileTypes
  BY DEF PutFile, SyncInv
<1>2. /\ IsSyncRun(sync) /\ sync.left \in Seq(Uploads) /\ sync.logs \in BOOLEAN /\ sync.left # <<>>
      /\ sync.data \in Nat /\ sync.seen \subseteq RemoteFiles \X Nat
  BY <1>1 DEF RunTypes, Working
<1>3. PICK stored \in BOOLEAN, acknowledged \in BOOLEAN :
        /\ acknowledged => stored
        /\ storage' = IF stored THEN [storage EXCEPT ![sync.left[1].remote] = sync.data] ELSE storage
        /\ sync' = IF acknowledged THEN [sync EXCEPT !.step = "upload", !.left = Tail(@), !.try = 1]
                   ELSE IF sync.try < MaxTries THEN [sync EXCEPT !.step = "upload", !.try = @ + 1]
                   ELSE NextTarget(sync, 1)
  BY DEF PutFile, TriesAgain, GivesUp
<1>4. /\ FileTypes'
      /\ \A r \in RemoteFiles : OneSource(r) =>
           /\ ServedAsPromised(r)' /\ storage'[r] >= storage[r] /\ storage[r] \in Nat /\ storage'[r] \in Nat
           /\ stored /\ sync.left[1].remote = r => storage'[r] = sync.data
  <2>1. /\ FileTypes'
        /\ \A r \in RemoteFiles : OneSource(r) =>
             /\ ServedAsPromised(r)' /\ storage'[r] >= storage[r]
             /\ stored /\ sync.left[1].remote = r => storage'[r] = sync.data
    BY <1>1, <1>3, StoredKeeps
  <2> QED
    BY <1>1, <2>1 DEF FileTypes
<1>5. sync.rc = 0 => sync.done = Before(sync.at) \cup (IF "upload" = "purge" \/ sync.logs THEN {sync.at} ELSE {})
  BY <1>1 DEF Accounted, Working
<1>6. ASSUME NEW r \in RemoteFiles, OneSource(r), NEW v \in sync.seen, v[1] = r
      PROVE  /\ HasBeen(r, v[2])' /\ v[2] \in Nat
             /\ \/ storage'[r] >= v[2]
                \/ /\ ~sync.logs /\ ~(stored /\ sync.left[1].remote = r)
                   /\ \E k \in DOMAIN sync.left : sync.left[k].remote = r
  <2>1. /\ HasBeen(r, v[2])
        /\ \/ storage[r] >= v[2]
           \/ ~sync.logs /\ \E k \in DOMAIN sync.left : sync.left[k].remote = r
    BY <1>1, <1>6 DEF SyncInv, SeenIsUploaded, Working
  <2>2. v[2] \in Nat
    BY <1>2, <1>6
  <2>3. HasBeen(r, v[2])'
    BY <1>1, <2>1 DEF HasBeen, HasHad
  <2>4. CASE storage[r] >= v[2]
    <3>1. storage'[r] >= v[2]
      BY <1>4, <1>6, <2>2, <2>4
    <3> QED
      BY <2>2, <2>3, <3>1
  <2>5. CASE stored /\ sync.left[1].remote = r
    <3>1. storage'[r] = sync.data /\ sync.data >= v[2]
      BY <1>1, <1>4, <1>6, <2>5 DEF SyncInv, DataIsNew
    <3> QED
      BY <2>2, <2>3, <3>1
  <2> QED
    BY <2>1, <2>2, <2>3, <2>4, <2>5
<1>7. CASE acknowledged
  <2>1. PICK left : left = Tail(sync.left)
    OBVIOUS
  <2>2. /\ left \in Seq(Uploads)
        /\ \A k \in DOMAIN sync.left : k # 1 => (k - 1 \in DOMAIN left /\ left[k - 1] = sync.left[k])
    BY <1>2, <2>1
  <2>3. sync' = InTarget(sync, "upload", sync.done, left, sync.logs, 1, sync.data)
    <3>1. sync' = [sync EXCEPT !.step = "upload", !.left = left, !.try = 1]
      BY <1>3, <1>7, <2>1
    <3> QED
      BY <1>2, <3>1, AnsweredFields
  <2>4. /\ RunTypes' /\ Accounted' /\ sync'.step = "upload" /\ sync'.left = left
        /\ sync'.logs = sync.logs /\ sync'.seen = sync.seen
    BY <1>1, <1>2, <1>5, <2>2, <2>3, StaysInTarget DEF Working
  <2>5. ASSUME NEW r \in RemoteFiles, OneSource(r) PROVE SeenIsUploaded(r)'
    <3>1. stored
      BY <1>3, <1>7
    <3>2. ASSUME NEW v \in sync.seen, v[1] = r
          PROVE  /\ HasBeen(r, v[2])'
                 /\ storage'[r] >= v[2] \/ (~sync.logs /\ \E k \in DOMAIN left : left[k].remote = r)
      BY <1>6, <2>2, <2>5, <3>1, <3>2
    <3> QED
      BY <2>4, <3>2 DEF SeenIsUploaded
  <2> QED
    BY <1>4, <2>4, <2>5 DEF SyncInv, Working
<1>8. CASE ~acknowledged /\ sync.try < MaxTries
  <2>1. sync' = InTarget(sync, "upload", sync.done, sync.left, sync.logs, sync.try + 1, sync.data)
    <3>1. PICK try : try = sync.try + 1
      OBVIOUS
    <3>2. sync' = [sync EXCEPT !.step = "upload", !.try = try]
      BY <1>3, <1>8, <3>1
    <3> QED
      BY <1>2, <3>1, <3>2, RetryFields
  <2>2. /\ RunTypes' /\ Accounted' /\ sync'.step = "upload" /\ sync'.left = sync.left
        /\ sync'.logs = sync.logs /\ sync'.seen = sync.seen
    BY <1>1, <1>2, <1>5, <2>1, StaysInTarget DEF Working
  <2>3. ASSUME NEW r \in RemoteFiles, OneSource(r) PROVE SeenIsUploaded(r)'
    BY <1>6, <2>2, <2>3 DEF SeenIsUploaded
  <2> QED
    BY <1>4, <2>2, <2>3 DEF SyncInv, Working
<1>9. CASE ~acknowledged /\ ~(sync.try < MaxTries)
  <2>1. sync' = NextTarget(sync, 1)
    BY <1>3, <1>9
  <2>2. RunTypes' /\ Accounted' /\ sync'.step = "target"
    BY <1>1, <2>1, LeavesTarget DEF Working
  <2> QED
    BY <1>4, <2>2 DEF SyncInv, Working
<1> QED
  BY <1>7, <1>8, <1>9

(* A file that is promised is one that was seen, and uploaded. *)
LEMMA PromiseKeeps ==
  ASSUME FileTypes, NEW here, here \in Places, UNCHANGED <<disk, storage>>,
         sync.seen \subseteq RemoteFiles \X Nat,
         promised' = [p \in DOMAIN promised |->
           IF p[1] = here /\ \E v \in sync.seen : v[1] = p[2]
           THEN (CHOOSE v \in sync.seen : v[1] = p[2])[2] ELSE promised[p]]
  PROVE  /\ promised' \in [Places \X RemoteFiles -> Nat]
         /\ \A r \in RemoteFiles :
              /\ \A z \in Places \ {here} : promised'[<<z, r>>] = promised[<<z, r>>]
              /\ \/ promised'[<<here, r>>] = promised[<<here, r>>]
                 \/ \E v \in sync.seen : v[1] = r /\ promised'[<<here, r>>] = v[2]
<1>1. DOMAIN promised = Places \X RemoteFiles /\ \A p \in Places \X RemoteFiles : promised[p] \in Nat
  BY DEF FileTypes
<1>2. \A q : (\E v \in sync.seen : v[1] = q) =>
        /\ (CHOOSE v \in sync.seen : v[1] = q) \in sync.seen
        /\ (CHOOSE v \in sync.seen : v[1] = q)[1] = q
        /\ (CHOOSE v \in sync.seen : v[1] = q)[2] \in Nat
  OBVIOUS
<1>3. ASSUME NEW z \in Places, NEW r \in RemoteFiles
      PROVE  /\ promised'[<<z, r>>] \in Nat
             /\ z # here => promised'[<<z, r>>] = promised[<<z, r>>]
             /\ \/ promised'[<<z, r>>] = promised[<<z, r>>]
                \/ \E v \in sync.seen : v[1] = r /\ promised'[<<z, r>>] = v[2]
  <2>1. promised'[<<z, r>>] = IF z = here /\ \E v \in sync.seen : v[1] = r
                              THEN (CHOOSE v \in sync.seen : v[1] = r)[2] ELSE promised[<<z, r>>]
    BY <1>1, Zenon
  <2> QED
    BY <1>1, <1>2, <2>1
<1>4. promised' = [p \in Places \X RemoteFiles |-> promised'[p]]
  BY <1>1, Zenon
<1>5. promised' \in [Places \X RemoteFiles -> Nat]
  <2>1. ASSUME NEW p \in Places \X RemoteFiles PROVE promised'[p] \in Nat
    <3>1. PICK z \in Places, r \in RemoteFiles : p = <<z, r>>
      OBVIOUS
    <3> QED
      BY <1>3, <3>1
  <2> QED
    BY <1>4, <2>1, Zenon
<1> QED
  BY <1>3, <1>5

LEMMA FilesDoneInv == ASSUME SyncInv, FilesDone PROVE SyncInv'
<1>1. /\ sync.step = "upload" /\ sync.left = <<>> /\ UNCHANGED <<disk, storage, edge>>
      /\ RunTypes /\ Accounted /\ FileTypes
  BY DEF FilesDone, SyncInv
<1>2. /\ IsSyncRun(sync) /\ sync.left \in Seq(Uploads) /\ sync.logs \in BOOLEAN
      /\ sync.seen \subseteq RemoteFiles \X Nat
  BY <1>1 DEF RunTypes, Working
<1>3a. PICK here : here = "" /\ here \in Places /\ here \notin Zones
  BY DEF Places, Zones
<1>3. here \in Places /\ here \notin Zones
  BY <1>3a
<1>4. /\ promised' \in [Places \X RemoteFiles -> Nat]
      /\ \A r \in RemoteFiles :
           /\ \A z \in Places \ {here} : promised'[<<z, r>>] = promised[<<z, r>>]
           /\ \/ promised'[<<here, r>>] = promised[<<here, r>>]
              \/ \E v \in sync.seen : v[1] = r /\ promised'[<<here, r>>] = v[2]
  <2>1. promised' = [p \in DOMAIN promised |->
           IF p[1] = here /\ \E v \in sync.seen : v[1] = p[2]
           THEN (CHOOSE v \in sync.seen : v[1] = p[2])[2] ELSE promised[p]]
    BY <1>3a DEF FilesDone
  <2> QED
    BY <1>1, <1>2, <1>3, <2>1, PromiseKeeps
<1>5. FileTypes'
  BY <1>1, <1>4 DEF FileTypes
<1>6. ASSUME NEW r \in RemoteFiles, OneSource(r)
      PROVE  ServedAsPromised(r)' /\ \A v \in sync.seen : v[1] = r => storage[r] >= v[2] /\ HasBeen(r, v[2])
  <2>1. ServedAsPromised(r) /\ SeenIsUploaded(r)
    BY <1>1, <1>6 DEF SyncInv, Working
  <2>2. \A v \in sync.seen : v[1] = r => storage[r] >= v[2] /\ HasBeen(r, v[2])
    BY <1>1, <2>1 DEF SeenIsUploaded
  <2>3. storage[r] \in Nat /\ \A v \in sync.seen : v[2] \in Nat
    BY <1>1, <1>2 DEF FileTypes
  <2>4. \A z \in Places : promised'[<<z, r>>] <= storage[r]
    BY <1>3, <1>4, <2>1, <2>2, <2>3 DEF ServedAsPromised
  <2>5. \A z \in Zones : promised'[<<z, r>>] = promised[<<z, r>>]
    BY <1>3, <1>4 DEF Places
  <2> QED
    BY <1>1, <2>1, <2>2, <2>4, <2>5 DEF ServedAsPromised, HasBeen, HasHad
<1>7. CASE sync.logs
  <2>1. sync' = NextTarget(sync, sync.rc)
    BY <1>7 DEF FilesDone, AfterFiles
  <2>2. RunTypes' /\ Accounted' /\ sync'.step = "target"
    BY <1>1, <1>7, <2>1, LeavesTarget DEF Working
  <2> QED
    BY <1>5, <1>6, <2>2 DEF SyncInv, Working
<1>8. CASE ~sync.logs
  <2>1. PICK done : done = sync.done \cup {sync.at}
    OBVIOUS
  <2>2. sync' = InTarget(sync, "purge", done, sync.left, sync.logs, sync.try, sync.data)
    <3>1. sync' = [sync EXCEPT !.step = "purge", !.done = done]
      BY <1>8, <2>1 DEF FilesDone, AfterFiles
    <3> QED
      BY <1>2, <3>1, DoneFields
  <2>3. sync.rc = 0 => done = Before(sync.at) \cup (IF "purge" = "purge" \/ sync.logs THEN {sync.at} ELSE {})
    BY <1>1, <1>8, <2>1 DEF Accounted, Working
  <2>4. RunTypes' /\ Accounted' /\ sync'.step = "purge" /\ sync'.seen = sync.seen
    BY <1>1, <1>2, <2>2, <2>3, StaysInTarget DEF Working
  <2>5. ASSUME NEW r \in RemoteFiles, OneSource(r) PROVE SeenIsUploaded(r)'
    BY <1>1, <1>6, <2>4, <2>5 DEF SeenIsUploaded, HasBeen, HasHad
  <2> QED
    BY <1>5, <1>6, <2>4, <2>5 DEF SyncInv, Working
<1> QED
  BY <1>2, <1>7, <1>8

LEMMA PurgeInv == ASSUME SyncInv, Purge PROVE SyncInv'
<1>1. /\ sync.step = "purge" /\ UNCHANGED <<disk, storage>>
      /\ RunTypes /\ Accounted /\ FileTypes
  BY DEF Purge, SyncInv
<1>2. /\ IsSyncRun(sync) /\ sync.left \in Seq(Uploads) /\ sync.logs \in BOOLEAN
      /\ sync.seen \subseteq RemoteFiles \X Nat /\ sync.at \in Serviced
  BY <1>1 DEF RunTypes, Working
<1>3. PICK t : t = SyncTargets[sync.at]
  OBVIOUS
<1>4. sync.at \in DOMAIN SyncTargets
  BY <1>2 DEF Serviced
<1>5. FileTypes' /\ \A r \in RemoteFiles : OneSource(r) => ServedAsPromised(r)'
  <2>1. PICK purged \in BOOLEAN :
          /\ purged => t.zone \in Zones
          /\ edge' = IF purged THEN [edge EXCEPT ![t.zone] = [r \in RemoteFiles |-> 0]] ELSE edge
          /\ promised' = [p \in DOMAIN promised |->
                IF purged /\ p[1] = t.zone /\ \E v \in sync.seen : v[1] = p[2]
                THEN (CHOOSE v \in sync.seen : v[1] = p[2])[2] ELSE promised[p]]
    BY <1>3, <1>4 DEF Purge, Zones
  <2>2. CASE ~purged
    <3>1. edge' = edge
      BY <2>1, <2>2
    <3>2. promised' = [p \in DOMAIN promised |-> promised[p]]
      BY <2>1, <2>2
    <3>3. promised' = promised
      BY <1>1, <3>2 DEF FileTypes
    <3> QED
      BY <1>1, <3>1, <3>3 DEF SyncInv, FileTypes, ServedAsPromised, HasBeen, HasHad
  <2>3. CASE purged
    <3>1. t.zone \in Zones /\ t.zone \in Places
      BY <2>1, <2>3 DEF Places
    <3>2. /\ edge' \in [Zones -> [RemoteFiles -> Nat]]
          /\ \A r \in RemoteFiles : edge'[t.zone][r] = 0 /\ \A z \in Zones \ {t.zone} : edge'[z][r] = edge[z][r]
      BY <1>1, <2>1, <2>3, <3>1 DEF FileTypes
    <3>3. /\ promised' \in [Places \X RemoteFiles -> Nat]
          /\ \A r \in RemoteFiles :
               /\ \A z \in Places \ {t.zone} : promised'[<<z, r>>] = promised[<<z, r>>]
               /\ \/ promised'[<<t.zone, r>>] = promised[<<t.zone, r>>]
                  \/ \E v \in sync.seen : v[1] = r /\ promised'[<<t.zone, r>>] = v[2]
      <4>1. promised' = [p \in DOMAIN promised |->
               IF p[1] = t.zone /\ \E v \in sync.seen : v[1] = p[2]
               THEN (CHOOSE v \in sync.seen : v[1] = p[2])[2] ELSE promised[p]]
        BY <2>1, <2>3
      <4> QED
        BY <1>1, <1>2, <3>1, <4>1, PromiseKeeps
    <3>4. FileTypes'
      BY <1>1, <3>2, <3>3 DEF FileTypes
    <3>5. ASSUME NEW r \in RemoteFiles, OneSource(r) PROVE ServedAsPromised(r)'
      <4>1. ServedAsPromised(r) /\ SeenIsUploaded(r)
        BY <1>1, <3>5 DEF SyncInv, Working
      <4>2. \A v \in sync.seen : v[1] = r => storage[r] >= v[2]
        BY <1>1, <4>1 DEF SeenIsUploaded
      <4>3. storage[r] \in Nat /\ \A v \in sync.seen : v[2] \in Nat
        BY <1>1, <1>2 DEF FileTypes
      <4>4. \A z \in Places : promised'[<<z, r>>] <= storage[r]
        BY <3>1, <3>3, <4>1, <4>2, <4>3 DEF ServedAsPromised
      <4>5. \A z \in Zones : edge'[z][r] = 0 \/ edge'[z][r] >= promised'[<<z, r>>]
        <5>1. \A z \in Zones \ {t.zone} :
                edge'[z][r] = edge[z][r] /\ promised'[<<z, r>>] = promised[<<z, r>>]
          BY <3>2, <3>3 DEF Places
        <5>2. edge'[t.zone][r] = 0
          BY <3>2
        <5>3. \A z \in Zones : edge[z][r] = 0 \/ edge[z][r] >= promised[<<z, r>>]
          BY <4>1 DEF ServedAsPromised
        <5> QED
          BY <5>1, <5>2, <5>3
      <4> QED
        BY <1>1, <4>1, <4>4, <4>5 DEF ServedAsPromised, HasBeen, HasHad
    <3> QED
      BY <3>4, <3>5
  <2> QED
    BY <2>2, <2>3
<1>6. sync' = NextTarget(sync, sync.rc)
      \/ sync' = [sync EXCEPT !.step = "upload", !.logs = TRUE, !.try = 1,
                             !.left = SetToSeq(Present(Named(Regression, t.path)))]
  BY <1>3 DEF Purge, AfterPurge
<1>7. CASE sync' = NextTarget(sync, sync.rc)
  <2>1. RunTypes' /\ Accounted' /\ sync'.step = "target"
    BY <1>1, <1>7, LeavesTarget DEF Working
  <2> QED
    BY <1>5, <2>1 DEF SyncInv, Working
<1>8. CASE sync' = [sync EXCEPT !.step = "upload", !.logs = TRUE, !.try = 1,
                               !.left = SetToSeq(Present(Named(Regression, t.path)))]
  <2>1. PICK left : left = SetToSeq(Present(Named(Regression, t.path)))
    OBVIOUS
  <2>2. left \in Seq(Uploads)
    <3>1. PICK logs : /\ logs = Present(Named(Regression, t.path))
                      /\ IsFiniteSet(logs) /\ logs \subseteq Uploads
      BY <1>3, <1>4, ListsAreFinite, ListedAreUploads
    <3>2. left \in Seq(logs)
      BY <2>1, <3>1, InSomeOrder
    <3> QED
      BY <3>1, <3>2
  <2>3. sync' = InTarget(sync, "upload", sync.done, left, TRUE, 1, sync.data)
    <3>1. PICK logs : logs = TRUE
      OBVIOUS
    <3>2. PICK y1 : y1 = [sync EXCEPT !.step = "upload"]
      OBVIOUS
    <3>3. y1 = InTarget(sync, "upload", sync.done, sync.left, sync.logs, sync.try, sync.data)
      BY <1>2, <3>2 DEF IsSyncRun, InTarget
    <3>4. PICK y2 : y2 = [y1 EXCEPT !.logs = logs]
      OBVIOUS
    <3>5. y2 = InTarget(sync, "upload", sync.done, sync.left, logs, sync.try, sync.data)
      BY <3>3, <3>4 DEF InTarget
    <3>6. PICK y3 : y3 = [y2 EXCEPT !.try = 1]
      OBVIOUS
    <3>7. y3 = InTarget(sync, "upload", sync.done, sync.left, logs, 1, sync.data)
      BY <3>5, <3>6 DEF InTarget
    <3>8. [y3 EXCEPT !.left = left] = InTarget(sync, "upload", sync.done, left, logs, 1, sync.data)
      BY <3>7 DEF InTarget
    <3> QED
      BY <1>8, <2>1, <3>1, <3>2, <3>4, <3>6, <3>8
  <2>4. sync.rc = 0 => sync.done = Before(sync.at) \cup (IF "upload" = "purge" \/ TRUE THEN {sync.at} ELSE {})
    BY <1>1 DEF Accounted, Working
  <2>5. RunTypes' /\ Accounted' /\ sync'.step = "upload" /\ sync'.seen = sync.seen
    BY <1>1, <2>2, <2>3, <2>4, StaysInTarget DEF Working
  <2>6. ASSUME NEW r \in RemoteFiles, OneSource(r) PROVE SeenIsUploaded(r)'
    <3>1. SeenIsUploaded(r)
      BY <1>1, <2>6 DEF SyncInv, Working
    <3> QED
      BY <1>1, <2>5, <3>1 DEF SeenIsUploaded, HasBeen, HasHad
  <2> QED
    BY <1>5, <2>5, <2>6 DEF SyncInv, Working
<1> QED
  BY <1>6, <1>7, <1>8

LEMMA SyncSteps == SyncInv /\ [SyncNext]_syncVars => SyncInv'
<1>1. ASSUME SyncInv, UNCHANGED syncVars PROVE SyncInv'
  <2>1. UNCHANGED <<disk, storage, edge, sync, promised>>
    BY <1>1 DEF syncVars
  <2> QED
    BY <1>1, <2>1 DEF SyncInv, FileTypes, RunTypes, Accounted, Before, IsSyncRun, ServedAsPromised,
                      SeenIsUploaded, DataIsNew, HasBeen, HasHad
<1> QED
  BY <1>1, LocalChangeInv, VisitInv, StartSyncInv, BeginTargetInv, ReadFileInv, PutFileInv, FilesDoneInv,
     PurgeInv, SyncDiesInv DEF SyncNext

LEMMA SyncFollows == SyncInv => SyncedIsServed
<1> SUFFICES ASSUME SyncInv PROVE SyncedIsServed
  OBVIOUS
<1>1. ExitIsHonest
  BY DEF SyncInv, Accounted, ExitIsHonest
<1>2. ASSUME NEW r \in RemoteFiles, OneSource(r)
      PROVE  /\ storage[r] >= promised[<<"", r>>]
             /\ \A z \in Zones : edge[z][r] = 0 \/ edge[z][r] >= promised[<<z, r>>]
  <2>1. PICK nowhere : nowhere = "" /\ nowhere \in Places
    BY DEF Places
  <2>2. storage[r] \in Nat /\ promised[<<nowhere, r>>] \in Nat
    BY <2>1 DEF SyncInv, FileTypes
  <2>3. ServedAsPromised(r)
    BY <1>2 DEF SyncInv
  <2>4. storage[r] >= promised[<<nowhere, r>>]
    BY <2>1, <2>2, <2>3 DEF ServedAsPromised
  <2> QED
    BY <2>1, <2>3, <2>4 DEF ServedAsPromised
<1> QED
  BY <1>1, <1>2 DEF SyncedIsServed

(* The sync of any targets and files, with uploads and purges that fail and are retried,
   and runs that die: a sync that reports success has done every target, and of a
   file that one target publishes the storage zone has what the sync saw or newer, and
   no zone it purged serves anything older. *)
THEOREM SyncIsServed == Spec => []SyncedIsServed
<1>1. Init => SyncInv
  BY SyncStart DEF Init
<1>2. [Next]_vars => [SyncNext]_syncVars
  BY DEF Next, vars, Rests, Parts
<1>3. SyncInv /\ [Next]_vars => SyncInv'
  BY <1>2, SyncSteps
<1>4. SyncInv => SyncedIsServed
  BY SyncFollows
<1> QED
  BY <1>1, <1>3, <1>4, PTL DEF Spec

-----------------------------------------------------------------------------
(* The audit log. *)

Seconds == 1 .. MaxSeconds

AuditSteps == {"idle", "rotate", "touch", "open", "write"}

AuditTypes ==
  /\ current \in {0} \cup Inodes
  /\ rotated \in [Seconds -> {0} \cup Inodes]
  /\ content \in [Inodes -> SUBSET Nat]
  /\ writer \in [Writers -> [step : AuditSteps, name : {0} \cup Seconds, inode : {0} \cup Inodes]]
  /\ \A w \in Writers : /\ writer[w].step = "rotate" => writer[w].name \in Seconds
                        /\ writer[w].step = "write" <=> writer[w].inode # 0
  /\ second \in Seconds /\ written \in Nat /\ sameSecond \in BOOLEAN

LogNames == ({current} \cup {rotated[s] : s \in Seconds}) \ {0}

(* The inodes that Fresh may not take. *)
Used == {i \in Inodes : \/ i = current \/ content[i] # {}
                        \/ \E s \in Seconds : rotated[s] = i
                        \/ \E w \in Writers : writer[w].inode = i}

AppendsNow == {w \in Writers : writer[w].step # "idle"}

Appending == {w \in Writers : writer[w].step \in {"touch", "open", "write"}}

InodesSuffice ==
  /\ written + Cardinality(AppendsNow) <= MaxEvents
  /\ Cardinality(Used) <= written + Cardinality(Appending) + (IF current = 0 THEN 0 ELSE 1)

AuditInv ==
  /\ AuditTypes /\ InodesSuffice
  /\ ~sameSecond => /\ \A w \in Writers : writer[w].step = "write" => writer[w].inode \in LogNames
                    /\ OnDisk = 1 .. written

-----------------------------------------------------------------------------
LEMMA OneMore ==
  ASSUME NEW S, IsFiniteSet(S), NEW x, NEW T, T \subseteq S \cup {x}
  PROVE  IsFiniteSet(T) /\ Cardinality(T) \in Nat /\ Cardinality(S) \in Nat
         /\ Cardinality(T) <= Cardinality(S) + 1
<1>1. /\ IsFiniteSet(S \cup {x}) /\ Cardinality(S) \in Nat
      /\ Cardinality(S \cup {x}) = Cardinality(S) \/ Cardinality(S \cup {x}) = Cardinality(S) + 1
  BY FS_AddElement, FS_CardinalityType
<1>2. IsFiniteSet(T) /\ Cardinality(T) <= Cardinality(S \cup {x})
  BY <1>1, FS_Subset
<1>3. Cardinality(T) \in Nat
  BY <1>2, FS_CardinalityType
<1> QED
  BY <1>1, <1>2, <1>3

LEMMA NoMore ==
  ASSUME NEW S, IsFiniteSet(S), NEW T, T \subseteq S
  PROVE  IsFiniteSet(T) /\ Cardinality(T) \in Nat /\ Cardinality(S) \in Nat
         /\ Cardinality(T) <= Cardinality(S)
BY FS_Subset, FS_CardinalityType

LEMMA OneLess ==
  ASSUME NEW S, IsFiniteSet(S), NEW x \in S, NEW T, T \subseteq S \ {x}
  PROVE  IsFiniteSet(T) /\ Cardinality(T) \in Nat /\ Cardinality(S) \in Nat
         /\ Cardinality(T) + 1 <= Cardinality(S)
<1>1. /\ IsFiniteSet(S \ {x}) /\ Cardinality(S \ {x}) = Cardinality(S) - 1 /\ Cardinality(S) \in Nat
  BY FS_RemoveElement, FS_CardinalityType
<1>2. IsFiniteSet(T) /\ Cardinality(T) \in Nat /\ Cardinality(T) <= Cardinality(S \ {x})
  BY <1>1, FS_Subset, FS_CardinalityType
<1> QED
  BY <1>1, <1>2

LEMMA AuditSets ==
  /\ IsFiniteSet(Inodes) /\ Cardinality(Inodes) = MaxEvents + 1
  /\ \A S : S \subseteq Inodes \/ S \subseteq Writers => IsFiniteSet(S) /\ Cardinality(S) \in Nat
<1>1. IsFiniteSet(Inodes) /\ Cardinality(Inodes) = MaxEvents + 1
  BY AuditBoundsAssumption, FS_Interval DEF Inodes
<1>2. IsFiniteSet(Writers)
  BY AuditBoundsAssumption
<1> QED
  BY <1>1, <1>2, NoMore

(* There is always an inode for a log that is missing. *)
LEMMA FreshIsFree ==
  ASSUME AuditTypes, InodesSuffice, current = 0,
         NEW w \in Writers, writer[w].step \in {"touch", "open"}
  PROVE  Fresh \in Inodes \ Used
<1>1. Used \subseteq Inodes /\ AppendsNow \subseteq Writers /\ Appending \subseteq AppendsNow
  BY DEF Used, AppendsNow, Appending
<1>2. /\ Cardinality(Used) \in Nat /\ Cardinality(AppendsNow) \in Nat /\ Cardinality(Appending) \in Nat
      /\ Cardinality(Appending) <= Cardinality(AppendsNow)
  <2>1. IsFiniteSet(AppendsNow) /\ Cardinality(AppendsNow) \in Nat
    BY <1>1, AuditSets
  <2> QED
    BY <1>1, <2>1, AuditSets, NoMore
<1>3. Cardinality(Used) <= MaxEvents
  BY <1>2, AuditBoundsAssumption DEF AuditTypes, InodesSuffice
<1>4. Used # Inodes
  BY <1>2, <1>3, AuditSets, AuditBoundsAssumption
<1>5. PICK i \in Inodes : i \notin Used
  BY <1>1, <1>4
<1>6. /\ i # current /\ \A s \in 1 .. MaxSeconds : rotated[s] # i
      /\ content[i] = {} /\ \A x \in Writers : writer[x].inode # i
  BY <1>5 DEF Used, Seconds
<1>7. /\ Fresh \in Inodes /\ Fresh # current /\ \A s \in 1 .. MaxSeconds : rotated[s] # Fresh
      /\ content[Fresh] = {} /\ \A x \in Writers : writer[x].inode # Fresh
  BY <1>6, Zenon DEF Fresh
<1>8. PICK f : f = Fresh
  OBVIOUS
<1> QED
  BY <1>7, <1>8 DEF Used, Seconds

LEMMA AuditStart == AuditInit => AuditInv
<1> SUFFICES ASSUME AuditInit PROVE AuditInv
  OBVIOUS
<1>1. AuditTypes
  <2>1. AtRest \in [step : AuditSteps, name : {0} \cup Seconds, inode : {0} \cup Inodes]
        /\ AtRest.step = "idle" /\ AtRest.inode = 0
    BY DEF AtRest, AuditSteps
  <2>2. \A w \in Writers : writer[w] = AtRest
    BY DEF AuditInit
  <2>3. writer \in [Writers -> [step : AuditSteps, name : {0} \cup Seconds, inode : {0} \cup Inodes]]
    BY <2>1 DEF AuditInit
  <2>4. 1 \in Seconds
    BY AuditBoundsAssumption DEF Seconds
  <2> QED
    BY <2>1, <2>2, <2>3, <2>4 DEF AuditInit, AuditTypes, Seconds
<1>2. Used = {} /\ AppendsNow = {} /\ Appending = {}
  BY DEF AuditInit, Used, AppendsNow, Appending, AtRest, Inodes, Seconds
<1>3. InodesSuffice
  BY <1>2, FS_EmptySet, AuditBoundsAssumption DEF InodesSuffice, AuditInit
<1>4. \A w \in Writers : writer[w].step = "idle"
  BY DEF AuditInit, AtRest
<1>5. OnDisk = {} /\ written = 0
  BY DEF OnDisk, AuditInit
<1> QED
  BY <1>1, <1>3, <1>4, <1>5 DEF AuditInv

(* A writer's step leaves the others where they are. *)
LEMMA WriterMoves ==
  ASSUME AuditTypes, NEW w \in Writers, NEW x, Moves(w, x),
         x \in [step : AuditSteps, name : {0} \cup Seconds, inode : {0} \cup Inodes],
         x.step = "rotate" => x.name \in Seconds, x.step = "write" <=> x.inode # 0
  PROVE  /\ writer' \in [Writers -> [step : AuditSteps, name : {0} \cup Seconds, inode : {0} \cup Inodes]]
         /\ writer'[w] = x /\ \A v \in Writers : v # w => writer'[v] = writer[v]
         /\ \A v \in Writers : /\ writer'[v].step = "rotate" => writer'[v].name \in Seconds
                               /\ writer'[v].step = "write" <=> writer'[v].inode # 0
BY DEF AuditTypes, Moves

LEMMA ChecksInv == ASSUME AuditInv, NEW w \in Writers, Checks(w) PROVE AuditInv'
<1>1. AuditTypes /\ InodesSuffice
  BY DEF AuditInv
<1>2. PICK x : /\ Moves(w, x)
               /\ x \in [step : {"rotate", "open"}, name : {0} \cup Seconds, inode : {0}]
               /\ x.step = "rotate" => x.name \in Seconds
  <2>1. [AtRest EXCEPT !.step = "open"] = [step |-> "open", name |-> 0, inode |-> 0]
    BY DEF AtRest
  <2>2. [AtRest EXCEPT !.step = "rotate", !.name = second] = [step |-> "rotate", name |-> second, inode |-> 0]
    <3>1. PICK y : y = [AtRest EXCEPT !.step = "rotate"]
      OBVIOUS
    <3>2. y = [step |-> "rotate", name |-> 0, inode |-> 0]
      BY <3>1 DEF AtRest
    <3>3. [y EXCEPT !.name = second] = [step |-> "rotate", name |-> second, inode |-> 0]
      BY <3>2
    <3> QED
      BY <3>1, <3>3
  <2>3. second \in Seconds
    BY <1>1 DEF AuditTypes
  <2>4. CASE Size > Threshold
    BY <2>2, <2>3, <2>4 DEF Checks
  <2>5. CASE ~(Size > Threshold)
    BY <2>1, <2>5 DEF Checks
  <2> QED
    BY <2>4, <2>5
<1>3. /\ writer[w].step = "idle" /\ written + Cardinality(AppendsNow) < MaxEvents
      /\ UNCHANGED <<current, rotated, content, second, written, sameSecond>>
  BY DEF Checks, AppendsNow
<1>4. /\ writer' \in [Writers -> [step : AuditSteps, name : {0} \cup Seconds, inode : {0} \cup Inodes]]
      /\ writer'[w] = x /\ \A v \in Writers : v # w => writer'[v] = writer[v]
      /\ \A v \in Writers : /\ writer'[v].step = "rotate" => writer'[v].name \in Seconds
                            /\ writer'[v].step = "write" <=> writer'[v].inode # 0
  BY <1>1, <1>2, WriterMoves DEF AuditSteps
<1>5. AuditTypes'
  BY <1>1, <1>3, <1>4 DEF AuditTypes
<1>6. InodesSuffice'
  <2>1. AppendsNow' \subseteq AppendsNow \cup {w} /\ Used' \subseteq Used /\ Appending \subseteq Appending'
    BY <1>1, <1>2, <1>3, <1>4 DEF AppendsNow, Used, Appending, AuditTypes
  <2>2. Used \subseteq Inodes /\ AppendsNow \subseteq Writers /\ Appending' \subseteq Writers
    BY DEF Used, AppendsNow, Appending
  <2>3. IsFiniteSet(Used) /\ IsFiniteSet(AppendsNow) /\ IsFiniteSet(Appending')
    BY <2>2, AuditSets
  <2>4. /\ Cardinality(AppendsNow') \in Nat /\ Cardinality(AppendsNow) \in Nat
        /\ Cardinality(AppendsNow') <= Cardinality(AppendsNow) + 1
    BY <2>1, <2>3, OneMore
  <2>5. /\ Cardinality(Used') \in Nat /\ Cardinality(Used) \in Nat
        /\ Cardinality(Used') <= Cardinality(Used)
    BY <2>1, <2>3, NoMore
  <2>6. /\ Cardinality(Appending') \in Nat /\ Cardinality(Appending) \in Nat
        /\ Cardinality(Appending) <= Cardinality(Appending')
    BY <2>1, <2>3, NoMore
  <2> QED
    BY <1>1, <1>3, <2>4, <2>5, <2>6, AuditBoundsAssumption DEF InodesSuffice, AuditTypes
<1>7. \A v \in Writers : writer'[v].step = "write" => writer[v] = writer'[v]
  BY <1>2, <1>4
<1>8. LogNames' = LogNames /\ OnDisk' = OnDisk
  BY <1>3 DEF LogNames, OnDisk
<1> QED
  BY <1>3, <1>5, <1>6, <1>7, <1>8 DEF AuditInv

LEMMA RotatesInv == ASSUME AuditInv, NEW w \in Writers, Rotates(w) PROVE AuditInv'
<1>1. AuditTypes /\ InodesSuffice
  BY DEF AuditInv
<1>2. /\ writer[w].step = "rotate" /\ writer[w].name \in Seconds
      /\ UNCHANGED <<content, second, written>>
  BY <1>1 DEF Rotates, AuditTypes
<1>3. PICK x : /\ Moves(w, x) /\ x \in [step : {"touch", "open"}, name : {0}, inode : {0}]
               /\ current # 0 => x.step = "touch"
  <2>1. /\ [AtRest EXCEPT !.step = "open"] = [step |-> "open", name |-> 0, inode |-> 0]
        /\ [AtRest EXCEPT !.step = "touch"] = [step |-> "touch", name |-> 0, inode |-> 0]
    BY DEF AtRest
  <2>2. CASE current = 0
    BY <2>1, <2>2 DEF Rotates
  <2>3. CASE current # 0
    BY <2>1, <2>3 DEF Rotates
  <2> QED
    BY <2>2, <2>3
<1>4. /\ writer' \in [Writers -> [step : AuditSteps, name : {0} \cup Seconds, inode : {0} \cup Inodes]]
      /\ writer'[w] = x /\ \A v \in Writers : v # w => writer'[v] = writer[v]
      /\ \A v \in Writers : /\ writer'[v].step = "rotate" => writer'[v].name \in Seconds
                            /\ writer'[v].step = "write" <=> writer'[v].inode # 0
  BY <1>1, <1>3, WriterMoves DEF AuditSteps
<1>5. \/ current = 0 /\ UNCHANGED <<current, rotated, sameSecond>>
      \/ /\ current # 0 /\ current' = 0 /\ rotated' = [rotated EXCEPT ![writer[w].name] = current]
         /\ sameSecond' = (sameSecond \/ rotated[writer[w].name] # 0)
  BY DEF Rotates
<1>6. AuditTypes'
  <2>1. rotated' \in [Seconds -> {0} \cup Inodes] /\ current' \in {0} \cup Inodes
    BY <1>1, <1>2, <1>5 DEF AuditTypes
  <2>2. sameSecond' \in BOOLEAN
    BY <1>1, <1>5 DEF AuditTypes
  <2> QED
    BY <1>1, <1>2, <1>4, <2>1, <2>2 DEF AuditTypes
<1>7. InodesSuffice'
  <2>1. AppendsNow' = AppendsNow /\ Appending \subseteq Appending' /\ w \notin Appending
        /\ (current # 0 => w \in Appending')
    BY <1>2, <1>3, <1>4 DEF AppendsNow, Appending
  <2>2. Used' \subseteq Used
    <3>1. \A v \in Writers : writer'[v].inode # 0 => writer'[v].inode = writer[v].inode
      BY <1>3, <1>4
    <3>2. \A s \in Seconds : rotated'[s] = rotated[s] \/ rotated'[s] = current
      BY <1>1, <1>2, <1>5 DEF AuditTypes
    <3>3. current' = 0 \/ current' = current
      BY <1>5
    <3>4. \A i \in Inodes : i # 0
      BY AuditBoundsAssumption DEF Inodes
    <3> QED
      BY <1>2, <3>1, <3>2, <3>3, <3>4 DEF Used
  <2>3. Used \subseteq Inodes /\ Appending \subseteq Writers /\ Appending' \subseteq Writers
    BY DEF Used, Appending
  <2>4. IsFiniteSet(Used) /\ IsFiniteSet(Appending')
    BY <2>3, AuditSets
  <2>5. /\ Cardinality(Used') \in Nat /\ Cardinality(Used) \in Nat
        /\ Cardinality(Used') <= Cardinality(Used)
    BY <2>2, <2>4, NoMore
  <2>6. CASE current = 0
    <3>1. /\ Cardinality(Appending') \in Nat /\ Cardinality(Appending) \in Nat
          /\ Cardinality(Appending) <= Cardinality(Appending')
      BY <2>1, <2>4, NoMore
    <3> QED
      BY <1>1, <1>2, <1>5, <2>1, <2>5, <2>6, <3>1 DEF InodesSuffice, AuditTypes
  <2>7. CASE current # 0
    <3>1. /\ Cardinality(Appending') \in Nat /\ Cardinality(Appending) \in Nat
          /\ Cardinality(Appending) + 1 <= Cardinality(Appending')
      BY <2>1, <2>4, <2>7, OneLess
    <3> QED
      BY <1>1, <1>2, <1>5, <2>1, <2>5, <2>7, <3>1 DEF InodesSuffice, AuditTypes
  <2> QED
    BY <2>6, <2>7
<1>8. ASSUME ~sameSecond'
      PROVE  /\ \A v \in Writers : writer'[v].step = "write" => writer'[v].inode \in LogNames'
             /\ OnDisk' = 1 .. written'
  <2>1. ~sameSecond
    BY <1>5, <1>8
  <2>2. LogNames' = LogNames
    <3>1. CASE current = 0
      BY <1>5, <3>1 DEF LogNames
    <3>2. CASE current # 0
      <4>1. PICK at, was : at = writer[w].name /\ was = rotated
        OBVIOUS
      <4>2. was \in [Seconds -> {0} \cup Inodes] /\ at \in Seconds /\ was[at] = 0
        BY <1>1, <1>2, <1>5, <1>8, <3>2, <4>1 DEF AuditTypes
      <4>3. \A s \in Seconds : rotated'[s] = IF s = at THEN current ELSE was[s]
        BY <1>5, <3>2, <4>1, <4>2
      <4>4. current' = 0
        BY <1>5, <3>2
      <4> QED
        BY <3>2, <4>1, <4>2, <4>3, <4>4 DEF LogNames
    <3> QED
      BY <3>1, <3>2
  <2>3. OnDisk' = OnDisk
    BY <1>2, <2>2 DEF OnDisk, LogNames, Seconds
  <2>4. \A v \in Writers : writer'[v].step = "write" => writer[v] = writer'[v]
    BY <1>3, <1>4
  <2> QED
    BY <1>2, <2>1, <2>2, <2>3, <2>4 DEF AuditInv
<1> QED
  BY <1>6, <1>7, <1>8 DEF AuditInv

(* touch and open: a log that is missing is created empty, the step that follows keeps
   its place among those that append. *)
LEMMA CreatesInv ==
  ASSUME AuditInv, NEW w \in Writers, writer[w].step \in {"touch", "open"},
         current' = (IF current = 0 THEN Fresh ELSE current),
         NEW x, Moves(w, x), x \in [step : {"open", "write"}, name : {0}, inode : {0} \cup Inodes],
         IF x.step = "write" THEN x.inode = current' ELSE x.inode = 0,
         UNCHANGED <<rotated, content, second, written, sameSecond>>
  PROVE  AuditInv'
<1>1. AuditTypes /\ InodesSuffice
  BY DEF AuditInv
<1>2. \A i \in Inodes : i # 0
  BY AuditBoundsAssumption DEF Inodes
<1>3. /\ current' \in Inodes /\ current' # 0 /\ (current # 0 => current' = current)
      /\ (current = 0 => current' \notin Used)
  <2>1. CASE current = 0
    BY <1>1, <1>2, <2>1, FreshIsFree
  <2>2. CASE current # 0
    BY <1>1, <1>2, <2>2 DEF AuditTypes
  <2> QED
    BY <2>1, <2>2
<1>4. /\ writer' \in [Writers -> [step : AuditSteps, name : {0} \cup Seconds, inode : {0} \cup Inodes]]
      /\ writer'[w] = x /\ \A v \in Writers : v # w => writer'[v] = writer[v]
      /\ \A v \in Writers : /\ writer'[v].step = "rotate" => writer'[v].name \in Seconds
                            /\ writer'[v].step = "write" <=> writer'[v].inode # 0
  <2>1. x \in [step : AuditSteps, name : {0} \cup Seconds, inode : {0} \cup Inodes]
        /\ (x.step = "rotate" => x.name \in Seconds) /\ (x.step = "write" <=> x.inode # 0)
    BY <1>3 DEF AuditSteps
  <2> QED
    BY <1>1, <2>1, WriterMoves
<1>5. AuditTypes'
  BY <1>1, <1>3, <1>4 DEF AuditTypes
<1>6. InodesSuffice'
  <2>1. AppendsNow' = AppendsNow /\ Appending' = Appending
    BY <1>4 DEF AppendsNow, Appending
  <2>2. Used' \subseteq Used \cup {current'} /\ (current # 0 => Used' \subseteq Used)
    <3>1. \A v \in Writers : writer'[v].inode # 0 =>
            writer'[v].inode = writer[v].inode \/ writer'[v].inode = current'
      BY <1>4
    <3>2. Used' \subseteq Used \cup {current'}
      BY <1>2, <3>1 DEF Used
    <3>3. current # 0 => current' \in Used
      BY <1>3 DEF Used
    <3> QED
      BY <3>2, <3>3
  <2>3. Used \subseteq Inodes /\ Appending \subseteq Writers /\ AppendsNow \subseteq Writers
    BY DEF Used, Appending, AppendsNow
  <2>4. IsFiniteSet(Used) /\ Cardinality(Appending) \in Nat
    BY <2>3, AuditSets
  <2>5. CASE current = 0
    <3>1. /\ Cardinality(Used') \in Nat /\ Cardinality(Used) \in Nat
          /\ Cardinality(Used') <= Cardinality(Used) + 1
      BY <2>2, <2>4, OneMore
    <3> QED
      BY <1>1, <1>3, <2>1, <2>4, <2>5, <3>1 DEF InodesSuffice, AuditTypes
  <2>6. CASE current # 0
    <3>1. /\ Cardinality(Used') \in Nat /\ Cardinality(Used) \in Nat
          /\ Cardinality(Used') <= Cardinality(Used)
      BY <2>2, <2>4, <2>6, NoMore
    <3> QED
      BY <1>1, <1>3, <2>1, <2>4, <2>6, <3>1 DEF InodesSuffice, AuditTypes
  <2> QED
    BY <2>5, <2>6
<1>7. ASSUME ~sameSecond
      PROVE  /\ \A v \in Writers : writer'[v].step = "write" => writer'[v].inode \in LogNames'
             /\ OnDisk' = 1 .. written'
  <2>1. LogNames' = LogNames \cup {current'} /\ current' \in LogNames'
        /\ (current' \in LogNames \/ content[current'] = {})
    <3>1. current = 0 => content[current'] = {}
      BY <1>3 DEF Used
    <3> QED
      BY <1>3, <3>1 DEF LogNames
  <2>2. OnDisk = UNION {content[i] : i \in LogNames} /\ OnDisk' = UNION {content[i] : i \in LogNames'}
    BY DEF OnDisk, LogNames, Seconds
  <2>3. OnDisk' = OnDisk
    BY <2>1, <2>2
  <2>4. \A v \in Writers : writer'[v].step = "write" =>
          writer'[v].inode \in LogNames \cup {current'}
    BY <1>4, <1>7 DEF AuditInv
  <2> QED
    BY <1>7, <2>1, <2>3, <2>4 DEF AuditInv
<1> QED
  BY <1>5, <1>6, <1>7 DEF AuditInv

LEMMA WritesInv == ASSUME AuditInv, NEW w \in Writers, Writes(w) PROVE AuditInv'
<1>1. AuditTypes /\ InodesSuffice
  BY DEF AuditInv
<1>2. PICK i : i = writer[w].inode
  OBVIOUS
<1>3. /\ writer[w].step = "write" /\ i \in Inodes /\ i # 0 /\ written' = written + 1 /\ written \in Nat
      /\ content' = [content EXCEPT ![i] = content[i] \cup {written'}]
      /\ Moves(w, AtRest) /\ UNCHANGED <<current, rotated, second, sameSecond>>
  BY <1>1, <1>2 DEF Writes, AuditTypes
<1>4. AtRest \in [step : {"idle"}, name : {0}, inode : {0}]
  BY DEF AtRest
<1>5. /\ writer' \in [Writers -> [step : AuditSteps, name : {0} \cup Seconds, inode : {0} \cup Inodes]]
      /\ writer'[w] = AtRest /\ \A v \in Writers : v # w => writer'[v] = writer[v]
      /\ \A v \in Writers : /\ writer'[v].step = "rotate" => writer'[v].name \in Seconds
                            /\ writer'[v].step = "write" <=> writer'[v].inode # 0
  BY <1>1, <1>3, <1>4, WriterMoves DEF AuditSteps
<1>6. \A j \in Inodes : content'[j] = IF j = i THEN content[j] \cup {written'} ELSE content[j]
  BY <1>1, <1>3 DEF AuditTypes
<1>7. AuditTypes'
  <2>1. content' \in [Inodes -> SUBSET Nat]
    BY <1>1, <1>3 DEF AuditTypes
  <2> QED
    BY <1>1, <1>3, <1>5, <2>1 DEF AuditTypes
<1>8. InodesSuffice'
  <2>1. w \in AppendsNow /\ AppendsNow' \subseteq AppendsNow \ {w} /\ Appending \subseteq Appending' \cup {w}
    BY <1>3, <1>4, <1>5 DEF AppendsNow, Appending
  <2>2. Used' \subseteq Used
    <3>1. \A v \in Writers : writer'[v].inode # 0 => writer'[v].inode = writer[v].inode
      BY <1>4, <1>5
    <3>2. i \in Used
      BY <1>2, <1>3 DEF Used
    <3>3. \A j \in Inodes : j # 0
      BY AuditBoundsAssumption DEF Inodes
    <3> QED
      BY <1>3, <1>6, <3>1, <3>2, <3>3 DEF Used
  <2>3. Used \subseteq Inodes /\ Appending' \subseteq Writers /\ AppendsNow \subseteq Writers
    BY DEF Used, Appending, AppendsNow
  <2>4. IsFiniteSet(Used) /\ IsFiniteSet(Appending') /\ IsFiniteSet(AppendsNow)
    BY <2>3, AuditSets
  <2>5. /\ Cardinality(Used') \in Nat /\ Cardinality(Used) \in Nat
        /\ Cardinality(Used') <= Cardinality(Used)
    BY <2>2, <2>4, NoMore
  <2>6. /\ Cardinality(AppendsNow') \in Nat /\ Cardinality(AppendsNow) \in Nat
        /\ Cardinality(AppendsNow') + 1 <= Cardinality(AppendsNow)
    BY <2>1, <2>4, OneLess
  <2>7. /\ Cardinality(Appending') \in Nat /\ Cardinality(Appending) \in Nat
        /\ Cardinality(Appending) <= Cardinality(Appending') + 1
    BY <2>1, <2>4, OneMore
  <2> QED
    BY <1>1, <1>3, <2>5, <2>6, <2>7, AuditBoundsAssumption DEF InodesSuffice
<1>9. ASSUME ~sameSecond
      PROVE  /\ \A v \in Writers : writer'[v].step = "write" => writer'[v].inode \in LogNames'
             /\ OnDisk' = 1 .. written'
  <2>1. LogNames' = LogNames /\ i \in LogNames /\ LogNames \subseteq Inodes
    BY <1>1, <1>2, <1>3, <1>9 DEF LogNames, AuditInv, AuditTypes
  <2>2. OnDisk = UNION {content[j] : j \in LogNames} /\ OnDisk' = UNION {content'[j] : j \in LogNames'}
    BY DEF OnDisk, LogNames, Seconds
  <2>3. OnDisk' = OnDisk \cup {written'}
    <3>1. PICK names, before, after, number :
            /\ names = LogNames /\ before = content /\ after = content' /\ number = written'
      OBVIOUS
    <3>2. /\ i \in names /\ names \subseteq Inodes
          /\ \A j \in Inodes : after[j] = IF j = i THEN before[j] \cup {number} ELSE before[j]
      BY <1>6, <2>1, <3>1
    <3>3. \A n : (\E j \in names : n \in after[j]) <=> (n = number \/ \E j \in names : n \in before[j])
      BY <3>2
    <3>4. (UNION {after[j] : j \in names}) = (UNION {before[j] : j \in names}) \cup {number}
      BY <3>3
    <3> QED
      BY <2>1, <2>2, <3>1, <3>4
  <2>4. OnDisk = 1 .. written
    BY <1>9 DEF AuditInv
  <2>5. OnDisk' = 1 .. written'
    BY <1>3, <2>3, <2>4
  <2>6. \A v \in Writers : writer'[v].step = "write" => writer[v] = writer'[v]
    BY <1>4, <1>5
  <2> QED
    BY <1>9, <2>1, <2>5, <2>6 DEF AuditInv
<1> QED
  BY <1>3, <1>7, <1>8, <1>9 DEF AuditInv

LEMMA AuditLogSteps == AuditInv /\ [AuditNext]_auditVars => AuditInv'
<1> SUFFICES ASSUME AuditInv, [AuditNext]_auditVars PROVE AuditInv'
  OBVIOUS
<1>1. CASE SecondPasses \/ UNCHANGED auditVars
  <2>1. UNCHANGED <<current, rotated, content, writer, written, sameSecond>>
    BY <1>1 DEF SecondPasses, auditVars
  <2>2. second' \in Seconds
    BY <1>1, AuditBoundsAssumption DEF SecondPasses, auditVars, AuditInv, AuditTypes, Seconds
  <2>3. AuditTypes'
    BY <2>1, <2>2 DEF AuditInv, AuditTypes
  <2>4. /\ Used' = Used /\ AppendsNow' = AppendsNow /\ Appending' = Appending /\ LogNames' = LogNames
        /\ OnDisk' = OnDisk
    BY <2>1 DEF Used, AppendsNow, Appending, LogNames, OnDisk
  <2> QED
    BY <2>1, <2>3, <2>4 DEF AuditInv, InodesSuffice
<1>2. ASSUME NEW w \in Writers, Touches(w) PROVE AuditInv'
  <2>1. PICK x : x = [step |-> "open", name |-> 0, inode |-> 0]
    OBVIOUS
  <2>2. [AtRest EXCEPT !.step = "open"] = x
    BY <2>1 DEF AtRest
  <2>3. /\ writer[w].step \in {"touch", "open"} /\ current' = (IF current = 0 THEN Fresh ELSE current)
        /\ Moves(w, x) /\ UNCHANGED <<rotated, content, second, written, sameSecond>>
    BY <1>2, <2>2 DEF Touches
  <2>4. /\ x \in [step : {"open", "write"}, name : {0}, inode : {0} \cup Inodes]
        /\ IF x.step = "write" THEN x.inode = current' ELSE x.inode = 0
    BY <2>1
  <2> QED
    BY <2>3, <2>4, CreatesInv
<1>3. ASSUME NEW w \in Writers, Opens(w) PROVE AuditInv'
  <2>1. PICK i : i = current'
    OBVIOUS
  <2>2. PICK x : x = [step |-> "write", name |-> 0, inode |-> i]
    OBVIOUS
  <2>3. PICK y : y = [AtRest EXCEPT !.step = "write"]
    OBVIOUS
  <2>4. y = [step |-> "write", name |-> 0, inode |-> 0]
    BY <2>3 DEF AtRest
  <2>5. [y EXCEPT !.inode = i] = x
    BY <2>2, <2>4
  <2>6. /\ writer[w].step \in {"touch", "open"} /\ current' = (IF current = 0 THEN Fresh ELSE current)
        /\ Moves(w, x) /\ UNCHANGED <<rotated, content, second, written, sameSecond>>
    BY <1>3, <2>1, <2>3, <2>5 DEF Opens
  <2>7. i \in Inodes
    <3>1. CASE current = 0
      BY <2>1, <2>6, <3>1, FreshIsFree DEF AuditInv
    <3>2. CASE current # 0
      BY <2>1, <2>6, <3>2 DEF AuditInv, AuditTypes
    <3> QED
      BY <3>1, <3>2
  <2>8. /\ x \in [step : {"open", "write"}, name : {0}, inode : {0} \cup Inodes]
        /\ IF x.step = "write" THEN x.inode = current' ELSE x.inode = 0
    BY <2>1, <2>2, <2>7
  <2> QED
    BY <2>6, <2>8, CreatesInv
<1> QED
  BY <1>1, <1>2, <1>3, ChecksInv, RotatesInv, WritesInv DEF AuditNext

LEMMA AuditFollows == AuditInv => RotationKeepsEvents
BY DEF AuditInv, RotationKeepsEvents

(* append_jsonl_line and the rotation, any number of writers at any threshold: every event
   that was appended is in the log or in a rotated one, though the log may move between
   the open and the write, as long as no rotation takes a name that is in use. *)
THEOREM RotationLosesNothing == Spec => []RotationKeepsEvents
<1>1. Init => AuditInv
  BY AuditStart DEF Init
<1>2. [Next]_vars => [AuditNext]_auditVars
  BY DEF Next, vars, Rests, Parts
<1>3. AuditInv /\ [Next]_vars => AuditInv'
  BY <1>2, AuditLogSteps
<1>4. AuditInv => RotationKeepsEvents
  BY AuditFollows
<1> QED
  BY <1>1, <1>3, <1>4, PTL DEF Spec

-----------------------------------------------------------------------------
(* Sums over finite sets.  MapThenSumSet takes the elements in the order of CHOOSE; *)
(* here it is shown to add them up, in whatever order.                             *)

LEMMA FromNull ==
  ASSUME NEW G, 0 \in G, \A n \in Nat : n \in G => n + 1 \in G PROVE Nat \subseteq G
<1> SUFFICES ASSUME Nat \ G # {} PROVE FALSE
  OBVIOUS
<1>1. PICK n \in Nat \ G : \A m \in Nat \ G : n <= m
  BY LeastNumber
<1>2. n # 0 /\ n - 1 \in Nat /\ n - 1 \notin Nat \ G
  BY <1>1
<1>3. (n - 1) + 1 \in G
  BY <1>2
<1> QED
  BY <1>1, <1>3

(* The element that the fold takes first, what a sum is for each subset, and the sum. *)
PickFrom(s) == CHOOSE x \in s : TRUE

AddsUp(w, f, s) ==
  IF s = {} THEN f[s] = 0 ELSE f[s] = w[PickFrom(s)] + f[s \ {PickFrom(s)}]

SumFn(w, T) ==
  CHOOSE f : f = [s \in SUBSET T |-> IF s = {} THEN 0 ELSE w[PickFrom(s)] + f[s \ {PickFrom(s)}]]

SumOver(w, T) == SumFn(w, T)[T]

(* T is finite and w gives each of its elements a number. *)
Weighs(w, T) == IsFiniteSet(T) /\ \A x \in T : w[x] \in Nat

LEMMA PickedIsIn == ASSUME NEW s, s # {} PROVE PickFrom(s) \in s
<1>1. \E x \in s : TRUE
  OBVIOUS
<1> QED
  BY <1>1, Zenon DEF PickFrom

LEMMA PartsAreSmaller ==
  ASSUME NEW T, IsFiniteSet(T), NEW s \in SUBSET T
  PROVE  /\ IsFiniteSet(s) /\ Cardinality(s) \in Nat /\ (Cardinality(s) = 0 <=> s = {})
         /\ \A x \in s : Cardinality(s \ {x}) = Cardinality(s) - 1
<1>1. IsFiniteSet(s)
  BY FS_Subset
<1> QED
  BY <1>1, FS_CardinalityType, FS_EmptySet, FS_RemoveElement

(* The function that the fold is defined by exists, ... *)
LEMMA SumsExist ==
  ASSUME NEW T, NEW w, Weighs(w, T)
  PROVE  \E f \in [SUBSET T -> Nat] : \A s \in SUBSET T : AddsUp(w, f, s)
<1> DEFINE Upto(n) == \E f \in [SUBSET T -> Nat] : \A s \in SUBSET T : Cardinality(s) <= n => AddsUp(w, f, s)
           G == {n \in Nat : Upto(n)}
<1>1. 0 \in G
  <2>1. PICK f : f = [s \in SUBSET T |-> 0]
    OBVIOUS
  <2>2. f \in [SUBSET T -> Nat]
    BY <2>1
  <2>3. ASSUME NEW s \in SUBSET T, Cardinality(s) <= 0 PROVE AddsUp(w, f, s)
    <3>1. s = {}
      BY <2>3, PartsAreSmaller DEF Weighs
    <3> QED
      BY <2>1, <3>1 DEF AddsUp
  <2> QED
    BY <2>2, <2>3
<1>2. ASSUME NEW n \in Nat, n \in G PROVE n + 1 \in G
  <2>1. PICK f \in [SUBSET T -> Nat] : \A s \in SUBSET T : Cardinality(s) <= n => AddsUp(w, f, s)
    BY <1>2
  <2>2. PICK g : g = [s \in SUBSET T |-> IF s = {} THEN 0 ELSE w[PickFrom(s)] + f[s \ {PickFrom(s)}]]
    OBVIOUS
  <2>3. ASSUME NEW s \in SUBSET T, s # {}
        PROVE  /\ g[s] = w[PickFrom(s)] + f[s \ {PickFrom(s)}] /\ g[s] \in Nat
               /\ s \ {PickFrom(s)} \in SUBSET T
               /\ Cardinality(s \ {PickFrom(s)}) = Cardinality(s) - 1 /\ Cardinality(s) \in Nat
    <3>1. PickFrom(s) \in s
      BY <2>3, PickedIsIn
    <3>2. w[PickFrom(s)] \in Nat /\ f[s \ {PickFrom(s)}] \in Nat
      BY <3>1 DEF Weighs
    <3>3. Cardinality(s \ {PickFrom(s)}) = Cardinality(s) - 1 /\ Cardinality(s) \in Nat
      BY <3>1, PartsAreSmaller DEF Weighs
    <3> QED
      BY <2>2, <2>3, <3>2, <3>3
  <2>4. g[{}] = 0
    BY <2>2
  <2>5. g \in [SUBSET T -> Nat]
    <3>1. ASSUME NEW s \in SUBSET T PROVE g[s] \in Nat
      <4>1. CASE s = {}
        BY <2>4, <4>1
      <4>2. CASE s # {}
        BY <2>3, <4>2
      <4> QED
        BY <4>1, <4>2
    <3> QED
      BY <2>2, <3>1
  <2>6. ASSUME NEW s \in SUBSET T, Cardinality(s) <= n PROVE g[s] = f[s]
    <3>1. AddsUp(w, f, s)
      BY <2>1, <2>6
    <3> QED
      BY <2>2, <3>1 DEF AddsUp
  <2>7. ASSUME NEW s \in SUBSET T, Cardinality(s) <= n + 1 PROVE AddsUp(w, g, s)
    <3>1. CASE s = {}
      BY <2>4, <3>1 DEF AddsUp
    <3>2. CASE s # {}
      <4>1. g[s \ {PickFrom(s)}] = f[s \ {PickFrom(s)}]
        BY <2>3, <2>6, <2>7, <3>2
      <4> QED
        BY <2>3, <3>2, <4>1 DEF AddsUp
    <3> QED
      BY <3>1, <3>2
  <2>8. Upto(n + 1)
    BY <2>5, <2>7
  <2> QED
    BY <2>8
<1>3. Nat \subseteq G
  <2> HIDE DEF G
  <2> QED
    BY <1>1, <1>2, FromNull
<1>4. PICK c : c = Cardinality(T)
  OBVIOUS
<1>5. c \in Nat /\ \A s \in SUBSET T : Cardinality(s) <= c
  BY <1>4, FS_Subset, FS_CardinalityType DEF Weighs
<1>6. Upto(c)
  BY <1>3, <1>5
<1> QED
  BY <1>5, <1>6

(* ... adds up over every subset, ... *)
LEMMA SumFnAdds ==
  ASSUME NEW T, NEW w, Weighs(w, T)
  PROVE  SumFn(w, T) \in [SUBSET T -> Nat] /\ \A s \in SUBSET T : AddsUp(w, SumFn(w, T), s)
<1>1. PICK g \in [SUBSET T -> Nat] : \A s \in SUBSET T : AddsUp(w, g, s)
  BY SumsExist
<1>2. g = [s \in SUBSET T |-> IF s = {} THEN 0 ELSE w[PickFrom(s)] + g[s \ {PickFrom(s)}]]
  BY <1>1 DEF AddsUp
<1>3. PICK f : f = SumFn(w, T)
  OBVIOUS
<1>4. f = [s \in SUBSET T |-> IF s = {} THEN 0 ELSE w[PickFrom(s)] + f[s \ {PickFrom(s)}]]
  BY <1>2, <1>3, Zenon DEF SumFn
<1>5. \A s \in SUBSET T : AddsUp(w, f, s)
  BY <1>4 DEF AddsUp
<1> DEFINE G == {n \in Nat : \A s \in SUBSET T : Cardinality(s) = n => f[s] \in Nat}
<1>6. 0 \in G
  <2>1. ASSUME NEW s \in SUBSET T, Cardinality(s) = 0 PROVE f[s] \in Nat
    <3>1. s = {}
      BY <2>1, PartsAreSmaller DEF Weighs
    <3>2. f[s] = 0
      BY <1>5, <3>1 DEF AddsUp
    <3> QED
      BY <3>2
  <2> QED
    BY <2>1
<1>7. ASSUME NEW n \in Nat, n \in G PROVE n + 1 \in G
  <2>1. ASSUME NEW s \in SUBSET T, Cardinality(s) = n + 1 PROVE f[s] \in Nat
    <3>1. s # {}
      BY <2>1, PartsAreSmaller DEF Weighs
    <3>2. PickFrom(s) \in s
      BY <3>1, PickedIsIn
    <3>3. Cardinality(s \ {PickFrom(s)}) = n
      BY <2>1, <3>2, PartsAreSmaller DEF Weighs
    <3>4. f[s \ {PickFrom(s)}] \in Nat /\ w[PickFrom(s)] \in Nat
      BY <1>7, <3>2, <3>3 DEF Weighs
    <3>5. f[s] = w[PickFrom(s)] + f[s \ {PickFrom(s)}]
      BY <1>5, <3>1 DEF AddsUp
    <3> QED
      BY <3>4, <3>5
  <2> QED
    BY <2>1
<1>8. Nat \subseteq G
  <2> HIDE DEF G
  <2> QED
    BY <1>6, <1>7, FromNull
<1>9. \A s \in SUBSET T : f[s] \in Nat
  BY <1>8, PartsAreSmaller DEF Weighs
<1> QED
  BY <1>3, <1>4, <1>5, <1>9

LEMMA SumOfNone == ASSUME NEW w PROVE SumOver(w, {}) = 0
<1>1. Weighs(w, {})
  BY FS_EmptySet DEF Weighs
<1>2. AddsUp(w, SumFn(w, {}), {})
  BY <1>1, SumFnAdds
<1> QED
  BY <1>2 DEF AddsUp, SumOver

LEMMA SumIsNumber == ASSUME NEW T, NEW w, Weighs(w, T) PROVE SumOver(w, T) \in Nat
BY SumFnAdds DEF SumOver

(* Two functions that add up the same weights give the same sums. *)
LEMMA SumsAgree ==
  ASSUME NEW T, NEW w, NEW v, Weighs(w, T), \A x \in T : v[x] = w[x],
         NEW f, NEW g, \A s \in SUBSET T : AddsUp(w, f, s) /\ AddsUp(v, g, s)
  PROVE  \A s \in SUBSET T : f[s] = g[s]
<1> DEFINE G == {n \in Nat : \A s \in SUBSET T : Cardinality(s) = n => f[s] = g[s]}
<1>1. 0 \in G
  <2>1. ASSUME NEW s \in SUBSET T, Cardinality(s) = 0 PROVE f[s] = g[s]
    <3>1. s = {}
      BY <2>1, PartsAreSmaller DEF Weighs
    <3>2. f[s] = 0 /\ g[s] = 0
      BY <3>1 DEF AddsUp
    <3> QED
      BY <3>2
  <2> QED
    BY <2>1
<1>2. ASSUME NEW n \in Nat, n \in G PROVE n + 1 \in G
  <2>1. ASSUME NEW s \in SUBSET T, Cardinality(s) = n + 1 PROVE f[s] = g[s]
    <3>1. s # {}
      BY <2>1, PartsAreSmaller DEF Weighs
    <3>2. PickFrom(s) \in s
      BY <3>1, PickedIsIn
    <3>3. Cardinality(s \ {PickFrom(s)}) = n
      BY <2>1, <3>2, PartsAreSmaller DEF Weighs
    <3>4. f[s \ {PickFrom(s)}] = g[s \ {PickFrom(s)}] /\ v[PickFrom(s)] = w[PickFrom(s)]
      BY <1>2, <3>2, <3>3
    <3>5. f[s] = w[PickFrom(s)] + f[s \ {PickFrom(s)}] /\ g[s] = v[PickFrom(s)] + g[s \ {PickFrom(s)}]
      BY <3>1 DEF AddsUp
    <3> QED
      BY <3>4, <3>5
  <2> QED
    BY <2>1
<1>3. Nat \subseteq G
  <2> HIDE DEF G
  <2> QED
    BY <1>1, <1>2, FromNull
<1> QED
  BY <1>3, PartsAreSmaller DEF Weighs

LEMMA SumOfNothing ==
  ASSUME NEW T, NEW w, Weighs(w, T), \A x \in T : w[x] = 0 PROVE SumOver(w, T) = 0
<1>1. PICK g : g = [s \in SUBSET T |-> 0]
  OBVIOUS
<1>2. ASSUME NEW s \in SUBSET T PROVE AddsUp(w, g, s)
  <2>1. CASE s = {}
    BY <1>1, <2>1 DEF AddsUp
  <2>2. CASE s # {}
    <3>1. PICK p : p = PickFrom(s)
      OBVIOUS
    <3>2. p \in s
      BY <2>2, <3>1, PickedIsIn
    <3>3. w[p] = 0 /\ g[s \ {p}] = 0 /\ g[s] = 0
      BY <1>1, <3>2
    <3>4. g[s] = w[p] + g[s \ {p}]
      BY <3>3
    <3> QED
      BY <2>2, <3>1, <3>4 DEF AddsUp
  <2> QED
    BY <2>1, <2>2
<1>3. \A s \in SUBSET T : AddsUp(w, SumFn(w, T), s)
  BY SumFnAdds
<1>4. \A s \in SUBSET T : SumFn(w, T)[s] = g[s]
  BY <1>2, <1>3, SumsAgree
<1>5. SumFn(w, T)[T] = g[T] /\ g[T] = 0
  BY <1>1, <1>4
<1> QED
  BY <1>5 DEF SumOver

(* Equal weights, equal sums. *)
LEMMA SumOfSame ==
  ASSUME NEW T, NEW w, NEW v, Weighs(w, T), \A x \in T : v[x] = w[x]
  PROVE  SumOver(v, T) = SumOver(w, T)
<1>1. Weighs(v, T)
  BY DEF Weighs
<1>2. \A s \in SUBSET T : AddsUp(w, SumFn(w, T), s) /\ AddsUp(v, SumFn(v, T), s)
  BY <1>1, SumFnAdds
<1>3. \A s \in SUBSET T : SumFn(w, T)[s] = SumFn(v, T)[s]
  BY <1>2, SumsAgree
<1> QED
  BY <1>3 DEF SumOver

(* The sum over a part does not depend on what else there is. *)
LEMMA SumOfPart ==
  ASSUME NEW T, NEW w, Weighs(w, T), NEW S \in SUBSET T
  PROVE  SumFn(w, T)[S] = SumOver(w, S)
<1>1. Weighs(w, S)
  BY FS_Subset DEF Weighs
<1>2. \A s \in SUBSET S : AddsUp(w, SumFn(w, T), s) /\ AddsUp(w, SumFn(w, S), s)
  BY <1>1, SumFnAdds
<1>3. \A s \in SUBSET S : SumFn(w, T)[s] = SumFn(w, S)[s]
  BY <1>1, <1>2, SumsAgree
<1> QED
  BY <1>3 DEF SumOver

(* Whichever element is taken away first. *)
LEMMA SumOfRest ==
  ASSUME NEW T, NEW w, Weighs(w, T), NEW x \in T
  PROVE  SumOver(w, T) = w[x] + SumOver(w, T \ {x})
<1>1. PICK f : f = SumFn(w, T)
  OBVIOUS
<1>2. f \in [SUBSET T -> Nat] /\ \A s \in SUBSET T : AddsUp(w, f, s)
  BY <1>1, SumFnAdds
<1> DEFINE G == {n \in Nat : \A s \in SUBSET T : Cardinality(s) = n => \A y \in s : f[s] = w[y] + f[s \ {y}]}
<1>3. 0 \in G
  <2>1. \A s \in SUBSET T : Cardinality(s) = 0 => s = {}
    BY PartsAreSmaller DEF Weighs
  <2> QED
    BY <2>1
<1>4. ASSUME NEW n \in Nat, n \in G PROVE n + 1 \in G
  <2>1. ASSUME NEW s \in SUBSET T, Cardinality(s) = n + 1, NEW y \in s PROVE f[s] = w[y] + f[s \ {y}]
    <3>1. PICK p : p = PickFrom(s)
      OBVIOUS
    <3>2. p \in s
      BY <3>1, PickedIsIn
    <3>3. f[s] = w[p] + f[s \ {p}]
      BY <1>2, <3>1, <3>2 DEF AddsUp
    <3>4. CASE p = y
      BY <3>3, <3>4
    <3>5. CASE p # y
      <4>1. Cardinality(s \ {p}) = n /\ Cardinality(s \ {y}) = n
        BY <2>1, <3>2, PartsAreSmaller DEF Weighs
      <4>2. f[s \ {p}] = w[y] + f[(s \ {p}) \ {y}] /\ f[s \ {y}] = w[p] + f[(s \ {y}) \ {p}]
        BY <1>4, <3>2, <3>5, <4>1
      <4>3. (s \ {p}) \ {y} = (s \ {y}) \ {p}
        OBVIOUS
      <4>4. PICK rest : rest = (s \ {p}) \ {y}
        OBVIOUS
      <4>5. f[s] = w[p] + (w[y] + f[rest]) /\ f[s \ {y}] = w[p] + f[rest]
        BY <3>3, <4>2, <4>3, <4>4
      <4>6. w[p] \in Nat /\ w[y] \in Nat /\ f[rest] \in Nat
        BY <1>2, <3>2, <4>4 DEF Weighs
      <4> QED
        BY <4>5, <4>6
    <3> QED
      BY <3>4, <3>5
  <2> QED
    BY <2>1
<1>5. Nat \subseteq G
  <2> HIDE DEF G
  <2> QED
    BY <1>3, <1>4, FromNull
<1>6. f[T] = w[x] + f[T \ {x}]
  BY <1>5, PartsAreSmaller DEF Weighs
<1>7. f[T \ {x}] = SumOver(w, T \ {x})
  BY <1>1, SumOfPart
<1> QED
  BY <1>1, <1>6, <1>7 DEF SumOver

(* One weight changes. *)
LEMMA SumChanges ==
  ASSUME NEW T, NEW w, NEW v, Weighs(w, T), Weighs(v, T), NEW x \in T, \A y \in T : y # x => v[y] = w[y]
  PROVE  /\ SumOver(v, T) + w[x] = SumOver(w, T) + v[x]
         /\ SumOver(v, T) \in Nat /\ SumOver(w, T) \in Nat /\ w[x] \in Nat /\ v[x] \in Nat
<1>1. Weighs(w, T \ {x}) /\ \A y \in T \ {x} : v[y] = w[y]
  BY FS_Subset DEF Weighs
<1>2. SumOver(v, T \ {x}) = SumOver(w, T \ {x}) /\ SumOver(w, T \ {x}) \in Nat
  BY <1>1, SumOfSame, SumIsNumber
<1>3. SumOver(v, T) = v[x] + SumOver(v, T \ {x}) /\ SumOver(w, T) = w[x] + SumOver(w, T \ {x})
  BY SumOfRest
<1>4. w[x] \in Nat /\ v[x] \in Nat
  BY DEF Weighs
<1> QED
  BY <1>2, <1>3, <1>4

(* A sum over more is no less. *)
LEMMA SumGrows ==
  ASSUME NEW T, NEW w, Weighs(w, T), NEW S \in SUBSET T
  PROVE  SumOver(w, S) <= SumOver(w, T) /\ SumOver(w, S) \in Nat /\ SumOver(w, T) \in Nat
<1> DEFINE G == {n \in Nat : \A R \in SUBSET T : Cardinality(R) = n /\ S \subseteq R
                               => SumOver(w, S) <= SumOver(w, R)}
<1>1. \A R \in SUBSET T : Weighs(w, R) /\ SumOver(w, R) \in Nat
  <2>1. \A R \in SUBSET T : Weighs(w, R)
    BY FS_Subset DEF Weighs
  <2> QED
    BY <2>1, SumIsNumber
<1>2. 0 \in G
  <2>1. \A R \in SUBSET T : Cardinality(R) = 0 => R = {}
    BY PartsAreSmaller DEF Weighs
  <2>2. SumOver(w, {}) <= SumOver(w, {})
    BY SumOfNone
  <2>3. S \subseteq {} => S = {}
    OBVIOUS
  <2>4. ASSUME NEW R \in SUBSET T, Cardinality(R) = 0, S \subseteq R PROVE SumOver(w, S) <= SumOver(w, R)
    <3>1. R = {} /\ S = {}
      BY <2>1, <2>4
    <3> QED
      BY <2>2, <3>1
  <2> QED
    BY <2>4
<1>3. ASSUME NEW n \in Nat, n \in G PROVE n + 1 \in G
  <2>1. ASSUME NEW R \in SUBSET T, Cardinality(R) = n + 1, S \subseteq R
        PROVE  SumOver(w, S) <= SumOver(w, R)
    <3>1. CASE S = R
      BY <1>1, <3>1
    <3>2. CASE S # R
      <4>1. PICK x \in R : x \notin S
        BY <2>1, <3>2
      <4>2. Cardinality(R \ {x}) = n
        BY <2>1, PartsAreSmaller DEF Weighs
      <4>3. SumOver(w, S) <= SumOver(w, R \ {x})
        BY <1>3, <2>1, <4>1, <4>2
      <4>4. SumOver(w, R) = w[x] + SumOver(w, R \ {x})
        BY <1>1, SumOfRest
      <4>5. w[x] \in Nat /\ SumOver(w, R \ {x}) \in Nat /\ SumOver(w, S) \in Nat
        BY <1>1 DEF Weighs
      <4> QED
        BY <4>3, <4>4, <4>5
    <3> QED
      BY <3>1, <3>2
  <2> QED
    BY <2>1
<1>4. Nat \subseteq G
  <2> HIDE DEF G
  <2> QED
    BY <1>2, <1>3, FromNull
<1>5. Cardinality(T) \in Nat /\ T \in SUBSET T
  BY FS_CardinalityType DEF Weighs
<1> QED
  BY <1>1, <1>4, <1>5

-----------------------------------------------------------------------------
(* The budget gate. *)

GateEvents ==
  [agent : GateAgents, target : {""}, task : {""}, run : {"run"}, usd : {1}, at : {0}]

OwnEvents(events, a) == {i \in DOMAIN events : events[i].agent = a}

Usd(events) == [i \in DOMAIN events |-> events[i].usd]

Burden(g, u) == [s \in Sessions |-> IF s \in g THEN RunCost ELSE u[s]]

LEMMA CostIsSum ==
  ASSUME NEW events, NEW S, S \subseteq DOMAIN events
  PROVE  TotalCost(events, S) = SumOver(Usd(events), S)
BY DEF TotalCost, MapThenSumSet, MapThenFoldSet, SumOver, SumFn, PickFrom, Usd

LEMMA GateEventIs == ASSUME NEW e \in GateEvents PROVE e.usd = 1 /\ e.at = 0 /\ e.agent \in GateAgents
BY Zenon DEF GateEvents

LEMMA OutstandingIs == ASSUME NEW a PROVE Outstanding(a) = SumOver(Burden(gated, unspent), SessionsOf(a))
<1>1. SessionsOf(a) \subseteq Sessions
  BY DEF SessionsOf
<1> QED
  BY <1>1 DEF Outstanding, MapThenSumSet, MapThenFoldSet, SumOver, SumFn, PickFrom, Burden

LEMMA OutstandingWillBe == ASSUME NEW a PROVE Outstanding(a)' = SumOver(Burden(gated', unspent'), SessionsOf(a))
<1>1. SessionsOf(a) \subseteq Sessions
  BY DEF SessionsOf
<1> QED
  BY <1>1 DEF Outstanding, MapThenSumSet, MapThenFoldSet, SumOver, SumFn, PickFrom, Burden

LEMMA CostsWeigh ==
  ASSUME NEW events \in Seq(GateEvents), NEW S, S \subseteq DOMAIN events
  PROVE  Weighs(Usd(events), S)
<1>1. IsFiniteSet(1 .. Len(events)) /\ DOMAIN events = 1 .. Len(events)
  BY FS_Interval
<1>2. IsFiniteSet(S)
  BY <1>1, FS_Subset
<1>3. \A i \in DOMAIN events : events[i].usd = 1
  BY GateEventIs
<1> QED
  BY <1>2, <1>3 DEF Weighs, Usd

(* The weights of the two sums: the costs of the events, the burdens of the sessions. *)
LEMMA SessionsWeigh ==
  ASSUME NEW g, NEW u \in [Sessions -> Nat], NEW a
  PROVE  Weighs(Burden(g, u), SessionsOf(a))
<1>1. IsFiniteSet(SessionsOf(a)) /\ SessionsOf(a) \subseteq Sessions
  BY GateAssumption, FS_Subset DEF SessionsOf
<1>2. \A s \in Sessions : Burden(g, u)[s] \in Nat
  BY GateAssumption DEF Burden
<1> QED
  BY <1>1, <1>2 DEF Weighs

LEMMA SpentIs ==
  ASSUME NEW events \in Seq(GateEvents), NEW a
  PROVE  /\ SpentBy(events, "agent", a) \in Nat
         /\ a = "" => SpentBy(events, "agent", a) = 0
         /\ a # "" => SpentBy(events, "agent", a) = SumOver(Usd(events), OwnEvents(events, a))
<1>1. CASE a = ""
  BY <1>1 DEF SpentBy
<1>2. CASE a # ""
  <2>1. SpentBy(events, "agent", a) = TotalCost(events, OwnEvents(events, a))
    BY <1>2 DEF SpentBy, OwnEvents
  <2>2. OwnEvents(events, a) \subseteq DOMAIN events
    BY DEF OwnEvents
  <2>3. SpentBy(events, "agent", a) = SumOver(Usd(events), OwnEvents(events, a))
    BY <2>1, <2>2, CostIsSum
  <2>4. SumOver(Usd(events), OwnEvents(events, a)) \in Nat
    BY <2>2, CostsWeigh, SumIsNumber
  <2> QED
    BY <1>2, <2>3, <2>4
<1> QED
  BY <1>1, <1>2

(* One event more. *)
LEMMA SpentAfter ==
  ASSUME NEW events \in Seq(GateEvents), NEW e \in GateEvents, NEW a
  PROVE  LET then == SpentBy(Append(events, e), "agent", a)
             now == SpentBy(events, "agent", a)
         IN  (e.agent # a => then = now) /\ (e.agent = a => then <= now + 1)
<1>1. PICK after : after = Append(events, e)
  OBVIOUS
<1>2. PICK n : n = Len(events) + 1
  OBVIOUS
<1>3. /\ after \in Seq(GateEvents) /\ DOMAIN after = DOMAIN events \cup {n} /\ n \notin DOMAIN events
      /\ after[n] = e /\ \A i \in DOMAIN events : after[i] = events[i]
  BY <1>1, <1>2
<1>4. PICK S : S = OwnEvents(events, a)
  OBVIOUS
<1>5. S \subseteq DOMAIN events /\ S \subseteq DOMAIN after /\ n \notin S
  BY <1>3, <1>4 DEF OwnEvents
<1>6. /\ e.agent # a => OwnEvents(after, a) = S
      /\ e.agent = a => OwnEvents(after, a) = S \cup {n}
  BY <1>3, <1>4 DEF OwnEvents
<1>7. SumOver(Usd(after), S) = SumOver(Usd(events), S) /\ SumOver(Usd(events), S) \in Nat
  <2>1. \A i \in S : Usd(after)[i] = Usd(events)[i]
    BY <1>3, <1>5 DEF Usd
  <2> QED
    BY <1>5, <2>1, CostsWeigh, SumOfSame, SumIsNumber
<1>8. CASE a = ""
  <2>1. SpentBy(after, "agent", a) = 0 /\ SpentBy(events, "agent", a) = 0
    BY <1>3, <1>8, SpentIs
  <2> QED
    BY <1>1, <2>1
<1>9. CASE a # "" /\ e.agent # a
  <2>1. SpentBy(after, "agent", a) = SumOver(Usd(after), S) /\ SpentBy(events, "agent", a) = SumOver(Usd(events), S)
    BY <1>3, <1>4, <1>6, <1>9, SpentIs
  <2> QED
    BY <1>1, <1>7, <1>9, <2>1
<1>10. CASE a # "" /\ e.agent = a
  <2>1. PICK T : T = S \cup {n}
    OBVIOUS
  <2>2. SpentBy(after, "agent", a) = SumOver(Usd(after), T) /\ SpentBy(events, "agent", a) = SumOver(Usd(events), S)
    BY <1>3, <1>4, <1>6, <1>10, <2>1, SpentIs
  <2>3. T \subseteq DOMAIN after /\ n \in T /\ T \ {n} = S
    BY <1>3, <1>5, <2>1
  <2>4. SumOver(Usd(after), T) = Usd(after)[n] + SumOver(Usd(after), S)
    BY <1>3, <2>3, CostsWeigh, SumOfRest
  <2>5. Usd(after)[n] = 1
    BY <1>3, GateEventIs DEF Usd
  <2>6. SpentBy(after, "agent", a) <= SpentBy(events, "agent", a) + 1
    <3>1. PICK now, then : now = SpentBy(events, "agent", a) /\ then = SpentBy(after, "agent", a)
      OBVIOUS
    <3>2. then = 1 + now /\ now \in Nat
      BY <1>7, <2>2, <2>4, <2>5, <3>1
    <3>3. then <= now + 1
      BY <3>2
    <3> QED
      BY <3>1, <3>3
  <2> QED
    BY <1>1, <1>10, <2>6, Zenon
<1> QED
  BY <1>8, <1>9, <1>10

(* At hour 0 every period has just begun. *)
LEMMA NothingIsTooOld == ASSUME NEW p \in Periods PROVE WindowStart(p, 0) = 0
<1>1. MonthOf(0) = 0
  <2>1. 0 \in MonthStarts /\ 0 <= 0 /\ \A u \in MonthStarts : u <= 0 => u <= 0
    BY MonthsAssumption
  <2>2. /\ MonthOf(0) \in MonthStarts /\ MonthOf(0) <= 0
    BY <2>1, Zenon DEF MonthOf
  <2> QED
    <3>1. PICK m : m = MonthOf(0)
      OBVIOUS
    <3>2. m \in Nat /\ m <= 0
      BY <2>2, <3>1, MonthsAssumption
    <3>3. m = 0
      BY <3>2
    <3> QED
      BY <3>1, <3>3
<1>2. Later(0, 24) = 0
  BY DEF Later
<1>3. 0 - (0 % 24) = 0 /\ 0 - (0 % 168) = 0
  OBVIOUS
<1> QED
  BY <1>1, <1>2, <1>3 DEF WindowStart, Periods

Limited(b, a) == b.scope = "agent" /\ b.scope_id = a /\ b.hard # NoLimit

(* The gate counts all that the agent has cost, and perhaps more. *)
LEMMA GateCounts ==
  ASSUME costs \in Seq(GateEvents), NEW a, GatePasses(a), NEW k \in DOMAIN AgentBudgets, Limited(AgentBudgets[k], a)
  PROVE  SpentBy(costs, "agent", a) < AgentBudgets[k].hard
<1>1. PICK b : b = AgentBudgets[k]
  OBVIOUS
<1>2. b.hard \in Nat /\ b.hard # NoLimit /\ b.period \in Periods /\ b.scope = "agent" /\ b.scope_id = a
  BY <1>1, GateAssumption DEF Limited
<1>3. ~Blocks(b, costs, AgentContext(a), 0)
  <2>1. AgentBudgets # <<>>
    OBVIOUS
  <2> QED
    BY <1>1, <2>1 DEF GatePasses, Evaluate
<1>4. InScope(b, AgentContext(a))
  BY <1>2 DEF InScope, AgentContext, BudgetScopes
<1>5. ~Exceeds(b.hard, Spent(b, costs, AgentContext(a), 0))
  BY <1>3, <1>4 DEF Blocks
<1>6. PICK T : T = {i \in DOMAIN costs : Belongs(costs[i], AgentContext(a)) /\ InWindow(costs[i], b.period, 0)}
  OBVIOUS
<1>7. T \subseteq DOMAIN costs /\ Spent(b, costs, AgentContext(a), 0) = TotalCost(costs, T)
  BY <1>6 DEF Spent
<1>8. OwnEvents(costs, a) \subseteq T
  <2>1. \A i \in OwnEvents(costs, a) : Belongs(costs[i], AgentContext(a))
    BY DEF OwnEvents, Belongs, Agrees, AgentContext
  <2>2. WindowStart(b.period, 0) = 0
    BY <1>2, NothingIsTooOld
  <2>3. \A i \in DOMAIN costs : costs[i].at = 0
    BY GateEventIs
  <2>4. \A i \in DOMAIN costs : costs[i].at >= WindowStart(b.period, 0)
    BY <2>2, <2>3
  <2> QED
    BY <1>6, <2>1, <2>4 DEF InWindow, OwnEvents
<1>9. /\ TotalCost(costs, T) = SumOver(Usd(costs), T)
      /\ SumOver(Usd(costs), OwnEvents(costs, a)) <= SumOver(Usd(costs), T)
      /\ SumOver(Usd(costs), OwnEvents(costs, a)) \in Nat /\ SumOver(Usd(costs), T) \in Nat
  BY <1>7, <1>8, CostIsSum, CostsWeigh, SumGrows
<1>10. SumOver(Usd(costs), T) < b.hard
  BY <1>2, <1>5, <1>7, <1>9 DEF Exceeds
<1>11. SpentBy(costs, "agent", a) = 0 \/ SpentBy(costs, "agent", a) = SumOver(Usd(costs), OwnEvents(costs, a))
  BY SpentIs
<1>12. PICK x, y, z : /\ x = SpentBy(costs, "agent", a) /\ z = SumOver(Usd(costs), T)
                      /\ y = SumOver(Usd(costs), OwnEvents(costs, a))
  OBVIOUS
<1>13. b.hard \in Nat /\ z \in Nat /\ y <= z /\ z < b.hard /\ (x = 0 \/ x = y)
  BY <1>2, <1>9, <1>10, <1>11, <1>12
<1>14. x < b.hard
  BY <1>9, <1>12, <1>13
<1> QED
  BY <1>1, <1>12, <1>14

GateTypes ==
  /\ costs \in Seq(GateEvents) /\ gated \subseteq Sessions
  /\ unspent \in [Sessions -> Nat] /\ atRisk \in [GateAgents -> Nat]
  /\ \A s \in gated : unspent[s] = 0

(* What an agent has cost and may still cost. *)
MayCost(a) == SpentBy(costs, "agent", a) + Outstanding(a)

GateInv ==
  /\ GateTypes
  /\ \A k \in DOMAIN AgentBudgets, a \in GateAgents :
       Limited(AgentBudgets[k], a) => MayCost(a) = 0 \/ MayCost(a) < AgentBudgets[k].hard + atRisk[a]

LEMMA MayCostIsNumber ==
  ASSUME GateTypes, NEW a
  PROVE  MayCost(a) \in Nat /\ SpentBy(costs, "agent", a) \in Nat /\ Outstanding(a) \in Nat
         /\ SpentBy(costs, "agent", a) <= MayCost(a)
<1>1. SpentBy(costs, "agent", a) \in Nat
  BY SpentIs DEF GateTypes
<1>2. Outstanding(a) \in Nat
  BY OutstandingIs, SessionsWeigh, SumIsNumber DEF GateTypes
<1>3. PICK x, y : x = SpentBy(costs, "agent", a) /\ y = Outstanding(a)
  OBVIOUS
<1>4. x + y \in Nat /\ x <= x + y
  BY <1>1, <1>2, <1>3
<1> QED
  BY <1>1, <1>2, <1>3, <1>4 DEF MayCost

(* Initially, and one lemma per action. *)
LEMMA GateStart == GateInit => GateInv
<1> SUFFICES ASSUME GateInit PROVE GateInv
  OBVIOUS
<1>1. GateTypes
  BY DEF GateInit, GateTypes
<1>2. ASSUME NEW a PROVE MayCost(a) = 0
  <2>1. OwnEvents(costs, a) = {}
    BY DEF GateInit, OwnEvents
  <2>2. SpentBy(costs, "agent", a) = 0
    BY <1>1, <2>1, SpentIs, SumOfNone DEF GateTypes
  <2>3. PICK w : w = Burden(gated, unspent)
    OBVIOUS
  <2>4. \A s \in SessionsOf(a) : w[s] = 0
    BY <2>3 DEF Burden, GateInit, SessionsOf
  <2>5. SumOver(w, SessionsOf(a)) = 0
    <3>1. PICK T : T = SessionsOf(a)
      OBVIOUS
    <3>2. Weighs(w, T) /\ \A s \in T : w[s] = 0
      BY <1>1, <2>3, <2>4, <3>1, SessionsWeigh DEF GateTypes
    <3> QED
      BY <3>1, <3>2, SumOfNothing
  <2> QED
    BY <2>2, <2>3, <2>5, OutstandingIs DEF MayCost
<1> QED
  BY <1>1, <1>2 DEF GateInv

(* What a change of one session does to what its agent may still cost. *)
LEMMA OutstandingChanges ==
  ASSUME GateTypes, unspent' \in [Sessions -> Nat], NEW s \in Sessions, NEW a,
         \A t \in Sessions : t # s => Burden(gated', unspent')[t] = Burden(gated, unspent)[t]
  PROVE  /\ SessionAgent[s] # a => Outstanding(a)' = Outstanding(a)
         /\ SessionAgent[s] = a =>
              Outstanding(a)' + Burden(gated, unspent)[s] = Outstanding(a) + Burden(gated', unspent')[s]
         /\ Outstanding(a)' \in Nat /\ Outstanding(a) \in Nat
         /\ Burden(gated, unspent)[s] \in Nat /\ Burden(gated', unspent')[s] \in Nat
<1>1. PICK w, v, T : w = Burden(gated, unspent) /\ v = Burden(gated', unspent') /\ T = SessionsOf(a)
  OBVIOUS
<1>2. Weighs(w, T) /\ Weighs(v, T)
  BY <1>1, SessionsWeigh DEF GateTypes
<1>3. Outstanding(a) = SumOver(w, T) /\ Outstanding(a)' = SumOver(v, T)
  BY <1>1, OutstandingIs, OutstandingWillBe
<1>4. T \subseteq Sessions /\ (s \in T <=> SessionAgent[s] = a)
  BY <1>1 DEF SessionsOf
<1>5. \A t \in T : t # s => v[t] = w[t]
  BY <1>1, <1>4
<1>6. w[s] \in Nat /\ v[s] \in Nat
  BY <1>1, GateAssumption DEF Burden, GateTypes
<1>7. SumOver(w, T) \in Nat /\ SumOver(v, T) \in Nat
  BY <1>2, SumIsNumber
<1>8. ASSUME s \in T PROVE SumOver(v, T) + w[s] = SumOver(w, T) + v[s]
  BY <1>2, <1>5, <1>8, SumChanges
<1>9. ASSUME s \notin T PROVE SumOver(v, T) = SumOver(w, T)
  BY <1>2, <1>5, <1>9, SumOfSame
<1> QED
  BY <1>1, <1>3, <1>4, <1>6, <1>7, <1>8, <1>9

(* A step after which no agent owes more. *)
LEMMA GateGoesOn ==
  ASSUME GateInv, GateTypes', UNCHANGED atRisk, \A a \in GateAgents : MayCost(a)' <= MayCost(a)
  PROVE  GateInv'
<1>1. ASSUME NEW k \in DOMAIN AgentBudgets, NEW a \in GateAgents, Limited(AgentBudgets[k], a)
      PROVE  MayCost(a)' = 0 \/ MayCost(a)' < AgentBudgets[k].hard + atRisk'[a]
  <2>1. PICK d, e, h, r : d = MayCost(a) /\ e = MayCost(a)' /\ h = AgentBudgets[k].hard /\ r = atRisk[a]
    OBVIOUS
  <2>2. d \in Nat
    BY <2>1, MayCostIsNumber DEF GateInv
  <2>3. MayCost(a)' \in Nat
    <3>1. SpentBy(costs', "agent", a) \in Nat
      BY SpentIs DEF GateTypes
    <3>2. Outstanding(a)' \in Nat
      BY OutstandingWillBe, SessionsWeigh, SumIsNumber DEF GateTypes
    <3> QED
      BY <3>1, <3>2 DEF MayCost
  <2>4. h \in Nat /\ r \in Nat
    BY <1>1, <2>1, GateAssumption DEF Limited, GateInv, GateTypes
  <2>5. d = 0 \/ d < h + r
    BY <1>1, <2>1 DEF GateInv
  <2>6. e <= d /\ e \in Nat
    BY <2>1, <2>3
  <2>7. e = 0 \/ e < h + r
    BY <2>2, <2>4, <2>5, <2>6
  <2> QED
    BY <2>1, <2>7
<1> QED
  BY <1>1 DEF GateInv

LEMMA GateLets == ASSUME GateInv, NEW s \in Sessions, Gate(s) PROVE GateInv'
<1>1. PICK a : a = SessionAgent[s]
  OBVIOUS
<1>2. /\ s \notin gated /\ unspent[s] = 0 /\ GatePasses(a) /\ gated' = gated \cup {s}
      /\ atRisk' = [atRisk EXCEPT ![a] = Outstanding(a) + RunCost] /\ UNCHANGED <<costs, unspent>>
  BY <1>1 DEF Gate
<1>3. a \in GateAgents
  BY <1>1 DEF GateAgents
<1>4. Outstanding(a) \in Nat /\ RunCost \in Nat
  BY MayCostIsNumber, GateAssumption DEF GateInv
<1>5. GateTypes'
  BY <1>2, <1>3, <1>4 DEF GateInv, GateTypes
<1>6. Burden(gated, unspent)[s] = 0 /\ Burden(gated', unspent')[s] = RunCost
  BY <1>2 DEF Burden
<1>7. \A t \in Sessions : t # s => Burden(gated', unspent')[t] = Burden(gated, unspent)[t]
  BY <1>2 DEF Burden
<1>8. unspent' \in [Sessions -> Nat]
  BY <1>5 DEF GateTypes
<1>9. Outstanding(a)' = Outstanding(a) + RunCost
  <2>1. Outstanding(a)' + Burden(gated, unspent)[s] = Outstanding(a) + Burden(gated', unspent')[s]
        /\ Outstanding(a)' \in Nat
    BY <1>1, <1>7, <1>8, OutstandingChanges DEF GateInv
  <2> QED
    BY <1>4, <1>6, <2>1
<1>10. \A b \in GateAgents : b # a => Outstanding(b)' = Outstanding(b)
  BY <1>1, <1>7, <1>8, OutstandingChanges DEF GateInv
<1>11. \A b : SpentBy(costs, "agent", b)' = SpentBy(costs, "agent", b)
  BY <1>2
<1>12. ASSUME NEW k \in DOMAIN AgentBudgets, NEW b \in GateAgents, Limited(AgentBudgets[k], b)
       PROVE  MayCost(b)' = 0 \/ MayCost(b)' < AgentBudgets[k].hard + atRisk'[b]
  <2>1. CASE b # a
    <3>1. MayCost(b)' = MayCost(b) /\ atRisk'[b] = atRisk[b]
      BY <1>2, <1>3, <1>10, <1>11, <2>1 DEF MayCost, GateInv, GateTypes
    <3> QED
      BY <1>12, <3>1 DEF GateInv
  <2>2. CASE b = a
    <3>1. PICK x, y, h : x = SpentBy(costs, "agent", a) /\ y = Outstanding(a) /\ h = AgentBudgets[k].hard
      OBVIOUS
    <3>2. x \in Nat /\ y \in Nat /\ h \in Nat
      BY <1>12, <3>1, MayCostIsNumber, GateAssumption DEF Limited, GateInv
    <3>3. x < h
      BY <1>2, <1>12, <2>2, <3>1, GateCounts DEF GateInv, GateTypes
    <3>4. MayCost(a)' = x + (y + RunCost) /\ atRisk'[a] = y + RunCost
      BY <1>2, <1>3, <1>9, <1>11, <3>1 DEF MayCost, GateInv, GateTypes
    <3> QED
      BY <1>4, <2>2, <3>1, <3>2, <3>3, <3>4
  <2> QED
    BY <2>1, <2>2
<1> QED
  BY <1>5, <1>12 DEF GateInv

(* A session will report no more than before, and nothing is booked. *)
LEMMA LessIsOwed ==
  ASSUME GateInv, GateTypes', UNCHANGED <<costs, atRisk>>, NEW s \in Sessions,
         \A t \in Sessions : t # s => Burden(gated', unspent')[t] = Burden(gated, unspent)[t],
         Burden(gated', unspent')[s] <= Burden(gated, unspent)[s]
  PROVE  GateInv'
<1>1. unspent' \in [Sessions -> Nat]
  BY DEF GateTypes
<1>2. ASSUME NEW a \in GateAgents PROVE MayCost(a)' <= MayCost(a)
  <2>1. PICK x, z, w, u, v : /\ x = SpentBy(costs, "agent", a) /\ z = Outstanding(a) /\ w = Outstanding(a)'
                             /\ u = Burden(gated, unspent)[s] /\ v = Burden(gated', unspent')[s]
    OBVIOUS
  <2>2. /\ w = z \/ w + u = z + v
        /\ w \in Nat /\ z \in Nat /\ u \in Nat /\ v \in Nat
    BY <1>1, <2>1, OutstandingChanges DEF GateInv
  <2>3. x \in Nat
    BY <2>1, MayCostIsNumber DEF GateInv
  <2>4. v <= u
    BY <2>1
  <2>5. x + w <= x + z
    BY <2>2, <2>3, <2>4
  <2>6. MayCost(a) = x + z /\ MayCost(a)' = x + w
    BY <2>1 DEF MayCost
  <2> QED
    BY <2>5, <2>6
<1> QED
  BY <1>2, GateGoesOn

LEMMA GateClaims == ASSUME GateInv, NEW s \in Sessions, Claims(s) PROVE GateInv'
<1>1. /\ s \in gated /\ gated' = gated \ {s} /\ UNCHANGED <<costs, atRisk>>
      /\ unspent' = unspent \/ unspent' = [unspent EXCEPT ![s] = RunCost]
  BY DEF Claims
<1>2. GateTypes'
  BY <1>1, GateAssumption DEF GateInv, GateTypes
<1>3. \A t \in Sessions : t # s => Burden(gated', unspent')[t] = Burden(gated, unspent)[t]
  BY <1>1 DEF Burden, GateInv, GateTypes
<1>4. Burden(gated, unspent)[s] = RunCost
  BY <1>1 DEF Burden
<1>5. Burden(gated', unspent')[s] <= RunCost
  <2>1. Burden(gated', unspent')[s] = unspent'[s] /\ unspent[s] = 0
    BY <1>1 DEF Burden, GateInv, GateTypes
  <2>2. unspent'[s] = 0 \/ unspent'[s] = RunCost
    BY <1>1, <2>1 DEF GateInv, GateTypes
  <2> QED
    BY <2>1, <2>2, GateAssumption
<1> QED
  BY <1>1, <1>2, <1>3, <1>4, <1>5, LessIsOwed

LEMMA GateEndsCheaply == ASSUME GateInv, NEW s \in Sessions, EndsCheaply(s) PROVE GateInv'
<1>1. unspent' = [unspent EXCEPT ![s] = 0] /\ UNCHANGED <<costs, gated, atRisk>>
  BY DEF EndsCheaply
<1>2. GateTypes'
  BY <1>1 DEF GateInv, GateTypes
<1>3. \A t \in Sessions : t # s => Burden(gated', unspent')[t] = Burden(gated, unspent)[t]
  BY <1>1 DEF Burden, GateInv, GateTypes
<1>4. Burden(gated', unspent')[s] <= Burden(gated, unspent)[s]
  <2>1. unspent'[s] = 0 /\ unspent[s] \in Nat
    BY <1>1 DEF GateInv, GateTypes
  <2> QED
    BY <1>1, <2>1, GateAssumption DEF Burden
<1> QED
  BY <1>1, <1>2, <1>3, <1>4, LessIsOwed

(* A unit is booked on the agent and no longer owed. *)
LEMMA GateBooks == ASSUME GateInv, NEW s \in Sessions, ReportsCost(s) PROVE GateInv'
<1>1. PICK e : e = [agent |-> SessionAgent[s], target |-> "", task |-> "", run |-> "run", usd |-> 1, at |-> 0]
  OBVIOUS
<1>2. /\ unspent[s] > 0 /\ costs' = Append(costs, e) /\ unspent' = [unspent EXCEPT ![s] = @ - 1]
      /\ UNCHANGED <<gated, atRisk>>
  BY <1>1 DEF ReportsCost
<1>3. e \in GateEvents /\ e.agent = SessionAgent[s]
  BY <1>1 DEF GateEvents, GateAgents
<1>4. unspent[s] \in Nat /\ unspent'[s] = unspent[s] - 1 /\ unspent'[s] \in Nat /\ s \notin gated
  BY <1>2 DEF GateInv, GateTypes
<1>5. GateTypes'
  <2>1. costs' \in Seq(GateEvents)
    BY <1>2, <1>3 DEF GateInv, GateTypes
  <2>2. unspent' \in [Sessions -> Nat]
    BY <1>2, <1>4 DEF GateInv, GateTypes
  <2>3. \A t \in gated : unspent'[t] = 0
    BY <1>2, <1>4 DEF GateInv, GateTypes
  <2> QED
    BY <1>2, <2>1, <2>2, <2>3 DEF GateInv, GateTypes
<1>6. \A t \in Sessions : t # s => Burden(gated', unspent')[t] = Burden(gated, unspent)[t]
  BY <1>2 DEF Burden, GateInv, GateTypes
<1>7. Burden(gated, unspent)[s] = unspent[s] /\ Burden(gated', unspent')[s] = unspent[s] - 1
  BY <1>2, <1>4 DEF Burden
<1>8. ASSUME NEW a \in GateAgents PROVE MayCost(a)' <= MayCost(a)
  <2>1. PICK x, y, z, w : /\ x = SpentBy(costs, "agent", a) /\ y = SpentBy(costs', "agent", a)
                          /\ z = Outstanding(a) /\ w = Outstanding(a)'
    OBVIOUS
  <2>2. x \in Nat /\ y \in Nat
    BY <1>5, <2>1, SpentIs DEF GateInv, GateTypes
  <2>3. (e.agent # a => y = x) /\ (e.agent = a => y <= x + 1)
    BY <1>2, <1>3, <2>1, SpentAfter DEF GateInv, GateTypes
  <2>4. /\ e.agent # a => w = z
        /\ e.agent = a => w + unspent[s] = z + (unspent[s] - 1)
        /\ w \in Nat /\ z \in Nat
    BY <1>3, <1>5, <1>6, <1>7, <2>1, OutstandingChanges DEF GateInv, GateTypes
  <2>5. y + w <= x + z
    BY <1>4, <2>2, <2>3, <2>4
  <2> QED
    BY <2>1, <2>5 DEF MayCost
<1> QED
  BY <1>2, <1>5, <1>8, GateGoesOn

(* Every step. *)
LEMMA GateSteps == ASSUME GateInv, [GateNext]_gateVars PROVE GateInv'
<1>1. CASE UNCHANGED gateVars
  <2>1. UNCHANGED <<costs, gated, unspent, atRisk>>
    BY <1>1 DEF gateVars
  <2>2. GateTypes'
    BY <2>1 DEF GateInv, GateTypes
  <2>3. ASSUME NEW a \in GateAgents PROVE MayCost(a)' <= MayCost(a)
    <3>1. Outstanding(a)' = Outstanding(a)
      BY <2>1, OutstandingIs, OutstandingWillBe
    <3>2. MayCost(a)' = MayCost(a)
      BY <2>1, <3>1 DEF MayCost
    <3>3. MayCost(a) \in Nat
      BY MayCostIsNumber DEF GateInv
    <3> QED
      BY <3>2, <3>3
  <2> QED
    BY <2>1, <2>2, <2>3, GateGoesOn
<1>2. ASSUME NEW s \in Sessions, Gate(s) \/ Claims(s) \/ ReportsCost(s) \/ EndsCheaply(s) PROVE GateInv'
  BY <1>2, GateLets, GateClaims, GateBooks, GateEndsCheaply
<1> QED
  BY <1>1, <1>2 DEF GateNext

LEMMA GateFollows == GateInv => OverrunIsBounded
<1> SUFFICES ASSUME GateInv, NEW k \in DOMAIN AgentBudgets, NEW a \in GateAgents, Limited(AgentBudgets[k], a)
             PROVE  \/ SpentBy(costs, "agent", a) = 0
                    \/ SpentBy(costs, "agent", a) < AgentBudgets[k].hard + atRisk[a]
  BY DEF OverrunIsBounded, Limited
<1>1. PICK x, y, h, r : x = SpentBy(costs, "agent", a) /\ y = MayCost(a) /\ h = AgentBudgets[k].hard /\ r = atRisk[a]
  OBVIOUS
<1>2. x \in Nat /\ y \in Nat /\ x <= y
  BY <1>1, MayCostIsNumber DEF GateInv
<1>3. h \in Nat /\ r \in Nat
  BY <1>1, GateAssumption DEF Limited, GateInv, GateTypes
<1>4. y = 0 \/ y < h + r
  BY <1>1 DEF GateInv
<1>5. x = 0 \/ x < h + r
  BY <1>2, <1>3, <1>4
<1> QED
  BY <1>1, <1>5

(* handle_checkout behind the budget gate of agent_api.py, any number of sessions, agents,
   budgets and costs: an agent costs less than the hard limit of its own budget and what
   was let through before and could still be reported together. *)
THEOREM OverrunsAreBounded == Spec => []OverrunIsBounded
<1>1. Init => GateInv
  BY GateStart DEF Init
<1>2. [Next]_vars => [GateNext]_gateVars
  BY DEF Next, vars, Rests, Parts
<1>3. GateInv /\ [Next]_vars => GateInv'
  BY <1>2, GateSteps
<1>4. GateInv => OverrunIsBounded
  BY GateFollows
<1> QED
  BY <1>1, <1>3, <1>4, PTL DEF Spec

(* Every window starts at a number, and that of the day no earlier than that of the
   week, of the month and of the last 24 hours. *)
LEMMA MonthBegins ==
  ASSUME NEW now \in Nat
  PROVE  MonthOf(now) \in Nat /\ MonthOf(now) <= now - (now % 24)
<1>1. PICK T : T = {s \in MonthStarts : s <= now}
  OBVIOUS
<1>2. T \in SUBSET Nat /\ T # {} /\ \A s \in T : s <= now
  <2>1. 0 \in MonthStarts /\ MonthStarts \subseteq Nat
    BY MonthsAssumption
  <2>2. 0 \in T
    BY <1>1, <2>1
  <2> QED
    BY <1>1, <2>1, <2>2
<1>3. PICK m \in T : \A s \in T : s <= m
  BY <1>2, LargestNumber
<1>4. \E s \in MonthStarts : s <= now /\ \A u \in MonthStarts : u <= now => u <= s
  BY <1>1, <1>3
<1>5. PICK s : s = MonthOf(now)
  OBVIOUS
<1>6. s \in MonthStarts /\ s <= now
  BY <1>4, <1>5 DEF MonthOf
<1>7. s \in Nat /\ s % 24 = 0
  BY <1>6, MonthsAssumption
<1>8. s <= now - (now % 24)
  BY <1>6, <1>7
<1> QED
  BY <1>5, <1>7, <1>8

LEMMA WindowsInOrder ==
  ASSUME NEW now \in Nat
  PROVE  /\ \A p \in Periods : WindowStart(p, now) \in Nat
         /\ \A p \in Periods : WindowStart(p, now) <= WindowStart("daily", now)
         /\ WindowStart("lifetime", now) = 0
<1>1. now - (now % 24) \in Nat /\ now - (now % 168) \in Nat /\ Later(now, 24) \in Nat
  BY DEF Later
<1>2. now - (now % 168) <= now - (now % 24) /\ Later(now, 24) <= now - (now % 24)
  BY DEF Later
<1>3. MonthOf(now) \in Nat /\ MonthOf(now) <= now - (now % 24)
  BY MonthBegins
<1>4. /\ WindowStart("lifetime", now) = 0
      /\ WindowStart("rolling_24h", now) = Later(now, 24)
      /\ WindowStart("daily", now) = now - (now % 24)
      /\ WindowStart("weekly", now) = now - (now % 168)
      /\ WindowStart("monthly", now) = MonthOf(now)
  BY DEF WindowStart
<1> QED
  BY <1>1, <1>2, <1>3, <1>4 DEF Periods

(* Events as they are in a log. *)
IsCostEvent(e) == e.usd \in Nat /\ e.at \in Nat \cup {Unparsable}

LEMMA EventsWeigh ==
  ASSUME NEW events, NEW n \in Nat, DOMAIN events = 1 .. n, \A i \in 1 .. n : IsCostEvent(events[i])
  PROVE  Weighs(Usd(events), DOMAIN events)
<1>1. IsFiniteSet(1 .. n)
  BY FS_Interval
<1> QED
  BY <1>1 DEF Weighs, Usd, IsCostEvent

CountedEvents(events, ctx, period, now) ==
  {i \in DOMAIN events : Belongs(events[i], ctx) /\ InWindow(events[i], period, now)}

LEMMA SpentIsSum ==
  ASSUME NEW b, NEW events, NEW ctx, NEW now
  PROVE  Spent(b, events, ctx, now) = SumOver(Usd(events), CountedEvents(events, ctx, b.period, now))
<1>1. PICK S : S = CountedEvents(events, ctx, b.period, now)
  OBVIOUS
<1>2. S \subseteq DOMAIN events
  BY <1>1 DEF CountedEvents
<1>3. Spent(b, events, ctx, now) = TotalCost(events, S)
  BY <1>1 DEF Spent, CountedEvents
<1> QED
  BY <1>1, <1>2, <1>3, CostIsSum

LEMMA WindowsDoNest ==
  ASSUME NEW events, NEW n \in Nat, DOMAIN events = 1 .. n, \A i \in 1 .. n : IsCostEvent(events[i]),
         NEW ctx, NEW now \in Nat
  PROVE  WindowsNest(events, ctx, now)
<1> DEFINE Counted(p) == CountedEvents(events, ctx, p, now)
           Sum(p) == SumOver(Usd(events), Counted(p))
<1>1. \A p \in Periods : Counted("daily") \subseteq Counted(p) /\ Counted(p) \subseteq Counted("lifetime")
  <2> SUFFICES ASSUME NEW p \in Periods, NEW i \in DOMAIN events
               PROVE  /\ InWindow(events[i], "daily", now) => InWindow(events[i], p, now)
                      /\ InWindow(events[i], p, now) => InWindow(events[i], "lifetime", now)
    BY DEF CountedEvents
  <2>1. PICK at, day, start : at = events[i].at /\ day = WindowStart("daily", now) /\ start = WindowStart(p, now)
    OBVIOUS
  <2>2. at \in Nat \cup {Unparsable}
    BY <2>1 DEF IsCostEvent
  <2>3. start \in Nat /\ day \in Nat /\ start <= day /\ WindowStart("lifetime", now) = 0
    BY <2>1, WindowsInOrder DEF Periods
  <2>4. CASE at = Unparsable
    BY <2>1, <2>4 DEF InWindow
  <2>5. CASE at \in Nat
    <3>1. (at >= day => at >= start) /\ at >= 0
      BY <2>3, <2>5
    <3> QED
      BY <2>1, <2>3, <3>1 DEF InWindow
  <2> QED
    BY <2>2, <2>4, <2>5
<1>2. \A p \in Periods : Counted(p) \subseteq DOMAIN events
  BY DEF CountedEvents
<1>3. \A p \in Periods : Weighs(Usd(events), Counted(p))
  BY <1>2, EventsWeigh, FS_Subset DEF Weighs
<1>4. \A p \in Periods : Sum("daily") <= Sum(p) /\ Sum(p) <= Sum("lifetime")
  <2> HIDE DEF Counted
  <2>1. \A p \in Periods : SumOver(Usd(events), Counted("daily")) <= SumOver(Usd(events), Counted(p))
    BY <1>1, <1>3, SumGrows
  <2>2. "lifetime" \in Periods
    BY DEF Periods
  <2>3. \A p \in Periods : SumOver(Usd(events), Counted(p)) <= SumOver(Usd(events), Counted("lifetime"))
    BY <1>1, <1>3, <2>2, SumGrows
  <2> QED
    BY <2>1, <2>3
<1>5. \A p \in Periods : Spent([period |-> p], events, ctx, now) = Sum(p)
  BY SpentIsSum
<1>6. "daily" \in Periods /\ "lifetime" \in Periods /\ {"weekly", "monthly", "rolling_24h"} \subseteq Periods
  BY DEF Periods
<1> HIDE DEF Sum
<1> QED
  BY <1>4, <1>5, <1>6, Zenon DEF WindowsNest

(* A log that goes on after another. *)
Continues(events, es) ==
  /\ \E m \in Nat : DOMAIN es = 1 .. m
  /\ \E n \in Nat : DOMAIN events = 1 .. n
  /\ DOMAIN es \subseteq DOMAIN events
  /\ \A i \in DOMAIN es : es[i] = events[i]
  /\ \A i \in DOMAIN events : IsCostEvent(events[i])

LEMMA SpentGrows ==
  ASSUME NEW events, NEW es, Continues(events, es), NEW b, NEW ctx, NEW now
  PROVE  /\ Spent(b, es, ctx, now) \in Nat /\ Spent(b, events, ctx, now) \in Nat
         /\ Spent(b, es, ctx, now) <= Spent(b, events, ctx, now)
<1>1. PICK few, all : /\ few = CountedEvents(es, ctx, b.period, now)
                      /\ all = CountedEvents(events, ctx, b.period, now)
  OBVIOUS
<1>2. few \subseteq all /\ few \subseteq DOMAIN es /\ all \subseteq DOMAIN events
  BY <1>1 DEF Continues, CountedEvents
<1>3. Weighs(Usd(events), all)
  BY <1>2, EventsWeigh, FS_Subset DEF Continues, Weighs
<1>4. Weighs(Usd(es), few)
  BY <1>2, EventsWeigh, FS_Subset DEF Continues, Weighs
<1>5. \A i \in few : Usd(events)[i] = Usd(es)[i]
  BY <1>2 DEF Continues, Usd
<1>6. SumOver(Usd(events), few) = SumOver(Usd(es), few)
  BY <1>4, <1>5, SumOfSame
<1>7. SumOver(Usd(events), few) <= SumOver(Usd(events), all) /\ SumOver(Usd(events), few) \in Nat
      /\ SumOver(Usd(events), all) \in Nat
  BY <1>2, <1>3, SumGrows
<1>8. /\ Spent(b, es, ctx, now) = SumOver(Usd(es), few)
      /\ Spent(b, events, ctx, now) = SumOver(Usd(events), all)
  BY <1>1, SpentIsSum
<1> QED
  BY <1>6, <1>7, <1>8

LimitsAre(b) == b.soft \in Nat \cup {NoLimit} /\ b.hard \in Nat \cup {NoLimit}

LEMMA LimitsTighten ==
  ASSUME NEW events, NEW es, Continues(events, es), NEW b, LimitsAre(b), NEW ctx, NEW now
  PROVE  /\ Blocks(b, es, ctx, now) => Blocks(b, events, ctx, now)
         /\ Warns(b, es, ctx, now) => Warns(b, events, ctx, now)
<1>1. PICK x, y : x = Spent(b, es, ctx, now) /\ y = Spent(b, events, ctx, now)
  OBVIOUS
<1>2. x \in Nat /\ y \in Nat /\ x <= y
  BY <1>1, SpentGrows
<1>3. ASSUME NEW limit \in Nat \cup {NoLimit}, Exceeds(limit, x) PROVE Exceeds(limit, y)
  <2>1. limit # NoLimit /\ limit \in Nat /\ x >= limit
    BY <1>3 DEF Exceeds
  <2>2. y >= limit
    BY <1>2, <2>1
  <2> QED
    BY <2>1, <2>2 DEF Exceeds
<1> QED
  BY <1>1, <1>3 DEF Blocks, Warns, LimitsAre

LEMMA GatesTighten ==
  ASSUME NEW events, NEW es, Continues(events, es), NEW ctx, NEW now,
         NEW budgets, \A k \in DOMAIN budgets : LimitsAre(budgets[k])
  PROVE  /\ Evaluate(budgets, es, ctx, now) = "block" => Evaluate(budgets, events, ctx, now) = "block"
         /\ Evaluate(budgets, es, ctx, now) = "warn" => Evaluate(budgets, events, ctx, now) # "allow"
<1>1. \A k \in DOMAIN budgets :
        /\ Blocks(budgets[k], es, ctx, now) => Blocks(budgets[k], events, ctx, now)
        /\ Warns(budgets[k], es, ctx, now) => Warns(budgets[k], events, ctx, now)
  BY LimitsTighten
<1> QED
  BY <1>1 DEF Evaluate

LEMMA CostsTighten ==
  ASSUME NEW events, events # <<>>, NEW S, events \in Seq(S), \A e \in S : IsCostEvent(e),
         NEW declarations, \A k \in DOMAIN declarations : LimitsAre(declarations[k]),
         NEW target, NEW department, NEW now
  PROVE  CostsOnlyTighten(declarations, events, target, department, now)
<1>1. PICK es : es = SubSeq(events, 1, Len(events) - 1)
  OBVIOUS
<1>2. Continues(events, es)
  <2>1. Len(events) \in Nat /\ DOMAIN events = 1 .. Len(events) /\ Len(events) - 1 \in Nat
    OBVIOUS
  <2>2. DOMAIN es = 1 .. Len(events) - 1 /\ \A i \in 1 .. Len(events) - 1 : es[i] = events[i]
    BY <1>1, <2>1
  <2>3. \A i \in DOMAIN events : events[i] \in S
    OBVIOUS
  <2>4. DOMAIN es \subseteq DOMAIN events /\ \A i \in DOMAIN es : es[i] = events[i]
    BY <2>1, <2>2
  <2>5. \A i \in DOMAIN events : IsCostEvent(events[i])
    BY <2>3
  <2> QED
    BY <2>1, <2>2, <2>4, <2>5 DEF Continues
<1>3. PICK budgets : budgets = ConfiguredBudgets(declarations)
  OBVIOUS
<1>4. \A k \in DOMAIN budgets : LimitsAre(budgets[k])
  BY <1>3 DEF ConfiguredBudgets, Restrict
<1>5. PICK ctx : ctx = [target |-> target, agent |-> "", task |-> "", run |-> "", department |-> department]
  OBVIOUS
<1>6. ASSUME NEW log
      PROVE  BudgetCheck(TRUE, declarations, log, target, department, now)
               = IF DOMAIN budgets = {} THEN "allow" ELSE Evaluate(budgets, log, ctx, now)
  BY <1>3, <1>5 DEF BudgetCheck
<1>7. /\ Evaluate(budgets, es, ctx, now) = "block" => Evaluate(budgets, events, ctx, now) = "block"
      /\ Evaluate(budgets, es, ctx, now) = "warn" => Evaluate(budgets, events, ctx, now) # "allow"
  BY <1>2, <1>4, GatesTighten
<1> HIDE <1>3, <1>5
<1> QED
  BY <1>1, <1>6, <1>7 DEF CostsOnlyTighten

(* Stored records.  What a class has to be for its records to settle. *)
Kinds == {"text", "optional", "bool", "number", "list", "dict", "history"}

SettlingClass(class) ==
  /\ class = [kinds |-> class.kinds, own |-> class.own, extras |-> class.extras]
  /\ class.extras \in BOOLEAN
  /\ \A f \in DOMAIN class.kinds : class.kinds[f] \in Kinds
  /\ \A f \in DOMAIN class.kinds \cap class.own : class.kinds[f] \in {"text", "bool"}
  /\ "current_run_id" \notin class.own
  /\ "current_run_id" \in DOMAIN class.kinds => class.kinds["current_run_id"] = "text"

LEMMA PlainClass ==
  ASSUME NEW text, NEW optional, NEW list, NEW dict, NEW own, NEW extras \in BOOLEAN,
         (own \cup {"current_run_id"}) \cap (optional \cup list \cup dict) = {}, "current_run_id" \notin own
  PROVE  SettlingClass(Class(text, optional, list, dict, own, extras))
BY DEF SettlingClass, Class, Kinds

LEMMA WiderClass ==
  ASSUME NEW class, SettlingClass(class), NEW kind \in Kinds, NEW fields,
         "current_run_id" \notin fields, kind = "bool" \/ fields \cap class.own = {}
  PROVE  SettlingClass(AndFields(class, kind, fields)) /\ AndFields(class, kind, fields).own = class.own
<1>1. PICK to : to = [f \in DOMAIN class.kinds \cup fields |-> IF f \in fields THEN kind ELSE class.kinds[f]]
  OBVIOUS
<1>2. AndFields(class, kind, fields) = [class EXCEPT !.kinds = to]
  BY <1>1 DEF AndFields
<1>3. [class EXCEPT !.kinds = to] = [kinds |-> to, own |-> class.own, extras |-> class.extras]
  BY DEF SettlingClass
<1> QED
  BY <1>1, <1>2, <1>3 DEF SettlingClass, Kinds

LEMMA ConversionsSettle ==
  ASSUME NEW kind \in Kinds, NEW v \in Values \cup {"'default'"}
  PROVE  /\ Converted(kind, v) \in Values \cup {"error"}
         /\ Converted(kind, v) # "error" => Converted(kind, Converted(kind, v)) = Converted(kind, v)
         /\ WellTyped(kind, v) => Converted(kind, v) = v
<1>1. CASE kind = "text"
  BY <1>1 DEF Converted, AsText, WellTyped, Texts, Values, Falsy, Lists, Dicts
<1>2. CASE kind = "optional"
  BY <1>2 DEF Converted, Kept, WellTyped, Texts, Values
<1>3. CASE kind = "bool"
  BY <1>3 DEF Converted, Truth, WellTyped, Texts, Values, Falsy, Lists, Dicts
<1>4. CASE kind = "number"
  BY <1>4 DEF Converted, AsNumber, WellTyped, Texts, Values, Falsy, Lists, Dicts
<1>5. CASE kind = "list"
  BY <1>5 DEF Converted, AsList, WellTyped, Texts, Values, Falsy, Lists, Dicts
<1>6. CASE kind = "dict"
  BY <1>6 DEF Converted, AsDict, WellTyped, Texts, Values, Falsy, Lists, Dicts
<1>7. CASE kind = "history"
  BY <1>7 DEF Converted, AsHistory, WellTyped, Texts, Values, Falsy, Lists, Dicts
<1> QED
  BY <1>1, <1>2, <1>3, <1>4, <1>5, <1>6, <1>7 DEF Kinds

LEMMA ErrorIsNoValue == "error" \notin Values
BY DEF Values, Texts, Falsy, Lists, Dicts

LEMMA DefaultsSettle ==
  ASSUME NEW class, SettlingClass(class), NEW f \in DOMAIN class.kinds
  PROVE  /\ DefaultOf(class, f) # "error"
         /\ Converted(class.kinds[f], DefaultOf(class, f)) = DefaultOf(class, f)
<1>1. PICK kind \in Kinds : kind = class.kinds[f]
  BY DEF SettlingClass
<1>2. CASE f \in class.own
  <2>1. kind \in {"text", "bool"}
    BY <1>1, <1>2 DEF SettlingClass
  <2> QED
    BY <1>1, <1>2, <2>1 DEF DefaultOf, Converted, AsText, Truth, Texts, Falsy
<1>3. CASE f \notin class.own
  <2>1. DefaultOf(class, f) = Absent(kind)
    BY <1>1, <1>3 DEF DefaultOf
  <2>2. Absent(kind) # "error" /\ Converted(kind, Absent(kind)) = Absent(kind)
    <3>1. CASE kind = "text"
      BY <3>1 DEF Absent, Converted, AsText, Texts
    <3>2. CASE kind = "optional"
      BY <3>2 DEF Absent, Converted, Kept
    <3>3. CASE kind = "bool"
      BY <3>3 DEF Absent, Converted, Truth, Falsy
    <3>4. CASE kind = "number"
      BY <3>4 DEF Absent, Converted, AsNumber, Falsy
    <3>5. CASE kind = "list"
      <4>1. Absent("list") = "[]"
        BY DEF Absent
      <4>2. AsList("[]") = "[]"
        BY DEF AsList, Falsy, Lists, Texts, Dicts
      <4>3. Converted("list", "[]") = "[]"
        BY <4>2 DEF Converted
      <4> QED
        BY <3>5, <4>1, <4>3
    <3>6. CASE kind = "dict"
      BY <3>6 DEF Absent, Converted, AsDict, Falsy
    <3>7. CASE kind = "history"
      BY <3>7 DEF Absent, Converted, AsHistory
    <3> QED
      BY <3>1, <3>2, <3>3, <3>4, <3>5, <3>6, <3>7 DEF Kinds
  <2> QED
    BY <1>1, <2>1, <2>2
<1> QED
  BY <1>2, <1>3

LEMMA RecordsDoSettle ==
  ASSUME NEW class, SettlingClass(class),
         NEW raw, \A f \in DOMAIN raw : raw[f] \in Values
  PROVE  RecordsSettle(class, raw)
<1>1. PICK kinds, K : kinds = class.kinds /\ K = DOMAIN kinds
  OBVIOUS
<1>2. PICK read, fields, extras :
        /\ read = FromDict(class, raw)
        /\ fields = [f \in K |-> IF f \in DOMAIN raw THEN Converted(kinds[f], raw[f]) ELSE DefaultOf(class, f)]
        /\ extras = [f \in (IF class.extras THEN DOMAIN raw \ K ELSE {}) |-> raw[f]]
  OBVIOUS
<1>0. read = [fields |-> fields, extras |-> extras] /\ fields = read.fields /\ extras = read.extras
  BY <1>1, <1>2 DEF FromDict
<1>3. PICK stored : stored = ToDict(read)
  OBVIOUS
<1>4. PICK kept : kept = {f \in K : f # "current_run_id" \/ fields[f] # "''"}
  OBVIOUS
<1>5. /\ stored = [f \in kept \cup DOMAIN extras |-> IF f \in kept THEN fields[f] ELSE extras[f]]
  BY <1>0, <1>2, <1>3, <1>4 DEF ToDict
<1> SUFFICES ASSUME ~Raises(read)
             PROVE  /\ FromDict(class, stored) = read
                    /\ \A f \in DOMAIN raw \cap K :
                         WellTyped(kinds[f], raw[f]) =>
                           \/ f \in DOMAIN stored /\ stored[f] = raw[f]
                           \/ f = "current_run_id" /\ raw[f] = "''"
                    /\ class.extras => \A f \in DOMAIN raw \ K : f \in DOMAIN stored /\ stored[f] = raw[f]
  BY <1>0, <1>1, <1>2, <1>3 DEF RecordsSettle
<1>6. \A f \in K : fields[f] # "error"
  BY <1>0, <1>2 DEF Raises
<1>7. \A f \in K : Converted(kinds[f], fields[f]) = fields[f]
  <2> SUFFICES ASSUME NEW f \in K PROVE Converted(kinds[f], fields[f]) = fields[f]
    OBVIOUS
  <2>1. CASE f \in DOMAIN raw
    <3>1. fields[f] = Converted(kinds[f], raw[f]) /\ kinds[f] \in Kinds /\ raw[f] \in Values
      BY <1>1, <1>2, <2>1 DEF SettlingClass
    <3> QED
      BY <1>6, <3>1, ConversionsSettle
  <2>2. CASE f \notin DOMAIN raw
    BY <1>1, <1>2, <2>2, DefaultsSettle
  <2> QED
    BY <2>1, <2>2
<1>8. K \cap DOMAIN stored = kept /\ DOMAIN stored \ K = DOMAIN extras
  BY <1>2, <1>4, <1>5
<1>9. \A f \in kept : stored[f] = fields[f]
  BY <1>5
<1>10. \A f \in DOMAIN extras : stored[f] = extras[f]
  BY <1>2, <1>4, <1>5
<1>11. \A f \in K \ kept : fields[f] = DefaultOf(class, f)
  <2> SUFFICES ASSUME NEW f \in K \ kept PROVE fields[f] = DefaultOf(class, f)
    OBVIOUS
  <2>1. f = "current_run_id" /\ fields[f] = "''"
    BY <1>4
  <2>2. f \notin class.own /\ class.kinds[f] = "text"
    BY <1>1, <2>1 DEF SettlingClass
  <2> QED
    BY <2>1, <2>2 DEF DefaultOf, Absent
<1>12. FromDict(class, stored).fields = fields
  <2>1. FromDict(class, stored).fields
          = [f \in K |-> IF f \in DOMAIN stored THEN Converted(kinds[f], stored[f]) ELSE DefaultOf(class, f)]
    BY <1>1 DEF FromDict
  <2>2. \A f \in K : (IF f \in DOMAIN stored THEN Converted(kinds[f], stored[f]) ELSE DefaultOf(class, f))
                       = fields[f]
    BY <1>7, <1>8, <1>9, <1>11
  <2>3. fields = [f \in K |-> fields[f]]
    BY <1>2
  <2> QED
    BY <2>1, <2>2, <2>3
<1>13. FromDict(class, stored).extras = extras
  <2>1. FromDict(class, stored).extras = [f \in (IF class.extras THEN DOMAIN stored \ K ELSE {}) |-> stored[f]]
    BY <1>1 DEF FromDict
  <2>2. (IF class.extras THEN DOMAIN stored \ K ELSE {}) = DOMAIN extras
    BY <1>2, <1>8
  <2>3. extras = [f \in DOMAIN extras |-> extras[f]]
    BY <1>2
  <2> QED
    BY <1>10, <2>1, <2>2, <2>3
<1>14. FromDict(class, stored) = read
  <2>1. FromDict(class, stored)
          = [fields |-> FromDict(class, stored).fields, extras |-> FromDict(class, stored).extras]
    BY DEF FromDict
  <2> QED
    BY <1>0, <1>12, <1>13, <2>1
<1>15. ASSUME NEW f \in DOMAIN raw \cap K, WellTyped(kinds[f], raw[f])
       PROVE  \/ f \in DOMAIN stored /\ stored[f] = raw[f]
              \/ f = "current_run_id" /\ raw[f] = "''"
  <2>1. kinds[f] \in Kinds /\ raw[f] \in Values
    BY <1>1 DEF SettlingClass
  <2>2. fields[f] = raw[f]
    BY <1>2, <1>15, <2>1, ConversionsSettle
  <2> QED
    BY <1>4, <1>8, <1>9, <2>2
<1>16. class.extras => \A f \in DOMAIN raw \ K : f \in DOMAIN stored /\ stored[f] = raw[f]
  BY <1>2, <1>8, <1>10
<1> QED
  BY <1>14, <1>15, <1>16

LEMMA ClassesSettle == \A c \in DOMAIN Classes : SettlingClass(Classes[c])
<1>1. SettlingClass(TaskClass)
  <2>1. PICK plain :
          plain = Class({"id", "repo", "title", "status", "priority", "category", "task_type", "owner", "created_by",
                         "created_at", "updated_at", "notes", "product_key", "target_path",
                         "verification_command", "repo_handoff_path", "current_run_id"},
                        {}, {"acceptance_criteria", "audits_required"}, {"approval", "source_finding", "pr"},
                        {"status", "priority", "category", "task_type", "handoff_required"}, TRUE)
    OBVIOUS
  <2>2. SettlingClass(plain) /\ {"history"} \cap plain.own = {}
    <3>1. SettlingClass(plain)
      BY <2>1, PlainClass
    <3> QED
      BY <2>1, <3>1 DEF Class
  <2>3. PICK wider : wider = AndFields(plain, "bool", {"handoff_required"})
    OBVIOUS
  <2>4. SettlingClass(wider) /\ wider.own = plain.own
    BY <2>2, <2>3, WiderClass DEF Kinds
  <2>5. SettlingClass(AndFields(wider, "history", {"history"}))
    BY <2>2, <2>4, WiderClass DEF Kinds
  <2> QED
    BY <2>1, <2>3, <2>5 DEF TaskClass
<1>2. SettlingClass(CostEventClass)
  <2>1. PICK plain, counts :
          /\ plain = Class({"id", "provider", "model", "source", "timestamp"},
                           {"run_id", "task_id", "agent_id", "target"}, {}, {}, {"source"}, FALSE)
          /\ counts = {"input_tokens", "output_tokens", "total_tokens", "estimated_cost_usd"}
    OBVIOUS
  <2>2. SettlingClass(plain) /\ counts \cap plain.own = {} /\ "current_run_id" \notin counts
    <3>1. SettlingClass(plain)
      BY <2>1, PlainClass
    <3> QED
      BY <2>1, <3>1 DEF Class
  <2>3. PICK wider : wider = AndFields(plain, "number", counts)
    OBVIOUS
  <2>4. SettlingClass(wider)
    BY <2>2, <2>3, WiderClass DEF Kinds
  <2>5. SettlingClass(AndFields(wider, "bool", {"verified"}))
    BY <2>4, WiderClass DEF Kinds
  <2> QED
    BY <2>1, <2>3, <2>5 DEF CostEventClass
<1>3. SettlingClass(AdapterConfigClass)
  <2>1. PICK plain :
          plain = Class({"agent_id", "adapter_type", "command", "cwd_strategy", "prompt_template"},
                        {}, {"args", "env_allowlist"}, {"metadata"}, {"cwd_strategy"}, FALSE)
    OBVIOUS
  <2>2. SettlingClass(plain) /\ {"timeout_seconds"} \cap plain.own = {}
    <3>1. SettlingClass(plain)
      BY <2>1, PlainClass
    <3> QED
      BY <2>1, <3>1 DEF Class
  <2>3. PICK wider : wider = AndFields(plain, "number", {"timeout_seconds"})
    OBVIOUS
  <2>4. SettlingClass(wider)
    BY <2>2, <2>3, WiderClass DEF Kinds
  <2>5. SettlingClass(AndFields(wider, "bool", {"dry_run_default"}))
    BY <2>4, WiderClass DEF Kinds
  <2> QED
    BY <2>1, <2>3, <2>5 DEF AdapterConfigClass
<1>4. SettlingClass(RunClass)
  BY PlainClass DEF RunClass
<1>5. SettlingClass(ApprovalClass)
  BY PlainClass DEF ApprovalClass
<1>6. SettlingClass(WorkspaceClass)
  BY PlainClass DEF WorkspaceClass
<1>7. SettlingClass(AgentClass)
  BY PlainClass DEF AgentClass
<1>8. SettlingClass(ActorClass)
  BY PlainClass DEF ActorClass
<1>9. SettlingClass(AuditEventClass)
  BY PlainClass DEF AuditEventClass
<1>10. /\ DOMAIN Classes = {"Task", "Run", "Approval", "CostEvent", "Workspace", "AdapterConfig", "Agent",
                            "Actor", "AuditEvent"}
       /\ Classes["Task"] = TaskClass /\ Classes["Run"] = RunClass /\ Classes["Approval"] = ApprovalClass
       /\ Classes["CostEvent"] = CostEventClass /\ Classes["Workspace"] = WorkspaceClass
       /\ Classes["AdapterConfig"] = AdapterConfigClass /\ Classes["Agent"] = AgentClass
       /\ Classes["Actor"] = ActorClass /\ Classes["AuditEvent"] = AuditEventClass
  BY DEF Classes
<1> QED
  BY <1>1, <1>2, <1>3, <1>4, <1>5, <1>6, <1>7, <1>8, <1>9, <1>10

(* Scans.  Places in a list of lists are finitely many pairs of numbers, in an order. *)
FiniteLists(lists) ==
  /\ \E n \in Nat : DOMAIN lists = 1 .. n
  /\ \A i \in DOMAIN lists : DOMAIN lists[i] \in SUBSET Nat /\ IsFiniteSet(DOMAIN lists[i])

LEMMA PlacesAre ==
  ASSUME NEW lists
  PROVE  /\ \A i, k : <<i, k>> \in PlacesIn(lists) <=> i \in DOMAIN lists /\ k \in DOMAIN lists[i]
         /\ \A p \in PlacesIn(lists) :
              p = <<p[1], p[2]>> /\ p[1] \in DOMAIN lists /\ p[2] \in DOMAIN lists[p[1]]
BY DEF PlacesIn

LEMMA PlacesFinite ==
  ASSUME NEW lists, FiniteLists(lists)
  PROVE  IsFiniteSet(PlacesIn(lists)) /\ PlacesIn(lists) \subseteq Nat \X Nat
<1>1. PICK n \in Nat : DOMAIN lists = 1 .. n
  BY DEF FiniteLists
<1>2. PICK row : row = [i \in 1 .. n |-> {i} \X DOMAIN lists[i]]
  OBVIOUS
<1>3. PICK rows : rows = {{i} \X DOMAIN lists[i] : i \in 1 .. n}
  OBVIOUS
<1>4. row \in Surjection(1 .. n, rows)
  BY <1>2, <1>3 DEF Surjection
<1>5. IsFiniteSet(rows)
  BY <1>4, FS_Interval, FS_Surjection
<1>6. ASSUME NEW r \in rows PROVE IsFiniteSet(r)
  <2>1. PICK i \in 1 .. n : r = {i} \X DOMAIN lists[i]
    BY <1>3
  <2>2. IsFiniteSet({i}) /\ IsFiniteSet(DOMAIN lists[i])
    BY <1>1, FS_Singleton DEF FiniteLists
  <2> QED
    BY <2>1, <2>2, FS_Product
<1>7. PlacesIn(lists) = UNION rows
  BY <1>1, <1>3 DEF PlacesIn
<1>8. IsFiniteSet(PlacesIn(lists))
  BY <1>5, <1>6, <1>7, FS_UNION
<1> QED
  BY <1>1, <1>8, PlacesAre DEF FiniteLists

LEMMA BeforeIsOrder ==
  /\ \A p \in Nat \X Nat : ~Precedes(p, p)
  /\ \A p, q \in Nat \X Nat : p = q \/ Precedes(p, q) \/ Precedes(q, p)
  /\ \A p, q, r \in Nat \X Nat : Precedes(p, q) /\ Precedes(q, r) => Precedes(p, r)
BY DEF Precedes

LEMMA FirstPlace ==
  ASSUME NEW S, S # {}, S \subseteq Nat \X Nat
  PROVE  \E p \in S : \A q \in S : ~Precedes(q, p)
<1>1. PICK N : N = {p[1] : p \in S}
  OBVIOUS
<1>2. N # {} /\ N \subseteq Nat
  BY <1>1
<1>3. PICK i \in N : \A m \in N : i <= m
  BY <1>2, LeastNumber
<1>4. PICK M : M = {p[2] : p \in {q \in S : q[1] = i}}
  OBVIOUS
<1>5. M # {} /\ M \subseteq Nat
  BY <1>1, <1>4
<1>6. PICK k \in M : \A m \in M : k <= m
  BY <1>5, LeastNumber
<1>7. PICK p \in S : p[1] = i /\ p[2] = k
  BY <1>4
<1>8. ASSUME NEW q \in S, Precedes(q, p) PROVE FALSE
  <2>1. q[1] \in Nat /\ q[2] \in Nat /\ i \in Nat /\ k \in Nat /\ i <= q[1]
    BY <1>1, <1>2, <1>3, <1>5
  <2>2. q[1] = i => k <= q[2]
    BY <1>4, <1>6
  <2> QED
    BY <1>7, <1>8, <2>1, <2>2 DEF Precedes
<1> QED
  BY <1>8

(* Severities have a rank, and the merged findings an order by it. *)
LEMMA RanksAreNumbers == ASSUME NEW s PROVE Rank(s) \in Nat
<1>1. ASSUME s \in Levels PROVE \E i \in 1 .. 5 : SeverityOrder[i] = s
  BY <1>1 DEF Levels, Range, SeverityOrder
<1> QED
  BY <1>1 DEF Rank

Placed(found) == IsFiniteSet(DOMAIN found) /\ DOMAIN found \subseteq Nat \X Nat

LEMMA AheadIsOrder ==
  ASSUME NEW found, Placed(found)
  PROVE  /\ \A p \in DOMAIN found : p \notin Ahead(found, p) /\ Ahead(found, p) \subseteq DOMAIN found
         /\ \A p, q \in DOMAIN found : p = q \/ p \in Ahead(found, q) \/ q \in Ahead(found, p)
         /\ \A p, q \in DOMAIN found : p \in Ahead(found, q) => Ahead(found, p) \subseteq Ahead(found, q)
<1> DEFINE rank(p) == Rank(found[p].severity)
<1>1. \A p \in DOMAIN found : rank(p) \in Nat
  BY RanksAreNumbers
<1>2. \A p, q \in DOMAIN found :
        q \in Ahead(found, p) <=> rank(q) < rank(p) \/ (rank(q) = rank(p) /\ Precedes(q, p))
  BY DEF Ahead
<1>3. \A p \in DOMAIN found : Ahead(found, p) \subseteq DOMAIN found
  BY DEF Ahead
<1>4. \A p \in DOMAIN found : p \in Nat \X Nat
  BY DEF Placed
<1> HIDE DEF rank
<1>5. \A p \in DOMAIN found : p \notin Ahead(found, p)
  BY <1>1, <1>2, <1>4, BeforeIsOrder
<1>6. \A p, q \in DOMAIN found : p = q \/ p \in Ahead(found, q) \/ q \in Ahead(found, p)
  BY <1>1, <1>2, <1>4, BeforeIsOrder
<1>7. ASSUME NEW p \in DOMAIN found, NEW q \in DOMAIN found, p \in Ahead(found, q), NEW r \in Ahead(found, p)
      PROVE  r \in Ahead(found, q)
  <2>1. r \in DOMAIN found
    BY <1>3
  <2>2. rank(r) < rank(p) \/ (rank(r) = rank(p) /\ Precedes(r, p))
    BY <1>2, <2>1
  <2>3. rank(p) < rank(q) \/ (rank(p) = rank(q) /\ Precedes(p, q))
    BY <1>2, <1>7
  <2>4. Precedes(r, p) /\ Precedes(p, q) => Precedes(r, q)
    BY <1>4, <2>1, BeforeIsOrder
  <2>5. rank(r) < rank(q) \/ (rank(r) = rank(q) /\ Precedes(r, q))
    BY <1>1, <2>1, <2>2, <2>3, <2>4
  <2> QED
    BY <1>2, <2>1, <2>5
<1> QED
  BY <1>3, <1>5, <1>6, <1>7

LEMMA AheadCounts ==
  ASSUME NEW found, Placed(found)
  PROVE  /\ \A p \in DOMAIN found : Cardinality(Ahead(found, p)) \in Nat
         /\ \A p, q \in DOMAIN found :
              p \in Ahead(found, q) => Cardinality(Ahead(found, p)) < Cardinality(Ahead(found, q))
<1>1. \A p \in DOMAIN found : IsFiniteSet(Ahead(found, p)) /\ Cardinality(Ahead(found, p)) \in Nat
  BY AheadIsOrder, FS_Subset, FS_CardinalityType DEF Placed
<1>2. ASSUME NEW p \in DOMAIN found, NEW q \in DOMAIN found, p \in Ahead(found, q)
      PROVE  Cardinality(Ahead(found, p)) < Cardinality(Ahead(found, q))
  <2>1. Ahead(found, p) \subseteq Ahead(found, q) /\ Ahead(found, p) # Ahead(found, q)
    BY <1>2, AheadIsOrder
  <2>2. /\ Cardinality(Ahead(found, p)) <= Cardinality(Ahead(found, q))
        /\ Cardinality(Ahead(found, p)) # Cardinality(Ahead(found, q))
    BY <1>1, <2>1, FS_Subset
  <2> QED
    BY <1>1, <2>2
<1> QED
  BY <1>1, <1>2

(* The cap: no more than so many, and whoever is ahead of one that is kept is kept too. *)
LEMMA CapHolds ==
  ASSUME NEW found, Placed(found), NEW max \in Nat
  PROVE  /\ IsFiniteSet(Capped(found, max)) /\ Cardinality(Capped(found, max)) <= max
         /\ \A p \in DOMAIN found, q \in Capped(found, max) : p \in Ahead(found, q) => p \in Capped(found, max)
<1>1. PICK kept : kept = Capped(found, max)
  OBVIOUS
<1>2. kept \subseteq DOMAIN found /\ \A p \in DOMAIN found : p \in kept <=> Cardinality(Ahead(found, p)) < max
  BY <1>1 DEF Capped
<1>3. PICK g : g = [p \in kept |-> Cardinality(Ahead(found, p))]
  OBVIOUS
<1>4. g \in [kept -> 0 .. max - 1]
  BY <1>2, <1>3, AheadCounts
<1>5. \A p, q \in kept : g[p] = g[q] => p = q
  <2> SUFFICES ASSUME NEW p \in kept, NEW q \in kept, p # q PROVE g[p] # g[q]
    OBVIOUS
  <2>1. g[p] \in Nat /\ g[q] \in Nat /\ (g[p] < g[q] \/ g[q] < g[p])
    BY <1>2, <1>3, AheadIsOrder, AheadCounts
  <2> QED
    BY <2>1
<1>6. g \in Injection(kept, 0 .. max - 1)
  BY <1>4, <1>5 DEF Injection, IsInjective
<1>7. IsFiniteSet(0 .. max - 1) /\ Cardinality(0 .. max - 1) = max
  BY FS_Interval
<1>8. IsFiniteSet(kept) /\ Cardinality(kept) <= max
  BY <1>6, <1>7, FS_Injection
<1>9. \A p \in DOMAIN found, q \in kept : p \in Ahead(found, q) => p \in kept
  <2> SUFFICES ASSUME NEW p \in DOMAIN found, NEW q \in kept, p \in Ahead(found, q) PROVE p \in kept
    OBVIOUS
  <2>1. PICK x, y : x = Cardinality(Ahead(found, p)) /\ y = Cardinality(Ahead(found, q))
    OBVIOUS
  <2>2. x \in Nat /\ y \in Nat /\ x < y /\ y < max
    BY <1>2, <2>1, AheadCounts
  <2> QED
    BY <1>2, <2>1, <2>2
<1> QED
  BY <1>1, <1>8, <1>9

(* What an adapter or the runner may say of a tool. *)
SoundResult(r) ==
  /\ DOMAIN r.findings \in SUBSET Nat /\ IsFiniteSet(DOMAIN r.findings)
  /\ \/ r.status \in {"ok", "skipped_no_targets"}
     \/ r = RaisedTool
     \/ \E f \in Range(r.findings) : f.status

LEMMA PayloadDoesKeep ==
  ASSUME NEW S, \A r \in S : SoundResult(r), NEW outcomes \in Seq(S), NEW min, NEW max \in Nat
  PROVE  PayloadKeepsWorst(outcomes, min, max)
<1>1. PICK n \in Nat : n = Len(outcomes) /\ DOMAIN outcomes = 1 .. n
  OBVIOUS
<1>2. \A i \in 1 .. n : SoundResult(outcomes[i])
  BY <1>1
<1>3. PICK lists : lists = Combined(outcomes)
  OBVIOUS
<1>4. DOMAIN lists = 1 .. n /\ \A i \in 1 .. n : lists[i] = outcomes[i].findings
  BY <1>1, <1>3 DEF Combined
<1>5. FiniteLists(lists)
  BY <1>2, <1>4 DEF FiniteLists, SoundResult
<1>6. PICK P : P = PlacesIn(lists)
  OBVIOUS
<1>7. IsFiniteSet(P) /\ P \subseteq Nat \X Nat
  BY <1>5, <1>6, PlacesFinite
<1>8. PICK real : real = {p \in P : ~At(lists, p).status /\ MeetsMinSeverity(At(lists, p).severity, min)}
  OBVIOUS
<1>9. PICK first : first = {p \in real : \A q \in real : Precedes(q, p) => At(lists, q).id # At(lists, p).id}
  OBVIOUS
<1>10. PICK found : found = Merged(outcomes, min) /\ found = [p \in first |-> At(lists, p)]
  BY <1>3, <1>6, <1>8, <1>9 DEF Merged
<1>11. Placed(found) /\ DOMAIN found = first /\ first \subseteq real /\ real \subseteq P
  BY <1>7, <1>8, <1>9, <1>10, FS_Subset DEF Placed
<1>12. PICK kept : kept = Capped(found, max)
  OBVIOUS
<1>13. /\ IsFiniteSet(kept) /\ Cardinality(kept) <= max /\ kept \subseteq first
       /\ \A p \in first, q \in kept : p \in Ahead(found, q) => p \in kept
  BY <1>11, <1>12, CapHolds DEF Capped
<1>14. PICK noted : noted = {f \in AllFindings(outcomes) : f.status}
  OBVIOUS
<1>15. PICK p : p = Payload(outcomes, min, max)
  OBVIOUS
<1>16. /\ p.findings = {found[i] : i \in kept} \cup noted
       /\ p.total = Cardinality(kept)
       /\ p.toolsRun = Cardinality({i \in 1 .. n : outcomes[i].status = "ok"})
       /\ p.toolsSkipped = Cardinality({i \in 1 .. n : outcomes[i].status # "ok"})
  BY <1>1, <1>10, <1>12, <1>14, <1>15 DEF Payload
<1>17. PICK reported, eligible :
         /\ reported = {f \in p.findings : ~f.status}
         /\ eligible = {f \in AllFindings(outcomes) : ~f.status /\ MeetsMinSeverity(f.severity, min)}
  OBVIOUS
<1>18. \A i \in first : found[i] = At(lists, i) /\ ~found[i].status
  BY <1>8, <1>9, <1>10
<1>19. reported = {found[i] : i \in kept}
  BY <1>13, <1>14, <1>16, <1>17, <1>18
<1>20. \A f \in AllFindings(outcomes) : \E i \in P : At(lists, i) = f
  <2> SUFFICES ASSUME NEW f \in AllFindings(outcomes) PROVE \E i \in P : At(lists, i) = f
    OBVIOUS
  <2>1. PICK i \in 1 .. n : f \in Range(outcomes[i].findings)
    BY <1>1 DEF AllFindings
  <2>2. PICK k \in DOMAIN lists[i] : lists[i][k] = f
    BY <1>4, <2>1 DEF Range
  <2>3. <<i, k>> \in P
    BY <1>4, <1>6, PlacesAre
  <2>4. At(lists, <<i, k>>) = f
    BY <2>2 DEF At
  <2> QED
    BY <2>3, <2>4
<1>21. \A i \in P : At(lists, i) \in AllFindings(outcomes)
  BY <1>1, <1>4, <1>6, PlacesAre DEF At, AllFindings, Range
(* Whatever is eligible has a first finding with its id. *)
<1>22. ASSUME NEW i \in real PROVE \E j \in first : At(lists, j).id = At(lists, i).id
  <2>1. PICK same : same = {j \in real : At(lists, j).id = At(lists, i).id}
    OBVIOUS
  <2>2. same # {} /\ same \subseteq Nat \X Nat
    BY <1>7, <1>11, <2>1
  <2>3. PICK j \in same : \A k \in same : ~Precedes(k, j)
    BY <2>2, FirstPlace
  <2> QED
    BY <1>9, <2>1, <2>3
<1>23. p.total <= max
  BY <1>13, <1>16
<1>24. ASSUME NEW f \in eligible, NEW g \in reported, f \notin reported, ~(Rank(f.severity) >= Rank(g.severity))
       PROVE  \E h \in eligible : h # f /\ h.id = f.id
  <2>1. PICK i \in P : At(lists, i) = f
    BY <1>17, <1>20
  <2>2. i \in real
    BY <1>8, <1>17, <2>1
  <2>3. PICK j \in first : At(lists, j).id = f.id
    BY <1>22, <2>1, <2>2
  <2>4. PICK h : h = At(lists, j)
    OBVIOUS
  <2>5. h \in eligible /\ h.id = f.id /\ found[j] = h
    BY <1>8, <1>11, <1>17, <1>18, <1>21, <2>3, <2>4
  <2>6. PICK q \in kept : found[q] = g
    BY <1>19
  <2>7. CASE h = f
    <3>1. Rank(found[j].severity) < Rank(found[q].severity)
      BY <1>24, <2>5, <2>6, <2>7, RanksAreNumbers
    <3>2. j \in Ahead(found, q)
      BY <1>11, <3>1 DEF Ahead
    <3>3. j \in kept
      BY <1>13, <3>2
    <3> QED
      BY <1>19, <1>24, <2>5, <2>7, <3>3
  <2> QED
    BY <2>5, <2>7
<1>25. ASSUME NEW f \in reported, NEW g \in reported, f.id = g.id PROVE f = g
  <2>1. PICK i \in kept, j \in kept : found[i] = f /\ found[j] = g
    BY <1>19
  <2>2. i \in Nat \X Nat /\ j \in Nat \X Nat /\ i \in first /\ j \in first
    BY <1>7, <1>11, <1>13
  <2>3. ~Precedes(i, j) /\ ~Precedes(j, i)
    BY <1>9, <1>18, <1>25, <2>1, <2>2
  <2> QED
    BY <2>1, <2>2, <2>3, BeforeIsOrder
<1>26. ASSUME NEW i \in DOMAIN outcomes
       PROVE  \/ outcomes[i].status \in {"ok", "skipped_no_targets"}
              \/ outcomes[i] = RaisedTool
              \/ \E f \in p.findings : f.status /\ f \in Range(outcomes[i].findings)
  <2>1. \A f \in Range(outcomes[i].findings) : f \in AllFindings(outcomes)
    BY DEF AllFindings
  <2>2. \A f \in Range(outcomes[i].findings) : f.status => f \in p.findings
    BY <1>14, <1>16, <2>1
  <2> QED
    BY <1>1, <1>2, <2>2 DEF SoundResult
<1>27. p.toolsRun + p.toolsSkipped = Len(outcomes)
  <2>1. PICK ran, not : /\ ran = {i \in 1 .. n : outcomes[i].status = "ok"}
                        /\ not = {i \in 1 .. n : outcomes[i].status # "ok"}
    OBVIOUS
  <2>2. IsFiniteSet(1 .. n) /\ Cardinality(1 .. n) = n
    BY FS_Interval
  <2>3. not = (1 .. n) \ ran /\ (1 .. n) \cap ran = ran
    BY <2>1
  <2>4. IsFiniteSet(ran)
    BY <2>1, <2>2, FS_Subset
  <2>5. Cardinality(ran) \in Nat
    BY <2>4, FS_CardinalityType
  <2>6. Cardinality((1 .. n) \ ran) = Cardinality(1 .. n) - Cardinality((1 .. n) \cap ran)
    BY <2>2, FS_Difference
  <2>7. Cardinality(not) = n - Cardinality(ran)
    BY <2>2, <2>3, <2>6
  <2> QED
    BY <1>1, <1>16, <2>1, <2>5, <2>7
<1>28. \A f \in reported, s \in Levels : f.severity \in Levels => Rank(TriagedSeverity(f, s)) >= Rank(f.severity)
  BY RanksAreNumbers DEF TriagedSeverity
<1> QED
  BY <1>15, <1>17, <1>23, <1>24, <1>25, <1>26, <1>27, <1>28 DEF PayloadKeepsWorst

(* Every adapter says something sound, whatever its tool printed. *)
FiniteItems(o) == "items" \in DOMAIN o /\ DOMAIN o.items \in SUBSET Nat /\ IsFiniteSet(DOMAIN o.items)

LEMMA NotesAreSound ==
  /\ \A t : SoundResult(MissingTool(t)) /\ SoundResult(FailedTool(t))
  /\ SoundResult(NoTargets) /\ SoundResult(RaisedTool)
<1>1. IsFiniteSet({}) /\ IsFiniteSet({1})
  BY FS_EmptySet, FS_Singleton
<1>2. ASSUME NEW t, NEW s PROVE SoundResult(ToolResult(s, <<StatusFinding(t)>>))
  <2>1. PICK r : r = ToolResult(s, <<StatusFinding(t)>>)
    OBVIOUS
  <2>2. r.findings = <<StatusFinding(t)>>
    BY <2>1 DEF ToolResult
  <2>3. DOMAIN r.findings = {1} /\ r.findings[1] = StatusFinding(t)
    BY <2>2
  <2>4. StatusFinding(t).status
    BY DEF StatusFinding
  <2>5. \E f \in Range(r.findings) : f.status
    BY <2>3, <2>4 DEF Range
  <2> QED
    BY <1>1, <2>1, <2>3, <2>5 DEF SoundResult
<1>3. DOMAIN NoTargets.findings = {} /\ NoTargets.status = "skipped_no_targets"
  BY DEF NoTargets, ToolResult
<1>4. DOMAIN RaisedTool.findings = {}
  BY DEF RaisedTool, ToolResult
<1> QED
  BY <1>1, <1>2, <1>3, <1>4 DEF SoundResult, MissingTool, FailedTool

LEMMA ParsedIsSound ==
  ASSUME NEW tool, NEW o, FiniteItems(o), NEW failed, NEW severities
  PROVE  SoundResult(Parsed(tool, o, failed, severities))
<1>1. ASSUME NEW items, DOMAIN items \in SUBSET Nat, IsFiniteSet(DOMAIN items)
      PROVE  SoundResult(OkTool(tool, items, severities))
  BY <1>1 DEF SoundResult, OkTool, ToolResult
<1>2. DOMAIN << >> \in SUBSET Nat /\ IsFiniteSet(DOMAIN << >>)
  BY FS_EmptySet
<1>3. SoundResult(OkTool(tool, IF o.stdout = "json" THEN o.items ELSE <<>>, severities))
  BY <1>1, <1>2 DEF FiniteItems
<1> QED
  BY <1>3, NotesAreSound DEF Parsed

LEMMA ToolsAreSound ==
  ASSUME NEW tool \in ScanTools, NEW o, FiniteItems(o)
  PROVE  SoundResult(RunTool(tool, o))
<1>1. tool \in {"ruff", "bandit", "pip-audit", "npm-audit", "semgrep", "gitleaks", "lighthouse",
                "html-validate", "axe-core", "license-checker", "checkov", "tfsec"}
  BY DEF ScanTools, DeptTools, Range
<1>2. CASE tool = "ruff"
  <2>1. RunTool(tool, o) = RunRuff(o)
    BY <1>2 DEF RunTool
  <2> QED
    BY <2>1, NotesAreSound, ParsedIsSound DEF RunRuff
<1>3. CASE tool = "bandit"
  <2>1. RunTool(tool, o) = RunBandit(o)
    BY <1>3 DEF RunTool
  <2> QED
    BY <2>1, NotesAreSound, ParsedIsSound DEF RunBandit
<1>4. CASE tool = "pip-audit"
  <2>1. RunTool(tool, o) = RunPipAudit(o)
    BY <1>4 DEF RunTool
  <2> QED
    BY <2>1, NotesAreSound, ParsedIsSound DEF RunPipAudit
<1>5. CASE tool = "npm-audit"
  <2>1. RunTool(tool, o) = RunNpmAudit(o)
    BY <1>5 DEF RunTool
  <2> QED
    BY <2>1, NotesAreSound, ParsedIsSound DEF RunNpmAudit
<1>6. CASE tool = "semgrep"
  <2>1. RunTool(tool, o) = RunSemgrep(o)
    BY <1>6 DEF RunTool
  <2> QED
    BY <2>1, NotesAreSound, ParsedIsSound DEF RunSemgrep
<1>7. CASE tool = "gitleaks"
  <2>1. RunTool(tool, o) = RunGitleaks(o)
    BY <1>7 DEF RunTool
  <2> QED
    BY <2>1, NotesAreSound, ParsedIsSound DEF RunGitleaks
<1>8. CASE tool = "lighthouse"
  <2>1. RunTool(tool, o) = RunLighthouse(o)
    BY <1>8 DEF RunTool
  <2> QED
    BY <2>1, NotesAreSound DEF RunLighthouse
<1>9. CASE tool = "html-validate"
  <2>1. RunTool(tool, o) = RunHtmlValidate(o)
    BY <1>9 DEF RunTool
  <2> QED
    BY <2>1, NotesAreSound, ParsedIsSound DEF RunHtmlValidate
<1>10. CASE tool = "axe-core"
  <2>1. RunTool(tool, o) = RunAxeCore(o)
    BY <1>10 DEF RunTool
  <2> QED
    BY <2>1, NotesAreSound, ParsedIsSound DEF RunAxeCore
<1>11. CASE tool = "license-checker"
  <2>1. RunTool(tool, o) = RunLicenseCheck(o)
    BY <1>11 DEF RunTool
  <2>2. PICK severe : severe = {i \in DOMAIN o.items : o.items[i].raw.severe}
    OBVIOUS
  <2>3. DOMAIN Restrict(o.items, severe) = severe
    BY <2>2 DEF Restrict
  <2>4. severe \in SUBSET Nat /\ IsFiniteSet(severe)
    BY <2>2, FS_Subset DEF FiniteItems
  <2>5. ASSUME NEW failed, NEW severities
        PROVE  SoundResult(Parsed("license-checker", [o EXCEPT !.items = Restrict(@, severe)], failed, severities))
    <3>1. PICK q : q = [o EXCEPT !.items = Restrict(@, severe)]
      OBVIOUS
    <3>2. q.items = Restrict(o.items, severe) /\ "items" \in DOMAIN q
      BY <3>1 DEF FiniteItems
    <3> QED
      BY <2>3, <2>4, <3>1, <3>2, ParsedIsSound DEF FiniteItems
  <2> QED
    BY <2>1, <2>2, <2>5, NotesAreSound DEF RunLicenseCheck
<1>12. CASE tool = "checkov"
  <2>1. RunTool(tool, o) = RunCheckov(o)
    BY <1>12 DEF RunTool
  <2> QED
    BY <2>1, NotesAreSound, ParsedIsSound DEF RunCheckov
<1>13. CASE tool = "tfsec"
  <2>1. RunTool(tool, o) = RunTfsec(o)
    BY <1>13 DEF RunTool
  <2> QED
    BY <2>1, NotesAreSound, ParsedIsSound DEF RunTfsec
<1> QED
  BY <1>1, <1>2, <1>3, <1>4, <1>5, <1>6, <1>7, <1>8, <1>9, <1>10, <1>11, <1>12, <1>13

(* The tools of a scan are a list. *)
FiniteList(list) == DOMAIN list \in SUBSET Nat /\ IsFiniteSet(DOMAIN list)

LEMMA FirstNumbers == \A n \in Nat : IsFiniteSet(1 .. n) /\ Cardinality(1 .. n) = n /\ 1 .. n \in SUBSET Nat
<1> SUFFICES ASSUME NEW n \in Nat
             PROVE  IsFiniteSet(1 .. n) /\ Cardinality(1 .. n) = n /\ 1 .. n \in SUBSET Nat
  OBVIOUS
<1>1. 1 \in Int /\ n \in Int
  OBVIOUS
<1>2. IsFiniteSet(1 .. n) /\ Cardinality(1 .. n) = n
  BY <1>1, FS_Interval
<1> QED
  BY <1>2

LEMMA LanguageToolsAreLists == ASSUME NEW l PROVE FiniteList(LanguageTools(l))
<1>1. \/ LanguageTools(l) = <<"semgrep", "ruff", "bandit", "pip-audit">>
      \/ LanguageTools(l) = <<"semgrep", "npm-audit">>
      \/ LanguageTools(l) = <<"semgrep">>
      \/ LanguageTools(l) = <<>>
  BY Zenon DEF LanguageTools
<1>2. IsFiniteSet(1 .. 4) /\ IsFiniteSet(1 .. 2) /\ IsFiniteSet(1 .. 1) /\ IsFiniteSet({})
  BY FirstNumbers, FS_EmptySet
<1>3. DOMAIN <<"semgrep", "ruff", "bandit", "pip-audit">> = 1 .. 4
  OBVIOUS
<1>4. DOMAIN <<"semgrep", "npm-audit">> = 1 .. 2
  OBVIOUS
<1>5. DOMAIN <<"semgrep">> = 1 .. 1
  OBVIOUS
<1>6. DOMAIN << >> = {}
  OBVIOUS
<1>7. {1 .. 4, 1 .. 2, 1 .. 1, {}} \subseteq SUBSET Nat
  OBVIOUS
<1>8. PICK d : d = DOMAIN LanguageTools(l)
  OBVIOUS
<1>9. d \in {1 .. 4, 1 .. 2, 1 .. 1, {}}
  BY <1>1, <1>3, <1>4, <1>5, <1>6, <1>8
<1> QED
  BY <1>2, <1>7, <1>8, <1>9 DEF FiniteList

LEMMA DiscoverMakesList ==
  ASSUME NEW languages \in Seq(STRING), NEW files
  PROVE  \E n \in Nat : DOMAIN DiscoverTools(languages, files) = 1 .. n
<1> DEFINE declared == [i \in DOMAIN languages |-> LanguageTools(languages[i])]
           default == IF PlacesIn(declared) = {} THEN <<"semgrep">> ELSE <<>>
           found == {m \in DOMAIN MarkerTools : MarkerTools[m].marks \cap files # {}}
           marked == [m \in found |-> MarkerTools[m].tool]
           last == <<default, marked, <<"gitleaks">>>>
<1>1. PICK n \in Nat : DOMAIN languages = 1 .. n
  OBVIOUS
<1>2. PICK S : S = {list \in {LanguageTools(l) : l \in STRING} \cup {default, marked, <<"gitleaks">>} : FiniteList(list)}
  OBVIOUS
<1>3. DOMAIN declared = 1 .. n /\ \A i \in 1 .. n : declared[i] \in S
  BY <1>1, <1>2, LanguageToolsAreLists
<1>4. FiniteList(<<"gitleaks">>) /\ FiniteList(<<"semgrep">>) /\ FiniteList(<<>>)
  <2>1. DOMAIN <<"gitleaks">> = 1 .. 1 /\ DOMAIN <<"semgrep">> = 1 .. 1 /\ DOMAIN << >> = {}
    OBVIOUS
  <2>2. IsFiniteSet(1 .. 1) /\ 1 .. 1 \in SUBSET Nat /\ IsFiniteSet({}) /\ {} \in SUBSET Nat
    BY FirstNumbers, FS_EmptySet
  <2>3. FiniteList(<<"gitleaks">>)
    BY <2>1, <2>2 DEF FiniteList
  <2>4. FiniteList(<<"semgrep">>)
    BY <2>1, <2>2 DEF FiniteList
  <2>5. FiniteList(<<>>)
    BY <2>1, <2>2 DEF FiniteList
  <2> QED
    BY <2>3, <2>4, <2>5
<1>5. FiniteList(marked)
  <2>1. DOMAIN MarkerTools = 1 .. 5
    BY DEF MarkerTools
  <2>2. found \subseteq 1 .. 5 /\ IsFiniteSet(1 .. 5) /\ 1 .. 5 \subseteq Nat
    BY <2>1, FirstNumbers
  <2> QED
    BY <2>2, FS_Subset DEF FiniteList
<1>6. FiniteList(default)
  BY <1>4
<1>7. default \in S /\ marked \in S /\ <<"gitleaks">> \in S
  BY <1>2, <1>4, <1>5, <1>6
<1>8. PICK own : own = declared
  OBVIOUS
<1>9. PICK d, m : d = default /\ m = marked
  OBVIOUS
<1>10. own \in Seq(S) /\ <<d, m, <<"gitleaks">>>> \in Seq(S)
  <2>1. DOMAIN own = 1 .. n /\ \A i \in 1 .. n : own[i] \in S
    BY <1>3, <1>8
  <2>2. own = [i \in 1 .. n |-> own[i]]
    BY <1>1, <1>8
  <2>3. own \in Seq(S)
    BY <2>1, <2>2
  <2> QED
    BY <1>7, <1>9, <2>3
<1>11. PICK lists : lists = own \o <<d, m, <<"gitleaks">>>>
  OBVIOUS
<1>12. lists \in Seq(S)
  BY <1>10, <1>11
<1>13. FiniteLists(lists)
  <2>1. DOMAIN lists = 1 .. Len(lists) /\ Len(lists) \in Nat /\ \A i \in DOMAIN lists : lists[i] \in S
    BY <1>12
  <2>2. \A i \in DOMAIN lists : FiniteList(lists[i])
    BY <1>2, <2>1
  <2> QED
    BY <2>1, <2>2 DEF FiniteLists, FiniteList
<1>14. DiscoverTools(languages, files) = FirstOfEach(lists)
  BY <1>8, <1>9, <1>11 DEF DiscoverTools
<1>15. PICK first : first = {p \in PlacesIn(lists) :
                               \A q \in PlacesIn(lists) : Precedes(q, p) => At(lists, q) # At(lists, p)}
  OBVIOUS
<1>16. Cardinality(first) \in Nat
  BY <1>13, <1>15, PlacesFinite, FS_Subset, FS_CardinalityType
<1>17. DOMAIN FirstOfEach(lists) = 1 .. Cardinality(first)
  BY <1>15 DEF FirstOfEach
<1> QED
  BY <1>14, <1>16, <1>17

LEMMA ScansKeep ==
  ASSUME NEW x, x.scene \in ScanScenes,
         x.first \in ToolDeeds[x.scene.first], x.second \in ToolDeeds[x.scene.second], x.max \in Maximums
  PROVE  PayloadKeepsWorst(ToolResults(x), x.min, x.max)
<1>1. PICK s : s = x.scene
  OBVIOUS
<1>2. /\ s.dept \in {"qa"} \cup DOMAIN DeptTools
      /\ s.languages \in Seq(STRING)
      /\ s.first \in ScanTools /\ s.second \in ScanTools
      /\ x.max \in Nat
  BY <1>1, FiguresAssumption
<1>3. FiniteItems(x.first) /\ FiniteItems(x.second)
  <2>1. ASSUME NEW o, NEW tool \in ScanTools, o \in ToolDeeds[tool] PROVE FiniteItems(o)
    <3>1. "items" \in DOMAIN o /\ Len(o.items) \in Nat /\ DOMAIN o.items = 1 .. Len(o.items)
      BY <2>1, FiguresAssumption
    <3>2. PICK n \in Nat : DOMAIN o.items = 1 .. n
      BY <3>1
    <3> QED
      BY <3>1, <3>2, FirstNumbers DEF FiniteItems
  <2> QED
    BY <1>1, <1>2, <2>1
<1>4. PICK tools : tools = IF s.dept = "qa" THEN DiscoverTools(s.languages, s.files) ELSE DeptTools[s.dept]
  OBVIOUS
<1>5. \E n \in Nat : DOMAIN tools = 1 .. n
  <2>1. CASE s.dept = "qa"
    BY <1>2, <1>4, <2>1, DiscoverMakesList
  <2>2. CASE s.dept # "qa"
    <3>1. s.dept \in {"seo", "ada", "compliance", "cloudops"}
      BY <1>2, <2>2 DEF DeptTools
    <3>2. DOMAIN DeptTools[s.dept] \in {1 .. 1, 1 .. 2}
      BY <3>1 DEF DeptTools
    <3> QED
      BY <1>4, <2>2, <3>2
  <2> QED
    BY <2>1, <2>2
<1>6. PICK n \in Nat : DOMAIN tools = 1 .. n
  BY <1>5
<1>7. PICK outcomes : outcomes = ToolResults(x)
  OBVIOUS
<1>8. outcomes = [i \in 1 .. n |->
                   IF tools[i] = s.first THEN RunTool(tools[i], x.first)
                   ELSE IF tools[i] = s.second THEN RunTool(tools[i], x.second) ELSE MissingTool(tools[i])]
  BY <1>1, <1>4, <1>6, <1>7 DEF ToolResults
<1>9. \A i \in 1 .. n : SoundResult(outcomes[i])
  <2> SUFFICES ASSUME NEW i \in 1 .. n PROVE SoundResult(outcomes[i])
    OBVIOUS
  <2>1. CASE tools[i] = s.first
    BY <1>2, <1>3, <1>8, <2>1, ToolsAreSound
  <2>2. CASE tools[i] # s.first /\ tools[i] = s.second
    BY <1>2, <1>3, <1>8, <2>2, ToolsAreSound
  <2>3. CASE tools[i] # s.first /\ tools[i] # s.second
    BY <1>8, <2>3, NotesAreSound
  <2> QED
    BY <2>1, <2>2, <2>3
<1>10. PICK S : S = {outcomes[i] : i \in 1 .. n}
  OBVIOUS
<1>11. outcomes \in Seq(S)
  BY <1>8, <1>10
<1>12. \A r \in S : SoundResult(r)
  BY <1>9, <1>10
<1> QED
  BY <1>2, <1>7, <1>11, <1>12, PayloadDoesKeep

(* Findings files.  What the first of some keys is. *)
LEMMA LeastIs ==
  ASSUME NEW S, S \subseteq Nat, NEW m \in S, \A j \in S : m <= j
  PROVE  Min(S) = m
<1>1. PICK n : n = Min(S)
  OBVIOUS
<1>2. n \in S /\ \A j \in S : n <= j
  BY <1>1 DEF Min
<1> QED
  BY <1>1, <1>2

LEMMA FirstKeyThere ==
  ASSUME NEW d, NEW keys, NEW n \in Nat, DOMAIN keys = 1 .. n, n > 0, keys[1] \in DOMAIN d, NEW default
  PROVE  GetFirst(d, keys, default) = d[keys[1]]
<1>1. PICK present : present = {k \in DOMAIN keys : keys[k] \in DOMAIN d}
  OBVIOUS
<1>2. 1 \in present /\ \A k \in present : k \in Nat /\ 1 <= k
  BY <1>1
<1>3. Min(present) = 1
  <2>1. present \subseteq Nat
    BY <1>2
  <2> QED
    BY <1>2, <2>1, LeastIs
<1>4. present # {}
  BY <1>2
<1> QED
  BY <1>1, <1>3, <1>4 DEF GetFirst

LEMMA NoKeyThere ==
  ASSUME NEW d, NEW keys, \A k \in DOMAIN keys : keys[k] \notin DOMAIN d, NEW default
  PROVE  GetFirst(d, keys, default) = default
BY DEF GetFirst

LEMMA OneKey ==
  ASSUME NEW d, NEW key, NEW default
  PROVE  GetFirst(d, <<key>>, default) = IF key \in DOMAIN d THEN d[key] ELSE default
<1>1. PICK keys : keys = <<key>>
  OBVIOUS
<1>2. DOMAIN keys = 1 .. 1 /\ keys[1] = key
  BY <1>1
<1>3. CASE key \in DOMAIN d
  <2>1. 1 \in Nat /\ 2 \in Nat /\ keys[1] \in DOMAIN d
    BY <1>2, <1>3
  <2>2. GetFirst(d, keys, default) = d[keys[1]]
    <3>1. ASSUME NEW n \in Nat, n > 0, DOMAIN keys = 1 .. n
          PROVE  GetFirst(d, keys, default) = d[keys[1]]
      BY <2>1, <3>1, FirstKeyThere
    <3> QED
      BY <1>2, <3>1
  <2> QED
    BY <1>1, <1>2, <1>3, <2>2
<1>4. CASE key \notin DOMAIN d
  <2>1. GetFirst(d, keys, default) = default
    BY <1>2, <1>4, NoKeyThere
  <2> QED
    BY <1>1, <1>4, <2>1
<1> QED
  BY <1>3, <1>4

LEMMA TwoKeys ==
  ASSUME NEW d, NEW key, NEW other, NEW default
  PROVE  GetFirst(d, <<key, other>>, default) =
           IF key \in DOMAIN d THEN d[key] ELSE IF other \in DOMAIN d THEN d[other] ELSE default
<1>1. PICK keys : keys = <<key, other>>
  OBVIOUS
<1>2. DOMAIN keys = 1 .. 2 /\ keys[1] = key /\ keys[2] = other
  BY <1>1
<1>3. CASE key \in DOMAIN d
  <2>1. 1 \in Nat /\ 2 \in Nat /\ keys[1] \in DOMAIN d
    BY <1>2, <1>3
  <2>2. GetFirst(d, keys, default) = d[keys[1]]
    <3>1. ASSUME NEW n \in Nat, n > 0, DOMAIN keys = 1 .. n
          PROVE  GetFirst(d, keys, default) = d[keys[1]]
      BY <2>1, <3>1, FirstKeyThere
    <3> QED
      BY <1>2, <3>1
  <2> QED
    BY <1>1, <1>2, <1>3, <2>2
<1>4. CASE key \notin DOMAIN d /\ other \in DOMAIN d
  <2>1. PICK present : present = {k \in DOMAIN keys : keys[k] \in DOMAIN d}
    OBVIOUS
  <2>2. present = {2}
    BY <1>2, <1>4, <2>1
  <2>3. Min(present) = 2
    BY <2>2, LeastIs
  <2>4. GetFirst(d, keys, default) = d[keys[2]]
    BY <2>1, <2>2, <2>3 DEF GetFirst
  <2> QED
    BY <1>1, <1>2, <1>4, <2>4
<1>5. CASE key \notin DOMAIN d /\ other \notin DOMAIN d
  <2>1. \A k \in DOMAIN keys : keys[k] \notin DOMAIN d
    BY <1>2, <1>5
  <2>2. GetFirst(d, keys, default) = default
    BY <2>1, NoKeyThere
  <2> QED
    BY <1>1, <1>5, <2>2
<1> QED
  BY <1>3, <1>4, <1>5

(* InOrder lists the numbers of a set, each of them once. *)
LEMMA InOrderLists ==
  ASSUME NEW S, S \subseteq Nat, IsFiniteSet(S)
  PROVE  /\ DOMAIN InOrder(S) = 1 .. Cardinality(S) /\ Cardinality(S) \in Nat
         /\ \A n \in 1 .. Cardinality(S) : InOrder(S)[n] \in S
         /\ \A n, m \in 1 .. Cardinality(S) : InOrder(S)[n] = InOrder(S)[m] => n = m
         /\ \A i \in S : \E n \in 1 .. Cardinality(S) : InOrder(S)[n] = i
<1>1. PICK c \in Nat : c = Cardinality(S)
  BY FS_CardinalityType
<1>2. PICK below : below = [i \in S |-> {j \in S : j < i}]
  OBVIOUS
<1>3. PICK rank : rank = [i \in S |-> Cardinality(below[i])]
  OBVIOUS
<1>17. \A i, j \in S : j \in below[i] <=> j < i
  BY <1>2
<1>4. ASSUME NEW i \in S PROVE below[i] \subseteq S /\ below[i] # S /\ IsFiniteSet(below[i]) /\ Cardinality(below[i]) \in Nat
  <2>1. i \notin below[i] /\ below[i] \subseteq S
    BY <1>2
  <2> QED
    BY <2>1, FS_Subset, FS_CardinalityType
<1>5. \A i \in S : rank[i] \in 0 .. c - 1
  <2> SUFFICES ASSUME NEW i \in S PROVE rank[i] \in 0 .. c - 1
    OBVIOUS
  <2>1. Cardinality(below[i]) <= c /\ Cardinality(below[i]) # c
    BY <1>1, <1>4, FS_Subset
  <2> QED
    BY <1>3, <1>4, <2>1
<1>6. ASSUME NEW i \in S, NEW j \in S, i < j PROVE rank[i] < rank[j]
  <2>1. below[i] \subseteq below[j] /\ i \in below[j] /\ i \notin below[i]
    <3>1. below[i] \subseteq S /\ below[j] \subseteq S
      BY <1>2
    <3>2. \A k \in S : k < i => k < j
      BY <1>6
    <3>3. i \in below[j] /\ i \notin below[i]
      <4>1. i \in Nat /\ j \in Nat /\ ~(i < i)
        OBVIOUS
      <4> QED
        BY <1>6, <1>17, <4>1
    <3>4. \A k \in below[i] : k \in below[j]
      BY <1>17, <3>1, <3>2
    <3> QED
      BY <3>3, <3>4
  <2>2. below[i] # below[j]
    BY <2>1
  <2>3. Cardinality(below[i]) <= Cardinality(below[j]) /\ Cardinality(below[i]) # Cardinality(below[j])
    BY <1>4, <2>1, <2>2, FS_Subset
  <2> QED
    BY <1>3, <1>4, <2>3
<1>7. \A i, j \in S : rank[i] = rank[j] => i = j
  <2> SUFFICES ASSUME NEW i \in S, NEW j \in S, i # j PROVE rank[i] # rank[j]
    OBVIOUS
  <2>1. i < j \/ j < i
    OBVIOUS
  <2> QED
    BY <1>5, <1>6, <2>1
<1>8. rank \in Injection(S, 0 .. c - 1)
  BY <1>3, <1>5, <1>7 DEF Injection, IsInjective
<1>9. IsFiniteSet(0 .. c - 1) /\ Cardinality(0 .. c - 1) = c
  BY FS_Interval
<1>10. rank \in Surjection(S, 0 .. c - 1)
  BY <1>1, <1>8, <1>9, FS_Injection
<1>11. \A n \in 0 .. c - 1 : \E i \in S : rank[i] = n
  BY <1>10 DEF Surjection
<1>12. PICK list : list = InOrder(S)
  OBVIOUS
<1>13. DOMAIN list = 1 .. c
  BY <1>1, <1>12 DEF InOrder
<1>14. ASSUME NEW n \in 1 .. c PROVE list[n] \in S /\ rank[list[n]] = n - 1
  <2>1. n - 1 \in 0 .. c - 1
    OBVIOUS
  <2>2. PICK i \in S : rank[i] = n - 1
    BY <1>11, <2>1
  <2>3. \A k \in S : rank[k] = Cardinality({j \in S : j < k})
    BY <1>2, <1>3
  <2>4. list[n] = CHOOSE k \in S : Cardinality({j \in S : j < k}) = n - 1
    BY <1>1, <1>12 DEF InOrder
  <2>5. \E k \in S : Cardinality({j \in S : j < k}) = n - 1
    BY <2>2, <2>3
  <2>6. list[n] \in S /\ Cardinality({j \in S : j < list[n]}) = n - 1
    BY <2>4, <2>5
  <2> QED
    BY <2>3, <2>6
<1>15. ASSUME NEW i \in S PROVE \E n \in 1 .. c : list[n] = i
  <2>1. rank[i] + 1 \in 1 .. c
    BY <1>5
  <2>2. rank[list[rank[i] + 1]] = rank[i] /\ list[rank[i] + 1] \in S
    BY <1>5, <1>14, <2>1
  <2> QED
    BY <1>7, <2>1, <2>2
<1>16. \A n, m \in 1 .. c : list[n] = list[m] => n = m
  BY <1>14
<1> QED
  BY <1>1, <1>12, <1>13, <1>14, <1>15, <1>16

(* What there is of two lists after they are merged. *)
MergedOf(M, A, T) ==
  /\ Len(A) <= Len(M) /\ \A i \in 1 .. Len(A) : M[i] = A[i]
  /\ {MergeHash(M[i]) : i \in DOMAIN M} = {MergeHash(f) : f \in Range(A) \cup Range(T)}
  /\ \A i, j \in DOMAIN M : i < j /\ j > Len(A) => MergeHash(M[i]) # MergeHash(M[j])
  /\ T = <<>> => M = A

LEMMA MergeMakes ==
  ASSUME NEW R, NEW A \in Seq(R), NEW T \in Seq(R)
  PROVE  MergeFindings(A, T) \in Seq(R) /\ MergedOf(MergeFindings(A, T), A, T)
<1>1. PICK M : M = MergeFindings(A, T)
  OBVIOUS
<1>2. PICK a \in Nat, t \in Nat : a = Len(A) /\ DOMAIN A = 1 .. a /\ t = Len(T) /\ DOMAIN T = 1 .. t
  OBVIOUS
<1>3. PICK hash : hash = [f \in R |-> MergeHash(f)]
  OBVIOUS
<1>4. (\A i \in 1 .. a : A[i] \in R) /\ \A i \in 1 .. t : T[i] \in R
  BY <1>2
<1>5. PICK fresh : fresh = {i \in DOMAIN T : ~IsKnown(A, T, i)}
  OBVIOUS
<1>6. \A i \in 1 .. t : i \in fresh <=> /\ \A j \in 1 .. a : hash[A[j]] # hash[T[i]]
                                        /\ \A j \in 1 .. t : j < i => hash[T[j]] # hash[T[i]]
  BY <1>2, <1>3, <1>4, <1>5 DEF IsKnown
<1>7. fresh \subseteq 1 .. t /\ fresh \subseteq Nat /\ IsFiniteSet(fresh)
  <2>1. fresh \subseteq 1 .. t /\ IsFiniteSet(1 .. t)
    BY <1>2, <1>5, FirstNumbers
  <2>2. fresh \subseteq Nat
    BY <2>1
  <2> QED
    BY <2>1, <2>2, FS_Subset
<1>8. PICK new : new = InOrder(fresh)
  OBVIOUS
<1>9. PICK c \in Nat : /\ DOMAIN new = 1 .. c
                       /\ \A n \in 1 .. c : new[n] \in fresh
                       /\ \A n, m \in 1 .. c : new[n] = new[m] => n = m
                       /\ \A i \in fresh : \E n \in 1 .. c : new[n] = i
  BY <1>7, <1>8, InOrderLists
<1>10. PICK added : added = [k \in 1 .. c |-> T[new[k]]]
  OBVIOUS
<1>11. M = A \o added
  BY <1>1, <1>5, <1>8, <1>9, <1>10 DEF MergeFindings
<1>12. added \in Seq(R) /\ Len(added) = c
  <2>1. \A k \in 1 .. c : T[new[k]] \in R
    BY <1>4, <1>7, <1>9
  <2> QED
    BY <1>10, <2>1
<1>13. /\ M \in Seq(R) /\ DOMAIN M = 1 .. a + c /\ Len(M) = a + c
       /\ \A i \in 1 .. a : M[i] = A[i]
       /\ \A k \in 1 .. c : M[a + k] = T[new[k]]
  BY <1>2, <1>10, <1>11, <1>12
<1>14. \A i \in 1 .. a + c : M[i] \in R
  BY <1>13
<1>15. \A i \in 1 .. a + c : i \in 1 .. a \/ (i - a \in 1 .. c /\ i = a + (i - a))
  OBVIOUS
<1>16. \A i \in 1 .. a + c : M[i] \in Range(A) \cup Range(T)
  <2> SUFFICES ASSUME NEW i \in 1 .. a + c PROVE M[i] \in Range(A) \cup Range(T)
    OBVIOUS
  <2>1. CASE i \in 1 .. a
    BY <1>2, <1>13, <2>1 DEF Range
  <2>2. CASE i - a \in 1 .. c /\ i = a + (i - a)
    <3>1. M[i] = T[new[i - a]] /\ new[i - a] \in 1 .. t
      BY <1>7, <1>9, <1>13, <2>2
    <3> QED
      BY <1>2, <3>1 DEF Range
  <2> QED
    BY <1>15, <2>1, <2>2
<1>17. ASSUME NEW f \in Range(A) \cup Range(T) PROVE \E i \in 1 .. a + c : hash[M[i]] = hash[f]
  <2>1. CASE f \in Range(A)
    <3>1. PICK i \in 1 .. a : A[i] = f
      BY <1>2, <2>1 DEF Range
    <3>2. i \in 1 .. a + c /\ M[i] = f
      BY <1>13, <3>1
    <3> QED
      BY <3>2
  <2>2. CASE f \in Range(T)
    <3>1. PICK i \in 1 .. t : T[i] = f
      BY <1>2, <2>2 DEF Range
    <3>2. PICK same : same = {j \in 1 .. t : hash[T[j]] = hash[f]}
      OBVIOUS
    <3>3. same # {} /\ same \subseteq Nat
      BY <3>1, <3>2
    <3>4. PICK m \in same : \A j \in same : m <= j
      BY <3>3, LeastNumber
    <3>5. m \in 1 .. t /\ hash[T[m]] = hash[f]
      BY <3>2, <3>4
    <3>6. ~\E j \in 1 .. t : j < m /\ hash[T[j]] = hash[T[m]]
      <4> SUFFICES ASSUME NEW j \in 1 .. t, j < m, hash[T[j]] = hash[T[m]] PROVE FALSE
        OBVIOUS
      <4>1. j \in same
        BY <3>2, <3>5
      <4> QED
        BY <3>4, <3>5, <4>1
    <3>7. CASE \E j \in 1 .. a : hash[A[j]] = hash[T[m]]
      <4>1. PICK j \in 1 .. a : hash[A[j]] = hash[T[m]]
        BY <3>7
      <4>2. j \in 1 .. a + c /\ M[j] = A[j]
        BY <1>13
      <4> QED
        BY <3>5, <4>1, <4>2
    <3>8. CASE ~\E j \in 1 .. a : hash[A[j]] = hash[T[m]]
      <4>1. m \in fresh
        BY <1>6, <3>5, <3>6, <3>8
      <4>2. PICK k \in 1 .. c : new[k] = m
        BY <1>9, <4>1
      <4>3. a + k \in 1 .. a + c /\ M[a + k] = T[m]
        BY <1>13, <4>2
      <4> QED
        BY <3>5, <4>3
    <3> QED
      BY <3>7, <3>8
  <2> QED
    BY <2>1, <2>2
<1>18. \A f \in Range(A) \cup Range(T) : f \in R
  BY <1>2, <1>4 DEF Range
<1>19. {MergeHash(M[i]) : i \in DOMAIN M} = {MergeHash(f) : f \in Range(A) \cup Range(T)}
  <2>1. \A i \in 1 .. a + c : hash[M[i]] = MergeHash(M[i])
    BY <1>3, <1>14
  <2>2. \A f \in Range(A) \cup Range(T) : hash[f] = MergeHash(f)
    BY <1>3, <1>18
  <2>3. PICK both : both = Range(A) \cup Range(T)
    OBVIOUS
  <2>4. \A f \in both : \E i \in 1 .. a + c : MergeHash(M[i]) = MergeHash(f)
    BY <1>17, <2>1, <2>2, <2>3
  <2> QED
    BY <1>13, <1>16, <2>3, <2>4
<1>20. ASSUME NEW i \in 1 .. a + c, NEW j \in 1 .. a + c, i < j, j > a PROVE hash[M[i]] # hash[M[j]]
  <2>1. j - a \in 1 .. c /\ M[j] = T[new[j - a]] /\ new[j - a] \in fresh
    <3>1. j - a \in 1 .. c /\ a + (j - a) = j
      BY <1>20
    <3> QED
      BY <1>9, <1>13, <3>1
  <2>2. PICK l : l = new[j - a]
    OBVIOUS
  <2>3. /\ l \in 1 .. t /\ \A n \in 1 .. a : hash[A[n]] # hash[T[l]]
        /\ \A n \in 1 .. t : n < l => hash[T[n]] # hash[T[l]]
    BY <1>6, <1>7, <2>1, <2>2
  <2>4. CASE i <= a
    <3>1. i \in 1 .. a /\ M[i] = A[i]
      BY <1>13, <2>4
    <3> QED
      BY <2>1, <2>2, <2>3, <3>1
  <2>5. CASE i > a
    <3>1. i - a \in 1 .. c /\ a + (i - a) = i /\ i - a # j - a
      BY <1>20, <2>5
    <3>2. PICK k : k = new[i - a]
      OBVIOUS
    <3>3. M[i] = T[k] /\ k \in fresh /\ k # l
      BY <1>9, <1>13, <2>1, <2>2, <3>1, <3>2
    <3>4. k \in 1 .. t /\ \A n \in 1 .. t : n < k => hash[T[n]] # hash[T[k]]
      BY <1>6, <1>7, <3>3
    <3>5. k < l \/ l < k
      BY <2>3, <3>3, <3>4
    <3> QED
      BY <2>1, <2>2, <2>3, <3>3, <3>4, <3>5
  <2> QED
    BY <1>20, <2>4, <2>5
<1>21. \A i, j \in DOMAIN M : i < j /\ j > a => MergeHash(M[i]) # MergeHash(M[j])
  BY <1>3, <1>13, <1>14, <1>20
<1>22. ASSUME T = <<>> PROVE M = A
  <2>1. t = 0
    BY <1>2, <1>22
  <2>2. c = 0
    <3>1. ASSUME NEW n \in 1 .. c PROVE FALSE
      <4>1. new[n] \in 1 .. 0
        BY <1>7, <1>9, <2>1
      <4> QED
        BY <4>1
    <3> QED
      BY <3>1
  <2>3. Len(added) = 0 /\ A \in Seq(R) /\ added \in Seq(R)
    BY <1>12, <2>2
  <2> QED
    BY <1>11, <2>3
<1>23. /\ M \in Seq(R) /\ Len(A) <= Len(M)
       /\ \A i \in 1 .. Len(A) : M[i] = A[i]
  BY <1>2, <1>13
<1>24. \A i, j \in DOMAIN M : i < j /\ j > Len(A) => MergeHash(M[i]) # MergeHash(M[j])
  BY <1>2, <1>21
<1> QED
  BY <1>1, <1>19, <1>22, <1>23, <1>24 DEF MergedOf

(* Counting: parts that do not meet add up. *)
LEMMA PartsAddUp ==
  ASSUME NEW S, NEW T, IsFiniteSet(S), IsFiniteSet(T), S \cap T = {}
  PROVE  /\ IsFiniteSet(S \cup T) /\ Cardinality(S \cup T) = Cardinality(S) + Cardinality(T)
         /\ Cardinality(S) \in Nat /\ Cardinality(T) \in Nat
<1>1. Cardinality(S) \in Nat /\ Cardinality(T) \in Nat
  BY FS_CardinalityType
<1>2. Cardinality(S \cap T) = 0
  BY FS_EmptySet
<1>3. IsFiniteSet(S \cup T) /\ Cardinality(S \cup T) = Cardinality(S) + Cardinality(T) - Cardinality(S \cap T)
  BY FS_Union
<1> QED
  BY <1>1, <1>2, <1>3

OfClass(f, n, a) == {i \in 1 .. n : f[i] = a}

Distinct(a, b, c, d, e) ==
  /\ a # b /\ a # c /\ a # d /\ a # e /\ b # c
  /\ b # d /\ b # e /\ c # d /\ c # e /\ d # e

LEMMA ClassesAddUp ==
  ASSUME NEW n \in Nat, NEW f, NEW a, NEW b, NEW c, NEW d, NEW e, Distinct(a, b, c, d, e)
  PROVE  /\ Cardinality(OfClass(f, n, a)) \in Nat /\ Cardinality(OfClass(f, n, b)) \in Nat
         /\ Cardinality(OfClass(f, n, c)) \in Nat /\ Cardinality(OfClass(f, n, d)) \in Nat
         /\ Cardinality(OfClass(f, n, e)) \in Nat
         /\ Cardinality(OfClass(f, n, a)) + Cardinality(OfClass(f, n, b)) + Cardinality(OfClass(f, n, c))
              + Cardinality(OfClass(f, n, d)) <= n
         /\ (\A i \in 1 .. n : f[i] \in {a, b, c, d, e}) =>
              Cardinality(OfClass(f, n, a)) + Cardinality(OfClass(f, n, b)) + Cardinality(OfClass(f, n, c))
                + Cardinality(OfClass(f, n, d)) + Cardinality(OfClass(f, n, e)) = n
<1>1. PICK A, B, C, D, E : /\ A = OfClass(f, n, a) /\ B = OfClass(f, n, b) /\ C = OfClass(f, n, c)
                           /\ D = OfClass(f, n, d) /\ E = OfClass(f, n, e)
  OBVIOUS
<1>2. A \subseteq 1 .. n /\ B \subseteq 1 .. n /\ C \subseteq 1 .. n /\ D \subseteq 1 .. n /\ E \subseteq 1 .. n
  BY <1>1 DEF OfClass
<1>3. IsFiniteSet(1 .. n) /\ Cardinality(1 .. n) = n
  BY FirstNumbers
<1>4. IsFiniteSet(A) /\ IsFiniteSet(B) /\ IsFiniteSet(C) /\ IsFiniteSet(D) /\ IsFiniteSet(E)
  BY <1>2, <1>3, FS_Subset
<1>5. PICK AB, ABC, ABCD, all : AB = A \cup B /\ ABC = AB \cup C /\ ABCD = ABC \cup D /\ all = ABCD \cup E
  OBVIOUS
<1>6. A \cap B = {} /\ AB \cap C = {} /\ ABC \cap D = {} /\ ABCD \cap E = {}
  BY <1>1, <1>5 DEF OfClass, Distinct
<1>7. /\ IsFiniteSet(AB) /\ Cardinality(AB) = Cardinality(A) + Cardinality(B)
      /\ Cardinality(A) \in Nat /\ Cardinality(B) \in Nat
  BY <1>4, <1>5, <1>6, PartsAddUp
<1>8. IsFiniteSet(ABC) /\ Cardinality(ABC) = Cardinality(AB) + Cardinality(C) /\ Cardinality(C) \in Nat
  BY <1>4, <1>5, <1>6, <1>7, PartsAddUp
<1>9. IsFiniteSet(ABCD) /\ Cardinality(ABCD) = Cardinality(ABC) + Cardinality(D) /\ Cardinality(D) \in Nat
  BY <1>4, <1>5, <1>6, <1>8, PartsAddUp
<1>10. Cardinality(all) = Cardinality(ABCD) + Cardinality(E) /\ Cardinality(E) \in Nat
  BY <1>4, <1>5, <1>6, <1>9, PartsAddUp
<1>11. Cardinality(ABCD) <= n
  <2>1. ABCD \subseteq 1 .. n
    BY <1>2, <1>5
  <2> QED
    BY <1>3, <2>1, FS_Subset
<1>12. ASSUME \A i \in 1 .. n : f[i] \in {a, b, c, d, e} PROVE all = 1 .. n
  <2>1. \A i \in 1 .. n : i \in A \/ i \in B \/ i \in C \/ i \in D \/ i \in E
    BY <1>1, <1>12 DEF OfClass
  <2> QED
    BY <1>2, <1>5, <2>1
<1>13. /\ Cardinality(A) + Cardinality(B) + Cardinality(C) + Cardinality(D) = Cardinality(ABCD)
       /\ Cardinality(A) + Cardinality(B) + Cardinality(C) + Cardinality(D) + Cardinality(E) = Cardinality(all)
  BY <1>7, <1>8, <1>9, <1>10
<1> QED
  BY <1>1, <1>3, <1>7, <1>8, <1>9, <1>10, <1>11, <1>12, <1>13

(* Every finding counts under one severity. *)
LEMMA SeveritiesAddUp ==
  ASSUME NEW findings, NEW n \in Nat, DOMAIN findings = 1 .. n
  PROVE  /\ \A s \in SeverityLevels : CountSeverities(findings)[s] \in Nat
         /\ SumOf(CountSeverities(findings)) = n
<1>1. PICK counts : counts = CountSeverities(findings)
  OBVIOUS
<1>2. PICK f : f = [i \in 1 .. n |-> CountedAs(findings[i])]
  OBVIOUS
<1>3. \A s \in SeverityLevels : counts[s] = Cardinality(OfClass(f, n, s))
  <2> SUFFICES ASSUME NEW s \in SeverityLevels PROVE counts[s] = Cardinality(OfClass(f, n, s))
    OBVIOUS
  <2>1. counts[s] = Cardinality({i \in 1 .. n : CountedAs(findings[i]) = s})
    BY <1>1 DEF CountSeverities
  <2>2. {i \in 1 .. n : CountedAs(findings[i]) = s} = OfClass(f, n, s)
    BY <1>2 DEF OfClass
  <2> QED
    BY <2>1, <2>2
<1>4. \A i \in 1 .. n : f[i] \in {"critical", "high", "medium", "low", "info"}
  BY <1>2 DEF CountedAs, SeverityLevels
<1>5. PICK a, b, c, d, e : a = "critical" /\ b = "high" /\ c = "medium" /\ d = "low" /\ e = "info"
  OBVIOUS
<1>6. Distinct(a, b, c, d, e)
  BY <1>5 DEF Distinct
<1>7. {a, b, c, d, e} = SeverityLevels
  BY <1>5 DEF SeverityLevels
<1>8. \A i \in 1 .. n : f[i] \in {a, b, c, d, e}
  BY <1>4, <1>5
<1>9. /\ counts[a] \in Nat /\ counts[b] \in Nat /\ counts[c] \in Nat /\ counts[d] \in Nat /\ counts[e] \in Nat
      /\ counts[a] + counts[b] + counts[c] + counts[d] + counts[e] = n
  <2>1. /\ counts[a] = Cardinality(OfClass(f, n, a)) /\ counts[b] = Cardinality(OfClass(f, n, b))
        /\ counts[c] = Cardinality(OfClass(f, n, c)) /\ counts[d] = Cardinality(OfClass(f, n, d))
        /\ counts[e] = Cardinality(OfClass(f, n, e))
    BY <1>3, <1>7
  <2> QED
    BY <1>6, <1>8, <2>1, ClassesAddUp
<1>10. \A s \in SeverityLevels : counts[s] \in Nat
  BY <1>7, <1>9
<1>11. SumOf(counts) = n
  BY <1>5, <1>9 DEF SumOf
<1> QED
  BY <1>1, <1>10, <1>11

(* A summary that says how many findings there are, and of which severity. *)
CountsRight(summary, findings) ==
  /\ "total" \in DOMAIN summary /\ summary["total"] = Len(findings)
  /\ \A s \in SeverityLevels : s \in DOMAIN summary /\ summary[s] = CountSeverities(findings)[s]

LEMMA WithCountsIsRight == ASSUME NEW summary, NEW findings PROVE CountsRight(WithCounts(summary, findings), findings)
<1>1. PICK counts, size : counts = CountSeverities(findings) /\ size = [total |-> Len(findings)]
  OBVIOUS
<1>2. DOMAIN counts = SeverityLevels /\ DOMAIN size = {"total"} /\ size["total"] = Len(findings)
  BY <1>1 DEF CountSeverities
<1>3. PICK inner : inner = Upon(summary, counts)
  OBVIOUS
<1>4. \A s \in SeverityLevels : s \in DOMAIN inner /\ inner[s] = counts[s]
  BY <1>2, <1>3 DEF Upon
<1>5. PICK outer : outer = Upon(inner, size)
  OBVIOUS
<1>6. "total" \in DOMAIN outer /\ outer["total"] = Len(findings)
  BY <1>2, <1>5 DEF Upon
<1>7. \A s \in SeverityLevels : s # "total"
  BY DEF SeverityLevels
<1>8. \A s \in SeverityLevels : s \in DOMAIN outer /\ outer[s] = counts[s]
  BY <1>2, <1>4, <1>5, <1>7 DEF Upon
<1>9. outer = WithCounts(summary, findings)
  BY <1>1, <1>3, <1>5 DEF WithCounts
<1> QED
  BY <1>1, <1>6, <1>8, <1>9 DEF CountsRight

LEMMA OwnScoreKeys ==
  /\ DOMAIN ScoreKey = {"seo", "monetization", "product", "cloud-ops"}
  /\ ScoreKey["seo"] = "seo_score" /\ ScoreKey["monetization"] = "monetization_readiness_score"
  /\ ScoreKey["product"] = "product_readiness_score" /\ ScoreKey["cloud-ops"] = "cloud_ops_score"
BY DEF ScoreKey

LEMMA NormalizedIsRight ==
  ASSUME NEW file, NEW findings, NEW dept
  PROVE  CountsRight(NormalizeSummary(file, findings, dept), findings)
<1>1. PICK counted : counted = WithCounts(file.summary, findings)
  OBVIOUS
<1>2. CountsRight(counted, findings)
  BY <1>1, WithCountsIsRight
<1>3. CASE NormalizeSummary(file, findings, dept) = counted
  BY <1>2, <1>3
<1>4. CASE NormalizeSummary(file, findings, dept) # counted
  <2>1. PICK key : key = ScoreKey[dept]
    OBVIOUS
  <2>2. dept \in DOMAIN ScoreKey
    BY <1>1, <1>4 DEF NormalizeSummary
  <2>3. key # "total" /\ key \notin SeverityLevels
    BY <2>1, <2>2, OwnScoreKeys DEF SeverityLevels
  <2>4. PICK over : over = [k \in {key} |-> file.overall]
    OBVIOUS
  <2>5. NormalizeSummary(file, findings, dept) = Upon(counted, over)
    BY <1>1, <1>4, <2>1, <2>4 DEF NormalizeSummary
  <2>6. PICK outer : outer = Upon(counted, over)
    OBVIOUS
  <2>7. \A k \in DOMAIN counted : k \in DOMAIN outer /\ (k # key => outer[k] = counted[k])
    BY <2>4, <2>6 DEF Upon
  <2>8. CountsRight(outer, findings)
    BY <1>2, <2>3, <2>7 DEF CountsRight
  <2> QED
    BY <2>5, <2>6, <2>8
<1> QED
  BY <1>3, <1>4

LEMMA HonestIsRight ==
  ASSUME NEW file, Honest(file)
  PROVE  CountsRight(file.summary, file.findings)
<1>1. PICK none : none = [s \in {} |-> 0]
  OBVIOUS
<1>2. PICK counted : counted = WithCounts(none, file.findings)
  OBVIOUS
<1>3. \A k \in DOMAIN counted : k \in DOMAIN file.summary /\ file.summary[k] = counted[k]
  BY <1>1, <1>2 DEF Honest
<1>4. CountsRight(counted, file.findings)
  BY <1>2, WithCountsIsRight
<1> QED
  BY <1>3, <1>4 DEF CountsRight

LEMMA TotalsAreRight ==
  ASSUME NEW summary, NEW findings, CountsRight(summary, findings)
  PROVE  /\ Totals(summary, findings)["total"] = Len(findings)
         /\ \A s \in SeverityLevels : Totals(summary, findings)[s] = CountSeverities(findings)[s]
<1>1. GetFirst(summary, <<"total", "total_opportunities">>, Len(findings)) = Len(findings)
  BY TwoKeys DEF CountsRight
<1>2. ASSUME NEW s \in SeverityLevels PROVE GetFirst(summary, Older(s), 0) = summary[s]
  <2>1. \/ Older(s) = <<s, "high_value">> \/ Older(s) = <<s, "medium_value">>
        \/ Older(s) = <<s, "low_value">> \/ Older(s) = <<s>>
    BY Zenon DEF Older
  <2>2. s \in DOMAIN summary
    BY <1>2 DEF CountsRight
  <2>3. \A other : GetFirst(summary, <<s, other>>, 0) = summary[s]
    BY <2>2, TwoKeys
  <2>4. GetFirst(summary, <<s>>, 0) = summary[s]
    BY <2>2, OneKey
  <2> QED
    BY <2>1, <2>3, <2>4
<1>3. "total" \notin SeverityLevels
  BY DEF SeverityLevels
<1>4. Totals(summary, findings)["total"] = Len(findings)
  BY <1>1 DEF Totals
<1>5. \A s \in SeverityLevels : Totals(summary, findings)[s] = summary[s]
  BY <1>2, <1>3 DEF Totals
<1> QED
  BY <1>4, <1>5 DEF CountsRight

(* A row of the board. *)
RowOf(raw, dept, fixes) == Enriched(NormalizeFinding(raw, dept), raw, dept, fixes)

LEMMA RowsKeep ==
  ASSUME NEW raw, NEW dept, NEW fixes
  PROVE  /\ RowOf(raw, dept, fixes).title = raw.title
         /\ RowOf(raw, dept, fixes).file = GetFirst(raw, <<"file", "location">>, "")
         /\ RowOf(raw, dept, fixes).severity = GetFirst(raw, <<"severity", "value", "legal_risk">>, "")
<1>1. PICK f : f = NormalizeFinding(raw, dept)
  OBVIOUS
<1>2. /\ f.title = raw.title
      /\ f.file = GetFirst(raw, <<"file", "location">>, "")
      /\ f.severity = GetFirst(raw, <<"severity", "value", "legal_risk">>, "")
  BY <1>1 DEF NormalizeFinding
<1>3. ASSUME NEW status
      PROVE  /\ [f EXCEPT !.status = status].title = f.title
             /\ [f EXCEPT !.status = status].file = f.file
             /\ [f EXCEPT !.status = status].severity = f.severity
  BY <1>1 DEF NormalizeFinding
<1> QED
  BY <1>1, <1>2, <1>3 DEF RowOf, Enriched

LEMMA PlaceKeys ==
  ASSUME NEW raw, NEW default
  PROVE  /\ "file" \in DOMAIN raw => /\ GetFirst(raw, <<"file">>, default) = raw["file"]
                                     /\ GetFirst(raw, <<"file", "location">>, default) = raw["file"]
         /\ "file" \notin DOMAIN raw =>
              /\ GetFirst(raw, <<"file">>, default) = default
              /\ GetFirst(raw, <<"file", "location">>, default) = GetFirst(raw, <<"location">>, default)
<1>1. CASE "file" \in DOMAIN raw
  <2>1. GetFirst(raw, <<"file">>, default) = raw["file"]
    BY <1>1, OneKey
  <2>2. GetFirst(raw, <<"file", "location">>, default) = raw["file"]
    BY <1>1, TwoKeys
  <2> QED
    BY <1>1, <2>1, <2>2
<1>2. CASE "file" \notin DOMAIN raw
  <2>1. GetFirst(raw, <<"file">>, default) = default
    BY <1>2, OneKey
  <2>2. GetFirst(raw, <<"location">>, default) = IF "location" \in DOMAIN raw THEN raw["location"] ELSE default
    BY OneKey
  <2>3. GetFirst(raw, <<"file", "location">>, default) = IF "location" \in DOMAIN raw THEN raw["location"] ELSE default
    BY <1>2, TwoKeys
  <2> QED
    BY <1>2, <2>1, <2>2, <2>3
<1> QED
  BY <1>1, <1>2

LEMMA RowsHash ==
  ASSUME NEW raw, NEW dept, NEW fixes, FileNotBlank(raw)
  PROVE  BacklogHash(RowOf(raw, dept, fixes)) = MergeHash(raw)
<1>1. PICK row : row = RowOf(raw, dept, fixes)
  OBVIOUS
<1>2. row.title = raw.title /\ row.file = GetFirst(raw, <<"file", "location">>, "")
  BY <1>1, RowsKeep
<1>3. row.file = IF GetFirst(raw, <<"file">>, "") # "" THEN raw.file ELSE GetFirst(raw, <<"location">>, "")
  <2>1. CASE "file" \in DOMAIN raw
    <3>1. GetFirst(raw, <<"file">>, "") = GetFirst(raw, <<"file">>, "x")
      <4>1. \A u, v : GetFirst(raw, <<"file">>, u) = GetFirst(raw, <<"file">>, v)
        BY <2>1, PlaceKeys
      <4> QED
        BY <4>1
    <3>2. row.file = raw["file"]
      <4>1. \A u : GetFirst(raw, <<"file", "location">>, u) = raw["file"]
        BY <2>1, PlaceKeys
      <4> QED
        BY <1>2, <4>1
    <3> QED
      BY <3>1, <3>2 DEF FileNotBlank
  <2>2. CASE "file" \notin DOMAIN raw
    <3>1. GetFirst(raw, <<"file">>, "") = ""
      <4>1. \A u : GetFirst(raw, <<"file">>, u) = u
        BY <2>2, PlaceKeys
      <4> QED
        BY <4>1
    <3>2. row.file = GetFirst(raw, <<"location">>, "")
      <4>1. \A u : GetFirst(raw, <<"file", "location">>, u) = GetFirst(raw, <<"location">>, u)
        BY <2>2, PlaceKeys
      <4> QED
        BY <1>2, <4>1
    <3> QED
      BY <3>1, <3>2
  <2> QED
    BY <2>1, <2>2
<1> QED
  BY <1>1, <1>2, <1>3 DEF BacklogHash, MergeHash, FindingHash

(* The findings of two files are lists; the board's entry for them. *)
BothLists(file, tools, R) == OrEmpty(file).findings \in Seq(R) /\ OrEmpty(tools).findings \in Seq(R)

MergedFiles(file, tools) == MergeFindings(OrEmpty(file).findings, OrEmpty(tools).findings)

EntryOf(e, M, file, tools, dept, fixes) ==
  /\ e.raw = M
  /\ e.listed = [i \in 1 .. Len(M) |-> RowOf(M[i], dept, fixes)] /\ Len(e.listed) = Len(M)
  /\ e.summary = SummaryOf(file, tools, M, dept)
  /\ e.totals = Totals(e.summary, M)
  /\ e.trust = CountByTrustClass(e.listed)
  /\ e.fixes = FixSummary(e.listed)

LEMMA EntryIs ==
  ASSUME NEW file, NEW tools, NEW dept, NEW fixes, NEW R, BothLists(file, tools, R)
  PROVE  EntryOf(RepoEntry(file, tools, dept, fixes), MergedFiles(file, tools), file, tools, dept, fixes)
<1>1. PICK M, e : M = MergedFiles(file, tools) /\ e = RepoEntry(file, tools, dept, fixes)
  OBVIOUS
<1>2. M \in Seq(R)
  BY <1>1, MergeMakes DEF MergedFiles, BothLists
<1>3. PICK n \in Nat : n = Len(M) /\ DOMAIN M = 1 .. n
  BY <1>2
<1>4. PICK listed : listed = [i \in 1 .. n |-> RowOf(M[i], dept, fixes)]
  OBVIOUS
<1>5. listed = [i \in DOMAIN M |-> Enriched(NormalizeFinding(M[i], dept), M[i], dept, fixes)]
  BY <1>3, <1>4 DEF RowOf
<1>6. PICK summary : summary = SummaryOf(file, tools, M, dept)
  OBVIOUS
<1>7. e = [raw |-> M, listed |-> listed, summary |-> summary, totals |-> Totals(summary, M),
           trust |-> CountByTrustClass(listed), fixes |-> FixSummary(listed)]
  BY <1>1, <1>5, <1>6 DEF RepoEntry, MergedFiles
<1>8. /\ e.raw = M /\ e.listed = listed /\ e.summary = summary /\ e.totals = Totals(summary, M)
      /\ e.trust = CountByTrustClass(listed) /\ e.fixes = FixSummary(listed)
  BY <1>7
<1>9. Len(listed) = n
  BY <1>4
<1> QED
  BY <1>1, <1>3, <1>4, <1>6, <1>8, <1>9 DEF EntryOf

LEMMA SummaryIsRight ==
  ASSUME NEW file, NEW tools, NEW dept, NEW R, BothLists(file, tools, R),
         {file, tools} # {NoFindings}, dept # "qa" \/ tools # NoFindings \/ Honest(file)
  PROVE  CountsRight(SummaryOf(file, tools, MergedFiles(file, tools), dept), MergedFiles(file, tools))
<1>1. PICK A, T : A = OrEmpty(file).findings /\ T = OrEmpty(tools).findings
  OBVIOUS
<1>2. PICK M : M = MergedFiles(file, tools) /\ M = MergeFindings(A, T)
  BY <1>1 DEF MergedFiles
<1>3. CASE dept # "qa"
  BY <1>2, <1>3, NormalizedIsRight DEF SummaryOf
<1>4. CASE dept = "qa" /\ tools # NoFindings
  BY <1>2, <1>4, WithCountsIsRight DEF SummaryOf
<1>5. CASE dept = "qa" /\ tools = NoFindings
  <2>1. file # NoFindings /\ Honest(file)
    BY <1>5
  <2>2. A = file.findings
    BY <1>1, <2>1 DEF OrEmpty
  <2>3. T = <<>>
    BY <1>1, <1>5 DEF OrEmpty, EmptyFile
  <2>4. M = A
    <3>1. A \in Seq(R) /\ T \in Seq(R)
      BY <1>1 DEF BothLists
    <3> QED
      BY <1>2, <2>3, <3>1, MergeMakes DEF MergedOf
  <2>5. SummaryOf(file, tools, M, dept) = file.summary
    BY <1>5 DEF SummaryOf
  <2>6. CountsRight(file.summary, file.findings)
    BY <2>1, HonestIsRight
  <2> QED
    BY <1>1, <1>2, <2>2, <2>4, <2>5, <2>6
<1> QED
  BY <1>3, <1>4, <1>5

LEMMA TrustAddsUp ==
  ASSUME NEW listed, NEW n \in Nat, DOMAIN listed = 1 .. n
  PROVE  CountByTrustClass(listed)["objective"] + CountByTrustClass(listed)["advisory"] = n
<1>1. PICK yes, no : /\ yes = {i \in 1 .. n : listed[i].trust_class = "objective"}
                     /\ no = {i \in 1 .. n : listed[i].trust_class # "objective"}
  OBVIOUS
<1>2. /\ {i \in DOMAIN listed : (listed[i].trust_class = "objective") = ("objective" = "objective")} = yes
      /\ {i \in DOMAIN listed : (listed[i].trust_class = "objective") = ("advisory" = "objective")} = no
  BY <1>1
<1>3. /\ CountByTrustClass(listed)["objective"] = Cardinality(yes)
      /\ CountByTrustClass(listed)["advisory"] = Cardinality(no)
  BY <1>2 DEF CountByTrustClass, TrustClasses
<1>4. IsFiniteSet(1 .. n) /\ Cardinality(1 .. n) = n
  BY FirstNumbers
<1>5. yes \subseteq 1 .. n /\ no \subseteq 1 .. n /\ yes \cap no = {} /\ yes \cup no = 1 .. n
  BY <1>1
<1>6. IsFiniteSet(yes) /\ IsFiniteSet(no)
  BY <1>4, <1>5, FS_Subset
<1> QED
  BY <1>3, <1>4, <1>5, <1>6, PartsAddUp

LEMMA FixesAddUp ==
  ASSUME NEW listed, NEW n \in Nat, DOMAIN listed = 1 .. n, Len(listed) = n
  PROVE  \A s \in FixStates \cup {"open"} : FixSummary(listed)[s] >= 0
<1>1. PICK f : f = [i \in 1 .. n |-> listed[i].status]
  OBVIOUS
<1>2. PICK count : count = [s \in FixStates |-> Cardinality({i \in DOMAIN listed : listed[i].status = s})]
  OBVIOUS
<1>3. \A s \in FixStates : count[s] = Cardinality(OfClass(f, n, s))
  <2> SUFFICES ASSUME NEW s \in FixStates PROVE count[s] = Cardinality(OfClass(f, n, s))
    OBVIOUS
  <2>1. {i \in DOMAIN listed : listed[i].status = s} = OfClass(f, n, s)
    BY <1>1 DEF OfClass
  <2> QED
    BY <1>2, <2>1
<1>4. PICK a, b, c, d, e : a = "fixed" /\ b = "failed" /\ c = "skipped" /\ d = "in-progress" /\ e = "open"
  OBVIOUS
<1>5. Distinct(a, b, c, d, e)
  BY <1>4 DEF Distinct
<1>6. FixStates = {a, b, c, d}
  BY <1>4 DEF FixStates
<1>7. /\ Cardinality(OfClass(f, n, e)) \in Nat
      /\ count[a] \in Nat /\ count[b] \in Nat /\ count[c] \in Nat /\ count[d] \in Nat
      /\ count[a] + count[b] + count[c] + count[d] <= n
  <2>1. /\ count[a] = Cardinality(OfClass(f, n, a)) /\ count[b] = Cardinality(OfClass(f, n, b))
        /\ count[c] = Cardinality(OfClass(f, n, c)) /\ count[d] = Cardinality(OfClass(f, n, d))
    BY <1>3, <1>6
  <2>2. /\ Cardinality(OfClass(f, n, a)) \in Nat /\ Cardinality(OfClass(f, n, b)) \in Nat
        /\ Cardinality(OfClass(f, n, c)) \in Nat /\ Cardinality(OfClass(f, n, d)) \in Nat
        /\ Cardinality(OfClass(f, n, e)) \in Nat
        /\ Cardinality(OfClass(f, n, a)) + Cardinality(OfClass(f, n, b)) + Cardinality(OfClass(f, n, c))
             + Cardinality(OfClass(f, n, d)) <= n
    BY <1>5, ClassesAddUp
  <2> QED
    BY <2>1, <2>2
<1>8. PICK open : open = n - count[a] - count[b] - count[c] - count[d]
  OBVIOUS
<1>9. open >= 0
  BY <1>7, <1>8
<1>10. PICK rest : rest = [open |-> open]
  OBVIOUS
<1>11. FixSummary(listed) = Upon(count, rest)
  BY <1>2, <1>4, <1>8, <1>10 DEF FixSummary
<1>12. PICK all : all = Upon(count, rest)
  OBVIOUS
<1>13. all["open"] = open
  BY <1>10, <1>12 DEF Upon
<1>14. \A s \in FixStates : all[s] = count[s]
  <2> SUFFICES ASSUME NEW s \in FixStates PROVE all[s] = count[s]
    OBVIOUS
  <2>1. s \in DOMAIN count /\ s # "open"
    BY <1>2 DEF FixStates
  <2>2. DOMAIN rest = {"open"}
    BY <1>10
  <2> QED
    BY <1>12, <2>1, <2>2 DEF Upon
<1>15. \A s \in FixStates : all[s] >= 0
  BY <1>6, <1>7, <1>14
<1> QED
  BY <1>9, <1>11, <1>12, <1>13, <1>15

LEMMA PrivacyWithin ==
  ASSUME NEW file, NEW a \in Nat, DOMAIN file.findings = 1 .. a,
         NEW M, NEW n \in Nat, DOMAIN M = 1 .. n, a <= n, \A i \in 1 .. a : M[i] = file.findings[i]
  PROVE  /\ PrivacyEntry(file).total <= n
         /\ \A s \in SeverityLevels : PrivacyEntry(file).counts[s] <= CountSeverities(M)[s]
<1>1. PICK private : private = {i \in DOMAIN file.findings : file.findings[i].private}
  OBVIOUS
<1>2. PICK own : own = Restrict(file.findings, private)
  OBVIOUS
<1>3. DOMAIN own = private /\ \A i \in private : own[i] = file.findings[i]
  BY <1>2 DEF Restrict
<1>4. private \subseteq 1 .. n /\ \A i \in private : M[i] = own[i]
  BY <1>1, <1>3
<1>5. IsFiniteSet(1 .. n) /\ Cardinality(1 .. n) = n
  BY FirstNumbers
<1>6. PICK p : p = PrivacyEntry(file)
  OBVIOUS
<1>7. p.total = Cardinality(private) /\ p.counts = CountSeverities(own)
  BY <1>1, <1>2, <1>3, <1>6 DEF PrivacyEntry
<1>8. p.total <= n
  BY <1>4, <1>5, <1>7, FS_Subset
<1>9. ASSUME NEW s \in SeverityLevels PROVE p.counts[s] <= CountSeverities(M)[s]
  <2>1. PICK S, T : /\ S = {i \in private : CountedAs(own[i]) = s}
                    /\ T = {i \in 1 .. n : CountedAs(M[i]) = s}
    OBVIOUS
  <2>2. S \subseteq T /\ T \subseteq 1 .. n
    BY <1>4, <2>1
  <2>3. IsFiniteSet(T)
    BY <1>5, <2>2, FS_Subset
  <2>4. Cardinality(S) <= Cardinality(T)
    BY <2>2, <2>3, FS_Subset
  <2>5. p.counts[s] = Cardinality(S) /\ CountSeverities(M)[s] = Cardinality(T)
    BY <1>3, <1>7, <2>1 DEF CountSeverities
  <2> QED
    BY <2>4, <2>5
<1> QED
  BY <1>6, <1>8, <1>9

(* Rows whose severity is known are counted under it. *)
LEMMA GivenSeverity ==
  ASSUME NEW raw, SeverityGiven(raw)
  PROVE  "severity" \in DOMAIN raw /\ raw["severity"] \in SeverityLevels
<1>1. PICK blank : blank = ""
  OBVIOUS
<1>2. blank \notin SeverityLevels /\ GetFirst(raw, <<"severity">>, blank) \in SeverityLevels
  BY <1>1 DEF SeverityGiven, SeverityLevels
<1>3. GetFirst(raw, <<"severity">>, blank) = IF "severity" \in DOMAIN raw THEN raw["severity"] ELSE blank
  <2> HIDE <1>1
  <2> QED
    BY OneKey
<1> QED
  BY <1>2, <1>3

LEMMA SeverityFirst ==
  ASSUME NEW raw, "severity" \in DOMAIN raw, NEW default
  PROVE  /\ GetFirst(raw, <<"severity">>, default) = raw["severity"]
         /\ GetFirst(raw, <<"severity", "value", "legal_risk">>, default) = raw["severity"]
<1>1. ASSUME NEW keys, NEW m \in Nat, DOMAIN keys = 1 .. m, m > 0, keys[1] = "severity"
      PROVE  GetFirst(raw, keys, default) = raw["severity"]
  <2>1. keys[1] \in DOMAIN raw
    BY <1>1
  <2> QED
    BY <1>1, <2>1, FirstKeyThere
<1>2. PICK one, three : one = <<"severity">> /\ three = <<"severity", "value", "legal_risk">>
  OBVIOUS
<1>3. DOMAIN one = 1 .. 1 /\ one[1] = "severity"
  BY <1>2
<1>4. DOMAIN three = 1 .. 3 /\ three[1] = "severity"
  <2>1. DOMAIN <<"severity", "value", "legal_risk">> = 1 .. 3
    OBVIOUS
  <2>2. <<"severity", "value", "legal_risk">>[1] = "severity"
    OBVIOUS
  <2> QED
    BY <1>2, <2>1, <2>2
<1>5. GetFirst(raw, one, default) = raw["severity"] /\ GetFirst(raw, three, default) = raw["severity"]
  <2>1. 1 \in Nat /\ 3 \in Nat /\ 1 > 0 /\ 3 > 0
    OBVIOUS
  <2> QED
    BY <1>1, <1>3, <1>4, <2>1
<1> QED
  BY <1>2, <1>5

(* The rows, and those of a severity. *)
RowsOf(M, dept, fixes) == [i \in DOMAIN M |-> RowOf(M[i], dept, fixes)]
RowsWith(rows, s) == {i \in DOMAIN rows : rows[i].severity = s}

LEMMA RowsCount ==
  ASSUME NEW M, NEW dept, NEW fixes,
         \A i \in DOMAIN M : SeverityGiven(M[i]), NEW s \in SeverityLevels
  PROVE  CountSeverities(M)[s] = Cardinality(RowsWith(RowsOf(M, dept, fixes), s))
<1>1. ASSUME NEW raw, SeverityGiven(raw) PROVE CountedAs(raw) = RowOf(raw, dept, fixes).severity
  <2>1. "severity" \in DOMAIN raw /\ raw["severity"] \in SeverityLevels
    BY <1>1, GivenSeverity
  <2>2. \A default : /\ GetFirst(raw, <<"severity">>, default) = raw["severity"]
                     /\ GetFirst(raw, <<"severity", "value", "legal_risk">>, default) = raw["severity"]
    BY <2>1, SeverityFirst
  <2>3. CountedAs(raw) = raw["severity"]
    BY <2>1, <2>2 DEF CountedAs
  <2>4. RowOf(raw, dept, fixes).severity = raw["severity"]
    BY <2>2, RowsKeep
  <2> QED
    BY <2>3, <2>4
<1>2. RowsWith(RowsOf(M, dept, fixes), s) = {i \in DOMAIN M : CountedAs(M[i]) = s}
  BY <1>1 DEF RowsWith, RowsOf
<1> QED
  BY <1>2 DEF CountSeverities

LEMMA BoardHolds ==
  ASSUME NEW file, NEW tools, NEW dept, NEW fixes, NEW R, BothLists(file, tools, R)
  PROVE  BoardAddsUp(file, tools, dept, fixes)
<1> SUFFICES ASSUME Listed(file, tools, dept) PROVE BoardAddsUp(file, tools, dept, fixes)
  BY DEF BoardAddsUp
<1>1. PICK A, T : A = OrEmpty(file).findings /\ T = OrEmpty(tools).findings
  OBVIOUS
<1>2. A \in Seq(R) /\ T \in Seq(R)
  BY <1>1 DEF BothLists
<1>3. PICK M : M = MergedFiles(file, tools)
  OBVIOUS
<1>4. PICK e : e = RepoEntry(file, tools, dept, fixes)
  OBVIOUS
<1>5. M \in Seq(R) /\ MergedOf(M, A, T)
  BY <1>1, <1>2, <1>3, MergeMakes DEF MergedFiles
<1>6. PICK n \in Nat : n = Len(M) /\ DOMAIN M = 1 .. n
  BY <1>5
<1>7. PICK rows : rows = [i \in 1 .. n |-> RowOf(M[i], dept, fixes)]
  OBVIOUS
<1>17. EntryOf(e, M, file, tools, dept, fixes)
  BY <1>3, <1>4, EntryIs
<1>18. /\ e.raw = M /\ e.listed = rows /\ Len(rows) = n /\ DOMAIN rows = 1 .. n
       /\ e.summary = SummaryOf(file, tools, M, dept)
       /\ e.totals = Totals(e.summary, M)
       /\ e.trust = CountByTrustClass(rows)
       /\ e.fixes = FixSummary(rows)
  BY <1>6, <1>7, <1>17 DEF EntryOf
<1>8. ASSUME dept # "qa" \/ tools # NoFindings \/ Honest(file)
      PROVE  /\ e.totals["total"] = n
             /\ \A s \in SeverityLevels : e.totals[s] = CountSeverities(M)[s]
  <2>1. {file, tools} # {NoFindings}
    BY DEF Listed
  <2>2. CountsRight(e.summary, M)
    BY <1>3, <1>8, <1>18, <2>1, SummaryIsRight
  <2> QED
    BY <1>6, <1>18, <2>2, TotalsAreRight
<1>9. ASSUME dept # "qa" \/ tools # NoFindings \/ Honest(file)
      PROVE  /\ e.totals["total"] = Len(e.listed) /\ SumOf(e.totals) = Len(e.listed)
             /\ (\A i \in DOMAIN e.raw : SeverityGiven(e.raw[i])) =>
                  \A s \in SeverityLevels :
                    e.totals[s] = Cardinality({i \in DOMAIN e.listed : e.listed[i].severity = s})
  <2>1. e.totals["total"] = n /\ \A s \in SeverityLevels : e.totals[s] = CountSeverities(M)[s]
    BY <1>8, <1>9
  <2>2. SumOf(e.totals) = SumOf(CountSeverities(M))
    BY <2>1 DEF SumOf, SeverityLevels
  <2>3. SumOf(e.totals) = n
    BY <1>6, <2>2, SeveritiesAddUp
  <2>4. ASSUME \A i \in 1 .. n : SeverityGiven(M[i]), NEW s \in SeverityLevels
        PROVE  e.totals[s] = Cardinality({i \in DOMAIN rows : rows[i].severity = s})
    <3>1. CountSeverities(M)[s] = Cardinality(RowsWith(rows, s))
      <4>1. rows = RowsOf(M, dept, fixes)
        BY <1>6, <1>7 DEF RowsOf
      <4>2. \A i \in DOMAIN M : SeverityGiven(M[i])
        BY <1>6, <2>4
      <4> QED
        BY <2>4, <4>1, <4>2, RowsCount
    <3> QED
      BY <2>1, <3>1 DEF RowsWith
  <2> QED
    BY <1>6, <1>18, <2>1, <2>3, <2>4
<1>10. e.trust["objective"] + e.trust["advisory"] = Len(e.listed)
  BY <1>18, TrustAddsUp
<1>11. \A s \in FixStates \cup {"open"} : e.fixes[s] >= 0
  BY <1>18, FixesAddUp
<1>12. {MergeHash(e.raw[i]) : i \in DOMAIN e.raw} = {MergeHash(f) : f \in Range(A) \cup Range(T)}
  <2>1. {MergeHash(M[i]) : i \in DOMAIN M} = {MergeHash(f) : f \in Range(A) \cup Range(T)}
    BY <1>5 DEF MergedOf
  <2>2. {MergeHash(e.raw[i]) : i \in DOMAIN e.raw} = {MergeHash(M[i]) : i \in DOMAIN M}
    BY <1>18
  <2> QED
    BY <2>1, <2>2
<1>13. \A i, j \in DOMAIN e.raw : i < j /\ j > Len(A) => MergeHash(e.raw[i]) # MergeHash(e.raw[j])
  BY <1>5, <1>18 DEF MergedOf
<1>14. ASSUME \A i \in DOMAIN e.raw : FileNotBlank(e.raw[i])
       PROVE  {BacklogHash(e.listed[i]) : i \in DOMAIN e.listed} = {MergeHash(e.raw[i]) : i \in DOMAIN e.raw}
  <2>1. \A i \in 1 .. n : BacklogHash(rows[i]) = MergeHash(M[i])
    <3>1. \A i \in 1 .. n : FileNotBlank(M[i]) /\ rows[i] = RowOf(M[i], dept, fixes)
      BY <1>6, <1>7, <1>18, <1>14
    <3> QED
      BY <3>1, RowsHash
  <2> QED
    BY <1>6, <1>18, <2>1
<1>15. ASSUME dept = "compliance", file # NoFindings
       PROVE  LET p == PrivacyEntry(file)
              IN  p.total <= e.totals["total"] /\ \A s \in SeverityLevels : p.counts[s] <= e.totals[s]
  <2>1. dept # "qa"
    BY <1>15
  <2>2. e.totals["total"] = n /\ \A s \in SeverityLevels : e.totals[s] = CountSeverities(M)[s]
    BY <1>8, <2>1
  <2>3. A = file.findings
    BY <1>1, <1>15 DEF OrEmpty
  <2>4. PICK a \in Nat : a = Len(A) /\ DOMAIN file.findings = 1 .. a
    BY <1>2, <2>3
  <2>5. a <= n /\ \A i \in 1 .. a : M[i] = file.findings[i]
    BY <1>5, <1>6, <2>3, <2>4 DEF MergedOf
  <2>6. /\ PrivacyEntry(file).total <= n
        /\ \A s \in SeverityLevels : PrivacyEntry(file).counts[s] <= CountSeverities(M)[s]
    BY <1>6, <2>4, <2>5, PrivacyWithin
  <2> QED
    BY <2>2, <2>6
<1>16. EntryAddsUp(e, file, tools, dept)
  BY <1>1, <1>9, <1>10, <1>11, <1>12, <1>13, <1>14, <1>15 DEF EntryAddsUp
<1> QED
  BY <1>4, <1>16 DEF BoardAddsUp

(* Scores: counting leaves them alone. *)
LEMMA ScoreKeysAre ==
  /\ DOMAIN ScoreKeys = 1 .. 5
  /\ Range(ScoreKeys) = {"seo_score", "compliance_score", "monetization_readiness_score",
                         "product_readiness_score", "cloud_ops_score"}
BY DEF ScoreKeys, Range

IsScore(k) == k \in Range(ScoreKeys) \cup {"score"}

LEMMA ScoresAreNoCounts == ASSUME NEW k, IsScore(k) PROVE k \notin SeverityLevels /\ k # "total"
BY ScoreKeysAre DEF IsScore, SeverityLevels

LEMMA AuditKeyIs == ASSUME NEW dept PROVE AuditKey(dept) \in Range(ScoreKeys) /\ AuditKey(dept) # "score"
<1>1. AuditKey(dept) \in {"seo_score", "compliance_score", "monetization_readiness_score",
                          "product_readiness_score", "cloud_ops_score"}
  <2>1. CASE dept \in DOMAIN ScoreKey
    <3>1. AuditKey(dept) = ScoreKey[dept]
      BY <2>1 DEF AuditKey
    <3> QED
      BY <2>1, <3>1, OwnScoreKeys
  <2>2. CASE dept \notin DOMAIN ScoreKey
    BY <2>2 DEF AuditKey
  <2> QED
    BY <2>1, <2>2
<1> QED
  BY <1>1, ScoreKeysAre

LEMMA CountingKeepsScores ==
  ASSUME NEW summary, NEW findings, NEW k, IsScore(k)
  PROVE  /\ k \in DOMAIN WithCounts(summary, findings) <=> k \in DOMAIN summary
         /\ WithCounts(summary, findings)[k] = summary[k] \/ k \notin DOMAIN summary
<1>1. PICK counts, size : counts = CountSeverities(findings) /\ size = [total |-> Len(findings)]
  OBVIOUS
<1>2. DOMAIN counts = SeverityLevels /\ DOMAIN size = {"total"}
  BY <1>1 DEF CountSeverities
<1>3. k \notin DOMAIN counts /\ k \notin DOMAIN size
  BY <1>2, ScoresAreNoCounts
<1>4. PICK inner, outer : inner = Upon(summary, counts) /\ outer = Upon(inner, size)
  OBVIOUS
<1>5. (k \in DOMAIN inner <=> k \in DOMAIN summary) /\ (k \in DOMAIN summary => inner[k] = summary[k])
  BY <1>3, <1>4 DEF Upon
<1>6. (k \in DOMAIN outer <=> k \in DOMAIN inner) /\ (k \in DOMAIN inner => outer[k] = inner[k])
  BY <1>3, <1>4 DEF Upon
<1>7. outer = WithCounts(summary, findings)
  BY <1>1, <1>4 DEF WithCounts
<1> QED
  BY <1>5, <1>6, <1>7

(* The value of a key, or none. *)
ScoreIn(summary, k) == IF k \in DOMAIN summary THEN summary[k] ELSE NoScore

LEMMA HistoryIsOwn ==
  ASSUME NEW file, NEW dept, OwnScore(file, dept), dept # "qa",
         NEW e, NEW findings, e.summary = NormalizeSummary(file, findings, dept),
         NEW score, score = ScoreIn(file.summary, AuditKey(dept)), score # 0,
         score # NoScore \/ file.overall = NoScore
  PROVE  HistoryScore(e, dept) = score
<1>1. PICK key, counted : key = AuditKey(dept) /\ counted = WithCounts(file.summary, findings)
  OBVIOUS
<1>2. key \in Range(ScoreKeys) /\ key # "score" /\ IsScore(key)
  BY <1>1, AuditKeyIs DEF IsScore
<1>3. \A k : GetFirst(counted, <<k>>, NoScore) = ScoreIn(counted, k)
  BY OneKey DEF ScoreIn
<1>4. \A k : IsScore(k) => ScoreIn(counted, k) = ScoreIn(file.summary, k)
  BY <1>1, CountingKeepsScores DEF ScoreIn
<1>5. \A k : IsScore(k) /\ k # key => ScoreIn(counted, k) = NoScore
  <2> SUFFICES ASSUME NEW k, IsScore(k), k # key PROVE ScoreIn(counted, k) = NoScore
    OBVIOUS
  <2>1. k \notin DOMAIN file.summary
    BY <1>1 DEF OwnScore, IsScore
  <2> QED
    BY <1>4, <2>1 DEF ScoreIn
<1>6. ScoreIn(counted, key) = score
  BY <1>1, <1>2, <1>4
<1>7. e.summary = counted
  <2>1. CASE dept \notin DOMAIN ScoreKey
    BY <1>1, <2>1 DEF NormalizeSummary
  <2>2. CASE dept \in DOMAIN ScoreKey
    <3>1. key = ScoreKey[dept]
      BY <1>1, <2>2 DEF AuditKey
    <3>2. GetFirst(counted, <<key>>, NoScore) = score
      BY <1>3, <1>6
    <3> QED
      BY <1>1, <3>1, <3>2 DEF NormalizeSummary
  <2> QED
    BY <2>1, <2>2
<1>8. PICK given : given = {n \in DOMAIN ScoreKeys :
                              GetFirst(e.summary, <<ScoreKeys[n]>>, NoScore) \notin {NoScore, 0}}
  OBVIOUS
<1>9. HistoryScore(e, dept) = IF given = {} THEN GetFirst(e.summary, <<"score">>, NoScore)
                              ELSE e.summary[ScoreKeys[Min(given)]]
  BY <1>8 DEF HistoryScore
<1>10. \A n \in DOMAIN ScoreKeys : IsScore(ScoreKeys[n])
  BY DEF IsScore, Range
<1>11. \A n \in DOMAIN ScoreKeys : n \in given <=> ScoreIn(counted, ScoreKeys[n]) \notin {NoScore, 0}
  BY <1>3, <1>7, <1>8
<1>12. \A n \in given : ScoreKeys[n] = key /\ score \notin {NoScore, 0}
  BY <1>5, <1>6, <1>8, <1>10, <1>11
<1>13. CASE score = NoScore
  <2>1. given = {}
    BY <1>12, <1>13
  <2>2. IsScore("score")
    BY DEF IsScore
  <2>3. GetFirst(e.summary, <<"score">>, NoScore) = NoScore
    BY <1>2, <1>3, <1>5, <1>7, <2>2
  <2> QED
    BY <1>9, <1>13, <2>1, <2>3
<1>14. CASE score # NoScore
  <2>1. PICK n \in DOMAIN ScoreKeys : ScoreKeys[n] = key
    BY <1>2 DEF Range
  <2>2. n \in given
    BY <1>6, <1>11, <1>14, <2>1
  <2>3. given \subseteq Nat /\ given # {}
    BY <1>8, <2>2, ScoreKeysAre
  <2>4. PICK m \in given : \A j \in given : m <= j
    BY <2>3, LeastNumber
  <2>5. Min(given) = m
    BY <2>3, <2>4, LeastIs
  <2>6. ScoreKeys[m] = key
    BY <1>12, <2>4
  <2>7. key \in DOMAIN counted /\ counted[key] = score
    BY <1>6, <1>14 DEF ScoreIn
  <2> QED
    BY <1>7, <1>9, <2>3, <2>5, <2>6, <2>7
<1> QED
  BY <1>13, <1>14

LEMMA AuditHolds ==
  ASSUME NEW file, NEW dept, NEW R, BothLists(file, NoFindings, R)
  PROVE  AuditLogAgrees(file, dept)
<1>1. PICK fixes : fixes = [k \in {} |-> ""]
  OBVIOUS
<1>2. PICK e : e = RepoEntry(file, NoFindings, dept, fixes)
  OBVIOUS
<1>3. ASSUME file # NoFindings, Honest(file), OwnScore(file, dept) PROVE AuditEntryAgrees(e, file, dept)
  <2> HIDE <1>1
  <2>1. PICK A, M : A = file.findings /\ M = MergedFiles(file, NoFindings)
    OBVIOUS
  <2>2. OrEmpty(file) = file /\ OrEmpty(NoFindings).findings = <<>>
    BY <1>3 DEF OrEmpty, EmptyFile
  <2>3. A \in Seq(R) /\ <<>> \in Seq(R)
    BY <2>1, <2>2 DEF BothLists
  <2>4. M = A
    <3>1. M = MergeFindings(A, <<>>)
      BY <2>1, <2>2 DEF MergedFiles
    <3>2. MergedOf(M, A, <<>>)
      BY <2>3, <3>1, MergeMakes
    <3> QED
      BY <3>2 DEF MergedOf
  <2>5. e.summary = SummaryOf(file, NoFindings, A, dept) /\ e.totals = Totals(e.summary, A)
    <3>1. EntryOf(e, M, file, NoFindings, dept, fixes)
      BY <1>2, <2>1, EntryIs
    <3>2. e.summary = SummaryOf(file, NoFindings, M, dept) /\ e.totals = Totals(e.summary, M)
      BY <3>1 DEF EntryOf
    <3> QED
      BY <2>4, <3>2
  <2>6. CountsRight(file.summary, A)
    BY <1>3, <2>1, HonestIsRight
  <2>7. CountsRight(e.summary, A)
    <3>1. {file, NoFindings} # {NoFindings}
      BY <1>3
    <3>2. CountsRight(SummaryOf(file, NoFindings, M, dept), M)
      BY <1>3, <2>1, <3>1, SummaryIsRight
    <3> QED
      BY <2>4, <2>5, <3>2
  <2>8. e.totals["total"] = Len(A)
    BY <2>5, <2>7, TotalsAreRight
  <2>9. AuditTotal(file) = Len(A)
    <3>1. "total" \in DOMAIN file.summary /\ file.summary["total"] = Len(A)
      BY <2>6 DEF CountsRight
    <3>2. \A default : GetFirst(file.summary, <<"total", "total_findings">>, default) = Len(A)
      BY <3>1, TwoKeys
    <3> QED
      BY <3>2 DEF AuditTotal
  <2>10. PICK score : score = AuditScore(file, dept)
    OBVIOUS
  <2>11. CASE dept = "qa"
    <3>1. e.summary = file.summary
      BY <2>5, <2>11 DEF SummaryOf
    <3>2. \A default : GetFirst(e.summary, <<"total">>, default) = Len(A)
      <4>1. "total" \in DOMAIN e.summary /\ e.summary["total"] = Len(A)
        BY <2>7 DEF CountsRight
      <4> QED
        BY <4>1, OneKey
    <3>3. score = QaScore(e.summary)
      BY <2>10, <2>11, <3>1 DEF AuditScore
    <3>4. HistoryScore(e, dept) = IF Len(A) = 0 THEN NoScore ELSE QaScore(e.summary)
      BY <2>11, <3>2 DEF HistoryScore
    <3>5. score = HistoryScore(e, dept) \/ Len(A) = 0
      BY <3>3, <3>4
    <3> QED
      BY <2>8, <2>9, <2>10, <2>11, <3>5 DEF AuditEntryAgrees
  <2>12. CASE dept # "qa"
    <3>1. e.summary = NormalizeSummary(file, A, dept)
      BY <2>2, <2>5, <2>12 DEF SummaryOf
    <3>2. score = ScoreIn(file.summary, AuditKey(dept))
      BY <2>10, <2>12, OneKey DEF AuditScore, ScoreIn
    <3>3. score = 0 \/ (score = NoScore /\ file.overall # NoScore) \/ HistoryScore(e, dept) = score
      BY <1>3, <2>12, <3>1, <3>2, HistoryIsOwn
    <3> QED
      BY <2>8, <2>9, <2>10, <3>3 DEF AuditEntryAgrees
  <2> QED
    BY <2>11, <2>12
<1> QED
  BY <1>1, <1>2, <1>3 DEF AuditLogAgrees

(* The inputs that there are. *)
IsScan(x) ==
  /\ x.scene \in ScanScenes /\ x.max \in Maximums
  /\ x.first \in ToolDeeds[x.scene.first] /\ x.second \in ToolDeeds[x.scene.second]

IsBoard(x) == BothLists(x.file, x.tools, RawFindings) /\ BothLists(x.file, NoFindings, RawFindings)

IsRecord(x) == x.class \in DOMAIN Classes /\ \A f \in DOMAIN x.raw : x.raw[f] \in StoredValues

IsSpending(x) == x.log \in Seq(CostEvents) /\ x.budgets \in Declarations /\ x.now \in Hours

FiguresInv ==
  /\ figure.of = "scan" => IsScan(figure.input)
  /\ figure.of = "board" => IsBoard(figure.input)
  /\ figure.of = "record" => IsRecord(figure.input)
  /\ figure.of = "spending" => IsSpending(figure.input)

LEMMA BoundedAreLists == ASSUME NEW S, NEW n \in Nat, NEW list \in BoundedSeq(S, n) PROVE list \in Seq(S)
<1>1. PICK m \in 0 .. n : list \in [1 .. m -> S]
  BY DEF BoundedSeq, SeqOf
<1> QED
  BY <1>1

LEMMA FilesAreLists ==
  ASSUME NEW dept, NEW file \in AgentFiles(dept), NEW tools \in ToolFiles
  PROVE  BothLists(file, tools, RawFindings) /\ BothLists(file, NoFindings, RawFindings)
<1>1. <<>> \in Seq(RawFindings)
  OBVIOUS
<1>2. OrEmpty(NoFindings).findings \in Seq(RawFindings)
  BY <1>1 DEF OrEmpty, EmptyFile
<1>3. OrEmpty(file).findings \in Seq(RawFindings)
  <2>1. CASE file = NoFindings
    BY <1>2, <2>1
  <2>2. CASE file # NoFindings
    <3>1. PICK found \in BoundedSeq(RawFindings, MostFindings) : \E summary, overall :
            file = [summary |-> summary, overall |-> overall, findings |-> found]
      BY <2>2 DEF AgentFiles
    <3>2. file.findings = found /\ OrEmpty(file) = file
      BY <2>2, <3>1 DEF OrEmpty
    <3>3. found \in Seq(RawFindings)
      <4>1. MostFindings \in Nat
        BY FiguresAssumption
      <4> QED
        BY <4>1, BoundedAreLists
    <3> QED
      BY <3>2, <3>3
  <2> QED
    BY <2>1, <2>2
<1>4. OrEmpty(tools).findings \in Seq(RawFindings)
  <2>1. CASE tools = NoFindings
    BY <1>2, <2>1
  <2>2. CASE tools # NoFindings
    <3>1. PICK found \in BoundedSeq(RawFindings, MostFindings) : tools = [EmptyFile EXCEPT !.findings = found]
      BY <2>2 DEF ToolFiles
    <3>2. tools.findings = found /\ OrEmpty(tools) = tools
      BY <2>2, <3>1 DEF OrEmpty, EmptyFile
    <3>3. found \in Seq(RawFindings)
      <4>1. MostFindings \in Nat
        BY FiguresAssumption
      <4> QED
        BY <4>1, BoundedAreLists
    <3> QED
      BY <3>2, <3>3
  <2> QED
    BY <2>1, <2>2
<1> QED
  BY <1>2, <1>3, <1>4 DEF BothLists

LEMMA FiguresStart == FiguresInit => FiguresInv
BY DEF FiguresInit, FiguresInv, NoFigure

LEMMA FiguresSteps == ASSUME FiguresInv, [FiguresNext]_figure PROVE FiguresInv'
<1>1. CASE UNCHANGED figure
  BY <1>1 DEF FiguresInv, IsScan, IsBoard, IsRecord, IsSpending, BothLists, OrEmpty
<1>2. ASSUME NEW scene \in ScanScenes, NEW x \in ToolDeeds[scene.first], NEW y \in ToolDeeds[scene.second],
             NEW min, NEW max \in Maximums,
             figure' = [of |-> "scan",
                        input |-> [scene |-> scene, first |-> x, second |-> y, min |-> min, max |-> max]]
      PROVE  FiguresInv'
  BY <1>2 DEF FiguresInv, IsScan
<1>3. ASSUME NEW dept, NEW file \in AgentFiles(dept), NEW tools \in ToolFiles, NEW fixes,
             figure' = [of |-> "board", input |-> [dept |-> dept, file |-> file, tools |-> tools, fixes |-> fixes]]
      PROVE  FiguresInv'
  <2>1. figure'.of = "board" /\ figure'.input.file = file /\ figure'.input.tools = tools
    BY <1>3
  <2>2. BothLists(file, tools, RawFindings) /\ BothLists(file, NoFindings, RawFindings)
    BY FilesAreLists
  <2> QED
    BY <2>1, <2>2 DEF FiguresInv, IsBoard
<1>4. ASSUME NEW log \in BoundedSeq(CostEvents, MostCosts), NEW budgets \in Declarations, NEW now \in Hours,
             figure' = [of |-> "spending", input |-> [log |-> log, budgets |-> budgets, now |-> now]]
      PROVE  FiguresInv'
  <2>1. MostCosts \in Nat
    BY FiguresAssumption
  <2>2. log \in Seq(CostEvents)
    BY <2>1, BoundedAreLists
  <2> QED
    BY <1>4, <2>2 DEF FiguresInv, IsSpending
<1>5. ASSUME NEW class \in DOMAIN Classes, NEW key, NEW v \in StoredValues,
             figure' = [of |-> "record", input |-> [class |-> class, raw |-> [k \in {key} |-> v]]]
      PROVE  FiguresInv'
  BY <1>5 DEF FiguresInv, IsRecord
<1> QED
  BY <1>1, <1>2, <1>3, <1>4, <1>5 DEF FiguresNext

LEMMA ScansFollow == FiguresInv => ScansKeepWorst
BY ScansKeep DEF FiguresInv, ScansKeepWorst, IsScan

LEMMA FilesFollow == FiguresInv => FiguresAddUp
<1> SUFFICES ASSUME FiguresInv, figure.of = "board" PROVE FiguresAddUp
  BY DEF FiguresAddUp
<1>1. PICK x : x = figure.input
  OBVIOUS
<1>2. BothLists(x.file, x.tools, RawFindings) /\ BothLists(x.file, NoFindings, RawFindings)
  BY <1>1 DEF FiguresInv, IsBoard
<1>3. BoardAddsUp(x.file, x.tools, x.dept, x.fixes)
  BY <1>2, BoardHolds
<1>4. AuditLogAgrees(x.file, x.dept)
  BY <1>2, AuditHolds
<1> QED
  BY <1>1, <1>3, <1>4 DEF FiguresAddUp

LEMMA RecordsFollow == FiguresInv => StoredRecordsSettle
<1> SUFFICES ASSUME FiguresInv, figure.of = "record"
             PROVE  RecordsSettle(Classes[figure.input.class], figure.input.raw)
  BY DEF StoredRecordsSettle
<1>1. PICK x : x = figure.input
  OBVIOUS
<1>2. x.class \in DOMAIN Classes /\ \A f \in DOMAIN x.raw : x.raw[f] \in Values
  BY <1>1, FiguresAssumption DEF FiguresInv, IsRecord
<1> QED
  BY <1>1, <1>2, ClassesSettle, RecordsDoSettle

LEMMA SpendingFollows == FiguresInv => SpendingOnlyTightens
<1> SUFFICES ASSUME FiguresInv, figure.of = "spending" PROVE SpendingOnlyTightens
  BY DEF SpendingOnlyTightens
<1>1. PICK x, ctx : /\ x = figure.input
                    /\ ctx = [target |-> "r", agent |-> "", task |-> "", run |-> "", department |-> "qa"]
  OBVIOUS
<1>2. x.log \in Seq(CostEvents) /\ x.now \in Nat /\ x.budgets \in Declarations
  BY <1>1, FiguresAssumption DEF FiguresInv, IsSpending
<1>3. \A e \in CostEvents : IsCostEvent(e)
  BY FiguresAssumption DEF IsCostEvent
<1>4. \A k \in DOMAIN x.budgets : LimitsAre(x.budgets[k])
  BY <1>2, FiguresAssumption DEF LimitsAre
<1>5. PICK n \in Nat : DOMAIN x.log = 1 .. n /\ \A i \in 1 .. n : IsCostEvent(x.log[i])
  BY <1>2, <1>3
<1>6. WindowsNest(x.log, ctx, x.now)
  BY <1>2, <1>5, WindowsDoNest
<1>7. CostsOnlyTighten(x.budgets, x.log, "r", "qa", x.now)
  <2>1. CASE x.log = <<>>
    BY <2>1 DEF CostsOnlyTighten
  <2>2. CASE x.log # <<>>
    BY <1>2, <1>3, <1>4, <2>2, CostsTighten
  <2> QED
    BY <2>1, <2>2
<1> QED
  BY <1>1, <1>6, <1>7 DEF SpendingOnlyTightens

(* The figures, whatever is in the files: any tools and what they do, any caps, findings
   (any number of them), summaries, fixes, cost logs, budgets and stored values. *)
LEMMA FiguresStay ==
  /\ Init => FiguresInv
  /\ FiguresInv /\ [Next]_vars => FiguresInv'
<1>1. Init => FiguresInv
  BY FiguresStart DEF Init
<1>2. [Next]_vars => [FiguresNext]_figure
  BY DEF Next, vars, Rests, Parts
<1> QED
  BY <1>1, <1>2, FiguresSteps

(* _build_payload and triage_payload: a scan that is cut keeps the worst of what any
   tools found, under any cap, and has a note of each tool that failed. *)
THEOREM ScansReportWorst == Spec => []ScansKeepWorst
BY FiguresStay, ScansFollow, PTL DEF Spec

(* aggregate.py, backlog.py and workflow.py on any findings files: the board's totals,
   lists and trust classes, the backlog and the audit log speak of the same findings. *)
THEOREM FilesAddUp == Spec => []FiguresAddUp
BY FiguresStay, FilesFollow, PTL DEF Spec

(* from_dict and to_dict of every class of the domain, whatever was stored under a key:
   rewriting a record a second time changes nothing. *)
THEOREM RecordsAllSettle == Spec => []StoredRecordsSettle
BY FiguresStay, RecordsFollow, PTL DEF Spec

(* budgets.py on any cost log: windows nest, and a further cost closes gates only. *)
THEOREM SpendingTightens == Spec => []SpendingOnlyTightens
BY FiguresStay, SpendingFollows, PTL DEF Spec

(* The four together, which the run checks on its inputs. *)
THEOREM EverythingAddsUp == Spec => []EveryInputAddsUp
<1>1. FiguresInv => EveryInputAddsUp
  BY ScansFollow, FilesFollow, RecordsFollow, SpendingFollows DEF EveryInputAddsUp
<1> QED
  BY <1>1, FiguresStay, PTL DEF Spec

=============================================================================
