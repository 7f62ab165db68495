----------------------------- MODULE AgentTokens -----------------------------
(***************************************************************************)
(* Per-agent API tokens (backoffice/auth.py).  All of them are in one JSON *)
(* file; the dashboard server authenticates and issues, the tokens command *)
(* issues and revokes, and each loads the whole file and saves it back,    *)
(* authentication included (last_used_at), without a lock.                 *)
(***************************************************************************)
EXTENDS FiniteSets, Naturals

CONSTANTS
  TokenCallers,  \* processes that use the file
  Tokens,        \* hashes of the tokens that may be issued
  OwnerOf,       \* token -> its agent
  Scopes         \* scopes a token may have

ASSUME OwnersAssumption == DOMAIN OwnerOf = Tokens

VARIABLES
  tokenFile,  \* token in the file -> its scopes
  tokenCall,  \* caller -> the operation it is in, with the copy it has loaded
  revoked,    \* tokens whose revocation was reported (history)
  issued,     \* tokens handed out (history)
  exposed,    \* tokens that another operation had its own idea of at the time (history)
  lateEntry   \* tokens let in by a request that began after their revocation (history)

tokenVars == <<tokenFile, tokenCall, revoked, issued, exposed, lateEntry>>

NoCall == [op |-> "none"]

TokensInit ==
  /\ tokenFile = [t \in {} |-> {}]
  /\ tokenCall = [c \in TokenCallers |-> NoCall]
  /\ revoked = {}
  /\ issued = {}
  /\ exposed = {}
  /\ lateEntry = {}

-----------------------------------------------------------------------------
AgentsOf(S) == {OwnerOf[t] : t \in S}

With(f, t, scopes) == [x \in DOMAIN f \cup {t} |-> IF x = t THEN scopes ELSE f[x]]

Dropping(f, S) == [x \in DOMAIN f \ S |-> f[x]]

Loads(c, call) ==
  /\ tokenCall[c] = NoCall
  /\ tokenCall' = [tokenCall EXCEPT ![c] = call]
  /\ UNCHANGED <<tokenFile, revoked, issued, exposed, lateEntry>>

(* An empty selection of scopes is stored as it is. *)
Issue(c, t, scopes) ==
  /\ t \notin issued
  /\ \A d \in TokenCallers : tokenCall[d].op = "issue" => tokenCall[d].token # t
  /\ Loads(c, [op |-> "issue", token |-> t, copy |-> With(tokenFile, t, scopes)])

(* Mutant: the tokens are dropped from the listing and the file is left. *)
RevokeListed(c, S) ==
  /\ S # {}
  /\ Loads(c, [op |-> "revoke", tokens |-> S \cap DOMAIN tokenFile, copy |-> tokenFile])

(* revoke_token and revoke_all_for_agent: nothing is saved when nothing matches. *)
Revoke(c, S) ==
  /\ S \cap DOMAIN tokenFile # {}
  /\ Loads(c, [op |-> "revoke", tokens |-> S \cap DOMAIN tokenFile,
               copy |-> Dropping(tokenFile, S)])

RevokeOne(c, t) == Revoke(c, {t})

RevokeAll(c, agent) == Revoke(c, {t \in Tokens : OwnerOf[t] = agent})

(* A token that is not in the file is refused without a save. *)
Authenticate(c, t) ==
  /\ t \in DOMAIN tokenFile
  /\ Loads(c, [op |-> "auth", token |-> t, late |-> t \in revoked, copy |-> tokenFile])

(* Tokens that other operations under way have another idea of than this save. *)
Contested(c) ==
  UNION {{t \in Tokens : t \in DOMAIN tokenCall[c].copy <=> t \notin DOMAIN tokenCall[d].copy} :
           d \in {x \in TokenCallers \ {c} : tokenCall[x] # NoCall}}

Save(c) ==
  LET call == tokenCall[c] IN
  /\ call # NoCall
  /\ tokenFile' = call.copy
  /\ exposed' = exposed \cup Contested(c)
  /\ revoked' = IF call.op = "revoke" THEN revoked \cup call.tokens ELSE revoked
  /\ issued' = IF call.op = "issue" THEN issued \cup {call.token} ELSE issued
  /\ lateEntry' = IF call.op = "auth" /\ call.late THEN lateEntry \cup {call.token} ELSE lateEntry
  /\ tokenCall' = [tokenCall EXCEPT ![c] = NoCall]

TokensNext ==
  \E c \in TokenCallers :
    \/ \E t \in Tokens, scopes \in SUBSET Scopes : Issue(c, t, scopes)
    \/ \E t \in Tokens : RevokeOne(c, t) \/ Authenticate(c, t)
    \/ \E a \in AgentsOf(Tokens) : RevokeAll(c, a)
    \/ Save(c)

-----------------------------------------------------------------------------
(* A token that was issued is in the file until it is revoked, and one whose
   revocation was reported neither is there again nor lets a later request in,
   unless another operation had the file loaded at the time. *)
TokensKeepDecisions ==
  \A t \in Tokens \ exposed :
    /\ t \in issued => (t \in DOMAIN tokenFile <=> t \notin revoked)
    /\ t \notin lateEntry

=============================================================================
