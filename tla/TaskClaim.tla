------------------------------ MODULE TaskClaim ------------------------------
(***************************************************************************)
(* What the task queue promises to the agents that share it, with no lock, *)
(* no files and no intermediate steps: a task is claimed by one agent at a *)
(* time, the claim and the move to "checked_out" are one step, a claim     *)
(* ends before the next one starts, and every other change of status is a  *)
(* legal move that leaves the claim alone.                                 *)
(***************************************************************************)
EXTENDS StateMachines

CONSTANTS Agents, Tasks, None   \* None is no agent

VARIABLES status,   \* status of each task, or "absent"
          holder    \* the agent whose live run claims the task, or None

claimVars == <<status, holder>>

Claimable == {"ready", "queued"}

ClaimInit ==
  /\ status \in [Tasks -> TaskStates \cup {"absent"}]
  /\ holder = [t \in Tasks |-> None]

(* An agent claims an unheld task. *)
Claim(t, a) ==
  /\ status[t] \in Claimable
  /\ holder[t] = None
  /\ status' = [status EXCEPT ![t] = "checked_out"]
  /\ holder' = [holder EXCEPT ![t] = a]

(* The run behind the claim reaches a terminal state. *)
EndClaim(t) ==
  /\ holder[t] # None
  /\ holder' = [holder EXCEPT ![t] = None]
  /\ UNCHANGED status

(* Any other change of status follows the table. *)
Move(t, s) ==
  /\ IsLegalTaskTransition(status[t], s)
  /\ status' = [status EXCEPT ![t] = s]
  /\ UNCHANGED holder

ClaimNext ==
  \E t \in Tasks :
    \/ \E a \in Agents : Claim(t, a)
    \/ EndClaim(t)
    \/ \E s \in TaskStates : Move(t, s)

ClaimSpec == ClaimInit /\ [][ClaimNext]_claimVars

=============================================================================
