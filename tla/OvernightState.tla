---------------------------- MODULE OvernightState ----------------------------
(***************************************************************************)
(* What the overnight loop remembers of its cycles                         *)
(* (backoffice/overnight_state.py and append_history in                    *)
(* scripts/overnight.sh).  The history is the sequence of the reports of   *)
(* the last cycles, oldest first; a report has the items that failed and   *)
(* the targets that were rolled back.                                      *)
(***************************************************************************)
EXTENDS Naturals, Sequences, SequencesExt

CONSTANTS
  HistoryKeep,         \* reports kept: 50
  FailureWindow,       \* reports a failed item is remembered for: 2
  QuarantineThreshold  \* consecutive rollbacks that quarantine a target: 3

ASSUME HistoryAssumption ==
  /\ HistoryKeep \in Nat /\ FailureWindow \in Nat
  /\ QuarantineThreshold \in Nat \ {0}
  /\ FailureWindow <= HistoryKeep

LastOf(history, n) == SubSeq(history, 1 + IF Len(history) > n THEN Len(history) - n ELSE 0, Len(history))

(* append_history *)
Remember(history, report) == LastOf(Append(history, report), HistoryKeep)

(* FailureMemory *)
RecentlyFailed(history, item) ==
  \E report \in ToSet(LastOf(history, FailureWindow)) : item \in report.failed

(* Mutant: a target is flagged only while its streak lasts. *)
FlaggedNow(history, target) ==
  /\ Len(history) >= QuarantineThreshold
  /\ \A report \in ToSet(LastOf(history, QuarantineThreshold)) : target \in report.rolledBack

(* Quarantine.flagged: some run of reports, up to the threshold and no matter
   how long ago, that all rolled the target back. *)
Flagged(history, target) ==
  \E last \in QuarantineThreshold..Len(history) :
    \A i \in (last - QuarantineThreshold + 1)..last : target \in history[i].rolledBack

=============================================================================
