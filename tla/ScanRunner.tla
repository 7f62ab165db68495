----------------------------- MODULE ScanRunner ------------------------------
(***************************************************************************)
(* One deterministic scan of a repository and department after the other,  *)
(* or at the same time (run_scan in backoffice/scanners/runner.py and      *)
(* scan_state.py).  A scan whose HEAD is the recorded one is answered from *)
(* the output file.  The lock covers the tools alone: the file is written, *)
(* HEAD is read again and recorded after it is given back.  Commits land   *)
(* at any time, and a scan may be killed anywhere.                         *)
(***************************************************************************)
EXTENDS Naturals

CONSTANTS
  Scanners,   \* processes that scan
  MaxHead     \* bound on the commits

VARIABLES
  head,       \* HEAD of the repository, a number; it starts at 1
  output,     \* the output file: [of, whole], or NoOutput
  recorded,   \* the HEAD in scan-state.json, or 0
  scanLock,   \* the scanner that holds the lock, or "none"
  scan,       \* scanner -> its step
  answered,   \* what the last skipped scan was answered with: [of, whole, head] (history)
  disturbed   \* a commit landed during a scan, two scans overlapped, or one scanned
              \* other tools or elsewhere than the configured ones (history)

scanVars == <<head, output, recorded, scanLock, scan, answered, disturbed>>

NoOutput == [of |-> 0, whole |-> FALSE]

NotScanning == [step |-> "none"]

ScanInit ==
  /\ head = 1
  /\ output = NoOutput
  /\ recorded = 0
  /\ scanLock = "none"
  /\ scan = [p \in Scanners |-> NotScanning]
  /\ answered = [of |-> 1, whole |-> TRUE, head |-> 1]
  /\ disturbed = FALSE

-----------------------------------------------------------------------------
Scanning(p) == scan[p].step # "none"

(* A commit lands in the target. *)
CommitLands ==
  /\ head < MaxHead
  /\ head' = head + 1
  /\ disturbed' = (disturbed \/ \E p \in Scanners : Scanning(p))
  /\ UNCHANGED <<output, recorded, scanLock, scan, answered>>

(* should_skip, and the file that is there: without either the tools run. *)
ShouldSkip == recorded = head /\ output # NoOutput

ScanSkips(p) ==
  /\ ~Scanning(p) /\ ShouldSkip
  /\ answered' = [of |-> output.of, whole |-> output.whole, head |-> head]
  /\ UNCHANGED <<head, output, recorded, scanLock, scan, disturbed>>

(* The tools, all that were discovered or those the caller names (whole); out says
   that the caller names the output file as well.  A held lock is an error. *)
ScanStarts(p, force, whole, out) ==
  /\ ~Scanning(p)
  /\ force \/ ~ShouldSkip
  /\ scanLock = "none"
  /\ scanLock' = p
  /\ scan' = [scan EXCEPT ![p] = [step |-> "tools", of |-> head, whole |-> whole, out |-> out]]
  /\ disturbed' = (disturbed \/ ~whole \/ out \/ \E q \in Scanners : Scanning(q))
  /\ UNCHANGED <<head, output, recorded, answered>>

ToolsEnd(p) ==
  /\ scan[p].step = "tools"
  /\ scanLock' = "none"
  /\ scan' = [scan EXCEPT ![p].step = "write"]
  /\ UNCHANGED <<head, output, recorded, answered, disturbed>>

(* Mutant: the HEAD is recorded first. *)
RecordsFirst(p) ==
  \/ /\ scan[p].step = "write"
     /\ recorded' = head
     /\ scan' = [scan EXCEPT ![p].step = "late"]
     /\ UNCHANGED <<head, output, scanLock, answered, disturbed>>
  \/ /\ scan[p].step = "late"
     /\ output' = IF scan[p].out THEN output ELSE [of |-> scan[p].of, whole |-> scan[p].whole]
     /\ scan' = [scan EXCEPT ![p] = NotScanning]
     /\ UNCHANGED <<head, recorded, scanLock, answered, disturbed>>

WritesOutput(p) ==
  /\ scan[p].step = "write"
  /\ output' = IF scan[p].out THEN output ELSE [of |-> scan[p].of, whole |-> scan[p].whole]
  /\ scan' = [scan EXCEPT ![p].step = "head"]
  /\ UNCHANGED <<head, recorded, scanLock, answered, disturbed>>

(* head_sha once more; nothing is recorded when git cannot tell. *)
ReadsHead(p) ==
  /\ scan[p].step = "head"
  /\ \/ scan' = [scan EXCEPT ![p] = [step |-> "record", sha |-> head]]
     \/ scan' = [scan EXCEPT ![p] = NotScanning]
  /\ UNCHANGED <<head, output, recorded, scanLock, answered, disturbed>>

(* scan_state.update, under a lock of its own. *)
RecordsHead(p) ==
  /\ scan[p].step = "record"
  /\ recorded' = scan[p].sha
  /\ scan' = [scan EXCEPT ![p] = NotScanning]
  /\ UNCHANGED <<head, output, scanLock, answered, disturbed>>

(* The lock goes with the process. *)
ScannerDies(p) ==
  /\ Scanning(p)
  /\ scan' = [scan EXCEPT ![p] = NotScanning]
  /\ scanLock' = IF scanLock = p THEN "none" ELSE scanLock
  /\ UNCHANGED <<head, output, recorded, answered, disturbed>>

ScanNext ==
  \/ CommitLands
  \/ \E p \in Scanners :
       \/ ScanSkips(p)
       \/ \E force, whole, out \in BOOLEAN : ScanStarts(p, force, whole, out)
       \/ ToolsEnd(p) \/ WritesOutput(p) \/ ReadsHead(p) \/ RecordsHead(p)
       \/ ScannerDies(p)

-----------------------------------------------------------------------------
(* scan_state.py, line 6: callers skip "when no commits have landed".  A scan that
   is skipped is answered with the findings of the commit that is checked out. *)
SkipsOnlyUnchanged == answered.of = answered.head

(* That much does hold for scans with the configured tools and file, one at a time,
   that no commit interrupts, also when they are killed at any point: what is
   recorded never runs ahead of what is in the file. *)
UndisturbedSkipIsCurrent == ~disturbed => SkipsOnlyUnchanged /\ answered.whole

=============================================================================
