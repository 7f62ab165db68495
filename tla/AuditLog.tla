------------------------------ MODULE AuditLog -------------------------------
(***************************************************************************)
(* The audit log and its rotation (backoffice/audit_rotation.py and        *)
(* append_jsonl_line).  Any process appends; before that it moves a log    *)
(* above the size threshold to a name made of the second.  Nothing is      *)
(* locked.  A file is an inode: a name may move between the open and the   *)
(* write of an append, which then goes where the inode went.               *)
(***************************************************************************)
EXTENDS Naturals, FiniteSets

CONSTANTS
  Writers,       \* processes that append one event after the other
  Threshold,     \* events a log may hold without being rotated
  MaxEvents,     \* bound on the events appended
  MaxSeconds     \* bound on the clock

ASSUME ThresholdAssumption == Threshold \in Nat

ASSUME AuditBoundsAssumption ==
  IsFiniteSet(Writers) /\ MaxEvents \in Nat /\ MaxSeconds \in Nat \ {0}

VARIABLES
  current,    \* inode of audit-events.jsonl, or 0
  rotated,    \* second -> inode of audit-events-<second>.jsonl, or 0
  content,    \* inode -> the events written to it
  writer,     \* writer -> its step, and the inode it has open or the name it made
  second,
  written,    \* how many events have been written (they are numbered)
  sameSecond  \* a rotation took a name that was in use (history)

auditVars == <<current, rotated, content, writer, second, written, sameSecond>>

Inodes == 1 .. MaxEvents + 1

AtRest == [step |-> "idle", name |-> 0, inode |-> 0]

AuditInit ==
  /\ current = 0
  /\ rotated = [s \in 1 .. MaxSeconds |-> 0]
  /\ content = [i \in Inodes |-> {}]
  /\ writer = [w \in Writers |-> AtRest]
  /\ second = 1
  /\ written = 0
  /\ sameSecond = FALSE

-----------------------------------------------------------------------------
Fresh == CHOOSE i \in Inodes : /\ i # current
                               /\ \A s \in 1 .. MaxSeconds : rotated[s] # i
                               /\ content[i] = {}
                               /\ \A w \in Writers : writer[w].inode # i

Size == IF current = 0 THEN 0 ELSE Cardinality(content[current])

Moves(w, state) == writer' = [writer EXCEPT ![w] = state]

(* stat, and the name the log would get. *)
Checks(w) ==
  /\ writer[w].step = "idle"
  /\ written + Cardinality({x \in Writers : writer[x].step # "idle"}) < MaxEvents
  /\ Moves(w, IF Size > Threshold THEN [AtRest EXCEPT !.step = "rotate", !.name = second]
              ELSE [AtRest EXCEPT !.step = "open"])
  /\ UNCHANGED <<current, rotated, content, second, written, sameSecond>>

(* os.replace, which takes the name away from whatever file had it; it fails when
   the log is no longer there, and then nothing is touched. *)
Rotates(w) ==
  /\ writer[w].step = "rotate"
  /\ IF current = 0
     THEN /\ Moves(w, [AtRest EXCEPT !.step = "open"])
          /\ UNCHANGED <<current, rotated, sameSecond>>
     ELSE /\ rotated' = [rotated EXCEPT ![writer[w].name] = current]
          /\ sameSecond' = (sameSecond \/ rotated[writer[w].name] # 0)
          /\ current' = 0
          /\ Moves(w, [AtRest EXCEPT !.step = "touch"])
  /\ UNCHANGED <<content, second, written>>

(* Mutant: the log is emptied instead of created. *)
TouchTruncates(w) ==
  /\ writer[w].step = "touch"
  /\ current' = IF current = 0 THEN Fresh ELSE current
  /\ content' = [content EXCEPT ![current'] = {}]
  /\ Moves(w, [AtRest EXCEPT !.step = "open"])
  /\ UNCHANGED <<rotated, second, written, sameSecond>>

Touches(w) ==
  /\ writer[w].step = "touch"
  /\ current' = IF current = 0 THEN Fresh ELSE current
  /\ Moves(w, [AtRest EXCEPT !.step = "open"])
  /\ UNCHANGED <<rotated, content, second, written, sameSecond>>

(* os.open with O_CREAT and O_APPEND. *)
Opens(w) ==
  /\ writer[w].step = "open"
  /\ current' = IF current = 0 THEN Fresh ELSE current
  /\ Moves(w, [AtRest EXCEPT !.step = "write", !.inode = current'])
  /\ UNCHANGED <<rotated, content, second, written, sameSecond>>

Writes(w) ==
  /\ writer[w].step = "write"
  /\ written' = written + 1
  /\ content' = [content EXCEPT ![writer[w].inode] = @ \cup {written'}]
  /\ Moves(w, AtRest)
  /\ UNCHANGED <<current, rotated, second, sameSecond>>

SecondPasses ==
  /\ second < MaxSeconds
  /\ second' = second + 1
  /\ UNCHANGED <<current, rotated, content, writer, written, sameSecond>>

AuditNext ==
  \/ \E w \in Writers : Checks(w) \/ Rotates(w) \/ Touches(w) \/ Opens(w) \/ Writes(w)
  \/ SecondPasses

-----------------------------------------------------------------------------
OnDisk ==
  LET named == {current} \cup {rotated[s] : s \in 1 .. MaxSeconds}
  IN  UNION {content[i] : i \in named \ {0}}

(* Every event that was appended is in the log or in a rotated one, also when the
   log moves between the open and the write of an append; only a second rotation
   in the same second takes events away. *)
RotationKeepsEvents == ~sameSecond => OnDisk = 1 .. written

=============================================================================
