------------------------- MODULE ReportPublication --------------------------
(***************************************************************************)
(* What the report of a scan promises its readers: a file is stored under  *)
(* the scan's name, and the committed result of the scan refers to it.     *)
(* Storing again replaces the file, and a reference is only ever published *)
(* to the file that is stored at that moment.                              *)
(***************************************************************************)
EXTENDS Naturals

CONSTANT Scans

VARIABLES
  file,   \* file[s]: the edition of the report stored for s, 0 before the first
  ref     \* ref[s]: the edition that the committed result of s describes

Init ==
  /\ file = [s \in Scans |-> 0]
  /\ ref = [s \in Scans |-> 0]

Store(s) ==
  /\ file' = [file EXCEPT ![s] = @ + 1]
  /\ UNCHANGED ref

Publish(s) ==
  /\ file[s] # 0
  /\ ref' = [ref EXCEPT ![s] = file[s]]
  /\ UNCHANGED file

Next == \E s \in Scans : Store(s) \/ Publish(s)

Spec == Init /\ [][Next]_<<file, ref>>

=============================================================================
