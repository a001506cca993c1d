-------------------------- MODULE MCRecordsIntake --------------------------
(***************************************************************************)
(* The uploads of the checked instances.                                   *)
(***************************************************************************)
EXTENDS RecordsIntake, TLC

CONSTANTS first, second, third, scan, p1, p2

\* A photograph: no pages and no text, graded by its name.
Photo == [file |-> "photo", pages |-> 0, parts |-> {},
          named |-> "AUTO_REGISTER_READY", packet |-> FALSE,
          read |-> "AUTO_REGISTER_READY"]

\* Two documents in one file whose name does not say so.
Scan == [file |-> "scan", pages |-> 2, parts |-> {{1}, {2}},
         named |-> "AUTO_REGISTER_READY", packet |-> FALSE,
         read |-> "NEEDS_CONFIRMATION"]

\* Copies of the photograph, and the scan.
MixedDoc == [u \in Uploads |-> IF u = scan THEN Scan ELSE Photo]

\* Those sent with the intake form are alike, and so are the invocations.
Symmetry == Permutations(Early \ {scan}) \cup Permutations(Processors)
=============================================================================
