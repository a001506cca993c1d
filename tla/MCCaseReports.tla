---------------------------- MODULE MCCaseReports ----------------------------
(***************************************************************************)
(* The case of the checked instances: two records that disagree, a control *)
(* record, and an escalation about one of the records.                     *)
(***************************************************************************)
EXTENDS CaseReports, TLC

TheSources == {"bill", "ledger", "index"}
TheStatements == {"billed", "booked", "listed"}
TheTasks == {"confirm"}
TheCites == "billed" :> {"bill"} @@ "booked" :> {"ledger", "index"} @@ "listed" :> {"index"}
TheRaised == "confirm" :> {"ledger"}
TheClass == "bill" :> "Financial Record" @@ "ledger" :> "Business Record"
            @@ "index" :> "MANIFEST"
TheBasis == "bill" :> "given" @@ "ledger" :> "absent" @@ "index" :> "blank"

TheStart == [sources |-> TheSources,
             state |-> "bill" :> "INGESTED" @@ "ledger" :> "INGESTED" @@ "index" :> "INGESTED",
             propositions |-> {"billed", "booked"},
             contradictions |-> <<{"billed", "booked"}>>,
             reconciliations |-> <<>>, open |-> {}]

\* Every text a report can have.
Rows == SUBSET [statement : Statements, sources : SUBSET Sources,
                status : {"Requires review", "Corroborated", "No basis", "Working"}]
Resolutions == {"OPEN", "OPEN_AFTER_REVIEW", "CORROBORATED_RESOLUTION", "EXPLAINED",
                "REVIEWER_RESOLVED"}
Verifying == SUBSET {TheClass[s] : s \in Sources}
Issues == SUBSET [subject : SUBSET (Statements \cup Tasks), reviewed : BOOLEAN,
                  resolution : Resolutions, verifiers : Verifying]
Comparisons == SUBSET [pair : Pairs, ids : SUBSET Nat, reviewed : BOOLEAN,
                       resolution : Resolutions, verifiers : Verifying]
Operations == SUBSET [source : Sources, state : States, basis : BOOLEAN,
                      followUp : SUBSET Tasks]
Gates == {"READY FOR FINAL HUMAN APPROVAL", "REVIEW REQUIRED"}
TheTexts ==
    [operations : Operations, comparison : Comparisons, issues : Issues,
     referrals : Issues, gate : Gates]
    \cup [summary : Nat \X Nat \X Nat \X Nat, observations : Rows,
          comparisons : Comparisons, findings : Issues, referrals : Issues, gate : Gates]
    \cup [summary : Nat \X Nat \X Nat \X Nat, counts : [States -> Nat], records : Rows,
          issues : Issues, referrals : Issues, gate : Gates]
\* What reviewers write, and the one state the core moves to.
TheVerdicts == {{"verified"}, {"unresolved", "verified"}}

Symmetry == Permutations(Sessions)
=============================================================================
