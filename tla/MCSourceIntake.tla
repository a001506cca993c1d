---------------------------- MODULE MCSourceIntake ----------------------------
(***************************************************************************)
(* The submissions of the checked instances.                               *)
(***************************************************************************)
EXTENDS SourceIntake, TLC

File(doc) == [doc |-> doc, within |-> 0, zip |-> FALSE, bytes |-> 1, flawed |-> FALSE]
Zip == [doc |-> "packed", within |-> 0, zip |-> TRUE, bytes |-> 1, flawed |-> FALSE]
In(part, a) == [part EXCEPT !.within = a]

\* A record, a note, a scan and a package, which have no extractor.
TheDocs == {"record", "note", "scan", "packed"}
TheLines == "record" :> <<"paid", "", "paid", "due", "late">> @@ "note" :> <<"due">>
            @@ "scan" :> <<>> @@ "packed" :> <<>>
TheReadable == {"record", "note"}

\* An archive in an archive; one whose inner archive holds a program; an
\* e-mail with that one and a scan attached.
Package == <<Zip, In(Zip, 1), In(File("note"), 2)>>
Unsafe == <<Zip, In(Zip, 1), In([File("note") EXCEPT !.flawed = TRUE], 2)>>

TheSubmissions == {"file", "package", "unsafe", "email", "photo"}
TheKind == "file" :> "link" @@ "package" :> "device" @@ "unsafe" :> "device"
           @@ "email" :> "email" @@ "photo" :> "mobile"
TheUnits == "file" :> <<<<File("record")>>>> @@ "package" :> <<Package>>
            @@ "unsafe" :> <<Unsafe>>
            @@ "email" :> <<<<File("note")>>, Unsafe, <<File("scan")>>>>
            @@ "photo" :> <<Package>>

Symmetry == Permutations(Cases)
=============================================================================
