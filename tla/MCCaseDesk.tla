------------------------------ MODULE MCCaseDesk ------------------------------
(***************************************************************************)
(* Instances of the portal's desk for TLC.                                 *)
(***************************************************************************)
EXTENDS CaseDesk, TLC

\* Of the two users one works for the firm in either front; the other is a client
\* or its analyst.
TheCasts == {cast \in [Users -> GivenRoles] :
    {cast[u] : u \in Users} \in {{"owner", "client"}, {"owner", "analyst"},
                               {"admin", "client"}}}
Symmetry == Permutations(Users)
=============================================================================
