---------------------------- MODULE MCWorkspace ----------------------------
(* Instances of Workspace for TLC.                                         *)
EXTENDS Workspace, TLC

CONSTANTS i1, i2, a1, a2, open, dnc, stop

Row(i, a, s) == [id |-> i, address |-> a, contact |-> s, restricted |-> FALSE]

\* A record at another address, another source for the same property, a known
\* record that says less beside another source, one record for two properties.
SomeFiles ==
  { <<Malformed, [Row(i1, a2, dnc) EXCEPT !.restricted = TRUE]>>,
    <<Row(i2, a1, stop)>>,
    <<Row(i1, a1, Blank), Row(i2, a1, open)>>,
    <<Row(i2, a1, open), Row(i2, a2, open)>> }

\* A parcel the workspace may know, under another record, and another one.
SomeStagedRows == {<<Row(i2, a1, Blank), Row(i1, a2, Blank)>>}

SomeBackups == {StoredWorkspace(4, <<i2, 1>> :> NewDeal(Row(i2, a1, dnc)), {})}

Exhibit == [id |-> 0, kind |-> "exhibit", deal |-> <<i1, 1>>, refs |-> {}]

\* An empty document, and one with a deal that has an exhibit; a legacy deal whose
\* status the migration recognizes, and one whose status it does not.
SomeStarts ==
  LET empty    == StoredWorkspace(1, <<>>, {})
      one      == StoredWorkspace(1, <<i1, 1>> :> NewDeal(Row(i1, a1, open)), {Exhibit})
      stopped  == [address |-> a1, contact |-> stop]
      unstated == [address |-> a2, contact |-> dnc]
  IN  {<<Absent, Absent>>, <<Absent, unstated>>,
       <<Damaged, Absent>>, <<Damaged, stopped>>, <<empty, Absent>>, <<one, stopped>>}

Symmetry == Permutations(Tabs)
=============================================================================
