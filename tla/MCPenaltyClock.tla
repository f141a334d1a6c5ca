--------------------------- MODULE MCPenaltyClock ---------------------------
(* Values TLC checks PenaltyClock with. *)
EXTENDS PenaltyClock

\* Two weeks from a Monday, and the weekends around their end.
MCWeekend == {6, 7, 13, 14, 20, 21}

\* A Friday holiday; the Monday after it and a second form in the next
\* release; the Thursday before in the third.
MCReleases == << [holidays |-> {5}, codes |-> {"1601EQ"}],
                 [holidays |-> {5, 8}, codes |-> {"1601EQ", "1702Q"}],
                 [holidays |-> {4, 5, 8}, codes |-> {"1601EQ", "1702Q"}] >>

MCForms == {"1601EQ", "1702Q"}
MCReturns == {"1601EQ"}
MCDue == [f \in MCReturns |-> 5]
MCTax == [f \in MCReturns |-> 5000]
MCGross == [f \in MCReturns |-> NoGross]

\* The retired desktop's override of the Monday for one form, or none.
MCSaved == {[since |-> 0, day |-> 8, to |-> 11, codes |-> {"1702Q"}]}

\* BIR extends the first form's deadline for this taxpayer; a small taxpayer.
MCProfiles == {[extensions |-> <<>>, small |-> TRUE],
               [extensions |-> << [since |-> 0, day |-> 5, to |-> 10, codes |-> {"1601EQ"}] >>,
                small |-> FALSE]}

=============================================================================
