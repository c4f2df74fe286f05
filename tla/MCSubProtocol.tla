--------------------------- MODULE MCSubProtocol ---------------------------
(***************************************************************************)
(* Small instances of SubProtocol.                                         *)
(***************************************************************************)
EXTENDS SubProtocol, Wire

MCTwo == {"c1", "c2"}
MCThree == {"c1", "c2", "c3"}

MCNoLines == [c \in Conns |-> 0]
MCFirstTwice == [c \in Conns |-> IF c = "c1" THEN 2 ELSE 0]

MCServerOnly == << "Server" >>
MCServerName == {"Server"}
MCNoModules == {}

MCModList == << "Server", "Navigation" >>
MCModules == {"Server", "Navigation"}
MCUpdateModules == {"Navigation"}

MCReports == {Report("Navigation", "ReportVectors", "some")}

\* One line for the module, one for a module nobody has.
MCOneLine == {[Module |-> "Navigation"]}
MCTwoLines == {[Module |-> "Navigation"], [Module |-> "Unknown"]}

\* A line as it is written: with CR LF, or with LF.
MCWritten ==
    [l \in Lines |-> IF l.Module = "Unknown" THEN << Text, Text, End, End >>
                     ELSE << Text, End >>]
=============================================================================
