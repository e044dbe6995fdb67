--------------------------- MODULE MCInotifyDtree ---------------------------
EXTENDS InotifyDtree
MCStart == [d \in Dirs |-> IF d = "d1" THEN <<"r", "a">> ELSE Unused]
MCCommands == {<<"a", <<"r", "a">>>>, <<"z", <<"r", "a">>>>, <<"0", << >>>>, <<"q", << >>>>, <<"l", << >>>>}
=============================================================================
