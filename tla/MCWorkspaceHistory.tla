------------------------- MODULE MCWorkspaceHistory --------------------------
(* A radio, a second radio beside it, and the node of the first with its    *)
(* radio released.                                                          *)
EXTENDS WorkspaceHistory

OneRadio == [held |-> {"a"}, free |-> {}, look |-> 1]
TwoRadios == [held |-> {"a", "b"}, free |-> {}, look |-> 1]
Released == [held |-> {}, free |-> {"a"}, look |-> 1]
Holding == {OneRadio, TwoRadios}
Arrangements == Holding \cup {Released}
=============================================================================
