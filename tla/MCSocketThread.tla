--------------------------- MODULE MCSocketThread ---------------------------
(* Instances of SocketThread for TLC: C connects to S.                      *)
EXTENDS SocketThread

CONSTANTS C, S

CS == {C, S}
Size11 == (C :> 1) @@ (S :> 1)
Size12 == (C :> 1) @@ (S :> 2)
Size21 == (C :> 2) @@ (S :> 1)

\* One value for the bits of all ids; two at C or at S, so that a table index that is used again
\* may get the same id or another one.
OneId  == [h \in CS |-> {1}]
TwoAtC == (C :> {0, 1}) @@ (S :> {1})
TwoAtS == (C :> {1}) @@ (S :> {0, 1})

Harmless == {<<"on_connection", "close_session">>}
CloseInDisconnection == {<<"on_disconnection", "close_session">>}
CreateInConnection == {<<"on_connection", "create_session">>}
=============================================================================
