--------------------------- MODULE MCDecodeSession ---------------------------
(* Model-checking instance of DecodeSession.                                *)
EXTENDS DecodeSession, TLC

MCLayers == {"global", "local"}
MCWindow == [l \in MCLayers |-> IF l = "global" THEN 0 ELSE 2]
MCTokens == {"a", "b", "end"}
MCPrompts == {<<"a">>, <<"b", "a">>, <<"b", "b", "a">>}
==============================================================================
