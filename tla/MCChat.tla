-------------------------------- MODULE MCChat --------------------------------
(* Model-checking instance of Chat: a short prompt and one whose estimate is *)
(* below its length, as for text of which a character is several tokens.     *)
EXTENDS Chat, TLC

MCPrompts == {"p", "q"}
MCPromptTokens == [p \in MCPrompts |-> IF p = "p" THEN <<"p">> ELSE <<"q", "q", "q">>]
MCNeed == [p \in MCPrompts |-> 2]
===============================================================================
