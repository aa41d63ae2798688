---------------------------- MODULE MCToolBatch ----------------------------
(***************************************************************************)
(* ToolBatch with one tool of each kind: a read-only one with two          *)
(* different arguments, a writing one, a once-per-turn one with two        *)
(* different arguments, a web search and ask_user.                         *)
(***************************************************************************)
EXTENDS ToolBatch

CONSTANTS read, write, close, search, ask, x, y

MCTools == {read, write, close, search, ask}
MCCalls == {<<read, x>>, <<read, y>>, <<write, x>>, <<close, x>>, <<close, y>>,
            <<search, x>>, <<ask, x>>}
MCFewCalls == {<<read, x>>, <<close, x>>, <<close, y>>, <<search, x>>, <<ask, x>>}
MCThreshold == [t \in MCTools |-> IF t = read THEN 1 ELSE 2]
=============================================================================
