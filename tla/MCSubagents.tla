---------------------------- MODULE MCSubagents ----------------------------
EXTENDS Subagents, TLC

CONSTANTS a, b, c, s1, s2, route2, chat1, chat2

\* chat1 names its own session (a thread); chat2's tenant gives it another key.
MCParent == (a :> Root) @@ (b :> a) @@ (c :> Root)
MCDepth == (a :> 1) @@ (b :> 2) @@ (c :> 1)
MCSessionOf == (a :> s1) @@ (b :> s1) @@ (c :> s2)
MCChatOf == (a :> chat1) @@ (b :> chat1) @@ (c :> chat2)
MCKeyOf == (chat1 :> s1) @@ (chat2 :> route2)
=============================================================================
