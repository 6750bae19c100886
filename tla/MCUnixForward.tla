--------------------------- MODULE MCUnixForward ---------------------------
(* UnixForward for TLC.  Five guest paths, 3 the agent's; 4 and 5 are two   *)
(* names of one file.  The lists of rules have a rule before, at and after  *)
(* the agent's path, blank and malformed ones, a path twice, and more than  *)
(* there are ports.  PATCH adds a path in front of the others, in between,  *)
(* or gives an old one another host path.                                   *)
EXTENDS UnixForward, TLC

Rule(g, h) == [guest |-> g, host |-> h]

MCFileOf == [g \in 1 .. 5 |-> IF g = 5 THEN 4 ELSE g]

MCSpecLists ==
    {<<>>,
     <<Rule(4, "h4"), Blank, Rule(2, "h2")>>,
     <<Rule(2, "h2"), Rule(4, "h4"), Rule(5, "h5")>>,
     <<Rule(3, "h3"), Rule(2, "h2")>>,
     <<Rule(3, "agent"), Rule(4, "h4")>>,
     <<Rule(2, "h2"), Rule(2, "h4")>>,
     <<Rule(2, "h2"), Malformed>>,
     <<Rule(1, "h1"), Rule(2, "h2"), Rule(4, "h4"), Rule(5, "h5")>>}

MCPatches == {1 :> "p1", 3 :> "p3", 4 :> "p4"}

=============================================================================
