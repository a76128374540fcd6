---------------------------- MODULE MCScifFence ----------------------------
EXTENDS ScifFence

MCEndOf == [t \in {"a", "c", "b"} |-> IF t = "b" THEN "B" ELSE "A"]

RMA == [op |-> "copy"]
Wait == [op |-> "wait"]
MarkOf(peer) == [op |-> "mark", peer |-> peer]
SignalOf(peer, flags) == [op |-> "signal", peer |-> peer, flags |-> flags]

Plan(a, c, b, close, gone) ==
    [calls |-> [t \in {"a", "c", "b"} |-> CASE t = "a" -> a [] t = "c" -> c [] t = "b" -> b],
     close |-> close, gone |-> gone]

Own == FALSE
Peers == TRUE

MCScenarios ==
    {Plan(<<MarkOf(Peers), Wait>>, <<>>, <<RMA, MarkOf(Own)>>, {"A", "B"}, FALSE),
     Plan(<<MarkOf(Peers), Wait>>, <<MarkOf(Peers), Wait>>, <<RMA>>, {}, FALSE),
     Plan(<<MarkOf(Peers), Wait>>, <<>>, <<RMA>>, {"A", "B"}, TRUE),
     Plan(<<MarkOf(Peers), Wait>>, <<>>, <<MarkOf(Peers), Wait>>, {"A", "B"}, FALSE),
     Plan(<<SignalOf(Peers, Flags)>>, <<>>, <<RMA>>, {"B"}, TRUE),
     Plan(<<SignalOf(Peers, {"REMOTE"})>>, <<SignalOf(Peers, {"LOCAL"})>>, <<RMA>>, {"B"}, FALSE),
     Plan(<<RMA, MarkOf(Own), Wait>>, <<SignalOf(Own, Flags)>>, <<>>, {"A", "B"}, FALSE)}
=============================================================================
