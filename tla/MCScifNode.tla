----------------------------- MODULE MCScifNode -----------------------------
EXTENDS ScifNode

Removal(n, r) == <<"remove", n, r>>
Connect(n, r) == <<"connect", n, r>>
Info(n) == <<"info", n, Host>>

Up(cards, calls) == [cards |-> cards, up |-> TRUE, calls |-> calls]
Starting(cards, calls) == [cards |-> cards, up |-> FALSE, calls |-> calls]

\* A removal that meets the set-up, a caller, or another removal.
MCScenarios ==
    {Starting(2, {Removal(1, 0)}), Starting(2, {Removal(0, 1)}),
     Up(2, {Removal(1, 0), Connect(2, 1)}), Up(2, {Removal(1, 0), Connect(0, 1)}),
     Up(2, {Removal(1, 0), Info(1)}),
     Up(1, {Removal(1, 0), Connect(0, 1)}), Up(1, {Removal(1, 0), Connect(1, 0)}),
     Up(1, {Removal(0, 1), Connect(0, 1)}), Up(1, {Removal(0, 1), Connect(1, 0)}),
     Up(1, {Removal(0, 1), Removal(1, 0)})}
=============================================================================
