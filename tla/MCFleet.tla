------------------------------ MODULE MCFleet ------------------------------
EXTENDS Fleet
\* One request per worker keeps loads small; a delay of 0 lets the loop drain
\* on every tick.
Min0 == [min |-> 0, max |-> 1, target |-> 1, util |-> 70, delay |-> 900]
Min1 == [min |-> 1, max |-> 2, target |-> 1, util |-> 70, delay |-> 0]
MCPolicies == {Min0, Min1}
MCMin1 == {Min1}
=============================================================================
