------------------------------- MODULE MCPair -------------------------------
EXTENDS OcaPair

MCBudgets == {[candles |-> 2, armed |-> 1, overfills |-> 0, troubles |-> 0],
              [candles |-> 1, armed |-> 2, overfills |-> 1, troubles |-> 0],
              [candles |-> 1, armed |-> 2, overfills |-> 0, troubles |-> 1]}
MCRearmed == {[candles |-> 2, armed |-> 2, overfills |-> 0, troubles |-> 0]}
=============================================================================
