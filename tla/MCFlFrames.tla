----------------------------- MODULE MCFlFrames -----------------------------
EXTENDS FlFrames

\* Grants to none, one and both of two stations, up to the three blocks there are.
MCDemands == {<<>>,
              <<[as |-> 1, bl |-> 1], [as |-> 2, bl |-> 2]>>,
              <<[as |-> 2, bl |-> 3]>>}
=============================================================================
