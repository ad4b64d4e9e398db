----------------------------- MODULE MCNetwork -----------------------------
\* The network with one channel, for the model checker.
EXTENDS Network

OneChannel == <<"validation">>

=============================================================================
