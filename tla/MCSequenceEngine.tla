------------------------- MODULE MCSequenceEngine -------------------------
\* Two sequences for the model checker: an order that drives a port for a while,
\* and an event that waits for two levels of a port.
EXTENDS SequenceEngine

Step(kind, port, level) == [kind |-> kind, port |-> port, level |-> level]

MCNames == {"start", "coin"}
MCEventNames == {"coin"}
MCPattern == [n \in MCNames |->
  IF n = "start" THEN <<Step("set", "S", TRUE), Step("delay", "-", FALSE), Step("set", "S", FALSE)>>
                 ELSE <<Step("get", "A", TRUE), Step("get", "A", FALSE)>>]

=============================================================================
