----------------------------- MODULE MCRateLimit -----------------------------
(* RateLimit with small limits; Unit milliseconds are the minute.            *)
EXTENDS RateLimit

OneTool == {"merchant_status"}
SameTool == [c \in Callers |-> "merchant_status"]
OnePerMinute == [t \in OneTool |-> 1]
Raise == {9}
NoEdits == {}
=============================================================================
