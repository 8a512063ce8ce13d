----------------------------- MODULE MCSendWBGL -----------------------------
EXTENDS SendInvariants
=============================================================================
