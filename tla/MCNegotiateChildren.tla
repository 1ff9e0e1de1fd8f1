------------------------ MODULE MCNegotiateChildren ------------------------
EXTENDS NegotiateChildren

CONSTANTS b1, b2, b3

\* Three configured backends.
MCChildOrder == <<b1, b2, b3>>
=============================================================================
