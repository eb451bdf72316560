-------------------------- MODULE MCRadioSessions --------------------------
EXTENDS RadioSessions
=============================================================================
