---------------------------- MODULE MCWebServer ----------------------------
EXTENDS WebServer

\* Two neighbours, of which the first fills the buffer.
MCNbrs == <<"n1", "n2">>
MCRoutes == <<"r1", "r2">>
MCSensors == <<"s1">>
=============================================================================
