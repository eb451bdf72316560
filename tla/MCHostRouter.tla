---------------------------- MODULE MCHostRouter ----------------------------
EXTENDS HostRouter

MCCommands ==
  {[cmd |-> "!G"], [cmd |-> "!M", mac |-> UserMac], [cmd |-> "?C"],
   [cmd |-> "!C", chan |-> 26]}
=============================================================================
