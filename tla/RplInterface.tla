---------------------------- MODULE RplInterface ----------------------------
(* What the two forms of the border router have in common.  Both define      *)
(* rpl_interface, the interface that the IP stack falls back on for packets  *)
(* it has no route for: slip-bridge.c of the embedded router leads to a      *)
(* serial line, tun-bridge.c of the native one to a tunnel.  The same line   *)
(* or tunnel brings packets from outside, which enter the stack.             *)
EXTENDS Integers, Sequences

CONSTANTS
  Host,       \* the address of a host outside
  Nodes,      \* the addresses of the nodes in the mesh
  LineSize,   \* messages that wait outside
  MaxInputs   \* bound on what happens outside (model only)

ASSUME AddressesAssumption == Host \notin Nodes
ASSUME LineAssumption == LineSize \in Nat \ {0} /\ MaxInputs \in Nat

VARIABLES
  inbound,   \* messages from outside that were not taken yet
  outbound,  \* history: what the router wrote to the outside
  inputs      \* history: packets, commands and clicks so far

interface == <<inbound, outbound, inputs>>

Addresses == Nodes \cup {Host}

\* A packet from outside or from the mesh, with or without a route into the
\* mesh for its destination.
Packet(from, src, routed) ==
  [kind |-> "packet", from |-> from, src |-> src, routed |-> routed]

\* A packet appears outside.  Its source is a host, or a node whose packet
\* went out and is sent back by a host that routes the mesh's prefix here.
Outside(src, routed) ==
  /\ inputs < MaxInputs /\ Len(inbound) < LineSize
  /\ inputs' = inputs + 1
  /\ inbound' = Append(inbound, Packet("outside", src, routed))
  /\ UNCHANGED outbound
=============================================================================
