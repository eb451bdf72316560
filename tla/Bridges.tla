------------------------------ MODULE Bridges -------------------------------
(* The border router in its two forms behind one interface: the embedded     *)
(* one on a serial line, with its button, and the native one on a tunnel.    *)
(* A system has one of them; what belongs to the other never changes.        *)
EXTENDS TunBridge, EmbeddedRouter

VARIABLE build  \* which router was built

vars == <<build, interface, tunVars, buttonVars, routerVars>>

TypeOK ==
  /\ build \in {"native", "embedded"}
  /\ Len(inbound) <= LineSize /\ inputs \in 0..MaxInputs
  /\ TunTypeOK /\ ButtonTypeOK /\ RouterTypeOK

Init ==
  /\ build \in {"native", "embedded"}
  /\ inbound = <<>> /\ outbound = {} /\ inputs = 0
  /\ TunInit /\ ButtonInit /\ RouterInit
  /\ build = "embedded" => slip_config_basedelay = 0
  /\ build = "native" => press_duration = 0

Native == build = "native" /\ TunNext /\ UNCHANGED <<build, buttonVars, routerVars>>
Embedded == build = "embedded" /\ RouterNext /\ UNCHANGED <<build, tunVars>>

Next == Native \/ Embedded

Spec == Init /\ [][Next]_vars

NativeStep(A) == build = "native" /\ A /\ UNCHANGED <<build, buttonVars, routerVars>>
EmbeddedStep(A) == build = "embedded" /\ A /\ UNCHANGED <<build, tunVars>>

\* The select loop polls the tunnel and Contiki its processes for ever, time
\* passes, and the host answers what it is asked.
FairSpec ==
  /\ Spec
  /\ WF_vars(NativeStep(HandleFd)) /\ WF_vars(NativeStep(TunTick))
  /\ WF_vars(EmbeddedStep(BootRouter)) /\ WF_vars(EmbeddedStep(Activate))
  /\ WF_vars(EmbeddedStep(TimerExpired)) /\ WF_vars(EmbeddedStep(RouterTick))
  /\ WF_vars(EmbeddedStep(SlipInput))
  /\ WF_vars(EmbeddedStep(\E prefix \in Prefixes : Answer(prefix)))
-----------------------------------------------------------------------------
(* Properties *)

\* The native router reads two packets from the tunnel more than the delay of
\* its command line apart, unless the clock was set in between: the difference
\* of seconds and milliseconds is right across the end of a second.
TunnelSpaced ==
  [][build = "native" /\ Len(inbound') < Len(inbound)
       => slip_config_basedelay = 0 \/ stepped \/ gap > slip_config_basedelay]_vars

\* Every message from outside is taken: however the clock is set while the
\* native router waits, the delay ends; the embedded router never stops
\* listening.
EverythingTaken == inbound # <<>> ~> inbound = <<>> \/ ~running

\* "Prevent that by turning the radio off until we are initialized as a DAG
\* root": once the process has started (before, the radio is on) the embedded
\* router's radio is on only with a prefix from the host, and then the router is
\* a root unless rpl_set_root() has returned NULL, which the code passes over.
RadioOnlyForRoot ==
  build = "embedded" /\ pc # "boot" /\ radio => prefix_set /\ (dag # NoPrefix \/ rplFull)

\* Whatever requests and answers are lost, the embedded router ends up with a
\* prefix and its radio on, and as a root unless rpl_set_root() returned NULL.
RootInTheEnd ==
  build = "embedded" =>
    <>[](pc = "serve" /\ prefix_set /\ radio /\ (dag # NoPrefix \/ rplFull))

\* "Do not bounce packets back over SLIP if the packet was received over
\* SLIP": none is.  A node's packet is held back by that rule only while the
\* last message over the line was a packet with the node's own source, or too
\* short to hold a source.
OnlyEchoesDropped ==
  build = "embedded" =>
    /\ \A p \in outbound : p.kind = "packet" => p.from = "mesh"
    /\ ~misheld

\* Bouncing contacts do not multiply clicks: a click gives two events at most,
\* one for each edge, and repairs the DODAG no more often; the duration count
\* starts again with every edge that counts and is never ahead of the time.
ClicksCounted ==
  /\ repairs <= taken /\ taken <= 2 * clicks
  /\ press_event_counter * press_duration <= sinceEdge
=============================================================================
