----------------------------- MODULE TunBridge ------------------------------
(* tun-bridge.c of the native border router: packets are read from the       *)
(* tunnel no sooner than basedelay milliseconds after each other, measured   *)
(* with the wall clock, which may be set meanwhile.  Of the clock only its   *)
(* distance to the start of the delay is kept: sec counts from the second    *)
(* in which the delay started.                                               *)
EXTENDS RplInterface, SlipConfig

CONSTANTS
  Arguments,  \* command lines: options and number of operands
  Second,     \* milliseconds in a second
  MaxSec,     \* the seconds after which the clock stands still (model only)
  MaxSets     \* bound on how often the clock is set (model only)

ASSUME ClockAssumption ==
  Second \in Nat \ {0} /\ MaxSec \in Nat \ {0} /\ MaxSets \in Nat
ASSUME ArgumentsAssumption ==
  \A a \in Arguments : \A i \in DOMAIN a.options :
    a.options[i].letter = "d" => a.options[i].arg \in Seq(Int)

VARIABLES
  running,         \* the program has not ended with an error
  slip_config_basedelay, delaymsec,
  delaystartmsec,  \* with delaystartsec, where the clock's sec is 0
  clock,           \* gettimeofday(): seconds and milliseconds
  gap,             \* history: milliseconds that passed since the last read
  sets,            \* history: how often the clock was set
  stepped          \* history: it was set since the last read

tunVars == <<running, slip_config_basedelay, delaymsec, delaystartmsec, clock,
             gap, sets, stepped>>

Clock == [sec : -1..MaxSec, msec : 0..(Second - 1)]
MaxGap == MaxSec * Second

TunTypeOK ==
  /\ running \in BOOLEAN
  /\ slip_config_basedelay \in 0..(UInt16 - 1)
  /\ delaymsec \in {0, slip_config_basedelay}
  /\ delaystartmsec \in 0..(Second - 1)
  /\ clock \in Clock
  /\ gap \in 0..MaxGap /\ sets \in 0..MaxSets /\ stepped \in BOOLEAN

\* tun_init() after the command line was read without complaint.
TunInit ==
  /\ running = TRUE
  /\ \E a \in Arguments :
       /\ ~Refused(a.options, a.operands)
       /\ slip_config_basedelay = Basedelay(a.options)
  /\ delaymsec = 0 /\ delaystartmsec = 0
  /\ clock = [sec |-> 0, msec |-> 0]
  /\ gap = MaxGap /\ sets = 0 /\ stepped = FALSE
-----------------------------------------------------------------------------
\* Mutant: the seconds are forgotten in the difference.
ElapsedMsec == clock.msec - delaystartmsec

\* dmsec of handle_fd().
Elapsed == clock.sec * Second + clock.msec - delaystartmsec

DelayOver == Elapsed < 0 \/ Elapsed > delaymsec

\* delaymsec as handle_fd() leaves it before it looks at the tunnel.
DelayLeft == IF delaymsec # 0 /\ DelayOver THEN 0 ELSE delaymsec

\* output(): tun_output() writes to the tunnel whatever the stack hands it, and
\* a failed write ends the program.
TunOutput(p) ==
  \/ outbound' = outbound \cup {p} /\ UNCHANGED running
  \/ running' = FALSE /\ UNCHANGED outbound

\* tcpip_input(): into the mesh, or to the fallback interface.
TunForward(p) == IF p.routed THEN UNCHANGED <<outbound, running>> ELSE TunOutput(p)

\* What handle_fd() does with a packet in the tunnel and no delay.
ReadPacket ==
  /\ TunForward(Head(inbound))
  /\ inbound' = Tail(inbound)
  /\ delaymsec' = slip_config_basedelay
  /\ delaystartmsec' = clock.msec
  /\ clock' = [clock EXCEPT !.sec = 0]
  /\ gap' = 0 /\ stepped' = FALSE
  /\ UNCHANGED <<inputs, slip_config_basedelay, sets>>

\* read() fails, which ends the program.
ReadFails ==
  /\ running' = FALSE
  /\ delaymsec' = 0
  /\ UNCHANGED <<interface, slip_config_basedelay, delaystartmsec, clock, gap, sets,
                 stepped>>

\* Mutant: the start of the delay is taken anew with every call.
HandleFdRestarts ==
  /\ running
  /\ IF DelayLeft = 0 /\ inbound # <<>>
     THEN ReadPacket \/ ReadFails
     ELSE /\ delaymsec' = DelayLeft
          /\ delaystartmsec' = clock.msec
          /\ clock' = [clock EXCEPT !.sec = 0]
          /\ UNCHANGED <<interface, running, slip_config_basedelay, gap, sets, stepped>>

\* handle_fd(), called whenever select() returns.
HandleFd ==
  /\ running
  /\ IF DelayLeft = 0 /\ inbound # <<>>
     THEN ReadPacket \/ ReadFails
     ELSE /\ delaymsec' = DelayLeft
          /\ UNCHANGED <<interface, running, slip_config_basedelay, delaystartmsec,
                         clock, gap, sets, stepped>>

\* A packet of a node for an address outside.
TunFromMesh(src) ==
  /\ running /\ inputs < MaxInputs
  /\ inputs' = inputs + 1
  /\ TunOutput(Packet("mesh", src, FALSE))
  /\ UNCHANGED <<inbound, slip_config_basedelay, delaymsec, delaystartmsec, clock,
                 gap, sets, stepped>>

\* A millisecond passes.
TunTick ==
  /\ clock' = IF clock.msec < Second - 1 THEN [clock EXCEPT !.msec = @ + 1]
              ELSE IF clock.sec < MaxSec THEN [sec |-> clock.sec + 1, msec |-> 0]
              ELSE clock
  /\ gap' = IF gap < MaxGap THEN gap + 1 ELSE gap
  /\ UNCHANGED <<interface, running, slip_config_basedelay, delaymsec,
                 delaystartmsec, sets, stepped>>

\* Somebody sets the clock, back or ahead.
ClockSet ==
  /\ sets < MaxSets
  /\ sets' = sets + 1
  /\ clock' \in Clock
  /\ stepped' = TRUE
  /\ UNCHANGED <<interface, running, slip_config_basedelay, delaymsec,
                 delaystartmsec, gap>>

TunNext ==
  \/ HandleFd \/ TunTick \/ ClockSet
  \/ \E src \in Nodes : TunFromMesh(src)
  \/ \E routed \in BOOLEAN : Outside(Host, routed) /\ UNCHANGED tunVars
=============================================================================
