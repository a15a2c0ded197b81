----------------------------- MODULE ReceiveMode -----------------------------
(***************************************************************************)
(* Receive mode: the listeners of core/src/transfer/receiver.rs, entered and *)
(* left by any frontend at any time, and the rules of adb for port 9876 that *)
(* receive mode, scans for devices (discovery.rs) and sends (sender.rs) each *)
(* turn to their own direction, several of them at once.                     *)
(***************************************************************************)
EXTENDS Integers, Sequences

CONSTANTS
  ReceivePorts,     \* addresses that can be listened on
  DefaultPort,      \* the default one
  MainPorts,        \* those that end in the default port number: they match each other
  Enters,           \* calls of enter_receive_mode
  Scans,            \* scans for devices and connections of sends
  MaxLeaves,        \* bound on the calls of leave_receive_mode
  MaxAcceptErrors   \* bound on the errors of accept

ASSUME ReceiveAssumption ==
  /\ DefaultPort \in MainPorts /\ MainPorts \subseteq ReceivePorts
  /\ 0 \notin Enters /\ Enters \cap Scans = {}
  /\ MaxLeaves \in Nat /\ MaxAcceptErrors \in Nat

VARIABLES
  enterPc,     \* per call: "idle", "binding", "spawned", "ok" or "failed"
  enterPort,   \* per call: its address
  listener,    \* per call: its accept loop, "none", "running", "stopping", "ended"
  listeners,   \* RECEIVE_LISTENERS: per address the call whose handle it has, or 0
  foreign,     \* addresses that another process holds
  turn,        \* per scan, send and call: the adb commands left to it
  begun,       \* scans and sends that have begun
  tunnel,      \* rules for 9876: "forward" to the phone, "reverse" from it
  clobbered,   \* history: a handle put over that of a running loop
  overlapped,  \* history: two users turned the tunnel at once, and it shows
  leaves, acceptErrors

enterVars   == <<enterPc, enterPort>>
loopVars    == <<listener, listeners, foreign, clobbered>>
tunnelVars  == <<turn, begun, tunnel, overlapped>>
countVars   == <<leaves, acceptErrors>>
receiveVars == <<enterVars, loopVars, tunnelVars, countVars>>

Turners == Enters \cup Scans

ToReceive == <<"unforward", "reverse">>
ToSend    == <<"unreverse", "forward">>

ReceiveInit ==
  /\ enterPc = [i \in Enters |-> "idle"]
  /\ enterPort = [i \in Enters |-> DefaultPort]
  /\ listener = [i \in Enters |-> "none"]
  /\ listeners = [p \in ReceivePorts |-> 0]
  /\ foreign \in SUBSET (ReceivePorts \ {DefaultPort})
  /\ turn = [u \in Turners |-> <<>>] /\ begun = {} /\ tunnel = {}
  /\ clobbered = FALSE /\ overlapped = FALSE /\ leaves = 0 /\ acceptErrors = 0

Receiving == \E p \in ReceivePorts : listeners[p] # 0

SamePort(p) == {q \in ReceivePorts : q = p \/ {p, q} \subseteq MainPorts}

\* A loop that was aborted holds its socket until the runtime drops it.
PortTaken(p) ==
  \/ p \in foreign
  \/ \E i \in Enters : enterPort[i] = p /\ listener[i] \in {"running", "stopping"}

\* Somebody else turns the tunnel.
Busy(u) == \E v \in Turners \ {u} : turn[v] # <<>>

------------------------------------------------------------------------------
(* enter_receive_mode.                                                       *)

\* Already active on this address or port: the call succeeds and changes nothing.
EnterBegins(i) ==
  /\ enterPc[i] = "idle"
  /\ \E p \in ReceivePorts :
       /\ enterPort' = [enterPort EXCEPT ![i] = p]
       /\ enterPc' = [enterPc EXCEPT ![i] =
                        IF \E q \in SamePort(p) : listeners[q] # 0 THEN "ok" ELSE "binding"]
  /\ UNCHANGED <<loopVars, tunnelVars, countVars>>

\* bind.  When the address is in use, any listener of the process will do.  Whether
\* the port on another address stands in the way is the platform's.
EnterRefused(i) ==
  /\ enterPc[i] = "binding" /\ \E q \in SamePort(enterPort[i]) : PortTaken(q)
  /\ enterPc' = [enterPc EXCEPT ![i] = IF Receiving THEN "ok" ELSE "failed"]
  /\ UNCHANGED <<enterPort, loopVars, tunnelVars, countVars>>

\* A user begins to turn the tunnel with these commands.
TurnBegins(u, commands) ==
  /\ turn' = [turn EXCEPT ![u] = commands]
  /\ overlapped' = (overlapped \/ Busy(u))

\* The loop is spawned, and on the default address the task that turns the tunnels.
SpawnsWith(i, commands) ==
  /\ enterPc[i] = "binding" /\ ~PortTaken(enterPort[i])
  /\ enterPc' = [enterPc EXCEPT ![i] = "spawned"]
  /\ listener' = [listener EXCEPT ![i] = "running"]
  /\ \/ enterPort[i] = DefaultPort /\ TurnBegins(i, commands)
     \/ enterPort[i] # DefaultPort /\ UNCHANGED <<turn, overlapped>>
  /\ UNCHANGED <<enterPort, listeners, foreign, clobbered, begun, tunnel, countVars>>

\* Mutated form: the reverse rule is set beside a forward rule.
EnterSpawnsKeepsForward(i) == SpawnsWith(i, <<"reverse">>)

\* setup_receive_adb_tunnels: remove the forward rule, set the reverse one.
EnterSpawns(i) == SpawnsWith(i, ToReceive)

\* Only now can leave_receive_mode find the loop.
EnterInserts(i) ==
  /\ enterPc[i] = "spawned"
  /\ enterPc' = [enterPc EXCEPT ![i] = "ok"]
  /\ LET old == listeners[enterPort[i]] IN
       /\ listeners' = [listeners EXCEPT ![enterPort[i]] = i]
       /\ clobbered' = (clobbered \/ (old # 0 /\ listener[old] = "running"))
  /\ UNCHANGED <<enterPort, listener, foreign, tunnelVars, countVars>>

------------------------------------------------------------------------------
(* The accept loop, and leave_receive_mode.                                  *)

\* The loop takes the entry of its address away, whose ever it is, and ends.
AcceptFails(i) ==
  /\ listener[i] = "running" /\ acceptErrors < MaxAcceptErrors
  /\ acceptErrors' = acceptErrors + 1
  /\ listeners' = [listeners EXCEPT ![enterPort[i]] = 0]
  /\ listener' = [listener EXCEPT ![i] = "ended"]
  /\ UNCHANGED <<enterVars, foreign, clobbered, tunnelVars, leaves>>

LoopEnds(i) ==
  /\ listener[i] = "stopping"
  /\ listener' = [listener EXCEPT ![i] = "ended"]
  /\ UNCHANGED <<enterVars, listeners, foreign, clobbered, tunnelVars, countVars>>

\* Mutated form: the entries go, the loops stay.
LeaveWithoutAbort(ports) ==
  /\ leaves < MaxLeaves /\ leaves' = leaves + 1
  /\ listeners' = [p \in ReceivePorts |-> IF p \in ports THEN 0 ELSE listeners[p]]
  /\ tunnel' = IF \E p \in ports : listeners[p] # 0 THEN {} ELSE tunnel
  /\ UNCHANGED <<enterVars, listener, foreign, clobbered, turn, begun, overlapped,
                 acceptErrors>>

\* When there was a listener to stop, every rule goes, also the one a send is using.
Leave(ports) ==
  /\ leaves < MaxLeaves /\ leaves' = leaves + 1
  /\ LET stopped == {listeners[p] : p \in ports} \ {0} IN
       /\ listener' = [i \in Enters |-> IF i \in stopped /\ listener[i] = "running"
                                        THEN "stopping" ELSE listener[i]]
       /\ tunnel' = IF stopped # {} THEN {} ELSE tunnel
  /\ listeners' = [p \in ReceivePorts |-> IF p \in ports THEN 0 ELSE listeners[p]]
  /\ UNCHANGED <<enterVars, foreign, clobbered, turn, begun, overlapped, acceptErrors>>

\* One address: its own listener, else those on the same port; or all of them.
LeaveOne(p) == Leave(IF listeners[p] # 0 THEN {p} ELSE SamePort(p))
LeaveAll    == Leave(ReceivePorts)

------------------------------------------------------------------------------
(* Tunnels.                                                                  *)

After(rule) == CASE rule = "unforward" -> tunnel \ {"forward"}
                 [] rule = "forward"   -> tunnel \cup {"forward"}
                 [] rule = "unreverse" -> tunnel \ {"reverse"}
                 [] rule = "reverse"   -> tunnel \cup {"reverse"}

BothDirections == {"forward", "reverse"}

\* get_devices decides by the listeners it saw at the start.
ScanBegins(u) ==
  /\ u \notin begun /\ begun' = begun \cup {u}
  /\ TurnBegins(u, IF Receiving THEN ToReceive ELSE ToSend)
  /\ UNCHANGED <<enterVars, loopVars, tunnel, countVars>>

\* prepare_send_mode, and the connecting of a send or a calibration, do not look at the
\* listeners.
SendPrepares(u) ==
  /\ u \notin begun /\ begun' = begun \cup {u}
  /\ TurnBegins(u, ToSend)
  /\ UNCHANGED <<enterVars, loopVars, tunnel, countVars>>

\* One adb command.  Who turns to the phone may poll whether it listens, again and
\* again, and is_receiver_listening sets the forward rule anew each time.  The history
\* of an overlap ends when nobody turns the tunnel and it is in one direction.
TurnStep(u) ==
  /\ turn[u] # <<>>
  /\ tunnel' = After(Head(turn[u]))
  /\ \/ turn' = [turn EXCEPT ![u] = Tail(@)]
     \/ Head(turn[u]) = "forward" /\ UNCHANGED turn
  /\ overlapped' = (overlapped /\ (tunnel' = BothDirections
                                   \/ \E v \in Turners : turn'[v] # <<>>))
  /\ UNCHANGED <<enterVars, loopVars, begun, countVars>>

------------------------------------------------------------------------------

ReceiveNext ==
  \/ \E i \in Enters : \/ EnterBegins(i)
                       \/ EnterRefused(i)
                       \/ EnterSpawns(i)
                       \/ EnterInserts(i)
                       \/ AcceptFails(i)
                       \/ LoopEnds(i)
  \/ \E p \in ReceivePorts : LeaveOne(p)
  \/ LeaveAll
  \/ \E u \in Scans : ScanBegins(u) \/ SendPrepares(u)
  \/ \E u \in Turners : TurnStep(u)

ReceiveSpec == ReceiveInit /\ [][ReceiveNext]_receiveVars

------------------------------------------------------------------------------
(* Properties.                                                               *)

\* A loop that accepts connections can be stopped: its handle is in the map, or the
\* call that made it has yet to put it there.  Otherwise the device takes files
\* until the process ends.  The exception is the hazard of receiver.rs:209: a loop
\* fails before its handle is inserted, and the dead handle replaces a live one.
ListenerCanBeStopped ==
  \A i \in Enters :
    listener[i] = "running"
      => enterPc[i] = "spawned" \/ listeners[enterPort[i]] = i \/ clobbered

\* The port never has a rule in both directions after users that came one at a
\* time, each until its last poll: "stale forward/reverse rules" (receiver.rs:787)
\* send what one side listens for back to itself.  Users at once can: nothing orders
\* their adb commands.
OneDirection == tunnel = BothDirections => overlapped
==============================================================================
