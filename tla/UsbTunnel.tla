------------------------------ MODULE UsbTunnel ------------------------------
(***************************************************************************)
(* The USB transport: core/src/transport/usb/transport.rs over the commands  *)
(* of usb/adb.rs.  Several transports of one process go through the same     *)
(* device, and so through one table of adb rules, which each of them sets up *)
(* and removes for itself.                                                   *)
(***************************************************************************)
EXTENDS Integers, FiniteSets

CONSTANTS
  UsbSlots,      \* transports of the process
  UsbPolls,      \* polls of one reconnect (max_attempts)
  MaxUsbOpens,   \* bound on the transports opened
  MaxUnplugs     \* bound on the times the cable is pulled

ASSUME UsbAssumption ==
  /\ IsFiniteSet(UsbSlots) /\ UsbPolls \in Nat \ {0}
  /\ MaxUsbOpens \in Nat /\ MaxUnplugs \in Nat

VARIABLES
  adbRules,   \* rules of the device: forward 9876, reverse 9876, forward 9875
  attached,   \* the device is there, in state "device"
  usb,        \* per slot: the transport, NoUsb when there is none
  stray,      \* history: a rule that a failed connect or a reconnect left behind
  usbOpens, unplugs

usbVars == <<adbRules, attached, usb, stray, usbOpens, unplugs>>

NoUsb == [phase |-> "none", status |-> "Disconnected", reader |-> FALSE,
          writer |-> FALSE, serial |-> FALSE, cleaned |-> FALSE,
          shared |-> FALSE, halves |-> {}, polls |-> 0]

Opened(serial) ==
  [NoUsb EXCEPT !.phase = "open", !.status = "Connected", !.reader = TRUE,
                !.writer = TRUE, !.serial = serial]

UsbInit ==
  /\ adbRules \in SUBSET {"reverse"}     \* left by a receive mode before
  /\ attached \in BOOLEAN
  /\ usb = [u \in UsbSlots |-> NoUsb]
  /\ stray = FALSE /\ usbOpens = 0 /\ unplugs = 0

------------------------------------------------------------------------------
(* adb.  A command for a device that is not there does nothing.              *)

SetUpForward(rules) == IF attached THEN rules \cup {"forward"} ELSE rules

\* A rule that is removed is nobody's leftover any more.
RulesBecome(rules) ==
  /\ adbRules' = rules
  /\ stray' = (stray /\ "forward" \in rules)

Unplug ==
  /\ attached /\ unplugs < MaxUnplugs
  /\ attached' = FALSE /\ unplugs' = unplugs + 1
  /\ RulesBecome({})
  /\ UNCHANGED <<usb, usbOpens>>

PlugIn ==
  /\ ~attached
  /\ attached' = TRUE
  /\ UNCHANGED <<adbRules, usb, stray, usbOpens, unplugs>>

\* cleanup_tunnel of the transport and of its write half: the first of them
\* to come swaps the flag they share.  Only the transport knows of 9875.
AfterCleanup(t, rules) ==
  IF t.cleaned \/ ~t.serial THEN rules
  ELSE rules \ (IF t.phase = "split" THEN {"forward", "reverse"}
                ELSE {"forward", "reverse", "control"})

------------------------------------------------------------------------------
(* Opening.                                                                  *)

\* connect: with a device, a rule and looks for the receiver; without one, whatever
\* listens on the port.
ConnectBegins(u) ==
  /\ usb[u].phase = "none" /\ usbOpens < MaxUsbOpens
  /\ usbOpens' = usbOpens + 1
  /\ usb' = [usb EXCEPT ![u] = [NoUsb EXCEPT !.phase = "connecting", !.serial = attached]]
  /\ RulesBecome(SetUpForward(adbRules))
  /\ UNCHANGED <<attached, unplugs>>

\* is_receiver_listening sets the rule again before it looks.
ConnectPolls(u) ==
  /\ usb[u].phase = "connecting" /\ usb[u].serial
  /\ RulesBecome(SetUpForward(adbRules))
  /\ UNCHANGED <<attached, usb, usbOpens, unplugs>>

ConnectEnds(u) ==
  /\ usb[u].phase = "connecting"
  /\ \/ /\ usb' = [usb EXCEPT ![u] = Opened(usb[u].serial)]
        /\ UNCHANGED stray
     \/ \* no transport is made, so nothing ever removes the rule
        /\ usb' = [usb EXCEPT ![u] = NoUsb]
        /\ stray' = (stray \/ "forward" \in adbRules)
  /\ UNCHANGED <<adbRules, attached, usbOpens, unplugs>>

\* discover_and_connect: needs a device, and the rule.
DiscoverBegins(u) ==
  /\ usb[u].phase = "none" /\ usbOpens < MaxUsbOpens /\ attached
  /\ usbOpens' = usbOpens + 1
  /\ \/ /\ usb' = [usb EXCEPT ![u].phase = "greeting", ![u].serial = TRUE]
        /\ RulesBecome(SetUpForward(adbRules))
     \/ UNCHANGED <<usb, adbRules, stray>>      \* adb forward failed
  /\ UNCHANGED <<attached, unplugs>>

DiscoverSucceeds(u) ==
  /\ usb[u].phase = "greeting"
  /\ usb' = [usb EXCEPT ![u] = Opened(TRUE)]
  /\ UNCHANGED <<adbRules, attached, stray, usbOpens, unplugs>>

\* Mutated form: a handshake that fails leaves the rule.
DiscoverFailsKeepsRule(u) ==
  /\ usb[u].phase = "greeting"
  /\ usb' = [usb EXCEPT ![u] = NoUsb]
  /\ UNCHANGED <<adbRules, attached, stray, usbOpens, unplugs>>

\* Connection refused, a failed write, a timeout, another message, the end of the
\* stream: each removes the rule.
DiscoverFails(u) ==
  /\ usb[u].phase = "greeting"
  /\ usb' = [usb EXCEPT ![u] = NoUsb]
  /\ RulesBecome(adbRules \ {"forward"})
  /\ UNCHANGED <<attached, usbOpens, unplugs>>

------------------------------------------------------------------------------
(* reconnect: polls discover_and_connect and moves the parts of the transport *)
(* it returns into this one.                                                  *)

ReconnectBegins(u) ==
  /\ usb[u].phase = "open"
  /\ usb' = [usb EXCEPT ![u].phase = "reconnecting", ![u].status = "Connecting",
                        ![u].polls = 0]
  /\ UNCHANGED <<adbRules, attached, stray, usbOpens, unplugs>>

\* The flag of the cleanup is not reset: after a close, nobody removes the rule.
ReconnectSucceeds(u) ==
  /\ usb[u].phase = "reconnecting" /\ usb[u].polls < UsbPolls /\ attached
  /\ usb' = [usb EXCEPT ![u].phase = "open", ![u].status = "Connected",
                        ![u].reader = TRUE, ![u].writer = TRUE, ![u].serial = TRUE]
  /\ adbRules' = SetUpForward(adbRules)
  /\ stray' = (stray \/ usb[u].cleaned)
  /\ UNCHANGED <<attached, usbOpens, unplugs>>

\* A poll that finds no device, or whose handshake fails after the rule was set.
ReconnectFails(u) ==
  /\ usb[u].phase = "reconnecting"
  /\ LET n == usb[u].polls + 1 IN
       usb' = [usb EXCEPT ![u].polls = n,
                          ![u].phase = IF n = UsbPolls THEN "open" ELSE "reconnecting",
                          ![u].status = IF n = UsbPolls THEN "Failed" ELSE "Connecting"]
  /\ \/ attached /\ RulesBecome(adbRules \ {"forward"})
     \/ UNCHANGED <<adbRules, stray>>           \* no device, or no rule was set
  /\ UNCHANGED <<attached, usbOpens, unplugs>>

------------------------------------------------------------------------------
(* The transport in one piece.                                               *)

\* Without error nothing changes; any write or flush error ends the transport.
UsbSend(u) ==
  /\ usb[u].phase = "open" /\ usb[u].status = "Connected" /\ usb[u].writer
  /\ usb' = [usb EXCEPT ![u].status = "Disconnected"]
  /\ UNCHANGED <<adbRules, attached, stray, usbOpens, unplugs>>

\* So does the end of the stream.
UsbReceive(u) ==
  /\ usb[u].phase = "open" /\ usb[u].status = "Connected" /\ usb[u].reader
  /\ usb' = [usb EXCEPT ![u].status = "Disconnected"]
  /\ UNCHANGED <<adbRules, attached, stray, usbOpens, unplugs>>

UsbClose(u) ==
  /\ usb[u].phase = "open"
  /\ usb' = [usb EXCEPT ![u].status = "Disconnected", ![u].writer = FALSE,
                        ![u].cleaned = TRUE]
  /\ RulesBecome(AfterCleanup(usb[u], adbRules))
  /\ UNCHANGED <<attached, usbOpens, unplugs>>

UsbDrop(u) ==
  /\ usb[u].phase = "open"
  /\ usb' = [usb EXCEPT ![u] = NoUsb]
  /\ RulesBecome(AfterCleanup(usb[u], adbRules))
  /\ UNCHANGED <<attached, usbOpens, unplugs>>

------------------------------------------------------------------------------
(* The halves.                                                               *)

\* split_boxed: the box is dropped at its end, so the rules go while the halves
\* are about to be used.
UsbSplit(u) ==
  /\ usb[u].phase = "open"
  /\ usb' = [usb EXCEPT ![u].phase = "split", ![u].halves = {"write", "read"},
                        ![u].shared = usb[u].status = "Connected", ![u].cleaned = TRUE]
  /\ RulesBecome(AfterCleanup(usb[u], adbRules))
  /\ UNCHANGED <<attached, usbOpens, unplugs>>

\* An error of either half stops both.
HalfFails(u) ==
  /\ usb[u].phase = "split" /\ usb[u].shared
  /\ \/ "write" \in usb[u].halves /\ usb[u].writer
     \/ "read" \in usb[u].halves /\ usb[u].reader
  /\ usb' = [usb EXCEPT ![u].shared = FALSE]
  /\ UNCHANGED <<adbRules, attached, stray, usbOpens, unplugs>>

WriteHalfClose(u) ==
  /\ usb[u].phase = "split" /\ "write" \in usb[u].halves /\ usb[u].writer
  /\ usb' = [usb EXCEPT ![u].shared = FALSE, ![u].writer = FALSE, ![u].cleaned = TRUE]
  /\ RulesBecome(AfterCleanup(usb[u], adbRules))
  /\ UNCHANGED <<attached, usbOpens, unplugs>>

DropHalf(u) ==
  /\ usb[u].phase = "split"
  /\ \E h \in usb[u].halves :
       /\ usb' = [usb EXCEPT ![u] = IF usb[u].halves = {h} THEN NoUsb
                                    ELSE [usb[u] EXCEPT !.halves = @ \ {h},
                                                         !.cleaned = IF h = "write" THEN TRUE ELSE @]]
       /\ RulesBecome(IF h = "write" THEN AfterCleanup(usb[u], adbRules) ELSE adbRules)
  /\ UNCHANGED <<attached, usbOpens, unplugs>>

------------------------------------------------------------------------------

UsbNext ==
  \/ Unplug
  \/ PlugIn
  \/ \E u \in UsbSlots :
       \/ ConnectBegins(u)
       \/ ConnectPolls(u)
       \/ ConnectEnds(u)
       \/ DiscoverBegins(u)
       \/ DiscoverSucceeds(u)
       \/ DiscoverFails(u)
       \/ ReconnectBegins(u)
       \/ ReconnectSucceeds(u)
       \/ ReconnectFails(u)
       \/ UsbSend(u)
       \/ UsbReceive(u)
       \/ UsbClose(u)
       \/ UsbDrop(u)
       \/ UsbSplit(u)
       \/ HalfFails(u)
       \/ WriteHalfClose(u)
       \/ DropHalf(u)

UsbSpec == UsbInit /\ [][UsbNext]_usbVars

------------------------------------------------------------------------------
(* Properties.                                                               *)

\* When no transport is left and none is being opened, no forward rule that a transport
\* set holds the port, whatever the order in which transports of the same port came,
\* polled, failed, split and went; the two exceptions are a connect that failed and a
\* reconnect of a transport already cleaned up.  Scans and sends set the rule for
\* themselves: of theirs OneDirection of ReceiveMode speaks.
UsbLeavesNoRule ==
  (\A u \in UsbSlots : usb[u].phase = "none") /\ "forward" \in adbRules => stray
==============================================================================
