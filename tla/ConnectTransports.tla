-------------------------- MODULE ConnectTransports --------------------------
(***************************************************************************)
(* resolve_and_connect_transports_with_streams of core/src/transfer/         *)
(* sender.rs: which channels a send opens, for the preference of the user,   *)
(* the addresses given, the platform, and what answers on the network.       *)
(*                                                                          *)
(* An address is a host with or without a mark "#usb...".  The hosts are the *)
(* loopback port an adb tunnel ends in, an address of USB tethering, one of  *)
(* the LAN and two gateways of phone hotspots.                               *)
(***************************************************************************)
EXTENDS Integers, Sequences, FiniteSets, SequencesExt

CONSTANTS
  Addresses,     \* what the caller may pass: sequences of [host, marked]; <<>> for None
  StreamCount,   \* bonded Wi-Fi streams (4)
  MaxLateHosts   \* bound on the hosts that come up while channels are opened

Hosts == {"loop", "rndis", "lan", "gw1", "gw2"}

ASSUME ConnectAssumption ==
  /\ Addresses \subseteq Seq([host : Hosts, marked : BOOLEAN])
  /\ StreamCount \in Nat \ {0} /\ MaxLateHosts \in Nat

Preferences == {"Automatic", "Combined", "UsbOnly", "WifiDirectOnly"}

VARIABLES
  pref, address, platform,   \* the call: "android", "windows" or "other"
  adb,         \* adb can be run; on the phone nothing runs it, and that never fails
  device,      \* an adb device is attached whose app can be started
  hotspot,     \* the gateway its control channel names, "none" without hotspot
  reachable,   \* hosts that answer now
  atStart,     \* history: hosts that answered all along
  stage,       \* what is tried next
  channels,    \* channels open so far: [host, usb, probed]
  wifiFound,   \* wifi_connected
  usbFound,    \* usb_connected
  lateHosts

callVars    == <<pref, address, platform, adb, device, hotspot>>
foundVars   == <<channels, wifiFound, usbFound>>
connectVars == <<callVars, reachable, atStart, stage, foundVars, lateHosts>>

ConnectInit ==
  /\ pref \in Preferences /\ address \in Addresses
  /\ platform \in {"android", "windows", "other"}
  /\ adb \in IF platform = "android" THEN {TRUE} ELSE BOOLEAN
  /\ device \in IF platform = "android" \/ ~adb THEN {FALSE} ELSE BOOLEAN
  /\ hotspot \in IF device /\ platform = "windows" THEN {"none", "gw1"} ELSE {"none"}
  /\ reachable \in SUBSET Hosts
  /\ atStart = reachable
  /\ stage = "tunnels"
  /\ channels = <<>> /\ wifiFound = FALSE /\ usbFound = FALSE
  /\ lateHosts = 0

HostComesUp ==
  /\ stage # "done" /\ lateHosts < MaxLateHosts
  /\ lateHosts' = lateHosts + 1
  /\ \E h \in Hosts \ reachable : reachable' = reachable \cup {h}
  /\ UNCHANGED <<callVars, atStart, stage, foundVars>>

------------------------------------------------------------------------------
(* Addresses.                                                                *)

IsUsb(a)    == a.host \in {"loop", "rndis"} \/ a.marked
IsTunnel(a) == a.host = "loop"

\* Not cleaned and not split: only a lone address without mark parses.
Literal == IF Len(address) = 1 /\ ~address[1].marked THEN {address[1].host} ELSE {}

Opens(host, n, isUsb, isProbe) ==
  IF host \in reachable
  THEN [i \in 1 .. n |-> [host |-> host, usb |-> isUsb, probed |-> isProbe]]
  ELSE <<>>

\* get_windows_hotspot_probe_ips: only when Windows is on the Wi-Fi of a phone.
WindowsProbes == IF platform = "windows" THEN <<"gw1", "gw2">> ELSE <<>>

\* Mutated form: the hosts after the first that answers are tried too.
ProbeAll(hosts) ==
  FlattenSeq([i \in DOMAIN hosts |-> Opens(hosts[i], StreamCount, FALSE, TRUE)])

\* All streams to the first host that answers.
Probe(hosts) ==
  LET up == {i \in DOMAIN hosts : hosts[i] \in reachable}
  IN IF up = {} THEN <<>> ELSE Opens(hosts[Min(up)], StreamCount, FALSE, TRUE)

------------------------------------------------------------------------------
(* The preferences.                                                          *)

\* Rules for the first device, and its app started when nothing listens.
SetUpTunnels ==
  /\ stage = "tunnels"
  /\ reachable' = IF device THEN reachable \cup {"loop"} ELSE reachable
  /\ atStart' = IF device THEN atStart \cup {"loop"} ELSE atStart
  /\ stage' = pref
  /\ UNCHANGED <<callVars, foundVars, lateHosts>>

\* What stands before the first mark, else the USB transport, which lists the devices
\* before it tries the tunnel, so that without adb it fails.
UsbOnly ==
  /\ stage = "UsbOnly" /\ stage' = "done"
  /\ LET given == CASE address = <<>> -> "loop"
                    [] address # <<>> /\ (Len(address) = 1 \/ address[1].marked) -> address[1].host
                    [] OTHER -> "none"
     IN channels' = CASE given \in reachable -> Opens(given, 1, TRUE, FALSE)
                      [] given \notin reachable /\ adb -> Opens("loop", 1, TRUE, FALSE)
                      [] OTHER -> <<>>
  /\ UNCHANGED <<callVars, reachable, atStart, wifiFound, usbFound, lateHosts>>

\* Streams to the address as given, else to the gateway of the hotspot.
WifiDirectOnly ==
  /\ stage = "WifiDirectOnly" /\ stage' = "done"
  /\ LET targets == IF address # <<>> THEN Literal ELSE {hotspot}
     IN channels' = IF targets = {} THEN <<>>
                    ELSE Opens(CHOOSE h \in targets : TRUE, StreamCount, FALSE, FALSE)
  /\ UNCHANGED <<callVars, reachable, atStart, wifiFound, usbFound, lateHosts>>

\* The addresses given: one stream through an adb tunnel, two over tethering.
CombinedGiven ==
  /\ stage = "Combined" /\ stage' = "CombinedUsb"
  /\ LET streams(a) == IF ~IsUsb(a) THEN StreamCount ELSE IF IsTunnel(a) THEN 1 ELSE 2
     IN channels' = FlattenSeq([i \in DOMAIN address |->
                      Opens(address[i].host, streams(address[i]), IsUsb(address[i]), FALSE)])
  /\ usbFound' = \E a \in ToSet(address) : IsUsb(a) /\ a.host \in reachable
  /\ wifiFound' = \E a \in ToSet(address) : ~IsUsb(a) /\ a.host \in reachable
  /\ UNCHANGED <<callVars, reachable, atStart, lateHosts>>

CombinedUsb ==
  /\ stage = "CombinedUsb" /\ stage' = "CombinedWifi"
  /\ channels' = IF usbFound THEN channels ELSE channels \o Opens("loop", 1, TRUE, FALSE)
  /\ UNCHANGED <<callVars, reachable, atStart, wifiFound, usbFound, lateHosts>>

\* A tunnel anywhere among the addresses keeps the hotspots from being probed.
CombinedWifi ==
  /\ stage = "CombinedWifi" /\ stage' = "done"
  /\ LET given == \E a \in ToSet(address) : IsTunnel(a) \/ a.marked
     IN channels' = IF wifiFound \/ given THEN channels ELSE channels \o Probe(WindowsProbes)
  /\ UNCHANGED <<callVars, reachable, atStart, wifiFound, usbFound, lateHosts>>

AutomaticGiven ==
  /\ stage = "Automatic" /\ stage' = "AutomaticProbe"
  /\ LET streams(a) == IF IsUsb(a) THEN 1 ELSE StreamCount
     IN channels' = FlattenSeq([i \in DOMAIN address |->
                      Opens(address[i].host, streams(address[i]), IsUsb(address[i]), FALSE)])
  /\ UNCHANGED <<callVars, reachable, atStart, wifiFound, usbFound, lateHosts>>

\* On the phone: the reverse tunnel, or the address as it was given, and a list of
\* likely gateways and neighbours.
AndroidProbe ==
  /\ stage = "AutomaticProbe" /\ platform = "android" /\ channels = <<>>
  /\ stage' = "AutomaticFallback"
  /\ LET first == IF address = <<>> THEN {"loop"} ELSE Literal
     IN channels' = (IF first = {} THEN <<>>
                     ELSE Opens(CHOOSE h \in first : TRUE, 1, TRUE, FALSE))
                    \o Probe(<<"gw1", "gw2", "lan">>)
  /\ UNCHANGED <<callVars, reachable, atStart, wifiFound, usbFound, lateHosts>>

\* Mutated form: the USB transport is left out, and with it the tunnel when an
\* address was given.
DesktopProbeNoUsb ==
  /\ stage = "AutomaticProbe" /\ platform # "android" /\ channels = <<>>
  /\ stage' = "AutomaticFallback"
  /\ LET given == IF address = <<>> THEN {"loop"} ELSE Literal
         tunnel == IF given = {} THEN <<>>
                   ELSE Opens(CHOOSE h \in given : TRUE, 1, TRUE, FALSE)
     IN channels' = tunnel \o Probe(WindowsProbes)
  /\ UNCHANGED <<callVars, reachable, atStart, wifiFound, usbFound, lateHosts>>

\* On a desktop: the USB transport, which needs adb, else the address as it was given,
\* and the hotspot of the phone.
DesktopProbe ==
  /\ stage = "AutomaticProbe" /\ platform # "android" /\ channels = <<>>
  /\ stage' = "AutomaticFallback"
  /\ LET given == IF address = <<>> \/ (adb /\ "loop" \in reachable)
                  THEN {"loop"} ELSE Literal
         tunnel == IF given = {} THEN <<>>
                   ELSE Opens(CHOOSE h \in given : TRUE, 1, TRUE, FALSE)
     IN channels' = tunnel \o Probe(WindowsProbes)
  /\ UNCHANGED <<callVars, reachable, atStart, wifiFound, usbFound, lateHosts>>

AutomaticHasChannels ==
  /\ stage = "AutomaticProbe" /\ channels # <<>>
  /\ stage' = "done"
  /\ UNCHANGED <<callVars, reachable, atStart, foundVars, lateHosts>>

\* Once more, the first address that answers now; marks are not cut off here, and
\* only a tunnel counts as USB.
AutomaticFallback ==
  /\ stage = "AutomaticFallback" /\ stage' = "done"
  /\ LET up == {i \in DOMAIN address : ~address[i].marked /\ address[i].host \in reachable}
         a  == address[Min(up)]
     IN channels' = CASE channels # <<>> -> channels
                      [] channels = <<>> /\ address = <<>> -> Opens("loop", 1, TRUE, FALSE)
                      [] OTHER -> IF up = {} THEN <<>> ELSE Opens(a.host, 1, IsTunnel(a), FALSE)
  /\ UNCHANGED <<callVars, reachable, atStart, wifiFound, usbFound, lateHosts>>

------------------------------------------------------------------------------

ConnectNext ==
  \/ HostComesUp
  \/ SetUpTunnels
  \/ UsbOnly
  \/ WifiDirectOnly
  \/ CombinedGiven
  \/ CombinedUsb
  \/ CombinedWifi
  \/ AutomaticGiven
  \/ AndroidProbe
  \/ DesktopProbe
  \/ AutomaticHasChannels
  \/ AutomaticFallback

ConnectSpec == ConnectInit /\ [][ConnectNext]_connectVars

------------------------------------------------------------------------------
(* Properties.                                                               *)

\* The hosts a preference stands for.  When an address is given the loopback port is
\* the adb tunnel's, and only Combined asks for it where adb cannot be run.
Meant ==
  LET given == {a.host : a \in ToSet(address)}
      plain == {a.host : a \in {b \in ToSet(address) : ~b.marked}}
      loop  == IF adb \/ address = <<>> THEN {"loop"} ELSE {}
  IN CASE pref = "UsbOnly"        -> loop \cup (IF Len(address) = 1 THEN given
                                               ELSE {address[i].host : i \in
                                                 {1} \cap {j \in DOMAIN address : address[j].marked}})
       [] pref = "WifiDirectOnly" -> IF address = <<>> THEN {hotspot}
                                     ELSE IF Len(address) = 1 THEN plain ELSE {}
       [] pref = "Combined"       -> {"loop"} \cup given \cup
                                     (IF platform = "windows"
                                         /\ \A a \in ToSet(address) : ~IsTunnel(a) /\ ~a.marked
                                      THEN {"gw1", "gw2"} ELSE {})
       [] OTHER -> given \cup (IF platform = "other" THEN loop
                               ELSE IF platform = "windows" THEN loop \cup {"gw1", "gw2"}
                               ELSE {"gw1", "gw2", "lan"} \cup (IF address = <<>> THEN {"loop"}
                                                                ELSE {}))

\* A send fails to connect only when no host its preference stands for answered all
\* along: over the explicit addresses, the tunnel, the probes and the fallbacks no
\* host is skipped by what another stage did.
ConnectFindsAChannel ==
  stage = "done" /\ channels = <<>> => Meant \cap atStart = {}

\* Wi-Fi channels that were probed lead to one host, and there are none beside Wi-Fi
\* channels the caller asked for: the chunks of a file never go to two phones of
\* which the caller named neither.
ProbedWifiIsOnePeer ==
  LET probed == {c.host : c \in {d \in ToSet(channels) : d.probed}}
      asked  == {c.host : c \in {d \in ToSet(channels) : ~d.probed /\ ~d.usb}}
  IN Cardinality(probed) <= 1 /\ (probed # {} => asked = {})
==============================================================================
