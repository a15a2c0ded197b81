------------------------------- MODULE WifiLink -------------------------------
(***************************************************************************)
(* The Wi-Fi transport: core/src/transport/wifi_direct.rs.  One link over    *)
(* the hotspot of the phone, its heartbeat, its reconnects, the temporary    *)
(* WLAN profile it needs on Windows, and the two halves a session uses.      *)
(***************************************************************************)
EXTENDS Integers, FiniteSets

CONSTANTS
  HeartbeatTicks,   \* heartbeat_timeout (15 s), in ticks of the model's clock
  WifiPolls,        \* attempts of one reconnect
  MaxWifiOpens      \* bound on the connections opened

ASSUME WifiAssumption ==
  {HeartbeatTicks, WifiPolls, MaxWifiOpens} \subseteq Nat \ {0}

VARIABLES
  windows,      \* the platform: profiles exist on Windows only
  profile,      \* the WLAN profile of the hotspot is in the OS
  wifiPhase,    \* "none", "associating", "open", "reconnecting" or "split"
  wifiStatus,   \* TransportStatus
  ends,         \* which of {"read", "write"} the transport or its halves hold
  sinceFrame,   \* age of last_frame_received, up to HeartbeatTicks + 1
  silence,      \* history: ticks since a frame came or a stream was connected
  attempts,     \* of the reconnect under way
  up,           \* per half: the flag it tests, one flag for both in the code
  half,         \* per half: "idle" or "busy" past the test of the flag
  late,         \* history, per half: frames moved after one of them had failed
  strayProfile, \* history: the profile was added for no transport, or for one that failed
  wifiOpens

Halves == {"read", "write"}

linkVars == <<windows, wifiOpens>>
wifiVars == <<linkVars, profile, wifiPhase, wifiStatus, ends, sinceFrame, silence,
              attempts, up, half, late, strayProfile>>

WifiInit ==
  /\ windows \in BOOLEAN /\ profile = FALSE
  /\ wifiPhase = "none" /\ wifiStatus = "Disconnected" /\ ends = {}
  /\ sinceFrame = 0 /\ silence = 0 /\ attempts = 0
  /\ up = [h \in Halves |-> FALSE] /\ half = [h \in Halves |-> "idle"]
  /\ late = [h \in Halves |-> 0]
  /\ strayProfile = FALSE /\ wifiOpens = 0

Aged(age) == IF age > HeartbeatTicks THEN age ELSE age + 1

WifiTick ==
  /\ wifiPhase \in {"open", "reconnecting"}
  /\ sinceFrame' = Aged(sinceFrame) /\ silence' = Aged(silence)
  /\ UNCHANGED <<linkVars, profile, wifiPhase, wifiStatus, ends, attempts, up, half,
                 late, strayProfile>>

halfVars == <<up, half, late>>

------------------------------------------------------------------------------
(* The connection.                                                           *)

\* associate_wlan_windows: netsh adds the profile, then joins; both may fail.
Associate ==
  /\ wifiPhase = "none" /\ wifiOpens < MaxWifiOpens
  /\ wifiOpens' = wifiOpens + 1
  /\ profile' \in IF windows THEN {profile, TRUE} ELSE {profile}
  /\ wifiPhase' = "associating"
  /\ UNCHANGED <<windows, wifiStatus, ends, sinceFrame, silence, attempts, halfVars,
                 strayProfile>>

\* Receive mode, prepare_send_mode, a send over USB and a scan join the hotspot for
\* themselves, at any time: the same profile, and no transport of theirs deletes it.
AssociatedElsewhere ==
  /\ windows /\ ~strayProfile
  /\ profile' = TRUE /\ strayProfile' = TRUE
  /\ UNCHANGED <<linkVars, wifiPhase, wifiStatus, ends, sinceFrame, silence, attempts,
                 halfVars>>

\* No gateway, or no connection: no transport is made, so the profile stays.
WifiConnectFails ==
  /\ wifiPhase = "associating"
  /\ wifiPhase' = "none"
  /\ strayProfile' = profile
  /\ UNCHANGED <<linkVars, profile, wifiStatus, ends, sinceFrame, silence, attempts,
                 halfVars>>

WifiConnects ==
  /\ wifiPhase = "associating"
  /\ wifiPhase' = "open" /\ wifiStatus' = "Connected" /\ ends' = Halves
  /\ sinceFrame' = 0 /\ silence' = 0 /\ strayProfile' = FALSE
  /\ UNCHANGED <<linkVars, profile, attempts, halfVars>>

\* cleanup_profile, from Drop: close does not call it.  It deletes the profile by its
\* name, whoever added it.
WifiDrop ==
  /\ wifiPhase = "open"
  /\ wifiPhase' = "none" /\ wifiStatus' = "Disconnected" /\ ends' = {}
  /\ profile' = FALSE /\ strayProfile' = FALSE
  /\ UNCHANGED <<linkVars, sinceFrame, silence, attempts, halfVars>>

WifiClose ==
  /\ wifiPhase = "open"
  /\ wifiStatus' = "Disconnected" /\ ends' = {}
  /\ UNCHANGED <<linkVars, profile, wifiPhase, sinceFrame, silence, attempts, halfVars,
                 strayProfile>>

WifiSendFails ==
  /\ wifiPhase = "open" /\ wifiStatus = "Connected" /\ "write" \in ends
  /\ wifiStatus' = "Disconnected"
  /\ UNCHANGED <<linkVars, profile, wifiPhase, ends, sinceFrame, silence, attempts,
                 halfVars, strayProfile>>

\* A frame, or the end of the link.
WifiReceive ==
  /\ wifiPhase = "open" /\ wifiStatus = "Connected" /\ "read" \in ends
  /\ \/ /\ sinceFrame' = 0 /\ silence' = 0
        /\ UNCHANGED wifiStatus
     \/ /\ wifiStatus' = "Disconnected"
        /\ UNCHANGED <<sinceFrame, silence>>
  /\ UNCHANGED <<linkVars, profile, wifiPhase, ends, attempts, halfVars, strayProfile>>

------------------------------------------------------------------------------
(* Heartbeat and reconnect.                                                  *)

\* check_heartbeat_liveness when it finds the link silent for too long.
HeartbeatFails ==
  /\ wifiPhase = "open" /\ wifiStatus = "Connected"
  /\ sinceFrame > HeartbeatTicks
  /\ wifiStatus' = "Disconnected"
  /\ UNCHANGED <<linkVars, profile, wifiPhase, ends, sinceFrame, silence, attempts,
                 halfVars, strayProfile>>

WifiReconnectBegins ==
  /\ wifiPhase = "open"
  /\ wifiPhase' = "reconnecting" /\ wifiStatus' = "Connecting" /\ attempts' = 0
  /\ UNCHANGED <<linkVars, profile, ends, sinceFrame, silence, halfVars, strayProfile>>

\* Each attempt joins the hotspot again, which adds the profile again.
Rejoined == IF windows THEN {profile, TRUE} ELSE {profile}

\* Mutated form: the age of the dead link is kept.
WifiReconnectsSilent ==
  /\ wifiPhase = "reconnecting"
  /\ profile' \in Rejoined
  /\ wifiPhase' = "open" /\ wifiStatus' = "Connected" /\ ends' = Halves
  /\ silence' = 0
  /\ UNCHANGED <<linkVars, sinceFrame, attempts, halfVars, strayProfile>>

WifiReconnects ==
  /\ wifiPhase = "reconnecting"
  /\ profile' \in Rejoined
  /\ wifiPhase' = "open" /\ wifiStatus' = "Connected" /\ ends' = Halves
  /\ sinceFrame' = 0 /\ silence' = 0
  /\ UNCHANGED <<linkVars, attempts, halfVars, strayProfile>>

WifiReconnectFails ==
  /\ wifiPhase = "reconnecting"
  /\ profile' \in Rejoined
  /\ attempts' = attempts + 1
  /\ wifiPhase' = IF attempts + 1 = WifiPolls THEN "open" ELSE "reconnecting"
  /\ wifiStatus' = IF attempts + 1 = WifiPolls THEN "Failed" ELSE "Connecting"
  /\ UNCHANGED <<linkVars, ends, sinceFrame, silence, halfVars, strayProfile>>

------------------------------------------------------------------------------
(* The halves.                                                               *)

\* Mutated form: the transport is forgotten, not dropped, so that the profile
\* outlives the split; nobody is left to delete it.
SplitForgets ==
  /\ wifiPhase = "open"
  /\ wifiPhase' = "split"
  /\ up' = [h \in Halves |-> wifiStatus = "Connected"]
  /\ late' = [h \in Halves |-> 0]
  /\ UNCHANGED <<linkVars, profile, strayProfile, wifiStatus, ends, sinceFrame, silence,
                 attempts, half>>

\* split_boxed drops the transport at its end: the profile goes, and the halves use
\* the link without it.
Split ==
  /\ wifiPhase = "open"
  /\ wifiPhase' = "split"
  /\ up' = [h \in Halves |-> wifiStatus = "Connected"]
  /\ late' = [h \in Halves |-> 0]
  /\ profile' = FALSE /\ strayProfile' = FALSE
  /\ UNCHANGED <<linkVars, wifiStatus, ends, sinceFrame, silence, attempts, half>>

restVars == <<linkVars, profile, strayProfile, wifiStatus, sinceFrame, silence, attempts>>

\* send_frame and receive_frame test the flag, then wait for the socket.
HalfBegins(h) ==
  /\ wifiPhase = "split" /\ half[h] = "idle" /\ up[h] /\ h \in ends
  /\ half' = [half EXCEPT ![h] = "busy"]
  /\ UNCHANGED <<restVars, wifiPhase, ends, up, late>>

\* The frame went through, perhaps after the other half had failed.
HalfMoves(h) ==
  /\ wifiPhase = "split" /\ half[h] = "busy"
  /\ half' = [half EXCEPT ![h] = "idle"]
  /\ late' = [late EXCEPT ![h] = IF \A g \in Halves : up[g] THEN @
                                 ELSE IF @ = 2 THEN 2 ELSE @ + 1]
  /\ UNCHANGED <<restVars, wifiPhase, ends, up>>

\* A session that waits for something else too gives a read up.
ReadCancelled ==
  /\ wifiPhase = "split" /\ half["read"] = "busy"
  /\ half' = [half EXCEPT !["read"] = "idle"]
  /\ UNCHANGED <<restVars, wifiPhase, ends, up, late>>

\* Mutated form: a flag per half.
HalfErrsAlone(h) ==
  /\ wifiPhase = "split" /\ half[h] = "busy"
  /\ half' = [half EXCEPT ![h] = "idle"]
  /\ up' = [up EXCEPT ![h] = FALSE]
  /\ UNCHANGED <<restVars, wifiPhase, ends, late>>

\* An error, or the end of the stream: the flag is shared.
HalfErrs(h) ==
  /\ wifiPhase = "split" /\ half[h] = "busy"
  /\ half' = [half EXCEPT ![h] = "idle"]
  /\ up' = [g \in Halves |-> FALSE]
  /\ UNCHANGED <<restVars, wifiPhase, ends, late>>

\* close of the write half.
WriteHalfCloses ==
  /\ wifiPhase = "split" /\ half["write"] = "idle" /\ "write" \in ends
  /\ up' = [g \in Halves |-> FALSE]
  /\ ends' = ends \ {"write"}
  /\ UNCHANGED <<restVars, wifiPhase, half, late>>

HalvesDropped ==
  /\ wifiPhase = "split" /\ \A h \in Halves : half[h] = "idle"
  /\ wifiPhase' = "none" /\ ends' = {}
  /\ up' = [h \in Halves |-> FALSE]
  /\ UNCHANGED <<restVars, half, late>>

------------------------------------------------------------------------------

WifiNext ==
  \/ WifiTick
  \/ Associate
  \/ AssociatedElsewhere
  \/ WifiConnectFails
  \/ WifiConnects
  \/ WifiDrop
  \/ WifiClose
  \/ WifiSendFails
  \/ WifiReceive
  \/ HeartbeatFails
  \/ WifiReconnectBegins
  \/ WifiReconnects
  \/ WifiReconnectFails
  \/ Split
  \/ \E h \in Halves : \/ HalfBegins(h)
                       \/ HalfMoves(h)
                       \/ HalfErrs(h)
  \/ ReadCancelled
  \/ WriteHalfCloses
  \/ HalvesDropped

WifiSpec == WifiInit /\ [][WifiNext]_wifiVars

------------------------------------------------------------------------------
(* Properties.                                                               *)

\* The heartbeat declares a link dead only when nothing came for longer than the
\* timeout since its stream was connected, through any number of reconnects: a
\* reconnected link is not killed for the silence of the one before it.
HeartbeatIsFair ==
  [][HeartbeatFails => silence > HeartbeatTicks]_wifiVars

\* After one half has met an error or the end of the stream, each half moves at
\* most the one frame it had begun: the session's two tasks never go on with half
\* a channel.
OneDeadHalfStopsBoth == \A h \in Halves : late[h] <= 1

\* A transport takes the WLAN profile with the passphrase of the hotspot away with it,
\* also when it is split.  A profile without a transport is open about its origin: a
\* connect that failed, or one of the calls that join the hotspot without a transport
\* (receiver.rs:158, sender.rs:137, sender.rs:191, discovery.rs:153), and no transport
\* since then has ended.
NoProfileLeft == wifiPhase \in {"none", "split"} /\ profile => strayProfile
==============================================================================
