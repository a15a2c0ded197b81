--------------------------- MODULE TransportProofs ---------------------------
(***************************************************************************)
(* The transports and the listeners of a receiving device, each alone: what *)
(* its runs check of the USB tunnel, of the two halves of a Wi-Fi link, of  *)
(* receive mode and of the framing of a stream, for every value of the      *)
(* constants.  Every part has an inductive invariant of its own.            *)
(***************************************************************************)
EXTENDS UsbTunnel, WifiLink, ReceiveMode, FramedStream, SequenceTheorems, TLAPS

-----------------------------------------------------------------------------
(* The USB tunnel: a forward rule has a keeper.                            *)

Transport ==
  [phase : {"none", "connecting", "greeting", "open", "reconnecting", "split"},
   status : {"Disconnected", "Connecting", "Connected", "Failed"},
   reader : BOOLEAN, writer : BOOLEAN, serial : BOOLEAN, cleaned : BOOLEAN,
   shared : BOOLEAN, halves : SUBSET {"write", "read"}, polls : Int]

Flags == stray \in BOOLEAN /\ attached \in BOOLEAN

UsbTyped ==
  /\ usb \in [UsbSlots -> Transport] /\ Flags
  /\ \A u \in UsbSlots : /\ usb[u].phase = "none" => usb[u] = NoUsb
                         /\ usb[u].phase = "connecting" => ~usb[u].cleaned

\* The transport that removes the forward rule when it goes.
Keeping == {"connecting", "greeting", "open", "reconnecting"}

Keeper(u) ==
  /\ usb[u].phase \in Keeping
  /\ usb[u].serial /\ ~usb[u].cleaned

\* A rule that is not a known leftover has a keeper.
KeeperInv == "forward" \in adbRules /\ ~stray => \E u \in UsbSlots : Keeper(u)

UsbInv == UsbTyped /\ KeeperInv

\* What a step makes of its own transport is a transport, whatever it changes of it.
Becomes(u, t) ==
  /\ t \in Transport /\ (t.phase = "none" => t = NoUsb)
  /\ t.phase = "connecting" => ~t.cleaned
  /\ usb' = [usb EXCEPT ![u] = t]

\* The other transports stay as they are.
OnlyOne(u) == \A v \in UsbSlots \ {u} : usb'[v] = usb[v]

LEMMA NoUsbTyped == NoUsb \in Transport /\ NoUsb.phase = "none"
BY DEF NoUsb, Transport

LEMMA OpenedTyped ==
  ASSUME NEW s \in BOOLEAN
  PROVE  /\ Opened(s) \in Transport
         /\ Opened(s).phase = "open" /\ Opened(s).serial = s /\ ~Opened(s).cleaned
<1>1. Opened(s) \in Transport
  BY NoUsbTyped DEF Opened, Transport
<1>2. Opened(s).phase = "open" /\ ~Opened(s).cleaned
  BY DEF Opened, NoUsb
<1>3. Opened(s).serial = s
  BY DEF Opened, NoUsb
<1> QED BY <1>1, <1>2, <1>3

LEMMA UsbInvInit == UsbInit => UsbInv
<1> SUFFICES ASSUME UsbInit PROVE UsbInv
  OBVIOUS
<1>1. UsbTyped
  BY NoUsbTyped DEF UsbInit, UsbTyped, Flags
<1>2. KeeperInv
  BY DEF UsbInit, KeeperInv
<1> QED BY <1>1, <1>2 DEF UsbInv

LEMMA TypeKept ==
  ASSUME UsbTyped, Flags', NEW u \in UsbSlots, NEW t, Becomes(u, t)
  PROVE  UsbTyped' /\ usb'[u] = t /\ OnlyOne(u)
BY DEF UsbTyped, Becomes, OnlyOne

\* A step of one transport keeps KeeperInv if it takes the rule away, makes it a
\* known leftover, makes a keeper of its own transport, or keeps the rules and was no
\* keeper before.
LEMMA KeeperKept ==
  ASSUME UsbInv, NEW u \in UsbSlots, NEW t, Becomes(u, t), Flags',
         \/ "forward" \notin adbRules'
         \/ stray'
         \/ t.phase \in Keeping /\ t.serial /\ ~t.cleaned
         \/ "forward" \in adbRules /\ ~stray /\ ~Keeper(u)
  PROVE  UsbInv'
<1>1. UsbTyped' /\ usb'[u] = t /\ OnlyOne(u)
  BY TypeKept DEF UsbInv
<1>2. KeeperInv'
  BY <1>1 DEF UsbInv, KeeperInv, OnlyOne, Keeper
<1> QED BY <1>1, <1>2 DEF UsbInv

\* So does one that adds no rule and leaves its transport the keeper it was.
LEMMA KeeperStays ==
  ASSUME UsbInv, NEW u \in UsbSlots, NEW t, Becomes(u, t), Flags',
         "forward" \in adbRules' => "forward" \in adbRules,
         "forward" \in adbRules' => (stray => stray'),
         usb[u].phase \in Keeping => t.phase \in Keeping,
         usb[u].serial => t.serial,
         t.cleaned => usb[u].cleaned
  PROVE  UsbInv'
<1>1. UsbTyped' /\ usb'[u] = t /\ OnlyOne(u)
  BY TypeKept DEF UsbInv
<1>2. KeeperInv'
  BY <1>1 DEF UsbInv, KeeperInv, OnlyOne, Keeper
<1> QED BY <1>1, <1>2 DEF UsbInv

\* And one of a transport that was no keeper and adds no rule.
LEMMA NotTheKeeper ==
  ASSUME UsbInv, NEW u \in UsbSlots, NEW t, Becomes(u, t), Flags', ~Keeper(u),
         "forward" \in adbRules' => "forward" \in adbRules,
         "forward" \in adbRules' => (stray => stray')
  PROVE  UsbInv'
<1>1. UsbTyped' /\ usb'[u] = t /\ OnlyOne(u)
  BY TypeKept DEF UsbInv
<1>2. KeeperInv'
  BY <1>1 DEF UsbInv, KeeperInv, OnlyOne, Keeper
<1> QED BY <1>1, <1>2 DEF UsbInv

\* A clean-up by a keeper takes the rule.
LEMMA CleanupTakes ==
  ASSUME UsbInv, NEW u \in UsbSlots, RulesBecome(AfterCleanup(usb[u], adbRules)),
         UNCHANGED attached
  PROVE  /\ Flags'
         /\ usb[u].serial /\ ~usb[u].cleaned => "forward" \notin adbRules'
         /\ "forward" \in adbRules' => "forward" \in adbRules /\ (stray => stray')
BY DEF RulesBecome, AfterCleanup, UsbInv, UsbTyped, Flags

------------------------------------------------------------------------------
(* The steps.                                                                *)

LEMMA ConnectKeeps ==
  ASSUME UsbInv, NEW u \in UsbSlots, ConnectBegins(u) \/ ConnectPolls(u) \/ ConnectEnds(u)
  PROVE  UsbInv'
<1> DEFINE r == usb[u]
<1>r. r \in Transport /\ Flags /\ (r.phase = "none" => r = NoUsb)
  BY DEF UsbInv, UsbTyped
<1>1. CASE ConnectBegins(u)
  <2> DEFINE t == [NoUsb EXCEPT !.phase = "connecting", !.serial = attached]
  <2>1. t \in Transport
    BY <1>r, NoUsbTyped DEF Transport, Flags
  <2>2. t.phase = "connecting" /\ ~t.cleaned
    BY DEF NoUsb
  <2>3. attached => t.serial
    BY DEF NoUsb
  <2>4. Becomes(u, t)
    BY <1>1, <2>1, <2>2 DEF ConnectBegins, Becomes
  <2>5. Flags' /\ ~Keeper(u)
    BY <1>1, <1>r DEF ConnectBegins, RulesBecome, Flags, Keeper, Keeping
  <2>6. CASE attached
    <3> HIDE DEF t
    <3> QED BY <2>2, <2>3, <2>4, <2>5, <2>6, KeeperKept DEF Keeping
  <2>7. CASE ~attached
    <3>1. adbRules' = adbRules /\ stray' = (stray /\ "forward" \in adbRules)
      BY <1>1, <2>7 DEF ConnectBegins, RulesBecome, SetUpForward
    <3> HIDE DEF t
    <3> QED BY <2>4, <2>5, <3>1, NotTheKeeper
  <2> QED BY <2>6, <2>7
<1>2. CASE ConnectEnds(u)
  <2>0. adbRules' = adbRules /\ attached' = attached
    BY <1>2 DEF ConnectEnds
  <2>1. CASE usb' = [usb EXCEPT ![u] = Opened(usb[u].serial)] /\ UNCHANGED stray
    <3> DEFINE t == Opened(r.serial)
    <3>1. r.serial \in BOOLEAN /\ Flags'
      BY <1>r, <2>0, <2>1 DEF Transport, Flags
    <3>2. t \in Transport /\ t.phase = "open" /\ t.serial = r.serial /\ ~t.cleaned
      BY <3>1, OpenedTyped
    <3>3. Becomes(u, t)
      BY <2>1, <3>2 DEF Becomes
    <3> HIDE DEF t
    <3> QED BY <2>0, <2>1, <3>1, <3>2, <3>3, KeeperStays DEF Keeping
  <2>2. CASE usb' = [usb EXCEPT ![u] = NoUsb] /\ stray' = (stray \/ "forward" \in adbRules)
    <3>1. Becomes(u, NoUsb)
      BY <2>2, NoUsbTyped DEF Becomes
    <3>2. Flags' /\ ("forward" \notin adbRules' \/ stray')
      BY <1>r, <2>0, <2>2 DEF Flags
    <3> QED BY <3>1, <3>2, KeeperKept
  <2> QED BY <1>2, <2>1, <2>2 DEF ConnectEnds
<1>3. CASE ConnectPolls(u)
  <2>1. /\ r.phase = "connecting" /\ r.serial /\ ~r.cleaned
        /\ usb' = usb /\ Flags' /\ Becomes(u, r)
    BY <1>3, <1>r DEF ConnectPolls, RulesBecome, UsbInv, UsbTyped, Flags, Becomes
  <2> HIDE DEF r
  <2> QED BY <2>1, KeeperKept DEF Keeping
<1> QED BY <1>1, <1>2, <1>3

LEMMA DiscoverKeeps ==
  ASSUME UsbInv, NEW u \in UsbSlots,
         DiscoverBegins(u) \/ DiscoverSucceeds(u) \/ DiscoverFails(u)
  PROVE  UsbInv'
<1> DEFINE r == usb[u]
<1>r. r \in Transport /\ Flags /\ (r.phase = "none" => r = NoUsb)
  BY DEF UsbInv, UsbTyped
<1>1. CASE DiscoverBegins(u)
  <2>1. CASE UNCHANGED <<usb, adbRules, stray>>
    BY <1>1, <2>1 DEF DiscoverBegins, UsbInv, UsbTyped, Flags, KeeperInv, Keeper
  <2>2. CASE /\ usb' = [usb EXCEPT ![u].phase = "greeting", ![u].serial = TRUE]
             /\ RulesBecome(SetUpForward(adbRules))
    <3> DEFINE t == [r EXCEPT !.phase = "greeting", !.serial = TRUE]
    <3>1. t \in Transport
      BY <1>r DEF Transport
    <3>2. t.phase = "greeting" /\ t.serial
      BY <1>r DEF Transport
    <3>3. ~t.cleaned
      <4>1. r = NoUsb
        BY <1>1, <1>r DEF DiscoverBegins
      <4> QED BY <4>1 DEF NoUsb
    <3>4. Becomes(u, t)
      BY <2>2, <3>1, <3>2 DEF Becomes
    <3>5. Flags'
      BY <1>1, <1>r, <2>2 DEF DiscoverBegins, RulesBecome, Flags
    <3> HIDE DEF t
    <3> QED BY <3>2, <3>3, <3>4, <3>5, KeeperKept DEF Keeping
  <2> QED BY <1>1, <2>1, <2>2 DEF DiscoverBegins
<1>2. CASE DiscoverSucceeds(u)
  <2> DEFINE t == Opened(TRUE)
  <2>1. t \in Transport /\ t.phase = "open" /\ t.serial = TRUE /\ ~t.cleaned
    BY OpenedTyped
  <2>2. Becomes(u, t) /\ Flags'
    BY <1>2, <1>r, <2>1 DEF DiscoverSucceeds, Becomes, Flags
  <2> HIDE DEF t
  <2> QED BY <2>1, <2>2, KeeperKept DEF Keeping
<1>3. CASE DiscoverFails(u)
  <2>1. Becomes(u, NoUsb)
    BY <1>3, NoUsbTyped DEF DiscoverFails, Becomes
  <2>2. Flags' /\ "forward" \notin adbRules'
    BY <1>3, <1>r DEF DiscoverFails, RulesBecome, Flags
  <2> QED BY <2>1, <2>2, KeeperKept
<1> QED BY <1>1, <1>2, <1>3

LEMMA ReconnectKeeps ==
  ASSUME UsbInv, NEW u \in UsbSlots,
         ReconnectBegins(u) \/ ReconnectSucceeds(u) \/ ReconnectFails(u)
  PROVE  UsbInv'
<1> DEFINE r == usb[u]
<1>r. r \in Transport /\ Flags /\ usb \in [UsbSlots -> Transport]
  BY DEF UsbInv, UsbTyped
<1>1. CASE ReconnectBegins(u)
  <2> DEFINE t == [r EXCEPT !.phase = "reconnecting", !.status = "Connecting", !.polls = 0]
  <2>1. t \in Transport
    BY <1>r, 0 \in Int DEF Transport
  <2>2. /\ t.phase = "reconnecting"
        /\ r.serial => t.serial
        /\ t.cleaned => r.cleaned
    BY <1>r DEF Transport
  <2>3. Becomes(u, t)
    BY <1>1, <1>r, <2>1, <2>2 DEF ReconnectBegins, Becomes
  <2>4. Flags' /\ adbRules' = adbRules /\ stray' = stray
    BY <1>1, <1>r DEF ReconnectBegins, Flags
  <2> HIDE DEF t
  <2> QED BY <2>2, <2>3, <2>4, KeeperStays DEF Keeping
<1>2. CASE ReconnectSucceeds(u)
  <2> DEFINE t == [r EXCEPT !.phase = "open", !.status = "Connected", !.reader = TRUE,
                            !.writer = TRUE, !.serial = TRUE]
  <2>1. t \in Transport
    BY <1>r DEF Transport
  <2>2. t.phase = "open" /\ t.serial /\ (t.cleaned => r.cleaned)
    BY <1>r DEF Transport
  <2>3. Becomes(u, t)
    BY <1>2, <1>r, <2>1, <2>2 DEF ReconnectSucceeds, Becomes
  <2>4. Flags' /\ (r.cleaned => stray')
    BY <1>2, <1>r DEF ReconnectSucceeds, Flags, Transport
  <2> HIDE DEF t
  <2>5. CASE r.cleaned
    BY <2>3, <2>4, <2>5, KeeperKept
  <2>6. CASE ~r.cleaned
    BY <2>2, <2>3, <2>4, <2>6, KeeperKept DEF Keeping
  <2> QED BY <2>5, <2>6
<1>3. CASE ReconnectFails(u)
  <2> DEFINE n == r.polls + 1
             x == IF n = UsbPolls THEN "open" ELSE "reconnecting"
             y == IF n = UsbPolls THEN "Failed" ELSE "Connecting"
             t == [r EXCEPT !.polls = n, !.phase = x, !.status = y]
  <2>1. n \in Int /\ x \in {"open", "reconnecting"} /\ y \in {"Failed", "Connecting"}
    BY <1>r DEF Transport
  <2>2. usb' = [usb EXCEPT ![u].polls = n, ![u].phase = x, ![u].status = y]
    BY <1>3 DEF ReconnectFails
  <2> HIDE DEF n, x, y
  <2>3. t \in Transport
    BY <1>r, <2>1 DEF Transport
  <2>4. /\ t.phase \in {"open", "reconnecting"}
        /\ r.serial => t.serial
        /\ t.cleaned => r.cleaned
    BY <1>r, <2>1 DEF Transport
  <2>5. Becomes(u, t)
    BY <1>r, <2>2, <2>3, <2>4 DEF Becomes
  <2>6. Flags'
    BY <1>3, <1>r DEF ReconnectFails, RulesBecome, Flags
  <2>7. "forward" \in adbRules' => adbRules' = adbRules /\ stray' = stray
    BY <1>3 DEF ReconnectFails, RulesBecome
  <2> HIDE DEF t
  <2> QED BY <2>4, <2>5, <2>6, <2>7, KeeperStays DEF Keeping
<1> QED BY <1>1, <1>2, <1>3

LEMMA UseKeeps ==
  ASSUME UsbInv, NEW u \in UsbSlots, UsbSend(u) \/ UsbReceive(u) \/ UsbClose(u) \/ UsbDrop(u)
  PROVE  UsbInv'
<1> DEFINE r == usb[u]
<1>r. r \in Transport /\ Flags /\ usb \in [UsbSlots -> Transport]
  BY DEF UsbInv, UsbTyped
<1>1. CASE UsbSend(u) \/ UsbReceive(u)
  <2> DEFINE t == [r EXCEPT !.status = "Disconnected"]
  <2>1. t \in Transport
    BY <1>r DEF Transport
  <2>2. /\ t.phase = "open"
        /\ r.serial => t.serial
        /\ t.cleaned => r.cleaned
    BY <1>r, <1>1 DEF Transport, UsbSend, UsbReceive
  <2>3. Becomes(u, t)
    BY <1>1, <1>r, <2>1, <2>2 DEF UsbSend, UsbReceive, Becomes
  <2>4. Flags' /\ adbRules' = adbRules /\ stray' = stray
    BY <1>1, <1>r DEF UsbSend, UsbReceive, Flags
  <2> HIDE DEF t
  <2> QED BY <2>2, <2>3, <2>4, KeeperStays DEF Keeping
<1>2. CASE UsbClose(u)
  <2> DEFINE t == [r EXCEPT !.status = "Disconnected", !.writer = FALSE, !.cleaned = TRUE]
  <2>1. t \in Transport
    BY <1>r DEF Transport
  <2>2. t.phase = "open"
    BY <1>r, <1>2 DEF Transport, UsbClose
  <2>3. Becomes(u, t)
    BY <1>2, <1>r, <2>1, <2>2 DEF UsbClose, Becomes
  <2> HIDE DEF t
  <2> QED BY <1>2, <2>3, CleanupTakes, KeeperKept, NotTheKeeper DEF UsbClose, Keeper
<1>3. CASE UsbDrop(u)
  <2>1. Becomes(u, NoUsb)
    BY <1>3, NoUsbTyped DEF UsbDrop, Becomes
  <2> QED BY <1>3, <2>1, CleanupTakes, KeeperKept, NotTheKeeper DEF UsbDrop, Keeper
<1> QED BY <1>1, <1>2, <1>3

LEMMA SplitKeeps ==
  ASSUME UsbInv, NEW u \in UsbSlots,
         UsbSplit(u) \/ HalfFails(u) \/ WriteHalfClose(u) \/ DropHalf(u)
  PROVE  UsbInv'
<1> DEFINE r == usb[u]
<1>r. r \in Transport /\ Flags /\ usb \in [UsbSlots -> Transport]
  BY DEF UsbInv, UsbTyped
<1>1. CASE UsbSplit(u)
  <2> DEFINE t == [r EXCEPT !.phase = "split", !.halves = {"write", "read"},
                            !.shared = r.status = "Connected", !.cleaned = TRUE]
  <2>1. t \in Transport
    BY <1>r DEF Transport
  <2>2. t.phase = "split"
    BY <1>r DEF Transport
  <2>3. Becomes(u, t)
    BY <1>1, <1>r, <2>1, <2>2 DEF UsbSplit, Becomes
  <2> HIDE DEF t
  <2> QED BY <1>1, <2>3, CleanupTakes, KeeperKept, NotTheKeeper DEF UsbSplit, Keeper
<1>2. CASE HalfFails(u) \/ WriteHalfClose(u)
  <2>1. PICK t : Becomes(u, t)
    <3>1. CASE HalfFails(u)
      <4> DEFINE t == [r EXCEPT !.shared = FALSE]
      <4>1. t \in Transport /\ t.phase = "split"
        BY <3>1, <1>r DEF Transport, HalfFails
      <4> QED BY <3>1, <1>r, <4>1 DEF HalfFails, Becomes
    <3>2. CASE WriteHalfClose(u)
      <4> DEFINE t == [r EXCEPT !.shared = FALSE, !.writer = FALSE, !.cleaned = TRUE]
      <4>1. t \in Transport /\ t.phase = "split"
        BY <3>2, <1>r DEF Transport, WriteHalfClose
      <4> QED BY <3>2, <1>r, <4>1 DEF WriteHalfClose, Becomes
    <3> QED BY <1>2, <3>1, <3>2
  <2>2. ~Keeper(u)
    BY <1>2 DEF HalfFails, WriteHalfClose, Keeper, Keeping
  <2>3. /\ Flags'
        /\ "forward" \in adbRules' => "forward" \in adbRules /\ (stray => stray')
    BY <1>2, <1>r, CleanupTakes DEF HalfFails, WriteHalfClose, Flags
  <2> QED BY <2>1, <2>2, <2>3, NotTheKeeper
<1>3. CASE DropHalf(u)
  <2>1. PICK h \in r.halves :
          /\ usb' = [usb EXCEPT ![u] = IF r.halves = {h} THEN NoUsb
                                       ELSE [r EXCEPT !.halves = @ \ {h},
                                                      !.cleaned = IF h = "write" THEN TRUE ELSE @]]
          /\ RulesBecome(IF h = "write" THEN AfterCleanup(r, adbRules) ELSE adbRules)
    BY <1>3 DEF DropHalf
  <2>2. PICK t : Becomes(u, t)
    <3>1. CASE r.halves = {h}
      BY <2>1, <3>1, NoUsbTyped DEF Becomes
    <3>2. CASE r.halves # {h}
      <4> DEFINE t == [r EXCEPT !.halves = @ \ {h},
                                !.cleaned = IF h = "write" THEN TRUE ELSE @]
      <4>1. t \in Transport
        BY <1>r DEF Transport
      <4>2. t.phase = "split"
        BY <1>3, <1>r DEF Transport, DropHalf
      <4> QED BY <2>1, <3>2, <4>1, <4>2 DEF Becomes
    <3> QED BY <3>1, <3>2
  <2>3. ~Keeper(u) /\ UNCHANGED attached
    BY <1>3 DEF DropHalf, Keeper, Keeping
  <2>4. /\ Flags'
        /\ "forward" \in adbRules' => "forward" \in adbRules /\ (stray => stray')
    BY <2>1, <2>3, <1>r, CleanupTakes DEF RulesBecome, Flags
  <2> QED BY <2>2, <2>3, <2>4, NotTheKeeper
<1> QED BY <1>1, <1>2, <1>3

LEMMA UsbInvStep == UsbInv /\ [UsbNext]_usbVars => UsbInv'
<1> SUFFICES ASSUME UsbInv, [UsbNext]_usbVars PROVE UsbInv'
  OBVIOUS
<1>1. CASE UNCHANGED usbVars
  BY <1>1 DEF usbVars, UsbInv, UsbTyped, Flags, KeeperInv, Keeper
<1>2. CASE Unplug \/ PlugIn
  BY <1>2 DEF Unplug, PlugIn, RulesBecome, UsbInv, UsbTyped, Flags, KeeperInv, Keeper
<1> QED
  BY <1>1, <1>2, ConnectKeeps, DiscoverKeeps, ReconnectKeeps, UseKeeps, SplitKeeps
     DEF UsbNext

\* When the last transport goes, so does the forward rule, but for the two leftovers
\* UsbLeavesNoRule names, for any number of transports, polls and unplugs.
THEOREM TunnelsAreCleaned == UsbSpec => []UsbLeavesNoRule
<1>1. UsbInv => UsbLeavesNoRule
  BY DEF UsbInv, UsbTyped, KeeperInv, Keeper, Keeping, UsbLeavesNoRule
<1> QED BY <1>1, UsbInvInit, UsbInvStep, PTL DEF UsbSpec

-----------------------------------------------------------------------------
(* The Wi-Fi link: the halves of a split link, its heartbeat, its profile. *)

------------------------------------------------------------------------------
(* The Wi-Fi link.                                                           *)

WifiTyped ==
  /\ windows \in BOOLEAN /\ profile \in BOOLEAN /\ strayProfile \in BOOLEAN
  /\ wifiPhase \in {"none", "associating", "open", "reconnecting", "split"}
  /\ ends \in SUBSET Halves
  /\ up \in [Halves -> BOOLEAN] /\ half \in [Halves -> {"idle", "busy"}]
  /\ late \in [Halves -> 0 .. 2]

\* The age of the last frame is that of the stream, which a reconnect makes anew.
HeartbeatInv == sinceFrame = silence

\* The halves share one flag, and a half is at work only while there are halves.  A
\* half that has moved a frame too late has none under way and can begin none.
HalvesInv ==
  /\ \A g, h \in Halves : up[g] => up[h]
  /\ wifiPhase # "split" => \A h \in Halves : half[h] = "idle"
  /\ \A h \in Halves : /\ late[h] <= 1
                       /\ wifiPhase = "split" /\ late[h] # 0 => half[h] = "idle" /\ ~up[h]

\* Whoever uses the link as a transport will delete the profile.
ProfileInv == wifiPhase \in {"none", "split"} /\ profile => strayProfile

WifiInv == WifiTyped /\ HeartbeatInv /\ HalvesInv /\ ProfileInv

\* The steps of the transport before it is split, which leave the halves alone.
LinkNext ==
  \/ WifiTick \/ Associate \/ WifiConnectFails \/ WifiConnects \/ WifiDrop \/ WifiClose
  \/ WifiSendFails \/ WifiReceive \/ HeartbeatFails \/ WifiReconnectBegins
  \/ WifiReconnects \/ WifiReconnectFails

LEMMA LinkShape ==
  ASSUME LinkNext, WifiTyped
  PROVE  /\ UNCHANGED <<windows, halfVars>>
         /\ wifiPhase # "split" /\ wifiPhase' # "split"
         /\ profile' \in BOOLEAN /\ strayProfile' \in BOOLEAN /\ ends' \in SUBSET Halves
         /\ wifiPhase' \in {"none", "associating", "open", "reconnecting"}
         /\ wifiPhase' = "none" /\ profile' => strayProfile' \/ wifiPhase = "none"
         /\ wifiPhase' = "none" /\ wifiPhase = "none" => UNCHANGED <<profile, strayProfile>>
<1> USE DEF WifiTyped, halfVars, linkVars
<1>1. CASE WifiTick
  BY <1>1 DEF WifiTick
<1>2. CASE Associate
  BY <1>2 DEF Associate
<1>3. CASE WifiConnectFails
  BY <1>3 DEF WifiConnectFails
<1>4. CASE WifiConnects
  BY <1>4 DEF WifiConnects
<1>5. CASE WifiDrop \/ WifiClose \/ WifiSendFails \/ WifiReceive
  BY <1>5 DEF WifiDrop, WifiClose, WifiSendFails, WifiReceive
<1>6. CASE HeartbeatFails \/ WifiReconnectBegins
  BY <1>6 DEF HeartbeatFails, WifiReconnectBegins
<1>7. CASE WifiReconnects \/ WifiReconnectFails
  BY <1>7 DEF WifiReconnects, WifiReconnectFails, Rejoined
<1> QED BY <1>1, <1>2, <1>3, <1>4, <1>5, <1>6, <1>7 DEF LinkNext

LEMMA LinkKeeps == WifiInv /\ LinkNext => WifiInv'
<1> SUFFICES ASSUME WifiInv, LinkNext PROVE WifiInv'
  OBVIOUS
<1> USE DEF WifiInv
<1>1. WifiTyped'
  BY LinkShape DEF WifiTyped, halfVars
<1>2. HeartbeatInv'
  <2> USE DEF HeartbeatInv
  <2>1. CASE WifiTick
    BY <2>1 DEF WifiTick
  <2>2. CASE WifiConnects \/ WifiReconnects \/ WifiReceive
    BY <2>2 DEF WifiConnects, WifiReconnects, WifiReceive
  <2>3. CASE Associate \/ WifiConnectFails \/ WifiDrop \/ WifiClose \/ WifiSendFails
    BY <2>3 DEF Associate, WifiConnectFails, WifiDrop, WifiClose, WifiSendFails
  <2>4. CASE HeartbeatFails \/ WifiReconnectBegins \/ WifiReconnectFails
    BY <2>4 DEF HeartbeatFails, WifiReconnectBegins, WifiReconnectFails
  <2> QED BY <2>1, <2>2, <2>3, <2>4 DEF LinkNext
<1>3. HalvesInv'
  BY LinkShape DEF HalvesInv, halfVars
<1>4. ProfileInv'
  BY LinkShape DEF ProfileInv
<1> QED BY <1>1, <1>2, <1>3, <1>4

\* A call that joins the hotspot without a transport.
LEMMA ElsewhereKeeps == WifiInv /\ AssociatedElsewhere => WifiInv'
BY DEF WifiInv, WifiTyped, HeartbeatInv, HalvesInv, ProfileInv, AssociatedElsewhere,
       linkVars, halfVars

LEMMA HalvesSplit == WifiInv /\ Split => WifiInv'
<1> SUFFICES ASSUME WifiInv, Split PROVE WifiInv'
  OBVIOUS
<1> USE DEF WifiInv
<1>1. WifiTyped'
  <2>1. up' \in [Halves -> BOOLEAN]
    BY ZenonT(20) DEF Split
  <2>2. late' \in [Halves -> 0 .. 2]
    BY DEF Split
  <2> QED BY <2>1, <2>2 DEF WifiTyped, Split, linkVars
<1>2. HeartbeatInv' /\ ProfileInv'
  BY DEF HeartbeatInv, ProfileInv, Split
<1>3. HalvesInv'
  BY DEF HalvesInv, Split
<1> QED BY <1>1, <1>2, <1>3

\* A step of the halves: what it may do to the flag, to a half and to its late frames.
HalvesNext ==
  \/ \E h \in Halves : HalfBegins(h) \/ HalfMoves(h) \/ HalfErrs(h)
  \/ ReadCancelled \/ WriteHalfCloses \/ HalvesDropped

LEMMA HalvesKeep == WifiInv /\ HalvesNext => WifiInv'
<1> SUFFICES ASSUME WifiInv, HalvesNext PROVE WifiInv'
  OBVIOUS
<1> USE DEF WifiInv
<1>1. UNCHANGED restVars /\ wifiPhase = "split" /\ wifiPhase' \in {"split", "none"}
  BY DEF HalvesNext, HalfBegins, HalfMoves, HalfErrs, ReadCancelled, WriteHalfCloses,
         HalvesDropped
<1>2. HeartbeatInv' /\ ProfileInv'
  BY <1>1 DEF HeartbeatInv, ProfileInv, restVars
<1>3. WifiTyped' /\ HalvesInv'
  <2> USE <1>1 DEF WifiTyped, HalvesInv, restVars, linkVars
  <2>1. ASSUME NEW h \in Halves, HalfBegins(h) PROVE WifiTyped' /\ HalvesInv'
    BY <2>1 DEF HalfBegins
  <2>2. ASSUME NEW h \in Halves, HalfMoves(h) PROVE WifiTyped' /\ HalvesInv'
    <3>1. late[h] = 0
      BY <2>2 DEF HalfMoves
    <3>2. half' = [half EXCEPT ![h] = "idle"] /\ UNCHANGED <<ends, up, wifiPhase>>
      BY <2>2 DEF HalfMoves
    <3>3. CASE \A g \in Halves : up[g]
      <4>1. late' = [late EXCEPT ![h] = 0]
        BY <2>2, <3>1, <3>3 DEF HalfMoves
      <4> QED BY <3>2, <4>1
    <3>4. CASE \E g \in Halves : ~up[g]
      <4>a. ~(\A g \in Halves : up[g]) /\ late[h] # 2 /\ late[h] + 1 = 1
        BY <3>1, <3>4
      <4>1. late' = [late EXCEPT ![h] = 1]
        BY <2>2, <4>a, Zenon DEF HalfMoves
      <4>2. \A g \in Halves : ~up[g]
        BY <3>4
      <4> QED BY <3>2, <4>1, <4>2
    <3> QED BY <3>3, <3>4
  <2>3. ASSUME NEW h \in Halves, HalfErrs(h) PROVE WifiTyped' /\ HalvesInv'
    BY <2>3 DEF HalfErrs
  <2>4. CASE ReadCancelled
    BY <2>4 DEF ReadCancelled, Halves
  <2>5. CASE WriteHalfCloses
    BY <2>5 DEF WriteHalfCloses
  <2>6. CASE HalvesDropped
    BY <2>6 DEF HalvesDropped
  <2> QED BY <2>1, <2>2, <2>3, <2>4, <2>5, <2>6 DEF HalvesNext
<1> QED BY <1>2, <1>3

LEMMA WifiInvHolds == WifiSpec => []WifiInv
<1>1. WifiInit => WifiInv
  <2> SUFFICES ASSUME WifiInit PROVE WifiInv
    OBVIOUS
  <2>1. up \in [Halves -> BOOLEAN]
    BY DEF WifiInit
  <2>2. late \in [Halves -> 0 .. 2] /\ half \in [Halves -> {"idle", "busy"}]
    BY DEF WifiInit
  <2>3. WifiTyped
    BY <2>1, <2>2 DEF WifiInit, WifiTyped
  <2> QED BY <2>3 DEF WifiInit, WifiInv, HeartbeatInv, HalvesInv, ProfileInv
<1>2. WifiInv /\ [WifiNext]_wifiVars => WifiInv'
  <2> SUFFICES ASSUME WifiInv, [WifiNext]_wifiVars PROVE WifiInv'
    OBVIOUS
  <2>1. CASE UNCHANGED wifiVars
    BY <2>1 DEF wifiVars, linkVars, WifiInv, WifiTyped, HeartbeatInv, HalvesInv, ProfileInv
  <2>2. LinkNext \/ AssociatedElsewhere \/ Split \/ HalvesNext \/ UNCHANGED wifiVars
    BY DEF WifiNext, LinkNext, HalvesNext
  <2> QED BY <2>1, <2>2, LinkKeeps, ElsewhereKeeps, HalvesSplit, HalvesKeep
<1> QED BY <1>1, <1>2, PTL DEF WifiSpec

\* The heartbeat never kills a link for the silence of the one before it, whatever
\* the timeout and the number of reconnects (transport/wifi_direct.rs:186).
THEOREM HeartbeatKillsTheDead == WifiSpec => HeartbeatIsFair
<1>1. WifiInv /\ [WifiNext]_wifiVars => [HeartbeatFails => silence > HeartbeatTicks]_wifiVars
  BY DEF WifiInv, HeartbeatInv, HeartbeatFails
<1> QED BY <1>1, WifiInvHolds, PTL DEF WifiSpec, HeartbeatIsFair

\* Neither half of a link moves more than the frame it had begun once the other has
\* failed (transport/wifi_direct.rs:763).
THEOREM DeadLinkStops == WifiSpec => []OneDeadHalfStopsBoth
<1>1. WifiInv => OneDeadHalfStopsBoth
  BY DEF WifiInv, HalvesInv, OneDeadHalfStopsBoth
<1> QED BY <1>1, WifiInvHolds, PTL

\* A transport never leaves the passphrase of the hotspot behind, split or dropped: what
\* is left was added without one, or by a connect that failed, since the last
\* clean-up (transport/wifi_direct.rs:541).
THEOREM ProfileGoesWithTheLink == WifiSpec => []NoProfileLeft
<1>1. WifiInv => NoProfileLeft
  BY DEF WifiInv, ProfileInv, NoProfileLeft
<1> QED BY <1>1, WifiInvHolds, PTL

-----------------------------------------------------------------------------
(* Receive mode: the listeners, and the directions of their tunnels.       *)

------------------------------------------------------------------------------
(* Receive mode: the listeners.                                              *)

ListenersTyped ==
  /\ enterPc \in [Enters -> {"idle", "binding", "spawned", "ok", "failed"}]
  /\ enterPort \in [Enters -> ReceivePorts]
  /\ listener \in [Enters -> {"none", "running", "stopping", "ended"}]
  /\ listeners \in [ReceivePorts -> Enters \cup {0}]
  /\ clobbered \in BOOLEAN

\* A call has no loop before its bind, a handle is in the map under the address of
\* its call, and no two loops hold one address.
LoopInv ==
  /\ \A i \in Enters : listener[i] # "none" => enterPc[i] \in {"spawned", "ok"}
  /\ \A p \in ReceivePorts : listeners[p] # 0 =>
       enterPort[listeners[p]] = p /\ enterPc[listeners[p]] = "ok"
  /\ \A i, j \in Enters :
       /\ listener[i] \in {"running", "stopping"} /\ listener[j] \in {"running", "stopping"}
       /\ enterPort[i] = enterPort[j]
       => i = j

ListenersInv == ListenersTyped /\ LoopInv /\ ListenerCanBeStopped

loopsSeen == <<enterPc, enterPort, listener, listeners, clobbered>>

LEMMA ListenersUntouched == ListenersInv /\ UNCHANGED loopsSeen => ListenersInv'
BY DEF ListenersInv, ListenersTyped, LoopInv, ListenerCanBeStopped, loopsSeen

LEMMA EnterKeepsListeners ==
  ASSUME ListenersInv, NEW i \in Enters,
         EnterBegins(i) \/ EnterRefused(i) \/ EnterSpawns(i) \/ EnterInserts(i)
  PROVE  ListenersInv'
<1> USE ReceiveAssumption DEF ListenersInv, ListenersTyped
<1>1. CASE EnterBegins(i)
  <2>1. PICK p \in ReceivePorts, pc \in {"ok", "binding"} :
          /\ enterPort' = [enterPort EXCEPT ![i] = p]
          /\ enterPc' = [enterPc EXCEPT ![i] = pc]
    BY <1>1 DEF EnterBegins
  <2>2. enterPc[i] = "idle" /\ UNCHANGED <<listener, listeners, clobbered>>
    BY <1>1 DEF EnterBegins, loopVars
  <2>3. listener[i] = "none" /\ \A q \in ReceivePorts : listeners[q] # i
    BY <2>2 DEF LoopInv
  <2>4. ListenersTyped'
    BY <2>1, <2>2
  <2>5. LoopInv'
    BY <2>1, <2>2, <2>3 DEF LoopInv
  <2>6. ListenerCanBeStopped'
    BY <2>1, <2>2, <2>3 DEF ListenerCanBeStopped
  <2> QED BY <2>4, <2>5, <2>6
<1>2. CASE EnterRefused(i)
  <2>1. PICK pc \in {"ok", "failed"} : enterPc' = [enterPc EXCEPT ![i] = pc]
    BY <1>2 DEF EnterRefused
  <2>2. /\ enterPc[i] = "binding" /\ UNCHANGED <<enterPort, listener, listeners, clobbered>>
    BY <1>2 DEF EnterRefused, loopVars
  <2>3. listener[i] = "none" /\ \A q \in ReceivePorts : listeners[q] # i
    BY <2>2 DEF LoopInv
  <2> QED BY <2>1, <2>2, <2>3 DEF LoopInv, ListenerCanBeStopped
<1>3. CASE EnterSpawns(i)
  <2>1. /\ enterPc[i] = "binding" /\ ~PortTaken(enterPort[i])
        /\ enterPc' = [enterPc EXCEPT ![i] = "spawned"]
        /\ listener' = [listener EXCEPT ![i] = "running"]
        /\ UNCHANGED <<enterPort, listeners, clobbered>>
    BY <1>3 DEF EnterSpawns, SpawnsWith
  <2>2. \A j \in Enters : listener[j] \in {"running", "stopping"} => enterPort[j] # enterPort[i]
    BY <2>1 DEF PortTaken
  <2>3. \A q \in ReceivePorts : listeners[q] # i
    BY <2>1 DEF LoopInv
  <2> QED BY <2>1, <2>2, <2>3 DEF LoopInv, ListenerCanBeStopped
<1>4. CASE EnterInserts(i)
  <2> DEFINE p == enterPort[i]
             old == listeners[p]
  <2>1. /\ enterPc[i] = "spawned" /\ enterPc' = [enterPc EXCEPT ![i] = "ok"]
        /\ listeners' = [listeners EXCEPT ![p] = i]
        /\ clobbered' = (clobbered \/ (old # 0 /\ listener[old] = "running"))
        /\ UNCHANGED <<enterPort, listener>>
    BY <1>4 DEF EnterInserts
  <2>2. p \in ReceivePorts /\ i # 0
    OBVIOUS
  <2>3. ListenersTyped'
    BY <2>1, <2>2
  <2>4. LoopInv'
    BY <2>1, <2>2 DEF LoopInv
  <2>5. ListenerCanBeStopped'
    <3> SUFFICES ASSUME NEW j \in Enters, listener[j] = "running", ~clobbered',
                        enterPc'[j] # "spawned"
                 PROVE  listeners'[enterPort[j]] = j
      BY <2>1 DEF ListenerCanBeStopped
    <3>1. CASE j = i
      BY <2>1, <2>2, <3>1
    <3>2. CASE j # i
      <4>1. listeners[enterPort[j]] = j
        BY <2>1, <3>2 DEF ListenerCanBeStopped
      <4>2. enterPort[j] # p
        BY <2>1, <4>1
      <4> QED BY <2>1, <4>1, <4>2
    <3> QED BY <3>1, <3>2
  <2> QED BY <2>3, <2>4, <2>5
<1> QED BY <1>1, <1>2, <1>3, <1>4

LEMMA LoopKeepsListeners ==
  ASSUME ListenersInv, NEW i \in Enters, AcceptFails(i) \/ LoopEnds(i)
  PROVE  ListenersInv'
<1> USE ReceiveAssumption DEF ListenersInv, ListenersTyped
<1>1. CASE AcceptFails(i)
  <2>1. /\ listener[i] = "running"
        /\ listener' = [listener EXCEPT ![i] = "ended"]
        /\ listeners' = [listeners EXCEPT ![enterPort[i]] = 0]
        /\ UNCHANGED <<enterPc, enterPort, clobbered>>
    BY <1>1 DEF AcceptFails, enterVars
  <2>2. \A j \in Enters \ {i} : listener[j] = "running" => enterPort[j] # enterPort[i]
    BY <2>1 DEF LoopInv
  <2>3. LoopInv'
    BY <2>1 DEF LoopInv
  <2>4. ListenerCanBeStopped'
    BY <2>1, <2>2 DEF ListenerCanBeStopped
  <2> QED BY <2>1, <2>3, <2>4
<1>2. CASE LoopEnds(i)
  <2>1. /\ listener[i] = "stopping" /\ listener' = [listener EXCEPT ![i] = "ended"]
        /\ UNCHANGED <<enterPc, enterPort, listeners, clobbered>>
    BY <1>2 DEF LoopEnds, enterVars
  <2> QED BY <2>1 DEF LoopInv, ListenerCanBeStopped
<1> QED BY <1>1, <1>2

LEMMA LeaveKeepsListeners ==
  ASSUME ListenersInv, NEW ports \in SUBSET ReceivePorts, Leave(ports)
  PROVE  ListenersInv'
<1> USE ReceiveAssumption DEF ListenersInv, ListenersTyped
<1> DEFINE stopped == {listeners[p] : p \in ports} \ {0}
<1>1. /\ listener' = [i \in Enters |-> IF i \in stopped /\ listener[i] = "running"
                                       THEN "stopping" ELSE listener[i]]
      /\ listeners' = [p \in ReceivePorts |-> IF p \in ports THEN 0 ELSE listeners[p]]
      /\ UNCHANGED <<enterPc, enterPort, clobbered>>
  BY DEF Leave, enterVars
<1>2. \A i \in Enters : \/ listener'[i] = listener[i] /\ ~(i \in stopped /\ listener[i] = "running")
                        \/ listener[i] = "running" /\ listener'[i] = "stopping"
  BY <1>1
<1>3. ListenersTyped'
  <2>1. \A i \in Enters : listener'[i] \in {"none", "running", "stopping", "ended"}
    BY <1>2
  <2> QED BY <1>1, <2>1
<1>4. LoopInv'
  BY <1>1, <1>2 DEF LoopInv
<1>5. ListenerCanBeStopped'
  <2> SUFFICES ASSUME NEW i \in Enters, listener'[i] = "running", ~clobbered,
                      enterPc[i] # "spawned"
               PROVE  listeners'[enterPort[i]] = i
    BY <1>1 DEF ListenerCanBeStopped
  <2>1. listener[i] = "running" /\ i \notin stopped
    BY <1>2
  <2>2. listeners[enterPort[i]] = i
    BY <2>1 DEF ListenerCanBeStopped
  <2>3. enterPort[i] \notin ports
    BY <2>1, <2>2
  <2> QED BY <1>1, <2>2, <2>3
<1> QED BY <1>3, <1>4, <1>5

LEMMA LeaveIsOfPorts ==
  (\E p \in ReceivePorts : LeaveOne(p)) \/ LeaveAll
    => \E ports \in SUBSET ReceivePorts : Leave(ports)
BY DEF LeaveOne, LeaveAll, SamePort

LEMMA TunnelsLeaveListeners ==
  ASSUME NEW u, ScanBegins(u) \/ SendPrepares(u) \/ TurnStep(u)
  PROVE  UNCHANGED loopsSeen
BY DEF ScanBegins, SendPrepares, TurnStep, enterVars, loopVars, loopsSeen

\* Every loop that accepts connections can be stopped, for any number of calls and
\* addresses, unless a dead handle was put over a live one (transfer/receiver.rs:209).
THEOREM ListenersCanBeStopped == ReceiveSpec => []ListenerCanBeStopped
<1>1. ReceiveInit => ListenersInv
  <2> SUFFICES ASSUME ReceiveInit PROVE ListenersInv
    OBVIOUS
  <2>1. ListenersTyped
    BY ReceiveAssumption DEF ReceiveInit, ListenersTyped
  <2>2. LoopInv /\ ListenerCanBeStopped
    BY DEF ReceiveInit, LoopInv, ListenerCanBeStopped
  <2> QED BY <2>1, <2>2 DEF ListenersInv
<1>2. ListenersInv /\ [ReceiveNext]_receiveVars => ListenersInv'
  <2> SUFFICES ASSUME ListenersInv, [ReceiveNext]_receiveVars PROVE ListenersInv'
    OBVIOUS
  <2>1. CASE UNCHANGED receiveVars
    BY <2>1, ListenersUntouched DEF receiveVars, enterVars, loopVars, loopsSeen
  <2>2. CASE \E i \in Enters : \/ EnterBegins(i) \/ EnterRefused(i) \/ EnterSpawns(i)
                               \/ EnterInserts(i)
    BY <2>2, EnterKeepsListeners
  <2>3. CASE \E i \in Enters : AcceptFails(i) \/ LoopEnds(i)
    BY <2>3, LoopKeepsListeners
  <2>4. CASE (\E p \in ReceivePorts : LeaveOne(p)) \/ LeaveAll
    BY <2>4, LeaveIsOfPorts, LeaveKeepsListeners
  <2>5. CASE \/ \E u \in Scans : ScanBegins(u) \/ SendPrepares(u)
             \/ \E u \in Turners : TurnStep(u)
    BY <2>5, ListenersUntouched, TunnelsLeaveListeners
  <2> QED BY <2>1, <2>2, <2>3, <2>4, <2>5 DEF ReceiveNext
<1>3. ListenersInv => ListenerCanBeStopped
  BY DEF ListenersInv
<1> QED BY <1>1, <1>2, <1>3, PTL DEF ReceiveSpec

------------------------------------------------------------------------------
(* Receive mode: the tunnels.                                                *)

\* The commands of a turn: first the rule against the new direction goes, then the rule
\* of that direction comes.
Turns    == {<<>>, ToReceive, ToSend, <<"reverse">>, <<"forward">>}
Commands == {"unforward", "reverse", "unreverse", "forward"}

TunnelTyped ==
  /\ tunnel \in SUBSET BothDirections /\ overlapped \in BOOLEAN
  /\ turn \in [Turners -> Turns]

Turning(u, rule) == turn[u] # <<>> /\ Head(turn[u]) = rule

\* While the users come one at a time, no command sets a rule beside the other.
TurnInv ==
  ~overlapped =>
    /\ \A u, v \in Turners : turn[u] # <<>> /\ turn[v] # <<>> => u = v
    /\ tunnel # BothDirections
    /\ \A u \in Turners : /\ Turning(u, "reverse") => "forward" \notin tunnel
                          /\ Turning(u, "forward") => "reverse" \notin tunnel

TunnelInv == TunnelTyped /\ TurnInv

LEMMA TunnelUntouched == TunnelInv /\ UNCHANGED tunnelVars => TunnelInv'
BY DEF TunnelInv, TunnelTyped, TurnInv, Turning, tunnelVars

\* A command that takes the other rule away is followed by the one that sets its own,
\* and that one by nothing.
LEMMA TurnsShape ==
  /\ <<>> \in Turns /\ ToReceive \in Turns /\ ToSend \in Turns
  /\ Head(ToReceive) = "unforward" /\ Head(ToSend) = "unreverse"
  /\ Head(<<"reverse">>) = "reverse" /\ Head(<<"forward">>) = "forward"
  /\ \A s \in Turns : s # <<>> =>
       /\ Head(s) \in Commands /\ Tail(s) \in Turns
       /\ Head(s) = "unforward" => Tail(s) = <<"reverse">>
       /\ Head(s) = "unreverse" => Tail(s) = <<"forward">>
       /\ Head(s) \in {"reverse", "forward"} => Tail(s) = <<>>
<1>1. ASSUME NEW a, NEW b
      PROVE  /\ Head(<<a, b>>) = a /\ Tail(<<a, b>>) = <<b>>
             /\ Head(<<b>>) = b /\ Tail(<<b>>) = <<>>
  OBVIOUS
<1>2. /\ <<>> \in Turns /\ ToReceive \in Turns /\ ToSend \in Turns
      /\ <<"reverse">> \in Turns /\ <<"forward">> \in Turns
  BY DEF Turns
<1>3. /\ Head(ToReceive) = "unforward" /\ Tail(ToReceive) = <<"reverse">>
      /\ Head(ToSend) = "unreverse" /\ Tail(ToSend) = <<"forward">>
      /\ Head(<<"reverse">>) = "reverse" /\ Tail(<<"reverse">>) = <<>>
      /\ Head(<<"forward">>) = "forward" /\ Tail(<<"forward">>) = <<>>
  BY <1>1 DEF ToReceive, ToSend
<1>4. ASSUME NEW s \in Turns, s # <<>>
      PROVE  /\ Head(s) \in Commands /\ Tail(s) \in Turns
             /\ Head(s) = "unforward" => Tail(s) = <<"reverse">>
             /\ Head(s) = "unreverse" => Tail(s) = <<"forward">>
             /\ Head(s) \in {"reverse", "forward"} => Tail(s) = <<>>
  <2>1. CASE s = ToReceive
    BY <1>2, <1>3, <2>1 DEF Commands
  <2>2. CASE s = ToSend
    BY <1>2, <1>3, <2>2 DEF Commands
  <2>3. CASE s = <<"reverse">>
    BY <1>2, <1>3, <2>3 DEF Commands
  <2>4. CASE s = <<"forward">>
    BY <1>2, <1>3, <2>4 DEF Commands
  <2> QED BY <1>4, <2>1, <2>2, <2>3, <2>4, Zenon DEF Turns
<1> QED BY <1>2, <1>3, <1>4

\* A turn begins with the command that takes the other rule away.
LEMMA BeginKeepsTunnel ==
  ASSUME TunnelInv, NEW u \in Turners, NEW commands \in {ToReceive, ToSend},
         TurnBegins(u, commands), UNCHANGED tunnel
  PROVE  TunnelInv'
<1> USE DEF TunnelInv, TunnelTyped
<1>1. /\ turn' = [turn EXCEPT ![u] = commands]
      /\ overlapped' = (overlapped \/ Busy(u))
  BY DEF TurnBegins
<1>2. commands \in Turns /\ Head(commands) \notin {"reverse", "forward"}
  BY TurnsShape
<1>3. TunnelTyped'
  <2>1. turn' \in [Turners -> Turns]
    BY <1>1, <1>2
  <2>2. overlapped' \in BOOLEAN
    BY <1>1, Zenon DEF Busy
  <2> QED BY <2>1, <2>2
<1>4. TurnInv'
  <2> SUFFICES ASSUME ~overlapped' PROVE TurnInv'
    BY DEF TurnInv
  <2>1. ~overlapped /\ \A v \in Turners \ {u} : turn'[v] = <<>>
    BY <1>1 DEF Busy
  <2>2. \A v \in Turners : turn'[v] # <<>> => v = u
    BY <2>1
  <2>3. \A v \in Turners : ~Turning(v, "reverse")' /\ ~Turning(v, "forward")'
    BY <1>1, <1>2, <2>2 DEF Turning
  <2> QED BY <2>1, <2>2, <2>3 DEF TurnInv
<1> QED BY <1>3, <1>4

LEMMA SpawnKeepsTunnel ==
  ASSUME TunnelInv, NEW i \in Enters, EnterSpawns(i)
  PROVE  TunnelInv'
<1>1. CASE TurnBegins(i, ToReceive)
  BY <1>1, BeginKeepsTunnel DEF EnterSpawns, SpawnsWith, Turners
<1>2. CASE UNCHANGED <<turn, overlapped>>
  BY <1>2 DEF EnterSpawns, SpawnsWith, TunnelInv, TunnelTyped, TurnInv, Turning
<1> QED BY <1>1, <1>2 DEF EnterSpawns, SpawnsWith

LEMMA BeginsKeepTunnel ==
  ASSUME TunnelInv, NEW u \in Scans, ScanBegins(u) \/ SendPrepares(u)
  PROVE  TunnelInv'
<1>1. PICK commands \in {ToReceive, ToSend} : TurnBegins(u, commands) /\ UNCHANGED tunnel
  <2>1. CASE ScanBegins(u)
    <3>1. CASE Receiving
      BY <2>1, <3>1 DEF ScanBegins
    <3>2. CASE ~Receiving
      BY <2>1, <3>2 DEF ScanBegins
    <3> QED BY <3>1, <3>2
  <2>2. CASE SendPrepares(u)
    BY <2>2 DEF SendPrepares
  <2> QED BY <2>1, <2>2
<1> QED BY <1>1, BeginKeepsTunnel DEF Turners

\* One command of one user: the others have none while the users come one at a time.
LEMMA StepKeepsTunnel ==
  ASSUME TunnelInv, NEW u \in Turners, TurnStep(u)
  PROVE  TunnelInv'
<1> DEFINE rule == Head(turn[u])
<1> USE DEF TunnelInv, TunnelTyped
<1>1. /\ turn[u] # <<>> /\ tunnel' = After(rule)
      /\ turn' = [turn EXCEPT ![u] = Tail(@)] \/ (rule = "forward" /\ turn' = turn)
      /\ overlapped' = (overlapped /\ (tunnel' = BothDirections
                                       \/ \E v \in Turners : turn'[v] # <<>>))
  BY DEF TurnStep
<1>2. /\ rule \in Commands /\ Tail(turn[u]) \in Turns
      /\ rule = "unforward" => Tail(turn[u]) = <<"reverse">>
      /\ rule = "unreverse" => Tail(turn[u]) = <<"forward">>
      /\ rule \in {"reverse", "forward"} => Tail(turn[u]) = <<>>
  BY <1>1, TurnsShape
<1>3. /\ rule = "unforward" => tunnel' = tunnel \ {"forward"}
      /\ rule = "unreverse" => tunnel' = tunnel \ {"reverse"}
      /\ rule = "reverse" => tunnel' = tunnel \cup {"reverse"}
      /\ rule = "forward" => tunnel' = tunnel \cup {"forward"}
  BY <1>1 DEF After
<1>4. TunnelTyped'
  <2>1. turn' \in [Turners -> Turns]
    BY <1>1, <1>2
  <2>2. tunnel' \in SUBSET BothDirections
    BY <1>2, <1>3 DEF Commands, BothDirections
  <2>3. overlapped' \in BOOLEAN
    BY <1>1, Zenon
  <2> QED BY <2>1, <2>2, <2>3
<1>5. TurnInv'
  <2> SUFFICES ASSUME ~overlapped' PROVE TurnInv'
    BY DEF TurnInv
  <2>1. CASE overlapped
    <3>1. tunnel' # BothDirections /\ \A v \in Turners : turn'[v] = <<>>
      BY <1>1, <2>1, Zenon
    <3> QED BY <3>1 DEF TurnInv, Turning
  <2>2. CASE ~overlapped
    <3>1. \A v \in Turners \ {u} : turn[v] = <<>> /\ turn'[v] = <<>>
      BY <1>1, <2>2 DEF TurnInv
    <3>2. /\ rule = "reverse" => "forward" \notin tunnel
          /\ rule = "forward" => "reverse" \notin tunnel
      BY <1>1, <2>2 DEF TurnInv, Turning
    <3>3. tunnel # BothDirections
      BY <2>2 DEF TurnInv
    <3>4. tunnel' # BothDirections
      BY <1>2, <1>3, <3>2, <3>3 DEF Commands, BothDirections
    <3>5. turn'[u] = Tail(turn[u]) \/ (rule = "forward" /\ turn'[u] = turn[u])
      BY <1>1
    <3> HIDE DEF rule
    <3>6. /\ Turning(u, "reverse")' => "forward" \notin tunnel'
          /\ Turning(u, "forward")' => "reverse" \notin tunnel'
      <4>1. CASE rule = "unforward"
        BY <1>2, <1>3, <3>5, <4>1, TurnsShape DEF Turning
      <4>2. CASE rule = "unreverse"
        BY <1>2, <1>3, <3>5, <4>2, TurnsShape DEF Turning
      <4>3. CASE rule = "reverse"
        BY <1>2, <3>5, <4>3 DEF Turning
      <4>4. CASE rule = "forward"
        BY <1>2, <1>3, <3>2, <3>5, <4>4 DEF Turning, rule
      <4> QED BY <1>2, <4>1, <4>2, <4>3, <4>4 DEF Commands
    <3>7. \A v \in Turners : turn'[v] # <<>> => v = u
      BY <3>1
    <3>8. \A v \in Turners : /\ Turning(v, "reverse")' => "forward" \notin tunnel'
                             /\ Turning(v, "forward")' => "reverse" \notin tunnel'
      BY <3>6, <3>7 DEF Turning
    <3> QED BY <3>4, <3>7, <3>8 DEF TurnInv
  <2> QED BY <2>1, <2>2
<1> QED BY <1>4, <1>5

LEMMA LeaveKeepsTunnel ==
  ASSUME TunnelInv, NEW ports, Leave(ports)
  PROVE  TunnelInv'
<1>1. tunnel' \in {{}, tunnel} /\ UNCHANGED <<turn, overlapped>>
  BY DEF Leave
<1> QED BY <1>1 DEF TunnelInv, TunnelTyped, TurnInv, Turning, BothDirections

LEMMA ListenersLeaveTunnel ==
  ASSUME NEW i \in Enters,
         \/ EnterBegins(i) \/ EnterRefused(i) \/ EnterInserts(i)
         \/ AcceptFails(i) \/ LoopEnds(i)
  PROVE  UNCHANGED tunnelVars
BY DEF EnterBegins, EnterRefused, EnterInserts, AcceptFails, LoopEnds

\* The port has rules in both directions only while users turn the tunnel at once, or
\* have done so with nobody turning it since: for any number of calls, scans, sends and
\* polls (transfer/receiver.rs:787, transfer/discovery.rs:106, adb.rs:455).
THEOREM TunnelsHaveOneDirection == ReceiveSpec => []OneDirection
<1>1. ReceiveInit => TunnelInv
  <2> SUFFICES ASSUME ReceiveInit PROVE TunnelInv
    OBVIOUS
  <2>1. turn = [u \in Turners |-> <<>>] /\ tunnel = {} /\ overlapped = FALSE
    BY DEF ReceiveInit
  <2>2. TunnelTyped
    BY <2>1, TurnsShape DEF TunnelTyped
  <2>3. TurnInv
    BY <2>1 DEF TurnInv, Turning, BothDirections
  <2> QED BY <2>2, <2>3 DEF TunnelInv
<1>2. TunnelInv /\ [ReceiveNext]_receiveVars => TunnelInv'
  <2> SUFFICES ASSUME TunnelInv, [ReceiveNext]_receiveVars PROVE TunnelInv'
    OBVIOUS
  <2>1. CASE UNCHANGED receiveVars
    BY <2>1, TunnelUntouched DEF receiveVars
  <2>2. CASE \E i \in Enters : EnterSpawns(i)
    BY <2>2, SpawnKeepsTunnel
  <2>3. CASE \E i \in Enters : \/ EnterBegins(i) \/ EnterRefused(i) \/ EnterInserts(i)
                               \/ AcceptFails(i) \/ LoopEnds(i)
    BY <2>3, TunnelUntouched, ListenersLeaveTunnel
  <2>4. CASE (\E p \in ReceivePorts : LeaveOne(p)) \/ LeaveAll
    BY <2>4, LeaveIsOfPorts, LeaveKeepsTunnel
  <2>5. CASE \E u \in Scans : ScanBegins(u) \/ SendPrepares(u)
    BY <2>5, BeginsKeepTunnel
  <2>6. CASE \E u \in Turners : TurnStep(u)
    BY <2>6, StepKeepsTunnel
  <2> QED BY <2>1, <2>2, <2>3, <2>4, <2>5, <2>6 DEF ReceiveNext
<1>3. TunnelInv => OneDirection
  BY DEF TunnelInv, TunnelTyped, TurnInv, OneDirection
<1> QED BY <1>1, <1>2, <1>3, PTL DEF ReceiveSpec

-----------------------------------------------------------------------------
(* The framed stream: the bytes that are held are those that were sent.    *)

------------------------------------------------------------------------------
(* Frames over the stream.                                                   *)

Byte == Nat \X Nat

FramesTyped ==
  /\ frames \in Seq(FrameKinds) /\ headerAt \in Nat /\ payloadAt \in Nat
  /\ sending \in BOOLEAN /\ writerEnd \in {"open", "closed", "failed"}
  /\ wire \in Seq(Byte) /\ buffer \in Seq(Byte) /\ got \in Seq(Nat)
  /\ reading \in BOOLEAN /\ readerEnd \in {"open", "clean", "error"}

\* Bytes written of the last frame.
Written == headerAt + payloadAt

\* The payload follows the header, and a frame is written whole before the next one.
OffsetInv ==
  /\ frames = <<>> => Written = 0
  /\ frames # <<>> =>
       /\ headerAt <= Kind.header /\ payloadAt <= Kind.payload
       /\ payloadAt > 0 => headerAt = Kind.header
  /\ sending => frames # <<>> /\ writerEnd = "open" /\ Written < FrameLen(Len(frames))
  /\ ~sending /\ writerEnd = "open" /\ frames # <<>> => Written = FrameLen(Len(frames))

\* The bytes written and not yet returned: those in the buffer, then those under way.
Held == Len(buffer) + Len(wire)

ByteAt(k) == IF k <= Len(buffer) THEN buffer[k] ELSE wire[k - Len(buffer)]

Known(b) == b[1] \in 1 .. Len(frames) /\ b[2] \in 1 .. FrameLen(b[1])

\* What stands d places after the byte b: a byte of its frame, or the first of the next.
Follows(b, d, c) ==
  /\ b[2] + d <= FrameLen(b[1]) => c = <<b[1], b[2] + d>>
  /\ b[2] + d = FrameLen(b[1]) + 1 => c = <<b[1] + 1, 1>>

LastWritten ==
  IF Written > 0 THEN <<Len(frames), Written>>
  ELSE <<Len(frames) - 1, FrameLen(Len(frames) - 1)>>

\* Without an error of the reader the bytes held are the stream from the first frame
\* that was not returned to the last byte written.
StreamInv ==
  readerEnd # "error" =>
    /\ \A k \in 1 .. Held : Known(ByteAt(k))
    /\ \A j, k \in 1 .. Held : j <= k => Follows(ByteAt(j), k - j, ByteAt(k))
    /\ Held > 0 => ByteAt(1) = <<Len(got) + 1, 1>> /\ ByteAt(Held) = LastWritten
    /\ Held = 0 => /\ Len(got) = BegunFrames
                   /\ Written > 0 => Written = FrameLen(Len(frames))

ReaderInv ==
  /\ FramesArriveInOrder
  /\ reading => readerEnd = "open"
  /\ readerEnd = "clean" => writerEnd = "closed" /\ Held = 0

FrameInv == FramesTyped /\ OffsetInv /\ StreamInv /\ ReaderInv

LEMMA FrameLenTyped ==
  ASSUME FramesTyped, NEW f \in 1 .. Len(frames)
  PROVE  /\ frames[f].header \in Nat /\ frames[f].payload \in Nat
         /\ FrameLen(f) \in Nat /\ PrefixLen \in Nat /\ PrefixLen > 0
         /\ FrameLen(f) > PrefixLen /\ frames[f].header > PrefixLen
<1>1. frames[f] \in FrameKinds
  BY DEF FramesTyped
<1>2. frames[f].header \in Nat /\ frames[f].payload \in Nat /\ frames[f].header > PrefixLen
  BY <1>1, FrameAssumption
<1>3. PrefixLen \in Nat /\ PrefixLen > 0
  BY FrameAssumption
<1> QED BY <1>2, <1>3 DEF FrameLen

LEMMA LengthsTyped ==
  ASSUME FramesTyped
  PROVE  /\ Len(frames) \in Nat /\ Len(wire) \in Nat /\ Len(buffer) \in Nat
         /\ Len(got) \in Nat /\ Held \in Nat /\ Written \in Nat
         /\ frames = <<>> <=> Len(frames) = 0
BY EmptySeq DEF FramesTyped, Held, Written

\* A step that moves no byte over the ends of the stream keeps StreamInv.
LEMMA StreamUntouched ==
  ASSUME FramesTyped, StreamInv, UNCHANGED <<frames, headerAt, payloadAt, got>>,
         Held' = Held, \A k \in 1 .. Held : ByteAt(k)' = ByteAt(k),
         readerEnd' # "error" => readerEnd # "error"
  PROVE  StreamInv'
<1> SUFFICES ASSUME readerEnd' # "error" PROVE StreamInv'
  BY DEF StreamInv
<1>1. Held \in Nat
  BY LengthsTyped
<1>2. \A k \in 1 .. Held' : Known(ByteAt(k))'
  BY DEF StreamInv, Known, FrameLen
<1>3. \A j, k \in 1 .. Held' : j <= k => Follows(ByteAt(j), k - j, ByteAt(k))'
  BY DEF StreamInv, Follows, FrameLen
<1>4. Held' > 0 => ByteAt(1)' = <<Len(got') + 1, 1>> /\ ByteAt(Held)' = LastWritten'
  BY <1>1 DEF StreamInv, LastWritten, Written, FrameLen
<1>5. Held' = 0 => /\ Len(got') = BegunFrames'
                   /\ Written' > 0 => Written' = FrameLen(Len(frames))'
  BY DEF StreamInv, BegunFrames, Written, FrameLen
<1> QED BY <1>2, <1>3, <1>4, <1>5 DEF StreamInv

LEMMA BytesUntouched ==
  ASSUME UNCHANGED <<buffer, wire>>
  PROVE  Held' = Held /\ \A k \in 1 .. Held : ByteAt(k)' = ByteAt(k)
BY DEF Held, ByteAt

------------------------------------------------------------------------------

LEMMA SendKeepsStream ==
  ASSUME FrameInv, NEW k \in FrameKinds, SendFrame(k)
  PROVE  FrameInv'
<1> USE DEF FrameInv
<1>0. PICK n \in Nat : n = Len(frames)
  BY LengthsTyped
<1>1. /\ ~sending /\ writerEnd = "open" /\ frames' = Append(frames, k)
      /\ headerAt' = 0 /\ payloadAt' = 0 /\ sending' = TRUE
      /\ UNCHANGED <<writerEnd, wire, buffer, reading, got, readerEnd>>
  BY DEF SendFrame, readerVars
<1>2. n = Len(frames) /\ n \in Nat /\ (frames = <<>> <=> n = 0) /\ Held \in Nat
  BY <1>0, LengthsTyped
<1>3. /\ frames' \in Seq(FrameKinds) /\ Len(frames') = n + 1
      /\ \A f \in 1 .. n : frames'[f] = frames[f]
  BY <1>1, <1>2, AppendProperties DEF FramesTyped
<1>4. \A f \in 1 .. n : FrameLen(f)' = FrameLen(f)
  BY <1>3 DEF FrameLen
<1>5. FramesTyped'
  BY <1>1, <1>3 DEF FramesTyped
<1>6. Written' = 0 /\ FrameLen(n + 1)' > 0 /\ frames' # <<>>
  <2>1. frames'[n + 1] = k
    BY <1>1, <1>2, AppendProperties DEF FramesTyped
  <2>2. FrameLen(n + 1)' = k.header + k.payload
    BY <2>1 DEF FrameLen
  <2>3. k.header \in Nat /\ k.payload \in Nat /\ k.header > 0
    BY FrameAssumption
  <2> QED BY <1>1, <1>2, <1>3, <2>2, <2>3 DEF Written
<1>7. OffsetInv'
  <2>1. Kind' = k
    BY <1>1, <1>2, <1>3, AppendProperties DEF Kind, FramesTyped
  <2>2. 0 <= Kind'.header /\ 0 <= Kind'.payload
    BY <2>1, FrameAssumption
  <2>3. Written' < FrameLen(Len(frames))'
    BY <1>3, <1>6
  <2> QED BY <1>1, <1>6, <2>2, <2>3 DEF OffsetInv
<1>8. frames # <<>> => Written = FrameLen(n) /\ FrameLen(n) > 0
  <2> SUFFICES ASSUME frames # <<>> PROVE Written = FrameLen(n) /\ FrameLen(n) > 0
    OBVIOUS
  <2>1. n \in 1 .. Len(frames)
    BY <1>2
  <2> QED BY <1>1, <1>2, <2>1, FrameLenTyped DEF OffsetInv
<1>9. frames # <<>> => headerAt # 0
  <2> SUFFICES ASSUME frames # <<>>, headerAt = 0 PROVE FALSE
    OBVIOUS
  <2>0. n \in 1 .. Len(frames)
    BY <1>2
  <2>1. /\ Kind.header \in Nat /\ Kind.header > PrefixLen
        /\ PrefixLen \in Nat /\ PrefixLen > 0 /\ payloadAt \in Nat
    BY <2>0, FrameLenTyped DEF Kind, FramesTyped
  <2>2. payloadAt > 0
    BY <1>8, <2>1 DEF Written
  <2> QED BY <2>1, <2>2 DEF OffsetInv
<1>10. StreamInv'
  <2> SUFFICES ASSUME readerEnd # "error" PROVE StreamInv'
    BY <1>1 DEF StreamInv
  <2>1. Held' = Held /\ \A i \in 1 .. Held : ByteAt(i)' = ByteAt(i)
    BY <1>1, BytesUntouched
  <2>2. \A i \in 1 .. Held : Known(ByteAt(i)) /\ Known(ByteAt(i))'
    BY <1>2, <1>3, <1>4, <2>1 DEF StreamInv, Known
  <2>3. \A i, j \in 1 .. Held : i <= j => Follows(ByteAt(i), j - i, ByteAt(j))'
    <3> SUFFICES ASSUME NEW i \in 1 .. Held, NEW j \in 1 .. Held, i <= j
                 PROVE  Follows(ByteAt(i), j - i, ByteAt(j))'
      OBVIOUS
    <3>1. Follows(ByteAt(i), j - i, ByteAt(j))
      BY DEF StreamInv
    <3>2. ByteAt(i)[1] \in 1 .. n
      BY <1>2, <2>2 DEF Known
    <3>3. FrameLen(ByteAt(i)[1])' = FrameLen(ByteAt(i)[1])
      BY <1>4, <2>1, <3>2 DEF FrameLen
    <3> QED BY <2>1, <3>1, <3>3 DEF Follows
  <2>4. Held > 0 => ByteAt(1)' = <<Len(got') + 1, 1>> /\ ByteAt(Held)' = LastWritten'
    <3> SUFFICES ASSUME Held > 0
                 PROVE  ByteAt(1)' = <<Len(got') + 1, 1>> /\ ByteAt(Held)' = LastWritten'
      OBVIOUS
    <3>1. frames # <<>>
      BY <1>2, <2>2 DEF Known
    <3>2. LastWritten = <<n, FrameLen(n)>>
      BY <1>2, <1>8, <3>1 DEF LastWritten
    <3>3. LastWritten' = <<n, FrameLen(n)>>
      BY <1>2, <1>3, <1>4, <1>6, <3>1 DEF LastWritten
    <3> QED BY <1>1, <1>2, <2>1, <3>2, <3>3 DEF StreamInv
  <2>5. Held = 0 => Len(got') = BegunFrames' /\ ~(Written' > 0)
    BY <1>1, <1>2, <1>3, <1>6, <1>9 DEF StreamInv, BegunFrames
  <2> QED BY <2>1, <2>2, <2>3, <2>4, <2>5 DEF StreamInv
<1>11. ReaderInv'
  BY <1>1, <1>2, <1>3, BytesUntouched DEF ReaderInv, FramesArriveInOrder
<1> QED BY <1>5, <1>7, <1>10, <1>11

\* The bytes of the two slices are the bytes of the frame after those written.
LEMMA UnsentBytes ==
  ASSUME FramesTyped, OffsetInv, sending
  PROVE  /\ frames # <<>> /\ Len(frames) \in 1 .. Len(frames)
         /\ Unsent \in Seq(Byte) /\ Len(Unsent) = FrameLen(Len(frames)) - Written
         /\ \A m \in 1 .. Len(Unsent) : Unsent[m] = <<Len(frames), Written + m>>
<1> DEFINE f == Len(frames)
           A == [i \in 1 .. Kind.header - headerAt |-> <<f, headerAt + i>>]
           B == [i \in 1 .. Kind.payload - payloadAt |-> <<f, Kind.header + payloadAt + i>>]
<1>1. frames # <<>> /\ f \in Nat /\ f \in 1 .. Len(frames)
  BY LengthsTyped DEF OffsetInv
<1>2. /\ Kind.header \in Nat /\ Kind.payload \in Nat /\ FrameLen(f) = Kind.header + Kind.payload
  BY <1>1, FrameLenTyped DEF Kind, FrameLen
<1>3. /\ headerAt \in Nat /\ payloadAt \in Nat
      /\ headerAt <= Kind.header /\ payloadAt <= Kind.payload
      /\ payloadAt > 0 => headerAt = Kind.header
  BY <1>1 DEF OffsetInv, FramesTyped
<1>4. Kind.header - headerAt \in Nat /\ Kind.payload - payloadAt \in Nat
  BY <1>2, <1>3
<1>5. A \in Seq(Byte) /\ Len(A) = Kind.header - headerAt
  <2>1. \A i \in 1 .. Kind.header - headerAt : <<f, headerAt + i>> \in Byte
    BY <1>1, <1>3, <1>4 DEF Byte
  <2> QED BY <1>4, <2>1, SeqDef
<1>6. B \in Seq(Byte) /\ Len(B) = Kind.payload - payloadAt
  <2>1. \A i \in 1 .. Kind.payload - payloadAt : <<f, Kind.header + payloadAt + i>> \in Byte
    BY <1>1, <1>2, <1>3, <1>4, SMTT(30) DEF Byte
  <2> QED BY <1>4, <2>1, SeqDef
<1>7. Unsent = A \o B
  BY DEF Unsent
<1>8. /\ A \o B \in Seq(Byte) /\ Len(A \o B) = Len(A) + Len(B)
      /\ \A m \in 1 .. Len(A) + Len(B) :
           (A \o B)[m] = IF m <= Len(A) THEN A[m] ELSE B[m - Len(A)]
  <2> HIDE DEF A, B
  <2> QED BY <1>5, <1>6, ConcatProperties
<1>9. Len(A) + Len(B) = FrameLen(f) - Written
  <2> HIDE DEF A, B
  <2> QED BY <1>2, <1>3, <1>5, <1>6 DEF Written
<1>10. \A m \in 1 .. Len(A) + Len(B) : (A \o B)[m] = <<f, Written + m>>
  <2> SUFFICES ASSUME NEW m \in 1 .. Len(A) + Len(B) PROVE (A \o B)[m] = <<f, Written + m>>
    OBVIOUS
  <2>0. m \in Nat
    BY <1>4, <1>5, <1>6
  <2>1. CASE m <= Len(A)
    <3>1. (A \o B)[m] = <<f, headerAt + m>>
      BY <1>4, <1>5, <1>6, <1>8, <2>1
    <3>2. payloadAt = 0
      BY <1>2, <1>3, <1>5, <2>1
    <3>3. headerAt + m = Written + m
      BY <1>3, <2>0, <3>2 DEF Written
    <3> QED BY <3>1, <3>3
  <2>2. CASE ~(m <= Len(A))
    <3>1. m - Len(A) \in 1 .. Kind.payload - payloadAt
      BY <1>4, <1>5, <1>6, <2>2
    <3>2. (A \o B)[m] = <<f, Kind.header + payloadAt + (m - Len(A))>>
      BY <1>8, <2>2, <3>1
    <3> HIDE DEF A, B
    <3>3. Kind.header + payloadAt + (m - Len(A)) = headerAt + payloadAt + m
      BY <1>2, <1>3, <1>5, <2>0, SMTT(30)
    <3>4. headerAt + payloadAt + m = Written + m
      BY DEF Written
    <3> QED BY <3>2, <3>3, <3>4
  <2> QED BY <2>1, <2>2
<1> HIDE DEF A, B
<1> QED BY <1>1, <1>7, <1>8, <1>9, <1>10

\* The bytes held, after a step has put more behind them.
LEMMA WriteMoves ==
  ASSUME FrameInv, NEW n \in 1 .. WireCap, WriteSome(n)
  PROVE  /\ Written < FrameLen(Len(frames)) /\ n <= FrameLen(Len(frames)) - Written
         /\ Written' = Written + n /\ n \in Nat /\ n > 0
         /\ wire' \in Seq(Byte) /\ Held' = Held + n
         /\ \A k \in 1 .. Held : ByteAt(k)' = ByteAt(k)
         /\ \A k \in Held + 1 .. Held + n :
              ByteAt(k)' = <<Len(frames), Written + (k - Held)>>
<1> USE DEF FrameInv
<1>0. n \in Nat /\ n > 0
  BY FrameAssumption
<1>1. sending /\ n <= Len(Unsent) /\ wire' = wire \o SubSeq(Unsent, 1, n)
  BY DEF WriteSome
<1>2. /\ Unsent \in Seq(Byte) /\ Len(Unsent) = FrameLen(Len(frames)) - Written
      /\ \A m \in 1 .. Len(Unsent) : Unsent[m] = <<Len(frames), Written + m>>
  BY <1>1, UnsentBytes
<1>3. /\ SubSeq(Unsent, 1, n) \in Seq(Byte) /\ Len(SubSeq(Unsent, 1, n)) = n
      /\ \A m \in 1 .. n : SubSeq(Unsent, 1, n)[m] = <<Len(frames), Written + m>>
  <2>1. \A i \in 1 .. n : Unsent[i] \in Byte
    BY <1>0, <1>1, <1>2
  <2>2. /\ SubSeq(Unsent, 1, n) \in Seq(Byte)
        /\ Len(SubSeq(Unsent, 1, n)) = IF 1 <= n THEN n - 1 + 1 ELSE 0
        /\ \A i \in 1 .. n - 1 + 1 : SubSeq(Unsent, 1, n)[i] = Unsent[1 + i - 1]
    BY <1>2, <2>1, SubSeqProperties
  <2> QED BY <1>0, <1>1, <1>2, <2>2
<1>4. /\ wire' \in Seq(Byte) /\ Len(wire') = Len(wire) + n
      /\ \A k \in 1 .. Len(wire) : wire'[k] = wire[k]
      /\ \A m \in 1 .. n : wire'[Len(wire) + m] = <<Len(frames), Written + m>>
  <2>1. wire \in Seq(Byte) /\ Len(wire) \in Nat
    BY LengthsTyped DEF FramesTyped
  <2> DEFINE more == SubSeq(Unsent, 1, n)
  <2>2. more \in Seq(Byte) /\ Len(more) = n
    BY <1>3
  <2>3. \A m \in 1 .. n : more[m] = <<Len(frames), Written + m>>
    BY <1>3
  <2>4. wire' = wire \o more
    BY <1>1
  <2> HIDE DEF more
  <2>5. /\ wire \o more \in Seq(Byte) /\ Len(wire \o more) = Len(wire) + Len(more)
        /\ \A i \in 1 .. Len(wire) + Len(more) :
             (wire \o more)[i] = IF i <= Len(wire) THEN wire[i] ELSE more[i - Len(wire)]
    BY <2>1, <2>2, ConcatProperties
  <2> QED BY <1>0, <2>1, <2>2, <2>3, <2>4, <2>5
<1>5. buffer' = buffer /\ Len(buffer) \in Nat /\ Len(wire) \in Nat
  BY LengthsTyped DEF WriteSome, readerVars
<1>6. Held' = Held + n
  BY <1>0, <1>4, <1>5 DEF Held
<1>7. \A k \in 1 .. Held : ByteAt(k)' = ByteAt(k)
  <2> SUFFICES ASSUME NEW k \in 1 .. Held PROVE ByteAt(k)' = ByteAt(k)
    OBVIOUS
  <2>1. CASE k <= Len(buffer)
    BY <1>5, <2>1 DEF ByteAt
  <2>2. CASE ~(k <= Len(buffer))
    <3>1. k - Len(buffer) \in 1 .. Len(wire)
      BY <1>5, <2>2 DEF Held
    <3> QED BY <1>4, <1>5, <2>2, <3>1 DEF ByteAt
  <2> QED BY <2>1, <2>2
<1>8. \A k \in Held + 1 .. Held + n : ByteAt(k)' = <<Len(frames), Written + (k - Held)>>
  <2> SUFFICES ASSUME NEW k \in Held + 1 .. Held + n
               PROVE  ByteAt(k)' = <<Len(frames), Written + (k - Held)>>
    OBVIOUS
  <2>0. Held \in Nat /\ Held = Len(buffer) + Len(wire)
    BY <1>5 DEF Held
  <2>a. k - Held \in 1 .. n
    BY <1>0, <2>0
  <2>b. k - Len(buffer) = Len(wire) + (k - Held)
    BY <1>5, <2>0
  <2>1. PICK m \in 1 .. n : m = k - Held /\ k - Len(buffer) = Len(wire) + m
    BY <2>a, <2>b
  <2>2. ~(k <= Len(buffer))
    BY <1>5 DEF Held
  <2>3. ByteAt(k)' = wire'[Len(wire) + m]
    BY <1>5, <2>1, <2>2 DEF ByteAt
  <2> QED BY <1>4, <2>1, <2>3
<1>9. Written' = Written + n
  <2>1. Kind.header \in Nat
    BY <1>1, FrameLenTyped, UnsentBytes DEF Kind
  <2> QED BY <1>0, <2>1, SMTT(30) DEF WriteSome, Written, FramesTyped
<1>10. Written < FrameLen(Len(frames))
  BY <1>1 DEF OffsetInv
<1> QED BY <1>0, <1>1, <1>2, <1>4, <1>6, <1>7, <1>8, <1>9, <1>10

LEMMA WriteKeepsStream ==
  ASSUME FrameInv, NEW n \in 1 .. WireCap, WriteSome(n)
  PROVE  StreamInv'
<1> USE DEF FrameInv
<1>1. /\ Written < FrameLen(Len(frames)) /\ n <= FrameLen(Len(frames)) - Written
      /\ Written' = Written + n /\ n \in Nat /\ n > 0 /\ Held' = Held + n
      /\ \A k \in 1 .. Held : ByteAt(k)' = ByteAt(k)
      /\ \A k \in Held + 1 .. Held + n :
           ByteAt(k)' = <<Len(frames), Written + (k - Held)>>
  BY WriteMoves
<1>2. /\ sending /\ UNCHANGED <<frames, got, readerEnd>>
  BY DEF WriteSome, readerVars
<1>3. PICK f \in Nat, w \in Nat, h \in Nat : f = Len(frames) /\ w = Written /\ h = Held
  BY LengthsTyped
<1>4. f \in 1 .. f /\ FrameLen(f) \in Nat
  BY <1>2, <1>3, UnsentBytes, FrameLenTyped
<1> SUFFICES ASSUME readerEnd # "error" PROVE StreamInv'
  BY <1>2 DEF StreamInv
<1>5. /\ \A k \in 1 .. h : Known(ByteAt(k))
      /\ \A j, k \in 1 .. h : j <= k => Follows(ByteAt(j), k - j, ByteAt(k))
      /\ h > 0 => ByteAt(1) = <<Len(got) + 1, 1>> /\ ByteAt(h) = LastWritten
      /\ h = 0 => Len(got) = BegunFrames /\ ~(w > 0)
  BY <1>1, <1>3 DEF StreamInv
<1>6. /\ Held' = h + n /\ \A k \in 1 .. h : ByteAt(k)' = ByteAt(k)
      /\ \A k \in h + 1 .. h + n : ByteAt(k)' = <<f, w + (k - h)>>
      /\ w + n <= FrameLen(f)
  BY <1>1, <1>3, <1>4
<1>7. \A g : FrameLen(g)' = FrameLen(g)
  BY <1>2 DEF FrameLen
<1>8. \A k \in 1 .. h + n : Known(ByteAt(k))'
  <2> SUFFICES ASSUME NEW k \in 1 .. h + n PROVE Known(ByteAt(k))'
    OBVIOUS
  <2>1. CASE k \in 1 .. h
    BY <1>2, <1>5, <1>6, <1>7, <2>1 DEF Known
  <2>2. CASE k \in h + 1 .. h + n
    <3>1. w + (k - h) \in 1 .. FrameLen(f)
      BY <1>1, <1>4, <1>6, <2>2
    <3> QED BY <1>2, <1>3, <1>4, <1>6, <1>7, <2>2, <3>1 DEF Known
  <2> QED BY <1>1, <2>1, <2>2
<1>9. \A j, k \in 1 .. h + n : j <= k => Follows(ByteAt(j), k - j, ByteAt(k))'
  <2> SUFFICES ASSUME NEW j \in 1 .. h + n, NEW k \in 1 .. h + n, j <= k
               PROVE  Follows(ByteAt(j), k - j, ByteAt(k))'
    OBVIOUS
  <2>0. j \in Nat /\ k \in Nat /\ n \in Nat
    BY <1>1
  <2>1. CASE k \in 1 .. h
    <3>1. j \in 1 .. h
      BY <2>0, <2>1
    <3> QED BY <1>5, <1>6, <1>7, <2>1, <3>1 DEF Follows
  <2>2. CASE k \in h + 1 .. h + n /\ j \in h + 1 .. h + n
    BY <1>4, <1>6, <1>7, <2>0, <2>2 DEF Follows
  <2>3. CASE k \in h + 1 .. h + n /\ j \in 1 .. h
    <3>1. PICK F \in 1 .. f, i \in Nat : F = ByteAt(j)[1] /\ i = ByteAt(j)[2] /\ FrameLen(F) \in Nat
      <4>1. ByteAt(j)[1] \in 1 .. Len(frames) /\ ByteAt(j)[2] \in 1 .. FrameLen(ByteAt(j)[1])
        BY <1>5, <2>3 DEF Known
      <4>2. FrameLen(ByteAt(j)[1]) \in Nat
        BY <4>1, FrameLenTyped
      <4>3. ByteAt(j)[2] \in Nat
        BY <4>1, <4>2
      <4> QED BY <1>3, <4>1, <4>2, <4>3
    <3>2. /\ i + (h - j) <= FrameLen(F) => LastWritten = <<F, i + (h - j)>>
      BY <1>5, <2>3, <3>1, SMTT(30) DEF Follows
    <3>3. ByteAt(k)' = <<f, w + (k - h)>> /\ w + (k - h) <= FrameLen(f)
      BY <1>1, <1>4, <1>6, <2>3
    <3>4. CASE w > 0
      <4>1. i + (h - j) <= FrameLen(F) => F = f /\ w = i + (h - j)
        BY <1>3, <3>2, <3>4 DEF LastWritten
      <4>2. i + (k - j) <= FrameLen(F) => F = f /\ i + (k - j) = w + (k - h)
        BY <2>0, <2>3, <3>1, <4>1
      <4>3. i + (k - j) # FrameLen(F) + 1
        BY <2>0, <2>3, <3>1, <3>3, <4>1
      <4>4. Follows(<<F, i>>, k - j, <<f, w + (k - h)>>)
        BY <4>2, <4>3 DEF Follows
      <4>5. Follows(ByteAt(j), k - j, ByteAt(k))'
        BY <1>6, <1>7, <2>3, <3>1, <3>3, <4>4 DEF Follows
      <4> QED BY <4>5
    <3>5. CASE w = 0
      <4>1. i + (h - j) <= FrameLen(F) => F = f - 1 /\ FrameLen(F) = i + (h - j)
        BY <1>3, <3>2, <3>5 DEF LastWritten
      <4>2. ~(i + (k - j) <= FrameLen(F))
        BY <2>0, <2>3, <3>1, <4>1
      <4>3. i + (k - j) = FrameLen(F) + 1 => f = F + 1 /\ w + (k - h) = 1
        BY <1>4, <2>0, <2>3, <3>1, <3>5, <4>1
      <4>4. Follows(<<F, i>>, k - j, <<f, w + (k - h)>>)
        BY <4>2, <4>3 DEF Follows
      <4>5. Follows(ByteAt(j), k - j, ByteAt(k))'
        BY <1>6, <1>7, <2>3, <3>1, <3>3, <4>4 DEF Follows
      <4> QED BY <4>5
    <3> QED BY <3>4, <3>5
  <2> QED BY <2>0, <2>1, <2>2, <2>3
<1>10. ByteAt(h + n)' = <<f, w + n>> /\ LastWritten' = <<f, w + n>>
  BY <1>1, <1>2, <1>3, <1>6 DEF LastWritten
<1>11. ByteAt(1)' = <<Len(got) + 1, 1>>
  <2>1. CASE h > 0
    BY <1>5, <1>6, <2>1
  <2>2. CASE h = 0
    <3>1. w = 0 /\ Len(got) = BegunFrames
      BY <1>5, <2>2
    <3>2. headerAt = 0
      BY <1>3, <3>1 DEF Written, FramesTyped
    <3>3. BegunFrames = f - 1
      BY <1>2, <1>3, <3>2, UnsentBytes DEF BegunFrames
    <3>4. ByteAt(1)' = <<f, 1>>
      BY <1>1, <1>6, <2>2, <3>1
    <3> QED BY <1>4, <3>1, <3>3, <3>4
  <2> QED BY <2>1, <2>2
<1>12. ByteAt(Held)' = <<f, w + n>> /\ Held' > 0
  BY <1>1, <1>6, <1>10
<1> QED BY <1>1, <1>2, <1>6, <1>8, <1>9, <1>10, <1>11, <1>12, SMTT(30) DEF StreamInv

LEMMA ReadKeepsStream ==
  ASSUME FrameInv, NEW n \in 1 .. WireCap, ReadSome(n)
  PROVE  buffer' \in Seq(Byte) /\ wire' \in Seq(Byte) /\ Held' = Held /\ StreamInv'
<1> USE DEF FrameInv
<1>0. n \in Nat /\ n > 0
  BY FrameAssumption
<1>1. /\ n <= Len(wire) /\ buffer' = buffer \o SubSeq(wire, 1, n)
      /\ wire' = SubSeq(wire, n + 1, Len(wire))
      /\ UNCHANGED <<frames, headerAt, payloadAt, got, readerEnd>>
  BY DEF ReadSome, writerVars
<1>2. /\ wire \in Seq(Byte) /\ Len(wire) \in Nat /\ buffer \in Seq(Byte) /\ Len(buffer) \in Nat
      /\ \A i \in 1 .. Len(wire) : wire[i] \in Byte
  BY LengthsTyped DEF FramesTyped
<1> DEFINE taken == SubSeq(wire, 1, n)
<1>3. /\ taken \in Seq(Byte) /\ Len(taken) = n /\ \A i \in 1 .. n : taken[i] = wire[i]
  <2>1. \A i \in 1 .. n : wire[i] \in Byte
    BY <1>0, <1>1, <1>2
  <2>2. /\ SubSeq(wire, 1, n) \in Seq(Byte)
        /\ Len(SubSeq(wire, 1, n)) = IF 1 <= n THEN n - 1 + 1 ELSE 0
        /\ \A i \in 1 .. n - 1 + 1 : SubSeq(wire, 1, n)[i] = wire[1 + i - 1]
    BY <1>0, <2>1, SubSeqProperties
  <2> QED BY <1>0, <2>2
<1>4. /\ wire' \in Seq(Byte) /\ Len(wire') = Len(wire) - n
      /\ \A i \in 1 .. Len(wire) - n : wire'[i] = wire[n + i]
  <2>1. \A i \in n + 1 .. Len(wire) : wire[i] \in Byte
    BY <1>0, <1>1, <1>2
  <2> DEFINE m == n + 1
             z == Len(wire)
  <2>2. m \in Int /\ z \in Int /\ \A i \in m .. z : wire[i] \in Byte
    BY <1>0, <1>2, <2>1
  <2>3. wire' = SubSeq(wire, m, z)
    BY <1>1
  <2> HIDE DEF m, z
  <2>4. /\ wire' \in Seq(Byte) /\ Len(wire') = IF m <= z THEN z - m + 1 ELSE 0
        /\ \A i \in 1 .. z - m + 1 : wire'[i] = wire[m + i - 1]
    BY <2>2, <2>3, SubSeqProperties
  <2> QED BY <1>0, <1>1, <1>2, <2>4 DEF m, z
<1> HIDE DEF taken
<1>5. /\ buffer' \in Seq(Byte) /\ Len(buffer') = Len(buffer) + n
      /\ \A i \in 1 .. Len(buffer) : buffer'[i] = buffer[i]
      /\ \A i \in 1 .. n : buffer'[Len(buffer) + i] = wire[i]
  <2>1. buffer' = buffer \o taken
    BY <1>1 DEF taken
  <2>2. /\ buffer \o taken \in Seq(Byte) /\ Len(buffer \o taken) = Len(buffer) + Len(taken)
        /\ \A i \in 1 .. Len(buffer) + Len(taken) :
             (buffer \o taken)[i] = IF i <= Len(buffer) THEN buffer[i]
                                    ELSE taken[i - Len(buffer)]
    BY <1>2, <1>3, ConcatProperties
  <2> QED BY <1>0, <1>2, <1>3, <2>1, <2>2
<1>6. Held' = Held
  <2>1. Len(buffer') + Len(wire') = Len(buffer) + Len(wire)
    <3>1. Len(buffer') = Len(buffer) + n /\ Len(wire') = Len(wire) - n
      BY <1>4, <1>5
    <3> QED BY <1>0, <1>2, <3>1
  <2> QED BY <2>1 DEF Held
<1>7. \A k \in 1 .. Held : ByteAt(k)' = ByteAt(k)
  <2> SUFFICES ASSUME NEW k \in 1 .. Held PROVE ByteAt(k)' = ByteAt(k)
    OBVIOUS
  <2>0. k \in Nat /\ k > 0 /\ k <= Len(buffer) + Len(wire)
    BY <1>2 DEF Held
  <2>1. CASE k <= Len(buffer)
    BY <1>0, <1>2, <1>5, <2>0, <2>1 DEF ByteAt
  <2>2. CASE k > Len(buffer) /\ k <= Len(buffer) + n
    <3>1. k - Len(buffer) \in 1 .. n /\ Len(buffer) + (k - Len(buffer)) = k
      BY <1>0, <1>2, <2>0, <2>2
    <3>2. buffer'[k] = wire[k - Len(buffer)]
      BY <1>5, <3>1
    <3> QED BY <1>2, <1>5, <2>0, <2>2, <3>2 DEF ByteAt
  <2>3. CASE k > Len(buffer) + n
    <3>1. /\ k - Len(buffer') \in 1 .. Len(wire) - n
          /\ n + (k - Len(buffer')) = k - Len(buffer)
      BY <1>0, <1>2, <1>5, <2>0, <2>3
    <3>2. wire'[k - Len(buffer')] = wire[k - Len(buffer)]
      BY <1>4, <3>1
    <3>3. ~(k <= Len(buffer')) /\ ~(k <= Len(buffer))
      BY <1>0, <1>2, <1>5, <2>0, <2>3
    <3> QED BY <3>2, <3>3 DEF ByteAt
  <2> QED BY <1>0, <1>2, <2>0, <2>1, <2>2, <2>3
<1>8. StreamInv'
  BY <1>1, <1>6, <1>7, StreamUntouched
<1> QED BY <1>4, <1>5, <1>6, <1>8

\* What is cut off the buffer is the frame after those returned, whole.
LEMMA CutTakesNext ==
  ASSUME FrameInv, CutFrame
  PROVE  LET f == Len(got) + 1 IN
         /\ f \in 1 .. Len(frames) /\ FrameLen(f) \in Nat /\ FrameLen(f) > 0
         /\ FrameLen(f) <= Len(buffer) /\ readerEnd = "open"
         /\ got' = Append(got, f)
         /\ buffer' = SubSeq(buffer, FrameLen(f) + 1, Len(buffer))
<1> USE DEF FrameInv
<1> DEFINE f == Len(got) + 1
<1>1. readerEnd = "open" /\ PrefixLen \in Nat /\ PrefixLen > 0 /\ Len(buffer) >= PrefixLen
  BY FrameAssumption DEF CutFrame, ReaderInv
<1>2. Len(buffer) \in Nat /\ Len(wire) \in Nat /\ Held \in Nat /\ Len(got) \in Nat
  BY LengthsTyped
<1>3. \A k \in 1 .. Len(buffer) : k \in 1 .. Held /\ ByteAt(k) = buffer[k]
  BY <1>2 DEF Held, ByteAt
<1>4. Held > 0 /\ 1 \in 1 .. Len(buffer) /\ 1 \in 1 .. Held
  BY <1>1, <1>2 DEF Held
<1>5. buffer[1] = <<f, 1>> /\ ByteAt(1) = <<f, 1>> /\ Known(<<f, 1>>)
  BY <1>1, <1>3, <1>4 DEF StreamInv
<1>6. f \in 1 .. Len(frames)
  BY <1>5 DEF Known
<1>7. FrameLen(f) \in Nat /\ FrameLen(f) > PrefixLen
  BY <1>6, FrameLenTyped
<1> HIDE DEF f
<1>8. \A k \in 1 .. Len(buffer) : k <= FrameLen(f) => buffer[k] = <<f, k>>
  <2> SUFFICES ASSUME NEW k \in 1 .. Len(buffer), k <= FrameLen(f)
               PROVE  buffer[k] = <<f, k>>
    OBVIOUS
  <2>1. Follows(ByteAt(1), k - 1, ByteAt(k))
    BY <1>1, <1>3, <1>4 DEF StreamInv
  <2>2. 1 + (k - 1) = k
    BY <1>2
  <2> QED BY <1>3, <1>5, <2>1, <2>2 DEF Follows
<1>9. Announced = FrameLen(f) - PrefixLen
  <2>1. buffer[1][1] = f
    BY <1>5
  <2>2. \A i \in 1 .. PrefixLen : buffer[i] = <<f, i>>
    BY <1>1, <1>2, <1>7, <1>8
  <2> QED BY <2>1, <2>2 DEF Announced, LengthPrefix
<1>10. PrefixLen + Announced = FrameLen(f)
  BY <1>1, <1>7, <1>9
<1>11. FrameLen(f) <= Len(buffer)
  BY <1>2, <1>7, <1>10 DEF CutFrame
<1>12. SubSeq(buffer, 1, FrameLen(f)) = [i \in 1 .. FrameLen(f) |-> <<f, i>>]
  <2>1. \A i \in 1 .. FrameLen(f) : buffer[i] \in Byte /\ buffer[i] = <<f, i>>
    BY <1>2, <1>7, <1>8, <1>11 DEF FramesTyped
  <2> DEFINE m == FrameLen(f)
             s == SubSeq(buffer, 1, m)
             t == [i \in 1 .. m |-> <<f, i>>]
  <2> HIDE DEF m
  <2>2. m \in Nat /\ \A i \in 1 .. m : buffer[i] \in Byte /\ buffer[i] = <<f, i>>
    BY <1>7, <2>1 DEF m
  <2>3. /\ s \in Seq(Byte) /\ Len(s) = IF 1 <= m THEN m - 1 + 1 ELSE 0
        /\ \A i \in 1 .. m - 1 + 1 : s[i] = buffer[1 + i - 1]
    BY <2>2, SubSeqProperties
  <2>4. Len(s) = m /\ \A i \in 1 .. m : s[i] = <<f, i>>
    BY <2>2, <2>3
  <2>5. t \in Seq(Byte) /\ Len(t) = m
    <3>1. \A i \in 1 .. m : <<f, i>> \in Byte
      BY <2>2
    <3> QED BY <2>2, <3>1, SeqDef
  <2> HIDE DEF s
  <2>6. \A i \in 1 .. Len(s) : s[i] = t[i]
    BY <2>4
  <2>7. s = t
    <3> HIDE DEF t
    <3> QED BY <2>3, <2>4, <2>5, <2>6, SeqEqual
  <2> QED BY <2>7 DEF m, s
<1>13. buffer[1][1] = f
  BY <1>5
<1>14. got' = Append(got, f) /\ buffer' = SubSeq(buffer, FrameLen(f) + 1, Len(buffer))
  BY <1>10, <1>12, <1>13 DEF CutFrame
<1>15. FrameLen(f) > 0
  BY <1>1, <1>7
<1> QED BY <1>1, <1>6, <1>7, <1>11, <1>14, <1>15 DEF f

LEMMA CutKeepsStream ==
  ASSUME FrameInv, CutFrame
  PROVE  FramesTyped' /\ StreamInv' /\ FramesArriveInOrder'
<1> USE DEF FrameInv
<1>1. PICK g \in Nat, n \in Nat, h \in Nat, b \in Nat :
        g = Len(got) /\ n = FrameLen(g + 1) /\ h = Held /\ b = Len(buffer)
  BY CutTakesNext, LengthsTyped
<1>2. /\ g + 1 \in 1 .. Len(frames) /\ n > 0 /\ n <= b /\ readerEnd = "open"
      /\ got' = Append(got, g + 1) /\ buffer' = SubSeq(buffer, n + 1, b)
  BY <1>1, CutTakesNext
<1>3. UNCHANGED <<writerVars, wire, readerEnd>> /\ reading' = FALSE
  BY DEF CutFrame
<1>4. UNCHANGED <<frames, headerAt, payloadAt>>
  BY <1>3 DEF writerVars
<1>5. /\ buffer' \in Seq(Byte) /\ Len(buffer') = b - n
      /\ \A i \in 1 .. b - n : buffer'[i] = buffer[n + i]
  <2> DEFINE m == n + 1
  <2>1. m \in Int /\ b \in Int /\ \A i \in m .. b : buffer[i] \in Byte
    BY <1>1 DEF FramesTyped
  <2>2. buffer' = SubSeq(buffer, m, b)
    BY <1>2
  <2> HIDE DEF m
  <2>3. /\ buffer' \in Seq(Byte) /\ Len(buffer') = IF m <= b THEN b - m + 1 ELSE 0
        /\ \A i \in 1 .. b - m + 1 : buffer'[i] = buffer[m + i - 1]
    BY <2>1, <2>2, SubSeqProperties
  <2> QED BY <1>2, <2>3 DEF m
<1>6. /\ got' \in Seq(Nat) /\ Len(got') = g + 1 /\ got'[g + 1] = g + 1
      /\ \A i \in 1 .. g : got'[i] = got[i]
  BY <1>1, <1>2, AppendProperties DEF FramesTyped
<1>7. FramesTyped'
  BY <1>3, <1>5, <1>6 DEF FramesTyped, writerVars
<1>8. Held' = h - n /\ n <= h /\ \A k \in 1 .. h - n : ByteAt(k)' = ByteAt(n + k)
  <2>1. PICK w \in Nat : w = Len(wire) /\ h = b + w
    BY <1>1, LengthsTyped DEF Held
  <2>2. Held' = b - n + w
    BY <1>3, <1>5, <2>1 DEF Held
  <2>3. ASSUME NEW k \in 1 .. h - n PROVE ByteAt(k)' = ByteAt(n + k)
    <3>0. k \in Nat /\ k > 0
      BY <2>1
    <3>1. ByteAt(k)' = IF k <= b - n THEN buffer'[k] ELSE wire[k - (b - n)]
      BY <1>3, <1>5 DEF ByteAt
    <3>2. ByteAt(n + k) = IF n + k <= b THEN buffer[n + k] ELSE wire[n + k - b]
      BY <1>1 DEF ByteAt
    <3>3. CASE k <= b - n
      <4>1. k \in 1 .. b - n /\ n + k <= b
        BY <3>0, <3>3
      <4> QED BY <1>5, <3>1, <3>2, <3>3, <4>1
    <3>4. CASE ~(k <= b - n)
      <4>1. ~(n + k <= b) /\ k - (b - n) = n + k - b
        BY <3>0, <3>4
      <4> QED BY <3>1, <3>2, <3>4, <4>1
    <3> QED BY <3>3, <3>4
  <2> QED BY <1>2, <2>1, <2>2, <2>3
<1>9. /\ \A k \in 1 .. h : Known(ByteAt(k))
      /\ \A j, k \in 1 .. h : j <= k => Follows(ByteAt(j), k - j, ByteAt(k))
      /\ ByteAt(1) = <<g + 1, 1>> /\ ByteAt(h) = LastWritten
  BY <1>1, <1>2, <1>8 DEF StreamInv
<1>10. \A f : FrameLen(f)' = FrameLen(f)
  BY <1>4 DEF FrameLen
<1>11. \A k \in 1 .. h - n : Known(ByteAt(k))'
  <2> SUFFICES ASSUME NEW k \in 1 .. h - n PROVE Known(ByteAt(k))'
    OBVIOUS
  <2>1. n + k \in 1 .. h
    BY <1>8
  <2> QED BY <1>4, <1>8, <1>9, <1>10, <2>1 DEF Known
<1>12. \A j, k \in 1 .. h - n : j <= k => Follows(ByteAt(j), k - j, ByteAt(k))'
  <2> SUFFICES ASSUME NEW j \in 1 .. h - n, NEW k \in 1 .. h - n, j <= k
               PROVE  Follows(ByteAt(j), k - j, ByteAt(k))'
    OBVIOUS
  <2>1. n + j \in 1 .. h /\ n + k \in 1 .. h /\ n + j <= n + k /\ (n + k) - (n + j) = k - j
    BY <1>8
  <2>2. Follows(ByteAt(n + j), k - j, ByteAt(n + k))
    BY <1>9, <2>1
  <2> QED BY <1>8, <1>10, <2>2 DEF Follows
<1>13. n + 1 \in 1 .. h => ByteAt(n + 1) = <<g + 2, 1>>
  <2> SUFFICES ASSUME n + 1 \in 1 .. h PROVE ByteAt(n + 1) = <<g + 2, 1>>
    OBVIOUS
  <2>1. Follows(ByteAt(1), (n + 1) - 1, ByteAt(n + 1))
    BY <1>9
  <2>2. Follows(<<g + 1, 1>>, n, ByteAt(n + 1))
    BY <1>9, <2>1
  <2>3. 1 + n = FrameLen(g + 1) + 1 /\ g + 1 + 1 = g + 2
    BY <1>1
  <2> QED BY <2>2, <2>3 DEF Follows
<1>14. ByteAt(n) = <<g + 1, n>>
  <2>1. Follows(ByteAt(1), n - 1, ByteAt(n))
    BY <1>2, <1>8, <1>9
  <2>2. 1 + (n - 1) = n /\ n <= FrameLen(g + 1)
    BY <1>1
  <2> QED BY <1>9, <2>1, <2>2 DEF Follows
<1>15. LastWritten' = LastWritten
  BY <1>4 DEF LastWritten, Written, FrameLen
<1>16. h - n > 0 => ByteAt(1)' = <<Len(got') + 1, 1>> /\ ByteAt(Held)' = LastWritten'
  <2> SUFFICES ASSUME h - n > 0
               PROVE  ByteAt(1)' = <<Len(got') + 1, 1>> /\ ByteAt(Held)' = LastWritten'
    OBVIOUS
  <2>1. 1 \in 1 .. h - n /\ h - n \in 1 .. h - n /\ n + 1 \in 1 .. h /\ n + (h - n) = h
    BY <1>8
  <2>2. ByteAt(1)' = <<g + 2, 1>>
    BY <1>8, <1>13, <2>1
  <2>3. ByteAt(h - n)' = LastWritten
    BY <1>8, <1>9, <2>1
  <2>4. ByteAt(Held)' = ByteAt(h - n)'
    BY <1>8 DEF ByteAt
  <2> QED BY <1>6, <1>15, <2>2, <2>3, <2>4
<1>17. h = n => /\ Len(got') = BegunFrames'
                /\ Written' > 0 => Written' = FrameLen(Len(frames))'
  <2> SUFFICES ASSUME h = n
               PROVE  /\ Len(got') = BegunFrames'
                      /\ Written' > 0 => Written' = FrameLen(Len(frames))'
    OBVIOUS
  <2>1. LastWritten = <<g + 1, n>>
    BY <1>9, <1>14
  <2>2. Len(frames) \in Nat /\ Len(frames) > 0 /\ frames # <<>> /\ headerAt \in Nat
    BY <1>2, LengthsTyped DEF FramesTyped
  <2>3. CASE Written > 0
    <3>1. Len(frames) = g + 1 /\ Written = n
      BY <2>1, <2>3 DEF LastWritten
    <3>2. headerAt # 0
      <4> SUFFICES ASSUME headerAt = 0 PROVE FALSE
        OBVIOUS
      <4>1. Kind.header \in Nat /\ Kind.header > PrefixLen /\ PrefixLen \in Nat
        BY <1>2, <3>1, FrameLenTyped DEF Kind
      <4>2. payloadAt > 0
        BY <2>3 DEF Written, FramesTyped
      <4> QED BY <2>2, <4>1, <4>2 DEF OffsetInv
    <3> QED BY <1>1, <1>4, <1>6, <2>2, <3>1, <3>2 DEF BegunFrames, Written, FrameLen
  <2>4. CASE ~(Written > 0)
    <3>1. headerAt = 0 /\ payloadAt = 0
      BY <2>4 DEF Written, FramesTyped
    <3>2. Len(frames) - 1 = g + 1
      BY <2>1, <2>4 DEF LastWritten
    <3>3. Written' = 0
      BY <1>4, <3>1 DEF Written
    <3> QED BY <1>4, <1>6, <2>2, <3>1, <3>2, <3>3 DEF BegunFrames
  <2> QED BY <2>3, <2>4
<1>18. StreamInv'
  BY <1>8, <1>11, <1>12, <1>16, <1>17 DEF StreamInv
<1>19. FramesArriveInOrder'
  <2>1. got = [i \in 1 .. g |-> i]
    BY <1>1 DEF ReaderInv, FramesArriveInOrder
  <2>2. \A i \in 1 .. g : got[i] = i
    BY <2>1
  <2>3. \A i \in 1 .. g + 1 : got'[i] = i
    BY <1>6, <2>2
  <2>4. DOMAIN got' = 1 .. g + 1 /\ got' = [i \in DOMAIN got' |-> got'[i]]
    BY <1>6, LenProperties
  <2>5. got' = [i \in 1 .. g + 1 |-> i]
    BY <2>3, <2>4
  <2> QED BY <1>2, <1>4, <1>6, <2>5 DEF FramesArriveInOrder
<1> QED BY <1>7, <1>18, <1>19

LEMMA WriteKeepsOffsets ==
  ASSUME FrameInv, NEW n \in 1 .. WireCap, WriteSome(n)
  PROVE  FramesTyped' /\ OffsetInv' /\ ReaderInv'
<1> USE DEF FrameInv
<1>1. /\ n \in Nat /\ n > 0 /\ n <= FrameLen(Len(frames)) - Written /\ wire' \in Seq(Byte)
      /\ Written' = Written + n
  BY WriteMoves
<1>2. /\ sending /\ frames # <<>> /\ UNCHANGED <<frames, writerEnd, buffer, reading, got, readerEnd>>
      /\ sending' = (headerAt' < Kind.header \/ payloadAt' < Kind.payload)
  BY UnsentBytes DEF WriteSome, readerVars
<1>3. /\ Kind.header \in Nat /\ Kind.payload \in Nat
      /\ FrameLen(Len(frames)) = Kind.header + Kind.payload
  BY <1>2, UnsentBytes, FrameLenTyped DEF Kind, FrameLen
<1>4. /\ headerAt \in Nat /\ payloadAt \in Nat
      /\ headerAt <= Kind.header /\ payloadAt <= Kind.payload
      /\ payloadAt > 0 => headerAt = Kind.header
  BY <1>2 DEF OffsetInv, FramesTyped
<1>5. IF headerAt + n <= Kind.header
      THEN headerAt' = headerAt + n /\ payloadAt' = payloadAt
      ELSE headerAt' = Kind.header /\ payloadAt' = payloadAt + n - (Kind.header - headerAt)
  BY DEF WriteSome
<1>6. /\ headerAt' \in Nat /\ payloadAt' \in Nat
      /\ headerAt' <= Kind.header /\ payloadAt' <= Kind.payload
      /\ payloadAt' > 0 => headerAt' = Kind.header
  <2>1. n <= Kind.header + Kind.payload - (headerAt + payloadAt)
    <3>1. n <= Kind.header + Kind.payload - Written
      BY <1>1, <1>3, LengthsTyped
    <3> QED BY <1>4, <3>1 DEF Written
  <2>2. CASE headerAt + n <= Kind.header
    BY <1>1, <1>3, <1>4, <1>5, <2>2
  <2>3. CASE ~(headerAt + n <= Kind.header)
    <3>1. headerAt' = Kind.header /\ payloadAt' = payloadAt + n - (Kind.header - headerAt)
      BY <1>5, <2>3
    <3>2. \A H, P, x, y \in Nat :
            x + n > H /\ n <= H + P - (x + y) => y + n - (H - x) \in 0 .. P
      BY <1>1
    <3>3. headerAt + n > Kind.header
      BY <1>1, <1>3, <1>4, <2>3
    <3>4. payloadAt + n - (Kind.header - headerAt) \in 0 .. Kind.payload
      BY <1>3, <1>4, <2>1, <3>2, <3>3, Zenon
    <3> QED BY <1>3, <3>1, <3>4
  <2> QED BY <2>2, <2>3
<1>7. Kind' = Kind /\ FrameLen(Len(frames))' = FrameLen(Len(frames))
  BY <1>2 DEF Kind, FrameLen
<1>8. writerEnd = "open"
  BY <1>2 DEF OffsetInv
<1>9. sending' \in BOOLEAN
  BY <1>2
<1>10. FramesTyped'
  BY <1>1, <1>2, <1>6, <1>9 DEF FramesTyped
<1>11. sending' => Written' < FrameLen(Len(frames))'
  <2> SUFFICES ASSUME sending' PROVE Written' < FrameLen(Len(frames))'
    OBVIOUS
  <2>1. headerAt' < Kind.header \/ payloadAt' < Kind.payload
    BY <1>2
  <2>2. headerAt' + payloadAt' < Kind.header + Kind.payload
    BY <1>3, <1>6, <2>1
  <2> QED BY <1>3, <1>7, <2>2 DEF Written
<1>12. ~sending' => Written' = FrameLen(Len(frames))'
  <2> SUFFICES ASSUME ~sending' PROVE Written' = FrameLen(Len(frames))'
    OBVIOUS
  <2>1. ~(headerAt' < Kind.header) /\ ~(payloadAt' < Kind.payload)
    BY <1>2
  <2>2. headerAt' = Kind.header /\ payloadAt' = Kind.payload
    BY <1>3, <1>6, <2>1
  <2> QED BY <1>3, <1>7, <2>2 DEF Written
<1>13. OffsetInv'
  BY <1>2, <1>6, <1>7, <1>8, <1>11, <1>12 DEF OffsetInv
<1>14. ReaderInv'
  BY <1>2, <1>8 DEF ReaderInv, FramesArriveInOrder
<1> QED BY <1>10, <1>13, <1>14

\* The ends of the writer, and the steps of the reader that return nothing.
LEMMA EndsKeepStream ==
  ASSUME FrameInv,
         \/ WriteFails \/ StreamEnds \/ StartRead \/ TooLong \/ ReadGivenUp \/ ReadEnds
         \/ ReadFails
  PROVE  FrameInv'
<1> USE DEF FrameInv
<1>1. UNCHANGED <<frames, headerAt, payloadAt, buffer, got>>
  BY DEF WriteFails, StreamEnds, StartRead, TooLong, ReadGivenUp, ReadEnds, ReadFails,
         readerVars, writerVars
<1>2. Kind' = Kind /\ Written' = Written /\ FrameLen(Len(frames))' = FrameLen(Len(frames))
  BY <1>1 DEF Kind, Written, FrameLen
<1>3. CASE WriteFails \/ StreamEnds
  <2>1. /\ UNCHANGED <<wire, reading, readerEnd>> /\ sending' = FALSE
        /\ writerEnd' \in {"failed", "closed"} /\ (writerEnd' = writerEnd \/ writerEnd # "closed")
    BY <1>3 DEF WriteFails, StreamEnds, readerVars, OffsetInv
  <2>2. StreamInv' /\ Held' = Held
    BY <1>1, <2>1, BytesUntouched, StreamUntouched
  <2>3. FramesTyped' /\ OffsetInv'
    BY <1>1, <1>2, <2>1 DEF FramesTyped, OffsetInv
  <2>4. ReaderInv'
    BY <1>1, <2>1, <2>2 DEF ReaderInv, FramesArriveInOrder
  <2> QED BY <2>2, <2>3, <2>4
<1>4. CASE StartRead \/ ReadGivenUp
  <2>1. /\ UNCHANGED <<wire, sending, writerEnd, readerEnd>> /\ reading' \in BOOLEAN
        /\ reading' => readerEnd = "open"
    BY <1>4 DEF StartRead, ReadGivenUp, writerVars
  <2>2. StreamInv' /\ Held' = Held
    BY <1>1, <2>1, BytesUntouched, StreamUntouched
  <2>3. FramesTyped' /\ OffsetInv'
    BY <1>1, <1>2, <2>1 DEF FramesTyped, OffsetInv
  <2>4. ReaderInv'
    BY <1>1, <2>1, <2>2 DEF ReaderInv, FramesArriveInOrder
  <2> QED BY <2>2, <2>3, <2>4
<1>5. CASE ReadEnds
  <2>1. /\ UNCHANGED <<wire, sending, writerEnd>> /\ reading' = FALSE
        /\ wire = <<>> /\ writerEnd = "closed"
        /\ readerEnd' = IF buffer = <<>> THEN "clean" ELSE "error"
        /\ readerEnd = "open"
    BY <1>5 DEF ReadEnds, writerVars, ReaderInv
  <2>2. StreamInv' /\ Held' = Held
    BY <1>1, <2>1, BytesUntouched, StreamUntouched
  <2>3. FramesTyped' /\ OffsetInv'
    BY <1>1, <1>2, <2>1 DEF FramesTyped, OffsetInv
  <2>4. readerEnd' = "clean" => Held = 0
    BY <2>1 DEF Held
  <2>5. ReaderInv'
    BY <1>1, <2>1, <2>2, <2>4 DEF ReaderInv, FramesArriveInOrder
  <2> QED BY <2>2, <2>3, <2>5
<1>6. CASE TooLong \/ ReadFails
  <2>1. /\ UNCHANGED <<sending, writerEnd>> /\ reading' = FALSE /\ readerEnd' = "error"
        /\ wire' \in Seq(Byte)
    BY <1>6, EmptySeq DEF TooLong, ReadFails, writerVars, FramesTyped
  <2>2. FramesTyped' /\ OffsetInv' /\ StreamInv'
    BY <1>1, <1>2, <2>1 DEF FramesTyped, OffsetInv, StreamInv
  <2>3. ReaderInv'
    BY <1>1, <2>1 DEF ReaderInv, FramesArriveInOrder
  <2> QED BY <2>2, <2>3
<1> QED BY <1>3, <1>4, <1>5, <1>6

LEMMA FrameInvHolds == FrameSpec => []FrameInv
<1>1. FrameInit => FrameInv
  <2> SUFFICES ASSUME FrameInit PROVE FrameInv
    OBVIOUS
  <2>1. /\ frames = <<>> /\ wire = <<>> /\ buffer = <<>> /\ got = <<>>
        /\ headerAt = 0 /\ payloadAt = 0
    BY DEF FrameInit
  <2>2. Len(frames) = 0 /\ Held = 0 /\ Len(got) = 0 /\ Written = 0 /\ BegunFrames = 0
    BY <2>1 DEF Held, Written, BegunFrames
  <2>3. FramesTyped
    <3>1. frames \in Seq(FrameKinds)
      BY <2>1, EmptySeq
    <3>2. wire \in Seq(Byte) /\ buffer \in Seq(Byte)
      BY <2>1, EmptySeq
    <3>3. got \in Seq(Nat)
      BY <2>1, EmptySeq
    <3>4. headerAt \in Nat /\ payloadAt \in Nat
      BY <2>1
    <3>5. /\ sending \in BOOLEAN /\ writerEnd \in {"open", "closed", "failed"}
          /\ reading \in BOOLEAN /\ readerEnd \in {"open", "clean", "error"}
      BY DEF FrameInit
    <3> QED BY <3>1, <3>2, <3>3, <3>4, <3>5 DEF FramesTyped
  <2>4. OffsetInv
    BY <2>1, <2>2 DEF FrameInit, OffsetInv
  <2>5. StreamInv
    BY <2>2 DEF StreamInv
  <2>6. got = [i \in 1 .. 0 |-> i]
    BY <2>1
  <2>7. ReaderInv
    BY <2>2, <2>6 DEF FrameInit, ReaderInv, FramesArriveInOrder
  <2> QED BY <2>3, <2>4, <2>5, <2>7 DEF FrameInv
<1>2. FrameInv /\ [FrameNext]_frameVars => FrameInv'
  <2> SUFFICES ASSUME FrameInv, [FrameNext]_frameVars PROVE FrameInv'
    OBVIOUS
  <2>1. CASE UNCHANGED frameVars
    <3>1. /\ UNCHANGED <<frames, headerAt, payloadAt, sending, writerEnd, wire>>
          /\ UNCHANGED <<buffer, reading, got, readerEnd>>
      BY <2>1 DEF frameVars, writerVars, readerVars
    <3>2. StreamInv' /\ Held' = Held
      BY <3>1, BytesUntouched, StreamUntouched DEF FrameInv
    <3>3. FramesTyped' /\ OffsetInv' /\ ReaderInv'
      BY <3>1, <3>2
         DEF FrameInv, FramesTyped, OffsetInv, ReaderInv, FramesArriveInOrder, Kind, Written,
             FrameLen
    <3> QED BY <3>2, <3>3 DEF FrameInv
  <2>2. ASSUME NEW k \in FrameKinds, SendFrame(k) PROVE FrameInv'
    BY <2>2, SendKeepsStream
  <2>3. ASSUME NEW n \in 1 .. WireCap, WriteSome(n) PROVE FrameInv'
    BY <2>3, WriteKeepsStream, WriteKeepsOffsets DEF FrameInv
  <2>4. ASSUME NEW n \in 1 .. WireCap, ReadSome(n) PROVE FrameInv'
    <3>1. buffer' \in Seq(Byte) /\ wire' \in Seq(Byte) /\ Held' = Held /\ StreamInv'
      BY <2>4, ReadKeepsStream
    <3>2. UNCHANGED <<frames, headerAt, payloadAt, sending, writerEnd, reading, got, readerEnd>>
      BY <2>4 DEF ReadSome, writerVars
    <3>3. FramesTyped' /\ OffsetInv' /\ ReaderInv'
      BY <3>1, <3>2
         DEF FrameInv, FramesTyped, OffsetInv, ReaderInv, FramesArriveInOrder, Kind, Written,
             FrameLen
    <3> QED BY <3>1, <3>3 DEF FrameInv
  <2>5. CASE CutFrame
    <3>1. FramesTyped' /\ StreamInv' /\ FramesArriveInOrder'
      BY <2>5, CutKeepsStream
    <3>2. /\ UNCHANGED <<frames, headerAt, payloadAt, sending, writerEnd, readerEnd>>
          /\ reading' = FALSE /\ reading
      BY <2>5 DEF CutFrame, writerVars
    <3>3. OffsetInv' /\ ReaderInv'
      BY <3>1, <3>2 DEF FrameInv, OffsetInv, ReaderInv, Kind, Written, FrameLen
    <3> QED BY <3>1, <3>3 DEF FrameInv
  <2>6. CASE \/ WriteFails \/ StreamEnds \/ StartRead \/ TooLong \/ ReadGivenUp \/ ReadEnds
             \/ ReadFails
    BY <2>6, EndsKeepStream
  <2> QED BY <2>1, <2>2, <2>3, <2>4, <2>5, <2>6 DEF FrameNext
<1> QED BY <1>1, <1>2, PTL DEF FrameSpec

\* The reader returns the frames sent, whole and in order, for frames of any number and
\* length and however writes and reads are cut (transport/vectored.rs:7,
\* protocol/frame.rs:136).
THEOREM FramesAreWhole == FrameSpec => []FramesArriveInOrder
<1>1. FrameInv => FramesArriveInOrder
  BY DEF FrameInv, ReaderInv
<1> QED BY <1>1, FrameInvHolds, PTL

\* A clean end means that every frame begun was returned (protocol/frame.rs:193).
THEOREM CleanEndsAreHonest == FrameSpec => []CleanEndIsHonest
<1>1. FrameInv => CleanEndIsHonest
  BY DEF FrameInv, ReaderInv, StreamInv, CleanEndIsHonest
<1> QED BY <1>1, FrameInvHolds, PTL

=============================================================================
