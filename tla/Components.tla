------------------------------ MODULE Components ------------------------------
(***************************************************************************)
(* The components that run beside the two sessions and share no state with   *)
(* each other, for one model-checking run: an initial state chooses the      *)
(* component that runs, the others rest.                                     *)
(***************************************************************************)
EXTENDS MetaStore, ChannelTracker, WindowController, UsbTunnel, ReceiveMode, WifiLink,
        FramedStream, ConnectTransports, Calibration

VARIABLE part   \* the component that runs

Parts == {"meta", "tracker", "window", "usb", "receive", "wifi", "frames", "connect",
          "calibration"}

allVars == <<metaVars, trackerVars, windowVars, usbVars, receiveVars, wifiVars,
             frameVars, connectVars, calVars, part>>

\* Instances.  A frame with no payload, one of the longest length and one beyond it;
\* no address, one of each kind, and pairs of a LAN address with another one.
MCFrameKinds == {[header |-> 3, payload |-> n] : n \in {0, 2, 4}}

Plain(h)  == [host |-> h, marked |-> FALSE]
MarkedLan == [host |-> "lan", marked |-> TRUE]

MCAddresses ==
  {<<>>, <<MarkedLan>>} \cup {<<Plain(h)>> : h \in {"loop", "rndis", "lan"}}
  \cup {<<Plain("loop"), Plain("lan")>>, <<Plain("rndis"), Plain("lan")>>,
        <<Plain("lan"), MarkedLan>>, <<MarkedLan, Plain("rndis")>>}

\* Instances of the algorithms of ChunkPlan, with files beyond what chunks can be numbered
\* for, and trackers that are partly filled from meta.json.
MCTrackers ==
  {TrackerFrom(CoalesceRanges(saved)) \cup {[chunk |-> id, checksum |-> 1] : id \in marked} :
     saved, marked \in SUBSET (0 .. 2)}

\* A plan is exact as long as the numbers of its chunks suffice, and a resumed transfer
\* counts its chunks as the plan does.
ASSUME PlanChecked ==
  \A chunkSize \in 1 .. 3, fileSize \in 0 .. 3 * ChunkNumbers + 3 :
    LET plan == Plan(fileSize, chunkSize)
    IN /\ CutsTheFile(plan, fileSize, chunkSize) <=> Fits(fileSize, chunkSize)
       /\ Fits(fileSize, chunkSize) =>
            \A id \in DOMAIN plan : ResumedLength(fileSize, chunkSize, id) = plan[id].length

\* The ranges a tracker answers with leave the chunks it does not have.
ASSUME RangesChecked ==
  \A tracker \in MCTrackers :
    LET plan == Plan(4, 1)
    IN MissingChunks(plan, CompletedRanges(tracker))
         = {id \in DOMAIN plan : \A done \in tracker : done.chunk # id}

\* A component that rests is in one of its initial states, always the same.
Rests(p, choice) == part # p => choice

ComponentsInit ==
  /\ part \in Parts
  /\ MetaInit /\ Rests("meta", renameReplaces)
  /\ TrackerInit /\ WindowInit
  /\ UsbInit /\ Rests("usb", adbRules = {} /\ attached)
  /\ ReceiveInit /\ Rests("receive", foreign = {})
  /\ WifiInit /\ Rests("wifi", ~windows)
  /\ FrameInit /\ CalibrationInit
  /\ ConnectInit
  /\ Rests("connect", pref = "Automatic" /\ address = <<>> /\ platform = "other"
                      /\ adb /\ ~device /\ reachable = {})

MetaRuns ==
  /\ part = "meta" /\ MetaNext
  /\ UNCHANGED <<trackerVars, windowVars, usbVars, receiveVars, wifiVars, frameVars,
                 connectVars, calVars, part>>

TrackerRuns ==
  /\ part = "tracker" /\ TrackerNext
  /\ UNCHANGED <<metaVars, windowVars, usbVars, receiveVars, wifiVars, frameVars,
                 connectVars, calVars, part>>

WindowRuns ==
  /\ part = "window" /\ WindowNext
  /\ UNCHANGED <<metaVars, trackerVars, usbVars, receiveVars, wifiVars, frameVars,
                 connectVars, calVars, part>>

UsbRuns ==
  /\ part = "usb" /\ UsbNext
  /\ UNCHANGED <<metaVars, trackerVars, windowVars, receiveVars, wifiVars, frameVars,
                 connectVars, calVars, part>>

ReceiveRuns ==
  /\ part = "receive" /\ ReceiveNext
  /\ UNCHANGED <<metaVars, trackerVars, windowVars, usbVars, wifiVars, frameVars,
                 connectVars, calVars, part>>

WifiRuns ==
  /\ part = "wifi" /\ WifiNext
  /\ UNCHANGED <<metaVars, trackerVars, windowVars, usbVars, receiveVars, frameVars,
                 connectVars, calVars, part>>

FramesRun ==
  /\ part = "frames" /\ FrameNext
  /\ UNCHANGED <<metaVars, trackerVars, windowVars, usbVars, receiveVars, wifiVars,
                 connectVars, calVars, part>>

ConnectRuns ==
  /\ part = "connect" /\ ConnectNext
  /\ UNCHANGED <<metaVars, trackerVars, windowVars, usbVars, receiveVars, wifiVars,
                 frameVars, calVars, part>>

CalibrationRuns ==
  /\ part = "calibration" /\ CalibrationNext
  /\ UNCHANGED <<metaVars, trackerVars, windowVars, usbVars, receiveVars, wifiVars,
                 frameVars, connectVars, part>>

ComponentsNext ==
  \/ MetaRuns \/ TrackerRuns \/ WindowRuns \/ UsbRuns \/ ReceiveRuns \/ WifiRuns
  \/ FramesRun \/ ConnectRuns \/ CalibrationRuns

\* Fairness is stated for the MetaActor only: the others promise nothing that needs
\* it.  In the behaviours in which it rests it must not be asked to move.
ComponentsSpec ==
  /\ ComponentsInit /\ [][ComponentsNext]_allVars
  /\ part = "meta" => MetaFairness
==============================================================================
