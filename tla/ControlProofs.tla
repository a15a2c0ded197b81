---------------------------- MODULE ControlProofs ----------------------------
(***************************************************************************)
(* The control of a channel and of the process around it: the window of a   *)
(* channel, the sweep of a calibration and the channel tracker, for every   *)
(* value of the constants.                                                  *)
(***************************************************************************)
EXTENDS WindowController, Calibration, ChannelTracker, FiniteSetTheorems,
        SequenceTheorems, TLAPS

-----------------------------------------------------------------------------
(* The window of a channel, for every preset.                              *)

\* The preset is made consistent whatever it is.
LEMMA PresetIsConsistent ==
  /\ MinWin \in Nat /\ MaxWin \in Nat /\ InitWin \in Nat
  /\ 1 <= MinWin /\ MinWin <= InitWin /\ InitWin <= MaxWin
  BY PresetAssumption, SMT DEF MinWin, MaxWin, InitWin, AtLeast, AtMost

\* Three quarters of a window, at least the floor, is a window below it.
LEMMA ShrunkIsSmaller ==
  ASSUME win \in MinWin .. MaxWin
  PROVE  Shrunk \in MinWin .. MaxWin /\ Shrunk <= win
<1>1. (win * 3) \div 4 \in Nat /\ (win * 3) \div 4 <= win
  BY PresetIsConsistent, SMT
<1> QED BY <1>1, PresetIsConsistent, SMT DEF Shrunk, AtLeast

\* One adjustment keeps the window in its preset and next to the window of the
\* next retreat.
LEMMA AdjustProbesByOne ==
  ASSUME ProbesByOne, Adjust
  PROVE  ProbesByOne'
<1> USE PresetIsConsistent DEF ProbesByOne
<1>1. win \in MinWin .. MaxWin /\ beforeProbe \in MinWin .. MaxWin
  OBVIOUS
<1>2. CASE Resized(Shrunk, win)
  <2>1. Shrunk \in MinWin .. MaxWin /\ Shrunk <= win
    BY <1>1, ShrunkIsSmaller
  <2> QED BY <1>1, <1>2, <2>1 DEF Resized
<1>3. CASE Resized(beforeProbe, beforeProbe)
  BY <1>1, <1>3 DEF Resized
<1>4. ASSUME NEW m \in Measurements, NEW since, Healthy(m, since), Increase
      PROVE  ProbesByOne'
  BY <1>1, <1>4 DEF Healthy, Increase, Resized
<1>5. CASE UNCHANGED <<win, beforeProbe>>
  BY <1>5
<1> QED BY <1>2, <1>3, <1>4, <1>5 DEF Adjust

\* The window stays within its preset, and a probe that fails costs one step, for
\* every preset and every sequence of measurements (scheduler/window.rs:92).
THEOREM WindowProbesByOne == WindowSpec => []ProbesByOne
<1>1. WindowInit => ProbesByOne
  BY PresetIsConsistent DEF WindowInit, ProbesByOne
<1>2. ProbesByOne /\ [WindowNext]_windowVars => ProbesByOne'
  BY AdjustProbesByOne DEF WindowNext, windowVars, ProbesByOne
<1> QED BY <1>1, <1>2, PTL DEF WindowSpec

-----------------------------------------------------------------------------
(* The sweep of a calibration, whatever the user and the device do.        *)

Last == 3 * StepsPerStage + 1

CalTyped ==
  /\ calPc \in [Calibrations -> {"idle", "checking", "announced", "preparing",
                                 "connecting", "sending", "ended"}]
  /\ calStep \in [Calibrations -> 0 .. Last]
  /\ calToken \in [Calibrations -> BOOLEAN] /\ calSlot \in [Calibrations -> BOOLEAN]
  /\ calTransfer \in [Calibrations -> {"none", "running", "cancelled"}]
  /\ calEntry \in Calibrations \cup {0} /\ calSaved \subseteq Calibrations
  /\ sessionsBegun \in [Calibrations -> Nat]
  /\ stoppedAt \in [Calibrations -> Nat \cup {-1}]

\* Sessions are counted by the steps, and a step that is under way has yet to begin
\* its session until it is sending.
StepInv(k) ==
  /\ calPc[k] \in {"idle", "checking", "sending"} => sessionsBegun[k] = calStep[k]
  /\ calPc[k] \in {"announced", "preparing", "connecting"} =>
       sessionsBegun[k] + 1 = calStep[k]
  /\ calPc[k] = "sending" => calStep[k] # 0

\* The token is raised when the cancellation comes; whoever has passed the check by
\* then begins the one session that is still allowed.
CancelInv(k) ==
  /\ calToken[k] <=> stoppedAt[k] # -1
  /\ stoppedAt[k] # -1 =>
       /\ sessionsBegun[k] <= stoppedAt[k] + 1
       /\ calPc[k] \in {"preparing", "connecting"} => sessionsBegun[k] = stoppedAt[k]

\* A calibration that is not running is not in the map, and has no transfer.
EntryInv(k) ==
  /\ calPc[k] \in {"idle", "ended"} => calEntry # k
  /\ calTransfer[k] # "none" => calPc[k] = "sending"
  /\ k \in calSaved =>
       calPc[k] = "ended" /\ (stoppedAt[k] # -1 => stoppedAt[k] + 1 >= Last)

CalInv ==
  CalTyped /\ \A k \in Calibrations : StepInv(k) /\ CancelInv(k) /\ EntryInv(k)

\* The last stage, and only the last, is the confirmation.
LEMMA StagesShape ==
  /\ Last \in Nat /\ Len(Stages) = Last
  /\ \A i \in 1 .. Last : Stages[i] = "confirmation" => i = Last
<1>1. StepsPerStage \in Nat /\ StepsPerStage > 0 /\ Last \in Nat
  BY CalibrationAssumption DEF Last
<1>2. DOMAIN Stages = 1 .. Last
  BY DEF Stages, Last
<1>3. Stages \in Seq({"streams", "chunk_size", "window", "confirmation"})
  BY <1>1, SeqDef DEF Stages, Last
<1>4. Len(Stages) = Last
  BY <1>1, <1>2, <1>3, LenProperties
<1> QED BY <1>1, <1>4 DEF Stages, Last

LEMMA CalInit == CalibrationInit => CalInv
BY StagesShape, CalibrationAssumption
   DEF CalibrationInit, CalInv, CalTyped, StepInv, CancelInv, EntryInv

\* What a step of calibration k leaves alone.
OthersStay(k) ==
  \A d \in Calibrations \ {k} :
    /\ calPc'[d] = calPc[d] /\ calStep'[d] = calStep[d] /\ calToken'[d] = calToken[d]
    /\ calTransfer'[d] = calTransfer[d] /\ sessionsBegun'[d] = sessionsBegun[d]
    /\ stoppedAt'[d] = stoppedAt[d] /\ (d \in calSaved' <=> d \in calSaved)
    /\ calEntry' # d \/ calEntry = d

LEMMA OneIsEnough ==
  ASSUME CalInv, CalTyped', NEW k \in Calibrations, OthersStay(k),
         StepInv(k)', CancelInv(k)', EntryInv(k)'
  PROVE  CalInv'
<1> SUFFICES ASSUME NEW d \in Calibrations \ {k}
             PROVE  StepInv(d)' /\ CancelInv(d)' /\ EntryInv(d)'
  BY DEF CalInv
<1> QED BY DEF CalInv, OthersStay, StepInv, CancelInv, EntryInv

LEMMA CalStep == CalInv /\ [CalibrationNext]_calVars => CalInv'
<1> SUFFICES ASSUME CalInv, [CalibrationNext]_calVars PROVE CalInv'
  OBVIOUS
<1> USE CalibrationAssumption, StagesShape DEF CalInv, CalTyped
<1>0. CASE UNCHANGED calVars
  BY <1>0 DEF calVars, StepInv, CancelInv, EntryInv
<1>1. CASE CancelCalibration
  <2>0. PICK k \in Calibrations : k = calEntry
    BY <1>1 DEF CancelCalibration
  <2> USE <1>1, <2>0 DEF CancelCalibration
  <2>1. CalTyped' OBVIOUS
  <2>2. OthersStay(k) BY DEF OthersStay
  <2>3. StepInv(k)' BY DEF StepInv
  <2>4. CancelInv(k)' BY DEF CancelInv
  <2>5. EntryInv(k)' BY DEF EntryInv
  <2>6. CalInv /\ k \in Calibrations OBVIOUS
  <2> QED BY ONLY <2>1, <2>2, <2>3, <2>4, <2>5, <2>6, OneIsEnough
<1>2. ASSUME NEW k \in Calibrations,
             CalibrationBegins(k) \/ Cancelled(k) \/ BenchmarkFailsEarly(k)
      PROVE  CalInv'
  <2> USE <1>2 DEF CalibrationBegins, Cancelled, BenchmarkFailsEarly, CalibrationEnds
  <2>1. CalTyped' /\ OthersStay(k)
    <3>1. CASE CalibrationBegins(k) BY <3>1 DEF OthersStay
    <3>2. CASE Cancelled(k) BY <3>2 DEF OthersStay
    <3>3. CASE BenchmarkFailsEarly(k) BY <3>3 DEF OthersStay
    <3> QED BY ONLY <1>2, <3>1, <3>2, <3>3
  <2>2. StepInv(k)' BY DEF StepInv
  <2>3. CancelInv(k)' BY DEF CancelInv
  <2>4. EntryInv(k)' BY DEF EntryInv
  <2>5. CalInv /\ k \in Calibrations OBVIOUS
  <2> QED BY ONLY <2>1, <2>2, <2>3, <2>4, <2>5, OneIsEnough
<1>3. ASSUME NEW k \in Calibrations, Announce(k) \/ Prepare(k) \/ FileWritten(k)
      PROVE  CalInv'
  <2> USE <1>3 DEF Announce, Prepare, FileWritten, CheckCancel
  <2>0. calStep' \in [Calibrations -> 0 .. Last]
    <3>1. CASE Announce(k)
      BY <3>1
    <3>2. CASE Prepare(k) \/ FileWritten(k)
      BY <3>2
    <3> QED BY <3>1, <3>2
  <2>1. CalTyped' BY <2>0
  <2>2. OthersStay(k) BY DEF OthersStay
  <2>3. StepInv(k)' BY DEF StepInv
  <2>4. CancelInv(k)' BY DEF CancelInv, StepInv
  <2>5. EntryInv(k)' BY DEF EntryInv
  <2>6. CalInv /\ k \in Calibrations OBVIOUS
  <2> QED BY ONLY <2>1, <2>2, <2>3, <2>4, <2>5, <2>6, OneIsEnough
<1>4. ASSUME NEW k \in Calibrations, SessionBegins(k) PROVE CalInv'
  <2> USE <1>4 DEF SessionBegins
  <2>1. CalTyped' OBVIOUS
  <2>2. OthersStay(k) BY DEF OthersStay
  <2>3. StepInv(k)' BY DEF StepInv
  <2>4. CancelInv(k)' BY DEF CancelInv, StepInv
  <2>5. EntryInv(k)' BY DEF EntryInv
  <2>6. CalInv /\ k \in Calibrations OBVIOUS
  <2> QED BY ONLY <2>1, <2>2, <2>3, <2>4, <2>5, <2>6, OneIsEnough
<1>5. ASSUME NEW k \in Calibrations, SessionErrs(k) PROVE CalInv'
  <2> USE <1>5 DEF SessionErrs, GuardDropped, CalibrationEnds
  <2>1. CalTyped' OBVIOUS
  <2>2. OthersStay(k) BY DEF OthersStay
  <2>3. StepInv(k)' BY DEF StepInv
  <2>4. CancelInv(k)' BY DEF CancelInv
  <2>5. EntryInv(k)' BY DEF EntryInv
  <2>6. CalInv /\ k \in Calibrations OBVIOUS
  <2> QED BY ONLY <2>1, <2>2, <2>3, <2>4, <2>5, <2>6, OneIsEnough
<1>6. ASSUME NEW k \in Calibrations, SessionSucceeds(k) PROVE CalInv'
  <2> USE DEF GuardDropped, CalibrationEnds
  <2>0. /\ calPc[k] = "sending" /\ GuardDropped(k)
        /\ UNCHANGED <<calStep, calToken, sessionsBegun, stoppedAt>>
        /\ \/ /\ Stages[calStep[k]] = "confirmation"
              /\ CalibrationEnds(k) /\ calSaved' = calSaved \cup {k}
           \/ /\ calPc' = [calPc EXCEPT ![k] = "checking"]
              /\ UNCHANGED <<calEntry, calSaved>>
    BY <1>6 DEF SessionSucceeds
  <2>1. CalTyped' BY <2>0
  <2>2. OthersStay(k) BY <2>0 DEF OthersStay
  <2>3. StepInv(k)' BY <2>0 DEF StepInv
  <2>4. CancelInv(k)' BY <2>0 DEF CancelInv
  <2>5. EntryInv(k)'
    <3>1. sessionsBegun[k] = calStep[k] /\ calStep[k] \in 0 .. Last
      BY <2>0 DEF StepInv
    <3>2. CASE calPc' = [calPc EXCEPT ![k] = "checking"] /\ UNCHANGED <<calEntry, calSaved>>
      BY <2>0, <3>2 DEF EntryInv
    <3>3. CASE /\ Stages[calStep[k]] = "confirmation"
               /\ CalibrationEnds(k) /\ calSaved' = calSaved \cup {k}
      <4>1. calStep[k] = Last
        BY <2>0, <3>1, <3>3 DEF StepInv
      <4>2. stoppedAt'[k] # -1 => stoppedAt'[k] + 1 >= Last
        BY <2>0, <3>1, <4>1 DEF CancelInv
      <4> QED BY <2>0, <3>3, <4>2 DEF EntryInv
    <3> QED BY <2>0, <3>2, <3>3
  <2>6. CalInv /\ k \in Calibrations OBVIOUS
  <2> QED BY ONLY <2>1, <2>2, <2>3, <2>4, <2>5, <2>6, OneIsEnough
<1> QED BY <1>0, <1>1, <1>2, <1>3, <1>4, <1>5, <1>6 DEF CalibrationNext

\* A cancelled calibration begins at most one more session, saves nothing unless
\* only the confirmation was left, and no ended one leaves a benchmark registered,
\* for every number of calibrations, candidates and cancellations.
THEOREM CancellingStops == CalibrationSpec => []CancelStopsSweep
<1>1. CalInv => CancelStopsSweep
  BY StagesShape DEF CalInv, CalTyped, CancelInv, EntryInv, CancelStopsSweep
<1> QED BY <1>1, CalInit, CalStep, PTL DEF CalibrationSpec

-----------------------------------------------------------------------------
(* The channel tracker: what is in flight, and how a channel recovers.     *)

------------------------------------------------------------------------------
(* The tracker of a channel.                                                 *)

TrackerTyped ==
  /\ chState \in ChannelStates /\ busy \in BOOLEAN
  /\ inFlight \in SUBSET TrackChunks /\ inFlightBytes \in Nat /\ maxObserved \in Nat
  /\ acked \in Nat /\ severeRun \in Nat /\ healthyRun \in Nat
  /\ probed \in Nat /\ everDegraded \in BOOLEAN

\* The healthy run of a channel that is probing is made of samples of the probe, and
\* one that has not warmed up was never degraded.
ProbeInv ==
  /\ chState = "Probing" => healthyRun <= probed
  /\ chState \in {"Unknown", "WarmingUp"} => ~everDegraded

TrackerInv == TrackerTyped /\ InFlightIsCounted /\ ProbeInv

LEMMA CappedNat ==
  ASSUME NEW n \in Nat, NEW top \in Nat
  PROVE  /\ Capped(n, top) \in Nat /\ Capped(n, top) <= n
         /\ n >= top => Capped(n, top) = top
BY DEF Capped

LEMMA MaxOfTwo ==
  ASSUME NEW a \in Nat, NEW b \in Nat
  PROVE  Max({a, b}) \in Nat /\ Max({a, b}) >= a /\ Max({a, b}) >= b
<1>1. \E x \in {a, b} : \A y \in {a, b} : x >= y
  BY SMT
<1> QED BY <1>1 DEF Max

\* What is in flight is a finite set, and a chunk more or less counts for one at most.
LEMMA InFlightFinite ==
  ASSUME TrackerTyped, NEW c
  PROVE  /\ Cardinality(inFlight) \in Nat
         /\ Cardinality(inFlight \cup {c}) \in Nat
         /\ Cardinality(inFlight \cup {c}) <= Cardinality(inFlight) + 1
         /\ Cardinality(inFlight \ {c}) \in Nat
         /\ Cardinality(inFlight \ {c}) =
              IF c \in inFlight THEN Cardinality(inFlight) - 1 ELSE Cardinality(inFlight)
<1>1. IsFiniteSet(inFlight)
  BY TrackerAssumption, FS_Subset DEF TrackerTyped
<1> QED BY <1>1, FS_AddElement, FS_RemoveElement, FS_CardinalityType

LEMMA SentKeepsTracker ==
  ASSUME TrackerInv, NEW c \in TrackChunks, RecordSent(c)
  PROVE  TrackerInv'
<1> USE DEF TrackerInv, TrackerTyped
<1>1. /\ inFlight' = inFlight \cup {c} /\ inFlightBytes' = inFlightBytes + 1
      /\ maxObserved' = Max({maxObserved, Cardinality(inFlight')})
      /\ busy' = (busy \/ inFlight = {})
      /\ UNCHANGED <<acked, severeRun, healthyRun, probed, everDegraded>>
      /\ chState' = IF chState = "Unknown" THEN "WarmingUp" ELSE chState
  BY DEF RecordSent
<1>2. /\ Cardinality(inFlight) \in Nat /\ Cardinality(inFlight') \in Nat
      /\ Cardinality(inFlight') <= Cardinality(inFlight) + 1
  BY <1>1, InFlightFinite
<1>3. maxObserved' \in Nat /\ maxObserved' >= Cardinality(inFlight')
  BY <1>1, <1>2, MaxOfTwo
<1>4. busy' = TRUE
  BY <1>1 DEF InFlightIsCounted
<1>5. InFlightIsCounted'
  BY <1>1, <1>2, <1>3, <1>4 DEF InFlightIsCounted
<1>6. chState' \in ChannelStates /\ (chState' = "Probing" => chState = "Probing")
      /\ (chState' \in {"Unknown", "WarmingUp"} => chState \in {"Unknown", "WarmingUp"})
  BY <1>1 DEF ChannelStates
<1>7. TrackerTyped'
  BY <1>1, <1>3, <1>4, <1>6
<1> QED BY <1>1, <1>5, <1>6, <1>7 DEF ProbeInv

\* The state after a sample is a channel state; one that begins to probe begins a run.
LEMMA NextStateShape ==
  ASSUME chState \in ChannelStates, NEW severe \in Nat, NEW healthy \in Nat, NEW acks,
         NEW cool
  PROVE  LET next == NextState(severe, healthy, acks, cool) IN
         /\ next[1] \in ChannelStates /\ next[2] \in Nat
         /\ next[1] = "Probing" =>
              next[2] = IF chState = "Probing" THEN healthy ELSE 0
         /\ chState = "Probing" /\ next[1] = "Active" =>
              healthy >= HealthyToActive /\ next[2] = healthy
         /\ next[1] = "Active" => chState \in {"Active", "WarmingUp", "Probing"}
         /\ next[1] \in {"Unknown", "WarmingUp"} => chState \in {"Unknown", "WarmingUp"}
<1>1. CASE chState = "Unknown"
  BY <1>1 DEF NextState, ChannelStates
<1>2. CASE chState = "WarmingUp"
  BY <1>2 DEF NextState, ChannelStates
<1>3. CASE chState = "Active"
  BY <1>3 DEF NextState, ChannelStates
<1>4. CASE chState = "Degraded"
  BY <1>4 DEF NextState, ChannelStates
<1>5. CASE chState = "Probing"
  BY <1>5 DEF NextState, ChannelStates, HealthyToActive
<1> QED BY <1>1, <1>2, <1>3, <1>4, <1>5 DEF ChannelStates

\* An acknowledgement: the runs, the state and the samples of the probe after it.
LEMMA AckJudges ==
  ASSUME TrackerInv, NEW c, NEW class, NEW cool, RecordAck(c, class, cool)
  PROVE  /\ chState' \in ChannelStates /\ severeRun' \in Nat /\ healthyRun' \in Nat
         /\ probed' \in Nat /\ everDegraded' \in BOOLEAN /\ ProbeInv'
         /\ chState # "Active" /\ chState' = "Active" =>
              \/ chState = "WarmingUp" /\ ~everDegraded
              \/ /\ chState = "Probing"
                 /\ probed' >= HealthyToActive /\ healthyRun' >= HealthyToActive
<1> USE DEF TrackerInv, TrackerTyped
<1> DEFINE severe  == IF class = "severe" THEN severeRun + 1 ELSE 0
           healthy == IF class = "healthy" THEN healthyRun + 1 ELSE 0
           next    == NextState(severe, healthy, acked', cool)
<1>1. /\ severeRun' = Capped(severe, SevereToDegrade)
      /\ healthyRun' = Capped(next[2], HealthyToActive) /\ chState' = next[1]
      /\ probed' = IF chState = "Probing" THEN Capped(probed + 1, HealthyToActive) ELSE 0
      /\ everDegraded' = (everDegraded \/ chState' = "Degraded")
  BY DEF RecordAck
<1>2. severe \in Nat /\ healthy \in Nat /\ healthy <= healthyRun + 1
  OBVIOUS
<1>3. /\ SevereToDegrade = 4 /\ HealthyToActive = 6
      /\ SevereToDegrade \in Nat /\ HealthyToActive \in Nat /\ probed + 1 \in Nat
  BY DEF SevereToDegrade, HealthyToActive
<1> HIDE DEF severe, healthy
<1>4. /\ next[1] \in ChannelStates /\ next[2] \in Nat
      /\ next[1] = "Probing" => next[2] = IF chState = "Probing" THEN healthy ELSE 0
      /\ chState = "Probing" /\ next[1] = "Active" =>
           healthy >= HealthyToActive /\ next[2] = healthy
      /\ next[1] = "Active" => chState \in {"Active", "WarmingUp", "Probing"}
      /\ next[1] \in {"Unknown", "WarmingUp"} => chState \in {"Unknown", "WarmingUp"}
  BY <1>2, NextStateShape
<1>a. PICK m \in Nat : m = next[2]
  BY <1>4
<1>b. healthyRun' = Capped(m, HealthyToActive)
  BY <1>1, <1>a
<1> HIDE DEF next
<1>5. severeRun' \in Nat /\ healthyRun' \in Nat /\ healthyRun' <= next[2]
  <2>1. Capped(severe, SevereToDegrade) \in Nat
    BY <1>2, <1>3, CappedNat
  <2>2. Capped(m, HealthyToActive) \in Nat /\ Capped(m, HealthyToActive) <= m
    BY <1>3, CappedNat
  <2> QED BY <1>1, <1>a, <1>b, <2>1, <2>2
<1>6. probed' \in Nat
  BY <1>1, <1>3, CappedNat
<1>7. chState' = "Probing" => healthyRun' <= probed'
  <2> SUFFICES ASSUME chState' = "Probing" PROVE healthyRun' <= probed'
    OBVIOUS
  <2>1. CASE chState # "Probing"
    BY <1>1, <1>4, <1>5, <2>1
  <2>2. CASE chState = "Probing"
    <3>1. next[2] <= probed + 1
      BY <1>1, <1>2, <1>4, <2>2 DEF ProbeInv
    <3> QED BY <1>1, <1>3, <1>4, <2>2, <3>1 DEF Capped
  <2> QED BY <2>1, <2>2
<1>8. chState = "Probing" /\ chState' = "Active" =>
        probed' >= HealthyToActive /\ healthyRun' >= HealthyToActive
  <2> SUFFICES ASSUME chState = "Probing", chState' = "Active"
               PROVE  probed' >= HealthyToActive /\ healthyRun' >= HealthyToActive
    OBVIOUS
  <2>1. healthy >= 6 /\ next[2] = healthy
    BY <1>1, <1>3, <1>4
  <2>2. healthyRun <= probed
    BY DEF ProbeInv
  <2>3. probed + 1 >= 6
    BY <1>2, <2>1, <2>2
  <2>4. Capped(probed + 1, HealthyToActive) = 6
    BY <1>3, <2>3, CappedNat
  <2>5. Capped(healthy, HealthyToActive) = 6
    BY <1>2, <1>3, <2>1, CappedNat
  <2>6. healthyRun' = 6
    BY <1>a, <1>b, <2>1, <2>5
  <2>7. probed' = 6
    BY <1>1, <2>4
  <2> QED BY <1>3, <2>6, <2>7
<1>9. chState' \in ChannelStates /\ everDegraded' \in BOOLEAN
  BY <1>1, <1>4
<1>10. chState' \in {"Unknown", "WarmingUp"} => ~everDegraded'
  BY <1>1, <1>4 DEF ProbeInv
<1>11. chState # "Active" /\ chState' = "Active" =>
         chState = "Probing" \/ (chState = "WarmingUp" /\ ~everDegraded)
  BY <1>1, <1>4 DEF ProbeInv
<1>12. ProbeInv'
  BY <1>7, <1>10 DEF ProbeInv
<1> QED BY <1>5, <1>6, <1>8, <1>9, <1>11, <1>12

LEMMA AckKeepsTracker ==
  ASSUME TrackerInv, NEW c \in TrackChunks, NEW class, NEW cool, RecordAck(c, class, cool)
  PROVE  TrackerInv'
<1> USE DEF TrackerInv, TrackerTyped
<1>1. /\ inFlight' = inFlight \ {c} /\ busy' = (busy /\ inFlight' # {})
      /\ inFlightBytes' = IF c \in inFlight THEN Max({inFlightBytes - 1, 0}) ELSE inFlightBytes
      /\ acked' = Capped(acked + 1, WarmUpAcks) /\ UNCHANGED maxObserved
  BY DEF RecordAck, BusyAfter
<1>2. /\ Cardinality(inFlight) \in Nat /\ Cardinality(inFlight') \in Nat
      /\ Cardinality(inFlight') =
           IF c \in inFlight THEN Cardinality(inFlight) - 1 ELSE Cardinality(inFlight)
  BY <1>1, InFlightFinite
<1>3. inFlightBytes' \in Nat /\ inFlightBytes' >= Cardinality(inFlight')
  <2>1. CASE c \in inFlight
    <3>1. inFlightBytes >= Cardinality(inFlight) /\ inFlightBytes - 1 \in Nat
      BY <1>2, <2>1 DEF InFlightIsCounted
    <3>2. Max({inFlightBytes - 1, 0}) \in Nat /\ Max({inFlightBytes - 1, 0}) >= inFlightBytes - 1
      BY <3>1, MaxOfTwo
    <3> QED BY <1>1, <1>2, <2>1, <3>1, <3>2
  <2>2. CASE c \notin inFlight
    BY <1>1, <1>2, <2>2 DEF InFlightIsCounted
  <2> QED BY <2>1, <2>2
<1>4. busy' \in BOOLEAN /\ (inFlight' # {} => busy')
  BY <1>1, Zenon DEF InFlightIsCounted
<1>5. acked' \in Nat
  BY <1>1, CappedNat DEF WarmUpAcks
<1>6. InFlightIsCounted'
  BY <1>1, <1>2, <1>3, <1>4 DEF InFlightIsCounted
<1> QED BY <1>1, <1>3, <1>4, <1>5, <1>6, AckJudges

LEMMA NackKeepsTracker ==
  ASSUME TrackerInv, NEW c \in TrackChunks, RecordNack(c)
  PROVE  TrackerInv' /\ (chState # "Active" => chState' # "Active")
<1> USE DEF TrackerInv, TrackerTyped
<1>1. /\ inFlight' = inFlight \ {c}
      /\ severeRun' = Capped(severeRun + 1, SevereToDegrade)
      /\ UNCHANGED <<inFlightBytes, maxObserved, busy, acked, healthyRun, probed>>
      /\ \/ chState' = chState
         \/ chState = "Active" /\ chState' = "Degraded"
      /\ everDegraded' = (everDegraded \/ chState' = "Degraded")
  BY DEF RecordNack
<1>2. /\ Cardinality(inFlight) \in Nat /\ Cardinality(inFlight') \in Nat
      /\ Cardinality(inFlight') <= Cardinality(inFlight)
  <2>1. /\ Cardinality(inFlight) \in Nat /\ Cardinality(inFlight \ {c}) \in Nat
        /\ Cardinality(inFlight \ {c}) =
             IF c \in inFlight THEN Cardinality(inFlight) - 1 ELSE Cardinality(inFlight)
    BY InFlightFinite
  <2>2. Cardinality(inFlight \ {c}) <= Cardinality(inFlight)
    BY <2>1
  <2> QED BY <1>1, <2>1, <2>2
<1>3. severeRun' \in Nat
  BY <1>1, CappedNat DEF SevereToDegrade
<1>4. InFlightIsCounted'
  BY <1>1, <1>2 DEF InFlightIsCounted
<1> QED BY <1>1, <1>3, <1>4 DEF ProbeInv, ChannelStates

LEMMA DisconnectKeepsTracker == TrackerInv /\ RecordDisconnect => TrackerInv'
BY FS_EmptySet
   DEF TrackerInv, TrackerTyped, RecordDisconnect, InFlightIsCounted, ProbeInv, ChannelStates

LEMMA TrackerInvHolds == TrackerSpec => []TrackerInv
<1>1. TrackerInit => TrackerInv
  <2> SUFFICES ASSUME TrackerInit PROVE TrackerInv
    OBVIOUS
  <2>2. TrackerTyped
    BY DEF TrackerInit, TrackerTyped, ChannelStates
  <2>3. InFlightIsCounted /\ ProbeInv
    BY FS_EmptySet DEF TrackerInit, InFlightIsCounted, ProbeInv
  <2> QED BY <2>2, <2>3 DEF TrackerInv
<1>2. TrackerInv /\ [TrackerNext]_trackerVars => TrackerInv'
  <2> SUFFICES ASSUME TrackerInv, [TrackerNext]_trackerVars PROVE TrackerInv'
    OBVIOUS
  <2>1. CASE UNCHANGED trackerVars
    BY <2>1 DEF trackerVars, TrackerInv, TrackerTyped, InFlightIsCounted, ProbeInv
  <2>2. CASE \E c \in TrackChunks : RecordSent(c)
    BY <2>2, SentKeepsTracker
  <2>3. CASE \E c \in TrackChunks : RecordNack(c)
    BY <2>3, NackKeepsTracker
  <2>4. CASE \E c \in TrackChunks, class \in {"severe", "healthy", "neither"},
                cool \in BOOLEAN : RecordAck(c, class, cool)
    BY <2>4, AckKeepsTracker
  <2>5. CASE RecordDisconnect
    BY <2>5, DisconnectKeepsTracker
  <2> QED BY <2>1, <2>2, <2>3, <2>4, <2>5 DEF TrackerNext
<1> QED BY <1>1, <1>2, PTL DEF TrackerSpec

\* The bytes and the busy clock of a channel never fall short of what is in flight, for
\* any plan and any order of acknowledgements (scheduler/tracker.rs:119).
THEOREM InFlightAlwaysCounted == TrackerSpec => []InFlightIsCounted
<1>1. TrackerInv => InFlightIsCounted
  BY DEF TrackerInv
<1> QED BY <1>1, TrackerInvHolds, PTL

\* A channel that was degraded is active again only after a probe that has seen the
\* healthy samples it asks for (scheduler/tracker.rs:206).
THEOREM ProbesEarnRecovery == TrackerSpec => RecoveryIsProbed
<1>1. TrackerInv /\ [TrackerNext]_trackerVars
        => [chState # "Active" /\ chState' = "Active" =>
              \/ chState = "WarmingUp" /\ ~everDegraded
              \/ /\ chState = "Probing"
                 /\ probed' >= HealthyToActive /\ healthyRun' >= HealthyToActive]_trackerVars
  <2> SUFFICES ASSUME TrackerInv, TrackerNext, chState # "Active", chState' = "Active"
               PROVE  \/ chState = "WarmingUp" /\ ~everDegraded
                      \/ /\ chState = "Probing"
                         /\ probed' >= HealthyToActive /\ healthyRun' >= HealthyToActive
    OBVIOUS
  <2>1. ~RecordDisconnect /\ \A c \in TrackChunks : ~RecordSent(c) /\ ~RecordNack(c)
    BY NackKeepsTracker DEF RecordDisconnect, RecordSent
  <2>2. PICK c \in TrackChunks, class \in {"severe", "healthy", "neither"},
             cool \in BOOLEAN : RecordAck(c, class, cool)
    BY <2>1 DEF TrackerNext
  <2> QED BY <2>2, AckJudges
<1> QED BY <1>1, TrackerInvHolds, PTL DEF TrackerSpec, RecoveryIsProbed

=============================================================================
