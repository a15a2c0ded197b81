--------------------------- MODULE ChannelTracker ---------------------------
(***************************************************************************)
(* core/src/scheduler/tracker.rs: what one channel knows of itself, and the  *)
(* state machine with hysteresis that judges it.  A sample is classified by  *)
(* its send time and its acknowledgement time as in the code; times as such  *)
(* are left out.  All chunks have one length, the unit of the byte counts.   *)
(***************************************************************************)
EXTENDS Integers, FiniteSets, FiniteSetsExt

CONSTANTS
  TrackChunks,   \* chunks this channel may carry
  MaxSends       \* bound on the chunks put on the wire

ASSUME TrackerAssumption == IsFiniteSet(TrackChunks) /\ MaxSends \in Nat

VARIABLES
  chState,       \* ChannelState
  inFlight, inFlightBytes, maxObserved,
  busy,          \* last_busy_start is set
  acked,         \* total_chunks_acked, as far as WarmingUp needs it
  severeRun, healthyRun,  \* consecutive samples, capped where nothing tells them apart
  sends,
  probed,        \* history: the samples since the channel began probing, capped
  everDegraded   \* history

trackerVars == <<chState, inFlight, inFlightBytes, maxObserved, busy, acked, severeRun,
                 healthyRun, sends, probed, everDegraded>>

ChannelStates == {"Unknown", "WarmingUp", "Active", "Degraded", "Probing"}
WarmUpAcks     == 3
SevereToDegrade == 4
SevereInProbe  == 2
HealthyToActive == 6

Capped(n, top) == IF n > top THEN top ELSE n

TrackerInit ==
  /\ chState = "Unknown" /\ inFlight = {} /\ inFlightBytes = 0 /\ maxObserved = 0
  /\ busy = FALSE /\ acked = 0 /\ severeRun = 0 /\ healthyRun = 0
  /\ sends = 0 /\ probed = 0 /\ everDegraded = FALSE

RecordSent(c) ==
  /\ sends < MaxSends /\ sends' = sends + 1
  /\ busy' = (busy \/ inFlight = {})
  /\ inFlight' = inFlight \cup {c}
  /\ inFlightBytes' = inFlightBytes + 1
  /\ maxObserved' = Max({maxObserved, Cardinality(inFlight')})
  /\ chState' = IF chState = "Unknown" THEN "WarmingUp" ELSE chState
  /\ UNCHANGED <<acked, severeRun, healthyRun, probed, everDegraded>>

\* Mutated form: any acknowledgement stops the clock.
BusyAfterAny(left) == FALSE

\* The busy clock stops when nothing is left in flight.
BusyAfter(left) == busy /\ left # {}

\* Mutated form: the healthy samples seen while degraded count for the probe.
NextStateKeepsRun(severe, healthy, acks, cool) ==
  CASE chState = "Unknown" -> <<"WarmingUp", healthy>>
    [] chState = "WarmingUp" /\ acks >= WarmUpAcks -> <<"Active", healthy>>
    [] chState = "Active" /\ severe >= SevereToDegrade -> <<"Degraded", healthy>>
    [] chState = "Degraded" /\ cool -> <<"Probing", healthy>>
    [] chState = "Probing" /\ healthy >= HealthyToActive -> <<"Active", healthy>>
    [] chState = "Probing" /\ healthy < HealthyToActive /\ severe >= SevereInProbe ->
         <<"Degraded", healthy>>
    [] OTHER -> <<chState, healthy>>

\* update_state_machine_on_sample: the state and the healthy run after a sample.
\* cool: one second has passed since the channel was degraded.
NextState(severe, healthy, acks, cool) ==
  CASE chState = "Unknown" -> <<"WarmingUp", healthy>>
    [] chState = "WarmingUp" /\ acks >= WarmUpAcks -> <<"Active", healthy>>
    [] chState = "Active" /\ severe >= SevereToDegrade -> <<"Degraded", healthy>>
    [] chState = "Degraded" /\ cool -> <<"Probing", 0>>
    [] chState = "Probing" /\ healthy >= HealthyToActive -> <<"Active", healthy>>
    [] chState = "Probing" /\ healthy < HealthyToActive /\ severe >= SevereInProbe ->
         <<"Degraded", healthy>>
    [] OTHER -> <<chState, healthy>>

\* An acknowledgement, of a chunk in flight or of one that no longer is.
RecordAck(c, class, cool) ==
  /\ sends > 0
  /\ inFlight' = inFlight \ {c}
  /\ inFlightBytes' = IF c \in inFlight THEN Max({inFlightBytes - 1, 0}) ELSE inFlightBytes
  /\ busy' = BusyAfter(inFlight')
  /\ acked' = Capped(acked + 1, WarmUpAcks)
  /\ LET severe  == IF class = "severe" THEN severeRun + 1 ELSE 0
         healthy == IF class = "healthy" THEN healthyRun + 1 ELSE 0
         next    == NextState(severe, healthy, acked', cool)
     IN /\ severeRun' = Capped(severe, SevereToDegrade)
        /\ healthyRun' = Capped(next[2], HealthyToActive)
        /\ chState' = next[1]
  /\ probed' = IF chState = "Probing" THEN Capped(probed + 1, HealthyToActive) ELSE 0
  /\ everDegraded' = (everDegraded \/ chState' = "Degraded")
  /\ UNCHANGED <<maxObserved, sends>>

\* A rejection, of a chunk in flight or of one that no longer is, counts as a severe
\* sample.  The chunk is out of flight, but neither its bytes nor the clock follow.
RecordNack(c) ==
  /\ sends > 0
  /\ inFlight' = inFlight \ {c}
  /\ severeRun' = Capped(severeRun + 1, SevereToDegrade)
  /\ chState' = IF severeRun + 1 >= SevereToDegrade /\ chState = "Active"
                THEN "Degraded" ELSE chState
  /\ everDegraded' = (everDegraded \/ chState' = "Degraded")
  /\ UNCHANGED <<inFlightBytes, maxObserved, busy, acked, healthyRun, sends, probed>>

\* A failed send, or the end of the connection, which may come before any chunk.
RecordDisconnect ==
  /\ inFlight' = {} /\ inFlightBytes' = 0 /\ chState' = "Degraded"
  /\ everDegraded' = TRUE
  /\ UNCHANGED <<maxObserved, busy, acked, severeRun, healthyRun, sends, probed>>

TrackerNext ==
  \/ \E c \in TrackChunks : RecordSent(c) \/ RecordNack(c)
  \/ \E c \in TrackChunks, class \in {"severe", "healthy", "neither"}, cool \in BOOLEAN :
       RecordAck(c, class, cool)
  \/ RecordDisconnect

TrackerSpec == TrackerInit /\ [][TrackerNext]_trackerVars

------------------------------------------------------------------------------
(* Properties.                                                               *)

\* The time a channel has chunks in flight is counted as busy, and its bytes in
\* flight are never counted short, through acknowledgements that come twice or
\* late, rejections and disconnects.  (They can be counted too high: a rejected
\* chunk leaves both as they are.)
InFlightIsCounted ==
  /\ inFlight # {} => busy
  /\ inFlightBytes >= Cardinality(inFlight)
  /\ maxObserved >= Cardinality(inFlight)

\* A channel becomes active by warming up only if nothing ever degraded it.  One that
\* was degraded becomes active again only by probing, and only after as many
\* acknowledgements in the probe as the hysteresis asks for, the last ones all
\* healthy: what it did before the probe does not count.
RecoveryIsProbed ==
  [][chState # "Active" /\ chState' = "Active" =>
       \/ chState = "WarmingUp" /\ ~everDegraded
       \/ /\ chState = "Probing"
          /\ probed' >= HealthyToActive /\ healthyRun' >= HealthyToActive]_trackerVars
==============================================================================
