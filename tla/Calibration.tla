----------------------------- MODULE Calibration -----------------------------
(***************************************************************************)
(* core/src/benchmark: a calibration sweeps ten benchmark transfers and      *)
(* saves the best settings (calibration.rs); each benchmark is a send of a   *)
(* temporary file (runner.rs).  Here: calibrations of one peer, started by   *)
(* any frontend, and the cancellation that has to find what runs just then.  *)
(* Speeds and the choice of the best settings are left out.                  *)
(***************************************************************************)
EXTENDS Integers, Sequences

CONSTANTS
  Calibrations,   \* calls of run_calibration for the same peer
  StepsPerStage,  \* candidates of a stage (3 in the code)
  MaxCalCancels   \* bound on the calls of cancel_calibration

ASSUME CalibrationAssumption ==
  /\ 0 \notin Calibrations
  /\ StepsPerStage \in Nat \ {0} /\ MaxCalCancels \in Nat

VARIABLES
  calPc,       \* "idle", "checking", "announced", "preparing", "connecting",
               \* "sending" or "ended"
  calStep,     \* current_step
  calToken,    \* cancel_token
  calSlot,     \* active_transfer_id holds an id
  calTransfer, \* that transfer in the registry: "none", "running", "cancelled"
  calEntry,    \* ACTIVE_CALIBRATIONS for the peer: a calibration, or 0
  calSaved,    \* the calibrations that came to saving their settings
  sessionsBegun,  \* history: sessions a calibration has begun
  stoppedAt,      \* history: how many it had begun when it was cancelled, or -1
  calCancels

calVars == <<calPc, calStep, calToken, calSlot, calTransfer, calEntry, calSaved,
             sessionsBegun, stoppedAt, calCancels>>

\* The stages, one entry per benchmark; only the last saves something.
Stages ==
  [i \in 1 .. 3 * StepsPerStage + 1 |->
     IF i <= StepsPerStage THEN "streams"
     ELSE IF i <= 2 * StepsPerStage THEN "chunk_size"
     ELSE IF i <= 3 * StepsPerStage THEN "window" ELSE "confirmation"]

CalibrationInit ==
  /\ calPc = [k \in Calibrations |-> "idle"]
  /\ calStep = [k \in Calibrations |-> 0]
  /\ calToken = [k \in Calibrations |-> FALSE]
  /\ calSlot = [k \in Calibrations |-> FALSE]
  /\ calTransfer = [k \in Calibrations |-> "none"]
  /\ calEntry = 0 /\ calSaved = {}
  /\ sessionsBegun = [k \in Calibrations |-> 0]
  /\ stoppedAt = [k \in Calibrations |-> -1]
  /\ calCancels = 0

\* run_calibration: an entry of an earlier call for the same peer is replaced.
CalibrationBegins(k) ==
  /\ calPc[k] = "idle"
  /\ calPc' = [calPc EXCEPT ![k] = "checking"]
  /\ calEntry' = k
  /\ UNCHANGED <<calStep, calToken, calSlot, calTransfer, calSaved, sessionsBegun,
                 stoppedAt, calCancels>>

\* The entry of the peer is removed, whose ever it is.
CalibrationEnds(k) ==
  /\ calPc' = [calPc EXCEPT ![k] = "ended"]
  /\ calEntry' = 0

\* Mutated form: the token is not looked at.
CheckCancelNever(k) == TRUE

CheckCancel(k) == ~calToken[k]

Cancelled(k) ==
  /\ calPc[k] \in {"checking", "announced"} /\ calToken[k]
  /\ CalibrationEnds(k)
  /\ UNCHANGED <<calStep, calToken, calSlot, calTransfer, calSaved, sessionsBegun,
                 stoppedAt, calCancels>>

\* The next candidate is shown to the caller, and the token checked once more.
Announce(k) ==
  /\ calPc[k] = "checking" /\ calStep[k] < Len(Stages) /\ CheckCancel(k)
  /\ calStep' = [calStep EXCEPT ![k] = @ + 1]
  /\ calPc' = [calPc EXCEPT ![k] = "announced"]
  /\ UNCHANGED <<calToken, calSlot, calTransfer, calEntry, calSaved, sessionsBegun,
                 stoppedAt, calCancels>>

Prepare(k) ==
  /\ calPc[k] = "announced" /\ CheckCancel(k)
  /\ calPc' = [calPc EXCEPT ![k] = "preparing"]
  /\ UNCHANGED <<calStep, calToken, calSlot, calTransfer, calEntry, calSaved,
                 sessionsBegun, stoppedAt, calCancels>>

\* The temporary file is written; then the transfer has an id.
FileWritten(k) ==
  /\ calPc[k] = "preparing"
  /\ calPc' = [calPc EXCEPT ![k] = "connecting"]
  /\ calSlot' = [calSlot EXCEPT ![k] = TRUE]
  /\ UNCHANGED <<calStep, calToken, calTransfer, calEntry, calSaved, sessionsBegun,
                 stoppedAt, calCancels>>

\* No room for the file, or no channel: the slot, if set, keeps its id.
BenchmarkFailsEarly(k) ==
  /\ calPc[k] \in {"preparing", "connecting"}
  /\ CalibrationEnds(k)
  /\ UNCHANGED <<calStep, calToken, calSlot, calTransfer, calSaved, sessionsBegun,
                 stoppedAt, calCancels>>

\* Connected and registered; the guard that clears slot and registry is set up.
SessionBegins(k) ==
  /\ calPc[k] = "connecting"
  /\ calPc' = [calPc EXCEPT ![k] = "sending"]
  /\ calTransfer' = [calTransfer EXCEPT ![k] = "running"]
  /\ sessionsBegun' = [sessionsBegun EXCEPT ![k] = @ + 1]
  /\ UNCHANGED <<calStep, calToken, calSlot, calEntry, calSaved, stoppedAt, calCancels>>

GuardDropped(k) ==
  /\ calSlot' = [calSlot EXCEPT ![k] = FALSE]
  /\ calTransfer' = [calTransfer EXCEPT ![k] = "none"]

\* A session that was cancelled may still have had everything acknowledged.
SessionSucceeds(k) ==
  /\ calPc[k] = "sending"
  /\ GuardDropped(k)
  /\ IF Stages[calStep[k]] = "confirmation"
     THEN CalibrationEnds(k) /\ calSaved' = calSaved \cup {k}
     ELSE /\ calPc' = [calPc EXCEPT ![k] = "checking"]
          /\ UNCHANGED <<calEntry, calSaved>>
  /\ UNCHANGED <<calStep, calToken, sessionsBegun, stoppedAt, calCancels>>

SessionErrs(k) ==
  /\ calPc[k] = "sending"
  /\ GuardDropped(k)
  /\ CalibrationEnds(k)
  /\ UNCHANGED <<calStep, calToken, calSaved, sessionsBegun, stoppedAt, calCancels>>

\* cancel_calibration: the token of the entry, and the transfer its slot names;
\* cancel_transfer does nothing for one that is not registered yet.
CancelCalibration ==
  /\ calEntry # 0 /\ calCancels < MaxCalCancels
  /\ calCancels' = calCancels + 1
  /\ LET k == calEntry IN
       /\ calToken' = [calToken EXCEPT ![k] = TRUE]
       /\ calTransfer' = [calTransfer EXCEPT ![k] =
                            IF calSlot[k] /\ @ = "running" THEN "cancelled" ELSE @]
       /\ stoppedAt' = [stoppedAt EXCEPT ![k] =
                          IF @ = -1 THEN sessionsBegun[k] ELSE @]
  /\ UNCHANGED <<calPc, calStep, calSlot, calEntry, calSaved, sessionsBegun>>

CalibrationNext ==
  \/ CancelCalibration
  \/ \E k \in Calibrations :
       \/ CalibrationBegins(k)
       \/ Cancelled(k)
       \/ Announce(k)
       \/ Prepare(k)
       \/ FileWritten(k)
       \/ BenchmarkFailsEarly(k)
       \/ SessionBegins(k)
       \/ SessionSucceeds(k)
       \/ SessionErrs(k)

CalibrationSpec == CalibrationInit /\ [][CalibrationNext]_calVars

------------------------------------------------------------------------------
(* Properties.                                                               *)

\* A calibration that was cancelled begins at most the one session it had checked
\* the token for, wherever in a step the cancellation came, and saves nothing
\* unless only the confirmation was left; and no ended calibration leaves a
\* benchmark in the registry, to be listed as a transfer of the user.
CancelStopsSweep ==
  \A k \in Calibrations :
    /\ stoppedAt[k] # -1 =>
         /\ sessionsBegun[k] <= stoppedAt[k] + 1
         /\ k \in calSaved => stoppedAt[k] + 1 >= Len(Stages)
    /\ calPc[k] = "ended" => calTransfer[k] = "none"
==============================================================================
