-------------------------- MODULE TransferLifecycle --------------------------
(***************************************************************************)
(* The control plane of core/src/transfer: the registry of transfers        *)
(* (registry.rs), start_transfer and resume_transfer with the sessions they  *)
(* spawn (sender.rs), the sessions an incoming connection opens              *)
(* (receiver.rs), pause and cancel, the meta.json actors, and a restart.     *)
(*                                                                          *)
(* An attempt is one call of start_transfer or resume_transfer, or one       *)
(* incoming receive session, with the task it spawns and its MetaActor.      *)
(* What a session does in between is in SenderSession and ReceiverSession:   *)
(* here it has the phases in which its result depends on the registry.       *)
(***************************************************************************)
EXTENDS Integers, FiniteSets, FiniteSetsExt

CONSTANTS
  NTransfers,   \* transfers, numbered in the order of created_at
  NAttempts,    \* bound on the attempts
  MaxControls,  \* bound on the user's pauses and cancellations
  MaxRestarts   \* bound on the restarts of the process

ASSUME CountAssumption ==
  /\ NTransfers \in Nat \ {0} /\ NAttempts \in Nat \ {0}
  /\ MaxControls \in Nat /\ MaxRestarts \in Nat

Transfers == 1 .. NTransfers
Attempts  == 1 .. NAttempts
Statuses  == {"InProgress", "Paused", "Completed", "Failed", "Cancelled"}
NoRecord  == [role |-> "none", status |-> "none", handle |-> 0]
Controls  == 1 .. MaxControls
NoControl == [of |-> 0, want |-> "none", at |-> "none", overtaken |-> FALSE]

VARIABLES
  received,   \* the transfers this device receives; it sends the others
  record,     \* the registry: one entry per transfer, NoRecord when absent
  inMap,      \* the receive session of ACTIVE_RECEIVE_SESSIONS, 0 when absent
  meta,       \* the status in meta.json, "none" when there is no file
  used,       \* attempts begun so far
  of, pc, outcome,  \* per attempt: its transfer, its position, its result
  sink,       \* the actor whose handle the session of the attempt holds
  alive, mstatus, inbox,   \* per attempt: its MetaActor
  control,    \* per pause or cancellation: what is left of it to do
  controls,   \* how many were begun
  abandoned,  \* history: in progress after a resume nobody works on
  earned,     \* history: transfers some session of which succeeded
  crossed,    \* history: actors a pause or cancellation from before the resume told
  restarts

registryVars == <<record, inMap, received>>
attemptVars  == <<used, of, pc, outcome, sink>>
actorVars    == <<alive, mstatus, inbox>>
userVars     == <<control, controls, crossed, restarts>>
historyVars  == <<abandoned, earned, userVars>>
vars == <<registryVars, meta, attemptVars, actorVars, historyVars>>

Init ==
  /\ received \in SUBSET Transfers
  /\ record = [t \in Transfers |-> NoRecord]
  /\ inMap = [t \in Transfers |-> 0]
  /\ meta = [t \in Transfers |-> "none"]
  /\ used = 0
  /\ of = [a \in Attempts |-> 0] /\ pc = [a \in Attempts |-> "free"]
  /\ outcome = [a \in Attempts |-> "none"] /\ sink = [a \in Attempts |-> 0]
  /\ alive = [a \in Attempts |-> FALSE]
  /\ mstatus = [a \in Attempts |-> "none"]
  /\ inbox = [a \in Attempts |-> {}]
  /\ control = [i \in Controls |-> NoControl] /\ controls = 0 /\ crossed = {}
  /\ abandoned = {} /\ earned = {} /\ restarts = 0

Begun(t)     == meta[t] # "none"
AttemptsOf(t) == {a \in Attempts : of[a] = t}

------------------------------------------------------------------------------
(* The registry.                                                             *)

\* No guard on the status that is there: the last writer wins.
SetStatus(r, s) == IF r = NoRecord THEN r ELSE [r EXCEPT !.status = s]

\* A transfer that is known becomes InProgress again; the receiving side of a
\* loopback transfer leaves the sender's record alone.
Register(r, role) ==
  IF r = NoRecord THEN [role |-> role, status |-> "InProgress", handle |-> 0]
  ELSE IF r.role = "Sender" /\ role = "Receiver" THEN r
  ELSE [r EXCEPT !.status = "InProgress"]

------------------------------------------------------------------------------
(* MetaActor: what matters here of manifest/actor.rs.                        *)

\* spawn loads the file if there is one, status included, and writes it back.
SpawnActor(a, t) ==
  LET loaded == IF Begun(t) THEN meta[t] ELSE "InProgress" IN
  /\ alive' = [alive EXCEPT ![a] = TRUE]
  /\ mstatus' = [mstatus EXCEPT ![a] = loaded]
  /\ meta' = [meta EXCEPT ![t] = loaded]
  /\ UNCHANGED inbox

\* Pause and Cancel set the status, save and end the actor.
ActorControl(a) ==
  /\ alive[a]
  /\ \E s \in inbox[a] : meta' = [meta EXCEPT ![of[a]] = s]
  /\ mstatus' = [mstatus EXCEPT ![a] = "none"]
  /\ alive' = [alive EXCEPT ![a] = FALSE]
  /\ inbox' = [inbox EXCEPT ![a] = {}]
  /\ UNCHANGED <<registryVars, attemptVars, historyVars>>

\* A session reports a chunk to the actor whose handle it took (try_send to an
\* actor that has ended reports to nobody), and the actor saves in due course.
ActorSave(a) ==
  /\ alive[a]
  /\ \E b \in Attempts : sink[b] = a /\ pc[b] \in {"streaming", "receiving"}
  /\ meta' = [meta EXCEPT ![of[a]] = mstatus[a]]
  /\ UNCHANGED <<registryVars, attemptVars, actorVars, historyVars>>

Holds(x) ==
  \/ \E t \in Transfers : record[t].handle = x
  \/ \E a \in Attempts : sink[a] = x /\ pc[a] \in {"streaming", "receiving"}
  \/ pc[x] = "registered"

\* The last handle is dropped: the channel closes, the actor saves what it has
\* not saved yet, and ends.
ActorExit(a) ==
  /\ alive[a] /\ inbox[a] = {} /\ ~Holds(a)
  /\ \E unsaved \in BOOLEAN :
       meta' = [meta EXCEPT ![of[a]] = IF unsaved THEN mstatus[a] ELSE @]
  /\ alive' = [alive EXCEPT ![a] = FALSE]
  /\ mstatus' = [mstatus EXCEPT ![a] = "none"]
  /\ UNCHANGED <<registryVars, attemptVars, inbox, historyVars>>

------------------------------------------------------------------------------
(* start_transfer and resume_transfer.                                       *)

Take(a, t, position) ==
  /\ a = used + 1 /\ used' = a
  /\ of' = [of EXCEPT ![a] = t]
  /\ pc' = [pc EXCEPT ![a] = position]

Overtaken(c, t) == IF c.of = t THEN [c EXCEPT !.overtaken = TRUE] ELSE c

\* Registered, in progress, with an actor of its own.  What is left of an earlier
\* pause or cancellation of the transfer is overtaken.
SendBegins(a, t) ==
  /\ Take(a, t, "registered")
  /\ record' = [record EXCEPT ![t] = Register(@, "Sender")]
  /\ SpawnActor(a, t)
  /\ abandoned' = abandoned \ {t}
  /\ control' = [i \in Controls |-> Overtaken(control[i], t)]
  /\ UNCHANGED <<received, inMap, outcome, sink, earned, controls, crossed, restarts>>

\* A new transfer; its meta.json is new too.  created_at orders them.
Start(a, t) ==
  /\ t \notin received /\ ~Begun(t) /\ \A u \in 1 .. t - 1 : Begun(u)
  /\ SendBegins(a, t)

\* A transfer with a meta.json, whatever its status: a new actor is spawned next
\* to the one of an earlier attempt.  (When the source file is gone the call
\* returns an error and has changed nothing.)
Resume(a, t) ==
  /\ t \notin received /\ Begun(t)
  /\ SendBegins(a, t)

\* The receiving side of a resume sets the status and waits for the sender.
ResumeReceived(t) ==
  /\ t \in received /\ Begun(t)
  /\ record[t] # NoRecord /\ record[t].status # "InProgress"
  /\ record' = [record EXCEPT ![t] = SetStatus(@, "InProgress")]
  /\ abandoned' = abandoned \cup {t}
  /\ UNCHANGED <<received, inMap, meta, attemptVars, actorVars, earned, userVars>>

\* Mutated form: a resumed transfer keeps the actor it has.
SetHandleOnce(a) ==
  /\ pc[a] = "registered"
  /\ record' = [record EXCEPT ![of[a]].handle = IF @ = 0 THEN a ELSE @]
  /\ pc' = [pc EXCEPT ![a] = "connecting"]
  /\ UNCHANGED <<received, inMap, meta, used, of, outcome, sink, actorVars, historyVars>>

SetHandle(a) ==
  /\ pc[a] = "registered"
  /\ record' = [record EXCEPT ![of[a]].handle = a]
  /\ pc' = [pc EXCEPT ![a] = "connecting"]
  /\ UNCHANGED <<received, inMap, meta, used, of, outcome, sink, actorVars, historyVars>>

\* The first attempt on a transfer is the one start_transfer made.
IsStart(a) == \A b \in AttemptsOf(of[a]) : a <= b

\* start_transfer reports the failure in the registry; resume_transfer returns it
\* to the caller and leaves the registry as it is.
ConnectFails(a) ==
  /\ pc[a] = "connecting"
  /\ pc' = [pc EXCEPT ![a] = "done"]
  /\ IF IsStart(a)
     THEN /\ record' = [record EXCEPT ![of[a]] = SetStatus(@, "Failed")]
          /\ UNCHANGED abandoned
     ELSE /\ abandoned' = abandoned \cup {of[a]}
          /\ UNCHANGED record
  /\ UNCHANGED <<received, inMap, meta, used, of, outcome, sink, actorVars, earned,
                 userVars>>

Connected(a) ==
  /\ pc[a] = "connecting"
  /\ pc' = [pc EXCEPT ![a] = "opening"]
  /\ UNCHANGED <<registryVars, meta, used, of, outcome, sink, actorVars,
                 historyVars>>

------------------------------------------------------------------------------
(* The spawned send session: handshakes, streaming, Complete, its result.    *)

SessionReturns(a, r) ==
  /\ pc' = [pc EXCEPT ![a] = "returned"]
  /\ outcome' = [outcome EXCEPT ![a] = r]
  /\ sink' = [sink EXCEPT ![a] = 0]
  /\ UNCHANGED <<registryVars, meta, used, of, actorVars, historyVars>>

\* Workers start, with the handle that is registered now.
SessionStreams(a) ==
  /\ pc[a] = "opening"
  /\ pc' = [pc EXCEPT ![a] = "streaming"]
  /\ sink' = [sink EXCEPT ![a] = record[of[a]].handle]
  /\ UNCHANGED <<registryVars, meta, used, of, outcome, actorVars, historyVars>>

\* Everything was in the resume ranges, or everything is acknowledged: whatever
\* the status says now, Complete is next.
SessionCompletes(a) ==
  /\ pc[a] \in {"opening", "streaming"}
  /\ pc' = [pc EXCEPT ![a] = "closing"]
  /\ UNCHANGED <<registryVars, meta, used, of, outcome, sink, actorVars,
                 historyVars>>

\* Mutated form: the status is returned as it is.
VerdictIsStatus(status) == status

\* The workers are joined and chunks are missing: the status decides whether the
\* user stopped the session or the links were lost.
Verdict(status) ==
  CASE status = "Paused" -> "Paused"
    [] status = "Cancelled" -> "Cancelled"
    [] OTHER -> "Error"

SessionStops(a) ==
  pc[a] = "streaming" /\ SessionReturns(a, Verdict(record[of[a]].status))

\* Errors that do not look at the status: the handshakes, the source file, and
\* the exchange of Complete and its acknowledgement.
SessionFails(a) ==
  \/ pc[a] \in {"opening", "closing"} /\ SessionReturns(a, "Error")
  \/ pc[a] = "streaming" /\ SessionReturns(a, "ReadError")

SessionSucceeds(a) ==
  /\ pc[a] = "closing"
  /\ pc' = [pc EXCEPT ![a] = "returned"]
  /\ outcome' = [outcome EXCEPT ![a] = "Ok"]
  /\ sink' = [sink EXCEPT ![a] = 0]
  /\ earned' = earned \cup {of[a]}
  /\ UNCHANGED <<registryVars, meta, used, of, actorVars, abandoned,
                 userVars>>

\* Mutated form: errors are logged and not recorded.
EpilogueOnlySuccess(a) ==
  /\ pc[a] = "returned"
  /\ pc' = [pc EXCEPT ![a] = "done"]
  /\ outcome' = [outcome EXCEPT ![a] = "none"]
  /\ record' = [record EXCEPT ![of[a]] =
       IF outcome[a] = "Ok" THEN SetStatus(@, "Completed") ELSE @]
  /\ UNCHANGED <<received, inMap, meta, used, of, sink, actorVars, historyVars>>

\* A stopped session leaves the status of the control operation; any other result
\* is written over whatever is there.
Epilogue(a) ==
  /\ pc[a] = "returned"
  /\ pc' = [pc EXCEPT ![a] = "done"]
  /\ outcome' = [outcome EXCEPT ![a] = "none"]
  /\ record' = [record EXCEPT ![of[a]] =
       CASE outcome[a] = "Ok" -> SetStatus(@, "Completed")
         [] outcome[a] \in {"Paused", "Cancelled"} -> @
         [] OTHER -> SetStatus(@, "Failed")]
  /\ UNCHANGED <<received, inMap, meta, used, of, sink, actorVars, historyVars>>

------------------------------------------------------------------------------
(* An incoming receive session: the first connection that offers transfer t. *)

Incoming(a, t) ==
  /\ inMap[t] = 0
  /\ \/ t \in received /\ \A u \in 1 .. t - 1 : Begun(u)
     \/ t \notin received /\ record[t] # NoRecord   \* loopback
  /\ Take(a, t, "receiving")
  /\ LET r == Register(record[t], "Receiver") IN
       IF r.role = "Sender"
       THEN /\ record' = [record EXCEPT ![t] = r]
            /\ sink' = [sink EXCEPT ![a] = r.handle]
            /\ UNCHANGED <<meta, actorVars>>
       ELSE /\ SpawnActor(a, t)
            /\ record' = [record EXCEPT ![t] = [r EXCEPT !.handle = a]]
            /\ sink' = [sink EXCEPT ![a] = a]
  /\ inMap' = [inMap EXCEPT ![t] = a]
  /\ abandoned' = abandoned \ {t}
  /\ UNCHANGED <<received, outcome, earned, userVars>>

ReceiveEnds(a) ==
  /\ pc[a] = "receiving"
  /\ pc' = [pc EXCEPT ![a] = "done"]
  /\ sink' = [sink EXCEPT ![a] = 0]
  /\ inMap' = [inMap EXCEPT ![of[a]] = 0]
  /\ UNCHANGED <<received, meta, used, of, outcome, actorVars, abandoned, userVars>>

\* Complete verified and published.
ReceiveSucceeds(a) ==
  /\ ReceiveEnds(a)
  /\ record' = [record EXCEPT ![of[a]] = SetStatus(@, "Completed")]
  /\ earned' = earned \cup {of[a]}

\* The disk or the checksum of the file fails.
ReceiveRejected(a) ==
  /\ ReceiveEnds(a)
  /\ record' = [record EXCEPT ![of[a]] = SetStatus(@, "Failed")]
  /\ UNCHANGED earned

\* The last connection is gone: a failure, unless the status says otherwise.
ReceiveCloses(a) ==
  /\ ReceiveEnds(a)
  /\ record' = [record EXCEPT ![of[a]] =
       IF @.status \in {"Paused", "Cancelled", "Completed"} THEN @
       ELSE SetStatus(@, "Failed")]
  /\ UNCHANGED earned

------------------------------------------------------------------------------
(* The user, and the process.                                                *)

\* A pause or a cancellation takes the registry's lock twice: for the status, and
\* then for the handle of the actor to tell.  In between it is pending.
ControlBegins(t, s, at) ==
  /\ record[t] # NoRecord /\ controls < MaxControls
  /\ record' = [record EXCEPT ![t] = SetStatus(@, s)]
  /\ controls' = controls + 1
  /\ control' = [control EXCEPT ![controls + 1] =
                   [of |-> t, want |-> s, at |-> at, overtaken |-> FALSE]]
  /\ UNCHANGED <<received, inMap, meta, attemptVars, actorVars, abandoned, earned, crossed,
                 restarts>>

Pause(t)  == ControlBegins(t, "Paused", "tell")
Cancel(t) == ControlBegins(t, "Cancelled", "map")

\* A cancelled receive session leaves the map: the next connection starts another.
CancelLeavesMap(i) ==
  /\ control[i].at = "map"
  /\ inMap' = [inMap EXCEPT ![control[i].of] = 0]
  /\ control' = [control EXCEPT ![i].at = "tell"]
  /\ UNCHANGED <<received, record, meta, attemptVars, actorVars, abandoned, earned, controls,
                 crossed, restarts>>

\* The message is sent, from a task of its own, to the handle registered now: that
\* of a resume that was quicker, if there was one.
ControlTells(i) ==
  LET told == {x \in Attempts : x = record[control[i].of].handle /\ alive[x]} IN
  /\ control[i].at = "tell"
  /\ inbox' = [a \in Attempts |->
                 IF a \in told THEN inbox[a] \cup {control[i].want} ELSE inbox[a]]
  /\ crossed' = IF control[i].overtaken THEN crossed \cup told ELSE crossed
  /\ control' = [control EXCEPT ![i] = NoControl]
  /\ UNCHANGED <<registryVars, meta, attemptVars, alive, mstatus, abandoned, earned, controls,
                 restarts>>

\* The process ends and is started again: what is left is on disk.
Restart ==
  /\ restarts < MaxRestarts /\ restarts' = restarts + 1
  /\ record' = [t \in Transfers |-> NoRecord]
  /\ inMap' = [t \in Transfers |-> 0]
  /\ pc' = [a \in Attempts |-> IF a <= used THEN "done" ELSE "free"]
  /\ alive' = [a \in Attempts |-> FALSE]
  /\ mstatus' = [a \in Attempts |-> "none"] /\ inbox' = [a \in Attempts |-> {}]
  /\ control' = [i \in Controls |-> NoControl] /\ crossed' = {} /\ abandoned' = {}
  /\ outcome' = [a \in Attempts |-> "none"] /\ sink' = [a \in Attempts |-> 0]
  /\ UNCHANGED <<received, meta, used, of, earned, controls>>

------------------------------------------------------------------------------
SendStep(a) ==
  \/ SetHandle(a) \/ ConnectFails(a) \/ Connected(a)
  \/ SessionStreams(a) \/ SessionCompletes(a) \/ SessionStops(a)
  \/ SessionFails(a) \/ SessionSucceeds(a) \/ Epilogue(a)
ReceiveStep(a) == ReceiveSucceeds(a) \/ ReceiveRejected(a) \/ ReceiveCloses(a)
ActorStep(a)   == ActorControl(a) \/ ActorSave(a) \/ ActorExit(a)

Next ==
  \/ \E a \in Attempts, t \in Transfers : Start(a, t) \/ Resume(a, t) \/ Incoming(a, t)
  \/ \E a \in Attempts : SendStep(a) \/ ReceiveStep(a) \/ ActorStep(a)
  \/ \E t \in Transfers : ResumeReceived(t) \/ Pause(t) \/ Cancel(t)
  \/ \E i \in Controls : CancelLeavesMap(i) \/ ControlTells(i)
  \/ Restart

Spec == Init /\ [][Next]_vars

------------------------------------------------------------------------------
(* What get_transfers and find_resumable_transfer make of it.                *)

\* Mutated form: the status of the file is taken as it is not Paused.
ListedAsStored(t) ==
  IF record[t] # NoRecord THEN record[t].status
  ELSE IF meta[t] # "Paused" /\ Begun(t) THEN "Completed" ELSE "Paused"

\* get_transfers: the registry, then the files of transfers it does not have.
Listed(t) ==
  CASE record[t] # NoRecord -> record[t].status
    [] record[t] = NoRecord /\ meta[t] = "Completed" -> "Completed"
    [] OTHER -> "Paused"

\* find_resumable_transfer(None): the newest file whose status is not Completed.
LatestResumable ==
  LET open == {t \in Transfers : Begun(t) /\ meta[t] # "Completed"} IN
  IF open = {} THEN 0 ELSE Max(open)

------------------------------------------------------------------------------
(* Properties.                                                               *)

TypeOK ==
  /\ received \subseteq Transfers
  /\ record \in [Transfers -> [role : {"none", "Sender", "Receiver"},
                               status : Statuses \cup {"none"},
                               handle : 0 .. NAttempts]]
  /\ inMap \in [Transfers -> 0 .. NAttempts]
  /\ meta \in [Transfers -> Statuses \cup {"none"}]
  /\ used \in 0 .. NAttempts /\ of \in [Attempts -> 0 .. NTransfers]
  /\ pc \in [Attempts -> {"free", "registered", "connecting", "opening", "streaming",
                          "closing", "returned", "receiving", "done"}]
  /\ outcome \in [Attempts -> {"none", "Ok", "Paused", "Cancelled", "Error", "ReadError"}]
  /\ sink \in [Attempts -> 0 .. NAttempts]
  /\ alive \in [Attempts -> BOOLEAN] /\ mstatus \in [Attempts -> Statuses \cup {"none"}]
  /\ inbox \in [Attempts -> SUBSET {"Paused", "Cancelled"}]
  /\ control \in [Controls -> [of : 0 .. NTransfers, want : {"none", "Paused", "Cancelled"},
                                at : {"none", "map", "tell"}, overtaken : BOOLEAN]]
  /\ abandoned \subseteq Transfers /\ earned \subseteq Transfers
  /\ crossed \subseteq Attempts
  /\ controls \in 0 .. MaxControls /\ restarts \in 0 .. MaxRestarts

\* A transfer that is shown as in progress has somebody working on it, across
\* pauses, resumes, failures and overlapping sessions.  The one exception is a
\* resume that returned early: its connection failed, or it was the receiver's.
InProgressIsWorked ==
  \A t \in Transfers : record[t].status = "InProgress" =>
    \/ t \in abandoned
    \/ \E a \in AttemptsOf(t) : pc[a] \notin {"free", "done"}

\* The actor a sender's session reports to is alive as long as the transfer is in
\* progress and the session is the latest, so what is acknowledged keeps reaching
\* meta.json: no pause of an earlier session stops it, with one exception.  A
\* pause or cancellation that set the status before the resume and reads the
\* handle after it ends the actor of a session that goes on.
WorkerHasLiveActor ==
  \A a \in Attempts :
    /\ pc[a] = "streaming" /\ record[of[a]].status = "InProgress"
    /\ \A b \in AttemptsOf(of[a]) : b > a => pc[b] = "receiving"
    => sink[a] # 0 /\ (alive[sink[a]] \/ sink[a] \in crossed)

\* A transfer is listed as completed, before or after a restart, only if a session
\* of it succeeded.
CompletedIsEarned ==
  \A t \in Transfers : Listed(t) = "Completed" => t \in earned

\* "returns the most recent incomplete one" (sender.rs:72): without an id, resume
\* never picks a transfer that is completed.  No code writes Completed to a
\* meta.json, so it picks the newest transfer whether it is completed or not.
ResumePicksIncomplete ==
  LatestResumable # 0 => Listed(LatestResumable) # "Completed"
==============================================================================
