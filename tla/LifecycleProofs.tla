--------------------------- MODULE LifecycleProofs ---------------------------
(***************************************************************************)
(* What TransferLifecycle promises of a transfer's status, for any number of *)
(* transfers, attempts, pauses, cancellations and restarts.                  *)
(***************************************************************************)
EXTENDS TransferLifecycle, TLAPS

------------------------------------------------------------------------------
(* The inductive invariant.                                                  *)

Record == [role : {"none", "Sender", "Receiver"}, status : Statuses \cup {"none"},
           handle : 0 .. NAttempts]

RegistryTyped ==
  /\ received \subseteq Transfers /\ record \in [Transfers -> Record]
  /\ inMap \in [Transfers -> 0 .. NAttempts]

AttemptsTyped ==
  /\ used \in 0 .. NAttempts /\ of \in [Attempts -> 0 .. NTransfers]
  /\ pc \in [Attempts -> {"free", "registered", "connecting", "opening", "streaming",
                          "closing", "returned", "receiving", "done"}]
  /\ outcome \in [Attempts -> {"none", "Ok", "Paused", "Cancelled", "Error", "ReadError"}]
  /\ sink \in [Attempts -> 0 .. NAttempts]

\* No code writes Completed to a meta.json.
ActorsTyped ==
  /\ meta \in [Transfers -> (Statuses \ {"Completed"}) \cup {"none"}]
  /\ alive \in [Attempts -> BOOLEAN]
  /\ mstatus \in [Attempts -> (Statuses \ {"Completed"}) \cup {"none"}]
  /\ inbox \in [Attempts -> SUBSET {"Paused", "Cancelled"}]

HistoryTyped ==
  /\ abandoned \subseteq Transfers /\ earned \subseteq Transfers
  /\ controls \in 0 .. MaxControls /\ restarts \in 0 .. MaxRestarts
  /\ crossed \subseteq Attempts

\* What is pending is a pause or a cancellation of a transfer.
Control == [of : 0 .. NTransfers, want : {"none", "Paused", "Cancelled"},
            at : {"none", "map", "tell"}, overtaken : BOOLEAN]

ControlsTyped ==
  /\ control \in [Controls -> Control]
  /\ \A i \in Controls : control[i].at # "none" =>
       control[i].of \in Transfers /\ control[i].want # "none"

Typed == RegistryTyped /\ AttemptsTyped /\ ActorsTyped /\ HistoryTyped /\ ControlsTyped

\* Attempts are begun in order, each on one transfer; only a session that has
\* returned has an outcome.
FreshInv ==
  \A a \in Attempts :
    /\ a > used => pc[a] = "free"
    /\ a <= used => of[a] \in Transfers
    /\ pc[a] # "returned" => outcome[a] = "none"

\* An attempt whose end will write the status of its transfer: one that was stopped
\* leaves it alone.
Working(t) ==
  \E a \in Attempts : /\ of[a] = t /\ pc[a] \notin {"free", "done"}
                      /\ outcome[a] \notin {"Paused", "Cancelled"}

WorkInv ==
  \A t \in Transfers : record[t].status = "InProgress" => t \in abandoned \/ Working(t)

EarnInv ==
  /\ \A t \in Transfers : record[t].status = "Completed" => t \in earned
  /\ \A a \in Attempts : outcome[a] = "Ok" => of[a] \in earned

LifecycleInv == Typed /\ FreshInv /\ WorkInv /\ EarnInv

------------------------------------------------------------------------------
(* Records and attempts.                                                     *)

LEMMA NoRecordTyped == NoRecord \in Record /\ NoRecord.status = "none"
BY CountAssumption DEF NoRecord, Record

LEMMA SetStatusTyped ==
  ASSUME NEW r \in Record, NEW s \in Statuses
  PROVE  SetStatus(r, s) \in Record /\ SetStatus(r, s).status \in {s, "none"}
<1>1. CASE r = NoRecord
  BY <1>1, NoRecordTyped DEF SetStatus
<1>2. CASE r # NoRecord
  BY <1>2 DEF SetStatus, Record
<1> QED BY <1>1, <1>2

LEMMA RegisterTyped ==
  ASSUME NEW r \in Record, NEW role \in {"Sender", "Receiver"}
  PROVE  /\ Register(r, role) \in Record
         /\ Register(r, role).status \in {"InProgress", r.status}
<1>1. CASE r = NoRecord
  BY <1>1, CountAssumption DEF Register, Record, Statuses
<1>2. CASE r # NoRecord
  BY <1>2 DEF Register, Record, Statuses
<1> QED BY <1>1, <1>2

LEMMA HandleTyped ==
  ASSUME NEW r \in Record, NEW a \in Attempts
  PROVE  [r EXCEPT !.handle = a] \in Record /\ [r EXCEPT !.handle = a].status = r.status
BY CountAssumption DEF Record, Attempts

LEMMA OvertakenTyped ==
  ASSUME NEW c \in Control, NEW t
  PROVE  /\ Overtaken(c, t) \in Control
         /\ Overtaken(c, t).of = c.of /\ Overtaken(c, t).at = c.at
         /\ Overtaken(c, t).want = c.want
         /\ c.overtaken \/ c.of = t => Overtaken(c, t).overtaken
BY DEF Overtaken, Control

\* Who is at work on a transfer has begun, on a transfer.
LEMMA BusyIsBegun ==
  ASSUME Typed, FreshInv, NEW a \in Attempts, pc[a] # "free"
  PROVE  a <= used /\ of[a] \in Transfers
BY DEF Typed, AttemptsTyped, FreshInv, Attempts

\* What the steps below have in common: one record changes, to r.
LEMMA RecordStep ==
  ASSUME RegistryTyped, NEW t \in Transfers, NEW r \in Record,
         record' = [record EXCEPT ![t] = r]
  PROVE  /\ record' \in [Transfers -> Record] /\ record'[t] = r
         /\ \A u \in Transfers \ {t} : record'[u] = record[u]
BY DEF RegistryTyped

LEMMA InitLifecycle == Init => LifecycleInv
<1> SUFFICES ASSUME Init PROVE LifecycleInv
  OBVIOUS
<1>1. Typed
  BY NoRecordTyped, CountAssumption
     DEF Init, Typed, RegistryTyped, AttemptsTyped, ActorsTyped, HistoryTyped, Statuses,
         Attempts, ControlsTyped, Control, NoControl
<1>2. FreshInv
  BY DEF Init, FreshInv, Attempts
<1>3. WorkInv /\ EarnInv
  BY NoRecordTyped DEF Init, WorkInv, EarnInv
<1> QED BY <1>1, <1>2, <1>3 DEF LifecycleInv

------------------------------------------------------------------------------
(* Types.                                                                    *)

LEMMA SpawnTyped ==
  ASSUME ActorsTyped, NEW t \in Transfers, NEW a \in Attempts, SpawnActor(a, t)
  PROVE  ActorsTyped'
BY DEF SpawnActor, Begun, ActorsTyped, Statuses

LEMMA TakeTyped ==
  ASSUME Typed, NEW a \in Attempts, NEW t \in Transfers,
         NEW x \in {"registered", "receiving"}, Take(a, t, x)
  PROVE  /\ used' \in 0 .. NAttempts /\ of' \in [Attempts -> 0 .. NTransfers]
         /\ pc' \in [Attempts -> {"free", "registered", "connecting", "opening",
                                  "streaming", "closing", "returned", "receiving", "done"}]
BY CountAssumption DEF Take, Typed, AttemptsTyped, Attempts, Transfers

LEMMA BeginTyped ==
  ASSUME Typed, NEW a \in Attempts, NEW t \in Transfers,
         Start(a, t) \/ Resume(a, t) \/ Incoming(a, t)
  PROVE  Typed'
<1> USE DEF Typed
<1>r. record[t] \in Record
  BY DEF RegistryTyped
<1>1. CASE Start(a, t) \/ Resume(a, t)
  <2>1. RegistryTyped'
    <3>1. Register(record[t], "Sender") \in Record
      BY <1>r, RegisterTyped
    <3> QED BY <1>1, <3>1 DEF Start, Resume, SendBegins, RegistryTyped
  <2>2. AttemptsTyped'
    BY <1>1, TakeTyped DEF Start, Resume, SendBegins, AttemptsTyped
  <2>3. ActorsTyped'
    BY <1>1, SpawnTyped DEF Start, Resume, SendBegins
  <2>4. HistoryTyped'
    BY <1>1 DEF Start, Resume, SendBegins, HistoryTyped
  <2>5. ControlsTyped'
    BY <1>1, OvertakenTyped DEF Start, Resume, SendBegins, ControlsTyped
  <2> QED BY <2>1, <2>2, <2>3, <2>4, <2>5
<1>2. CASE Incoming(a, t)
  <2> DEFINE r == Register(record[t], "Receiver")
  <2>r. r \in Record /\ [r EXCEPT !.handle = a] \in Record
    BY <1>r, RegisterTyped, HandleTyped
  <2> HIDE DEF r
  <2>0. /\ \/ record' = [record EXCEPT ![t] = r] /\ sink' = [sink EXCEPT ![a] = r.handle]
        \/ /\ record' = [record EXCEPT ![t] = [r EXCEPT !.handle = a]]
           /\ sink' = [sink EXCEPT ![a] = a]
    BY <1>2 DEF Incoming, r
  <2>1. RegistryTyped'
    BY <1>2, <2>0, <2>r, CountAssumption DEF Incoming, RegistryTyped, Attempts
  <2>2. sink' \in [Attempts -> 0 .. NAttempts]
    BY <2>0, <2>r, CountAssumption DEF AttemptsTyped, Record, Attempts
  <2>3. AttemptsTyped'
    BY <1>2, <2>2, TakeTyped DEF Incoming, AttemptsTyped
  <2>4. ActorsTyped'
    BY <1>2, SpawnTyped DEF Incoming, ActorsTyped, actorVars
  <2>5. HistoryTyped'
    BY <1>2 DEF Incoming, HistoryTyped, userVars
  <2>6. ControlsTyped'
    BY <1>2 DEF Incoming, ControlsTyped, userVars
  <2> QED BY <2>1, <2>3, <2>4, <2>5, <2>6
<1> QED BY <1>1, <1>2

\* A step of a send session leaves the actors and meta.json alone.
LEMMA SendTyped ==
  ASSUME Typed, FreshInv, NEW a \in Attempts, SendStep(a)
  PROVE  Typed'
<1> USE DEF Typed, registryVars, actorVars, historyVars, userVars
<1>k. ControlsTyped'
  BY DEF SendStep, SetHandle, ConnectFails, Connected, SessionStreams, SessionCompletes,
         SessionStops, SessionFails, SessionReturns, SessionSucceeds, Epilogue, ControlsTyped
<1>a. pc[a] # "free"
  BY DEF SendStep, SetHandle, ConnectFails, Connected, SessionStreams, SessionCompletes,
         SessionStops, SessionFails, SessionSucceeds, Epilogue
<1>b. of[a] \in Transfers /\ record[of[a]] \in Record
  BY <1>a, BusyIsBegun DEF RegistryTyped
<1>c. /\ \A s \in Statuses : SetStatus(record[of[a]], s) \in Record
      /\ [record[of[a]] EXCEPT !.handle = a] \in Record
      /\ record[of[a]].handle \in 0 .. NAttempts
  BY <1>b, SetStatusTyped, HandleTyped DEF Record
<1>1. CASE SetHandle(a)
  BY <1>k, <1>1, <1>b, <1>c
     DEF SetHandle, RegistryTyped, AttemptsTyped, ActorsTyped, HistoryTyped
<1>2. CASE ConnectFails(a)
  BY <1>k, <1>2, <1>b, <1>c
     DEF ConnectFails, RegistryTyped, AttemptsTyped, ActorsTyped, HistoryTyped, Statuses
<1>3. CASE Connected(a) \/ SessionStreams(a) \/ SessionCompletes(a)
  BY <1>k, <1>3, <1>c DEF Connected, SessionStreams, SessionCompletes, RegistryTyped,
                    AttemptsTyped, ActorsTyped, HistoryTyped
<1>4. CASE SessionStops(a) \/ SessionFails(a)
  BY <1>k, <1>4, CountAssumption
     DEF SessionStops, SessionFails, SessionReturns, Verdict, RegistryTyped,
         AttemptsTyped, ActorsTyped, HistoryTyped
<1>5. CASE SessionSucceeds(a)
  BY <1>k, <1>5, <1>b, CountAssumption
     DEF SessionSucceeds, RegistryTyped, AttemptsTyped, ActorsTyped, HistoryTyped
<1>6. CASE Epilogue(a)
  BY <1>k, <1>6, <1>b, <1>c
     DEF Epilogue, RegistryTyped, AttemptsTyped, ActorsTyped, HistoryTyped, Statuses
<1> QED BY <1>1, <1>2, <1>3, <1>4, <1>5, <1>6 DEF SendStep

LEMMA ReceiveTyped ==
  ASSUME Typed, FreshInv, NEW a \in Attempts, ReceiveStep(a)
  PROVE  Typed'
<1> USE DEF Typed, actorVars, userVars
<1>a. ReceiveEnds(a)
  BY DEF ReceiveStep, ReceiveSucceeds, ReceiveRejected, ReceiveCloses
<1>b. of[a] \in Transfers /\ record[of[a]] \in Record
  BY <1>a, BusyIsBegun DEF RegistryTyped, ReceiveEnds
<1>c. \A s \in Statuses : SetStatus(record[of[a]], s) \in Record
  BY <1>b, SetStatusTyped
<1>1. record' \in [Transfers -> Record] /\ earned' \subseteq Transfers
  BY <1>b, <1>c DEF ReceiveStep, ReceiveSucceeds, ReceiveRejected, ReceiveCloses,
                    RegistryTyped, HistoryTyped, Statuses
<1>2. RegistryTyped'
  <2>1. 0 \in 0 .. NAttempts
    BY CountAssumption
  <2>2. inMap' \in [Transfers -> 0 .. NAttempts]
    BY <1>a, <2>1 DEF ReceiveEnds, RegistryTyped
  <2> QED BY <1>a, <1>1, <2>2 DEF ReceiveEnds, RegistryTyped
<1>3. AttemptsTyped'
  BY <1>a, CountAssumption DEF ReceiveEnds, AttemptsTyped
<1>4. ActorsTyped' /\ HistoryTyped' /\ ControlsTyped'
  BY <1>a, <1>1 DEF ReceiveEnds, ActorsTyped, HistoryTyped, ControlsTyped
<1> QED BY <1>2, <1>3, <1>4

LEMMA ActorTyped ==
  ASSUME Typed, NEW a \in Attempts, ActorStep(a)
  PROVE  Typed'
<1> USE DEF Typed, registryVars, attemptVars, actorVars, historyVars, userVars
<1>1. RegistryTyped' /\ AttemptsTyped' /\ HistoryTyped' /\ ControlsTyped'
  BY DEF ActorStep, ActorControl, ActorSave, ActorExit, RegistryTyped, AttemptsTyped,
         HistoryTyped, ControlsTyped
<1>2. ActorsTyped'
  <2>1. CASE ActorControl(a)
    <3>1. PICK s \in inbox[a] : meta' = [meta EXCEPT ![of[a]] = s]
      BY <2>1 DEF ActorControl
    <3>2. s \in {"Paused", "Cancelled"}
      BY <3>1 DEF ActorsTyped
    <3>3. meta' \in [Transfers -> (Statuses \ {"Completed"}) \cup {"none"}]
      BY <3>1, <3>2 DEF ActorsTyped, Statuses
    <3> QED BY <2>1, <3>3 DEF ActorControl, ActorsTyped
  <2>2. CASE ActorSave(a)
    BY <2>2 DEF ActorSave, ActorsTyped
  <2>3. CASE ActorExit(a)
    BY <2>3 DEF ActorExit, ActorsTyped
  <2> QED BY <2>1, <2>2, <2>3 DEF ActorStep
<1> QED BY <1>1, <1>2

LEMMA ControlTyped ==
  ASSUME Typed, NEW t \in Transfers, ResumeReceived(t) \/ Pause(t) \/ Cancel(t)
  PROVE  Typed'
<1> USE DEF Typed, attemptVars, actorVars, userVars
<1>a. \A s \in Statuses : SetStatus(record[t], s) \in Record
  BY SetStatusTyped DEF RegistryTyped
<1>1. RegistryTyped'
  BY <1>a, CountAssumption
     DEF ResumeReceived, Pause, Cancel, ControlBegins, RegistryTyped, Statuses
<1>2. AttemptsTyped' /\ ActorsTyped'
  BY DEF ResumeReceived, Pause, Cancel, ControlBegins, AttemptsTyped, ActorsTyped
<1>3. HistoryTyped'
  BY CountAssumption DEF ResumeReceived, Pause, Cancel, ControlBegins, HistoryTyped
<1>4. ControlsTyped'
  <2>1. CASE ResumeReceived(t)
    BY <2>1 DEF ResumeReceived, ControlsTyped
  <2>2. ASSUME NEW s \in {"Paused", "Cancelled"}, NEW at \in {"map", "tell"},
               ControlBegins(t, s, at)
        PROVE  ControlsTyped'
    BY <2>2, CountAssumption
       DEF ControlBegins, ControlsTyped, HistoryTyped, Control, Controls, Transfers
  <2> QED BY <2>1, <2>2 DEF Pause, Cancel
<1> QED BY <1>1, <1>2, <1>3, <1>4

LEMMA PendingTyped ==
  ASSUME Typed, NEW i \in Controls, CancelLeavesMap(i) \/ ControlTells(i)
  PROVE  Typed'
<1> USE DEF Typed, attemptVars, registryVars, actorVars
<1>1. RegistryTyped'
  BY CountAssumption DEF CancelLeavesMap, ControlTells, RegistryTyped
<1>2. AttemptsTyped'
  BY DEF CancelLeavesMap, ControlTells, AttemptsTyped
<1>3. ActorsTyped'
  <2>1. control[i].at = "tell" => control[i].want \in {"Paused", "Cancelled"}
    BY DEF ControlsTyped, Control
  <2> QED BY <2>1 DEF CancelLeavesMap, ControlTells, ActorsTyped
<1>4. HistoryTyped'
  BY DEF CancelLeavesMap, ControlTells, HistoryTyped
<1>5. ControlsTyped'
  <2>1. CASE CancelLeavesMap(i)
    BY <2>1 DEF CancelLeavesMap, ControlsTyped, Control
  <2>2. CASE ControlTells(i)
    BY <2>2, CountAssumption DEF ControlTells, ControlsTyped, Control, NoControl
  <2> QED BY <2>1, <2>2
<1> QED BY <1>1, <1>2, <1>3, <1>4, <1>5

LEMMA RestartTyped == Typed /\ Restart => Typed'
<1> SUFFICES ASSUME Typed, Restart PROVE Typed'
  OBVIOUS
<1> USE DEF Typed, Restart
<1>1. RegistryTyped'
  BY NoRecordTyped, CountAssumption DEF RegistryTyped
<1>2. AttemptsTyped'
  BY CountAssumption DEF AttemptsTyped
<1>3. ActorsTyped'
  BY DEF ActorsTyped
<1>4. HistoryTyped'
  BY CountAssumption DEF HistoryTyped
<1>5. ControlsTyped'
  BY CountAssumption DEF ControlsTyped, Control, NoControl
<1> QED BY <1>1, <1>2, <1>3, <1>4, <1>5

LEMMA TypedStep == Typed /\ FreshInv /\ [Next]_vars => Typed'
<1> SUFFICES ASSUME Typed, FreshInv, [Next]_vars PROVE Typed'
  OBVIOUS
<1>1. CASE UNCHANGED vars
  BY <1>1 DEF vars, registryVars, attemptVars, actorVars, historyVars, userVars, Typed,
              RegistryTyped, AttemptsTyped, ActorsTyped, HistoryTyped, ControlsTyped
<1> QED
  BY <1>1, BeginTyped, SendTyped, ReceiveTyped, ActorTyped, ControlTyped, PendingTyped,
     RestartTyped
     DEF Next

------------------------------------------------------------------------------
(* Attempts.                                                                 *)

LEMMA FreshStep == LifecycleInv /\ [Next]_vars => FreshInv'
<1> SUFFICES ASSUME LifecycleInv, [Next]_vars PROVE FreshInv'
  OBVIOUS
<1> USE DEF LifecycleInv
<1>0. pc \in [Attempts -> {"free", "registered", "connecting", "opening", "streaming",
                          "closing", "returned", "receiving", "done"}]
      /\ DOMAIN outcome = Attempts /\ DOMAIN of = Attempts /\ used \in Int
  BY CountAssumption DEF Typed, AttemptsTyped
<1>1. ASSUME NEW a \in Attempts, NEW t \in Transfers,
             Start(a, t) \/ Resume(a, t) \/ Incoming(a, t)
      PROVE  FreshInv'
  <2>1. PICK x \in {"registered", "receiving"} : Take(a, t, x)
    BY <1>1 DEF Start, Resume, SendBegins, Incoming
  <2>2. outcome' = outcome
    BY <1>1 DEF Start, Resume, SendBegins, Incoming
  <2> QED BY <1>0, <2>1, <2>2 DEF Take, FreshInv, Attempts
<1>2. ASSUME NEW a \in Attempts, SendStep(a) PROVE FreshInv'
  <2>1. pc[a] # "free" /\ UNCHANGED <<used, of>>
    BY <1>2 DEF SendStep, SetHandle, ConnectFails, Connected, SessionStreams,
                SessionCompletes, SessionStops, SessionFails, SessionReturns,
                SessionSucceeds, Epilogue
  <2>2. a <= used
    BY <1>0, <2>1 DEF FreshInv, Attempts
  <2>3. PICK x, r : /\ pc' = [pc EXCEPT ![a] = x] /\ outcome' = [outcome EXCEPT ![a] = r]
                    /\ x # "returned" => r = "none"
    <3>1. CASE SessionStops(a) \/ SessionFails(a) \/ SessionSucceeds(a)
      <4>1. PICK r : pc' = [pc EXCEPT ![a] = "returned"]
                     /\ outcome' = [outcome EXCEPT ![a] = r]
        BY <3>1 DEF SessionStops, SessionFails, SessionReturns, SessionSucceeds
      <4> QED BY <4>1
    <3>2. CASE Epilogue(a)
      BY <3>2 DEF Epilogue
    <3>3. CASE SetHandle(a) \/ ConnectFails(a) \/ Connected(a) \/ SessionStreams(a)
               \/ SessionCompletes(a)
      <4>1. outcome[a] = "none" /\ outcome' = [outcome EXCEPT ![a] = "none"]
        <5>1. pc[a] # "returned" /\ outcome' = outcome
          BY <3>3 DEF SetHandle, ConnectFails, Connected, SessionStreams, SessionCompletes
        <5> QED BY <1>0, <5>1 DEF FreshInv, Typed, AttemptsTyped
      <4>2. PICK x : pc' = [pc EXCEPT ![a] = x]
        BY <3>3 DEF SetHandle, ConnectFails, Connected, SessionStreams, SessionCompletes
      <4> QED BY <4>1, <4>2
    <3> QED BY <1>2, <3>1, <3>2, <3>3 DEF SendStep
  <2> QED BY <1>0, <2>1, <2>2, <2>3 DEF FreshInv, Attempts
<1>3. ASSUME NEW a \in Attempts, ReceiveStep(a) PROVE FreshInv'
  <2>1. ReceiveEnds(a)
    BY <1>3 DEF ReceiveStep, ReceiveSucceeds, ReceiveRejected, ReceiveCloses
  <2> QED BY <1>0, <2>1 DEF ReceiveEnds, FreshInv, Attempts
<1>4. ASSUME UNCHANGED <<used, of, pc, outcome>> PROVE FreshInv'
  BY <1>4 DEF FreshInv
<1>5. CASE Restart
  BY <1>0, <1>5 DEF Restart, FreshInv, Attempts
<1> QED
  BY <1>1, <1>2, <1>3, <1>4, <1>5
     DEF Next, ActorStep, ActorControl, ActorSave, ActorExit, ResumeReceived, Pause, Cancel,
         ControlBegins, CancelLeavesMap, ControlTells, vars, attemptVars

------------------------------------------------------------------------------
(* Somebody works on what is in progress.                                    *)

LEMMA WorkKept ==
  ASSUME WorkInv, NEW t \in Transfers,
         \A u \in Transfers \ {t} : /\ record'[u] = record[u]
                                    /\ u \in abandoned => u \in abandoned'
                                    /\ Working(u) => Working(u)',
         record'[t].status = "InProgress" => t \in abandoned' \/ Working(t)'
  PROVE  WorkInv'
BY DEF WorkInv

LEMMA WorkingKept ==
  ASSUME NEW a \in Attempts, NEW u,
         \A b \in Attempts \ {a} :
           of'[b] = of[b] /\ pc'[b] = pc[b] /\ outcome'[b] = outcome[b],
         Working(u),
         \/ of[a] # u \/ pc[a] = "free" \/ outcome[a] \in {"Paused", "Cancelled"}
  PROVE  Working(u)'
<1>1. PICK b \in Attempts : /\ of[b] = u /\ pc[b] \notin {"free", "done"}
                            /\ outcome[b] \notin {"Paused", "Cancelled"}
  BY DEF Working
<1>2. b # a
  BY <1>1
<1> QED BY <1>1, <1>2 DEF Working

LEMMA BeginWorks ==
  ASSUME LifecycleInv, NEW a \in Attempts, NEW t \in Transfers,
         Start(a, t) \/ Resume(a, t) \/ Incoming(a, t)
  PROVE  WorkInv'
<1> USE DEF LifecycleInv
<1>1. PICK x \in {"registered", "receiving"} : Take(a, t, x)
  BY DEF Start, Resume, SendBegins, Incoming
<1>2. outcome' = outcome /\ pc[a] = "free" /\ outcome[a] = "none"
  BY <1>1, CountAssumption
     DEF Start, Resume, SendBegins, Incoming, Take, FreshInv, Typed, AttemptsTyped, Attempts
<1>3. \A b \in Attempts \ {a} :
        of'[b] = of[b] /\ pc'[b] = pc[b] /\ outcome'[b] = outcome[b]
  BY <1>1, <1>2 DEF Take, Typed, AttemptsTyped
<1>4. Working(t)'
  BY <1>1, <1>2 DEF Take, Typed, AttemptsTyped, Working
<1>5. \A u \in Transfers : Working(u) => Working(u)'
  BY <1>2, <1>3, WorkingKept
<1>6. \A u \in Transfers \ {t} : /\ record'[u] = record[u]
                                 /\ u \in abandoned => u \in abandoned'
  BY DEF Start, Resume, SendBegins, Incoming, historyVars, Typed, RegistryTyped
<1> QED BY <1>4, <1>5, <1>6, WorkKept

LEMMA SendWorks ==
  ASSUME LifecycleInv, NEW a \in Attempts, SendStep(a)
  PROVE  WorkInv'
<1> USE DEF LifecycleInv
<1>0. /\ pc \in [Attempts -> {"free", "registered", "connecting", "opening", "streaming",
                             "closing", "returned", "receiving", "done"}]
      /\ DOMAIN outcome = Attempts /\ record \in [Transfers -> Record]
  BY DEF Typed, AttemptsTyped, RegistryTyped
<1>a. pc[a] # "free" /\ of' = of
  BY DEF SendStep, SetHandle, ConnectFails, Connected, SessionStreams, SessionCompletes,
         SessionStops, SessionFails, SessionReturns, SessionSucceeds, Epilogue
<1>t. PICK t \in Transfers : t = of[a]
  BY <1>a, BusyIsBegun
<1>r. record[t] \in Record
  BY <1>0
<1>3. \A b \in Attempts \ {a} : pc'[b] = pc[b] /\ outcome'[b] = outcome[b]
  BY <1>0 DEF SendStep, SetHandle, ConnectFails, Connected, SessionStreams,
              SessionCompletes, SessionStops, SessionFails, SessionReturns,
              SessionSucceeds, Epilogue, Typed, AttemptsTyped
<1>4. \A u \in Transfers \ {t} : Working(u) => Working(u)'
  BY <1>a, <1>t, <1>3, WorkingKept
<1>5. \A u \in Transfers \ {t} : /\ record'[u] = record[u]
                                 /\ u \in abandoned => u \in abandoned'
  BY <1>0, <1>t DEF SendStep, SetHandle, ConnectFails, Connected, SessionStreams,
              SessionCompletes, SessionStops, SessionFails, SessionReturns,
              SessionSucceeds, Epilogue, historyVars, registryVars
<1>6. record'[t].status = "InProgress" => t \in abandoned' \/ Working(t)'
  <2>1. CASE SetHandle(a) \/ Connected(a) \/ SessionStreams(a) \/ SessionCompletes(a)
    <3>1. /\ pc'[a] \notin {"free", "done"} /\ outcome' = outcome
          /\ pc[a] # "returned"
      BY <1>0, <2>1 DEF SetHandle, Connected, SessionStreams, SessionCompletes
    <3>2. outcome'[a] = "none"
      BY <3>1 DEF FreshInv
    <3> QED BY <1>a, <1>t, <3>1, <3>2 DEF Working
  <2>2. CASE ConnectFails(a)
    <3>1. CASE IsStart(a)
      <4>1. record'[t] = SetStatus(record[t], "Failed")
        BY <1>0, <1>t, <2>2, <3>1 DEF ConnectFails
      <4> QED BY <1>r, <4>1, SetStatusTyped DEF Statuses
    <3>2. CASE ~IsStart(a)
      BY <1>t, <2>2, <3>2 DEF ConnectFails
    <3> QED BY <3>1, <3>2
  <2>3. CASE SessionStops(a)
    <3>1. record' = record /\ pc'[a] = "returned"
          /\ outcome'[a] = Verdict(record[t].status)
      BY <1>0, <1>t, <2>3 DEF SessionStops, SessionReturns, registryVars
    <3>2. record[t].status = "InProgress" => outcome'[a] = "Error"
      BY <3>1 DEF Verdict
    <3> QED BY <1>a, <1>t, <3>1, <3>2 DEF Working
  <2>4. CASE SessionFails(a) \/ SessionSucceeds(a)
    <3>1. pc'[a] = "returned" /\ outcome'[a] \in {"Ok", "Error", "ReadError"}
      BY <1>0, <2>4 DEF SessionFails, SessionReturns, SessionSucceeds
    <3> QED BY <1>a, <1>t, <3>1 DEF Working
  <2>5. CASE Epilogue(a) /\ outcome[a] \in {"Paused", "Cancelled"}
    <3>1. record'[t] = record[t] /\ abandoned' = abandoned
      BY <1>0, <1>t, <2>5 DEF Epilogue, historyVars
    <3>2. Working(t) => Working(t)'
      BY <1>a, <1>3, <2>5, WorkingKept
    <3> QED BY <3>1, <3>2 DEF WorkInv
  <2>6. CASE Epilogue(a) /\ outcome[a] \notin {"Paused", "Cancelled"}
    <3>1. PICK s \in {"Completed", "Failed"} : record'[t] = SetStatus(record[t], s)
      <4>1. CASE outcome[a] = "Ok"
        BY <1>0, <1>t, <2>6, <4>1 DEF Epilogue
      <4>2. CASE outcome[a] # "Ok"
        BY <1>0, <1>t, <2>6, <4>2 DEF Epilogue
      <4> QED BY <4>1, <4>2
    <3> QED BY <1>r, <3>1, SetStatusTyped DEF Statuses
  <2> QED BY <2>1, <2>2, <2>3, <2>4, <2>5, <2>6 DEF SendStep
<1> QED BY <1>4, <1>5, <1>6, WorkKept

LEMMA ReceiveWorks ==
  ASSUME LifecycleInv, NEW a \in Attempts, ReceiveStep(a)
  PROVE  WorkInv'
<1> USE DEF LifecycleInv
<1>0. /\ DOMAIN pc = Attempts /\ record \in [Transfers -> Record]
  BY DEF Typed, AttemptsTyped, RegistryTyped
<1>a. ReceiveEnds(a)
  BY DEF ReceiveStep, ReceiveSucceeds, ReceiveRejected, ReceiveCloses
<1>t. PICK t \in Transfers : t = of[a]
  BY <1>a, BusyIsBegun DEF ReceiveEnds
<1>r. record[t] \in Record
  BY <1>0
<1>1. \A b \in Attempts \ {a} :
        of'[b] = of[b] /\ pc'[b] = pc[b] /\ outcome'[b] = outcome[b]
  BY <1>0, <1>a DEF ReceiveEnds
<1>2. \A u \in Transfers \ {t} : Working(u) => Working(u)'
  BY <1>t, <1>1, WorkingKept
<1>3. abandoned' = abandoned
  BY <1>a DEF ReceiveEnds
<1>4. \A u \in Transfers \ {t} : record'[u] = record[u]
  BY <1>0, <1>t DEF ReceiveStep, ReceiveSucceeds, ReceiveRejected, ReceiveCloses
<1>5. \/ record'[t] = record[t] /\ record[t].status \in {"Paused", "Cancelled", "Completed"}
      \/ \E s \in {"Completed", "Failed"} : record'[t] = SetStatus(record[t], s)
  BY <1>0, <1>t DEF ReceiveStep, ReceiveSucceeds, ReceiveRejected, ReceiveCloses
<1>6. record'[t].status # "InProgress"
  BY <1>r, <1>5, SetStatusTyped DEF Statuses
<1> QED BY <1>2, <1>3, <1>4, <1>6, WorkKept

LEMMA ControlWorks ==
  ASSUME LifecycleInv, NEW t \in Transfers, ResumeReceived(t) \/ Pause(t) \/ Cancel(t)
  PROVE  WorkInv'
<1> USE DEF LifecycleInv
<1>0. record \in [Transfers -> Record]
  BY DEF Typed, RegistryTyped
<1>1. \A u \in Transfers : /\ u \in abandoned => u \in abandoned'
                           /\ Working(u) => Working(u)'
  BY DEF ResumeReceived, Pause, Cancel, ControlBegins, attemptVars, Working
<1>2. \A u \in Transfers \ {t} : record'[u] = record[u]
  BY <1>0 DEF ResumeReceived, Pause, Cancel, ControlBegins
<1>3. \/ t \in abandoned'
      \/ \E s \in {"Paused", "Cancelled"} : record'[t] = SetStatus(record[t], s)
  BY <1>0 DEF ResumeReceived, Pause, Cancel, ControlBegins
<1>4. record'[t].status = "InProgress" => t \in abandoned'
  BY <1>0, <1>3, SetStatusTyped DEF Statuses
<1> QED BY <1>1, <1>2, <1>4, WorkKept

LEMMA WorkStep == LifecycleInv /\ [Next]_vars => WorkInv'
<1> SUFFICES ASSUME LifecycleInv, [Next]_vars PROVE WorkInv'
  OBVIOUS
<1>1. ASSUME UNCHANGED <<record, abandoned, of, pc, outcome>> PROVE WorkInv'
  BY <1>1 DEF LifecycleInv, WorkInv, Working
<1>2. CASE Restart
  BY <1>2, NoRecordTyped DEF Restart, WorkInv
<1> QED
  BY <1>1, <1>2, BeginWorks, SendWorks, ReceiveWorks, ControlWorks
     DEF Next, ActorStep, ActorControl, ActorSave, ActorExit, CancelLeavesMap, ControlTells,
         vars, attemptVars, registryVars, historyVars

------------------------------------------------------------------------------
(* What is completed was earned.                                             *)

LEMMA EarnStep == LifecycleInv /\ [Next]_vars => EarnInv'
<1> SUFFICES ASSUME LifecycleInv, [Next]_vars PROVE EarnInv'
  OBVIOUS
<1> USE DEF LifecycleInv
<1>0. /\ record \in [Transfers -> Record] /\ DOMAIN outcome = Attempts
      /\ DOMAIN of = Attempts
  BY DEF Typed, AttemptsTyped, RegistryTyped
<1>1. ASSUME NEW a \in Attempts, NEW t \in Transfers,
             Start(a, t) \/ Resume(a, t) \/ Incoming(a, t)
      PROVE  EarnInv'
  <2>1. PICK x \in {"registered", "receiving"} : Take(a, t, x)
    BY <1>1 DEF Start, Resume, SendBegins, Incoming
  <2>2. outcome' = outcome /\ earned' = earned /\ outcome[a] = "none"
    BY <1>1, <2>1, CountAssumption
       DEF Start, Resume, SendBegins, Incoming, Take, FreshInv, Typed, AttemptsTyped, Attempts,
           userVars
  <2>3. \A b \in Attempts \ {a} : of'[b] = of[b]
    BY <1>0, <2>1 DEF Take
  <2>4. \A u \in Transfers \ {t} : record'[u] = record[u]
    BY <1>0, <1>1 DEF Start, Resume, SendBegins, Incoming
  <2>5. record'[t].status \in {"InProgress", record[t].status}
    <3>0. \A role \in {"Sender", "Receiver"} :
            /\ Register(record[t], role) \in Record
            /\ Register(record[t], role).status \in {"InProgress", record[t].status}
      BY <1>0, RegisterTyped
    <3>1. \E r \in Record : /\ r.status \in {"InProgress", record[t].status}
                            /\ record'[t] = r \/ record'[t] = [r EXCEPT !.handle = a]
      <4>1. CASE Start(a, t) \/ Resume(a, t)
        BY <1>0, <3>0, <4>1 DEF Start, Resume, SendBegins
      <4>2. CASE Incoming(a, t)
        BY <1>0, <3>0, <4>2 DEF Incoming
      <4> QED BY <1>1, <4>1, <4>2
    <3> QED BY <3>1, HandleTyped
  <2> QED BY <2>2, <2>3, <2>4, <2>5 DEF EarnInv
<1>2. ASSUME NEW a \in Attempts, SendStep(a) PROVE EarnInv'
  <2>a. pc[a] # "free" /\ of' = of /\ earned \subseteq earned'
    BY <1>2 DEF SendStep, SetHandle, ConnectFails, Connected, SessionStreams,
                SessionCompletes, SessionStops, SessionFails, SessionReturns,
                SessionSucceeds, Epilogue, historyVars
  <2>t. PICK t \in Transfers : t = of[a]
    BY <2>a, BusyIsBegun
  <2>1. \A b \in Attempts \ {a} : outcome'[b] = outcome[b]
    BY <1>0, <1>2 DEF SendStep, SetHandle, ConnectFails, Connected, SessionStreams,
                SessionCompletes, SessionStops, SessionFails, SessionReturns,
                SessionSucceeds, Epilogue
  <2>2. outcome'[a] = "Ok" => of[a] \in earned'
    <3>1. CASE SessionStops(a) \/ SessionFails(a)
      <4>1. PICK r \in {"Paused", "Cancelled", "Error", "ReadError"} :
              outcome' = [outcome EXCEPT ![a] = r]
        BY <3>1 DEF SessionStops, SessionFails, SessionReturns, Verdict
      <4> QED BY <1>0, <4>1
    <3>2. CASE SessionSucceeds(a)
      BY <3>2 DEF SessionSucceeds
    <3>3. CASE Epilogue(a)
      BY <1>0, <3>3 DEF Epilogue
    <3>4. CASE SetHandle(a) \/ ConnectFails(a) \/ Connected(a) \/ SessionStreams(a)
               \/ SessionCompletes(a)
      <4>1. outcome' = outcome
        BY <3>4 DEF SetHandle, ConnectFails, Connected, SessionStreams, SessionCompletes
      <4> QED BY <2>a, <4>1 DEF EarnInv
    <3> QED BY <1>2, <3>1, <3>2, <3>3, <3>4 DEF SendStep
  <2>3. \A u \in Transfers \ {t} : record'[u] = record[u]
    BY <1>0, <1>2, <2>t DEF SendStep, SetHandle, ConnectFails, Connected,
              SessionStreams, SessionCompletes, SessionStops, SessionFails,
              SessionReturns, SessionSucceeds, Epilogue, registryVars
  <2>4. record'[t].status = "Completed" => t \in earned'
    <3>1. CASE SetHandle(a)
      <4>1. record'[t] = [record[t] EXCEPT !.handle = a]
        BY <1>0, <2>t, <3>1 DEF SetHandle
      <4> QED BY <1>0, <2>a, <4>1, HandleTyped DEF EarnInv
    <3>2. CASE ConnectFails(a)
      <4>1. record'[t] = record[t] \/ record'[t] = SetStatus(record[t], "Failed")
        BY <1>0, <2>t, <3>2 DEF ConnectFails
      <4> QED BY <1>0, <2>a, <4>1, SetStatusTyped DEF EarnInv, Statuses
    <3>3. CASE Epilogue(a)
      <4>1. CASE outcome[a] = "Ok"
        BY <2>a, <2>t, <4>1 DEF EarnInv
      <4>2. CASE outcome[a] \in {"Paused", "Cancelled"}
        <5>1. record'[t] = record[t]
          BY <1>0, <2>t, <3>3, <4>2 DEF Epilogue
        <5> QED BY <2>a, <5>1 DEF EarnInv
      <4>3. CASE outcome[a] \notin {"Ok", "Paused", "Cancelled"}
        <5>1. record'[t] = SetStatus(record[t], "Failed")
          BY <1>0, <2>t, <3>3, <4>3 DEF Epilogue
        <5> QED BY <1>0, <5>1, SetStatusTyped DEF Statuses
      <4> QED BY <4>1, <4>2, <4>3
    <3>4. CASE Connected(a) \/ SessionStreams(a) \/ SessionCompletes(a)
               \/ SessionStops(a) \/ SessionFails(a) \/ SessionSucceeds(a)
      <4>1. record' = record
        BY <3>4 DEF Connected, SessionStreams, SessionCompletes, SessionStops,
                    SessionFails, SessionReturns, SessionSucceeds, registryVars
      <4> QED BY <2>a, <4>1 DEF EarnInv
    <3> QED BY <1>2, <3>1, <3>2, <3>3, <3>4 DEF SendStep
  <2> QED BY <2>a, <2>1, <2>2, <2>3, <2>4 DEF EarnInv
<1>3. ASSUME NEW a \in Attempts, ReceiveStep(a) PROVE EarnInv'
  <2>a. ReceiveEnds(a) /\ earned \subseteq earned'
    BY <1>3 DEF ReceiveStep, ReceiveSucceeds, ReceiveRejected, ReceiveCloses
  <2>t. PICK t \in Transfers : t = of[a]
    BY <2>a, BusyIsBegun DEF ReceiveEnds
  <2>1. of' = of /\ outcome' = outcome
    BY <2>a DEF ReceiveEnds
  <2>2. \A u \in Transfers \ {t} : record'[u] = record[u]
    BY <1>0, <1>3, <2>t DEF ReceiveStep, ReceiveSucceeds, ReceiveRejected, ReceiveCloses
  <2>3. record'[t].status = "Completed" => t \in earned'
    <3>1. \/ t \in earned' \/ record'[t] = record[t]
          \/ record'[t] = SetStatus(record[t], "Failed")
      BY <1>0, <1>3, <2>t
         DEF ReceiveStep, ReceiveSucceeds, ReceiveRejected, ReceiveCloses
    <3> QED BY <1>0, <2>a, <3>1, SetStatusTyped DEF EarnInv, Statuses
  <2> QED BY <2>a, <2>1, <2>2, <2>3 DEF EarnInv
<1>4. ASSUME NEW t \in Transfers, ResumeReceived(t) \/ Pause(t) \/ Cancel(t)
      PROVE  EarnInv'
  <2>1. of' = of /\ outcome' = outcome /\ earned' = earned
    BY <1>4 DEF ResumeReceived, Pause, Cancel, ControlBegins, attemptVars
  <2>2. \A u \in Transfers \ {t} : record'[u] = record[u]
    BY <1>0, <1>4 DEF ResumeReceived, Pause, Cancel, ControlBegins
  <2>3. \E s \in {"InProgress", "Paused", "Cancelled"} :
          record'[t] = SetStatus(record[t], s)
    BY <1>0, <1>4 DEF ResumeReceived, Pause, Cancel, ControlBegins
  <2>4. record'[t].status # "Completed"
    BY <1>0, <2>3, SetStatusTyped DEF Statuses
  <2> QED BY <2>1, <2>2, <2>4 DEF EarnInv
<1>5. CASE Restart
  BY <1>5, NoRecordTyped DEF Restart, EarnInv
<1>6. ASSUME UNCHANGED <<record, earned, of, outcome>> PROVE EarnInv'
  BY <1>6 DEF EarnInv
<1> QED
  BY <1>1, <1>2, <1>3, <1>4, <1>5, <1>6
     DEF Next, ActorStep, ActorControl, ActorSave, ActorExit, CancelLeavesMap, ControlTells,
         vars, attemptVars, registryVars, historyVars

------------------------------------------------------------------------------
(* Who works on a transfer reports to a living actor.                        *)

Sending == {"registered", "connecting", "opening", "streaming", "closing", "returned"}

\* This device sends a transfer or receives it; an attempt that has not begun is
\* on no transfer.
SidesInv ==
  /\ \A t \in Transfers \ received : record[t] = NoRecord \/ record[t].role = "Sender"
  /\ \A a \in Attempts : pc[a] \in Sending =>
       of[a] \notin received /\ record[of[a]].role = "Sender"
  /\ \A a \in Attempts : pc[a] = "free" => of[a] = 0

\* A handle is registered, and taken by a session, for its own transfer.
HandleInv ==
  /\ \A t \in Transfers : record[t].handle # 0 =>
       of[record[t].handle] = t /\ pc[record[t].handle] \notin {"free", "registered"}
  /\ \A a \in Attempts : sink[a] # 0 => of[sink[a]] = of[a] /\ pc[sink[a]] # "free"

\* Nobody can have told the actor of an attempt that has not set its handle.
InboxInv ==
  \A a \in Attempts : /\ pc[a] \in {"free", "registered"} => inbox[a] = {}
                      /\ pc[a] = "registered" => alive[a]

\* An actor that was not told to stop, or was told across a resume.
Listens(h) == h # 0 /\ ((alive[h] /\ inbox[h] = {}) \/ h \in crossed)

LatestSender(a) == \A b \in AttemptsOf(of[a]) : b > a => pc[b] = "receiving"

\* What is pending for a transfer that is in progress is older than its resume.
PendingInv ==
  \A i \in Controls :
    /\ control[i].at # "none" /\ control[i].of \notin received
    /\ record[control[i].of].status = "InProgress"
    => control[i].overtaken

\* WorkerHasLiveActor from the moment the handle is set: the actor that is
\* registered, and later the session's own, has not been told to stop.
LiveInv ==
  \A a \in Attempts :
    /\ pc[a] \in {"connecting", "opening", "streaming"} /\ LatestSender(a)
    /\ record[of[a]].status = "InProgress"
    => /\ Listens(record[of[a]].handle)
       /\ pc[a] = "streaming" => Listens(sink[a])

ListenInv == SidesInv /\ HandleInv /\ InboxInv /\ PendingInv /\ LiveInv

LEMMA InitListens == Init => ListenInv
BY NoRecordTyped DEF Init, ListenInv, SidesInv, HandleInv, InboxInv, PendingInv, LiveInv,
                     Sending, NoRecord, NoControl

\* What a step of a session does to what the invariant speaks of.
SessionMoves(a, x, r) ==
  /\ UNCHANGED <<received, used, of, alive, inbox, control, crossed>>
  /\ pc' = [pc EXCEPT ![a] = x] /\ record' = [record EXCEPT ![of[a]] = r]
  /\ record[of[a]] # NoRecord \/ r = NoRecord \/ pc[a] \in Sending
  /\ r.role = record[of[a]].role
  /\ r.status \in {record[of[a]].status, "Failed", "Completed"}
  /\ \/ /\ pc[a] = "registered" /\ x = "connecting" /\ r.handle = a /\ sink' = sink
     \/ /\ pc[a] = "connecting" /\ x = "opening"
        /\ r.handle = record[of[a]].handle /\ sink' = sink
     \/ /\ pc[a] = "opening" /\ x = "streaming"
        /\ r.handle = record[of[a]].handle
        /\ sink' = [sink EXCEPT ![a] = r.handle]
     \/ /\ pc[a] \in Sending /\ x \in {"closing", "returned", "done"}
        /\ r.handle = record[of[a]].handle
        /\ sink' = sink \/ sink' = [sink EXCEPT ![a] = 0]
     \/ /\ pc[a] = "receiving" /\ x = "done"
        /\ r.handle = record[of[a]].handle
        /\ sink' = [sink EXCEPT ![a] = 0]

LEMMA SetStatusKeeps ==
  ASSUME NEW r \in Record, NEW s \in Statuses
  PROVE  /\ SetStatus(r, s).role = r.role /\ SetStatus(r, s).handle = r.handle
         /\ SetStatus(r, s).status \in {r.status, s}
         /\ r # NoRecord => SetStatus(r, s).status = s
BY DEF SetStatus, Record

LEMMA SessionShape ==
  ASSUME LifecycleInv, NEW a \in Attempts, SendStep(a) \/ ReceiveStep(a)
  PROVE  \E x : \E r \in Record : SessionMoves(a, x, r)

<1> USE DEF LifecycleInv, registryVars, actorVars, historyVars, userVars
<1>0. pc[a] # "free"
  BY DEF SendStep, SetHandle, ConnectFails, Connected, SessionStreams, SessionCompletes,
         SessionStops, SessionFails, SessionSucceeds, Epilogue, ReceiveStep,
         ReceiveSucceeds, ReceiveRejected, ReceiveCloses, ReceiveEnds
<1>t. PICK t \in Transfers : t = of[a]
  BY <1>0, BusyIsBegun
<1>r. PICK q \in Record : q = record[t]
  BY DEF Typed, RegistryTyped
<1>s. /\ record \in [Transfers -> Record]
      /\ record = [record EXCEPT ![of[a]] = q]
  BY <1>t, <1>r DEF Typed, RegistryTyped
<1>q. \A s \in {"Failed", "Completed"} :
        /\ SetStatus(q, s) \in Record /\ SetStatus(q, s).role = q.role
        /\ SetStatus(q, s).handle = q.handle /\ SetStatus(q, s).status \in {q.status, s}
        /\ q = NoRecord => SetStatus(q, s) = NoRecord
  <2> TAKE s \in {"Failed", "Completed"}
  <2>1. s \in Statuses
    BY DEF Statuses
  <2>2. SetStatus(q, s) \in Record
    BY <2>1, SetStatusTyped
  <2>3. q = NoRecord => SetStatus(q, s) = NoRecord
    BY DEF SetStatus
  <2> QED BY <2>1, <2>2, <2>3, SetStatusKeeps
<1>1. CASE SetHandle(a)
  <2>1. record' = [record EXCEPT ![of[a]] = [q EXCEPT !.handle = a]]
    BY <1>t, <1>r, <1>1 DEF SetHandle
  <2>2. /\ [q EXCEPT !.handle = a] \in Record /\ [q EXCEPT !.handle = a].handle = a
        /\ [q EXCEPT !.handle = a].role = q.role
        /\ [q EXCEPT !.handle = a].status = q.status
    BY HandleTyped DEF Record
  <2>3. SessionMoves(a, "connecting", [q EXCEPT !.handle = a])
    BY <1>t, <1>r, <1>1, <2>1, <2>2 DEF SetHandle, SessionMoves, Sending
  <2> QED BY <2>2, <2>3
<1>2. CASE ConnectFails(a)
  <2>1. \E r \in {q, SetStatus(q, "Failed")} : record' = [record EXCEPT ![of[a]] = r]
    BY <1>t, <1>r, <1>s, <1>2 DEF ConnectFails
  <2>2. PICK r \in {q, SetStatus(q, "Failed")} : record' = [record EXCEPT ![of[a]] = r]
    BY <2>1
  <2>3. SessionMoves(a, "done", r)
    BY <1>t, <1>r, <1>q, <1>2, <2>2 DEF ConnectFails, SessionMoves, Sending
  <2> QED BY <1>q, <2>3
<1>3. CASE Connected(a) \/ SessionStreams(a) \/ SessionCompletes(a)
  <2>1. \E x : SessionMoves(a, x, q)
    <3>1. CASE Connected(a)
      <4>1. SessionMoves(a, "opening", q)
        BY <1>t, <1>r, <1>s, <3>1 DEF Connected, SessionMoves
      <4> QED BY <4>1
    <3>2. CASE SessionStreams(a)
      <4>1. SessionMoves(a, "streaming", q)
        BY <1>t, <1>r, <1>s, <3>2 DEF SessionStreams, SessionMoves
      <4> QED BY <4>1
    <3>3. CASE SessionCompletes(a)
      <4>1. SessionMoves(a, "closing", q)
        BY <1>t, <1>r, <1>s, <3>3 DEF SessionCompletes, SessionMoves, Sending
      <4> QED BY <4>1
    <3> QED BY <1>3, <3>1, <3>2, <3>3
  <2> QED BY <2>1
<1>4. CASE SessionStops(a) \/ SessionFails(a) \/ SessionSucceeds(a)
  <2>1. SessionMoves(a, "returned", q)
    BY <1>t, <1>r, <1>s, <1>4
       DEF SessionStops, SessionFails, SessionReturns, SessionSucceeds, SessionMoves,
           Sending
  <2> QED BY <2>1
<1>5. CASE Epilogue(a)
  <2>1. PICK r \in {q, SetStatus(q, "Failed"), SetStatus(q, "Completed")} :
          record' = [record EXCEPT ![of[a]] = r]
    <3>1. CASE outcome[a] = "Ok"
      BY <1>t, <1>r, <1>s, <1>5, <3>1 DEF Epilogue
    <3>2. CASE outcome[a] \in {"Paused", "Cancelled"}
      BY <1>t, <1>r, <1>s, <1>5, <3>2 DEF Epilogue
    <3>3. CASE outcome[a] \notin {"Ok", "Paused", "Cancelled"}
      BY <1>t, <1>r, <1>s, <1>5, <3>3 DEF Epilogue
    <3> QED BY <3>1, <3>2, <3>3
  <2>2. SessionMoves(a, "done", r)
    BY <1>t, <1>r, <1>q, <1>5, <2>1 DEF Epilogue, SessionMoves, Sending
  <2> QED BY <1>q, <2>1, <2>2
<1>6. CASE ReceiveStep(a)
  <2>1. PICK r \in {q, SetStatus(q, "Failed"), SetStatus(q, "Completed")} :
          record' = [record EXCEPT ![of[a]] = r]
    BY <1>t, <1>r, <1>s, <1>6
       DEF ReceiveStep, ReceiveSucceeds, ReceiveRejected, ReceiveCloses
  <2>2. ReceiveEnds(a)
    BY <1>6 DEF ReceiveStep, ReceiveSucceeds, ReceiveRejected, ReceiveCloses
  <2>3. SessionMoves(a, "done", r)
    BY <1>t, <1>r, <1>q, <2>1, <2>2 DEF ReceiveEnds, SessionMoves
  <2> QED BY <1>q, <2>1, <2>3
<1> QED BY <1>1, <1>2, <1>3, <1>4, <1>5, <1>6 DEF SendStep

\* Steps that leave the records' handles and the actors alone, or set the handle of
\* an attempt whose actor nobody could have told.
LEMMA SessionListens ==
  ASSUME LifecycleInv, ListenInv, NEW a \in Attempts, NEW x, NEW r \in Record,
         SessionMoves(a, x, r)
  PROVE  ListenInv'
<1> USE DEF LifecycleInv, ListenInv
<1>0. /\ pc \in [Attempts -> {"free", "registered", "connecting", "opening", "streaming",
                             "closing", "returned", "receiving", "done"}]
      /\ sink \in [Attempts -> 0 .. NAttempts]
      /\ record \in [Transfers -> Record]
  BY DEF Typed, AttemptsTyped, RegistryTyped
<1>a. pc[a] # "free" /\ x \notin {"free", "registered", "receiving"}
      /\ UNCHANGED <<received, used, of, alive, inbox, control, crossed>>
  BY DEF SessionMoves, Sending
<1>t. PICK t \in Transfers : t = of[a]
  BY <1>a, BusyIsBegun
<1>1. /\ record' \in [Transfers -> Record] /\ record'[t] = r
      /\ \A u \in Transfers \ {t} : record'[u] = record[u]
      /\ \A u \in Transfers : record'[u].role = record[u].role
                              /\ record'[u].status \in {record[u].status, "Failed", "Completed"}
  BY <1>0, <1>t DEF SessionMoves
<1>2. /\ pc'[a] = x /\ \A b \in Attempts \ {a} : pc'[b] = pc[b]
      /\ \A b \in Attempts : /\ pc[b] # "free" => pc'[b] # "free"
                             /\ pc'[b] \in {"free", "registered", "receiving"} => pc'[b] = pc[b]
  BY <1>0, <1>a DEF SessionMoves
<1>3. \A b \in Attempts \ {a} : sink'[b] = sink[b]
  BY <1>0 DEF SessionMoves
<1>b. \A b \in Attempts : pc'[b] # "free" => of[b] \in Transfers
  BY <1>a, <1>2, BusyIsBegun
<1>h. \A h \in 0 .. NAttempts : h # 0 => h \in Attempts
  BY CountAssumption DEF Attempts
<1>4. SidesInv'
  <2>1. pc'[a] \in Sending => pc[a] \in Sending
    BY <1>2 DEF SessionMoves, Sending
  <2>2. \A b \in Attempts : pc'[b] \in Sending =>
          of[b] \notin received /\ record'[of[b]].role = "Sender"
    BY <1>1, <1>2, <1>b, <2>1 DEF SidesInv, Sending
  <2>3. \A u \in Transfers \ received : record'[u] = NoRecord \/ record'[u].role = "Sender"
    <3>1. record[t] = NoRecord /\ t \notin received => pc[a] = "receiving"
      BY <1>t, <1>a, NoRecordTyped DEF SidesInv, SessionMoves, NoRecord, Sending
    <3> QED BY <1>1, <1>t, <3>1 DEF SidesInv, SessionMoves, NoRecord
  <2> QED BY <1>a, <1>2, <2>2, <2>3 DEF SidesInv
<1>5. HandleInv'
  <2>1. r.handle # 0 => of[r.handle] = t /\ pc'[r.handle] \notin {"free", "registered"}
    <3>1. CASE r.handle = a
      BY <1>t, <1>a, <1>2, <3>1
    <3>2. CASE r.handle = record[t].handle
      BY <1>0, <1>t, <1>h, <1>2, <3>2 DEF HandleInv, Record
    <3> QED BY <1>t, <3>1, <3>2 DEF SessionMoves
  <2>2. ASSUME NEW u \in Transfers, record'[u].handle # 0
        PROVE  of[record'[u].handle] = u
               /\ pc'[record'[u].handle] \notin {"free", "registered"}
    <3>1. CASE u = t
      BY <1>1, <2>1, <2>2, <3>1
    <3>2. CASE u # t
      <4>1. record'[u] = record[u] /\ record[u].handle \in Attempts
        BY <1>0, <1>1, <1>h, <2>2, <3>2 DEF Record
      <4> QED BY <1>2, <2>2, <4>1 DEF HandleInv
    <3> QED BY <3>1, <3>2
  <2>3. ASSUME NEW b \in Attempts, sink'[b] # 0
        PROVE  of[sink'[b]] = of[b] /\ pc'[sink'[b]] # "free"
    <3>1. CASE sink'[b] = sink[b]
      BY <1>0, <1>h, <1>2, <2>3, <3>1 DEF HandleInv
    <3>2. CASE b = a /\ sink'[b] = r.handle
      BY <1>t, <2>1, <2>3, <3>2
    <3> QED BY <1>0, <1>3, <2>3, <3>1, <3>2 DEF SessionMoves
  <2> QED BY <1>a, <2>2, <2>3 DEF HandleInv
<1>6. InboxInv' /\ PendingInv'
  BY <1>a, <1>1, <1>2 DEF InboxInv, PendingInv, Typed, ControlsTyped
<1>7. LiveInv'
  <2> SUFFICES ASSUME NEW b \in Attempts, pc'[b] \in {"connecting", "opening", "streaming"},
                      LatestSender(b)', record'[of[b]].status = "InProgress"
               PROVE  /\ Listens(record'[of[b]].handle)
                      /\ pc'[b] = "streaming" => Listens(sink'[b])
    BY <1>a DEF LiveInv, Listens
  <2>1. LatestSender(b)
    BY <1>a, <1>2 DEF LatestSender, AttemptsOf
  <2>2. of[b] \in Transfers /\ record[of[b]].status = "InProgress"
    BY <1>1, <1>2, <1>b
  <2>3. pc[a] = "registered" => Listens(a)
    BY DEF InboxInv, Listens, Attempts
  <2>4. CASE b = a
    <3>1. CASE x = "connecting"
      BY <1>1, <1>2, <1>t, <2>3, <2>4, <3>1 DEF SessionMoves
    <3>2. CASE x \in {"opening", "streaming"}
      <4>1. Listens(record[of[b]].handle) /\ r.handle = record[t].handle
        BY <1>t, <2>1, <2>2, <2>4, <3>2 DEF LiveInv, SessionMoves
      <4>2. x = "streaming" => sink'[a] = r.handle
        BY <1>0, <3>2 DEF SessionMoves
      <4> QED BY <1>1, <1>2, <1>t, <2>4, <4>1, <4>2
    <3> QED BY <1>2, <2>4, <3>1, <3>2
  <2>5. CASE b # a
    <3>1. pc'[b] = pc[b] /\ sink'[b] = sink[b]
      BY <1>2, <1>3, <2>5
    <3>2. Listens(record[of[b]].handle) /\ (pc[b] = "streaming" => Listens(sink[b]))
      BY <2>1, <2>2, <3>1 DEF LiveInv
    <3>3. Listens(record'[of[b]].handle)
      <4>0. (r.handle = a /\ pc[a] = "registered") \/ r.handle = record[t].handle
        BY <1>t DEF SessionMoves
      <4>1. CASE of[b] = t /\ r.handle = a /\ pc[a] = "registered"
        BY <1>1, <2>3, <4>1
      <4>2. CASE of[b] = t /\ r.handle = record[t].handle
        BY <1>1, <3>2, <4>2
      <4>3. CASE of[b] # t
        BY <1>1, <2>2, <3>2, <4>3
      <4> QED BY <4>0, <4>1, <4>2, <4>3
    <3> QED BY <3>1, <3>2, <3>3
  <2> QED BY <2>4, <2>5
<1> QED BY <1>4, <1>5, <1>6, <1>7


LEMMA BeginShape ==
  ASSUME LifecycleInv, SidesInv, NEW a \in Attempts, NEW t \in Transfers,
         Start(a, t) \/ Resume(a, t) \/ Incoming(a, t)
  PROVE  /\ UNCHANGED <<received, inbox, crossed>> /\ pc[a] = "free" /\ a = used + 1
         /\ \E x \in {"registered", "receiving"} : Take(a, t, x)
         /\ \A b \in Attempts : alive[b] => alive'[b]
         /\ \/ /\ t \notin received /\ pc'[a] = "registered" /\ alive'[a]
               /\ \E r \in Record :
                    /\ record' = [record EXCEPT ![t] = r] /\ r.role = "Sender"
                    /\ r.handle = record[t].handle
               /\ sink' = sink
               /\ \A i \in Controls : /\ control'[i].of = control[i].of
                                      /\ control'[i].at = control[i].at
                                      /\ control[i].overtaken => control'[i].overtaken
                                      /\ control[i].of = t => control'[i].overtaken
            \/ /\ pc'[a] = "receiving" /\ record' = record /\ control' = control
               /\ sink' = [sink EXCEPT ![a] = record[t].handle]
            \/ /\ t \in received /\ pc'[a] = "receiving" /\ control' = control
               /\ \E r \in Record : /\ record' = [record EXCEPT ![t] = r] /\ r.handle = a
               /\ sink' = [sink EXCEPT ![a] = a]
<1> USE DEF LifecycleInv
<1>0. /\ pc \in [Attempts -> {"free", "registered", "connecting", "opening", "streaming",
                             "closing", "returned", "receiving", "done"}]
      /\ used \in Nat /\ record \in [Transfers -> Record]
      /\ alive \in [Attempts -> BOOLEAN]
  BY CountAssumption DEF Typed, AttemptsTyped, RegistryTyped, ActorsTyped
<1>1. PICK q \in Record : q = record[t] /\ record = [record EXCEPT ![t] = q]
  BY <1>0
<1>2. a = used + 1 /\ pc[a] = "free" /\ \E x \in {"registered", "receiving"} : Take(a, t, x)
  BY <1>0 DEF Start, Resume, SendBegins, Incoming, Take, FreshInv, Attempts
<1>3. CASE Start(a, t) \/ Resume(a, t)
  <2> DEFINE r == Register(q, "Sender")
  <2>c. \A i \in Controls : /\ control'[i].of = control[i].of
                            /\ control'[i].at = control[i].at
                            /\ control[i].overtaken => control'[i].overtaken
                            /\ control[i].of = t => control'[i].overtaken
    BY <1>3, OvertakenTyped DEF Start, Resume, SendBegins, Typed, ControlsTyped
  <2>1. t \notin received /\ UNCHANGED <<received, inbox, sink, crossed>>
        /\ record' = [record EXCEPT ![t] = r] /\ pc'[a] = "registered"
        /\ alive' = [alive EXCEPT ![a] = TRUE]
    BY <1>0, <1>1, <1>3 DEF Start, Resume, SendBegins, Take, SpawnActor
  <2>2. r \in Record
    BY RegisterTyped
  <2>3. r.role = "Sender" /\ r.handle = record[t].handle
    BY <1>1, <2>1 DEF SidesInv, Register, NoRecord, Record
  <2> HIDE DEF r
  <2> QED BY <1>0, <1>2, <2>c, <2>1, <2>2, <2>3
<1>4. CASE Incoming(a, t)
  <2> DEFINE r == Register(q, "Receiver")
  <2>1. /\ UNCHANGED <<received, inbox, control, crossed>> /\ pc'[a] = "receiving"
        /\ t \in received \/ record[t] # NoRecord
    BY <1>0, <1>4 DEF Incoming, Take, SpawnActor, actorVars, userVars
  <2>2. r \in Record
    BY RegisterTyped
  <2>3. CASE r.role = "Sender"
    <3>1. record' = [record EXCEPT ![t] = r] /\ sink' = [sink EXCEPT ![a] = r.handle]
          /\ alive' = alive
      BY <1>1, <1>4, <2>3 DEF Incoming, actorVars
    <3>2. r = q
      BY <2>3 DEF Register, NoRecord, Record
    <3>3. q.role = "Sender" /\ record' = record
      BY <1>1, <2>3, <3>1, <3>2
    <3>4. r.handle = record[t].handle
      BY <1>1, <3>2
    <3>5. /\ pc'[a] = "receiving" /\ record' = record
          /\ sink' = [sink EXCEPT ![a] = record[t].handle]
      BY <2>1, <3>1, <3>3, <3>4
    <3>6. \A b \in Attempts : alive[b] => alive'[b]
      BY <3>1
    <3> HIDE DEF r
    <3>7. UNCHANGED <<received, inbox, control, crossed>>
      BY <2>1
    <3> QED BY <1>2, <3>5, <3>6, <3>7, Zenon
  <2>4. CASE r.role # "Sender"
    <3>1. record' = [record EXCEPT ![t] = [r EXCEPT !.handle = a]]
          /\ sink' = [sink EXCEPT ![a] = a] /\ alive' = [alive EXCEPT ![a] = TRUE]
      BY <1>1, <1>4, <2>4 DEF Incoming, SpawnActor
    <3>2. t \in received
      BY <1>1, <2>1, <2>4 DEF SidesInv, Register, Record
    <3>3. [r EXCEPT !.handle = a] \in Record /\ [r EXCEPT !.handle = a].handle = a
      BY <2>2, HandleTyped DEF Record
    <3>4. PICK s : s = [r EXCEPT !.handle = a]
      OBVIOUS
    <3>5. \E w \in Record : record' = [record EXCEPT ![t] = w] /\ w.handle = a
      BY <3>1, <3>3, <3>4
    <3>6. \A b \in Attempts : alive[b] => alive'[b]
      BY <1>0, <3>1
    <3> HIDE DEF r
    <3>7. UNCHANGED <<received, inbox, control, crossed>> /\ pc'[a] = "receiving"
          /\ sink' = [sink EXCEPT ![a] = a]
      BY <2>1, <3>1
    <3> QED BY <1>2, <3>2, <3>5, <3>6, <3>7, Zenon
  <2> QED BY <2>3, <2>4
<1> QED BY <1>3, <1>4


LEMMA BeginListens ==
  ASSUME LifecycleInv, ListenInv, NEW a \in Attempts, NEW t \in Transfers,
         Start(a, t) \/ Resume(a, t) \/ Incoming(a, t)
  PROVE  ListenInv'
<1> USE DEF LifecycleInv, ListenInv
<1>0. /\ pc \in [Attempts -> {"free", "registered", "connecting", "opening", "streaming",
                             "closing", "returned", "receiving", "done"}]
      /\ used \in Nat /\ record \in [Transfers -> Record] /\ DOMAIN of = Attempts
      /\ sink \in [Attempts -> 0 .. NAttempts] /\ 0 \notin Transfers
      /\ \A h \in 0 .. NAttempts : h # 0 => h \in Attempts
  BY CountAssumption DEF Typed, AttemptsTyped, RegistryTyped, Attempts, Transfers
<1>1. /\ UNCHANGED <<received, inbox, crossed>> /\ pc[a] = "free" /\ a = used + 1
      /\ \E x \in {"registered", "receiving"} : Take(a, t, x)
      /\ \A b \in Attempts : alive[b] => alive'[b]
  BY BeginShape
<1>2. /\ of'[a] = t /\ pc'[a] \in {"registered", "receiving"} /\ used' = a
      /\ \A b \in Attempts \ {a} : of'[b] = of[b] /\ pc'[b] = pc[b]
  BY <1>0, <1>1 DEF Take
<1>f. \A b \in Attempts : /\ pc[b] # "free" => b < a /\ of[b] \in Transfers
                          /\ pc[b] = "free" => sink[b] = 0
  <2>1. \A b \in Attempts : pc[b] # "free" => b < a /\ of[b] \in Transfers
    BY <1>0, <1>1, BusyIsBegun DEF Attempts
  <2>2. \A b \in Attempts : pc[b] = "free" => sink[b] = 0
    <3> SUFFICES ASSUME NEW b \in Attempts, pc[b] = "free", sink[b] # 0 PROVE FALSE
      OBVIOUS
    <3>1. sink[b] \in Attempts /\ of[sink[b]] = of[b] /\ pc[sink[b]] # "free"
      BY <1>0 DEF HandleInv
    <3>2. of[b] \in Transfers
      BY <2>1, <3>1
    <3> QED BY <1>0, <3>1, <3>2 DEF SidesInv
  <2> QED BY <2>1, <2>2
<1>3. \/ /\ t \notin received /\ pc'[a] = "registered" /\ alive'[a]
         /\ \E r \in Record :
              /\ record' = [record EXCEPT ![t] = r] /\ r.role = "Sender"
              /\ r.handle = record[t].handle
         /\ sink' = sink
         /\ \A i \in Controls : /\ control'[i].of = control[i].of
                                /\ control'[i].at = control[i].at
                                /\ control[i].overtaken => control'[i].overtaken
                                /\ control[i].of = t => control'[i].overtaken
      \/ /\ pc'[a] = "receiving" /\ record' = record /\ control' = control
         /\ sink' = [sink EXCEPT ![a] = record[t].handle]
      \/ /\ t \in received /\ pc'[a] = "receiving" /\ control' = control
         /\ \E r \in Record : record' = [record EXCEPT ![t] = r] /\ r.handle = a
         /\ sink' = [sink EXCEPT ![a] = a]
  BY BeginShape
<1>4. /\ \A u \in Transfers \ {t} : record'[u] = record[u]
      /\ t \in received \/ record'[t].role = "Sender" \/ record' = record
      /\ pc'[a] = "registered" => record'[t].role = "Sender" /\ t \notin received
      /\ record'[t].handle \in {a, record[t].handle}
      /\ record'[t].handle = a => pc'[a] = "receiving"
      /\ \A b \in Attempts \ {a} : sink'[b] = sink[b]
      /\ sink'[a] \in {a, record[t].handle, sink[a]}
  <2>1. record[t].handle # a
    BY <1>0, <1>1 DEF HandleInv, Attempts
  <2> QED BY <1>0, <1>3, <2>1
<1>5. SidesInv'
  <2>1. \A u \in Transfers \ received : record'[u] = NoRecord \/ record'[u].role = "Sender"
    BY <1>4 DEF SidesInv
  <2>2. ASSUME NEW b \in Attempts, pc'[b] \in Sending
        PROVE  of'[b] \notin received /\ record'[of'[b]].role = "Sender"
    <3>1. CASE b = a
      BY <1>2, <1>4, <2>2, <3>1 DEF Sending
    <3>2. CASE b # a
      BY <1>2, <1>4, <1>f, <2>2, <3>2 DEF SidesInv, Sending
    <3> QED BY <3>1, <3>2
  <2>3. \A b \in Attempts : pc'[b] = "free" => of'[b] = 0
    BY <1>2 DEF SidesInv
  <2> QED BY <1>1, <2>1, <2>2, <2>3 DEF SidesInv
<1>6. HandleInv'
  <2>1. ASSUME NEW u \in Transfers, record'[u].handle # 0
        PROVE  of'[record'[u].handle] = u
               /\ pc'[record'[u].handle] \notin {"free", "registered"}
    <3>1. CASE u = t /\ record'[t].handle = a
      BY <1>2, <1>4, <3>1
    <3>2. CASE record'[u].handle = record[u].handle
      <4>1. record[u].handle \in Attempts
        BY <1>0, <2>1, <3>2 DEF Record
      <4>2. record[u].handle # a
        BY <1>1, <2>1, <3>2 DEF HandleInv
      <4> QED BY <1>2, <2>1, <3>2, <4>1, <4>2 DEF HandleInv
    <3> QED BY <1>4, <3>1, <3>2
  <2>2. ASSUME NEW b \in Attempts, sink'[b] # 0
        PROVE  of'[sink'[b]] = of'[b] /\ pc'[sink'[b]] # "free"
    <3>1. CASE b = a
      <4>1. sink'[a] = a \/ sink'[a] = record[t].handle
        BY <1>1, <1>4, <1>f, <2>2, <3>1
      <4>2. CASE sink'[a] = a
        BY <1>2, <3>1, <4>2
      <4>3. CASE sink'[a] = record[t].handle
        <5>1. record[t].handle \in Attempts /\ record[t].handle # a
          BY <1>0, <1>1, <2>2, <3>1, <4>3 DEF Record, HandleInv
        <5> QED BY <1>2, <2>2, <3>1, <4>3, <5>1 DEF HandleInv
      <4> QED BY <4>1, <4>2, <4>3
    <3>2. CASE b # a
      <4>1. sink'[b] = sink[b] /\ sink[b] \in Attempts /\ sink[b] # a
        BY <1>0, <1>1, <1>4, <2>2, <3>2 DEF HandleInv
      <4> QED BY <1>2, <2>2, <3>2, <4>1 DEF HandleInv
    <3> QED BY <3>1, <3>2
  <2> QED BY <2>1, <2>2 DEF HandleInv
<1>7. InboxInv'
  <2>1. pc'[a] = "registered" => alive'[a]
    BY <1>3
  <2> QED BY <1>1, <1>2, <2>1 DEF InboxInv
<1>9. PendingInv'
  <2>1. \A i \in Controls : control[i].at # "none" => control[i].of \in Transfers
    BY DEF Typed, ControlsTyped
  <2>2. CASE pc'[a] = "registered"
    BY <1>1, <1>3, <1>4, <2>1, <2>2 DEF PendingInv
  <2>3. CASE pc'[a] # "registered"
    BY <1>1, <1>3, <1>4, <2>1, <2>3 DEF PendingInv
  <2> QED BY <2>2, <2>3
<1>8. LiveInv'
  <2> SUFFICES ASSUME NEW b \in Attempts, pc'[b] \in {"connecting", "opening", "streaming"},
                      LatestSender(b)', record'[of'[b]].status = "InProgress"
               PROVE  /\ Listens(record[of[b]].handle)'
                      /\ pc'[b] = "streaming" => Listens(sink[b])'
    BY DEF LiveInv, Listens
  <2>1. b # a /\ b < a /\ of'[b] = of[b] /\ pc'[b] = pc[b] /\ of[b] \in Transfers
    BY <1>2, <1>f
  <2>2. of[b] = t => pc'[a] = "receiving"
    BY <1>2, <2>1 DEF LatestSender, AttemptsOf
  <2>3. LatestSender(b)
    <3> SUFFICES ASSUME NEW c \in Attempts, of[c] = of[b], c > b PROVE pc[c] = "receiving"
      BY DEF LatestSender, AttemptsOf
    <3>1. c # a
      BY <1>0, <1>1, <2>1 DEF SidesInv
    <3>2. of'[c] = of'[b] /\ pc'[c] = pc[c]
      BY <1>2, <2>1, <3>1
    <3> QED BY <3>2 DEF LatestSender, AttemptsOf
  <2>4. of[b] \notin received
    BY <2>1 DEF SidesInv, Sending
  <2>5. record'[of[b]] = record[of[b]] /\ sink'[b] = sink[b]
    BY <1>3, <1>4, <2>1, <2>2, <2>4
  <2>6. Listens(record[of[b]].handle) /\ (pc[b] = "streaming" => Listens(sink[b]))
    BY <2>1, <2>3, <2>5 DEF LiveInv
  <2>7. record[of[b]].handle \in Attempts /\ (sink[b] # 0 => sink[b] \in Attempts)
    BY <1>0, <2>1, <2>6 DEF Listens, Record
  <2>8. \A h \in Attempts : Listens(h) =>
          h # 0 /\ ((alive'[h] /\ inbox'[h] = {}) \/ h \in crossed')
    BY <1>1 DEF Listens
  <2>9. Listens(record[of[b]].handle)'
    BY <2>1, <2>5, <2>6, <2>7, <2>8 DEF Listens
  <2>10. pc'[b] = "streaming" => Listens(sink[b])'
    BY <2>1, <2>5, <2>6, <2>7, <2>8 DEF Listens
  <2> QED BY <2>9, <2>10
<1> QED BY <1>5, <1>6, <1>7, <1>8, <1>9


LEMMA ControlListens ==
  ASSUME LifecycleInv, ListenInv, NEW t \in Transfers,
         ResumeReceived(t) \/ Pause(t) \/ Cancel(t)
  PROVE  ListenInv'
<1> USE DEF LifecycleInv, ListenInv
<1>0. /\ record \in [Transfers -> Record] /\ sink \in [Attempts -> 0 .. NAttempts]
      /\ \A h \in 0 .. NAttempts : h # 0 => h \in Attempts
  BY CountAssumption DEF Typed, AttemptsTyped, RegistryTyped, Attempts
<1>b. \A b \in Attempts : pc[b] # "free" => of[b] \in Transfers
  BY BusyIsBegun
<1>1. UNCHANGED <<received, used, of, pc, sink, alive, inbox, crossed>>
      /\ record[t] # NoRecord
  BY DEF ResumeReceived, Pause, Cancel, ControlBegins, attemptVars, actorVars, userVars
<1>2. PICK s \in Statuses : /\ record' = [record EXCEPT ![t] = SetStatus(record[t], s)]
                            /\ s = "InProgress" => t \in received
  BY DEF ResumeReceived, Pause, Cancel, ControlBegins, Statuses
<1>3. /\ record'[t].role = record[t].role /\ record'[t].handle = record[t].handle
      /\ record'[t].status = s /\ record'[t] \in Record
      /\ \A u \in Transfers \ {t} : record'[u] = record[u]
  BY <1>0, <1>1, <1>2, SetStatusKeeps, SetStatusTyped
<1>4. \A i \in Controls : control'[i] = control[i] \/ control'[i].of = t
  BY DEF ResumeReceived, Pause, Cancel, ControlBegins, userVars, Typed, ControlsTyped
<1>5. SidesInv'
  <2>1. \A u \in Transfers \ received : record'[u] = NoRecord \/ record'[u].role = "Sender"
    BY <1>1, <1>3 DEF SidesInv
  <2>2. \A b \in Attempts : pc[b] \in Sending =>
          of[b] \notin received /\ record'[of[b]].role = "Sender"
    BY <1>b, <1>3 DEF SidesInv, Sending
  <2> QED BY <1>1, <2>1, <2>2 DEF SidesInv
<1>6. HandleInv'
  BY <1>1, <1>3 DEF HandleInv
<1>7. InboxInv'
  BY <1>1 DEF InboxInv
<1>9. PendingInv'
  <2> SUFFICES ASSUME NEW i \in Controls, control'[i].at # "none",
                      control'[i].of \notin received,
                      record'[control'[i].of].status = "InProgress"
               PROVE  control'[i].overtaken
    BY <1>1 DEF PendingInv
  <2>1. control'[i].of # t
    BY <1>2, <1>3
  <2>2. control'[i] = control[i] /\ control[i].of \in Transfers
    BY <1>4, <2>1 DEF Typed, ControlsTyped
  <2> QED BY <1>3, <2>1, <2>2 DEF PendingInv
<1>8. LiveInv'
  <2> SUFFICES ASSUME NEW b \in Attempts, pc[b] \in {"connecting", "opening", "streaming"},
                      LatestSender(b), record'[of[b]].status = "InProgress"
               PROVE  /\ Listens(record[of[b]].handle)'
                      /\ pc[b] = "streaming" => Listens(sink[b])'
    BY <1>1 DEF LiveInv, LatestSender, AttemptsOf
  <2>1. of[b] \in Transfers /\ of[b] \notin received
    BY <1>b DEF SidesInv, Sending
  <2>2. of[b] # t /\ record'[of[b]] = record[of[b]]
    BY <1>2, <1>3, <2>1
  <2>3. Listens(record[of[b]].handle) /\ (pc[b] = "streaming" => Listens(sink[b]))
    BY <2>2 DEF LiveInv
  <2> QED BY <1>1, <2>2, <2>3 DEF Listens
<1> QED BY <1>5, <1>6, <1>7, <1>8, <1>9

\* A pending pause or cancellation tells the actor that is registered now: if its
\* transfer is in progress, it was overtaken, and this is the exception.
LEMMA PendingListens ==
  ASSUME LifecycleInv, ListenInv, NEW i \in Controls, CancelLeavesMap(i) \/ ControlTells(i)
  PROVE  ListenInv'
<1> USE DEF LifecycleInv, ListenInv
<1> DEFINE t == control[i].of
           told == {y \in Attempts : y = record[t].handle /\ alive[y]}
<1>0. /\ record \in [Transfers -> Record] /\ sink \in [Attempts -> 0 .. NAttempts]
      /\ \A h \in 0 .. NAttempts : h # 0 => h \in Attempts
      /\ control \in [Controls -> Control] /\ t \in Transfers /\ 0 \notin Attempts
  BY CountAssumption DEF Typed, AttemptsTyped, RegistryTyped, ControlsTyped, Attempts,
                         CancelLeavesMap, ControlTells
<1>1. /\ UNCHANGED <<received, record, used, of, pc, sink, alive>>
      /\ crossed \subseteq crossed'
  BY DEF CancelLeavesMap, ControlTells, attemptVars, actorVars, registryVars
<1>2. \A h \in Attempts : \/ inbox'[h] = inbox[h]
                          \/ h \in told /\ (control[i].overtaken => h \in crossed')
  <2>1. CASE CancelLeavesMap(i)
    BY <2>1 DEF CancelLeavesMap, actorVars
  <2>2. CASE ControlTells(i)
    BY <2>2 DEF ControlTells
  <2> QED BY <2>1, <2>2
<1>3. \A h \in told : of[h] = t /\ pc[h] \notin {"free", "registered"}
  BY <1>0 DEF HandleInv
<1> HIDE DEF told
<1>4. SidesInv' /\ HandleInv'
  BY <1>1 DEF SidesInv, HandleInv
<1>5. InboxInv'
  BY <1>1, <1>2, <1>3 DEF InboxInv
<1>6. PendingInv'
  <2>1. \A j \in Controls :
          \/ control'[j].at = "none"
          \/ /\ control[j].at # "none" /\ control'[j].of = control[j].of
             /\ control'[j].overtaken = control[j].overtaken
    BY <1>0 DEF CancelLeavesMap, ControlTells, NoControl, Control
  <2> QED BY <1>1, <2>1 DEF PendingInv
<1>7. LiveInv'
  <2> SUFFICES ASSUME NEW b \in Attempts, pc[b] \in {"connecting", "opening", "streaming"},
                      LatestSender(b), record[of[b]].status = "InProgress"
               PROVE  /\ Listens(record[of[b]].handle)'
                      /\ pc[b] = "streaming" => Listens(sink[b])'
    BY <1>1 DEF LiveInv, LatestSender, AttemptsOf
  <2>1. Listens(record[of[b]].handle) /\ (pc[b] = "streaming" => Listens(sink[b]))
    BY DEF LiveInv
  <2>2. of[b] \in Transfers /\ of[b] \notin received
    BY BusyIsBegun DEF SidesInv, Sending
  <2>3. of[b] = t => control[i].overtaken
    BY <2>2 DEF PendingInv, CancelLeavesMap, ControlTells
  <2>4. ASSUME NEW h \in Attempts, of[h] = of[b], Listens(h)
        PROVE  Listens(h)'
    BY <1>1, <1>2, <1>3, <2>3, <2>4 DEF Listens
  <2>5. record[of[b]].handle \in Attempts /\ of[record[of[b]].handle] = of[b]
    BY <1>0, <2>1, <2>2 DEF HandleInv, Listens, Record
  <2>6. pc[b] = "streaming" => sink[b] \in Attempts /\ of[sink[b]] = of[b]
    BY <1>0, <2>1 DEF HandleInv, Listens
  <2>7. Listens(record[of[b]].handle)'
    BY <1>1, <2>1, <2>4, <2>5 DEF Listens
  <2>8. pc[b] = "streaming" => Listens(sink[b])'
    BY <1>1, <2>1, <2>4, <2>6 DEF Listens
  <2> QED BY <2>7, <2>8
<1> QED BY <1>4, <1>5, <1>6, <1>7

\* An actor ends when it was told to, or when nobody holds its handle.
LEMMA ActorListens ==
  ASSUME LifecycleInv, ListenInv, NEW a \in Attempts, ActorStep(a)
  PROVE  ListenInv'
<1> USE DEF LifecycleInv, ListenInv
<1>0. /\ record \in [Transfers -> Record] /\ sink \in [Attempts -> 0 .. NAttempts]
      /\ \A h \in 0 .. NAttempts : h # 0 => h \in Attempts
      /\ DOMAIN alive = Attempts /\ DOMAIN inbox = Attempts
  BY CountAssumption DEF Typed, AttemptsTyped, RegistryTyped, ActorsTyped, Attempts
<1>1. UNCHANGED <<received, record, used, of, pc, sink, control, crossed>>
  BY DEF ActorStep, ActorControl, ActorSave, ActorExit, registryVars, attemptVars,
         historyVars, userVars
<1>2. \A b \in Attempts \ {a} : alive'[b] = alive[b] /\ inbox'[b] = inbox[b]
  BY <1>0 DEF ActorStep, ActorControl, ActorSave, ActorExit, actorVars
<1>3. \/ alive'[a] = alive[a] /\ inbox'[a] = inbox[a]
      \/ inbox[a] # {} /\ inbox'[a] = {}
      \/ ~Holds(a) /\ inbox'[a] = inbox[a]
  BY <1>0 DEF ActorStep, ActorControl, ActorSave, ActorExit, actorVars
<1>4. SidesInv' /\ HandleInv' /\ PendingInv'
  BY <1>1 DEF SidesInv, HandleInv, PendingInv
<1>5. InboxInv'
  BY <1>1, <1>2, <1>3 DEF InboxInv, Holds
<1>6. ASSUME NEW h \in Attempts, Listens(h), Holds(h)
      PROVE  h # 0 /\ ((alive'[h] /\ inbox'[h] = {}) \/ h \in crossed')
  BY <1>1, <1>2, <1>3, <1>6 DEF Listens
<1>7. LiveInv'
  <2> SUFFICES ASSUME NEW b \in Attempts, pc[b] \in {"connecting", "opening", "streaming"},
                      LatestSender(b), record[of[b]].status = "InProgress"
               PROVE  /\ Listens(record[of[b]].handle)'
                      /\ pc[b] = "streaming" => Listens(sink[b])'
    BY <1>1 DEF LiveInv, LatestSender, AttemptsOf
  <2>1. Listens(record[of[b]].handle) /\ (pc[b] = "streaming" => Listens(sink[b]))
    BY DEF LiveInv
  <2>2. Listens(record[of[b]].handle)'
    <3>1. record[of[b]].handle \in Attempts /\ Holds(record[of[b]].handle)
      <4>1. of[b] \in Transfers
        BY BusyIsBegun
      <4> QED BY <1>0, <2>1, <4>1 DEF Listens, Holds, Record
    <3> QED BY <1>1, <1>6, <2>1, <3>1 DEF Listens
  <2>3. pc[b] = "streaming" => Listens(sink[b])'
    <3>1. pc[b] = "streaming" => sink[b] \in Attempts /\ Holds(sink[b])
      BY <1>0, <2>1 DEF Listens, Holds
    <3> QED BY <1>1, <1>6, <2>1, <3>1 DEF Listens
  <2> QED BY <2>2, <2>3
<1> QED BY <1>4, <1>5, <1>7

LEMMA RestartListens == LifecycleInv /\ ListenInv /\ Restart => ListenInv'
<1> SUFFICES ASSUME LifecycleInv, ListenInv, Restart PROVE ListenInv'
  OBVIOUS
<1>1. \A a \in Attempts : pc'[a] \in {"done", "free"} /\ inbox'[a] = {} /\ sink'[a] = 0
  BY DEF Restart
<1>2. \A t \in Transfers : record'[t] = NoRecord /\ record'[t].handle = 0
  BY DEF Restart, NoRecord
<1>3. \A a \in Attempts : pc'[a] = "free" => pc[a] = "free"
  BY CountAssumption DEF Restart, LifecycleInv, FreshInv, Typed, AttemptsTyped, Attempts
<1>4. SidesInv'
  BY <1>1, <1>2, <1>3 DEF SidesInv, Restart, ListenInv, Sending
<1>5. HandleInv' /\ InboxInv' /\ LiveInv'
  BY <1>1, <1>2 DEF HandleInv, InboxInv, LiveInv
<1>6. PendingInv'
  BY DEF Restart, PendingInv, NoControl
<1> QED BY <1>4, <1>5, <1>6 DEF ListenInv

LEMMA ListenStep == LifecycleInv /\ ListenInv /\ [Next]_vars => ListenInv'
<1> SUFFICES ASSUME LifecycleInv, ListenInv, [Next]_vars PROVE ListenInv'
  OBVIOUS
<1>1. CASE UNCHANGED vars
  BY <1>1 DEF vars, registryVars, attemptVars, actorVars, historyVars, userVars, ListenInv,
              SidesInv, HandleInv, InboxInv, PendingInv, LiveInv, LatestSender, AttemptsOf,
              Listens
<1>2. ASSUME NEW a \in Attempts, SendStep(a) \/ ReceiveStep(a) PROVE ListenInv'
  BY <1>2, SessionShape, SessionListens
<1> QED
  BY <1>1, <1>2, BeginListens, ActorListens, ControlListens, PendingListens, RestartListens
     DEF Next

------------------------------------------------------------------------------
(* Theorems.                                                                 *)

LEMMA LifecycleInductive == Spec => []LifecycleInv
<1>1. LifecycleInv /\ [Next]_vars => LifecycleInv'
  BY TypedStep, FreshStep, WorkStep, EarnStep DEF LifecycleInv
<1> QED BY InitLifecycle, <1>1, PTL DEF Spec

\* Every variable ranges over its type, whatever the controls and restarts.
THEOREM LifecycleTyped == Spec => []TypeOK
<1>1. LifecycleInv => TypeOK
  BY DEF LifecycleInv, Typed, RegistryTyped, AttemptsTyped, ActorsTyped, HistoryTyped,
         ControlsTyped, Control, TypeOK, Record, Statuses
<1> QED BY LifecycleInductive, <1>1, PTL

\* A transfer shown as in progress has somebody working on it, or was left by a
\* resume that returned early.
THEOREM ProgressHasAWorker == Spec => []InProgressIsWorked
<1>1. LifecycleInv => InProgressIsWorked
  BY DEF LifecycleInv, WorkInv, Working, InProgressIsWorked, AttemptsOf
<1> QED BY LifecycleInductive, <1>1, PTL

\* A transfer is listed as completed only if a session of it succeeded.
THEOREM CompletionIsEarned == Spec => []CompletedIsEarned
<1>1. LifecycleInv => CompletedIsEarned
  BY DEF LifecycleInv, EarnInv, Typed, ActorsTyped, CompletedIsEarned, Listed, Statuses
<1> QED BY LifecycleInductive, <1>1, PTL

\* The session of the latest sender of a transfer in progress reports to an actor
\* that is alive, whatever earlier attempts left behind, unless a pause or
\* cancellation that was under way when the transfer was resumed has told it to end.
THEOREM WorkerKeepsItsActor == Spec => []WorkerHasLiveActor
<1>1. LifecycleInv /\ ListenInv => WorkerHasLiveActor
  BY DEF LifecycleInv, ListenInv, LiveInv, WorkerHasLiveActor, LatestSender, Listens
<1>2. Spec => []ListenInv
  <2>1. Spec => Init /\ [][Next]_vars
    BY DEF Spec
  <2> QED BY <2>1, InitListens, ListenStep, LifecycleInductive, PTL
<1> QED BY LifecycleInductive, <1>1, <1>2, PTL
==============================================================================
