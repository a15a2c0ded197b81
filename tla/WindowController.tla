-------------------------- MODULE WindowController --------------------------
(***************************************************************************)
(* core/src/scheduler/window.rs: the window of one channel, adjusted on      *)
(* every acknowledgement by evaluate_and_adjust.  The measurements           *)
(* (scheduler/model.rs and the tracker's rates) enter as the intervals that  *)
(* the comparisons of the code tell apart.                                   *)
(***************************************************************************)
EXTENDS Integers

CONSTANTS MinPreset, MaxPreset, InitPreset   \* the preset as it is given

ASSUME PresetAssumption ==
  MinPreset \in Nat /\ MaxPreset \in Nat /\ InitPreset \in Nat

\* with_thresholds: the preset is made consistent.
AtLeast(n, floor) == IF n < floor THEN floor ELSE n
AtMost(n, top)    == IF n > top THEN top ELSE n

MinWin  == AtLeast(MinPreset, 1)
MaxWin  == AtLeast(MaxPreset, MinWin)
InitWin == AtLeast(AtMost(InitPreset, MaxWin), MinWin)

VARIABLES
  win, beforeProbe,    \* current_window, window_before_probe
  sinceAdjust,         \* chunks_since_adjust, capped where no comparison sees more
  baseline             \* goodput and round trip of an adjustment are known

windowVars == <<win, beforeProbe, sinceAdjust, baseline>>

Cap == 4

WindowInit ==
  /\ win = InitWin /\ beforeProbe = InitWin
  /\ sinceAdjust = 0 /\ baseline = FALSE

\* Goodput against the last adjustment: below -20 %, below -10 %, not above 0,
\* above 0.  Round trip: at most 35 % more, below 60, at most 80, more.
GoodputGains == {"collapsed", "lower", "flat", "higher"}
RttGains     == {"steady", "longer", "long", "inflated"}
\* Sends that block: at most 15 %, at most 25 %, more.  Time of a send: below 90 % of the
\* threshold, below it, above.
Blocking     == {"rare", "some", "often"}
SendTimes    == {"short", "near", "over"}

Measurements ==
  {m \in [goodput : GoodputGains, rtt : RttGains, blocking : Blocking, send : SendTimes,
          overThreshold : BOOLEAN, late : BOOLEAN] :
     ~baseline => m.goodput = "flat" /\ m.rtt = "steady"}

Congested(m) ==
  /\ \/ m.send = "over" /\ m.blocking = "often"
     \/ m.overThreshold /\ m.rtt = "inflated"
  /\ m.goodput # "higher"

\* late: half a second has passed since the last adjustment.
CooledDown(m, since) == since >= 3 /\ (m.late \/ since >= 4)

Retreats(m, since) ==
  win > beforeProbe /\ since >= 2 /\ m.goodput = "collapsed" /\ m.rtt # "steady"

Healthy(m, since) ==
  /\ since >= 2 /\ win < MaxWin
  /\ m.goodput \in {"flat", "higher"} /\ m.blocking = "rare" /\ m.send = "short"
  /\ m.rtt \in {"steady", "longer"}

Shrunk == AtLeast((win * 3) \div 4, MinWin)

Resized(w, before) ==
  /\ win' = w /\ beforeProbe' = before
  /\ sinceAdjust' = 0 /\ baseline' = TRUE

\* Mutated form: the window to retreat to is remembered only once.
IncreaseKeepsProbe == Resized(win + 1, beforeProbe)

Increase == Resized(win + 1, win)

\* evaluate_and_adjust: decrease, else retreat, else increase, else leave it.
Adjust ==
  \E m \in Measurements :
    LET since  == AtMost(sinceAdjust + 1, Cap)
        shrink == Congested(m) /\ CooledDown(m, since) /\ Shrunk # win
    IN \/ shrink /\ Resized(Shrunk, win)
       \/ ~shrink /\ Retreats(m, since) /\ Resized(beforeProbe, beforeProbe)
       \/ ~shrink /\ ~Retreats(m, since) /\ Healthy(m, since) /\ Increase
       \/ /\ ~shrink /\ ~Retreats(m, since) /\ ~Healthy(m, since)
          /\ sinceAdjust' = since
          /\ UNCHANGED <<win, beforeProbe, baseline>>

WindowNext == Adjust
WindowSpec == WindowInit /\ [][WindowNext]_windowVars

------------------------------------------------------------------------------
(* Properties.                                                               *)

\* The window stays within its preset, and is at most one above the window that
\* the next retreat goes back to, over decreases, retreats and increases in any
\* order: a probe that fails costs one step, never a jump.
ProbesByOne ==
  /\ {win, beforeProbe} \subseteq MinWin .. MaxWin
  /\ win <= beforeProbe + 1
==============================================================================
