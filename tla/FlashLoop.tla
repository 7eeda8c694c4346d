------------------------------ MODULE FlashLoop ------------------------------
(***************************************************************************)
(* The flashing icon of the tray monitor (tools/tray-monitor/monitor.py).  *)
(* Three kinds of threads paint it: the poll, which chooses between        *)
(* flashing and a plain colour, the menu, and flash threads.  A flash      *)
(* thread raises the running flag and clears the stop event itself, once   *)
(* it is scheduled, so a stop or a start can fall in between.              *)
(***************************************************************************)
EXTENDS Integers, FiniteSets

CONSTANTS
    Flashers,           \* flash threads that may be alive together
    MaxLevelChanges,    \* bound on changes of the worst alert
    MaxToggles          \* bound on uses of the two menu items

ASSUME FlashAssumption == MaxLevelChanges \in Nat /\ MaxToggles \in Nat

VARIABLES
    level,          \* the worst alert over all profiles
    enabled,        \* setting flash_on_critical
    paused,         \* _flash_state["paused"]
    colour,         \* _flash_state["colour"]
    running,        \* _flash_state["running"]
    stop,           \* event _flash_stop
    flashers,       \* program counters of the flash threads
    bright,         \* the next colour of each: bright or dim
    pollDoes,       \* what the poll thread is about to do
    menuPaints,     \* is the menu about to paint
    icon,           \* colour of the icon
    levelChanges, toggles

flashVars == <<level, enabled, paused, colour, running, stop, flashers, bright,
               pollDoes, menuPaints, icon, levelChanges, toggles>>

PlainColour == [critical |-> "purple", high |-> "red", warning |-> "orange",
                fine |-> "green", unreachable |-> "grey"]
DimColour == [purple |-> "purple dim", red |-> "red dim"]
Flashing(l) == l \in {"critical", "high"}

FlashInit ==
    /\ level = "unreachable" /\ enabled = TRUE /\ paused = FALSE
    /\ colour = "red" /\ running = FALSE /\ stop = FALSE
    /\ flashers = [t \in Flashers |-> "none"]
    /\ bright = [t \in Flashers |-> TRUE]
    /\ pollDoes = "nothing" /\ menuPaints = FALSE
    /\ icon = "grey"
    /\ levelChanges = 0 /\ toggles = 0

-----------------------------------------------------------------------------
ChangeLevel(l) ==
    /\ level # l /\ levelChanges < MaxLevelChanges
    /\ level' = l /\ levelChanges' = levelChanges + 1
    /\ UNCHANGED <<enabled, paused, colour, running, stop, flashers, bright,
                   pollDoes, menuPaints, icon, toggles>>

(* The poll.                                                               *)

\* Mutant: the stop event stays set.
FlashBeginsStopped(t) ==
    /\ flashers[t] = "spawned"
    /\ flashers' = [flashers EXCEPT ![t] = "waits"]
    /\ running' = TRUE
    /\ UNCHANGED <<level, enabled, paused, colour, stop, bright, pollDoes,
                   menuPaints, icon, levelChanges, toggles>>

Spare == {t \in Flashers : flashers[t] = "none"}

\* _start_flashing: the colour changes for a running thread too.  Without a
\* spare thread, which is a bound of the model, no other is spawned.
StartFlashing ==
    /\ colour' = PlainColour[level]
    /\ IF running \/ Spare = {} THEN UNCHANGED <<flashers, bright>>
       ELSE \E t \in Spare : /\ flashers' = [flashers EXCEPT ![t] = "spawned"]
                             /\ bright' = [bright EXCEPT ![t] = TRUE]

\* A round ends with the icon: flash, or stop flashing and paint.
PollChooses ==
    /\ pollDoes = "nothing"
    /\ \/ /\ Flashing(level) /\ enabled /\ ~paused
          /\ StartFlashing
          /\ UNCHANGED <<stop, pollDoes>>
       \/ /\ ~(Flashing(level) /\ enabled /\ ~paused)
          /\ stop' = TRUE
          /\ pollDoes' = PlainColour[level]
          /\ UNCHANGED <<colour, flashers, bright>>
    /\ UNCHANGED <<level, enabled, paused, running, menuPaints, icon,
                   levelChanges, toggles>>

PollPaints ==
    /\ pollDoes # "nothing"
    /\ icon' = pollDoes /\ pollDoes' = "nothing"
    /\ UNCHANGED <<level, enabled, paused, colour, running, stop, flashers, bright,
                   menuPaints, levelChanges, toggles>>

-----------------------------------------------------------------------------
(* The menu: pausing and disabling stop the flashing and paint red.        *)

MenuChooses ==
    /\ ~menuPaints /\ toggles < MaxToggles /\ toggles' = toggles + 1
    /\ \/ paused' = ~paused /\ enabled' = enabled /\ menuPaints' = ~paused
       \/ enabled' = ~enabled /\ paused' = paused /\ menuPaints' = enabled
    /\ stop' = (stop \/ menuPaints')
    /\ UNCHANGED <<level, colour, running, flashers, bright, pollDoes, icon,
                   levelChanges>>

MenuPaints ==
    /\ menuPaints /\ menuPaints' = FALSE
    /\ icon' = "red"
    /\ UNCHANGED <<level, enabled, paused, colour, running, stop, flashers, bright,
                   pollDoes, levelChanges, toggles>>

-----------------------------------------------------------------------------
(* A flash thread.                                                         *)

FlashBegins(t) ==
    /\ flashers[t] = "spawned"
    /\ flashers' = [flashers EXCEPT ![t] = "waits"]
    /\ running' = TRUE /\ stop' = FALSE
    /\ UNCHANGED <<level, enabled, paused, colour, bright, pollDoes, menuPaints,
                   icon, levelChanges, toggles>>

\* wait(0.55) returns TRUE: the thread will end; or FALSE: it will paint unless
\* the flashing is paused.
FlashWakes(t) ==
    /\ flashers[t] = "waits"
    /\ \/ stop /\ flashers' = [flashers EXCEPT ![t] = "ends"]
       \/ ~stop /\ ~paused /\ flashers' = [flashers EXCEPT ![t] = "paints"]
    /\ UNCHANGED <<level, enabled, paused, colour, running, stop, bright, pollDoes,
                   menuPaints, icon, levelChanges, toggles>>

\* The thread lowers the flag, whichever thread raised it.
FlashEnds(t) ==
    /\ flashers[t] = "ends"
    /\ flashers' = [flashers EXCEPT ![t] = "none"]
    /\ running' = FALSE
    /\ UNCHANGED <<level, enabled, paused, colour, stop, bright, pollDoes,
                   menuPaints, icon, levelChanges, toggles>>

FlashPaints(t) ==
    /\ flashers[t] = "paints"
    /\ flashers' = [flashers EXCEPT ![t] = "waits"]
    /\ icon' = IF bright[t] THEN colour ELSE DimColour[colour]
    /\ bright' = [bright EXCEPT ![t] = ~@]
    /\ UNCHANGED <<level, enabled, paused, colour, running, stop, pollDoes,
                   menuPaints, levelChanges, toggles>>

FlashThread(t) == FlashBegins(t) \/ FlashWakes(t) \/ FlashPaints(t) \/ FlashEnds(t)

PollIcon == PollChooses \/ PollPaints
FlashNext ==
    \/ \E l \in DOMAIN PlainColour : ChangeLevel(l)
    \/ PollIcon
    \/ MenuChooses
    \/ MenuPaints
    \/ \E t \in Flashers : FlashThread(t)

-----------------------------------------------------------------------------
\* Once the alerts and the menu are left alone, the icon shows the worst alert:
\* its plain colour, or, when it is to flash, its two colours by a thread that
\* is alive.  A stop or a start that is lost between two threads costs a poll
\* interval and no more (monitor.py:127-151, 1961-1978, 2112-2129).
IconSettles ==
    <>[](IF Flashing(level) /\ enabled /\ ~paused
         THEN /\ icon \in {PlainColour[level], DimColour[PlainColour[level]]}
              /\ \E t \in Flashers : flashers[t] \in {"waits", "paints"}
         ELSE icon = PlainColour[level])

\* While the flag is raised a flash thread is alive: two of them share the flag
\* and lower it for one another, but a flag that outlived them all would keep
\* the icon from ever flashing again (monitor.py:127-145).
RunningHasThread ==
    running => \E t \in Flashers : flashers[t] \in {"waits", "paints", "ends"}
=============================================================================
