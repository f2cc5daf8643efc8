----------------------------- MODULE PortWatcher -----------------------------
(***************************************************************************)
(* The list of ports that the serial port panel offers.  Two threads run   *)
(* SerialSession::refresh():                                               *)
(*                                                                         *)
(*   "watcher"  m_portWatcher, every c_portRefreshInterval;                *)
(*   "gui"      main() after start(), and the panel's Refresh button.      *)
(*                                                                         *)
(* refresh() takes m_scannerMutex to enumerate the devices, releases it,   *)
(* and takes m_snapshotMutex to publish what it found: between the two     *)
(* locks the other thread may enumerate and publish.  Devices come and go  *)
(* at any time, also while they are being enumerated.  An enumeration that *)
(* the system refuses returns the empty list, and one in which it refuses  *)
(* to tell of some devices a list without them; that is published.         *)
(***************************************************************************)
EXTENDS FiniteSets

CONSTANT Ports  \* the serial ports that may be attached

Threads == {"watcher", "gui"}
Nobody == "nobody"

VARIABLES pc,
          devices,  \* the ports that are attached
          failing,  \* the system refuses to enumerate them, or some of them
          lock,     \* who holds m_scannerMutex
          changed,  \* ports that came or went since the enumeration began
          found,    \* the local `ports' of each refresh()
          listed,   \* m_snapshot.ports
          last,     \* history: the thread that enumerated last
          old       \* history: what a newer enumeration has already replaced

vars == <<pc, devices, failing, lock, changed, found, listed, last, old>>

Lists == Threads \cup {"listed"}  \* `found' of each thread, and what is listed

running == pc["gui"] \notin {"stopped", "join"}
stopRequested == pc["gui"] = "join"  \* m_portWatcher's stop token

Init ==
    /\ pc = [t \in Threads |-> IF t = "gui" THEN "stopped" ELSE "off"]
    /\ devices \in SUBSET Ports /\ failing = FALSE
    /\ lock = Nobody /\ changed = {} /\ listed = {}
    /\ found = [t \in Threads |-> {}]
    /\ last = "gui" /\ old = [l \in Lists |-> FALSE]

Move(t, from, to) == pc[t] = from /\ pc' = [pc EXCEPT ![t] = to]

-----------------------------------------------------------------------------
(* refresh()                                                               *)

\* Mutant: enumerates without waiting for m_scannerMutex.
BeginScanUnlocked(t) ==
    /\ Move(t, "refresh", "scan")
    /\ lock' = t /\ last' = t
    /\ found' = [found EXCEPT ![t] = devices]
    /\ old' = [old EXCEPT ![t] = FALSE]
    /\ UNCHANGED <<devices, failing, changed, listed>>

BeginScan(t) ==
    /\ Move(t, "refresh", "scan")
    /\ lock = Nobody
    /\ lock' = t /\ last' = t
    /\ found' = [found EXCEPT ![t] = devices]
    /\ old' = [old EXCEPT ![t] = FALSE]
    /\ UNCHANGED <<devices, failing, changed, listed>>

\* Mutant: leaves m_scannerMutex locked.
EndScanKeepsLock(t) ==
    /\ Move(t, "scan", "publish")
    /\ UNCHANGED <<devices, failing, lock, changed, found, listed, last, old>>

\* Until then, found[t] is what was attached when t began.
Scanner(t) == INSTANCE PortScanner
                  WITH scanning <- lock = t, before <- found[t], found <- found[t],
                       failed <- failing

\* A port that came or went during the enumeration may be found or not.
EndScan(t) ==
    /\ Move(t, "scan", "publish")
    /\ lock' = Nobody
    /\ \E ports \in IF failing THEN SUBSET (found[t] \cup changed) ELSE Scanner(t)!Found :
          found' = [found EXCEPT ![t] = ports]
    /\ changed' = {}
    /\ UNCHANGED <<devices, failing, listed, last, old>>

AfterRefresh(t) == IF t = "gui" THEN "idle" ELSE "pause"

\* An enumeration that is still to be published becomes old if it began before the
\* one published now.
Publish(t) ==
    /\ Move(t, "publish", AfterRefresh(t))
    /\ listed' = found[t]
    /\ old' = [l \in Lists |-> IF l = "listed" THEN old[t]
                               ELSE old[l] \/ (~old[t] /\ l # t /\ last = t)]
    /\ UNCHANGED <<devices, failing, lock, changed, found, last>>

-----------------------------------------------------------------------------
(* The threads.                                                            *)

WatcherLoop ==
    /\ Move("watcher", "loop", IF stopRequested THEN "off" ELSE "refresh")
    /\ UNCHANGED <<devices, failing, lock, changed, found, listed, last, old>>

\* Mutant: publishes the same list again.
PauseSkipsScan ==
    /\ Move("watcher", "pause", "publish")
    /\ UNCHANGED <<devices, failing, lock, changed, found, listed, last, old>>

PauseForever == FALSE  \* Mutant: the interval never ends.

\* The interval passes, in steps of 100 ms that a stop request cuts short.
Pause ==
    /\ Move("watcher", "pause", "loop")
    /\ UNCHANGED <<devices, failing, lock, changed, found, listed, last, old>>

\* start(), and main()'s first refresh().
Start ==
    /\ pc["gui"] = "stopped"
    /\ pc' = [pc EXCEPT !["gui"] = "refresh", !["watcher"] = "loop"]
    /\ UNCHANGED <<devices, failing, lock, changed, found, listed, last, old>>

RefreshButton ==
    /\ Move("gui", "idle", "refresh")
    /\ UNCHANGED <<devices, failing, lock, changed, found, listed, last, old>>

\* stop(), of which this thread sees request_stop() and join().
StopWatcher ==
    /\ Move("gui", "idle", "join")
    /\ UNCHANGED <<devices, failing, lock, changed, found, listed, last, old>>

JoinWatcher ==
    /\ pc["watcher"] = "off"
    /\ Move("gui", "join", "stopped")
    /\ UNCHANGED <<devices, failing, lock, changed, found, listed, last, old>>

\* A device is plugged in or unplugged.
DeviceChanges ==
    /\ \E port \in Ports :
          /\ devices' = IF port \in devices THEN devices \ {port} ELSE devices \cup {port}
          /\ changed' = IF lock = Nobody THEN changed ELSE changed \cup {port}
    /\ UNCHANGED <<pc, failing, lock, found, listed, last, old>>

\* The system begins to refuse, or is able to again.
SystemChanges ==
    /\ failing' = ~failing
    /\ UNCHANGED <<pc, devices, lock, changed, found, listed, last, old>>

refresh(t) == BeginScan(t) \/ EndScan(t) \/ Publish(t)
Watcher == refresh("watcher") \/ WatcherLoop \/ Pause

Next == Watcher \/ refresh("gui") \/ Start \/ RefreshButton \/ StopWatcher \/ JoinWatcher
        \/ DeviceChanges \/ SystemChanges

\* m_scannerMutex is free during every interval, which is longer than the wakeup of
\* the thread that waits for it takes: neither thread is refused it for ever.
Fairness == /\ WF_vars(Watcher) /\ SF_vars(BeginScan("watcher"))
            /\ WF_vars(refresh("gui") \/ JoinWatcher) /\ SF_vars(BeginScan("gui"))

Spec == Init /\ [][Next]_vars /\ Fairness

-----------------------------------------------------------------------------
TypeOK ==
    /\ pc \in [Threads -> {"stopped", "idle", "join", "off", "loop", "pause",
                           "refresh", "scan", "publish"}]
    /\ pc["gui"] \notin {"off", "loop", "pause"}
    /\ pc["watcher"] \notin {"stopped", "idle", "join"}
    /\ lock \in Threads \cup {Nobody} /\ last \in Threads
    /\ failing \in BOOLEAN
    /\ devices \subseteq Ports /\ changed \subseteq Ports /\ listed \subseteq Ports
    /\ found \in [Threads -> SUBSET Ports]
    /\ old \in [Lists -> BOOLEAN]

\* The scanner, which reuses a buffer on Windows, never runs in both threads at once,
\* and is not running once the session has been stopped.
ScannerExclusive ==
    /\ ~(pc["watcher"] = "scan" /\ pc["gui"] = "scan")
    /\ pc["gui"] = "stopped" => pc["watcher"] = "off" /\ lock = Nobody

\* refresh() may publish a list over a newer one, for the two locks are separate; but
\* then the very next list that is published is newer than both.
OldListIsNext ==
    old["listed"] => \A t \in Threads : pc[t] \in {"scan", "publish"} => ~old[t]

\* Once devices stop coming and going, and the system lets them be enumerated, the
\* list is right, and stays so, while the session runs, without anyone pressing
\* Refresh: neither an old list nor one of a failure is there for good.
UpToDate ==
    \A attached \in SUBSET Ports :
        <>[](devices = attached /\ running /\ ~failing) => <>[](listed = attached)

\* What the GUI calls returns: refresh(), so that the frame goes on, although the
\* watcher may hold the scanner; and the join of the watcher, wherever that is.
CallsReturn == /\ pc["gui"] = "refresh" ~> pc["gui"] = "idle"
               /\ pc["gui"] = "join" ~> pc["gui"] = "stopped"
=============================================================================
