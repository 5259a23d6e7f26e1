------------------------------ MODULE Lifecycle ------------------------------
(***************************************************************************)
(* The process from runStart on: the main goroutine, which installs the    *)
(* handler for interrupts and goes on into Start, and the goroutine that   *)
(* waits for the interrupt.  Start calls StartServers, which makes the     *)
(* router and then blocks in ListenAndServe until that fails, so that      *)
(* nothing after line 45 of start.go (Wait, <-done) nor mainLoop of        *)
(* node.go is ever reached.                                                *)
(***************************************************************************)
EXTENDS Integers

CONSTANT MaxSignals     \* how many interrupts the operator sends

ASSUME SignalsAssumption == MaxSignals \in Nat

VARIABLES
    main,       \* the main goroutine
    watcher,    \* the goroutine that receives from c
    notified,   \* signal.Notify is in effect: the default action is off
    done,       \* the channel that ends runStart is closed
    signals     \* interrupts sent so far

life == <<main, watcher, notified, done, signals>>

LifeInit ==
    /\ main = "begin"
    /\ watcher = "none"
    /\ notified = FALSE
    /\ done = FALSE
    /\ signals = 0

Notify ==
    /\ main = "begin" /\ main' = "spawn"
    /\ notified' = TRUE
    /\ UNCHANGED <<watcher, done, signals>>

Spawn ==
    /\ main = "spawn" /\ main' = "router"
    /\ watcher' = "running"
    /\ UNCHANGED <<notified, done, signals>>

\* NewThetaRouter returns a router and ListenAndServe begins.
Listen ==
    /\ main = "router" /\ main' = "listening"
    /\ UNCHANGED <<watcher, notified, done, signals>>

\* logger.Fatalf: the router cannot be made, or ListenAndServe returns.
Fatal(at) ==
    /\ main = at /\ main' = "exited"
    /\ UNCHANGED <<watcher, notified, done, signals>>

Alive == main # "exited"

\* The goroutine gets to <-c.
Receive ==
    /\ Alive /\ watcher = "running" /\ watcher' = "receiving"
    /\ UNCHANGED <<main, notified, done, signals>>

\* signal.Stop gives the signal its default action back; nobody looks at the
\* context that cancel ends.
StopSignals ==
    /\ Alive /\ watcher = "caught" /\ watcher' = "timer"
    /\ notified' = FALSE
    /\ UNCHANGED <<main, done, signals>>

TimerFires ==
    /\ Alive /\ watcher = "timer" /\ watcher' = "finished"
    /\ done' = TRUE
    /\ UNCHANGED <<main, notified, signals>>

\* An interrupt ends the process, or goes to c: the channel has no buffer, and
\* a send that finds no receiver is dropped.
Interrupt ==
    /\ Alive /\ signals < MaxSignals /\ signals' = signals + 1
    /\ main' = IF notified THEN main ELSE "exited"
    /\ watcher' = IF notified /\ watcher = "receiving" THEN "caught" ELSE watcher
    /\ UNCHANGED <<notified, done>>

WatcherStep == Receive \/ StopSignals \/ TimerFires

LifeNext ==
    \/ Notify
    \/ Spawn
    \/ Listen
    \/ Fatal("router")
    \/ Fatal("listening")
    \/ WatcherStep
    \/ Interrupt

\* Goroutines that can go on do, and timers fire; failures and interrupts are
\* up to the environment.
LifeFairness ==
    /\ WF_life(Notify \/ Spawn \/ Listen \/ Fatal("router"))
    /\ WF_life(WatcherStep)

FairLifeSpec == LifeInit /\ [][LifeNext]_life /\ LifeFairness

\* start.go, line 40: "Wait at most 5 seconds before forcefully shutting down."
\* An interrupt that is caught ends the process in the end.
ForcedShutdown == watcher = "caught" ~> main = "exited"
=============================================================================
