---------------------------- MODULE EventWatcher ----------------------------
(***************************************************************************)
(* DockerEventWatcher: a thread reads the event stream of Docker, filters  *)
(* the deaths of managed containers, and hands a crash report for each to  *)
(* the event loop of the agent, at most one per cooldown and service.      *)
(***************************************************************************)
EXTENDS Naturals

CONSTANTS
    Services,
    Faults       \* whether the stream may break off: {"stream"} or {}

VARIABLES
    stream,      \* "open", or "closed" while run() backs off
    events,      \* what the stream has announced and the thread has not read
    cooling,     \* _cooldown: services with a report less than the cooldown ago
    tasks,       \* send_crash_report tasks of the event loop
    reported     \* services whose crash was posted to the controller

vars == <<stream, events, cooling, tasks, reported>>

\* A stop and a restart kill the container, and are announced like a crash; the
\* "kill" event carries no exit code.  zero is a death with exit code 0.
Death(s, zero) == [service |-> s, zero |-> zero]
Deaths         == [service: Services, zero: BOOLEAN]

Init ==
    /\ stream = "open"
    /\ events = {}
    /\ cooling = {}
    /\ tasks = {}
    /\ reported = {}

\* A container of the service goes down, by itself or on a command.
Dies(s, zero) ==
    /\ events' = IF stream = "open" THEN events \cup {Death(s, zero)} ELSE events
    /\ UNCHANGED <<stream, cooling, tasks, reported>>

\* asyncio.get_event_loop() raises RuntimeError in a thread that is not the main
\* one and has no event loop, as the thread of asyncio.to_thread has none.
LoopInWatcherThread == FALSE

\* _handle_event: the RuntimeError is taken for a shutdown and passed over.
Handles(e) ==
    /\ stream = "open" /\ e \in events
    /\ events' = events \ {e}
    /\ IF e.zero \/ e.service \in cooling
       THEN UNCHANGED <<cooling, tasks>>
       ELSE /\ cooling' = cooling \cup {e.service}
            /\ tasks' = IF LoopInWatcherThread THEN tasks \cup {e.service} ELSE tasks
    /\ UNCHANGED <<stream, reported>>

\* send_crash_report, run by the event loop.
Sends(s) ==
    /\ s \in tasks
    /\ tasks' = tasks \ {s}
    /\ reported' = reported \cup {s}
    /\ UNCHANGED <<stream, events, cooling>>

CoolsDown(s) ==
    /\ s \in cooling
    /\ cooling' = cooling \ {s}
    /\ UNCHANGED <<stream, events, tasks, reported>>

\* The blocking read raises or ends; run() waits and opens a new stream, which
\* starts with what happens from then on.
StreamBreaks ==
    /\ "stream" \in Faults
    /\ stream = "open"
    /\ stream' = "closed"
    /\ events' = {}
    /\ UNCHANGED <<cooling, tasks, reported>>

Reconnects ==
    /\ stream = "closed"
    /\ stream' = "open"
    /\ UNCHANGED <<events, cooling, tasks, reported>>

Next ==
    \/ \E s \in Services, zero \in BOOLEAN : Dies(s, zero)
    \/ \E e \in events : Handles(e)
    \/ \E s \in Services : Sends(s) \/ CoolsDown(s)
    \/ StreamBreaks \/ Reconnects

\* The thread reads on, the loop runs its tasks, and cooldowns and backoffs end.
Fairness ==
    /\ \A e \in Deaths : WF_vars(Handles(e))
    /\ \A s \in Services : WF_vars(Sends(s)) /\ WF_vars(CoolsDown(s))
    /\ WF_vars(Reconnects)

Spec == Init /\ [][Next]_vars /\ Fairness

(***************************************************************************)
(* "this watcher immediately sends a crash report to the controller"       *)
(* (docker_event_watcher.py:23-24): an abnormal death of a container that  *)
(* the stream announces, with no report about the service shortly before,  *)
(* is reported.  It never is, even if the stream does not break.           *)
(***************************************************************************)
CrashIsReported ==
    \A s \in Services :
        Death(s, FALSE) \in events /\ s \notin cooling ~> s \in reported

=============================================================================
