------------------------------- MODULE Ingress -------------------------------
(***************************************************************************)
(* IngressManager.sync_service and the nginx it configures: the file that  *)
(* names the target of client requests, and the configuration nginx has    *)
(* loaded.  A target is known by its node.                                 *)
(*                                                                         *)
(* A synchronisation resolves the target and writes the file, reloads      *)
(* nginx if the file has changed, and records an event.  The lock of the   *)
(* manager lets one through at a time; phase is where it has got to.       *)
(***************************************************************************)
CONSTANTS
    Targets,
    NoTarget,       \* a file without a server line; nginx that does not run
    NoFile,         \* the file has not been written yet
    IngressFaults   \* subset of {"read", "reload", "nginx"}

VARIABLES
    upstream,  \* what the file names
    nginx,     \* the target nginx has loaded, NoTarget when it is down
    phase,     \* "resolve", "reload", or the event to be recorded
    event,     \* the last ingress event recorded
    unread     \* the last synchronisation kept the file, as no read succeeded

IngressInit ==
    /\ upstream = NoFile
    /\ nginx = NoTarget
    /\ phase = "resolve"
    /\ event = "none"
    /\ unread = FALSE

-----------------------------------------------------------------------------
(* Synchronisation *)

To(n) == [update |-> TRUE, target |-> n]
Keep == [update |-> FALSE, target |-> NoTarget]

\* Mutant: the status of the service is not looked at.
Decisions_AnyStatus(running, n) ==
    IF n = NoTarget THEN {To(NoTarget)}
    ELSE {To(n)} \cup (IF "read" \in IngressFaults THEN {Keep, To(NoTarget)} ELSE {})

\* _resolve_target: running says that the service is shown as running, n is the
\* node of its placement, if that node is registered.  In twenty tries the
\* agent's local state may never be read, or never have a port and an address.
Decisions(running, n) ==
    IF ~running \/ n = NoTarget THEN {To(NoTarget)}
    ELSE {To(n)} \cup (IF "read" \in IngressFaults THEN {Keep, To(NoTarget)} ELSE {})

\* The file is written unless it has this content already.
Resolves(decision) ==
    /\ phase = "resolve"
    /\ unread' = ~decision.update
    /\ upstream' = IF decision.update THEN decision.target ELSE upstream
    /\ phase' = IF upstream' # upstream THEN "reload" ELSE "resolve"
    /\ UNCHANGED <<nginx, event>>

\* nginx -s reload: nginx has to run, and refuses an upstream without a server.
Reloadable == nginx # NoTarget /\ upstream \in Targets

ReloadSucceeds ==
    /\ phase = "reload"
    /\ Reloadable
    /\ nginx' = upstream
    /\ phase' = "updated"
    /\ UNCHANGED <<upstream, event, unread>>

\* Mutant: the exit code of the command is not looked at.
ReloadFails_ExitCodeIgnored ==
    /\ phase = "reload"
    /\ ~Reloadable
    /\ phase' = "updated"
    /\ UNCHANGED <<upstream, nginx, event, unread>>

\* The command may also fail with the Docker socket, before or after nginx has
\* got it.  It is not tried again.
ReloadFails ==
    /\ phase = "reload"
    /\ ~Reloadable \/ "reload" \in IngressFaults
    /\ nginx' \in {nginx} \cup (IF Reloadable THEN {upstream} ELSE {})
    /\ phase' = "failed"
    /\ UNCHANGED <<upstream, event, unread>>

Records ==
    /\ phase \in {"updated", "failed"}
    /\ event' = phase
    /\ phase' = "resolve"
    /\ UNCHANGED <<upstream, nginx, unread>>

-----------------------------------------------------------------------------
(* nginx *)

NginxStarts ==
    /\ nginx = NoTarget
    /\ upstream \in Targets
    /\ nginx' = upstream
    /\ UNCHANGED <<upstream, phase, event, unread>>

NginxDies ==
    /\ "nginx" \in IngressFaults
    /\ nginx # NoTarget
    /\ nginx' = NoTarget
    /\ UNCHANGED <<upstream, phase, event, unread>>

IngressTypeOK ==
    /\ upstream \in Targets \cup {NoTarget, NoFile}
    /\ nginx \in Targets \cup {NoTarget}
    /\ phase \in {"resolve", "reload", "updated", "failed"}
    /\ event \in {"none", "updated", "failed"}
    /\ unread \in BOOLEAN

=============================================================================
