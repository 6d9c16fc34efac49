---------------------------- MODULE ManagedStartup ----------------------------
(***************************************************************************)
(* How a desktop core starts and whose core it is (core/cmd/core): managed *)
(* by an elevated launch of the application or by the helper service on    *)
(* Windows, by the helper on macOS.  The core anchors itself to the        *)
(* process that launched it and stops with it; every step may fail, the    *)
(* launcher may die between any two, and its process id be given to        *)
(* another process.                                                        *)
(***************************************************************************)
EXTENDS Naturals, Sequences

VARIABLES
    mode,      \* "managed", "service" or "macos"
    pc,        \* the step of prepareDesktopStartup
    life,      \* "starting", "serving", "failed" or "exited"
    host,      \* the launching process: "alive" or "dead"
    pid,       \* who has its process id: "host", "nobody" or "other"
    handle,    \* the process the core holds: "none", "host" or "other"
    held,      \* what else is held: "images", "home", "pipe"
    acl,       \* of the core's token: "own" or "granted"
    watchdog,  \* of the bootstrap
    job,       \* the core is in the launcher's job
    committed, \* the launcher has seen it joined
    watching,  \* watchWindowsParent, or the copy of the lifetime connection
    peer       \* the process whose RPC connection was accepted

vars == <<mode, pc, life, host, pid, handle, held, acl, watchdog, job, committed, watching, peer>>

\* The steps, in the order of prepareDesktopStartup (Windows, macOS) and
\* prepareWindowsServiceStartup.
Steps == [managed |-> <<"parse", "open", "images", "verify", "pipe", "grant", "join", "home", "restore",
                        "commit", "configure", "watch">>,
          service |-> <<"parse", "open", "verify", "home", "configure", "watch">>,
          macos   |-> <<"parse", "verify", "pipe", "home", "configure", "commit", "watch">>]

Init ==
    /\ mode \in {"managed", "service", "macos"}
    /\ pc = 1 /\ life = "starting"
    /\ host = "alive" /\ pid = "host"
    /\ handle = "none" /\ held = {}
    /\ acl = "own" /\ watchdog = FALSE /\ job = FALSE /\ committed = FALSE
    /\ watching = FALSE /\ peer = "none"

At(step) == life = "starting" /\ Steps[mode][pc] = step
Then == pc' = pc + 1 /\ UNCHANGED <<mode, life, host, pid, peer>>

-----------------------------------------------------------------------------
(* The steps. *)

\* parseWindowsLaunch, parseWindowsServiceLaunch and the checks of
\* privileges; a managed launch has a deadline from the core's creation on.
parseWindowsLaunch ==
    /\ At("parse")
    /\ watchdog' = (mode = "managed")
    /\ Then /\ UNCHANGED <<handle, held, acl, job, committed, watching>>

\* OpenProcess takes whatever process has the id by now.
OpenProcess ==
    /\ At("open") /\ pid # "nobody"
    /\ handle' = pid
    /\ Then /\ UNCHANGED <<held, acl, watchdog, job, committed, watching>>

\* lockWindowsImage, of the application and of the core.
lockWindowsImage ==
    /\ At("images")
    /\ held' = held \cup {"images"}
    /\ Then /\ UNCHANGED <<handle, acl, watchdog, job, committed, watching>>

\* Mutant: the time the process was created at is not compared.
MutVerifyWindowsProcess(h) == h = "other" \/ (h = "host" /\ host = "alive")

\* verifyWindowsProcess: the handle is of a process that runs, was created
\* when the launch says, and belongs to the user.  On macOS the peer of
\* descriptor 3 is asked, which is the parent while it lives.
verifyWindowsProcess(h) == h = "host" /\ host = "alive"

verifyWindowsParent ==
    /\ At("verify")
    /\ IF mode = "macos" THEN host = "alive" /\ handle' = "host"
       ELSE verifyWindowsProcess(handle) /\ UNCHANGED handle
    /\ Then /\ UNCHANGED <<held, acl, watchdog, job, committed, watching>>

\* The bootstrap pipe, whose server has the launcher's process id; on macOS
\* the bootstrap is read from the lifetime connection.
Connect ==
    /\ At("pipe") /\ host = "alive"
    /\ held' = held \cup {"pipe"}
    /\ Then /\ UNCHANGED <<handle, acl, watchdog, job, committed, watching>>

\* captureWindowsTokenAccess and grant: the launcher may look at the core.
grant ==
    /\ At("grant")
    /\ acl' = "granted"
    /\ Then /\ UNCHANGED <<handle, held, watchdog, job, committed, watching>>

\* The hello, the launcher's job handle, and joinWindowsJob.
joinWindowsJob ==
    /\ At("join") /\ host = "alive"
    /\ job' = TRUE
    /\ Then /\ UNCHANGED <<handle, held, acl, watchdog, committed, watching>>

\* lockWindowsHome, lockWindowsOwnedHome, verifyMacOSHome.
lockWindowsHome ==
    /\ At("home")
    /\ held' = held \cup {"home"}
    /\ Then /\ UNCHANGED <<handle, acl, watchdog, job, committed, watching>>

restore ==
    /\ At("restore")
    /\ acl' = "own"
    /\ Then /\ UNCHANGED <<handle, held, watchdog, job, committed, watching>>

\* The core says it has joined and reads the launcher's go.  On macOS it
\* says it is ready, and is told nothing.
Commit ==
    /\ At("commit") /\ host = "alive"
    /\ committed' = TRUE
    /\ Then /\ UNCHANGED <<handle, held, acl, watchdog, job, watching>>

ConfigureDesktopLaunch ==
    /\ At("configure")
    /\ Then /\ UNCHANGED <<handle, held, acl, watchdog, job, committed, watching>>

\* watchWindowsParent, and the deferred calls of a start that has worked:
\* the pipe is closed, the watchdog stopped, the rest kept.
watchWindowsParent ==
    /\ At("watch")
    /\ watching' = TRUE /\ life' = "serving"
    /\ held' = IF mode = "macos" THEN held ELSE held \ {"pipe"}
    /\ watchdog' = FALSE
    /\ UNCHANGED <<mode, pc, host, pid, handle, acl, job, committed, peer>>

\* Mutant: a failed start leaves its token as it is.
MutFail ==
    /\ life = "starting"
    /\ life' = "failed" /\ handle' = "none" /\ held' = {} /\ watchdog' = FALSE
    /\ UNCHANGED <<mode, pc, host, pid, acl, job, committed, watching, peer>>

\* Any step fails: its deferred calls give back what there is.
Fail ==
    /\ life = "starting"
    /\ life' = "failed" /\ handle' = "none" /\ held' = {} /\ watchdog' = FALSE /\ acl' = "own"
    /\ UNCHANGED <<mode, pc, host, pid, job, committed, watching, peer>>

-----------------------------------------------------------------------------

Exit == life' = "exited" /\ handle' = "none" /\ held' = {} /\ watchdog' = FALSE /\ watching' = FALSE

\* The bootstrap takes too long.
WatchdogFires ==
    /\ life = "starting" /\ watchdog
    /\ Exit /\ UNCHANGED <<mode, pc, host, pid, acl, job, committed, peer>>

\* The launcher ends: its job kills what is in it, the watch sees the rest.
HostDies ==
    /\ host = "alive"
    /\ host' = "dead" /\ pid' = "nobody"
    /\ IF job /\ life \in {"starting", "serving"} THEN Exit ELSE UNCHANGED <<life, handle, held, watchdog, watching>>
    /\ UNCHANGED <<mode, pc, acl, job, committed, peer>>

ParentGone ==
    /\ life = "serving" /\ watching /\ handle = "host" /\ host = "dead"
    /\ Exit /\ UNCHANGED <<mode, pc, host, pid, acl, job, committed, peer>>

\* External: an id is free again once its process is gone and no handle of
\* it is open (a process of macOS has no such handles).
PidReused ==
    /\ pid = "nobody" /\ (handle # "host" \/ mode = "macos")
    /\ pid' = "other"
    /\ UNCHANGED <<mode, pc, life, host, handle, held, acl, watchdog, job, committed, watching, peer>>

\* windowsRPCVerifier: the server of the pipe has the launcher's id, and
\* the process held runs and was created when the launch says.  (On macOS
\* the peer is another process, the application, by its id and user.)
windowsRPCVerifier ==
    /\ life = "serving" /\ peer = "none"
    /\ mode # "macos" /\ verifyWindowsProcess(handle)
    /\ peer' = pid
    /\ UNCHANGED <<mode, pc, life, host, pid, handle, held, acl, watchdog, job, committed, watching>>

Next ==
    \/ parseWindowsLaunch \/ OpenProcess \/ lockWindowsImage \/ verifyWindowsParent \/ Connect \/ grant
    \/ joinWindowsJob \/ lockWindowsHome \/ restore \/ Commit \/ ConfigureDesktopLaunch \/ watchWindowsParent
    \/ Fail \/ WatchdogFires \/ HostDies \/ ParentGone \/ PidReused
    \/ windowsRPCVerifier

Spec == Init /\ [][Next]_vars

-----------------------------------------------------------------------------

(* CoreIsAnchored: a core that serves holds the process that launched it,   *)
(* not one that was given its id, has its own access again, was let go by   *)
(* it where that is part of the start, and is watching for its end; on      *)
(* Windows it is that process whose connection it takes.  A start that      *)
(* failed holds and has changed nothing.                                    *)
CoreIsAnchored ==
    /\ life = "serving" => /\ handle = "host" /\ watching /\ acl = "own" /\ "home" \in held
                           /\ mode = "managed" => job /\ committed
    /\ life = "failed" => handle = "none" /\ held = {} /\ acl = "own" /\ ~watchdog
    /\ peer # "other"
    /\ life = "starting" /\ acl = "granted" => mode = "managed" /\ handle = "host"
=============================================================================
