---------------------------- MODULE ClientProcess ----------------------------
(***************************************************************************)
(* The life of a client process: client_main and the parts of ClientDaemon *)
(* (client/main.py) around its event task, the identity files of           *)
(* client/identity.py, the TUN device of client/tun_interface.py, and the  *)
(* handlers of the admin panel (client/web/app.py) that change them.  The  *)
(* process may be killed between any two steps; only the files survive.    *)
(*                                                                         *)
(* A key pair is its number, and so is the client id, which is derived     *)
(* from the public key; a file that is missing or cannot be parsed is 0.   *)
(* A TUN device is the number of the open() that made it; None is 0.       *)
(***************************************************************************)
EXTENDS Naturals

CONSTANTS
    MaxKeys,   \* bound: key pairs told apart, four or more
    MaxDevs    \* bound: TUN devices opened by one process

VARIABLES
    \* the identity directory
    private, public,   \* identity.pem and identity.pub
    \* the process
    phase,     \* where client_main is
    keys,      \* private_key and public_key
    stop,      \* the event _shutdown
    tunMode,   \* config.tun_mode_active
    tun,       \* daemon.tun
    opened,    \* devices opened by this process
    devs,      \* the devices whose descriptor is open
    reading,   \* the device a thread of the executor is reading
    readTask,  \* _tun_read_task: "none", "live" or "dead"
    recvTask,  \* _tunnel_recv_task
    running,   \* the panel's _feature_states["tun"]["running"]
    \* history
    known,     \* the id the server has last accepted
    lost       \* the devices replaced by a second start, or by a failed route

identity == <<private, public>>
device == <<tun, opened, devs, reading, readTask, recvTask, running, lost>>
processVars == <<identity, phase, keys, stop, tunMode, device, known>>

NoKeys == [private |-> 0, public |-> 0]
Sessions == {"setup", "run", "closing"}

Volatile ==
    /\ keys' = NoKeys /\ stop' = FALSE
    /\ tun' = 0 /\ opened' = 0 /\ devs' = {} /\ lost' = {}
    /\ reading' = 0 /\ readTask' = "none" /\ recvTask' = "none"
    /\ running' = FALSE

ProcessInit ==
    /\ private = 0 /\ public = 0
    /\ phase = "off" /\ keys = NoKeys /\ stop = FALSE
    /\ tunMode \in BOOLEAN
    /\ tun = 0 /\ opened = 0 /\ devs = {} /\ lost = {}
    /\ reading = 0 /\ readTask = "none" /\ recvTask = "none"
    /\ running = FALSE
    /\ known = 0

-----------------------------------------------------------------------------
(* The identity.                                                            *)

\* client_main, in either mode.
Start ==
    /\ phase = "off"
    /\ phase' = "load"
    /\ tunMode' \in BOOLEAN
    /\ UNCHANGED <<identity, keys, stop, device, known>>

\* generate_identity: a key pair unlike any that is still around.
Fresh == (1..MaxKeys) \ {private, public, known}

\* load_identity raises nothing: both files are there and hold keys.
Loadable == private # 0 /\ public # 0

\* EnsureIdentity, if a new key pair were used without being saved.
EnsureIdentityForgets ==
    /\ phase = "load"
    /\ \/ /\ Loadable
          /\ keys' = [private |-> private, public |-> public]
       \/ /\ ~Loadable
          /\ \E k \in Fresh : keys' = [private |-> k, public |-> k]
    /\ phase' = "connect"
    /\ UNCHANGED <<identity, stop, tunMode, device, known>>

\* ensure_identity: load_identity, or generate_identity.
EnsureIdentity ==
    /\ phase = "load"
    /\ \/ /\ Loadable
          /\ keys' = [private |-> private, public |-> public]
          /\ phase' = "connect"
       \/ /\ ~Loadable
          /\ \E k \in Fresh : keys' = [private |-> k, public |-> k]
          /\ phase' = "truncate private"
    /\ UNCHANGED <<identity, stop, tunMode, device, known>>

\* save_identity: write_bytes empties a file and then fills it.
SaveIdentity ==
    /\ \/ phase = "truncate private" /\ private' = 0 /\ phase' = "write private"
          /\ UNCHANGED public
       \/ phase = "write private" /\ private' = keys.private /\ phase' = "truncate public"
          /\ UNCHANGED public
       \/ phase = "truncate public" /\ public' = 0 /\ phase' = "write public"
          /\ UNCHANGED private
       \/ phase = "write public" /\ public' = keys.public /\ phase' = "connect"
          /\ UNCHANGED private
    /\ UNCHANGED <<keys, stop, tunMode, device, known>>

-----------------------------------------------------------------------------
(* run().                                                                   *)

\* channel.connect()
Connect ==
    /\ phase = "connect"
    /\ phase' = "auth"
    /\ UNCHANGED <<identity, keys, stop, tunMode, device, known>>

\* channel.authenticate(): the server verifies the signature with the public key.
Authenticate ==
    /\ phase = "auth" /\ keys.private = keys.public
    /\ phase' = "setup"
    /\ known' = keys.public
    /\ UNCHANGED <<identity, keys, stop, tunMode, device>>

\* An exception leaves run() and the process ends: the files cannot be read or
\* written, the server is not there, does not accept, or goes away.
Fails ==
    /\ phase \in {"load", "truncate private", "write private", "truncate public",
                  "write public", "connect", "auth"}
    /\ phase' = "off"
    /\ Volatile
    /\ UNCHANGED <<identity, tunMode, known>>

\* LinuxTunInterface.open; when a later step of it fails it closes what it had
\* opened, which leaves devs as it was.
OpenDevice ==
    /\ opened < MaxDevs
    /\ opened' = opened + 1
    /\ devs' = devs \cup {opened'}

\* LinuxTunInterface.close of self.tun.
CloseDevice == devs' = devs \ {tun}

\* _setup_tun: the new object replaces the one that is there.  open() fails, or
\* succeeds; then add_route() raises an OSError when there is no `ip` to run,
\* with the device open.
SetupTun ==
    \/ /\ OpenDevice
       /\ tun' = opened'
       /\ lost' = lost \cup ({tun} \cap devs)
    \/ /\ tun' = 0 /\ lost' = lost \cup ({tun} \cap devs)
       /\ UNCHANGED <<opened, devs>>
    \/ /\ OpenDevice
       /\ tun' = 0
       /\ lost' = lost \cup ({tun} \cap devs) \cup {opened'}

\* The rest of run() before it waits: the TUN mode's device and its two tasks.
StartTasks ==
    /\ phase = "setup"
    /\ IF tunMode THEN SetupTun ELSE UNCHANGED <<tun, opened, devs, lost>>
    /\ phase' = "run"
    /\ readTask' = IF tun' # 0 THEN "live" ELSE "none"
    /\ recvTask' = readTask'
    /\ UNCHANGED <<identity, keys, stop, tunMode, reading, running, known>>

\* SIGINT, SIGTERM, or the panel's connection/start: request_shutdown().
RequestShutdown ==
    /\ phase # "off" /\ ~stop
    /\ stop' = TRUE
    /\ UNCHANGED <<identity, phase, keys, tunMode, device, known>>

-----------------------------------------------------------------------------
(* The packet loops.                                                        *)

\* _tun_read_loop hands self.tun.read to the executor; None has no read.
ReadStarts ==
    /\ phase = "run" /\ readTask = "live" /\ reading = 0 /\ ~stop
    /\ IF tun = 0 THEN readTask' = "dead" /\ UNCHANGED reading
       ELSE reading' = tun /\ UNCHANGED readTask
    /\ UNCHANGED <<identity, phase, keys, stop, tunMode, tun, opened, devs, recvTask, running,
                   lost, known>>

\* The thread returns with a packet, or with an error because the device was
\* closed; an ARP request is answered on self.tun, an IP packet goes to the tunnel.
ReadReturns ==
    /\ reading # 0
    /\ reading' = 0
    /\ readTask' \in {readTask} \cup (IF readTask = "live" /\ tun = 0 THEN {"dead"} ELSE {})
    /\ UNCHANGED <<identity, phase, keys, stop, tunMode, tun, opened, devs, recvTask, running,
                   lost, known>>

\* _tunnel_recv_loop has a packet for self.tun.
Receive ==
    /\ phase = "run" /\ recvTask = "live"
    /\ recvTask' = IF stop \/ tun = 0 THEN "dead" ELSE "live"
    /\ UNCHANGED <<identity, phase, keys, stop, tunMode, tun, opened, devs, reading, readTask,
                   running, lost, known>>

-----------------------------------------------------------------------------
(* The panel, whose site serves until the loop is closed.                   *)

Serving == phase \in {"run", "closing"}

\* api_feature_start("tun"): _setup_tun swallows its failure.
PanelStartTun ==
    /\ Serving
    /\ running' = TRUE
    /\ SetupTun
    /\ UNCHANGED <<identity, phase, keys, stop, tunMode, reading, readTask, recvTask, known>>

\* PanelStopTun, if it only forgot the device.
PanelStopTunForgets ==
    /\ Serving
    /\ running' = FALSE
    /\ tun' = 0
    /\ UNCHANGED <<identity, phase, keys, stop, tunMode, opened, devs, reading, readTask,
                   recvTask, lost, known>>

\* api_feature_stop("tun")
PanelStopTun ==
    /\ Serving
    /\ running' = FALSE
    /\ CloseDevice
    /\ tun' = 0
    /\ UNCHANGED <<identity, phase, keys, stop, tunMode, opened, reading, readTask, recvTask,
                   lost, known>>

\* dashboard()
Dashboard ==
    /\ Serving
    /\ running' = (running \/ tun # 0)
    /\ UNCHANGED <<identity, phase, keys, stop, tunMode, tun, opened, devs, reading, readTask,
                   recvTask, lost, known>>

-----------------------------------------------------------------------------
(* The end.                                                                 *)

\* ShutdownDaemon, if it waited for the read that is out.
ShutdownDaemonWaits ==
    /\ phase = "run" /\ stop /\ reading = 0
    /\ phase' = "closing"
    /\ readTask' = "none" /\ recvTask' = "none"
    /\ CloseDevice
    /\ UNCHANGED <<identity, keys, stop, tunMode, tun, opened, reading, running, lost, known>>

\* _shutdown_daemon up to the close of the channel: the tasks are cancelled, a
\* thread that reads is not; the device is closed, and self.tun keeps the object.
ShutdownDaemon ==
    /\ phase = "run" /\ stop
    /\ phase' = "closing"
    /\ readTask' = "none" /\ recvTask' = "none"
    /\ CloseDevice
    /\ UNCHANGED <<identity, keys, stop, tunMode, tun, opened, reading, running, lost, known>>

\* channel.close() returns and the loop is closed.
CloseLoop ==
    /\ phase = "closing"
    /\ phase' = "exit"
    /\ UNCHANGED <<identity, keys, stop, tunMode, device, known>>

\* The interpreter's exit joins the executor's threads.
Exit ==
    /\ phase = "exit" /\ reading = 0
    /\ phase' = "off"
    /\ Volatile
    /\ UNCHANGED <<identity, tunMode, known>>

\* The process is killed.
Crash ==
    /\ phase # "off"
    /\ phase' = "off"
    /\ Volatile
    /\ UNCHANGED <<identity, tunMode, known>>

MainTask ==
    \/ EnsureIdentity \/ SaveIdentity \/ Connect \/ Authenticate
    \/ StartTasks \/ ShutdownDaemon \/ CloseLoop \/ Exit

ProcessNext ==
    \/ Start \/ MainTask \/ Fails \/ RequestShutdown
    \/ ReadStarts \/ ReadReturns \/ Receive
    \/ PanelStartTun \/ PanelStopTun \/ Dashboard
    \/ Crash

ProcessSpec == ProcessInit /\ [][ProcessNext]_processVars

\* The main task runs; the server answers.
FairProcessSpec == ProcessSpec /\ WF_processVars(MainTask)

-----------------------------------------------------------------------------
(* Properties                                                               *)

Stable ==
    INSTANCE StableIdentity
    WITH id <- known, session <- IF phase \in Sessions THEN keys.public ELSE 0

\* The client keeps its identity: whatever step it is killed at, also in the
\* middle of writing its key files, every session the server accepts is under
\* the id of the first (ensure_identity, save_identity, authenticate).
KeepsIdentity == Stable!Spec

\* A TUN device that is open is daemon.tun, or one a second start or a failed
\* route has dropped: the panel's stop, the shutdown and the failures of open()
\* leave no other behind (_setup_tun, api_feature_stop, _shutdown_daemon).
TunAccounted == devs \ lost \subseteq {tun}

\* A process that is asked to stop, at any moment, does: only a thread that is
\* still reading a TUN device can hold it up (_shutdown_daemon, _tun_read_loop).
StopEnds == stop ~> phase = "off" \/ (phase = "exit" /\ reading # 0)

=============================================================================
