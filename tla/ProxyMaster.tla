----------------------------- MODULE ProxyMaster -----------------------------
(***************************************************************************)
(* The reverse proxy's master process (proxy/master.py, the end of         *)
(* proxy/main.py): it forks the workers, restarts the ones that died, and  *)
(* handles SIGHUP and SIGTERM/SIGINT.  A signal handler runs on top of     *)
(* whatever the master is doing, at a call or at the end of a loop         *)
(* iteration, so the master's state is a stack of frames and a step is the *)
(* code of the top frame between two such points.  A Process object in a   *)
(* list of workers is a process id; the lists are objects that frames keep *)
(* after self._workers has been rebound, and the newest one is             *)
(* self._workers.                                                          *)
(***************************************************************************)
EXTENDS Naturals, Sequences, FiniteSets

CONSTANTS
    N,           \* worker_count
    MaxProcs,    \* bound: the processes ever made
    MaxSignals,  \* bound: the signals the master gets
    MaxCrashes,  \* bound: the workers that die by themselves
    None

ASSUME MasterAssumption == N \in Nat \ {0} /\ MaxProcs \in Nat

Procs == 1 .. MaxProcs

VARIABLES
    stack,     \* the frames of the master's main thread, the running one last
    lists,     \* the list objects; the last one is self._workers
    state,     \* per process: "none", "new" (built, not started), "up", "down"
    copy,      \* per process: the _workers its fork copied together with the
               \* signal handlers; None when it was forked before they were set
    pending,   \* the workers with a SIGTERM not yet handled
    handlers,  \* start() has set the signal handlers
    sockets,   \* the listen sockets: "none", "open", "closed"
    phase,     \* "run", "exit" (the interpreter joins its children), "gone"
    signals, crashes,   \* counters of the bounds
    raced      \* history: a signal came while the master was not asleep

vars == <<stack, lists, state, copy, pending, handlers, sockets, phase, signals, crashes, raced>>

Frame(op, pc, i, list, p) == [op |-> op, pc |-> pc, i |-> i, list |-> list, p |-> p]

Cur == Len(lists)
Workers == lists[Cur]
Top == stack[Len(stack)]
Under == SubSeq(stack, 1, Len(stack) - 1)
Fresh == CHOOSE p \in 1 .. MaxProcs + 1 : \A q \in Procs : state[q] # "none" <=> q < p
Asleep == stack = <<Frame("main", "sleep", 0, 0, None)>>
Up == {p \in Procs : state[p] = "up"}

Init ==
    /\ stack = <<Frame("main", "bind", 0, 0, None)>>
    /\ lists = << <<>> >>
    /\ state = [p \in Procs |-> "none"]
    /\ copy = [p \in Procs |-> None]
    /\ pending = {}
    /\ handlers = FALSE
    /\ sockets = "none"
    /\ phase = "run"
    /\ signals = 0 /\ crashes = 0
    /\ raced = FALSE

\* An exception leaves start(): main() logs it, and the interpreter exits.
Fatal ==
    /\ stack' = <<>>
    /\ phase' = "exit"

\* start() binds the ports, which fails when one of them is taken.
Bind ==
    /\ stack # <<>> /\ Top.pc = "bind"
    /\ \/ /\ sockets' = "open"
          /\ stack' = <<Frame("main", "spawn", 1, 0, None)>>
          /\ UNCHANGED phase
       \/ Fatal /\ UNCHANGED sockets
    /\ UNCHANGED <<lists, state, copy, pending, handlers, signals, crashes, raced>>

-----------------------------------------------------------------------------
(* _spawn_worker, in start() and in reload().                               *)

\* Process(...).start(): the child copies the handlers and self._workers.
SpawnWorker ==
    /\ stack # <<>> /\ Top.pc = "spawn" /\ Fresh \in Procs
    /\ state' = [state EXCEPT ![Fresh] = "up"]
    /\ copy' = [copy EXCEPT ![Fresh] = IF handlers THEN Workers ELSE None]
    /\ stack' = Append(Under, [Top EXCEPT !.pc = "append", !.p = Fresh])
    /\ UNCHANGED <<lists, pending, handlers, sockets, phase, signals, crashes, raced>>

\* self._workers.append(proc); after the last one start() sets the handlers and
\* begins to monitor, and reload() begins with the old workers.
AppendWorker ==
    /\ stack # <<>> /\ Top.pc = "append"
    /\ lists' = [lists EXCEPT ![Cur] = Append(@, Top.p)]
    /\ LET count == IF Top.op = "main" THEN N ELSE Len(lists[Top.list]) IN
       IF Top.i < count
       THEN /\ stack' = Append(Under, Frame(Top.op, "spawn", Top.i + 1, Top.list, None))
            /\ UNCHANGED handlers
       ELSE IF Top.op = "main"
       THEN /\ stack' = <<Frame("main", "sleep", 0, 0, None)>>
            /\ handlers' = TRUE
       ELSE /\ stack' = Append(Under, Frame("reload", "terminate", 1, Top.list, None))
            /\ UNCHANGED handlers
    /\ UNCHANGED <<state, copy, pending, sockets, phase, signals, crashes, raced>>

-----------------------------------------------------------------------------
(* _reap_workers: the enumeration keeps the list object it began with; the  *)
(* new process goes into the list that is self._workers by then.            *)

WakeUp ==
    /\ Asleep
    /\ stack' = <<Frame("main", "check", 1, Cur, None)>>
    /\ UNCHANGED <<lists, state, copy, pending, handlers, sockets, phase, signals, crashes, raced>>

\* To the next worker of the enumeration, or back to sleep.
Advance ==
    IF Top.i < Len(lists[Top.list])
    THEN stack' = <<Frame("main", "check", Top.i + 1, Top.list, None)>>
    ELSE stack' = <<Frame("main", "sleep", 0, 0, None)>>

\* CheckWorker, if a worker that died were left alone.
CheckWorkerForgets ==
    /\ stack # <<>> /\ Top.pc = "check"
    /\ Advance
    /\ UNCHANGED <<lists, state, copy, pending, handlers, sockets, phase, signals, crashes, raced>>

\* proc.is_alive()
CheckWorker ==
    /\ stack # <<>> /\ Top.pc = "check"
    /\ IF state[lists[Top.list][Top.i]] = "up"
       THEN Advance
       ELSE stack' = <<[Top EXCEPT !.pc = "replace"]>>
    /\ UNCHANGED <<lists, state, copy, pending, handlers, sockets, phase, signals, crashes, raced>>

\* self._workers[i] = Process(...), not started yet.
ReplaceWorker ==
    /\ stack # <<>> /\ Top.pc = "replace" /\ Fresh \in Procs
    /\ state' = [state EXCEPT ![Fresh] = "new"]
    /\ lists' = [lists EXCEPT ![Cur] = [@ EXCEPT ![Top.i] = Fresh]]
    /\ stack' = <<[Top EXCEPT !.pc = "start"]>>
    /\ UNCHANGED <<copy, pending, handlers, sockets, phase, signals, crashes, raced>>

\* self._workers[i].start(), which refuses a process started before.
StartWorker ==
    /\ stack # <<>> /\ Top.pc = "start"
    /\ LET p == Workers[Top.i] IN
       IF state[p] = "new"
       THEN /\ state' = [state EXCEPT ![p] = "up"]
            /\ copy' = [copy EXCEPT ![p] = Workers]
            /\ Advance /\ UNCHANGED phase
       ELSE Fatal /\ UNCHANGED <<state, copy>>
    /\ UNCHANGED <<lists, pending, handlers, sockets, signals, crashes, raced>>

-----------------------------------------------------------------------------
(* Signals.                                                                 *)

Signalled ==
    /\ phase = "run" /\ stack # <<>> /\ signals < MaxSignals
    /\ signals' = signals + 1
    /\ raced' = (raced \/ ~Asleep)

\* SighupReload, if the new list were filled from itself.
SighupReloadEmpty ==
    /\ Signalled /\ handlers
    /\ lists' = Append(lists, <<>>)
    /\ stack' = Append(stack, Frame("reload", "terminate", 1, Cur, None))
    /\ UNCHANGED <<state, copy, pending, handlers, sockets, phase, crashes>>

\* SIGHUP: reload() rebinds self._workers to an empty list and fills it.
SighupReload ==
    /\ Signalled /\ handlers
    /\ lists' = Append(lists, <<>>)
    /\ stack' = IF Workers = <<>> THEN stack
                ELSE Append(stack, Frame("reload", "spawn", 1, Cur, None))
    /\ UNCHANGED <<state, copy, pending, handlers, sockets, phase, crashes>>

\* SIGTERM or SIGINT: shutdown().  Before the handlers are set SIGINT unwinds
\* start() and main() calls shutdown().
SigtermShutdown ==
    /\ Signalled
    /\ stack' = Append(IF handlers THEN stack ELSE <<>>,
                       Frame("shutdown", "terminate", 1, Cur, None))
    /\ handlers \/ Top.op = "main"
    /\ UNCHANGED <<lists, state, copy, pending, handlers, sockets, phase, crashes>>

\* Before the handlers are set SIGTERM and SIGHUP end the master on the spot,
\* and a second SIGINT unwinds main().
SignalKillsMaster ==
    /\ Signalled /\ ~handlers
    /\ stack' = <<>>
    /\ phase' \in IF Top.op = "main" THEN {"gone"} ELSE {"gone", "exit"}
    /\ UNCHANGED <<lists, state, copy, pending, handlers, sockets, crashes>>

-----------------------------------------------------------------------------
(* The loops over the workers to be stopped, in reload() and shutdown().    *)

\* The end of shutdown(): the listen sockets are closed; sys.exit().
StopServing ==
    /\ stack' = <<>>
    /\ phase' = "exit"
    /\ sockets' = "closed"

\* The end of a loop: reload() returns to the frame below; shutdown() goes on
\* to its second loop, over what is self._workers by then, and then to
\* sys.exit.
Terminated ==
    IF Top.op = "reload"
    THEN stack' = Append(Under, [Top EXCEPT !.pc = "join"]) /\ UNCHANGED <<phase, sockets>>
    ELSE IF Top.i < Len(lists[Top.list])
    THEN stack' = Append(Under, [Top EXCEPT !.i = @ + 1]) /\ UNCHANGED <<phase, sockets>>
    ELSE IF Workers # <<>>
    THEN stack' = Append(Under, Frame("shutdown", "join", 1, Cur, None)) /\ UNCHANGED <<phase, sockets>>
    ELSE StopServing

\* proc.terminate(), which a process that was never started cannot take.
Terminate ==
    /\ stack # <<>> /\ Top.pc = "terminate"
    /\ IF lists[Top.list] = <<>>
       THEN Terminated /\ UNCHANGED pending
       ELSE LET p == lists[Top.list][Top.i] IN
            IF state[p] = "new"
            THEN Fatal /\ UNCHANGED <<pending, sockets>>
            ELSE /\ pending' = IF state[p] = "up" THEN pending \cup {p} ELSE pending
                 /\ Terminated
    /\ UNCHANGED <<lists, state, copy, handlers, signals, crashes, raced>>

\* Joined, if reload() stopped one worker short.
JoinedShort ==
    IF Top.i < Len(lists[Top.list]) - 1
    THEN /\ stack' = Append(Under, [Top EXCEPT !.i = @ + 1,
                                       !.pc = IF Top.op = "reload" THEN "terminate" ELSE @])
         /\ UNCHANGED <<phase, sockets>>
    ELSE IF Top.op = "reload" THEN stack' = Under /\ UNCHANGED <<phase, sockets>>
    ELSE StopServing

\* To the next worker, or the end of the function.
Joined ==
    IF Top.i < Len(lists[Top.list])
    THEN /\ stack' = Append(Under, [Top EXCEPT !.i = @ + 1,
                                       !.pc = IF Top.op = "reload" THEN "terminate" ELSE @])
         /\ UNCHANGED <<phase, sockets>>
    ELSE IF Top.op = "reload" THEN stack' = Under /\ UNCHANGED <<phase, sockets>>
    ELSE StopServing

\* Join, if a worker that outlives the timeout were not killed.
JoinSpares ==
    /\ stack # <<>> /\ Top.pc = "join"
    /\ Joined
    /\ UNCHANGED <<lists, state, pending, copy, handlers, signals, crashes, raced>>

\* proc.join(timeout=10): the process is down, or the time is over and it is killed.
Join ==
    /\ stack # <<>> /\ Top.pc = "join"
    /\ LET p == lists[Top.list][Top.i] IN
       /\ state' = [state EXCEPT ![p] = "down"]
       /\ pending' = pending \ {p}
    /\ Joined
    /\ UNCHANGED <<lists, copy, handlers, signals, crashes, raced>>

\* The interpreter's exit joins every child that is not a daemon.
AtExit ==
    /\ phase = "exit" /\ Up = {}
    /\ phase' = "gone"
    /\ UNCHANGED <<stack, lists, state, copy, pending, handlers, sockets, signals, crashes, raced>>

-----------------------------------------------------------------------------
(* Workers.                                                                 *)

\* A worker dies by itself: an exception leaves run(), or the system kills it.
Crash(p) ==
    /\ state[p] = "up" /\ crashes < MaxCrashes
    /\ state' = [state EXCEPT ![p] = "down"]
    /\ pending' = pending \ {p}
    /\ crashes' = crashes + 1
    /\ UNCHANGED <<stack, lists, copy, handlers, sockets, phase, signals, raced>>

\* The workers of the copied list a worker reaches before it reaches itself,
\* which it cannot terminate.
Siblings(p) ==
    LET c == copy[p]
        own == {k \in DOMAIN c : c[k] = p}
    IN  {c[k] : k \in {k \in DOMAIN c : \A m \in own : k < m}}

\* SIGTERM in a worker.  With the default handler it dies.  With the master's
\* handler it runs shutdown() on its copy: it signals the siblings and fails at
\* the first join() or at itself, which ends it unless the code it interrupted
\* catches the exception; with nothing copied it exits.
HandleTerm(p) ==
    /\ p \in pending /\ state[p] = "up"
    /\ IF copy[p] = None
       THEN /\ state' = [state EXCEPT ![p] = "down"]
            /\ pending' = pending \ {p}
       ELSE /\ pending' = (pending \ {p}) \cup (Siblings(p) \cap Up)
            /\ \/ state' = [state EXCEPT ![p] = "down"]
               \/ copy[p] # <<>> /\ UNCHANGED state
    /\ UNCHANGED <<stack, lists, copy, handlers, sockets, phase, signals, crashes, raced>>

Master ==
    \/ Bind \/ SpawnWorker \/ AppendWorker \/ WakeUp \/ CheckWorker \/ ReplaceWorker
    \/ StartWorker \/ Terminate \/ Join \/ AtExit

Next ==
    \/ Master
    \/ SighupReload \/ SigtermShutdown \/ SignalKillsMaster
    \/ \E p \in Procs : Crash(p) \/ HandleTerm(p)

Spec == Init /\ [][Next]_vars

\* The master's main thread runs, and a worker gets the signals sent to it.
Fairness == WF_vars(Master) /\ \A p \in Procs : WF_vars(HandleTerm(p))

FairSpec == Spec /\ Fairness

-----------------------------------------------------------------------------
(* Properties                                                               *)

\* While the master runs and has not been told to stop, at least as many worker
\* processes are up as it was configured with, less the ones that crashed:
\* reload() starts a full set before it stops the old one, also when signals
\* land in the middle of it (reload, _reap_workers, the handlers forks inherit).
CapacityKept ==
    handlers /\ phase = "run" /\ (\A k \in DOMAIN stack : stack[k].op # "shutdown")
        => Cardinality(Up) + crashes >= N

\* As long as no signal interrupts the master's work, every worker that is up is
\* one the master will still stop: in self._workers, in the list reload() is
\* stopping, or being added (start, reload, _reap_workers).
NoOrphans ==
    ~raced => \A p \in Up :
        \/ \E k \in DOMAIN Workers : Workers[k] = p
        \/ \E f \in DOMAIN stack :
             \/ stack[f].p = p
             \/ /\ stack[f].op = "reload"
                /\ \E k \in DOMAIN lists[stack[f].list] : lists[stack[f].list][k] = p

\* When a shutdown that interrupted nothing begins, the master ends, with all its
\* workers, unless another signal interrupts it (shutdown, the exit of the
\* interpreter).
ShutdownEnds ==
    (stack # <<>> /\ Top.op = "shutdown" /\ ~raced) ~> (raced \/ (phase = "gone" /\ Up = {}))

\* A master that keeps running has all its workers up again and again: once
\* signals and crashes stop, every slot is filled (_reap_workers).
Heals == []<>(phase # "run" \/ (Asleep /\ \A k \in 1 .. N : state[Workers[k]] = "up"))

\* "Gracefully stop all workers and close listen sockets" (shutdown): when a
\* master that had set its handlers has closed its sockets no worker is up.
ShutdownStopsAll == handlers /\ sockets = "closed" => Up = {}

=============================================================================
