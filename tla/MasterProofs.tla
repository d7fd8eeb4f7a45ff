---------------------------- MODULE MasterProofs ----------------------------
(***************************************************************************)
(* Proofs about the master of the proxy and its WebSocket relay, for every *)
(* number of workers and processes and any frames: NoOrphans holds of      *)
(* ProxyMaster, BothTold of WebSocketRelay.                                *)
(***************************************************************************)
EXTENDS ProxyMaster, WebSocketRelay, TLAPS

\* The provers to try on a leaf that names none, and how long.
USE SMTT(30), ZenonT(30)

(***************************************************************************)
(* The master. Until a signal comes while it is not asleep (raced), at     *)
(* most one frame is on top of the sleeping start(), and that frame tells  *)
(* which running processes are not in the current list of workers: the one *)
(* just started, and in reload() those of the old list.                    *)
(***************************************************************************)

StackFrames == [op : {"main", "reload", "shutdown"},
                pc : {"bind", "spawn", "append", "sleep", "check", "replace", "start",
                      "terminate", "join"},
                i : Nat, list : Nat, p : Procs \cup {None}]

Sleeping == Frame("main", "sleep", 0, 0, None)

\* A process is in a list of workers.
In(q, list) == \E k \in DOMAIN list : list[k] = q

\* The types, and the processes are made in order.
MasterType ==
    /\ lists \in Seq(Seq(Procs)) /\ lists # <<>>
    /\ state \in [Procs -> {"none", "new", "up", "down"}]
    /\ \E m \in 0 .. MaxProcs : \A q \in Procs : state[q] # "none" <=> q <= m

\* The lists hold processes that were made.
MadeAll == \A l \in DOMAIN lists : \A k \in DOMAIN lists[l] : state[lists[l][k]] # "none"

\* start(), before the handlers are set.
Booting(f) ==
    /\ stack = <<f>> /\ ~handlers /\ f.op = "main" /\ f.pc \in {"bind", "spawn", "append"}
    /\ \A q \in Procs : state[q] # "new"
    /\ f.pc = "append" => f.p \in Procs /\ state[f.p] # "none"
    /\ \A q \in Up : In(q, Workers) \/ (f.pc = "append" /\ f.p = q)

\* start(), asleep or in _reap_workers.
Monitoring(f) ==
    /\ stack = <<f>> /\ handlers
    /\ f.pc \in {"check", "replace", "start"} \/ f = Sleeping
    /\ f.pc # "sleep" => f.list = Cur /\ f.i \in DOMAIN Workers
    /\ f.pc = "replace" => state[Workers[f.i]] # "up"
    /\ f.pc = "start" => state[Workers[f.i]] = "new"
    /\ Workers # <<>>
    /\ \A q \in Procs : state[q] = "new" => f.pc = "start" /\ Workers[f.i] = q
    /\ \A q \in Up : In(q, Workers)

\* reload(), on top of the sleeping start(): the workers before f.i are down.
Reloading(f) ==
    /\ stack = <<Sleeping, f>> /\ handlers
    /\ f.op = "reload" /\ f.pc \in {"spawn", "append", "terminate", "join"}
    /\ f.list \in DOMAIN lists /\ f.list # Cur /\ f.i \in DOMAIN lists[f.list]
    /\ f.pc \in {"terminate", "join"} =>
         Workers # <<>> /\ \A k \in 1 .. f.i - 1 : state[lists[f.list][k]] # "up"
    /\ f.pc = "append" => f.p \in Procs /\ state[f.p] # "none"
    /\ \A q \in Procs : state[q] # "new"
    /\ \A q \in Up : \/ In(q, Workers) \/ In(q, lists[f.list])
                     \/ (f.pc = "append" /\ f.p = q)

\* shutdown(), on top of the sleeping start().
Stopping(f) ==
    /\ stack = <<Sleeping, f>>
    /\ f.op = "shutdown" /\ f.pc \in {"terminate", "join"}
    /\ f.list = Cur /\ f.i \in DOMAIN Workers
    /\ \A q \in Procs : state[q] # "new"
    /\ \A q \in Up : In(q, Workers)

AtEnd == stack = <<>> /\ \A q \in Up : In(q, Workers)

\* What the master does as long as no signal interrupts its work.
Orderly ==
    /\ MadeAll
    /\ \/ AtEnd
       \/ \E f \in StackFrames : Booting(f) \/ Monitoring(f) \/ Reloading(f) \/ Stopping(f)

MasterInv == raced \/ (MasterType /\ Orderly)

\* The running frame and the ones below it.
LEMMA TopFrame ==
    /\ \A f : stack = <<f>> => stack # <<>> /\ Top = f /\ Under = <<>>
    /\ \A f, g : stack = <<g, f>> => stack # <<>> /\ Top = f /\ Under = <<g>>
<1>1. ASSUME NEW f, stack = <<f>> PROVE stack # <<>> /\ Top = f /\ Under = <<>>
  <2>1. stack \in Seq({f}) /\ Len(stack) = 1 /\ stack[1] = f
    BY <1>1
  <2>2. Len(Under) = 0 /\ Under \in Seq({f})
    BY <2>1 DEF Under
  <2> QED  BY <2>1, <2>2 DEF Top
<1>2. ASSUME NEW f, NEW g, stack = <<g, f>> PROVE stack # <<>> /\ Top = f /\ Under = <<g>>
  <2>1. stack \in Seq({f, g}) /\ Len(stack) = 2 /\ stack[1] = g /\ stack[2] = f
    BY <1>2
  <2>2. Len(Under) = 1 /\ Under \in Seq({f, g}) /\ Under[1] = g
    BY <2>1 DEF Under
  <2>3. Len(<<g>>) = 1 /\ <<g>> \in Seq({f, g}) /\ <<g>>[1] = g
    OBVIOUS
  <2> QED  BY <2>1, <2>2, <2>3 DEF Top
<1> QED  BY <1>1, <1>2

\* Pushing a frame.
LEMMA Pushes == \A g, h : Append(<<>>, g) = <<g>> /\ Append(<<h>>, g) = <<h, g>>
<1>1. ASSUME NEW g PROVE Append(<<>>, g) = <<g>>
  <2> DEFINE s == Append(<<>>, g)
             u == <<g>>
  <2>1. s \in Seq({g}) /\ Len(s) = 1 /\ s[1] = g
    OBVIOUS
  <2>2. u \in Seq({g}) /\ Len(u) = 1 /\ u[1] = g
    OBVIOUS
  <2> HIDE DEF s, u
  <2>3. s = u
    BY <2>1, <2>2
  <2> QED  BY <2>3 DEF s, u
<1>2. ASSUME NEW g, NEW h PROVE Append(<<h>>, g) = <<h, g>>
  <2> DEFINE s == Append(<<h>>, g)
             u == <<h, g>>
  <2>1. s \in Seq({g, h}) /\ Len(s) = 2 /\ s[1] = h /\ s[2] = g
    OBVIOUS
  <2>2. u \in Seq({g, h}) /\ Len(u) = 2 /\ u[1] = h /\ u[2] = g
    OBVIOUS
  <2> HIDE DEF s, u
  <2>3. s = u
    BY <2>1, <2>2
  <2> QED  BY <2>3 DEF s, u
<1> QED  BY <1>1, <1>2, Zenon

\* What a frame is made of.
LEMMA FrameFields ==
    ASSUME NEW op, NEW pc, NEW i, NEW list, NEW p
    PROVE  /\ Frame(op, pc, i, list, p).op = op /\ Frame(op, pc, i, list, p).pc = pc
           /\ Frame(op, pc, i, list, p).i = i /\ Frame(op, pc, i, list, p).list = list
           /\ Frame(op, pc, i, list, p).p = p
BY DEF Frame

\* What the running frame tells of where the master is: each part of its work has steps of
\* its own, as start(), _reap_workers(), reload() and shutdown() have lines of their own.
LEMMA Running ==
    ASSUME Orderly, stack # <<>>
    PROVE  \E f \in StackFrames :
             /\ Top = f
             /\ \/ Booting(f) /\ f.pc \in {"bind", "spawn", "append"}
                \/ Monitoring(f) /\ f.pc \in {"check", "replace", "start", "sleep"}
                \/ Reloading(f) /\ f.pc \in {"spawn", "append", "terminate", "join"}
                \/ Stopping(f) /\ f.pc \in {"terminate", "join"}
<1>1. PICK f \in StackFrames : Booting(f) \/ Monitoring(f) \/ Reloading(f) \/ Stopping(f)
  BY DEF Orderly, AtEnd
<1>2. Top = f
  BY <1>1, TopFrame DEF Booting, Monitoring, Reloading, Stopping
<1>3. CASE Booting(f)
  BY <1>2, <1>3 DEF Booting
<1>4. CASE Monitoring(f)
  <2>1. Sleeping.pc = "sleep"
    BY FrameFields DEF Sleeping
  <2> QED  BY <1>2, <1>4, <2>1 DEF Monitoring
<1>5. CASE Reloading(f)
  BY <1>2, <1>5 DEF Reloading
<1>6. CASE Stopping(f)
  BY <1>2, <1>6 DEF Stopping
<1> QED  BY <1>1, <1>3, <1>4, <1>5, <1>6

\* The process _spawn_worker and _reap_workers make is a new one.
LEMMA FreshIsNew ==
    ASSUME MasterType, Fresh \in Procs
    PROVE  /\ state[Fresh] = "none"
           /\ \A s \in {"new", "up"} :
                LET st == [state EXCEPT ![Fresh] = s] IN
                /\ st \in [Procs -> {"none", "new", "up", "down"}]
                /\ \E m \in 0 .. MaxProcs : \A q \in Procs : st[q] # "none" <=> q <= m
<1>1. PICK m \in 0 .. MaxProcs : \A q \in Procs : state[q] # "none" <=> q <= m
  BY DEF MasterType
<1>2. \A q \in Procs : state[q] # "none" <=> q < m + 1
  BY <1>1, MasterAssumption DEF Procs
<1>3. ASSUME NEW p \in 1 .. MaxProcs + 1, \A q \in Procs : state[q] # "none" <=> q < p
      PROVE  p = m + 1
  BY <1>2, <1>3, MasterAssumption DEF Procs
<1>4. Fresh = m + 1 /\ m + 1 \in 0 .. MaxProcs
  <2>1. m + 1 \in 1 .. MaxProcs + 1
    BY MasterAssumption
  <2>2. Fresh = m + 1
    BY <1>2, <1>3, <2>1 DEF Fresh
  <2> QED  BY <2>2, MasterAssumption DEF Procs
<1>5. state[Fresh] = "none"
  BY <1>1, <1>4, MasterAssumption DEF MasterType, Procs
<1>6. ASSUME NEW s \in {"new", "up"}
      PROVE  /\ [state EXCEPT ![Fresh] = s] \in [Procs -> {"none", "new", "up", "down"}]
             /\ \A q \in Procs : [state EXCEPT ![Fresh] = s][q] # "none" <=> q <= m + 1
  BY <1>1, <1>4, MasterAssumption DEF MasterType, Procs
<1> QED  BY <1>4, <1>5, <1>6

\* A step that leaves the processes and the lists alone.
LEMMA Still ==
    ASSUME MasterType, UNCHANGED <<lists, state>>
    PROVE  MasterType' /\ Up' = Up /\ Workers' = Workers /\ Cur' = Cur /\ (MadeAll => MadeAll')
BY DEF MasterType, Up, Workers, Cur, MadeAll

\* The lists with a new self._workers in the place of the old one.
LEMMA ListChange ==
    ASSUME MasterType, NEW new \in Seq(Procs), lists' = [lists EXCEPT ![Cur] = new]
    PROVE  /\ lists' \in Seq(Seq(Procs)) /\ lists' # <<>> /\ Cur' = Cur /\ Workers' = new
           /\ Cur \in DOMAIN lists /\ DOMAIN lists' = DOMAIN lists
           /\ \A k \in DOMAIN lists : k # Cur => lists'[k] = lists[k]
<1>1. lists \in Seq(Seq(Procs)) /\ Cur = Len(lists) /\ Cur \in DOMAIN lists
  BY DEF MasterType, Cur
<1>2. lists' \in Seq(Seq(Procs)) /\ Len(lists') = Len(lists) /\ lists' # <<>>
  BY <1>1
<1> QED  BY <1>1, <1>2 DEF Cur, Workers

\* self._workers is a list of processes.
LEMMA WorkersType ==
    ASSUME MasterType
    PROVE  /\ Workers \in Seq(Procs) /\ Cur \in DOMAIN lists /\ Cur \in Nat
           /\ Workers = lists[Cur]
BY DEF MasterType, Workers, Cur

\* start() binds the ports.
LEMMA BindKeeps ==
    ASSUME MasterType, Orderly, Bind
    PROVE  MasterType' /\ Orderly'
<1>0. MasterType' /\ Up' = Up /\ Workers' = Workers /\ MadeAll'
  BY Still DEF Bind, Orderly
<1>1. PICK f \in StackFrames : Booting(f) /\ Top = f /\ f.pc = "bind"
  BY Running DEF Bind
<1>2. CASE stack' = <<>>
  BY <1>0, <1>1, <1>2 DEF Booting, Orderly, AtEnd
<1>3. CASE stack' = <<Frame("main", "spawn", 1, 0, None)>>
  <2>1. PICK g : g = Frame("main", "spawn", 1, 0, None)
    OBVIOUS
  <2>2. g \in StackFrames /\ g.op = "main" /\ g.pc = "spawn"
    BY <2>1 DEF StackFrames, Frame
  <2>3. Booting(g)'
    BY <1>0, <1>1, <1>3, <2>1, <2>2 DEF Booting, Bind
  <2> QED  BY <1>0, <2>2, <2>3 DEF Orderly
<1> QED  BY <1>2, <1>3 DEF Bind, Fatal

\* _spawn_worker forks.
LEMMA SpawnKeeps ==
    ASSUME MasterType, Orderly, SpawnWorker
    PROVE  MasterType' /\ Orderly'
<1>0. /\ Fresh \in Procs /\ state[Fresh] = "none" /\ state' = [state EXCEPT ![Fresh] = "up"]
      /\ UNCHANGED <<lists, handlers>> /\ state \in [Procs -> {"none", "new", "up", "down"}]
      /\ stack' = Append(Under, [Top EXCEPT !.pc = "append", !.p = Fresh])
  BY FreshIsNew DEF SpawnWorker, MasterType
<1>1. MasterType'
  BY <1>0, FreshIsNew DEF MasterType
<1>2. /\ Up' = Up \cup {Fresh} /\ Workers' = Workers /\ Cur' = Cur
      /\ \A q \in Procs : state'[q] = IF q = Fresh THEN "up" ELSE state[q]
  BY <1>0 DEF Up, Workers, Cur
<1>2a. MadeAll'
  BY <1>0 DEF Orderly, MadeAll, MasterType
<1>3. PICK f \in StackFrames : (Booting(f) \/ Reloading(f)) /\ Top = f /\ f.pc = "spawn"
  BY Running DEF SpawnWorker
<1>4. PICK g : g = [f EXCEPT !.pc = "append", !.p = Fresh]
  OBVIOUS
<1>5. /\ g \in StackFrames /\ g.pc = "append" /\ g.p = Fresh /\ g.op = f.op /\ g.i = f.i
      /\ g.list = f.list
  BY <1>0, <1>4, Zenon DEF StackFrames
<1>6. CASE Booting(f)
  <2>1. Under = <<>> /\ stack' = Append(Under, g)
    BY <1>0, <1>3, <1>4, <1>6, TopFrame DEF Booting
  <2>2. stack' = <<g>>
    BY <2>1, Pushes
  <2>3. Booting(g)'
    BY <1>0, <1>2, <1>3, <1>5, <1>6, <2>2, Zenon DEF Booting
  <2> QED  BY <1>1, <1>2a, <1>5, <2>3 DEF Orderly
<1>7. CASE Reloading(f)
  <2>1. Under = <<Sleeping>> /\ stack' = Append(Under, g)
    BY <1>0, <1>3, <1>4, <1>7, TopFrame DEF Reloading
  <2>2. stack' = <<Sleeping, g>>
    BY <2>1, Pushes
  <2>3. Reloading(g)'
    BY <1>0, <1>2, <1>3, <1>5, <1>7, <2>2, Zenon DEF Reloading
  <2> QED  BY <1>1, <1>2a, <1>5, <2>3 DEF Orderly
<1> QED  BY <1>3, <1>6, <1>7

\* The new worker goes into self._workers.
LEMMA AppendKeeps ==
    ASSUME MasterType, Orderly, AppendWorker
    PROVE  MasterType' /\ Orderly'
<1>0. Workers \in Seq(Procs) /\ Workers = lists[Cur] /\ Cur \in DOMAIN lists
  BY WorkersType
<1>1. PICK f \in StackFrames : (Booting(f) \/ Reloading(f)) /\ Top = f /\ f.pc = "append"
  BY Running DEF AppendWorker
<1>2. f.p \in Procs
  BY <1>1 DEF Booting, Reloading
<1> DEFINE new == Append(Workers, f.p)
<1>3. /\ new \in Seq(Procs) /\ new # <<>> /\ Len(new) = Len(Workers) + 1
      /\ new[Len(new)] = f.p /\ \A k \in DOMAIN Workers : k \in DOMAIN new /\ new[k] = Workers[k]
      /\ Len(new) \in DOMAIN new
  BY <1>0, <1>2
<1>4. lists' = [lists EXCEPT ![Cur] = new]
  BY <1>0, <1>1 DEF AppendWorker
<1> HIDE DEF new
<1>5. /\ lists' \in Seq(Seq(Procs)) /\ lists' # <<>> /\ Cur' = Cur /\ Workers' = new
      /\ DOMAIN lists' = DOMAIN lists /\ \A k \in DOMAIN lists : k # Cur => lists'[k] = lists[k]
  BY <1>3, <1>4, ListChange, Zenon
<1>6. state' = state /\ Up' = Up /\ MasterType'
  BY <1>5 DEF AppendWorker, MasterType, Up
<1>6a. MadeAll'
  <2>1. \A k \in DOMAIN new : k \in DOMAIN Workers \/ new[k] = f.p
    BY <1>0, <1>3
  <2>2. \A k \in DOMAIN new : state[new[k]] # "none"
    BY <1>0, <1>1, <1>3, <2>1 DEF Booting, Reloading, Orderly, MadeAll
  <2>3. lists'[Cur] = new
    BY <1>5 DEF Workers
  <2> QED  BY <1>5, <1>6, <2>2, <2>3 DEF Orderly, MadeAll
<1>7. In(f.p, new) /\ \A q : In(q, Workers) => In(q, new)
  BY <1>3 DEF In
<1>8. CASE Booting(f)
  <2>1. f.op = "main" /\ Under = <<>>
    BY <1>8, TopFrame DEF Booting
  <2>2. CASE f.i < N
    <3>1. PICK g : g = Frame(f.op, "spawn", f.i + 1, f.list, None)
      OBVIOUS
    <3>2. g \in StackFrames /\ g.op = "main" /\ g.pc = "spawn"
      BY <2>1, <3>1 DEF StackFrames, Frame
    <3>3. stack' = Append(Under, g) /\ handlers' = handlers
      BY <1>1, <2>1, <2>2, <3>1 DEF AppendWorker
    <3>4. stack' = <<g>>
      BY <2>1, <3>3, Pushes
    <3>5. Booting(g)'
      BY <1>1, <1>5, <1>6, <1>7, <1>8, <3>2, <3>3, <3>4 DEF Booting
    <3> QED  BY <1>6, <1>6a, <3>2, <3>5 DEF Orderly
  <2>3. CASE ~(f.i < N)
    <3>1. stack' = <<Sleeping>> /\ handlers' = TRUE
      BY <1>1, <2>1, <2>3 DEF AppendWorker, Sleeping
    <3>2. Sleeping \in StackFrames /\ Sleeping.pc = "sleep"
      BY DEF StackFrames, Frame, Sleeping
    <3>3. Monitoring(Sleeping)'
      BY <1>1, <1>3, <1>5, <1>6, <1>7, <1>8, <3>1, <3>2 DEF Booting, Monitoring, Sleeping
    <3> QED  BY <1>6, <1>6a, <3>2, <3>3 DEF Orderly
  <2> QED  BY <2>2, <2>3
<1>9. CASE Reloading(f)
  <2> DEFINE next == IF f.i < Len(lists[f.list])
                     THEN Frame(f.op, "spawn", f.i + 1, f.list, None)
                     ELSE Frame("reload", "terminate", 1, f.list, None)
  <2>1. f.op = "reload" /\ Under = <<Sleeping>>
    BY <1>9, TopFrame DEF Reloading
  <2>2. PICK g : g = next
    OBVIOUS
  <2>3. stack' = Append(Under, g) /\ handlers' = handlers
    BY <1>1, <2>1, <2>2 DEF AppendWorker
  <2>4. stack' = <<Sleeping, g>>
    BY <2>1, <2>3, Pushes
  <2>5. /\ f.list \in DOMAIN lists /\ f.list # Cur /\ f.i \in DOMAIN lists[f.list]
        /\ lists[f.list] \in Seq(Procs) /\ lists'[f.list] = lists[f.list]
    BY <1>5, <1>9 DEF Reloading, MasterType
  <2>6. /\ g \in StackFrames /\ g.op = "reload" /\ g.pc \in {"spawn", "terminate"}
        /\ g.i \in DOMAIN lists[f.list] /\ g.list = f.list
        /\ g.pc = "terminate" => g.i = 1
    BY <2>1, <2>2, <2>5 DEF StackFrames, Frame
  <2>7. handlers' /\ \A q \in Procs : state'[q] # "new"
    BY <1>6, <1>9, <2>3 DEF Reloading
  <2>8. \A q \in Up' : In(q, Workers') \/ In(q, lists'[g.list])
    BY <1>5, <1>6, <1>7, <1>9, <2>5, <2>6 DEF Reloading
  <2>9. g.pc = "terminate" => Workers' # <<>> /\ 1 .. g.i - 1 = {}
    BY <1>3, <1>5, <2>6
  <2>10. /\ g.list \in DOMAIN lists' /\ g.list # Cur' /\ g.i \in DOMAIN lists'[g.list]
    BY <1>5, <2>5, <2>6
  <2>11. Reloading(g)'
    BY <2>4, <2>6, <2>7, <2>8, <2>9, <2>10 DEF Reloading
  <2> QED  BY <1>6, <1>6a, <2>6, <2>11 DEF Orderly
<1> QED  BY <1>1, <1>8, <1>9

\* _reap_workers begins.
LEMMA WakeKeeps ==
    ASSUME MasterType, Orderly, WakeUp
    PROVE  MasterType' /\ Orderly'
<1>0. MasterType' /\ Up' = Up /\ Workers' = Workers /\ Cur' = Cur /\ MadeAll'
  BY Still DEF WakeUp, Orderly
<1>1. Top = Sleeping /\ Sleeping.pc = "sleep"
  BY TopFrame, FrameFields DEF WakeUp, Asleep, Sleeping
<1>2. PICK f \in StackFrames : Monitoring(f) /\ f = Sleeping
  BY <1>1, TopFrame DEF Orderly, AtEnd, WakeUp, Asleep, Booting, Monitoring, Reloading, Stopping
<1>3. PICK g : g = Frame("main", "check", 1, Cur, None)
  OBVIOUS
<1>4. g \in StackFrames /\ g.pc = "check" /\ g.list = Cur /\ g.i = 1
  BY <1>3, WorkersType DEF StackFrames, Frame
<1>5. Monitoring(g)'
  BY <1>0, <1>1, <1>2, <1>3, <1>4, WorkersType DEF Monitoring, WakeUp
<1> QED  BY <1>0, <1>4, <1>5 DEF Orderly

\* To the next worker, or back to sleep.
LEMMA AdvanceKeeps ==
    ASSUME MasterType, NEW f \in StackFrames, Monitoring(f), f.pc # "sleep", Top = f, Advance,
           UNCHANGED <<lists, handlers>>, \A q \in Procs : state'[q] # "new",
           \A q \in Up' : In(q, Workers), MadeAll'
    PROVE  Orderly'
<1>0. /\ Workers' = Workers /\ Cur' = Cur /\ Workers \in Seq(Procs) /\ Cur \in Nat
      /\ f.list = Cur /\ f.i \in DOMAIN Workers /\ Workers = lists[Cur] /\ handlers
  BY WorkersType DEF Workers, Cur, Monitoring
<1>1. CASE f.i < Len(lists[f.list])
  <2>1. PICK g : g = Frame("main", "check", f.i + 1, f.list, None)
    OBVIOUS
  <2>2. g \in StackFrames /\ g.pc = "check" /\ g.list = Cur /\ g.i \in DOMAIN Workers
    BY <1>0, <1>1, <2>1 DEF StackFrames, Frame
  <2>3. stack' = <<g>>
    BY <1>1, <2>1 DEF Advance
  <2>4. Monitoring(g)'
    BY <1>0, <2>2, <2>3 DEF Monitoring
  <2> QED  BY <2>2, <2>4 DEF Orderly
<1>2. CASE ~(f.i < Len(lists[f.list]))
  <2>1. stack' = <<Sleeping>>
    BY <1>2 DEF Advance, Sleeping
  <2>2. Sleeping \in StackFrames /\ Sleeping.pc = "sleep"
    BY DEF StackFrames, Frame, Sleeping
  <2>3. Monitoring(Sleeping)'
    BY <1>0, <2>1, <2>2 DEF Monitoring, Sleeping
  <2> QED  BY <2>2, <2>3 DEF Orderly
<1> QED  BY <1>1, <1>2

\* proc.is_alive().
LEMMA CheckKeeps ==
    ASSUME MasterType, Orderly, CheckWorker
    PROVE  MasterType' /\ Orderly'
<1>0. /\ MasterType' /\ Up' = Up /\ Workers' = Workers /\ Cur' = Cur /\ MadeAll'
      /\ UNCHANGED <<lists, state, handlers>>
  BY Still DEF CheckWorker, Orderly
<1>1. PICK f \in StackFrames : Monitoring(f) /\ Top = f /\ f.pc = "check"
  BY Running DEF CheckWorker
<1>2. /\ f.list = Cur /\ f.i \in DOMAIN Workers /\ Workers = lists[Cur]
      /\ \A q \in Procs : state[q] # "new"
  BY <1>1, WorkersType DEF Monitoring
<1>3. CASE state[Workers[f.i]] = "up"
  <2>1. Advance
    BY <1>1, <1>2, <1>3 DEF CheckWorker
  <2>2. \A q \in Up' : In(q, Workers)
    BY <1>0, <1>1 DEF Monitoring
  <2> QED  BY <1>0, <1>1, <1>2, <2>1, <2>2, AdvanceKeeps
<1>4. CASE state[Workers[f.i]] # "up"
  <2>1. PICK g : g = [f EXCEPT !.pc = "replace"]
    BY Zenon
  <2>2. g \in StackFrames /\ g.pc = "replace" /\ g.list = f.list /\ g.i = f.i
    BY <2>1 DEF StackFrames
  <2>3. stack' = <<g>>
    BY <1>1, <1>2, <1>4, <2>1 DEF CheckWorker
  <2>4. Monitoring(g)'
    BY <1>0, <1>1, <1>2, <1>4, <2>2, <2>3 DEF Monitoring
  <2> QED  BY <1>0, <2>2, <2>4 DEF Orderly
<1> QED  BY <1>3, <1>4

\* The process that replaces a dead one is built.
LEMMA ReplaceKeeps ==
    ASSUME MasterType, Orderly, ReplaceWorker
    PROVE  MasterType' /\ Orderly'
<1>0. /\ Fresh \in Procs /\ state[Fresh] = "none" /\ state' = [state EXCEPT ![Fresh] = "new"]
      /\ state \in [Procs -> {"none", "new", "up", "down"}] /\ handlers' = handlers
      /\ Workers \in Seq(Procs) /\ Workers = lists[Cur]
  BY FreshIsNew, WorkersType, Zenon DEF ReplaceWorker, MasterType
<1>1. PICK f \in StackFrames : Monitoring(f) /\ Top = f /\ f.pc = "replace"
  BY Running DEF ReplaceWorker
<1>2. f.list = Cur /\ f.i \in DOMAIN Workers /\ state[Workers[f.i]] # "up" /\ handlers
  BY <1>1 DEF Monitoring
<1> DEFINE new == [Workers EXCEPT ![f.i] = Fresh]
<1>3. /\ new \in Seq(Procs) /\ DOMAIN new = DOMAIN Workers /\ new # <<>>
      /\ \A k \in DOMAIN new : new[k] = IF k = f.i THEN Fresh ELSE Workers[k]
  BY <1>0, <1>2
<1>4. lists' = [lists EXCEPT ![Cur] = new]
  BY <1>0, <1>1 DEF ReplaceWorker
<1> HIDE DEF new
<1>5. lists' \in Seq(Seq(Procs)) /\ lists' # <<>> /\ Cur' = Cur /\ Workers' = new
  BY <1>3, <1>4, ListChange, Zenon
<1>6. MasterType'
  BY <1>0, <1>5, FreshIsNew DEF MasterType
<1>7. Up' = Up /\ \A q \in Procs : state'[q] = IF q = Fresh THEN "new" ELSE state[q]
  BY <1>0 DEF Up
<1>7a. MadeAll'
  BY <1>0, <1>3, <1>4, <1>5, <1>7, ListChange DEF Orderly, MadeAll, MasterType
<1>8. PICK g : g = [f EXCEPT !.pc = "start"]
  BY Zenon
<1>9. g \in StackFrames /\ g.pc = "start" /\ g.list = f.list /\ g.i = f.i
  BY <1>8 DEF StackFrames
<1>10. stack' = <<g>>
  BY <1>1, <1>8 DEF ReplaceWorker
<1>11. \A q \in Up' : In(q, Workers')
  <2>1. \A q \in Up : In(q, Workers) /\ state[q] = "up"
    BY <1>1 DEF Monitoring, Up
  <2> QED  BY <1>2, <1>3, <1>5, <1>7, <2>1 DEF In
<1>12. state'[new[f.i]] = "new" /\ new[f.i] = Fresh
  BY <1>0, <1>2, <1>3, <1>7
<1>13. \A q \in Procs : state'[q] = "new" => q = Fresh
  BY <1>1, <1>7 DEF Monitoring
<1>14. Monitoring(g)'
  BY <1>0, <1>2, <1>3, <1>5, <1>9, <1>10, <1>11, <1>12, <1>13 DEF Monitoring
<1> QED  BY <1>6, <1>7a, <1>9, <1>14 DEF Orderly

\* The process that replaces a dead one is started.
LEMMA StartKeeps ==
    ASSUME MasterType, Orderly, StartWorker
    PROVE  MasterType' /\ Orderly'
<1>0. /\ Workers \in Seq(Procs) /\ Workers = lists[Cur] /\ UNCHANGED <<lists, handlers>>
      /\ state \in [Procs -> {"none", "new", "up", "down"}]
  BY WorkersType DEF StartWorker, MasterType
<1>1. PICK f \in StackFrames : Monitoring(f) /\ Top = f /\ f.pc = "start"
  BY Running DEF StartWorker
<1>2. PICK p \in Procs : p = Workers[f.i] /\ state[p] = "new" /\ f.i \in DOMAIN Workers
  BY <1>0, <1>1 DEF Monitoring
<1>3. state' = [state EXCEPT ![p] = "up"] /\ Advance
  BY <1>1, <1>2 DEF StartWorker
<1>4. \A q \in Procs : state'[q] = IF q = p THEN "up" ELSE state[q]
  BY <1>0, <1>3
<1>5. MasterType'
  BY <1>0, <1>2, <1>3, <1>4 DEF MasterType
<1>6. \A q \in Procs : state'[q] # "new"
  BY <1>1, <1>2, <1>4 DEF Monitoring
<1>7. \A q \in Up' : In(q, Workers)
  BY <1>1, <1>2, <1>4 DEF Monitoring, Up, In
<1>8. MadeAll'
  BY <1>0, <1>2, <1>4 DEF Orderly, MadeAll, MasterType
<1> QED  BY <1>0, <1>1, <1>3, <1>5, <1>6, <1>7, <1>8, AdvanceKeeps

\* The list reload() or shutdown() goes through.
LEMMA StopList ==
    ASSUME MasterType, NEW f, Reloading(f) \/ Stopping(f)
    PROVE  /\ f.list \in DOMAIN lists /\ f.i \in DOMAIN lists[f.list]
           /\ lists[f.list] \in Seq(Procs) /\ \A q \in Procs : state[q] # "new"
<1>1. /\ f.list \in DOMAIN lists /\ f.i \in DOMAIN lists[f.list]
      /\ \A q \in Procs : state[q] # "new"
  <2>1. CASE Reloading(f)  BY <2>1 DEF Reloading
  <2>2. CASE Stopping(f)  BY <2>2, WorkersType DEF Stopping
  <2> QED  BY <2>1, <2>2
<1> QED  BY <1>1 DEF MasterType

\* The next worker to be stopped is told so.
LEMMA TerminateKeeps ==
    ASSUME MasterType, Orderly, Terminate
    PROVE  MasterType' /\ Orderly'
<1>0. /\ MasterType' /\ Up' = Up /\ Workers' = Workers /\ Cur' = Cur /\ MadeAll'
      /\ UNCHANGED <<lists, state, handlers>>
      /\ Workers \in Seq(Procs) /\ Workers = lists[Cur] /\ Cur \in Nat
  BY Still, WorkersType DEF Terminate, Orderly
<1>1. PICK f \in StackFrames : (Reloading(f) \/ Stopping(f)) /\ Top = f /\ f.pc = "terminate"
  BY Running DEF Terminate
<1>2. /\ f.list \in DOMAIN lists /\ f.i \in DOMAIN lists[f.list] /\ lists[f.list] \in Seq(Procs)
      /\ \A q \in Procs : state[q] # "new"
  BY <1>1, StopList
<1>3. lists[f.list] # <<>> /\ lists[f.list][f.i] \in Procs
  BY <1>2
<1>4. Terminated
  BY <1>1, <1>2, <1>3 DEF Terminate
<1>5. CASE Reloading(f)
  <2>1. PICK g : g = [f EXCEPT !.pc = "join"]
    BY Zenon
  <2>2. g \in StackFrames /\ g.pc = "join" /\ g.op = f.op /\ g.list = f.list /\ g.i = f.i
    BY <2>1 DEF StackFrames
  <2>3. Under = <<Sleeping>> /\ stack' = Append(Under, g)
    BY <1>1, <1>4, <1>5, <2>1, TopFrame DEF Reloading, Terminated
  <2>4. stack' = <<Sleeping, g>>
    BY <2>3, Pushes
  <2>5. Reloading(g)'
    BY <1>0, <1>1, <1>5, <2>2, <2>4 DEF Reloading
  <2> QED  BY <1>0, <2>2, <2>5 DEF Orderly
<1>6. CASE Stopping(f)
  <2>1. PICK g : g = IF f.i < Len(Workers) THEN [f EXCEPT !.i = @ + 1]
                     ELSE Frame("shutdown", "join", 1, Cur, None)
    BY Zenon
  <2>2. f.list = Cur /\ f.op = "shutdown" /\ f.i \in DOMAIN Workers /\ Workers # <<>>
    BY <1>0, <1>6 DEF Stopping
  <2>3. /\ g \in StackFrames /\ g.pc \in {"terminate", "join"} /\ g.op = "shutdown"
        /\ g.list = Cur /\ g.i \in DOMAIN Workers
    BY <1>0, <1>1, <2>1, <2>2 DEF StackFrames, Frame
  <2>4. Under = <<Sleeping>> /\ stack' = Append(Under, g)
    BY <1>0, <1>1, <1>4, <1>6, <2>1, <2>2, TopFrame DEF Stopping, Terminated
  <2>5. stack' = <<Sleeping, g>>
    BY <2>4, Pushes
  <2>6. Stopping(g)'
    BY <1>0, <1>6, <2>3, <2>5 DEF Stopping
  <2> QED  BY <1>0, <2>3, <2>6, Zenon DEF Orderly
<1> QED  BY <1>1, <1>5, <1>6

\* A process that was made and is down from now on.
LEMMA DownKeeps ==
    ASSUME MasterType, MadeAll, NEW p \in Procs, state[p] # "none", UNCHANGED lists,
           state' = [state EXCEPT ![p] = "down"]
    PROVE  /\ MasterType' /\ MadeAll' /\ Workers' = Workers /\ Cur' = Cur /\ Up' = Up \ {p}
           /\ \A q \in Procs : state'[q] = IF q = p THEN "down" ELSE state[q]
<1>1. \A q \in Procs : state'[q] = IF q = p THEN "down" ELSE state[q]
  BY DEF MasterType
<1>2. MasterType' /\ MadeAll'
  BY <1>1 DEF MasterType, MadeAll
<1> QED  BY <1>1, <1>2 DEF Workers, Cur, Up

\* The worker told to stop is waited for, or killed.
LEMMA JoinKeeps ==
    ASSUME MasterType, Orderly, Join
    PROVE  MasterType' /\ Orderly'
<1>1. PICK f \in StackFrames : (Reloading(f) \/ Stopping(f)) /\ Top = f /\ f.pc = "join"
  BY Running DEF Join
<1>2. /\ f.list \in DOMAIN lists /\ f.i \in DOMAIN lists[f.list] /\ lists[f.list] \in Seq(Procs)
      /\ \A q \in Procs : state[q] # "new"
  BY <1>1, StopList
<1>3. PICK p \in Procs : p = lists[f.list][f.i]
  BY <1>2
<1>4. /\ state[p] # "none" /\ state' = [state EXCEPT ![p] = "down"]
      /\ UNCHANGED <<lists, handlers>> /\ MadeAll /\ Joined
  BY <1>1, <1>2, <1>3 DEF Orderly, MadeAll, Join
<1>5. /\ MasterType' /\ MadeAll' /\ Workers' = Workers /\ Cur' = Cur /\ Up' = Up \ {p}
      /\ \A q \in Procs : state'[q] = IF q = p THEN "down" ELSE state[q]
  BY <1>4, DownKeeps, Zenon
<1>6. \A q \in Procs : state'[q] # "new"
  BY <1>2, <1>5
<1>7. Under = <<Sleeping>>
  BY <1>1, TopFrame DEF Reloading, Stopping
<1>8. ASSUME f.i < Len(lists[f.list]) PROVE Orderly'
  <2>1. PICK g : g = [f EXCEPT !.i = @ + 1, !.pc = IF f.op = "reload" THEN "terminate" ELSE @]
    OBVIOUS
  <2>2. /\ g \in StackFrames /\ g.op = f.op /\ g.list = f.list /\ g.i = f.i + 1
        /\ g.pc = IF f.op = "reload" THEN "terminate" ELSE "join"
        /\ g.i \in DOMAIN lists[f.list]
    <3>1. f.i + 1 \in DOMAIN lists[f.list]
      BY <1>2, <1>8
    <3>2. PICK s \in {"terminate", "join"} : s = IF f.op = "reload" THEN "terminate" ELSE "join"
      OBVIOUS
    <3>3. PICK j \in Nat : j = f.i + 1
      BY DEF StackFrames
    <3>4. g = [f EXCEPT !.i = j, !.pc = s]
      BY <1>1, <2>1, <3>2, <3>3
    <3>5. g \in StackFrames /\ g.op = f.op /\ g.list = f.list /\ g.i = j /\ g.pc = s
      BY <3>4, Zenon DEF StackFrames
    <3> QED  BY <3>1, <3>2, <3>3, <3>5
  <2>3. stack' = Append(Under, g)
    BY <1>1, <1>4, <1>8, <2>1 DEF Joined
  <2>4. stack' = <<Sleeping, g>>
    BY <1>7, <2>3, Pushes
  <2>5. CASE Reloading(f)
    <3>1. \A k \in 1 .. g.i - 1 : state'[lists[f.list][k]] # "up"
      <4>1. \A k \in 1 .. f.i - 1 : lists[f.list][k] \in Procs /\ state[lists[f.list][k]] # "up"
        BY <1>1, <1>2, <2>5 DEF Reloading
      <4>2. \A k \in 1 .. g.i - 1 : k \in 1 .. f.i - 1 \/ k = f.i
        BY <1>2, <2>2
      <4> QED  BY <1>3, <1>5, <4>1, <4>2
    <3>2. \A q \in Up' : In(q, Workers) \/ In(q, lists[f.list])
      BY <1>1, <1>5, <2>5 DEF Reloading
    <3>3. Workers # <<>> /\ handlers /\ f.list # Cur /\ f.op = "reload"
      BY <1>1, <2>5 DEF Reloading
    <3>4. Reloading(g)'
      BY <1>2, <1>4, <1>5, <1>6, <2>2, <2>4, <3>1, <3>2, <3>3 DEF Reloading
    <3> QED  BY <1>5, <2>2, <3>4 DEF Orderly
  <2>6. CASE Stopping(f)
    <3>1. Stopping(g)'
      BY <1>1, <1>4, <1>5, <1>6, <2>2, <2>4, <2>6, WorkersType DEF Stopping
    <3> QED  BY <1>5, <2>2, <3>1 DEF Orderly
  <2> QED  BY <1>1, <2>5, <2>6
<1>9. ASSUME ~(f.i < Len(lists[f.list])) PROVE Orderly'
  <2>1. CASE Reloading(f)
    <3>1. \A k \in DOMAIN lists[f.list] : k \in 1 .. f.i - 1 \/ k = f.i
      BY <1>2, <1>9
    <3>2. \A k \in DOMAIN lists[f.list] : lists[f.list][k] \notin Up'
      BY <1>1, <1>2, <1>3, <1>5, <2>1, <3>1, Zenon DEF Reloading, Up
    <3>3. \A q \in Up' : In(q, Workers)
      BY <1>1, <1>5, <2>1, <3>2 DEF Reloading, In
    <3>4. stack' = <<Sleeping>> /\ Workers # <<>> /\ handlers
      BY <1>1, <1>4, <1>7, <1>9, <2>1 DEF Joined, Reloading
    <3>5. Sleeping \in StackFrames /\ Sleeping.pc = "sleep"
      BY DEF StackFrames, Frame, Sleeping
    <3>6. Monitoring(Sleeping)'
      BY <1>4, <1>5, <1>6, <3>3, <3>4, <3>5 DEF Monitoring, Sleeping
    <3> QED  BY <1>5, <3>5, <3>6 DEF Orderly
  <2>2. CASE Stopping(f)
    <3>1. stack' = <<>> /\ \A q \in Up' : In(q, Workers)
      BY <1>1, <1>4, <1>5, <1>9, <2>2 DEF Joined, StopServing, Stopping
    <3> QED  BY <1>5, <3>1 DEF Orderly, AtEnd
  <2> QED  BY <1>1, <2>1, <2>2
<1> QED  BY <1>5, <1>8, <1>9

\* A signal that does not interrupt the master's work finds it asleep.
LEMMA SignalKeeps ==
    ASSUME MasterType, Orderly, ~raced',
           SighupReload \/ SigtermShutdown \/ SignalKillsMaster
    PROVE  MasterType' /\ Orderly'
<1>1. Asleep /\ UNCHANGED state
  BY Zenon DEF SighupReload, SigtermShutdown, SignalKillsMaster, Signalled
<1>2. Top = Sleeping /\ Sleeping.pc = "sleep" /\ stack = <<Sleeping>>
  BY <1>1, TopFrame, FrameFields DEF Asleep, Sleeping
<1>3. PICK f \in StackFrames : Monitoring(f) /\ f = Sleeping
  BY <1>2, TopFrame DEF Orderly, AtEnd, Booting, Monitoring, Reloading, Stopping
<1>4. /\ handlers /\ Workers # <<>> /\ \A q \in Procs : state[q] # "new"
      /\ \A q \in Up : In(q, Workers)
  BY <1>2, <1>3 DEF Monitoring
<1>5. /\ Workers \in Seq(Procs) /\ Cur \in DOMAIN lists /\ Workers = lists[Cur] /\ Cur \in Nat
      /\ lists \in Seq(Seq(Procs)) /\ 1 \in DOMAIN Workers
  BY <1>4, WorkersType DEF MasterType
<1>6. CASE SighupReload
  <2>1. /\ lists' = Append(lists, <<>>) /\ handlers' = handlers
        /\ stack' = Append(stack, Frame("reload", "spawn", 1, Cur, None))
    BY <1>4, <1>6 DEF SighupReload
  <2>2. /\ lists' \in Seq(Seq(Procs)) /\ lists' # <<>> /\ Len(lists') = Len(lists) + 1
        /\ lists'[Len(lists')] = <<>>
        /\ \A k \in DOMAIN lists : k \in DOMAIN lists' /\ lists'[k] = lists[k]
        /\ \A k \in DOMAIN lists' : k \in DOMAIN lists \/ lists'[k] = <<>>
    BY <1>5, <2>1
  <2>3. Up' = Up /\ Cur' = Cur + 1 /\ MasterType'
    BY <1>1, <2>2 DEF Up, Cur, MasterType
  <2>4. MadeAll'
    BY <1>1, <2>2 DEF Orderly, MadeAll
  <2>5. PICK g : g = Frame("reload", "spawn", 1, Cur, None)
    OBVIOUS
  <2>6. g \in StackFrames /\ g.op = "reload" /\ g.pc = "spawn" /\ g.i = 1 /\ g.list = Cur
    BY <1>5, <2>5 DEF StackFrames, Frame
  <2>7. stack' = <<Sleeping, g>>
    BY <1>2, <2>1, <2>5, Pushes
  <2>8. /\ g.list \in DOMAIN lists' /\ g.list # Cur' /\ lists'[g.list] = Workers
    BY <1>5, <2>2, <2>3, <2>6
  <2>9. \A q \in Up' : In(q, lists'[g.list])
    BY <1>4, <2>3, <2>8
  <2>10. Reloading(g)'
    BY <1>1, <1>4, <1>5, <2>1, <2>6, <2>7, <2>8, <2>9, Zenon DEF Reloading
  <2> QED  BY <2>3, <2>4, <2>6, <2>10 DEF Orderly
<1>7. CASE SigtermShutdown
  <2>1. /\ UNCHANGED lists
        /\ stack' = Append(stack, Frame("shutdown", "terminate", 1, Cur, None))
    BY <1>4, <1>7 DEF SigtermShutdown
  <2>2. MasterType' /\ Up' = Up /\ Workers' = Workers /\ Cur' = Cur /\ MadeAll'
    BY <1>1, <2>1, Still DEF Orderly
  <2>3. PICK g : g = Frame("shutdown", "terminate", 1, Cur, None)
    OBVIOUS
  <2>4. g \in StackFrames /\ g.op = "shutdown" /\ g.pc = "terminate" /\ g.i = 1 /\ g.list = Cur
    BY <1>5, <2>3 DEF StackFrames, Frame
  <2>5. stack' = <<Sleeping, g>>
    BY <1>2, <2>1, <2>3, Pushes
  <2>6. Stopping(g)'
    BY <1>1, <1>4, <1>5, <2>2, <2>4, <2>5 DEF Stopping
  <2> QED  BY <2>2, <2>4, <2>6 DEF Orderly
<1>8. CASE SignalKillsMaster
  BY <1>4, <1>8 DEF SignalKillsMaster
<1> QED  BY <1>6, <1>7, <1>8

\* A worker that ends.
LEMMA WorkerEnds ==
    ASSUME MasterType, Orderly, NEW p \in Procs, state[p] = "up",
           state' = [state EXCEPT ![p] = "down"], UNCHANGED <<lists, stack, handlers>>
    PROVE  MasterType' /\ Orderly'
<1>1. /\ MasterType' /\ MadeAll' /\ Workers' = Workers /\ Cur' = Cur /\ Up' = Up \ {p}
      /\ \A q \in Procs : state'[q] = IF q = p THEN "down" ELSE state[q]
  BY DownKeeps, ZenonT(30) DEF Orderly
<1>2. /\ \A q \in Procs : /\ state'[q] = "new" <=> state[q] = "new"
                          /\ state'[q] = "up" => state[q] = "up"
                          /\ state'[q] = "none" <=> state[q] = "none"
      /\ Workers \in Seq(Procs) /\ Up' \subseteq Up
  BY <1>1, WorkersType
<1>3. CASE AtEnd
  BY <1>1, <1>3 DEF Orderly, AtEnd
<1>4. ASSUME NEW f \in StackFrames, Booting(f) PROVE Booting(f)'
  BY <1>1, <1>2, <1>4 DEF Booting
<1>5. ASSUME NEW f \in StackFrames, Monitoring(f) PROVE Monitoring(f)'
  <2>1. f.pc # "sleep" => Workers[f.i] \in Procs
    BY <1>2, <1>5 DEF Monitoring
  <2> QED  BY <1>1, <1>2, <1>5, <2>1, FrameFields DEF Monitoring, Sleeping
<1>6. ASSUME NEW f \in StackFrames, Reloading(f) PROVE Reloading(f)'
  <2>1. \A k \in 1 .. f.i - 1 : lists[f.list][k] \in Procs
    BY <1>6, StopList
  <2> QED  BY <1>1, <1>2, <1>6, <2>1, ZenonT(30) DEF Reloading
<1>7. ASSUME NEW f \in StackFrames, Stopping(f) PROVE Stopping(f)'
  BY <1>1, <1>2, <1>7 DEF Stopping
<1> QED  BY <1>1, <1>3, <1>4, <1>5, <1>6, <1>7 DEF Orderly

\* A step that leaves processes, lists and frames alone.
LEMMA StillOrderly ==
    ASSUME MasterType, Orderly, UNCHANGED <<lists, state, stack, handlers>>
    PROVE  MasterType' /\ Orderly'
<1>1. MasterType' /\ Up' = Up /\ Workers' = Workers /\ Cur' = Cur /\ MadeAll'
  BY Still DEF Orderly
<1> QED  BY <1>1, ZenonT(30) DEF Orderly, AtEnd, Booting, Monitoring, Reloading, Stopping, Sleeping, Frame

\* Every step keeps MasterInv.
LEMMA MasterStep == MasterInv /\ [Next]_vars => MasterInv'
<1> SUFFICES ASSUME MasterInv, [Next]_vars, ~raced' PROVE MasterType' /\ Orderly'
  BY DEF MasterInv
<1>0. ~raced
  BY Zenon DEF vars, Next, Master, Bind, SpawnWorker, AppendWorker, WakeUp, CheckWorker, ReplaceWorker,
         StartWorker, Terminate, Join, AtExit, SighupReload, SigtermShutdown, SignalKillsMaster,
         Signalled, Crash, HandleTerm
<1>1. MasterType /\ Orderly
  BY <1>0 DEF MasterInv
<1>2. CASE AtExit \/ UNCHANGED vars
  BY <1>1, <1>2, StillOrderly DEF AtExit, vars
<1>3. ASSUME NEW p \in Procs, Crash(p) PROVE MasterType' /\ Orderly'
  BY <1>1, <1>3, WorkerEnds, Zenon DEF Crash
<1>4. ASSUME NEW p \in Procs, HandleTerm(p) PROVE MasterType' /\ Orderly'
  <2>1. CASE state' = [state EXCEPT ![p] = "down"]
    BY <1>1, <1>4, <2>1, WorkerEnds, ZenonT(30) DEF HandleTerm
  <2>2. CASE UNCHANGED state
    BY <1>1, <1>4, <2>2, StillOrderly DEF HandleTerm
  <2> QED  BY <1>4, <2>1, <2>2 DEF HandleTerm
<1> QED  BY <1>1, <1>2, <1>3, <1>4, BindKeeps, SpawnKeeps, AppendKeeps, WakeKeeps, CheckKeeps,
            ReplaceKeeps, StartKeeps, TerminateKeeps, JoinKeeps, SignalKeeps DEF Next, Master

\* MasterInv holds at the start.
LEMMA MasterInit == Init => MasterInv
<1> SUFFICES ASSUME Init PROVE MasterType /\ Orderly
  BY DEF MasterInv
<1>1. PICK f : f = Frame("main", "bind", 0, 0, None)
  OBVIOUS
<1>2. f \in StackFrames /\ f.op = "main" /\ f.pc = "bind" /\ stack = <<f>>
  BY <1>1 DEF Init, StackFrames, Frame
<1>3. lists \in Seq(Seq(Procs)) /\ Len(lists) = 1 /\ lists[1] = <<>>
  BY DEF Init
<1>4. MasterType /\ MadeAll
  <2>1. 0 \in 0 .. MaxProcs /\ \A q \in Procs : ~(q <= 0)
    BY MasterAssumption DEF Procs
  <2> QED  BY <1>3, <2>1 DEF Init, MasterType, MadeAll
<1>5. Up = {} /\ \A q \in Procs : state[q] = "none"
  BY DEF Init, Up
<1>6. Booting(f)
  BY <1>2, <1>5 DEF Booting, Init
<1> QED  BY <1>2, <1>4, <1>6 DEF Orderly

\* As long as no signal interrupts the master's work, every worker that is up
\* is one the master will still stop.
THEOREM OrphansNever == Spec => []NoOrphans
<1>1. MasterInv => NoOrphans
  <2> SUFFICES ASSUME MasterInv, ~raced, NEW q \in Up
               PROVE  \/ In(q, Workers)
                      \/ \E h \in DOMAIN stack :
                           \/ stack[h].p = q
                           \/ /\ stack[h].op = "reload"
                              /\ In(q, lists[stack[h].list])
    BY DEF NoOrphans, In
  <2>1. CASE AtEnd
    BY <2>1 DEF AtEnd
  <2>2. ASSUME NEW f \in StackFrames, Booting(f)
        PROVE  In(q, Workers) \/ (f.p = q /\ stack[1] = f /\ 1 \in DOMAIN stack)
    BY <2>2 DEF Booting
  <2>3. ASSUME NEW f \in StackFrames, Monitoring(f) \/ Stopping(f) PROVE In(q, Workers)
    BY <2>3 DEF Monitoring, Stopping
  <2>4. ASSUME NEW f \in StackFrames, Reloading(f)
        PROVE  \/ In(q, Workers)
               \/ /\ stack[2] = f /\ 2 \in DOMAIN stack
                  /\ f.p = q \/ (f.op = "reload" /\ In(q, lists[f.list]))
    BY <2>4 DEF Reloading
  <2> QED  BY <2>1, <2>2, <2>3, <2>4 DEF MasterInv, Orderly
<1> QED  BY <1>1, MasterInit, MasterStep, PTL DEF Spec

-----------------------------------------------------------------------------
(***************************************************************************)
(* The WebSocket relay.                                                    *)
(***************************************************************************)

Frames == [kind : {"data", "ping", "pong", "close"}, num : Nat]

SocketTyped ==
    /\ main \in {"relay", "client", "upstream", "closed"}
    /\ task \in [Sides -> {"read", "send", "ended"}]
    /\ holds \in [Sides -> Kinds \cup {"none"}]
    /\ side \in [Sides -> {"open", "ended", "stalled", "lost"}]
    /\ sent \in [Sides -> Seq(Kinds)]
    /\ read \in [Sides -> Nat]
    /\ got \in [Sides -> Seq(Frames)]

\* No data after a close frame.
NoDataAfter(frames) ==
    \A k, l \in DOMAIN frames :
        k < l /\ frames[k].kind = "close" => frames[l].kind \in {"close", "ping"}

HasClose(frames) == \E k \in DOMAIN frames : frames[k].kind = "close"

EndsInClose(frames) == frames # <<>> /\ frames[Len(frames)].kind = "close"

\* The direction that passed a close frame on has ended or waits for its drain();
\* close() has told the client, and then the upstream server.
ToldInv ==
    /\ SocketTyped
    /\ \A s \in Sides : NoDataAfter(got[s])
    /\ \A s \in Sides :
         main = "relay" /\ HasClose(got[s]) =>
             \/ task[Other(s)] = "ended"
             \/ task[Other(s)] = "send" /\ holds[Other(s)] = "close"
    /\ main # "relay" /\ side["client"] # "lost" => EndsInClose(got["client"])
    /\ main \in {"upstream", "closed"} /\ side["upstream"] # "lost" => EndsInClose(got["upstream"])

\* Nothing has been written.
LEMMA InitTold == SocketInit => ToldInv
BY DEF SocketInit, ToldInv, SocketTyped, NoDataAfter, HasClose, Sides, Other

\* A frame may follow if it is no data, or if no close frame is there.
LEMMA FrameAppended ==
    ASSUME NEW q \in Seq(Frames), NEW f \in Frames, NoDataAfter(q),
           f.kind \in {"close", "ping"} \/ ~HasClose(q)
    PROVE  /\ Append(q, f) \in Seq(Frames)
           /\ NoDataAfter(Append(q, f))
           /\ HasClose(Append(q, f)) => HasClose(q) \/ f.kind = "close"
           /\ f.kind = "close" => EndsInClose(Append(q, f))
<1>1. /\ Append(q, f) \in Seq(Frames) /\ Len(Append(q, f)) = Len(q) + 1 /\ Len(q) \in Nat
      /\ DOMAIN q = 1 .. Len(q) /\ DOMAIN Append(q, f) = 1 .. Len(q) + 1
      /\ Append(q, f)[Len(q) + 1] = f
      /\ \A k \in 1 .. Len(q) : Append(q, f)[k] = q[k]
  OBVIOUS
<1>2. \A k \in 1 .. Len(q) + 1 : k \in 1 .. Len(q) \/ k = Len(q) + 1
  BY <1>1
<1>3. \A k, l \in 1 .. Len(q) + 1 : k < l => k \in 1 .. Len(q)
  BY <1>1
<1>4. NoDataAfter(Append(q, f))
  BY <1>1, <1>2, <1>3 DEF NoDataAfter, HasClose
<1>5. HasClose(Append(q, f)) => HasClose(q) \/ f.kind = "close"
  BY <1>1, <1>2 DEF HasClose
<1>6. f.kind = "close" => EndsInClose(Append(q, f))
  BY <1>1 DEF EndsInClose
<1> QED  BY <1>1, <1>4, <1>5, <1>6

\* The two sides are each other's other side.
LEMMA OtherPeer ==
    /\ \A s \in Sides : Other(s) \in Sides /\ Other(s) # s /\ Other(Other(s)) = s
    /\ \A s, r \in Sides : s = r \/ s = Other(r)
BY DEF Sides, Other

\* What a side does of itself changes no frame; a lost side stays lost.
LEMMA PeerTold ==
    ASSUME ToldInv, NEW s \in Sides,
           \/ \E kind \in Kinds : SideSends(s, kind)
           \/ \E to \in {"ended", "stalled", "lost"} : SideChanges(s, to)
    PROVE  ToldInv'
<1>1. /\ main' = main /\ task' = task /\ holds' = holds /\ read' = read /\ got' = got
      /\ sent' \in [Sides -> Seq(Kinds)]
      /\ side' \in [Sides -> {"open", "ended", "stalled", "lost"}]
      /\ \A r \in Sides : side[r] = "lost" => side'[r] = "lost"
  <2>1. CASE \E kind \in Kinds : SideSends(s, kind)
    BY <2>1 DEF SideSends, ToldInv, SocketTyped
  <2>2. CASE \E to \in {"ended", "stalled", "lost"} : SideChanges(s, to)
    BY <2>2 DEF SideChanges, ToldInv, SocketTyped
  <2> QED  BY <2>1, <2>2
<1> QED  BY <1>1 DEF ToldInv, SocketTyped, Sides

\* A direction that has passed a close frame on passes nothing more on.
LEMMA ForwardTold ==
    ASSUME ToldInv, NEW s \in Sides, Forward(s)
    PROVE  ToldInv'
<1> DEFINE n == read[s] + 1
           o == Other(s)
           f == [kind |-> Passed(sent[s][n]), num |-> n]
<1>1. /\ main = "relay" /\ main' = main /\ side' = side /\ sent' = sent
      /\ task[s] = "read" /\ task' = [task EXCEPT ![s] = "send"]
      /\ holds' = [holds EXCEPT ![s] = sent[s][n]] /\ read' = [read EXCEPT ![s] = n]
      /\ got' = IF side[o] = "lost" THEN got ELSE [got EXCEPT ![o] = Append(@, f)]
      /\ n <= Len(sent[s])
  BY DEF Forward, Written, peers
<1>2. n \in Nat /\ sent[s][n] \in Kinds
  <2>1. read[s] \in Nat /\ sent[s] \in Seq(Kinds)
    BY DEF ToldInv, SocketTyped
  <2>2. n <= Len(sent[s])
    BY <1>1, Zenon
  <2> QED  BY <2>1, <2>2
<1>3. f \in Frames /\ (f.kind = "close" => sent[s][n] = "close")
  BY <1>2, SocketAssumption, ZenonT(30) DEF Frames, Passed
<1>4. o \in Sides /\ o # s /\ Other(o) = s
  BY OtherPeer
<1>5. ~HasClose(got[o])
  BY <1>1, <1>4 DEF ToldInv
<1>6. /\ Append(got[o], f) \in Seq(Frames) /\ NoDataAfter(Append(got[o], f))
      /\ HasClose(Append(got[o], f)) => f.kind = "close"
  BY <1>3, <1>4, <1>5, FrameAppended DEF ToldInv, SocketTyped
<1>7. /\ got' \in [Sides -> Seq(Frames)] /\ \A r \in Sides : NoDataAfter(got'[r])
      /\ got'[s] = got[s] /\ (HasClose(got'[o]) => sent[s][n] = "close")
  BY <1>1, <1>3, <1>4, <1>5, <1>6 DEF ToldInv, SocketTyped
<1>8. SocketTyped'
  BY <1>1, <1>2, <1>7 DEF ToldInv, SocketTyped
<1>9. /\ task' = [task EXCEPT ![s] = "send"] /\ task'[s] = "send" /\ task'[o] = task[o]
      /\ holds'[s] = sent[s][n] /\ holds'[o] = holds[o]
  BY <1>1, <1>4 DEF ToldInv, SocketTyped
<1>10. \A r \in Sides : HasClose(got'[r]) =>
             \/ task'[Other(r)] = "ended"
             \/ task'[Other(r)] = "send" /\ holds'[Other(r)] = "close"
  <2>1. \A r \in Sides : r = o \/ r = s
    BY OtherPeer
  <2>2. HasClose(got[s]) => task[o] = "ended" \/ (task[o] = "send" /\ holds[o] = "close")
    BY <1>1, Zenon DEF ToldInv
  <2> QED  BY <1>4, <1>7, <1>9, <2>1, <2>2, Zenon
<1> QED  BY <1>1, <1>7, <1>8, <1>10 DEF ToldInv

\* The drain() of a close frame ends its direction.
LEMMA TaskTold ==
    ASSUME ToldInv, NEW s \in Sides, ReadFails(s) \/ Sent(s)
    PROVE  ToldInv'
<1>1. CASE ReadFails(s)
  BY <1>1, OtherPeer DEF ReadFails, peers, ToldInv, SocketTyped
<1>2. CASE Sent(s)
  BY <1>2, OtherPeer, Zenon DEF Sent, peers, ToldInv, SocketTyped
<1> QED  BY <1>1, <1>2

\* What the relay writes itself is a ping or a close frame.
LEMMA WrittenTold ==
    ASSUME ToldInv, NEW s \in Sides, NEW kind \in {"ping", "close"}
    PROVE  /\ Written(s, kind, 0) \in [Sides -> Seq(Frames)]
           /\ Written(s, kind, 0)[Other(s)] = got[Other(s)]
           /\ \A r \in Sides : NoDataAfter(Written(s, kind, 0)[r])
           /\ kind = "ping" /\ HasClose(Written(s, kind, 0)[s]) => HasClose(got[s])
           /\ kind = "close" /\ side[s] # "lost" => EndsInClose(Written(s, kind, 0)[s])
<1> DEFINE f == [kind |-> kind, num |-> 0]
<1>1. f \in Frames /\ f.kind = kind /\ got[s] \in Seq(Frames) /\ NoDataAfter(got[s])
  BY DEF Frames, ToldInv, SocketTyped
<1>2. /\ Append(got[s], f) \in Seq(Frames) /\ NoDataAfter(Append(got[s], f))
      /\ HasClose(Append(got[s], f)) => HasClose(got[s]) \/ kind = "close"
      /\ kind = "close" => EndsInClose(Append(got[s], f))
  <2> HIDE DEF f
  <2> QED  BY <1>1, FrameAppended
<1>3. Written(s, kind, 0) = IF side[s] = "lost" THEN got ELSE [got EXCEPT ![s] = Append(got[s], f)]
  BY DEF Written, ToldInv, SocketTyped
<1> HIDE DEF f
<1>4. got \in [Sides -> Seq(Frames)] /\ \A r \in Sides : NoDataAfter(got[r])
  BY DEF ToldInv, SocketTyped
<1>5. CASE side[s] = "lost"
  BY <1>3, <1>4, <1>5
<1>6. CASE side[s] # "lost"
  <2>1. Written(s, kind, 0) = [got EXCEPT ![s] = Append(got[s], f)]
    BY <1>3, <1>6
  <2> QED  BY <1>2, <1>4, <2>1, OtherPeer, Zenon
<1> QED  BY <1>5, <1>6, Zenon

\* The ping loop and the main task.
LEMMA MainTold ==
    ASSUME ToldInv, Ping \/ PingSent \/ Cancel \/ CloseUpstream \/ Finish
    PROVE  ToldInv'
<1>0. "client" \in Sides /\ "upstream" \in Sides /\ Other("client") = "upstream"
      /\ Other("upstream") = "client" /\ \A s \in Sides : s = "client" \/ s = "upstream"
  BY DEF Sides, Other
<1>1. CASE Ping
  <2>1. /\ main = "relay" /\ main' = main /\ task' = task /\ holds' = holds /\ read' = read
        /\ side' = side /\ sent' = sent
        /\ got' = got \/ got' = Written("upstream", "ping", 0)
    BY <1>1 DEF Ping, peers
  <2>2. CASE got' = got
    BY <2>1, <2>2 DEF ToldInv, SocketTyped
  <2>3. CASE got' = Written("upstream", "ping", 0)
    <3>1. /\ got' \in [Sides -> Seq(Frames)] /\ got'["client"] = got["client"]
          /\ \A r \in Sides : NoDataAfter(got'[r])
          /\ HasClose(got'["upstream"]) => HasClose(got["upstream"])
      BY <1>0, <2>3, WrittenTold
    <3> QED  BY <1>0, <2>1, <3>1, Zenon DEF ToldInv, SocketTyped
  <2> QED  BY <2>1, <2>2, <2>3
<1>2. CASE PingSent \/ Finish
  BY <1>2 DEF PingSent, Finish, peers, ToldInv, SocketTyped
<1>3. CASE Cancel
  <2>1. /\ main' = "client" /\ task' = [s \in Sides |-> "ended"] /\ read' = read
        /\ holds' = [s \in Sides |-> "none"] /\ side' = side /\ sent' = sent
        /\ got' = Written("client", "close", 0)
    BY <1>3 DEF Cancel, peers
  <2>2. /\ got' \in [Sides -> Seq(Frames)] /\ \A r \in Sides : NoDataAfter(got'[r])
        /\ side["client"] # "lost" => EndsInClose(got'["client"])
    BY <1>0, <2>1, WrittenTold
  <2> QED  BY <2>1, <2>2 DEF ToldInv, SocketTyped
<1>4. CASE CloseUpstream
  <2>1. /\ main = "client" /\ main' = "upstream" /\ task' = task /\ read' = read
        /\ holds' = holds /\ side' = side /\ sent' = sent
        /\ got' = Written("upstream", "close", 0)
    BY <1>4 DEF CloseUpstream, peers
  <2>2. /\ got' \in [Sides -> Seq(Frames)] /\ \A r \in Sides : NoDataAfter(got'[r])
        /\ side["upstream"] # "lost" => EndsInClose(got'["upstream"])
        /\ got'["client"] = got["client"]
    BY <1>0, <2>1, WrittenTold
  <2> QED  BY <2>1, <2>2 DEF ToldInv, SocketTyped
<1> QED  BY <1>1, <1>2, <1>3, <1>4

\* BothTold, for any number of frames and of pings: once the relay is closed
\* each side that is still there was sent a close frame last, and none was sent
\* data after one (relay, _relay_one_way, _ping_loop and close).
THEOREM AlwaysBothTold == SocketSpec => []BothTold
<1>1. ToldInv /\ [SocketNext]_socketVars => ToldInv'
  <2>1. ToldInv /\ UNCHANGED socketVars => ToldInv'
    BY DEF socketVars, peers, ToldInv, SocketTyped
  <2> QED  BY <2>1, PeerTold, ForwardTold, TaskTold, MainTold DEF SocketNext
<1>2. ToldInv => BothTold
  BY DEF ToldInv, BothTold, NoDataAfter, EndsInClose, Sides
<1> QED  BY InitTold, <1>1, <1>2, PTL DEF SocketSpec

=============================================================================
