--------------------------- MODULE WebSocketRelay ---------------------------
(***************************************************************************)
(* The relay of proxy/websocket.py after the upgrade: one task per         *)
(* direction, a task that pings the upstream, the event `done`, and the    *)
(* main task, which waits for `done`, cancels the others and closes.  Each *)
(* direction is named for the side it reads from.  A frame is written at   *)
(* once, and then its task waits in drain(), for ever if the side does not *)
(* read.  A pong is passed on like data, and is not told apart from it.    *)
(***************************************************************************)
EXTENDS Naturals, Sequences

CONSTANTS
    Kinds,       \* the kinds of frames the sides send: some of "data", "ping", "close"
    MaxFrames,   \* bound, per side: the frames it sends
    MaxPings     \* bound: the pings of the relay

ASSUME SocketAssumption == Kinds \subseteq {"data", "ping", "close"}

Sides == {"client", "upstream"}

Other(s) == IF s = "client" THEN "upstream" ELSE "client"

VARIABLES
    main,      \* where relay() and, after it, close() waits
    done,      \* the event
    task,      \* per direction: "read", "send" or "ended"
    holds,     \* per direction: the kind of the frame whose drain() it waits for
    ping,      \* _ping_loop: "sleep", "send" or "ended"
    pings,     \* the pings it has sent
    sent,      \* per side: the kinds of the frames it has sent
    read,      \* per side: how many of them were read
    side,      \* per side: "open", "ended" (it sends no more), "stalled" (it neither
               \* sends nor reads) or "lost" (its connection is)
    got        \* per side: the frames written to it; num is 0 for the relay's own

peers == <<sent, side>>
socketVars == <<main, done, task, holds, ping, pings, read, got, peers>>

SocketInit ==
    /\ main = "relay" /\ done = FALSE
    /\ task = [s \in Sides |-> "read"] /\ holds = [s \in Sides |-> "none"]
    /\ ping = "sleep" /\ pings = 0
    /\ sent = [s \in Sides |-> <<>>] /\ read = [s \in Sides |-> 0]
    /\ side = [s \in Sides |-> "open"]
    /\ got = [s \in Sides |-> <<>>]

\* _send_frame, up to its await; what is written to a lost connection is lost.
Written(s, kind, num) ==
    IF side[s] = "lost" THEN got
    ELSE [got EXCEPT ![s] = Append(@, [kind |-> kind, num |-> num])]

-----------------------------------------------------------------------------
(* The sides (external)                                                     *)

SideSends(s, kind) ==
    /\ main # "closed" /\ side[s] = "open" /\ Len(sent[s]) < MaxFrames[s]
    /\ sent' = [sent EXCEPT ![s] = Append(@, kind)]
    /\ UNCHANGED <<main, done, task, holds, ping, pings, read, got, side>>

SideChanges(s, to) ==
    /\ main # "closed"
    /\ side[s] = "open" \/ to = "lost"
    /\ side' = [side EXCEPT ![s] = to]
    /\ UNCHANGED <<main, done, task, holds, ping, pings, read, got, sent>>

-----------------------------------------------------------------------------
(* The tasks                                                                *)

\* A ping is answered to the other side, as a pong; all else is passed on.
Passed(kind) == IF kind = "ping" THEN "pong" ELSE kind

\* _relay_one_way has a frame.
Forward(s) ==
    LET k == read[s] + 1 IN
    /\ main = "relay" /\ task[s] = "read" /\ k <= Len(sent[s])
    /\ read' = [read EXCEPT ![s] = k]
    /\ got' = Written(Other(s), Passed(sent[s][k]), k)
    /\ task' = [task EXCEPT ![s] = "send"]
    /\ holds' = [holds EXCEPT ![s] = sent[s][k]]
    /\ UNCHANGED <<main, done, ping, pings, peers>>

\* ReadFails, if the end of a side ended its direction only.
ReadFailsQuietly(s) ==
    /\ main = "relay" /\ task[s] = "read"
    /\ task' = [task EXCEPT ![s] = "ended"]
    /\ UNCHANGED <<main, done, holds, ping, pings, read, got, peers>>

\* _read_frame raises: the side has ended or is lost, sends too large a frame,
\* or was silent for the timeout.
ReadFails(s) ==
    /\ main = "relay" /\ task[s] = "read"
    /\ task' = [task EXCEPT ![s] = "ended"]
    /\ done' = TRUE
    /\ UNCHANGED <<main, holds, ping, pings, read, got, peers>>

\* drain() returns, or raises because the connection is lost.
Sent(s) ==
    /\ main = "relay" /\ task[s] = "send"
    /\ done' = (done \/ holds[s] = "close" \/ side[Other(s)] = "lost")
    /\ task' = [task EXCEPT ![s] = IF done' THEN "ended" ELSE "read"]
    /\ holds' = [holds EXCEPT ![s] = "none"]
    /\ UNCHANGED <<main, ping, pings, read, got, peers>>

\* _ping_loop wakes up.
Ping ==
    /\ main = "relay" /\ ping = "sleep"
    /\ \/ done /\ ping' = "ended" /\ UNCHANGED <<got, pings>>
       \/ /\ ~done /\ pings < MaxPings
          /\ ping' = "send" /\ got' = Written("upstream", "ping", 0)
          /\ pings' = pings + 1
    /\ UNCHANGED <<main, done, task, holds, read, peers>>

PingSent ==
    /\ main = "relay" /\ ping = "send"
    /\ done' = (done \/ side["upstream"] = "lost")
    /\ ping' = IF done' THEN "ended" ELSE "sleep"
    /\ UNCHANGED <<main, task, holds, read, got, peers, pings>>

-----------------------------------------------------------------------------
(* The main task                                                            *)

\* Cancel, if close() were left to the side that did not close.
CancelOnly ==
    /\ main = "relay" /\ done
    /\ main' = "client"
    /\ task' = [s \in Sides |-> "ended"] /\ ping' = "ended"
    /\ holds' = [s \in Sides |-> "none"]
    /\ UNCHANGED <<done, read, got, peers, pings>>

\* relay() cancels the tasks; close() writes its frame to the client.
Cancel ==
    /\ main = "relay" /\ done
    /\ main' = "client"
    /\ task' = [s \in Sides |-> "ended"] /\ ping' = "ended"
    /\ holds' = [s \in Sides |-> "none"]
    /\ got' = Written("client", "close", 0)
    /\ UNCHANGED <<done, read, peers, pings>>

\* drain() of the client is over: close() writes its frame to the upstream.
CloseUpstream ==
    /\ main = "client"
    /\ main' = "upstream"
    /\ got' = Written("upstream", "close", 0)
    /\ UNCHANGED <<done, task, holds, ping, pings, read, peers>>

\* drain() of the upstream is over: upstream_writer.close().
Finish ==
    /\ main = "upstream"
    /\ main' = "closed"
    /\ UNCHANGED <<done, task, holds, ping, pings, read, got, peers>>

Reads(s) == side[s] # "stalled"

Ended == {s \in Sides : side[s] \in {"ended", "lost"}}

SocketNext ==
    \/ \E s \in Sides :
         \/ \E kind \in Kinds : SideSends(s, kind)
         \/ \E to \in {"ended", "stalled", "lost"} : SideChanges(s, to)
         \/ Forward(s) \/ ReadFails(s) \/ Sent(s)
    \/ Ping \/ PingSent \/ Cancel \/ CloseUpstream \/ Finish

SocketSpec == SocketInit /\ [][SocketNext]_socketVars

\* The loop runs the tasks, a read of a side that has ended fails, and drain()
\* returns when the side reads.
SocketFairness ==
    /\ \A s \in Sides :
         /\ WF_socketVars(Forward(s))
         /\ WF_socketVars(s \in Ended /\ read[s] = Len(sent[s]) /\ ReadFails(s))
         /\ WF_socketVars(Reads(Other(s)) /\ Sent(s))
    /\ WF_socketVars(Cancel)
    /\ WF_socketVars(Reads("client") /\ CloseUpstream)
    /\ WF_socketVars(Reads("upstream") /\ Finish)

FairSocketSpec == SocketSpec /\ SocketFairness

-----------------------------------------------------------------------------
(* Properties                                                               *)

\* When the relay is closed, each side that is still there has been sent a close
\* frame last, whichever side or failure ended it, and no data after a close
\* frame (relay, close).
BothTold ==
    \A s \in Sides :
        /\ main = "closed" /\ side[s] # "lost" => got[s] # <<>> /\ got[s][Len(got[s])].kind = "close"
        /\ \A k, l \in DOMAIN got[s] :
             k < l /\ got[s][k].kind = "close" => got[s][l].kind \in {"close", "ping"}

\* When a side ends or is lost, the relay is closed, unless a side has stopped
\* reading: close() waits for it without a timeout.
RelayCloses == Ended # {} ~> main = "closed" \/ \E s \in Sides : ~Reads(s)

=============================================================================
