----------------------------- MODULE StreamProxy -----------------------------
(***************************************************************************)
(* StreamProxy.handle_tcp of proxy/stream_proxy.py: one TCP stream between *)
(* a client and an upstream server, with a pipe for each direction, named  *)
(* for the side it reads from.  Data is numbered, so counts stand for it.  *)
(* A side that ends sends no more but still reads; a side that is lost     *)
(* does neither, and what it had sent and was not read may be lost too.    *)
(***************************************************************************)
EXTENDS Naturals

CONSTANT MaxData   \* bound: the data each side sends

Sides == {"client", "upstream"}

Other(s) == IF s = "client" THEN "upstream" ELSE "client"

VARIABLES
    tcp,    \* where handle_tcp is: "start", "connect", "pipe" or "done"
    pipe,   \* per direction: "none", "read", "drain" or "ended"
    side,   \* per side: "open", "ended" or "lost"
    data,   \* per side: the data it has sent
    got,    \* per side: the data of the other side written to it
    open    \* the connections of the proxy that are open

streamVars == <<tcp, pipe, side, data, got, open>>

StreamInit ==
    /\ tcp = "start"
    /\ pipe = [s \in Sides |-> "none"]
    /\ side = [s \in Sides |-> "open"]
    /\ data = [s \in Sides |-> 0] /\ got = [s \in Sides |-> 0]
    /\ open = {"client"}

\* The two sides (external).
SideSends(s) ==
    /\ s \in open /\ side[s] = "open" /\ data[s] < MaxData
    /\ data' = [data EXCEPT ![s] = @ + 1]
    /\ UNCHANGED <<tcp, pipe, side, got, open>>

SideEnds(s) ==
    /\ s \in open /\ side[s] = "open"
    /\ side' = [side EXCEPT ![s] = "ended"]
    /\ UNCHANGED <<tcp, pipe, data, got, open>>

SideLost(s) ==
    /\ s \in open /\ side[s] # "lost"
    /\ side' = [side EXCEPT ![s] = "lost"]
    /\ UNCHANGED <<tcp, pipe, data, got, open>>

-----------------------------------------------------------------------------

\* A server is selected, or there is none.
SelectServer ==
    /\ tcp = "start"
    /\ \/ tcp' = "connect" /\ UNCHANGED open
       \/ tcp' = "done" /\ open' = {}
    /\ UNCHANGED <<pipe, side, data, got>>

\* open_connection succeeds, fails or takes more than its ten seconds.
Connect ==
    /\ tcp = "connect"
    /\ \/ /\ tcp' = "pipe" /\ open' = Sides
          /\ pipe' = [s \in Sides |-> "read"]
       \/ tcp' = "done" /\ open' = {} /\ UNCHANGED pipe
    /\ UNCHANGED <<side, data, got>>

\* The data of a side that its pipe has not read.
Waiting(s) == data[s] > got[Other(s)]

\* A pipe reads and writes; drain() raises when the other side is lost.
PipeData(s) ==
    /\ pipe[s] = "read" /\ Waiting(s)
    /\ IF side[Other(s)] = "lost"
       THEN pipe' = [pipe EXCEPT ![s] = "ended"] /\ UNCHANGED got
       ELSE /\ got' = [got EXCEPT ![Other(s)] = @ + 1]
            /\ pipe' = [pipe EXCEPT ![s] = "drain"]
    /\ UNCHANGED <<tcp, side, data, open>>

\* drain() returns or raises.
Drained(s) ==
    /\ pipe[s] = "drain"
    /\ pipe' = [pipe EXCEPT ![s] = IF side[Other(s)] = "lost" THEN "ended" ELSE "read"]
    /\ UNCHANGED <<tcp, side, data, got, open>>

\* The read returns nothing, or raises; the other side is not told.
PipeEnds(s) ==
    /\ pipe[s] = "read"
    /\ side[s] = "lost" \/ (side[s] = "ended" /\ ~Waiting(s))
    /\ pipe' = [pipe EXCEPT ![s] = "ended"]
    /\ UNCHANGED <<tcp, side, data, got, open>>

\* Finish, if the end of the first pipe were enough.
FinishFirst ==
    /\ tcp = "pipe" /\ \E s \in Sides : pipe[s] = "ended"
    /\ tcp' = "done" /\ open' = {}
    /\ pipe' = [s \in Sides |-> "ended"]
    /\ UNCHANGED <<side, data, got>>

\* gather() returns when both pipes have.
Finish ==
    /\ tcp = "pipe" /\ \A s \in Sides : pipe[s] = "ended"
    /\ tcp' = "done" /\ open' = {}
    /\ UNCHANGED <<pipe, side, data, got>>

Task == SelectServer \/ Connect \/ Finish

Pipe(s) == PipeData(s) \/ Drained(s) \/ PipeEnds(s)

StreamNext ==
    \/ Task
    \/ \E s \in Sides : Pipe(s) \/ SideSends(s) \/ SideEnds(s) \/ SideLost(s)

StreamSpec == StreamInit /\ [][StreamNext]_streamVars

-----------------------------------------------------------------------------
(* Properties                                                               *)

\* A stream that was connected and of which no side is lost is closed with all
\* data delivered, in both directions, although the sides end one after the
\* other (the gather and the finally of handle_tcp).
NothingCutOff ==
    tcp = "done" /\ pipe["client"] # "none" /\ (\A s \in Sides : side[s] # "lost")
        => \A s \in Sides : side[s] = "ended" /\ got[Other(s)] = data[s]

=============================================================================
