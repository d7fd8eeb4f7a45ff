---------------------------- MODULE UpstreamPool ----------------------------
(***************************************************************************)
(* The keep-alive pool of proxy/upstream.py for one server: the key of     *)
(* _pools never joins two.  A borrower is a task that gets a connection,   *)
(* with an await while a new one is opened, and later releases or closes   *)
(* it; prune_idle() and shutdown() may run in between.  The list of a pool *)
(* is a set here: get_connection takes any idle connection, not the first. *)
(* Nothing in src/ uses the pool yet; its calls are taken from its         *)
(* interface.                                                              *)
(***************************************************************************)
EXTENDS Naturals

CONSTANTS
    Borrowers,   \* tasks that use the pool
    Pooled,      \* connections that may be opened, each once
    NoConn       \* no connection

\* Python's None is not a connection.
ASSUME PoolAssumption == NoConn \notin Pooled

VARIABLES
    opening,   \* borrowers waiting for open_connection
    holds,     \* per borrower: the connection it was given, or NoConn
    pool,      \* _pools[key]
    inUse,     \* the connections of the pool with in_use
    stale,     \* those idle for longer than idle_timeout
    live,      \* connections whose writer is not closed
    opened     \* connections opened so far

poolVars == <<opening, holds, pool, inUse, stale, live, opened>>

PoolInit ==
    /\ opening = {} /\ holds = [b \in Borrowers |-> NoConn]
    /\ pool = {} /\ inUse = {} /\ stale = {} /\ live = {} /\ opened = {}

Idle == pool \ inUse

\* get_connection, if it gave out a connection that is in use.
ReuseAny(b, c) ==
    /\ holds[b] = NoConn /\ b \notin opening
    /\ c \in pool \ stale
    /\ holds' = [holds EXCEPT ![b] = c]
    /\ inUse' = inUse \cup {c}
    /\ UNCHANGED <<opening, pool, stale, live, opened>>

\* get_connection: an idle connection that is not stale.
Reuse(b, c) ==
    /\ holds[b] = NoConn /\ b \notin opening
    /\ c \in Idle \ stale
    /\ holds' = [holds EXCEPT ![b] = c]
    /\ inUse' = inUse \cup {c}
    /\ UNCHANGED <<opening, pool, stale, live, opened>>

\* get_connection: there is none, and a new one is opened.
Open(b) ==
    /\ holds[b] = NoConn /\ b \notin opening
    /\ Idle \subseteq stale
    /\ opening' = opening \cup {b}
    /\ UNCHANGED <<holds, pool, inUse, stale, live, opened>>

\* open_connection returns, whatever was done to the pool meanwhile.
Opened(b, c) ==
    /\ b \in opening /\ c \notin opened
    /\ opening' = opening \ {b}
    /\ holds' = [holds EXCEPT ![b] = c]
    /\ pool' = pool \cup {c}
    /\ inUse' = inUse \cup {c}
    /\ live' = live \cup {c}
    /\ opened' = opened \cup {c}
    /\ UNCHANGED stale

\* open_connection raises, or its time is over.
OpenFails(b) ==
    /\ b \in opening
    /\ opening' = opening \ {b}
    /\ UNCHANGED <<holds, pool, inUse, stale, live, opened>>

\* release: a connection the pool does not know is closed.
Release(b) ==
    LET c == holds[b] IN
    /\ c # NoConn
    /\ holds' = [holds EXCEPT ![b] = NoConn]
    /\ IF c \in pool THEN inUse' = inUse \ {c} /\ UNCHANGED live
       ELSE live' = live \ {c} /\ UNCHANGED inUse
    /\ UNCHANGED <<opening, pool, stale, opened>>

\* close_connection: nothing is done to a connection the pool does not know.
CloseConnection(b) ==
    LET c == holds[b] IN
    /\ c # NoConn
    /\ holds' = [holds EXCEPT ![b] = NoConn]
    /\ pool' = pool \ {c}
    /\ inUse' = inUse \ {c}
    /\ live' = IF c \in pool THEN live \ {c} ELSE live
    /\ stale' = stale \ {c}
    /\ UNCHANGED <<opening, opened>>

\* Time passes: an idle connection becomes stale.
Ages(c) ==
    /\ c \in Idle \ stale
    /\ stale' = stale \cup {c}
    /\ UNCHANGED <<opening, holds, pool, inUse, live, opened>>

PruneIdle ==
    LET old == Idle \cap stale IN
    /\ old # {}
    /\ pool' = pool \ old
    /\ live' = live \ old
    /\ stale' = stale \ old
    /\ UNCHANGED <<opening, holds, inUse, opened>>

Shutdown ==
    /\ pool # {}
    /\ live' = live \ pool
    /\ pool' = {} /\ inUse' = {} /\ stale' = {}
    /\ UNCHANGED <<opening, holds, opened>>

PoolNext ==
    \/ \E b \in Borrowers :
         \/ \E c \in Pooled : Reuse(b, c) \/ Opened(b, c)
         \/ Open(b) \/ OpenFails(b) \/ Release(b) \/ CloseConnection(b)
    \/ \E c \in Pooled : Ages(c)
    \/ PruneIdle \/ Shutdown

PoolSpec == PoolInit /\ [][PoolNext]_poolVars

-----------------------------------------------------------------------------
(* Properties                                                               *)

\* A connection is used by one task at a time, the connections marked in use are
\* exactly those its borrowers hold, and the open connections are those of the
\* pool, where the next shutdown() finds them: also one whose opening outlasts a
\* shutdown() (get_connection, release, close_connection, prune_idle, shutdown).
PoolExact ==
    /\ \A a, b \in Borrowers : holds[a] # NoConn /\ holds[a] = holds[b] => a = b
    /\ inUse = {c \in pool : \E b \in Borrowers : holds[b] = c}
    /\ live = pool

=============================================================================
