---------------------------- MODULE SessionMap ----------------------------
(***************************************************************************)
(* What SessionStore (src/src/session/store.py) promises its callers: a    *)
(* bounded map from session ids to sessions, of which get_or_create gives  *)
(* the caller the one that is stored under its id, or stores a new one,    *)
(* in one step.  Time and recency are left out: a stored session may be    *)
(* found expired at any call, and any other may be the one evicted.        *)
(* SessionStore implements this on the event loop (AtomicOnEventLoop), and *)
(* Gateway is built on it.                                                 *)
(***************************************************************************)
EXTENDS Integers, FiniteSets

CONSTANTS
    Ids,          \* session ids
    Callers,      \* the requests that ask for a session
    Objects,      \* identities of sessions
    MaxSessions,  \* max_sessions
    None

VARIABLES
    entry,  \* id -> session
    held    \* the session each caller has been given

Stored == {i \in Ids : entry[i] # None}

\* A session nobody has been given yet.
Fresh(o) ==
    /\ \A i \in Ids : entry[i] # o
    /\ \A c \in Callers : held[c] # o

Init ==
    /\ entry = [i \in Ids |-> None]
    /\ held = [c \in Callers |-> None]

Give(c, o) ==
    /\ held[c] = None
    /\ held' = [held EXCEPT ![c] = o]

\* The conversation's session is there and alive.
Rejoin(c, i) ==
    /\ entry[i] # None
    /\ Give(c, entry[i])
    /\ UNCHANGED entry

\* There is none, or an expired one, which is replaced in place.
Open(c, i, o) ==
    /\ Fresh(o)
    /\ i \in Stored \/ Cardinality(Stored) < MaxSessions
    /\ Give(c, o)
    /\ entry' = [entry EXCEPT ![i] = o]

\* There is none, and another conversation's has to go.
OpenEvicting(c, i, o) ==
    /\ Fresh(o)
    /\ i \notin Stored
    /\ Cardinality(Stored) >= MaxSessions
    /\ Give(c, o)
    /\ \E victim \in Stored : entry' = [entry EXCEPT ![victim] = None, ![i] = o]

\* The caller is done with its session.
Release(c) ==
    /\ held' = [held EXCEPT ![c] = None]
    /\ UNCHANGED entry

Next ==
    \E c \in Callers :
        \/ \E i \in Ids :
              \/ Rejoin(c, i)
              \/ \E o \in Objects : Open(c, i, o) \/ OpenEvicting(c, i, o)
        \/ Release(c)

Spec == Init /\ [][Next]_<<entry, held>>
=============================================================================
