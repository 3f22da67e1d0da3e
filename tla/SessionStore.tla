--------------------------- MODULE SessionStore ---------------------------
(***************************************************************************)
(* SessionStore.get_or_create (src/src/session/store.py) with the one      *)
(* Session method it calls, touch_if_alive.  The call reads the clock,     *)
(* looks the id up under the store lock, touches the session it found      *)
(* under that session's lock, and settles (recheck, evict, create) under   *)
(* the store lock again.  Each is a step; between two steps of one call    *)
(* other threads run, or do not: on the event loop the whole call is one   *)
(* uninterrupted piece of synchronous code (routes.py), in worker threads  *)
(* it is not (session.py's module docstring asks for both).                *)
(*                                                                         *)
(* The OrderedDict is its contents `entry' and its order `older'.  A       *)
(* Session object is an identity with its session_id and its               *)
(* _last_accessed_at; an identity nobody refers to may be used again.      *)
(***************************************************************************)
EXTENDS Integers, FiniteSets

CONSTANTS
    Ids,          \* session ids
    Threads,      \* concurrent requests
    Objects,      \* identities of Session objects
    MaxSessions,  \* max_sessions
    Ttl,          \* session_ttl
    MaxTime,      \* bound of the clock
    Modes,        \* how calls are scheduled: "threads", "event_loop"
    None

ASSUME StoreAssumptions ==
    /\ None \notin Ids \cup Objects
    /\ IsFiniteSet(Ids)
    /\ MaxSessions \in Nat \ {0}
    /\ Ttl \in Nat /\ MaxTime \in Nat
    /\ Modes \subseteq {"threads", "event_loop"}

Time == 0..MaxTime
Maybe(S) == S \cup {None}

VARIABLES
    mode,          \* the scheduling of this behaviour
    clock,         \* what clock.now() returns
    entry,         \* _sessions: id -> Session object
    older,         \* the OrderedDict's order: <<a, b>> when a comes before b
    owner,         \* session_id of each object
    lastAccessed,  \* _last_accessed_at of each object
    pc,            \* where each thread is in get_or_create
    req,           \* the id it asked for
    now,           \* the clock reading of its call
    found,         \* local `session': what the first lookup returned
    result,        \* the session it was given and is using
    retired        \* history: objects judged expired or evicted for capacity

vars == <<mode, clock, entry, older, owner, lastAccessed, pc, req, now, found, result,
          retired>>
store == <<entry, older>>

Stored == {id \in Ids : entry[id] # None}
MidCall == {"lookup", "touch", "settle"}

TypeOK ==
    /\ mode \in Modes
    /\ clock \in Time
    /\ entry \in [Ids -> Maybe(Objects)]
    /\ older \in SUBSET (Ids \X Ids)
    /\ owner \in [Objects -> Maybe(Ids)]
    /\ lastAccessed \in [Objects -> Time]
    /\ pc \in [Threads -> {"idle", "using"} \cup MidCall]
    /\ req \in [Threads -> Maybe(Ids)]
    /\ now \in [Threads -> Time]
    /\ found \in [Threads -> Maybe(Objects)]
    /\ result \in [Threads -> Maybe(Objects)]
    /\ retired \in SUBSET Objects

Init ==
    /\ mode \in Modes
    /\ clock = 0
    /\ entry = [id \in Ids |-> None]
    /\ older = {}
    /\ owner = [o \in Objects |-> None]
    /\ lastAccessed = [o \in Objects |-> 0]
    /\ pc = [t \in Threads |-> "idle"]
    /\ req = [t \in Threads |-> None]
    /\ now = [t \in Threads |-> 0]
    /\ found = [t \in Threads |-> None]
    /\ result = [t \in Threads |-> None]
    /\ retired = {}
-----------------------------------------------------------------------------
(* The ordered dictionary *)

Without(id) == {p \in older : id \notin {p[1], p[2]}}

\* move_to_end, and the place of a key just inserted.
MovedToEnd(id) == Without(id) \cup {<<a, id>> : a \in Stored \ {id}}

\* popitem(last=False) takes the key before every other.
IsFirst(id) == id \in Stored /\ \A b \in Stored \ {id} : <<id, b>> \in older

\* Objects no thread and no entry refers to.
Unreferenced ==
    {o \in Objects :
        /\ \A id \in Ids : entry[id] # o
        /\ \A t \in Threads : found[t] # o /\ result[t] # o}
-----------------------------------------------------------------------------
(* One call *)

\* now = self._clock.now(), before any lock.
Begin(t, id) ==
    /\ pc[t] = "idle"
    /\ mode = "event_loop" => \A u \in Threads : pc[u] \notin MidCall
    /\ pc' = [pc EXCEPT ![t] = "lookup"]
    /\ req' = [req EXCEPT ![t] = id]
    /\ now' = [now EXCEPT ![t] = clock]
    /\ UNCHANGED <<mode, clock, store, owner, lastAccessed, found, result, retired>>

\* Mutant: a hit is not moved to the end, so that eviction goes by age of insertion.
LookupInPlace(t) ==
    LET session == entry[req[t]] IN
    /\ pc[t] = "lookup"
    /\ found' = [found EXCEPT ![t] = session]
    /\ pc' = [pc EXCEPT ![t] = IF session # None THEN "touch" ELSE "settle"]
    /\ UNCHANGED <<mode, clock, store, owner, lastAccessed, req, now, result, retired>>

\* The first locked section.
Lookup(t) ==
    LET id == req[t]
        session == entry[id]
    IN
    /\ pc[t] = "lookup"
    /\ found' = [found EXCEPT ![t] = session]
    /\ older' = IF session # None THEN MovedToEnd(id) ELSE older
    /\ pc' = [pc EXCEPT ![t] = IF session # None THEN "touch" ELSE "settle"]
    /\ UNCHANGED <<mode, clock, entry, owner, lastAccessed, req, now, result, retired>>

\* get_or_create returns o to the caller.
Return(t, o) ==
    /\ result' = [result EXCEPT ![t] = o]
    /\ found' = [found EXCEPT ![t] = None]
    /\ pc' = [pc EXCEPT ![t] = "using"]

Expired(o, at) == at - lastAccessed[o] > Ttl

\* Mutant: no sliding TTL, the access time is left as it was.
TouchWithoutRefresh(t) ==
    /\ pc[t] = "touch"
    /\ ~Expired(found[t], now[t])
    /\ Return(t, found[t])
    /\ UNCHANGED <<mode, clock, store, owner, lastAccessed, req, now, retired>>

\* touch_if_alive, still alive: refresh and return the session on the fast path.
TouchAlive(t) ==
    /\ pc[t] = "touch"
    /\ ~Expired(found[t], now[t])
    /\ lastAccessed' = [lastAccessed EXCEPT ![found[t]] = now[t]]
    /\ Return(t, found[t])
    /\ UNCHANGED <<mode, clock, store, owner, req, now, retired>>

\* Mutant: >= for >, a session idle for exactly the TTL counts as expired.
TouchExpiredAtTtl(t) ==
    /\ pc[t] = "touch"
    /\ now[t] - lastAccessed[found[t]] >= Ttl
    /\ retired' = retired \cup {found[t]}
    /\ pc' = [pc EXCEPT ![t] = "settle"]
    /\ UNCHANGED <<mode, clock, store, owner, lastAccessed, req, now, found, result>>

\* touch_if_alive, expired: False, and nothing is changed.
TouchExpired(t) ==
    /\ pc[t] = "touch"
    /\ Expired(found[t], now[t])
    /\ retired' = retired \cup {found[t]}
    /\ pc' = [pc EXCEPT ![t] = "settle"]
    /\ UNCHANGED <<mode, clock, store, owner, lastAccessed, req, now, found, result>>

\* Another caller has put a session of its own there meanwhile: take that one.
ReturnCurrent(t) ==
    LET current == entry[req[t]] IN
    /\ pc[t] = "settle"
    /\ current # None /\ current # found[t]
    /\ older' = MovedToEnd(req[t])
    /\ Return(t, current)
    /\ UNCHANGED <<mode, clock, entry, owner, lastAccessed, req, now, retired>>

\* fresh = Session(session_id, created_at=now)
New(t, o) ==
    /\ owner' = [owner EXCEPT ![o] = req[t]]
    /\ lastAccessed' = [lastAccessed EXCEPT ![o] = now[t]]
    /\ Return(t, o)
    /\ UNCHANGED <<mode, clock, req, now>>

\* Mutant: > for >=, an insertion into a full store does not evict.
CreateOverCapacity(t) ==
    LET id == req[t] IN
    /\ pc[t] = "settle"
    /\ entry[id] \in {None, found[t]}
    /\ id \in Stored \/ Cardinality(Stored) <= MaxSessions
    /\ \E o \in Unreferenced :
          /\ entry' = [entry EXCEPT ![id] = o]
          /\ older' = MovedToEnd(id)
          /\ retired' = retired \ {o}
          /\ New(t, o)

\* Mutant: no recheck under the second lock.
CreateUnchecked(t) ==
    LET id == req[t] IN
    /\ pc[t] = "settle"
    /\ id \in Stored \/ Cardinality(Stored) < MaxSessions
    /\ \E o \in Unreferenced :
          /\ entry' = [entry EXCEPT ![id] = o]
          /\ older' = MovedToEnd(id)
          /\ retired' = retired \ {o}
          /\ New(t, o)

\* The id's expired session is replaced in place, or the id is new and fits.
CreateInPlace(t) ==
    LET id == req[t] IN
    /\ pc[t] = "settle"
    /\ entry[id] \in {None, found[t]}
    /\ id \in Stored \/ Cardinality(Stored) < MaxSessions
    /\ \E o \in Unreferenced :
          /\ entry' = [entry EXCEPT ![id] = o]
          /\ older' = MovedToEnd(id)
          /\ retired' = retired \ {o}
          /\ New(t, o)

\* Mutant: the evicted Session object is reused for the new id.
CreateRecycling(t) ==
    LET id == req[t] IN
    /\ pc[t] = "settle"
    /\ entry[id] = None
    /\ Cardinality(Stored) >= MaxSessions
    /\ \E victim \in Ids :
          /\ IsFirst(victim)
          /\ entry' = [entry EXCEPT ![victim] = None, ![id] = entry[victim]]
          /\ older' = {p \in MovedToEnd(id) : victim \notin {p[1], p[2]}}
          /\ UNCHANGED retired
          /\ New(t, entry[victim])

\* The id is new and the store is full: the least recently used entry goes first.
CreateEvicting(t) ==
    LET id == req[t] IN
    /\ pc[t] = "settle"
    /\ entry[id] = None
    /\ Cardinality(Stored) >= MaxSessions
    /\ \E victim \in Ids, o \in Unreferenced :
          /\ IsFirst(victim)
          /\ entry' = [entry EXCEPT ![victim] = None, ![id] = o]
          /\ older' = {p \in MovedToEnd(id) : victim \notin {p[1], p[2]}}
          /\ retired' = (retired \cup {entry[victim]}) \ {o}
          /\ New(t, o)

\* The request that holds the session is over.
Release(t) ==
    /\ pc[t] = "using"
    /\ pc' = [pc EXCEPT ![t] = "idle"]
    /\ result' = [result EXCEPT ![t] = None]
    /\ req' = [req EXCEPT ![t] = None]
    /\ UNCHANGED <<mode, clock, store, owner, lastAccessed, now, found, retired>>

Tick ==
    /\ clock < MaxTime
    /\ clock' = clock + 1
    /\ UNCHANGED <<mode, store, owner, lastAccessed, pc, req, now, found, result, retired>>

Next ==
    \/ \E t \in Threads :
          \/ \E id \in Ids : Begin(t, id)
          \/ Lookup(t)
          \/ TouchAlive(t)
          \/ TouchExpired(t)
          \/ ReturnCurrent(t)
          \/ CreateInPlace(t)
          \/ CreateEvicting(t)
          \/ Release(t)
    \/ Tick

Spec == Init /\ [][Next]_vars
-----------------------------------------------------------------------------
(* Properties *)

\* The hard cap: never more than max_sessions sessions, in any interleaving of
\* creations, replacements and evictions.
WithinCapacity == Cardinality(Stored) <= MaxSessions

\* A conversation is never given another conversation's session, whose surrogates
\* would be recognised and rehydrated for the wrong caller.
RightConversation ==
    /\ \A id \in Stored : owner[entry[id]] = id
    /\ \A t \in Threads : pc[t] = "using" => owner[result[t]] = req[t]

\* No split brain: a request works on a session outside the store only if that one
\* was found expired or evicted for capacity.  In particular the racing first
\* requests of a conversation, and racing replacements, end on one session.
NoSplitBrain ==
    \A t \in Threads : pc[t] = "using" =>
        result[t] = entry[req[t]] \/ result[t] \in retired

\* On the event loop the session evicted for capacity is the one idle longest: no other
\* stored session was accessed before it.  The order of the dictionary, kept under the
\* store lock, thus agrees with the access times, kept under each session's own.
LeastRecentlyUsedEvicted ==
    [][mode = "event_loop" =>
          \A victim \in Stored : entry'[victim] = None =>
              \A id \in Stored : lastAccessed[entry[victim]] <= lastAccessed[entry[id]]]_vars

\* On the event loop a stored session is replaced only when it really has been idle
\* for longer than the TTL ("activity extends a session's life").
LiveNeverReplaced ==
    [][mode = "event_loop" =>
          \A id \in Stored : entry'[id] \notin {entry[id], None} => Expired(entry[id], clock)]_vars

\* On the event loop a session that is handed out carries the time of the call that
\* got it, so that no caller starts on one that is about to expire.
ReturnedIsFresh ==
    [][mode = "event_loop" =>
          \A t \in Threads : pc[t] # "using" /\ pc'[t] = "using" =>
              lastAccessed'[result'[t]] = now[t]]_vars

\* What get_or_create promises (SessionMap), with what a caller holds for what it has
\* been given.
Map == INSTANCE SessionMap WITH Callers <- Threads, held <- result

\* On the event loop a call gives its caller the session stored under its id, or a new
\* one that it stores, as if it were one step; in worker threads it may give one that
\* another call has replaced meanwhile.
AtomicOnEventLoop ==
    Map!Init /\ [][mode = "event_loop" => [Map!Next]_<<entry, result>>]_vars
=============================================================================
