--------------------------- MODULE Dependencies ---------------------------
(***************************************************************************)
(* How the process starts (src/app/main.py) and how its requests come by   *)
(* the objects they share.  chat_completions names its dependencies        *)
(* with Depends(); each is a plain function under functools.lru_cache.     *)
(* FastAPI calls plain functions in worker threads, one after another for  *)
(* one request and side by side for several, and lru_cache holds no lock   *)
(* while the function runs: two calls may both miss and both construct.    *)
(* The first to finish is cached; each returns the object it has made.     *)
(*                                                                         *)
(* An object is a number, counted per factory.  get_rng and get_fail_mode  *)
(* are not cached and are left out; get_clock's objects hold no state.     *)
(***************************************************************************)
EXTENDS Naturals, Sequences

CONSTANTS
    Requests,
    Factories,  \* the cached dependencies
    Order,      \* their order among the parameters of chat_completions
    Model,      \* get_tier2_model
    Warmup      \* NER_WARMUP

VARIABLES
    process,    \* "starting", "serving" or "exited"
    validates,  \* the environment passes the validators of Settings
    loads,      \* the Tier-2 model can be loaded
    cache,      \* per factory its cached object, or NoObject
    made,       \* per factory the objects constructed so far
    turn,       \* per request the place in Order it has come to; 0: not there yet
    making,     \* per request the object under construction in its thread, or NoObject
    held,       \* per request the objects it has been given
    failed      \* the requests one of whose factories has raised

settings == <<validates, loads>>
vars == <<process, settings, cache, made, turn, making, held, failed>>

NoObject == 0

Objects == Nat \ {NoObject}

Init ==
    /\ process = "starting"
    /\ validates \in BOOLEAN /\ loads \in BOOLEAN
    /\ cache = [f \in Factories |-> NoObject]
    /\ made = [f \in Factories |-> 0]
    /\ turn = [r \in Requests |-> 0]
    /\ making = [r \in Requests |-> NoObject]
    /\ held = [r \in Requests |-> [f \in Factories |-> NoObject]]
    /\ failed = {}
-----------------------------------------------------------------------------
(* Before the server binds: one thread *)

\* Settings() raises while app.main is imported.
Misconfigured ==
    /\ process = "starting" /\ ~validates
    /\ process' = "exited"
    /\ UNCHANGED <<settings, cache, made, turn, making, held, failed>>

\* _warm_tier2_model.
Warm ==
    /\ process = "starting" /\ validates /\ Warmup /\ loads
    /\ made' = [made EXCEPT ![Model] = @ + 1]
    /\ cache' = [cache EXCEPT ![Model] = made'[Model]]
    /\ process' = "serving"
    /\ UNCHANGED <<settings, turn, making, held, failed>>

WarmFails ==
    /\ process = "starting" /\ validates /\ Warmup /\ ~loads
    /\ process' = "exited"
    /\ UNCHANGED <<settings, cache, made, turn, making, held, failed>>

StartCold ==
    /\ process = "starting" /\ validates /\ ~Warmup
    /\ process' = "serving"
    /\ UNCHANGED <<settings, cache, made, turn, making, held, failed>>
-----------------------------------------------------------------------------
(* A request resolves its dependencies *)

Arrive(r) ==
    /\ process = "serving" /\ turn[r] = 0
    /\ turn' = [turn EXCEPT ![r] = 1]
    /\ UNCHANGED <<process, settings, cache, made, making, held, failed>>

\* The request's thread is about to call the factory f.
Calls(r, f) ==
    /\ turn[r] \in DOMAIN Order /\ Order[turn[r]] = f
    /\ making[r] = NoObject
    /\ r \notin failed

Handed(r, f, object) ==
    /\ held' = [held EXCEPT ![r] = [@ EXCEPT ![f] = object]]
    /\ turn' = [turn EXCEPT ![r] = @ + 1]

Hit(r, f) ==
    /\ Calls(r, f) /\ cache[f] # NoObject
    /\ Handed(r, f, cache[f])
    /\ UNCHANGED <<process, settings, cache, made, making, failed>>

Miss(r, f) ==
    /\ Calls(r, f) /\ cache[f] = NoObject
    /\ f = Model => loads
    /\ made' = [made EXCEPT ![f] = @ + 1]
    /\ making' = [making EXCEPT ![r] = made'[f]]
    /\ UNCHANGED <<process, settings, cache, turn, held, failed>>

\* GLiNER.from_pretrained raises; nothing is cached and the request ends.
MissFails(r) ==
    /\ Calls(r, Model) /\ cache[Model] = NoObject /\ ~loads
    /\ failed' = failed \cup {r}
    /\ UNCHANGED <<process, settings, cache, made, turn, making, held>>

\* The function returns: lru_cache keeps what is cached already.
Made(r, f) ==
    /\ turn[r] \in DOMAIN Order /\ Order[turn[r]] = f
    /\ making[r] # NoObject
    /\ cache' = [cache EXCEPT ![f] = IF @ = NoObject THEN making[r] ELSE @]
    /\ Handed(r, f, making[r])
    /\ making' = [making EXCEPT ![r] = NoObject]
    /\ UNCHANGED <<process, settings, made, failed>>

Resolve(r) ==
    \/ Arrive(r)
    \/ \E f \in Factories : Hit(r, f) \/ Miss(r, f) \/ Made(r, f)
    \/ MissFails(r)

Next ==
    \/ Misconfigured \/ Warm \/ WarmFails \/ StartCold
    \/ \E r \in Requests : Resolve(r)

Spec == Init /\ [][Next]_vars
-----------------------------------------------------------------------------
(* Properties *)

TypeOK ==
    /\ process \in {"starting", "serving", "exited"}
    /\ validates \in BOOLEAN /\ loads \in BOOLEAN
    /\ cache \in [Factories -> Nat]
    /\ made \in [Factories -> Nat]
    /\ turn \in [Requests -> Nat]
    /\ making \in [Requests -> Nat]
    /\ held \in [Requests -> [Factories -> Nat]]
    /\ failed \subseteq Requests

\* "one SessionStore shared for the whole process" (store.py:147): no two requests have
\* been given different ones.
OneOfEach(f) ==
    \A r, s \in Requests :
        held[r][f] # NoObject /\ held[s][f] # NoObject => held[r][f] = held[s][f]

\* What lru_cache does guarantee: an object that is not the cached one is never shared,
\* it stays with the request whose thread made it.
StrayNotShared ==
    \A r, s \in Requests : \A f \in Factories :
        r # s /\ held[r][f] = held[s][f] /\ held[r][f] # NoObject => held[r][f] = cache[f]

\* And the object that is cached is so for ever: requests that come later agree.
CachedForEver ==
    [][\A f \in Factories : cache[f] # NoObject => cache'[f] = cache[f]]_vars

\* "a model that can't load fails ... at boot, before the server binds - never silently on
\* the first request" (main.py:10): with the warm-up on, no request waits for the model
\* or fails for want of it, and all share the warmed one.
ModelWarm ==
    Warmup =>
        /\ failed = {}
        /\ \A r \in Requests :
              /\ ~(turn[r] \in DOMAIN Order /\ Order[turn[r]] = Model /\ making[r] # NoObject)
              /\ held[r][Model] # NoObject => held[r][Model] = cache[Model]
        /\ process = "serving" => cache[Model] # NoObject
=============================================================================
