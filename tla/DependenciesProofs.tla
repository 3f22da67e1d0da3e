------------------------ MODULE DependenciesProofs ------------------------
(***************************************************************************)
(* What module Dependencies guarantees in spite of the two objects its run *)
(* shows: for any number of requests and of factories, an object outside   *)
(* the cache is never shared, a cached one stays, and with the warm-up on  *)
(* the Tier-2 model is the warmed one.                                     *)
(*                                                                         *)
(* The invariant behind them: the number of the object a thread is making  *)
(* is its own (Unseen), since numbers are given out once (Numbered); and   *)
(* before the server binds nobody holds anything (Quiet).                  *)
(***************************************************************************)
EXTENDS Dependencies, TLAPS

\* What app/main.py and routes.py give the constants.
Wired == Order \in Seq(Factories) /\ Model \in Factories /\ Warmup \in BOOLEAN

Making(r, f) == turn[r] \in DOMAIN Order /\ Order[turn[r]] = f /\ making[r] # NoObject

Quiet ==
    process # "serving" =>
        /\ \A f \in Factories : cache[f] = NoObject
        /\ \A r \in Requests :
              turn[r] = 0 /\ making[r] = NoObject /\ \A f \in Factories : held[r][f] = NoObject

\* A thread at work belongs to a request that is being resolved.
Threads == \A r \in Requests : making[r] # NoObject => turn[r] \in DOMAIN Order

Numbered ==
    \A f \in Factories :
        /\ cache[f] <= made[f]
        /\ \A r \in Requests : held[r][f] <= made[f] /\ (Making(r, f) => making[r] <= made[f])

Unseen ==
    \A r \in Requests : \A f \in Factories :
        Making(r, f) =>
            /\ making[r] # cache[f]
            /\ \A s \in Requests :
                  /\ held[s][f] # making[r]
                  /\ s # r /\ Making(s, f) => making[s] # making[r]

IInv == TypeOK /\ Quiet /\ Threads /\ Numbered /\ Unseen /\ StrayNotShared /\ ModelWarm

LEMMA InitIInv == ASSUME Wired, Init PROVE IInv
BY DEF Wired, Init, IInv, TypeOK, Quiet, Threads, Numbered, Unseen, StrayNotShared,
       ModelWarm, Making, NoObject

\* A request that is somewhere in Order has been served by a process that serves.
LEMMA Serving ==
    ASSUME Wired, TypeOK, Quiet, NEW r \in Requests, turn[r] \in DOMAIN Order
    PROVE  process = "serving" /\ turn[r] # 0 /\ turn[r] \in 1..Len(Order)
BY DEF Wired, TypeOK, Quiet

LEMMA StartIInv ==
    ASSUME Wired, IInv, Misconfigured \/ Warm \/ WarmFails \/ StartCold
    PROVE  IInv'
<1> USE DEF Wired, IInv, NoObject
<1>1. CASE Misconfigured
    BY <1>1 DEF Misconfigured, settings, TypeOK, Quiet, Threads, Numbered, Unseen,
                StrayNotShared, ModelWarm, Making
<1>2. CASE WarmFails
    BY <1>2 DEF WarmFails, settings, TypeOK, Quiet, Threads, Numbered, Unseen,
                StrayNotShared, ModelWarm, Making
<1>3. CASE StartCold
    BY <1>3 DEF StartCold, settings, TypeOK, Quiet, Threads, Numbered, Unseen,
                StrayNotShared, ModelWarm, Making
<1>4. CASE Warm
    <2>1. \A r \in Requests : making[r] = 0 /\ turn[r] = 0
                              /\ \A f \in Factories : held[r][f] = 0
        BY <1>4 DEF Warm, Quiet
    <2>2. made' = [made EXCEPT ![Model] = @ + 1] /\ cache' = [cache EXCEPT ![Model] = made'[Model]]
          /\ UNCHANGED <<turn, making, held, failed, validates, loads>> /\ process' = "serving"
        BY <1>4 DEF Warm, settings
    <2>3. TypeOK'
        BY <2>2 DEF TypeOK
    <2>4. \A f \in Factories : cache'[f] <= made'[f] /\ made'[f] \in Nat
        BY <2>2 DEF TypeOK, Numbered
    <2>5. Numbered'
        BY <2>1, <2>2, <2>4 DEF Numbered, Making, TypeOK
    <2>6. Unseen' /\ StrayNotShared' /\ Quiet' /\ Threads'
        BY <2>1, <2>2 DEF Unseen, StrayNotShared, Quiet, Threads, Making
    <2>7. cache'[Model] # 0
        BY <2>2 DEF TypeOK
    <2>8. ModelWarm'
        BY <2>1, <2>2, <2>7 DEF ModelWarm
    <2> QED BY <2>3, <2>5, <2>6, <2>8
<1> QED BY <1>1, <1>2, <1>3, <1>4

LEMMA ArriveIInv ==
    ASSUME Wired, IInv, NEW r \in Requests, Arrive(r)
    PROVE  IInv'
<1> USE DEF Wired, IInv, NoObject
<1>1. turn' = [turn EXCEPT ![r] = 1] /\ process = "serving" /\ turn[r] = 0
      /\ UNCHANGED <<process, validates, loads, cache, made, making, held, failed>>
    BY DEF Arrive, settings
<1>2. making[r] = 0
    BY <1>1 DEF Threads, TypeOK
<1>3. TypeOK' /\ Quiet' /\ StrayNotShared'
    BY <1>1 DEF TypeOK, Quiet, StrayNotShared
<1>4. Threads' /\ \A s \in Requests : \A f \in Factories : Making(s, f)' => Making(s, f)
    BY <1>1, <1>2 DEF Threads, TypeOK, Making
<1>5. Numbered' /\ Unseen'
    BY <1>1, <1>4 DEF Numbered, Unseen
<1>6. ModelWarm'
    BY <1>1, <1>2 DEF ModelWarm, TypeOK
<1> QED BY <1>3, <1>4, <1>5, <1>6

LEMMA HitIInv ==
    ASSUME Wired, IInv, NEW r \in Requests, NEW f \in Factories, Hit(r, f)
    PROVE  IInv'
<1> USE DEF Wired, IInv, NoObject
<1>1. /\ turn[r] \in DOMAIN Order /\ Order[turn[r]] = f /\ making[r] = 0 /\ cache[f] # 0
      /\ held' = [held EXCEPT ![r] = [@ EXCEPT ![f] = cache[f]]]
      /\ turn' = [turn EXCEPT ![r] = @ + 1]
      /\ UNCHANGED <<process, validates, loads, cache, made, making, failed>>
    BY DEF Hit, Calls, Handed, settings
<1>2. process = "serving"
    BY <1>1, Serving
<1>3. Quiet' /\ Threads' /\ TypeOK'
    <2>1. held' \in [Requests -> [Factories -> Nat]]
        BY <1>1 DEF TypeOK
    <2>2. turn' \in [Requests -> Nat]
        BY <1>1, SMTT(30) DEF TypeOK
    <2>3. TypeOK'
        BY <1>1, <2>1, <2>2 DEF TypeOK
    <2>4. Quiet'
        BY <1>1, <1>2 DEF Quiet
    <2>5. Threads'
        BY <1>1 DEF Threads, TypeOK
    <2> QED BY <2>3, <2>4, <2>5
<1>4. \A s \in Requests : \A g \in Factories :
        held'[s][g] = IF s = r /\ g = f THEN cache[f] ELSE held[s][g]
    BY <1>1 DEF TypeOK
<1>5. \A s \in Requests : \A g \in Factories : Making(s, g)' => Making(s, g)
    BY <1>1 DEF TypeOK, Making
<1>6. Numbered'
    BY <1>1, <1>4, <1>5 DEF Numbered
<1>7. Unseen'
    BY <1>1, <1>4, <1>5 DEF Unseen
<1>8. StrayNotShared'
    BY <1>1, <1>4 DEF StrayNotShared
<1>9. ModelWarm'
    BY <1>1, <1>4 DEF ModelWarm, TypeOK
<1> QED BY <1>3, <1>6, <1>7, <1>8, <1>9

LEMMA MissIInv ==
    ASSUME Wired, IInv, NEW r \in Requests, NEW f \in Factories, Miss(r, f)
    PROVE  IInv'
<1> USE DEF Wired, IInv, NoObject
<1>1. /\ turn[r] \in DOMAIN Order /\ Order[turn[r]] = f /\ making[r] = 0 /\ cache[f] = 0
      /\ made' = [made EXCEPT ![f] = @ + 1]
      /\ making' = [making EXCEPT ![r] = made'[f]]
      /\ UNCHANGED <<process, validates, loads, cache, turn, held, failed>>
    BY DEF Miss, Calls, settings
<1>2. process = "serving"
    BY <1>1, Serving
<1>3. made'[f] = made[f] + 1 /\ making'[r] = made[f] + 1 /\ made[f] \in Nat
    BY <1>1 DEF TypeOK
<1>4. Quiet' /\ Threads' /\ StrayNotShared' /\ TypeOK'
    <2>1. made' \in [Factories -> Nat] /\ making' \in [Requests -> Nat]
        BY <1>1, <1>3 DEF TypeOK
    <2>2. TypeOK'
        BY <1>1, <2>1 DEF TypeOK
    <2>3. Quiet'
        BY <1>1, <1>2 DEF Quiet
    <2>4. Threads'
        BY <1>1 DEF Threads, TypeOK
    <2>5. StrayNotShared'
        BY <1>1 DEF StrayNotShared
    <2> QED BY <2>2, <2>3, <2>4, <2>5
<1>5. \A s \in Requests : \A g \in Factories :
        Making(s, g)' => IF s = r THEN g = f ELSE Making(s, g) /\ making'[s] = making[s]
    BY <1>1 DEF TypeOK, Making
<1>6. \A g \in Factories : made[g] <= made'[g] /\ made[g] \in Nat /\ made'[g] \in Nat
    BY <1>1, SMTT(30) DEF TypeOK
<1>7. Numbered'
    <2> SUFFICES ASSUME NEW g \in Factories
                 PROVE  /\ cache'[g] <= made'[g]
                        /\ \A s \in Requests :
                              held'[s][g] <= made'[g] /\ (Making(s, g)' => making'[s] <= made'[g])
        BY DEF Numbered
    <2>1. cache[g] \in Nat /\ cache[g] <= made[g] /\ cache' = cache
        BY <1>1 DEF Numbered, TypeOK
    <2>2. ASSUME NEW s \in Requests
          PROVE  held'[s][g] <= made'[g] /\ (Making(s, g)' => making'[s] <= made'[g])
        <3>1. held[s][g] \in Nat /\ held[s][g] <= made[g] /\ held' = held
              /\ making[s] \in Nat /\ (Making(s, g) => making[s] <= made[g])
            BY <1>1 DEF Numbered, TypeOK
        <3> HIDE DEF IInv
        <3> QED BY <1>3, <1>5, <1>6, <3>1
    <2> QED BY <1>6, <2>1, <2>2
<1>8. Unseen'
    <2> SUFFICES ASSUME NEW s \in Requests, NEW g \in Factories, Making(s, g)'
                 PROVE  /\ making'[s] # cache'[g]
                        /\ \A t \in Requests :
                              /\ held'[t][g] # making'[s]
                              /\ t # s /\ Making(t, g)' => making'[t] # making'[s]
        BY DEF Unseen
    <2>1. cache' = cache /\ held' = held
          /\ cache[g] \in Nat /\ cache[g] <= made[g] /\ made[g] \in Nat
        BY <1>1 DEF Numbered, TypeOK
    <2>2. \A t \in Requests :
             /\ held[t][g] \in Nat /\ held[t][g] <= made[g]
             /\ making[t] \in Nat /\ (Making(t, g) => making[t] <= made[g])
        BY DEF Numbered, TypeOK
    <2>3. CASE s = r
        <3> HIDE DEF IInv
        <3> QED BY <2>1, <2>2, <2>3, <1>3, <1>5
    <2>4. CASE s # r
        <3>1. /\ making[s] # cache[g]
              /\ \A t \in Requests :
                    held[t][g] # making[s] /\ (t # s /\ Making(t, g) => making[t] # making[s])
            BY <2>4, <1>5 DEF Unseen
        <3> HIDE DEF IInv
        <3> QED BY <2>1, <2>2, <2>4, <3>1, <1>3, <1>5
    <2> QED BY <2>3, <2>4
<1>9. ModelWarm'
    BY <1>1, <1>2 DEF ModelWarm, TypeOK
<1> QED BY <1>4, <1>7, <1>8, <1>9

LEMMA MissFailsIInv ==
    ASSUME Wired, IInv, NEW r \in Requests, MissFails(r)
    PROVE  IInv'
<1> USE DEF Wired, IInv, NoObject
<1>1. /\ turn[r] \in DOMAIN Order /\ cache[Model] = 0
      /\ failed' = failed \cup {r}
      /\ UNCHANGED <<process, validates, loads, cache, made, turn, making, held>>
    BY DEF MissFails, Calls, settings
<1>2. process = "serving"
    BY <1>1, Serving
<1>3. Quiet' /\ Threads' /\ Numbered' /\ Unseen' /\ StrayNotShared' /\ TypeOK'
    <2>1. TypeOK' /\ Quiet' /\ Threads' /\ StrayNotShared'
        BY <1>1, <1>2 DEF TypeOK, Quiet, Threads, StrayNotShared
    <2>2. \A s \in Requests : \A g \in Factories : Making(s, g)' <=> Making(s, g)
        BY <1>1 DEF Making
    <2>3. Numbered' /\ Unseen'
        BY <1>1, <2>2 DEF Numbered, Unseen
    <2> QED BY <2>1, <2>3
<1>4. ModelWarm'
    BY <1>1, <1>2 DEF ModelWarm
<1> QED BY <1>3, <1>4

LEMMA MadeIInv ==
    ASSUME Wired, IInv, NEW r \in Requests, NEW f \in Factories, Made(r, f)
    PROVE  IInv'
<1> USE DEF Wired, IInv, NoObject
<1>1. /\ turn[r] \in DOMAIN Order /\ Order[turn[r]] = f /\ making[r] # 0
      /\ cache' = [cache EXCEPT ![f] = IF @ = 0 THEN making[r] ELSE @]
      /\ held' = [held EXCEPT ![r] = [@ EXCEPT ![f] = making[r]]]
      /\ turn' = [turn EXCEPT ![r] = @ + 1]
      /\ making' = [making EXCEPT ![r] = 0]
      /\ UNCHANGED <<process, validates, loads, made, failed>>
    BY DEF Made, Handed, settings
<1>2. process = "serving"
    BY <1>1, Serving
<1>3. Making(r, f)
    BY <1>1 DEF Making
<1>4. Quiet' /\ Threads' /\ TypeOK'
    <2>1. held' \in [Requests -> [Factories -> Nat]]
        BY <1>1 DEF TypeOK
    <2>2. turn' \in [Requests -> Nat] /\ making' \in [Requests -> Nat]
        BY <1>1, SMTT(30) DEF TypeOK
    <2>3. cache' \in [Factories -> Nat]
        BY <1>1 DEF TypeOK
    <2>4. TypeOK'
        BY <1>1, <2>1, <2>2, <2>3 DEF TypeOK
    <2>5. Quiet'
        BY <1>1, <1>2 DEF Quiet
    <2>6. Threads'
        BY <1>1 DEF Threads, TypeOK
    <2> QED BY <2>4, <2>5, <2>6
<1>5. \A s \in Requests : \A g \in Factories :
        held'[s][g] = IF s = r /\ g = f THEN making[r] ELSE held[s][g]
    BY <1>1 DEF TypeOK
<1>6. \A g \in Factories :
        cache'[g] = IF g = f /\ cache[f] = 0 THEN making[r] ELSE cache[g]
    BY <1>1 DEF TypeOK
<1>7. \A s \in Requests : \A g \in Factories :
        Making(s, g)' => s # r /\ Making(s, g) /\ making'[s] = making[s]
    BY <1>1 DEF TypeOK, Making
<1>8. Numbered'
    BY <1>1, <1>3, <1>5, <1>6, <1>7 DEF Numbered
<1>9. Unseen'
    BY <1>3, <1>5, <1>6, <1>7 DEF Unseen
<1>10. StrayNotShared'
    BY <1>3, <1>5, <1>6 DEF StrayNotShared, Unseen
<1>11. ModelWarm'
    <2> SUFFICES ASSUME Warmup PROVE ModelWarm'
        BY DEF ModelWarm
    <2>1. cache[Model] # 0 /\ f # Model
        BY <1>1, <1>2 DEF ModelWarm
    <2> QED BY <1>1, <1>2, <1>5, <1>6, <2>1 DEF ModelWarm, TypeOK
<1> QED BY <1>4, <1>8, <1>9, <1>10, <1>11

LEMMA NextIInv == ASSUME Wired, IInv, [Next]_vars PROVE IInv'
<1>1. CASE UNCHANGED vars
    BY <1>1 DEF IInv, vars, settings, TypeOK, Quiet, Threads, Numbered, Unseen, StrayNotShared,
                ModelWarm, Making
<1>2. CASE \E r \in Requests : Resolve(r)
    BY <1>2, ArriveIInv, HitIInv, MissIInv, MissFailsIInv, MadeIInv DEF Resolve
<1> QED BY <1>1, <1>2, StartIInv DEF Next

\* The invariant the three results below are parts of.
THEOREM DependenciesInvariance == ASSUME Wired PROVE Spec => []IInv
<1>1. Init => IInv
    BY InitIInv
<1>2. IInv /\ [Next]_vars => IInv'
    BY NextIInv
<1> QED BY <1>1, <1>2, PTL DEF Spec

\* Two requests hold the same object only if it is the cached one: the objects that
\* concurrent first calls make beside it (get_session_store, store.py) stay with the
\* request whose thread made them.
THEOREM StrayNotSharedHolds == ASSUME Wired PROVE Spec => []StrayNotShared
<1>1. IInv => StrayNotShared
    BY DEF IInv
<1> QED BY <1>1, DependenciesInvariance, PTL

\* With NER_WARMUP on, no request loads the model, fails for want of it, or is given
\* another one than the one that was warmed (_warm_tier2_model, main.py).
THEOREM ModelWarmHolds == ASSUME Wired PROVE Spec => []ModelWarm
<1>1. IInv => ModelWarm
    BY DEF IInv
<1> QED BY <1>1, DependenciesInvariance, PTL

\* What a factory has cached it returns for ever, so requests that arrive later agree.
THEOREM CachedForEverHolds == ASSUME Wired PROVE Spec => CachedForEver
<1> DEFINE Kept == \A f \in Factories : cache[f] # NoObject => cache'[f] = cache[f]
<1>1. IInv /\ [Next]_vars => [Kept]_vars
    <2> SUFFICES ASSUME IInv, Next PROVE Kept
        OBVIOUS
    <2> USE DEF IInv, TypeOK, NoObject
    <2>1. CASE Misconfigured \/ WarmFails \/ StartCold
        BY <2>1 DEF Misconfigured, WarmFails, StartCold
    <2>2. CASE Warm
        BY <2>2 DEF Warm, Quiet
    <2>3. ASSUME NEW r \in Requests, Resolve(r) PROVE Kept
        BY <2>3 DEF Resolve, Arrive, Hit, Miss, MissFails, Made
    <2> QED BY <2>1, <2>2, <2>3 DEF Next
<1> QED BY <1>1, DependenciesInvariance, PTL DEF Spec, CachedForEver
=============================================================================
