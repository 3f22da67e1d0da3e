------------------------ MODULE SessionStoreProofs ------------------------
(***************************************************************************)
(* Theorems about module SessionStore, for any number of threads, ids and  *)
(* objects, any capacity and any TTL.                                      *)
(***************************************************************************)
EXTENDS SessionStore, FiniteSetTheorems, TLAPS

USE StoreAssumptions DEF Time, Maybe, MidCall

\* What a thread holds at each point of its call.
CallsConsistent ==
    \A t \in Threads :
        /\ pc[t] # "idle" => req[t] \in Ids
        /\ pc[t] = "touch" => found[t] \in Objects
        /\ pc[t] \in {"idle", "lookup", "using"} => found[t] = None
        /\ pc[t] = "using" => result[t] \in Objects
        /\ pc[t] # "using" => result[t] = None

\* Every reference to a session is to one of the id it was asked for by.
Owned ==
    /\ \A id \in Stored : owner[entry[id]] = id
    /\ \A t \in Threads :
          /\ found[t] # None => owner[found[t]] = req[t]
          /\ result[t] # None => owner[result[t]] = req[t]

\* A session a thread still has in hand is the stored one, or was retired; by the
\* time the thread settles it has been found expired.
Accounted ==
    \A t \in Threads :
        /\ pc[t] = "using" => result[t] = entry[req[t]] \/ result[t] \in retired
        /\ pc[t] = "touch" => found[t] = entry[req[t]] \/ found[t] \in retired
        /\ pc[t] = "settle" /\ found[t] # None => found[t] \in retired

IInv ==
    /\ TypeOK
    /\ CallsConsistent
    /\ Owned
    /\ Accounted
    /\ WithinCapacity

Creating(t, o, id) ==
    /\ t \in Threads /\ o \in Unreferenced /\ id = req[t]
    /\ pc[t] = "settle" /\ entry[id] \in {None, found[t]}
    /\ owner' = [owner EXCEPT ![o] = req[t]]
    /\ lastAccessed' = [lastAccessed EXCEPT ![o] = now[t]]
    /\ result' = [result EXCEPT ![t] = o]
    /\ found' = [found EXCEPT ![t] = None]
    /\ pc' = [pc EXCEPT ![t] = "using"]
    /\ UNCHANGED <<mode, clock, req, now>>

InPlace(o, id) ==
    /\ id \in Stored \/ Cardinality(Stored) < MaxSessions
    /\ entry' = [entry EXCEPT ![id] = o]
    /\ older' = MovedToEnd(id)
    /\ retired' = retired \ {o}

Evicting(o, id, victim) ==
    /\ entry[id] = None /\ IsFirst(victim)
    /\ entry' = [entry EXCEPT ![victim] = None, ![id] = o]
    /\ older' = {p \in MovedToEnd(id) : victim \notin {p[1], p[2]}}
    /\ retired' = (retired \cup {entry[victim]}) \ {o}
-----------------------------------------------------------------------------
\* The two ways of creating a session, with the witnesses named.
LEMMA CreateInPlaceForm ==
    ASSUME NEW t \in Threads, CreateInPlace(t)
    PROVE  \E o \in Objects : Creating(t, o, req[t]) /\ InPlace(o, req[t])
BY DEF CreateInPlace, Creating, InPlace, New, Return, Unreferenced

LEMMA CreateEvictingForm ==
    ASSUME NEW t \in Threads, CreateEvicting(t)
    PROVE  \E o \in Objects, victim \in Ids :
              Creating(t, o, req[t]) /\ Evicting(o, req[t], victim)
BY DEF CreateEvicting, Creating, Evicting, New, Return, Unreferenced

LEMMA StoredFinite == IsFiniteSet(Stored) /\ Cardinality(Stored) \in Nat
BY FS_Subset, FS_CardinalityType DEF Stored
-----------------------------------------------------------------------------
LEMMA InitIInv == Init => IInv
<1> SUFFICES ASSUME Init PROVE IInv
  OBVIOUS
<1>1. Stored = {}
  BY DEF Init, Stored
<1>2. TypeOK
  BY DEF Init, TypeOK
<1>3. WithinCapacity
  BY <1>1, FS_EmptySet DEF WithinCapacity
<1>4. CallsConsistent /\ Owned /\ Accounted
  BY <1>1 DEF Init, CallsConsistent, Owned, Accounted
<1>5. QED
  BY <1>2, <1>3, <1>4 DEF IInv

\* Every step keeps the types.
LEMMA TypeStep ==
    ASSUME IInv, [Next]_vars
    PROVE  TypeOK'
<1> USE DEF IInv, TypeOK
<1> SUFFICES ASSUME Next PROVE TypeOK'
  BY DEF vars, store
<1>1. ASSUME NEW t \in Threads, NEW id \in Ids, Begin(t, id) PROVE TypeOK'
  BY <1>1 DEF Begin, store
<1>2. ASSUME NEW t \in Threads, Lookup(t) PROVE TypeOK'
  BY <1>2 DEF Lookup, MovedToEnd, Without, Stored, CallsConsistent
<1>3. ASSUME NEW t \in Threads, TouchAlive(t) PROVE TypeOK'
  BY <1>3 DEF TouchAlive, Return, store, CallsConsistent
<1>4. ASSUME NEW t \in Threads, TouchExpired(t) PROVE TypeOK'
  BY <1>4 DEF TouchExpired, store, CallsConsistent
<1>5. ASSUME NEW t \in Threads, ReturnCurrent(t) PROVE TypeOK'
  BY <1>5 DEF ReturnCurrent, Return, MovedToEnd, Without, Stored, CallsConsistent
<1>6. ASSUME NEW t \in Threads, CreateInPlace(t) PROVE TypeOK'
  <2>1. PICK o \in Objects : Creating(t, o, req[t]) /\ InPlace(o, req[t])
    BY <1>6, CreateInPlaceForm
  <2>2. req[t] \in Ids
    BY <2>1 DEF CallsConsistent, Creating
  <2>3. QED
    BY <2>1, <2>2 DEF Creating, InPlace, MovedToEnd, Without, Stored
<1>7. ASSUME NEW t \in Threads, CreateEvicting(t) PROVE TypeOK'
  <2>1. PICK o \in Objects, victim \in Ids :
           Creating(t, o, req[t]) /\ Evicting(o, req[t], victim)
    BY <1>7, CreateEvictingForm
  <2>2. req[t] \in Ids /\ entry[victim] \in Objects
    BY <2>1 DEF CallsConsistent, Creating, Evicting, IsFirst, Stored
  <2>3. QED
    BY <2>1, <2>2 DEF Creating, Evicting, MovedToEnd, Without, Stored
<1>8. ASSUME NEW t \in Threads, Release(t) PROVE TypeOK'
  BY <1>8 DEF Release, store
<1>9. CASE Tick
  BY <1>9 DEF Tick, store
<1>10. QED
  BY <1>1, <1>2, <1>3, <1>4, <1>5, <1>6, <1>7, <1>8, <1>9 DEF Next

\* Every step keeps what threads hold in accord with where they are.
LEMMA CallsStep ==
    ASSUME IInv, [Next]_vars
    PROVE  CallsConsistent'
<1> USE DEF IInv, TypeOK, CallsConsistent
<1> SUFFICES ASSUME Next PROVE CallsConsistent'
  BY DEF vars, store
<1>1. ASSUME NEW t \in Threads, NEW id \in Ids, Begin(t, id) PROVE CallsConsistent'
  BY <1>1 DEF Begin
<1>2. ASSUME NEW t \in Threads, Lookup(t) PROVE CallsConsistent'
  BY <1>2 DEF Lookup
<1>3. ASSUME NEW t \in Threads, TouchAlive(t) PROVE CallsConsistent'
  BY <1>3 DEF TouchAlive, Return
<1>4. ASSUME NEW t \in Threads, TouchExpired(t) PROVE CallsConsistent'
  BY <1>4 DEF TouchExpired
<1>5. ASSUME NEW t \in Threads, ReturnCurrent(t) PROVE CallsConsistent'
  BY <1>5 DEF ReturnCurrent, Return
<1>6. ASSUME NEW t \in Threads, NEW o \in Objects, Creating(t, o, req[t])
      PROVE  CallsConsistent'
  BY <1>6 DEF Creating
<1>7. ASSUME NEW t \in Threads, Release(t) PROVE CallsConsistent'
  BY <1>7 DEF Release
<1>8. CASE Tick
  BY <1>8 DEF Tick
<1>9. QED
  BY <1>1, <1>2, <1>3, <1>4, <1>5, <1>6, <1>7, <1>8, CreateInPlaceForm,
     CreateEvictingForm DEF Next

\* Every step keeps each session with its own conversation: a new object is one
\* nobody refers to, so that giving it an owner takes nothing from anyone.
LEMMA OwnedStep ==
    ASSUME IInv, [Next]_vars
    PROVE  Owned'
<1> USE DEF IInv, TypeOK, Owned, Stored
<1> SUFFICES ASSUME Next PROVE Owned'
  BY DEF vars, store
<1>1. ASSUME NEW t \in Threads, NEW id \in Ids, Begin(t, id) PROVE Owned'
  BY <1>1 DEF Begin, store, CallsConsistent
<1>2. ASSUME NEW t \in Threads, Lookup(t) PROVE Owned'
  BY <1>2 DEF Lookup, CallsConsistent
<1>3. ASSUME NEW t \in Threads, TouchAlive(t) PROVE Owned'
  BY <1>3 DEF TouchAlive, Return, store
<1>4. ASSUME NEW t \in Threads, TouchExpired(t) PROVE Owned'
  BY <1>4 DEF TouchExpired, store
<1>5. ASSUME NEW t \in Threads, ReturnCurrent(t) PROVE Owned'
  BY <1>5 DEF ReturnCurrent, Return, CallsConsistent
<1>6. ASSUME NEW t \in Threads, NEW o \in Objects, Creating(t, o, req[t]),
             \A id \in Ids : entry'[id] # None =>
                 entry'[id] = entry[id] \/ (id = req[t] /\ entry'[id] = o)
      PROVE  Owned'
  BY <1>6 DEF Creating, CallsConsistent, Unreferenced
<1>7. ASSUME NEW t \in Threads, CreateInPlace(t) PROVE Owned'
  <2>1. PICK o \in Objects : Creating(t, o, req[t]) /\ InPlace(o, req[t])
    BY <1>7, CreateInPlaceForm
  <2>2. QED
    BY <1>6, <2>1 DEF InPlace
<1>8. ASSUME NEW t \in Threads, CreateEvicting(t) PROVE Owned'
  <2>1. PICK o \in Objects, victim \in Ids :
           Creating(t, o, req[t]) /\ Evicting(o, req[t], victim)
    BY <1>8, CreateEvictingForm
  <2>2. QED
    BY <1>6, <2>1 DEF Evicting
<1>9. ASSUME NEW t \in Threads, Release(t) PROVE Owned'
  BY <1>9 DEF Release, store, CallsConsistent
<1>10. CASE Tick
  BY <1>10 DEF Tick, store
<1>11. QED
  BY <1>1, <1>2, <1>3, <1>4, <1>5, <1>7, <1>8, <1>9, <1>10 DEF Next

\* Every step leaves a session in hand stored or retired.
LEMMA AccountedStep ==
    ASSUME IInv, [Next]_vars
    PROVE  Accounted'
<1> USE DEF IInv, TypeOK, Accounted, CallsConsistent
<1> SUFFICES ASSUME Next PROVE Accounted'
  BY DEF vars, store
<1>1. ASSUME NEW t \in Threads, NEW id \in Ids, Begin(t, id) PROVE Accounted'
  BY <1>1 DEF Begin, store
<1>2. ASSUME NEW t \in Threads, Lookup(t) PROVE Accounted'
  BY <1>2 DEF Lookup
<1>3. ASSUME NEW t \in Threads, TouchAlive(t) PROVE Accounted'
  BY <1>3 DEF TouchAlive, Return, store
<1>4. ASSUME NEW t \in Threads, TouchExpired(t) PROVE Accounted'
  BY <1>4 DEF TouchExpired, store
<1>5. ASSUME NEW t \in Threads, ReturnCurrent(t) PROVE Accounted'
  BY <1>5 DEF ReturnCurrent, Return
<1>6. ASSUME NEW t \in Threads, CreateInPlace(t) PROVE Accounted'
  <2>1. PICK o \in Objects : Creating(t, o, req[t]) /\ InPlace(o, req[t])
    BY <1>6, CreateInPlaceForm
  <2>2. \A u \in Threads : found[u] # o /\ result[u] # o
    BY <2>1 DEF Creating, Unreferenced
  <2>3. entry[req[t]] # None => entry[req[t]] \in retired
    BY <2>1 DEF Creating
  <2>4. QED
    BY <2>1, <2>2, <2>3 DEF Creating, InPlace
<1>7. ASSUME NEW t \in Threads, CreateEvicting(t) PROVE Accounted'
  <2>1. PICK o \in Objects, victim \in Ids :
           Creating(t, o, req[t]) /\ Evicting(o, req[t], victim)
    BY <1>7, CreateEvictingForm
  <2>2. \A u \in Threads : found[u] # o /\ result[u] # o
    BY <2>1 DEF Creating, Unreferenced
  <2>3. QED
    BY <2>1, <2>2 DEF Creating, Evicting
<1>8. ASSUME NEW t \in Threads, Release(t) PROVE Accounted'
  BY <1>8 DEF Release, store
<1>9. CASE Tick
  BY <1>9 DEF Tick, store
<1>10. QED
  BY <1>1, <1>2, <1>3, <1>4, <1>5, <1>6, <1>7, <1>8, <1>9 DEF Next

\* Every step respects the capacity: an insertion that grows the store finds room,
\* or takes the place of the entry it evicts.
LEMMA CapacityStep ==
    ASSUME IInv, [Next]_vars
    PROVE  WithinCapacity'
<1> USE DEF IInv, TypeOK
<1>1. CASE UNCHANGED entry
  BY <1>1 DEF WithinCapacity, Stored
<1>2. ASSUME NEW t \in Threads, CreateInPlace(t) PROVE WithinCapacity'
  <2>1. PICK o \in Objects : Creating(t, o, req[t]) /\ InPlace(o, req[t])
    BY <1>2, CreateInPlaceForm
  <2>2. Stored' = Stored \cup {req[t]}
    BY <2>1 DEF Creating, InPlace, Stored, CallsConsistent
  <2>3. Cardinality(Stored') =
           IF req[t] \in Stored THEN Cardinality(Stored) ELSE Cardinality(Stored) + 1
    BY <2>2, StoredFinite, FS_AddElement
  <2>4. req[t] \in Stored \/ Cardinality(Stored) < MaxSessions
    BY <2>1 DEF InPlace
  <2>5. QED
    BY <2>3, <2>4, StoredFinite DEF WithinCapacity
<1>3. ASSUME NEW t \in Threads, CreateEvicting(t) PROVE WithinCapacity'
  <2>1. PICK o \in Objects, victim \in Ids :
           Creating(t, o, req[t]) /\ Evicting(o, req[t], victim)
    BY <1>3, CreateEvictingForm
  <2>2. req[t] \in Ids /\ req[t] \notin Stored /\ victim \in Stored
    BY <2>1 DEF Creating, Evicting, IsFirst, Stored, CallsConsistent
  <2>3. Stored' = (Stored \ {victim}) \cup {req[t]}
    BY <2>1, <2>2 DEF Creating, Evicting, Stored
  <2>4. /\ IsFiniteSet(Stored \ {victim})
        /\ Cardinality(Stored \ {victim}) = Cardinality(Stored) - 1
    BY <2>2, StoredFinite, FS_RemoveElement
  <2>5. Cardinality(Stored') = Cardinality(Stored \ {victim}) + 1
    BY <2>2, <2>3, <2>4, FS_AddElement
  <2>6. QED
    BY <2>4, <2>5, StoredFinite DEF WithinCapacity
<1>4. QED
  BY <1>1, <1>2, <1>3 DEF Next, vars, store, Begin, Lookup, TouchAlive, TouchExpired,
     ReturnCurrent, Release, Tick
-----------------------------------------------------------------------------
\* The inductive invariant holds of every behaviour.
THEOREM StoreInvariance == Spec => []IInv
<1>1. IInv /\ [Next]_vars => IInv'
  <2> SUFFICES ASSUME IInv, [Next]_vars PROVE IInv'
    OBVIOUS
  <2>1. TypeOK' /\ CallsConsistent' /\ Owned'
    BY TypeStep, CallsStep, OwnedStep
  <2>2. Accounted' /\ WithinCapacity'
    BY AccountedStep, CapacityStep
  <2>3. QED
    BY <2>1, <2>2 DEF IInv
<1>2. QED
  BY InitIInv, <1>1, PTL DEF Spec

\* The store's variables keep their types (store.py, session.py).
THEOREM StoreTypeCorrect == Spec => []TypeOK
<1>1. IInv => TypeOK
  BY DEF IInv
<1>2. QED
  BY <1>1, StoreInvariance, PTL

\* get_or_create never lets the store grow past max_sessions, however many callers
\* create, replace and evict at once.
THEOREM WithinCapacityHolds == Spec => []WithinCapacity
<1>1. IInv => WithinCapacity
  BY DEF IInv
<1>2. QED
  BY <1>1, StoreInvariance, PTL

\* get_or_create never hands a conversation the session of another one.
THEOREM RightConversationHolds == Spec => []RightConversation
<1>1. IInv => RightConversation
  BY DEF IInv, RightConversation, Owned, CallsConsistent
<1>2. QED
  BY <1>1, StoreInvariance, PTL

\* A caller of get_or_create works on the stored session of its conversation, or on
\* one that was found expired or evicted: racing callers end on one session.
THEOREM NoSplitBrainHolds == Spec => []NoSplitBrain
<1>1. IInv => NoSplitBrain
  BY DEF IInv, NoSplitBrain, Accounted
<1>2. QED
  BY <1>1, StoreInvariance, PTL
-----------------------------------------------------------------------------
(* On the event loop *)

\* On the event loop a call is one uninterrupted piece: whatever its thread found is
\* still there, and what it found expired is so by the clock of now.
Undisturbed ==
    mode = "event_loop" =>
        /\ \A t, u \in Threads : pc[t] \in MidCall /\ pc[u] \in MidCall => t = u
        /\ \A t \in Threads :
              /\ pc[t] \in MidCall => now[t] <= clock
              /\ pc[t] \in {"touch", "settle"} => found[t] = entry[req[t]]
              /\ pc[t] = "settle" /\ found[t] # None => Expired(found[t], now[t])

LEMMA InitUndisturbed == Init => Undisturbed
BY DEF Init, Undisturbed

\* Every step keeps a call undisturbed: on the event loop only the thread that is in
\* the middle of one touches or replaces a session.
LEMMA UndisturbedStep ==
    ASSUME IInv, Undisturbed, [Next]_vars
    PROVE  Undisturbed'
<1> USE DEF IInv, TypeOK, CallsConsistent, Undisturbed, Expired
<1> SUFFICES ASSUME Next, mode = "event_loop", mode' = "event_loop" PROVE Undisturbed'
  <2>1. mode' = mode
    BY DEF vars, Next, Begin, Lookup, TouchAlive, TouchExpired, ReturnCurrent,
       CreateInPlace, CreateEvicting, New, Release, Tick
  <2>2. UNCHANGED vars => Undisturbed'
    BY DEF vars, store
  <2> QED
    BY <2>1, <2>2
<1>1. ASSUME NEW t \in Threads, NEW id \in Ids, Begin(t, id) PROVE Undisturbed'
  BY <1>1 DEF Begin, store
<1>2. ASSUME NEW t \in Threads, Lookup(t) PROVE Undisturbed'
  BY <1>2 DEF Lookup
<1>3. ASSUME NEW t \in Threads, TouchAlive(t) PROVE Undisturbed'
  BY <1>3 DEF TouchAlive, Return, store
<1>4. ASSUME NEW t \in Threads, TouchExpired(t) PROVE Undisturbed'
  BY <1>4 DEF TouchExpired, store
<1>5. ASSUME NEW t \in Threads, ReturnCurrent(t) PROVE Undisturbed'
  BY <1>5 DEF ReturnCurrent, Return
<1>6. ASSUME NEW t \in Threads, NEW o \in Objects, Creating(t, o, req[t])
      PROVE  Undisturbed'
  <2>1. \A u \in Threads : u # t => pc[u] \notin MidCall /\ pc'[u] = pc[u]
    BY <1>6 DEF Creating
  <2>2. pc'[t] = "using"
    BY <1>6 DEF Creating
  <2> QED
    BY <1>6, <2>1, <2>2
<1>7. ASSUME NEW t \in Threads, Release(t) PROVE Undisturbed'
  BY <1>7 DEF Release, store
<1>8. CASE Tick
  BY <1>8 DEF Tick, store
<1> QED
  BY <1>1, <1>2, <1>3, <1>4, <1>5, <1>6, <1>7, <1>8, CreateInPlaceForm,
     CreateEvictingForm DEF Next

LEMMA UndisturbedInvariance == Spec => [](IInv /\ Undisturbed)
<1>1. IInv /\ Undisturbed /\ [Next]_vars => Undisturbed'
  BY UndisturbedStep
<1> QED
  BY <1>1, InitUndisturbed, StoreInvariance, PTL DEF Spec

\* On the event loop get_or_create replaces a stored session only if it has been idle
\* for longer than the TTL.
THEOREM LiveNeverReplacedHolds == Spec => LiveNeverReplaced
<1> DEFINE Replaced ==
              mode = "event_loop" =>
                 \A id \in Stored :
                    entry'[id] \notin {entry[id], None} => Expired(entry[id], clock)
<1>1. IInv /\ Undisturbed /\ [Next]_vars => [Replaced]_vars
  <2> SUFFICES ASSUME IInv, Undisturbed, [Next]_vars PROVE [Replaced]_vars
    OBVIOUS
  <2>1. CASE UNCHANGED entry
    BY <2>1
  <2>2. ASSUME NEW t \in Threads, NEW o \in Objects, Creating(t, o, req[t]),
               mode = "event_loop", entry[req[t]] # None
        PROVE  Expired(entry[req[t]], clock)
    <3>1. /\ now[t] <= clock /\ found[t] = entry[req[t]] /\ Expired(found[t], now[t])
          /\ req[t] \in Ids
      BY <2>2 DEF Creating, Undisturbed, IInv, CallsConsistent
    <3>2. found[t] \in Objects /\ lastAccessed[found[t]] \in Nat /\ now[t] \in Nat
      BY <2>2, <3>1 DEF IInv, TypeOK
    <3> QED
      BY <3>1, <3>2 DEF Expired, IInv, TypeOK
  <2>3. ASSUME NEW t \in Threads, CreateInPlace(t) PROVE Replaced
    <3>1. PICK o \in Objects : Creating(t, o, req[t]) /\ InPlace(o, req[t])
      BY <2>3, CreateInPlaceForm
    <3>2. \A id \in Ids : id # req[t] => entry'[id] = entry[id]
      BY <3>1 DEF InPlace, IInv, TypeOK
    <3> QED
      BY <2>2, <3>1, <3>2 DEF Stored
  <2>4. ASSUME NEW t \in Threads, CreateEvicting(t) PROVE Replaced
    <3>1. PICK o \in Objects, victim \in Ids :
             Creating(t, o, req[t]) /\ Evicting(o, req[t], victim)
      BY <2>4, CreateEvictingForm
    <3>2. \A id \in Ids : id # req[t] => entry'[id] \in {entry[id], None}
      BY <3>1 DEF Evicting, IInv, TypeOK
    <3>3. req[t] \notin Stored
      BY <3>1 DEF Evicting, Stored
    <3> QED
      BY <3>2, <3>3 DEF Stored
  <2> QED
    BY <2>1, <2>3, <2>4 DEF Next, vars, store, Begin, Lookup, TouchAlive, TouchExpired,
       ReturnCurrent, Release, Tick
<1> QED
  BY <1>1, UndisturbedInvariance, PTL DEF Spec, LiveNeverReplaced

\* On the event loop the session get_or_create returns has just been touched, or is
\* new: its caller has the whole TTL ahead.
THEOREM ReturnedIsFreshHolds == Spec => ReturnedIsFresh
<1> DEFINE Fresh ==
              mode = "event_loop" =>
                 \A t \in Threads : pc[t] # "using" /\ pc'[t] = "using" =>
                     lastAccessed'[result'[t]] = now[t]
<1>1. IInv /\ Undisturbed /\ [Next]_vars => [Fresh]_vars
  <2> SUFFICES ASSUME IInv, Undisturbed, [Next]_vars PROVE [Fresh]_vars
    OBVIOUS
  <2>1. CASE \A u \in Threads : pc'[u] = "using" => pc[u] = "using"
    BY <2>1
  <2>2. ASSUME NEW t \in Threads, NEW o \in Objects, Return(t, o),
               lastAccessed' = [lastAccessed EXCEPT ![o] = now[t]]
        PROVE  Fresh
    <3>1. \A u \in Threads : u # t => pc'[u] = pc[u]
      BY <2>2 DEF Return, IInv, TypeOK
    <3>2. result'[t] = o /\ lastAccessed'[o] = now[t]
      BY <2>2 DEF Return, IInv, TypeOK
    <3> QED
      BY <3>1, <3>2
  <2>3. ASSUME NEW t \in Threads, TouchAlive(t) PROVE Fresh
    <3>1. found[t] \in Objects
      BY <2>3 DEF TouchAlive, IInv, CallsConsistent
    <3> HIDE DEF Fresh
    <3> QED
      BY <2>2, <2>3, <3>1 DEF TouchAlive
  <2>4. ASSUME NEW t \in Threads, ReturnCurrent(t) PROVE Fresh
    BY <2>4 DEF ReturnCurrent, Undisturbed
  <2>5. ASSUME NEW t \in Threads, NEW o \in Objects, Creating(t, o, req[t]) PROVE Fresh
    <3> HIDE DEF Fresh
    <3> QED
      BY <2>2, <2>5 DEF Creating, Return
  <2>6. ASSUME NEW t \in Threads, NEW id \in Ids, Begin(t, id) PROVE Fresh
    BY <2>1, <2>6 DEF Begin, IInv, TypeOK
  <2>7. ASSUME NEW t \in Threads, Lookup(t) \/ TouchExpired(t) \/ Release(t) PROVE Fresh
    BY <2>1, <2>7 DEF Lookup, TouchExpired, Release, IInv, TypeOK
  <2>8. CASE Tick \/ UNCHANGED vars
    BY <2>1, <2>8 DEF Tick, vars
  <2> HIDE DEF Fresh
  <2> QED
    BY <2>3, <2>4, <2>5, <2>6, <2>7, <2>8, CreateInPlaceForm, CreateEvictingForm DEF Next
<1> QED
  BY <1>1, UndisturbedInvariance, PTL DEF Spec, ReturnedIsFresh
-----------------------------------------------------------------------------
(* Which session is evicted *)

\* On the event loop, no stored session was accessed after a call's clock reading; the
\* one a call has found is last in the dictionary; and where one comes before another
\* there it was accessed before, unless the other has been moved but not touched yet.
OrderedByAccess ==
    mode = "event_loop" =>
        /\ \A id \in Stored : lastAccessed[entry[id]] <= clock
        /\ \A t \in Threads : pc[t] \in MidCall =>
              \A id \in Stored : lastAccessed[entry[id]] <= now[t]
        /\ \A t \in Threads : found[t] # None =>
              \A id \in Stored : <<req[t], id>> \notin older
        /\ \A a, b \in Stored : <<a, b>> \in older =>
              \/ lastAccessed[entry[a]] <= lastAccessed[entry[b]]
              \/ \E t \in Threads : found[t] # None /\ req[t] = b

LEMMA InitOrderedByAccess == Init => OrderedByAccess
BY DEF Init, OrderedByAccess, Stored

\* Every step keeps the order: a call ends with its session last and touched last.
LEMMA OrderedByAccessStep ==
    ASSUME IInv, Undisturbed, OrderedByAccess, [Next]_vars
    PROVE  OrderedByAccess'
<1> USE DEF IInv, TypeOK, CallsConsistent, OrderedByAccess, Stored
<1> SUFFICES ASSUME Next, mode = "event_loop", mode' = "event_loop" PROVE OrderedByAccess'
  <2>1. mode' = mode
    BY DEF vars, Next, Begin, Lookup, TouchAlive, TouchExpired, ReturnCurrent,
       CreateInPlace, CreateEvicting, New, Release, Tick
  <2>2. UNCHANGED vars => OrderedByAccess'
    BY DEF vars, store
  <2> QED
    BY <2>1, <2>2
<1>1. ASSUME NEW t \in Threads, NEW id \in Ids, Begin(t, id) PROVE OrderedByAccess'
  BY <1>1 DEF Begin, store
<1>2. ASSUME NEW t \in Threads, Lookup(t) PROVE OrderedByAccess'
  BY <1>2 DEF Lookup, MovedToEnd, Without, Undisturbed
<1>3. ASSUME NEW t \in Threads, TouchAlive(t) PROVE OrderedByAccess'
  BY <1>3 DEF TouchAlive, Return, store, Undisturbed, Owned
<1>4. ASSUME NEW t \in Threads, TouchExpired(t) PROVE OrderedByAccess'
  BY <1>4 DEF TouchExpired, store
<1>5. ASSUME NEW t \in Threads, ReturnCurrent(t) PROVE OrderedByAccess'
  BY <1>5 DEF ReturnCurrent, Undisturbed
<1>6. ASSUME NEW t \in Threads, CreateInPlace(t) PROVE OrderedByAccess'
  <2>1. PICK o \in Objects : Creating(t, o, req[t]) /\ InPlace(o, req[t])
    BY <1>6, CreateInPlaceForm
  <2> QED
    BY <2>1 DEF Creating, InPlace, MovedToEnd, Without, Undisturbed, Unreferenced
<1>7. ASSUME NEW t \in Threads, CreateEvicting(t) PROVE OrderedByAccess'
  <2>1. PICK o \in Objects, victim \in Ids :
           Creating(t, o, req[t]) /\ Evicting(o, req[t], victim)
    BY <1>7, CreateEvictingForm
  <2> QED
    BY <2>1 DEF Creating, Evicting, MovedToEnd, Without, Undisturbed, Unreferenced
<1>8. ASSUME NEW t \in Threads, Release(t) PROVE OrderedByAccess'
  BY <1>8 DEF Release, store
<1>9. CASE Tick
  BY <1>9 DEF Tick, store
<1> QED
  BY <1>1, <1>2, <1>3, <1>4, <1>5, <1>6, <1>7, <1>8, <1>9 DEF Next

LEMMA OrderedByAccessInvariance == Spec => [](IInv /\ Undisturbed /\ OrderedByAccess)
<1>1. IInv /\ Undisturbed /\ OrderedByAccess /\ [Next]_vars => OrderedByAccess'
  BY OrderedByAccessStep
<1> QED
  BY <1>1, InitOrderedByAccess, UndisturbedInvariance, PTL DEF Spec

\* On the event loop get_or_create makes room by evicting the session idle longest.
THEOREM LeastRecentlyUsedEvictedHolds == Spec => LeastRecentlyUsedEvicted
<1> DEFINE Oldest ==
              mode = "event_loop" =>
                 \A victim \in Stored : entry'[victim] = None =>
                     \A id \in Stored :
                        lastAccessed[entry[victim]] <= lastAccessed[entry[id]]
<1>1. IInv /\ Undisturbed /\ OrderedByAccess /\ [Next]_vars => [Oldest]_vars
  <2> SUFFICES ASSUME IInv, Undisturbed, OrderedByAccess, [Next]_vars PROVE [Oldest]_vars
    OBVIOUS
  <2>1. CASE UNCHANGED entry
    BY <2>1 DEF Stored
  <2>2. ASSUME NEW t \in Threads, CreateInPlace(t) PROVE Oldest
    <3>1. PICK o \in Objects : Creating(t, o, req[t]) /\ InPlace(o, req[t])
      BY <2>2, CreateInPlaceForm
    <3>2. \A id \in Stored : entry'[id] # None
      BY <3>1 DEF InPlace, Stored, IInv, TypeOK
    <3> QED
      BY <3>2
  <2>3. ASSUME NEW t \in Threads, CreateEvicting(t), mode = "event_loop" PROVE Oldest
    <3>1. PICK o \in Objects, victim \in Ids :
             Creating(t, o, req[t]) /\ Evicting(o, req[t], victim)
      BY <2>3, CreateEvictingForm
    <3>2. \A id \in Stored : entry'[id] = None => id = victim
      BY <3>1 DEF Evicting, Creating, Stored, IInv, TypeOK, CallsConsistent
    <3>3. victim \in Stored /\ \A id \in Stored \ {victim} : <<victim, id>> \in older
      BY <3>1 DEF Evicting, IsFirst
    <3>4. \A u \in Threads : found[u] = None
      BY <2>3, <3>1 DEF Creating, Evicting, Undisturbed, IInv, TypeOK, CallsConsistent
    <3>5. ASSUME NEW id \in Stored
          PROVE  lastAccessed[entry[victim]] <= lastAccessed[entry[id]]
      <4>1. lastAccessed[entry[victim]] \in Nat
        BY <3>3 DEF Stored, IInv, TypeOK
      <4>2. CASE id = victim
        BY <4>1, <4>2
      <4>3. CASE id # victim
        <5>1. <<victim, id>> \in older
          BY <3>3, <3>5, <4>3
        <5> QED
          BY <2>3, <3>3, <3>4, <3>5, <5>1 DEF OrderedByAccess
      <4> QED
        BY <4>2, <4>3
    <3> QED
      BY <3>2, <3>5
  <2> QED
    BY <2>1, <2>2, <2>3 DEF Next, vars, store, Begin, Lookup, TouchAlive, TouchExpired,
       ReturnCurrent, Release, Tick
<1> QED
  BY <1>1, OrderedByAccessInvariance, PTL DEF Spec, LeastRecentlyUsedEvicted
-----------------------------------------------------------------------------
(* What the callers rely on *)

LEMMA UnreferencedIsFresh ==
    ASSUME NEW o \in Unreferenced
    PROVE  Map!Fresh(o)
BY DEF Unreferenced, Map!Fresh

\* The instance has a Cardinality of its own, of the same definition.
LEMMA SameCardinality == \A S : Map!Cardinality(S) = Cardinality(S)
BY DEF Map!Cardinality, Cardinality

LEMMA MapOpen ==
    ASSUME NEW t, NEW id, NEW o, Map!Fresh(o), Map!Give(t, o),
           id \in Map!Stored \/ Cardinality(Map!Stored) < MaxSessions,
           entry' = [entry EXCEPT ![id] = o]
    PROVE  Map!Open(t, id, o)
BY SameCardinality DEF Map!Open

LEMMA MapOpenEvicting ==
    ASSUME NEW t, NEW id, NEW o, Map!Fresh(o), Map!Give(t, o),
           id \notin Map!Stored, Cardinality(Map!Stored) >= MaxSessions,
           NEW victim \in Map!Stored, entry' = [entry EXCEPT ![victim] = None, ![id] = o]
    PROVE  Map!OpenEvicting(t, id, o)
BY SameCardinality DEF Map!OpenEvicting

\* On the event loop SessionStore implements SessionMap: each step of a call is a step
\* of the map or leaves it as it is.
THEOREM AtomicOnEventLoopHolds == Spec => AtomicOnEventLoop
<1> DEFINE MapStep == mode = "event_loop" => [Map!Next]_<<entry, result>>
<1>1. Init => Map!Init
  BY DEF Init, Map!Init
<1>2. IInv /\ Undisturbed /\ [Next]_vars => [MapStep]_vars
  <2> SUFFICES ASSUME IInv, Undisturbed, Next, mode = "event_loop"
               PROVE  Map!Next \/ UNCHANGED <<entry, result>>
    OBVIOUS
  <2> USE DEF IInv, TypeOK, CallsConsistent
  <2>1. ASSUME NEW t \in Threads, NEW id \in Ids, Begin(t, id)
        PROVE  UNCHANGED <<entry, result>>
    BY <2>1 DEF Begin, store
  <2>2. ASSUME NEW t \in Threads, Lookup(t) \/ TouchExpired(t)
        PROVE  UNCHANGED <<entry, result>>
    BY <2>2 DEF Lookup, TouchExpired, store
  <2>3. ASSUME NEW t \in Threads, TouchAlive(t) PROVE Map!Next
    <3>1. /\ req[t] \in Ids /\ result[t] = None
          /\ entry[req[t]] = found[t] /\ found[t] # None
      BY <2>3 DEF TouchAlive, Undisturbed
    <3>2. result' = [result EXCEPT ![t] = entry[req[t]]] /\ entry' = entry
      BY <2>3, <3>1 DEF TouchAlive, Return, store
    <3>3. Map!Rejoin(t, req[t])
      BY <3>1, <3>2 DEF Map!Rejoin, Map!Give
    <3> QED
      BY <3>1, <3>3 DEF Map!Next
  <2>4. ASSUME NEW t \in Threads, ReturnCurrent(t) PROVE FALSE
    BY <2>4 DEF ReturnCurrent, Undisturbed
  <2>5. ASSUME NEW t \in Threads, CreateInPlace(t) PROVE Map!Next
    <3>1. PICK o \in Objects : Creating(t, o, req[t]) /\ InPlace(o, req[t])
      BY <2>5, CreateInPlaceForm
    <3>2. req[t] \in Ids /\ result[t] = None /\ Map!Fresh(o)
      BY <3>1, UnreferencedIsFresh DEF Creating
    <3>3. Map!Stored = Stored
      BY DEF Map!Stored, Stored
    <3>4. req[t] \in Map!Stored \/ Cardinality(Map!Stored) < MaxSessions
      <4>1. req[t] \in Stored \/ Cardinality(Stored) < MaxSessions
        BY <3>1 DEF InPlace
      <4> QED
        BY <3>3, <4>1, Zenon
    <3>5. Map!Give(t, o)
      BY <3>1, <3>2 DEF Map!Give, Creating
    <3>6. entry' = [entry EXCEPT ![req[t]] = o]
      BY <3>1 DEF InPlace
    <3>7. Map!Open(t, req[t], o)
      BY <3>2, <3>4, <3>5, <3>6, MapOpen
    <3> QED
      BY <3>2, <3>7 DEF Map!Next
  <2>6. ASSUME NEW t \in Threads, CreateEvicting(t) PROVE Map!Next
    <3>1. PICK o \in Objects, victim \in Ids :
             Creating(t, o, req[t]) /\ Evicting(o, req[t], victim)
      BY <2>6, CreateEvictingForm
    <3>2. req[t] \in Ids /\ result[t] = None /\ Map!Fresh(o)
      BY <3>1, UnreferencedIsFresh DEF Creating
    <3>3. Map!Stored = Stored /\ Cardinality(Map!Stored) >= MaxSessions
      <4>1. Cardinality(Stored) >= MaxSessions
        BY <2>6 DEF CreateEvicting
      <4>2. Map!Stored = Stored
        BY DEF Map!Stored, Stored
      <4> QED
        BY <4>1, <4>2, Zenon
    <3>4. victim \in Map!Stored /\ req[t] \notin Map!Stored
      BY <3>1, <3>3 DEF Evicting, IsFirst, Stored
    <3>5. Map!Give(t, o)
      BY <3>1, <3>2 DEF Map!Give, Creating
    <3>6. entry' = [entry EXCEPT ![victim] = None, ![req[t]] = o]
      BY <3>1 DEF Evicting
    <3>7. Map!OpenEvicting(t, req[t], o)
      BY <3>2, <3>3, <3>4, <3>5, <3>6, MapOpenEvicting
    <3> QED
      BY <3>2, <3>7 DEF Map!Next
  <2>7. ASSUME NEW t \in Threads, Release(t) PROVE Map!Next
    <3>1. Map!Release(t)
      BY <2>7 DEF Release, store, Map!Release
    <3> QED
      BY <3>1 DEF Map!Next
  <2>8. Tick => UNCHANGED <<entry, result>>
    BY DEF Tick, store
  <2> QED
    BY <2>1, <2>2, <2>3, <2>4, <2>5, <2>6, <2>7, <2>8 DEF Next
<1> QED
  BY <1>1, <1>2, UndisturbedInvariance, PTL DEF Spec, AtomicOnEventLoop
=============================================================================
