--------------------------- MODULE SessionProofs ---------------------------
(***************************************************************************)
(* Theorems about module Session, for any number of callers, any strings   *)
(* and any candidate pools that satisfy SessionAssumptions.                *)
(***************************************************************************)
EXTENDS Session, TLAPS

USE SessionAssumptions DEF Types, Maybe

\* What makes the properties inductive.  The two name maps are inverse of each
\* other; a surrogate recorded as a name has its reverse entry, and one recorded as
\* structured is an FF1 output; what callers hold and what was sent agree with that.
MapsInverse == \A v, s \in Texts : forward[v] = s <=> reverse[s] = v

NamesRegistered ==
    \A s \in Texts : reverse[s] # None => s \in Pool /\ known[s] \in NameTypes

Resolvable(s, ty) ==
    /\ s \in Texts
    /\ ty \in Types
    /\ ty \in NameTypes => reverse[s] # None
    /\ ty \in StructuredTypes => \E v \in Texts : Encrypt[ty][v] = s

\* The entry, or a snapshot of it, is of a substitution that was sent.
Minted(s, ty) == \E m \in sent : m.surrogate = s /\ m.type = ty

KnownResolvable ==
    \A s \in Texts : known[s] # None => Resolvable(s, known[s]) /\ Minted(s, known[s])

CallersConsistent ==
    \A c \in Callers :
        /\ pc[c] = "substitute" => span[c].text \in Texts /\ span[c].type \in Types
        /\ pc[c] = "resolve" =>
              /\ Resolvable(match[c].surrogate, match[c].type)
              /\ Minted(match[c].surrogate, match[c].type)
        /\ outcome[c] # "RehydrationError"

SentName(m) == m.type \in NameTypes /\ forward[m.real] = m.surrogate

SentStructured(m) ==
    /\ m.type \in StructuredTypes
    /\ Encrypt[m.type][m.real] = m.surrogate
    /\ known[m.surrogate] \in StructuredTypes

SentConsistent == \A m \in sent : SentName(m) \/ SentStructured(m)

IInv ==
    /\ TypeOK
    /\ MapsInverse
    /\ NamesRegistered
    /\ KnownResolvable
    /\ CallersConsistent
    /\ SentConsistent
-----------------------------------------------------------------------------
\* FF1 decryption under the type a value was encrypted for gives that value back.
LEMMA DecryptInvertsEncrypt ==
    ASSUME NEW ty \in StructuredTypes, NEW v \in Texts, Encrypt[ty][v] # None
    PROVE  Decrypt(ty, Encrypt[ty][v]) = Plain[v]
<1> DEFINE u == CHOOSE w \in Texts : Encrypt[ty][w] = Encrypt[ty][v]
<1>1. \E w \in Texts : Encrypt[ty][w] = Encrypt[ty][v]
  OBVIOUS
<1>2. u \in Texts /\ Encrypt[ty][u] = Encrypt[ty][v]
  BY <1>1
<1>3. Plain[u] = Plain[v]
  BY <1>2
<1>4. QED
  BY <1>3 DEF Decrypt

USE DEF IInv, TypeOK, MapsInverse, NamesRegistered, KnownResolvable, Resolvable,
        Minted, CallersConsistent, SentConsistent, SentName, SentStructured

LEMMA InitIInv == Init => IInv
BY DEF Init, NoSpan, NoMatch, Outcomes

LEMMA RecogniseIInv ==
    ASSUME IInv, NEW c \in Callers, NEW v \in Texts, NEW ty \in Types,
           Recognise(c, v, ty)
    PROVE  IInv'
BY DEF Recognise, object, Outcomes

LEMMA PassThroughIInv ==
    ASSUME IInv, NEW c \in Callers, PassThrough(c)
    PROVE  IInv'
BY DEF PassThrough, Finish, NoSpan, object, Outcomes

LEMMA LookupNameIInv ==
    ASSUME IInv, NEW c \in Callers, LookupName(c)
    PROVE  IInv'
BY DEF LookupName, Finish, Send, NoSpan, object, Outcomes

LEMMA ExhaustNamesIInv ==
    ASSUME IInv, NEW c \in Callers, ExhaustNames(c)
    PROVE  IInv'
BY DEF ExhaustNames, Finish, NoSpan, object, Outcomes

LEMMA RejectSpanIInv ==
    ASSUME IInv, NEW c \in Callers, RejectSpan(c)
    PROVE  IInv'
BY DEF RejectSpan, Finish, NoSpan, object, Outcomes

LEMMA SnapshotIInv ==
    ASSUME IInv, NEW c \in Callers, NEW s \in Texts, Snapshot(c, s)
    PROVE  IInv'
BY DEF Snapshot, object, Outcomes

\* A new name: v gets the free candidate s.  The candidate is in no map yet, so the
\* maps stay inverse, and it was not an FF1 output, so no structured entry is lost.
LEMMA AllocateNameIInv ==
    ASSUME IInv, NEW c \in Callers, AllocateName(c)
    PROVE  IInv'
<1> DEFINE v == span[c].text
           ty == span[c].type
<1>1. PICK s \in Free(ty) :
         /\ forward' = [forward EXCEPT ![v] = s]
         /\ reverse' = [reverse EXCEPT ![s] = v]
         /\ known' = [known EXCEPT ![s] = ty]
         /\ Send(c, s)
  BY DEF AllocateName
<1>2. /\ v \in Texts /\ ty \in NameTypes /\ pc[c] = "substitute"
      /\ forward[v] = None
      /\ Finish(c, "ok")
  BY DEF AllocateName
<1>3. s \in Texts /\ s \in Pool /\ reverse[s] = None
  BY <1>1, <1>2 DEF Free, Pool
<1>4. known[s] \notin StructuredTypes
  BY <1>3 DEF Pool
<1>5. TypeOK'
  BY <1>1, <1>2, <1>3 DEF Send, Finish, NoSpan, Outcomes
<1>6. MapsInverse'
  BY <1>1, <1>2, <1>3
<1>7. NamesRegistered' /\ KnownResolvable'
  <2>1. /\ sent \subseteq sent'
        /\ \E m \in sent' : m.surrogate = s /\ m.type = ty
    <3> DEFINE new == [real |-> span[c].text, surrogate |-> s, type |-> ty]
    <3>1. sent' = sent \cup {new}
      BY <1>1 DEF Send
    <3>2. new.surrogate = s /\ new.type = ty
      OBVIOUS
    <3>3. new \in sent' /\ sent \subseteq sent'
      BY <3>1
    <3> HIDE DEF new
    <3>4. QED
      BY <3>2, <3>3
  <2>2. known'[s] = ty /\ reverse'[s] = v /\ v # None
    BY <1>1, <1>2, <1>3
  <2>3. ASSUME NEW r \in Texts, r # s
        PROVE  known'[r] = known[r] /\ reverse'[r] = reverse[r]
    BY <1>1, <2>3
  <2>4. NamesRegistered'
    BY <1>2, <1>3, <2>2, <2>3
  <2>5. ASSUME NEW r \in Texts, known'[r] # None
        PROVE  (Resolvable(r, known[r]) /\ Minted(r, known[r]))'
    <3>1. CASE r = s
      BY <1>2, <1>3, <2>1, <2>2, <3>1
    <3>2. CASE r # s
      <4>1. known'[r] = known[r] /\ reverse'[r] = reverse[r]
        BY <2>3, <3>2
      <4>2. Resolvable(r, known[r]) /\ Minted(r, known[r])
        BY <2>5, <4>1
      <4>3. Minted(r, known[r])'
        BY <2>1, <4>1, <4>2
      <4>4. Resolvable(r, known[r])'
        BY <4>1, <4>2
      <4>5. QED
        BY <4>3, <4>4
    <3>3. QED
      BY <3>1, <3>2
  <2>6. QED
    BY <2>4, <2>5
<1>8. CallersConsistent'
  <2>1. sent \subseteq sent'
    BY <1>1 DEF Send
  <2>2. ASSUME NEW d \in Callers, pc'[d] = "resolve"
        PROVE  /\ Resolvable(match[d].surrogate, match[d].type)'
               /\ Minted(match[d].surrogate, match[d].type)'
    <3>1. pc[d] = "resolve" /\ match' = match /\ d # c
      BY <1>2, <2>2 DEF Finish
    <3>2. /\ Resolvable(match[d].surrogate, match[d].type)
          /\ Minted(match[d].surrogate, match[d].type)
      BY <3>1
    <3>3. Resolvable(match[d].surrogate, match[d].type)'
      BY <1>1, <1>2, <1>3, <3>1, <3>2
    <3>4. QED
      BY <2>1, <3>1, <3>2, <3>3
  <2>3. QED
    BY <1>2, <2>2 DEF Finish
<1>9. SentConsistent'
  BY <1>1, <1>2, <1>3, <1>4 DEF Send
<1>10. QED
  BY <1>5, <1>6, <1>7, <1>8, <1>9

\* A structured value: its surrogate is outside every candidate pool, so the entry
\* written over was not a name's.
LEMMA EncryptSpanIInv ==
    ASSUME IInv, NEW c \in Callers, EncryptSpan(c)
    PROVE  IInv'
<1> DEFINE ty == span[c].type
           s == Encrypt[ty][span[c].text]
<1>1. /\ ty \in StructuredTypes /\ span[c].text \in Texts /\ s \in Texts
      /\ pc[c] = "substitute"
      /\ known' = [known EXCEPT ![s] = ty]
      /\ Send(c, s) /\ Finish(c, "ok")
      /\ UNCHANGED <<forward, reverse>>
  BY DEF EncryptSpan
<1>2. s \notin Pool /\ reverse[s] = None
  BY <1>1 DEF Pool
<1>3. TypeOK'
  BY <1>1 DEF Send, Finish, NoSpan, Outcomes
<1>4. MapsInverse' /\ NamesRegistered' /\ KnownResolvable'
  <2>1. MapsInverse'
    BY <1>1
  <2>2. known'[s] = ty /\ \A r \in Texts \ {s} : known'[r] = known[r]
    BY <1>1
  <2>3. NamesRegistered'
    BY <1>1, <1>2, <2>2
  <2>4. KnownResolvable'
    <3> DEFINE Fine(r) ==
            /\ known'[r] \in Types
            /\ known'[r] \in NameTypes => reverse'[r] # None
            /\ known'[r] \in StructuredTypes => \E v \in Texts : Encrypt[known'[r]][v] = r
    <3>1. Fine(s)
      <4>1. ty \in Types /\ ty \notin NameTypes /\ Encrypt[ty][span[c].text] = s
        BY <1>1
      <4>2. QED
        BY <1>1, <2>2, <4>1
    <3>2. ASSUME NEW r \in Texts, r # s, known'[r] # None
          PROVE  Fine(r)
      <4>1. known'[r] = known[r] /\ reverse'[r] = reverse[r]
        BY <1>1, <2>2, <3>2
      <4>2. QED
        BY <3>2, <4>1
    <3>3. /\ sent \subseteq sent'
          /\ \E m \in sent' : m.surrogate = s /\ m.type = ty
      <4> DEFINE new == [real |-> span[c].text, surrogate |-> s, type |-> ty]
      <4>1. sent' = sent \cup {new}
        BY <1>1 DEF Send
      <4>2. new.surrogate = s /\ new.type = ty
        OBVIOUS
      <4>3. new \in sent' /\ sent \subseteq sent'
        BY <4>1
      <4> HIDE DEF new
      <4>4. QED
        BY <4>2, <4>3
    <3>4. ASSUME NEW r \in Texts, known'[r] # None
          PROVE  \E m \in sent' : m.surrogate = r /\ m.type = known'[r]
      <4>1. CASE r = s
        BY <2>2, <3>3, <4>1
      <4>2. CASE r # s
        <5>1. known'[r] = known[r]
          BY <2>2, <4>2
        <5>2. PICK m \in sent : m.surrogate = r /\ m.type = known[r]
          BY <3>4, <5>1
        <5>3. QED
          BY <3>3, <5>1, <5>2
      <4>3. QED
        BY <4>1, <4>2
    <3>5. ASSUME NEW r \in Texts, known'[r] # None
          PROVE  Fine(r)
      BY <3>1, <3>2, <3>5
    <3>6. ASSUME NEW r \in Texts, known'[r] # None
          PROVE  Resolvable(r, known[r])'
      BY <3>5, <3>6
    <3>7. QED
      BY <3>4, <3>6
  <2>5. QED
    BY <2>1, <2>3, <2>4
<1>5. CallersConsistent'
  <2>1. sent \subseteq sent'
    BY <1>1 DEF Send
  <2>2. ASSUME NEW d \in Callers, pc'[d] = "resolve"
        PROVE  /\ Resolvable(match[d].surrogate, match[d].type)'
               /\ Minted(match[d].surrogate, match[d].type)'
    <3>1. pc[d] = "resolve" /\ match' = match
      BY <1>1, <2>2 DEF Finish
    <3>2. /\ Resolvable(match[d].surrogate, match[d].type)
          /\ Minted(match[d].surrogate, match[d].type)
      BY <3>1
    <3>3. Resolvable(match[d].surrogate, match[d].type)'
      BY <1>1, <3>1, <3>2
    <3>4. QED
      BY <2>1, <3>1, <3>2, <3>3
  <2>3. QED
    BY <1>1, <2>2 DEF Finish
<1>6. SentConsistent'
  BY <1>1, <1>2 DEF Send
<1>7. QED
  BY <1>3, <1>4, <1>5, <1>6

\* The match a snapshot left behind still resolves.
LEMMA ResolveIInv ==
    ASSUME IInv, NEW c \in Callers, Resolve(c)
    PROVE  IInv'
<1> DEFINE s == match[c].surrogate
           ty == match[c].type
<1>1. Resolvable(s, ty) /\ pc[c] = "resolve"
  BY DEF Resolve
<1>2. RealValue(s, ty) # None
  BY <1>1 DEF RealValue, Decrypt
<1>3. QED
  BY <1>2 DEF Resolve, NoMatch, object, Outcomes

LEMMA NextIInv == IInv /\ [Next]_vars => IInv'
<1> SUFFICES ASSUME IInv, [Next]_vars PROVE IInv'
  OBVIOUS
<1>1. CASE UNCHANGED vars
  BY <1>1 DEF vars
<1>2. ASSUME NEW c \in Callers, Substitute(c) PROVE IInv'
  BY <1>2, PassThroughIInv, LookupNameIInv, AllocateNameIInv, ExhaustNamesIInv,
     EncryptSpanIInv, RejectSpanIInv DEF Substitute
<1>3. ASSUME NEW c \in Callers, NEW v \in Texts, NEW ty \in Types, Recognise(c, v, ty)
      PROVE  IInv'
  BY <1>3, RecogniseIInv
<1>4. ASSUME NEW c \in Callers, NEW s \in Texts, Snapshot(c, s) PROVE IInv'
  BY <1>4, SnapshotIInv
<1>5. ASSUME NEW c \in Callers, Resolve(c) PROVE IInv'
  BY <1>5, ResolveIInv
<1>6. QED
  BY <1>1, <1>2, <1>3, <1>4, <1>5 DEF Next

THEOREM Invariance == Spec => []IInv
BY InitIInv, NextIInv, PTL DEF Spec
-----------------------------------------------------------------------------
\* The session's maps, its registry and its callers' state keep their types.
THEOREM TypeCorrect == Spec => []TypeOK
BY Invariance, PTL

\* Two real names never share a surrogate, and one name never has two, for any
\* number of concurrent callers.
THEOREM OneToOneHolds == Spec => []OneToOne
<1>1. IInv => OneToOne
  <2> SUFFICES ASSUME IInv,
                      NEW a \in sent, a.type \in NameTypes,
                      NEW b \in sent, b.type \in NameTypes
               PROVE  a.real = b.real <=> a.surrogate = b.surrogate
    BY DEF OneToOne
  <2>1. /\ forward[a.real] = a.surrogate /\ forward[b.real] = b.surrogate
        /\ a.real \in Texts /\ b.real \in Texts
        /\ a.surrogate \in Texts /\ b.surrogate \in Texts
    OBVIOUS
  <2>2. reverse[a.surrogate] = a.real /\ reverse[b.surrogate] = b.real
    BY <2>1
  <2>3. QED
    BY <2>1, <2>2
<1>2. QED
  BY <1>1, Invariance, PTL

\* Rehydration never meets a recorded name without a reverse entry.
THEOREM NoRehydrationErrorHolds == Spec => []NoRehydrationError
<1>1. IInv => NoRehydrationError
  BY DEF NoRehydrationError
<1>2. QED
  BY <1>1, Invariance, PTL

\* What a substitution's surrogate resolves to under its own type is what it replaced.
LEMMA OwnTypeInverts ==
    ASSUME IInv, NEW m \in sent
    PROVE  RealValue(m.surrogate, m.type) = Replaced(m)
<1>1. /\ m.real \in Texts /\ m.surrogate \in Texts /\ m.surrogate # None
      /\ SentName(m) \/ SentStructured(m)
  OBVIOUS
<1>2. CASE SentName(m)
  <2>1. reverse[m.surrogate] = m.real
    BY <1>1, <1>2
  <2>2. QED
    BY <1>2, <2>1 DEF RealValue, Replaced
<1>3. CASE SentStructured(m)
  <2>1. Decrypt(m.type, m.surrogate) = Plain[m.real]
    BY <1>1, <1>3, DecryptInvertsEncrypt
  <2>2. QED
    BY <1>3, <2>1 DEF RealValue, Replaced
<1>4. QED
  BY <1>1, <1>2, <1>3

\* Every substitution ever made can be undone: a name always, and a structured value
\* unless its surrogate has been filed under another structured type since.
THEOREM RoundTripHolds == Spec => []RoundTrip
<1>1. ASSUME IInv, NEW m \in sent
      PROVE  /\ known[m.surrogate] # None
             /\ \/ GivenBack(m.surrogate) = Replaced(m)
                \/ \E n \in sent :
                      /\ n.surrogate = m.surrogate
                      /\ n.type # m.type
                      /\ {m.type, n.type} \subseteq StructuredTypes
                      /\ GivenBack(m.surrogate) = Replaced(n)
  <2>1. m.real \in Texts /\ m.surrogate \in Texts
    BY <1>1
  <2>2. CASE SentName(m)
    <3>1. reverse[m.surrogate] = m.real
      BY <1>1, <2>1, <2>2
    <3>2. known[m.surrogate] \in NameTypes
      BY <1>1, <2>1, <3>1
    <3>3. QED
      BY <2>2, <3>1, <3>2 DEF RealValue, GivenBack, Replaced
  <2>3. CASE SentStructured(m)
    <3>1. PICK n \in sent : n.surrogate = m.surrogate /\ n.type = known[m.surrogate]
      BY <1>1, <2>1, <2>3 DEF Minted
    <3>2. GivenBack(m.surrogate) = Replaced(n)
      BY <1>1, <3>1, OwnTypeInverts DEF GivenBack
    <3>3. CASE n.type = m.type
      BY <1>1, <2>3, <3>1, <3>3, OwnTypeInverts DEF GivenBack
    <3>4. CASE n.type # m.type
      BY <2>3, <3>1, <3>2, <3>4
    <3>5. QED
      BY <2>3, <3>3, <3>4
  <2>4. QED
    BY <1>1, <2>2, <2>3
<1>2. IInv => RoundTrip
  BY <1>1 DEF RoundTrip
<1>3. QED
  BY <1>2, Invariance, PTL

\* A match resolved outside the lock, with the type its snapshot held, gets a value
\* the surrogate replaced in this session, whatever the entry says by then.
THEOREM RestoresWhatItReplacedHolds == Spec => []RestoresWhatItReplaced
<1>1. ASSUME IInv, NEW c \in Callers, pc[c] = "resolve"
      PROVE  \E m \in sent :
                /\ m.surrogate = match[c].surrogate
                /\ RealValue(match[c].surrogate, match[c].type) = Replaced(m)
  <2>1. PICK m \in sent : m.surrogate = match[c].surrogate /\ m.type = match[c].type
    BY <1>1 DEF Minted
  <2>2. QED
    BY <1>1, <2>1, OwnTypeInverts
<1>2. IInv => RestoresWhatItReplaced
  BY <1>1 DEF RestoresWhatItReplaced
<1>3. QED
  BY <1>2, Invariance, PTL

\* The name map implements the ledger: only allocation changes it, and it grants a
\* free surrogate to a value that has none.
THEOREM ImplementsLedgerHolds == Spec => ImplementsLedger
<1>1. Init => Ledger!Init
  BY DEF Init, Ledger!Init
<1>2. IInv /\ [Next]_vars => [Ledger!Next]_forward
  <2> SUFFICES ASSUME IInv, Next, forward' # forward
               PROVE  Ledger!Next
    BY DEF vars
  <2>1. PICK c \in Callers : AllocateName(c)
    BY DEF Next, Substitute, Recognise, PassThrough, LookupName, ExhaustNames,
           EncryptSpan, RejectSpan, Snapshot, Resolve, object
  <2>2. PICK s \in Free(span[c].type) :
           /\ forward' = [forward EXCEPT ![span[c].text] = s]
           /\ forward[span[c].text] = None
    BY <2>1 DEF AllocateName
  <2>3. span[c].text \in Texts /\ s \in Texts /\ reverse[s] = None
    BY <2>1, <2>2 DEF AllocateName, Free
  <2>4. s \notin Ledger!Granted
    BY <2>3 DEF Ledger!Granted
  <2>5. QED
    BY <2>2, <2>3, <2>4 DEF Ledger!Next, Ledger!Grant
<1>3. QED
  BY <1>1, <1>2, Invariance, PTL DEF Spec, ImplementsLedger, Ledger!Spec

\* The pool is exhausted only when distinct real values hold all of it.
THEOREM ExhaustedByDistinctValuesHolds == Spec => ExhaustedByDistinctValues
<1> DEFINE Exhausting(c) ==
        outcome'[c] = "NameListExhaustedError" /\ pc[c] = "substitute" /\ pc'[c] = "idle"
<1>1. ASSUME IInv, Next, NEW c \in Callers, Exhausting(c)
      PROVE  Candidates[span[c].type] \subseteq {forward[v] : v \in Texts}
  <2>1. ExhaustNames(c)
    <3>1. PICK d \in Callers :
             \/ \E v \in Texts, ty \in Types : Recognise(d, v, ty)
             \/ Substitute(d)
             \/ \E s \in Texts : Snapshot(d, s)
             \/ Resolve(d)
      BY <1>1 DEF Next
    <3>2. CASE Substitute(d)
      <4>1. pc' = [pc EXCEPT ![d] = "idle"]
        BY <3>2 DEF Substitute, PassThrough, LookupName, AllocateName, ExhaustNames,
               EncryptSpan, RejectSpan, Finish
      <4>2. d = c
        BY <1>1, <4>1
      <4>3. Substitute(c) => ExhaustNames(c) \/ Finish(c, "ok") \/ Finish(c, "SurrogateDomainError")
        BY DEF Substitute, PassThrough, LookupName, AllocateName, EncryptSpan, RejectSpan
      <4>4. ASSUME NEW how \in {"ok", "SurrogateDomainError"}, Finish(c, how) PROVE FALSE
        <5>1. outcome' = [outcome EXCEPT ![c] = how]
          BY <4>4 DEF Finish
        <5>2. c \in DOMAIN outcome
          BY <1>1 DEF IInv, TypeOK
        <5> QED
          BY <1>1, <5>1, <5>2
      <4>5. QED
        BY <3>2, <4>2, <4>3, <4>4
    <3>3. CASE ~Substitute(d)
      <4>1. ASSUME NEW v \in Texts, NEW ty \in Types, Recognise(d, v, ty)
            PROVE  FALSE
        BY <1>1, <4>1 DEF Recognise
      <4>2. ASSUME NEW s \in Texts, Snapshot(d, s) PROVE FALSE
        BY <1>1, <4>2 DEF Snapshot
      <4>3. ASSUME Resolve(d) PROVE FALSE
        <5>1. pc[d] = "resolve" /\ pc' = [pc EXCEPT ![d] = "idle"]
          BY <4>3 DEF Resolve
        <5>2. QED
          BY <1>1, <5>1
      <4>4. QED
        BY <3>1, <3>3, <4>1, <4>2, <4>3
    <3>4. QED
      BY <3>2, <3>3
  <2>2. ASSUME NEW s \in Candidates[span[c].type]
        PROVE  s \in {forward[v] : v \in Texts}
    <3>1. s \in Texts /\ reverse[s] # None
      BY <2>1, <2>2 DEF ExhaustNames, Free
    <3>2. reverse[s] \in Texts /\ forward[reverse[s]] = s
      BY <1>1, <3>1
    <3>3. QED
      BY <3>2
  <2>3. QED
    BY <2>2
<1>2. IInv /\ [Next]_vars =>
         [\A c \in Callers : Exhausting(c) =>
              Candidates[span[c].type] \subseteq {forward[v] : v \in Texts}]_vars
  BY <1>1
<1>3. QED
  BY <1>2, Invariance, PTL DEF Spec, ExhaustedByDistinctValues

=============================================================================
