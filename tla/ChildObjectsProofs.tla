------------------------- MODULE ChildObjectsProofs -------------------------
(***************************************************************************)
(* The helpers take nothing from others, for any number of workers, any    *)
(* objects and contents: an update changes what was stored when the helper *)
(* looked, and only what it keeps up to date.                              *)
(***************************************************************************)
EXTENDS ChildObjects, TLAPS

(* A cache is behind, or has what is stored.                                *)
Copies ==
  \A w \in Workers, k \in Kinds :
    /\ cache[w][k].version <= version[k]
    /\ cache[w][k].version = version[k] => cache[w][k].object = object[k]

(* What a helper is about to write is behind, or was made of what is stored.*)
CallCurrent(c) ==
  c # Nil /\ c.step = "update" =>
    /\ c.version <= version[c.kind]
    /\ c.version = version[c.kind] =>
         /\ object[c.kind] # Nil
         /\ c.found = Updated(c.kind, object[c.kind], c.wanted)

CallsCurrent == \A w \in Workers : CallCurrent(call[w])

IInv == TypeOK /\ Copies /\ CallsCurrent

GoodCall(c) ==
  c # Nil => c \in CallRecord /\ (c.step = "update" <=> c.found # Nil)

(* The worker returns, or comes to a step that writes nothing it has read.  *)
Harmless(w) ==
  \E c : /\ call' = [call EXCEPT ![w] = c]
         /\ GoodCall(c)
         /\ c = Nil \/ c.step # "update"

(* An object changes only together with its version.                        *)
Moved ==
  \A k \in Kinds : \/ object'[k] = object[k] /\ version'[k] = version[k]
                   \/ version'[k] = version[k] + 1

(***************************************************************************)
(* What the parts of a step do.                                            *)
(***************************************************************************)
LEMMA StoreMoves ==
  ASSUME TypeOK, NEW k \in Kinds, NEW new \in Content \cup {Nil}, Store(k, new)
  PROVE  /\ Moved
         /\ object' \in [Kinds -> Content \cup {Nil}]
         /\ version' \in [Kinds -> Nat]
BY DEF TypeOK, Store, Moved

LEMMA CopiesKept ==
  ASSUME TypeOK, Copies, Moved, UNCHANGED cache
  PROVE  Copies'
<1> SUFFICES ASSUME NEW w \in Workers, NEW k \in Kinds
             PROVE  /\ cache[w][k].version <= version'[k]
                    /\ cache[w][k].version = version'[k] =>
                         cache[w][k].object = object'[k]
  BY DEF Copies
<1>1. cache[w][k].version \in Nat /\ version[k] \in Nat
  BY DEF TypeOK
<1>2. /\ cache[w][k].version <= version[k]
      /\ cache[w][k].version = version[k] => cache[w][k].object = object[k]
  BY DEF Copies
<1> QED BY <1>1, <1>2 DEF Moved

LEMMA CallsKept ==
  ASSUME TypeOK, CallsCurrent, Moved,
         \A w \in Workers : \/ call'[w] = call[w]
                            \/ call'[w] = Nil
                            \/ call'[w].step # "update"
  PROVE  CallsCurrent'
<1> SUFFICES ASSUME NEW w \in Workers,
                    call'[w] = call[w], call[w] # Nil, call[w].step = "update"
             PROVE  CallCurrent(call[w])'
  BY DEF CallsCurrent, CallCurrent
<1> DEFINE c == call[w]
<1>1. c.version \in Nat /\ c.kind \in Kinds /\ version[c.kind] \in Nat
  BY DEF TypeOK, CallRecord
<1>2. /\ c.version <= version[c.kind]
      /\ c.version = version[c.kind] =>
           /\ object[c.kind] # Nil
           /\ c.found = Updated(c.kind, object[c.kind], c.wanted)
  BY DEF CallsCurrent, CallCurrent
<1>3. \/ object'[c.kind] = object[c.kind] /\ version'[c.kind] = version[c.kind]
      \/ version'[c.kind] = version[c.kind] + 1
  BY <1>1 DEF Moved
<1>4. /\ c.version <= version'[c.kind]
      /\ c.version = version'[c.kind] =>
           /\ object'[c.kind] # Nil
           /\ c.found = Updated(c.kind, object'[c.kind], c.wanted)
  BY <1>1, <1>2, <1>3
<1> QED BY <1>4 DEF CallCurrent, Updated

LEMMA WantedContent ==
  ASSUME TypeOK, NEW k \in Kinds
  PROVE  Wanted(k) \in Content
<1>1. wish.role \in Values /\ wish.rest \in Values
  BY DEF TypeOK
<1>2. Default \in Values
  BY <1>1 DEF Default
<1> QED BY <1>1, <1>2 DEF Wanted, Content

LEMMA ContentsContent ==
  ASSUME TypeOK, NEW k \in Kinds
  PROVE  Contents(k) \subseteq Content
<1>1. Default \in Values
  BY DEF TypeOK, Default
<1> QED BY <1>1 DEF Contents, Content

LEMMA StartsHarmless ==
  ASSUME TypeOK, NEW w \in Workers, NEW k \in Kinds, Starts(w, k)
  PROVE  Harmless(w)
<1> DEFINE c == [step |-> "get", kind |-> k, wanted |-> Wanted(k),
                 found |-> Nil, version |-> 0]
<1>1. c \in CallRecord /\ c.step = "get" /\ c.found = Nil
  BY WantedContent DEF CallRecord
<1>2. GoodCall(c)
  BY <1>1 DEF GoodCall
<1>3. call' = [call EXCEPT ![w] = c]
  BY DEF Starts
<1> HIDE DEF c
<1> QED BY <1>1, <1>2, <1>3 DEF Harmless

LEMMA FailHarmless ==
  ASSUME NEW w \in Workers, Fail(w)
  PROVE  Harmless(w)
BY DEF Fail, Harmless, GoodCall

LEMMA ContinueHarmless ==
  ASSUME TypeOK, NEW w \in Workers, call[w] # Nil, Continue(w)
  PROVE  Harmless(w)
<1>1. CASE call[w].kind \in ServiceAccounts
  <2>1. call[w].kind \in Kinds
    BY DEF TypeOK, CallRecord
  <2>2. BindingOf(call[w].kind) \in Kinds
    BY <1>1, <2>1, ChildAssumption
  <2> QED BY <1>1, <2>2, StartsHarmless DEF Continue
<1>2. CASE call[w].kind \notin ServiceAccounts
  BY <1>2, FailHarmless DEF Continue, Fail
<1> QED BY <1>1, <1>2

LEMMA FaultCounted ==
  ASSUME TypeOK, faults < MaxFaults, faults' = faults + 1
  PROVE  faults' \in 0 .. MaxFaults
BY ChildAssumption DEF TypeOK

(* A harmless step of a worker, with or without a store.                    *)
LEMMA HarmlessInvariant ==
  ASSUME IInv, NEW w \in Workers, Harmless(w), Moved,
         object' \in [Kinds -> Content \cup {Nil}],
         version' \in [Kinds -> Nat],
         faults' \in 0 .. MaxFaults,
         UNCHANGED <<wish, cache, edits>>
  PROVE  IInv'
<1>1. PICK c : /\ call' = [call EXCEPT ![w] = c]
               /\ GoodCall(c)
               /\ c = Nil \/ c.step # "update"
  BY DEF Harmless
<1>2. \A v \in Workers : call'[v] = IF v = w THEN c ELSE call[v]
  BY <1>1 DEF IInv, TypeOK
<1>3. /\ call' \in [Workers -> CallRecord \cup {Nil}]
      /\ \A v \in Workers :
           call'[v] # Nil => (call'[v].step = "update" <=> call'[v].found # Nil)
  BY <1>1, <1>2 DEF IInv, TypeOK, GoodCall
<1>4. TypeOK'
  BY <1>3 DEF IInv, TypeOK
<1>5. Copies'
  BY CopiesKept DEF IInv
<1>6. CallsCurrent'
  BY <1>1, <1>2, CallsKept DEF IInv
<1> QED BY <1>4, <1>5, <1>6 DEF IInv

LEMMA NothingMoved ==
  ASSUME UNCHANGED <<object, version>>
  PROVE  Moved
BY DEF Moved

(***************************************************************************)
(* The steps.                                                              *)
(***************************************************************************)
LEMMA InitInvariant ==
  ASSUME Init
  PROVE  IInv
<1>1. TypeOK
  <2>1. edits \in 0 .. MaxEdits /\ faults \in 0 .. MaxFaults
    BY ChildAssumption DEF Init
  <2>2. wish \in [role : Values, rest : Values]
    BY DEF Init, Default
  <2> QED BY <2>1, <2>2 DEF Init, TypeOK
<1>2. Copies /\ CallsCurrent
  BY DEF Init, Copies, CallsCurrent, CallCurrent
<1> QED BY <1>1, <1>2 DEF IInv

LEMMA EditInvariant ==
  ASSUME IInv,
         \/ \E new \in [role : Values, rest : Values] : ChangeWish(new)
         \/ \E k \in Kinds : \E new \in Contents(k) \cup {Nil} : ChangeObject(k, new)
  PROVE  IInv'
<1>1. edits' \in 0 .. MaxEdits
  BY ChildAssumption DEF IInv, TypeOK, ChangeWish, ChangeObject, Edit
<1>2. UNCHANGED <<cache, call, faults>>
  BY DEF ChangeWish, ChangeObject
<1>3. /\ Moved
      /\ object' \in [Kinds -> Content \cup {Nil}]
      /\ version' \in [Kinds -> Nat]
  <2>1. CASE \E new \in [role : Values, rest : Values] : ChangeWish(new)
    BY <2>1, NothingMoved DEF ChangeWish, IInv, TypeOK
  <2>2. CASE \E k \in Kinds : \E new \in Contents(k) \cup {Nil} : ChangeObject(k, new)
    BY <2>2, ContentsContent, StoreMoves DEF ChangeObject, IInv
  <2> QED BY <2>1, <2>2
<1>4. wish' \in [role : Values, rest : Values]
  BY DEF ChangeWish, ChangeObject, IInv, TypeOK
<1>5. TypeOK'
  BY <1>1, <1>2, <1>3, <1>4 DEF IInv, TypeOK
<1>6. Copies'
  BY <1>2, <1>3, CopiesKept DEF IInv
<1>7. CallsCurrent'
  BY <1>2, <1>3, CallsKept DEF IInv
<1> QED BY <1>5, <1>6, <1>7 DEF IInv

LEMMA SyncInvariant ==
  ASSUME IInv, NEW w \in Workers, NEW k \in Kinds, Sync(w, k)
  PROVE  IInv'
<1>1. /\ cache' = [cache EXCEPT ![w][k] = [object |-> object[k],
                                          version |-> version[k]]]
      /\ UNCHANGED <<wish, object, version, call, edits, faults>>
  BY DEF Sync
<1>2. object[k] \in Content \cup {Nil} /\ version[k] \in Nat
  BY DEF IInv, TypeOK
<1>3. TypeOK'
  BY <1>1, <1>2 DEF IInv, TypeOK
<1>4. \A v \in Workers, j \in Kinds :
        cache'[v][j] = IF v = w /\ j = k
                         THEN [object |-> object[k], version |-> version[k]]
                         ELSE cache[v][j]
  BY <1>1 DEF IInv, TypeOK
<1>5. Copies'
  BY <1>1, <1>2, <1>4 DEF IInv, Copies
<1>6. CallsCurrent'
  BY <1>1, CallsKept, NothingMoved DEF IInv
<1> QED BY <1>3, <1>5, <1>6 DEF IInv

LEMMA BeginInvariant ==
  ASSUME IInv, NEW w \in Workers, NEW k \in Kinds, Begin(w, k)
  PROVE  IInv'
<1>1. Harmless(w)
  BY StartsHarmless DEF Begin, IInv
<1>2. UNCHANGED <<wish, object, version, cache, edits, faults>>
  BY DEF Begin
<1> QED BY <1>1, <1>2, NothingMoved, HarmlessInvariant DEF IInv, TypeOK

LEMMA GetMissingInvariant ==
  ASSUME IInv, NEW w \in Workers, GetMissing(w)
  PROVE  IInv'
<1> DEFINE c == [call[w] EXCEPT !.step = "create"]
<1>1. call[w] \in CallRecord /\ call[w].step = "get" /\ call[w].found = Nil
  BY DEF GetMissing, IInv, TypeOK
<1>2. c \in CallRecord /\ c.step = "create" /\ c.found = Nil
  BY <1>1 DEF CallRecord
<1>3. call' = [call EXCEPT ![w] = c]
  BY DEF GetMissing
<1> HIDE DEF c
<1>4. Harmless(w)
  BY <1>2, <1>3 DEF Harmless, GoodCall
<1>5. UNCHANGED <<wish, object, version, cache, edits, faults>>
  BY DEF GetMissing
<1> QED BY <1>4, <1>5, NothingMoved, HarmlessInvariant DEF IInv, TypeOK

(* What is prepared to be written is of what the cache had.                 *)
LEMMA GetFoundInvariant ==
  ASSUME IInv, NEW w \in Workers, GetFound(w)
  PROVE  IInv'
<1> DEFINE k == call[w].kind
           seen == cache[w][k]
           new == Updated(k, seen.object, call[w].wanted)
           c == [call[w] EXCEPT !.step = "update", !.version = seen.version,
                                !.found = new]
<1>1. /\ call[w] # Nil /\ call[w] \in CallRecord /\ k \in Kinds
      /\ seen.object \in Content /\ seen.version \in Nat
      /\ call[w].wanted \in Content
  BY DEF GetFound, IInv, TypeOK, CallRecord
<1>2. UNCHANGED <<wish, object, version, cache, edits, faults>>
  BY DEF GetFound
<1>3. CASE Continue(w)
  <2>1. Harmless(w)
    BY <1>1, <1>3, ContinueHarmless DEF IInv
  <2> QED BY <1>2, <2>1, NothingMoved, HarmlessInvariant DEF IInv, TypeOK
<1>4. CASE call' = [call EXCEPT ![w] = c]
  <2>1. new \in Content /\ new # Nil
    BY <1>1, ChildAssumption DEF Updated, Content
  <2> HIDE DEF new
  <2>2. /\ c \in CallRecord /\ c.step = "update" /\ c.found = new
        /\ c.kind = k /\ c.version = seen.version
        /\ c.wanted = call[w].wanted
    BY <1>1, <2>1 DEF CallRecord
  <2>3. /\ seen.version <= version[k]
        /\ seen.version = version[k] =>
             object[k] # Nil /\ new = Updated(k, object[k], call[w].wanted)
    BY <1>1, ChildAssumption DEF IInv, Copies, new
  <2> HIDE DEF c, seen, k
  <2>4. CallCurrent(c)
    BY <2>2, <2>3 DEF CallCurrent
  <2>5. \A v \in Workers : call'[v] = IF v = w THEN c ELSE call[v]
    BY <1>4 DEF IInv, TypeOK
  <2>6. /\ call' \in [Workers -> CallRecord \cup {Nil}]
        /\ \A v \in Workers :
             call'[v] # Nil => (call'[v].step = "update" <=> call'[v].found # Nil)
    BY <1>4, <2>1, <2>2, <2>5 DEF IInv, TypeOK
  <2>7. TypeOK'
    BY <1>2, <2>6 DEF IInv, TypeOK
  <2>8. Copies'
    BY <1>2 DEF IInv, Copies
  <2>9. CallsCurrent'
    BY <1>2, <2>4, <2>5 DEF IInv, CallsCurrent, CallCurrent, Updated
  <2> QED BY <2>7, <2>8, <2>9 DEF IInv
<1>5. QED BY <1>3, <1>4 DEF GetFound

LEMMA CreateInvariant ==
  ASSUME IInv, NEW w \in Workers, Create(w)
  PROVE  IInv'
<1>1. /\ call[w] # Nil /\ call[w].kind \in Kinds /\ call[w].wanted \in Content
      /\ Store(call[w].kind, call[w].wanted)
  BY DEF Create, IInv, TypeOK, CallRecord
<1>2. Harmless(w)
  BY <1>1, ContinueHarmless, FailHarmless DEF Create, LoseAnswer, IInv
<1>3. faults' \in 0 .. MaxFaults
  BY FaultCounted DEF Create, LoseAnswer, IInv, TypeOK
<1>4. UNCHANGED <<wish, cache, edits>>
  BY DEF Create
<1> QED BY <1>1, <1>2, <1>3, <1>4, StoreMoves, HarmlessInvariant DEF IInv

LEMMA UpdateInvariant ==
  ASSUME IInv, NEW w \in Workers, Update(w)
  PROVE  IInv'
<1>1. /\ call[w] # Nil /\ call[w].kind \in Kinds
      /\ call[w].found \in Content \cup {Nil}
      /\ Store(call[w].kind, call[w].found)
  BY DEF Update, IInv, TypeOK, CallRecord
<1>2. Harmless(w)
  BY <1>1, ContinueHarmless, FailHarmless DEF Update, LoseAnswer, IInv
<1>3. faults' \in 0 .. MaxFaults
  BY FaultCounted DEF Update, LoseAnswer, IInv, TypeOK
<1>4. UNCHANGED <<wish, cache, edits>>
  BY DEF Update
<1> QED BY <1>1, <1>2, <1>3, <1>4, StoreMoves, HarmlessInvariant DEF IInv

(* A request is refused, or lost.                                           *)
LEMMA FailureInvariant ==
  ASSUME IInv, NEW w \in Workers, Refused(w) \/ LoseRequest(w)
  PROVE  IInv'
<1>1. Harmless(w)
  BY FailHarmless DEF Refused, LoseRequest, LoseAnswer
<1>2. faults' \in 0 .. MaxFaults
  BY FaultCounted DEF Refused, LoseRequest, LoseAnswer, IInv, TypeOK
<1>3. UNCHANGED <<wish, object, version, cache, edits>>
  BY DEF Refused, LoseRequest
<1> QED BY <1>1, <1>2, <1>3, NothingMoved, HarmlessInvariant DEF IInv, TypeOK

LEMMA NextInvariant ==
  ASSUME IInv, [Next]_vars
  PROVE  IInv'
<1>1. CASE \/ \E new \in [role : Values, rest : Values] : ChangeWish(new)
           \/ \E k \in Kinds : \E new \in Contents(k) \cup {Nil} : ChangeObject(k, new)
  BY <1>1, EditInvariant
<1>2. CASE \E w \in Workers, k \in Kinds : Begin(w, k) \/ Sync(w, k)
  BY <1>2, BeginInvariant, SyncInvariant
<1>3. CASE \E w \in Workers : WorkerStep(w) \/ LoseRequest(w)
  BY <1>3, GetMissingInvariant, GetFoundInvariant, CreateInvariant,
     UpdateInvariant, FailureInvariant DEF WorkerStep
<1>4. CASE UNCHANGED vars
  BY <1>4 DEF vars, IInv, TypeOK, Copies, CallsCurrent, CallCurrent, Updated
<1> QED BY <1>1, <1>2, <1>3, <1>4 DEF Next

LEMMA Invariant == Spec => []IInv
BY InitInvariant, NextInvariant, PTL DEF Spec

(***************************************************************************)
(* The theorems.                                                           *)
(***************************************************************************)
(* The values are of their types, and a helper has prepared an object       *)
(* exactly if it is about to update.                                        *)
THEOREM TypeCorrect == Spec => []TypeOK
BY Invariant, PTL DEF IInv

(* What an update writes over an object is that object with main replaced.  *)
LEMMA UpdateKeepsRest ==
  ASSUME IInv, NEW w \in Workers, Update(w)
  PROVE  LET c == call[w]
         IN /\ object[c.kind] # Nil
            /\ c.found = [object[c.kind] EXCEPT !.main = c.wanted.main]
<1> DEFINE c == call[w]
           old == object[c.kind]
<1>1. /\ c # Nil /\ c.step = "update" /\ c.version = version[c.kind]
      /\ c \in CallRecord /\ Allowed(c.kind, c.found)
  BY DEF Update, IInv, TypeOK
<1>2. old # Nil /\ c.found = Updated(c.kind, old, c.wanted)
  BY <1>1 DEF IInv, CallsCurrent, CallCurrent
<1>3. old \in Content /\ c.wanted \in Content
  BY <1>1, <1>2 DEF IInv, TypeOK, CallRecord
<1>4. c.kind \in Bindings => c.found.fixed = old.fixed
  BY <1>1, <1>2 DEF Allowed
<1> HIDE DEF c, old
<1>5. CASE c.kind \in Bindings
  <2>1. c.found = [old EXCEPT !.fixed = c.wanted.fixed, !.main = c.wanted.main]
    BY <1>2, <1>5 DEF Updated
  <2>2. c.wanted.fixed = old.fixed
    BY <1>3, <1>4, <1>5, <2>1 DEF Content
  <2>3. c.found = [old EXCEPT !.main = c.wanted.main]
    BY <1>3, <2>1, <2>2 DEF Content
  <2> QED BY <1>2, <2>3 DEF c, old
<1>6. CASE c.kind \notin Bindings
  <2>1. c.found = [old EXCEPT !.main = c.wanted.main]
    BY <1>2, <1>6 DEF Updated
  <2> QED BY <1>2, <2>1 DEF c, old
<1> QED BY <1>5, <1>6

(* Whatever others do meanwhile, the helpers replace no annotation, no role *)
(* and no spec but those they were called to keep up to date.               *)
THEOREM OnlyMainReplaced == Spec => OnlyMainChanges
<1> DEFINE Replaces ==
      \A w \in Workers : call'[w] # call[w] => \A k \in Kinds :
        object'[k] # object[k] =>
          /\ call[w].kind = k
          /\ object'[k] = IF object[k] = Nil THEN call[w].wanted
                          ELSE [object[k] EXCEPT !.main = call[w].wanted.main]
<1>1. IInv /\ [Next]_vars => [Replaces]_vars
  <2> SUFFICES ASSUME IInv, Next,
                      NEW w \in Workers, call'[w] # call[w],
                      NEW k \in Kinds, object'[k] # object[k]
               PROVE  /\ call[w].kind = k
                      /\ object'[k] =
                           IF object[k] = Nil THEN call[w].wanted
                           ELSE [object[k] EXCEPT !.main = call[w].wanted.main]
    BY DEF vars
  <2>1. PICK v \in Workers : Create(v) \/ Update(v)
    BY DEF Next, ChangeWish, ChangeObject, Sync, Begin, WorkerStep, GetMissing,
           GetFound, Refused, LoseRequest
  <2>2. v = w
    <3>1. Harmless(v)
      <4>1. call[v] # Nil
        BY <2>1 DEF Create, Update
      <4> QED BY <2>1, <4>1, ContinueHarmless, FailHarmless
              DEF Create, Update, LoseAnswer, IInv
    <3> QED BY <3>1 DEF Harmless, IInv, TypeOK
  <2>3. CASE Create(w)
    <3>1. object[call[w].kind] = Nil /\ Store(call[w].kind, call[w].wanted)
      BY <2>3 DEF Create
    <3> QED BY <3>1 DEF Store, IInv, TypeOK
  <2>4. CASE Update(w)
    <3>1. Store(call[w].kind, call[w].found)
      BY <2>4 DEF Update
    <3>2. call[w].kind = k /\ object'[k] = call[w].found
      BY <3>1 DEF Store, IInv, TypeOK
    <3> QED BY <2>4, <3>2, UpdateKeepsRest
  <2> QED BY <2>1, <2>2, <2>3, <2>4
<1> QED BY <1>1, Invariant, PTL DEF Spec, OnlyMainChanges
=============================================================================
