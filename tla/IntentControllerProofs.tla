----------------------- MODULE IntentControllerProofs -----------------------
(***************************************************************************)
(* What the intent reconciler promises for all specs, bounds and numbers   *)
(* of events: its verdicts are of the generation they name, are written    *)
(* once for it and never go back.                                          *)
(*                                                                         *)
(* The argument is optimistic concurrency: resourceVersions are never used *)
(* twice, so a copy that carries the stored one is a copy of the stored    *)
(* object (CopiesAreTrue), and what the worker is about to write is the    *)
(* verdict of the copy it read (WorkIsTrue).  A write that is accepted     *)
(* therefore compiles the current spec, and one that would repeat a        *)
(* verdict is never started.                                               *)
(***************************************************************************)
EXTENDS IntentController, TLAPS

\* v may be held by the manager when the store is at r with object o: it is
\* older, or it is o.
TrueCopy(v, o, r) ==
  v # Absent =>
    /\ v.rv <= r
    /\ o # Absent /\ v.rv = o.rv => v = o

CopiesAreTrue ==
  /\ TrueCopy(cache, object, rv)
  /\ \A i \in 1..Len(feed) : TrueCopy(feed[i], object, rv)

WorkIsTrue ==
  pc = "writing" =>
    /\ working # Absent
    /\ working.rv <= rv
    /\ working.status = StatusOf(working.spec, working.generation)
    /\ object # Absent /\ working.rv = object.rv =>
         /\ working.spec = object.spec
         /\ working.generation = object.generation
         /\ working.status # object.status

HistoryIsTrue ==
  object # Absent =>
    /\ object.rv <= rv
    /\ Len(declared) = object.generation
    /\ object.spec = declared[object.generation]
    /\ writes <= ObservedGeneration(object.status)

NothingWrittenWhenAbsent == object = Absent => writes = 0 /\ declared = <<>>

IInv ==
  /\ TypeOK
  /\ CopiesAreTrue
  /\ WorkIsTrue
  /\ HistoryIsTrue
  /\ NothingWrittenWhenAbsent
  /\ VerdictIsOfItsGeneration

-----------------------------------------------------------------------------
(* Values *)

(***************************************************************************)
(* What Reconcile computes is a verdict, names its generation and is never *)
(* "no status" (communicationintent_controller.go:59-101).                 *)
(***************************************************************************)
LEMMA StatusIsVerdict ==
  ASSUME NEW s \in Specs, NEW g \in Nat
  PROVE  /\ StatusOf(s, g) \in Verdicts
         /\ StatusOf(s, g) # NoStatus
         /\ StatusOf(s, g).observedGeneration = g
<1>1. Compile(s) \in {Compile(t) : t \in Specs}
  OBVIOUS
<1>2. StatusOf(s, g) \in Verdicts
  BY <1>1 DEF StatusOf, Verdicts
<1>3. StatusOf(s, g).observedGeneration = g
  BY DEF StatusOf
<1>. QED
  BY <1>2, <1>3, IntentControllerAssumption

(***************************************************************************)
(* The generation a status names is a natural number, 0 for none.          *)
(***************************************************************************)
LEMMA ObservedIsNat ==
  ASSUME NEW st \in Verdicts \cup {NoStatus}
  PROVE  ObservedGeneration(st) \in Nat
BY DEF ObservedGeneration, Verdicts

(***************************************************************************)
(* The versions the API server stores: created, edited, with a new status. *)
(***************************************************************************)
LEMMA VersionsWellFormed ==
  ASSUME NEW r \in Nat
  PROVE  /\ \A s \in Specs :
              [rv |-> r, generation |-> 1, spec |-> s, status |-> NoStatus] \in Versions
         /\ \A v \in Versions, s \in Specs :
              [v EXCEPT !.rv = r, !.generation = @ + 1, !.spec = s] \in Versions
         /\ \A v \in Versions, st \in Verdicts \cup {NoStatus} :
              /\ [v EXCEPT !.rv = r, !.status = st] \in Versions
              /\ [v EXCEPT !.status = st] \in Versions
<1>1. 1 \in Nat \ {0} /\ \A v \in Versions : v.generation + 1 \in Nat \ {0}
  BY DEF Versions
<1>2. \A s \in Specs : [rv |-> r, generation |-> 1, spec |-> s, status |-> NoStatus] \in Versions
  BY <1>1 DEF Versions
<1>3. \A v \in Versions, s \in Specs :
        [v EXCEPT !.rv = r, !.generation = @ + 1, !.spec = s] \in Versions
  BY <1>1 DEF Versions
<1>4. \A v \in Versions, st \in Verdicts \cup {NoStatus} :
        [v EXCEPT !.rv = r, !.status = st] \in Versions /\ [v EXCEPT !.status = st] \in Versions
  BY DEF Versions
<1>. QED
  BY <1>2, <1>3, <1>4

-----------------------------------------------------------------------------
(* Types *)

LEMMA TypeInit == Init => TypeOK
<1>1. <<>> \in Seq(Specs) /\ <<>> \in Seq(Versions \cup {Absent})
  OBVIOUS
<1>2. /\ 0 \in 0..MaxChanges /\ 0 \in 0..MaxFaults
      /\ 0 \in 0..MaxRestarts /\ 0 \in 0..MaxRelists
  BY IntentControllerAssumption
<1>3. Init => queued \in BOOLEAN
  BY Zenon DEF Init
<1>. QED
  BY <1>1, <1>2, <1>3 DEF Init, TypeOK

(***************************************************************************)
(* A stored status keeps the variables it touches well typed.              *)
(***************************************************************************)
LEMMA StoreStatusTyped ==
  ASSUME TypeOK, Accepted, StoreStatus, working # Absent
  PROVE  /\ object' \in Versions /\ object' # Absent
         /\ feed' \in Seq(Versions \cup {Absent})
         /\ rv' \in Nat /\ writes' \in Nat /\ declared' \in Seq(Specs)
<1>1. object \in Versions /\ working.status \in Verdicts \cup {NoStatus} /\ rv + 1 \in Nat
  BY DEF TypeOK, Accepted, Versions
<1>2. object' \in Versions
  BY <1>1, VersionsWellFormed DEF StoreStatus, Versions
<1>3. feed' \in Seq(Versions \cup {Absent})
  BY <1>2 DEF TypeOK, StoreStatus
<1>. QED
  BY <1>1, <1>2, <1>3, IntentControllerAssumption DEF TypeOK, StoreStatus

(***************************************************************************)
(* Every step keeps the types; a write in flight has a version to write.   *)
(***************************************************************************)
LEMMA TypeStep ==
  ASSUME TypeOK, pc = "writing" => working # Absent, [Next]_vars
  PROVE  TypeOK'
<1>. USE IntentControllerAssumption
<1>1. ASSUME NEW s \in Specs, Create(s)
      PROVE  TypeOK'
  <2>1. object' \in Versions
    <3>1. rv + 1 \in Nat
      BY DEF TypeOK
    <3>. QED
      BY <1>1, <3>1, VersionsWellFormed DEF Create
  <2>2. feed' \in Seq(Versions \cup {Absent})
    BY <1>1, <2>1 DEF Create, TypeOK
  <2>. QED
    BY <1>1, <2>1, <2>2 DEF TypeOK, Create, Changed, worker
<1>2. ASSUME NEW s \in Specs, Edit(s)
      PROVE  TypeOK'
  <2>1. object' \in Versions
    <3>1. rv + 1 \in Nat /\ object \in Versions
      BY <1>2 DEF Edit, TypeOK
    <3>. QED
      BY <1>2, <3>1, VersionsWellFormed DEF Edit
  <2>2. feed' \in Seq(Versions \cup {Absent})
    BY <1>2, <2>1 DEF Edit, TypeOK
  <2>3. declared' \in Seq(Specs)
    BY <1>2 DEF Edit, TypeOK
  <2>. QED
    BY <1>2, <2>1, <2>2, <2>3 DEF TypeOK, Edit, Changed, worker
<1>3. CASE Delete
  <2>1. feed' \in Seq(Versions \cup {Absent})
    BY <1>3 DEF Delete, TypeOK
  <2>. QED
    BY <1>3, <2>1 DEF TypeOK, Delete, Changed, worker
<1>4. CASE Observe
  <2>1. Head(feed) \in Versions \cup {Absent} /\ Tail(feed) \in Seq(Versions \cup {Absent})
    BY <1>4 DEF Observe, TypeOK
  <2>2. queued' \in BOOLEAN
    BY <1>4 DEF Observe, Inform, TypeOK
  <2>. QED
    BY <1>4, <2>1, <2>2 DEF TypeOK, Observe, Inform, store, worker, budgets
<1>5. CASE Relist
  <2>1. queued' \in BOOLEAN
    BY <1>5 DEF Relist, Inform, TypeOK
  <2>2. relists' \in 0..MaxRelists
    BY <1>5 DEF Relist, TypeOK
  <2>. QED
    BY <1>5, <2>1, <2>2 DEF TypeOK, Relist, Inform, store, worker
<1>6. CASE Reconcile
  <2>1. working' \in Versions \cup {Absent} /\ pc' \in {"idle", "writing"}
    <3>1. CASE cache = Absent \/ cache.status = StatusOf(cache.spec, cache.generation)
      BY <1>6, <3>1 DEF Reconcile, TypeOK, worker
    <3>2. CASE ~(cache = Absent \/ cache.status = StatusOf(cache.spec, cache.generation))
      <4>1. cache \in Versions /\ cache.spec \in Specs /\ cache.generation \in Nat
        BY <3>2 DEF TypeOK, Versions
      <4>2. StatusOf(cache.spec, cache.generation) \in Verdicts
        BY <4>1, StatusIsVerdict
      <4>3. working' = [cache EXCEPT !.status = StatusOf(cache.spec, cache.generation)]
            /\ pc' = "writing"
        BY <1>6, <3>2 DEF Reconcile
      <4>. QED
        BY <4>1, <4>2, <4>3, VersionsWellFormed DEF Versions
    <3>. QED
      BY <3>1, <3>2
  <2>. QED
    BY <1>6, <2>1 DEF TypeOK, Reconcile, store, budgets
<1>7. CASE UpdateStored
  BY <1>7, StoreStatusTyped DEF UpdateStored, TypeOK, Finish, budgets
<1>8. CASE UpdateRefused
  BY <1>8 DEF UpdateRefused, TypeOK, Finish, store, budgets
<1>9. CASE UpdateFails
  <2>1. faults' \in 0..MaxFaults
    BY <1>9 DEF UpdateFails, TypeOK
  <2>2. CASE UNCHANGED <<store, feed>>
    BY <1>9, <2>1, <2>2 DEF UpdateFails, TypeOK, Finish, store
  <2>3. CASE Accepted /\ StoreStatus
    BY <1>9, <2>1, <2>3, StoreStatusTyped DEF UpdateFails, TypeOK, Finish
  <2>. QED
    BY <1>9, <2>2, <2>3 DEF UpdateFails
<1>10. CASE Restart
  BY <1>10 DEF Restart, TypeOK, Finish, store
<1>11. CASE UNCHANGED vars
  BY <1>11 DEF TypeOK, vars, store, manager, worker, budgets
<1>. QED
  BY <1>1, <1>2, <1>3, <1>4, <1>5, <1>6, <1>7, <1>8, <1>9, <1>10, <1>11 DEF Next

-----------------------------------------------------------------------------
(* Copies *)

(***************************************************************************)
(* A new version, stored under a number never used before, leaves every    *)
(* copy true; a delete leaves nothing a copy could disagree with.          *)
(***************************************************************************)
LEMMA NewVersionKeepsCopies ==
  ASSUME TypeOK, CopiesAreTrue, cache' = cache, feed' = Append(feed, object'),
         rv' \in Nat, rv' >= rv,
         object' # Absent => object'.rv = rv + 1 /\ rv' = rv + 1
  PROVE  CopiesAreTrue'
<1>1. \A v \in Versions : v.rv \in Nat
  BY DEF Versions
<1>2. ASSUME NEW v \in Versions \cup {Absent}, TrueCopy(v, object, rv)
      PROVE  TrueCopy(v, object', rv')
  BY <1>1, <1>2 DEF TrueCopy, TypeOK
<1>3. TrueCopy(object', object', rv')
  BY DEF TrueCopy, TypeOK
<1>4. TrueCopy(cache', object', rv')
  BY <1>2 DEF CopiesAreTrue, TypeOK
<1>5. ASSUME NEW i \in 1..Len(feed')
      PROVE  TrueCopy(feed'[i], object', rv')
  <2>1. CASE i \in 1..Len(feed)
    <3>1. feed[i] \in Versions \cup {Absent} /\ TrueCopy(feed[i], object, rv) /\ feed'[i] = feed[i]
      BY <2>1 DEF CopiesAreTrue, TypeOK
    <3>. QED
      BY <1>2, <3>1
  <2>2. CASE i \notin 1..Len(feed)
    <3>1. feed'[i] = object'
      BY <2>2 DEF TypeOK
    <3>. QED
      BY <1>3, <3>1
  <2>. QED
    BY <2>1, <2>2
<1>. QED
  BY <1>4, <1>5 DEF CopiesAreTrue

(***************************************************************************)
(* The store's own books: the history of the object, the number of writes  *)
(* and the verdict it carries.                                             *)
(***************************************************************************)
BooksAreTrue == HistoryIsTrue /\ NothingWrittenWhenAbsent /\ VerdictIsOfItsGeneration

(***************************************************************************)
(* A status update that is accepted stores the verdict of the current      *)
(* generation, which was not there before                                  *)
(* (communicationintent_controller.go:103-110).                            *)
(***************************************************************************)
LEMMA AcceptedWriteKeepsBooks ==
  ASSUME IInv, pc = "writing", Accepted, StoreStatus
  PROVE  /\ BooksAreTrue'
         /\ object'.rv = rv + 1
         /\ ObservedGeneration(object'.status) >= ObservedGeneration(object.status)
<1>. DEFINE g == object.generation
<1>1. /\ object \in Versions /\ object # Absent
      /\ g \in Nat \ {0} /\ object.spec \in Specs /\ object.status \in Verdicts \cup {NoStatus}
      /\ rv \in Nat /\ writes \in Nat /\ declared \in Seq(Specs)
  BY DEF IInv, TypeOK, Accepted, Versions
<1>2. /\ working.status = StatusOf(object.spec, g)
      /\ working.status # object.status
  BY DEF IInv, WorkIsTrue, Accepted
<1>3. object.spec = declared[g] /\ Len(declared) = g /\ g \in DOMAIN declared
  BY <1>1 DEF IInv, HistoryIsTrue
<1>4. /\ working.status # NoStatus /\ working.status.observedGeneration = g
      /\ ObservedGeneration(working.status) = g
  BY <1>1, <1>2, StatusIsVerdict DEF ObservedGeneration
<1>5. writes < g
  <2>1. CASE object.status = NoStatus
    BY <1>1, <2>1 DEF IInv, HistoryIsTrue, ObservedGeneration
  <2>2. CASE object.status # NoStatus
    <3>. DEFINE o == object.status.observedGeneration
    <3>1. o \in DOMAIN declared /\ object.status = StatusOf(declared[o], o)
      BY <1>1, <2>2 DEF IInv, VerdictIsOfItsGeneration
    <3>2. o # g
      BY <1>2, <1>3, <3>1
    <3>3. o \in 1..g
      BY <1>1, <1>3, <3>1
    <3>4. writes <= o
      BY <1>1, <2>2 DEF IInv, HistoryIsTrue, ObservedGeneration
    <3>. QED
      BY <1>1, <3>2, <3>3, <3>4
  <2>. QED
    BY <2>1, <2>2
<1>6. /\ object' = [object EXCEPT !.rv = rv + 1, !.status = working.status]
      /\ rv' = rv + 1 /\ writes' = writes + 1 /\ declared' = declared
  BY DEF StoreStatus
<1>7. /\ object'.rv = rv + 1 /\ object'.status = working.status
      /\ object'.generation = g /\ object'.spec = object.spec
      /\ object' \in Versions /\ object' # Absent
  <2>1. working.status \in Verdicts \cup {NoStatus}
    BY <1>1, <1>2, StatusIsVerdict
  <2>2. rv + 1 \in Nat
    BY <1>1
  <2>3. object' \in Versions
    BY <1>1, <1>6, <2>1, <2>2, VersionsWellFormed
  <2>. QED
    BY <1>1, <1>6, <2>3, IntentControllerAssumption DEF Versions
<1>8. HistoryIsTrue'
  BY <1>1, <1>3, <1>4, <1>5, <1>6, <1>7 DEF HistoryIsTrue
<1>9. NothingWrittenWhenAbsent'
  BY <1>7 DEF NothingWrittenWhenAbsent
<1>10. VerdictIsOfItsGeneration'
  BY <1>2, <1>3, <1>4, <1>6, <1>7 DEF VerdictIsOfItsGeneration
<1>11. ObservedGeneration(object.status) <= g
  <2>1. object.status # NoStatus => object.status.observedGeneration \in 1..g
    BY <1>1, <1>3 DEF IInv, VerdictIsOfItsGeneration
  <2>. QED
    BY <1>1, <2>1 DEF ObservedGeneration
<1>12. ObservedGeneration(object'.status) >= ObservedGeneration(object.status)
  BY <1>1, <1>4, <1>7, <1>11, ObservedIsNat
<1>. QED
  BY <1>7, <1>8, <1>9, <1>10, <1>12 DEF BooksAreTrue

(***************************************************************************)
(* An edit opens a new generation and leaves the verdict where it was.     *)
(***************************************************************************)
LEMMA EditKeepsBooks ==
  ASSUME IInv, NEW s \in Specs, Edit(s)
  PROVE  BooksAreTrue'
<1>1. /\ object \in Versions /\ object # Absent
      /\ object.generation \in Nat \ {0}
      /\ object.status \in Verdicts \cup {NoStatus}
      /\ rv \in Nat /\ writes \in Nat /\ declared \in Seq(Specs)
      /\ Len(declared) = object.generation
      /\ writes <= ObservedGeneration(object.status)
  BY DEF IInv, TypeOK, Edit, Versions, HistoryIsTrue
<1>2. /\ object' = [object EXCEPT !.rv = rv + 1, !.generation = @ + 1, !.spec = s]
      /\ rv' = rv + 1 /\ writes' = writes /\ declared' = Append(declared, s)
  BY DEF Edit
<1>3. /\ object'.rv = rv + 1 /\ object'.status = object.status
      /\ object'.generation = object.generation + 1 /\ object'.spec = s
      /\ object' \in Versions /\ object' # Absent
  <2>1. rv + 1 \in Nat
    BY <1>1
  <2>2. object' \in Versions
    BY <1>1, <1>2, <2>1, VersionsWellFormed
  <2>. QED
    BY <1>1, <1>2, <2>2, IntentControllerAssumption DEF Versions
<1>4. /\ Len(declared') = object.generation + 1 /\ declared'[object.generation + 1] = s
      /\ DOMAIN declared' = 1..(object.generation + 1)
      /\ \A i \in DOMAIN declared : declared'[i] = declared[i] /\ i \in DOMAIN declared'
  BY <1>1, <1>2
<1>5. HistoryIsTrue'
  BY <1>1, <1>2, <1>3, <1>4 DEF HistoryIsTrue
<1>6. VerdictIsOfItsGeneration'
  BY <1>1, <1>3, <1>4 DEF IInv, VerdictIsOfItsGeneration
<1>. QED
  BY <1>3, <1>5, <1>6 DEF BooksAreTrue, NothingWrittenWhenAbsent

(***************************************************************************)
(* An edit, a create or an accepted write takes a resourceVersion that no  *)
(* copy carries, so the work in flight is of an older version.             *)
(***************************************************************************)
LEMMA NewVersionKeepsWork ==
  ASSUME TypeOK, WorkIsTrue, UNCHANGED worker, rv' \in Nat, rv' >= rv,
         object' # Absent => object'.rv = rv + 1
  PROVE  WorkIsTrue'
<1>1. pc = "writing" => working.rv \in Nat /\ working.rv <= rv
  BY DEF TypeOK, WorkIsTrue, Versions
<1>. QED
  BY <1>1 DEF WorkIsTrue, worker, TypeOK

-----------------------------------------------------------------------------
(* The invariant *)

LEMMA IInvInit == Init => IInv
<1>1. Init => CopiesAreTrue
  BY DEF Init, CopiesAreTrue, TrueCopy
<1>2. Init => WorkIsTrue /\ HistoryIsTrue /\ NothingWrittenWhenAbsent /\ VerdictIsOfItsGeneration
  BY DEF Init, WorkIsTrue, HistoryIsTrue, NothingWrittenWhenAbsent, VerdictIsOfItsGeneration
<1>. QED
  BY <1>1, <1>2, TypeInit DEF IInv

(***************************************************************************)
(* Every step keeps copies, work and books; one case per action.           *)
(***************************************************************************)
LEMMA IInvStep ==
  ASSUME IInv, [Next]_vars
  PROVE  CopiesAreTrue' /\ WorkIsTrue' /\ BooksAreTrue'
<1>. rv \in Nat /\ rv + 1 \in Nat /\ rv + 1 >= rv /\ rv >= rv
  BY DEF IInv, TypeOK
<1>. TypeOK /\ CopiesAreTrue /\ WorkIsTrue /\ BooksAreTrue
  BY DEF IInv, BooksAreTrue
<1>1. ASSUME NEW s \in Specs, Create(s)
      PROVE  CopiesAreTrue' /\ WorkIsTrue' /\ BooksAreTrue'
  <2>1. /\ object' = [rv |-> rv + 1, generation |-> 1, spec |-> s, status |-> NoStatus]
        /\ rv' = rv + 1 /\ writes' = 0 /\ declared' = <<s>> /\ cache' = cache
        /\ feed' = Append(feed, object') /\ UNCHANGED worker
    BY <1>1 DEF Create
  <2>2. object'.rv = rv + 1 /\ object'.generation = 1 /\ object'.spec = s /\ object'.status = NoStatus
    BY <2>1
  <2>3. CopiesAreTrue' /\ WorkIsTrue'
    BY <2>1, <2>2, NewVersionKeepsCopies, NewVersionKeepsWork
  <2>4. object' # Absent
    <3>1. object' \in Versions
      BY <2>1, VersionsWellFormed
    <3>. QED
      BY <3>1, IntentControllerAssumption
  <2>5. BooksAreTrue'
    BY <2>1, <2>2, <2>4 DEF BooksAreTrue, HistoryIsTrue, NothingWrittenWhenAbsent,
                      VerdictIsOfItsGeneration, ObservedGeneration
  <2>. QED
    BY <2>3, <2>5
<1>2. ASSUME NEW s \in Specs, Edit(s)
      PROVE  CopiesAreTrue' /\ WorkIsTrue' /\ BooksAreTrue'
  <2>1. BooksAreTrue'
    BY <1>2, EditKeepsBooks
  <2>2. /\ rv' = rv + 1 /\ cache' = cache /\ UNCHANGED worker
        /\ feed' = Append(feed, object') /\ object'.rv = rv + 1
    BY <1>2 DEF Edit, IInv, TypeOK, Versions
  <2>. QED
    BY <2>1, <2>2, NewVersionKeepsCopies, NewVersionKeepsWork
<1>3. CASE Delete
  <2>1. /\ object' = Absent /\ rv' = rv /\ cache' = cache /\ UNCHANGED worker
        /\ feed' = Append(feed, object') /\ writes' = 0 /\ declared' = <<>>
    BY <1>3 DEF Delete
  <2>2. BooksAreTrue'
    BY <2>1 DEF BooksAreTrue, HistoryIsTrue, NothingWrittenWhenAbsent, VerdictIsOfItsGeneration
  <2>. QED
    BY <2>1, <2>2, NewVersionKeepsCopies, NewVersionKeepsWork
<1>4. ASSUME UNCHANGED store
      PROVE  /\ BooksAreTrue'
             /\ \A v : TrueCopy(v, object, rv) => TrueCopy(v, object', rv')
             /\ TrueCopy(object, object', rv')
             /\ UNCHANGED worker \/ pc' = "idle" => WorkIsTrue'
             /\ UNCHANGED <<feed, cache>> => CopiesAreTrue'
  <2>1. BooksAreTrue'
    BY <1>4 DEF store, BooksAreTrue, HistoryIsTrue, NothingWrittenWhenAbsent, VerdictIsOfItsGeneration
  <2>2. \A v : TrueCopy(v, object, rv) => TrueCopy(v, object', rv')
    BY <1>4 DEF store
  <2>3. TrueCopy(object, object', rv')
    BY <1>4 DEF store, TrueCopy, BooksAreTrue, HistoryIsTrue
  <2>4. UNCHANGED worker \/ pc' = "idle" => WorkIsTrue'
    BY <1>4 DEF store, worker, WorkIsTrue
  <2>5. UNCHANGED <<feed, cache>> => CopiesAreTrue'
    BY <1>4 DEF store, CopiesAreTrue
  <2>. QED
    BY <2>1, <2>2, <2>3, <2>4, <2>5
<1>5. CASE Observe
  <2>1. /\ UNCHANGED store /\ UNCHANGED worker /\ feed # <<>>
        /\ cache' = Head(feed) /\ feed' = Tail(feed)
    BY <1>5 DEF Observe, Inform
  <2>2. /\ Head(feed) = feed[1] /\ 1 \in 1..Len(feed)
        /\ \A i \in 1..Len(feed') : feed'[i] = feed[i + 1] /\ i + 1 \in 1..Len(feed)
    BY <2>1 DEF IInv, TypeOK
  <2>3. CopiesAreTrue'
    BY <1>4, <2>1, <2>2 DEF CopiesAreTrue
  <2>. QED
    BY <1>4, <2>1, <2>3
<1>6. CASE Relist
  <2>1. UNCHANGED store /\ UNCHANGED worker /\ cache' = object /\ feed' = <<>>
    BY <1>6 DEF Relist, Inform
  <2>. QED
    BY <1>4, <2>1 DEF CopiesAreTrue
<1>7. CASE Reconcile
  <2>1. UNCHANGED store /\ UNCHANGED <<feed, cache>>
    BY <1>7 DEF Reconcile
  <2>2. CASE cache = Absent \/ cache.status = StatusOf(cache.spec, cache.generation)
    BY <1>4, <1>7, <2>1, <2>2 DEF Reconcile
  <2>3. CASE ~(cache = Absent \/ cache.status = StatusOf(cache.spec, cache.generation))
    <3>. DEFINE st == StatusOf(cache.spec, cache.generation)
    <3>1. cache \in Versions /\ cache # Absent /\ cache.status # st
      BY <2>3 DEF IInv, TypeOK
    <3>2. st \in Verdicts
      BY <3>1, StatusIsVerdict DEF Versions
    <3>3. working' = [cache EXCEPT !.status = st]
      BY <1>7, <2>3 DEF Reconcile
    <3>4. /\ working'.rv = cache.rv /\ working'.spec = cache.spec
          /\ working'.generation = cache.generation /\ working'.status = st
      BY <3>1, <3>3 DEF Versions
    <3>5. working' \in Versions /\ working' # Absent
      <4>1. working' \in Versions
        BY <3>1, <3>2, <3>3 DEF Versions
      <4>. QED
        BY <4>1, IntentControllerAssumption
    <3>6. TrueCopy(cache, object, rv)
      BY DEF CopiesAreTrue
    <3>7. WorkIsTrue'
      BY <2>1, <3>1, <3>4, <3>5, <3>6 DEF WorkIsTrue, TrueCopy, store
    <3>. QED
      BY <1>4, <2>1, <3>7
  <2>. QED
    BY <2>2, <2>3
<1>8. ASSUME pc = "writing", Accepted, StoreStatus, pc' = "idle", cache' = cache
      PROVE  CopiesAreTrue' /\ WorkIsTrue' /\ BooksAreTrue'
  <2>1. BooksAreTrue' /\ object'.rv = rv + 1
    BY <1>8, AcceptedWriteKeepsBooks
  <2>2. rv' = rv + 1 /\ feed' = Append(feed, object')
    BY <1>8 DEF StoreStatus
  <2>3. CopiesAreTrue'
    BY <1>8, <2>1, <2>2, NewVersionKeepsCopies
  <2>. QED
    BY <1>8, <2>1, <2>3 DEF WorkIsTrue
<1>9. CASE UpdateStored
  BY <1>8, <1>9 DEF UpdateStored, Finish
<1>10. CASE UpdateRefused
  BY <1>4, <1>10 DEF UpdateRefused, Finish
<1>11. CASE UpdateFails
  <2>1. CASE UNCHANGED <<store, feed>>
    BY <1>4, <1>11, <2>1 DEF UpdateFails, Finish
  <2>2. CASE Accepted /\ StoreStatus
    BY <1>8, <1>11, <2>2 DEF UpdateFails, Finish
  <2>. QED
    BY <1>11, <2>1, <2>2 DEF UpdateFails
<1>12. CASE Restart
  <2>1. UNCHANGED store /\ pc' = "idle" /\ cache' = object /\ feed' = <<>>
    BY <1>12 DEF Restart, Finish
  <2>. QED
    BY <1>4, <2>1 DEF CopiesAreTrue
<1>13. CASE UNCHANGED vars
  BY <1>4, <1>13 DEF vars, manager
<1>. QED
  BY <1>1, <1>2, <1>3, <1>5, <1>6, <1>7, <1>9, <1>10, <1>11, <1>12, <1>13 DEF Next

(***************************************************************************)
(* The inductive invariant holds always.                                   *)
(***************************************************************************)
THEOREM IntentInvariant == Spec => []IInv
<1>1. IInv /\ [Next]_vars => IInv'
  <2>. SUFFICES ASSUME IInv, [Next]_vars
                PROVE  IInv'
    OBVIOUS
  <2>1. TypeOK'
    BY TypeStep DEF IInv, WorkIsTrue
  <2>. QED
    BY <2>1, IInvStep DEF IInv, BooksAreTrue
<1>. QED
  BY <1>1, IInvInit, PTL DEF Spec

(***************************************************************************)
(* Types, for every set of specs and every bound.                          *)
(***************************************************************************)
THEOREM IntentTypeCorrect == Spec => []TypeOK
BY IntentInvariant, PTL DEF IInv

(***************************************************************************)
(* observedGeneration tells the truth: the stored verdict is the compile   *)
(* of the spec this object had at that generation                          *)
(* (communicationintent_types.go:126-129).                                 *)
(***************************************************************************)
THEOREM VerdictIsTrue == Spec => []VerdictIsOfItsGeneration
BY IntentInvariant, PTL DEF IInv

(***************************************************************************)
(* No hot loop: a generation is written at most once                       *)
(* (communicationintent_controller.go:103-107).                            *)
(***************************************************************************)
THEOREM WrittenOnce == Spec => []OneWritePerGeneration
<1>1. IInv => OneWritePerGeneration
  BY DEF IInv, HistoryIsTrue, NothingWrittenWhenAbsent, OneWritePerGeneration
<1>. QED
  BY <1>1, IntentInvariant, PTL

(***************************************************************************)
(* A write decided on a stale copy never takes a verdict back              *)
(* (communicationintent_controller.go:108).                                *)
(***************************************************************************)
THEOREM VerdictAdvances == Spec => ObservedNeverRegresses
<1>1. IInv /\ [Next]_vars =>
        [object # Absent /\ object' # Absent =>
           ObservedGeneration(object'.status) >= ObservedGeneration(object.status)]_vars
  <2>. SUFFICES ASSUME IInv, [Next]_vars, object # Absent, object' # Absent
                PROVE  ObservedGeneration(object'.status) >= ObservedGeneration(object.status)
    OBVIOUS
  <2>1. object \in Versions /\ ObservedGeneration(object.status) \in Nat
    BY ObservedIsNat DEF IInv, TypeOK, Versions
  <2>2. CASE object' = object
    BY <2>1, <2>2
  <2>3. CASE object' # object
    <3>1. CASE pc = "writing" /\ Accepted /\ StoreStatus
      BY <3>1, AcceptedWriteKeepsBooks
    <3>2. ASSUME NEW s \in Specs, Edit(s)
          PROVE  object'.status = object.status
      BY <2>1, <3>2 DEF Edit, Versions
    <3>. QED
      BY <2>1, <2>3, <3>1, <3>2
         DEF Next, Create, Delete, Observe, Relist, Reconcile, UpdateStored, UpdateRefused,
             UpdateFails, Restart, vars, store
  <2>. QED
    BY <2>2, <2>3
<1>. QED
  BY <1>1, IntentInvariant, PTL DEF Spec, ObservedNeverRegresses

-----------------------------------------------------------------------------
(* The register *)

(***************************************************************************)
(* A step that leaves the store alone is none of the register's.           *)
(***************************************************************************)
LEMMA StoreUnchangedStutters ==
  ASSUME UNCHANGED store
  PROVE  UNCHANGED Register!registerVars
BY DEF store, Register!registerVars, PublishedStatus

(***************************************************************************)
(* A status update that the API server takes publishes the verdict on the  *)
(* current spec, and one that was not there yet.                           *)
(***************************************************************************)
LEMMA AcceptedWritePublishes ==
  ASSUME IInv, pc = "writing", Accepted, StoreStatus
  PROVE  Register!Publish
<1>. DEFINE g == object.generation
<1>1. /\ object \in Versions /\ object # Absent /\ g \in Nat \ {0}
      /\ declared \in Seq(Specs) /\ Len(declared) = g /\ object.spec = declared[g]
  BY DEF IInv, TypeOK, Accepted, HistoryIsTrue, Versions
<1>2. /\ working.status = StatusOf(declared[g], g)
      /\ working.status # object.status
  BY <1>1 DEF IInv, WorkIsTrue, Accepted
<1>3. Register!Current = StatusOf(declared[g], g)
  BY <1>1 DEF Register!Current
<1>4. /\ object' # Absent /\ object'.status = working.status
      /\ declared' = declared
  <2>1. object' = [object EXCEPT !.rv = rv + 1, !.status = working.status] /\ declared' = declared
    BY DEF StoreStatus
  <2>2. object'.status = working.status
    BY <1>1, <2>1 DEF Versions
  <2>3. object' \in Versions
    <3>1. rv + 1 \in Nat /\ working.status \in Verdicts \cup {NoStatus}
      BY <1>1, <1>2, StatusIsVerdict DEF IInv, TypeOK, Versions
    <3>. QED
      BY <1>1, <2>1, <3>1, VersionsWellFormed
  <2>. QED
    BY <2>1, <2>2, <2>3, IntentControllerAssumption
<1>5. declared # <<>>
  BY <1>1
<1>. QED
  BY <1>1, <1>2, <1>3, <1>4, <1>5 DEF Register!Publish, PublishedStatus

(***************************************************************************)
(* The reconciler implements the register (communicationintent_controller. *)
(* go:50-112): users' actions are the register's own, an update that is    *)
(* stored, answered or not, publishes, and everything else stutters.       *)
(***************************************************************************)
THEOREM RegisterImplemented == Spec => ImplementsRegister
<1>1. Init => Register!Init
  BY DEF Init, Register!Init, PublishedStatus
<1>2. IInv /\ [Next]_vars => [Register!Next]_(Register!registerVars)
  <2>. SUFFICES ASSUME IInv, [Next]_vars
                PROVE  Register!Next \/ UNCHANGED Register!registerVars
    OBVIOUS
  <2>1. ASSUME NEW s \in Specs, Create(s)
        PROVE  Register!Declare(s)
    <3>1. /\ object = Absent /\ declared' = <<s>> /\ declared = <<>>
          /\ object' = [rv |-> rv + 1, generation |-> 1, spec |-> s, status |-> NoStatus]
      BY <2>1 DEF Create, IInv, NothingWrittenWhenAbsent
    <3>2. object' \in Versions
      <4>1. rv + 1 \in Nat
        BY DEF IInv, TypeOK
      <4>. QED
        BY <3>1, <4>1, VersionsWellFormed
    <3>3. object' # Absent /\ object'.status = NoStatus
      BY <3>1, <3>2, IntentControllerAssumption
    <3>4. declared' = Append(declared, s)
      BY <3>1
    <3>. QED
      BY <3>1, <3>3, <3>4 DEF Register!Declare, PublishedStatus
  <2>2. ASSUME NEW s \in Specs, Edit(s)
        PROVE  Register!Declare(s)
    <3>1. object \in Versions /\ object # Absent /\ declared' = Append(declared, s)
      BY <2>2 DEF Edit, IInv, TypeOK
    <3>2. object' \in Versions /\ object'.status = object.status
      <4>1. rv + 1 \in Nat
        BY DEF IInv, TypeOK
      <4>. QED
        BY <2>2, <3>1, <4>1, VersionsWellFormed DEF Edit, Versions
    <3>. QED
      BY <3>1, <3>2, IntentControllerAssumption DEF Register!Declare, PublishedStatus
  <2>3. CASE Delete
    BY <2>3 DEF Delete, Register!Next, Register!Withdraw, PublishedStatus
  <2>4. ASSUME UNCHANGED store
        PROVE  UNCHANGED Register!registerVars
    BY <2>4, StoreUnchangedStutters
  <2>5. CASE Observe \/ Relist \/ Reconcile \/ UpdateRefused \/ Restart \/ UNCHANGED vars
    BY <2>4, <2>5 DEF Observe, Relist, Reconcile, UpdateRefused, Restart, vars
  <2>6. CASE UpdateStored
    BY <2>6, AcceptedWritePublishes DEF UpdateStored, Register!Next
  <2>7. CASE UpdateFails
    <3>1. CASE UNCHANGED <<store, feed>>
      BY <2>4, <3>1
    <3>2. CASE Accepted /\ StoreStatus
      BY <2>7, <3>2, AcceptedWritePublishes DEF UpdateFails, Register!Next
    <3>. QED
      BY <2>7, <3>1, <3>2 DEF UpdateFails
  <2>. QED
    BY <2>1, <2>2, <2>3, <2>5, <2>6, <2>7 DEF Next, Register!Next
<1>. QED
  BY <1>1, <1>2, IntentInvariant, PTL DEF Spec, ImplementsRegister, Register!Spec

-----------------------------------------------------------------------------
(* Wake-ups *)

(***************************************************************************)
(* A status update that is accepted leaves the object with the verdict of  *)
(* its own spec.                                                           *)
(***************************************************************************)
LEMMA AcceptedWriteSettles ==
  ASSUME IInv, pc = "writing", Accepted, StoreStatus
  PROVE  Settled'
<1>1. /\ object \in Versions /\ rv + 1 \in Nat
      /\ object.spec \in Specs /\ object.generation \in Nat
      /\ working.status = StatusOf(object.spec, object.generation)
  BY DEF IInv, TypeOK, Accepted, WorkIsTrue, Versions
<1>2. object' = [object EXCEPT !.rv = rv + 1, !.status = working.status]
  BY DEF StoreStatus
<1>3. /\ object'.status = working.status
      /\ object'.spec = object.spec /\ object'.generation = object.generation
  BY <1>1, <1>2 DEF Versions
<1>. QED
  BY <1>1, <1>3 DEF Settled, StatusOf

(***************************************************************************)
(* What is stored next either wakes the reconciler when it is delivered,   *)
(* or has its verdict; the copies before it need no more.                  *)
(***************************************************************************)
LEMMA NewVersionWakes ==
  ASSUME TypeOK, NoWakeUpLost,
         cache' = cache, feed' = Append(feed, object'),
         Settled' \/ (object # object' /\ Passes(object, object'))
  PROVE  NoWakeUpLost'
<1>0. PICK n \in Nat : n = Len(feed)
  BY DEF TypeOK
<1>1. /\ Len(feed') = n + 1 /\ feed'[n + 1] = object'
      /\ \A i \in 1..n : feed'[i] = feed[i]
  BY <1>0 DEF TypeOK
<1>2. Copy(n + 1)' = object' /\ \A i \in 0..n : Copy(i)' = Copy(i)
  BY <1>1 DEF Copy
<1>3. Settled' \/ Wakes(n + 1)'
  <2>1. Copy(n)' = object /\ n + 1 - 1 = n
    BY <1>0, <1>1, <1>2 DEF NoWakeUpLost
  <2>. QED
    <3>1. Copy(n + 1 - 1)' = object /\ Copy(n + 1)' = object'
      BY <1>2, <2>1
    <3>2. Wakes(n + 1)' <=> (object # object' /\ Passes(object, object'))
      BY <3>1 DEF Wakes, Passes
    <3>. QED
      BY <3>2
<1>4. ASSUME NEW i \in 0..n
      PROVE  Settled' \/ WakesAfter(i)'
  <2>1. n + 1 \in (i + 1)..Len(feed')
    BY <1>1
  <2>. QED
    BY <1>3, <2>1 DEF WakesAfter
<1>5. Compiled(Copy(n + 1))' => Settled'
  BY <1>2 DEF Compiled, Settled
<1>6. ASSUME NEW i \in 0..Len(feed')
      PROVE  Compiled(Copy(i))' => Settled' \/ WakesAfter(i)'
  <2>1. i \in 0..n \/ i = n + 1
    BY <1>1
  <2>. QED
    BY <1>4, <1>5, <2>1 DEF Compiled
<1>7. 0 \in 0..n /\ Copy(Len(feed))' = object'
  BY <1>1, <1>2
<1>. QED
  BY <1>4, <1>6, <1>7 DEF NoWakeUpLost, Copy

(***************************************************************************)
(* An event delivered moves every copy one place nearer.                   *)
(***************************************************************************)
LEMMA DeliveryShifts ==
  ASSUME TypeOK, Observe
  PROVE  /\ Len(feed) \in Nat /\ Len(feed) > 0 /\ Len(feed') = Len(feed) - 1
         /\ \A i \in 0..(Len(feed) - 1) : Copy(i)' = Copy(i + 1)
<1>0. PICK n \in Nat : n = Len(feed)
  BY DEF TypeOK
<1>1. /\ n > 0 /\ cache' = feed[1] /\ Len(feed') = n - 1
      /\ \A i \in 1..(n - 1) : feed'[i] = feed[i + 1]
  BY <1>0 DEF TypeOK, Observe, Inform
<1>2. \A i \in 0..(n - 1) : Copy(i)' = Copy(i + 1)
  BY <1>1 DEF Copy
<1>. QED
  BY <1>0, <1>1, <1>2

(***************************************************************************)
(* An event delivered wakes the reconciler itself, or leaves the wake-ups  *)
(* after it to come.                                                       *)
(***************************************************************************)
LEMMA DeliveryKeepsWakeUps ==
  ASSUME TypeOK, NoWakeUpLost, Observe
  PROVE  NoWakeUpLost'
<1>. DEFINE Answered == Settled \/ FirstVerdictMissed
<1>0. PICK n \in Nat : n = Len(feed)
  BY DEF TypeOK
<1>1. n > 0 /\ Len(feed') = n - 1
  BY <1>0, DeliveryShifts
<1>2. \A i \in 0..(n - 1) : Copy(i)' = Copy(i + 1)
  BY <1>1, DeliveryShifts
<1>3. UNCHANGED <<object, pc>> /\ (Answered' <=> Answered)
  BY DEF Observe, store, worker, budgets, Settled, FirstVerdictMissed
<1>. HIDE DEF Answered
<1>4. queued' = (queued \/ Wakes(1))
  <2>1. Copy(0) = cache /\ Copy(1) = Head(feed)
    BY DEF Copy, Observe, Inform
  <2>. QED
    BY <2>1 DEF Observe, Inform, Wakes
<1>5. ASSUME NEW k \in 1..(n - 1)
      PROVE  Wakes(k)' <=> Wakes(k + 1)
  <2>1. k \in 0..(n - 1) /\ k - 1 \in 0..(n - 1) /\ k - 1 + 1 = k /\ k + 1 - 1 = k
    BY <1>1
  <2>2. Copy(k)' = Copy(k + 1) /\ Copy(k - 1)' = Copy(k)
    BY <1>2, <2>1
  <2>. QED
    BY <2>1, <2>2 DEF Wakes, Copy, Passes
<1>6. ASSUME NEW i \in 0..(n - 1), NEW k \in (i + 2)..n, Wakes(k)
      PROVE  WakesAfter(i)'
  <2>1. k - 1 \in 1..(n - 1) /\ k - 1 + 1 = k /\ k - 1 \in (i + 1)..Len(feed')
    BY <1>1
  <2>2. Wakes(k - 1)'
    BY <1>5, <1>6, <2>1
  <2>. QED
    BY <2>1, <2>2 DEF WakesAfter
<1>7. ASSUME NEW i \in 0..(n - 1), WakesAfter(i + 1)
      PROVE  WakesAfter(i)'
  BY <1>0, <1>1, <1>6, <1>7 DEF WakesAfter
<1>8. ASSUME NEW i \in 0..Len(feed')
      PROVE  Compiled(Copy(i))' => Answered' \/ WakesAfter(i)'
  <2>1. i \in 0..(n - 1) /\ i + 1 \in 0..n
    BY <1>1
  <2>2. Compiled(Copy(i + 1)) => Answered \/ WakesAfter(i + 1)
    BY <1>0, <2>1 DEF NoWakeUpLost, Answered
  <2>. QED
    BY <1>2, <1>3, <1>7, <2>1, <2>2 DEF Compiled, Copy
<1>9. Copy(Len(feed))' = object'
  <2>1. n - 1 \in 0..(n - 1) /\ n - 1 + 1 = n /\ Copy(n) = object
    BY <1>0, <1>1 DEF NoWakeUpLost
  <2>. QED
    BY <1>1, <1>2, <1>3, <2>1
<1>10. ASSUME ~queued', pc' = "idle"
       PROVE  Answered' \/ WakesAfter(0)'
  <2>1. ~queued /\ pc = "idle" /\ ~Wakes(1)
    BY <1>3, <1>4, <1>10
  <2>2. Answered \/ WakesAfter(0)
    BY <2>1 DEF NoWakeUpLost, Answered
  <2>3. CASE WakesAfter(0)
    <3>1. PICK k \in 1..n : Wakes(k)
      BY <1>0, <1>1, <2>3 DEF WakesAfter
    <3>2. k # 1
      BY <2>1, <3>1
    <3>. QED
      BY <1>1, <1>6, <3>1, <3>2
  <2>. QED
    BY <1>3, <2>2, <2>3
<1>. QED
  BY <1>8, <1>9, <1>10 DEF NoWakeUpLost, Copy, Answered

(***************************************************************************)
(* Every step keeps a wake-up for what is not settled; one case per action.*)
(***************************************************************************)
LEMMA WakeUpStep ==
  ASSUME IInv, NoWakeUpLost, LastIsStored, VerdictMeansSeen, [Next]_vars
  PROVE  NoWakeUpLost'
<1>. TypeOK
  BY DEF IInv
<1>1. ASSUME NEW s \in Specs, Create(s)
      PROVE  NoWakeUpLost'
  <2>1. object' \in Versions /\ object' # Absent
    <3>1. rv + 1 \in Nat
      BY DEF TypeOK
    <3>. QED
      BY <1>1, <3>1, VersionsWellFormed, IntentControllerAssumption DEF Create
  <2>. QED
    BY <1>1, <2>1, NewVersionWakes DEF Create, Changed, Passes
<1>2. ASSUME NEW s \in Specs, Edit(s)
      PROVE  NoWakeUpLost'
  <2>1. object \in Versions /\ object'.generation = object.generation + 1
    BY <1>2 DEF Edit, TypeOK, Versions
  <2>2. object.generation \in Nat
    BY <2>1 DEF Versions
  <2>3. object'.generation # object.generation
    BY <2>1, <2>2
  <2>. QED
    BY <1>2, <2>3, NewVersionWakes DEF Edit, Changed, Passes
<1>3. CASE Delete
  BY <1>3, NewVersionWakes DEF Delete, Changed, Passes
<1>4. CASE Observe
  BY <1>4, DeliveryKeepsWakeUps
<1>5. CASE Relist
  <2>1. /\ object' = object /\ cache' = object /\ feed' = <<>> /\ feed # <<>>
        /\ relists' > 0
        /\ queued' = (queued \/ (cache # object /\ Passes(cache, object)))
    BY <1>5 DEF Relist, Inform, store, TypeOK
  <2>2. Len(feed') = 0 /\ Copy(0)' = object'
    BY <2>1 DEF Copy
  <2>3. Compiled(Copy(0))' => Settled'
    BY <2>2 DEF Compiled, Settled
  <2>4. ~queued' => Settled' \/ FirstVerdictMissed'
    <3>1. CASE object = Absent \/ object.status = NoStatus
      BY <2>1, <3>1 DEF Settled, FirstVerdictMissed
    <3>2. CASE object # Absent /\ object.status # NoStatus
      <4>1. 0 \in 0..Len(feed) /\ Copy(0) = cache /\ Len(feed) # 0
        BY <2>1 DEF Copy, TypeOK
      <4>2. cache # Absent /\ (cache.generation = object.generation => cache = object \/ Settled)
        BY <3>2, <4>1 DEF VerdictMeansSeen
      <4>3. cache # object
        BY <3>2, <4>1 DEF LastIsStored
      <4>4. ~queued' => cache.generation = object.generation
        BY <2>1, <4>3 DEF Passes
      <4>. QED
        BY <2>1, <4>2, <4>3, <4>4 DEF Settled
    <3>. QED
      BY <3>1, <3>2
  <2>5. \A i \in 0..Len(feed') : i = 0
    BY <2>2
  <2>. QED
    BY <2>2, <2>3, <2>4, <2>5 DEF NoWakeUpLost, Copy
<1>6. ASSUME UNCHANGED <<object, feed, cache, relists>>,
             ~queued' /\ pc' = "idle" => Settled \/ FirstVerdictMissed \/ WakesAfter(0)
      PROVE  NoWakeUpLost'
  BY <1>6 DEF NoWakeUpLost, Copy, WakesAfter, Wakes, Passes, Compiled, Settled, FirstVerdictMissed
<1>7. CASE Reconcile
  <2>1. UNCHANGED <<object, feed, cache, relists>>
    BY <1>7 DEF Reconcile, store, budgets
  <2>2. ASSUME pc' = "idle"
        PROVE  Settled \/ FirstVerdictMissed \/ WakesAfter(0)
    <3>1. Compiled(cache)
      BY <1>7, <2>2 DEF Reconcile, Compiled
    <3>2. Copy(0) = cache /\ 0 \in 0..Len(feed)
      BY DEF Copy, TypeOK
    <3>. QED
      BY <3>1, <3>2 DEF NoWakeUpLost
  <2>. QED
    BY <1>6, <2>1, <2>2
<1>8. CASE UpdateStored
  BY <1>8, AcceptedWriteSettles, NewVersionWakes DEF UpdateStored, StoreStatus, budgets
<1>9. CASE UpdateRefused
  BY <1>6, <1>9 DEF UpdateRefused, store, budgets
<1>10. CASE UpdateFails
  <2>1. CASE UNCHANGED <<store, feed>>
    BY <1>6, <1>10, <2>1 DEF UpdateFails, store
  <2>2. CASE Accepted /\ StoreStatus
    BY <1>10, <2>2, AcceptedWriteSettles, NewVersionWakes DEF UpdateFails, StoreStatus
  <2>. QED
    BY <1>10, <2>1, <2>2 DEF UpdateFails
<1>11. CASE Restart
  <2>1. /\ cache' = object' /\ object' = object /\ feed' = <<>> /\ relists' = relists
        /\ queued' = (object # Absent)
    BY <1>11 DEF Restart, store
  <2>2. Len(feed') = 0 /\ Copy(0)' = object'
    BY <2>1 DEF Copy
  <2>3. Compiled(Copy(0))' => Settled'
    BY <2>2 DEF Compiled, Settled
  <2>4. ~queued' => Settled'
    BY <2>1 DEF Settled
  <2>5. \A i \in 0..Len(feed') : i = 0
    BY <2>2
  <2>. QED
    BY <2>2, <2>3, <2>4, <2>5 DEF NoWakeUpLost, Copy
<1>12. CASE UNCHANGED vars
  BY <1>6, <1>12 DEF vars, store, manager, worker, budgets, NoWakeUpLost
<1>. QED
  BY <1>1, <1>2, <1>3, <1>4, <1>5, <1>7, <1>8, <1>9, <1>10, <1>11, <1>12 DEF Next

(***************************************************************************)
(* A version stored under a new number is the last on its way, and no      *)
(* write in flight was read from it.                                       *)
(***************************************************************************)
LEMMA NewVersionIsLast ==
  ASSUME IInv, cache' = cache, feed' = Append(feed, object'),
         object' # Absent => object'.rv = rv + 1,
         UNCHANGED worker \/ pc' = "idle"
  PROVE  /\ LastIsStored'
         /\ Len(feed) \in Nat /\ Len(feed') = Len(feed) + 1
         /\ \A i : i = Len(feed) + 1 => Copy(i)' = object'
         /\ \A i \in 0..Len(feed) : Copy(i)' = Copy(i)
<1>. TypeOK
  BY DEF IInv
<1>0. PICK n \in Nat : n = Len(feed)
  BY DEF TypeOK
<1>1. /\ Len(feed') = n + 1 /\ feed'[n + 1] = object'
      /\ \A i \in 1..n : feed'[i] = feed[i]
  BY <1>0 DEF TypeOK
<1>2. Copy(n + 1)' = object' /\ \A i \in 0..n : Copy(i)' = Copy(i)
  BY <1>1 DEF Copy
<1>3. ASSUME NEW i \in 0..n, Copy(i) # Absent
      PROVE  Copy(i).rv < rv + 1
  <2>1. TrueCopy(Copy(i), object, rv) /\ Copy(i) \in Versions \cup {Absent}
    BY <1>0 DEF Copy, IInv, CopiesAreTrue, TypeOK
  <2>2. Copy(i).rv \in Nat /\ rv \in Nat
    BY <1>3, <2>1 DEF Versions, TypeOK
  <2>. QED
    BY <1>3, <2>1, <2>2 DEF TrueCopy
<1>4. ASSUME object' # Absent, NEW i \in 0..Len(feed'), Copy(i)' # Absent, Copy(i)'.rv = object'.rv
      PROVE  i = Len(feed')
  <2>1. CASE i \in 0..n
    <3>1. Copy(i).rv < rv + 1 /\ Copy(i).rv = rv + 1
      BY <1>2, <1>3, <1>4, <2>1
    <3>2. rv \in Nat
      BY DEF TypeOK
    <3>. QED
      BY <3>1, <3>2
  <2>2. CASE i \notin 0..n
    BY <1>0, <1>1, <2>2
  <2>. QED
    BY <2>1, <2>2
<1>5. ASSUME object' # Absent, pc' = "writing"
      PROVE  working'.rv # object'.rv
  <2>1. pc = "writing" /\ working' = working
    BY <1>5 DEF worker
  <2>2. working.rv \in Nat /\ rv \in Nat /\ working.rv <= rv
    BY <2>1 DEF IInv, WorkIsTrue, TypeOK, Versions
  <2>. QED
    BY <1>5, <2>1, <2>2
<1>6. LastIsStored'
  BY <1>4, <1>5 DEF LastIsStored
<1>. QED
  BY <1>0, <1>1, <1>2, <1>6

(***************************************************************************)
(* Every step keeps the copies in order, and a verdict only on objects the *)
(* informer has seen; one case per action.                                 *)
(***************************************************************************)
LEMMA SeenStep ==
  ASSUME IInv, LastIsStored, VerdictMeansSeen, [Next]_vars
  PROVE  LastIsStored' /\ VerdictMeansSeen'
<1>. TypeOK
  BY DEF IInv
<1>1. ASSUME NEW s \in Specs, Create(s)
      PROVE  LastIsStored' /\ VerdictMeansSeen'
  <2>1. object'.rv = rv + 1 /\ object'.status = NoStatus
    BY <1>1 DEF Create
  <2>. QED
    BY <1>1, <2>1, NewVersionIsLast DEF Create, VerdictMeansSeen
<1>2. ASSUME NEW s \in Specs, Edit(s)
      PROVE  LastIsStored' /\ VerdictMeansSeen'
  <2>1. /\ object # Absent /\ object.generation \in Nat
        /\ object'.rv = rv + 1 /\ object'.status = object.status
        /\ object'.generation = object.generation + 1
        /\ cache' = cache /\ feed' = Append(feed, object') /\ UNCHANGED worker
    BY <1>2 DEF Edit, TypeOK, Versions
  <2>2. object' \in Versions /\ object' # Absent
    <3>1. rv + 1 \in Nat /\ object \in Versions
      BY <2>1 DEF TypeOK
    <3>. QED
      BY <1>2, <3>1, VersionsWellFormed, IntentControllerAssumption DEF Edit
  <2>3. /\ LastIsStored'
        /\ Len(feed) \in Nat /\ Len(feed') = Len(feed) + 1
        /\ \A i : i = Len(feed) + 1 => Copy(i)' = object'
        /\ \A i \in 0..Len(feed) : Copy(i)' = Copy(i)
    BY <2>1, NewVersionIsLast
  <2>4. ASSUME object.status # NoStatus, NEW i \in 0..Len(feed')
        PROVE  /\ Copy(i)' # Absent
               /\ Copy(i)'.generation <= object'.generation
               /\ Copy(i)'.generation = object'.generation => Copy(i)' = object'
    <3>1. CASE i \in 0..Len(feed)
      <4>1. Copy(i)' = Copy(i) /\ Copy(i) # Absent /\ Copy(i).generation <= object.generation
        BY <2>1, <2>3, <2>4, <3>1 DEF VerdictMeansSeen
      <4>2. Copy(i) \in Versions /\ Copy(i).generation \in Nat
        BY <3>1, <4>1 DEF Copy, TypeOK, Versions
      <4>. QED
        BY <2>1, <4>1, <4>2
    <3>2. CASE i \notin 0..Len(feed)
      <4>1. i = Len(feed) + 1
        BY <2>3, <3>2
      <4>2. Copy(i)' = object'
        BY <2>3, <4>1
      <4>3. object'.generation \in Nat
        BY <2>1
      <4>. QED
        BY <2>2, <4>2, <4>3
    <3>. QED
      BY <3>1, <3>2
  <2>. QED
    BY <2>1, <2>3, <2>4 DEF VerdictMeansSeen
<1>3. CASE Delete
  BY <1>3, NewVersionIsLast DEF Delete, VerdictMeansSeen
<1>4. CASE Observe
  <2>1. /\ Len(feed) \in Nat /\ Len(feed) > 0 /\ Len(feed') = Len(feed) - 1
        /\ \A i \in 0..(Len(feed) - 1) : Copy(i)' = Copy(i + 1)
    BY <1>4, DeliveryShifts
  <2>2. UNCHANGED <<object, pc, working>>
    BY <1>4 DEF Observe, store, worker
  <2>3. ASSUME NEW i \in 0..Len(feed')
        PROVE  i + 1 \in 0..Len(feed) /\ Copy(i)' = Copy(i + 1)
    BY <2>1
  <2>4. ASSUME object # Absent
        PROVE  ~(pc = "writing" /\ working.rv = object.rv)
    <3>1. 0 \in 0..Len(feed) /\ Copy(0) = cache /\ Len(feed) # 0
      BY <2>1 DEF Copy
    <3>. QED
      BY <2>4, <3>1 DEF LastIsStored
  <2>5. ASSUME object # Absent, NEW i \in 0..Len(feed'), Copy(i)' # Absent, Copy(i)'.rv = object.rv
        PROVE  i = Len(feed')
    <3>1. i + 1 = Len(feed)
      BY <2>3, <2>5 DEF LastIsStored
    <3>. QED
      BY <2>1, <3>1
  <2>6. LastIsStored'
    BY <2>2, <2>4, <2>5 DEF LastIsStored
  <2>7. VerdictMeansSeen'
    BY <2>2, <2>3 DEF VerdictMeansSeen, Settled
  <2>. QED
    BY <2>6, <2>7
<1>5. ASSUME object' = object, cache' = object, feed' = <<>>
      PROVE  LastIsStored' /\ VerdictMeansSeen'
  <2>1. Len(feed') = 0 /\ Copy(0)' = object'
    BY <1>5 DEF Copy
  <2>2. \A i \in 0..Len(feed') : i = 0 /\ i = Len(feed') /\ Copy(i)' = object'
    BY <2>1 DEF Copy
  <2>3. object' # Absent => object'.generation \in Nat
    BY <1>5 DEF TypeOK, Versions
  <2>. QED
    BY <1>5, <2>2, <2>3 DEF LastIsStored, VerdictMeansSeen
<1>6. CASE Relist \/ Restart
  BY <1>5, <1>6 DEF Relist, Inform, Restart, store
<1>7. ASSUME UNCHANGED <<object, feed, cache>>,
             object # Absent /\ pc' = "writing" /\ working'.rv = object.rv => cache = object
      PROVE  LastIsStored' /\ VerdictMeansSeen'
  <2>1. \A i : Copy(i)' = Copy(i)
    BY <1>7 DEF Copy
  <2>. QED
    BY <1>7, <2>1 DEF LastIsStored, VerdictMeansSeen, Settled
<1>8. CASE Reconcile
  <2>1. UNCHANGED <<object, feed, cache>>
    BY <1>8 DEF Reconcile, store
  <2>2. ASSUME object # Absent, pc' = "writing", working'.rv = object.rv
        PROVE  cache = object
    <3>1. cache \in Versions /\ cache # Absent /\ working'.rv = cache.rv
      BY <1>8, <2>2 DEF Reconcile, TypeOK, worker, Versions
    <3>. QED
      BY <2>2, <3>1 DEF IInv, CopiesAreTrue, TrueCopy
  <2>. QED
    BY <1>7, <2>1, <2>2
<1>9. ASSUME pc = "writing", Accepted, StoreStatus, cache' = cache, pc' = "idle"
      PROVE  LastIsStored' /\ VerdictMeansSeen'
  <2>1. object'.rv = rv + 1 /\ Settled' /\ feed' = Append(feed, object')
    BY <1>9, AcceptedWriteKeepsBooks, AcceptedWriteSettles DEF StoreStatus
  <2>2. /\ LastIsStored'
        /\ Len(feed) \in Nat /\ Len(feed') = Len(feed) + 1
        /\ \A i : i = Len(feed) + 1 => Copy(i)' = object'
        /\ \A i \in 0..Len(feed) : Copy(i)' = Copy(i)
    BY <1>9, <2>1, NewVersionIsLast
  <2>3. object # Absent /\ object \in Versions /\ cache = object
    BY <1>9 DEF LastIsStored, Accepted, TypeOK
  <2>4. Len(feed) = 0
    <3>1. 0 \in 0..Len(feed) /\ Copy(0) = object
      BY <2>2, <2>3 DEF Copy
    <3>. QED
      BY <2>3, <3>1 DEF LastIsStored
  <2>5. object'.generation = object.generation /\ object.generation \in Nat
    BY <1>9, <2>3 DEF StoreStatus, Versions
  <2>6. object' # Absent
    BY <1>9, <2>3, StoreStatusTyped DEF IInv, WorkIsTrue
  <2>7. ASSUME NEW i \in 0..Len(feed')
        PROVE  Copy(i)' \in {object, object'}
    <3>1. i = 0 \/ i = Len(feed) + 1
      BY <2>2, <2>4
    <3>2. Copy(0)' = object
      BY <1>9, <2>3 DEF Copy
    <3>. QED
      BY <2>2, <3>1, <3>2
  <2>. QED
    BY <2>1, <2>2, <2>3, <2>5, <2>6, <2>7 DEF VerdictMeansSeen
<1>10. CASE UpdateStored
  BY <1>9, <1>10 DEF UpdateStored, Finish
<1>11. CASE UpdateRefused
  BY <1>7, <1>11 DEF UpdateRefused, Finish, store
<1>12. CASE UpdateFails
  <2>1. CASE UNCHANGED <<store, feed>>
    BY <1>7, <1>12, <2>1 DEF UpdateFails, Finish, store
  <2>2. CASE Accepted /\ StoreStatus
    BY <1>9, <1>12, <2>2 DEF UpdateFails, Finish
  <2>. QED
    BY <1>12, <2>1, <2>2 DEF UpdateFails
<1>13. CASE UNCHANGED vars
  <2>1. UNCHANGED <<object, feed, cache, pc, working>>
    BY <1>13 DEF vars, store, manager, worker
  <2>. QED
    BY <1>7, <2>1 DEF LastIsStored
<1>. QED
  BY <1>1, <1>2, <1>3, <1>4, <1>6, <1>8, <1>10, <1>11, <1>12, <1>13 DEF Next

(***************************************************************************)
(* An intent with nothing queued, written or on its way has the verdict of *)
(* its current spec, or after a broken watch none yet: whatever the        *)
(* predicate dropped, whenever the edits came and however often the        *)
(* manager listed again, a verdict on show is not stale                    *)
(* (communicationintent_controller.go:103-120).                            *)
(***************************************************************************)
THEOREM NoEditIsMissed == Spec => []IdleMeansSettled
<1>1. Init => NoWakeUpLost /\ LastIsStored /\ VerdictMeansSeen
  BY DEF Init, NoWakeUpLost, LastIsStored, VerdictMeansSeen, Copy, Settled
<1>2. IInv /\ NoWakeUpLost /\ LastIsStored /\ VerdictMeansSeen /\ [Next]_vars
      => NoWakeUpLost' /\ LastIsStored' /\ VerdictMeansSeen'
  BY WakeUpStep, SeenStep
<1>3. NoWakeUpLost => IdleMeansSettled
  <2>1. feed = <<>> => ~WakesAfter(0)
    BY DEF WakesAfter
  <2>. QED
    BY <2>1 DEF NoWakeUpLost, IdleMeansSettled
<1>. QED
  BY <1>1, <1>2, <1>3, IntentInvariant, PTL DEF Spec
=============================================================================
