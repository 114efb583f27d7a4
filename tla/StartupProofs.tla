---------------------------- MODULE StartupProofs ----------------------------
(* Proofs about MCStartup: about ReservationNumbers, for any owners, digits  *)
(* and sequence length up to 999, and, with the theorems of SchemaInitProofs,*)
(* about the initialisations it puts beside it.                              *)
EXTENDS MCStartup, TLAPS

WellFormed(o, no) ==
    \E seq \in 1..SeqMax, y \in Ys, a \in 0..9 :
        no = Number(seq, y, ZDigit(o), a)

\* The tests' bound on reservation_no.
SixDigits(no) == no \in Nat /\ 1000 <= no /\ no < 1000000

\* At most one transaction holds an owner's sequence row.
LockExclusive ==
    \A v, w \in Workers : v # w /\ locked[v] # 0 => locked[v] # locked[w]

\* What a transaction is about to commit follows from the sequence row it
\* has locked, and the number it is about to insert carries that XXX.
PendingIsNext ==
    \A w \in Workers : locked[w] # 0 =>
        /\ stored[w] = AfterIncrement(next[locked[w]])
        /\ WellFormed(locked[w], number[w])
        /\ SeqOf(number[w]) = SeqBefore(stored[w])

\* Unless the row has been raised since, it is one past the newest number.
NextFollowsLast ==
    \A o \in Owners \ restarted :
        next[o] = IF last[o] = 0 THEN 0 ELSE Successor(last[o])

IInv ==
    /\ TypeOK
    /\ NumbersWellFormed
    /\ LockExclusive
    /\ PendingIsNext
    /\ NextFollowsLast

\* A composed number is a natural number whose thousands are the sequence.
LEMMA NumberComposes ==
    ASSUME NEW seq \in 1..SeqMax, NEW y \in 0..9, NEW z \in 0..9, NEW a \in 0..9
    PROVE  /\ SixDigits(Number(seq, y, z, a))
           /\ SeqOf(Number(seq, y, z, a)) = seq
  BY NumbersAssumption DEF Number, SeqOf, SixDigits

\* The increment stays within 1..SeqMax and the recovered XXX is its
\* predecessor on the circle 1..SeqMax.
LEMMA IncrementInRange ==
    ASSUME NEW n \in Nat
    PROVE  /\ AfterIncrement(n) \in 1..SeqMax
           /\ SeqBefore(AfterIncrement(n)) \in 1..SeqMax
           /\ AfterIncrement(n) = Successor(SeqBefore(AfterIncrement(n)))
           /\ n \in 1..SeqMax => SeqBefore(AfterIncrement(n)) = n
           /\ n = 0 => SeqBefore(AfterIncrement(n)) = 1
  BY NumbersAssumption DEF AfterIncrement, SeqBefore, Successor

LEMMA ZDigitInRange ==
    ASSUME NEW o \in Owners
    PROVE  ZDigit(o) \in 0..9
  BY NumbersAssumption DEF ZDigit

\* The number a transaction composes is well formed and carries its XXX.
LEMMA AllocatedNumber ==
    ASSUME TypeOK, NEW o \in Owners, NEW y \in Ys, NEW n \in 1..SeqMax
    PROVE  LET no == Number(SeqBefore(n), y, ZDigit(o), GetManagementNo(o))
           IN  /\ no \in Nat
               /\ WellFormed(o, no)
               /\ SeqOf(no) = SeqBefore(n)
<1>1. GetManagementNo(o) \in 0..9
  BY DEF TypeOK, GetManagementNo
<1>2. SeqBefore(n) \in 1..SeqMax
  BY NumbersAssumption DEF SeqBefore
<1>3. y \in 0..9 /\ ZDigit(o) \in 0..9
  BY NumbersAssumption, ZDigitInRange
<1>4. /\ SixDigits(Number(SeqBefore(n), y, ZDigit(o), GetManagementNo(o)))
      /\ SeqOf(Number(SeqBefore(n), y, ZDigit(o), GetManagementNo(o))) = SeqBefore(n)
  BY <1>1, <1>2, <1>3, NumberComposes
<1> QED
  BY <1>1, <1>2, <1>4 DEF WellFormed, SixDigits

LEMMA MaxNoInNat ==
    ASSUME NEW S \in SUBSET Nat
    PROVE  MaxNo(S) \in Nat
  BY DEF MaxNo

LEMMA NumbersInit == Init => IInv
  BY NumbersAssumption
  DEF Init, IInv, TypeOK, NumbersWellFormed, LockExclusive, PendingIsNext,
      NextFollowsLast, None

LEMMA NumbersNext == IInv /\ [Next]_vars => IInv'
<1> SUFFICES ASSUME IInv, [Next]_vars PROVE IInv'
  OBVIOUS
<1> USE DEF IInv, tables, settings, txn
<1>1. ASSUME NEW w \in Workers, NEW o \in Owners, Allocate(w, o) PROVE IInv'
  <2> DEFINE n == AfterIncrement(next[o])
  <2>1. n \in 1..SeqMax
    BY IncrementInRange DEF TypeOK
  <2>2. PICK y \in Ys :
            /\ stored' = [stored EXCEPT ![w] = n]
            /\ number' = [number EXCEPT ![w] =
                  Number(SeqBefore(n), y, ZDigit(o), GetManagementNo(o))]
    BY <1>1 DEF Allocate
  <2> DEFINE no == Number(SeqBefore(n), y, ZDigit(o), GetManagementNo(o))
  <2>3. no \in Nat /\ WellFormed(o, no) /\ SeqOf(no) = SeqBefore(n)
    BY <2>1, AllocatedNumber
  <2> HIDE DEF n, no
  <2>4. TypeOK'
    BY <1>1, <2>1, <2>2, <2>3, NumbersAssumption DEF Allocate, TypeOK, no
  <2>5. LockExclusive'
    BY <1>1 DEF Allocate, LockExclusive, Unlocked, TypeOK
  <2>6. PendingIsNext'
    <3> SUFFICES ASSUME NEW v \in Workers, locked'[v] # 0
                 PROVE  /\ stored'[v] = AfterIncrement(next[locked'[v]])
                        /\ WellFormed(locked'[v], number'[v])
                        /\ SeqOf(number'[v]) = SeqBefore(stored'[v])
      BY <1>1 DEF Allocate, PendingIsNext
    <3>1. CASE v = w
      BY <1>1, <2>2, <2>3, <3>1 DEF Allocate, TypeOK, n, no
    <3>2. CASE v # w
      BY <1>1, <2>2, <3>2 DEF Allocate, PendingIsNext, TypeOK
    <3> QED
      BY <3>1, <3>2
  <2>7. NumbersWellFormed' /\ NextFollowsLast'
    BY <1>1 DEF Allocate, NumbersWellFormed, NextFollowsLast
  <2> QED
    BY <2>4, <2>5, <2>6, <2>7
<1>2. ASSUME NEW w \in Workers, NEW o \in Owners, Issue(w, o) PROVE IInv'
  <2>1. locked[w] = o /\ o # 0
    BY <1>2, NumbersAssumption DEF Issue
  <2>2. /\ stored[w] = AfterIncrement(next[o])
        /\ WellFormed(o, number[w])
        /\ SeqOf(number[w]) = SeqBefore(stored[w])
    BY <2>1 DEF PendingIsNext
  <2>3. stored[w] \in 1..SeqMax /\ SeqBefore(stored[w]) \in 1..SeqMax
    BY <2>2, IncrementInRange DEF TypeOK
  <2>4. stored[w] = Successor(SeqBefore(stored[w]))
    BY <2>2, IncrementInRange DEF TypeOK
  <2>5. TypeOK'
    BY <1>2, <2>2, <2>3, NumbersAssumption DEF Issue, EndTxn, TypeOK
  <2>6. NumbersWellFormed'
    BY <1>2, <2>2 DEF Issue, NumbersWellFormed, WellFormed, TypeOK
  <2>7. LockExclusive'
    BY <1>2 DEF Issue, EndTxn, LockExclusive, TypeOK
  <2>8. PendingIsNext'
    <3> SUFFICES ASSUME NEW v \in Workers, locked'[v] # 0
                 PROVE  /\ stored'[v] = AfterIncrement(next'[locked'[v]])
                        /\ WellFormed(locked'[v], number'[v])
                        /\ SeqOf(number'[v]) = SeqBefore(stored'[v])
      BY DEF PendingIsNext
    <3>1. v # w /\ locked'[v] = locked[v] /\ locked[v] # o
      BY <1>2, <2>1 DEF Issue, EndTxn, TypeOK, LockExclusive
    <3> QED
      BY <1>2, <3>1 DEF Issue, EndTxn, PendingIsNext, TypeOK
  <2>9. NextFollowsLast'
    <3> SUFFICES ASSUME NEW p \in Owners \ restarted'
                 PROVE  next'[p] = IF last'[p] = 0 THEN 0 ELSE Successor(last'[p])
      BY DEF NextFollowsLast
    <3>1. CASE p = o
      BY <1>2, <2>2, <2>3, <2>4, <3>1 DEF Issue, TypeOK
    <3>2. CASE p # o
      BY <1>2, <3>2 DEF Issue, TypeOK, NextFollowsLast
    <3> QED
      BY <3>1, <3>2
  <2> QED
    BY <2>5, <2>6, <2>7, <2>8, <2>9
<1>3. ASSUME NEW w \in Workers, Rollback(w) PROVE IInv'
  <2>1. TypeOK' /\ NumbersWellFormed' /\ NextFollowsLast'
    BY <1>3 DEF Rollback, EndTxn, TypeOK, NumbersWellFormed, NextFollowsLast
  <2>2. LockExclusive'
    BY <1>3 DEF Rollback, EndTxn, LockExclusive, TypeOK
  <2>3. PendingIsNext'
    BY <1>3 DEF Rollback, EndTxn, PendingIsNext, TypeOK
  <2> QED
    BY <2>1, <2>2, <2>3
<1>4. ASSUME NEW o \in Owners, NEW a \in As, SetManagementNo(o, a) PROVE IInv'
  BY <1>4, NumbersAssumption
  DEF SetManagementNo, TypeOK, NumbersWellFormed, LockExclusive, PendingIsNext,
      NextFollowsLast
<1>5. ASSUME StartRead PROVE IInv'
  <2>1. \A o \in Owners : MaxNo(issued[o]) \in Nat
    BY MaxNoInNat DEF TypeOK
  <2>2. TypeOK'
    BY <1>5, <2>1 DEF StartRead, TypeOK
  <2> QED
    BY <1>5, <2>2
    DEF StartRead, NumbersWellFormed, LockExclusive, PendingIsNext,
        NextFollowsLast
<1>6. ASSUME NEW o \in Owners, StartWrite(o) PROVE IInv'
  <2>1. TypeOK'
    BY <1>6 DEF StartWrite, TypeOK, Greatest, None
  <2>2. NumbersWellFormed' /\ LockExclusive' /\ NextFollowsLast'
    BY <1>6 DEF StartWrite, NumbersWellFormed, LockExclusive, NextFollowsLast,
                TypeOK
  <2>3. PendingIsNext'
    BY <1>6 DEF StartWrite, Unlocked, PendingIsNext, TypeOK
  <2> QED
    BY <2>1, <2>2, <2>3
<1>7. ASSUME DeleteAll PROVE IInv'
  BY <1>7
  DEF DeleteAll, TypeOK, NumbersWellFormed, LockExclusive, PendingIsNext,
      NextFollowsLast
<1>8. ASSUME UNCHANGED vars PROVE IInv'
  BY <1>8
  DEF vars, settings, TypeOK, NumbersWellFormed, LockExclusive, PendingIsNext,
      NextFollowsLast, WellFormed, GetManagementNo
<1> QED
  BY <1>1, <1>2, <1>3, <1>4, <1>5, <1>6, <1>7, <1>8 DEF Next

\* The inductive invariant holds in every reachable state.
THEOREM NumbersInvariant == Spec => []IInv
<1>1. Init => IInv
  BY NumbersInit
<1>2. IInv /\ [Next]_vars => IInv'
  BY NumbersNext
<1> QED
  BY <1>1, <1>2, PTL DEF Spec

\* The sequence rows, the numbers and the transactions stay well typed.
THEOREM NumbersTypes == Spec => []TypeOK
  BY NumbersInvariant, PTL DEF IInv

\* allocate_admin_reservation_no: every number issued has the form XXXYZA.
THEOREM NumbersAreWellFormed == Spec => []NumbersWellFormed
  BY NumbersInvariant, PTL DEF IInv

\* The tests' bound on reservation_no: 1000 <= no <= 999999.
THEOREM NumbersAreSixDigits ==
    Spec => [](\A o \in Owners : \A no \in issued[o] : SixDigits(no))
<1>1. IInv => \A o \in Owners : \A no \in issued[o] : SixDigits(no)
  <2> SUFFICES ASSUME IInv, NEW o \in Owners, NEW no \in issued[o]
               PROVE  SixDigits(no)
    OBVIOUS
  <2>1. PICK seq \in 1..SeqMax, y \in Ys, a \in 0..9 :
            no = Number(seq, y, ZDigit(o), a)
    BY DEF IInv, NumbersWellFormed
  <2>2. y \in 0..9 /\ ZDigit(o) \in 0..9
    BY NumbersAssumption, ZDigitInRange
  <2> QED
    BY <2>1, <2>2, NumberComposes
<1> QED
  BY <1>1, NumbersInvariant, PTL

\* allocate_admin_reservation_no: consecutive numbers of an owner carry
\* consecutive sequences, unless the sequence row was raised in between.
THEOREM NumbersAdvance == Spec => SequenceAdvances
<1> DEFINE Step == \A o \in Owners :
              issued'[o] \ issued[o] # {} /\ o \notin restarted =>
                  last'[o] = Successor(last[o])
<1>1. IInv /\ [Next]_vars => [Step]_vars
  <2> SUFFICES ASSUME IInv, Next, NEW o \in Owners,
                      issued'[o] \ issued[o] # {}, o \notin restarted
               PROVE  last'[o] = Successor(last[o])
    OBVIOUS
  <2>1. PICK w \in Workers : Issue(w, o)
    <3>1. \/ UNCHANGED issued
          \/ DeleteAll
          \/ \E v \in Workers, p \in Owners : Issue(v, p)
      BY DEF Next, Allocate, Rollback, SetManagementNo, StartRead, StartWrite, tables
    <3>2. ~DeleteAll
      BY DEF DeleteAll
    <3>3. PICK v \in Workers, p \in Owners : Issue(v, p)
      BY <3>1, <3>2
    <3>4. p = o
      BY <3>3 DEF Issue, IInv, TypeOK
    <3> QED
      BY <3>3, <3>4
  <2>2. /\ stored[w] = AfterIncrement(next[o])
        /\ SeqOf(number[w]) = SeqBefore(stored[w])
    BY <2>1, NumbersAssumption DEF IInv, PendingIsNext, Issue
  <2>3. last'[o] = SeqBefore(AfterIncrement(next[o]))
    BY <2>1, <2>2 DEF Issue, IInv, TypeOK
  <2>4. next[o] = IF last[o] = 0 THEN 0 ELSE Successor(last[o])
    BY DEF IInv, NextFollowsLast
  <2>5. last[o] \in 0..SeqMax
    BY DEF IInv, TypeOK
  <2>6. CASE last[o] = 0
    BY <2>3, <2>4, <2>6, IncrementInRange, NumbersAssumption DEF Successor
  <2>7. CASE last[o] # 0
    <3> DEFINE s == last[o]
    <3>0. SeqMax \in Nat /\ s \in 0..SeqMax /\ s # 0
      BY <2>5, <2>7, NumbersAssumption
    <3> HIDE DEF s
    <3>2. Successor(s) \in 1..SeqMax
      BY <3>0 DEF Successor
    <3>1. Successor(last[o]) \in 1..SeqMax
      BY <3>2 DEF s
    <3> QED
      BY <2>3, <2>4, <2>7, <3>1, IncrementInRange
  <2> QED
    BY <2>6, <2>7
<1> QED
  BY <1>1, NumbersInvariant, PTL DEF Spec, SequenceAdvances
-----------------------------------------------------------------------------
(* Side by side *)

SchemaP == INSTANCE SchemaInitProofs WITH
    ProcessOf <- [t \in Threads |-> process],
    None <- Null, tables <- done

RevisionsP == INSTANCE SchemaInitProofs WITH
    ProcessOf <- [t \in Threads |-> IF t = t1 THEN process ELSE other],
    None <- Null, tables <- done

LEMMA AssumptionsHold == SchemaP!SchemaAssumption /\ RevisionsP!SchemaAssumption
  BY StartupAssumption
  DEF SchemaP!SchemaAssumption, RevisionsP!SchemaAssumption, Threads, Processes,
      SchemaP!IsFiniteSet, RevisionsP!IsFiniteSet, IsFiniteSet, Schema!Row,
      SchemaP!Row, RevisionsP!Row, Schema!Dangling, SchemaP!Dangling, RevisionsP!Dangling,
      Schema!MaxNo, SchemaP!MaxNo, RevisionsP!MaxNo, Schema!Cardinality,
      SchemaP!Cardinality, RevisionsP!Cardinality

\* Instances of the same module with the same substitution are the same.
LEMMA SameSteps == (Schema!Next <=> SchemaP!Next) /\ (Revisions!Next <=> RevisionsP!Next)
<1>1. Schema!Next <=> SchemaP!Next
  BY
    DEF Schema!locks, SchemaP!locks, Schema!database, SchemaP!database, Schema!counters,
        SchemaP!counters, Schema!Order, SchemaP!Order, Schema!Tables, SchemaP!Tables,
        Schema!Row, SchemaP!Row, Schema!Dangling, SchemaP!Dangling, Schema!MaxNo,
        SchemaP!MaxNo, Schema!Goto, SchemaP!Goto, Schema!Free, SchemaP!Free,
        Schema!Arrive, SchemaP!Arrive, Schema!Probe, SchemaP!Probe, Schema!CheckFlag,
        SchemaP!CheckFlag, Schema!Lock, SchemaP!Lock, Schema!Proceed, SchemaP!Proceed,
        Schema!LockPool, SchemaP!LockPool, Schema!Connect, SchemaP!Connect,
        Schema!Stored, SchemaP!Stored, Schema!Twice, SchemaP!Twice, Schema!Unique,
        SchemaP!Unique, Schema!CreateReservations, SchemaP!CreateReservations,
        Schema!CreateAccounts, SchemaP!CreateAccounts, Schema!NewTypeOwner,
        SchemaP!NewTypeOwner, Schema!OwnerOf, SchemaP!OwnerOf,
        Schema!NewNumber, SchemaP!NewNumber, Schema!Repaired, SchemaP!Repaired,
        Schema!RepairedRows, SchemaP!RepairedRows, Schema!RepairRows,
        SchemaP!RepairRows, Schema!CreateRest, SchemaP!CreateRest, Schema!MigratedRows,
        SchemaP!MigratedRows, Schema!Migrate, SchemaP!Migrate, Schema!Apply,
        SchemaP!Apply, Schema!Fails, SchemaP!Fails, Schema!Step, SchemaP!Step,
        Schema!Raise, SchemaP!Raise, Schema!Finish, SchemaP!Finish, Schema!Return,
        SchemaP!Return, Schema!Reset, SchemaP!Reset, Schema!GoOn, SchemaP!GoOn,
        Schema!Next, SchemaP!Next, Schema!Cardinality, SchemaP!Cardinality
<1>2. Revisions!Next <=> RevisionsP!Next
  BY
    DEF Revisions!locks, RevisionsP!locks, Revisions!database, RevisionsP!database,
        Revisions!counters, RevisionsP!counters, Revisions!Order, RevisionsP!Order,
        Revisions!Tables, RevisionsP!Tables, Revisions!Row, RevisionsP!Row,
        Revisions!Dangling, RevisionsP!Dangling, Revisions!MaxNo, RevisionsP!MaxNo,
        Revisions!Goto, RevisionsP!Goto, Revisions!Free, RevisionsP!Free,
        Revisions!Arrive, RevisionsP!Arrive, Revisions!Probe, RevisionsP!Probe,
        Revisions!CheckFlag, RevisionsP!CheckFlag, Revisions!Lock, RevisionsP!Lock,
        Revisions!Proceed, RevisionsP!Proceed, Revisions!LockPool, RevisionsP!LockPool,
        Revisions!Connect, RevisionsP!Connect, Revisions!Stored, RevisionsP!Stored,
        Revisions!Twice, RevisionsP!Twice, Revisions!Unique, RevisionsP!Unique,
        Revisions!CreateReservations, RevisionsP!CreateReservations,
        Revisions!CreateAccounts, RevisionsP!CreateAccounts,
        Revisions!NewTypeOwner, RevisionsP!NewTypeOwner, Revisions!OwnerOf,
        RevisionsP!OwnerOf, Revisions!NewNumber, RevisionsP!NewNumber,
        Revisions!Repaired, RevisionsP!Repaired, Revisions!RepairedRows,
        RevisionsP!RepairedRows, Revisions!RepairRows, RevisionsP!RepairRows,
        Revisions!CreateRest, RevisionsP!CreateRest, Revisions!MigratedRows,
        RevisionsP!MigratedRows, Revisions!Migrate, RevisionsP!Migrate, Revisions!Apply,
        RevisionsP!Apply, Revisions!Fails, RevisionsP!Fails, Revisions!Step,
        RevisionsP!Step, Revisions!Raise, RevisionsP!Raise, Revisions!Finish,
        RevisionsP!Finish, Revisions!Return, RevisionsP!Return, Revisions!Reset,
        RevisionsP!Reset, Revisions!GoOn, RevisionsP!GoOn, Revisions!Next,
        RevisionsP!Next, Revisions!Cardinality, RevisionsP!Cardinality
<1> QED
  BY <1>1, <1>2

\* What does not look at the processes of the threads is the same in all of them.
LEMMA SameStates ==
    /\ Schema!Init = SchemaP!Init /\ Schema!Init = RevisionsP!Init
    /\ Schema!TypeOK = SchemaP!TypeOK /\ Schema!TypeOK = RevisionsP!TypeOK
    /\ Schema!ServedOnSchema = SchemaP!ServedOnSchema
    /\ Schema!ServedOnSchema = RevisionsP!ServedOnSchema
  BY
  DEF Schema!Init, SchemaP!Init, RevisionsP!Init, Schema!Row, SchemaP!Row,
      RevisionsP!Row, Schema!Dangling, SchemaP!Dangling, RevisionsP!Dangling,
      Schema!MaxNo, SchemaP!MaxNo, RevisionsP!MaxNo, Schema!Cardinality,
      SchemaP!Cardinality, RevisionsP!Cardinality, Schema!Tables, SchemaP!Tables,
      RevisionsP!Tables, Schema!Order, SchemaP!Order, RevisionsP!Order, Schema!TypeOK,
      SchemaP!TypeOK, RevisionsP!TypeOK, Schema!ServedOnSchema, SchemaP!ServedOnSchema,
      RevisionsP!ServedOnSchema, Schema!Stored, SchemaP!Stored, RevisionsP!Stored

\* A behaviour runs the initialisation of two revisions, or that of one process,
\* or leaves it as it began.
SchemaInvOfPart ==
    /\ part = "revisions" => RevisionsP!SchemaInv
    /\ part # "revisions" => SchemaP!SchemaInv

LEMMA StartupStep ==
    ASSUME [StartupNext]_<<part, vars, schemaVars>>
    PROVE  /\ part' = part
           /\ part = "revisions" => [RevisionsP!Next]_(RevisionsP!vars)
           /\ part # "revisions" => [SchemaP!Next]_(SchemaP!vars)
<1>1. UNCHANGED schemaVars => UNCHANGED SchemaP!vars /\ UNCHANGED RevisionsP!vars
  BY DEF schemaVars, SchemaP!vars, SchemaP!locks, SchemaP!database, SchemaP!counters,
         RevisionsP!vars, RevisionsP!locks, RevisionsP!database, RevisionsP!counters
<1> QED
  BY <1>1, SameSteps DEF StartupNext

\* What SchemaInitProofs shows of one step holds of the composed step.
LEMMA StartupNextSchema ==
    ASSUME SchemaInvOfPart, [StartupNext]_<<part, vars, schemaVars>>
    PROVE  /\ SchemaInvOfPart'
           /\ part = "revisions" => RevisionsP!TicketsStand
           /\ part # "revisions" => SchemaP!TicketsStand
<1>1. CASE part = "revisions"
  <2>1. RevisionsP!SchemaInv' /\ RevisionsP!Onward
    BY <1>1, StartupStep, AssumptionsHold, RevisionsP!SchemaNext DEF SchemaInvOfPart
  <2> QED
    BY <1>1, <2>1, StartupStep DEF SchemaInvOfPart, RevisionsP!Onward
<1>2. CASE part # "revisions"
  <2>1. SchemaP!SchemaInv' /\ SchemaP!Onward
    BY <1>2, StartupStep, AssumptionsHold, SchemaP!SchemaNext DEF SchemaInvOfPart
  <2> QED
    BY <1>2, <2>1, StartupStep DEF SchemaInvOfPart, SchemaP!Onward
<1> QED
  BY <1>1, <1>2

\* The invariant of the initialisation holds in every reachable state of the run.
THEOREM StartupInvariant == StartupSpec => []SchemaInvOfPart
<1>1. StartupInit => SchemaInvOfPart
  BY AssumptionsHold, SameStates, SchemaP!SchemaBegins, RevisionsP!SchemaBegins
  DEF StartupInit, SchemaInvOfPart
<1>2. SchemaInvOfPart /\ [StartupNext]_<<part, vars, schemaVars>> => SchemaInvOfPart'
  BY StartupNextSchema
<1> QED
  BY <1>1, <1>2, PTL DEF StartupSpec

LEMMA StartupNumbers == StartupSpec => Spec
<1>1. StartupInit => Init
  BY DEF StartupInit
<1>2. [StartupNext]_<<part, vars, schemaVars>> => [Next]_vars
  BY DEF StartupNext
<1> QED
  BY <1>1, <1>2, PTL DEF StartupSpec, Spec

\* Every variable of the numbers and the initialisation has its type.
THEOREM StartupTypes == StartupSpec => []TypesOK
<1>1. TypeOK /\ SchemaInvOfPart => TypesOK
  BY SameStates DEF SchemaInvOfPart, SchemaP!SchemaInv, RevisionsP!SchemaInv, TypesOK
<1> QED
  BY <1>1, StartupNumbers, NumbersTypes, StartupInvariant, PTL

\* ensure_database_schema: pages are served over a complete schema and repaired
\* rows only.
THEOREM StartupServes == StartupSpec => []ServedOnSchema
<1>1. SchemaInvOfPart => SchemaP!ServedOnSchema \/ RevisionsP!ServedOnSchema
  BY DEF SchemaInvOfPart, SchemaP!SchemaInv, SchemaP!ServedIsComplete,
         SchemaP!ServedOnSchema, SchemaP!Complete, SchemaP!RowsRepaired,
         SchemaP!NoneQueued, RevisionsP!SchemaInv, RevisionsP!ServedIsComplete,
         RevisionsP!ServedOnSchema, RevisionsP!Complete, RevisionsP!RowsRepaired,
         RevisionsP!NoneQueued
<1>2. SchemaInvOfPart => ServedOnSchema
  BY <1>1, SameStates DEF ServedOnSchema
<1> QED
  BY <1>2, StartupInvariant, PTL

\* sync_reservation_owner_numbers: owners and numbers stand, none is given twice.
THEOREM StartupRepairs == StartupSpec => RepairsStand
<1> DEFINE Tickets == \A i \in Schema!Stored :
        /\ rows[i].owner # Null => rows'[i].owner = rows[i].owner
        /\ rows[i].no # 0 => rows'[i].no = rows[i].no
        /\ \A j \in Schema!Stored : rows[i].no = 0 /\ rows'[i].no # 0 /\ i # j
                                    /\ rows'[i].owner = rows'[j].owner
                                    => rows'[i].no # rows'[j].no
<1>1. Schema!Stored = SchemaP!Stored /\ Schema!Stored = RevisionsP!Stored
  BY DEF Schema!Stored, SchemaP!Stored, RevisionsP!Stored
<1>2. SchemaInvOfPart /\ [StartupNext]_<<part, vars, schemaVars>> => Tickets
  BY <1>1, StartupNextSchema DEF SchemaP!TicketsStand, RevisionsP!TicketsStand
<1>3. SchemaInvOfPart /\ [StartupNext]_<<part, vars, schemaVars>> => [Tickets]_(Schema!vars)
  BY <1>2
<1> QED
  BY <1>3, StartupInvariant, PTL DEF StartupSpec, RepairsStand, Schema!RepairsStand
=============================================================================
