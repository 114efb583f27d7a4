-------------------------- MODULE SchemaInitProofs --------------------------
(* Proofs about SchemaInit, for any number of processes, threads and rows.  *)
(* MCStartup instantiates SchemaInit twice, so what the code justifies to   *)
(* assume of the constants is a definition here and a hypothesis of the     *)
(* theorems; StartupProofs discharges it.                                   *)
EXTENDS SchemaInit, FiniteSetTheorems, TLAPS

\* A thread belongs to one process; ids are integers; NULL is no value of its
\* column, and not every type_id is that of a type.
SchemaAssumption ==
    /\ ProcessOf \in [Threads -> Processes]
    /\ IsFiniteSet(Rows) /\ Rows \subseteq Int
    /\ None \notin Threads /\ None \notin Row
    /\ None # Admin /\ None # Type /\ None # Dangling /\ Type # Dangling
    /\ MaxResets \in Nat /\ MaxErrors \in Nat
-----------------------------------------------------------------------------
(* The invariant *)

RowsRepaired ==
    \A i \in Stored :
        /\ rows[i].type # Dangling
        /\ rows[i].type = Type /\ typeOwner # None => rows[i].owner # None
        /\ rows[i].owner # None => rows[i].no # 0

NoneQueued == \A i \in Stored : rows[i].status # "queued"

Complete == tables = Tables /\ RowsRepaired /\ NoneQueued

\* What a process has done stays done, whatever the others do and however often
\* it begins anew.
StepsStand ==
    \A p \in Processes :
        /\ step[p] > 1 => "reservations" \in tables
        /\ step[p] > 2 => "accounts" \in tables
        /\ step[p] > 3 => "types" \in tables /\ RowsRepaired
        /\ step[p] > 4 => "rest" \in tables
        /\ step[p] > 5 => NoneQueued

\* Rows come with a database that has its types.
RowsHaveTypes == "types" \in tables \/ Stored = {}

Numbered == {i \in Stored : rows[i].no # 0}

\* Repairs number the rows on from what they find.
NumbersWithin == \A i \in Stored : rows[i].no <= 1 + Cardinality(Numbered)

ReadyIsComplete == \A p \in Processes : ready[p] => Complete
ServedIsComplete == \A t \in Threads : at[t] = "serve" => Complete

\* SCHEMA_LOCK is held over all the steps, and the pool's creation among them.
SchemaLockHeld ==
    /\ \A t \in Threads : at[t] = "steps" => schemaLock[ProcessOf[t]] = t
    /\ \A p \in Processes, t \in Threads :
          schemaLock[p] = t => ProcessOf[t] = p /\ at[t] \in {"steps", "pool", "connect"}

\* POOL_LOCK is held by the thread that connects, and by nobody else.
PoolLockHeld ==
    /\ \A t \in Threads : at[t] = "connect" => poolLock[ProcessOf[t]] = t
    /\ \A p \in Processes, t \in Threads :
          poolLock[p] = t => ProcessOf[t] = p /\ at[t] = "connect"

SchemaInv ==
    /\ TypeOK
    /\ StepsStand
    /\ RowsHaveTypes
    /\ NumbersWithin
    /\ ReadyIsComplete
    /\ ServedIsComplete
    /\ SchemaLockHeld
    /\ PoolLockHeld
-----------------------------------------------------------------------------
(* What sync_reservation_owner_numbers numbers the rows with *)

\* Induction over a finite set, by a smallest part of it without a maximum.
LEMMA MaximumExists ==
    ASSUME NEW S \in SUBSET Nat, IsFiniteSet(S), S # {}
    PROVE  \E m \in S : \A s \in S : s <= m
<1> DEFINE HasMax(T) == \E m \in T : \A s \in T : s <= m
           Bad == {T \in SUBSET S : T # {} /\ ~HasMax(T)}
<1> SUFFICES ASSUME Bad # {} PROVE FALSE
  OBVIOUS
<1>1. Bad \subseteq FiniteSubsetsOf(S)
  BY FS_Subset DEF FiniteSubsetsOf
<1>2. PICK T \in Bad : \A U \in Bad : ~(<<U, T>> \in StrictSubsetOrdering(S))
  BY <1>1, FS_StrictSubsetOrderingWellFounded, WFMin
<1>3. \A U \in Bad : ~(U \subseteq T /\ U # T)
  BY <1>2 DEF StrictSubsetOrdering
<1>4. PICK x \in T : TRUE
  OBVIOUS
<1>5. T \ {x} # {}
  BY <1>4
<1>6. T \ {x} \in SUBSET S /\ T \ {x} # T
  BY <1>4
<1>7. PICK m \in T \ {x} : \A s \in T \ {x} : s <= m
  BY <1>3, <1>5, <1>6
<1>8. HasMax(T)
  <2>1. m \in T /\ m \in Nat /\ x \in T /\ x \in Nat
    BY <1>4, <1>7
  <2>2. CASE x <= m
    BY <1>7, <2>1, <2>2
  <2>3. CASE m < x
    <3>1. \A s \in T : s <= x
      BY <1>7, <2>1, <2>3
    <3> QED
      BY <2>1, <3>1
  <2> QED
    BY <2>1, <2>2, <2>3
<1> QED
  BY <1>8

Kin(i, admin) == {j \in Stored : OwnerOf(j, admin) = OwnerOf(i, admin)}

Highest(i, admin) ==
    CHOOSE n \in 0..MaxNo : /\ \A j \in Kin(i, admin) : rows[j].no <= n
                            /\ n = 0 \/ \E j \in Kin(i, admin) : rows[j].no = n

\* Those that get a number before the row, and the row.
Before(i, admin) == {j \in Kin(i, admin) : rows[j].no = 0 /\ j <= i}

LEMMA NewNumberIs ==
    \A i \in Rows, admin \in {None, Admin} :
        NewNumber(i, admin) = Highest(i, admin) + Cardinality(Before(i, admin))
  BY DEF NewNumber, Highest, Kin, Before

\* Stored rows are records, and there are finitely many.
LEMMA StoredRows ==
    ASSUME SchemaAssumption, TypeOK
    PROVE  /\ IsFiniteSet(Stored) /\ Stored \subseteq Rows
           /\ \A i \in Stored : rows[i] \in Row /\ rows[i].no \in Nat
           /\ \A i \in Rows \ Stored : rows[i] = None
           /\ MaxNo \in Nat /\ MaxNo = 2 * Cardinality(Rows) /\ Cardinality(Rows) \in Nat
<1>1. Stored \subseteq Rows /\ IsFiniteSet(Rows)
  BY DEF Stored, SchemaAssumption
<1>2. IsFiniteSet(Stored) /\ Cardinality(Rows) \in Nat
  BY <1>1, FS_Subset, FS_CardinalityType
<1>3. \A i \in Stored : rows[i] \in Row
  BY DEF TypeOK, Stored
<1>4. \A r \in Row : r.no \in Nat
  BY DEF Row
<1> QED
  BY <1>1, <1>2, <1>3, <1>4 DEF Stored, MaxNo

\* MAX(reservation_no) of the owner: no kin has more, one has it.
LEMMA HighestIs ==
    ASSUME SchemaAssumption, TypeOK, NEW i \in Stored,
           NEW admin \in {None, Admin}
    PROVE  /\ Highest(i, admin) \in 0..MaxNo
           /\ \A j \in Kin(i, admin) : rows[j].no <= Highest(i, admin)
           /\ \/ Highest(i, admin) = 0
              \/ \E j \in Kin(i, admin) : rows[j].no = Highest(i, admin)
<1> DEFINE Nos == {rows[j].no : j \in Kin(i, admin)}
<1>1. i \in Kin(i, admin) /\ Kin(i, admin) \subseteq Stored
  BY DEF Kin
<1>2. \A j \in Stored : rows[j].no \in 0..MaxNo
  BY StoredRows DEF Row
<1>3. Nos \subseteq 0..MaxNo /\ Nos # {}
  BY <1>1, <1>2
<1>4. IsFiniteSet(Nos) /\ Nos \in SUBSET Nat
  <2>1. 0 \in Int /\ MaxNo \in Int /\ 0..MaxNo \subseteq Nat
    BY StoredRows
  <2>2. IsFiniteSet(0..MaxNo)
    BY <2>1, FS_Interval
  <2> HIDE DEF Nos
  <2> QED
    BY <1>3, <2>1, <2>2, FS_Subset
<1>5. PICK m \in Nos : \A n \in Nos : n <= m
  BY <1>3, <1>4, MaximumExists
<1>6. /\ m \in 0..MaxNo
      /\ \A j \in Kin(i, admin) : rows[j].no <= m
      /\ \E j \in Kin(i, admin) : rows[j].no = m
  BY <1>3, <1>5
<1> QED
  BY <1>6 DEF Highest

\* The rows before a row are among those without a number.
LEMMA BeforeIs ==
    ASSUME SchemaAssumption, TypeOK, NEW i \in Stored,
           NEW admin \in {None, Admin}
    PROVE  /\ IsFiniteSet(Before(i, admin)) /\ Cardinality(Before(i, admin)) \in Nat
           /\ Before(i, admin) \subseteq Stored
           /\ rows[i].no = 0 => Cardinality(Before(i, admin)) >= 1
<1>1. Before(i, admin) \subseteq Stored
  BY DEF Before, Kin
<1>2. IsFiniteSet(Before(i, admin)) /\ Cardinality(Before(i, admin)) \in Nat
  BY <1>1, StoredRows, FS_Subset, FS_CardinalityType
<1>3. ASSUME rows[i].no = 0 PROVE Cardinality(Before(i, admin)) >= 1
  <2>1. i \in Int
    BY StoredRows DEF SchemaAssumption
  <2>2. i \in Before(i, admin)
    BY <1>3, <2>1 DEF Before, Kin
  <2>3. Cardinality(Before(i, admin)) # 0
    BY <1>2, <2>2, FS_EmptySet
  <2> QED
    BY <1>2, <2>3
<1> QED
  BY <1>1, <1>2, <1>3

\* Numbers begin after those of the owner, and no two are the same.
LEMMA NewNumbersDiffer ==
    ASSUME SchemaAssumption, TypeOK, NEW i \in Stored,
           NEW admin \in {None, Admin}, rows[i].no = 0
    PROVE  /\ NewNumber(i, admin) \in Nat /\ NewNumber(i, admin) > 0
           /\ \A j \in Kin(i, admin) : rows[j].no < NewNumber(i, admin)
           /\ \A j \in Kin(i, admin) :
                 rows[j].no = 0 /\ j # i => NewNumber(j, admin) # NewNumber(i, admin)
<1>1. NewNumber(i, admin) = Highest(i, admin) + Cardinality(Before(i, admin)) /\ i \in Int
  BY NewNumberIs, StoredRows DEF SchemaAssumption
<1>2. /\ Highest(i, admin) \in Nat
      /\ Cardinality(Before(i, admin)) \in Nat /\ Cardinality(Before(i, admin)) >= 1
  BY HighestIs, BeforeIs, StoredRows
<1>3. \A j \in Kin(i, admin) : rows[j].no \in Nat /\ rows[j].no <= Highest(i, admin)
  BY HighestIs, StoredRows DEF Kin
<1>4. ASSUME NEW j \in Kin(i, admin), rows[j].no = 0, j # i
      PROVE  NewNumber(j, admin) # NewNumber(i, admin)
  <2>1. j \in Stored /\ j \in Int /\ Kin(j, admin) = Kin(i, admin)
    BY StoredRows DEF Kin, SchemaAssumption
  <2>2. Highest(j, admin) = Highest(i, admin)
    BY <2>1 DEF Highest
  <2>3. NewNumber(j, admin) = Highest(i, admin) + Cardinality(Before(j, admin))
    BY <2>1, <2>2, NewNumberIs, StoredRows
  <2>4. i \in Kin(i, admin)
    BY DEF Kin
  <2>5. CASE i < j
    <3>1. /\ Before(i, admin) \in SUBSET Before(j, admin)
          /\ j \in Before(j, admin) /\ j \notin Before(i, admin)
      <4>1. Kin(i, admin) \subseteq Int
        BY StoredRows DEF Kin, SchemaAssumption
      <4> QED
        BY <1>1, <1>4, <2>1, <2>5, <4>1 DEF Before
    <3>2. IsFiniteSet(Before(j, admin))
      BY <2>1, BeforeIs
    <3>3. Cardinality(Before(i, admin)) # Cardinality(Before(j, admin))
      BY <3>1, <3>2, FS_Subset
    <3>4. Cardinality(Before(j, admin)) \in Nat
      BY <2>1, BeforeIs
    <3> QED
      BY <1>1, <1>2, <2>3, <3>3, <3>4
  <2>6. CASE j < i
    <3>1. /\ Before(j, admin) \in SUBSET Before(i, admin)
          /\ i \in Before(i, admin) /\ i \notin Before(j, admin)
      <4>1. Kin(i, admin) \subseteq Int
        BY StoredRows DEF Kin, SchemaAssumption
      <4> QED
        BY <1>1, <2>1, <2>4, <2>6, <4>1 DEF Before
    <3>2. IsFiniteSet(Before(i, admin))
      BY BeforeIs
    <3>3. Cardinality(Before(i, admin)) # Cardinality(Before(j, admin))
      BY <3>1, <3>2, FS_Subset
    <3>4. Cardinality(Before(j, admin)) \in Nat
      BY <2>1, BeforeIs
    <3> QED
      BY <1>1, <1>2, <2>3, <3>3, <3>4
  <2> QED
    BY <1>1, <1>4, <2>1, <2>5, <2>6
<1> QED
  BY <1>1, <1>2, <1>3, <1>4
-----------------------------------------------------------------------------
(* What ensure_types_table makes of the rows *)

LEMMA DisjointUnion ==
    ASSUME NEW S, NEW T, IsFiniteSet(S), IsFiniteSet(T), S \cap T = {}
    PROVE  Cardinality(S \cup T) = Cardinality(S) + Cardinality(T)
<1>1. Cardinality(S \cup T) = Cardinality(S) + Cardinality(T) - Cardinality({})
  BY FS_Union
<1>2. Cardinality({}) = 0 /\ Cardinality(S) \in Nat /\ Cardinality(T) \in Nat
  BY FS_EmptySet, FS_CardinalityType
<1> QED
  BY <1>1, <1>2

WithoutNumber(i, admin) == {j \in Kin(i, admin) : rows[j].no = 0}

\* A new number is at most one more than the rows that have one afterwards.
LEMMA NewNumberWithin ==
    ASSUME SchemaAssumption, TypeOK, NumbersWithin, NEW i \in Stored,
           NEW admin \in {None, Admin}
    PROVE  /\ NewNumber(i, admin) <= 1 + Cardinality(Numbered \cup WithoutNumber(i, admin))
           /\ IsFiniteSet(Numbered \cup WithoutNumber(i, admin))
           /\ Numbered \cup WithoutNumber(i, admin) \subseteq Stored
<1>1. Numbered \subseteq Stored /\ WithoutNumber(i, admin) \subseteq Stored
  BY DEF Numbered, WithoutNumber, Kin
<1>2. /\ IsFiniteSet(Numbered) /\ Cardinality(Numbered) \in Nat
      /\ IsFiniteSet(WithoutNumber(i, admin))
      /\ Cardinality(WithoutNumber(i, admin)) \in Nat
  BY <1>1, StoredRows, FS_Subset, FS_CardinalityType
<1>3. Numbered \cap WithoutNumber(i, admin) = {}
  BY DEF Numbered, WithoutNumber
<1>4. Cardinality(Numbered \cup WithoutNumber(i, admin))
        = Cardinality(Numbered) + Cardinality(WithoutNumber(i, admin))
  BY <1>2, <1>3, DisjointUnion
<1>5. Before(i, admin) \in SUBSET WithoutNumber(i, admin)
  BY DEF Before, WithoutNumber
<1>6. Cardinality(Before(i, admin)) <= Cardinality(WithoutNumber(i, admin))
  BY <1>2, <1>5, FS_Subset
<1>7. Highest(i, admin) <= 1 + Cardinality(Numbered)
  BY <1>2, HighestIs DEF NumbersWithin, Kin
<1>8. Highest(i, admin) \in Nat /\ Cardinality(Before(i, admin)) \in Nat
  BY HighestIs, BeforeIs, StoredRows
<1>9. NewNumber(i, admin) <= 1 + Cardinality(Numbered \cup WithoutNumber(i, admin))
  BY <1>1, <1>2, <1>4, <1>6, <1>7, <1>8, NewNumberIs, StoredRows
<1> QED
  BY <1>1, <1>2, <1>9, FS_Union

\* A repaired row keeps its user, its status and what it had, and is complete.
LEMMA RepairedIs ==
    ASSUME SchemaAssumption, TypeOK, NumbersWithin, NEW i \in Stored,
           NEW admin \in {None, Admin}
    PROVE  /\ Repaired(i, admin) \in Row
           /\ Repaired(i, admin).user = rows[i].user
           /\ Repaired(i, admin).status = rows[i].status
           /\ Repaired(i, admin).type =
                 IF rows[i].type = Dangling THEN None ELSE rows[i].type
           /\ Repaired(i, admin).owner = OwnerOf(i, admin)
           /\ Repaired(i, admin).no =
                 IF rows[i].no = 0 /\ OwnerOf(i, admin) # None THEN NewNumber(i, admin)
                 ELSE rows[i].no
           /\ OwnerOf(i, admin) \in {None, Admin}
           /\ rows[i].owner # None => OwnerOf(i, admin) = rows[i].owner
           /\ rows[i].type = Type /\ NewTypeOwner(admin) # None => OwnerOf(i, admin) # None
<1> DEFINE N == Numbered \cup WithoutNumber(i, admin)
<1>1. rows[i] \in Row
  BY StoredRows
<1>2. /\ OwnerOf(i, admin) \in {None, Admin}
      /\ rows[i].owner # None => OwnerOf(i, admin) = rows[i].owner
      /\ rows[i].type = Type /\ NewTypeOwner(admin) # None => OwnerOf(i, admin) # None
  BY <1>1 DEF OwnerOf, NewTypeOwner, Row, SchemaAssumption, TypeOK
<1>3. /\ Repaired(i, admin).user = rows[i].user
      /\ Repaired(i, admin).status = rows[i].status
      /\ Repaired(i, admin).type =
            IF rows[i].type = Dangling THEN None ELSE rows[i].type
      /\ Repaired(i, admin).owner = OwnerOf(i, admin)
      /\ Repaired(i, admin).no =
            IF rows[i].no = 0 /\ OwnerOf(i, admin) # None THEN NewNumber(i, admin)
            ELSE rows[i].no
  BY <1>1 DEF Repaired, Row
<1>4. ASSUME rows[i].no = 0 PROVE NewNumber(i, admin) \in 0..MaxNo
  <2>1. NewNumber(i, admin) \in Nat /\ NewNumber(i, admin) <= 1 + Cardinality(N)
    BY <1>4, NewNumbersDiffer, NewNumberWithin
  <2>2. N \in SUBSET Rows /\ IsFiniteSet(Rows)
    BY NewNumberWithin, StoredRows DEF SchemaAssumption
  <2>3. Cardinality(N) <= Cardinality(Rows) /\ Cardinality(N) \in Nat
    BY <2>2, FS_Subset, FS_CardinalityType
  <2>4. Cardinality(Rows) # 0
    BY <2>2, StoredRows, FS_EmptySet
  <2> QED
    BY <2>1, <2>3, <2>4, StoredRows
<1>5. Repaired(i, admin).no \in 0..MaxNo
  <2>1. rows[i].no \in 0..MaxNo
    BY <1>1 DEF Row
  <2> QED
    BY <1>3, <1>4, <2>1
<1>6. Repaired(i, admin) \in Row
  <2> DEFINE type == IF rows[i].type = Dangling THEN None ELSE rows[i].type
             no == IF rows[i].no = 0 /\ OwnerOf(i, admin) # None THEN NewNumber(i, admin)
                   ELSE rows[i].no
  <2>1. type \in {None, Dangling, Type} /\ no \in 0..MaxNo
    BY <1>1, <1>3, <1>5 DEF Row
  <2>2. Repaired(i, admin) =
           [rows[i] EXCEPT !.type = type, !.owner = OwnerOf(i, admin), !.no = no]
    BY DEF Repaired
  <2> HIDE DEF type, no
  <2> QED
    BY <1>1, <1>2, <2>1, <2>2 DEF Row
<1> QED
  BY <1>2, <1>3, <1>6

\* ensure_types_table: every row there was is repaired, no row is added.
LEMMA RepairRowsIs ==
    ASSUME SchemaAssumption, TypeOK, NumbersWithin, NEW admin \in {None, Admin},
           rows' = RepairedRows(admin)
    PROVE  /\ Stored' = Stored
           /\ rows' \in [Rows -> Row \cup {None}]
           /\ \A i \in Stored : rows'[i] = Repaired(i, admin)
<1>1. rows' = [i \in Rows |-> IF i \in Stored THEN Repaired(i, admin) ELSE None]
  BY DEF RepairedRows
<1>2. Stored \subseteq Rows /\ \A i \in Stored : Repaired(i, admin) \in Row
  BY StoredRows, RepairedIs
<1>3. \A i \in Stored : Repaired(i, admin) # None
  BY <1>2 DEF SchemaAssumption
<1>4. Stored' = {i \in Rows : rows'[i] # None}
  BY DEF Stored
<1> QED
  BY <1>1, <1>2, <1>3, <1>4

\* migrate_legacy_queued_calls: only the status of a row changes.
LEMMA MigrateIs ==
    ASSUME SchemaAssumption, TypeOK, Migrate
    PROVE  /\ Stored' = Stored
           /\ rows' \in [Rows -> Row \cup {None}]
           /\ \A i \in Stored :
                 /\ rows'[i].user = rows[i].user /\ rows'[i].type = rows[i].type
                 /\ rows'[i].owner = rows[i].owner /\ rows'[i].no = rows[i].no
                 /\ rows'[i].status = IF rows[i].status = "queued" THEN "active"
                                      ELSE rows[i].status
<1>1. rows' = [i \in Rows |-> IF i \in Stored /\ rows[i].status = "queued"
                              THEN [rows[i] EXCEPT !.status = "active"] ELSE rows[i]]
  BY DEF Migrate, MigratedRows
<1>2. ASSUME NEW i \in Stored
      PROVE  /\ rows'[i] \in Row /\ rows'[i] # None
             /\ rows'[i].user = rows[i].user /\ rows'[i].type = rows[i].type
             /\ rows'[i].owner = rows[i].owner /\ rows'[i].no = rows[i].no
             /\ rows'[i].status = IF rows[i].status = "queued" THEN "active"
                                  ELSE rows[i].status
  <2>1. rows[i] \in Row /\ i \in Rows
    BY StoredRows
  <2>2. rows'[i] = IF rows[i].status = "queued" THEN [rows[i] EXCEPT !.status = "active"]
                   ELSE rows[i]
    BY <1>1, <2>1
  <2>3. [rows[i] EXCEPT !.status = "active"] \in Row
    BY <2>1 DEF Row
  <2>4. rows'[i] \in Row
    BY <2>1, <2>2, <2>3
  <2>5. rows'[i] # None
    BY <2>4 DEF SchemaAssumption
  <2> QED
    BY <2>1, <2>2, <2>4, <2>5 DEF Row
<1>3. \A i \in Rows \ Stored : rows'[i] = None
  BY <1>1, StoredRows
<1>4. Stored' = {i \in Rows : rows'[i] # None}
  BY DEF Stored
<1>5. Stored' = Stored
  BY <1>2, <1>3, <1>4, StoredRows
<1>6. rows' \in [Rows -> Row \cup {None}]
  BY <1>1, <1>2, <1>3
<1> QED
  BY <1>2, <1>5, <1>6
-----------------------------------------------------------------------------
(* One step of the initialisation *)

\* What RepairsStand says of a step.
TicketsStand ==
    \A i \in Stored :
        /\ rows[i].owner # None => rows'[i].owner = rows[i].owner
        /\ rows[i].no # 0 => rows'[i].no = rows[i].no
        /\ \A j \in Stored : rows[i].no = 0 /\ rows'[i].no # 0 /\ i # j
                             /\ rows'[i].owner = rows'[j].owner
                             => rows'[i].no # rows'[j].no

\* A step adds to what is done and takes nothing back.
Onward ==
    /\ tables \subseteq tables' /\ tables' \subseteq Tables
    /\ typeOwner' \in {None, Admin} /\ rows' \in [Rows -> Row \cup {None}]
    /\ RowsHaveTypes' /\ NumbersWithin'
    /\ RowsRepaired => RowsRepaired'
    /\ NoneQueued => NoneQueued'
    /\ TicketsStand

LEMMA UntouchedIsOnward ==
    ASSUME TypeOK, RowsHaveTypes, NumbersWithin, tables \subseteq tables',
           tables' \subseteq Tables, UNCHANGED <<typeOwner, rows>>
    PROVE  Onward
<1>1. Stored' = Stored /\ Numbered' = Numbered
  BY DEF Stored, Numbered
<1> QED
  BY <1>1
  DEF Onward, TypeOK, RowsHaveTypes, NumbersWithin, RowsRepaired, NoneQueued, TicketsStand

LEMMA RepairIsOnward ==
    ASSUME SchemaAssumption, TypeOK, RowsHaveTypes, NumbersWithin, RepairRows
    PROVE  Onward /\ RowsRepaired' /\ "types" \in tables'
<1>0. PICK admin \in {None, Admin} :
         /\ rows' = RepairedRows(admin)
         /\ typeOwner' = IF "types" \in tables THEN NewTypeOwner(admin) ELSE typeOwner
  BY DEF RepairRows
<1>1. /\ Stored' = Stored
      /\ rows' \in [Rows -> Row \cup {None}]
      /\ \A i \in Stored : rows'[i] = Repaired(i, admin)
  BY <1>0, RepairRowsIs
<1>2. /\ tables' = tables \cup {"types"}
      /\ typeOwner' \in {None, Admin} /\ tables \subseteq Tables /\ "types" \in Tables
      /\ "types" \in tables => typeOwner' = NewTypeOwner(admin)
  BY <1>0 DEF RepairRows, TypeOK, Tables, NewTypeOwner
<1>3. ASSUME NEW i \in Stored
      PROVE  /\ rows'[i].status = rows[i].status
             /\ rows'[i].type = IF rows[i].type = Dangling THEN None ELSE rows[i].type
             /\ rows'[i].owner = OwnerOf(i, admin)
             /\ rows'[i].no =
                   IF rows[i].no = 0 /\ OwnerOf(i, admin) # None THEN NewNumber(i, admin)
                   ELSE rows[i].no
             /\ rows[i].owner # None => OwnerOf(i, admin) = rows[i].owner
             /\ rows[i].type = Type /\ NewTypeOwner(admin) # None
                   => OwnerOf(i, admin) # None
             /\ rows[i].no \in Nat
  BY <1>1, RepairedIs, StoredRows
<1>4. NumbersWithin'
  <2>1. /\ Numbered \subseteq Numbered' /\ Numbered' \subseteq Stored
        /\ IsFiniteSet(Numbered') /\ Cardinality(Numbered') \in Nat
    <3>1. Numbered' = {i \in Stored : rows'[i].no # 0}
      BY <1>1 DEF Numbered
    <3>2. Numbered \subseteq Numbered' /\ Numbered' \subseteq Stored
      BY <1>3, <3>1 DEF Numbered
    <3> QED
      BY <3>2, StoredRows, FS_Subset, FS_CardinalityType
  <2>2. ASSUME NEW i \in Stored PROVE rows'[i].no <= 1 + Cardinality(Numbered')
    <3>1. CASE rows[i].no = 0 /\ OwnerOf(i, admin) # None
      <4>1. \A j \in WithoutNumber(i, admin) : rows'[j].no # 0
        <5> SUFFICES ASSUME NEW j \in WithoutNumber(i, admin) PROVE rows'[j].no # 0
          OBVIOUS
        <5>1. j \in Stored /\ rows[j].no = 0 /\ OwnerOf(j, admin) # None
          BY <3>1 DEF WithoutNumber, Kin
        <5>2. rows'[j].no = NewNumber(j, admin)
          BY <1>3, <5>1
        <5> QED
          BY <5>1, <5>2, NewNumbersDiffer
      <4>2. Numbered \cup WithoutNumber(i, admin) \in SUBSET Numbered'
        BY <1>1, <2>1, <4>1 DEF Numbered, WithoutNumber, Kin
      <4>3. /\ Cardinality(Numbered \cup WithoutNumber(i, admin)) <= Cardinality(Numbered')
            /\ Cardinality(Numbered \cup WithoutNumber(i, admin)) \in Nat
        BY <2>1, <4>2, FS_Subset, FS_CardinalityType
      <4>4. NewNumber(i, admin) <= 1 + Cardinality(Numbered \cup WithoutNumber(i, admin))
            /\ NewNumber(i, admin) \in Nat
        BY <3>1, NewNumberWithin, NewNumbersDiffer
      <4> QED
        BY <1>3, <2>1, <3>1, <4>3, <4>4
    <3>2. CASE ~(rows[i].no = 0 /\ OwnerOf(i, admin) # None)
      <4>1. rows'[i].no = rows[i].no /\ rows[i].no \in Nat
        BY <1>3, <3>2
      <4>2. rows[i].no <= 1 + Cardinality(Numbered)
        BY DEF NumbersWithin
      <4>3. Cardinality(Numbered) <= Cardinality(Numbered') /\ Cardinality(Numbered) \in Nat
        BY <2>1, FS_Subset, FS_CardinalityType
      <4> QED
        BY <2>1, <4>1, <4>2, <4>3
    <3> QED
      BY <3>1, <3>2
  <2> QED
    BY <1>1, <2>2 DEF NumbersWithin
<1>5. RowsRepaired'
  <2> SUFFICES ASSUME NEW i \in Stored
               PROVE  /\ rows'[i].type # Dangling
                      /\ rows'[i].type = Type /\ typeOwner' # None
                            => rows'[i].owner # None
                      /\ rows'[i].owner # None => rows'[i].no # 0
    BY <1>1 DEF RowsRepaired
  <2>1. rows'[i].type # Dangling /\ (rows'[i].type = Type => rows[i].type = Type)
    BY <1>3 DEF SchemaAssumption
  <2>2. rows'[i].type = Type /\ typeOwner' # None => rows'[i].owner # None
    BY <1>2, <1>3, <2>1 DEF RowsHaveTypes
  <2>3. rows'[i].owner # None => rows'[i].no # 0
    BY <1>3, NewNumbersDiffer
  <2> QED
    BY <2>1, <2>2, <2>3
<1>6. NoneQueued => NoneQueued'
  BY <1>1, <1>3 DEF NoneQueued
<1>7. TicketsStand
  <2> SUFFICES ASSUME NEW i \in Stored, NEW j \in Stored,
                      rows[i].no = 0, rows'[i].no # 0, i # j,
                      rows'[i].owner = rows'[j].owner
               PROVE  rows'[i].no # rows'[j].no
    BY <1>3 DEF TicketsStand
  <2>1. OwnerOf(i, admin) # None /\ rows'[i].no = NewNumber(i, admin) /\ j \in Kin(i, admin)
    BY <1>3 DEF Kin
  <2>2. /\ NewNumber(i, admin) \in Nat
        /\ rows[j].no < NewNumber(i, admin) /\ rows[j].no \in Nat
    BY <1>3, <2>1, NewNumbersDiffer
  <2>3. CASE rows[j].no = 0
    <3>1. rows'[j].no = NewNumber(j, admin)
      BY <1>3, <2>1, <2>3 DEF Kin
    <3> QED
      BY <2>1, <2>3, <3>1, NewNumbersDiffer
  <2>4. CASE rows[j].no # 0
    BY <1>3, <2>1, <2>2, <2>4
  <2> QED
    BY <2>3, <2>4
<1> QED
  BY <1>1, <1>2, <1>4, <1>5, <1>6, <1>7 DEF Onward, RowsHaveTypes

LEMMA MigrateIsOnward ==
    ASSUME SchemaAssumption, TypeOK, RowsHaveTypes, NumbersWithin, Migrate
    PROVE  Onward /\ NoneQueued'
<1>1. /\ Stored' = Stored
      /\ rows' \in [Rows -> Row \cup {None}]
      /\ \A i \in Stored :
            /\ rows'[i].type = rows[i].type /\ rows'[i].owner = rows[i].owner
            /\ rows'[i].no = rows[i].no
            /\ rows'[i].status = IF rows[i].status = "queued" THEN "active"
                                 ELSE rows[i].status
  BY MigrateIs
<1>2. UNCHANGED <<tables, typeOwner>>
  BY DEF Migrate
<1>3. Numbered' = Numbered
  BY <1>1 DEF Numbered
<1>4. NumbersWithin'
  BY <1>1, <1>3 DEF NumbersWithin
<1> QED
  BY <1>1, <1>2, <1>4
  DEF Onward, TypeOK, RowsHaveTypes, RowsRepaired, NoneQueued, TicketsStand

\* Every step is onward, and does what it is there for.
LEMMA ApplyIsOnward ==
    ASSUME SchemaAssumption, TypeOK, RowsHaveTypes, NumbersWithin,
           NEW s \in {"reservations", "accounts", "types", "rest", "migrate"}, Apply(s)
    PROVE  /\ Onward
           /\ s # "migrate" => s \in tables'
           /\ s = "types" => RowsRepaired'
           /\ s = "migrate" => NoneQueued'
<1>1. CASE s \in {"reservations", "accounts", "rest"}
  <2>1. tables' = tables \cup {s} /\ UNCHANGED <<typeOwner, rows>>
    BY <1>1 DEF Apply, CreateReservations, CreateAccounts, CreateRest
  <2>2. tables \subseteq tables' /\ tables' \subseteq Tables
    BY <1>1, <2>1 DEF TypeOK, Tables
  <2> QED
    BY <1>1, <2>1, <2>2, UntouchedIsOnward
<1>2. CASE s = "types"
  BY <1>2, RepairIsOnward DEF Apply
<1>3. CASE s = "migrate"
  BY <1>3, MigrateIsOnward DEF Apply
<1> QED
  BY <1>1, <1>2, <1>3
-----------------------------------------------------------------------------
(* Every action *)

LEMMA OrderIs ==
    /\ Len(Order) = 5
    /\ Order[1] = "reservations" /\ Order[2] = "accounts" /\ Order[3] = "types"
    /\ Order[4] = "rest" /\ Order[5] = "migrate"
  BY DEF Order

LEMMA SchemaBegins == SchemaAssumption /\ Init => SchemaInv
<1> SUFFICES ASSUME SchemaAssumption, Init PROVE SchemaInv
  OBVIOUS
<1>1. \A r \in Row : r # None
  BY DEF SchemaAssumption
<1>2. /\ tables \subseteq Tables /\ typeOwner \in {None, Admin}
      /\ rows \in [Rows -> Row \cup {None}]
      /\ RowsHaveTypes
      /\ \A i \in Stored : rows[i].no \in Nat /\ rows[i].no <= 1
  BY DEF Init, Tables, RowsHaveTypes, Stored, Row
<1>3. TypeOK
  BY <1>2, OrderIs DEF Init, TypeOK, SchemaAssumption
<1>4. NumbersWithin
  <2>1. IsFiniteSet(Numbered)
    BY <1>3, StoredRows, FS_Subset DEF Numbered
  <2>2. Cardinality(Numbered) \in Nat
    BY <2>1, FS_CardinalityType
  <2> QED
    BY <1>2, <2>2 DEF NumbersWithin
<1>5. StepsStand /\ ReadyIsComplete /\ ServedIsComplete
  BY DEF Init, StepsStand, ReadyIsComplete, ServedIsComplete
<1>6. SchemaLockHeld /\ PoolLockHeld
  BY DEF Init, SchemaLockHeld, PoolLockHeld, SchemaAssumption
<1> QED
  BY <1>2, <1>3, <1>4, <1>5, <1>6 DEF SchemaInv

\* What holds of the data after a step that is onward.
LEMMA OnwardKeeps ==
    ASSUME SchemaInv, Onward
    PROVE  /\ RowsHaveTypes' /\ NumbersWithin'
           /\ Complete => Complete'
           /\ \A p \in Processes :
                 /\ step[p] > 1 => "reservations" \in tables'
                 /\ step[p] > 2 => "accounts" \in tables'
                 /\ step[p] > 3 => "types" \in tables' /\ RowsRepaired'
                 /\ step[p] > 4 => "rest" \in tables'
                 /\ step[p] > 5 => NoneQueued'
  BY DEF SchemaInv, Onward, Complete, StepsStand

\* All but the steps leave the database alone.
LEMMA DatabaseStays ==
    ASSUME SchemaInv, UNCHANGED <<tables, typeOwner, rows>>
    PROVE  /\ Onward /\ RowsHaveTypes' /\ NumbersWithin'
           /\ StepsStand /\ step' = step => StepsStand'
           /\ Complete' <=> Complete
<1>1. Onward
  BY UntouchedIsOnward DEF SchemaInv, TypeOK
<1> QED
  BY <1>1, OnwardKeeps
  DEF SchemaInv, StepsStand, Complete, RowsRepaired, NoneQueued, Stored

\* Who has taken every step has completed the schema.
LEMMA AllStepsComplete ==
    ASSUME SchemaInv, NEW p \in Processes, step[p] > 5
    PROVE  Complete
<1>1. step[p] \in 1..6 /\ tables \subseteq Tables /\ StepsStand
  BY OrderIs DEF SchemaInv, TypeOK
<1>2. step[p] > 1 /\ step[p] > 2 /\ step[p] > 3 /\ step[p] > 4
  BY <1>1
<1>3. Tables \subseteq tables /\ RowsRepaired /\ NoneQueued
  BY <1>1, <1>2 DEF StepsStand, Tables
<1> QED
  BY <1>1, <1>3 DEF Complete

LEMMA SchemaNext == SchemaAssumption /\ SchemaInv /\ [Next]_vars => SchemaInv' /\ Onward
<1> SUFFICES ASSUME SchemaAssumption, SchemaInv, [Next]_vars PROVE SchemaInv' /\ Onward
  OBVIOUS
<1> USE DEF locks, database, counters
<1>0. /\ TypeOK /\ StepsStand /\ ReadyIsComplete /\ ServedIsComplete
      /\ SchemaLockHeld /\ PoolLockHeld
      /\ ProcessOf \in [Threads -> Processes] /\ None \notin Threads
  BY DEF SchemaInv, SchemaAssumption
<1>1. ASSUME NEW t \in Threads, Arrive(t) PROVE SchemaInv' /\ Onward
  <2> USE <1>0, <1>1 DEF Arrive, Goto
  <2>1. UNCHANGED <<tables, typeOwner, rows>>
    OBVIOUS
  <2>2. TypeOK'
    BY OrderIs DEF TypeOK, SchemaAssumption
  <2>3. StepsStand'
    BY <2>1, DatabaseStays DEF StepsStand
  <2>4. ReadyIsComplete' /\ ServedIsComplete'
    BY <2>1, DatabaseStays DEF TypeOK, ReadyIsComplete, ServedIsComplete
  <2>5. SchemaLockHeld' /\ PoolLockHeld'
    BY DEF TypeOK, SchemaLockHeld, PoolLockHeld
  <2> QED
    BY <2>1, <2>2, <2>3, <2>4, <2>5, DatabaseStays DEF SchemaInv
<1>2. ASSUME NEW t \in Threads, Probe(t) PROVE SchemaInv' /\ Onward
  <2> USE <1>0, <1>2 DEF Probe, Goto
  <2>1. UNCHANGED <<tables, typeOwner, rows>>
    OBVIOUS
  <2>2. TypeOK'
    BY OrderIs DEF TypeOK, SchemaAssumption
  <2>3. StepsStand'
    BY <2>1, DatabaseStays DEF StepsStand
  <2>4. ReadyIsComplete' /\ ServedIsComplete'
    BY <2>1, DatabaseStays DEF TypeOK, ReadyIsComplete, ServedIsComplete
  <2>5. SchemaLockHeld' /\ PoolLockHeld'
    BY DEF TypeOK, SchemaLockHeld, PoolLockHeld
  <2> QED
    BY <2>1, <2>2, <2>3, <2>4, <2>5, DatabaseStays DEF SchemaInv
<1>3. ASSUME NEW t \in Threads, CheckFlag(t) PROVE SchemaInv' /\ Onward
  <2> USE <1>0, <1>3 DEF CheckFlag, Goto
  <2>1. UNCHANGED <<tables, typeOwner, rows>>
    OBVIOUS
  <2>2. TypeOK'
    BY OrderIs DEF TypeOK, SchemaAssumption
  <2>3. StepsStand'
    BY <2>1, DatabaseStays DEF StepsStand
  <2>4. ReadyIsComplete' /\ ServedIsComplete'
    BY <2>1, DatabaseStays DEF TypeOK, ReadyIsComplete, ServedIsComplete
  <2>5. SchemaLockHeld' /\ PoolLockHeld'
    BY DEF TypeOK, SchemaLockHeld, PoolLockHeld
  <2> QED
    BY <2>1, <2>2, <2>3, <2>4, <2>5, DatabaseStays DEF SchemaInv
<1>4. ASSUME NEW t \in Threads, Lock(t) PROVE SchemaInv' /\ Onward
  <2> USE <1>0, <1>4 DEF Lock, Goto
  <2>1. UNCHANGED <<tables, typeOwner, rows>>
    OBVIOUS
  <2>2. TypeOK'
    BY OrderIs DEF TypeOK, SchemaAssumption
  <2>3. StepsStand'
    <3>1. CASE ready[ProcessOf[t]]
      BY <2>1, <3>1, DatabaseStays
    <3>2. CASE step' = [step EXCEPT ![ProcessOf[t]] = 1]
      <4>1. \A p \in Processes : step'[p] = 1 \/ step'[p] = step[p]
        BY <3>2 DEF TypeOK
      <4> QED
        BY <2>1, <4>1, DatabaseStays, OnwardKeeps DEF StepsStand
    <3> QED
      BY <3>1, <3>2
  <2>4. ReadyIsComplete' /\ ServedIsComplete'
    BY <2>1, DatabaseStays DEF TypeOK, ReadyIsComplete, ServedIsComplete
  <2>5. SchemaLockHeld' /\ PoolLockHeld'
    <3>1. PoolLockHeld'
      BY DEF TypeOK, PoolLockHeld
    <3>2. CASE ready[ProcessOf[t]]
      <4>1. at' = [at EXCEPT ![t] = "serve"] /\ at[t] = "lock" /\ schemaLock' = schemaLock
        BY <3>2
      <4>2. \A u \in Threads : at'[u] = IF u = t THEN "serve" ELSE at[u]
        BY <4>1 DEF TypeOK
      <4> HIDE <1>4
      <4> QED
        BY <3>1, <4>1, <4>2 DEF SchemaLockHeld
    <3>3. CASE ~ready[ProcessOf[t]]
      <4>1. /\ schemaLock' = [schemaLock EXCEPT ![ProcessOf[t]] = t]
            /\ at' = [at EXCEPT ![t] = IF pool[ProcessOf[t]] THEN "steps" ELSE "pool"]
            /\ schemaLock[ProcessOf[t]] = None
        BY <3>3
      <4>2. \A u \in Threads : u # t => at'[u] = at[u]
        BY <4>1 DEF TypeOK
      <4>3. at'[t] \in {"steps", "pool"}
        BY <4>1 DEF TypeOK
      <4>4. \A p \in Processes :
              schemaLock'[p] = IF p = ProcessOf[t] THEN t ELSE schemaLock[p]
        BY <4>1 DEF TypeOK
      <4> HIDE <1>4
      <4> QED
        BY <3>1, <4>1, <4>2, <4>3, <4>4 DEF TypeOK, SchemaLockHeld
    <3> QED
      BY <3>2, <3>3
  <2> QED
    BY <2>1, <2>2, <2>3, <2>4, <2>5, DatabaseStays DEF SchemaInv
<1>5. ASSUME NEW t \in Threads, LockPool(t) PROVE SchemaInv' /\ Onward
  <2> USE <1>0, <1>5 DEF LockPool, Goto, Proceed
  <2>1. UNCHANGED <<tables, typeOwner, rows>>
    OBVIOUS
  <2>2. TypeOK'
    BY OrderIs DEF TypeOK, SchemaAssumption
  <2>3. StepsStand'
    BY <2>1, DatabaseStays DEF StepsStand
  <2>4. ReadyIsComplete' /\ ServedIsComplete'
    BY <2>1, DatabaseStays DEF TypeOK, ReadyIsComplete, ServedIsComplete
  <2>5. SchemaLockHeld' /\ PoolLockHeld'
    <3>1. CASE pool[ProcessOf[t]]
      <4>1. /\ at' = [at EXCEPT ![t] = IF schemaLock[ProcessOf[t]] = t THEN "steps"
                                        ELSE "idle"]
            /\ at[t] = "pool" /\ schemaLock' = schemaLock /\ poolLock' = poolLock
        BY <3>1
      <4>2. \A u \in Threads :
              at'[u] = IF u # t THEN at[u]
                       ELSE IF schemaLock[ProcessOf[t]] = t THEN "steps" ELSE "idle"
        BY <4>1 DEF TypeOK
      <4> HIDE <1>5
      <4> QED
        BY <4>1, <4>2 DEF SchemaLockHeld, PoolLockHeld
    <3>2. CASE ~pool[ProcessOf[t]]
      <4>1. /\ poolLock' = [poolLock EXCEPT ![ProcessOf[t]] = t]
            /\ at' = [at EXCEPT ![t] = "connect"] /\ at[t] = "pool"
            /\ poolLock[ProcessOf[t]] = None /\ schemaLock' = schemaLock
        BY <3>2
      <4>2. \A u \in Threads : at'[u] = IF u = t THEN "connect" ELSE at[u]
        BY <4>1 DEF TypeOK
      <4>3. \A p \in Processes : poolLock'[p] = IF p = ProcessOf[t] THEN t ELSE poolLock[p]
        BY <4>1 DEF TypeOK
      <4> HIDE <1>5
      <4>4. SchemaLockHeld'
        BY <4>1, <4>2 DEF SchemaLockHeld
      <4> QED
        BY <4>1, <4>2, <4>3, <4>4 DEF PoolLockHeld
    <3> QED
      BY <3>1, <3>2
  <2> QED
    BY <2>1, <2>2, <2>3, <2>4, <2>5, DatabaseStays DEF SchemaInv
<1>6. ASSUME NEW t \in Threads, Connect(t) PROVE SchemaInv' /\ Onward
  <2> USE <1>0, <1>6 DEF Connect, Goto, Proceed, Free
  <2>1. UNCHANGED <<tables, typeOwner, rows>>
    OBVIOUS
  <2>2. TypeOK'
    BY OrderIs DEF TypeOK, SchemaAssumption
  <2>3. StepsStand'
    BY <2>1, DatabaseStays DEF StepsStand
  <2>4. ReadyIsComplete' /\ ServedIsComplete'
    BY <2>1, DatabaseStays DEF TypeOK, ReadyIsComplete, ServedIsComplete
  <2>5. SchemaLockHeld' /\ PoolLockHeld'
    BY DEF TypeOK, SchemaLockHeld, PoolLockHeld
  <2> QED
    BY <2>1, <2>2, <2>3, <2>4, <2>5, DatabaseStays DEF SchemaInv
<1>7. ASSUME NEW t \in Threads, Raise(t) PROVE SchemaInv' /\ Onward
  <2> USE <1>0, <1>7 DEF Raise, Goto, Free
  <2>1. UNCHANGED <<tables, typeOwner, rows>>
    OBVIOUS
  <2>2. TypeOK'
    BY OrderIs DEF TypeOK, SchemaAssumption
  <2>3. StepsStand'
    BY <2>1, DatabaseStays DEF StepsStand
  <2>4. ReadyIsComplete' /\ ServedIsComplete'
    BY <2>1, DatabaseStays DEF TypeOK, ReadyIsComplete, ServedIsComplete
  <2>5. SchemaLockHeld' /\ PoolLockHeld'
    BY DEF TypeOK, SchemaLockHeld, PoolLockHeld
  <2> QED
    BY <2>1, <2>2, <2>3, <2>4, <2>5, DatabaseStays DEF SchemaInv
<1>8. ASSUME NEW t \in Threads, Finish(t) PROVE SchemaInv' /\ Onward
  <2> USE <1>0, <1>8 DEF Finish, Goto, Free
  <2>1. UNCHANGED <<tables, typeOwner, rows>>
    OBVIOUS
  <2>2. TypeOK'
    BY OrderIs DEF TypeOK, SchemaAssumption
  <2>3. StepsStand'
    BY <2>1, DatabaseStays DEF StepsStand
  <2>4. ReadyIsComplete' /\ ServedIsComplete'
    BY <2>1, DatabaseStays, AllStepsComplete, OrderIs
    DEF TypeOK, ReadyIsComplete, ServedIsComplete
  <2>5. SchemaLockHeld' /\ PoolLockHeld'
    BY DEF TypeOK, SchemaLockHeld, PoolLockHeld
  <2> QED
    BY <2>1, <2>2, <2>3, <2>4, <2>5, DatabaseStays DEF SchemaInv
<1>9. ASSUME NEW t \in Threads, Return(t) PROVE SchemaInv' /\ Onward
  <2> USE <1>0, <1>9 DEF Return, Goto
  <2>1. UNCHANGED <<tables, typeOwner, rows>>
    OBVIOUS
  <2>2. TypeOK'
    BY OrderIs DEF TypeOK, SchemaAssumption
  <2>3. StepsStand'
    BY <2>1, DatabaseStays DEF StepsStand
  <2>4. ReadyIsComplete' /\ ServedIsComplete'
    BY <2>1, DatabaseStays DEF TypeOK, ReadyIsComplete, ServedIsComplete
  <2>5. SchemaLockHeld' /\ PoolLockHeld'
    BY DEF TypeOK, SchemaLockHeld, PoolLockHeld
  <2> QED
    BY <2>1, <2>2, <2>3, <2>4, <2>5, DatabaseStays DEF SchemaInv
<1>10. ASSUME NEW t \in Threads, Reset(t) PROVE SchemaInv' /\ Onward
  <2> USE <1>0, <1>10 DEF Reset, Goto
  <2>1. UNCHANGED <<tables, typeOwner, rows>>
    OBVIOUS
  <2>2. TypeOK'
    BY OrderIs DEF TypeOK, SchemaAssumption
  <2>3. StepsStand'
    BY <2>1, DatabaseStays DEF StepsStand
  <2>4. ReadyIsComplete' /\ ServedIsComplete'
    BY <2>1, DatabaseStays DEF TypeOK, ReadyIsComplete, ServedIsComplete
  <2>5. SchemaLockHeld' /\ PoolLockHeld'
    BY DEF TypeOK, SchemaLockHeld, PoolLockHeld
  <2> QED
    BY <2>1, <2>2, <2>3, <2>4, <2>5, DatabaseStays DEF SchemaInv
<1>11. ASSUME NEW t \in Threads, Step(t) PROVE SchemaInv' /\ Onward
  <2> DEFINE p == ProcessOf[t]
             s == Order[step[p]]
  <2>0. /\ p \in Processes /\ step[p] \in 1..5 /\ Apply(s)
        /\ step' = [step EXCEPT ![p] = step[p] + 1]
        /\ UNCHANGED <<ready, pool, schemaLock, poolLock, at, resets, errors>>
    BY <1>0, <1>11, OrderIs DEF Step, TypeOK
  <2>1. s \in {"reservations", "accounts", "types", "rest", "migrate"}
    BY <2>0, OrderIs
  <2>2. /\ Onward
        /\ s # "migrate" => s \in tables'
        /\ s = "types" => RowsRepaired'
        /\ s = "migrate" => NoneQueued'
    BY <2>0, <2>1, ApplyIsOnward DEF SchemaInv
  <2>3. TypeOK'
    BY <1>0, <2>0, <2>2, OrderIs DEF TypeOK, Onward, Row, MaxNo
  <2>4. StepsStand'
    BY <1>0, <2>0, <2>2, OnwardKeeps, OrderIs DEF StepsStand, TypeOK
  <2>5. ReadyIsComplete' /\ ServedIsComplete'
    BY <1>0, <2>0, <2>2, OnwardKeeps DEF ReadyIsComplete, ServedIsComplete
  <2>6. SchemaLockHeld' /\ PoolLockHeld'
    BY <1>0, <2>0 DEF SchemaLockHeld, PoolLockHeld
  <2> QED
    BY <2>2, <2>3, <2>4, <2>5, <2>6, OnwardKeeps DEF SchemaInv
<1>12. CASE UNCHANGED vars
  <2> USE <1>12 DEF vars
  <2>1. UNCHANGED <<tables, typeOwner, rows>>
    OBVIOUS
  <2>2. TypeOK' /\ SchemaLockHeld' /\ PoolLockHeld'
    BY <1>0 DEF TypeOK, SchemaLockHeld, PoolLockHeld
  <2>3. StepsStand' /\ ReadyIsComplete' /\ ServedIsComplete'
    BY <1>0, <2>1, DatabaseStays DEF ReadyIsComplete, ServedIsComplete
  <2> QED
    BY <2>1, <2>2, <2>3, DatabaseStays DEF SchemaInv
<1> QED
  BY <1>1, <1>2, <1>3, <1>4, <1>5, <1>6, <1>7, <1>8, <1>9, <1>10, <1>11, <1>12
  DEF Next, GoOn

\* The inductive invariant of the initialisation holds in every reachable state.
THEOREM SchemaInvariant == SchemaAssumption => (Spec => []SchemaInv)
<1> SUFFICES ASSUME SchemaAssumption PROVE Spec => []SchemaInv
  OBVIOUS
<1>1. Init => SchemaInv
  BY SchemaBegins
<1>2. SchemaInv /\ [Next]_vars => SchemaInv'
  BY SchemaNext
<1> QED
  BY <1>1, <1>2, PTL DEF Spec

\* A page is served over a complete schema and repaired rows.
THEOREM SchemaServes == SchemaAssumption => (Spec => []ServedOnSchema)
<1>1. SchemaInv => ServedOnSchema
  BY DEF SchemaInv, ServedIsComplete, ServedOnSchema, Complete, RowsRepaired, NoneQueued
<1> QED
  BY <1>1, SchemaInvariant, PTL

\* Owners and numbers outlast every initialisation, and no number is given twice.
THEOREM SchemaRepairs == SchemaAssumption => (Spec => RepairsStand)
<1> SUFFICES ASSUME SchemaAssumption PROVE Spec => RepairsStand
  OBVIOUS
<1>1. SchemaInv /\ [Next]_vars => [TicketsStand]_vars
  BY SchemaNext DEF Onward
<1>2. [TicketsStand]_vars =>
        [\A i \in Stored :
           /\ rows[i].owner # None => rows'[i].owner = rows[i].owner
           /\ rows[i].no # 0 => rows'[i].no = rows[i].no
           /\ \A j \in Stored : rows[i].no = 0 /\ rows'[i].no # 0 /\ i # j
                                /\ rows'[i].owner = rows'[j].owner
                                => rows'[i].no # rows'[j].no]_vars
  BY DEF TicketsStand
<1> QED
  BY <1>1, <1>2, SchemaInvariant, PTL DEF Spec, RepairsStand

\* SCHEMA_LOCK and POOL_LOCK: one thread of a process takes the steps, one
\* connects, and who holds POOL_LOCK waits for no lock, so that the one inside
\* the other cannot lock the process up.
LocksInOrder ==
    /\ \A t, u \in Threads :
          ProcessOf[t] = ProcessOf[u] /\ at[t] = at[u] /\ at[t] \in {"steps", "connect"}
          => t = u
    /\ \A p \in Processes, t \in Threads : poolLock[p] = t => at[t] = "connect"
    /\ \A p \in Processes, t \in Threads : schemaLock[p] = t => at[t] # "lock"

\* initialize_database_once and get_connection_pool keep to that order.
THEOREM SchemaLocks == SchemaAssumption => (Spec => []LocksInOrder)
<1> SUFFICES ASSUME SchemaAssumption PROVE Spec => []LocksInOrder
  OBVIOUS
<1>1. SchemaInv => LocksInOrder
  BY DEF SchemaInv, SchemaLockHeld, PoolLockHeld, LocksInOrder, SchemaAssumption
<1> QED
  BY <1>1, SchemaInvariant, PTL
=============================================================================
