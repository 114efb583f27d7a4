----------------------------- MODULE BackupProofs -----------------------------
(* Proofs about Backup, for any accounts, users, names and numbers of ids. *)
EXTENDS Backup, FiniteSetTheorems, WellFoundedInduction, TLAPS

\* What the unique indexes of a table say.
Unique(tab, rows) == \A x, y \in rows : x # y => ~Clash(tab, x, y)

\* At most one export runs, none during an import, and one file is kept; a file
\* holds rows of one snapshot per table, and only its account's.
FilesSound ==
    /\ at # 0 => export = {}
    /\ \A job \in {export, file} : \A f, g \in job : f = g
    /\ \A f \in export \cup file : \A tab \in Tables :
          /\ Unique(tab, f.rows[tab])
          /\ f.scope # Full => \A x \in f.rows[tab] : x.owner = f.scope

\* The rows that the import sees are as consistent as the committed ones.
RowsSound ==
    /\ at = 0 => gone = Empty /\ mine = Empty /\ todo = Empty
    /\ \A tab \in Tables :
          /\ gone[tab] \subseteq db[tab]
          /\ mine[tab] \cap (db[tab] \ gone[tab]) = {}
          /\ Unique(tab, db[tab]) /\ Unique(tab, Visible[tab])
    /\ References(db) /\ References(Visible)

\* An id that the sequence has still to pass is of a row its reset did not see.
ResetOf == [tab \in Tables |-> IF tab = "types" THEN 7 ELSE 8]
Passed(tab, i) == i < seq[tab] \/ i \in unseen[tab]
IdsSound ==
    \A tab \in Tables :
        /\ \A x \in db[tab] \cup new[tab] : Passed(tab, x.id)
        /\ at > ResetOf[tab] => \A x \in mine[tab] : Passed(tab, x.id)

\* Every row of the file is still to be inserted, inserted, or left out with
\* an excuse; the import deletes rows of its account and knows all others.
InsertOf == [tab \in Tables |-> IF tab = "types" THEN 5 ELSE 6]
RunSound(f, tab) ==
    /\ gone[tab] \subseteq OwnedBy(f.scope, db[tab])
    /\ mine[tab] \subseteq f.rows[tab] /\ todo[tab] \subseteq f.rows[tab] \ mine[tab]
    /\ at < 5 => mine[tab] = {} /\ todo[tab] = f.rows[tab]
    /\ at <= DeleteOf[tab] => gone[tab] = {}
    /\ at > DeleteOf[tab] => db[tab] \ gone[tab] \subseteq rivals[tab]
    /\ at > InsertOf[tab] => todo[tab] = {}
    /\ \A x \in f.rows[tab] \ (mine[tab] \cup todo[tab]) :
          \E y \in rivals[tab] : Excuses(tab, y, x)
ImportSound ==
    \A f \in file : at # 0 => f.scope # Full /\ \A tab \in Tables : RunSound(f, tab)

IInv == TypeOK /\ FilesSound /\ RowsSound /\ IdsSound /\ ImportSound
-----------------------------------------------------------------------------
\* A set of positive numbers up to a bound has a greatest one.
LEMMA HighestExists ==
    ASSUME NEW n \in Nat, NEW ids, ids \subseteq 1..n, ids # {}
    PROVE  HighestId(ids) \in ids /\ \A j \in ids : j <= HighestId(ids)
<1> DEFINE bounds == {m \in Nat : \A j \in ids : j <= m}
<1> DEFINE less == {ss \in Nat \X Nat : ss[1] < ss[2]}
<1>1. n \in bounds
  OBVIOUS
<1>2. IsWellFoundedOn(less, Nat)
  BY NatLessThanWellFounded, Zenon DEF OpToRel
<1>3. \A x, y \in Nat : x < y => <<x, y>> \in less
  OBVIOUS
<1> HIDE DEF less
<1>4. PICK m \in bounds : \A k \in bounds : ~(<<k, m>> \in less)
  BY <1>1, <1>2, WFMin, Zenon
<1>5. m \in Nat /\ \A j \in ids : j \in Nat /\ 1 <= j /\ j <= m
  OBVIOUS
<1>6. \A k \in Nat : k < m => \E j \in ids : ~(j <= k)
  <2> SUFFICES ASSUME NEW k \in Nat, k < m, \A j \in ids : j <= k PROVE FALSE
    OBVIOUS
  <2>1. k \in bounds
    OBVIOUS
  <2> QED
    BY <1>3, <1>4, <1>5, <2>1
<1>7. m \in ids
  <2> SUFFICES ASSUME m \notin ids PROVE FALSE
    OBVIOUS
  <2>1. PICK i \in ids : TRUE
    OBVIOUS
  <2>2. m - 1 \in Nat /\ m - 1 < m
    BY <1>5, <2>1
  <2>3. PICK j \in ids : ~(j <= m - 1)
    BY <1>6, <2>2
  <2> QED
    BY <1>5, <2>3
<1>8. \E i \in ids : \A j \in ids : j <= i
  BY <1>5, <1>7
<1> QED
  BY <1>8, Zenon DEF HighestId

\* _reset_sequence: the next id is beyond every id of the table.
LEMMA NextIdIsFree ==
    ASSUME NEW n \in Nat, NEW ids, ids \subseteq 1..n
    PROVE  NextId(ids) \in 1..(n + 1) /\ \A j \in ids : j < NextId(ids)
<1>1. CASE ids = {}
  BY <1>1 DEF NextId
<1>2. CASE ids # {}
  <2>1. HighestId(ids) \in 1..n /\ \A j \in ids : j \in 1..n /\ j <= HighestId(ids)
    BY <1>2, HighestExists
  <2>2. NextId(ids) = HighestId(ids) + 1
    BY <1>2 DEF NextId
  <2> QED
    BY <2>1, <2>2
<1> QED
  BY <1>1, <1>2

\* A set of at most one file counts as such.
LEMMA Singles ==
    /\ Cardinality({}) <= 1
    /\ \A f : Cardinality({f}) <= 1
<1>1. Cardinality({}) <= 1
  BY FS_EmptySet
<1>2. ASSUME NEW f PROVE Cardinality({f}) <= 1
  <2>1. Cardinality({f}) = 1
    BY FS_Singleton
  <2> QED
    BY <2>1
<1> QED
  BY <1>1, <1>2

\* TypeOK, variable by variable.
TypesOneByOne ==
    /\ DOMAIN db = Tables /\ DOMAIN new = Tables /\ DOMAIN gone = Tables
    /\ DOMAIN mine = Tables /\ DOMAIN todo = Tables /\ DOMAIN rivals = Tables
    /\ DOMAIN seq = Tables /\ DOMAIN unseen = Tables
    /\ \A tab \in Tables :
          /\ db[tab] \subseteq RowsOf[tab] /\ new[tab] \subseteq RowsOf[tab]
          /\ gone[tab] \subseteq RowsOf[tab] /\ mine[tab] \subseteq RowsOf[tab]
          /\ todo[tab] \subseteq RowsOf[tab] /\ rivals[tab] \subseteq RowsOf[tab]
          /\ seq[tab] \in 1..MaxId[tab] + 1 /\ unseen[tab] \subseteq 1..MaxId[tab]
    /\ \A job \in {export, file} :
         Cardinality(job) <= 1 /\ \A f \in job :
            f.scope \in Owners \cup {Full} /\ DOMAIN f.rows = Tables /\ Rows(f.rows)
    /\ at \in 0..9
    /\ restored \in BOOLEAN

LEMMA TypesFlat == (TypeOK <=> TypesOneByOne) /\ (TypeOK' <=> TypesOneByOne')
<1>1. TypeOK <=> TypesOneByOne
  BY Zenon DEF TypeOK, Rows, TypesOneByOne
<1>2. TypeOK' <=> TypesOneByOne'
  BY Zenon DEF TypeOK, Rows, TypesOneByOne
<1> QED
  BY <1>1, <1>2

\* A row has an id up to the bound and an account; Clash goes both ways.
LEMMA RowFacts ==
    \A tab \in Tables :
        /\ MaxId[tab] \in Nat
        /\ \A x \in RowsOf[tab] : x.id \in 1..MaxId[tab] /\ x.owner \in Owners
        /\ \A x, y : Clash(tab, x, y) <=> Clash(tab, y, x)
<1> SUFFICES ASSUME NEW tab \in Tables
             PROVE  /\ MaxId[tab] \in Nat
                    /\ \A x \in RowsOf[tab] : x.id \in 1..MaxId[tab] /\ x.owner \in Owners
                    /\ \A x, y : Clash(tab, x, y) <=> Clash(tab, y, x)
  OBVIOUS
<1>1. MaxId[tab] \in Nat
  BY BackupAssumption DEF MaxId, Tables
<1>2. \A x \in RowsOf[tab] : x.id \in 1..MaxId[tab] /\ x.owner \in Owners
  BY DEF RowsOf, MaxId, Tables, TypeRows, ResRows
<1>3. \A x, y : Clash(tab, x, y) <=> Clash(tab, y, x)
  BY Zenon DEF Clash
<1> QED
  BY <1>1, <1>2, <1>3

LEMMA VisibleAt ==
    \A tab \in Tables : Visible[tab] = (db[tab] \ gone[tab]) \cup mine[tab]
<1> QED
  BY DEF Visible

LEMMA BackupInit == Init => IInv
<1> SUFFICES ASSUME Init PROVE IInv
  OBVIOUS
<1> USE DEF Init, Empty
<1>1. TypeOK
  <2>1. \A tab \in Tables : seq[tab] = 1 /\ 1 \in 1..MaxId[tab] + 1
    BY RowFacts
  <2>2. \A job \in {export, file} : job = {} /\ Cardinality(job) <= 1
    BY Singles
  <2>3. at \in 0..9
    OBVIOUS
  <2>4. restored \in BOOLEAN
    BY Zenon
  <2> QED
    BY <2>1, <2>2, <2>3, <2>4, TypesFlat DEF TypesOneByOne
<1>2. FilesSound /\ RowsSound
  BY VisibleAt DEF FilesSound, RowsSound, Unique, References, Visible, IdsOf, Tables
<1>3. IdsSound /\ ImportSound
  BY DEF IdsSound, ImportSound
<1> QED
  BY <1>1, <1>2, <1>3 DEF IInv
-----------------------------------------------------------------------------
(* The shop's work. *)

\* An id is drawn for a row.
LEMMA DrawKeeps ==
    ASSUME IInv, NEW tab \in Tables, NEW row,
           seq[tab] \in 1..MaxId[tab] => row \in RowsOf[tab],
           row.id = seq[tab], Draw(tab, row)
    PROVE  IInv'
<1>1. TypeOK /\ FilesSound /\ RowsSound /\ IdsSound /\ ImportSound
  BY DEF IInv
<1>2. /\ db' = db /\ rivals' = rivals /\ unseen' = unseen /\ export' = export /\ file' = file
      /\ at' = at /\ gone' = gone /\ mine' = mine /\ todo' = todo /\ restored' = FALSE
      /\ new' = [new EXCEPT ![tab] = @ \cup {row}] /\ seq' = [seq EXCEPT ![tab] = @ + 1]
      /\ seq[tab] <= MaxId[tab]
  BY DEF Draw, backups, transaction
<1>3. seq[tab] \in 1..MaxId[tab] /\ seq[tab] + 1 \in 1..MaxId[tab] + 1
  BY <1>1, <1>2, RowFacts, TypesFlat DEF TypesOneByOne
<1>4. /\ \A t \in Tables : t # tab => new'[t] = new[t] /\ seq'[t] = seq[t]
      /\ new'[tab] = new[tab] \cup {row} /\ seq'[tab] = seq[tab] + 1
      /\ DOMAIN new' = Tables /\ DOMAIN seq' = Tables
  BY <1>1, <1>2, TypesFlat DEF TypesOneByOne
<1>5. TypeOK'
  <2>1. \A t \in Tables :
           /\ new'[t] \subseteq RowsOf[t]
           /\ seq'[t] \in 1..MaxId[t] + 1 /\ unseen'[t] \subseteq 1..MaxId[t]
    BY <1>1, <1>2, <1>3, <1>4, TypesFlat DEF TypesOneByOne
  <2> QED
    BY <1>1, <1>2, <1>4, <2>1, TypesFlat, Zenon DEF TypesOneByOne
<1>6. FilesSound' /\ RowsSound' /\ ImportSound'
  <2>1. FilesSound'
    BY <1>1, <1>2, Zenon DEF FilesSound
  <2>2. RowsSound'
    BY <1>1, <1>2, Zenon DEF RowsSound, Visible
  <2>3. ImportSound'
    BY <1>1, <1>2, Zenon DEF ImportSound, RunSound
  <2> QED
    BY <2>1, <2>2, <2>3
<1>7. IdsSound'
  <2>1. \A t \in Tables : \A i \in 1..MaxId[t] : Passed(t, i) => Passed(t, i)'
    BY <1>1, <1>2, <1>4, RowFacts, TypesFlat DEF TypesOneByOne, Passed
  <2>2. Passed(tab, row.id)'
    BY <1>3, <1>4 DEF Passed
  <2>3. \A t \in Tables : \A x \in db[t] \cup new[t] \cup mine[t] : x.id \in 1..MaxId[t]
    BY <1>1, RowFacts, TypesFlat DEF TypesOneByOne
  <2>4. \A t \in Tables : \A x \in db'[t] \cup new'[t] : Passed(t, x.id)'
    BY <1>1, <1>2, <1>4, <2>1, <2>2, <2>3 DEF IdsSound
  <2>5. \A t \in Tables : at' > ResetOf[t] => \A x \in mine'[t] : Passed(t, x.id)'
    BY <1>1, <1>2, <2>1, <2>3 DEF IdsSound
  <2> QED
    BY <2>4, <2>5 DEF IdsSound
<1> QED
  BY <1>5, <1>6, <1>7 DEF IInv

\* Somebody commits a change of a table: what has to be shown of it.
LEMMA WriteKeeps ==
    ASSUME IInv, NEW tab \in Tables, NEW rows, NEW row, Write(tab, rows, row),
           row \subseteq RowsOf[tab], rows \subseteq db[tab] \cup row, gone[tab] \subseteq rows,
           mine[tab] \cap (rows \ gone[tab]) = {},
           Unique(tab, rows), Unique(tab, (rows \ gone[tab]) \cup mine[tab]),
           References(db'), References(Visible'),
           \A x \in rows : Passed(tab, x.id),
           DOMAIN new' = Tables, \A t \in Tables : new'[t] \subseteq new[t]
    PROVE  IInv'
<1>1. TypeOK /\ FilesSound /\ RowsSound /\ IdsSound /\ ImportSound /\ TypesOneByOne
  BY TypesFlat DEF IInv
<1>2. /\ seq' = seq /\ unseen' = unseen /\ export' = export /\ file' = file
      /\ at' = at /\ gone' = gone /\ mine' = mine /\ todo' = todo /\ restored' = FALSE
  BY DEF Write, sequences, backups, transaction
<1>3. /\ DOMAIN db' = Tables /\ db'[tab] = rows
      /\ \A t \in Tables : t # tab => db'[t] = db[t]
      /\ DOMAIN rivals' = Tables
      /\ \A t \in Tables : rivals[t] \subseteq rivals'[t] /\ rivals'[t] \subseteq rivals[t] \cup RowsOf[t]
      /\ at > DeleteOf[tab] => row \subseteq rivals'[tab]
  <2>1. DOMAIN db = Tables /\ DOMAIN rivals = Tables /\ at \in 0..9
    BY <1>1, Zenon DEF TypesOneByOne
  <2>2. DeleteOf[tab] \in 0..9
    BY DEF DeleteOf, Tables
  <2> QED
    BY <2>1, <2>2 DEF Write
<1>4. TypeOK'
  <2>1. \A t \in Tables :
           /\ db'[t] \subseteq RowsOf[t] /\ rivals'[t] \subseteq RowsOf[t]
           /\ new'[t] \subseteq RowsOf[t]
    BY <1>1, <1>3 DEF TypesOneByOne
  <2> QED
    BY <1>1, <1>2, <1>3, <2>1, TypesFlat, Zenon DEF TypesOneByOne
<1>5. FilesSound'
  BY <1>1, <1>2, Zenon DEF FilesSound
<1>6. RowsSound'
  <2>1. \A t \in Tables : Visible'[t] = (db'[t] \ gone'[t]) \cup mine'[t]
    BY DEF Visible
  <2>2. \A t \in Tables : t # tab => Visible'[t] = Visible[t]
    BY <1>2, <1>3, <2>1, VisibleAt
  <2>3. \A t \in Tables :
           /\ gone'[t] \subseteq db'[t] /\ mine'[t] \cap (db'[t] \ gone'[t]) = {}
           /\ Unique(t, db'[t]) /\ Unique(t, Visible'[t])
    BY <1>1, <1>2, <1>3, <2>1, <2>2, Zenon DEF RowsSound
  <2> QED
    BY <1>1, <1>2, <2>3, Zenon DEF RowsSound
<1>7. IdsSound'
  <2>1. \A t \in Tables : \A i : Passed(t, i)' <=> Passed(t, i)
    BY <1>2, Zenon DEF Passed
  <2> QED
    BY <1>1, <1>2, <1>3, <2>1 DEF IdsSound
<1>8. ImportSound'
  <2> SUFFICES ASSUME NEW f \in file, at # 0, NEW t \in Tables
               PROVE  f.scope # Full /\ RunSound(f, t)'
    BY <1>2 DEF ImportSound
  <2>1. f.scope # Full /\ RunSound(f, t)
    BY <1>1 DEF ImportSound
  <2>2. gone[t] \subseteq OwnedBy(f.scope, db'[t])
    BY <1>3, <2>1 DEF RunSound, OwnedBy
  <2>3. at > DeleteOf[t] => db'[t] \ gone[t] \subseteq rivals'[t]
    BY <1>3, <2>1 DEF RunSound
  <2>4. \A x \in f.rows[t] \ (mine[t] \cup todo[t]) : \E y \in rivals'[t] : Excuses(t, y, x)
    BY <1>3, <2>1 DEF RunSound
  <2> QED
    BY <1>2, <2>1, <2>2, <2>3, <2>4, Zenon DEF RunSound
<1> QED
  BY <1>4, <1>5, <1>6, <1>7, <1>8 DEF IInv

\* A row is committed: nothing that is there, nor that the import has inserted,
\* conflicts with it.
LEMMA CommitRowKeeps ==
    ASSUME IInv, NEW tab \in Tables, NEW x \in new[tab], CommitRow(tab, x)
    PROVE  IInv'
<1>1. RowsSound /\ IdsSound /\ ImportSound /\ TypesOneByOne
  BY TypesFlat DEF IInv
<1> DEFINE rows == db[tab] \cup {x}
<1>2. /\ Write(tab, rows, {x}) /\ db' = [db EXCEPT ![tab] = rows]
      /\ gone' = gone /\ mine' = mine /\ new' = [new EXCEPT ![tab] = @ \ {x}]
      /\ \A y \in db[tab] \cup mine[tab] : ~Clash(tab, x, y) /\ ~Clash(tab, y, x)
      /\ tab = "res" => x.type \in IdsOf(db["types"] \ gone["types"])
  BY RowFacts DEF CommitRow, Write, transaction
<1>3. DOMAIN new' = Tables /\ \A t \in Tables : new'[t] \subseteq new[t]
  BY <1>1, <1>2 DEF TypesOneByOne
<1>4. gone[tab] \subseteq rows /\ mine[tab] \cap (rows \ gone[tab]) = {}
  BY <1>1, <1>2 DEF RowsSound, Clash
<1>5. Unique(tab, rows) /\ Unique(tab, (rows \ gone[tab]) \cup mine[tab])
  BY <1>1, <1>2, VisibleAt DEF RowsSound, Unique
<1>6. /\ db'[tab] = rows /\ \A t \in Tables : t # tab => db'[t] = db[t]
      /\ Visible'["res"] \subseteq (Visible["res"] \cup {y \in {x} : tab = "res"})
      /\ Visible["types"] \subseteq Visible'["types"]
  BY <1>1, <1>2 DEF TypesOneByOne, Visible, Tables
<1>7. References(db')
  BY <1>1, <1>2, <1>6 DEF RowsSound, References, IdsOf, Tables
<1>8. References(Visible')
  BY <1>1, <1>2, <1>6, VisibleAt DEF RowsSound, References, IdsOf, Tables
<1>9. (\A y \in rows : Passed(tab, y.id)) /\ {x} \subseteq RowsOf[tab]
  BY <1>1 DEF IdsSound, TypesOneByOne
<1> QED
  BY <1>2, <1>3, <1>4, <1>5, <1>7, <1>8, <1>9, WriteKeeps

\* A type is deleted that no ticket has, also none the import has inserted.
LEMMA DeleteTypeKeeps ==
    ASSUME IInv, NEW x \in db["types"], DeleteType(x)
    PROVE  IInv'
<1>1. RowsSound /\ IdsSound /\ TypesOneByOne
  BY TypesFlat DEF IInv
<1> DEFINE rows == db["types"] \ {x}
<1>2. /\ Write("types", rows, {}) /\ db' = [db EXCEPT !["types"] = rows]
      /\ gone' = gone /\ mine' = mine /\ new' = new
      /\ x \notin gone["types"] /\ \A r \in db["res"] \cup mine["res"] : r.type # x.id
  BY DEF DeleteType, Write, transaction
<1>3. "types" \in Tables /\ "res" \in Tables
  BY DEF Tables
<1>4. gone["types"] \subseteq rows /\ mine["types"] \cap (rows \ gone["types"]) = {}
  BY <1>1, <1>2, <1>3 DEF RowsSound
<1>5. Unique("types", rows) /\ Unique("types", (rows \ gone["types"]) \cup mine["types"])
  BY <1>1, <1>3, VisibleAt DEF RowsSound, Unique
<1>6. /\ db'["types"] = rows /\ db'["res"] = db["res"]
      /\ Visible'["res"] = Visible["res"] /\ Visible["types"] \ {x} \subseteq Visible'["types"]
  BY <1>1, <1>2, <1>3 DEF TypesOneByOne, Visible
<1>7. References(db')
  BY <1>1, <1>2, <1>6 DEF RowsSound, References, IdsOf
<1>8. References(Visible')
  <2>1. \A r \in Visible["res"] : r.type # x.id
    BY <1>2, <1>3, VisibleAt
  <2> QED
    BY <1>1, <1>6, <2>1 DEF RowsSound, References, IdsOf
<1>9. \A y \in rows : Passed("types", y.id)
  BY <1>1, <1>3 DEF IdsSound
<1>10. DOMAIN new' = Tables /\ \A t \in Tables : new'[t] \subseteq new[t]
  BY <1>1, <1>2 DEF TypesOneByOne
<1> QED
  BY <1>2, <1>3, <1>4, <1>5, <1>7, <1>8, <1>9, <1>10, WriteKeeps

\* A closed ticket conflicts with less than the active one.
LEMMA CloseKeeps ==
    ASSUME IInv, NEW r \in db["res"], Close(r)
    PROVE  IInv'
<1>1. RowsSound /\ IdsSound /\ TypesOneByOne
  BY TypesFlat DEF IInv
<1> DEFINE q == [r EXCEPT !.active = FALSE]
<1> DEFINE rows == (db["res"] \ {r}) \cup {q}
<1>2. /\ Write("res", rows, {q}) /\ db' = [db EXCEPT !["res"] = rows]
      /\ gone' = gone /\ mine' = mine /\ new' = new
      /\ r.active /\ r \notin gone["res"]
  BY DEF Close, Write, transaction
<1>3. "types" \in Tables /\ "res" \in Tables
  BY DEF Tables
<1>4. r \in ResRows /\ RowsOf["res"] = ResRows
  BY <1>1, <1>3 DEF TypesOneByOne, RowsOf
<1>5. q \in ResRows /\ q.id = r.id /\ q.type = r.type /\ q.user = r.user /\ ~q.active
  BY <1>4 DEF ResRows
<1> HIDE DEF q
<1>6. gone["res"] \subseteq rows
  BY <1>1, <1>2, <1>3 DEF RowsSound
<1>7. \A y : ~Clash("res", r, y) => ~Clash("res", q, y) /\ ~Clash("res", y, q)
  BY <1>5 DEF Clash
<1>8. /\ Unique("res", db["res"]) /\ Unique("res", Visible["res"])
      /\ Visible["res"] = (db["res"] \ gone["res"]) \cup mine["res"]
      /\ r \notin mine["res"] /\ References(db) /\ References(Visible)
  BY <1>1, <1>2, <1>3, VisibleAt DEF RowsSound
<1>9. \A y \in (db["res"] \ {r}) \cup mine["res"] :
         ~Clash("res", q, y) /\ ~Clash("res", y, q)
  BY <1>2, <1>7, <1>8 DEF Unique
<1>10. mine["res"] \cap (rows \ gone["res"]) = {}
  BY <1>1, <1>3, <1>9 DEF RowsSound, Clash
<1>11. Unique("res", rows) /\ Unique("res", (rows \ gone["res"]) \cup mine["res"])
  BY <1>8, <1>9 DEF Unique
<1>12. /\ db'["types"] = db["types"] /\ db'["res"] = rows
       /\ Visible'["types"] = Visible["types"]
       /\ Visible'["res"] \subseteq Visible["res"] \cup {q}
  BY <1>1, <1>2, <1>3 DEF TypesOneByOne, Visible
<1>13. References(db')
  BY <1>5, <1>8, <1>12 DEF References
<1>14. References(Visible')
  BY <1>2, <1>5, <1>8, <1>12 DEF References
<1>15. \A y \in rows : Passed("res", y.id)
  BY <1>1, <1>3, <1>5 DEF IdsSound
<1>16. DOMAIN new' = Tables /\ \A t \in Tables : new'[t] \subseteq new[t]
  BY <1>1, <1>2 DEF TypesOneByOne
<1>17. {q} \subseteq RowsOf["res"] /\ rows \subseteq db["res"] \cup {q}
  BY <1>4, <1>5
<1> HIDE DEF rows
<1> QED
  BY <1>2, <1>3, <1>6, <1>10, <1>11, <1>13, <1>14, <1>15, <1>16, <1>17, WriteKeeps

LEMMA ShopKeeps ==
    ASSUME IInv,
           \/ \E o \in Owners, n \in Names : AddType(o, n)
           \/ \E u \in Users, t \in db["types"] : Reserve(u, t)
           \/ \E tab \in Tables : \E x \in new[tab] : CommitRow(tab, x) \/ RollbackRow(tab, x)
           \/ \E t \in db["types"] : DeleteType(t)
           \/ \E r \in db["res"] : Close(r)
    PROVE  IInv'
<1>0. /\ "types" \in Tables /\ "res" \in Tables
      /\ RowsOf["types"] = TypeRows /\ RowsOf["res"] = ResRows
      /\ MaxId["types"] = MaxType /\ MaxId["res"] = MaxRes
  BY DEF Tables, RowsOf, MaxId
<1>1. ASSUME NEW o \in Owners, NEW n \in Names, AddType(o, n) PROVE IInv'
  <2> DEFINE row == [id |-> seq["types"], owner |-> o, name |-> n]
  <2>1. seq["types"] \in 1..MaxType => row \in TypeRows
    BY DEF TypeRows
  <2>2. row.id = seq["types"] /\ Draw("types", row)
    BY <1>1 DEF AddType
  <2> HIDE DEF row
  <2> QED
    BY <1>0, <2>1, <2>2, DrawKeeps
<1>2. ASSUME NEW u \in Users, NEW t \in db["types"], Reserve(u, t) PROVE IInv'
  <2> DEFINE row == [id |-> seq["res"], user |-> u, owner |-> t.owner, type |-> t.id,
                     active |-> TRUE]
  <2>1. t \in TypeRows
    BY <1>0, TypesFlat DEF IInv, TypesOneByOne
  <2>2. seq["res"] \in 1..MaxRes => row \in ResRows
    BY <2>1 DEF TypeRows, ResRows
  <2>3. row.id = seq["res"] /\ Draw("res", row)
    BY <1>2 DEF Reserve
  <2> HIDE DEF row
  <2> QED
    BY <1>0, <2>2, <2>3, DrawKeeps
<1>3. ASSUME NEW tab \in Tables, NEW x \in new[tab], RollbackRow(tab, x) PROVE IInv'
  <2>1. TypeOK /\ FilesSound /\ RowsSound /\ IdsSound /\ ImportSound /\ TypesOneByOne
    BY TypesFlat DEF IInv
  <2>2. /\ db' = db /\ rivals' = rivals /\ seq' = seq /\ unseen' = unseen
        /\ export' = export /\ file' = file /\ at' = at /\ gone' = gone /\ mine' = mine
        /\ todo' = todo /\ restored' = FALSE /\ new' = [new EXCEPT ![tab] = @ \ {x}]
    BY <1>3 DEF RollbackRow, sequences, backups, transaction
  <2>3. DOMAIN new' = Tables /\ \A t \in Tables : new'[t] \subseteq new[t]
    BY <2>1, <2>2 DEF TypesOneByOne
  <2>4. TypeOK'
    <3>1. \A t \in Tables : new'[t] \subseteq RowsOf[t]
      BY <2>1, <2>3 DEF TypesOneByOne
    <3> QED
      BY <2>1, <2>2, <2>3, <3>1, TypesFlat, Zenon DEF TypesOneByOne
  <2>5. FilesSound'
    BY <2>1, <2>2, Zenon DEF FilesSound
  <2>6. RowsSound'
    BY <2>1, <2>2, Zenon DEF RowsSound, Visible
  <2>7. IdsSound'
    BY <2>1, <2>2, <2>3 DEF IdsSound, Passed
  <2>8. ImportSound'
    BY <2>1, <2>2, Zenon DEF ImportSound, RunSound
  <2> QED
    BY <2>4, <2>5, <2>6, <2>7, <2>8 DEF IInv
<1> QED
  BY <1>1, <1>2, <1>3, CommitRowKeeps, DeleteTypeKeeps, CloseKeeps
-----------------------------------------------------------------------------
(* Exports. *)

LEMMA ExportKeeps ==
    ASSUME IInv,
           (\E scope \in Owners \cup {Full} : ExportTypes(scope)) \/ ExportReservations
    PROVE  IInv'
<1>1. TypeOK /\ FilesSound /\ RowsSound /\ IdsSound /\ ImportSound /\ TypesOneByOne
  BY TypesFlat DEF IInv
<1>2. "types" \in Tables /\ "res" \in Tables
  BY DEF Tables
<1> DEFINE Snapshot(f) ==
      /\ f.scope \in Owners \cup {Full} /\ DOMAIN f.rows = Tables
      /\ \A tab \in Tables :
            /\ f.rows[tab] \subseteq RowsOf[tab] /\ Unique(tab, f.rows[tab])
            /\ f.scope # Full => \A x \in f.rows[tab] : x.owner = f.scope
<1>3. \A f \in export \cup file : Snapshot(f)
  BY <1>1 DEF TypesOneByOne, Rows, FilesSound
<1>4. /\ \A tab \in Tables : Unique(tab, db[tab]) /\ db[tab] \subseteq RowsOf[tab]
      /\ db' = db /\ new' = new /\ rivals' = rivals /\ seq' = seq /\ unseen' = unseen
      /\ at' = at /\ gone' = gone /\ mine' = mine /\ todo' = todo /\ restored' = FALSE
  BY <1>1 DEF RowsSound, TypesOneByOne, ExportTypes, ExportReservations, work, sequences,
              transaction
<1>5. at = 0
  BY <1>1 DEF ExportTypes, ExportReservations, FilesSound
<1>6. \A scope, rows : /\ InScope(scope, rows) \subseteq rows
                       /\ scope # Full => \A x \in InScope(scope, rows) : x.owner = scope
  BY DEF InScope, OwnedBy
<1> DEFINE Files ==
      /\ Cardinality(export') <= 1 /\ Cardinality(file') <= 1
      /\ \A f, g \in export' : f = g
      /\ \A f, g \in file' : f = g
      /\ \A f \in export' \cup file' : Snapshot(f)
<1>7. ASSUME NEW scope \in Owners \cup {Full}, ExportTypes(scope) PROVE Files
  <2> DEFINE rows == [Empty EXCEPT !["types"] = InScope(scope, db["types"])]
  <2> DEFINE f == [scope |-> scope, rows |-> rows]
  <2>1. DOMAIN rows = Tables /\ rows["types"] = InScope(scope, db["types"]) /\ rows["res"] = {}
    BY <1>2 DEF Empty
  <2>2. f.scope = scope /\ f.rows = rows /\ export' = {f} /\ file' = file
    BY <1>7 DEF ExportTypes
  <2> HIDE DEF f, rows
  <2>3. Snapshot(f)
    <3>1. DOMAIN f.rows = Tables /\ f.scope \in Owners \cup {Full}
      BY <2>1, <2>2
    <3>2. \A tab \in Tables : f.rows[tab] \subseteq db[tab]
                              /\ (scope # Full => \A x \in f.rows[tab] : x.owner = scope)
      BY <1>6, <2>1, <2>2 DEF Tables
    <3> QED
      BY <1>4, <2>2, <3>1, <3>2 DEF Unique
  <2>4. Cardinality(export') <= 1 /\ Cardinality(file') <= 1
    BY <1>1, <2>2, Singles DEF TypesOneByOne
  <2>5. (\A g, h \in export' : g = h) /\ (\A g, h \in file' : g = h)
    BY <1>1, <2>2 DEF FilesSound
  <2>6. \A g \in export' \cup file' : Snapshot(g)
    BY <1>3, <2>2, <2>3
  <2> QED
    BY <2>4, <2>5, <2>6
<1>8. ASSUME ExportReservations PROVE Files
  <2>1. PICK f \in export : file' = {[f EXCEPT !.rows["res"] = InScope(f.scope, db["res"])]}
    BY <1>8 DEF ExportReservations
  <2> DEFINE rows == [f.rows EXCEPT !["res"] = InScope(f.scope, db["res"])]
  <2> DEFINE g == [f EXCEPT !.rows = rows]
  <2>2. /\ DOMAIN rows = Tables /\ rows["types"] = f.rows["types"]
        /\ rows["res"] = InScope(f.scope, db["res"])
    BY <1>2, <1>3
  <2>3. file' = {g} /\ export' = {}
    BY <1>8, <2>1 DEF ExportReservations
  <2>4. g.scope = f.scope /\ g.rows = rows
    BY <1>1, <2>1 DEF TypesOneByOne
  <2> HIDE DEF g, rows
  <2>5. Snapshot(g)
    <3>1. DOMAIN g.rows = Tables /\ g.scope \in Owners \cup {Full}
      BY <1>3, <2>2, <2>4
    <3>2. \A tab \in Tables :
             /\ g.rows[tab] \subseteq RowsOf[tab] /\ Unique(tab, g.rows[tab])
             /\ g.scope # Full => \A x \in g.rows[tab] : x.owner = g.scope
      BY <1>2, <1>3, <1>4, <1>6, <2>2, <2>4 DEF Tables, Unique
    <3> QED
      BY <3>1, <3>2
  <2>6. Cardinality(export') <= 1 /\ Cardinality(file') <= 1
    BY <2>3, Singles
  <2> QED
    BY <2>3, <2>5, <2>6
<1>9. Files
  BY <1>7, <1>8
<1>10. TypeOK'
  <2>1. \A job \in {export', file'} :
           Cardinality(job) <= 1 /\ \A f \in job :
              f.scope \in Owners \cup {Full} /\ DOMAIN f.rows = Tables /\ Rows(f.rows)
    BY <1>9 DEF Rows
  <2> QED
    BY <1>1, <1>4, <2>1, TypesFlat, Zenon DEF TypesOneByOne
<1>11. FilesSound'
  BY <1>4, <1>5, <1>9 DEF FilesSound
<1>12. RowsSound' /\ IdsSound'
  BY <1>1, <1>4, Zenon DEF RowsSound, Visible, IdsSound, Passed
<1>13. ImportSound'
  BY <1>4, <1>5 DEF ImportSound
<1> QED
  BY <1>10, <1>11, <1>12, <1>13 DEF IInv
-----------------------------------------------------------------------------
(* The import of an account. *)

\* Where each statement stands.
LEMMA Places ==
    ASSUME NEW tab \in Tables
    PROVE  /\ at # 0 /\ AccountImport[at] = <<"check", tab>> /\ at \in 0..9 => at < 3
           /\ at # 0 /\ AccountImport[at] = <<"delete", tab>> /\ at \in 0..9 => at = DeleteOf[tab]
           /\ at # 0 /\ AccountImport[at] = <<"insert", tab>> /\ at \in 0..9 => at = InsertOf[tab]
           /\ at # 0 /\ AccountImport[at] = <<"reset", tab>> /\ at \in 0..9 => at = ResetOf[tab]
           /\ at # 0 /\ AccountImport[at] = <<"commit", "all">> /\ at \in 0..9 => at = 9
           /\ InsertOf[tab] \in 5..6 /\ DeleteOf[tab] \in 3..4 /\ ResetOf[tab] \in 7..8
<1>1. at # 0 /\ at \in 0..9 => at \in 1..9
  OBVIOUS
<1> QED
  BY <1>1 DEF AccountImport, DeleteOf, InsertOf, ResetOf, Tables

\* A statement that leaves the rows alone.
LEMMA IdleKeeps ==
    ASSUME IInv, NEW tab \in Tables, at # 0,
           at < 3 \/ (at = InsertOf[tab] /\ todo[tab] = {}),
           Continue, UNCHANGED <<work, sequences, backups, gone, mine, todo>>, restored' = FALSE
    PROVE  IInv'
<1>1. TypeOK /\ FilesSound /\ RowsSound /\ IdsSound /\ ImportSound /\ TypesOneByOne
  BY TypesFlat DEF IInv
<1>2. /\ db' = db /\ new' = new /\ rivals' = rivals /\ seq' = seq /\ unseen' = unseen
      /\ export' = export /\ file' = file /\ gone' = gone /\ mine' = mine /\ todo' = todo
      /\ at' = at + 1
  BY DEF work, sequences, backups, Continue
<1>3. at \in 1..6
  BY <1>1, Places DEF TypesOneByOne
<1>4. TypeOK'
  <2>1. at' \in 0..9
    BY <1>2, <1>3
  <2> QED
    BY <1>1, <1>2, <2>1, TypesFlat, Zenon DEF TypesOneByOne
<1>5. FilesSound' /\ RowsSound'
  <2>1. at' # 0
    BY <1>2, <1>3
  <2> QED
    BY <1>1, <1>2, <2>1, Zenon DEF FilesSound, RowsSound, Visible
<1>6. IdsSound'
  <2>1. \A t \in Tables : ~(at' > ResetOf[t])
    BY <1>2, <1>3, Places
  <2> QED
    BY <1>1, <1>2, <2>1, Zenon DEF IdsSound, Passed
<1>7. ImportSound'
  <2> SUFFICES ASSUME NEW f \in file, NEW t \in Tables
               PROVE  f.scope # Full /\ RunSound(f, t)'
    BY <1>2, Zenon DEF ImportSound
  <2>1. f.scope # Full /\ RunSound(f, t)
    BY <1>1 DEF ImportSound
  <2>2. at' < 5 => at < 5
    BY <1>2, <1>3
  <2>3. at' <= DeleteOf[t] => at <= DeleteOf[t]
    BY <1>2, <1>3, Places
  <2>4. at' > DeleteOf[t] => at > DeleteOf[t]
    BY <1>2, <1>3, Places
  <2>5. at' > InsertOf[t] => todo[t] = {}
    BY <1>2, <1>3, <2>1, Places DEF InsertOf, Tables, RunSound
  <2> QED
    BY <1>2, <2>1, <2>2, <2>3, <2>4, <2>5, Zenon DEF RunSound
<1> QED
  BY <1>4, <1>5, <1>6, <1>7 DEF IInv

LEMMA BeginKeeps ==
    ASSUME IInv, NEW f \in file, BeginImport(f)
    PROVE  IInv'
<1>1. TypeOK /\ FilesSound /\ RowsSound /\ IdsSound /\ ImportSound /\ TypesOneByOne
  BY TypesFlat DEF IInv
<1>2. /\ db' = db /\ new' = new /\ rivals' = rivals /\ seq' = seq /\ unseen' = unseen
      /\ export' = export /\ file' = file /\ gone' = gone /\ mine' = mine /\ todo' = f.rows
      /\ at = 0 /\ at' = 1 /\ export = {} /\ f.scope # Full /\ restored' = FALSE
  BY DEF BeginImport, work, sequences, backups
<1>3. gone = Empty /\ mine = Empty
  BY <1>1, <1>2 DEF RowsSound
<1>4. TypeOK'
  <2>1. DOMAIN todo' = Tables /\ \A t \in Tables : todo'[t] \subseteq RowsOf[t]
    BY <1>1, <1>2 DEF TypesOneByOne, Rows
  <2>2. at' \in 0..9
    BY <1>2
  <2> QED
    BY <1>1, <1>2, <2>1, <2>2, TypesFlat, Zenon DEF TypesOneByOne
<1>5. FilesSound' /\ RowsSound'
  <2>1. at' # 0
    BY <1>2
  <2> QED
    BY <1>1, <1>2, <2>1, Zenon DEF FilesSound, RowsSound, Visible
<1>6. IdsSound'
  <2>1. \A t \in Tables : ~(at' > ResetOf[t])
    BY <1>2, Places
  <2> QED
    BY <1>1, <1>2, <2>1, Zenon DEF IdsSound, Passed
<1>7. ImportSound'
  <2> SUFFICES ASSUME NEW t \in Tables PROVE RunSound(f, t)'
    BY <1>1, <1>2 DEF ImportSound, FilesSound
  <2>1. at' = 1 /\ at' < 5 /\ at' <= DeleteOf[t] /\ ~(at' > DeleteOf[t]) /\ ~(at' > InsertOf[t])
    BY <1>2, Places
  <2>2. gone'[t] = {} /\ mine'[t] = {} /\ todo'[t] = f.rows[t]
    BY <1>2, <1>3 DEF Empty
  <2> QED
    BY <2>1, <2>2, Zenon DEF RunSound
<1> QED
  BY <1>4, <1>5, <1>6, <1>7 DEF IInv
\* The rows of the account go; what the import sees gets less.
LEMMA DeleteKeeps ==
    ASSUME IInv, NEW f \in file, NEW tab \in Tables, Delete(f, tab)
    PROVE  IInv'
<1>1. TypeOK /\ FilesSound /\ RowsSound /\ IdsSound /\ ImportSound /\ TypesOneByOne
  BY TypesFlat DEF IInv
<1> DEFINE rows == OwnedBy(f.scope, db[tab])
<1>2. /\ db' = db /\ new' = new /\ rivals' = [rivals EXCEPT ![tab] = db[tab] \ rows]
      /\ seq' = seq /\ unseen' = unseen /\ export' = export /\ file' = file
      /\ gone' = [gone EXCEPT ![tab] = rows] /\ mine' = mine /\ todo' = todo
      /\ at' = at + 1 /\ restored' = FALSE
      /\ at # 0 /\ AccountImport[at] = <<"delete", tab>>
      /\ tab = "types" => \A r \in db["res"] \ gone["res"] : r.type \notin IdsOf(rows)
  BY DEF Delete, DeleteRows, Statement, Continue, sequences, backups
<1>3. at = DeleteOf[tab] /\ at \in 3..4 /\ at' \in 4..5
  BY <1>1, <1>2, Places DEF TypesOneByOne
<1>4. f.scope # Full /\ \A t \in Tables : RunSound(f, t) /\ mine[t] = {} /\ todo[t] = f.rows[t]
  <2>1. at < 5
    BY <1>3
  <2>2. f.scope # Full /\ \A t \in Tables : RunSound(f, t)
    BY <1>1, <1>2 DEF ImportSound
  <2> QED
    BY <2>1, <2>2 DEF RunSound
<1>5. rows \subseteq db[tab] /\ db[tab] \subseteq RowsOf[tab]
  BY <1>1 DEF OwnedBy, TypesOneByOne
<1>6. /\ DOMAIN gone' = Tables /\ gone'[tab] = rows
      /\ DOMAIN rivals' = Tables /\ rivals'[tab] = db[tab] \ rows
      /\ \A t \in Tables : t # tab => gone'[t] = gone[t] /\ rivals'[t] = rivals[t]
  BY <1>1, <1>2 DEF TypesOneByOne
<1> HIDE DEF rows
<1>7. gone[tab] = {}
  <2>1. at <= DeleteOf[tab]
    BY <1>3
  <2> QED
    BY <1>4, <2>1 DEF RunSound
<1>8. TypeOK'
  <2>1. \A t \in Tables : gone'[t] \subseteq RowsOf[t] /\ rivals'[t] \subseteq RowsOf[t]
    BY <1>1, <1>5, <1>6 DEF TypesOneByOne
  <2>2. at' \in 0..9
    BY <1>3
  <2> QED
    BY <1>1, <1>2, <1>6, <2>1, <2>2, TypesFlat, Zenon DEF TypesOneByOne
<1>9. FilesSound'
  BY <1>1, <1>2, Zenon DEF FilesSound
<1>10. RowsSound'
  <2>1. \A t \in Tables : Visible[t] = db[t] \ gone[t] /\ Visible'[t] = db[t] \ gone'[t]
    BY <1>2, <1>4 DEF Visible
  <2>2. \A t \in Tables : Visible'[t] \subseteq Visible[t]
    BY <1>6, <1>7, <2>1
  <2>3. \A t \in Tables : Unique(t, Visible'[t])
    BY <1>1, <2>2 DEF RowsSound, Unique
  <2>4. \A t \in Tables : gone'[t] \subseteq db'[t] /\ mine'[t] \cap (db'[t] \ gone'[t]) = {}
    BY <1>1, <1>2, <1>4, <1>5, <1>6 DEF RowsSound
  <2>5. References(Visible')
    <3>1. CASE tab = "types"
      <4>1. \A r \in Visible'["res"] : r.type \in IdsOf(db["types"]) /\ r.type \notin IdsOf(rows)
        BY <1>1, <1>2, <1>6, <2>1, <2>2, <3>1 DEF RowsSound, References, IdsOf, Tables
      <4>2. Visible'["types"] = db["types"] \ rows
        BY <1>6, <2>1, <3>1
      <4> QED
        BY <4>1, <4>2 DEF References, IdsOf
    <3>2. CASE tab = "res"
      <4>1. Visible'["types"] = Visible["types"]
        BY <1>6, <2>1, <3>2 DEF Tables
      <4>2. Visible'["res"] \subseteq Visible["res"]
        BY <2>2 DEF Tables
      <4> QED
        BY <1>1, <4>1, <4>2 DEF References, RowsSound
    <3> QED
      BY <3>1, <3>2 DEF Tables
  <2>6. at' # 0
    BY <1>3
  <2> QED
    BY <1>1, <1>2, <2>3, <2>4, <2>5, <2>6, Zenon DEF RowsSound
<1>11. IdsSound'
  <2>1. \A t \in Tables : ~(at' > ResetOf[t])
    BY <1>3, Places
  <2> QED
    BY <1>1, <1>2, <2>1, Zenon DEF IdsSound, Passed
<1>12. ImportSound'
  <2> SUFFICES ASSUME NEW t \in Tables PROVE RunSound(f, t)'
    BY <1>1, <1>2, <1>4 DEF ImportSound, FilesSound
  <2>1. gone'[t] \subseteq OwnedBy(f.scope, db[t])
    BY <1>4, <1>6 DEF RunSound, rows
  <2>2. at' <= DeleteOf[t] => gone'[t] = {}
    BY <1>2, <1>3, <1>4, <1>6 DEF RunSound, DeleteOf, Tables
  <2>3. at' > DeleteOf[t] => db[t] \ gone'[t] \subseteq rivals'[t]
    BY <1>2, <1>3, <1>4, <1>6 DEF RunSound, DeleteOf, Tables
  <2>4. ~(at' > InsertOf[t])
    BY <1>3, Places
  <2> QED
    BY <1>2, <1>4, <2>1, <2>2, <2>3, <2>4 DEF RunSound
<1> QED
  BY <1>8, <1>9, <1>10, <1>11, <1>12 DEF IInv

\* A row of the file is inserted, or left out for a row that conflicts with it.
LEMMA InsertKeeps ==
    ASSUME IInv, NEW f \in file, NEW tab \in Tables, Insert(f, tab)
    PROVE  IInv'
<1>1. TypeOK /\ FilesSound /\ RowsSound /\ IdsSound /\ ImportSound /\ TypesOneByOne
  BY TypesFlat DEF IInv
<1>2. PICK x \in NextRow(tab) : InsertRow(f, tab, x, \E y \in Visible[tab] : Clash(tab, x, y))
  BY DEF Insert
<1> DEFINE put == /\ \A y \in Visible[tab] : ~Clash(tab, x, y)
                  /\ tab = "res" => x.type \in IdsOf(Visible["types"])
                  /\ mine' = [mine EXCEPT ![tab] = @ \cup {x}]
<1> DEFINE left == /\ \/ \E y \in Visible[tab] : Clash(tab, x, y)
                      \/ tab = "res" /\ OwnedBy(f.scope, db["res"] \ gone["res"]) # {}
                   /\ mine' = mine
<1>3. /\ db' = db /\ new' = new /\ rivals' = rivals /\ seq' = seq /\ unseen' = unseen
      /\ export' = export /\ file' = file /\ gone' = gone /\ at' = at
      /\ todo' = [todo EXCEPT ![tab] = @ \ {x}] /\ restored' = FALSE
      /\ at # 0 /\ AccountImport[at] = <<"insert", tab>>
  BY <1>2 DEF InsertRow, Statement, sequences, backups
<1>4. put \/ left
  BY <1>2, Zenon DEF InsertRow, Put, NumberTaken
<1>5. x \in todo[tab]
  BY DEF NextRow
<1>6. at = InsertOf[tab] /\ at \in 5..6
  BY <1>1, <1>3, Places DEF TypesOneByOne
<1>7. f.scope # Full /\ \A t \in Tables : RunSound(f, t)
  BY <1>1, <1>3 DEF ImportSound
<1>8. /\ x \in f.rows[tab] /\ x \notin mine[tab] /\ x \in RowsOf[tab] /\ x.owner = f.scope
      /\ Unique(tab, f.rows[tab]) /\ mine[tab] \subseteq f.rows[tab]
  BY <1>1, <1>5, <1>7 DEF RunSound, FilesSound, TypesOneByOne
<1>9. /\ DOMAIN todo' = Tables /\ todo'[tab] = todo[tab] \ {x}
      /\ \A t \in Tables : t # tab => todo'[t] = todo[t]
      /\ DOMAIN mine' = Tables /\ \A t \in Tables : t # tab => mine'[t] = mine[t]
      /\ put => mine'[tab] = mine[tab] \cup {x}
      /\ left => mine'[tab] = mine[tab]
  BY <1>1, <1>3, <1>4 DEF TypesOneByOne
<1>10. TypeOK'
  <2>1. \A t \in Tables : todo'[t] \subseteq RowsOf[t] /\ mine'[t] \subseteq RowsOf[t]
    BY <1>1, <1>4, <1>8, <1>9 DEF TypesOneByOne
  <2> QED
    BY <1>1, <1>3, <1>9, <2>1, TypesFlat, Zenon DEF TypesOneByOne
<1>11. FilesSound'
  BY <1>1, <1>3, Zenon DEF FilesSound
<1>12. RowsSound'
  <2>1. CASE left
    BY <1>1, <1>3, <2>1, Zenon DEF RowsSound, Visible
  <2>2. CASE put
    <3>1. /\ \A t \in Tables : t # tab => Visible'[t] = Visible[t]
          /\ Visible'[tab] = Visible[tab] \cup {x}
      BY <1>3, <1>9, <2>2, VisibleAt DEF Visible
    <3>2. \A y \in Visible[tab] : ~Clash(tab, x, y) /\ ~Clash(tab, y, x) /\ x # y
      <4>1. Clash(tab, x, x)
        BY DEF Clash
      <4> QED
        BY <2>2, <4>1, RowFacts
    <3>3. \A t \in Tables : Unique(t, Visible'[t])
      BY <1>1, <3>1, <3>2 DEF RowsSound, Unique
    <3>4. \A t \in Tables : gone'[t] \subseteq db'[t] /\ mine'[t] \cap (db'[t] \ gone'[t]) = {}
      BY <1>1, <1>3, <1>9, <2>2, <3>2, VisibleAt DEF RowsSound
    <3>5. References(Visible')
      BY <1>1, <2>2, <3>1 DEF RowsSound, References, IdsOf, Tables
    <3> QED
      BY <1>1, <1>3, <3>3, <3>4, <3>5, Zenon DEF RowsSound
  <2> QED
    BY <1>4, <2>1, <2>2
<1>13. IdsSound'
  <2>1. \A t \in Tables : ~(at' > ResetOf[t])
    BY <1>3, <1>6, Places
  <2> QED
    BY <1>1, <1>3, <2>1, Zenon DEF IdsSound, Passed
<1>14. ImportSound'
  <2> SUFFICES ASSUME NEW t \in Tables PROVE RunSound(f, t)'
    BY <1>1, <1>3, <1>7 DEF ImportSound, FilesSound
  <2>1. mine'[t] \subseteq f.rows[t] /\ todo'[t] \subseteq f.rows[t] \ mine'[t]
    BY <1>4, <1>7, <1>8, <1>9 DEF RunSound
  <2>2. ~(at' < 5) /\ (at > InsertOf[t] => todo'[t] = {})
    BY <1>3, <1>6, <1>7, <1>9 DEF RunSound
  <2>3. \A z \in f.rows[t] \ (mine'[t] \cup todo'[t]) : \E y \in rivals[t] : Excuses(t, y, z)
    <3>1. \A z \in f.rows[t] \ (mine[t] \cup todo[t]) : \E y \in rivals[t] : Excuses(t, y, z)
      BY <1>7 DEF RunSound
    <3>2. ASSUME left, t = tab PROVE \E y \in rivals[tab] : Excuses(tab, y, x)
      <4>1. db[tab] \ gone[tab] \subseteq rivals[tab]
        <5>1. at > DeleteOf[tab]
          BY <1>6, Places
        <5> QED
          BY <1>7, <5>1 DEF RunSound
      <4>2. ASSUME NEW y \in Visible[tab], Clash(tab, x, y) PROVE y \in rivals[tab]
        <5>1. y \notin mine[tab]
          BY <1>8, <4>2 DEF Unique
        <5> QED
          BY <4>1, <5>1, VisibleAt
      <4>3. \A y : Clash(tab, x, y) => Excuses(tab, y, x)
        BY RowFacts DEF Excuses
      <4>4. ASSUME tab = "res", NEW y \in OwnedBy(f.scope, db["res"] \ gone["res"])
            PROVE  y \in rivals[tab] /\ Excuses(tab, y, x)
        BY <1>8, <4>1, <4>4 DEF OwnedBy, Excuses
      <4> QED
        BY <3>2, <4>2, <4>3, <4>4
    <3> QED
      BY <1>4, <1>9, <3>1, <3>2
  <2> QED
    BY <1>3, <1>7, <2>1, <2>2, <2>3, Zenon DEF RunSound
<1> QED
  BY <1>10, <1>11, <1>12, <1>13, <1>14 DEF IInv

\* setval: no row that the import sees is ahead, the others are remembered.
LEMMA ResetKeeps ==
    ASSUME IInv, NEW tab \in Tables, Reset(tab)
    PROVE  IInv'
<1>1. TypeOK /\ FilesSound /\ RowsSound /\ IdsSound /\ ImportSound /\ TypesOneByOne
  BY TypesFlat DEF IInv
<1> DEFINE next == NextId(IdsOf(Visible[tab]))
<1>2. /\ db' = db /\ new' = new /\ rivals' = rivals
      /\ export' = export /\ file' = file /\ gone' = gone /\ mine' = mine /\ todo' = todo
      /\ at' = at + 1 /\ restored' = FALSE
      /\ seq' = [seq EXCEPT ![tab] = next]
      /\ unseen' = [unseen EXCEPT ![tab] =
                       {i \in IdsOf(new[tab] \cup gone[tab]) : i >= seq'[tab]}]
      /\ at # 0 /\ AccountImport[at] = <<"reset", tab>>
  BY DEF Reset, Statement, Continue, backups
<1>3. at = ResetOf[tab] /\ at \in 7..8 /\ at' \in 8..9
  BY <1>1, <1>2, Places DEF TypesOneByOne
<1>4. \A t \in Tables : \A x \in db[t] \cup new[t] \cup gone[t] \cup mine[t] :
         x.id \in 1..MaxId[t] /\ MaxId[t] \in Nat
  BY <1>1, RowFacts DEF TypesOneByOne
<1>5. next \in 1..(MaxId[tab] + 1) /\ \A x \in Visible[tab] : x.id < next
  <2>1. IdsOf(Visible[tab]) \subseteq 1..MaxId[tab] /\ MaxId[tab] \in Nat
    BY <1>4, RowFacts, VisibleAt DEF IdsOf
  <2> QED
    BY <2>1, NextIdIsFree DEF IdsOf
<1> HIDE DEF next
<1>6. /\ DOMAIN seq' = Tables /\ seq'[tab] = next
      /\ DOMAIN unseen' = Tables
      /\ unseen'[tab] = {i \in IdsOf(new[tab] \cup gone[tab]) : i >= next}
      /\ \A t \in Tables : t # tab => seq'[t] = seq[t] /\ unseen'[t] = unseen[t]
  BY <1>1, <1>2 DEF TypesOneByOne
<1>7. TypeOK'
  <2>1. \A t \in Tables : seq'[t] \in 1..MaxId[t] + 1 /\ unseen'[t] \subseteq 1..MaxId[t]
    BY <1>1, <1>4, <1>5, <1>6 DEF TypesOneByOne, IdsOf
  <2>2. at' \in 0..9
    BY <1>3
  <2> QED
    BY <1>1, <1>2, <1>6, <2>1, <2>2, TypesFlat, Zenon DEF TypesOneByOne
<1>8. FilesSound' /\ RowsSound'
  <2>1. at' # 0
    BY <1>3
  <2> QED
    BY <1>1, <1>2, <2>1, Zenon DEF FilesSound, RowsSound, Visible
<1>9. IdsSound'
  <2>1. ASSUME NEW x \in db[tab] \cup new[tab] \cup mine[tab] PROVE Passed(tab, x.id)'
    <3>1. x \in Visible[tab] \/ x \in new[tab] \cup gone[tab]
      BY VisibleAt
    <3>2. CASE x.id < next
      BY <1>6, <3>2 DEF Passed
    <3>3. CASE ~(x.id < next)
      <4>1. x \in new[tab] \cup gone[tab] /\ x.id >= next
        BY <1>4, <1>5, <3>1, <3>3
      <4> QED
        BY <1>6, <4>1 DEF Passed, IdsOf
    <3> QED
      BY <3>2, <3>3
  <2>2. \A t \in Tables : t # tab => \A i : Passed(t, i)' <=> Passed(t, i)
    BY <1>6, Zenon DEF Passed
  <2>3. \A t \in Tables : t # tab /\ at' > ResetOf[t] => at > ResetOf[t]
    BY <1>2, <1>3 DEF ResetOf, Tables
  <2> QED
    BY <1>1, <1>2, <2>1, <2>2, <2>3 DEF IdsSound
<1>10. ImportSound'
  <2> SUFFICES ASSUME NEW f \in file, NEW t \in Tables
               PROVE  f.scope # Full /\ RunSound(f, t)'
    BY <1>2, Zenon DEF ImportSound
  <2>1. f.scope # Full /\ RunSound(f, t)
    BY <1>1, <1>2 DEF ImportSound
  <2>2. /\ at > DeleteOf[t] /\ at > InsertOf[t] /\ ~(at' < 5) /\ ~(at' <= DeleteOf[t])
        /\ at' > DeleteOf[t] /\ at' > InsertOf[t]
    BY <1>3, Places
  <2> QED
    BY <1>2, <2>1, <2>2, Zenon DEF RunSound
<1> QED
  BY <1>7, <1>8, <1>9, <1>10 DEF IInv

\* The import is over: whoever looks sees what it saw, or what there was.
LEMMA EndKeeps ==
    ASSUME IInv, EndImport, restored' \in BOOLEAN,
           \/ at = 9 /\ db' = Visible
           \/ db' = db
    PROVE  IInv'
<1>1. TypeOK /\ FilesSound /\ RowsSound /\ IdsSound /\ ImportSound /\ TypesOneByOne
  BY TypesFlat DEF IInv
<1>2. /\ new' = new /\ seq' = seq /\ unseen' = unseen /\ export' = export /\ file' = file
      /\ at' = 0 /\ gone' = Empty /\ mine' = Empty /\ todo' = Empty /\ rivals' = Empty
  BY DEF EndImport, sequences, backups
<1>3. /\ DOMAIN db' = Tables
      /\ \A t \in Tables : db'[t] \subseteq RowsOf[t] /\ Unique(t, db'[t])
      /\ References(db')
  <2>1. CASE db' = db
    BY <1>1, <2>1 DEF TypesOneByOne, RowsSound
  <2>2. CASE db' = Visible
    <3>1. DOMAIN Visible = Tables
      BY DEF Visible
    <3>2. \A t \in Tables : Visible[t] \subseteq RowsOf[t]
      BY <1>1, VisibleAt DEF TypesOneByOne
    <3> QED
      BY <1>1, <2>2, <3>1, <3>2 DEF RowsSound
  <2> QED
    BY <2>1, <2>2
<1>4. \A t \in Tables : \A x \in db'[t] : Passed(t, x.id)
  <2>1. \A t \in Tables : at = 9 => at > ResetOf[t]
    BY Places
  <2> QED
    BY <1>1, <2>1, VisibleAt DEF IdsSound
<1>5. DOMAIN Empty = Tables /\ \A t \in Tables : Empty[t] = {}
  BY DEF Empty
<1>6. TypeOK'
  <2>1. \A t \in Tables : gone'[t] \subseteq RowsOf[t] /\ mine'[t] \subseteq RowsOf[t]
                          /\ todo'[t] \subseteq RowsOf[t] /\ rivals'[t] \subseteq RowsOf[t]
    BY <1>2, <1>5
  <2>2. at' \in 0..9
    BY <1>2
  <2> QED
    BY <1>1, <1>2, <1>3, <1>5, <2>1, <2>2, TypesFlat, Zenon DEF TypesOneByOne
<1>7. FilesSound'
  BY <1>1, <1>2, Zenon DEF FilesSound
<1>8. RowsSound'
  <2>1. Visible' = [t \in Tables |-> db'[t]]
    BY <1>2, <1>5 DEF Visible
  <2>2. \A t \in Tables : Visible'[t] = db'[t] /\ gone'[t] = {} /\ mine'[t] = {}
    BY <1>2, <1>5, <2>1
  <2>3. References(Visible')
    BY <1>3, <2>2 DEF References, Tables
  <2> QED
    BY <1>2, <1>3, <2>2, <2>3 DEF RowsSound
<1>9. IdsSound'
  <2>1. \A t \in Tables : at' > ResetOf[t] => FALSE
    BY <1>2, Places
  <2>2. \A t \in Tables : \A i : Passed(t, i) => Passed(t, i)'
    BY <1>2, Zenon DEF Passed
  <2> QED
    BY <1>1, <1>2, <1>4, <2>1, <2>2 DEF IdsSound
<1>10. ImportSound'
  BY <1>2 DEF ImportSound
<1> QED
  BY <1>6, <1>7, <1>8, <1>9, <1>10 DEF IInv

\* app_settings has no id: whatever a full import does is taken back.
LEMMA ImportFullIsUndone ==
    ImportFull => UNCHANGED <<work, sequences, backups, transaction>> /\ restored' \in BOOLEAN
                  /\ at = 0
<1>1. ~(\A table \in FullImportOrder : HasId(table))
  BY DEF FullImportOrder, HasId
<1> QED
  BY <1>1, Zenon DEF ImportFull, ResetAndCommit, work

LEMMA FullKeeps ==
    ASSUME IInv, ImportFull
    PROVE  IInv'
<1>1. TypeOK /\ FilesSound /\ RowsSound /\ IdsSound /\ ImportSound /\ TypesOneByOne
  BY TypesFlat DEF IInv
<1>2. /\ db' = db /\ new' = new /\ rivals' = rivals /\ seq' = seq /\ unseen' = unseen
      /\ export' = export /\ file' = file /\ at' = at /\ gone' = gone /\ mine' = mine
      /\ todo' = todo /\ restored' \in BOOLEAN
  BY ImportFullIsUndone DEF work, sequences, backups, transaction
<1>3. TypeOK'
  BY <1>1, <1>2, TypesFlat, Zenon DEF TypesOneByOne
<1>4. FilesSound' /\ RowsSound' /\ IdsSound'
  BY <1>1, <1>2, Zenon DEF FilesSound, RowsSound, Visible, IdsSound, Passed
<1>5. ImportSound'
  BY <1>1, <1>2, Zenon DEF ImportSound, RunSound
<1> QED
  BY <1>3, <1>4, <1>5 DEF IInv

LEMMA ImportKeeps ==
    ASSUME IInv,
           \/ ImportFull
           \/ \E f \in file :
                 \/ BeginImport(f)
                 \/ \E tab \in Tables : Check(f, tab) \/ Delete(f, tab) \/ Insert(f, tab)
           \/ \E tab \in Tables : Inserted(tab) \/ Reset(tab)
           \/ Commit \/ Fail
    PROVE  IInv'
<1>0. at \in 0..9
  BY TypesFlat, Zenon DEF IInv, TypesOneByOne
<1>1. ASSUME NEW f \in file, NEW tab \in Tables, Check(f, tab) PROVE IInv'
  <2>1. at # 0 /\ at < 3
    BY <1>0, <1>1, Places DEF Check, Statement
  <2>2. UNCHANGED <<work, sequences, backups, gone, mine, todo>> /\ Continue /\ restored' = FALSE
    BY <1>1, Zenon DEF Check, Statement, work
  <2>3. at < 3 \/ (at = InsertOf[tab] /\ todo[tab] = {})
    BY <2>1
  <2> QED
    BY <2>1, <2>2, <2>3, IdleKeeps
<1>2. ASSUME NEW tab \in Tables, Inserted(tab) PROVE IInv'
  <2>1. at # 0 /\ at = InsertOf[tab] /\ todo[tab] = {}
    BY <1>0, <1>2, Places DEF Inserted, Statement
  <2>2. UNCHANGED <<work, sequences, backups, gone, mine, todo>> /\ Continue /\ restored' = FALSE
    BY <1>2, Zenon DEF Inserted, Statement, work
  <2> QED
    BY <2>1, <2>2, IdleKeeps
<1>3. CASE Commit
  <2>1. "types" \in Tables
    BY DEF Tables
  <2>2. at = 9 /\ db' = Visible /\ EndImport /\ restored' \in BOOLEAN
    BY <1>0, <1>3, <2>1, Places DEF Commit
  <2> QED
    BY <2>2, EndKeeps
<1>4. CASE Fail
  BY <1>4, EndKeeps DEF Fail
<1> QED
  BY <1>1, <1>2, <1>3, <1>4, FullKeeps, BeginKeeps, DeleteKeeps, InsertKeeps, ResetKeeps

LEMMA BackupNext == IInv /\ [Next]_vars => IInv'
<1>1. ASSUME IInv, UNCHANGED vars PROVE IInv'
  <2>1. TypeOK /\ FilesSound /\ RowsSound /\ IdsSound /\ ImportSound /\ TypesOneByOne
    BY <1>1, TypesFlat DEF IInv
  <2>2. /\ db' = db /\ new' = new /\ rivals' = rivals /\ seq' = seq /\ unseen' = unseen
        /\ export' = export /\ file' = file /\ at' = at /\ gone' = gone /\ mine' = mine
        /\ todo' = todo /\ restored' = restored
    BY <1>1 DEF vars, work, sequences, backups, transaction
  <2>3. TypeOK'
    BY <2>1, <2>2, TypesFlat, Zenon DEF TypesOneByOne
  <2>4. FilesSound' /\ RowsSound' /\ IdsSound'
    BY <2>1, <2>2, Zenon DEF FilesSound, RowsSound, Visible, IdsSound, Passed
  <2>5. ImportSound'
    BY <2>1, <2>2, Zenon DEF ImportSound, RunSound
  <2> QED
    BY <2>3, <2>4, <2>5 DEF IInv
<1>2. ASSUME IInv, Next PROVE IInv'
  BY <1>2, ShopKeeps, ExportKeeps, ImportKeeps, Zenon DEF Next
<1> QED
  BY <1>1, <1>2
-----------------------------------------------------------------------------
\* Whatever the interleaving of work, exports and imports: the committed rows and
\* those a running import sees are consistent, each id is passed by the sequence
\* or was out of sight of its reset, and a running import accounts for every row
\* of its file.
THEOREM BackupInvariant == Spec => []IInv
<1> QED
  BY BackupInit, BackupNext, PTL DEF Spec

\* The tables and the files keep their types, for any number of ids.
THEOREM BackupTypes == Spec => []TypeOK
<1>1. IInv => TypeOK
  BY DEF IInv
<1> QED
  BY <1>1, BackupInvariant, PTL

\* No import brings two active tickets of a user, an id twice or a ticket
\* without its type (uq_reservations_user_active, fk_reservations_type_id).
THEOREM BackupTablesConsistent == Spec => []TablesConsistent
<1>1. IInv => TablesConsistent
  BY Zenon DEF IInv, RowsSound, Unique, TablesConsistent
<1> QED
  BY <1>1, BackupInvariant, PTL

\* _reset_sequence leaves no id ahead of the sequences that its statement could
\* see, however many rows are being inserted meanwhile.
THEOREM BackupSequences == Spec => []SequencesAheadOfSeen
<1>1. IInv => SequencesAheadOfSeen
  BY Zenon DEF IInv, IdsSound, Passed, SequencesAheadOfSeen
<1> QED
  BY <1>1, BackupInvariant, PTL

\* A step that reports a restored account is the import's commit.
LEMMA AccountRestored ==
    ASSUME IInv, Next, NEW f \in file, restored', at # 0, NEW tab \in Tables
    PROVE  /\ db'[tab] = (db[tab] \ gone[tab]) \cup mine[tab]
           /\ f.scope # Full /\ RunSound(f, tab) /\ at = 9
           /\ \A x \in f.rows[tab] : x.owner = f.scope
<1>1. TypeOK /\ FilesSound /\ ImportSound /\ TypesOneByOne
  BY TypesFlat DEF IInv
<1>2. Commit
  BY ImportFullIsUndone, Zenon
  DEF Next, AddType, Reserve, Draw, CommitRow, RollbackRow, DeleteType, Close, Write,
      ExportTypes, ExportReservations, BeginImport, Check, Delete, DeleteRows, Insert,
      InsertRow, Inserted, Reset, Statement, Fail
<1>3. db'[tab] = (db[tab] \ gone[tab]) \cup mine[tab]
  BY <1>2, VisibleAt DEF Commit
<1>4. at = 9
  BY <1>1, <1>2, Places DEF Commit, TypesOneByOne
<1>5. f.scope # Full /\ RunSound(f, tab)
  BY <1>1 DEF ImportSound
<1>6. \A x \in f.rows[tab] : x.owner = f.scope
  BY <1>1, <1>5 DEF FilesSound
<1> QED
  BY <1>3, <1>4, <1>5, <1>6

\* The restoration of one account deletes and writes no row of another.
THEOREM BackupOthersUntouched == Spec => OthersUntouched
<1> DEFINE A == \A f \in file : restored' /\ at # 0 =>
          \A tab \in Tables :
              db'[tab] \ OwnedBy(f.scope, db'[tab]) = db[tab] \ OwnedBy(f.scope, db[tab])
<1>1. ASSUME IInv, Next PROVE A
  <2> SUFFICES ASSUME NEW f \in file, restored', at # 0, NEW tab \in Tables
               PROVE  db'[tab] \ OwnedBy(f.scope, db'[tab]) = db[tab] \ OwnedBy(f.scope, db[tab])
    OBVIOUS
  <2>1. /\ db'[tab] = (db[tab] \ gone[tab]) \cup mine[tab]
        /\ gone[tab] \subseteq OwnedBy(f.scope, db[tab])
        /\ \A x \in mine[tab] : x.owner = f.scope
    BY <1>1, AccountRestored DEF RunSound
  <2> QED
    BY <2>1 DEF OwnedBy
<1>2. IInv /\ [Next]_vars => [A]_vars
  BY <1>1
<1> QED
  BY <1>2, BackupInvariant, PTL DEF Spec, OthersUntouched

\* What a restored account holds, and what ON CONFLICT DO NOTHING may leave out,
\* whatever is added, closed and deleted between the import's statements.
THEOREM BackupRestoredOrTaken == Spec => RestoredOrTaken
<1> DEFINE A == \A f \in file : restored' /\ at # 0 =>
          \A tab \in Tables :
              /\ OwnedBy(f.scope, db'[tab]) \subseteq f.rows[tab] \cup rivals[tab]
              /\ \A x \in f.rows[tab] \ db'[tab] :
                    \E y \in rivals[tab] : Excuses(tab, y, x)
<1>1. ASSUME IInv, Next PROVE A
  <2> SUFFICES ASSUME NEW f \in file, restored', at # 0, NEW tab \in Tables
               PROVE  /\ OwnedBy(f.scope, db'[tab]) \subseteq f.rows[tab] \cup rivals[tab]
                      /\ \A x \in f.rows[tab] \ db'[tab] :
                            \E y \in rivals[tab] : Excuses(tab, y, x)
    OBVIOUS
  <2>1. db'[tab] = (db[tab] \ gone[tab]) \cup mine[tab] /\ RunSound(f, tab) /\ at = 9
    BY <1>1, AccountRestored
  <2>2. at > DeleteOf[tab] /\ at > InsertOf[tab]
    BY <2>1, Places
  <2>3. /\ db[tab] \ gone[tab] \subseteq rivals[tab] /\ todo[tab] = {}
        /\ mine[tab] \subseteq f.rows[tab]
        /\ \A x \in f.rows[tab] \ (mine[tab] \cup todo[tab]) :
              \E y \in rivals[tab] : Excuses(tab, y, x)
    BY <2>1, <2>2 DEF RunSound
  <2> QED
    BY <2>1, <2>3 DEF OwnedBy
<1>2. IInv /\ [Next]_vars => [A]_vars
  BY <1>1
<1> QED
  BY <1>2, BackupInvariant, PTL DEF Spec, RestoredOrTaken
=============================================================================
