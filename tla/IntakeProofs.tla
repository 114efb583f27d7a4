----------------------------- MODULE IntakeProofs -----------------------------
(* Proofs about Intake, for any users, types, owners, threads and bounds.   *)
EXTENDS Intake, FiniteSetTheorems, TLAPS

\* Rows that an INSERT has made and no rollback has unmade.
Standing == {"pending", "waiting", "called", "closed"}

\* Where a committed row can be.
Stored == {"waiting", "called", "closed", "swallowed"}

\* A SERIAL id is not referred to before its INSERT.
UnbornRows ==
    \A i \in Ids : i >= nextId => status[i] = "none" /\ i \notin confirmed

\* What the thread's row went through, by where the thread is.
RowOf(w) ==
    /\ at[w] # 0 => pc[w] \in {"commit", "answer", "picked"} /\ at[w] < nextId
    /\ pc[w] \in {"commit", "answer", "picked"} => at[w] \in Ids
    /\ pc[w] = "commit" => status[at[w]] = "pending"
    /\ pc[w] = "answer" => status[at[w]] \in Stored
    /\ pc[w] = "picked" => status[at[w]] \in {"waiting", "called", "closed"}

ThreadsOfRows ==
    /\ \A w \in Workers : RowOf(w)
    /\ \A v, w \in Workers :
          pc[v] = "commit" /\ pc[w] = "commit" /\ at[v] = at[w] => v = w

\* One open ticket per user, those not yet committed included.
OneOpenTicket ==
    \A i, j \in Ids :
        /\ {status[i], status[j]} \subseteq {"pending", "waiting", "called"}
        /\ user[i] = user[j]
        => i = j

\* An owner's reservations commit in the order of their ids.
PendingIsNewest ==
    \A i, j \in Ids :
        /\ i < j /\ status[i] = "pending" /\ status[j] \in Standing
        => TypeOwner[rowType[i]] # TypeOwner[rowType[j]]

\* The ticket a customer meant to cancel, by how far the command is.
KnownRow(w) ==
    /\ pc[w] \in Requested => known[w] = 0
    /\ known[w] # 0 =>
          /\ known[w] < nextId
          /\ status[known[w]] \in Stored
          /\ pc[w] = "cancel" /\ status[known[w]] \in {"waiting", "called"}
                => user[known[w]] = of[w]
          /\ pc[w] = "picked" /\ status[known[w]] \in {"waiting", "called"}
                => at[w] = known[w]
          /\ pc[w] = "idle" => status[known[w]] \in {"closed", "swallowed"}

\* What the thread found, or still could find, open.
SeenBy(w) ==
    LET o == TypeOwner[booked[w]]
    IN  /\ pc[w] \in {"gate", "type"} => OpenTo(w) \subseteq seen[w]
        /\ pc[w] \in {"owner", "existing", "insert", "commit", "answer"} =>
              /\ booked[w] \in Types /\ booked[w] \in seen[w]
              /\ o \in OpenTo(w) => o \in seen[w]
        /\ pc[w] \in {"existing", "insert"} => account[o] = "gone" \/ o \in seen[w]
        /\ pc[w] \in {"commit", "answer"} => o \in seen[w]

IInv ==
    /\ TypeOK
    /\ UnbornRows
    /\ ThreadsOfRows
    /\ OneOpenTicket
    /\ PendingIsNewest
    /\ ConfirmedIsStored
    /\ \A w \in Workers : KnownRow(w)
    /\ \A w \in Workers : SeenBy(w)

LEMMA IntakeInit == Init => IInv
<1> SUFFICES ASSUME Init PROVE IInv
  OBVIOUS
<1>1. TypeOK
  BY IntakeAssumption DEF Init, TypeOK, Ids
<1>2. UnbornRows /\ ThreadsOfRows /\ OneOpenTicket /\ PendingIsNewest /\ ConfirmedIsStored
  BY IntakeAssumption
  DEF Init, UnbornRows, ThreadsOfRows, RowOf, OneOpenTicket, PendingIsNewest,
      ConfirmedIsStored, Standing
<1>3. \A w \in Workers : KnownRow(w) /\ SeenBy(w)
  BY DEF Init, KnownRow, SeenBy, Requested
<1> QED
  BY <1>1, <1>2, <1>3 DEF IInv
-----------------------------------------------------------------------------
(* Types. *)

\* What Observe notes are types and owners.
LEMMA ObserveTyped ==
    ASSUME TypeOK, Observe
    PROVE  seen' \in [Workers -> SUBSET (Types \cup Owners)]
<1>1. \A w \in Workers : OpenTo(w)' \subseteq Types \cup Owners
  BY DEF OpenTo
<1> QED
  BY <1>1 DEF TypeOK, Observe

\* A row that is rolled back has no user, type or status any more.
LEMMA RollBackTyped ==
    ASSUME TypeOK, NEW S \in SUBSET Ids, NEW how \in {"none", "swallowed"},
           RollBack(S, how)
    PROVE  /\ user' \in [Ids -> Users \cup {None}]
           /\ rowType' \in [Ids -> Types \cup {None}]
           /\ status' \in [Ids -> {"none", "pending", "waiting", "called", "closed",
                                 "swallowed"}]
           /\ nextId' = nextId
  BY DEF TypeOK, RollBack

LEMMA CustomerTyped ==
    ASSUME TypeOK, UnbornRows, ThreadsOfRows, NEW w \in Workers, Customer(w), Observe
    PROVE  TypeOK'
<1> USE ObserveTyped, IntakeAssumption DEF shop, rows, history, threads
<1>1. ASSUME NEW u \in Users, BeginCancel(w, u) PROVE TypeOK'
  <2>1. known' \in [Workers -> Ids \cup {0}]
    BY <1>1 DEF TypeOK, BeginCancel
  <2> QED
    BY <1>1, <2>1 DEF TypeOK, BeginCancel
<1>2. ASSUME NEW u \in Users, NEW n \in Names, Begin(w, u, n) PROVE TypeOK'
  BY <1>2 DEF TypeOK, Begin, Requested
<1>3. CASE Gate(w) \/ ReadOwner(w) \/ CheckExisting(w)
  <2>1. /\ UNCHANGED <<shop, rows, edits, history>>
        /\ \/ \E label \in {"type", "existing", "insert"} : Goto(w, label)
           \/ Return(w)
    BY <1>3 DEF Gate, ReadOwner, CheckExisting
  <2>2. CASE Return(w)
    BY <2>1, <2>2 DEF TypeOK, Return
  <2>3. ASSUME NEW label \in {"type", "existing", "insert"}, Goto(w, label) PROVE TypeOK'
    BY <2>1, <2>3 DEF TypeOK, Goto, Requested
  <2> QED
    BY <2>1, <2>2, <2>3
<1>4. CASE ReadType(w)
  BY <1>4 DEF TypeOK, ReadType, Return, Requested
<1>5. CASE Insert(w)
  <2>1. nextId \in Ids /\ nextId' \in 1..(MaxId + 1)
    BY <1>5 DEF TypeOK, Insert, Ids
  <2>2. /\ user' \in [Ids -> Users \cup {None}]
        /\ rowType' \in [Ids -> Types \cup {None}]
    BY <1>5, <2>1 DEF TypeOK, Insert
  <2> QED
    BY <1>5, <2>1, <2>2 DEF TypeOK, Insert, Requested
<1>6. CASE InsertConflicts(w) \/ InsertFails(w)
  BY <1>6 DEF TypeOK, InsertConflicts, InsertFails, Return
<1>11. CASE Answer(w)
  <2>1. at[w] \in Ids
    BY <1>11 DEF Answer, ThreadsOfRows, RowOf
  <2> QED
    BY <1>11, <2>1 DEF TypeOK, Answer, Return
<1>7. CASE Commit(w)
  <2>1. at[w] \in Ids
    BY <1>7 DEF Commit, ThreadsOfRows, RowOf
  <2>2. /\ user' \in [Ids -> Users \cup {None}]
        /\ rowType' \in [Ids -> Types \cup {None}]
        /\ status' \in [Ids -> {"none", "pending", "waiting", "called", "closed",
                              "swallowed"}]
        /\ nextId' = nextId
    <3>1. CASE /\ status' = [status EXCEPT ![at[w]] = "waiting"]
               /\ UNCHANGED <<nextId, user, rowType>>
      BY <1>7, <2>1, <3>1 DEF TypeOK, Commit
    <3>2. CASE RollBack({at[w]}, "swallowed")
      BY <2>1, <3>2, RollBackTyped
    <3> QED
      BY <1>7, <3>1, <3>2 DEF Commit
  <2> QED
    BY <1>7, <2>2 DEF TypeOK, Commit, Goto, Requested
<1>8. CASE Abort(w)
  <2>1. /\ user' \in [Ids -> Users \cup {None}]
        /\ rowType' \in [Ids -> Types \cup {None}]
        /\ status' \in [Ids -> {"none", "pending", "waiting", "called", "closed",
                              "swallowed"}]
        /\ nextId' = nextId
    BY <1>8, RollBackTyped DEF Abort
  <2> QED
    BY <1>8, <2>1 DEF TypeOK, Abort, Return
<1>9. CASE CancelFind(w)
  <2>1. UNCHANGED <<shop, rows, edits, history>>
    BY <1>9 DEF CancelFind
  <2>2. CASE Return(w)
    BY <2>1, <2>2 DEF TypeOK, Return
  <2>3. ASSUME NEW i \in Ids, at' = [at EXCEPT ![w] = i], pc' = [pc EXCEPT ![w] = "picked"],
               UNCHANGED <<of, want, booked>>
        PROVE  TypeOK'
    BY <2>1, <2>3 DEF TypeOK
  <2>4. Return(w) \/ \E i \in Ids : /\ at' = [at EXCEPT ![w] = i]
                                   /\ pc' = [pc EXCEPT ![w] = "picked"]
                                   /\ UNCHANGED <<of, want, booked>>
    BY <1>9 DEF CancelFind, Held
  <2> QED
    BY <2>2, <2>3, <2>4
<1>10. CASE CancelWrite(w)
  BY <1>10 DEF TypeOK, CancelWrite, Return
<1> QED
  BY <1>1, <1>2, <1>3, <1>4, <1>5, <1>6, <1>7, <1>8, <1>9, <1>10, <1>11
  DEF Customer

LEMMA OthersTyped ==
    ASSUME TypeOK, Line \/ Shopkeeper, Observe
    PROVE  TypeOK'
<1> USE ObserveTyped, IntakeAssumption DEF shop, rows, history, threads
<1>1. ASSUME NEW i \in Ids, Call(i) \/ Close(i) \/ PutBack(i) PROVE TypeOK'
  BY <1>1 DEF TypeOK, Call, Close, PutBack, MoveTicket
<1>2. ASSUME NEW t \in Types, ToggleType(t) \/ DeleteType(t) PROVE TypeOK'
  <2>1. accepting' \in [Types -> BOOLEAN]
    BY <1>2, Zenon DEF TypeOK, ToggleType, DeleteType
  <2> QED
    BY <1>2, <2>1 DEF TypeOK, Edit, ToggleType, DeleteType
<1>3. ASSUME NEW t \in Types, NEW n \in Names, AddType(t, n) \/ RenameType(t, n)
      PROVE  TypeOK'
  BY <1>3 DEF TypeOK, Edit, AddType, RenameType
<1>4. ASSUME NEW o \in Owners, NEW state \in {"active", "inactive", "gone"},
             SetAccount(o, state)
      PROVE  TypeOK'
  BY <1>4 DEF TypeOK, Edit, SetAccount
<1>5. ASSUME NEW o \in Owners, NEW flag \in BOOLEAN, SetOpen(o, flag) PROVE TypeOK'
  BY <1>5 DEF TypeOK, Edit, SetOpen
<1> QED
  BY <1>1, <1>2, <1>3, <1>4, <1>5 DEF Line, Shopkeeper
-----------------------------------------------------------------------------
(* Rows, and the threads that hold them. *)

RowsInv ==
    /\ UnbornRows
    /\ ThreadsOfRows
    /\ OneOpenTicket
    /\ PendingIsNewest
    /\ ConfirmedIsStored
    /\ \A w \in Workers : KnownRow(w)

\* Steps that only move a thread.
LEMMA RowsUnmoved ==
    ASSUME RowsInv, UNCHANGED <<rows, confirmed>>
    PROVE  UnbornRows' /\ OneOpenTicket' /\ PendingIsNewest' /\ ConfirmedIsStored'
  BY DEF RowsInv, rows, UnbornRows, OneOpenTicket, PendingIsNewest, ConfirmedIsStored

\* A step of thread w leaves the other threads where they are ...
OthersStay(w) ==
    \A v \in Workers \ {w} :
        /\ pc'[v] = pc[v] /\ of'[v] = of[v] /\ at'[v] = at[v] /\ known'[v] = known[v]

\* ... and their rows go forward.
RowsForward(w) ==
    /\ nextId' \in Nat /\ nextId' >= nextId
    /\ \A i \in Ids : i < nextId =>
          /\ status[i] = "pending" => \/ status'[i] = "pending"
                                      \/ w \in Workers /\ at[w] = i /\ pc[w] = "commit"
          /\ status[i] \in {"closed", "swallowed"} => status'[i] = status[i]
          /\ status[i] \in {"waiting", "called"} =>
                status'[i] \in {"waiting", "called", "closed"} /\ user'[i] = user[i]

\* What other threads know of their rows survives such a step.
LEMMA OtherThreads ==
    ASSUME TypeOK, RowsInv, NEW w, OthersStay(w), RowsForward(w)
    PROVE  \A v \in Workers \ {w} : RowOf(v)' /\ KnownRow(v)'
<1> USE DEF OthersStay, RowsForward
<1> SUFFICES ASSUME NEW v \in Workers \ {w} PROVE RowOf(v)' /\ KnownRow(v)'
  OBVIOUS
<1>1. RowOf(v) /\ KnownRow(v) /\ nextId \in Nat /\ at[v] \in Nat /\ known[v] \in Nat
  BY IntakeAssumption DEF RowsInv, ThreadsOfRows, TypeOK, Ids
<1>2. RowOf(v)'
  <2>1. CASE pc[v] = "commit"
    BY <1>1, <2>1, IntakeAssumption DEF RowOf, RowsInv, ThreadsOfRows, Ids
  <2>2. CASE pc[v] # "commit"
    BY <1>1, <2>2, IntakeAssumption DEF RowOf, Stored, Ids
  <2> QED
    BY <2>1, <2>2
<1>3. KnownRow(v)'
  BY <1>1 DEF KnownRow, Stored, TypeOK
<1> QED
  BY <1>2, <1>3

LEMMA QuietThreads ==
    ASSUME TypeOK, RowsInv, NEW w \in Workers,
           \/ \E u \in Users : BeginCancel(w, u)
           \/ \E u \in Users, n \in Names : Begin(w, u, n)
           \/ Gate(w) \/ ReadType(w) \/ ReadOwner(w) \/ CheckExisting(w)
           \/ InsertConflicts(w) \/ InsertFails(w) \/ CancelFind(w)
    PROVE  RowsInv'
<1> USE IntakeAssumption DEF history, Ids, OthersStay
<1> DEFINE Quiet ==
      /\ rows' = rows /\ confirmed' = confirmed
      /\ OthersStay(w)
      /\ RowOf(w)' /\ KnownRow(w)' /\ pc'[w] # "commit"
<1>1. RowOf(w) /\ KnownRow(w)
  BY DEF RowsInv, ThreadsOfRows
<1>2. ASSUME NEW u \in Users, BeginCancel(w, u) PROVE Quiet
  <2>1. /\ pc' = [pc EXCEPT ![w] = "cancel"] /\ of' = [of EXCEPT ![w] = u]
        /\ at' = at /\ rows' = rows /\ confirmed' = confirmed /\ pc[w] = "idle"
    BY <1>2 DEF BeginCancel
  <2>2. PICK i \in confirmed \cup {0} :
           /\ known' = [known EXCEPT ![w] = i]
           /\ i # 0 => user[i] = u
    BY <1>2 DEF BeginCancel
  <2>3. i # 0 => i \in Ids /\ status[i] \in Stored /\ i < nextId
    BY <2>2 DEF TypeOK, RowsInv, ConfirmedIsStored, UnbornRows, Stored, Ids
  <2> QED
    BY <1>1, <2>1, <2>2, <2>3 DEF RowOf, KnownRow, TypeOK, Requested, rows
<1>3. ASSUME NEW u \in Users, NEW n \in Names, Begin(w, u, n) PROVE Quiet
  BY <1>1, <1>3 DEF Begin, TypeOK, RowOf, KnownRow, Requested, rows
<1>4. ASSUME Gate(w) \/ ReadType(w) \/ ReadOwner(w) \/ CheckExisting(w)
      PROVE  Quiet
  BY <1>1, <1>4
  DEF Gate, ReadType, ReadOwner, CheckExisting, Goto, Return, TypeOK, RowOf, KnownRow, Requested, rows
<1>5. ASSUME InsertConflicts(w) \/ InsertFails(w) PROVE Quiet
  <2>1. pc[w] = "insert" /\ Return(w) /\ rows' = rows /\ confirmed' = confirmed /\ known' = known
    BY <1>5 DEF InsertConflicts, InsertFails
  <2>2. known[w] = 0
    BY <1>1, <2>1 DEF KnownRow, Requested
  <2>3. pc'[w] = "idle" /\ at'[w] = 0 /\ known'[w] = 0
    BY <2>1, <2>2 DEF Return, TypeOK
  <2>4. RowOf(w)' /\ KnownRow(w)'
    BY <2>3 DEF RowOf, KnownRow, Requested
  <2>5. OthersStay(w)
    BY <2>1 DEF Return, TypeOK
  <2> QED
    BY <2>1, <2>3, <2>4, <2>5
<1>6. ASSUME CancelFind(w) PROVE Quiet
  <2>1. pc[w] = "cancel" /\ rows' = rows /\ confirmed' = confirmed /\ known' = known
    BY <1>6 DEF CancelFind
  <2>2. ASSUME known[w] # 0, status[known[w]] \in {"waiting", "called"}
        PROVE  known[w] \in Held(of[w])
    BY <1>1, <2>1, <2>2 DEF KnownRow, Held, IsActive, TypeOK
  <2>3. CASE Held(of[w]) = {} /\ Return(w)
    <3>1. known[w] # 0 => status[known[w]] \in {"closed", "swallowed"}
      BY <1>1, <2>2, <2>3 DEF KnownRow, Stored
    <3> QED
      BY <1>1, <2>1, <2>3, <3>1 DEF Return, TypeOK, RowOf, KnownRow, Requested, rows
  <2>4. ASSUME NEW i \in Held(of[w]),
               at' = [at EXCEPT ![w] = i], pc' = [pc EXCEPT ![w] = "picked"],
               UNCHANGED <<of, want, booked>>
        PROVE  Quiet
    <3>1. i \in Ids /\ status[i] \in {"waiting", "called"} /\ user[i] = of[w]
      BY DEF Held, IsActive
    <3>2. i < nextId
      BY <3>1 DEF RowsInv, UnbornRows, TypeOK, Ids
    <3>3. known[w] # 0 /\ status[known[w]] \in {"waiting", "called"} => known[w] = i
      BY <2>2, <3>1 DEF Held, IsActive, RowsInv, OneOpenTicket
    <3> QED
      BY <1>1, <2>1, <2>4, <3>1, <3>2, <3>3 DEF TypeOK, RowOf, KnownRow, Requested, rows, Stored
  <2> QED
    BY <1>6, <2>3, <2>4 DEF CancelFind
<1>7. Quiet
  BY <1>2, <1>3, <1>4, <1>5, <1>6
<1>8. \A v \in Workers \ {w} : RowOf(v)' /\ KnownRow(v)'
  <2>1. nextId' >= nextId /\ nextId' \in Nat
    BY <1>7 DEF TypeOK, rows
  <2>2. status' = status /\ user' = user
    BY <1>7 DEF rows
  <2>3. RowsForward(w)
    BY <2>1, <2>2 DEF RowsForward
  <2> QED
    BY <1>7, <2>3, OtherThreads
<1>9. ThreadsOfRows'
  BY <1>7, <1>8 DEF ThreadsOfRows, RowsInv
<1> QED
  BY <1>7, <1>8, <1>9, RowsUnmoved DEF RowsInv

\* Before its INSERT the thread refers to no row.
LEMMA InsertRows ==
    ASSUME TypeOK, RowsInv, NEW w \in Workers, Insert(w)
    PROVE  RowsInv'
<1> USE IntakeAssumption DEF Ids
<1>1. /\ pc[w] = "insert" /\ nextId \in Ids /\ nextId' = nextId + 1
      /\ user' = [user EXCEPT ![nextId] = of[w]]
      /\ rowType' = [rowType EXCEPT ![nextId] = booked[w]]
      /\ status' = [status EXCEPT ![nextId] = "pending"]
      /\ at' = [at EXCEPT ![w] = nextId] /\ pc' = [pc EXCEPT ![w] = "commit"]
      /\ of' = of /\ confirmed' = confirmed /\ known' = known
  BY DEF Insert, TypeOK, history
<1>2. status[nextId] = "none" /\ nextId \notin confirmed /\ known[w] = 0 /\ at[w] = 0
  <2>1. RowOf(w) /\ KnownRow(w) /\ nextId >= nextId
    BY DEF RowsInv, ThreadsOfRows, TypeOK
  <2>2. known[w] = 0 /\ at[w] = 0
    BY <1>1, <2>1 DEF RowOf, KnownRow, Requested
  <2> QED
    BY <1>1, <2>1, <2>2 DEF RowsInv, UnbornRows
<1>3. UnbornRows'
  BY <1>1, <1>2 DEF RowsInv, UnbornRows, TypeOK
<1>4. OthersStay(w) /\ RowsForward(w)
  BY <1>1, <1>2 DEF OthersStay, RowsForward, TypeOK
<1>5. RowOf(w)' /\ KnownRow(w)'
  BY <1>1, <1>2 DEF RowOf, KnownRow, TypeOK, Requested
<1>6. \A v \in Workers \ {w} : RowOf(v)' /\ KnownRow(v)'
  BY <1>4, OtherThreads
<1>7. \A v \in Workers \ {w} : pc[v] = "commit" => at[v] # nextId
  BY <1>1, <1>2 DEF RowsInv, ThreadsOfRows, RowOf, TypeOK
<1>8. ThreadsOfRows'
  <2>1. \A v \in Workers : RowOf(v)'
    BY <1>5, <1>6
  <2>2. ASSUME NEW v \in Workers, NEW x \in Workers,
               pc'[v] = "commit", pc'[x] = "commit", at'[v] = at'[x]
        PROVE  v = x
    BY <1>1, <1>7, <2>2 DEF RowsInv, ThreadsOfRows, TypeOK
  <2> QED
    BY <2>1, <2>2 DEF ThreadsOfRows
<1>9. OneOpenTicket'
  <2>1. \A i \in Ids : status[i] \in {"pending", "waiting", "called"} => user[i] # of[w]
    BY DEF Insert, MayInsert, Held, IsActive
  <2>2. ASSUME NEW i \in Ids, NEW j \in Ids, user'[i] = user'[j],
               {status'[i], status'[j]} \subseteq {"pending", "waiting", "called"}
        PROVE  i = j
    BY <1>1, <2>1, <2>2 DEF RowsInv, OneOpenTicket, TypeOK
  <2> QED
    BY <2>2 DEF OneOpenTicket
<1>10. PendingIsNewest'
  <2>1. \A i \in Ids : status[i] = "pending" =>
           TypeOwner[rowType[i]] # TypeOwner[booked[w]]
    BY DEF Insert, MayInsert
  <2>2. ASSUME NEW i \in Ids, NEW j \in Ids, i < j, status'[i] = "pending",
               status'[j] \in Standing
        PROVE  TypeOwner[rowType'[i]] # TypeOwner[rowType'[j]]
    <3>1. CASE j = nextId
      BY <1>1, <2>1, <2>2, <3>1 DEF TypeOK
    <3>2. CASE j # nextId
      <4>1. j < nextId
        BY <1>1, <1>3, <2>2, <3>2 DEF UnbornRows, Standing, TypeOK
      <4> QED
        BY <1>1, <2>2, <3>2, <4>1 DEF RowsInv, PendingIsNewest, TypeOK
    <3> QED
      BY <3>1, <3>2
  <2> QED
    BY <2>2 DEF PendingIsNewest
<1>11. ConfirmedIsStored'
  BY <1>1, <1>2 DEF RowsInv, ConfirmedIsStored, TypeOK
<1> QED
  BY <1>3, <1>5, <1>6, <1>8, <1>9, <1>10, <1>11 DEF RowsInv

\* Steps that change statuses only, and only forward: no row becomes open or
\* pending, and only a row that stays stored may be confirmed.
StatusForward ==
    /\ nextId' = nextId
    /\ \A i \in Ids :
          /\ \/ status'[i] = status[i]
             \/ status[i] \in {"pending", "waiting", "called"} /\ status'[i] \in Stored
             \/ status[i] = "pending" /\ status'[i] = "none"
          /\ status'[i] \in {"pending", "waiting", "called", "closed"} =>
                user'[i] = user[i] /\ rowType'[i] = rowType[i]
    /\ \A i \in confirmed' :
          i \in Ids /\ i < nextId /\ (i \in confirmed \/ status'[i] \in Stored)

LEMMA RowsGoForward ==
    ASSUME TypeOK, RowsInv, StatusForward
    PROVE  UnbornRows' /\ OneOpenTicket' /\ PendingIsNewest' /\ ConfirmedIsStored'
<1> USE IntakeAssumption DEF Ids, StatusForward, Stored
<1>1. UnbornRows'
  BY DEF RowsInv, UnbornRows, TypeOK
<1>2. OneOpenTicket'
  BY DEF RowsInv, OneOpenTicket
<1>3. PendingIsNewest'
  BY DEF RowsInv, PendingIsNewest, Standing
<1>4. ConfirmedIsStored'
  BY DEF RowsInv, ConfirmedIsStored
<1> QED
  BY <1>1, <1>2, <1>3, <1>4

\* Commit, the answer, an exception, and the UPDATE of a cancel command.
LEMMA TicketRows ==
    ASSUME TypeOK, RowsInv, NEW w \in Workers,
           Commit(w) \/ Answer(w) \/ Abort(w) \/ CancelWrite(w)
    PROVE  RowsInv'
<1> USE IntakeAssumption DEF Ids, Return, Goto, Stored, history
<1> DEFINE Forward ==
      /\ StatusForward /\ OthersStay(w) /\ RowsForward(w)
      /\ RowOf(w)' /\ KnownRow(w)' /\ pc'[w] # "commit"
<1>1. /\ RowOf(w) /\ KnownRow(w) /\ nextId \in Nat /\ confirmed \in SUBSET Ids
      /\ \A i \in confirmed : i < nextId
  BY DEF RowsInv, ThreadsOfRows, UnbornRows, TypeOK
<1>2. ASSUME Commit(w) PROVE Forward
  <2>1. /\ pc[w] = "commit" /\ at[w] \in Ids /\ at[w] < nextId
        /\ status[at[w]] = "pending" /\ known[w] = 0
    BY <1>1, <1>2 DEF Commit, RowOf, KnownRow, Requested
  <2>2. /\ pc' = [pc EXCEPT ![w] = "answer"] /\ of' = of /\ at' = at
        /\ confirmed' = confirmed /\ known' = known /\ nextId' = nextId
    BY <1>2 DEF Commit, RollBack
  <2>3. \A i \in Ids \ {at[w]} :
           status'[i] = status[i] /\ user'[i] = user[i] /\ rowType'[i] = rowType[i]
    BY <1>2, <2>1 DEF Commit, RollBack, TypeOK
  <2>4. \/ status'[at[w]] = "swallowed"
        \/ /\ status'[at[w]] = "waiting" /\ user'[at[w]] = user[at[w]]
           /\ rowType'[at[w]] = rowType[at[w]]
    BY <1>2, <2>1 DEF Commit, RollBack, TypeOK
  <2>5. StatusForward
    BY <1>1, <2>1, <2>2, <2>3, <2>4 DEF StatusForward
  <2>6. OthersStay(w) /\ RowsForward(w)
    BY <1>1, <2>1, <2>2, <2>3, <2>4 DEF OthersStay, RowsForward, TypeOK
  <2>7. RowOf(w)' /\ KnownRow(w)' /\ pc'[w] # "commit"
    BY <1>1, <2>1, <2>2, <2>4 DEF RowOf, KnownRow, TypeOK
  <2> QED
    BY <2>5, <2>6, <2>7
<1>3. ASSUME Answer(w) PROVE Forward
  <2>1. /\ pc[w] = "answer" /\ at[w] \in Ids /\ at[w] < nextId
        /\ status[at[w]] \in Stored /\ known[w] = 0
    BY <1>1, <1>3 DEF Answer, RowOf, KnownRow, Requested
  <2>2. /\ pc' = [pc EXCEPT ![w] = "idle"] /\ of' = [of EXCEPT ![w] = None]
        /\ at' = [at EXCEPT ![w] = 0] /\ confirmed' = confirmed \cup {at[w]}
        /\ known' = known /\ nextId' = nextId /\ status' = status /\ user' = user
        /\ rowType' = rowType
    BY <1>3 DEF Answer, rows
  <2>3. StatusForward
    BY <1>1, <2>1, <2>2 DEF StatusForward
  <2>4. OthersStay(w) /\ RowsForward(w)
    BY <1>1, <2>1, <2>2 DEF OthersStay, RowsForward, TypeOK
  <2>5. RowOf(w)' /\ KnownRow(w)' /\ pc'[w] # "commit"
    BY <1>1, <2>1, <2>2 DEF RowOf, KnownRow, TypeOK, Requested
  <2> QED
    BY <2>3, <2>4, <2>5
<1>4. ASSUME Abort(w) PROVE Forward
  <2>1. /\ pc' = [pc EXCEPT ![w] = "idle"] /\ of' = [of EXCEPT ![w] = None]
        /\ at' = [at EXCEPT ![w] = 0] /\ confirmed' = confirmed
        /\ known' = [known EXCEPT ![w] = 0] /\ nextId' = nextId
    BY <1>4 DEF Abort, RollBack
  <2>2. \A i \in Ids :
           \/ status'[i] = status[i] /\ user'[i] = user[i] /\ rowType'[i] = rowType[i]
           \/ i = at[w] /\ status[i] = "pending" /\ status'[i] = "none"
    BY <1>4 DEF Abort, RollBack, TypeOK
  <2>3. ASSUME at[w] \in Ids, status[at[w]] = "pending" PROVE pc[w] = "commit"
    BY <1>1, <2>3 DEF RowOf
  <2>4. StatusForward
    BY <1>1, <2>1, <2>2 DEF StatusForward
  <2>5. OthersStay(w) /\ RowsForward(w)
    BY <1>1, <2>1, <2>2, <2>3 DEF OthersStay, RowsForward, TypeOK
  <2>6. RowOf(w)' /\ KnownRow(w)' /\ pc'[w] # "commit"
    BY <1>1, <2>1 DEF RowOf, KnownRow, TypeOK, Requested
  <2> QED
    BY <2>4, <2>5, <2>6
<1>5. ASSUME CancelWrite(w) PROVE Forward
  <2>1. /\ pc[w] = "picked" /\ at[w] \in Ids /\ at[w] < nextId
        /\ status[at[w]] \in {"waiting", "called", "closed"}
    BY <1>1, <1>5 DEF CancelWrite, RowOf
  <2>2. /\ pc' = [pc EXCEPT ![w] = "idle"] /\ of' = [of EXCEPT ![w] = None]
        /\ at' = [at EXCEPT ![w] = 0] /\ confirmed' = confirmed \ {at[w]}
        /\ known' = known /\ nextId' = nextId /\ user' = user /\ rowType' = rowType
        /\ status' = [status EXCEPT ![at[w]] = "closed"]
    BY <1>5 DEF CancelWrite
  <2>3. StatusForward
    BY <1>1, <2>1, <2>2 DEF StatusForward, TypeOK
  <2>4. OthersStay(w) /\ RowsForward(w)
    BY <1>1, <2>1, <2>2 DEF OthersStay, RowsForward, TypeOK
  <2>5. known[w] # 0 => status'[known[w]] \in {"closed", "swallowed"} /\ known[w] < nextId
    BY <1>1, <2>1, <2>2 DEF KnownRow, TypeOK
  <2>6. RowOf(w)' /\ KnownRow(w)' /\ pc'[w] # "commit"
    BY <1>1, <2>1, <2>2, <2>5 DEF RowOf, KnownRow, TypeOK, Requested
  <2> QED
    BY <2>3, <2>4, <2>6
<1>6. Forward
  BY <1>2, <1>3, <1>4, <1>5
<1>7. \A v \in Workers \ {w} : RowOf(v)' /\ KnownRow(v)'
  BY <1>6, OtherThreads
<1>8. ThreadsOfRows'
  BY <1>6, <1>7 DEF ThreadsOfRows, RowsInv, OthersStay
<1> QED
  BY <1>6, <1>7, <1>8, RowsGoForward DEF RowsInv

\* Calls and edits leave every thread where it is.
LEMMA OutsideRows ==
    ASSUME TypeOK, RowsInv, Line \/ Shopkeeper
    PROVE  RowsInv' /\ UNCHANGED threads
<1> USE IntakeAssumption DEF Ids, Stored
<1> DEFINE Kept(i) == \/ status'[i] = status[i]
                      \/ status[i] \in {"waiting", "called"}
                         /\ status'[i] \in {"waiting", "called", "closed"}
<1> DEFINE Outside ==
      /\ threads' = threads /\ known' = known /\ nextId' = nextId /\ user' = user
      /\ rowType' = rowType /\ confirmed' \subseteq confirmed /\ \A i \in Ids : Kept(i)
<1>1. Outside
  <2>1. ASSUME NEW i \in Ids, Call(i) \/ Close(i) \/ PutBack(i) PROVE Outside
    BY <2>1 DEF Call, Close, PutBack, MoveTicket, TypeOK
  <2>2. ASSUME Shopkeeper PROVE Outside
    <3>1. threads' = threads /\ rows' = rows /\ history' = history
      BY <2>2
      DEF Shopkeeper, ToggleType, DeleteType, AddType, RenameType, SetAccount, SetOpen, Edit
    <3> QED
      BY <3>1 DEF rows, history
  <2> QED
    BY <2>1, <2>2 DEF Line
<1>2. StatusForward
  BY <1>1 DEF StatusForward, RowsInv, UnbornRows, TypeOK
<1> DEFINE nobody == CHOOSE x : x \notin Workers
<1>3. nobody \notin Workers
  BY NoSetContainsEverything
<1> HIDE DEF nobody
<1>4. OthersStay(nobody) /\ RowsForward(nobody)
  BY <1>1 DEF OthersStay, RowsForward, threads, TypeOK
<1>5. \A v \in Workers : RowOf(v)' /\ KnownRow(v)'
  BY <1>3, <1>4, OtherThreads
<1>6. ThreadsOfRows'
  BY <1>1, <1>5 DEF ThreadsOfRows, RowsInv, threads
<1> QED
  BY <1>1, <1>2, <1>5, <1>6, RowsGoForward DEF RowsInv
-----------------------------------------------------------------------------
(* What threads found open. *)

\* An account that is gone stays so.
GoneIsGone == \A o \in Owners : account[o] = "gone" => account'[o] = "gone"

LEMMA SeenGrows ==
    ASSUME TypeOK, Observe, GoneIsGone, NEW w \in Workers, SeenBy(w),
           pc'[w] = pc[w], want'[w] = want[w], booked'[w] = booked[w]
    PROVE  SeenBy(w)'
<1> DEFINE o == TypeOwner[booked[w]]
<1>1. CASE pc[w] \in {"gate", "type"}
  BY <1>1 DEF SeenBy, Observe
<1>2. CASE pc[w] \in {"owner", "existing", "insert", "commit", "answer"}
  <2>1. seen'[w] = (seen[w] \cup OpenTo(w)') \cap {booked[w], o}
    BY <1>2 DEF Observe
  <2>2. booked[w] \in Types /\ o \in Owners
    BY <1>2, IntakeAssumption DEF SeenBy
  <2>3. booked[w] \in seen'[w] /\ (o \in OpenTo(w)' => o \in seen'[w])
    BY <1>2, <2>1 DEF SeenBy
  <2>4. o \in seen[w] => o \in seen'[w]
    BY <2>1
  <2> QED
    BY <1>2, <2>2, <2>3, <2>4 DEF SeenBy, GoneIsGone
<1>3. CASE pc[w] \notin {"gate", "type", "owner", "existing", "insert", "commit", "answer"}
  BY <1>3 DEF SeenBy
<1> QED
  BY <1>1, <1>2, <1>3

LEMMA CustomerSees ==
    ASSUME TypeOK, NEW w \in Workers, Customer(w), Observe, \A v \in Workers : SeenBy(v)
    PROVE  \A v \in Workers : SeenBy(v)'
<1> USE IntakeAssumption DEF shop
<1> DEFINE o == TypeOwner[booked[w]]
<1>1. GoneIsGone /\ UNCHANGED shop
  BY DEF Customer, BeginCancel, Begin, Gate, ReadType, ReadOwner, CheckExisting, Insert,
         InsertConflicts, InsertFails, Commit, Answer, Abort, CancelFind, CancelWrite, GoneIsGone
<1>2. \A v \in Workers \ {w} :
         pc'[v] = pc[v] /\ want'[v] = want[v] /\ booked'[v] = booked[v]
  BY DEF Customer, BeginCancel, Begin, Gate, ReadType, ReadOwner, CheckExisting, Insert,
         InsertConflicts, InsertFails, Commit, Answer, Abort, CancelFind, CancelWrite,
         Return, Goto, threads, TypeOK
<1>3. SeenBy(w)
  OBVIOUS
<1>4. ASSUME pc'[w] \in {"idle", "cancel", "picked"} PROVE SeenBy(w)'
  BY <1>4 DEF SeenBy
<1>5. ASSUME pc'[w] \in {"gate", "type"} PROVE SeenBy(w)'
  BY <1>5 DEF SeenBy, Observe
<1>6. ASSUME ReadType(w), pc'[w] = "owner" PROVE SeenBy(w)'
  <2>1. PICK t \in Types :
           /\ pc[w] = "type" /\ name[t] = want[w] /\ accepting[t]
           /\ booked' = [booked EXCEPT ![w] = t]
    BY <1>6 DEF ReadType, Return, TypeOK
  <2>2. t \in seen[w]
    BY <1>3, <2>1 DEF SeenBy, OpenTo
  <2>3. booked'[w] = t
    BY <2>1 DEF TypeOK
  <2>4. seen'[w] = (seen[w] \cup OpenTo(w)') \cap {t, TypeOwner[t]}
    BY <1>6, <2>3 DEF Observe
  <2> QED
    <3>1. booked'[w] \in Types /\ booked'[w] \in seen'[w]
      BY <2>2, <2>3, <2>4
    <3>2. TypeOwner[booked'[w]] \in OpenTo(w)' => TypeOwner[booked'[w]] \in seen'[w]
      BY <2>3, <2>4
    <3> QED
      BY <1>6, <3>1, <3>2 DEF SeenBy
<1>7. ASSUME pc[w] \in {"owner", "existing", "insert", "commit"},
             pc'[w] \in {"existing", "insert", "commit", "answer"},
             booked'[w] = booked[w], want'[w] = want[w],
             pc'[w] \in {"existing", "insert"} => account[o] = "gone" \/ o \in seen[w],
             pc'[w] \in {"commit", "answer"} => o \in seen[w]
      PROVE  SeenBy(w)'
  <2>1. seen'[w] = (seen[w] \cup OpenTo(w)') \cap {booked[w], o}
    BY <1>7 DEF Observe
  <2>2. booked[w] \in Types /\ o \in Owners
    BY <1>3, <1>7 DEF SeenBy
  <2>3. booked[w] \in seen'[w] /\ (o \in OpenTo(w)' => o \in seen'[w])
    BY <1>3, <1>7, <2>1 DEF SeenBy
  <2>4. o \in seen[w] => o \in seen'[w]
    BY <2>1
  <2> QED
    BY <1>1, <1>7, <2>2, <2>3, <2>4 DEF SeenBy, GoneIsGone
<1>8. SeenBy(w)'
  <2>1. CASE ReadOwner(w)
    <3>1. pc[w] = "owner" /\ pc'[w] \in {"existing", "idle"}
      BY <2>1 DEF ReadOwner, Goto, Return, TypeOK
    <3>2. ASSUME pc'[w] = "existing" PROVE SeenBy(w)'
      <4>1. account[o] = "gone" \/ Taking(o)
        BY <2>1, <3>2 DEF ReadOwner, Return, TypeOK
      <4>2. account[o] = "gone" \/ o \in seen[w]
        BY <1>3, <3>1, <4>1 DEF SeenBy, OpenTo
      <4> QED
        BY <1>7, <2>1, <3>1, <3>2, <4>2 DEF ReadOwner, Goto, Return, TypeOK
    <3> QED
      BY <1>4, <3>1, <3>2
  <2>2. CASE CheckExisting(w)
    <3>1. pc[w] = "existing" /\ pc'[w] \in {"insert", "idle"}
      BY <2>2 DEF CheckExisting, Goto, Return, TypeOK
    <3>2. ASSUME pc'[w] = "insert" PROVE booked'[w] = booked[w] /\ want'[w] = want[w]
      BY <2>2, <3>2 DEF CheckExisting, Goto, Return, TypeOK
    <3> QED
      BY <1>3, <1>4, <1>7, <3>1, <3>2 DEF SeenBy
  <2>3. CASE Insert(w)
    <3>1. /\ pc[w] = "insert" /\ pc'[w] = "commit" /\ booked' = booked /\ want' = want
          /\ account[o] # "gone"
      BY <2>3 DEF Insert, TypeOK
    <3> QED
      BY <1>3, <1>7, <3>1 DEF SeenBy
  <2>4. CASE Commit(w)
    <3>1. pc[w] = "commit" /\ pc'[w] = "answer" /\ booked' = booked /\ want' = want
      BY <2>4 DEF Commit, Goto, TypeOK
    <3> QED
      BY <1>3, <1>7, <3>1 DEF SeenBy
  <2>5. CASE ReadType(w)
    <3>1. pc'[w] \in {"owner", "idle"}
      BY <2>5 DEF ReadType, Return, TypeOK
    <3> QED
      BY <1>4, <1>6, <2>5, <3>1
  <2>6. CASE ~(ReadOwner(w) \/ CheckExisting(w) \/ Insert(w) \/ Commit(w) \/ ReadType(w))
    <3>1. pc'[w] \in {"idle", "cancel", "picked", "gate", "type"}
      BY <2>6
      DEF Customer, BeginCancel, Begin, Gate, InsertConflicts, InsertFails, Answer, Abort,
          CancelFind, CancelWrite, Return, Goto, TypeOK
    <3> QED
      BY <1>4, <1>5, <3>1
  <2> QED
    BY <2>1, <2>2, <2>3, <2>4, <2>5, <2>6
<1>9. \A v \in Workers \ {w} : SeenBy(v)'
  BY <1>1, <1>2, SeenGrows
<1> QED
  BY <1>8, <1>9

LEMMA OutsideSees ==
    ASSUME TypeOK, Line \/ Shopkeeper, UNCHANGED threads, Observe,
           \A v \in Workers : SeenBy(v)
    PROVE  \A v \in Workers : SeenBy(v)'
<1>1. GoneIsGone
  <2>1. ASSUME NEW i \in Ids, Call(i) \/ Close(i) \/ PutBack(i) PROVE GoneIsGone
    BY <2>1 DEF Call, Close, PutBack, MoveTicket, shop, GoneIsGone
  <2>2. ASSUME Shopkeeper PROVE GoneIsGone
    BY <2>2
    DEF Shopkeeper, ToggleType, DeleteType, AddType, RenameType, SetAccount, SetOpen, TypeOK,
        GoneIsGone
  <2> QED
    BY <2>1, <2>2 DEF Line
<1>2. pc' = pc /\ want' = want /\ booked' = booked
  BY DEF threads
<1> QED
  BY <1>1, <1>2, SeenGrows
-----------------------------------------------------------------------------
LEMMA IntakeNext == IInv /\ [Next]_vars => IInv'
<1> SUFFICES ASSUME IInv, [Next]_vars PROVE IInv'
  OBVIOUS
<1>1. TypeOK /\ RowsInv /\ \A w \in Workers : SeenBy(w)
  BY DEF IInv, RowsInv
<1>2. ASSUME NEW w \in Workers, Customer(w), Observe PROVE IInv'
  <2>1. TypeOK'
    BY <1>1, <1>2, CustomerTyped DEF RowsInv
  <2>2. RowsInv'
    BY <1>1, <1>2, QuietThreads, InsertRows, TicketRows DEF Customer
  <2>3. \A v \in Workers : SeenBy(v)'
    BY <1>1, <1>2, CustomerSees
  <2> QED
    BY <2>1, <2>2, <2>3 DEF IInv, RowsInv
<1>3. ASSUME Line \/ Shopkeeper, Observe PROVE IInv'
  <2>1. TypeOK'
    BY <1>1, <1>3, OthersTyped
  <2>2. RowsInv' /\ UNCHANGED threads
    BY <1>1, <1>3, OutsideRows
  <2>3. \A v \in Workers : SeenBy(v)'
    BY <1>1, <1>3, <2>2, OutsideSees
  <2> QED
    BY <2>1, <2>2, <2>3 DEF IInv, RowsInv
<1>4. CASE UNCHANGED vars
  <2>1. /\ UNCHANGED <<shop, rows, threads, history>> /\ edits' = edits /\ seen' = seen
    BY <1>4 DEF vars
  <2>2. TypeOK'
    BY <1>1, <2>1 DEF TypeOK, shop, rows, threads, history
  <2>3. RowsInv'
    BY <1>1, <2>1
    DEF RowsInv, UnbornRows, ThreadsOfRows, RowOf, OneOpenTicket, PendingIsNewest,
        ConfirmedIsStored, KnownRow, rows, threads, history
  <2>4. \A w \in Workers : SeenBy(w)'
    BY <1>1, <2>1 DEF SeenBy, OpenTo, Taking, shop, threads
  <2> QED
    BY <2>2, <2>3, <2>4 DEF IInv, RowsInv
<1> QED
  BY <1>2, <1>3, <1>4 DEF Next

\* The inductive invariant holds in every reachable state.
THEOREM IntakeInvariant == Spec => []IInv
<1> QED
  BY IntakeInit, IntakeNext, PTL DEF Spec

\* Rows, threads, flags and histories stay well typed.
THEOREM IntakeTypes == Spec => []TypeOK
  BY IntakeInvariant, PTL DEF IInv

\* process_reservation: flags and rows are read in statements of their own, and
\* still nobody gets a ticket of a type and an owner that were closed to him.
THEOREM IntakeStops == Spec => []StopsAreHonoured
<1>1. IInv => StopsAreHonoured
  BY DEF IInv, SeenBy, StopsAreHonoured
<1> QED
  BY <1>1, IntakeInvariant, PTL

\* process_reservation: 受付完了 is said of rows that were committed, or whose
\* rollback was swallowed.
THEOREM IntakeConfirmed == Spec => []ConfirmedIsStored
  BY IntakeInvariant, PTL DEF IInv

\* The cancel command: it finds the ticket its customer knew of.
THEOREM IntakeCancels == Spec => []KnownTicketIsCancelled
<1>1. IInv => KnownTicketIsCancelled
  BY DEF IInv, KnownRow, KnownTicketIsCancelled
<1> QED
  BY <1>1, IntakeInvariant, PTL

\* One step closes tickets ahead of a waiting one, and opens none.
LEMMA LineShortens ==
    ASSUME IInv, [Next]_vars, NEW i \in Ids,
           status[i] = "waiting", status'[i] = "waiting",
           \A j \in Ids : status[j] = "called" => status'[j] # "waiting"
    PROVE  Ahead(i)' <= Ahead(i)
<1> DEFINE A == {j \in Ids : /\ j < i /\ status[j] = "waiting"
                             /\ TypeOwner[rowType[j]] = TypeOwner[rowType[i]]}
<1> DEFINE B == {j \in Ids : /\ j < i /\ status'[j] = "waiting"
                             /\ TypeOwner[rowType'[j]] = TypeOwner[rowType'[i]]}
<1> DEFINE RowKept == \A j \in Ids : status'[j] = "waiting" =>
                          /\ status[j] \in {"waiting", "called", "pending"}
                          /\ rowType'[j] = rowType[j]
<1>1. RowKept
  <2>1. TypeOK /\ \A w \in Workers : RowOf(w)
    BY DEF IInv, ThreadsOfRows
  <2>2. ASSUME NEW w \in Workers, Insert(w) PROVE RowKept
    BY <2>1, <2>2 DEF Insert, TypeOK, Ids
  <2>3. ASSUME NEW w \in Workers, Commit(w) PROVE RowKept
    <3>1. at[w] \in Ids /\ status[at[w]] = "pending"
      BY <2>1, <2>3 DEF Commit, RowOf
    <3>2. CASE RollBack({at[w]}, "swallowed")
      BY <2>1, <3>1, <3>2 DEF RollBack, TypeOK
    <3>3. CASE status' = [status EXCEPT ![at[w]] = "waiting"] /\ rowType' = rowType
      BY <2>1, <3>1, <3>3 DEF TypeOK
    <3> QED
      BY <2>3, <3>2, <3>3 DEF Commit
  <2>4. ASSUME NEW w \in Workers, Abort(w) PROVE RowKept
    BY <2>1, <2>4 DEF Abort, RollBack, TypeOK, Ids
  <2>5. ASSUME NEW w \in Workers, CancelWrite(w) PROVE RowKept
    BY <2>1, <2>5 DEF CancelWrite, RowOf, TypeOK, Ids
  <2>6. ASSUME NEW k \in Ids, Call(k) \/ Close(k) \/ PutBack(k) PROVE RowKept
    BY <2>1, <2>6 DEF Call, Close, PutBack, MoveTicket, TypeOK, Ids
  <2>7. ASSUME rows' = rows PROVE RowKept
    BY <2>1, <2>7 DEF rows
  <2>8. ASSUME NEW w \in Workers, Customer(w),
               ~(Insert(w) \/ Commit(w) \/ Abort(w) \/ CancelWrite(w))
        PROVE  rows' = rows
    BY <2>8 DEF Customer, BeginCancel, Begin, Gate, ReadType, ReadOwner, CheckExisting,
                InsertConflicts, InsertFails, Answer, CancelFind
  <2>9. ASSUME Shopkeeper PROVE rows' = rows
    BY <2>9 DEF Shopkeeper, ToggleType, DeleteType, AddType, RenameType, SetAccount, SetOpen, Edit
  <2> QED
    BY <2>2, <2>3, <2>4, <2>5, <2>6, <2>7, <2>8, <2>9 DEF Next, Line, vars
<1>2. B \subseteq A
  BY <1>1 DEF IInv, PendingIsNewest, Standing, Ids
<1>3. IsFiniteSet(A)
  BY FS_Interval, FS_Subset, IntakeAssumption DEF Ids
<1> QED
  BY <1>2, <1>3, FS_Subset DEF Ahead

\* count_waiting_people_ahead_by_owner: the number never grows.
THEOREM IntakeNobodyOvertakes == Spec => AheadNeverGrows
<1>1. IInv /\ [Next]_vars =>
         [\A i \in Ids :
             /\ status[i] = "waiting" /\ status'[i] = "waiting"
             /\ \A j \in Ids : status[j] = "called" => status'[j] # "waiting"
             => Ahead(i)' <= Ahead(i)]_vars
  BY LineShortens
<1> QED
  BY <1>1, IntakeInvariant, PTL DEF Spec, AheadNeverGrows
=============================================================================
