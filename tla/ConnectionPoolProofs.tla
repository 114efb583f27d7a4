------------------------ MODULE ConnectionPoolProofs ------------------------
(* Proofs about ConnectionPool, for any pool, requests and workers. *)
EXTENDS ConnectionPool, FiniteSetTheorems, TLAPS

\* What is held is lent, and what is lent is not idle.
Lent == Held \subseteq used /\ idle \cap used = {}

IInv == TypeOK /\ Lent /\ OneHolder /\ LiveConnectionsReturn /\ PoolBounded

\* The sets of a pool are finite, and their sizes numbers.
LEMMA Sizes ==
    ASSUME TypeOK
    PROVE  /\ IsFiniteSet(idle) /\ IsFiniteSet(used)
           /\ Cardinality(idle) \in Nat /\ Cardinality(used) \in Nat
<1>1. IsFiniteSet(idle) /\ IsFiniteSet(used)
  BY FS_Subset, PoolAssumption DEF TypeOK
<1> QED
  BY <1>1, FS_CardinalityType

\* getconn lends c, which nobody holds; all else in the pool stays.
LEMMA GetconnLends ==
    ASSUME TypeOK, Lent, PoolBounded, NEW c \in Conns, Getconn(c)
    PROVE  /\ idle' \in SUBSET Conns /\ used' \in SUBSET Conns /\ closed' \in SUBSET Conns
           /\ c \notin used /\ c \notin idle'
           /\ used' = used \cup {c} /\ idle' = idle \ {c} /\ closed' = closed \ {c}
           /\ PoolBounded'
<1>1. c \notin used
  BY DEF Getconn, Fresh, Lent
<1>2. used' = used \cup {c} /\ idle' = idle \ {c} /\ closed' = closed \ {c}
  BY DEF Getconn
<1>3. /\ IsFiniteSet(idle) /\ IsFiniteSet(used)
      /\ Cardinality(idle) \in Nat /\ Cardinality(used) \in Nat
  BY Sizes
<1>4. Cardinality(used') = Cardinality(used) + 1
  BY <1>1, <1>2, <1>3, FS_AddElement
<1>5. CASE c \in idle
  <2>1. Cardinality(idle') = Cardinality(idle) - 1
    BY <1>2, <1>3, <1>5, FS_RemoveElement
  <2> QED
    BY <1>1, <1>2, <1>3, <1>4, <2>1, PoolAssumption DEF PoolBounded, TypeOK
<1>6. CASE c \notin idle
  <2>1. idle = {} /\ Cardinality(used) < MaxConn /\ idle' = {}
    BY <1>2, <1>6 DEF Getconn, Fresh
  <2>2. Cardinality({}) = 0
    BY FS_EmptySet
  <2> QED
    BY <1>1, <1>2, <1>3, <1>4, <2>1, <2>2, PoolAssumption DEF PoolBounded, TypeOK
<1> QED
  BY <1>5, <1>6

\* Releasing a lent connection: it goes back to the pool, or is closed.
LEMMA ReleaseReturns ==
    ASSUME TypeOK, Lent, PoolBounded, NEW c \in used, Release(c)
    PROVE  /\ idle' \in SUBSET Conns /\ used' \in SUBSET Conns /\ closed' \in SUBSET Conns
           /\ used \ {c} \subseteq used' /\ used' \subseteq used
           /\ idle' \subseteq idle \cup {c}
           /\ idle' \cap used' = {}
           /\ closed \subseteq closed' /\ closed' \subseteq closed \cup {c}
           /\ c \in used' => c \in closed'
           /\ PoolBounded'
<1>1. c \in Conns /\ c \notin idle
  BY DEF TypeOK, Lent
<1>2. /\ IsFiniteSet(idle) /\ IsFiniteSet(used)
      /\ Cardinality(idle) \in Nat /\ Cardinality(used) \in Nat
  BY Sizes
<1>3. CASE Putconn(c)
  <2>1. Cardinality(used') = Cardinality(used) - 1
    BY <1>2, <1>3, FS_RemoveElement DEF Putconn
  <2>2. CASE Cardinality(idle) < MinConn
    <3>1. idle' = idle \cup {c} /\ used' = used \ {c} /\ closed' = closed
      BY <1>3, <2>2 DEF Putconn
    <3>2. Cardinality(idle') = Cardinality(idle) + 1
      BY <1>1, <1>2, <3>1, FS_AddElement
    <3> QED
      BY <1>1, <1>2, <2>1, <3>1, <3>2, PoolAssumption DEF PoolBounded, TypeOK, Lent
  <2>3. CASE ~(Cardinality(idle) < MinConn)
    <3>1. idle' = idle /\ used' = used \ {c} /\ closed' = closed \cup {c}
      BY <1>3, <2>3 DEF Putconn
    <3> QED
      BY <1>1, <1>2, <2>1, <3>1, PoolAssumption DEF PoolBounded, TypeOK, Lent
  <2> QED
    BY <2>2, <2>3
<1>4. CASE c \in closed /\ UNCHANGED <<idle, used, closed>>
  BY <1>1, <1>4 DEF PoolBounded, TypeOK, Lent
<1>5. CASE closed' = closed \cup {c} /\ UNCHANGED <<idle, used>>
  BY <1>1, <1>5 DEF PoolBounded, TypeOK, Lent
<1> QED
  BY <1>3, <1>4, <1>5 DEF Release

LEMMA PoolInit == Init => IInv
<1> SUFFICES ASSUME Init PROVE IInv
  OBVIOUS
<1>1. TypeOK
  BY DEF Init, TypeOK
<1>2. Held = {}
  BY PoolAssumption DEF Init, Held
<1>3. OneHolder
  BY <1>2, PoolAssumption DEF Init, OneHolder
<1>4. PoolBounded
  <2>1. Cardinality(used) = 0
    BY FS_EmptySet DEF Init
  <2>2. Cardinality(idle) = MinConn
    BY DEF Init
  <2> QED
    BY <2>1, <2>2, PoolAssumption DEF PoolBounded
<1>5. Lent /\ LiveConnectionsReturn
  BY <1>2 DEF Init, Lent, LiveConnectionsReturn
<1> QED
  BY <1>1, <1>3, <1>4, <1>5 DEF IInv

LEMMA PoolNext == IInv /\ [Next]_vars => IInv'
<1> SUFFICES ASSUME IInv, [Next]_vars PROVE IInv'
  OBVIOUS
<1>0. None \notin Conns
  BY PoolAssumption
<1> USE <1>0 DEF IInv
<1>1. ASSUME NEW c \in Conns, Lose(c) PROVE IInv'
  BY <1>1 DEF Lose, TypeOK, Lent, OneHolder, LiveConnectionsReturn, PoolBounded, Held
<1>2. ASSUME NEW r \in Requests, RequestConnect(r) PROVE IInv'
  <2>1. PICK c \in Conns : Getconn(c) /\ g' = [g EXCEPT ![r] = c]
    BY <1>2 DEF RequestConnect
  <2>2. /\ idle' \in SUBSET Conns /\ used' \in SUBSET Conns /\ closed' \in SUBSET Conns
        /\ c \notin used /\ c \notin idle'
        /\ used' = used \cup {c} /\ idle' = idle \ {c} /\ closed' = closed \ {c}
        /\ PoolBounded'
    BY <2>1, GetconnLends
  <2>3. UNCHANGED <<csv, hand>> /\ (g[r] = None \/ g[r] \in closed)
    BY <1>2 DEF RequestConnect
  <2>4. TypeOK' /\ Lent'
    BY <2>1, <2>2, <2>3 DEF TypeOK, Lent, Held
  <2>5. OneHolder'
    BY <2>1, <2>2, <2>3 DEF TypeOK, Lent, Held, OneHolder
  <2>6. LiveConnectionsReturn'
    BY <2>1, <2>2, <2>3 DEF TypeOK, Lent, Held, LiveConnectionsReturn
  <2> QED
    BY <2>2, <2>4, <2>5, <2>6
<1>3. ASSUME NEW r \in Requests, ExportBegin(r) PROVE IInv'
  <2>1. PICK c \in Conns : Getconn(c) /\ csv' = [csv EXCEPT ![r] = c]
    BY <1>3 DEF ExportBegin
  <2>2. /\ idle' \in SUBSET Conns /\ used' \in SUBSET Conns /\ closed' \in SUBSET Conns
        /\ c \notin used /\ c \notin idle'
        /\ used' = used \cup {c} /\ idle' = idle \ {c} /\ closed' = closed \ {c}
        /\ PoolBounded'
    BY <2>1, GetconnLends
  <2>3. UNCHANGED <<g, hand>> /\ csv[r] = None
    BY <1>3 DEF ExportBegin
  <2>4. TypeOK' /\ Lent'
    BY <2>1, <2>2, <2>3 DEF TypeOK, Lent, Held
  <2>5. OneHolder'
    BY <2>1, <2>2, <2>3 DEF TypeOK, Lent, Held, OneHolder
  <2>6. LiveConnectionsReturn'
    BY <2>1, <2>2, <2>3 DEF TypeOK, Lent, Held, LiveConnectionsReturn
  <2> QED
    BY <2>2, <2>4, <2>5, <2>6
<1>4. ASSUME NEW w \in Workers, WorkerEnter(w) PROVE IInv'
  <2>1. PICK c \in Conns : Getconn(c) /\ hand' = [hand EXCEPT ![w] = @ \cup {c}]
    BY <1>4 DEF WorkerEnter
  <2>2. /\ idle' \in SUBSET Conns /\ used' \in SUBSET Conns /\ closed' \in SUBSET Conns
        /\ c \notin used /\ c \notin idle'
        /\ used' = used \cup {c} /\ idle' = idle \ {c} /\ closed' = closed \ {c}
        /\ PoolBounded'
    BY <2>1, GetconnLends
  <2>3. UNCHANGED <<g, csv>>
    BY <1>4 DEF WorkerEnter
  <2>4. TypeOK' /\ Lent'
    BY <2>1, <2>2, <2>3 DEF TypeOK, Lent, Held
  <2>5. OneHolder'
    BY <2>1, <2>2, <2>3 DEF TypeOK, Lent, Held, OneHolder
  <2>6. LiveConnectionsReturn'
    BY <2>1, <2>2, <2>3 DEF TypeOK, Lent, Held, LiveConnectionsReturn
  <2> QED
    BY <2>2, <2>4, <2>5, <2>6
<1>5. ASSUME NEW r \in Requests, Teardown(r) PROVE IInv'
  <2>1. /\ g[r] \in Conns /\ g[r] \in used /\ Release(g[r])
        /\ g' = [g EXCEPT ![r] = None] /\ UNCHANGED <<csv, hand>>
    BY <1>5 DEF Teardown, TypeOK, Lent, Held
  <2> DEFINE c == g[r]
  <2>2. /\ idle' \in SUBSET Conns /\ used' \in SUBSET Conns /\ closed' \in SUBSET Conns
        /\ used \ {c} \subseteq used' /\ used' \subseteq used
        /\ idle' \subseteq idle \cup {c}
        /\ idle' \cap used' = {}
        /\ closed \subseteq closed' /\ closed' \subseteq closed \cup {c}
        /\ c \in used' => c \in closed'
        /\ PoolBounded'
    BY <2>1, ReleaseReturns
  <2>3. c \notin Held' /\ Held \ {c} = Held'
    BY <2>1 DEF TypeOK, Held, OneHolder
  <2>4. TypeOK' /\ Lent'
    BY <2>1, <2>2, <2>3 DEF TypeOK, Lent
  <2>5. OneHolder'
    <3>1. Held' \cap idle' = {}
      BY <2>2, <2>3 DEF OneHolder
    <3> QED
      BY <2>1, <3>1 DEF TypeOK, OneHolder
  <2>6. LiveConnectionsReturn'
    BY <2>2, <2>3 DEF LiveConnectionsReturn
  <2> QED
    BY <2>2, <2>4, <2>5, <2>6
<1>6. ASSUME NEW w \in Workers, WorkerExit(w) PROVE IInv'
  <2>1. PICK c \in hand[w] : Release(c) /\ hand' = [hand EXCEPT ![w] = @ \ {c}]
    BY <1>6 DEF WorkerExit
  <2>2. c \in Conns /\ c \in used /\ UNCHANGED <<g, csv>>
    BY <1>6 DEF WorkerExit, TypeOK, Lent, Held
  <2>3. /\ idle' \in SUBSET Conns /\ used' \in SUBSET Conns /\ closed' \in SUBSET Conns
        /\ used \ {c} \subseteq used' /\ used' \subseteq used
        /\ idle' \subseteq idle \cup {c}
        /\ idle' \cap used' = {}
        /\ closed \subseteq closed' /\ closed' \subseteq closed \cup {c}
        /\ c \in used' => c \in closed'
        /\ PoolBounded'
    BY <2>1, <2>2, ReleaseReturns
  <2>4. c \notin Held' /\ Held \ {c} = Held'
    BY <2>1, <2>2 DEF TypeOK, Held, OneHolder
  <2>5. TypeOK' /\ Lent'
    BY <2>1, <2>2, <2>3, <2>4 DEF TypeOK, Lent
  <2>6. OneHolder'
    <3>1. Held' \cap idle' = {}
      BY <2>3, <2>4 DEF OneHolder
    <3> QED
      BY <2>1, <2>2, <3>1 DEF TypeOK, OneHolder
  <2>7. LiveConnectionsReturn'
    BY <2>3, <2>4 DEF LiveConnectionsReturn
  <2> QED
    BY <2>3, <2>5, <2>6, <2>7
<1>7. ASSUME NEW r \in Requests, ExportEnd(r) PROVE IInv'
  BY <1>7 DEF ExportEnd, TypeOK, Lent, OneHolder, LiveConnectionsReturn, PoolBounded, Held
<1>8. ASSUME Refused \/ UNCHANGED vars PROVE IInv'
  BY <1>8 DEF Refused, vars, TypeOK, Lent, OneHolder, LiveConnectionsReturn, PoolBounded, Held
<1> QED
  BY <1>1, <1>2, <1>3, <1>4, <1>5, <1>6, <1>7, <1>8 DEF Next

\* The inductive invariant holds in every reachable state.
THEOREM PoolInvariant == Spec => []IInv
<1> QED
  BY PoolInit, PoolNext, PTL DEF Spec

\* The pool's lists and the handles of its users stay well typed.
THEOREM PoolTypes == Spec => []TypeOK
  BY PoolInvariant, PTL DEF IInv

\* get_connection, admin_history_export: no connection has two users.
THEOREM PoolOneHolder == Spec => []OneHolder
  BY PoolInvariant, PTL DEF IInv

\* ManagedConnection.__exit__, close_request_connection: no open connection is
\* lost, so a slot can only be lost with a closed one.
THEOREM PoolConnectionsReturn == Spec => []LiveConnectionsReturn
  BY PoolInvariant, PTL DEF IInv

\* get_connection_pool: at most maxconn connections.
THEOREM PoolIsBounded == Spec => []PoolBounded
  BY PoolInvariant, PTL DEF IInv
============================================================================
