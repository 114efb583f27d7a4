----------------------------- MODULE BatchProofs -----------------------------
(***************************************************************************)
(* Proofs about ReservationQueue and CallSchedule, for any users, rows,    *)
(* callers, timeout and executions, and about the two side by side.        *)
(***************************************************************************)
EXTENDS MCBatch, TLAPS

\* Nothing refers to a row before it is inserted.
UnbornRows ==
    \A i \in Ids : i >= nextId =>
        /\ status[i] = "none"
        /\ i \notin reopened \cup orphaned
        /\ \A c \in Callers : i \notin Held(c)

\* A handler outside its push phase owes nothing, and no row is both still to
\* be pushed and failed.
HeldWhilePushing ==
    \A c \in Callers :
        /\ pc[c] # "push" => Held(c) = {}
        /\ todo[c] \cap failed[c] = {}

\* A row that a handler still has to push or put back is not waiting, and its
\* customer has not been notified (the status screen aside).
HeldRows ==
    \A c \in Callers : \A i \in Held(c) \ reopened :
        status[i] # "waiting" /\ heard[i] = NoStamp

IInv ==
    /\ TypeOK
    /\ OneActivePerUser
    /\ StampsMatchStatus
    /\ UnbornRows
    /\ HeldWhilePushing
    /\ HeldRows
    /\ ExclusiveCallers
    /\ NoSilentCall

LEMMA QueueInit == Init => IInv
  BY ConstantsAssumption
  DEF Init, IInv, TypeOK, OneActivePerUser, StampsMatchStatus, UnbornRows,
      HeldWhilePushing, HeldRows, ExclusiveCallers, NoSilentCall, Held,
      IsActive, Active, Terminal, Stamps, NoStamp, Ids

\* Closing rows keeps the invariant, whoever closes them.
LEMMA CloseRows ==
  ASSUME IInv, NEW S \in SUBSET Ids, NEW how \in Terminal, Close(S, how),
         \A i \in S : status[i] # "none",
         UNCHANGED <<todo, failed>>,
         pc' \in [Callers -> {"idle", "swept", "push"}],
         \A c \in Callers : pc[c] = "push" => pc'[c] = "push",
         cancelling' \in [Users -> {0} \cup Ids]
  PROVE  IInv'
<1>1. TypeOK'
  BY ConstantsAssumption DEF IInv, TypeOK, Close, Active, Terminal, Stamps,
      NoStamp, Ids
<1>2. OneActivePerUser'
  BY ConstantsAssumption DEF IInv, TypeOK, OneActivePerUser, Close, IsActive,
      Active, Terminal
<1>3. StampsMatchStatus'
  BY ConstantsAssumption DEF IInv, TypeOK, StampsMatchStatus, Close, Terminal,
      Stamps, NoStamp
<1>4. UnbornRows'
  BY ConstantsAssumption DEF IInv, TypeOK, UnbornRows, Close, Held, Ids
<1>5. HeldWhilePushing'
  BY ConstantsAssumption DEF IInv, TypeOK, HeldWhilePushing, Close, Held
<1>6. HeldRows'
  BY ConstantsAssumption DEF IInv, TypeOK, HeldRows, Close, Held, NoStamp,
      Terminal
<1>7. ExclusiveCallers'
  BY ConstantsAssumption DEF IInv, TypeOK, ExclusiveCallers, Close, Held
<1>8. NoSilentCall'
  BY ConstantsAssumption DEF IInv, TypeOK, NoSilentCall, Close, Held, NoStamp,
      Terminal
<1> QED
  BY <1>1, <1>2, <1>3, <1>4, <1>5, <1>6, <1>7, <1>8 DEF IInv

\* So does claiming waiting rows, by a handler that holds nothing.
LEMMA ClaimRows ==
  ASSUME IInv, NEW c \in Callers, pc[c] # "push",
         NEW S \in SUBSET Ids, \A i \in S : status[i] = "waiting",
         NEW how \in {"auto", "manual"}, Claim(c, S, how)
  PROVE  IInv'
<1>1. TypeOK'
  BY ConstantsAssumption DEF IInv, TypeOK, Claim, Active, Terminal, Stamps,
      NoStamp, Ids
<1>2. OneActivePerUser'
  BY ConstantsAssumption DEF IInv, TypeOK, OneActivePerUser, Claim, IsActive,
      Active, Terminal
<1>3. StampsMatchStatus'
  BY ConstantsAssumption DEF IInv, TypeOK, StampsMatchStatus, Claim, Terminal,
      Stamps, NoStamp
<1>4. UnbornRows'
  BY ConstantsAssumption DEF IInv, TypeOK, UnbornRows, Claim, Held, Ids
<1>5. HeldWhilePushing'
  BY ConstantsAssumption DEF IInv, TypeOK, HeldWhilePushing, UnbornRows,
      Claim, Held
<1>6. HeldRows'
  BY ConstantsAssumption DEF IInv, TypeOK, HeldRows, HeldWhilePushing,
      ExclusiveCallers, Claim, Held, NoStamp
<1>7. ExclusiveCallers'
  BY ConstantsAssumption DEF IInv, TypeOK, ExclusiveCallers, HeldRows,
      HeldWhilePushing, Claim, Held
<1>8. NoSilentCall'
  BY ConstantsAssumption DEF IInv, TypeOK, NoSilentCall, HeldRows,
      HeldWhilePushing, Claim, Held, NoStamp
<1> QED
  BY <1>1, <1>2, <1>3, <1>4, <1>5, <1>6, <1>7, <1>8 DEF IInv

\* A handler that gives up marks its called rows as orphaned.
LEMMA AbandonRows ==
  ASSUME IInv, NEW c \in Callers, Abandon(c)
  PROVE  IInv'
<1>1. TypeOK'
  BY ConstantsAssumption DEF IInv, TypeOK, Abandon, Active, Terminal, Stamps,
      NoStamp, Ids, Held, rowVars
<1>2. OneActivePerUser'
  BY ConstantsAssumption DEF IInv, TypeOK, OneActivePerUser, Abandon,
      IsActive, Active, Terminal, rowVars
<1>3. StampsMatchStatus'
  BY ConstantsAssumption DEF IInv, TypeOK, StampsMatchStatus, Abandon,
      Terminal, Stamps, NoStamp, rowVars
<1>4. UnbornRows'
  BY ConstantsAssumption DEF IInv, TypeOK, UnbornRows, Abandon, Held, Ids,
      rowVars
<1>5. HeldWhilePushing'
  BY ConstantsAssumption DEF IInv, TypeOK, HeldWhilePushing, Abandon, Held,
      rowVars
<1>6. HeldRows'
  BY ConstantsAssumption DEF IInv, TypeOK, HeldRows, Abandon, Held, NoStamp,
      rowVars
<1>7. ExclusiveCallers'
  BY ConstantsAssumption DEF IInv, TypeOK, ExclusiveCallers, Abandon, Held,
      rowVars
<1>8. NoSilentCall'
  BY ConstantsAssumption DEF IInv, TypeOK, NoSilentCall, Abandon, Held,
      NoStamp, rowVars
<1> QED
  BY <1>1, <1>2, <1>3, <1>4, <1>5, <1>6, <1>7, <1>8 DEF IInv

\* Every step of the queue keeps the invariant.
LEMMA QueueNext == IInv /\ [Next]_vars => IInv'
<1> SUFFICES ASSUME IInv, [Next]_vars PROVE IInv'
  OBVIOUS
<1>1. ASSUME NEW u \in Users, NEW o \in Owners, Reserve(u, o) PROVE IInv'
  <2>1. TypeOK'
    BY <1>1, ConstantsAssumption DEF IInv, TypeOK, Reserve, IndexAdmits,
        Active, Terminal, Stamps, NoStamp, Ids, callVars, history
  <2>2. OneActivePerUser'
    BY <1>1, ConstantsAssumption DEF IInv, TypeOK, OneActivePerUser, Reserve,
        IndexAdmits, IsActive, Active, Terminal, callVars, history
  <2>3. StampsMatchStatus'
    BY <1>1, ConstantsAssumption DEF IInv, TypeOK, StampsMatchStatus,
        UnbornRows, Reserve, IndexAdmits, Terminal, Stamps, NoStamp, callVars,
        history
  <2>4. UnbornRows'
    BY <1>1, ConstantsAssumption DEF IInv, TypeOK, UnbornRows, Reserve,
        IndexAdmits, Held, Ids, callVars, history
  <2>5. HeldWhilePushing' /\ ExclusiveCallers'
    BY <1>1, ConstantsAssumption DEF IInv, TypeOK, HeldWhilePushing,
        ExclusiveCallers, Reserve, IndexAdmits, Held, callVars, history
  <2>6. HeldRows'
    BY <1>1, ConstantsAssumption DEF IInv, TypeOK, HeldRows, UnbornRows,
        Reserve, IndexAdmits, Held, NoStamp, callVars, history
  <2>7. NoSilentCall'
    BY <1>1, ConstantsAssumption DEF IInv, TypeOK, NoSilentCall, UnbornRows,
        Reserve, IndexAdmits, Held, NoStamp, callVars, history
  <2> QED
    BY <2>1, <2>2, <2>3, <2>4, <2>5, <2>6, <2>7 DEF IInv
<1>2. ASSUME NEW u \in Users, UserCancelFind(u) PROVE IInv'
  <2>1. TypeOK'
    BY <1>2, ConstantsAssumption DEF IInv, TypeOK, UserCancelFind, Active,
        Terminal, Stamps, NoStamp, Ids, rowVars, callVars, history
  <2>2. OneActivePerUser' /\ StampsMatchStatus' /\ UnbornRows'
    BY <1>2, ConstantsAssumption DEF IInv, TypeOK, OneActivePerUser,
        StampsMatchStatus, UnbornRows, UserCancelFind, IsActive, Active,
        Terminal, Stamps, NoStamp, Held, Ids, rowVars, callVars, history
  <2>3. HeldWhilePushing' /\ HeldRows' /\ ExclusiveCallers' /\ NoSilentCall'
    BY <1>2, ConstantsAssumption DEF IInv, TypeOK, HeldWhilePushing, HeldRows,
        ExclusiveCallers, NoSilentCall, UserCancelFind, Held, NoStamp,
        rowVars, callVars, history
  <2> QED
    BY <2>1, <2>2, <2>3 DEF IInv
<1>3. ASSUME NEW u \in Users, UserCancelWrite(u) PROVE IInv'
  <2> DEFINE S == {cancelling[u]} \cap {i \in Ids : status[i] # "none"}
  <2>1. /\ S \in SUBSET Ids /\ \A i \in S : status[i] # "none"
        /\ Close(S, "cancelled")
    BY <1>3 DEF UserCancelWrite
  <2>2. /\ UNCHANGED <<todo, failed>>
        /\ pc' \in [Callers -> {"idle", "swept", "push"}]
        /\ \A c \in Callers : pc[c] = "push" => pc'[c] = "push"
        /\ cancelling' \in [Users -> {0} \cup Ids]
    BY <1>3 DEF UserCancelWrite, callVars, IInv, TypeOK
  <2> QED
    BY <2>1, <2>2, CloseRows DEF Terminal
<1>4. ASSUME NEW u \in Users, UserCancelLost(u) PROVE IInv'
  <2>1. TypeOK'
    BY <1>4, ConstantsAssumption DEF IInv, TypeOK, UserCancelLost, Active,
        Terminal, Stamps, NoStamp, Ids, rowVars, callVars, history
  <2>2. OneActivePerUser' /\ StampsMatchStatus' /\ UnbornRows'
    BY <1>4, ConstantsAssumption DEF IInv, TypeOK, OneActivePerUser,
        StampsMatchStatus, UnbornRows, UserCancelLost, IsActive, Active,
        Terminal, Stamps, NoStamp, Held, Ids, rowVars, callVars, history
  <2>3. HeldWhilePushing' /\ HeldRows' /\ ExclusiveCallers' /\ NoSilentCall'
    BY <1>4, ConstantsAssumption DEF IInv, TypeOK, HeldWhilePushing, HeldRows,
        ExclusiveCallers, NoSilentCall, UserCancelLost, Held, NoStamp,
        rowVars, callVars, history
  <2> QED
    BY <2>1, <2>2, <2>3 DEF IInv
<1>5. ASSUME NEW a \in Admins, NEW i \in Ids, AdminCall(a, i) PROVE IInv'
  BY <1>5, ClaimRows DEF AdminCall, Callers
<1>6. ASSUME NEW i \in Ids, AdminFinish(i) PROVE IInv'
  <2>1. /\ {i} \in SUBSET Ids /\ status[i] # "none"
        /\ Close({i}, "done") /\ UNCHANGED <<pc, todo, failed, cancelling>>
    BY <1>6 DEF AdminFinish, callVars
  <2> QED
    BY <2>1, CloseRows DEF Terminal, IInv, TypeOK
<1>7. ASSUME NEW i \in Ids, AdminCancel(i) PROVE IInv'
  <2>1. /\ {i} \in SUBSET Ids /\ status[i] # "none"
        /\ Close({i}, "cancelled") /\ UNCHANGED <<pc, todo, failed, cancelling>>
    BY <1>7 DEF AdminCancel, callVars, IsActive, Active
  <2> QED
    BY <2>1, CloseRows DEF Terminal, IInv, TypeOK
<1>8. ASSUME NEW i \in Ids, NEW new \in EditTargets, AdminStatusUpdate(i, new)
      PROVE  IInv'
  <2>1. TypeOK'
    BY <1>8, ConstantsAssumption DEF IInv, TypeOK, AdminStatusUpdate,
        IndexAdmits, EditTargets, Active, Terminal, Stamps, NoStamp, Ids,
        callVars
  <2>2. OneActivePerUser'
    BY <1>8, ConstantsAssumption DEF IInv, TypeOK, OneActivePerUser,
        AdminStatusUpdate, IndexAdmits, EditTargets, IsActive, Active,
        Terminal, callVars
  <2>3. StampsMatchStatus'
    <3> DEFINE Ok(j) == /\ age[j] = NoStamp <=> origin[j] = "none"
                        /\ status[j] = "called" => age[j] # NoStamp
                        /\ status[j] \in {"none", "waiting"} => age[j] = NoStamp
                        /\ completed[j] <=> status[j] \in Terminal
                        /\ heard[j] # NoStamp => status[j] = "called"
                        /\ j \notin reopened => heard[j] <= age[j]
    <3>1. ASSUME NEW j \in Ids, j # i PROVE Ok(j)'
      BY <1>8, <3>1 DEF AdminStatusUpdate, IInv, TypeOK, StampsMatchStatus
    <3>2. /\ (age[i] = NoStamp <=> origin[i] = "none") /\ age[i] \in Stamps
          /\ (i \notin reopened => heard[i] <= age[i]) /\ heard[i] \in Stamps
          /\ status[i] \in {"none", "waiting"} => age[i] = NoStamp
          /\ heard[i] # NoStamp => age[i] # NoStamp
      BY ConstantsAssumption DEF IInv, TypeOK, StampsMatchStatus
    <3>3. ASSUME new = "called" PROVE Ok(i)'
      <4>1. /\ status'[i] = new /\ (completed'[i] <=> new \in Terminal)
            /\ age'[i] = IF age[i] = NoStamp THEN 0 ELSE age[i]
            /\ origin'[i] = IF origin[i] = "none" THEN "manual" ELSE origin[i]
            /\ heard'[i] = heard[i]
            /\ i \notin reopened' => i \notin reopened
        BY <1>8, <3>3 DEF AdminStatusUpdate, IInv, TypeOK, Terminal, Active,
           NoStamp
      <4> QED
        BY <4>1, <3>2, <3>3, ConstantsAssumption DEF Terminal, Stamps, NoStamp
    <3>4. ASSUME new = "waiting" PROVE Ok(i)'
      <4>1. /\ status'[i] = new /\ (completed'[i] <=> new \in Terminal)
            /\ age'[i] = NoStamp
            /\ origin'[i] = "none"
            /\ heard'[i] = NoStamp
            /\ i \notin reopened' => i \notin reopened
        BY <1>8, <3>4 DEF AdminStatusUpdate, IInv, TypeOK, Terminal, Active,
           NoStamp
      <4> QED
        BY <4>1, <3>2, <3>4, ConstantsAssumption DEF Terminal, Stamps, NoStamp
    <3>5. ASSUME new \in Terminal PROVE Ok(i)'
      <4>1. /\ status'[i] = new /\ (completed'[i] <=> new \in Terminal)
            /\ age'[i] = age[i]
            /\ origin'[i] = origin[i]
            /\ heard'[i] = NoStamp
            /\ i \notin reopened' => i \notin reopened
        BY <1>8, <3>5 DEF AdminStatusUpdate, IInv, TypeOK, Terminal, Active,
           NoStamp
      <4> QED
        BY <4>1, <3>2, <3>5, ConstantsAssumption DEF Terminal, Stamps, NoStamp
    <3>6. Ok(i)'
      BY <3>3, <3>4, <3>5 DEF EditTargets, Active, Terminal
    <3>7. \A j \in Ids : Ok(j)'
      BY <3>1, <3>6
    <3> QED
      BY <3>7 DEF StampsMatchStatus
  <2>4. UnbornRows'
    BY <1>8, ConstantsAssumption DEF IInv, TypeOK, UnbornRows,
        AdminStatusUpdate, IndexAdmits, EditTargets, Held, Ids, callVars,
        Active, Terminal
  <2>5. HeldWhilePushing'
    BY <1>8, ConstantsAssumption DEF IInv, TypeOK, HeldWhilePushing,
        AdminStatusUpdate, IndexAdmits, EditTargets, Held, callVars, Active,
        Terminal
  <2>6. HeldRows'
    BY <1>8, ConstantsAssumption DEF IInv, TypeOK, HeldRows,
        AdminStatusUpdate, IndexAdmits, EditTargets, Held, NoStamp, callVars,
        Active, Terminal
  <2>7. ExclusiveCallers'
    BY <1>8, ConstantsAssumption DEF IInv, TypeOK, ExclusiveCallers,
        AdminStatusUpdate, IndexAdmits, EditTargets, Held, callVars, Active,
        Terminal
  <2>8. NoSilentCall'
    BY <1>8, ConstantsAssumption DEF IInv, TypeOK, NoSilentCall,
        AdminStatusUpdate, IndexAdmits, EditTargets, Held, NoStamp, callVars,
        Active, Terminal
  <2> QED
    BY <2>1, <2>2, <2>3, <2>4, <2>5, <2>6, <2>7, <2>8 DEF IInv
<1>9. ASSUME DeleteAll PROVE IInv'
  <2>1. TypeOK'
    BY <1>9, ConstantsAssumption DEF IInv, TypeOK, DeleteAll, Active,
        Terminal, Stamps, NoStamp, Ids, callVars
  <2>2. OneActivePerUser' /\ StampsMatchStatus' /\ UnbornRows'
    BY <1>9, ConstantsAssumption DEF IInv, TypeOK, OneActivePerUser,
        StampsMatchStatus, UnbornRows, DeleteAll, IsActive, Active, Terminal,
        Stamps, NoStamp, Held, Ids, callVars
  <2>3. HeldWhilePushing' /\ HeldRows' /\ ExclusiveCallers' /\ NoSilentCall'
    BY <1>9, ConstantsAssumption DEF IInv, TypeOK, HeldWhilePushing, HeldRows,
        ExclusiveCallers, NoSilentCall, DeleteAll, Held, NoStamp, callVars
  <2> QED
    BY <2>1, <2>2, <2>3 DEF IInv
<1>10. ASSUME NEW r \in Runners, Expire(r) PROVE IInv'
  <2> DEFINE S == {i \in Ids : status[i] = "called" /\ age[i] >= Timeout}
  <2>1. /\ S \in SUBSET Ids /\ \A i \in S : status[i] # "none"
        /\ Close(S, "cancelled")
    BY <1>10 DEF Expire, IsActive, Active
  <2>2. /\ UNCHANGED <<todo, failed, cancelling>>
        /\ pc' \in [Callers -> {"idle", "swept", "push"}]
        /\ \A c \in Callers : pc[c] = "push" => pc'[c] = "push"
    BY <1>10 DEF Expire, Sweep, IInv, TypeOK, Callers
  <2> QED
    BY <2>1, <2>2, CloseRows DEF Terminal, IInv, TypeOK
<1>11. ASSUME NEW r \in Runners, MidnightCancel(r) PROVE IInv'
  <2> DEFINE S == {i \in Ids : IsActive(i)}
  <2>1. /\ S \in SUBSET Ids /\ \A i \in S : status[i] # "none"
        /\ Close(S, "cancelled")
    BY <1>11 DEF MidnightCancel, IsActive, Active
  <2>2. /\ UNCHANGED <<todo, failed, cancelling>>
        /\ pc' \in [Callers -> {"idle", "swept", "push"}]
        /\ \A c \in Callers : pc[c] = "push" => pc'[c] = "push"
    BY <1>11 DEF MidnightCancel, Sweep, IInv, TypeOK, Callers
  <2> QED
    BY <2>1, <2>2, CloseRows DEF Terminal, IInv, TypeOK
<1>12. ASSUME NEW r \in Runners, SweepFails(r) PROVE IInv'
  <2>1. TypeOK'
    BY <1>12, ConstantsAssumption DEF IInv, TypeOK, SweepFails, Sweep,
        Callers, Active, Terminal, Stamps, NoStamp, Ids, rowVars, history
  <2>2. OneActivePerUser' /\ StampsMatchStatus' /\ UnbornRows'
    BY <1>12, ConstantsAssumption DEF IInv, TypeOK, OneActivePerUser,
        StampsMatchStatus, UnbornRows, SweepFails, Sweep, Callers, IsActive,
        Active, Terminal, Stamps, NoStamp, Held, Ids, rowVars, history
  <2>3. HeldWhilePushing'
    BY <1>12, ConstantsAssumption DEF IInv, TypeOK, HeldWhilePushing,
        SweepFails, Sweep, Callers, Held, rowVars, history
  <2>4. HeldRows' /\ ExclusiveCallers' /\ NoSilentCall'
    BY <1>12, ConstantsAssumption DEF IInv, TypeOK, HeldRows,
        ExclusiveCallers, NoSilentCall, SweepFails, Sweep, Callers, Held,
        NoStamp, rowVars, history
  <2> QED
    BY <2>1, <2>2, <2>3, <2>4 DEF IInv
<1>13. ASSUME NEW r \in Runners, NotDue(r) PROVE IInv'
  <2>1. TypeOK'
    BY <1>13, ConstantsAssumption DEF IInv, TypeOK, NotDue, Callers, Active,
        Terminal, Stamps, NoStamp, Ids, rowVars, history
  <2>2. OneActivePerUser' /\ StampsMatchStatus' /\ UnbornRows'
    BY <1>13, ConstantsAssumption DEF IInv, TypeOK, OneActivePerUser,
        StampsMatchStatus, UnbornRows, NotDue, Callers, IsActive, Active,
        Terminal, Stamps, NoStamp, Held, Ids, rowVars, history
  <2>3. HeldWhilePushing'
    BY <1>13, ConstantsAssumption DEF IInv, TypeOK, HeldWhilePushing, NotDue,
        Callers, Held, rowVars, history
  <2>4. HeldRows' /\ ExclusiveCallers' /\ NoSilentCall'
    BY <1>13, ConstantsAssumption DEF IInv, TypeOK, HeldRows,
        ExclusiveCallers, NoSilentCall, NotDue, Callers, Held, NoStamp,
        rowVars, history
  <2> QED
    BY <2>1, <2>2, <2>3, <2>4 DEF IInv
<1>14. ASSUME NEW r \in Runners, AutoCall(r) PROVE IInv'
  <2>1. PICK count \in [Owners -> 0..MaxAutoCount], locked \in SUBSET Ids :
           Claim(r, OldestWaiting(locked, count), "auto")
    BY <1>14 DEF AutoCall
  <2>2. /\ OldestWaiting(locked, count) \in SUBSET Ids
        /\ \A i \in OldestWaiting(locked, count) : status[i] = "waiting"
    BY DEF OldestWaiting
  <2> QED
    BY <1>14, <2>1, <2>2, ClaimRows DEF AutoCall, Callers
<1>15. ASSUME NEW c \in Callers, NEW i \in Ids, PushDelivered(c, i) PROVE IInv'
  <2>1. TypeOK'
    BY <1>15, ConstantsAssumption DEF IInv, TypeOK, PushDelivered, Active,
        Terminal, Stamps, NoStamp, Ids, rowVars
  <2>2. OneActivePerUser'
    BY <1>15, ConstantsAssumption DEF IInv, TypeOK, OneActivePerUser,
        PushDelivered, IsActive, Active, Terminal, rowVars
  <2>3. StampsMatchStatus'
    BY <1>15, ConstantsAssumption DEF IInv, TypeOK, StampsMatchStatus,
        PushDelivered, Terminal, Stamps, NoStamp, rowVars
  <2>4. UnbornRows'
    BY <1>15, ConstantsAssumption DEF IInv, TypeOK, UnbornRows, PushDelivered,
        Held, Ids, rowVars
  <2>5. HeldWhilePushing'
    BY <1>15, ConstantsAssumption DEF IInv, TypeOK, HeldWhilePushing,
        PushDelivered, Held, rowVars
  <2>6. HeldRows'
    BY <1>15, ConstantsAssumption DEF IInv, TypeOK, HeldRows,
        HeldWhilePushing, ExclusiveCallers, PushDelivered, Held, NoStamp,
        rowVars
  <2>7. ExclusiveCallers'
    BY <1>15, ConstantsAssumption DEF IInv, TypeOK, ExclusiveCallers,
        PushDelivered, Held, rowVars
  <2>8. NoSilentCall'
    BY <1>15, ConstantsAssumption DEF IInv, TypeOK, NoSilentCall,
        PushDelivered, Held, NoStamp, rowVars
  <2> QED
    BY <2>1, <2>2, <2>3, <2>4, <2>5, <2>6, <2>7, <2>8 DEF IInv
<1>16. ASSUME NEW c \in Callers, NEW i \in Ids, PushFailed(c, i) PROVE IInv'
  <2>1. TypeOK'
    BY <1>16, ConstantsAssumption DEF IInv, TypeOK, PushFailed, Active,
        Terminal, Stamps, NoStamp, Ids, rowVars, history
  <2>2. OneActivePerUser' /\ StampsMatchStatus'
    BY <1>16, ConstantsAssumption DEF IInv, TypeOK, OneActivePerUser,
        StampsMatchStatus, PushFailed, IsActive, Active, Terminal, Stamps,
        NoStamp, rowVars, history
  <2>3. UnbornRows'
    BY <1>16, ConstantsAssumption DEF IInv, TypeOK, UnbornRows, PushFailed,
        Held, Ids, rowVars, history
  <2>4. HeldWhilePushing'
    BY <1>16, ConstantsAssumption DEF IInv, TypeOK, HeldWhilePushing,
        PushFailed, Held, rowVars, history
  <2>5. HeldRows'
    BY <1>16, ConstantsAssumption DEF IInv, TypeOK, HeldRows, PushFailed,
        Held, NoStamp, rowVars, history
  <2>6. ExclusiveCallers'
    BY <1>16, ConstantsAssumption DEF IInv, TypeOK, ExclusiveCallers,
        PushFailed, Held, rowVars, history
  <2>7. NoSilentCall'
    BY <1>16, ConstantsAssumption DEF IInv, TypeOK, NoSilentCall, PushFailed,
        Held, NoStamp, rowVars, history
  <2> QED
    BY <2>1, <2>2, <2>3, <2>4, <2>5, <2>6, <2>7 DEF IInv
<1>17. ASSUME NEW c \in Callers, AllSent(c) PROVE IInv'
  <2>1. TypeOK'
    BY <1>17, ConstantsAssumption DEF IInv, TypeOK, AllSent, Finish, Active,
        Terminal, Stamps, NoStamp, Ids, rowVars, history
  <2>2. OneActivePerUser' /\ StampsMatchStatus'
    BY <1>17, ConstantsAssumption DEF IInv, TypeOK, OneActivePerUser,
        StampsMatchStatus, AllSent, Finish, IsActive, Active, Terminal,
        Stamps, NoStamp, rowVars, history
  <2>3. UnbornRows'
    BY <1>17, ConstantsAssumption DEF IInv, TypeOK, UnbornRows, AllSent,
        Finish, Held, Ids, rowVars, history
  <2>4. HeldWhilePushing'
    BY <1>17, ConstantsAssumption DEF IInv, TypeOK, HeldWhilePushing, AllSent,
        Finish, Held, rowVars, history
  <2>5. HeldRows'
    BY <1>17, ConstantsAssumption DEF IInv, TypeOK, HeldRows, AllSent, Finish,
        Held, NoStamp, rowVars, history
  <2>6. ExclusiveCallers'
    BY <1>17, ConstantsAssumption DEF IInv, TypeOK, ExclusiveCallers, AllSent,
        Finish, Held, rowVars, history
  <2>7. NoSilentCall'
    BY <1>17, ConstantsAssumption DEF IInv, TypeOK, NoSilentCall, AllSent,
        Finish, Held, NoStamp, rowVars, history
  <2> QED
    BY <2>1, <2>2, <2>3, <2>4, <2>5, <2>6, <2>7 DEF IInv
<1>18. ASSUME NEW c \in Callers, RollBack(c) PROVE IInv'
  <2>1. TypeOK'
    BY <1>18, ConstantsAssumption DEF IInv, TypeOK, RollBack, Finish, PutBack,
        ToWaiting, Active, Terminal, Stamps, NoStamp, Ids, rowVars, callVars,
        history
  <2>2. OneActivePerUser'
    BY <1>18, ConstantsAssumption DEF IInv, TypeOK, OneActivePerUser,
        RollBack, Finish, PutBack, ToWaiting, IsActive, Active, Terminal,
        rowVars, callVars, history
  <2>3. StampsMatchStatus'
    BY <1>18, ConstantsAssumption DEF IInv, TypeOK, StampsMatchStatus,
        RollBack, Finish, PutBack, ToWaiting, Terminal, Stamps, NoStamp,
        rowVars, callVars, history
  <2>4. UnbornRows'
    BY <1>18, ConstantsAssumption DEF IInv, TypeOK, UnbornRows, RollBack,
        Finish, PutBack, ToWaiting, Held, Ids, rowVars, callVars, history
  <2>5. HeldWhilePushing'
    BY <1>18, ConstantsAssumption DEF IInv, TypeOK, HeldWhilePushing,
        RollBack, Finish, PutBack, ToWaiting, Held, rowVars, callVars, history
  <2>6. HeldRows'
    BY <1>18, ConstantsAssumption DEF IInv, TypeOK, HeldRows,
        ExclusiveCallers, HeldWhilePushing, RollBack, Finish, PutBack,
        ToWaiting, Held, NoStamp, rowVars, callVars, history
  <2>7. ExclusiveCallers'
    BY <1>18, ConstantsAssumption DEF IInv, TypeOK, ExclusiveCallers,
        RollBack, Finish, PutBack, ToWaiting, Held, rowVars, callVars, history
  <2>8. NoSilentCall'
    BY <1>18, ConstantsAssumption DEF IInv, TypeOK, NoSilentCall, RollBack,
        Finish, PutBack, ToWaiting, Held, NoStamp, rowVars, callVars, history
  <2> QED
    BY <2>1, <2>2, <2>3, <2>4, <2>5, <2>6, <2>7, <2>8 DEF IInv
<1>19. ASSUME NEW c \in Callers, RollBackFails(c) \/ Crash(c) PROVE IInv'
  BY <1>19, AbandonRows DEF RollBackFails, Crash
<1>20. ASSUME ClockTick PROVE IInv'
  <2>1. TypeOK'
    BY <1>20, ConstantsAssumption DEF IInv, TypeOK, ClockTick, Active,
        Terminal, Stamps, NoStamp, Ids, callVars
  <2>2. OneActivePerUser'
    BY <1>20, ConstantsAssumption DEF IInv, TypeOK, OneActivePerUser,
        ClockTick, IsActive, Active, Terminal, callVars
  <2>3. StampsMatchStatus'
    BY <1>20, ConstantsAssumption DEF IInv, TypeOK, StampsMatchStatus,
        ClockTick, Terminal, Stamps, NoStamp, callVars
  <2>4. UnbornRows'
    BY <1>20, ConstantsAssumption DEF IInv, TypeOK, UnbornRows, ClockTick,
        Held, Ids, callVars
  <2>5. HeldWhilePushing' /\ ExclusiveCallers'
    BY <1>20, ConstantsAssumption DEF IInv, TypeOK, HeldWhilePushing,
        ExclusiveCallers, ClockTick, Held, callVars
  <2>6. HeldRows' /\ NoSilentCall'
    BY <1>20, ConstantsAssumption DEF IInv, TypeOK, HeldRows, NoSilentCall,
        ClockTick, Held, NoStamp, callVars
  <2> QED
    BY <2>1, <2>2, <2>3, <2>4, <2>5, <2>6 DEF IInv
<1>21. ASSUME UNCHANGED vars PROVE IInv'
  <2>1. /\ TypeOK' /\ OneActivePerUser' /\ StampsMatchStatus' /\ UnbornRows'
        /\ HeldWhilePushing' /\ HeldRows' /\ ExclusiveCallers' /\ NoSilentCall'
    BY <1>21 DEF vars, rowVars, callVars, history, IInv, TypeOK, OneActivePerUser,
          StampsMatchStatus, UnbornRows, HeldWhilePushing, HeldRows,
          ExclusiveCallers, NoSilentCall, Held, IsActive
  <2> QED
    BY <2>1 DEF IInv
<1> QED
  BY <1>1, <1>2, <1>3, <1>4, <1>5, <1>6, <1>7, <1>8, <1>9, <1>10, <1>11,
     <1>12, <1>13, <1>14, <1>15, <1>16, <1>17, <1>18, <1>19, <1>20, <1>21
  DEF Next, UserNext, AdminNext, RunnerNext, CallerNext
-----------------------------------------------------------------------------
\* The invariant and the properties that follow from it.

\* The inductive invariant holds in every reachable state.
THEOREM QueueInvariant == Spec => []IInv
  BY QueueInit, QueueNext, PTL DEF Spec

\* The table and the handlers' records stay well typed.
THEOREM QueueTypes == Spec => []TypeOK
  BY QueueInvariant, PTL DEF IInv

\* A user never holds two active tickets, however the commands of customers,
\* the calls and the status screen interleave.
THEOREM QueueOneActive == Spec => []OneActivePerUser
  BY QueueInvariant, PTL DEF IInv

\* called_at, call_origin and completed_at agree with the status.
THEOREM QueueStamps == Spec => []StampsMatchStatus
  BY QueueInvariant, PTL DEF IInv

\* Two handlers never hold the same ticket for pushing or putting back.
THEOREM QueueExclusive == Spec => []ExclusiveCallers
  BY QueueInvariant, PTL DEF IInv

\* A called ticket has been notified, is held by a handler, or is accounted
\* for by an edit or a dead handler.
THEOREM QueueNoSilentCall == Spec => []NoSilentCall
  BY QueueInvariant, PTL DEF IInv
-----------------------------------------------------------------------------
\* What a step may do to one row.
RowMoves(i) ==
    \/ status'[i] = status[i] /\ (heard'[i] = NoStamp <=> heard[i] = NoStamp)
    \/ status'[i] = "none"
    \/ status[i] = "waiting" /\ status'[i] = "called" /\ heard'[i] = NoStamp
    \/ /\ status[i] = "called" /\ heard[i] = NoStamp
       /\ status'[i] \in {"called", "waiting"}
    \/ status[i] \in Active \cup Terminal /\ status'[i] \in Terminal

\* Only an insert touches a new row, and what a step does to an old one that
\* the status screen has left alone is one of RowMoves.
LEMMA RowSteps ==
  ASSUME IInv, [Next]_vars, NEW i \in Ids, i \notin reopened'
  PROVE  i < nextId => RowMoves(i)
<1> USE ConstantsAssumption DEF RowMoves
<1>1. ASSUME NEW u \in Users, NEW w \in Owners, Reserve(u, w)
     PROVE  i < nextId => RowMoves(i)
  BY <1>1 DEF Reserve, IInv, TypeOK, history
<1>2. ASSUME NEW u \in Users, UserCancelFind(u) \/ UserCancelLost(u)
     PROVE  i < nextId => RowMoves(i)
  BY <1>2 DEF UserCancelFind, UserCancelLost, rowVars, history
<1>3. ASSUME NEW S \in SUBSET Ids, NEW how \in Terminal, Close(S, how), \A j
    \in S : status[j] # "none"
     PROVE  i < nextId => RowMoves(i)
  BY <1>3 DEF Close, IInv, TypeOK
<1>4. ASSUME NEW c \in Callers, NEW S \in SUBSET Ids, NEW how, Claim(c, S,
    how), \A j \in S : status[j] = "waiting"
     PROVE  i < nextId => RowMoves(i)
  BY <1>4 DEF Claim, IInv, TypeOK
<1>5. ASSUME NEW j \in Ids, NEW new \in EditTargets, AdminStatusUpdate(j, new)
     PROVE  i < nextId => RowMoves(i)
  BY <1>5 DEF AdminStatusUpdate, EditTargets, Active, Terminal, IInv, TypeOK
<1>6. ASSUME DeleteAll
     PROVE  i < nextId => RowMoves(i)
  BY <1>6 DEF DeleteAll
<1>7. ASSUME NEW r \in Runners, SweepFails(r) \/ NotDue(r)
     PROVE  i < nextId => RowMoves(i)
  BY <1>7 DEF SweepFails, NotDue, rowVars, history
<1>8. ASSUME NEW c \in Callers, NEW j \in Ids, PushDelivered(c, j)
     PROVE  i < nextId => RowMoves(i)
  BY <1>8 DEF PushDelivered, NoStamp, rowVars, IInv, TypeOK
<1>9. ASSUME NEW c \in Callers, NEW j \in Ids, PushFailed(c, j)
     PROVE  i < nextId => RowMoves(i)
  BY <1>9 DEF PushFailed, rowVars, history
<1>10. ASSUME NEW c \in Callers, AllSent(c)
     PROVE  i < nextId => RowMoves(i)
  BY <1>10 DEF AllSent, rowVars, history
<1>11. ASSUME NEW c \in Callers, RollBack(c)
     PROVE  i < nextId => RowMoves(i)
  BY <1>11 DEF RollBack, PutBack, ToWaiting, IInv, TypeOK, HeldRows, Held, NoStamp
<1>12. ASSUME NEW c \in Callers, RollBackFails(c) \/ Crash(c)
     PROVE  i < nextId => RowMoves(i)
  BY <1>12 DEF RollBackFails, Crash, Abandon, rowVars
<1>13. ASSUME ClockTick
     PROVE  i < nextId => RowMoves(i)
  BY <1>13 DEF ClockTick, Stamps, NoStamp, IInv, TypeOK
<1>14. ASSUME UNCHANGED vars
     PROVE  i < nextId => RowMoves(i)
  BY <1>14 DEF vars, rowVars, history
<1>15. ASSUME NEW u \in Users, UserCancelWrite(u) PROVE i < nextId => RowMoves(i)
  BY <1>15, <1>3 DEF UserCancelWrite, Terminal
<1>16. ASSUME NEW j \in Ids, AdminFinish(j) \/ AdminCancel(j)
       PROVE  i < nextId => RowMoves(i)
  BY <1>16, <1>3 DEF AdminFinish, AdminCancel, IsActive, Active, Terminal
<1>17. ASSUME NEW r \in Runners, Expire(r) \/ MidnightCancel(r)
       PROVE  i < nextId => RowMoves(i)
  BY <1>17, <1>3 DEF Expire, MidnightCancel, IsActive, Active, Terminal
<1>18. ASSUME NEW a \in Admins, NEW j \in Ids, AdminCall(a, j)
       PROVE  i < nextId => RowMoves(i)
  BY <1>18, <1>4 DEF AdminCall, Callers
<1>19. ASSUME NEW r \in Runners, AutoCall(r) PROVE i < nextId => RowMoves(i)
  <2>1. PICK count \in [Owners -> 0..MaxAutoCount], locked \in SUBSET Ids :
           Claim(r, OldestWaiting(locked, count), "auto")
    BY <1>19 DEF AutoCall
  <2>2. /\ OldestWaiting(locked, count) \in SUBSET Ids
        /\ \A j \in OldestWaiting(locked, count) : status[j] = "waiting"
    BY DEF OldestWaiting
  <2> QED
    BY <2>1, <2>2, <1>4 DEF Callers
<1> QED
  BY <1>1, <1>2, <1>5, <1>6, <1>7, <1>8, <1>9, <1>10, <1>11, <1>12, <1>13,
     <1>14, <1>15, <1>16, <1>17, <1>18, <1>19
  DEF Next, UserNext, AdminNext, RunnerNext, CallerNext

\* Once LINE has accepted the notice of a call, no handler takes it back.
THEOREM QueueConfirmed == Spec => ConfirmedCallStands
<1>1. IInv /\ [Next]_vars =>
        [\A i \in Ids : heard[i] # NoStamp /\ status'[i] = "waiting"
             => i \in reopened']_vars
  <2> SUFFICES ASSUME IInv, [Next]_vars, NEW i \in Ids, heard[i] # NoStamp,
                      status'[i] = "waiting", i \notin reopened'
               PROVE  FALSE
    OBVIOUS
  <2>1. status[i] = "called" /\ i < nextId
    BY DEF IInv, TypeOK, StampsMatchStatus, UnbornRows, Ids
  <2> QED
    BY <2>1, RowSteps DEF RowMoves, Terminal
<1> QED
  BY <1>1, QueueInvariant, PTL DEF Spec, ConfirmedCallStands
-----------------------------------------------------------------------------
\* The queue implements the ticket life cycle.

\* The history sets only grow, and by existing rows; row numbers only grow,
\* and a new row is waiting.
LEMMA Growth ==
  ASSUME IInv, IInv', [Next]_vars
  PROVE  /\ nextId <= nextId' /\ reopened \subseteq reopened'
         /\ orphaned \subseteq orphaned'
         /\ \A i \in Ids : i \in reopened' \cup orphaned' =>
               i \in reopened \cup orphaned \/ status[i] # "none"
         /\ \A i \in Ids : i >= nextId /\ i < nextId' =>
               /\ status'[i] = "waiting"
               /\ i \notin reopened' \cup orphaned'
<1> DEFINE Goal == /\ nextId <= nextId' /\ reopened \subseteq reopened'
                   /\ orphaned \subseteq orphaned'
                   /\ \A i \in Ids : i \in reopened' \cup orphaned' =>
                         i \in reopened \cup orphaned \/ status[i] # "none"
                   /\ \A i \in Ids : i >= nextId /\ i < nextId' =>
                         /\ status'[i] = "waiting"
                         /\ i \notin reopened' \cup orphaned'
<1>1. ASSUME NEW u \in Users, NEW w \in Owners, Reserve(u, w)
     PROVE  Goal
  BY <1>1, ConstantsAssumption DEF Reserve, UnbornRows, history, IInv, TypeOK,
      Ids
<1>2. ASSUME NEW j \in Ids, NEW new \in EditTargets, AdminStatusUpdate(j, new)
     PROVE  Goal
  BY <1>2, ConstantsAssumption DEF AdminStatusUpdate, IInv, TypeOK, Ids
<1>3. ASSUME NEW c \in Callers, RollBackFails(c) \/ Crash(c)
     PROVE  Goal
  <2>1. /\ nextId' = nextId /\ reopened' = reopened
        /\ orphaned' = orphaned \cup {i \in Held(c) : status[i] = "called"}
    BY <1>3 DEF RollBackFails, Crash, Abandon
  <2>2. nextId \in Int
    BY ConstantsAssumption DEF IInv, TypeOK
  <2> QED
    BY <2>1, <2>2, ConstantsAssumption DEF Ids
<1>4. CASE UNCHANGED <<nextId, reopened, orphaned>>
  BY <1>4, ConstantsAssumption DEF IInv, TypeOK, Ids
<1>5. \/ \E u \in Users, w \in Owners : Reserve(u, w)
      \/ \E j \in Ids, new \in EditTargets : AdminStatusUpdate(j, new)
      \/ \E c \in Callers : RollBackFails(c) \/ Crash(c)
      \/ UNCHANGED <<nextId, reopened, orphaned>>
  BY DEF Next, UserNext, AdminNext, RunnerNext, CallerNext, UserCancelFind,
      UserCancelWrite, UserCancelLost, Close, AdminCall, Claim, AdminFinish,
      AdminCancel, DeleteAll, Expire, MidnightCancel, SweepFails, NotDue,
      AutoCall, PushDelivered, PushFailed, AllSent, RollBack, PutBack,
      ToWaiting, ClockTick, vars, history
<1> QED
  BY <1>1, <1>2, <1>3, <1>4, <1>5

\* Every step moves every ticket along the life cycle, or not at all.
LEMMA TicketMoves ==
  ASSUME IInv, IInv', [Next]_vars, NEW i \in Ids
  PROVE  /\ Phase[i] \in Lifecycle!Phases
         /\ Phase'[i] = Phase[i] \/ <<Phase[i], Phase'[i]>> \in Lifecycle!Moves
<1> USE ConstantsAssumption
<1>1. /\ status[i] \in {"none"} \cup Active \cup Terminal
      /\ status'[i] \in {"none"} \cup Active \cup Terminal
      /\ heard[i] # NoStamp => status[i] = "called"
      /\ heard'[i] # NoStamp => status'[i] = "called"
      /\ nextId \in Nat /\ nextId' \in Nat /\ i \in Nat /\ nextId <= nextId'
      /\ i >= nextId => i \notin reopened \cup orphaned
  BY Growth DEF IInv, TypeOK, StampsMatchStatus, UnbornRows, Ids
<1>2. CASE i >= nextId'
  BY <1>1, <1>2 DEF Phase, Lifecycle!Phases
<1>3. CASE i >= nextId /\ i < nextId'
  <2>1. i \notin reopened' \cup orphaned' /\ status'[i] = "waiting"
    BY <1>3, Growth
  <2>2. Phase[i] = "absent" /\ Phase'[i] = "waiting"
    BY <1>1, <1>3, <2>1 DEF Phase, Terminal
  <2> QED
    BY <2>2 DEF Lifecycle!Phases, Lifecycle!Moves
<1>4. CASE i < nextId /\ i \in reopened \cup orphaned
  BY <1>1, <1>4, Growth DEF Phase, Lifecycle!Phases
<1>5. CASE /\ i < nextId /\ i \notin reopened \cup orphaned
           /\ i \in reopened' \cup orphaned'
  BY <1>1, <1>5, Growth DEF Phase, Lifecycle!Phases, Lifecycle!Moves, Active,
     Terminal
<1>6. CASE i < nextId /\ i \notin reopened' \cup orphaned'
  <2>1. RowMoves(i) /\ i \notin reopened \cup orphaned
    BY <1>6, RowSteps, Growth
  <2> QED
    BY <1>1, <1>6, <2>1
    DEF RowMoves, Phase, Lifecycle!Phases, Lifecycle!Moves, Active, Terminal
<1> QED
  BY <1>1, <1>2, <1>3, <1>4, <1>5, <1>6

\* The detailed queue implements the abstract life cycle of a ticket.
THEOREM QueueImplements == Spec => ImplementsLifecycle
<1>1. Init => Lifecycle!Init
  BY ConstantsAssumption DEF Init, Lifecycle!Init, Phase, Ids
<1>2. IInv /\ IInv' /\ [Next]_vars => [Lifecycle!Next]_Phase
  <2> SUFFICES ASSUME IInv, IInv', [Next]_vars PROVE Lifecycle!Next
    OBVIOUS
  <2>1. \A i \in Ids : Phase'[i] \in Lifecycle!Phases
    BY TicketMoves DEF Lifecycle!Phases, Lifecycle!Moves
  <2>2. Phase' \in [Ids -> Lifecycle!Phases]
    BY <2>1 DEF Phase
  <2> QED
    BY <2>2, TicketMoves DEF Lifecycle!Next
<1> QED
  BY <1>1, <1>2, QueueInvariant, PTL DEF Spec, ImplementsLifecycle, Lifecycle!Spec
-----------------------------------------------------------------------------
(* CallSchedule *)

\* A cancellation that took effect within 0:00 has left no ticket of the day before,
\* and only the status screen makes one active again.
NightLeavesNone == night /\ ~revived => old = {}

\* Has the execution read the summaries, which its own is to follow?
Reading(e) == tick[e] \in {"claiming", "calling", "saving"}

\* Batches that have read the summaries have numbers of their own, which no saved
\* summary bears and none that was read, and which are higher than that of the one
\* they read.
RunsAreNew ==
    \A e \in Ticks : Reading(e) =>
        /\ 0 < run[e] /\ run[e] <= runs /\ read[e] < run[e]
        /\ run[e] # last /\ run[e] # previous
        /\ \A d \in Ticks \ {e} : Reading(d) => run[d] # run[e] /\ read[d] # run[e]

\* What is saved has been read before; the first summary has no predecessor.
SavedHaveRun ==
    /\ last <= runs /\ previous <= runs
    /\ last = Schedule!NoRun => previous = Schedule!NoRun

ScheduleInv ==
    /\ Schedule!TypeOK
    /\ NightLeavesNone
    /\ RunsAreNew
    /\ SavedHaveRun
    /\ Schedule!SummariesChain

LEMMA ScheduleInit == Schedule!Init => ScheduleInv
<1> SUFFICES ASSUME Schedule!Init PROVE ScheduleInv
  OBVIOUS
<1> USE BatchAssumption DEF Schedule!Init, Schedule!NoRun
<1>1. Schedule!TypeOK
  <2>1. /\ tick \in [Ticks -> {"idle", "begun", "due", "claiming", "calling", "saving"}]
        /\ label \in [Ticks -> {"midnight", "due", "other"}]
    OBVIOUS
  <2>2. /\ run \in [Ticks -> 0..MaxRuns] /\ read \in [Ticks -> 0..MaxRuns]
        /\ runs \in 0..MaxRuns
        /\ last \in 0..MaxRuns /\ previous \in 0..MaxRuns /\ before \in 0..MaxRuns
    OBVIOUS
  <2>3. night \in BOOLEAN /\ revived \in BOOLEAN /\ overtaken \in BOOLEAN
    OBVIOUS
  <2> QED
    BY <2>1, <2>2, <2>3 DEF Schedule!TypeOK
<1>2. RunsAreNew /\ SavedHaveRun
  BY DEF Reading, RunsAreNew, SavedHaveRun
<1>3. NightLeavesNone /\ Schedule!SummariesChain
  BY DEF NightLeavesNone, Schedule!SummariesChain
<1> QED
  BY <1>1, <1>2, <1>3 DEF ScheduleInv

\* An execution that ends no longer is one of those the invariant speaks of.
LEMMA ScheduleLeave ==
    ASSUME ScheduleInv, NEW e \in Ticks, Schedule!Leave(e)
    PROVE  /\ tick' \in [Ticks -> {"idle", "begun", "due", "claiming", "calling", "saving"}]
           /\ label' \in [Ticks -> {"midnight", "due", "other"}]
           /\ run' \in [Ticks -> 0..MaxRuns] /\ read' \in [Ticks -> 0..MaxRuns]
           /\ \A d \in Ticks : Reading(d)' =>
                 d # e /\ Reading(d) /\ run'[d] = run[d] /\ read'[d] = read[d]
  BY BatchAssumption
  DEF ScheduleInv, Schedule!TypeOK, Reading, Schedule!Leave, Schedule!NoRun

\* What handlers, sweeps and batches do to the tickets of a line leaves a line
\* without active tickets as it is.
LEMMA StatusesStay ==
    ASSUME NEW S, S \subseteq Schedule!Active,
           NEW T \in Schedule!HandledOf(S) \cup Schedule!SweptOf(S)
    PROVE  T \subseteq Schedule!Active /\ (S = {} => T = {})
  BY DEF Schedule!HandledOf, Schedule!CalledOf, Schedule!PutBackOf, Schedule!SweptOf,
         Schedule!Active

\* A step that changes neither the summaries nor what batches have read of them.
LEMMA ScheduleRunsStay ==
    ASSUME ScheduleInv, UNCHANGED <<runs, last, previous, before, overtaken>>,
           \A d \in Ticks : Reading(d)' =>
               Reading(d) /\ run'[d] = run[d] /\ read'[d] = read[d]
    PROVE  RunsAreNew' /\ SavedHaveRun' /\ Schedule!SummariesChain'
<1>1. SavedHaveRun' /\ Schedule!SummariesChain'
  BY DEF ScheduleInv, SavedHaveRun, Schedule!SummariesChain
<1>2. RunsAreNew'
  BY DEF ScheduleInv, RunsAreNew
<1> QED
  BY <1>1, <1>2

\* What an execution does to tickets on its way, summaries and batches unchanged.
LEMMA ScheduleGoto ==
    ASSUME ScheduleInv, NEW e \in Ticks, NEW where \in {"due", "calling", "saving"},
           Schedule!Goto(e, where), where = "due" \/ Reading(e),
           UNCHANGED <<phase, runs, last, previous, before, overtaken>>,
           old' \subseteq Schedule!Active, fresh' \subseteq Schedule!Active,
           night' \in BOOLEAN, revived' \in BOOLEAN, NightLeavesNone'
    PROVE  ScheduleInv'
<1>1. Schedule!TypeOK'
  BY DEF ScheduleInv, Schedule!TypeOK, Schedule!Goto
<1>2. \A d \in Ticks : Reading(d)' =>
          Reading(d) /\ run'[d] = run[d] /\ read'[d] = read[d]
  BY DEF ScheduleInv, Schedule!TypeOK, Schedule!Goto, Reading
<1> QED
  BY <1>1, <1>2, ScheduleRunsStay DEF ScheduleInv

\* The same of an execution that ends.
LEMMA ScheduleEnds ==
    ASSUME ScheduleInv, NEW e \in Ticks, Schedule!Leave(e),
           UNCHANGED <<phase, runs, last, previous, before, overtaken>>,
           old' \subseteq Schedule!Active, fresh' \subseteq Schedule!Active,
           night' \in BOOLEAN, revived' \in BOOLEAN, NightLeavesNone'
    PROVE  ScheduleInv'
<1>1. Schedule!TypeOK'
  BY ScheduleLeave DEF ScheduleInv, Schedule!TypeOK
<1> QED
  BY <1>1, ScheduleLeave, ScheduleRunsStay DEF ScheduleInv

\* The same of everybody else.
LEMMA ScheduleTickets ==
    ASSUME ScheduleInv, UNCHANGED <<tick, label, run, read>>,
           UNCHANGED <<runs, last, previous, before, overtaken>>,
           phase' \in {"midnight", "day"},
           old' \subseteq Schedule!Active, fresh' \subseteq Schedule!Active,
           night' \in BOOLEAN, revived' \in BOOLEAN, NightLeavesNone'
    PROVE  ScheduleInv'
<1>1. Schedule!TypeOK'
  BY DEF ScheduleInv, Schedule!TypeOK
<1> QED
  BY <1>1, ScheduleRunsStay DEF ScheduleInv, Reading

LEMMA ScheduleNext == ScheduleInv /\ [Schedule!Next]_(Schedule!vars) => ScheduleInv'
<1> SUFFICES ASSUME ScheduleInv, [Schedule!Next]_(Schedule!vars) PROVE ScheduleInv'
  OBVIOUS
<1> USE BatchAssumption
    DEF Schedule!line, Schedule!statuses, Schedule!summaries, Schedule!execution,
        Schedule!NoRun
<1>0. /\ phase \in {"midnight", "day"}
      /\ old \subseteq Schedule!Active /\ fresh \subseteq Schedule!Active
      /\ night \in BOOLEAN /\ revived \in BOOLEAN /\ NightLeavesNone
  BY DEF ScheduleInv, Schedule!TypeOK
<1>1. ASSUME Schedule!Midnight PROVE ScheduleInv'
  BY <1>0, <1>1, ScheduleTickets DEF Schedule!Midnight, NightLeavesNone
<1>2. ASSUME Schedule!Daybreak PROVE ScheduleInv'
  BY <1>0, <1>2, ScheduleTickets DEF Schedule!Daybreak, NightLeavesNone
<1>3. ASSUME Schedule!Book PROVE ScheduleInv'
  BY <1>0, <1>3, ScheduleTickets DEF Schedule!Book, NightLeavesNone, Schedule!Active
<1>4. ASSUME Schedule!Handle PROVE ScheduleInv'
  <2>1. old' \subseteq Schedule!Active /\ (old = {} => old' = {})
    BY <1>0, <1>4, StatusesStay DEF Schedule!Handle
  <2>2. fresh' \subseteq Schedule!Active
    BY <1>0, <1>4, StatusesStay DEF Schedule!Handle
  <2> QED
    BY <1>0, <1>4, <2>1, <2>2, ScheduleTickets DEF Schedule!Handle, NightLeavesNone
<1>5. ASSUME Schedule!Reopen PROVE ScheduleInv'
  <2>1. PICK s \in Schedule!Active :
           \/ old' = old \cup {s} /\ revived' = TRUE /\ fresh' = fresh
           \/ fresh' = fresh \cup {s} /\ old' = old /\ revived' = revived
    BY <1>5 DEF Schedule!Reopen
  <2>2. old' \subseteq Schedule!Active /\ fresh' \subseteq Schedule!Active
    BY <1>0, <2>1
  <2>3. night' = night /\ revived' \in BOOLEAN
    BY <1>0, <1>5, <2>1 DEF Schedule!Reopen
  <2>4. NightLeavesNone'
    BY <1>0, <2>1, <2>3 DEF NightLeavesNone
  <2> QED
    BY <1>0, <1>5, <2>2, <2>3, <2>4, ScheduleTickets DEF Schedule!Reopen
<1>6. ASSUME NEW e \in Ticks, Schedule!Begin(e) PROVE ScheduleInv'
  <2>1. /\ tick' = [tick EXCEPT ![e] = "begun"]
        /\ UNCHANGED <<phase, old, fresh, night, revived, run, read, runs, last, previous,
                       before, overtaken>>
    BY <1>6 DEF Schedule!Begin
  <2>2. PICK l \in {"midnight", "due", "other"} : label' = [label EXCEPT ![e] = l]
    BY <1>6 DEF Schedule!Begin
  <2>3. Schedule!TypeOK'
    BY <2>1, <2>2 DEF ScheduleInv, Schedule!TypeOK
  <2>4. \A d \in Ticks : Reading(d)' => Reading(d)
    BY <2>1 DEF ScheduleInv, Schedule!TypeOK, Reading
  <2> QED
    BY <2>1, <2>3, <2>4, ScheduleRunsStay DEF ScheduleInv, NightLeavesNone
<1>7. ASSUME NEW e \in Ticks, Schedule!CancelAll(e) PROVE ScheduleInv'
  <2>1. night' \in BOOLEAN
    BY <1>7 DEF Schedule!CancelAll
  <2> QED
    BY <1>0, <1>7, <2>1, ScheduleGoto DEF Schedule!CancelAll, NightLeavesNone
<1>8. ASSUME NEW e \in Ticks, Schedule!CancelFails(e) PROVE ScheduleInv'
  BY <1>0, <1>8, ScheduleGoto DEF Schedule!CancelFails, NightLeavesNone
<1>9. ASSUME NEW e \in Ticks, Schedule!Sweep(e) PROVE ScheduleInv'
  <2>1. /\ old' \subseteq Schedule!Active /\ (old = {} => old' = {})
        /\ fresh' \subseteq Schedule!Active
    BY <1>0, <1>9, StatusesStay DEF Schedule!Sweep
  <2>2. NightLeavesNone'
    BY <1>0, <1>9, <2>1 DEF Schedule!Sweep, NightLeavesNone
  <2>3. CASE label[e] = "other"
    BY <1>0, <1>9, <2>1, <2>2, <2>3, ScheduleEnds DEF Schedule!Sweep
  <2>4. CASE label[e] # "other"
    BY <1>0, <1>9, <2>1, <2>2, <2>4, ScheduleGoto DEF Schedule!Sweep
  <2> QED
    BY <2>3, <2>4
<1>10. ASSUME NEW e \in Ticks, Schedule!Read(e) PROVE ScheduleInv'
  <2>1. Schedule!TypeOK'
    BY <1>10 DEF Schedule!Read, ScheduleInv, Schedule!TypeOK
  <2>2. RunsAreNew'
    BY <1>10
    DEF Schedule!Read, ScheduleInv, Schedule!TypeOK, Reading, RunsAreNew, SavedHaveRun
  <2> QED
    BY <1>10, <2>1, <2>2
    DEF Schedule!Read, ScheduleInv, Schedule!TypeOK, NightLeavesNone, SavedHaveRun,
        Schedule!SummariesChain
<1>11. ASSUME NEW e \in Ticks, Schedule!Claim(e) PROVE ScheduleInv'
  <2>1. /\ old' \subseteq Schedule!Active /\ (old = {} => old' = {})
        /\ fresh' \subseteq Schedule!Active
    BY <1>0, <1>11, StatusesStay DEF Schedule!Claim, Schedule!HandledOf
  <2> QED
    BY <1>0, <1>11, <2>1, ScheduleGoto DEF Schedule!Claim, Reading, NightLeavesNone
<1>12. ASSUME NEW e \in Ticks, Schedule!PutBack(e) PROVE ScheduleInv'
  <2>1. /\ old' \subseteq Schedule!Active /\ (old = {} => old' = {})
        /\ fresh' \subseteq Schedule!Active
    BY <1>0, <1>12, StatusesStay DEF Schedule!PutBack, Schedule!HandledOf
  <2> QED
    BY <1>0, <1>12, <2>1, ScheduleGoto DEF Schedule!PutBack, Reading, NightLeavesNone
<1>13. ASSUME NEW e \in Ticks, Schedule!Save(e) PROVE ScheduleInv'
  <2>1. /\ tick[e] = "saving" /\ Schedule!Leave(e)
        /\ last' = run[e] /\ before' = last
        /\ previous' = IF read[e] # Schedule!NoRun THEN read[e] ELSE previous
        /\ overtaken' = (last # read[e])
        /\ UNCHANGED <<phase, old, fresh, night, revived, runs>>
    BY <1>13 DEF Schedule!Save, Schedule!Saved
  <2>2. /\ last \in 0..MaxRuns /\ previous \in 0..MaxRuns /\ runs \in 0..MaxRuns
        /\ run[e] \in 0..MaxRuns /\ read[e] \in 0..MaxRuns
    BY DEF ScheduleInv, Schedule!TypeOK
  <2>3. Reading(e)
    BY <2>1 DEF Reading
  <2>4. Schedule!TypeOK'
    <3>1. overtaken' \in BOOLEAN
      BY <2>1, Zenon
    <3>2. /\ last' \in 0..MaxRuns /\ before' \in 0..MaxRuns /\ previous' \in 0..MaxRuns
      BY <2>1, <2>2
    <3>3. /\ phase' \in {"midnight", "day"} /\ old' \subseteq Schedule!Active
          /\ fresh' \subseteq Schedule!Active /\ night' \in BOOLEAN /\ revived' \in BOOLEAN
          /\ runs' \in 0..MaxRuns
      BY <2>1, Zenon DEF ScheduleInv, Schedule!TypeOK
    <3> QED
      BY <2>1, <3>1, <3>2, <3>3, ScheduleLeave DEF Schedule!TypeOK
  <2>5. RunsAreNew'
    <3>1. \A d \in Ticks : Reading(d)' =>
             d # e /\ Reading(d) /\ run'[d] = run[d] /\ read'[d] = read[d]
      BY <2>1, ScheduleLeave
    <3> QED
      BY <2>1, <2>2, <2>3, <3>1 DEF ScheduleInv, RunsAreNew
  <2>6. SavedHaveRun'
    BY <2>1, <2>2, <2>3 DEF ScheduleInv, RunsAreNew, SavedHaveRun
  <2>7. ~overtaken' => last = read[e]
    BY <2>1
  <2>8. Schedule!SummariesChain'
    BY <2>1, <2>2, <2>3, <2>7
    DEF ScheduleInv, RunsAreNew, SavedHaveRun, Schedule!SummariesChain
  <2> QED
    BY <2>1, <2>4, <2>5, <2>6, <2>8 DEF ScheduleInv, NightLeavesNone
<1>14. ASSUME NEW e \in Ticks, Schedule!Fail(e) PROVE ScheduleInv'
  BY <1>0, <1>14, ScheduleEnds DEF Schedule!Fail, NightLeavesNone
<1>15. ASSUME UNCHANGED Schedule!vars PROVE ScheduleInv'
  BY <1>0, <1>15, ScheduleTickets DEF Schedule!vars, NightLeavesNone
<1> QED
  BY <1>1, <1>2, <1>3, <1>4, <1>5, <1>6, <1>7, <1>8, <1>9, <1>10, <1>11, <1>12, <1>13,
     <1>14, <1>15 DEF Schedule!Next

\* The inductive invariant of the schedule holds in every reachable state.
THEOREM ScheduleInvariant == Schedule!Spec => []ScheduleInv
  BY ScheduleInit, ScheduleNext, PTL DEF Schedule!Spec
-----------------------------------------------------------------------------
(* Side by side *)

LEMMA BatchQueue == BatchSpec => Init /\ [][Next]_vars
<1>1. BatchInit => Init
  BY DEF BatchInit
<1>2. [BatchNext]_<<part, vars, scheduleVars>> => [Next]_vars
  BY DEF BatchNext
<1> QED
  BY <1>1, <1>2, PTL DEF BatchSpec

LEMMA BatchSchedule == BatchSpec => Schedule!Spec
<1>1. BatchInit => Schedule!Init
  BY DEF BatchInit
<1>2. UNCHANGED scheduleVars => UNCHANGED Schedule!vars
  BY DEF scheduleVars, Schedule!vars, Schedule!line, Schedule!statuses,
         Schedule!summaries, Schedule!execution
<1>3. [BatchNext]_<<part, vars, scheduleVars>> => [Schedule!Next]_(Schedule!vars)
  BY <1>2 DEF BatchNext
<1> QED
  BY <1>1, <1>3, PTL DEF BatchSpec, Schedule!Spec

\* Every column, record and history variable of the cron job stays well typed.
THEOREM BatchTypes == BatchSpec => []TypesOK
  BY BatchQueue, QueueTypes, BatchSchedule, ScheduleInvariant, PTL
  DEF Spec, TypesOK, ScheduleInv

\* cancel_active_reservations_without_notification: what it cancels within 0:00
\* stays cancelled, whatever batch or handler overlaps with it, unless the status
\* screen reopens it.
THEOREM BatchNightIsCleared == BatchSpec => []NightIsCleared
<1>1. ScheduleInv => NightIsCleared
  BY DEF ScheduleInv, NightLeavesNone, NightIsCleared, Schedule!NightIsCleared
<1> QED
  BY <1>1, BatchSchedule, ScheduleInvariant, PTL

\* set_settings of the summaries: they are the last two that were saved, unless
\* batches overlapped.
THEOREM BatchSummariesChain == BatchSpec => []SummariesChain
<1>1. ScheduleInv => SummariesChain
  BY DEF ScheduleInv, SummariesChain
<1> QED
  BY <1>1, BatchSchedule, ScheduleInvariant, PTL
=============================================================================
