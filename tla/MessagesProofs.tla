---------------------------- MODULE MessagesProofs ----------------------------
(***************************************************************************)
(* Proofs about WebhookEvents, LinePush and RateLimits, for any events,    *)
(* threads and deliveries, any pushes and retries, any requests, limit and *)
(* window, and about the three side by side.                               *)
(***************************************************************************)
EXTENDS MCMessages, FiniteSetTheorems, TLAPS

(* WebhookEvents *)

\* A thread that is not idle works on an event.
BusyHasEvent == \A t \in Threads : pc[t] # "idle" => event[t] \in Events

\* A thread past the claim holds it in the table.
WorkingIsClaimed == \A t \in Threads : Working(t) => event[t] \in claims

\* A thread that is about to reply has committed the command.
RepliedIsHandled == \A t \in Threads : pc[t] = "replying" => event[t] \in handled

\* An event nobody has claimed, or that is about to be executed or released,
\* has been executed at most once per late exception.
SpareEffect ==
    \A e \in Events :
        (\/ e \notin claims
         \/ \E t \in Threads : pc[t] \in {"running", "releasing"} /\ event[t] = e)
            => effects[e] <= late[e]

IInv ==
    /\ TypeOK
    /\ BusyHasEvent
    /\ WorkingIsClaimed
    /\ RepliedIsHandled
    /\ ClaimExclusive
    /\ SpareEffect
    /\ RepeatsNeedLateFailure
    /\ ClaimsAccountedFor

LEMMA WebhookInit == Init => IInv
  BY WebhookAssumption
  DEF Init, IInv, TypeOK, BusyHasEvent, WorkingIsClaimed, RepliedIsHandled, ClaimExclusive,
      SpareEffect, RepeatsNeedLateFailure, ClaimsAccountedFor, Working, Phases

LEMMA WebhookNext == IInv /\ [Next]_vars => IInv'
<1> SUFFICES ASSUME IInv, [Next]_vars PROVE IInv'
  OBVIOUS
<1> USE WebhookAssumption
    DEF IInv, TypeOK, BusyHasEvent, WorkingIsClaimed, RepliedIsHandled, ClaimExclusive,
        SpareEffect, RepeatsNeedLateFailure, ClaimsAccountedFor, Working,
        Phases, Goto, Return, line, history
<1>1. ASSUME NEW e \in Events, Callback(e) PROVE IInv'
  BY <1>1 DEF Callback
<1>2. ASSUME NEW t \in Threads, NEW e \in Events, Begin(t, e) PROVE IInv'
  BY <1>2 DEF Begin
<1>3. ASSUME NEW t \in Threads, Claim(t) PROVE IInv'
  BY <1>3 DEF Claim
<1>4. ASSUME NEW t \in Threads, SkipDuplicate(t) PROVE IInv'
  BY <1>4 DEF SkipDuplicate
<1>5. ASSUME NEW t \in Threads, ClaimFails(t) PROVE IInv'
  BY <1>5 DEF ClaimFails
<1>6. ASSUME NEW t \in Threads, NoEffect(t) PROVE IInv'
  BY <1>6 DEF NoEffect
<1>7. ASSUME NEW t \in Threads, Commit(t) PROVE IInv'
  BY <1>7 DEF Commit
<1>8. ASSUME NEW t \in Threads, FailBefore(t) PROVE IInv'
  BY <1>8 DEF FailBefore
<1>9. ASSUME NEW t \in Threads, Reply(t) PROVE IInv'
  BY <1>9 DEF Reply
<1>10. ASSUME NEW t \in Threads, FailAfter(t) PROVE IInv'
  BY <1>10 DEF FailAfter
<1>11. ASSUME NEW t \in Threads, Release(t) PROVE IInv'
  BY <1>11 DEF Release
<1>12. ASSUME NEW t \in Threads, ReleaseFails(t) PROVE IInv'
  BY <1>12 DEF ReleaseFails
<1>13. ASSUME Crash PROVE IInv'
  BY <1>13 DEF Crash
<1>14. ASSUME UNCHANGED vars PROVE IInv'
  BY <1>14 DEF vars, pool
<1> QED
  BY <1>1, <1>2, <1>3, <1>4, <1>5, <1>6, <1>7, <1>8, <1>9, <1>10, <1>11,
     <1>12, <1>13, <1>14 DEF Next, ThreadNext

\* The inductive invariant holds in every reachable state.
THEOREM WebhookInvariant == Spec => []IInv
<1>1. Init => IInv
  BY WebhookInit
<1>2. IInv /\ [Next]_vars => IInv'
  BY WebhookNext
<1> QED
  BY <1>1, <1>2, PTL DEF Spec

\* The rows of webhook_events and the pool stay well typed.
THEOREM WebhookTypes == Spec => []TypeOK
  BY WebhookInvariant, PTL DEF IInv

\* handle_message: the row in webhook_events excludes a second thread.
THEOREM WebhookClaimExclusive == Spec => []ClaimExclusive
  BY WebhookInvariant, PTL DEF IInv

\* handle_message: only an exception after a commit can repeat a command.
THEOREM WebhookRepeats == Spec => []RepeatsNeedLateFailure
  BY WebhookInvariant, PTL DEF IInv

\* claim_webhook_event, release_webhook_event: no claim without a reason.
THEOREM WebhookClaims == Spec => []ClaimsAccountedFor
  BY WebhookInvariant, PTL DEF IInv
-----------------------------------------------------------------------------
(* LinePush *)

\* Who sleeps has attempts left.
SleepersMayRetry == \A c \in Calls : push[c] = "sleeping" => attempt[c] < MaxRetries

\* The copies of a call are counted by its one retry key.
CopiesByKey == \A c \in Calls : copies[c] = IF Push!Key(c, 1) \in accepted THEN 1 ELSE 0

\* A call that ended well has had its key accepted.
SentIsAccepted == \A c \in Calls : push[c] = "sent" => Push!Key(c, 1) \in accepted

PushInv ==
    /\ Push!TypeOK
    /\ SleepersMayRetry
    /\ CopiesByKey
    /\ SentIsAccepted

LEMMA PushInit == Push!Init => PushInv
  BY PushAssumption
  DEF Push!Init, PushInv, Push!TypeOK, Push!Attempts, SleepersMayRetry, CopiesByKey,
      SentIsAccepted

\* One key for all attempts of a call, and another one for each call.
LEMMA KeysOfCalls ==
    ASSUME NEW c \in Calls, NEW d \in Calls, NEW a, NEW b
    PROVE  Push!Key(c, a) = Push!Key(d, b) <=> c = d
  BY DEF Push!Key

\* What the loop makes of an answer keeps the limit of attempts.
LEMMA HandleMoves ==
    ASSUME PushInv, NEW c \in Calls, NEW answer, Push!Handle(c, answer)
    PROVE  /\ push' \in [Calls -> {"ready", "waiting", "sleeping"} \cup Push!Returned]
           /\ \A d \in Calls \ {c} : push'[d] = push[d]
           /\ push'[c] = "sleeping" => attempt[c] < MaxRetries
           /\ push'[c] = "sent" => answer \in Push!AcceptedAnswers
<1>1. attempt[c] \in Nat /\ MaxRetries \in Nat
  BY PushAssumption DEF PushInv, Push!TypeOK, Push!Attempts
<1> QED
  BY <1>1
  DEF PushInv, Push!TypeOK, Push!Handle, Push!Exhausted, Push!Returned,
      Push!AcceptedAnswers

LEMMA PushNext == PushInv /\ [Push!Next]_(Push!vars) => PushInv'
<1> SUFFICES ASSUME PushInv, [Push!Next]_(Push!vars) PROVE PushInv'
  OBVIOUS
<1> USE DEF PushInv
<1>1. ASSUME NEW c \in Calls, Push!Attempt(c) PROVE PushInv'
  BY <1>1
  DEF Push!Attempt, Push!TypeOK, SleepersMayRetry, CopiesByKey, SentIsAccepted,
      Push!Returned
<1>2. ASSUME NEW c \in Calls, Push!NoAnswer(c) PROVE PushInv'
  <2>1. Push!Handle(c, "transient") /\ UNCHANGED <<attempt, flying, accepted, copies>>
    BY <1>2 DEF Push!NoAnswer
  <2> QED
    BY <2>1, HandleMoves
    DEF Push!TypeOK, SleepersMayRetry, CopiesByKey, SentIsAccepted, Push!AcceptedAnswers
<1>3. ASSUME NEW c \in Calls, Push!Wake(c) PROVE PushInv'
  BY <1>3, PushAssumption
  DEF Push!Wake, Push!TypeOK, Push!Attempts, SleepersMayRetry, CopiesByKey,
      SentIsAccepted, Push!Returned
<1>4. ASSUME NEW c \in Calls, NEW a \in Push!Attempts, Push!RequestLost(c, a) PROVE PushInv'
  BY <1>4 DEF Push!RequestLost, Push!TypeOK, SleepersMayRetry, CopiesByKey, SentIsAccepted
<1>5. ASSUME NEW c \in Calls, NEW a \in Push!Attempts, Push!LineAnswers(c, a) PROVE PushInv'
  <2>1. PICK answer \in {"ok", "conflict", "refused", "transient"}, take \in BOOLEAN :
           /\ Push!Key(c, a) \in accepted => answer \in {"conflict", "transient"} /\ ~take
           /\ Push!Key(c, a) \notin accepted =>
                 /\ answer # "conflict"
                 /\ answer = "ok" => take
                 /\ answer = "refused" => ~take
           /\ IF take
              THEN /\ accepted' = accepted \cup {Push!Key(c, a)}
                   /\ copies' = [copies EXCEPT ![c] = @ + 1]
              ELSE UNCHANGED <<accepted, copies>>
           /\ \/ push[c] = "waiting" /\ attempt[c] = a /\ Push!Handle(c, answer)
              \/ UNCHANGED push
    BY <1>5 DEF Push!LineAnswers
  <2>2. attempt' = attempt /\ flying' = [flying EXCEPT ![c] = @ \ {a}]
    BY <1>5 DEF Push!LineAnswers
  <2>3. CopiesByKey' /\ accepted \subseteq accepted' /\ copies' \in [Calls -> Nat]
        /\ accepted' \subseteq Push!Keys
    <3>3. Push!Key(c, a) \in Push!Keys
      BY DEF Push!Keys
    <3>1. CASE take
      <4>1. Push!Key(c, a) \notin accepted /\ Push!Key(c, a) = Push!Key(c, 1)
        BY <2>1, <3>1, KeysOfCalls
      <4>2. accepted' = accepted \cup {Push!Key(c, a)} /\ copies' = [copies EXCEPT ![c] = @ + 1]
        BY <2>1, <3>1
      <4>3. \A d \in Calls \ {c} : Push!Key(d, 1) \in accepted' <=> Push!Key(d, 1) \in accepted
        BY <4>2, KeysOfCalls
      <4> QED
        BY <3>3, <4>1, <4>2, <4>3 DEF CopiesByKey, Push!TypeOK
    <3>2. CASE ~take
      BY <2>1, <3>2 DEF CopiesByKey, Push!TypeOK
    <3> QED
      BY <3>1, <3>2
  <2>4. answer \in Push!AcceptedAnswers => Push!Key(c, 1) \in accepted'
    <3>1. Push!Key(c, a) = Push!Key(c, 1)
      BY KeysOfCalls
    <3>2. answer = "ok" \/ answer = "conflict" => Push!Key(c, a) \in accepted'
      BY <2>1
    <3> QED
      BY <3>1, <3>2 DEF Push!AcceptedAnswers
  <2>5. /\ push' \in [Calls -> {"ready", "waiting", "sleeping"} \cup Push!Returned]
        /\ SleepersMayRetry' /\ SentIsAccepted'
    <3>1. CASE Push!Handle(c, answer)
      BY <2>2, <2>3, <2>4, <3>1, HandleMoves DEF SleepersMayRetry, SentIsAccepted
    <3>2. CASE push' = push
      BY <2>2, <2>3, <3>2 DEF SleepersMayRetry, SentIsAccepted, Push!TypeOK
    <3> QED
      BY <2>1, <3>1, <3>2
  <2> QED
    BY <2>2, <2>3, <2>5 DEF Push!TypeOK
<1>6. CASE UNCHANGED Push!vars
  BY <1>6 DEF Push!vars, Push!TypeOK, SleepersMayRetry, CopiesByKey, SentIsAccepted
<1> QED
  BY <1>1, <1>2, <1>3, <1>4, <1>5, <1>6 DEF Push!Next

\* The inductive invariant of the pushes holds in every reachable state.
THEOREM PushInvariant == Push!Spec => []PushInv
  BY PushInit, PushNext, PTL DEF Push!Spec
-----------------------------------------------------------------------------
(* RateLimits: counting rows *)

Count(f, S) == Cardinality(Limits!RowsOf(f, S))
Counters == [Limits!Time -> Nat]

LEMMA RowsOfMember ==
    ASSUME NEW f, NEW S, NEW p
    PROVE  p \in Limits!RowsOf(f, S) <=>
              \E s \in S, n \in Int : n \in 1..f[s] /\ p = <<s, n>>
<1>1. p \in Limits!RowsOf(f, S) <=> \E s \in S : p \in {s} \X (1..f[s])
  BY DEF Limits!RowsOf
<1>2. ASSUME NEW s
      PROVE  p \in {s} \X (1..f[s]) <=> \E n \in Int : n \in 1..f[s] /\ p = <<s, n>>
  OBVIOUS
<1> QED
  BY <1>1, <1>2

\* A table has finitely many rows.
LEMMA RowsFinite ==
    ASSUME NEW f \in Counters, NEW S \in SUBSET Limits!Time
    PROVE  IsFiniteSet(Limits!RowsOf(f, S)) /\ Count(f, S) \in Nat
<1> DEFINE Of(s) == {s} \X (1..f[s])
           All == {Of(s) : s \in S}
           g == [s \in S |-> Of(s)]
<1>1. IsFiniteSet(S)
  <2>1. IsFiniteSet(0..MaxTime)
    BY LimitsAssumption, FS_Interval
  <2> QED
    BY <2>1, FS_Subset DEF Limits!Time
<1>2. IsFiniteSet(All)
  <2>1. g \in Surjection(S, All)
    BY DEF Surjection
  <2> QED
    BY <1>1, <2>1, FS_Surjection
<1>3. \A T \in All : IsFiniteSet(T)
  <2> SUFFICES ASSUME NEW s \in S PROVE IsFiniteSet(Of(s))
    OBVIOUS
  <2>1. IsFiniteSet({s})
    BY FS_Singleton
  <2>2. f[s] \in Int
    BY DEF Counters
  <2>3. IsFiniteSet(1..f[s])
    BY <2>2, FS_Interval
  <2> QED
    BY <2>1, <2>3, FS_Product
<1>4. IsFiniteSet(UNION All)
  BY <1>2, <1>3, FS_UNION
<1> QED
  BY <1>4, FS_CardinalityType DEF Count, Limits!RowsOf

\* Fewer rows, of fewer moments.
LEMMA RowsFewer ==
    ASSUME NEW f \in Counters, NEW g \in Counters,
           NEW S \in SUBSET Limits!Time, NEW T \in SUBSET Limits!Time,
           \A s \in S : f[s] # 0 => s \in T /\ f[s] <= g[s]
    PROVE  Count(f, S) <= Count(g, T)
<1>1. ASSUME NEW p \in Limits!RowsOf(f, S) PROVE p \in Limits!RowsOf(g, T)
  <2>1. PICK s \in S, n \in Int : n \in 1..f[s] /\ p = <<s, n>>
    BY RowsOfMember
  <2>2. f[s] \in Nat /\ g[s] \in Nat
    BY DEF Counters
  <2>3. s \in T /\ n \in 1..g[s]
    BY <2>1, <2>2
  <2> QED
    BY <2>1, <2>3, RowsOfMember
<1> QED
  BY <1>1, RowsFinite, FS_Subset DEF Count

\* One more row of a moment.
LEMMA RowsMore ==
    ASSUME NEW f \in Counters, NEW S \in SUBSET Limits!Time, NEW t \in Limits!Time
    PROVE  /\ Limits!More(f, t) \in Counters
           /\ Count(Limits!More(f, t), S) = Count(f, S) + (IF t \in S THEN 1 ELSE 0)
<1> DEFINE h == Limits!More(f, t)
           new == <<t, f[t] + 1>>
<1>1. /\ h \in Counters /\ f[t] \in Nat /\ h[t] = f[t] + 1
      /\ \A s \in Limits!Time \ {t} : h[s] = f[s]
  BY DEF Limits!More, Counters
<1>2. CASE t \in S
  <2>1. ASSUME NEW p
        PROVE  p \in Limits!RowsOf(h, S) <=> p \in Limits!RowsOf(f, S) \/ p = new
    <3>1. ASSUME p \in Limits!RowsOf(h, S) PROVE p \in Limits!RowsOf(f, S) \/ p = new
      <4>1. PICK s \in S, n \in Int : n \in 1..h[s] /\ p = <<s, n>>
        BY <3>1, RowsOfMember
      <4>2. n \in 1..f[s] \/ (s = t /\ n = f[t] + 1)
        BY <1>1, <4>1
      <4> QED
        BY <4>1, <4>2, RowsOfMember
    <3>2. ASSUME p \in Limits!RowsOf(f, S) PROVE p \in Limits!RowsOf(h, S)
      <4>1. PICK s \in S, n \in Int : n \in 1..f[s] /\ p = <<s, n>>
        BY <3>2, RowsOfMember
      <4>2. n \in 1..h[s]
        BY <1>1, <4>1
      <4> QED
        BY <4>1, <4>2, RowsOfMember
    <3>3. new \in Limits!RowsOf(h, S)
      <4>1. f[t] + 1 \in 1..h[t]
        BY <1>1
      <4> QED
        BY <1>2, <4>1, RowsOfMember
    <3> QED
      BY <3>1, <3>2, <3>3
  <2>2. Limits!RowsOf(h, S) = Limits!RowsOf(f, S) \cup {new}
    BY <2>1
  <2>3. new \notin Limits!RowsOf(f, S)
    <3> SUFFICES ASSUME NEW s \in S, NEW n \in Int, n \in 1..f[s], new = <<s, n>>
                 PROVE  FALSE
      BY RowsOfMember
    <3> QED
      BY <1>1
  <2>4. IsFiniteSet(Limits!RowsOf(f, S))
    BY RowsFinite
  <2>5. Cardinality(Limits!RowsOf(f, S) \cup {new}) = Cardinality(Limits!RowsOf(f, S)) + 1
    BY <2>3, <2>4, FS_AddElement
  <2>6. Count(h, S) = Count(f, S) + 1
    BY <2>2, <2>5 DEF Count
  <2> QED
    BY <1>1, <1>2, <2>6
<1>3. CASE t \notin S
  <2>1. \A s \in S : h[s] = f[s]
    BY <1>1, <1>3
  <2>2. \A p : p \in Limits!RowsOf(h, S) <=> p \in Limits!RowsOf(f, S)
    <3> SUFFICES ASSUME NEW p
                 PROVE  p \in Limits!RowsOf(h, S) <=> p \in Limits!RowsOf(f, S)
      OBVIOUS
    <3> HIDE DEF h
    <3> QED
      BY <2>1, RowsOfMember
  <2>3. Count(h, S) = Count(f, S)
    BY <2>2 DEF Count
  <2>4. Count(f, S) \in Nat
    BY RowsFinite
  <2> QED
    BY <1>1, <1>3, <2>3, <2>4
<1> QED
  BY <1>2, <1>3

\* The rows of two sets of moments together.
LEMMA RowsUnion ==
    ASSUME NEW f \in Counters, NEW S \in SUBSET Limits!Time, NEW T \in SUBSET Limits!Time
    PROVE  Count(f, S \cup T) <= Count(f, S) + Count(f, T)
<1> DEFINE A == Limits!RowsOf(f, S)
           B == Limits!RowsOf(f, T)
<1>1. \A p : p \in Limits!RowsOf(f, S \cup T) <=> p \in A \cup B
  BY RowsOfMember
<1>2. IsFiniteSet(A) /\ IsFiniteSet(B) /\ Cardinality(A) \in Nat /\ Cardinality(B) \in Nat
  BY RowsFinite DEF Count
<1>3. Cardinality(A \cup B) = Cardinality(A) + Cardinality(B) - Cardinality(A \cap B)
  BY <1>2, FS_Union
<1>4. Cardinality(A \cap B) \in Nat
  BY <1>2, FS_Intersection, FS_CardinalityType
<1>5. Count(f, S \cup T) = Cardinality(A \cup B)
  BY <1>1 DEF Count
<1>6. Count(f, S) = Cardinality(A) /\ Count(f, T) = Cardinality(B)
  BY DEF Count
<1> HIDE DEF A, B
<1> QED
  BY <1>2, <1>3, <1>4, <1>5, <1>6

\* No rows.
LEMMA RowsNone ==
    ASSUME NEW f, NEW S, \A s \in S : f[s] = 0
    PROVE  Count(f, S) = 0
<1>1. Limits!RowsOf(f, S) = {}
  <2> SUFFICES ASSUME NEW p \in Limits!RowsOf(f, S) PROVE FALSE
    OBVIOUS
  <2>1. PICK s \in S, n \in Int : n \in 1..f[s] /\ p = <<s, n>>
    BY RowsOfMember
  <2> QED
    BY <2>1
<1> QED
  BY <1>1, FS_EmptySet DEF Count

\* A window is a set of moments.
LEMMA WindowIsCounted ==
    ASSUME NEW f, NEW t
    PROVE  /\ Limits!InWindow(f, t) = Count(f, Limits!WindowTo(t))
           /\ Limits!WindowTo(t) \in SUBSET Limits!Time
<1>1. Limits!WindowTo(t) \subseteq Limits!Time
  BY DEF Limits!WindowTo
<1>2. Limits!Cardinality(Limits!RowsOf(f, Limits!WindowTo(t)))
        = Cardinality(Limits!RowsOf(f, Limits!WindowTo(t)))
  BY DEF Limits!Cardinality, Cardinality
<1> QED
  BY <1>1, <1>2 DEF Limits!InWindow, Count
-----------------------------------------------------------------------------
(* RateLimits: all limiters *)

\* Nothing is stamped with a moment to come.
NothingAhead ==
    /\ \A s \in Limits!Time : s > now => records[s] = 0 /\ granted[s] = 0 /\ spent[s] = 0
    /\ \A r \in Requests : stamp[r] <= now /\ checked[r] <= now
    /\ refused <= now

\* Each limiter has steps of its own.
StepsOfLimiter ==
    \A r \in Requests :
        /\ where[r] \in {"try", "record"} => limiter = "login"
        /\ where[r] \in {"arrived", "insert"} => limiter = "table"

LimitsBasics == Limits!TypeOK /\ NothingAhead /\ StepsOfLimiter

\* The types in the form the lemmas about rows take them.
LEMMA BasicTypes ==
    ASSUME LimitsBasics
    PROVE  /\ records \in Counters /\ granted \in Counters /\ spent \in Counters
           /\ now \in Limits!Time /\ now \in Int /\ Limits!Time \subseteq Int
           /\ stamp \in [Requests -> Limits!Time] /\ checked \in [Requests -> Limits!Time]
           /\ counter \in 0..(Limit + 1) /\ expiry \in Int
           /\ Limit \in Int /\ Limit >= 1 /\ Window \in Int /\ Window >= 1
           /\ Day \in Int /\ Window <= Day /\ Cardinality(Requests) \in Nat
<1>1. Cardinality(Requests) \in Nat
  BY LimitsAssumption, FS_CardinalityType
<1> QED
  BY <1>1, LimitsAssumption DEF LimitsBasics, Limits!TypeOK, Counters, Limits!Time

LEMMA BasicsInit == Limits!Init => LimitsBasics
  BY LimitsAssumption
  DEF Limits!Init, LimitsBasics, Limits!TypeOK, NothingAhead, StepsOfLimiter, Limits!Time,
      Limits!Never

\* A request that is answered leaves the lines of all limiters.
LEMMA BasicsDone ==
    ASSUME LimitsBasics, NEW r \in Requests, Limits!Done(r)
    PROVE  /\ where' \in [Requests -> {"idle", "try", "record", "arrived", "insert"}]
           /\ stamp' \in [Requests -> Limits!Time] /\ checked' \in [Requests -> Limits!Time]
           /\ where'[r] = "idle"
           /\ \A q \in Requests : /\ stamp'[q] <= now /\ checked'[q] <= now
                                  /\ where'[q] # "idle" => /\ q # r /\ where'[q] = where[q]
                                                           /\ stamp'[q] = stamp[q]
                                                           /\ checked'[q] = checked[q]
  BY LimitsAssumption
  DEF LimitsBasics, Limits!TypeOK, NothingAhead, Limits!Done, Limits!Goto, Limits!Time

\* A row is added at a moment that has come.
LEMMA BasicsMore ==
    ASSUME LimitsBasics, NEW f \in Counters, NEW t \in Limits!Time, t <= now,
           \A s \in Limits!Time : s > now => f[s] = 0
    PROVE  /\ Limits!More(f, t) \in Counters
           /\ \A s \in Limits!Time : s > now => Limits!More(f, t)[s] = 0
           /\ \A s \in Limits!Time :
                 Limits!More(f, t)[s] = IF s = t THEN f[s] + 1 ELSE f[s]
  BY BasicTypes DEF Limits!More, Counters

LEMMA BasicsNext == LimitsBasics /\ [Limits!Next]_(Limits!vars) => LimitsBasics'
<1> SUFFICES ASSUME LimitsBasics, [Limits!Next]_(Limits!vars) PROVE LimitsBasics'
  OBVIOUS
<1> USE LimitsAssumption DEF Limits!redis, Limits!history
<1>0. /\ records \in Counters /\ granted \in Counters /\ spent \in Counters
      /\ now \in Limits!Time
  BY BasicTypes
<1>1. ASSUME Limits!Tick PROVE LimitsBasics'
  <2>1. Limits!TypeOK'
    BY <1>1 DEF Limits!Tick, LimitsBasics, Limits!TypeOK, Limits!Time
  <2>2. NothingAhead'
    BY <1>1
    DEF Limits!Tick, LimitsBasics, Limits!TypeOK, NothingAhead,
        Limits!Time, Limits!Never
  <2>3. StepsOfLimiter'
    BY <1>1 DEF Limits!Tick, LimitsBasics, Limits!TypeOK, StepsOfLimiter
  <2> QED
    BY <2>1, <2>2, <2>3 DEF LimitsBasics
<1>2. ASSUME Limits!Cleanup PROVE LimitsBasics'
  BY <1>2
  DEF Limits!Cleanup, LimitsBasics, Limits!TypeOK, NothingAhead, StepsOfLimiter,
      Limits!Time
<1>3. ASSUME NEW r \in Requests, Limits!LoginCheck(r) PROVE LimitsBasics'
  BY <1>3
  DEF Limits!LoginCheck, Limits!Goto, LimitsBasics, Limits!TypeOK, NothingAhead,
      StepsOfLimiter
<1>4. ASSUME NEW r \in Requests, Limits!LoginWrong(r) PROVE LimitsBasics'
  <2>1. Limits!TypeOK'
    BY <1>4 DEF Limits!LoginWrong, Limits!Goto, LimitsBasics, Limits!TypeOK, Limits!Time
  <2>2. NothingAhead'
    BY <1>4
    DEF Limits!LoginWrong, Limits!Goto, LimitsBasics, Limits!TypeOK, NothingAhead,
        Limits!Time, Limits!Never
  <2>3. StepsOfLimiter'
    BY <1>4
    DEF Limits!LoginWrong, Limits!Goto, LimitsBasics, Limits!TypeOK, StepsOfLimiter
  <2> QED
    BY <2>1, <2>2, <2>3 DEF LimitsBasics
<1>5. ASSUME NEW r \in Requests, Limits!RecordFailure(r) PROVE LimitsBasics'
  <2>1. records' = Limits!More(records, now) /\ granted' = Limits!More(granted, stamp[r])
        /\ Limits!Done(r) /\ UNCHANGED <<now, limiter, counter, expiry, spent, refused>>
    BY <1>5 DEF Limits!RecordFailure
  <2>2. stamp[r] \in Limits!Time /\ stamp[r] <= now /\ now <= now
    BY DEF LimitsBasics, Limits!TypeOK, NothingAhead, Limits!Time
  <2>3. \A s \in Limits!Time : s > now => records[s] = 0 /\ granted[s] = 0
    BY DEF LimitsBasics, NothingAhead
  <2>4. /\ records' \in Counters /\ granted' \in Counters
        /\ \A s \in Limits!Time : s > now => records'[s] = 0 /\ granted'[s] = 0
    BY <1>0, <2>1, <2>2, <2>3, BasicsMore
  <2> QED
    BY <2>1, <2>4, BasicsDone
    DEF LimitsBasics, Limits!TypeOK, NothingAhead, StepsOfLimiter, Counters
<1>6. ASSUME NEW r \in Requests, Limits!Arrive(r) PROVE LimitsBasics'
  <2>1. Limits!TypeOK'
    BY <1>6 DEF Limits!Arrive, Limits!Goto, LimitsBasics, Limits!TypeOK, Limits!Time
  <2>2. NothingAhead'
    BY <1>6
    DEF Limits!Arrive, Limits!Goto, LimitsBasics, Limits!TypeOK, NothingAhead,
        Limits!Time, Limits!Never
  <2>3. StepsOfLimiter'
    BY <1>6 DEF Limits!Arrive, Limits!Goto, LimitsBasics, Limits!TypeOK, StepsOfLimiter
  <2> QED
    BY <2>1, <2>2, <2>3 DEF LimitsBasics
<1>7. ASSUME NEW r \in Requests, Limits!Done(r),
             UNCHANGED <<now, limiter, records, counter, expiry, granted, spent, refused>>
      PROVE  LimitsBasics'
  BY <1>7, BasicsDone DEF LimitsBasics, Limits!TypeOK, NothingAhead, StepsOfLimiter
<1>8. ASSUME NEW r \in Requests, Limits!Count(r) PROVE LimitsBasics'
  <2>1. CASE Limits!InWindow(records, now) < Limit
    <3>0. /\ where' = [where EXCEPT ![r] = "insert"]
          /\ checked' = [checked EXCEPT ![r] = now]
          /\ where[r] = "arrived"
          /\ UNCHANGED <<now, limiter, records, counter, expiry, stamp, granted, spent,
                         refused>>
      BY <1>8, <2>1 DEF Limits!Count, Limits!Goto
    <3>1. Limits!TypeOK'
      BY <3>0 DEF LimitsBasics, Limits!TypeOK, Limits!Time
    <3>2. NothingAhead'
      <4>1. \A q \in Requests : checked'[q] <= now
        BY <3>0 DEF LimitsBasics, Limits!TypeOK, NothingAhead, Limits!Time
      <4> QED
        BY <3>0, <4>1 DEF LimitsBasics, NothingAhead
    <3>3. StepsOfLimiter'
      BY <3>0 DEF LimitsBasics, Limits!TypeOK, StepsOfLimiter
    <3> QED
      BY <3>1, <3>2, <3>3 DEF LimitsBasics
  <2>2. CASE ~(Limits!InWindow(records, now) < Limit)
    BY <1>7, <1>8, <2>2 DEF Limits!Count
  <2> QED
    BY <2>1, <2>2
<1>9. ASSUME NEW r \in Requests, Limits!InsertRecord(r) PROVE LimitsBasics'
  <2>1. /\ records' = Limits!More(records, stamp[r])
        /\ granted' = Limits!More(granted, stamp[r]) \/ granted' = granted
        /\ Limits!Done(r) /\ UNCHANGED <<now, limiter, counter, expiry, spent, refused>>
    BY <1>9 DEF Limits!InsertRecord
  <2>2. stamp[r] \in Limits!Time /\ stamp[r] <= now
    BY DEF LimitsBasics, Limits!TypeOK, NothingAhead
  <2>3. \A s \in Limits!Time : s > now => records[s] = 0 /\ granted[s] = 0
    BY DEF LimitsBasics, NothingAhead
  <2>4. /\ records' \in Counters /\ granted' \in Counters
        /\ \A s \in Limits!Time : s > now => records'[s] = 0 /\ granted'[s] = 0
    BY <1>0, <2>1, <2>2, <2>3, BasicsMore
  <2> QED
    BY <2>1, <2>4, BasicsDone
    DEF LimitsBasics, Limits!TypeOK, NothingAhead, StepsOfLimiter, Counters
<1>10. ASSUME NEW r \in Requests, Limits!Hit(r) PROVE LimitsBasics'
  <2>1. /\ counter' = Limits!Incremented
        /\ expiry' = expiry \/ expiry' = now + Window
        /\ spent' = spent \/ spent' = Limits!More(spent, now)
        /\ granted' = granted \/ granted' = Limits!More(granted, now)
        /\ refused' = refused \/ refused' = now
        /\ UNCHANGED <<now, limiter, records, where, stamp, checked>>
    BY <1>10 DEF Limits!Hit, Limits!Judge
  <2>2. \A s \in Limits!Time : s > now => granted[s] = 0 /\ spent[s] = 0
    BY DEF LimitsBasics, NothingAhead
  <2>3. now <= now
    BY DEF LimitsBasics, Limits!TypeOK, Limits!Time
  <2>4. /\ spent' \in Counters /\ granted' \in Counters
        /\ \A s \in Limits!Time : s > now => spent'[s] = 0 /\ granted'[s] = 0
    BY <1>0, <2>1, <2>2, <2>3, BasicsMore
  <2>5. counter' \in 0..(Limit + 1)
    BY <2>1 DEF Limits!Incremented, LimitsBasics, Limits!TypeOK
  <2>6. expiry' \in 0..(MaxTime + Window)
    BY <2>1 DEF LimitsBasics, Limits!TypeOK, Limits!Time
  <2>7. refused' \in Limits!Time \cup {Limits!Never} /\ refused' <= now
    BY <2>1, <2>3 DEF LimitsBasics, Limits!TypeOK, NothingAhead
  <2>8. Limits!TypeOK'
    BY <2>1, <2>4, <2>5, <2>6, <2>7 DEF LimitsBasics, Limits!TypeOK, Counters, Limits!Time
  <2>9. NothingAhead' /\ StepsOfLimiter'
    BY <2>1, <2>4, <2>7 DEF LimitsBasics, NothingAhead, StepsOfLimiter, Limits!Time
  <2> QED
    BY <2>8, <2>9 DEF LimitsBasics
<1>11. ASSUME NEW r \in Requests, Limits!GiveUp(r) PROVE LimitsBasics'
  BY <1>7, <1>11 DEF Limits!GiveUp
<1>12. ASSUME UNCHANGED Limits!vars PROVE LimitsBasics'
  BY <1>12 DEF Limits!vars, LimitsBasics, Limits!TypeOK, NothingAhead, StepsOfLimiter
<1> QED
  BY <1>1, <1>2, <1>3, <1>4, <1>5, <1>6, <1>8, <1>9, <1>10, <1>11, <1>12 DEF Limits!Next
-----------------------------------------------------------------------------
(* RateLimits: the login *)

After(a) == {s \in Limits!Time : s > a}

\* Whatever was tried after a moment was recorded after it, and those records are
\* still there.
TriesAreRecorded ==
    \A a \in Int : a >= now - Day => Count(granted, After(a)) <= Count(records, After(a))

\* The attempts under way that may still fall into the window that ends with t.
MayLand(t) ==
    {r \in Requests : \/ where[r] = "try" /\ now <= t
                      \/ where[r] = "record" /\ stamp[r] \in Limits!WindowTo(t)}

\* A window has room for them.
RoomForTries ==
    \A t \in Limits!Time :
        Count(granted, Limits!WindowTo(t)) + Cardinality(MayLand(t))
            < Limit + Cardinality(Requests)

LoginInv == limiter = "login" => TriesAreRecorded /\ RoomForTries

LEMMA LoginInit == Limits!Init => LoginInv
<1> SUFFICES ASSUME Limits!Init PROVE TriesAreRecorded /\ RoomForTries
  BY DEF LoginInv
<1>1. \A s \in Limits!Time : granted[s] = 0 /\ records[s] = 0
  BY DEF Limits!Init
<1>2. LimitsBasics
  BY BasicsInit
<1>3. TriesAreRecorded
  <2> SUFFICES ASSUME NEW a \in Int
               PROVE  Count(granted, After(a)) <= Count(records, After(a))
    BY DEF TriesAreRecorded
  <2>1. Count(granted, After(a)) = 0 /\ Count(records, After(a)) = 0
    BY <1>1, RowsNone DEF After
  <2> QED
    BY <2>1
<1>4. RoomForTries
  <2> SUFFICES ASSUME NEW t \in Limits!Time
               PROVE  Count(granted, Limits!WindowTo(t)) + Cardinality(MayLand(t))
                        < Limit + Cardinality(Requests)
    BY DEF RoomForTries
  <2>1. Count(granted, Limits!WindowTo(t)) = 0
    BY <1>1, RowsNone DEF Limits!WindowTo
  <2>2. MayLand(t) = {}
    BY DEF MayLand, Limits!Init
  <2>3. Cardinality(MayLand(t)) = 0
    BY <2>2, FS_EmptySet
  <2> QED
    BY <1>2, <2>1, <2>3, BasicTypes
<1> QED
  BY <1>3, <1>4

\* As long as nothing is granted, fewer attempts under way need less room.
LEMMA RoomStays ==
    ASSUME LimitsBasics, RoomForTries, granted' = granted,
           \A t \in Limits!Time : MayLand(t)' \subseteq MayLand(t)
    PROVE  RoomForTries'
<1> SUFFICES ASSUME NEW t \in Limits!Time
             PROVE  Count(granted', Limits!WindowTo(t)) + Cardinality(MayLand(t)')
                      < Limit + Cardinality(Requests)
  BY DEF RoomForTries
<1>1. IsFiniteSet(MayLand(t))
  BY LimitsAssumption, FS_Subset DEF MayLand
<1>2. /\ Cardinality(MayLand(t)') <= Cardinality(MayLand(t))
      /\ IsFiniteSet(MayLand(t)')
  BY <1>1, FS_Subset
<1>3. Cardinality(MayLand(t)) \in Nat /\ Cardinality(MayLand(t)') \in Nat
  BY <1>1, <1>2, FS_CardinalityType
<1>4. Count(granted, Limits!WindowTo(t)) \in Nat
  BY BasicTypes, RowsFinite, WindowIsCounted
<1>5. Count(granted, Limits!WindowTo(t)) + Cardinality(MayLand(t))
        < Limit + Cardinality(Requests)
  BY DEF RoomForTries
<1> QED
  BY <1>2, <1>3, <1>4, <1>5, BasicTypes

\* Whoever passes the check finds fewer than Limit attempts that matter from now on.
LEMMA CheckFindsRoom ==
    ASSUME LimitsBasics, TriesAreRecorded, Limits!InWindow(records, now) < Limit,
           NEW t \in Limits!Time, now <= t
    PROVE  Count(granted, Limits!WindowTo(t)) < Limit
<1>1. t \in Int /\ t - Window \in Int /\ t - Window >= now - Day
  BY BasicTypes
<1>2. After(t - Window) \in SUBSET Limits!Time
  BY DEF After
<1>3. Count(granted, Limits!WindowTo(t)) <= Count(granted, After(t - Window))
  <2>1. \A s \in Limits!WindowTo(t) : s \in After(t - Window) /\ granted[s] <= granted[s]
    BY BasicTypes DEF Limits!WindowTo, After, Counters
  <2> QED
    BY <1>2, <2>1, BasicTypes, RowsFewer, WindowIsCounted
<1>4. Count(granted, After(t - Window)) <= Count(records, After(t - Window))
  BY <1>1 DEF TriesAreRecorded
<1>5. Count(records, After(t - Window)) <= Count(records, Limits!WindowTo(now))
  <2>1. ASSUME NEW s \in After(t - Window), records[s] # 0
        PROVE  s \in Limits!WindowTo(now) /\ records[s] <= records[s]
    <3>1. s \in Limits!Time /\ s > t - Window /\ s <= now
      BY <2>1, BasicTypes DEF After, LimitsBasics, NothingAhead
    <3> QED
      BY <1>1, <3>1, BasicTypes DEF Limits!WindowTo, Counters
  <2> QED
    BY <1>2, <2>1, BasicTypes, RowsFewer, WindowIsCounted
<1>6. Limits!InWindow(records, now) = Count(records, Limits!WindowTo(now))
  BY WindowIsCounted
<1>7. /\ Count(granted, Limits!WindowTo(t)) \in Nat
      /\ Count(granted, After(t - Window)) \in Nat
      /\ Count(records, After(t - Window)) \in Nat
      /\ Count(records, Limits!WindowTo(now)) \in Nat
  BY <1>2, BasicTypes, RowsFinite, WindowIsCounted
<1> QED
  BY <1>3, <1>4, <1>5, <1>6, <1>7, BasicTypes

LEMMA LoginNext ==
    ASSUME LimitsBasics, LimitsBasics', LoginInv, limiter = "login",
           [Limits!Next]_(Limits!vars)
    PROVE  LoginInv'
<1> USE DEF Limits!redis, Limits!history
<1>0. TriesAreRecorded /\ RoomForTries
  BY DEF LoginInv
<1>1. SUFFICES TriesAreRecorded' /\ RoomForTries'
  BY DEF LoginInv
<1>a. ASSUME UNCHANGED <<now, records, granted>> PROVE TriesAreRecorded'
  BY <1>0, <1>a DEF TriesAreRecorded
<1>2. CASE Limits!Tick
  <2>1. now' = now + 1 /\ UNCHANGED <<limiter, records, granted, where, stamp>>
    BY <1>2 DEF Limits!Tick
  <2>2. TriesAreRecorded'
    BY <1>0, <2>1, BasicTypes DEF TriesAreRecorded
  <2>3. \A t \in Limits!Time : MayLand(t)' \subseteq MayLand(t)
    BY <2>1, BasicTypes DEF MayLand
  <2> QED
    BY <1>0, <2>1, <2>2, <2>3, RoomStays
<1>3. CASE Limits!Cleanup
  <2>1. /\ records' = [t \in Limits!Time |-> IF t < now - Day THEN 0 ELSE records[t]]
        /\ UNCHANGED <<now, limiter, granted, where, stamp>>
    BY <1>3 DEF Limits!Cleanup
  <2>2. records' \in Counters
    BY BasicTypes, <2>1 DEF Counters
  <2>3. ASSUME NEW a \in Int, a >= now - Day
        PROVE  Count(granted, After(a)) <= Count(records', After(a))
    <3>1. After(a) \in SUBSET Limits!Time
      BY DEF After
    <3>2. \A s \in After(a) : s \in After(a) /\ records[s] <= records'[s]
      BY <2>1, <2>3, BasicTypes DEF After, Counters
    <3>3. Count(records, After(a)) <= Count(records', After(a))
      BY <2>2, <3>1, <3>2, BasicTypes, RowsFewer
    <3>4. Count(granted, After(a)) <= Count(records, After(a))
      BY <1>0, <2>3 DEF TriesAreRecorded
    <3>5. /\ Count(granted, After(a)) \in Nat /\ Count(records, After(a)) \in Nat
          /\ Count(records', After(a)) \in Nat
      BY <2>2, <3>1, BasicTypes, RowsFinite
    <3> QED
      BY <3>3, <3>4, <3>5
  <2>4. TriesAreRecorded'
    BY <2>1, <2>3 DEF TriesAreRecorded
  <2>5. \A t \in Limits!Time : MayLand(t)' \subseteq MayLand(t)
    BY <2>1 DEF MayLand
  <2> QED
    BY <1>0, <2>1, <2>4, <2>5, RoomStays
<1>4. ASSUME NEW r \in Requests, Limits!LoginCheck(r)
      PROVE  TriesAreRecorded' /\ RoomForTries'
  <2>1. /\ where[r] = "idle" /\ Limits!InWindow(records, now) < Limit
        /\ where' = [where EXCEPT ![r] = "try"]
        /\ UNCHANGED <<now, limiter, records, granted, stamp>>
    BY <1>4 DEF Limits!LoginCheck, Limits!Goto
  <2>2. ASSUME NEW t \in Limits!Time
        PROVE  Count(granted, Limits!WindowTo(t)) + Cardinality(MayLand(t)')
                 < Limit + Cardinality(Requests)
    <3>1. CASE now <= t
      <4>1. Count(granted, Limits!WindowTo(t)) < Limit
        BY <1>0, <2>1, <3>1, CheckFindsRoom
      <4>2. MayLand(t)' \in SUBSET Requests
        BY DEF MayLand
      <4>3. /\ Cardinality(MayLand(t)') <= Cardinality(Requests)
            /\ IsFiniteSet(MayLand(t)')
        BY <4>2, LimitsAssumption, FS_Subset
      <4>4. Cardinality(MayLand(t)') \in Nat /\ Count(granted, Limits!WindowTo(t)) \in Nat
        BY <4>3, FS_CardinalityType, BasicTypes, RowsFinite, WindowIsCounted
      <4> QED
        BY <4>1, <4>3, <4>4, BasicTypes
    <3>2. CASE ~(now <= t)
      <4>1. MayLand(t)' = MayLand(t)
        BY <2>1, <3>2 DEF MayLand, LimitsBasics, Limits!TypeOK
      <4> QED
        BY <1>0, <4>1 DEF RoomForTries
    <3> QED
      BY <3>1, <3>2
  <2> QED
    BY <1>a, <2>1, <2>2 DEF RoomForTries
<1>5. ASSUME NEW r \in Requests, Limits!LoginWrong(r)
      PROVE  TriesAreRecorded' /\ RoomForTries'
  <2>1. /\ where[r] = "try" /\ where' = [where EXCEPT ![r] = "record"]
        /\ stamp' = [stamp EXCEPT ![r] = now]
        /\ UNCHANGED <<now, limiter, records, granted>>
    BY <1>5 DEF Limits!LoginWrong, Limits!Goto
  <2>2. ASSUME NEW t \in Limits!Time, NEW q \in MayLand(t)' PROVE q \in MayLand(t)
    <3>1. q = r => now <= t
      BY <2>1 DEF MayLand, Limits!WindowTo, LimitsBasics, Limits!TypeOK
    <3> QED
      BY <2>1, <3>1 DEF MayLand, LimitsBasics, Limits!TypeOK
  <2> QED
    BY <1>0, <1>a, <2>1, <2>2, RoomStays
<1>6. ASSUME NEW r \in Requests, Limits!RecordFailure(r)
      PROVE  TriesAreRecorded' /\ RoomForTries'
  <2>1. /\ where[r] = "record" /\ Limits!Done(r)
        /\ records' = Limits!More(records, now)
        /\ granted' = Limits!More(granted, stamp[r])
        /\ UNCHANGED <<now, limiter>>
    BY <1>6 DEF Limits!RecordFailure
  <2>2. /\ stamp[r] \in Limits!Time /\ stamp[r] <= now /\ now \in Limits!Time
        /\ stamp[r] \in Int
    BY BasicTypes DEF LimitsBasics, NothingAhead
  <2>3. ASSUME NEW a \in Int, a >= now - Day
        PROVE  Count(granted', After(a)) <= Count(records', After(a))
    <3>1. After(a) \in SUBSET Limits!Time
      BY DEF After
    <3>2. Count(granted', After(a))
            = Count(granted, After(a)) + (IF stamp[r] \in After(a) THEN 1 ELSE 0)
      BY <2>1, <2>2, <3>1, BasicTypes, RowsMore
    <3>3. Count(records', After(a))
            = Count(records, After(a)) + (IF now \in After(a) THEN 1 ELSE 0)
      BY <2>1, <2>2, <3>1, BasicTypes, RowsMore
    <3>4. stamp[r] \in After(a) => now \in After(a)
      BY <2>2, BasicTypes DEF After
    <3>5. Count(granted, After(a)) <= Count(records, After(a))
      BY <1>0, <2>3 DEF TriesAreRecorded
    <3>6. Count(granted, After(a)) \in Nat /\ Count(records, After(a)) \in Nat
      BY <3>1, BasicTypes, RowsFinite
    <3> QED
      BY <3>2, <3>3, <3>4, <3>5, <3>6
  <2>4. TriesAreRecorded'
    BY <2>1, <2>3 DEF TriesAreRecorded
  <2>5. ASSUME NEW t \in Limits!Time
        PROVE  Count(granted', Limits!WindowTo(t)) + Cardinality(MayLand(t)')
                 < Limit + Cardinality(Requests)
    <3>1. Count(granted', Limits!WindowTo(t)) = Count(granted, Limits!WindowTo(t))
            + (IF stamp[r] \in Limits!WindowTo(t) THEN 1 ELSE 0)
      BY <2>1, <2>2, BasicTypes, RowsMore, WindowIsCounted
    <3>2. MayLand(t)' \subseteq MayLand(t) \ {r}
      BY <2>1, BasicsDone DEF MayLand
    <3>3. IsFiniteSet(MayLand(t))
      BY LimitsAssumption, FS_Subset DEF MayLand
    <3>4. IsFiniteSet(MayLand(t) \ {r}) /\ Cardinality(MayLand(t) \ {r})
            = IF r \in MayLand(t) THEN Cardinality(MayLand(t)) - 1
              ELSE Cardinality(MayLand(t))
      BY <3>3, FS_RemoveElement
    <3>5. Cardinality(MayLand(t)') <= Cardinality(MayLand(t) \ {r})
          /\ IsFiniteSet(MayLand(t)')
      BY <3>2, <3>4, FS_Subset
    <3>6. stamp[r] \in Limits!WindowTo(t) => r \in MayLand(t)
      BY <2>1 DEF MayLand
    <3>7. /\ Cardinality(MayLand(t)) \in Nat /\ Cardinality(MayLand(t)') \in Nat
          /\ Cardinality(MayLand(t) \ {r}) \in Nat
          /\ Count(granted, Limits!WindowTo(t)) \in Nat
      BY <3>3, <3>4, <3>5, FS_CardinalityType, BasicTypes, RowsFinite, WindowIsCounted
    <3>8. Count(granted, Limits!WindowTo(t)) + Cardinality(MayLand(t))
            < Limit + Cardinality(Requests)
      BY <1>0 DEF RoomForTries
    <3> QED
      BY <3>1, <3>4, <3>5, <3>6, <3>7, <3>8, BasicTypes
  <2> QED
    BY <2>4, <2>5 DEF RoomForTries
<1>7. ASSUME NEW r \in Requests, Limits!GiveUp(r)
      PROVE  TriesAreRecorded' /\ RoomForTries'
  <2>1. Limits!Done(r) /\ UNCHANGED <<now, limiter, records, granted>>
    BY <1>7 DEF Limits!GiveUp
  <2>2. \A t \in Limits!Time : MayLand(t)' \subseteq MayLand(t)
    BY <2>1, BasicsDone DEF MayLand
  <2> QED
    BY <1>0, <1>a, <2>1, <2>2, RoomStays
<1>8. CASE UNCHANGED Limits!vars
  <2>1. UNCHANGED <<now, limiter, records, granted, where, stamp>>
    BY <1>8 DEF Limits!vars
  <2>2. \A t \in Limits!Time : MayLand(t)' \subseteq MayLand(t)
    BY <2>1 DEF MayLand
  <2> QED
    BY <1>0, <1>a, <2>1, <2>2, RoomStays
<1>9. ASSUME NEW r \in Requests
      PROVE  ~(Limits!Arrive(r) \/ Limits!Count(r) \/ Limits!InsertRecord(r) \/ Limits!Hit(r))
  BY DEF LimitsBasics, StepsOfLimiter, Limits!Arrive, Limits!Count, Limits!InsertRecord,
         Limits!Hit
<1> QED
  BY <1>2, <1>3, <1>4, <1>5, <1>6, <1>7, <1>8, <1>9 DEF Limits!Next
-----------------------------------------------------------------------------
(* RateLimits: the table *)

\* What was let through is still in the table for as long as windows reach back.
GrantsAreRecorded ==
    \A s \in Limits!Time : s >= now - Day => granted[s] <= records[s]

\* The advisory lock.
OneInserts ==
    \A q, r \in Requests : where[q] = "insert" /\ where[r] = "insert" => q = r

\* Who is about to insert a row that counts has room for it in every window.
RoomForInsert ==
    \A r \in Requests : where[r] = "insert" /\ stamp[r] = checked[r] =>
        \A t \in Limits!Time :
            stamp[r] \in Limits!WindowTo(t) => Count(granted, Limits!WindowTo(t)) < Limit

WindowsWithin(f, bound) == \A t \in Limits!Time : Count(f, Limits!WindowTo(t)) <= bound

TableInv ==
    limiter = "table" =>
        GrantsAreRecorded /\ OneInserts /\ RoomForInsert /\ WindowsWithin(granted, Limit)

LEMMA TableInit == Limits!Init => TableInv
<1> SUFFICES ASSUME Limits!Init
             PROVE  /\ GrantsAreRecorded /\ OneInserts /\ RoomForInsert
                    /\ WindowsWithin(granted, Limit)
  BY DEF TableInv
<1>1. \A s \in Limits!Time : granted[s] = 0 /\ records[s] = 0
  BY DEF Limits!Init
<1>2. LimitsBasics
  BY BasicsInit
<1>3. \A r \in Requests : where[r] = "idle"
  BY DEF Limits!Init
<1>4. WindowsWithin(granted, Limit)
  <2> SUFFICES ASSUME NEW t \in Limits!Time
               PROVE  Count(granted, Limits!WindowTo(t)) <= Limit
    BY DEF WindowsWithin
  <2>1. Count(granted, Limits!WindowTo(t)) = 0
    BY <1>1, RowsNone DEF Limits!WindowTo
  <2> QED
    BY <1>2, <2>1, BasicTypes
<1> QED
  BY <1>1, <1>3, <1>4 DEF GrantsAreRecorded, OneInserts, RoomForInsert

\* Under the lock, the window that ends now stands for every window now is in.
LEMMA CountFindsRoom ==
    ASSUME LimitsBasics, GrantsAreRecorded, Limits!InWindow(records, now) < Limit,
           NEW t \in Limits!Time, now \in Limits!WindowTo(t)
    PROVE  Count(granted, Limits!WindowTo(t)) < Limit
<1>1. t \in Int /\ now <= t /\ t - Window < now /\ t - Window >= now - Day
  BY BasicTypes DEF Limits!WindowTo
<1>2. ASSUME NEW s \in Limits!WindowTo(t), granted[s] # 0
      PROVE  s \in Limits!WindowTo(now) /\ granted[s] <= records[s]
  <2>1. s \in Limits!Time /\ s > t - Window /\ s <= now
    BY <1>2, BasicTypes DEF Limits!WindowTo, LimitsBasics, NothingAhead
  <2>2. s > now - Window /\ s >= now - Day
    BY <1>1, <2>1, BasicTypes
  <2> QED
    BY <2>1, <2>2 DEF Limits!WindowTo, GrantsAreRecorded
<1>3. Count(granted, Limits!WindowTo(t)) <= Count(records, Limits!WindowTo(now))
  BY <1>2, BasicTypes, RowsFewer, WindowIsCounted
<1>4. Limits!InWindow(records, now) = Count(records, Limits!WindowTo(now))
  BY WindowIsCounted
<1>5. /\ Count(granted, Limits!WindowTo(t)) \in Nat
      /\ Count(records, Limits!WindowTo(now)) \in Nat
  BY BasicTypes, RowsFinite, WindowIsCounted
<1> QED
  BY <1>3, <1>4, <1>5, BasicTypes

LEMMA TableNext ==
    ASSUME LimitsBasics, LimitsBasics', TableInv, limiter = "table",
           [Limits!Next]_(Limits!vars)
    PROVE  TableInv'
<1> USE DEF Limits!redis, Limits!history
<1> DEFINE Good == /\ GrantsAreRecorded /\ OneInserts /\ RoomForInsert
                   /\ WindowsWithin(granted, Limit)
<1>0. Good
  BY DEF TableInv
<1>1. SUFFICES Good'
  BY DEF TableInv
<1>2. CASE Limits!Tick
  <2>1. now' = now + 1 /\ UNCHANGED <<records, granted, where, stamp, checked>>
    BY <1>2 DEF Limits!Tick
  <2> QED
    BY <1>0, <2>1, BasicTypes
    DEF GrantsAreRecorded, OneInserts, RoomForInsert, WindowsWithin
<1>3. CASE Limits!Cleanup
  <2>1. /\ records' = [t \in Limits!Time |-> IF t < now - Day THEN 0 ELSE records[t]]
        /\ UNCHANGED <<now, granted, where, stamp, checked>>
    BY <1>3 DEF Limits!Cleanup
  <2>2. GrantsAreRecorded'
    BY <1>0, <2>1, BasicTypes DEF GrantsAreRecorded
  <2> QED
    BY <1>0, <2>1, <2>2 DEF OneInserts, RoomForInsert, WindowsWithin
<1>4. ASSUME NEW r \in Requests, Limits!Arrive(r) PROVE Good'
  <2>1. /\ \A q \in Requests : where'[q] = "insert" =>
              where[q] = "insert" /\ stamp'[q] = stamp[q] /\ checked'[q] = checked[q]
        /\ UNCHANGED <<now, records, granted>>
    BY <1>4 DEF Limits!Arrive, Limits!Goto, LimitsBasics, Limits!TypeOK
  <2> QED
    BY <1>0, <2>1 DEF GrantsAreRecorded, OneInserts, RoomForInsert, WindowsWithin
<1>5. ASSUME NEW r \in Requests, Limits!Done(r), UNCHANGED <<now, records, granted>>
      PROVE  Good'
  <2>1. \A q \in Requests : where'[q] = "insert" =>
            where[q] = "insert" /\ stamp'[q] = stamp[q] /\ checked'[q] = checked[q]
    BY <1>5, BasicsDone
  <2> QED
    BY <1>0, <1>5, <2>1 DEF GrantsAreRecorded, OneInserts, RoomForInsert, WindowsWithin
<1>6. ASSUME NEW r \in Requests, Limits!Count(r) PROVE Good'
  <2>1. CASE Limits!InWindow(records, now) < Limit
    <3>1. /\ where' = [where EXCEPT ![r] = "insert"]
          /\ checked' = [checked EXCEPT ![r] = now]
          /\ \A q \in Requests : where[q] # "insert"
          /\ UNCHANGED <<now, records, granted, stamp>>
      BY <1>6, <2>1 DEF Limits!Count, Limits!Goto
    <3>2. \A q \in Requests : where'[q] = "insert" => q = r
      BY <3>1 DEF LimitsBasics, Limits!TypeOK
    <3>3. checked'[r] = now
      BY <3>1, BasicTypes
    <3>4. RoomForInsert'
      <4> SUFFICES ASSUME stamp'[r] = checked'[r], NEW t \in Limits!Time,
                          stamp'[r] \in Limits!WindowTo(t)
                   PROVE  Count(granted, Limits!WindowTo(t)) < Limit
        BY <3>1, <3>2 DEF RoomForInsert
      <4>1. now \in Limits!WindowTo(t)
        BY <3>3
      <4> QED
        BY <1>0, <2>1, <4>1, CountFindsRoom
    <3> QED
      BY <1>0, <3>1, <3>2, <3>4 DEF GrantsAreRecorded, OneInserts, WindowsWithin
  <2>2. CASE ~(Limits!InWindow(records, now) < Limit)
    BY <1>5, <1>6, <2>2 DEF Limits!Count
  <2> QED
    BY <2>1, <2>2
<1>7. ASSUME NEW r \in Requests, Limits!InsertRecord(r) PROVE Good'
  <2>1. /\ where[r] = "insert" /\ Limits!Done(r)
        /\ records' = Limits!More(records, stamp[r])
        /\ granted' = IF stamp[r] = checked[r] THEN Limits!More(granted, stamp[r])
                      ELSE granted
        /\ UNCHANGED <<now, limiter>>
    BY <1>7 DEF Limits!InsertRecord
  <2>2. stamp[r] \in Limits!Time /\ stamp[r] <= now
    BY BasicTypes DEF LimitsBasics, NothingAhead
  <2>3. \A q \in Requests : where'[q] # "insert"
    <3> SUFFICES ASSUME NEW q \in Requests, where'[q] = "insert" PROVE FALSE
      OBVIOUS
    <3>1. q # r /\ where[q] = "insert"
      BY <2>1, BasicsDone
    <3> QED
      BY <1>0, <2>1, <3>1 DEF OneInserts
  <2>4. GrantsAreRecorded'
    <3>1. \A s \in Limits!Time :
             /\ records'[s] = IF s = stamp[r] THEN records[s] + 1 ELSE records[s]
             /\ granted'[s] = IF s = stamp[r] /\ stamp[r] = checked[r] THEN granted[s] + 1
                              ELSE granted[s]
      BY <2>1, <2>2, BasicTypes DEF Limits!More, Counters
    <3> QED
      BY <1>0, <2>1, <3>1, BasicTypes DEF GrantsAreRecorded, Counters
  <2>5. ASSUME NEW t \in Limits!Time PROVE Count(granted', Limits!WindowTo(t)) <= Limit
    <3>1. Count(granted, Limits!WindowTo(t)) \in Nat
      BY BasicTypes, RowsFinite, WindowIsCounted
    <3>2. Count(granted, Limits!WindowTo(t)) <= Limit
      BY <1>0 DEF WindowsWithin
    <3>3. CASE stamp[r] = checked[r] /\ stamp[r] \in Limits!WindowTo(t)
      <4>1. Count(granted, Limits!WindowTo(t)) < Limit
        BY <1>0, <2>1, <3>3 DEF RoomForInsert
      <4>2. Count(granted', Limits!WindowTo(t)) = Count(granted, Limits!WindowTo(t)) + 1
        BY <2>1, <2>2, <3>3, BasicTypes, RowsMore, WindowIsCounted
      <4> QED
        BY <3>1, <4>1, <4>2, BasicTypes
    <3>4. CASE stamp[r] = checked[r] /\ stamp[r] \notin Limits!WindowTo(t)
      <4>1. Count(granted', Limits!WindowTo(t)) = Count(granted, Limits!WindowTo(t)) + 0
        BY <2>1, <2>2, <3>4, BasicTypes, RowsMore, WindowIsCounted
      <4> QED
        BY <3>1, <3>2, <4>1
    <3>5. CASE stamp[r] # checked[r]
      BY <2>1, <3>2, <3>5
    <3> QED
      BY <3>3, <3>4, <3>5
  <2> QED
    BY <2>3, <2>4, <2>5 DEF OneInserts, RoomForInsert, WindowsWithin
<1>8. ASSUME NEW r \in Requests, Limits!GiveUp(r) PROVE Good'
  BY <1>5, <1>8 DEF Limits!GiveUp
<1>9. CASE UNCHANGED Limits!vars
  BY <1>0, <1>9
  DEF Limits!vars, GrantsAreRecorded, OneInserts, RoomForInsert, WindowsWithin
<1>10. ASSUME NEW r \in Requests
       PROVE  ~(\/ Limits!LoginCheck(r) \/ Limits!LoginWrong(r) \/ Limits!RecordFailure(r)
                \/ Limits!Hit(r))
  BY DEF LimitsBasics, StepsOfLimiter, Limits!LoginCheck, Limits!LoginWrong,
         Limits!RecordFailure, Limits!Hit
<1> QED
  BY <1>2, <1>3, <1>4, <1>6, <1>7, <1>8, <1>9, <1>10 DEF Limits!Next
-----------------------------------------------------------------------------
(* RateLimits: Redis *)

\* The fixed window began when its key was made; the one before it was over then.
Start == expiry - Window
SinceStart == {s \in Limits!Time : Start <= s}
BeforeStart == {s \in Limits!Time : Start - Window < s /\ s < Start}

NeverAsked == counter = 0 /\ \A s \in Limits!Time : spent[s] = 0

\* The counter counts what was spent since its key was made; a window's reach
\* before that held one fixed window at most.
KeyCounts ==
    /\ counter # 0
    /\ Start <= now
    /\ \A s \in Limits!Time : spent[s] # 0 => s < expiry
    /\ Count(spent, SinceStart) = IF counter > Limit THEN Limit ELSE counter
    /\ Count(spent, BeforeStart) <= Limit

GrantsAreSpent == \A s \in Limits!Time : granted[s] <= spent[s]

RefusalIsEarned == refused = now => Count(spent, Limits!WindowTo(now)) >= Limit

RedisInv ==
    limiter = "redis" =>
        /\ NeverAsked \/ KeyCounts
        /\ GrantsAreSpent
        /\ WindowsWithin(spent, 2 * Limit)
        /\ RefusalIsEarned

LEMMA RedisInit == Limits!Init => RedisInv
<1> SUFFICES ASSUME Limits!Init
             PROVE  /\ NeverAsked /\ GrantsAreSpent
                    /\ WindowsWithin(spent, 2 * Limit) /\ RefusalIsEarned
  BY DEF RedisInv
<1>1. \A s \in Limits!Time : granted[s] = 0 /\ spent[s] = 0
  BY DEF Limits!Init
<1>2. LimitsBasics
  BY BasicsInit
<1>3. WindowsWithin(spent, 2 * Limit)
  <2> SUFFICES ASSUME NEW t \in Limits!Time
               PROVE  Count(spent, Limits!WindowTo(t)) <= 2 * Limit
    BY DEF WindowsWithin
  <2>1. Count(spent, Limits!WindowTo(t)) = 0
    BY <1>1, RowsNone DEF Limits!WindowTo
  <2> QED
    BY <1>2, <2>1, BasicTypes
<1>4. counter = 0 /\ refused # now
  BY DEF Limits!Init, Limits!Never
<1> QED
  BY <1>1, <1>3, <1>4 DEF NeverAsked, GrantsAreSpent, RefusalIsEarned

\* Two fixed windows bound any other one that reaches past the second's start.
LEMMA TwoWindows ==
    ASSUME NEW f \in Counters, NEW start \in Int, NEW t \in Limits!Time, start <= t,
           Limits!Time \subseteq Int, Window \in Int, Limit \in Int,
           Count(f, {s \in Limits!Time : start <= s}) <= Limit,
           Count(f, {s \in Limits!Time : start - Window < s /\ s < start}) <= Limit
    PROVE  Count(f, Limits!WindowTo(t)) <= 2 * Limit
<1> DEFINE S == {s \in Limits!Time : start - Window < s /\ s < start}
           T == {s \in Limits!Time : start <= s}
<1>1. S \in SUBSET Limits!Time /\ T \in SUBSET Limits!Time
      /\ S \cup T \in SUBSET Limits!Time
  OBVIOUS
<1>2. \A s \in Limits!WindowTo(t) : s \in S \cup T /\ f[s] <= f[s]
  BY DEF Limits!WindowTo, Counters
<1>3. Count(f, S) <= Limit /\ Count(f, T) <= Limit
  OBVIOUS
<1> HIDE DEF S, T
<1>4. Count(f, Limits!WindowTo(t)) <= Count(f, S \cup T)
  BY <1>1, <1>2, RowsFewer, WindowIsCounted
<1>5. Count(f, S \cup T) <= Count(f, S) + Count(f, T)
  BY <1>1, RowsUnion
<1>6. /\ Count(f, Limits!WindowTo(t)) \in Nat /\ Count(f, S \cup T) \in Nat
      /\ Count(f, S) \in Nat /\ Count(f, T) \in Nat
  BY <1>1, RowsFinite, WindowIsCounted
<1> QED
  BY <1>3, <1>4, <1>5, <1>6

\* A message that finds no key makes one, and the window before it is over.
LEMMA KeyIsMade ==
    ASSUME LimitsBasics, NeverAsked \/ KeyCounts, counter = 0 \/ now >= expiry,
           spent' = Limits!More(spent, now), counter' = 1, expiry' = now + Window, now' = now
    PROVE  KeyCounts'
<1>1. spent' \in Counters
      /\ \A s \in Limits!Time : spent'[s] = IF s = now THEN spent[s] + 1 ELSE spent[s]
  BY BasicTypes DEF Limits!More, Counters
<1>2. Start' = now /\ expiry' > now
  BY BasicTypes DEF Start
<1>3. SinceStart' \in SUBSET Limits!Time /\ BeforeStart' \in SUBSET Limits!Time
      /\ SinceStart \in SUBSET Limits!Time
  BY DEF SinceStart, BeforeStart
<1>4. \A s \in Limits!Time : s >= now => spent[s] = 0
  BY BasicTypes DEF NeverAsked, KeyCounts, LimitsBasics, NothingAhead
<1>5. \A s \in Limits!Time : spent'[s] # 0 => s < expiry'
  BY <1>1, <1>2, <1>4, BasicTypes
<1>6. Count(spent', SinceStart') = 1
  <2>1. Count(spent, SinceStart') = 0
    BY <1>2, <1>4, RowsNone, BasicTypes DEF SinceStart
  <2>2. now \in SinceStart'
    BY <1>2, BasicTypes DEF SinceStart
  <2> QED
    BY <1>3, <2>1, <2>2, RowsMore, BasicTypes
<1>7. Count(spent', BeforeStart') <= Limit
  <2>1. now \notin BeforeStart'
    BY <1>2, BasicTypes DEF BeforeStart
  <2>2. Count(spent', BeforeStart') = Count(spent, BeforeStart') + 0
    BY <1>3, <2>1, RowsMore, BasicTypes
  <2>3. Count(spent, BeforeStart') \in Nat
    BY <1>3, RowsFinite, BasicTypes
  <2>4. CASE NeverAsked
    <3>1. Count(spent, BeforeStart') = 0
      BY <2>4, RowsNone DEF NeverAsked, BeforeStart
    <3> QED
      BY <2>2, <3>1, BasicTypes
  <2>5. CASE KeyCounts
    <3>1. Start <= now - Window
      BY <2>5, BasicTypes DEF Start, KeyCounts
    <3>2. \A s \in BeforeStart' : s \in SinceStart /\ spent[s] <= spent[s]
      BY <1>2, <3>1, BasicTypes DEF BeforeStart, SinceStart, Counters, Start
    <3>3. Count(spent, BeforeStart') <= Count(spent, SinceStart)
      BY <1>3, <3>2, RowsFewer, BasicTypes
    <3>4. Count(spent, SinceStart) <= Limit /\ Count(spent, SinceStart) \in Int
      BY <2>5, BasicTypes DEF KeyCounts
    <3> QED
      BY <2>2, <2>3, <3>3, <3>4, BasicTypes
  <2> QED
    BY <2>4, <2>5
<1> QED
  BY <1>2, <1>5, <1>6, <1>7, BasicTypes DEF KeyCounts

\* A message that finds the key is counted by it, up to the limit.
LEMMA KeyIsCounted ==
    ASSUME LimitsBasics, KeyCounts, now < expiry,
           counter' = IF counter > Limit THEN counter ELSE counter + 1,
           spent' = IF counter' <= Limit THEN Limits!More(spent, now) ELSE spent,
           expiry' = expiry, now' = now
    PROVE  KeyCounts'
<1>1. /\ spent' \in Counters
      /\ \A s \in Limits!Time : spent'[s] # 0 => spent[s] # 0 \/ s = now
  BY BasicTypes DEF Limits!More, Counters
<1>2. /\ Start' = Start /\ SinceStart' = SinceStart /\ BeforeStart' = BeforeStart
      /\ SinceStart \in SUBSET Limits!Time /\ BeforeStart \in SUBSET Limits!Time
  BY DEF Start, SinceStart, BeforeStart
<1>3. now \in SinceStart /\ now \notin BeforeStart /\ Start \in Int
  BY BasicTypes DEF SinceStart, BeforeStart, KeyCounts, Start
<1>4. /\ Count(spent, SinceStart) \in Nat /\ Count(spent, BeforeStart) \in Nat
  BY <1>2, RowsFinite, BasicTypes
<1>5. counter \in Int /\ counter # 0 /\ counter >= 1 /\ counter' # 0
  BY BasicTypes DEF KeyCounts
<1>6. /\ Count(spent, SinceStart) = IF counter > Limit THEN Limit ELSE counter
      /\ Count(spent, BeforeStart) <= Limit
  BY DEF KeyCounts
<1>7. CASE counter' <= Limit
  <2>1. Count(spent', SinceStart) = Count(spent, SinceStart) + 1
    BY <1>2, <1>3, <1>7, RowsMore, BasicTypes
  <2>2. Count(spent', BeforeStart) = Count(spent, BeforeStart) + 0
    BY <1>2, <1>3, <1>7, RowsMore, BasicTypes
  <2>3. counter' = counter + 1 /\ ~(counter > Limit)
    BY <1>5, <1>7, BasicTypes
  <2> QED
    BY <1>1, <1>2, <1>4, <1>5, <1>6, <1>7, <2>1, <2>2, <2>3, BasicTypes DEF KeyCounts
<1>8. CASE ~(counter' <= Limit)
  <2>1. spent' = spent
    BY <1>8
  <2>2. counter' > Limit /\ (counter > Limit \/ counter = Limit)
    BY <1>5, <1>8, BasicTypes
  <2> QED
    BY <1>2, <1>5, <1>6, <2>1, <2>2, BasicTypes DEF KeyCounts
<1> QED
  BY <1>7, <1>8

LEMMA RedisNext ==
    ASSUME LimitsBasics, LimitsBasics', RedisInv, limiter = "redis",
           [Limits!Next]_(Limits!vars)
    PROVE  RedisInv'
<1> USE DEF Limits!redis, Limits!history
<1> DEFINE Good == /\ NeverAsked \/ KeyCounts
                   /\ GrantsAreSpent
                   /\ WindowsWithin(spent, 2 * Limit)
                   /\ RefusalIsEarned
<1>0. Good
  BY DEF RedisInv
<1>1. SUFFICES Good'
  BY DEF RedisInv
<1>2. ASSUME UNCHANGED <<counter, expiry, granted, spent, refused>>, now' = now PROVE Good'
  BY <1>0, <1>2
  DEF NeverAsked, KeyCounts, GrantsAreSpent, WindowsWithin, RefusalIsEarned, Start,
      SinceStart, BeforeStart
<1>3. CASE Limits!Tick
  <2>1. now' = now + 1 /\ UNCHANGED <<counter, expiry, granted, spent, refused>>
    BY <1>3 DEF Limits!Tick
  <2>2. NeverAsked' \/ KeyCounts'
    <3>1. CASE NeverAsked
      BY <2>1, <3>1 DEF NeverAsked
    <3>2. CASE KeyCounts
      <4>1. Start' = Start /\ Start \in Int
        BY <2>1, BasicTypes DEF Start
      <4>2. SinceStart' = SinceStart /\ BeforeStart' = BeforeStart
        BY <4>1 DEF SinceStart, BeforeStart
      <4> QED
        BY <2>1, <3>2, <4>1, <4>2, BasicTypes DEF KeyCounts
    <3> QED
      BY <1>0, <3>1, <3>2
  <2>3. refused' # now'
    BY <2>1, BasicTypes DEF LimitsBasics, NothingAhead, Limits!TypeOK, Limits!Time,
                           Limits!Never
  <2> QED
    BY <1>0, <2>1, <2>2, <2>3 DEF GrantsAreSpent, WindowsWithin, RefusalIsEarned
<1>4. CASE Limits!Cleanup
  BY <1>2, <1>4 DEF Limits!Cleanup
<1>5. ASSUME NEW r \in Requests, Limits!Hit(r) PROVE Good'
  <2> DEFINE c == Limits!Incremented
  <2>1. /\ counter' = c
        /\ expiry' = IF c = 1 THEN now + Window ELSE expiry
        /\ spent' = IF c <= Limit THEN Limits!More(spent, now) ELSE spent
        /\ now' = now
    BY <1>5 DEF Limits!Hit, Limits!Judge
  <2>2. /\ granted' = granted \/ (c <= Limit /\ granted' = Limits!More(granted, now))
        /\ refused' = refused \/ c > Limit
    BY <1>5 DEF Limits!Hit, Limits!Judge
  <2>3. KeyCounts'
    <3>1. CASE counter = 0 \/ now >= expiry
      <4>1. c = 1 /\ 1 <= Limit
        BY <3>1, BasicTypes DEF Limits!Incremented
      <4> QED
        BY <1>0, <2>1, <3>1, <4>1, KeyIsMade
    <3>2. CASE ~(counter = 0 \/ now >= expiry)
      <4>1. c = IF counter > Limit THEN counter ELSE counter + 1
        BY <3>2 DEF Limits!Incremented
      <4>2. c # 1 /\ now < expiry /\ KeyCounts
        BY <1>0, <3>2, <4>1, BasicTypes DEF NeverAsked
      <4> HIDE DEF c
      <4> QED
        BY <2>1, <4>1, <4>2, KeyIsCounted
    <3> QED
      BY <3>1, <3>2
  <2>4. /\ spent' \in Counters /\ spent \in Counters /\ granted \in Counters
        /\ \A s \in Limits!Time :
              /\ spent[s] <= spent'[s]
              /\ spent'[s] = IF s = now /\ c <= Limit THEN spent[s] + 1 ELSE spent[s]
              /\ granted'[s] = granted[s]
                 \/ (s = now /\ c <= Limit /\ granted'[s] = granted[s] + 1)
    BY <2>1, <2>2, BasicTypes DEF Limits!More, Counters
  <2>5. GrantsAreSpent'
    BY <1>0, <2>4 DEF GrantsAreSpent, Counters
  <2>6. Start' \in Int /\ Start' <= now
        /\ Count(spent', SinceStart') <= Limit /\ Count(spent', BeforeStart') <= Limit
    <3>1. Start' \in Int
      BY <2>1, BasicTypes DEF Start
    <3>2. counter' \in Int
      BY BasicTypes DEF LimitsBasics, Limits!TypeOK
    <3> QED
      BY <2>1, <2>3, <3>1, <3>2, BasicTypes DEF KeyCounts
  <2>7. ASSUME NEW t \in Limits!Time PROVE Count(spent', Limits!WindowTo(t)) <= 2 * Limit
    <3>1. CASE Start' <= t
      BY <2>4, <2>6, <3>1, TwoWindows, BasicTypes DEF SinceStart, BeforeStart
    <3>2. CASE ~(Start' <= t)
      <4>1. now \notin Limits!WindowTo(t)
        BY <2>6, <3>2, BasicTypes DEF Limits!WindowTo
      <4>2. \A s \in Limits!WindowTo(t) : s \in Limits!WindowTo(t) /\ spent'[s] <= spent[s]
        BY <2>4, <4>1 DEF Limits!WindowTo, Counters
      <4>3. Count(spent', Limits!WindowTo(t)) <= Count(spent, Limits!WindowTo(t))
        BY <2>4, <4>2, RowsFewer, WindowIsCounted
      <4>4. /\ Count(spent', Limits!WindowTo(t)) \in Nat
            /\ Count(spent, Limits!WindowTo(t)) \in Nat
        BY <2>4, RowsFinite, WindowIsCounted
      <4>5. Count(spent, Limits!WindowTo(t)) <= 2 * Limit
        BY <1>0 DEF WindowsWithin
      <4> QED
        BY <4>3, <4>4, <4>5, BasicTypes
    <3> QED
      BY <3>1, <3>2
  <2>8. ASSUME refused' = now PROVE Count(spent', Limits!WindowTo(now)) >= Limit
    <3>1. Limits!WindowTo(now) \in SUBSET Limits!Time
          /\ Count(spent', Limits!WindowTo(now)) \in Nat
      BY <2>4, RowsFinite, WindowIsCounted
    <3>2. CASE refused' = refused
      <4>1. Count(spent, Limits!WindowTo(now)) >= Limit
        BY <1>0, <2>8, <3>2 DEF RefusalIsEarned
      <4>2. \A s \in Limits!WindowTo(now) :
               s \in Limits!WindowTo(now) /\ spent[s] <= spent'[s]
        BY <2>4, <3>1
      <4>3. Count(spent, Limits!WindowTo(now)) <= Count(spent', Limits!WindowTo(now))
        BY <2>4, <3>1, <4>2, RowsFewer
      <4>4. Count(spent, Limits!WindowTo(now)) \in Nat
        BY <2>4, <3>1, RowsFinite
      <4> QED
        BY <3>1, <4>1, <4>3, <4>4, BasicTypes
    <3>3. CASE c > Limit
      <4>1. Count(spent', SinceStart') = Limit
        BY <2>1, <2>3, <3>3 DEF KeyCounts
      <4>2. SinceStart' \in SUBSET Limits!Time
        BY DEF SinceStart
      <4>3. Start' > now - Window
        <5>1. ~(counter = 0 \/ now >= expiry)
          BY <3>3, BasicTypes DEF Limits!Incremented
        <5>2. c # 1
          BY <3>3, BasicTypes
        <5> QED
          BY <2>1, <5>1, <5>2, BasicTypes DEF Start
      <4>4. ASSUME NEW s \in SinceStart', spent'[s] # 0
            PROVE  s \in Limits!WindowTo(now) /\ spent'[s] <= spent'[s]
        <5>1. s \in Limits!Time /\ s <= now
          BY <2>1, <4>2, <4>4, BasicTypes DEF LimitsBasics, NothingAhead
        <5>2. s > now - Window
          BY <2>6, <4>3, <5>1, BasicTypes DEF SinceStart
        <5> QED
          BY <2>4, <5>1, <5>2 DEF Limits!WindowTo, Counters
      <4>5. Count(spent', SinceStart') <= Count(spent', Limits!WindowTo(now))
        BY <2>4, <3>1, <4>2, <4>4, RowsFewer
      <4> QED
        BY <3>1, <4>1, <4>5, BasicTypes
    <3> QED
      BY <2>2, <3>2, <3>3
  <2> QED
    BY <2>1, <2>3, <2>5, <2>7, <2>8 DEF WindowsWithin, RefusalIsEarned
<1>6. ASSUME NEW r \in Requests, Limits!GiveUp(r) PROVE Good'
  BY <1>2, <1>6 DEF Limits!GiveUp
<1>7. CASE UNCHANGED Limits!vars
  BY <1>2, <1>7 DEF Limits!vars
<1>8. ASSUME NEW r \in Requests
      PROVE  ~(\/ Limits!LoginCheck(r) \/ Limits!LoginWrong(r) \/ Limits!RecordFailure(r)
               \/ Limits!Arrive(r) \/ Limits!Count(r) \/ Limits!InsertRecord(r))
  BY DEF LimitsBasics, StepsOfLimiter, Limits!LoginCheck, Limits!LoginWrong,
         Limits!RecordFailure, Limits!Arrive, Limits!Count, Limits!InsertRecord
<1> QED
  BY <1>2, <1>3, <1>4, <1>5, <1>6, <1>7, <1>8 DEF Limits!Next
-----------------------------------------------------------------------------
(* RateLimits: what holds of them *)

LimitsInv == LimitsBasics /\ LoginInv /\ TableInv /\ RedisInv

LEMMA LimitsNext == LimitsInv /\ [Limits!Next]_(Limits!vars) => LimitsInv'
<1> SUFFICES ASSUME LimitsInv, [Limits!Next]_(Limits!vars) PROVE LimitsInv'
  OBVIOUS
<1>1. LimitsBasics'
  BY BasicsNext DEF LimitsInv
<1>2. limiter' = limiter
  BY DEF Limits!Next, Limits!Tick, Limits!Cleanup, Limits!LoginCheck, Limits!LoginWrong,
         Limits!RecordFailure, Limits!Arrive, Limits!Count, Limits!InsertRecord,
         Limits!Hit, Limits!GiveUp, Limits!vars
<1>3. LoginInv'
  <2>1. CASE limiter = "login"
    BY <1>1, <2>1, LoginNext DEF LimitsInv
  <2>2. CASE limiter # "login"
    BY <1>2, <2>2 DEF LoginInv
  <2> QED
    BY <2>1, <2>2
<1>4. TableInv'
  <2>1. CASE limiter = "table"
    BY <1>1, <2>1, TableNext DEF LimitsInv
  <2>2. CASE limiter # "table"
    BY <1>2, <2>2 DEF TableInv
  <2> QED
    BY <2>1, <2>2
<1>5. RedisInv'
  <2>1. CASE limiter = "redis"
    BY <1>1, <2>1, RedisNext DEF LimitsInv
  <2>2. CASE limiter # "redis"
    BY <1>2, <2>2 DEF RedisInv
  <2> QED
    BY <2>1, <2>2
<1> QED
  BY <1>1, <1>3, <1>4, <1>5 DEF LimitsInv

\* The inductive invariant of the limiters holds in every reachable state.
THEOREM LimitsInvariant == Limits!Spec => []LimitsInv
<1>1. Limits!Init => LimitsInv
  BY BasicsInit, LoginInit, TableInit, RedisInit DEF LimitsInv
<1> QED
  BY <1>1, LimitsNext, PTL DEF Limits!Spec

LEMMA SameCardinality ==
    ASSUME NEW S
    PROVE  Limits!Cardinality(S) = Cardinality(S)
  BY DEF Limits!Cardinality, Cardinality

LEMMA LimitsImply == LimitsInv => LimitsHold /\ RefusedForAReason
<1> SUFFICES ASSUME LimitsInv PROVE LimitsHold /\ RefusedForAReason
  OBVIOUS
<1>0. LimitsBasics /\ LoginInv /\ TableInv /\ RedisInv
  BY DEF LimitsInv
<1>1. Limits!LoginBounded
  <2> SUFFICES ASSUME limiter = "login", NEW t \in Limits!Time
               PROVE  Count(granted, Limits!WindowTo(t)) < Limit + Cardinality(Requests)
    BY SameCardinality, WindowIsCounted DEF Limits!LoginBounded
  <2>1. Count(granted, Limits!WindowTo(t)) + Cardinality(MayLand(t))
          < Limit + Cardinality(Requests)
    BY <1>0 DEF LoginInv, RoomForTries
  <2>2. IsFiniteSet(MayLand(t))
    BY LimitsAssumption, FS_Subset DEF MayLand
  <2>3. Cardinality(MayLand(t)) \in Nat
    BY <2>2, FS_CardinalityType
  <2>4. Count(granted, Limits!WindowTo(t)) \in Nat
    BY <1>0, BasicTypes, RowsFinite, WindowIsCounted
  <2> QED
    BY <1>0, <2>1, <2>3, <2>4, BasicTypes
<1>2. Limits!UserBounded
  BY <1>0, WindowIsCounted DEF Limits!UserBounded, TableInv, WindowsWithin
<1>3. Limits!RedisBounded
  <2> SUFFICES ASSUME limiter = "redis", NEW t \in Limits!Time
               PROVE  Count(granted, Limits!WindowTo(t)) <= 2 * Limit
    BY WindowIsCounted DEF Limits!RedisBounded
  <2>1. \A s \in Limits!WindowTo(t) : s \in Limits!WindowTo(t) /\ granted[s] <= spent[s]
    BY <1>0, WindowIsCounted DEF RedisInv, GrantsAreSpent
  <2>2. Count(granted, Limits!WindowTo(t)) <= Count(spent, Limits!WindowTo(t))
    BY <1>0, <2>1, BasicTypes, RowsFewer, WindowIsCounted
  <2>3. Count(spent, Limits!WindowTo(t)) <= 2 * Limit
    BY <1>0 DEF RedisInv, WindowsWithin
  <2>4. /\ Count(granted, Limits!WindowTo(t)) \in Nat
        /\ Count(spent, Limits!WindowTo(t)) \in Nat
    BY <1>0, BasicTypes, RowsFinite, WindowIsCounted
  <2> QED
    BY <1>0, <2>2, <2>3, <2>4, BasicTypes
<1>4. RefusedForAReason
  BY <1>0, WindowIsCounted
  DEF RefusedForAReason, Limits!RefusedForAReason, RedisInv, RefusalIsEarned
<1> QED
  BY <1>1, <1>2, <1>3, <1>4 DEF LimitsHold, Limits!LimitsHold
-----------------------------------------------------------------------------
(* Side by side *)

LEMMA MessagesWebhook == MessagesSpec => Spec
<1>1. MessagesInit => Init
  BY DEF MessagesInit
<1>2. [MessagesNext]_<<part, vars, limitVars, pushVars>> => [Next]_vars
  BY DEF MessagesNext
<1> QED
  BY <1>1, <1>2, PTL DEF MessagesSpec, Spec

LEMMA MessagesPush == MessagesSpec => Push!Spec
<1>1. MessagesInit => Push!Init
  BY DEF MessagesInit
<1>2. UNCHANGED pushVars => UNCHANGED Push!vars
  BY DEF pushVars, Push!vars
<1>3. [MessagesNext]_<<part, vars, limitVars, pushVars>> => [Push!Next]_(Push!vars)
  BY <1>2 DEF MessagesNext
<1> QED
  BY <1>1, <1>3, PTL DEF MessagesSpec, Push!Spec

\* send_push_message: one copy, for any number of retries and late requests.
THEOREM MessagesOneCopy == MessagesSpec => []AtMostOneCopy
<1>1. PushInv => AtMostOneCopy
  <2> SUFFICES ASSUME PushInv, NEW c \in Calls PROVE copies[c] <= 1
    BY DEF AtMostOneCopy, Push!AtMostOneCopy
  <2> QED
    BY DEF PushInv, CopiesByKey
<1> QED
  BY <1>1, MessagesPush, PushInvariant, PTL

\* send_push_message: a normal return, also after a 409, means delivered.
THEOREM MessagesSentIsDelivered == MessagesSpec => []SentIsDelivered
<1>1. PushInv => SentIsDelivered
  BY DEF PushInv, CopiesByKey, SentIsAccepted, SentIsDelivered, Push!SentIsDelivered
<1> QED
  BY <1>1, MessagesPush, PushInvariant, PTL

LEMMA MessagesLimits == MessagesSpec => Limits!Spec
<1>1. MessagesInit => Limits!Init
  BY DEF MessagesInit
<1>2. UNCHANGED limitVars => UNCHANGED Limits!vars
  BY DEF limitVars, Limits!vars
<1>3. [MessagesNext]_<<part, vars, limitVars, pushVars>> => [Limits!Next]_(Limits!vars)
  BY <1>2 DEF MessagesNext
<1> QED
  BY <1>1, <1>3, PTL DEF MessagesSpec, Limits!Spec

\* is_login_rate_limited, is_user_request_rate_limited and _redis_rate_limited:
\* what a window lets through, for any number of requests, limit and window.
THEOREM MessagesLimitsHold == MessagesSpec => []LimitsHold
  BY MessagesLimits, LimitsInvariant, LimitsImply, PTL

\* _redis_rate_limited: a refusal by count has Limit counted messages in its
\* window.
THEOREM MessagesRefusedForAReason == MessagesSpec => []RefusedForAReason
  BY MessagesLimits, LimitsInvariant, LimitsImply, PTL

\* Every variable of the events, the limiters and the pushes has its type.
THEOREM MessagesTypes == MessagesSpec => []TypesOK
<1>1. TypeOK /\ LimitsInv /\ PushInv => TypesOK
  BY DEF TypesOK, LimitsInv, LimitsBasics, PushInv
<1> QED
  BY <1>1, MessagesWebhook, WebhookTypes, MessagesLimits, LimitsInvariant,
     MessagesPush, PushInvariant, PTL
============================================================================
