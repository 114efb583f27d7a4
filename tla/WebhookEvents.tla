---------------------------- MODULE WebhookEvents ----------------------------
(***************************************************************************)
(* The webhook path: /callback checks the signature, hands the body to a   *)
(* thread pool and answers 200 at once; a pool thread then claims the      *)
(* webhookEventId in the database, processes the command and, on an        *)
(* exception, releases the claim.  LINE and the network are external.      *)
(***************************************************************************)
EXTENDS Integers, FiniteSets

CONSTANTS
    Events,        \* webhookEventIds
    Threads,       \* WEBHOOK_ASYNC_WORKERS threads of the pool
    MaxDeliveries  \* bound: deliveries of one event by LINE

NoEvent == "none"
Phases == {"idle", "claiming", "running", "replying", "releasing"}

ASSUME WebhookAssumption ==
    /\ NoEvent \notin Events
    /\ MaxDeliveries \in Nat

VARIABLES
    sent,       \* deliveries of each event so far
    acked,      \* events whose 200 has reached LINE
    queue,      \* submitted deliveries waiting in the pool, per event
    pc,         \* phase of each thread
    event,      \* the event a thread works on
    claims,     \* table webhook_events
    effects,    \* history: committed executions of each event's command
    late,       \* history: exceptions after such a commit
    handled,    \* history: events whose processing came to a normal decision
    leaked      \* history: events whose claim was left behind

line == <<sent, acked>>
pool == <<queue, pc, event>>
history == <<effects, late, handled, leaked>>
vars == <<line, pool, claims, history>>

TypeOK ==
    /\ sent \in [Events -> 0..MaxDeliveries]
    /\ acked \in SUBSET Events
    /\ queue \in [Events -> Nat]
    /\ pc \in [Threads -> Phases]
    /\ event \in [Threads -> Events \cup {NoEvent}]
    /\ claims \in SUBSET Events
    /\ effects \in [Events -> Nat]
    /\ late \in [Events -> Nat]
    /\ handled \in SUBSET Events
    /\ leaked \in SUBSET Events

Init ==
    /\ sent = [e \in Events |-> 0]
    /\ acked = {}
    /\ queue = [e \in Events |-> 0]
    /\ pc = [t \in Threads |-> "idle"]
    /\ event = [t \in Threads |-> NoEvent]
    /\ claims = {}
    /\ effects = [e \in Events |-> 0]
    /\ late = [e \in Events |-> 0]
    /\ handled = {}
    /\ leaked = {}
-----------------------------------------------------------------------------
(* The request thread, with LINE on the other side. *)

\* callback: LINE delivers e, again only while it has seen no 200; the body
\* is submitted to the pool before the response is written.
Callback(e) ==
    /\ e \notin acked
    /\ sent[e] < MaxDeliveries
    /\ sent' = [sent EXCEPT ![e] = @ + 1]
    /\ queue' = [queue EXCEPT ![e] = @ + 1]
    /\ \/ acked' = acked \cup {e}
       \/ acked' = acked              \* the response is lost
    /\ UNCHANGED <<pc, event, claims, history>>
-----------------------------------------------------------------------------
(* A pool thread: _process_webhook and handle_message. *)

Goto(t, phase) == pc' = [pc EXCEPT ![t] = phase]

Return(t) ==
    /\ Goto(t, "idle")
    /\ event' = [event EXCEPT ![t] = NoEvent]
    /\ UNCHANGED <<line, queue>>

Begin(t, e) ==
    /\ pc[t] = "idle"
    /\ queue[e] > 0
    /\ queue' = [queue EXCEPT ![e] = @ - 1]
    /\ event' = [event EXCEPT ![t] = e]
    /\ Goto(t, "claiming")
    /\ UNCHANGED <<line, claims, history>>

\* claim_webhook_event, INSERT ... ON CONFLICT DO NOTHING RETURNING.
Claim(t) ==
    /\ pc[t] = "claiming"
    /\ event[t] \notin claims
    /\ claims' = claims \cup {event[t]}
    /\ Goto(t, "running")
    /\ UNCHANGED <<line, queue, event, history>>

\* Mutant: a duplicate releases the claim on its way out.
SkipDuplicateReleases(t) ==
    /\ pc[t] = "claiming"
    /\ event[t] \in claims
    /\ claims' = claims \ {event[t]}
    /\ Return(t)
    /\ UNCHANGED history

SkipDuplicate(t) ==
    /\ pc[t] = "claiming"
    /\ event[t] \in claims
    /\ Return(t)
    /\ UNCHANGED <<claims, history>>

\* Mutant: `claimed` is set before the call, so a failed claim is released.
ClaimFailsReleases(t) ==
    /\ pc[t] = "claiming"
    /\ claims' = claims \ {event[t]}
    /\ Return(t)
    /\ UNCHANGED history

\* The database fails: `claimed` stays False and nothing is released.  The
\* INSERT may have been committed when only the answer to it was lost.
ClaimFails(t) ==
    /\ pc[t] = "claiming"
    /\ \/ UNCHANGED <<claims, leaked>>
       \/ /\ event[t] \notin claims
          /\ claims' = claims \cup {event[t]}
          /\ leaked' = leaked \cup {event[t]}
    /\ Return(t)
    /\ UNCHANGED <<effects, late, handled>>

\* An ignored text, a rate-limited user or a command without effect.
NoEffect(t) ==
    /\ pc[t] = "running"
    /\ handled' = handled \cup {event[t]}
    /\ Return(t)
    /\ UNCHANGED <<claims, effects, late, leaked>>

\* process_reservation commits the command; counting the people ahead and
\* replying still follow.
Commit(t) ==
    /\ pc[t] = "running"
    /\ effects' = [effects EXCEPT ![event[t]] = @ + 1]
    /\ handled' = handled \cup {event[t]}
    /\ Goto(t, "replying")
    /\ UNCHANGED <<line, queue, event, claims, late, leaked>>

\* Mutant: the exception handler returns without releasing.
FailBeforeKeepsClaim(t) ==
    /\ pc[t] = "running"
    /\ Return(t)
    /\ UNCHANGED <<claims, history>>

\* An exception before the commit: the command has had no effect.
FailBefore(t) ==
    /\ pc[t] = "running"
    /\ Goto(t, "releasing")
    /\ UNCHANGED <<line, queue, event, claims, history>>

\* The reply itself never raises.
Reply(t) ==
    /\ pc[t] = "replying"
    /\ Return(t)
    /\ UNCHANGED <<claims, history>>

\* The count query after the commit raises.
FailAfter(t) ==
    /\ pc[t] = "replying"
    /\ late' = [late EXCEPT ![event[t]] = @ + 1]
    /\ Goto(t, "releasing")
    /\ UNCHANGED <<line, queue, event, claims, effects, handled, leaked>>

\* release_webhook_event, DELETE.
Release(t) ==
    /\ pc[t] = "releasing"
    /\ claims' = claims \ {event[t]}
    /\ Return(t)
    /\ UNCHANGED history

\* The DELETE fails; the exception is logged and the claim stays.
ReleaseFails(t) ==
    /\ pc[t] = "releasing"
    /\ leaked' = leaked \cup {event[t]}
    /\ Return(t)
    /\ UNCHANGED <<claims, effects, late, handled>>

Working(t) == pc[t] \in {"running", "replying", "releasing"}

\* A process dies: some of the threads (during a deployment two revisions run
\* side by side) and some of the queued bodies vanish, the table stays.
Crash ==
    \E T \in (SUBSET Threads) \ {{}} :
        /\ pc' = [t \in Threads |-> IF t \in T THEN "idle" ELSE pc[t]]
        /\ event' = [t \in Threads |-> IF t \in T THEN NoEvent ELSE event[t]]
        /\ \E L \in SUBSET Events :
              queue' = [e \in Events |-> IF e \in L THEN 0 ELSE queue[e]]
        /\ leaked' = leaked \cup {event[t] : t \in {x \in T : Working(x)}}
        /\ UNCHANGED <<line, claims, effects, late, handled>>
-----------------------------------------------------------------------------
ThreadNext(t) ==
    \/ \E e \in Events : Begin(t, e)
    \/ Claim(t) \/ SkipDuplicate(t) \/ ClaimFails(t)
    \/ NoEffect(t) \/ Commit(t) \/ FailBefore(t)
    \/ Reply(t) \/ FailAfter(t)
    \/ Release(t) \/ ReleaseFails(t)

Next ==
    \/ \E e \in Events : Callback(e)
    \/ \E t \in Threads : ThreadNext(t)
    \/ Crash

Spec == Init /\ [][Next]_vars

-----------------------------------------------------------------------------
\* The claim is a lock across threads and processes: two deliveries of one
\* event are never executed at the same time, releases and lost answers
\* included.
ClaimExclusive ==
    \A t, u \in Threads :
        t # u /\ Working(t) /\ Working(u) => event[t] # event[u]

\* A delivery can repeat an effect only after an exception that came after a
\* commit; crashes, lost claims and failed releases never cause a repetition.
RepeatsNeedLateFailure ==
    \A e \in Events : effects[e] <= 1 + late[e]

\* A claim in the table stands for something: the event was decided, or a
\* thread is at it, or the claim was left behind by a crash or a database
\* error (a claim nobody accounts for would swallow the redelivery).
ClaimsAccountedFor ==
    \A e \in claims :
        e \in handled \cup leaked \/ \E t \in Threads : Working(t) /\ event[t] = e
=============================================================================
