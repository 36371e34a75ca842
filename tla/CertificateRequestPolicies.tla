--------------------- MODULE CertificateRequestPolicies ---------------------
(***************************************************************************)
(* The certificaterequestpolicies controller                               *)
(* (pkg/internal/controllers/certificaterequestpolicies.go): it asks every *)
(* registered approver Reconciler whether a CertificateRequestPolicy is    *)
(* ready and writes the answer as the policy's Ready condition.            *)
(*                                                                         *)
(* The controller never reads the API server.  It reads an informer cache  *)
(* that trails it, and it writes with a forced server-side apply that      *)
(* carries no precondition on what is being overwritten.  Around it run    *)
(* the users who write policies, the plugins whose external state changes  *)
(* and who say so on their enqueue channel, and the goroutine forwarding   *)
(* those messages into the work queue.                                     *)
(***************************************************************************)
EXTENDS Integers, Sequences, FiniteSets

CONSTANTS
    Policy,        \* names of CertificateRequestPolicies
    N,             \* opts.Reconcilers, called in the order 1..N
    Plugin,        \* the reconcilers whose EnqueueChan() is not nil
    Response,      \* the ctrl.Results a reconciler may embed in its response
    MaxRevision,   \* bound: spec writes (creates and updates) per policy name
    MaxTime,       \* bound: ticks of the clock, in the seconds of metav1.Time
    MaxDisruptions \* bound: failures, restarts, resyncs and plugin changes

Reconciler == 1 .. N

ASSUME ConstantsAssumption ==
    /\ N \in Nat
    /\ Plugin \subseteq Reconciler
    /\ Response \subseteq [requeue : BOOLEAN, after : Nat]
    /\ MaxRevision \in Nat
    /\ MaxTime \in Nat
    /\ MaxDisruptions \in Nat

VARIABLES
    policy,      \* API server: the stored object of each name
    revisions,   \* API server: spec writes so far of each name
    accepts,     \* plugins: <<i, p, r>> when i would find revision r of p ready
    late,        \* network: patches of former leaders, not yet arrived
    watch,       \* informer: changes sent and not yet applied to the cache
    cache,       \* informer: the objects the lister returns
    events,      \* informer: names whose handler has not run yet
    queue,       \* work queue: the names to be reconciled
    timers,      \* work queue: the names waiting for a delay to pass
    calls,       \* the Reconcile call in progress (at most one: one worker)
    channel,     \* the messages in each plugin's enqueue channel
    closed,      \* the plugins that have closed their channel
    cases,       \* forwarder: the channels still in enqueueListSelect
    forward,     \* forwarder: the names received and not yet sent (at most one)
    now,         \* clock
    disruptions, \* disruptions so far
    vetted       \* history: <<i, p, r>> once i has answered ready for r of p

apiVars == <<policy, revisions, accepts, late>>
informerVars == <<watch, cache, events>>
forwarderVars == <<channel, closed, cases, forward>>
vars == <<apiVars, informerVars, queue, timers, calls, forwarderVars, now,
          disruptions, vetted>>

-----------------------------------------------------------------------------
(***************************************************************************)
(* Objects.  A spec is known by its revision, which counts the writes of   *)
(* the name over all the objects that bore it; `uid' is the revision that  *)
(* created the object, so that metadata.generation restarts at 1 with each *)
(* new object.  Revision 0 stands for an object, or a condition, that is   *)
(* not there.                                                              *)
(***************************************************************************)
Condition == [status : BOOLEAN, revision : Nat, observedGeneration : Nat,
              lastTransitionTime : Nat]
Object == {o \in [uid : Nat, revision : Nat, ready : Condition] : o.uid <= o.revision}

NoCondition == [status |-> FALSE, revision |-> 0, observedGeneration |-> 0,
                lastTransitionTime |-> 0]
NoObject == [uid |-> 0, revision |-> 0, ready |-> NoCondition]

Exists(o) == o.revision > 0
Generation(o) == o.revision - o.uid + 1

NoResult == [requeue |-> FALSE, after |-> 0]

\* A Reconcile call: the object it read from the cache, the reconciler it
\* calls next, whether all were ready so far, the merged result, and (history)
\* the results it was merged from.
Call == [name : Policy, object : Object, next : 1 .. N + 1, ready : BOOLEAN,
         result : [requeue : BOOLEAN, after : Nat], asked : SUBSET [requeue : BOOLEAN, after : Nat]]

-----------------------------------------------------------------------------
\* The API server stores object o under p and tells the informer.
Store(p, o) ==
    /\ policy' = [policy EXCEPT ![p] = o]
    /\ watch' = Append(watch, [name |-> p, object |-> o])

\* A new spec for p.  Built-in reconcilers accept every spec, a plugin any.
WriteSpec(p, uid, ready) ==
    LET r == revisions[p] + 1 IN
    /\ revisions[p] < MaxRevision
    /\ revisions' = [revisions EXCEPT ![p] = r]
    /\ Store(p, [uid |-> uid, revision |-> r, ready |-> ready])
    /\ \E S \in SUBSET Plugin :
          accepts' = accepts \cup ((S \cup (Reconciler \ Plugin)) \X {p} \X {r})
    /\ UNCHANGED <<late, cache, events, queue, timers, calls, forwarderVars, now,
                   disruptions, vetted>>

CreatePolicy(p) ==
    /\ ~Exists(policy[p])
    /\ WriteSpec(p, revisions[p] + 1, NoCondition)

UpdatePolicy(p) ==
    /\ Exists(policy[p])
    /\ WriteSpec(p, policy[p].uid, policy[p].ready)

DeletePolicy(p) ==
    /\ Exists(policy[p])
    /\ Store(p, NoObject)
    /\ UNCHANGED <<revisions, accepts, late, cache, events, queue, timers, calls,
                   forwarderVars, now, disruptions, vetted>>

-----------------------------------------------------------------------------
(***************************************************************************)
(* controller-runtime: informer, work queue, process.                      *)
(***************************************************************************)
Disrupt ==
    /\ disruptions < MaxDisruptions
    /\ disruptions' = disruptions + 1

\* The informer applies the next change and schedules the For() handler.
Sync ==
    /\ watch # <<>>
    /\ watch' = Tail(watch)
    /\ cache' = [cache EXCEPT ![Head(watch).name] = Head(watch).object]
    /\ events' = Append(events, Head(watch).name)
    /\ UNCHANGED <<apiVars, queue, timers, calls, forwarderVars, now,
                   disruptions, vetted>>

\* The handler of For() enqueues the object's name: there is no predicate.
Handle ==
    /\ events # <<>>
    /\ events' = Tail(events)
    /\ queue' = queue \cup {Head(events)}
    /\ UNCHANGED <<apiVars, watch, cache, timers, calls, forwarderVars, now,
                   disruptions, vetted>>

\* The periodic resync hands every cached object to the handler again.
Resync ==
    /\ Disrupt
    /\ queue' = queue \cup {p \in Policy : Exists(cache[p])}
    /\ UNCHANGED <<apiVars, informerVars, timers, calls, forwarderVars, now, vetted>>

\* The delay of an AddAfter or AddRateLimited has passed.
Expire(p) ==
    /\ p \in timers
    /\ timers' = timers \ {p}
    /\ queue' = queue \cup {p}
    /\ UNCHANGED <<apiVars, informerVars, calls, forwarderVars, now, disruptions, vetted>>

Tick ==
    /\ now < MaxTime
    /\ now' = now + 1
    /\ UNCHANGED <<apiVars, informerVars, queue, timers, calls, forwarderVars,
                   disruptions, vetted>>

-----------------------------------------------------------------------------
(***************************************************************************)
(* Reconcile.                                                              *)
(***************************************************************************)
\* Altered: the queue hands out a name that is still being reconciled.
StartTwice(p) ==
    /\ p \in queue
    /\ queue' = queue \ {p}
    /\ calls' = calls \cup {[name |-> p, object |-> o, next |-> 1, ready |-> TRUE,
                             result |-> NoResult, asked |-> {}] : o \in {cache[p]} \ {NoObject}}
    /\ UNCHANGED <<apiVars, informerVars, timers, forwarderVars, now,
                   disruptions, vetted>>

\* The worker takes p and reads it from the cache; an object that is gone
\* ends the call.
Start(p) ==
    /\ calls = {}
    /\ p \in queue
    /\ queue' = queue \ {p}
    /\ calls' = IF Exists(cache[p])
                THEN {[name |-> p, object |-> cache[p], next |-> 1,
                       ready |-> TRUE, result |-> NoResult, asked |-> {}]}
                ELSE {}
    /\ UNCHANGED <<apiVars, informerVars, timers, forwarderVars, now,
                   disruptions, vetted>>

\* How one response changes the result that Reconcile will return.
Merge(result, response) ==
    IF response.requeue \/ response.after > 0
    THEN [requeue |-> TRUE,
          after |-> IF ~result.requeue \/ result.after > response.after
                    THEN response.after
                    ELSE result.after]
    ELSE result

\* Altered: the last answer counts.
LastReady(ready, answer) == answer

\* Ready so far, given the next reconciler's answer.
AllReady(ready, answer) == ready /\ answer

\* The next reconciler's Ready is called with the object that was read.
CallReady ==
    \E c \in calls, response \in Response :
       LET ready == <<c.next, c.name, c.object.revision>> \in accepts IN
       /\ c.next <= N
       /\ calls' = (calls \ {c}) \cup
             {[c EXCEPT !.next = c.next + 1,
                        !.ready = AllReady(c.ready, ready),
                        !.result = Merge(c.result, response),
                        !.asked = c.asked \cup {response}]}
       /\ vetted' = IF ready
                    THEN vetted \cup {<<c.next, c.name, c.object.revision>>}
                    ELSE vetted
       /\ UNCHANGED <<apiVars, informerVars, queue, timers, forwarderVars, now,
                      disruptions>>

\* Altered: the object is read again for the condition.
RereadCondition(c) ==
    [status |-> c.ready,
     revision |-> cache[c.name].revision,
     observedGeneration |-> Generation(cache[c.name]),
     lastTransitionTime |-> now]

\* setCertificateRequestPolicyCondition, always given the empty conditions of
\* a new CertificateRequestPolicyStatus.
ReadyCondition(c) ==
    [status |-> c.ready,
     revision |-> c.object.revision,
     observedGeneration |-> Generation(c.object),
     lastTransitionTime |-> now]

\* A forced apply of the status of p, and of nothing else, by name; an apply
\* that changes nothing is not an event.
ApplyStatus(p, condition) ==
    LET old == policy[p]
        new == [old EXCEPT !.ready = condition]
    IN IF Exists(old) /\ old # new
       THEN Store(p, new)
       ELSE UNCHANGED <<policy, watch>>

\* Status().Patch: refused if the object is gone, and then retried with a
\* backoff.
Patch ==
    \E c \in calls :
       /\ c.next = N + 1
       /\ calls' = calls \ {c}
       /\ ApplyStatus(c.name, ReadyCondition(c))
       /\ timers' = IF ~Exists(policy[c.name]) \/ c.result.requeue
                    THEN timers \cup {c.name}
                    ELSE timers
       /\ UNCHANGED <<revisions, accepts, late, cache, events, queue, forwarderVars,
                      now, disruptions, vetted>>

\* Altered: the error is logged and nil is returned.
FailSilently ==
    /\ Disrupt
    /\ calls # {}
    /\ calls' = {}
    /\ UNCHANGED <<apiVars, informerVars, queue, timers, forwarderVars, now, vetted>>

\* A Get, a Ready or the Patch fails: Reconcile returns the error and the name
\* is added again with a backoff.
Fail ==
    /\ Disrupt
    /\ calls # {}
    /\ calls' = {}
    /\ timers' = timers \cup {c.name : c \in calls}
    /\ UNCHANGED <<apiVars, informerVars, queue, forwarderVars, now, vetted>>

-----------------------------------------------------------------------------
(***************************************************************************)
(* The process and its successor.                                          *)
(***************************************************************************)
\* The process stops anywhere, and it or another replica that has become the
\* leader starts: the informer lists the API server and every object is an Add
\* event; channels are opened anew.  A patch that was being sent may still be
\* on its way.
Restart ==
    /\ Disrupt
    /\ \E S \in SUBSET {c \in calls : c.next = N + 1} :
          late' = late \cup {[name |-> c.name, ready |-> ReadyCondition(c)] : c \in S}
    /\ watch' = <<>>
    /\ cache' = policy
    /\ events' = <<>>
    /\ queue' = {p \in Policy : Exists(policy[p])}
    /\ timers' = {}
    /\ calls' = {}
    /\ channel' = [i \in Plugin |-> <<>>]
    /\ closed' = {}
    /\ cases' = Plugin
    /\ forward' = {}
    /\ UNCHANGED <<policy, revisions, accepts, now, vetted>>

\* A former leader's patch arrives: nobody waits for the answer.
LatePatch ==
    \E d \in late :
       /\ late' = late \ {d}
       /\ ApplyStatus(d.name, d.ready)
       /\ UNCHANGED <<revisions, accepts, cache, events, queue, timers, calls,
                      forwarderVars, now, disruptions, vetted>>

-----------------------------------------------------------------------------
(***************************************************************************)
(* Plugins and the goroutine that forwards their messages.                 *)
(***************************************************************************)
\* What plugin i thinks of the spec of p changes, and it asks for a re-sync.
PluginChange(i, p) ==
    LET a == <<i, p, policy[p].revision>> IN
    /\ Disrupt
    /\ i \notin closed
    /\ Exists(policy[p])
    /\ accepts' = IF a \in accepts THEN accepts \ {a} ELSE accepts \cup {a}
    /\ channel' = [channel EXCEPT ![i] = Append(@, p)]
    /\ UNCHANGED <<policy, revisions, late, informerVars, queue, timers, calls,
                   closed, cases, forward, now, vetted>>

\* A plugin that will not change its mind any more closes its channel.
Close(i) ==
    /\ Disrupt
    /\ i \notin closed
    /\ closed' = closed \cup {i}
    /\ UNCHANGED <<apiVars, informerVars, queue, timers, calls, channel, cases,
                   forward, now, vetted>>

\* reflect.Select chooses a channel that holds a message.
Receive(i) ==
    /\ forward = {}
    /\ i \in cases
    /\ channel[i] # <<>>
    /\ forward' = {Head(channel[i])}
    /\ channel' = [channel EXCEPT ![i] = Tail(@)]
    /\ UNCHANGED <<apiVars, informerVars, queue, timers, calls, closed, cases,
                   now, disruptions, vetted>>

\* Altered: the loop ends with the first channel that is closed.
EndLoop(i) ==
    /\ forward = {}
    /\ i \in cases \cap closed
    /\ channel[i] = <<>>
    /\ cases' = {}
    /\ UNCHANGED <<apiVars, informerVars, queue, timers, calls, channel, closed,
                   forward, now, disruptions, vetted>>

\* reflect.Select chooses a closed channel: its case is set to nil, the loop
\* goes on with the others.
DropCase(i) ==
    /\ forward = {}
    /\ i \in cases \cap closed
    /\ channel[i] = <<>>
    /\ cases' = cases \ {i}
    /\ UNCHANGED <<apiVars, informerVars, queue, timers, calls, channel, closed,
                   forward, now, disruptions, vetted>>

\* Altered: the send is not waited for, the message may be dropped.
SendOrDrop ==
    /\ forward # {}
    /\ queue' \in {queue, queue \cup forward}
    /\ forward' = {}
    /\ UNCHANGED <<apiVars, informerVars, timers, calls, channel, closed, cases,
                   now, disruptions, vetted>>

\* The message is sent on genericChan, whose handler enqueues the name.
Send ==
    /\ forward # {}
    /\ queue' = queue \cup forward
    /\ forward' = {}
    /\ UNCHANGED <<apiVars, informerVars, timers, calls, channel, closed, cases,
                   now, disruptions, vetted>>

-----------------------------------------------------------------------------
Init ==
    /\ policy = [p \in Policy |-> NoObject]
    /\ revisions = [p \in Policy |-> 0]
    /\ accepts = {}
    /\ late = {}
    /\ watch = <<>>
    /\ cache = [p \in Policy |-> NoObject]
    /\ events = <<>>
    /\ queue = {}
    /\ timers = {}
    /\ calls = {}
    /\ channel = [i \in Plugin |-> <<>>]
    /\ closed = {}
    /\ cases = Plugin
    /\ forward = {}
    /\ now = 0
    /\ disruptions = 0
    /\ vetted = {}

Next ==
    \/ \E p \in Policy : \/ CreatePolicy(p)
                         \/ UpdatePolicy(p)
                         \/ DeletePolicy(p)
                         \/ Expire(p)
                         \/ Start(p)
    \/ Sync
    \/ Handle
    \/ Resync
    \/ Restart
    \/ LatePatch
    \/ Tick
    \/ CallReady
    \/ Patch
    \/ Fail
    \/ \E i \in Plugin : \/ \E p \in Policy : PluginChange(i, p)
                         \/ Close(i)
                         \/ Receive(i)
                         \/ DropCase(i)
    \/ Send

Spec == Init /\ [][Next]_vars

(***************************************************************************)
(* Fairness.  Informer, handler and forwarder are goroutines that run as   *)
(* long as they have work; timers expire; a call in progress goes on.  The *)
(* queue is first in, first out, so a name in it is taken although others  *)
(* are taken before it: strong fairness, as the worker is busy in between. *)
(* Nothing is assumed of users, plugins, the clock, failures and messages  *)
(* of former leaders.                                                      *)
(***************************************************************************)
Fairness ==
    /\ WF_vars(Sync) /\ WF_vars(Handle) /\ WF_vars(Send)
    /\ WF_vars(CallReady) /\ WF_vars(Patch)
    /\ \A p \in Policy : WF_vars(Expire(p)) /\ SF_vars(Start(p))
    /\ \A i \in Plugin : SF_vars(Receive(i)) /\ SF_vars(DropCase(i))

FairSpec == Spec /\ Fairness

-----------------------------------------------------------------------------
(***************************************************************************)
(* Properties.                                                             *)
(***************************************************************************)
\* Every variable has its type; one worker means one Reconcile call at most.
TypeOK ==
    /\ policy \in [Policy -> Object]
    /\ revisions \in [Policy -> Nat]
    /\ accepts \subseteq Reconciler \X Policy \X Nat
    /\ late \subseteq [name : Policy, ready : Condition]
    /\ watch \in Seq([name : Policy, object : Object])
    /\ cache \in [Policy -> Object]
    /\ events \in Seq(Policy)
    /\ queue \subseteq Policy
    /\ timers \subseteq Policy
    /\ calls \subseteq Call
    /\ \A c, d \in calls : c = d
    /\ channel \in [Plugin -> Seq(Policy)]
    /\ closed \subseteq Plugin
    /\ cases \subseteq Plugin
    /\ forward \subseteq Policy
    /\ now \in Nat
    /\ disruptions \in Nat
    /\ vetted \subseteq Reconciler \X Policy \X Nat

\* A condition that says ready says so of a revision of that very policy for
\* which each reconciler, without exception, has once answered ready.
Justified(p, condition) ==
    condition.status =>
       \A i \in Reconciler : <<i, p, condition.revision>> \in vetted

\* Reconcile: the Ready condition is True, on the API server and in the cache
\* the approver manager reads, only for a spec that all reconcilers vetted,
\* however writes, deletions and restarts fall between Get, Ready and Patch.
ReadyJustified ==
    \A p \in Policy : /\ Justified(p, policy[p].ready)
                      /\ Justified(p, cache[p].ready)

\* Reconcile: no forced apply replaces the status of an object by one that was
\* computed from an older spec than the status it replaces, unless it is a
\* former leader's and arrives late.
NoStatusRollback ==
    [][\A p \in Policy :
          policy'[p].uid = policy[p].uid /\ late \subseteq late' =>
             policy'[p].ready.revision >= policy[p].ready.revision]_vars

(***************************************************************************)
(* Why the two hold: the inductive invariant behind them.                  *)
(***************************************************************************)
\* A stored policy is the last revision of its name; one that is not there
\* leaves nothing behind.
Numbered ==
    \A p \in Policy : /\ revisions[p] <= MaxRevision
                      /\ IF Exists(policy[p])
                         THEN policy[p].revision = revisions[p] /\ policy[p].uid > 0
                         ELSE policy[p] = NoObject

\* Ready conditions on their way to the cache are justified as well, and a
\* call that still says ready has the answers of all it has called.
AnswersRecorded ==
    /\ \A k \in 1 .. Len(watch) : Justified(watch[k].name, watch[k].object.ready)
    /\ \A d \in late : Justified(d.name, d.ready)
    /\ \A c \in calls : c.ready =>
          \A i \in 1 .. c.next - 1 : <<i, c.name, c.object.revision>> \in vetted

\* Revision r is not newer than o, unless o is a deletion.
NotAfter(r, o) == Exists(o) => r <= o.revision

\* Status, call, cache and watch follow each other in the order of revisions:
\* what the worker will read next is never older than what it last read.
CacheInOrder ==
    \A p \in Policy :
       /\ cache[p].revision <= revisions[p]
       /\ policy[p].ready.revision <= revisions[p]
       /\ NotAfter(policy[p].ready.revision, cache[p])

WatchInOrder ==
    \A k \in 1 .. Len(watch) :
       LET p == watch[k].name
           o == watch[k].object
       IN  /\ o.revision <= revisions[p]
           /\ NotAfter(policy[p].ready.revision, o)
           /\ NotAfter(cache[p].revision, o)
           /\ \A j \in 1 .. k : watch[j].name = p => NotAfter(watch[j].object.revision, o)

CallInOrder ==
    \A c \in calls :
       /\ c.object.revision \in 1 .. revisions[c.name]
       /\ policy[c.name].ready.revision <= c.object.revision
       /\ NotAfter(c.object.revision, cache[c.name])
       /\ \A k \in 1 .. Len(watch) :
             watch[k].name = c.name => NotAfter(c.object.revision, watch[k].object)

\* A former leader's patch is no newer than anything its successor reads.
LateInOrder ==
    \A d \in late :
       /\ d.ready.revision \in 1 .. revisions[d.name]
       /\ NotAfter(d.ready.revision, cache[d.name])
       /\ \A k \in 1 .. Len(watch) :
             watch[k].name = d.name => NotAfter(d.ready.revision, watch[k].object)
       /\ \A c \in calls : c.name = d.name => d.ready.revision <= c.object.revision

InOrder == CacheInOrder /\ WatchInOrder /\ CallInOrder /\ LateInOrder

\* The controller's writes rest on reads that only move forward, and on answers
\* given for exactly what was read.
IInv == TypeOK /\ Numbered /\ ReadyJustified /\ AnswersRecorded /\ InOrder

(***************************************************************************)
(* The promise to the other controller: PolicyStatus.                      *)
(***************************************************************************)
StatusOf(p) == [revision |-> policy[p].revision, ready |-> policy[p].ready.status,
                observed |-> policy[p].ready.revision]

VettedByAll == {a \in Policy \X (1 .. MaxRevision) :
                   \A i \in Reconciler : <<i, a[1], a[2]>> \in vetted}

Status == INSTANCE PolicyStatus
          WITH policy <- [p \in Policy |-> StatusOf(p)], vetted <- VettedByAll

\* Reconcile: what the other controller sees of policies changes only as
\* PolicyStatus allows: the Ready condition is set for existing objects, from a
\* revision that was written, and to True only after all reconcilers accepted
\* that revision.
ImplementsPolicyStatus == Status!Spec

\* Nothing is left to do: informer, queue, timers, worker and channels.
Quiet ==
    /\ watch = <<>> /\ events = <<>>
    /\ queue = {} /\ timers = {} /\ calls = {}
    /\ forward = {} /\ \A i \in Plugin : channel[i] = <<>>

\* The Ready condition is the one the reconcilers would give to the spec now.
StatusCurrent(p) ==
    LET o == policy[p] IN
    /\ o.ready.revision = o.revision
    /\ o.ready.observedGeneration = Generation(o)
    /\ o.ready.status <=> \A i \in Reconciler : <<i, p, o.revision>> \in accepts

\* No lost wake-up: when the controller has nothing left to do, each policy's
\* condition is current.  Each write, each message on an enqueue channel and
\* each failed call must have led to a call that read what changed.
QuietMeansCurrent ==
    Quiet => \A p \in Policy : Exists(policy[p]) => StatusCurrent(p)

(***************************************************************************)
(* Why no wake-up is lost: the inductive invariant behind it.              *)
(***************************************************************************)
\* The last change on its way to the cache is what the API server stores; when
\* none is on its way, the cache is up to date.
CacheCatchesUp ==
    \A p \in Policy :
       /\ (\A k \in 1 .. Len(watch) : watch[k].name # p) => cache[p] = policy[p]
       /\ \A k \in 1 .. Len(watch) :
             watch[k].name = p /\ (\A j \in k + 1 .. Len(watch) : watch[j].name # p)
                => watch[k].object = policy[p]

\* Someone holds the name p and will have it reconciled: informer, queue,
\* forwarder or channel.
Awaited(p) ==
    \/ \E k \in 1 .. Len(watch) : watch[k].name = p
    \/ \E k \in 1 .. Len(events) : events[k] = p
    \/ p \in queue \cup timers \cup forward
    \/ \E i \in Plugin : \E k \in 1 .. Len(channel[i]) : channel[i][k] = p

\* The call read the stored spec, and no answer it was given has changed since.
OnCourse(c) ==
    LET o == policy[c.name] IN
    /\ c.object.uid = o.uid
    /\ c.object.revision = o.revision
    /\ c.ready <=> \A i \in 1 .. c.next - 1 : <<i, c.name, o.revision>> \in accepts

\* Reconcile: a policy whose condition is not current is being brought up to
\* date by the call in progress, or its name is still held by someone.
WakeUpKept ==
    \A p \in Policy :
       Exists(policy[p]) => \/ StatusCurrent(p)
                           \/ Awaited(p)
                           \/ \E c \in calls : c.name = p /\ OnCourse(c)

\* Reconcile and its informer: caches catch up, and no name that has to be
\* reconciled is dropped on its way from watch or plugin to the worker.
WakeUpInv == CacheCatchesUp /\ WakeUpKept

\* reconcileStatusPatch, of the durations that reconcilers ask for: "The
\* CertificateRequestPolicy may be reconciled again sooner, but never later than
\* the RequeueAfter duration" (pkg/approver/reconciler.go).  A result with Requeue
\* and no duration is not sooner: the work queue then waits for a backoff of its
\* own, which grows with each time.
RequeuedInTime ==
    \A c \in calls : \A a \in c.asked :
       a.requeue /\ a.after > 0 => c.result.requeue /\ c.result.after \in 1 .. a.after

\* Once writes, plugins and failures cease, each policy's condition becomes
\* current and stays so.
StatusConverges ==
    <>[](\A p \in Policy : Exists(policy[p]) => StatusCurrent(p))
=============================================================================
