------------------------------- MODULE Webhooks -------------------------------
(***************************************************************************)
(* Outbound webhooks (internal/webhook): the subscriber goroutine of the   *)
(* server that turns an event of the bus into one delivery row and one job *)
(* per matching webhook, the pool's workers that POST a delivery, and the  *)
(* webhook.* actions that edit the table underneath them.                  *)
(*                                                                         *)
(* Each SQL statement is a step: HandleEvent and RunJob open no            *)
(* transaction.  The rows survive a crash; the bus buffer, the subscriber  *)
(* and the workers do not.  One organisation is modelled, and only its     *)
(* webhook.deliver jobs.  The address and the secret, which the job copies *)
(* from the webhook row, do not matter to the control and are left out.    *)
(***************************************************************************)
EXTENDS Integers, Sequences, FiniteSets

CONSTANTS
    Hooks,        \* ids for rows of webhooks
    Events,       \* events the bus may carry, each published once
    Names,        \* event names
    EventName,    \* the name of each event
    Filters,      \* the event filters people store, as sets of names
    Workers,      \* goroutines of the pool
    None,         \* no event, no webhook, no delivery
    BufferSize,   \* capacity of the subscription's channel
    MaxAttempts,  \* max_attempts of deliveries and of their jobs
    MaxEdits,     \* bound: webhook.* actions
    MaxFaults,    \* bound: database errors
    MaxCrashes    \* bound: stops and crashes of the process

ASSUME NamesAssumption ==
    /\ EventName \in [Events -> Names]
    /\ Filters \subseteq SUBSET Names

ASSUME NoneAssumption ==
    /\ None \notin Hooks
    /\ None \notin Events
    /\ None \notin Events \X Hooks

ASSUME BoundsAssumption ==
    /\ BufferSize \in Nat
    /\ MaxAttempts \in Nat \ {0}
    /\ MaxEdits \in Nat
    /\ MaxFaults \in Nat
    /\ MaxCrashes \in Nat

VARIABLES
    hook,         \* webhooks: state and event_filter
    buffer,       \* the subscription's channel
    subPc,        \* progress of the subscriber through HandleEvent
    subEvent,     \* the event it handles
    subRest,      \* webhooks of its list still to enqueue
    subHook,      \* the webhook whose delivery it has just stored
    status,       \* webhook_deliveries.status, by event and webhook
    attempts,     \* webhook_deliveries.attempts
    jobStatus,    \* jobs.status
    jobAttempts,  \* jobs.attempts
    due,          \* jobs.run_at <= now
    pc,           \* progress of a worker
    job,          \* the delivery whose job it claimed
    tries,        \* attempts of that job when it was claimed
    seen,         \* attempts of the delivery when RunJob read it
    published,    \* history: events handed to Publish
    dropped,      \* history: events a full buffer did not take
    wanted,       \* history: matched at Publish and ever since
    muted,        \* history: not matched at Publish nor ever since
    accepted,     \* history: POSTs answered with a 2xx
    refused,      \* history: POSTs that failed
    edits,
    faults,
    crashes

subVars      == <<subPc, subEvent, subRest, subHook>>
deliveryVars == <<status, attempts>>
jobVars      == <<jobStatus, jobAttempts, due>>
claimVars    == <<job, tries>>
workerVars   == <<pc, claimVars, seen>>
eventVars    == <<published, dropped>>
matchVars    == <<wanted, muted>>
postVars     == <<accepted, refused>>
vars == <<hook, buffer, subVars, deliveryVars, jobVars, workerVars, eventVars,
          matchVars, postVars, edits, faults, crashes>>

\* A delivery is stored once per event and webhook: an event is handled once,
\* and one query lists a webhook once.
Deliveries == Events \X Hooks

HookStates       == {"unborn", "enabled", "disabled", "deleted"}
DeliveryStatuses == {"none", "queued", "delivered", "failed", "dead"}
JobStatuses      == {"none", "queued", "running", "succeeded", "dead"}
SubPcs           == {"idle", "list", "insert", "job"}

\* Where a worker is: polling; in RunJob; in the pool with RunJob's error; in
\* the pool without one.
BusyPcs   == {"find", "post", "delivered", "complete", "failed", "requeue",
              "bury", "error"}
WorkerPcs == {"idle", "return"} \cup BusyPcs

\* A statement on the database may fail while errors are left.
Fault == faults < MaxFaults /\ faults' = faults + 1

-----------------------------------------------------------------------------
(* The webhook.* actions                                                   *)

(***************************************************************************)
(* The listing of an organisation's enabled webhooks and filterMatches.    *)
(* A filter is the set of names its text matches: "[]" and "" match every  *)
(* name, a list the names on it, and "null", which json.Marshal writes for *)
(* a form left blank, none.                                                *)
(***************************************************************************)
Matches(hk, e) ==
    /\ hk.state = "enabled"
    /\ EventName[e] \in hk.filter

\* A row changed: what was matched, or was not, up to now and still is.
Rematch(h, hk) ==
    /\ wanted' = {d \in wanted : d[2] = h => Matches(hk, d[1])}
    /\ muted'  = {d \in muted  : d[2] = h => ~ Matches(hk, d[1])}

Edit == edits < MaxEdits /\ edits' = edits + 1

SetHook(h, hk) ==
    /\ Edit
    /\ hook' = [hook EXCEPT ![h] = hk]
    /\ Rematch(h, hk)

WebhookCreate(h, f) ==
    /\ hook[h].state = "unborn"
    /\ SetHook(h, [state |-> "enabled", filter |-> f])
    /\ UNCHANGED <<buffer, subVars, deliveryVars, jobVars, workerVars,
                   eventVars, postVars, faults, crashes>>

WebhookUpdate(h, f, s) ==
    /\ hook[h].state \in {"enabled", "disabled"}
    /\ SetHook(h, [state |-> s, filter |-> f])
    /\ UNCHANGED <<buffer, subVars, deliveryVars, jobVars, workerVars,
                   eventVars, postVars, faults, crashes>>

\* ON DELETE CASCADE takes the deliveries; their jobs stay.
WebhookDelete(h) ==
    /\ hook[h].state \in {"enabled", "disabled"}
    /\ SetHook(h, [state |-> "deleted", filter |-> {}])
    /\ status' = [d \in Deliveries |-> IF d[2] = h THEN "none" ELSE status[d]]
    /\ attempts' = [d \in Deliveries |-> IF d[2] = h THEN 0 ELSE attempts[d]]
    /\ UNCHANGED <<buffer, subVars, jobVars, workerVars, eventVars, postVars,
                   faults, crashes>>

-----------------------------------------------------------------------------
(* The bus and its subscriber                                              *)

\* The send that never blocks: a full buffer drops the event for good.
Offer(e) ==
    IF Len(buffer) < BufferSize
    THEN buffer' = Append(buffer, e) /\ UNCHANGED dropped
    ELSE dropped' = dropped \cup {e} /\ UNCHANGED buffer

Publish(e) ==
    /\ e \notin published
    /\ published' = published \cup {e}
    /\ Offer(e)
    /\ wanted' = wanted \cup {<<e, h>> : h \in {g \in Hooks : Matches(hook[g], e)}}
    /\ muted' = muted \cup {<<e, h>> : h \in {g \in Hooks : ~ Matches(hook[g], e)}}
    /\ UNCHANGED <<hook, subVars, deliveryVars, jobVars, workerVars,
                   postVars, edits, faults, crashes>>

\* HandleEvent returns; an error is logged and the event is not seen again.
SubRelease ==
    /\ subPc' = "idle"
    /\ subEvent' = None
    /\ subRest' = {}
    /\ subHook' = None

\* The next webhook of the list, or the end of it.
NextHook(rest) ==
    IF rest = {}
    THEN SubRelease
    ELSE /\ subPc' = "insert"
         /\ subRest' = rest
         /\ subHook' = None
         /\ UNCHANGED subEvent

Receive ==
    /\ subPc = "idle"
    /\ buffer # <<>>
    /\ subPc' = "list"
    /\ subEvent' = Head(buffer)
    /\ buffer' = Tail(buffer)
    /\ UNCHANGED <<hook, subRest, subHook, deliveryVars, jobVars, workerVars,
                   eventVars, matchVars, postVars, edits, faults, crashes>>

SubUnchanged == UNCHANGED <<hook, buffer, workerVars, eventVars, matchVars,
                            postVars, edits, crashes>>

\* Mutant: the listing does not ask for enabled = 1.
ListAll ==
    /\ subPc = "list"
    /\ NextHook({h \in Hooks : EventName[subEvent] \in hook[h].filter})
    /\ UNCHANGED <<deliveryVars, jobVars, faults>>
    /\ SubUnchanged

\* One query lists the webhooks; the loop below works from that list.
ListEnabled ==
    /\ subPc = "list"
    /\ \/ NextHook({h \in Hooks : Matches(hook[h], subEvent)}) /\ UNCHANGED faults
       \/ Fault /\ SubRelease
    /\ UNCHANGED <<deliveryVars, jobVars>>
    /\ SubUnchanged

\* The delivery row is stored, unless the webhook has gone since the listing
\* (its foreign key) or the insert fails: then the rest of the list is lost.
CreateDelivery(h) ==
    /\ subPc = "insert"
    /\ h \in subRest
    /\ \/ /\ hook[h].state # "deleted"
          /\ status' = [status EXCEPT ![<<subEvent, h>>] = "queued"]
          /\ attempts' = [attempts EXCEPT ![<<subEvent, h>>] = 0]
          /\ subPc' = "job"
          /\ subHook' = h
          /\ subRest' = subRest \ {h}
          /\ UNCHANGED <<subEvent, faults>>
       \/ /\ hook[h].state = "deleted"
          /\ SubRelease
          /\ UNCHANGED <<deliveryVars, faults>>
       \/ Fault /\ SubRelease /\ UNCHANGED deliveryVars
    /\ UNCHANGED jobVars
    /\ SubUnchanged

\* Mutant: HandleEvent stops after the first webhook that matches.
EnqueueJobAndStop ==
    /\ subPc = "job"
    /\ jobStatus' = [jobStatus EXCEPT ![<<subEvent, subHook>>] = "queued"]
    /\ due' = [due EXCEPT ![<<subEvent, subHook>>] = TRUE]
    /\ NextHook({})
    /\ UNCHANGED <<jobAttempts, deliveryVars, faults>>
    /\ SubUnchanged

\* A statement of its own: an error leaves a delivery without a job.
EnqueueJob ==
    /\ subPc = "job"
    /\ \/ /\ jobStatus' = [jobStatus EXCEPT ![<<subEvent, subHook>>] = "queued"]
          /\ due' = [due EXCEPT ![<<subEvent, subHook>>] = TRUE]
          /\ NextHook(subRest)
          /\ UNCHANGED <<jobAttempts, faults>>
       \/ Fault /\ SubRelease /\ UNCHANGED jobVars
    /\ UNCHANGED deliveryVars
    /\ SubUnchanged

Subscriber ==
    \/ Receive
    \/ ListEnabled
    \/ \E h \in Hooks : CreateDelivery(h)
    \/ EnqueueJob

-----------------------------------------------------------------------------
(* A worker of the pool and RunJob                                         *)

Goto(w, label) == pc' = [pc EXCEPT ![w] = label]

PutJob(d, s, a) ==
    /\ jobStatus' = [jobStatus EXCEPT ![d] = s]
    /\ jobAttempts' = [jobAttempts EXCEPT ![d] = a]

\* MarkJobFailed with status 'queued': claimable again after the delay.
Fail(d, a) ==
    /\ PutJob(d, "queued", a)
    /\ due' = [due EXCEPT ![d] = FALSE]

\* MarkJobComplete and MarkJobDead write the row whatever its status.
Complete(d) == PutJob(d, "succeeded", jobAttempts[d]) /\ UNCHANGED due
Dead(d)     == PutJob(d, "dead", jobAttempts[d]) /\ UNCHANGED due

\* UpdateWebhookDeliveryAttempt: no row is written once the webhook is gone.
UpdateDelivery(d, s, a) ==
    IF status[d] = "none"
    THEN UNCHANGED deliveryVars
    ELSE /\ status' = [status EXCEPT ![d] = s]
         /\ attempts' = [attempts EXCEPT ![d] = a]

WorkerUnchanged == UNCHANGED <<hook, buffer, subVars, eventVars, matchVars,
                               edits, crashes>>

\* ListQueued and the conditional UPDATE of Claim.  A job that a worker has
\* listed is claimed only if it is queued and due by then.
Claim(w, d) ==
    /\ pc[w] = "idle"
    /\ jobStatus[d] = "queued"
    /\ due[d]
    /\ jobStatus' = [jobStatus EXCEPT ![d] = "running"]
    /\ Goto(w, "find")
    /\ job' = [job EXCEPT ![w] = d]
    /\ tries' = [tries EXCEPT ![w] = jobAttempts[d]]
    /\ UNCHANGED <<jobAttempts, due, deliveryVars, seen, postVars, faults>>
    /\ WorkerUnchanged

\* The delivery is gone with its webhook, or the read fails: an error.
FindDelivery(w) ==
    /\ pc[w] = "find"
    /\ \/ /\ status[job[w]] # "none"
          /\ Goto(w, "post")
          /\ seen' = [seen EXCEPT ![w] = attempts[job[w]]]
          /\ UNCHANGED faults
       \/ status[job[w]] = "none" /\ Goto(w, "error") /\ UNCHANGED <<seen, faults>>
       \/ Fault /\ Goto(w, "error") /\ UNCHANGED seen
    /\ UNCHANGED <<deliveryVars, jobVars, claimVars, postVars>>
    /\ WorkerUnchanged

\* One signed POST: a 2xx, or a refused address, no answer or another code.
Post(w) ==
    /\ pc[w] = "post"
    /\ \/ /\ Goto(w, "delivered")
          /\ accepted' = [accepted EXCEPT ![job[w]] = @ + 1]
          /\ UNCHANGED refused
       \/ /\ Goto(w, "failed")
          /\ refused' = [refused EXCEPT ![job[w]] = @ + 1]
          /\ UNCHANGED accepted
    /\ UNCHANGED <<deliveryVars, jobVars, claimVars, seen, faults>>
    /\ WorkerUnchanged

\* The update has no attempts parameter, so it writes 0.
MarkDelivered(w) ==
    /\ pc[w] = "delivered"
    /\ \/ UpdateDelivery(job[w], "delivered", 0) /\ Goto(w, "complete") /\ UNCHANGED faults
       \/ Fault /\ Goto(w, "error") /\ UNCHANGED deliveryVars
    /\ UNCHANGED <<jobVars, claimVars, seen, postVars>>
    /\ WorkerUnchanged

\* Mutant: a delivered job is put back as a failed one is.
RequeueDelivered(w) ==
    /\ pc[w] = "complete"
    /\ Fail(job[w], tries[w])
    /\ pc' = [pc EXCEPT ![w] = "idle"]
    /\ job' = [job EXCEPT ![w] = None]
    /\ UNCHANGED <<deliveryVars, tries, seen, postVars, faults>>
    /\ WorkerUnchanged

CompleteDelivered(w) ==
    /\ pc[w] = "complete"
    /\ \/ Complete(job[w]) /\ Goto(w, "return") /\ UNCHANGED faults
       \/ Fault /\ Goto(w, "error") /\ UNCHANGED jobVars
    /\ UNCHANGED <<deliveryVars, claimVars, seen, postVars>>
    /\ WorkerUnchanged

\* Mutant: exhaustion counts the attempt still to come.
ExhaustedEarly(n) == n + 1 >= MaxAttempts

\* Mutant: exhaustion is noticed one attempt late.
ExhaustedLate(n) == n > MaxAttempts

Exhausted(n) == n >= MaxAttempts

MarkFailed(w) ==
    /\ pc[w] = "failed"
    /\ \/ /\ IF Exhausted(seen[w] + 1)
             THEN UpdateDelivery(job[w], "dead", seen[w] + 1) /\ Goto(w, "bury")
             ELSE UpdateDelivery(job[w], "failed", seen[w] + 1) /\ Goto(w, "requeue")
          /\ UNCHANGED faults
       \/ Fault /\ Goto(w, "error") /\ UNCHANGED deliveryVars
    /\ UNCHANGED <<jobVars, claimVars, seen, postVars>>
    /\ WorkerUnchanged

\* RunJob requeues or buries the job itself, and returns no error.
RequeueFailed(w) ==
    /\ pc[w] = "requeue"
    /\ \/ Fail(job[w], seen[w] + 1) /\ Goto(w, "return") /\ UNCHANGED faults
       \/ Fault /\ Goto(w, "error") /\ UNCHANGED jobVars
    /\ UNCHANGED <<deliveryVars, claimVars, seen, postVars>>
    /\ WorkerUnchanged

BuryExhausted(w) ==
    /\ pc[w] = "bury"
    /\ \/ Dead(job[w]) /\ Goto(w, "return") /\ UNCHANGED faults
       \/ Fault /\ Goto(w, "error") /\ UNCHANGED jobVars
    /\ UNCHANGED <<deliveryVars, claimVars, seen, postVars>>
    /\ WorkerUnchanged

Release(w) ==
    /\ Goto(w, "idle")
    /\ job' = [job EXCEPT ![w] = None]
    /\ tries' = [tries EXCEPT ![w] = 0]
    /\ seen' = [seen EXCEPT ![w] = 0]

\* The pool's own retry after an error; its errors are dropped.
PoolFail(w) ==
    /\ pc[w] = "error"
    /\ \/ /\ IF tries[w] + 1 < MaxAttempts
             THEN Fail(job[w], tries[w] + 1)
             ELSE Dead(job[w])
          /\ UNCHANGED faults
       \/ Fault /\ UNCHANGED jobVars
    /\ Release(w)
    /\ UNCHANGED <<deliveryVars, postVars>>
    /\ WorkerUnchanged

\* Without an error the job is marked succeeded, whatever RunJob left it as.
PoolComplete(w) ==
    /\ pc[w] = "return"
    /\ \/ Complete(job[w]) /\ UNCHANGED faults
       \/ Fault /\ UNCHANGED jobVars
    /\ Release(w)
    /\ UNCHANGED <<deliveryVars, postVars>>
    /\ WorkerUnchanged

RunJob(w) ==
    \/ FindDelivery(w)
    \/ Post(w)
    \/ MarkDelivered(w)
    \/ CompleteDelivered(w)
    \/ MarkFailed(w)
    \/ RequeueFailed(w)
    \/ BuryExhausted(w)

Worker(w) ==
    \/ \E d \in Deliveries : Claim(w, d)
    \/ RunJob(w)
    \/ PoolFail(w)
    \/ PoolComplete(w)

BecomeDue(d) ==
    /\ jobStatus[d] = "queued"
    /\ ~ due[d]
    /\ due' = [due EXCEPT ![d] = TRUE]
    /\ UNCHANGED <<hook, buffer, subVars, deliveryVars, jobStatus, jobAttempts,
                   workerVars, eventVars, matchVars, postVars, edits, faults,
                   crashes>>

-----------------------------------------------------------------------------

\* The process stops and starts: nothing requeues a job left running, and no
\* event is published again.
Crash ==
    /\ crashes < MaxCrashes
    /\ crashes' = crashes + 1
    /\ buffer' = <<>>
    /\ SubRelease
    /\ pc' = [w \in Workers |-> "idle"]
    /\ job' = [w \in Workers |-> None]
    /\ tries' = [w \in Workers |-> 0]
    /\ seen' = [w \in Workers |-> 0]
    /\ UNCHANGED <<hook, deliveryVars, jobVars, eventVars, matchVars, postVars,
                   edits, faults>>

Init ==
    /\ hook = [h \in Hooks |-> [state |-> "unborn", filter |-> {}]]
    /\ buffer = <<>>
    /\ subPc = "idle"
    /\ subEvent = None
    /\ subRest = {}
    /\ subHook = None
    /\ pc = [w \in Workers |-> "idle"]
    /\ job = [w \in Workers |-> None]
    /\ tries = [w \in Workers |-> 0]
    /\ seen = [w \in Workers |-> 0]
    /\ status = [d \in Deliveries |-> "none"]
    /\ attempts = [d \in Deliveries |-> 0]
    /\ jobStatus = [d \in Deliveries |-> "none"]
    /\ jobAttempts = [d \in Deliveries |-> 0]
    /\ due = [d \in Deliveries |-> FALSE]
    /\ published = {}
    /\ dropped = {}
    /\ wanted = {}
    /\ muted = {}
    /\ accepted = [d \in Deliveries |-> 0]
    /\ refused = [d \in Deliveries |-> 0]
    /\ edits = 0
    /\ faults = 0
    /\ crashes = 0

Next ==
    \/ \E h \in Hooks, f \in Filters : WebhookCreate(h, f)
    \/ \E h \in Hooks, f \in Filters, s \in {"enabled", "disabled"} :
         WebhookUpdate(h, f, s)
    \/ \E h \in Hooks : WebhookDelete(h)
    \/ \E e \in Events : Publish(e)
    \/ Subscriber
    \/ \E w \in Workers : Worker(w)
    \/ \E d \in Deliveries : BecomeDue(d)
    \/ Crash

Spec == Init /\ [][Next]_vars

(***************************************************************************)
(* Fairness.  A goroutine that can run does run: its statements are local  *)
(* SQLite writes and a POST ends within the client's ten seconds.  A delay *)
(* passes.  Nothing makes a person edit a webhook, an event happen, a      *)
(* statement fail or the process stop.                                     *)
(***************************************************************************)
FairSpec ==
    /\ Spec
    /\ WF_vars(Subscriber)
    /\ \A w \in Workers : WF_vars(Worker(w))
    /\ \A d \in Deliveries : WF_vars(BecomeDue(d))

-----------------------------------------------------------------------------
(* Properties                                                              *)

HookTypes ==
    /\ hook \in [Hooks -> [state : HookStates, filter : SUBSET Names]]
    /\ edits \in 0 .. MaxEdits

BusTypes ==
    /\ buffer \in Seq(Events) /\ Len(buffer) <= BufferSize
    /\ published \subseteq Events
    /\ dropped \subseteq Events

SubTypes ==
    /\ subPc \in SubPcs
    /\ subEvent \in Events \cup {None}
    /\ subRest \subseteq Hooks
    /\ subHook \in Hooks \cup {None}

DeliveryTypes ==
    /\ status \in [Deliveries -> DeliveryStatuses]
    /\ attempts \in [Deliveries -> Nat]

JobTypes ==
    /\ jobStatus \in [Deliveries -> JobStatuses]
    /\ jobAttempts \in [Deliveries -> 0 .. MaxAttempts - 1]
    /\ due \in [Deliveries -> BOOLEAN]

WorkerTypes ==
    /\ pc \in [Workers -> WorkerPcs]
    /\ job \in [Workers -> Deliveries \cup {None}]
    /\ tries \in [Workers -> 0 .. MaxAttempts - 1]
    /\ seen \in [Workers -> Nat]

HistoryTypes ==
    /\ wanted \subseteq Deliveries
    /\ muted \subseteq Deliveries
    /\ accepted \in [Deliveries -> Nat]
    /\ refused \in [Deliveries -> Nat]

DisturbanceTypes == faults \in 0 .. MaxFaults /\ crashes \in 0 .. MaxCrashes

\* The variables range over the values the code stores in them; a job row
\* never reaches max_attempts, whichever of RunJob and the pool counts.
TypeOK ==
    /\ HookTypes
    /\ BusTypes
    /\ SubTypes
    /\ DeliveryTypes
    /\ JobTypes
    /\ WorkerTypes
    /\ HistoryTypes
    /\ DisturbanceTypes

(***************************************************************************)
(* A receiver that answered 2xx gets the event again only for a database   *)
(* error after its answer, one time per error: a crash, a second worker or *)
(* the pool's own bookkeeping never repeats an accepted POST.              *)
(***************************************************************************)
AcceptedOncePerFault == \A d \in Deliveries : accepted[d] <= 1 + faults

\* A delivery is dead-lettered only after max_attempts POSTs have failed,
\* although RunJob and the pool count attempts separately and a worker counts
\* from the number it read before its POST.
DeadMeansExhausted ==
    \A d \in Deliveries : status[d] = "dead" => refused[d] >= MaxAttempts

(***************************************************************************)
(* An event is enqueued for every webhook that matched it from Publish on: *)
(* once the subscriber is done with it there is a delivery, and one that   *)
(* was not tried yet has a job a worker will find or holds.  What can lose *)
(* it: a full buffer, a failed statement, a crash, and a webhook deleted   *)
(* between the listing and its insert, which ends the loop for the others. *)
(***************************************************************************)
WantedIsEnqueued ==
    \A d \in wanted :
        \/ d[1] = subEvent
        \/ \E i \in DOMAIN buffer : buffer[i] = d[1]
        \/ d[1] \in dropped
        \/ faults > 0
        \/ crashes > 0
        \/ \E h \in Hooks : hook[h].state = "deleted"
        \/ /\ status[d] # "none"
           /\ status[d] = "queued" => jobStatus[d] \in {"queued", "running"}

\* A webhook that was off, or did not filter for the event, when the event was
\* published and ever since, has no delivery of it, wherever the listing and
\* the edits fall.
MutedNotEnqueued == \A d \in muted : status[d] = "none" /\ jobStatus[d] = "none"

(***************************************************************************)
(* PRD: outbound webhooks "with retry and dead-letter".  A delivery whose  *)
(* POST failed is tried until it is delivered or dead, or its webhook is   *)
(* deleted.  PoolComplete overwrites the requeue, so it is not.            *)
(***************************************************************************)
FailedDeliveryIsRetried ==
    \A d \in Deliveries :
        status[d] = "failed" ~> status[d] \in {"delivered", "dead", "none"}

-----------------------------------------------------------------------------
(* The inductive invariant behind the safety properties.                   *)

\* A job that was claimed belongs to one worker until that worker is done with
\* RunJob; until then nobody else can claim it.
HoldsJob ==
    /\ \A w \in Workers :
         /\ pc[w] # "idle" => job[w] \in Deliveries /\ jobStatus[job[w]] # "none"
         /\ pc[w] \in BusyPcs => jobStatus[job[w]] # "queued"
    /\ \A v, w \in Workers :
         pc[v] \in BusyPcs /\ pc[w] \in BusyPcs /\ job[v] = job[w] => v = w

\* Nothing was stored for d, neither a delivery nor a job.
Fresh(d) == status[d] = "none" /\ jobStatus[d] = "none"

\* An event passes through the buffer and the subscriber once, and what the
\* subscriber has still to store is not stored.
HandledOnce ==
    /\ \A e \in Events \ published : \A h \in Hooks : Fresh(<<e, h>>)
    /\ \A i \in 1 .. Len(buffer) :
         /\ buffer[i] \in published
         /\ buffer[i] # subEvent
         /\ \A h \in Hooks : Fresh(<<buffer[i], h>>)
         /\ \A j \in 1 .. Len(buffer) : buffer[i] = buffer[j] => i = j
    /\ subPc # "idle" => subEvent \in published
    /\ subPc = "idle" => subEvent = None
    /\ subPc = "list" => \A h \in Hooks : Fresh(<<subEvent, h>>)
    /\ subPc \in {"idle", "list"} => subRest = {}
    /\ \A h \in subRest : Fresh(<<subEvent, h>>)
    /\ subPc = "job" => /\ subHook \in Hooks \ subRest
                        /\ jobStatus[<<subEvent, subHook>>] = "none"

\* Until a job is out of reach of the workers, its delivery was accepted only
\* as often as statements have failed.
AcceptedOK ==
    /\ \A d \in Deliveries :
         /\ accepted[d] <= 1 + faults
         /\ jobStatus[d] \in {"none", "queued"} => accepted[d] <= faults
    /\ \A w \in Workers :
         pc[w] \in BusyPcs \ {"delivered", "complete"} => accepted[job[w]] <= faults

\* Attempts, stored or read, count failed POSTs.
CountsOK ==
    /\ \A d \in Deliveries :
         /\ attempts[d] <= refused[d]
         /\ status[d] = "dead" => refused[d] >= MaxAttempts
    /\ \A w \in Workers :
         /\ pc[w] = "post" => seen[w] <= refused[job[w]]
         /\ pc[w] = "failed" => seen[w] + 1 <= refused[job[w]]
         /\ pc[w] = "requeue" => seen[w] + 1 < MaxAttempts

\* What was never matched is not on the subscriber's list either.
MutedOK ==
    \A d \in muted :
        /\ d[1] \in published
        /\ ~ Matches(hook[d[2]], d[1])
        /\ Fresh(d)
        /\ d[1] = subEvent => d[2] \notin subRest /\ (subPc = "job" => d[2] # subHook)

\* Without errors, crashes and deletions.
Undisturbed ==
    /\ faults = 0
    /\ crashes = 0
    /\ \A h \in Hooks : hook[h].state # "deleted"

\* The delivery and the job of d are stored, and one of them shows that a
\* worker will try it or has tried it.
Enqueued(d) ==
    /\ status[d] # "none"
    /\ status[d] = "queued" => jobStatus[d] \in {"queued", "running"}

\* The event of d is lost for good or waits in the buffer, or the subscriber has
\* still to store d or its job.
OnItsWay(d) ==
    \/ d[1] \in dropped
    \/ \E i \in 1 .. Len(buffer) : buffer[i] = d[1]
    \/ /\ d[1] = subEvent
       /\ \/ subPc = "list"
          \/ d[2] \in subRest
          \/ subPc = "job" /\ d[2] = subHook /\ status[d] # "none"

\* A job has its delivery, and a worker past the POST has recorded the outcome.
RowsOK ==
    /\ \A d \in Deliveries : jobStatus[d] # "none" => status[d] # "none"
    /\ \A w \in Workers :
         /\ pc[w] # "error"
         /\ pc[w] \in {"complete", "requeue", "bury", "return"} =>
              status[job[w]] # "queued"
    /\ subPc = "job" => status[<<subEvent, subHook>>] # "none"

WantedOK ==
    /\ \A d \in wanted : d[1] \in published /\ Matches(hook[d[2]], d[1])
    /\ Undisturbed => RowsOK /\ \A d \in wanted : Enqueued(d) \/ OnItsWay(d)

=============================================================================
