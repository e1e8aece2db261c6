--------------------------- MODULE WebhooksProofs ---------------------------
(***************************************************************************)
(* The safety properties of Webhooks for any number of webhooks, events    *)
(* and workers, any filters, and any number of edits, errors and crashes.  *)
(*                                                                         *)
(* The invariant says that a claimed job belongs to one worker (HoldsJob)  *)
(* and that an event reaches the tables once (HandledOnce); the counts of  *)
(* answers and the two statements about matching rest on these.            *)
(***************************************************************************)
EXTENDS Webhooks, SequenceTheorems, TLAPS

IInv ==
    /\ TypeOK
    /\ HoldsJob
    /\ HandledOnce
    /\ AcceptedOK
    /\ CountsOK
    /\ MutedOK
    /\ WantedOK

-----------------------------------------------------------------------------
\* The initial state satisfies the invariant.
LEMMA InitInv == Init => IInv
<1> SUFFICES ASSUME Init PROVE IInv
  OBVIOUS
<1>1. buffer \in Seq(Events) /\ Len(buffer) = 0
  BY EmptySeq DEF Init
<1> QED
  BY <1>1, BoundsAssumption
     DEF Init, IInv, TypeOK, HookTypes, BusTypes, SubTypes, DeliveryTypes, JobTypes,
         WorkerTypes, HistoryTypes, DisturbanceTypes, HoldsJob, HandledOnce,
         AcceptedOK, CountsOK, MutedOK, WantedOK, RowsOK, Fresh, Deliveries,
         HookStates, DeliveryStatuses, JobStatuses, SubPcs, BusyPcs, WorkerPcs

\* A part of the state that a step leaves alone keeps its types.
LEMMA TypesStay ==
    /\ HookTypes /\ UNCHANGED <<hook, edits>> => HookTypes'
    /\ BusTypes /\ UNCHANGED <<buffer, eventVars>> => BusTypes'
    /\ SubTypes /\ UNCHANGED <<subVars>> => SubTypes'
    /\ DeliveryTypes /\ UNCHANGED <<deliveryVars>> => DeliveryTypes'
    /\ JobTypes /\ UNCHANGED <<jobVars>> => JobTypes'
    /\ WorkerTypes /\ UNCHANGED <<workerVars>> => WorkerTypes'
    /\ HistoryTypes /\ UNCHANGED <<matchVars, postVars>> => HistoryTypes'
    /\ DisturbanceTypes /\ UNCHANGED <<faults, crashes>> => DisturbanceTypes'
<1>1. HookTypes /\ UNCHANGED <<hook, edits>> => HookTypes'
  BY DEF HookTypes
<1>2. BusTypes /\ UNCHANGED <<buffer, eventVars>> => BusTypes'
  BY DEF BusTypes, eventVars
<1>3. SubTypes /\ UNCHANGED <<subVars>> => SubTypes'
  BY DEF SubTypes, subVars
<1>4. DeliveryTypes /\ UNCHANGED <<deliveryVars>> => DeliveryTypes'
  BY DEF DeliveryTypes, deliveryVars
<1>5. JobTypes /\ UNCHANGED <<jobVars>> => JobTypes'
  BY DEF JobTypes, jobVars
<1>6. WorkerTypes /\ UNCHANGED <<workerVars>> => WorkerTypes'
  BY DEF WorkerTypes, workerVars, claimVars
<1>7. HistoryTypes /\ UNCHANGED <<matchVars, postVars>> => HistoryTypes'
  BY DEF HistoryTypes, matchVars, postVars
<1>8. DisturbanceTypes /\ UNCHANGED <<faults, crashes>> => DisturbanceTypes'
  BY DEF DisturbanceTypes
<1> QED BY <1>1, <1>2, <1>3, <1>4, <1>5, <1>6, <1>7, <1>8

\* Every step keeps the variables in their types.
LEMMA NextTypes == IInv /\ [Next]_vars => TypeOK'
<1> SUFFICES ASSUME IInv, [Next]_vars PROVE TypeOK'
  OBVIOUS
<1>0. TypeOK /\ HoldsJob /\ HandledOnce /\ CountsOK
  BY DEF IInv
<1>a. /\ HookTypes /\ BusTypes /\ SubTypes /\ DeliveryTypes /\ JobTypes
      /\ WorkerTypes /\ HistoryTypes /\ DisturbanceTypes
  BY <1>0 DEF TypeOK
<1>1. ASSUME NEW h \in Hooks, NEW f \in Filters, WebhookCreate(h, f) PROVE TypeOK'
  <2>1. HookTypes'
    BY <1>a, <1>1, NamesAssumption, BoundsAssumption
       DEF WebhookCreate, SetHook, Edit, Rematch, HookTypes, HookStates
  <2>2. HistoryTypes'
    BY <1>a, <1>1
       DEF WebhookCreate, SetHook, Edit, Rematch, postVars, HistoryTypes
  <2> QED
    BY <1>a, <1>1, <2>1, <2>2, TypesStay
       DEF TypeOK, WebhookCreate, SetHook, Edit, Rematch, subVars, deliveryVars,
           jobVars, workerVars, claimVars, eventVars, postVars, matchVars
<1>2. ASSUME NEW h \in Hooks, NEW f \in Filters, NEW s \in {"enabled", "disabled"},
            WebhookUpdate(h, f, s) PROVE TypeOK'
  <2>1. HookTypes'
    BY <1>a, <1>2, NamesAssumption, BoundsAssumption
       DEF WebhookUpdate, SetHook, Edit, Rematch, HookTypes, HookStates
  <2>2. HistoryTypes'
    BY <1>a, <1>2
       DEF WebhookUpdate, SetHook, Edit, Rematch, postVars, HistoryTypes
  <2> QED
    BY <1>a, <1>2, <2>1, <2>2, TypesStay
       DEF TypeOK, WebhookUpdate, SetHook, Edit, Rematch, subVars, deliveryVars,
           jobVars, workerVars, claimVars, eventVars, postVars, matchVars
<1>3. ASSUME NEW h \in Hooks, WebhookDelete(h) PROVE TypeOK'
  <2>1. HookTypes'
    BY <1>a, <1>3, NamesAssumption, BoundsAssumption
       DEF WebhookDelete, SetHook, Edit, Rematch, HookTypes, HookStates
  <2>2. DeliveryTypes'
    BY <1>a, <1>3
       DEF WebhookDelete, SetHook, Edit, Rematch, deliveryVars, DeliveryTypes,
           DeliveryStatuses
  <2>3. HistoryTypes'
    BY <1>a, <1>3
       DEF WebhookDelete, SetHook, Edit, Rematch, postVars, HistoryTypes
  <2> QED
    BY <1>a, <1>3, <2>1, <2>2, <2>3, TypesStay
       DEF TypeOK, WebhookDelete, SetHook, Edit, Rematch, subVars, deliveryVars,
           jobVars, workerVars, claimVars, eventVars, postVars, matchVars
<1>4. ASSUME NEW e \in Events, Publish(e) PROVE TypeOK'
  <2>1. /\ Append(buffer, e) \in Seq(Events)
        /\ Len(Append(buffer, e)) = Len(buffer) + 1
        /\ Len(buffer) \in Nat
    BY <1>a, AppendProperties, LenProperties DEF BusTypes
  <2>2. BusTypes'
    BY <2>1, <1>a, <1>4, BoundsAssumption
       DEF Publish, Offer, eventVars, BusTypes
  <2>3. HistoryTypes'
    BY <2>1, <1>a, <1>4
       DEF Publish, Offer, matchVars, postVars, HistoryTypes, Deliveries, Matches
  <2> QED
    BY <1>a, <1>4, <2>2, <2>3, TypesStay
       DEF TypeOK, Publish, Offer, subVars, deliveryVars, jobVars, workerVars,
           claimVars, eventVars, matchVars, postVars
<1>5. ASSUME Receive PROVE TypeOK'
  <2>1. /\ Head(buffer) \in Events
        /\ Tail(buffer) \in Seq(Events)
        /\ Len(Tail(buffer)) = Len(buffer) - 1
        /\ Len(buffer) \in Nat
    BY <1>a, <1>5, HeadTailProperties, LenProperties DEF BusTypes, Receive
  <2>2. BusTypes'
    BY <2>1, <1>a, <1>5, BoundsAssumption
       DEF Receive, eventVars, BusTypes
  <2>3. SubTypes'
    BY <2>1, <1>a, <1>5
       DEF Receive, subVars, SubTypes, SubPcs
  <2> QED
    BY <1>a, <1>5, <2>2, <2>3, TypesStay
       DEF TypeOK, Receive, subVars, deliveryVars, jobVars, workerVars, claimVars,
           eventVars, matchVars, postVars
<1>6. ASSUME ListEnabled PROVE TypeOK'
  <2>1. SubTypes'
    BY <1>a, <1>6
       DEF ListEnabled, NextHook, SubRelease, Fault, SubUnchanged, subVars, SubTypes,
           SubPcs
  <2>2. DisturbanceTypes'
    BY <1>a, <1>6, BoundsAssumption
       DEF ListEnabled, NextHook, SubRelease, Fault, SubUnchanged, DisturbanceTypes
  <2> QED
    BY <1>a, <1>6, <2>1, <2>2, TypesStay
       DEF TypeOK, ListEnabled, NextHook, SubRelease, Fault, SubUnchanged, subVars,
           deliveryVars, jobVars, workerVars, claimVars, eventVars, matchVars,
           postVars
<1>7. ASSUME NEW h \in Hooks, CreateDelivery(h) PROVE TypeOK'
  <2>1. <<subEvent, h>> \in Deliveries
    BY <1>0, <1>a, <1>7 DEF CreateDelivery, HandledOnce, SubTypes, BusTypes, Deliveries
  <2>2. SubTypes'
    BY <2>1, <1>a, <1>7
       DEF CreateDelivery, SubRelease, Fault, SubUnchanged, subVars, SubTypes,
           SubPcs
  <2>3. DeliveryTypes'
    BY <2>1, <1>a, <1>7
       DEF CreateDelivery, SubRelease, Fault, SubUnchanged, deliveryVars,
           DeliveryTypes, DeliveryStatuses
  <2>4. DisturbanceTypes'
    BY <2>1, <1>a, <1>7, BoundsAssumption
       DEF CreateDelivery, SubRelease, Fault, SubUnchanged, DisturbanceTypes
  <2> QED
    BY <1>a, <1>7, <2>2, <2>3, <2>4, TypesStay
       DEF TypeOK, CreateDelivery, SubRelease, Fault, SubUnchanged, subVars,
           deliveryVars, jobVars, workerVars, claimVars, eventVars, matchVars,
           postVars
<1>8. ASSUME EnqueueJob PROVE TypeOK'
  <2>1. <<subEvent, subHook>> \in Deliveries
    BY <1>0, <1>a, <1>8 DEF EnqueueJob, HandledOnce, SubTypes, BusTypes, Deliveries
  <2>2. SubTypes'
    BY <2>1, <1>a, <1>8
       DEF EnqueueJob, NextHook, SubRelease, Fault, SubUnchanged, subVars, SubTypes,
           SubPcs
  <2>3. JobTypes'
    BY <2>1, <1>a, <1>8, BoundsAssumption
       DEF EnqueueJob, NextHook, SubRelease, Fault, SubUnchanged, jobVars, JobTypes,
           JobStatuses
  <2>4. DisturbanceTypes'
    BY <2>1, <1>a, <1>8, BoundsAssumption
       DEF EnqueueJob, NextHook, SubRelease, Fault, SubUnchanged, DisturbanceTypes
  <2> QED
    BY <1>a, <1>8, <2>2, <2>3, <2>4, TypesStay
       DEF TypeOK, EnqueueJob, NextHook, SubRelease, Fault, SubUnchanged, subVars,
           deliveryVars, jobVars, workerVars, claimVars, eventVars, matchVars,
           postVars
<1>9. ASSUME NEW w \in Workers, NEW d \in Deliveries, Claim(w, d) PROVE TypeOK'
  <2>1. jobAttempts[d] \in 0 .. MaxAttempts - 1
    BY <1>0, <1>a, <1>9, BoundsAssumption DEF JobTypes
  <2>2. JobTypes'
    BY <2>1, <1>a, <1>9, BoundsAssumption
       DEF Claim, Goto, WorkerUnchanged, jobVars, JobTypes, JobStatuses
  <2>3. WorkerTypes'
    BY <2>1, <1>a, <1>9, BoundsAssumption
       DEF Claim, Goto, WorkerUnchanged, workerVars, claimVars, WorkerTypes,
           WorkerPcs, BusyPcs
  <2> QED
    BY <1>a, <1>9, <2>2, <2>3, TypesStay
       DEF TypeOK, Claim, Goto, WorkerUnchanged, subVars, deliveryVars, jobVars,
           workerVars, claimVars, eventVars, matchVars, postVars
<1>10. ASSUME NEW w \in Workers, FindDelivery(w) PROVE TypeOK'
  <2>1. job[w] \in Deliveries
    BY <1>0, <1>10 DEF FindDelivery, HoldsJob
  <2>2. attempts[job[w]] \in Nat
    BY <2>1, <1>0, <1>a, <1>10, BoundsAssumption DEF DeliveryTypes
  <2>3. WorkerTypes'
    BY <2>1, <2>2, <1>a, <1>10, BoundsAssumption
       DEF FindDelivery, Goto, Fault, WorkerUnchanged, workerVars, claimVars,
           WorkerTypes, WorkerPcs, BusyPcs
  <2>4. DisturbanceTypes'
    BY <2>1, <2>2, <1>a, <1>10, BoundsAssumption
       DEF FindDelivery, Goto, Fault, WorkerUnchanged, DisturbanceTypes
  <2> QED
    BY <1>a, <1>10, <2>3, <2>4, TypesStay
       DEF TypeOK, FindDelivery, Goto, Fault, WorkerUnchanged, subVars, deliveryVars,
           jobVars, workerVars, claimVars, eventVars, matchVars, postVars
<1>11. ASSUME NEW w \in Workers, Post(w) PROVE TypeOK'
  <2>1. job[w] \in Deliveries
    BY <1>0, <1>11 DEF Post, HoldsJob
  <2>2. WorkerTypes'
    BY <2>1, <1>a, <1>11, BoundsAssumption
       DEF Post, Goto, WorkerUnchanged, workerVars, claimVars, WorkerTypes,
           WorkerPcs, BusyPcs
  <2>3. HistoryTypes'
    BY <2>1, <1>a, <1>11
       DEF Post, Goto, WorkerUnchanged, matchVars, postVars, HistoryTypes
  <2> QED
    BY <1>a, <1>11, <2>2, <2>3, TypesStay
       DEF TypeOK, Post, Goto, WorkerUnchanged, subVars, deliveryVars, jobVars,
           workerVars, claimVars, eventVars, matchVars, postVars
<1>12. ASSUME NEW w \in Workers, MarkDelivered(w) PROVE TypeOK'
  <2>1. job[w] \in Deliveries
    BY <1>0, <1>12 DEF MarkDelivered, HoldsJob
  <2>2. DeliveryTypes'
    BY <2>1, <1>a, <1>12
       DEF MarkDelivered, UpdateDelivery, Goto, Fault, WorkerUnchanged, deliveryVars,
           DeliveryTypes, DeliveryStatuses
  <2>3. WorkerTypes'
    BY <2>1, <1>a, <1>12, BoundsAssumption
       DEF MarkDelivered, UpdateDelivery, Goto, Fault, WorkerUnchanged, workerVars,
           claimVars, WorkerTypes, WorkerPcs, BusyPcs
  <2>4. DisturbanceTypes'
    BY <2>1, <1>a, <1>12, BoundsAssumption
       DEF MarkDelivered, UpdateDelivery, Goto, Fault, WorkerUnchanged,
           DisturbanceTypes
  <2> QED
    BY <1>a, <1>12, <2>2, <2>3, <2>4, TypesStay
       DEF TypeOK, MarkDelivered, UpdateDelivery, Goto, Fault, WorkerUnchanged,
           subVars, deliveryVars, jobVars, workerVars, claimVars, eventVars,
           matchVars, postVars
<1>13. ASSUME NEW w \in Workers, CompleteDelivered(w) PROVE TypeOK'
  <2>1. job[w] \in Deliveries
    BY <1>0, <1>13 DEF CompleteDelivered, HoldsJob
  <2>2. JobTypes'
    BY <2>1, <1>a, <1>13, BoundsAssumption
       DEF CompleteDelivered, Complete, PutJob, Goto, Fault, WorkerUnchanged,
           jobVars, JobTypes, JobStatuses
  <2>3. WorkerTypes'
    BY <2>1, <1>a, <1>13, BoundsAssumption
       DEF CompleteDelivered, Complete, PutJob, Goto, Fault, WorkerUnchanged,
           workerVars, claimVars, WorkerTypes, WorkerPcs, BusyPcs
  <2>4. DisturbanceTypes'
    BY <2>1, <1>a, <1>13, BoundsAssumption
       DEF CompleteDelivered, Complete, PutJob, Goto, Fault, WorkerUnchanged,
           DisturbanceTypes
  <2> QED
    BY <1>a, <1>13, <2>2, <2>3, <2>4, TypesStay
       DEF TypeOK, CompleteDelivered, Complete, PutJob, Goto, Fault, WorkerUnchanged,
           subVars, deliveryVars, jobVars, workerVars, claimVars, eventVars,
           matchVars, postVars
<1>14. ASSUME NEW w \in Workers, MarkFailed(w) PROVE TypeOK'
  <2>1. job[w] \in Deliveries
    BY <1>0, <1>14 DEF MarkFailed, HoldsJob
  <2>2. seen[w] + 1 \in Nat
    BY <2>1, <1>0, <1>a, <1>14, BoundsAssumption DEF WorkerTypes
  <2>3. DeliveryTypes'
    BY <2>1, <2>2, <1>a, <1>14
       DEF MarkFailed, UpdateDelivery, Exhausted, Goto, Fault, WorkerUnchanged,
           deliveryVars, DeliveryTypes, DeliveryStatuses
  <2>4. WorkerTypes'
    BY <2>1, <2>2, <1>a, <1>14, BoundsAssumption
       DEF MarkFailed, UpdateDelivery, Exhausted, Goto, Fault, WorkerUnchanged,
           workerVars, claimVars, WorkerTypes, WorkerPcs, BusyPcs
  <2>5. DisturbanceTypes'
    BY <2>1, <2>2, <1>a, <1>14, BoundsAssumption
       DEF MarkFailed, UpdateDelivery, Exhausted, Goto, Fault, WorkerUnchanged,
           DisturbanceTypes
  <2> QED
    BY <1>a, <1>14, <2>3, <2>4, <2>5, TypesStay
       DEF TypeOK, MarkFailed, UpdateDelivery, Exhausted, Goto, Fault,
           WorkerUnchanged, subVars, deliveryVars, jobVars, workerVars, claimVars,
           eventVars, matchVars, postVars
<1>15. ASSUME NEW w \in Workers, RequeueFailed(w) PROVE TypeOK'
  <2>1. job[w] \in Deliveries
    BY <1>0, <1>15 DEF RequeueFailed, HoldsJob
  <2>2. PICK a \in 0 .. MaxAttempts - 1 : a = seen[w] + 1
    BY <2>1, <1>0, <1>a, <1>15, BoundsAssumption DEF WorkerTypes, CountsOK, RequeueFailed
  <2>3. JobTypes'
    <3>1. CASE Fail(job[w], seen[w] + 1)
      <4>1. jobStatus' \in [Deliveries -> JobStatuses]
        BY <1>a, <3>1 DEF Fail, PutJob, JobTypes, JobStatuses
      <4>2. jobAttempts' \in [Deliveries -> 0 .. MaxAttempts - 1]
        BY <1>a, <2>1, <2>2, <3>1 DEF Fail, PutJob, JobTypes
      <4>3. due' \in [Deliveries -> BOOLEAN]
        BY <1>a, <3>1 DEF Fail, JobTypes
      <4> QED BY <4>1, <4>2, <4>3 DEF JobTypes
    <3>2. CASE UNCHANGED jobVars
      BY <1>a, <3>2, TypesStay
    <3> QED BY <1>15, <3>1, <3>2 DEF RequeueFailed
  <2>4. WorkerTypes'
    BY <2>1, <2>2, <1>a, <1>15, BoundsAssumption
       DEF RequeueFailed, Fail, PutJob, Goto, Fault, WorkerUnchanged, workerVars,
           claimVars, WorkerTypes, WorkerPcs, BusyPcs
  <2>5. DisturbanceTypes'
    BY <2>1, <2>2, <1>a, <1>15, BoundsAssumption
       DEF RequeueFailed, Fail, PutJob, Goto, Fault, WorkerUnchanged,
           DisturbanceTypes
  <2> QED
    BY <1>a, <1>15, <2>3, <2>4, <2>5, TypesStay
       DEF TypeOK, RequeueFailed, Fail, PutJob, Goto, Fault, WorkerUnchanged,
           subVars, deliveryVars, jobVars, workerVars, claimVars, eventVars,
           matchVars, postVars
<1>16. ASSUME NEW w \in Workers, BuryExhausted(w) PROVE TypeOK'
  <2>1. job[w] \in Deliveries
    BY <1>0, <1>16 DEF BuryExhausted, HoldsJob
  <2>2. JobTypes'
    BY <2>1, <1>a, <1>16, BoundsAssumption
       DEF BuryExhausted, Dead, PutJob, Goto, Fault, WorkerUnchanged, jobVars,
           JobTypes, JobStatuses
  <2>3. WorkerTypes'
    BY <2>1, <1>a, <1>16, BoundsAssumption
       DEF BuryExhausted, Dead, PutJob, Goto, Fault, WorkerUnchanged, workerVars,
           claimVars, WorkerTypes, WorkerPcs, BusyPcs
  <2>4. DisturbanceTypes'
    BY <2>1, <1>a, <1>16, BoundsAssumption
       DEF BuryExhausted, Dead, PutJob, Goto, Fault, WorkerUnchanged,
           DisturbanceTypes
  <2> QED
    BY <1>a, <1>16, <2>2, <2>3, <2>4, TypesStay
       DEF TypeOK, BuryExhausted, Dead, PutJob, Goto, Fault, WorkerUnchanged,
           subVars, deliveryVars, jobVars, workerVars, claimVars, eventVars,
           matchVars, postVars
<1>17. ASSUME NEW w \in Workers, PoolFail(w) PROVE TypeOK'
  <2>1. job[w] \in Deliveries
    BY <1>0, <1>17 DEF PoolFail, HoldsJob
  <2>2. /\ tries[w] + 1 < MaxAttempts => tries[w] + 1 \in 0 .. MaxAttempts - 1
        /\ jobAttempts[job[w]] \in 0 .. MaxAttempts - 1
    BY <2>1, <1>0, <1>a, <1>17, BoundsAssumption DEF WorkerTypes, JobTypes
  <2>3. JobTypes'
    BY <2>1, <2>2, <1>a, <1>17, BoundsAssumption
       DEF PoolFail, Fail, Dead, PutJob, Release, Goto, Fault, WorkerUnchanged,
           jobVars, JobTypes, JobStatuses
  <2>4. WorkerTypes'
    BY <2>1, <2>2, <1>a, <1>17, BoundsAssumption
       DEF PoolFail, Fail, Dead, PutJob, Release, Goto, Fault, WorkerUnchanged,
           workerVars, claimVars, WorkerTypes, WorkerPcs, BusyPcs
  <2>5. DisturbanceTypes'
    BY <2>1, <2>2, <1>a, <1>17, BoundsAssumption
       DEF PoolFail, Fail, Dead, PutJob, Release, Goto, Fault, WorkerUnchanged,
           DisturbanceTypes
  <2> QED
    BY <1>a, <1>17, <2>3, <2>4, <2>5, TypesStay
       DEF TypeOK, PoolFail, Fail, Dead, PutJob, Release, Goto, Fault,
           WorkerUnchanged, subVars, deliveryVars, jobVars, workerVars, claimVars,
           eventVars, matchVars, postVars
<1>18. ASSUME NEW w \in Workers, PoolComplete(w) PROVE TypeOK'
  <2>1. job[w] \in Deliveries
    BY <1>0, <1>18 DEF PoolComplete, HoldsJob
  <2>2. JobTypes'
    BY <2>1, <1>a, <1>18, BoundsAssumption
       DEF PoolComplete, Complete, PutJob, Release, Goto, Fault, WorkerUnchanged,
           jobVars, JobTypes, JobStatuses
  <2>3. WorkerTypes'
    BY <2>1, <1>a, <1>18, BoundsAssumption
       DEF PoolComplete, Complete, PutJob, Release, Goto, Fault, WorkerUnchanged,
           workerVars, claimVars, WorkerTypes, WorkerPcs, BusyPcs
  <2>4. DisturbanceTypes'
    BY <2>1, <1>a, <1>18, BoundsAssumption
       DEF PoolComplete, Complete, PutJob, Release, Goto, Fault, WorkerUnchanged,
           DisturbanceTypes
  <2> QED
    BY <1>a, <1>18, <2>2, <2>3, <2>4, TypesStay
       DEF TypeOK, PoolComplete, Complete, PutJob, Release, Goto, Fault,
           WorkerUnchanged, subVars, deliveryVars, jobVars, workerVars, claimVars,
           eventVars, matchVars, postVars
<1>19. ASSUME NEW d \in Deliveries, BecomeDue(d) PROVE TypeOK'
  <2>1. JobTypes'
    BY <1>a, <1>19, BoundsAssumption
       DEF BecomeDue, jobVars, JobTypes, JobStatuses
  <2> QED
    BY <1>a, <1>19, <2>1, TypesStay
       DEF TypeOK, BecomeDue, subVars, deliveryVars, jobVars, workerVars, claimVars,
           eventVars, matchVars, postVars
<1>20. ASSUME Crash PROVE TypeOK'
  <2>1. buffer' \in Seq(Events) /\ Len(buffer') = 0
    BY <1>20, EmptySeq DEF Crash
  <2>2. BusTypes'
    BY <2>1, <1>a, <1>20, BoundsAssumption
       DEF Crash, SubRelease, eventVars, BusTypes
  <2>3. SubTypes'
    BY <2>1, <1>a, <1>20
       DEF Crash, SubRelease, subVars, SubTypes, SubPcs
  <2>4. WorkerTypes'
    BY <2>1, <1>a, <1>20, BoundsAssumption
       DEF Crash, SubRelease, workerVars, claimVars, WorkerTypes, WorkerPcs, BusyPcs
  <2>5. DisturbanceTypes'
    BY <2>1, <1>a, <1>20, BoundsAssumption
       DEF Crash, SubRelease, DisturbanceTypes
  <2> QED
    BY <1>a, <1>20, <2>2, <2>3, <2>4, <2>5, TypesStay
       DEF TypeOK, Crash, SubRelease, subVars, deliveryVars, jobVars, workerVars,
           claimVars, eventVars, matchVars, postVars
<1>21. ASSUME UNCHANGED vars PROVE TypeOK'
  <2> QED
    BY <1>a, <1>21, TypesStay
       DEF TypeOK, vars, subVars, deliveryVars, jobVars, workerVars, claimVars,
           eventVars, matchVars, postVars
<1> QED BY <1>1, <1>2, <1>3, <1>4, <1>5, <1>6, <1>7, <1>8, <1>9, <1>10, <1>11,
       <1>12, <1>13, <1>14, <1>15, <1>16, <1>17, <1>18, <1>19, <1>20, <1>21
       DEF Next, Subscriber, Worker, RunJob

\* A claimed job stays with its worker until RunJob is over.
LEMMA NextHolds == IInv /\ [Next]_vars => HoldsJob'
<1> SUFFICES ASSUME IInv, [Next]_vars PROVE HoldsJob'
  OBVIOUS
<1>0. /\ pc \in [Workers -> WorkerPcs]
      /\ job \in [Workers -> Deliveries \cup {None}]
      /\ jobStatus \in [Deliveries -> JobStatuses]
      /\ HoldsJob
      /\ HandledOnce
  BY BoundsAssumption
     DEF IInv, TypeOK, HookTypes, BusTypes, SubTypes, DeliveryTypes, JobTypes,
         WorkerTypes, HistoryTypes, DisturbanceTypes
<1>1. ASSUME NEW h \in Hooks, NEW f \in Filters, WebhookCreate(h, f) PROVE HoldsJob'
  BY <1>0, <1>1
     DEF WebhookCreate, SetHook, Edit, Rematch, HoldsJob, BusyPcs, subVars,
         deliveryVars, jobVars, workerVars, claimVars, eventVars, postVars
<1>2. ASSUME NEW h \in Hooks, NEW f \in Filters, NEW s \in {"enabled", "disabled"},
            WebhookUpdate(h, f, s) PROVE HoldsJob'
  BY <1>0, <1>2
     DEF WebhookUpdate, SetHook, Edit, Rematch, HoldsJob, BusyPcs, subVars,
         deliveryVars, jobVars, workerVars, claimVars, eventVars, postVars
<1>3. ASSUME NEW h \in Hooks, WebhookDelete(h) PROVE HoldsJob'
  BY <1>0, <1>3
     DEF WebhookDelete, SetHook, Edit, Rematch, HoldsJob, BusyPcs, subVars,
         deliveryVars, jobVars, workerVars, claimVars, eventVars, postVars
<1>4. ASSUME NEW e \in Events, Publish(e) PROVE HoldsJob'
  BY <1>0, <1>4
     DEF Publish, Offer, HoldsJob, BusyPcs, HandledOnce, Deliveries, JobStatuses,
         subVars, deliveryVars, jobVars, workerVars, claimVars, eventVars, matchVars,
         postVars
<1>5. ASSUME Receive PROVE HoldsJob'
  BY <1>0, <1>5
     DEF Receive, HoldsJob, BusyPcs, HandledOnce, Deliveries, JobStatuses, subVars,
         deliveryVars, jobVars, workerVars, claimVars, eventVars, matchVars,
         postVars
<1>6. ASSUME ListEnabled PROVE HoldsJob'
  BY <1>0, <1>6
     DEF ListEnabled, NextHook, SubRelease, Fault, SubUnchanged, HoldsJob, BusyPcs,
         HandledOnce, Deliveries, JobStatuses, subVars, deliveryVars, jobVars,
         workerVars, claimVars, eventVars, matchVars, postVars
<1>7. ASSUME NEW h \in Hooks, CreateDelivery(h) PROVE HoldsJob'
  BY <1>0, <1>7
     DEF CreateDelivery, SubRelease, Fault, SubUnchanged, HoldsJob, BusyPcs,
         HandledOnce, Deliveries, JobStatuses, subVars, deliveryVars, jobVars,
         workerVars, claimVars, eventVars, matchVars, postVars
<1>8. ASSUME EnqueueJob PROVE HoldsJob'
  BY <1>0, <1>8
     DEF EnqueueJob, NextHook, SubRelease, Fault, SubUnchanged, HoldsJob, BusyPcs,
         HandledOnce, Deliveries, JobStatuses, subVars, deliveryVars, jobVars,
         workerVars, claimVars, eventVars, matchVars, postVars
<1>9. ASSUME NEW w \in Workers, NEW d \in Deliveries, Claim(w, d) PROVE HoldsJob'
  BY <1>0, <1>9
     DEF Claim, Goto, WorkerUnchanged, HoldsJob, BusyPcs, WorkerPcs, JobStatuses,
         subVars, deliveryVars, jobVars, workerVars, claimVars, eventVars, matchVars,
         postVars
<1>10. ASSUME NEW w \in Workers, FindDelivery(w) PROVE HoldsJob'
  BY <1>0, <1>10
     DEF FindDelivery, Goto, Fault, WorkerUnchanged, HoldsJob, BusyPcs, WorkerPcs,
         JobStatuses, subVars, deliveryVars, jobVars, workerVars, claimVars,
         eventVars, matchVars, postVars
<1>11. ASSUME NEW w \in Workers, Post(w) PROVE HoldsJob'
  BY <1>0, <1>11
     DEF Post, Goto, WorkerUnchanged, HoldsJob, BusyPcs, WorkerPcs, JobStatuses,
         subVars, deliveryVars, jobVars, workerVars, claimVars, eventVars, matchVars,
         postVars
<1>12. ASSUME NEW w \in Workers, MarkDelivered(w) PROVE HoldsJob'
  BY <1>0, <1>12
     DEF MarkDelivered, UpdateDelivery, Goto, Fault, WorkerUnchanged, HoldsJob,
         BusyPcs, WorkerPcs, JobStatuses, subVars, deliveryVars, jobVars, workerVars,
         claimVars, eventVars, matchVars, postVars
<1>13. ASSUME NEW w \in Workers, CompleteDelivered(w) PROVE HoldsJob'
  BY <1>0, <1>13
     DEF CompleteDelivered, Complete, PutJob, Goto, Fault, WorkerUnchanged, HoldsJob,
         BusyPcs, WorkerPcs, JobStatuses, subVars, deliveryVars, jobVars, workerVars,
         claimVars, eventVars, matchVars, postVars
<1>14. ASSUME NEW w \in Workers, MarkFailed(w) PROVE HoldsJob'
  BY <1>0, <1>14
     DEF MarkFailed, UpdateDelivery, Exhausted, Goto, Fault, WorkerUnchanged,
         HoldsJob, BusyPcs, WorkerPcs, JobStatuses, subVars, deliveryVars, jobVars,
         workerVars, claimVars, eventVars, matchVars, postVars
<1>15. ASSUME NEW w \in Workers, RequeueFailed(w) PROVE HoldsJob'
  BY <1>0, <1>15
     DEF RequeueFailed, Fail, PutJob, Goto, Fault, WorkerUnchanged, HoldsJob,
         BusyPcs, WorkerPcs, JobStatuses, subVars, deliveryVars, jobVars, workerVars,
         claimVars, eventVars, matchVars, postVars
<1>16. ASSUME NEW w \in Workers, BuryExhausted(w) PROVE HoldsJob'
  BY <1>0, <1>16
     DEF BuryExhausted, Dead, PutJob, Goto, Fault, WorkerUnchanged, HoldsJob,
         BusyPcs, WorkerPcs, JobStatuses, subVars, deliveryVars, jobVars, workerVars,
         claimVars, eventVars, matchVars, postVars
<1>17. ASSUME NEW w \in Workers, PoolFail(w) PROVE HoldsJob'
  BY <1>0, <1>17
     DEF PoolFail, Fail, Dead, PutJob, Release, Goto, Fault, WorkerUnchanged,
         HoldsJob, BusyPcs, WorkerPcs, JobStatuses, subVars, deliveryVars, jobVars,
         workerVars, claimVars, eventVars, matchVars, postVars
<1>18. ASSUME NEW w \in Workers, PoolComplete(w) PROVE HoldsJob'
  BY <1>0, <1>18
     DEF PoolComplete, Complete, PutJob, Release, Goto, Fault, WorkerUnchanged,
         HoldsJob, BusyPcs, WorkerPcs, JobStatuses, subVars, deliveryVars, jobVars,
         workerVars, claimVars, eventVars, matchVars, postVars
<1>19. ASSUME NEW d \in Deliveries, BecomeDue(d) PROVE HoldsJob'
  BY <1>0, <1>19
     DEF BecomeDue, HoldsJob, BusyPcs, WorkerPcs, JobStatuses, subVars, deliveryVars,
         jobVars, workerVars, claimVars, eventVars, matchVars, postVars
<1>20. ASSUME Crash PROVE HoldsJob'
  BY <1>0, <1>20
     DEF Crash, SubRelease, HoldsJob, BusyPcs, subVars, deliveryVars, jobVars,
         workerVars, claimVars, eventVars, matchVars, postVars
<1>21. ASSUME UNCHANGED vars PROVE HoldsJob'
  BY <1>0, <1>21
     DEF vars, HoldsJob, BusyPcs, subVars, deliveryVars, jobVars, workerVars,
         claimVars, eventVars, matchVars, postVars
<1> QED BY <1>1, <1>2, <1>3, <1>4, <1>5, <1>6, <1>7, <1>8, <1>9, <1>10, <1>11,
       <1>12, <1>13, <1>14, <1>15, <1>16, <1>17, <1>18, <1>19, <1>20, <1>21
       DEF Next, Subscriber, Worker, RunJob

\* A delivery in reach of the workers was accepted only as often as statements
\* have failed.
LEMMA NextAccepted == IInv /\ [Next]_vars => AcceptedOK'
<1> SUFFICES ASSUME IInv, [Next]_vars PROVE AcceptedOK'
  OBVIOUS
<1>0. /\ pc \in [Workers -> WorkerPcs]
      /\ job \in [Workers -> Deliveries \cup {None}]
      /\ jobStatus \in [Deliveries -> JobStatuses]
      /\ accepted \in [Deliveries -> Nat]
      /\ faults \in Nat
      /\ subPc \in SubPcs /\ subEvent \in Events \cup {None}
      /\ subRest \subseteq Hooks /\ subHook \in Hooks \cup {None}
      /\ published \subseteq Events
      /\ HoldsJob
      /\ HandledOnce
      /\ AcceptedOK
  BY BoundsAssumption
     DEF IInv, TypeOK, HookTypes, BusTypes, SubTypes, DeliveryTypes, JobTypes,
         WorkerTypes, HistoryTypes, DisturbanceTypes
<1>1. ASSUME NEW h \in Hooks, NEW f \in Filters, WebhookCreate(h, f) PROVE AcceptedOK'
  BY <1>0, <1>1
     DEF WebhookCreate, SetHook, Edit, Rematch, AcceptedOK, BusyPcs, subVars,
         deliveryVars, jobVars, workerVars, claimVars, eventVars, postVars
<1>2. ASSUME NEW h \in Hooks, NEW f \in Filters, NEW s \in {"enabled", "disabled"},
            WebhookUpdate(h, f, s) PROVE AcceptedOK'
  BY <1>0, <1>2
     DEF WebhookUpdate, SetHook, Edit, Rematch, AcceptedOK, BusyPcs, subVars,
         deliveryVars, jobVars, workerVars, claimVars, eventVars, postVars
<1>3. ASSUME NEW h \in Hooks, WebhookDelete(h) PROVE AcceptedOK'
  BY <1>0, <1>3
     DEF WebhookDelete, SetHook, Edit, Rematch, AcceptedOK, BusyPcs, subVars,
         deliveryVars, jobVars, workerVars, claimVars, eventVars, postVars
<1>4. ASSUME NEW e \in Events, Publish(e) PROVE AcceptedOK'
  BY <1>0, <1>4
     DEF Publish, Offer, AcceptedOK, BusyPcs, HoldsJob, subVars, deliveryVars,
         jobVars, workerVars, claimVars, eventVars, matchVars, postVars
<1>5. ASSUME Receive PROVE AcceptedOK'
  BY <1>0, <1>5
     DEF Receive, AcceptedOK, BusyPcs, HoldsJob, subVars, deliveryVars, jobVars,
         workerVars, claimVars, eventVars, matchVars, postVars
<1>6. ASSUME ListEnabled PROVE AcceptedOK'
  BY <1>0, <1>6
     DEF ListEnabled, NextHook, SubRelease, Fault, SubUnchanged, AcceptedOK, BusyPcs,
         HoldsJob, subVars, deliveryVars, jobVars, workerVars, claimVars, eventVars,
         matchVars, postVars
<1>7. ASSUME NEW h \in Hooks, CreateDelivery(h) PROVE AcceptedOK'
  BY <1>0, <1>7
     DEF CreateDelivery, SubRelease, Fault, SubUnchanged, AcceptedOK, BusyPcs,
         HoldsJob, subVars, deliveryVars, jobVars, workerVars, claimVars, eventVars,
         matchVars, postVars
<1>8. ASSUME EnqueueJob PROVE AcceptedOK'
  <2>1. <<subEvent, subHook>> \in Deliveries /\ jobStatus[<<subEvent, subHook>>] = "none"
    BY <1>0, <1>8 DEF EnqueueJob, HandledOnce, Deliveries
  <2> QED
    BY <2>1, <1>0, <1>8
       DEF EnqueueJob, NextHook, SubRelease, Fault, SubUnchanged, AcceptedOK, BusyPcs,
         HoldsJob, subVars, deliveryVars, jobVars, workerVars, claimVars, eventVars,
         matchVars, postVars
<1>9. ASSUME NEW w \in Workers, NEW d \in Deliveries, Claim(w, d) PROVE AcceptedOK'
  BY <1>0, <1>9
     DEF Claim, Goto, WorkerUnchanged, AcceptedOK, BusyPcs, HoldsJob, WorkerPcs,
         JobStatuses, subVars, deliveryVars, jobVars, workerVars, claimVars,
         eventVars, matchVars, postVars
<1>10. ASSUME NEW w \in Workers, FindDelivery(w) PROVE AcceptedOK'
  BY <1>0, <1>10
     DEF FindDelivery, Goto, Fault, WorkerUnchanged, AcceptedOK, BusyPcs, HoldsJob,
         WorkerPcs, JobStatuses, subVars, deliveryVars, jobVars, workerVars,
         claimVars, eventVars, matchVars, postVars
<1>11. ASSUME NEW w \in Workers, Post(w) PROVE AcceptedOK'
  BY <1>0, <1>11
     DEF Post, Goto, WorkerUnchanged, AcceptedOK, BusyPcs, HoldsJob, WorkerPcs,
         JobStatuses, subVars, deliveryVars, jobVars, workerVars, claimVars,
         eventVars, matchVars, postVars
<1>12. ASSUME NEW w \in Workers, MarkDelivered(w) PROVE AcceptedOK'
  BY <1>0, <1>12
     DEF MarkDelivered, UpdateDelivery, Goto, Fault, WorkerUnchanged, AcceptedOK,
         BusyPcs, HoldsJob, WorkerPcs, JobStatuses, subVars, deliveryVars, jobVars,
         workerVars, claimVars, eventVars, matchVars, postVars
<1>13. ASSUME NEW w \in Workers, CompleteDelivered(w) PROVE AcceptedOK'
  BY <1>0, <1>13
     DEF CompleteDelivered, Complete, PutJob, Goto, Fault, WorkerUnchanged,
         AcceptedOK, BusyPcs, HoldsJob, WorkerPcs, JobStatuses, subVars,
         deliveryVars, jobVars, workerVars, claimVars, eventVars, matchVars,
         postVars
<1>14. ASSUME NEW w \in Workers, MarkFailed(w) PROVE AcceptedOK'
  BY <1>0, <1>14
     DEF MarkFailed, UpdateDelivery, Exhausted, Goto, Fault, WorkerUnchanged,
         AcceptedOK, BusyPcs, HoldsJob, WorkerPcs, JobStatuses, subVars,
         deliveryVars, jobVars, workerVars, claimVars, eventVars, matchVars,
         postVars
<1>15. ASSUME NEW w \in Workers, RequeueFailed(w) PROVE AcceptedOK'
  BY <1>0, <1>15
     DEF RequeueFailed, Fail, PutJob, Goto, Fault, WorkerUnchanged, AcceptedOK,
         BusyPcs, HoldsJob, WorkerPcs, JobStatuses, subVars, deliveryVars, jobVars,
         workerVars, claimVars, eventVars, matchVars, postVars
<1>16. ASSUME NEW w \in Workers, BuryExhausted(w) PROVE AcceptedOK'
  BY <1>0, <1>16
     DEF BuryExhausted, Dead, PutJob, Goto, Fault, WorkerUnchanged, AcceptedOK,
         BusyPcs, HoldsJob, WorkerPcs, JobStatuses, subVars, deliveryVars, jobVars,
         workerVars, claimVars, eventVars, matchVars, postVars
<1>17. ASSUME NEW w \in Workers, PoolFail(w) PROVE AcceptedOK'
  BY <1>0, <1>17
     DEF PoolFail, Fail, Dead, PutJob, Release, Goto, Fault, WorkerUnchanged,
         AcceptedOK, BusyPcs, HoldsJob, WorkerPcs, JobStatuses, subVars,
         deliveryVars, jobVars, workerVars, claimVars, eventVars, matchVars,
         postVars
<1>18. ASSUME NEW w \in Workers, PoolComplete(w) PROVE AcceptedOK'
  BY <1>0, <1>18
     DEF PoolComplete, Complete, PutJob, Release, Goto, Fault, WorkerUnchanged,
         AcceptedOK, BusyPcs, HoldsJob, WorkerPcs, JobStatuses, subVars,
         deliveryVars, jobVars, workerVars, claimVars, eventVars, matchVars,
         postVars
<1>19. ASSUME NEW d \in Deliveries, BecomeDue(d) PROVE AcceptedOK'
  BY <1>0, <1>19
     DEF BecomeDue, AcceptedOK, BusyPcs, HoldsJob, WorkerPcs, JobStatuses, subVars,
         deliveryVars, jobVars, workerVars, claimVars, eventVars, matchVars,
         postVars
<1>20. ASSUME Crash PROVE AcceptedOK'
  BY <1>0, <1>20
     DEF Crash, SubRelease, AcceptedOK, BusyPcs, subVars, deliveryVars, jobVars,
         workerVars, claimVars, eventVars, matchVars, postVars
<1>21. ASSUME UNCHANGED vars PROVE AcceptedOK'
  BY <1>0, <1>21
     DEF vars, AcceptedOK, BusyPcs, subVars, deliveryVars, jobVars, workerVars,
         claimVars, eventVars, matchVars, postVars
<1> QED BY <1>1, <1>2, <1>3, <1>4, <1>5, <1>6, <1>7, <1>8, <1>9, <1>10, <1>11,
       <1>12, <1>13, <1>14, <1>15, <1>16, <1>17, <1>18, <1>19, <1>20, <1>21
       DEF Next, Subscriber, Worker, RunJob

\* Attempts count failed POSTs.
LEMMA NextCounts == IInv /\ [Next]_vars => CountsOK'
<1> SUFFICES ASSUME IInv, [Next]_vars PROVE CountsOK'
  OBVIOUS
<1>0. /\ pc \in [Workers -> WorkerPcs]
      /\ job \in [Workers -> Deliveries \cup {None}]
      /\ status \in [Deliveries -> DeliveryStatuses]
      /\ attempts \in [Deliveries -> Nat]
      /\ refused \in [Deliveries -> Nat]
      /\ seen \in [Workers -> Nat]
      /\ subPc \in SubPcs /\ subEvent \in Events \cup {None}
      /\ subRest \subseteq Hooks /\ subHook \in Hooks \cup {None}
      /\ published \subseteq Events
      /\ HoldsJob
      /\ HandledOnce
      /\ CountsOK
      /\ MaxAttempts \in Nat
  BY BoundsAssumption
     DEF IInv, TypeOK, HookTypes, BusTypes, SubTypes, DeliveryTypes, JobTypes,
         WorkerTypes, HistoryTypes, DisturbanceTypes
<1>1. ASSUME NEW h \in Hooks, NEW f \in Filters, WebhookCreate(h, f) PROVE CountsOK'
  BY <1>0, <1>1
     DEF WebhookCreate, SetHook, Edit, Rematch, CountsOK, subVars, deliveryVars,
         jobVars, workerVars, claimVars, eventVars, postVars
<1>2. ASSUME NEW h \in Hooks, NEW f \in Filters, NEW s \in {"enabled", "disabled"},
            WebhookUpdate(h, f, s) PROVE CountsOK'
  BY <1>0, <1>2
     DEF WebhookUpdate, SetHook, Edit, Rematch, CountsOK, subVars, deliveryVars,
         jobVars, workerVars, claimVars, eventVars, postVars
<1>3. ASSUME NEW h \in Hooks, WebhookDelete(h) PROVE CountsOK'
  BY <1>0, <1>3
     DEF WebhookDelete, SetHook, Edit, Rematch, CountsOK, subVars, deliveryVars,
         jobVars, workerVars, claimVars, eventVars, postVars
<1>4. ASSUME NEW e \in Events, Publish(e) PROVE CountsOK'
  BY <1>0, <1>4
     DEF Publish, Offer, CountsOK, DeliveryStatuses, subVars, deliveryVars, jobVars,
         workerVars, claimVars, eventVars, matchVars, postVars
<1>5. ASSUME Receive PROVE CountsOK'
  BY <1>0, <1>5
     DEF Receive, CountsOK, DeliveryStatuses, subVars, deliveryVars, jobVars,
         workerVars, claimVars, eventVars, matchVars, postVars
<1>6. ASSUME ListEnabled PROVE CountsOK'
  BY <1>0, <1>6
     DEF ListEnabled, NextHook, SubRelease, Fault, SubUnchanged, CountsOK,
         DeliveryStatuses, subVars, deliveryVars, jobVars, workerVars, claimVars,
         eventVars, matchVars, postVars
<1>7. ASSUME NEW h \in Hooks, CreateDelivery(h) PROVE CountsOK'
  <2>1. <<subEvent, h>> \in Deliveries
    BY <1>0, <1>7 DEF CreateDelivery, HandledOnce, Deliveries
  <2> QED
    BY <2>1, <1>0, <1>7
       DEF CreateDelivery, SubRelease, Fault, SubUnchanged, CountsOK, DeliveryStatuses,
         subVars, deliveryVars, jobVars, workerVars, claimVars, eventVars, matchVars,
         postVars
<1>8. ASSUME EnqueueJob PROVE CountsOK'
  BY <1>0, <1>8
     DEF EnqueueJob, NextHook, SubRelease, Fault, SubUnchanged, CountsOK,
         DeliveryStatuses, subVars, deliveryVars, jobVars, workerVars, claimVars,
         eventVars, matchVars, postVars
<1>9. ASSUME NEW w \in Workers, NEW d \in Deliveries, Claim(w, d) PROVE CountsOK'
  BY <1>0, <1>9
     DEF Claim, Goto, WorkerUnchanged, CountsOK, HoldsJob, WorkerPcs, BusyPcs,
         DeliveryStatuses, subVars, deliveryVars, jobVars, workerVars, claimVars,
         eventVars, matchVars, postVars
<1>10. ASSUME NEW w \in Workers, FindDelivery(w) PROVE CountsOK'
  BY <1>0, <1>10
     DEF FindDelivery, Goto, Fault, WorkerUnchanged, CountsOK, HoldsJob, WorkerPcs,
         BusyPcs, DeliveryStatuses, subVars, deliveryVars, jobVars, workerVars,
         claimVars, eventVars, matchVars, postVars
<1>11. ASSUME NEW w \in Workers, Post(w) PROVE CountsOK'
  BY <1>0, <1>11
     DEF Post, Goto, WorkerUnchanged, CountsOK, HoldsJob, WorkerPcs, BusyPcs,
         DeliveryStatuses, subVars, deliveryVars, jobVars, workerVars, claimVars,
         eventVars, matchVars, postVars
<1>12. ASSUME NEW w \in Workers, MarkDelivered(w) PROVE CountsOK'
  BY <1>0, <1>12
     DEF MarkDelivered, UpdateDelivery, Goto, Fault, WorkerUnchanged, CountsOK,
         HoldsJob, WorkerPcs, BusyPcs, DeliveryStatuses, subVars, deliveryVars,
         jobVars, workerVars, claimVars, eventVars, matchVars, postVars
<1>13. ASSUME NEW w \in Workers, CompleteDelivered(w) PROVE CountsOK'
  BY <1>0, <1>13
     DEF CompleteDelivered, Complete, PutJob, Goto, Fault, WorkerUnchanged, CountsOK,
         HoldsJob, WorkerPcs, BusyPcs, DeliveryStatuses, subVars, deliveryVars,
         jobVars, workerVars, claimVars, eventVars, matchVars, postVars
<1>14. ASSUME NEW w \in Workers, MarkFailed(w) PROVE CountsOK'
  BY <1>0, <1>14
     DEF MarkFailed, UpdateDelivery, Exhausted, Goto, Fault, WorkerUnchanged,
         CountsOK, HoldsJob, WorkerPcs, BusyPcs, DeliveryStatuses, subVars,
         deliveryVars, jobVars, workerVars, claimVars, eventVars, matchVars,
         postVars
<1>15. ASSUME NEW w \in Workers, RequeueFailed(w) PROVE CountsOK'
  BY <1>0, <1>15
     DEF RequeueFailed, Fail, PutJob, Goto, Fault, WorkerUnchanged, CountsOK,
         HoldsJob, WorkerPcs, BusyPcs, DeliveryStatuses, subVars, deliveryVars,
         jobVars, workerVars, claimVars, eventVars, matchVars, postVars
<1>16. ASSUME NEW w \in Workers, BuryExhausted(w) PROVE CountsOK'
  BY <1>0, <1>16
     DEF BuryExhausted, Dead, PutJob, Goto, Fault, WorkerUnchanged, CountsOK,
         HoldsJob, WorkerPcs, BusyPcs, DeliveryStatuses, subVars, deliveryVars,
         jobVars, workerVars, claimVars, eventVars, matchVars, postVars
<1>17. ASSUME NEW w \in Workers, PoolFail(w) PROVE CountsOK'
  BY <1>0, <1>17
     DEF PoolFail, Fail, Dead, PutJob, Release, Goto, Fault, WorkerUnchanged,
         CountsOK, HoldsJob, WorkerPcs, BusyPcs, DeliveryStatuses, subVars,
         deliveryVars, jobVars, workerVars, claimVars, eventVars, matchVars,
         postVars
<1>18. ASSUME NEW w \in Workers, PoolComplete(w) PROVE CountsOK'
  BY <1>0, <1>18
     DEF PoolComplete, Complete, PutJob, Release, Goto, Fault, WorkerUnchanged,
         CountsOK, HoldsJob, WorkerPcs, BusyPcs, DeliveryStatuses, subVars,
         deliveryVars, jobVars, workerVars, claimVars, eventVars, matchVars,
         postVars
<1>19. ASSUME NEW d \in Deliveries, BecomeDue(d) PROVE CountsOK'
  BY <1>0, <1>19
     DEF BecomeDue, CountsOK, HoldsJob, WorkerPcs, BusyPcs, DeliveryStatuses,
         subVars, deliveryVars, jobVars, workerVars, claimVars, eventVars, matchVars,
         postVars
<1>20. ASSUME Crash PROVE CountsOK'
  BY <1>0, <1>20
     DEF Crash, SubRelease, CountsOK, subVars, deliveryVars, jobVars, workerVars,
         claimVars, eventVars, matchVars, postVars
<1>21. ASSUME UNCHANGED vars PROVE CountsOK'
  BY <1>0, <1>21
     DEF vars, CountsOK, subVars, deliveryVars, jobVars, workerVars, claimVars,
         eventVars, matchVars, postVars
<1> QED BY <1>1, <1>2, <1>3, <1>4, <1>5, <1>6, <1>7, <1>8, <1>9, <1>10, <1>11,
       <1>12, <1>13, <1>14, <1>15, <1>16, <1>17, <1>18, <1>19, <1>20, <1>21
       DEF Next, Subscriber, Worker, RunJob

\* An event passes through the buffer and the subscriber once.
LEMMA NextHandled == IInv /\ [Next]_vars => HandledOnce'
<1> SUFFICES ASSUME IInv, [Next]_vars PROVE HandledOnce'
  OBVIOUS
<1>0. /\ pc \in [Workers -> WorkerPcs]
      /\ job \in [Workers -> Deliveries \cup {None}]
      /\ jobStatus \in [Deliveries -> JobStatuses]
      /\ status \in [Deliveries -> DeliveryStatuses]
      /\ buffer \in Seq(Events)
      /\ subPc \in SubPcs /\ subEvent \in Events \cup {None}
      /\ subRest \subseteq Hooks /\ subHook \in Hooks \cup {None}
      /\ published \subseteq Events
      /\ HoldsJob
      /\ HandledOnce
  BY BoundsAssumption
     DEF IInv, TypeOK, HookTypes, BusTypes, SubTypes, DeliveryTypes, JobTypes,
         WorkerTypes, HistoryTypes, DisturbanceTypes
<1>1. ASSUME NEW h \in Hooks, NEW f \in Filters, WebhookCreate(h, f) PROVE HandledOnce'
  BY <1>0, <1>1
     DEF WebhookCreate, SetHook, Edit, Rematch, HandledOnce, Fresh, Deliveries,
         subVars, deliveryVars, jobVars, workerVars, claimVars, eventVars, postVars
<1>2. ASSUME NEW h \in Hooks, NEW f \in Filters, NEW s \in {"enabled", "disabled"},
            WebhookUpdate(h, f, s) PROVE HandledOnce'
  BY <1>0, <1>2
     DEF WebhookUpdate, SetHook, Edit, Rematch, HandledOnce, Fresh, Deliveries,
         subVars, deliveryVars, jobVars, workerVars, claimVars, eventVars, postVars
<1>3. ASSUME NEW h \in Hooks, WebhookDelete(h) PROVE HandledOnce'
  BY <1>0, <1>3
     DEF WebhookDelete, SetHook, Edit, Rematch, HandledOnce, Fresh, Deliveries,
         subVars, deliveryVars, jobVars, workerVars, claimVars, eventVars, postVars
<1>4. ASSUME NEW e \in Events, Publish(e) PROVE HandledOnce'
  <2>1. /\ Len(Append(buffer, e)) = Len(buffer) + 1
        /\ \A i \in 1 .. Len(buffer) : Append(buffer, e)[i] = buffer[i]
        /\ Append(buffer, e)[Len(buffer) + 1] = e
        /\ Len(buffer) \in Nat
    BY <1>0, AppendProperties, LenProperties
  <2>2. e # subEvent /\ \A i \in 1 .. Len(buffer) : buffer[i] # e
    BY <1>0, <1>4, NoneAssumption DEF Publish, HandledOnce, SubPcs
  <2>3. ASSUME NEW i \in 1 .. Len(buffer')
        PROVE  \/ i \in 1 .. Len(buffer) /\ buffer'[i] = buffer[i]
               \/ i = Len(buffer) + 1 /\ buffer'[i] = e
    BY <1>4, <2>1 DEF Publish, Offer
  <2>4. ASSUME NEW i \in 1 .. Len(buffer')
        PROVE  /\ buffer'[i] \in published'
               /\ buffer'[i] # subEvent'
               /\ \A h \in Hooks : Fresh(<<buffer[i], h>>)'
               /\ \A j \in 1 .. Len(buffer') : buffer'[i] = buffer'[j] => i = j
    <3>1. \A h \in Hooks : Fresh(<<e, h>>)
      BY <1>0, <1>4 DEF Publish, HandledOnce
    <3>2. /\ i \in 1 .. Len(buffer) =>
               /\ buffer[i] \in published
               /\ buffer[i] # subEvent
               /\ \A h \in Hooks : Fresh(<<buffer[i], h>>)
               /\ \A j \in 1 .. Len(buffer) : buffer[i] = buffer[j] => i = j
      BY <1>0 DEF HandledOnce
    <3> QED
      BY <1>4, <2>2, <2>3, <2>4, <3>1, <3>2
         DEF Publish, Fresh, subVars, deliveryVars, jobVars
  <2> QED
    BY <1>0, <1>4, <2>2, <2>4
       DEF Publish, HandledOnce, Fresh, subVars, deliveryVars, jobVars
<1>5. ASSUME Receive PROVE HandledOnce'
  <2>1. /\ Len(buffer) \in Nat /\ Len(buffer) # 0
        /\ Len(Tail(buffer)) = Len(buffer) - 1
        /\ Head(buffer) = buffer[1]
        /\ \A i \in 1 .. Len(Tail(buffer)) : Tail(buffer)[i] = buffer[i + 1]
    BY <1>0, <1>5, HeadTailProperties, LenProperties, EmptySeq DEF Receive
  <2>2. /\ buffer[1] \in published
        /\ \A h \in Hooks : Fresh(<<buffer[1], h>>)
        /\ \A i \in 1 .. Len(buffer) : i # 1 => buffer[i] # buffer[1]
    BY <1>0, <2>1 DEF HandledOnce
  <2>3. \A i \in 1 .. Len(buffer') :
          /\ i + 1 \in 1 .. Len(buffer) /\ i + 1 # 1
          /\ buffer'[i] = buffer[i + 1]
    BY <1>5, <2>1 DEF Receive
  <2>4. ASSUME NEW i \in 1 .. Len(buffer')
        PROVE  /\ buffer'[i] \in published'
               /\ buffer'[i] # subEvent'
               /\ \A h \in Hooks : Fresh(<<buffer[i], h>>)'
               /\ \A j \in 1 .. Len(buffer') : buffer'[i] = buffer'[j] => i = j
    <3>1. /\ buffer[i + 1] \in published
          /\ \A h \in Hooks : Fresh(<<buffer[i + 1], h>>)
          /\ \A j \in 1 .. Len(buffer) : buffer[i + 1] = buffer[j] => i + 1 = j
      BY <1>0, <2>3, <2>4 DEF HandledOnce
    <3>2. buffer'[i] \in published' /\ buffer'[i] # subEvent'
      BY <1>5, <2>1, <2>2, <2>3, <2>4, <3>1 DEF Receive, eventVars
    <3>3. \A h \in Hooks : Fresh(<<buffer[i], h>>)'
      BY <1>5, <2>3, <2>4, <3>1 DEF Receive, Fresh, deliveryVars, jobVars
    <3>4. ASSUME NEW j \in 1 .. Len(buffer'), buffer'[i] = buffer'[j] PROVE i = j
      <4>1. i + 1 = j + 1
        BY <2>3, <2>4, <3>1, <3>4
      <4> QED BY <2>1, <2>3, <2>4, <3>4, <4>1
    <3> QED BY <3>2, <3>3, <3>4
  <2> QED
    BY <1>0, <1>5, <2>1, <2>2, <2>4
       DEF Receive, HandledOnce, Fresh, eventVars, deliveryVars, jobVars
<1>6. ASSUME ListEnabled PROVE HandledOnce'
  BY <1>0, <1>6, NoneAssumption
     DEF ListEnabled, NextHook, SubRelease, Fault, SubUnchanged, HandledOnce, Fresh,
         Deliveries, SubPcs, subVars, deliveryVars, jobVars, workerVars, claimVars,
         eventVars, matchVars, postVars
<1>7. ASSUME NEW h \in Hooks, CreateDelivery(h) PROVE HandledOnce'
  BY <1>0, <1>7, NoneAssumption
     DEF CreateDelivery, SubRelease, Fault, SubUnchanged, HandledOnce, Fresh,
         Deliveries, SubPcs, subVars, deliveryVars, jobVars, workerVars, claimVars,
         eventVars, matchVars, postVars
<1>8. ASSUME EnqueueJob PROVE HandledOnce'
  BY <1>0, <1>8, NoneAssumption
     DEF EnqueueJob, NextHook, SubRelease, Fault, SubUnchanged, HandledOnce, Fresh,
         Deliveries, SubPcs, subVars, deliveryVars, jobVars, workerVars, claimVars,
         eventVars, matchVars, postVars
<1>9. ASSUME NEW w \in Workers, NEW d \in Deliveries, Claim(w, d) PROVE HandledOnce'
  BY <1>0, <1>9
     DEF Claim, Goto, WorkerUnchanged, HandledOnce, Fresh, HoldsJob, Deliveries,
         BusyPcs, subVars, deliveryVars, jobVars, workerVars, claimVars, eventVars,
         matchVars, postVars
<1>10. ASSUME NEW w \in Workers, FindDelivery(w) PROVE HandledOnce'
  BY <1>0, <1>10
     DEF FindDelivery, Goto, Fault, WorkerUnchanged, HandledOnce, Fresh, HoldsJob,
         Deliveries, BusyPcs, subVars, deliveryVars, jobVars, workerVars, claimVars,
         eventVars, matchVars, postVars
<1>11. ASSUME NEW w \in Workers, Post(w) PROVE HandledOnce'
  BY <1>0, <1>11
     DEF Post, Goto, WorkerUnchanged, HandledOnce, Fresh, HoldsJob, Deliveries,
         BusyPcs, subVars, deliveryVars, jobVars, workerVars, claimVars, eventVars,
         matchVars, postVars
<1>12. ASSUME NEW w \in Workers, MarkDelivered(w) PROVE HandledOnce'
  BY <1>0, <1>12
     DEF MarkDelivered, UpdateDelivery, Goto, Fault, WorkerUnchanged, HandledOnce,
         Fresh, HoldsJob, Deliveries, BusyPcs, subVars, deliveryVars, jobVars,
         workerVars, claimVars, eventVars, matchVars, postVars
<1>13. ASSUME NEW w \in Workers, CompleteDelivered(w) PROVE HandledOnce'
  BY <1>0, <1>13
     DEF CompleteDelivered, Complete, PutJob, Goto, Fault, WorkerUnchanged,
         HandledOnce, Fresh, HoldsJob, Deliveries, BusyPcs, subVars, deliveryVars,
         jobVars, workerVars, claimVars, eventVars, matchVars, postVars
<1>14. ASSUME NEW w \in Workers, MarkFailed(w) PROVE HandledOnce'
  BY <1>0, <1>14
     DEF MarkFailed, UpdateDelivery, Exhausted, Goto, Fault, WorkerUnchanged,
         HandledOnce, Fresh, HoldsJob, Deliveries, BusyPcs, subVars, deliveryVars,
         jobVars, workerVars, claimVars, eventVars, matchVars, postVars
<1>15. ASSUME NEW w \in Workers, RequeueFailed(w) PROVE HandledOnce'
  BY <1>0, <1>15
     DEF RequeueFailed, Fail, PutJob, Goto, Fault, WorkerUnchanged, HandledOnce,
         Fresh, HoldsJob, Deliveries, BusyPcs, subVars, deliveryVars, jobVars,
         workerVars, claimVars, eventVars, matchVars, postVars
<1>16. ASSUME NEW w \in Workers, BuryExhausted(w) PROVE HandledOnce'
  BY <1>0, <1>16
     DEF BuryExhausted, Dead, PutJob, Goto, Fault, WorkerUnchanged, HandledOnce,
         Fresh, HoldsJob, Deliveries, BusyPcs, subVars, deliveryVars, jobVars,
         workerVars, claimVars, eventVars, matchVars, postVars
<1>17. ASSUME NEW w \in Workers, PoolFail(w) PROVE HandledOnce'
  BY <1>0, <1>17
     DEF PoolFail, Fail, Dead, PutJob, Release, Goto, Fault, WorkerUnchanged,
         HandledOnce, Fresh, HoldsJob, Deliveries, BusyPcs, subVars, deliveryVars,
         jobVars, workerVars, claimVars, eventVars, matchVars, postVars
<1>18. ASSUME NEW w \in Workers, PoolComplete(w) PROVE HandledOnce'
  BY <1>0, <1>18
     DEF PoolComplete, Complete, PutJob, Release, Goto, Fault, WorkerUnchanged,
         HandledOnce, Fresh, HoldsJob, Deliveries, BusyPcs, subVars, deliveryVars,
         jobVars, workerVars, claimVars, eventVars, matchVars, postVars
<1>19. ASSUME NEW d \in Deliveries, BecomeDue(d) PROVE HandledOnce'
  BY <1>0, <1>19
     DEF BecomeDue, HandledOnce, Fresh, HoldsJob, Deliveries, BusyPcs, subVars,
         deliveryVars, jobVars, workerVars, claimVars, eventVars, matchVars,
         postVars
<1>20. ASSUME Crash PROVE HandledOnce'
  BY <1>0, <1>20, EmptySeq
     DEF Crash, SubRelease, HandledOnce, Fresh, subVars, deliveryVars, jobVars,
         workerVars, claimVars, eventVars, matchVars, postVars
<1>21. ASSUME UNCHANGED vars PROVE HandledOnce'
  BY <1>0, <1>21
     DEF vars, HandledOnce, Fresh, subVars, deliveryVars, jobVars, workerVars,
         claimVars, eventVars, matchVars, postVars
<1> QED BY <1>1, <1>2, <1>3, <1>4, <1>5, <1>6, <1>7, <1>8, <1>9, <1>10, <1>11,
       <1>12, <1>13, <1>14, <1>15, <1>16, <1>17, <1>18, <1>19, <1>20, <1>21
       DEF Next, Subscriber, Worker, RunJob

\* What was never matched is not stored and not on the subscriber's list.
LEMMA NextMuted == IInv /\ [Next]_vars => MutedOK'
<1> SUFFICES ASSUME IInv, [Next]_vars PROVE MutedOK'
  OBVIOUS
<1>0. /\ pc \in [Workers -> WorkerPcs]
      /\ job \in [Workers -> Deliveries \cup {None}]
      /\ jobStatus \in [Deliveries -> JobStatuses]
      /\ status \in [Deliveries -> DeliveryStatuses]
      /\ subPc \in SubPcs /\ subEvent \in Events \cup {None}
      /\ subRest \subseteq Hooks /\ subHook \in Hooks \cup {None}
      /\ published \subseteq Events
      /\ wanted \subseteq Deliveries /\ muted \subseteq Deliveries
      /\ HoldsJob
      /\ HandledOnce
      /\ MutedOK
  BY BoundsAssumption
     DEF IInv, TypeOK, HookTypes, BusTypes, SubTypes, DeliveryTypes, JobTypes,
         WorkerTypes, HistoryTypes, DisturbanceTypes
<1>1. ASSUME NEW h \in Hooks, NEW f \in Filters, WebhookCreate(h, f) PROVE MutedOK'
  BY <1>0, <1>1
     DEF WebhookCreate, SetHook, Edit, Rematch, MutedOK, Fresh, Deliveries, subVars,
         deliveryVars, jobVars, workerVars, claimVars, eventVars, postVars
<1>2. ASSUME NEW h \in Hooks, NEW f \in Filters, NEW s \in {"enabled", "disabled"},
            WebhookUpdate(h, f, s) PROVE MutedOK'
  BY <1>0, <1>2
     DEF WebhookUpdate, SetHook, Edit, Rematch, MutedOK, Fresh, Deliveries, subVars,
         deliveryVars, jobVars, workerVars, claimVars, eventVars, postVars
<1>3. ASSUME NEW h \in Hooks, WebhookDelete(h) PROVE MutedOK'
  BY <1>0, <1>3
     DEF WebhookDelete, SetHook, Edit, Rematch, MutedOK, Fresh, Deliveries, subVars,
         deliveryVars, jobVars, workerVars, claimVars, eventVars, postVars
<1>4. ASSUME NEW e \in Events, Publish(e) PROVE MutedOK'
  BY <1>0, <1>4, NoneAssumption
     DEF Publish, Offer, MutedOK, Fresh, Deliveries, HandledOnce, subVars,
         deliveryVars, jobVars, workerVars, claimVars, eventVars, matchVars,
         postVars
<1>5. ASSUME Receive PROVE MutedOK'
  BY <1>0, <1>5, NoneAssumption
     DEF Receive, MutedOK, Fresh, Deliveries, HandledOnce, subVars, deliveryVars,
         jobVars, workerVars, claimVars, eventVars, matchVars, postVars
<1>6. ASSUME ListEnabled PROVE MutedOK'
  BY <1>0, <1>6, NoneAssumption
     DEF ListEnabled, NextHook, SubRelease, Fault, SubUnchanged, MutedOK, Fresh,
         Deliveries, HandledOnce, subVars, deliveryVars, jobVars, workerVars,
         claimVars, eventVars, matchVars, postVars
<1>7. ASSUME NEW h \in Hooks, CreateDelivery(h) PROVE MutedOK'
  BY <1>0, <1>7, NoneAssumption
     DEF CreateDelivery, SubRelease, Fault, SubUnchanged, MutedOK, Fresh, Deliveries,
         HandledOnce, subVars, deliveryVars, jobVars, workerVars, claimVars,
         eventVars, matchVars, postVars
<1>8. ASSUME EnqueueJob PROVE MutedOK'
  BY <1>0, <1>8, NoneAssumption
     DEF EnqueueJob, NextHook, SubRelease, Fault, SubUnchanged, MutedOK, Fresh,
         Deliveries, HandledOnce, subVars, deliveryVars, jobVars, workerVars,
         claimVars, eventVars, matchVars, postVars
<1>9. ASSUME NEW w \in Workers, NEW d \in Deliveries, Claim(w, d) PROVE MutedOK'
  BY <1>0, <1>9
     DEF Claim, Goto, WorkerUnchanged, MutedOK, Fresh, HoldsJob, BusyPcs, subVars,
         deliveryVars, jobVars, workerVars, claimVars, eventVars, matchVars,
         postVars
<1>10. ASSUME NEW w \in Workers, FindDelivery(w) PROVE MutedOK'
  BY <1>0, <1>10
     DEF FindDelivery, Goto, Fault, WorkerUnchanged, MutedOK, Fresh, HoldsJob,
         BusyPcs, subVars, deliveryVars, jobVars, workerVars, claimVars, eventVars,
         matchVars, postVars
<1>11. ASSUME NEW w \in Workers, Post(w) PROVE MutedOK'
  BY <1>0, <1>11
     DEF Post, Goto, WorkerUnchanged, MutedOK, Fresh, HoldsJob, BusyPcs, subVars,
         deliveryVars, jobVars, workerVars, claimVars, eventVars, matchVars,
         postVars
<1>12. ASSUME NEW w \in Workers, MarkDelivered(w) PROVE MutedOK'
  BY <1>0, <1>12
     DEF MarkDelivered, UpdateDelivery, Goto, Fault, WorkerUnchanged, MutedOK, Fresh,
         HoldsJob, BusyPcs, subVars, deliveryVars, jobVars, workerVars, claimVars,
         eventVars, matchVars, postVars
<1>13. ASSUME NEW w \in Workers, CompleteDelivered(w) PROVE MutedOK'
  BY <1>0, <1>13
     DEF CompleteDelivered, Complete, PutJob, Goto, Fault, WorkerUnchanged, MutedOK,
         Fresh, HoldsJob, BusyPcs, subVars, deliveryVars, jobVars, workerVars,
         claimVars, eventVars, matchVars, postVars
<1>14. ASSUME NEW w \in Workers, MarkFailed(w) PROVE MutedOK'
  BY <1>0, <1>14
     DEF MarkFailed, UpdateDelivery, Exhausted, Goto, Fault, WorkerUnchanged,
         MutedOK, Fresh, HoldsJob, BusyPcs, subVars, deliveryVars, jobVars,
         workerVars, claimVars, eventVars, matchVars, postVars
<1>15. ASSUME NEW w \in Workers, RequeueFailed(w) PROVE MutedOK'
  BY <1>0, <1>15
     DEF RequeueFailed, Fail, PutJob, Goto, Fault, WorkerUnchanged, MutedOK, Fresh,
         HoldsJob, BusyPcs, subVars, deliveryVars, jobVars, workerVars, claimVars,
         eventVars, matchVars, postVars
<1>16. ASSUME NEW w \in Workers, BuryExhausted(w) PROVE MutedOK'
  BY <1>0, <1>16
     DEF BuryExhausted, Dead, PutJob, Goto, Fault, WorkerUnchanged, MutedOK, Fresh,
         HoldsJob, BusyPcs, subVars, deliveryVars, jobVars, workerVars, claimVars,
         eventVars, matchVars, postVars
<1>17. ASSUME NEW w \in Workers, PoolFail(w) PROVE MutedOK'
  BY <1>0, <1>17
     DEF PoolFail, Fail, Dead, PutJob, Release, Goto, Fault, WorkerUnchanged,
         MutedOK, Fresh, HoldsJob, BusyPcs, subVars, deliveryVars, jobVars,
         workerVars, claimVars, eventVars, matchVars, postVars
<1>18. ASSUME NEW w \in Workers, PoolComplete(w) PROVE MutedOK'
  BY <1>0, <1>18
     DEF PoolComplete, Complete, PutJob, Release, Goto, Fault, WorkerUnchanged,
         MutedOK, Fresh, HoldsJob, BusyPcs, subVars, deliveryVars, jobVars,
         workerVars, claimVars, eventVars, matchVars, postVars
<1>19. ASSUME NEW d \in Deliveries, BecomeDue(d) PROVE MutedOK'
  BY <1>0, <1>19
     DEF BecomeDue, MutedOK, Fresh, HoldsJob, BusyPcs, subVars, deliveryVars,
         jobVars, workerVars, claimVars, eventVars, matchVars, postVars
<1>20. ASSUME Crash PROVE MutedOK'
  BY <1>0, <1>20, NoneAssumption
     DEF Crash, SubRelease, MutedOK, Fresh, Deliveries, subVars, deliveryVars,
         jobVars, workerVars, claimVars, eventVars, matchVars, postVars
<1>21. ASSUME UNCHANGED vars PROVE MutedOK'
  BY <1>0, <1>21
     DEF vars, MutedOK, Fresh, subVars, deliveryVars, jobVars, workerVars, claimVars,
         eventVars, matchVars, postVars
<1> QED BY <1>1, <1>2, <1>3, <1>4, <1>5, <1>6, <1>7, <1>8, <1>9, <1>10, <1>11,
       <1>12, <1>13, <1>14, <1>15, <1>16, <1>17, <1>18, <1>19, <1>20, <1>21
       DEF Next, Subscriber, Worker, RunJob

\* What was matched all along is on its way or stored.
LEMMA NextWanted == IInv /\ [Next]_vars => WantedOK'
<1> SUFFICES ASSUME IInv, [Next]_vars PROVE WantedOK'
  OBVIOUS
<1>0. /\ pc \in [Workers -> WorkerPcs]
      /\ job \in [Workers -> Deliveries \cup {None}]
      /\ jobStatus \in [Deliveries -> JobStatuses]
      /\ status \in [Deliveries -> DeliveryStatuses]
      /\ buffer \in Seq(Events)
      /\ subPc \in SubPcs /\ subEvent \in Events \cup {None}
      /\ subRest \subseteq Hooks /\ subHook \in Hooks \cup {None}
      /\ published \subseteq Events
      /\ wanted \subseteq Deliveries /\ muted \subseteq Deliveries
      /\ hook \in [Hooks -> [state : HookStates, filter : SUBSET Names]]
      /\ faults \in Nat
      /\ crashes \in Nat
      /\ HoldsJob
      /\ HandledOnce
      /\ WantedOK
  BY BoundsAssumption
     DEF IInv, TypeOK, HookTypes, BusTypes, SubTypes, DeliveryTypes, JobTypes,
         WorkerTypes, HistoryTypes, DisturbanceTypes
<1>1. ASSUME NEW h \in Hooks, NEW f \in Filters, WebhookCreate(h, f) PROVE WantedOK'
  BY <1>0, <1>1
     DEF WebhookCreate, SetHook, Edit, Rematch, WantedOK, RowsOK, Undisturbed,
         Enqueued, OnItsWay, Matches, Deliveries, HookStates, subVars, deliveryVars,
         jobVars, workerVars, claimVars, eventVars, postVars
<1>2. ASSUME NEW h \in Hooks, NEW f \in Filters, NEW s \in {"enabled", "disabled"},
            WebhookUpdate(h, f, s) PROVE WantedOK'
  BY <1>0, <1>2
     DEF WebhookUpdate, SetHook, Edit, Rematch, WantedOK, RowsOK, Undisturbed,
         Enqueued, OnItsWay, Matches, Deliveries, HookStates, subVars, deliveryVars,
         jobVars, workerVars, claimVars, eventVars, postVars
<1>3. ASSUME NEW h \in Hooks, WebhookDelete(h) PROVE WantedOK'
  BY <1>0, <1>3
     DEF WebhookDelete, SetHook, Edit, Rematch, WantedOK, RowsOK, Undisturbed,
         Enqueued, OnItsWay, Matches, Deliveries, HookStates, subVars, deliveryVars,
         jobVars, workerVars, claimVars, eventVars, postVars
<1>4. ASSUME NEW e \in Events, Publish(e) PROVE WantedOK'
  <2>1. \A d \in wanted' : d[1] \in published' /\ Matches(hook'[d[2]], d[1])
    BY <1>0, <1>4 DEF WantedOK, Publish
  <2>2. SUFFICES ASSUME Undisturbed'
                 PROVE  RowsOK' /\ \A d \in wanted' : (Enqueued(d) \/ OnItsWay(d))'
    BY <2>1 DEF WantedOK, Matches
  <2>3. RowsOK /\ \A d \in wanted : Enqueued(d) \/ OnItsWay(d)
    BY <1>0, <1>4, <2>2 DEF WantedOK, Undisturbed, Publish
  <2>4. RowsOK'
    BY <1>4, <2>3 DEF RowsOK, Publish, subVars, deliveryVars, jobVars, workerVars, claimVars
  <2>5. /\ Len(Append(buffer, e)) = Len(buffer) + 1
        /\ \A i \in 1 .. Len(buffer) : Append(buffer, e)[i] = buffer[i]
        /\ Append(buffer, e)[Len(buffer) + 1] = e
        /\ Len(buffer) \in Nat
    BY <1>0, AppendProperties, LenProperties
  <2>6. /\ e \in dropped' \/ \E i \in 1 .. Len(buffer') : buffer'[i] = e
        /\ dropped \subseteq dropped'
        /\ \A i \in 1 .. Len(buffer) : i \in 1 .. Len(buffer') /\ buffer'[i] = buffer[i]
    BY <1>4, <2>5 DEF Publish, Offer
  <2>7. ASSUME NEW d \in wanted' PROVE (Enqueued(d) \/ OnItsWay(d))'
    <3>1. d \in wanted \/ d[1] = e
      BY <1>4, <2>7 DEF Publish
    <3>2. CASE d[1] = e
      BY <2>6, <3>2 DEF OnItsWay
    <3>3. CASE d \in wanted
      <4>1. CASE Enqueued(d)
        BY <1>4, <4>1 DEF Enqueued, Publish, deliveryVars, jobVars
      <4>2. CASE OnItsWay(d)
        BY <1>4, <2>6, <4>2 DEF OnItsWay, Publish, subVars, deliveryVars
      <4> QED BY <2>3, <3>3, <4>1, <4>2
    <3> QED BY <3>1, <3>2, <3>3
  <2> QED BY <2>4, <2>7
<1>5. ASSUME Receive PROVE WantedOK'
  <2>1. buffer # <<>> /\ subPc = "idle" /\ subRest = {}
    BY <1>0, <1>5 DEF Receive, HandledOnce
  <2>2. SUFFICES ASSUME Undisturbed'
                 PROVE  RowsOK' /\ \A d \in wanted' : (Enqueued(d) \/ OnItsWay(d))'
    BY <1>0, <1>5 DEF WantedOK, Matches, Receive, matchVars, eventVars
  <2>3. RowsOK /\ \A d \in wanted : Enqueued(d) \/ OnItsWay(d)
    BY <1>0, <1>5, <2>2 DEF WantedOK, Undisturbed, Receive
  <2>4. RowsOK'
    BY <1>5, <2>3 DEF RowsOK, Receive, deliveryVars, jobVars, workerVars, claimVars
  <2>5. ASSUME NEW d \in wanted' PROVE (Enqueued(d) \/ OnItsWay(d))'
    <3>1. d \in wanted /\ (Enqueued(d) \/ OnItsWay(d))
      BY <1>5, <2>3, <2>5 DEF Receive, matchVars
    <3>2. CASE Enqueued(d)
      BY <1>5, <3>2 DEF Enqueued, Receive, deliveryVars, jobVars
    <3>3. CASE d[1] \in dropped
      BY <1>5, <3>3 DEF OnItsWay, Receive, eventVars
    <3>4. ASSUME NEW i \in 1 .. Len(buffer), buffer[i] = d[1]
          PROVE  OnItsWay(d)'
      <4>1. Len(buffer) \in Nat /\ Len(Tail(buffer)) = Len(buffer) - 1 /\ Head(buffer) = buffer[1]
            /\ \A j \in 1 .. Len(Tail(buffer)) : Tail(buffer)[j] = buffer[j + 1]
        BY <1>0, <2>1, HeadTailProperties, LenProperties
      <4>2. CASE i = 1
        BY <1>5, <3>4, <4>1, <4>2 DEF OnItsWay, Receive
      <4>3. CASE i # 1
        <5>1. i - 1 \in 1 .. Len(Tail(buffer)) /\ Tail(buffer)[i - 1] = d[1]
          BY <3>4, <4>1, <4>3
        <5> QED BY <1>5, <5>1 DEF OnItsWay, Receive
      <4> QED BY <4>2, <4>3
    <3> QED BY <2>1, <3>1, <3>2, <3>3, <3>4 DEF OnItsWay
  <2> QED BY <2>4, <2>5
<1>6. ASSUME ListEnabled PROVE WantedOK'
  BY <1>0, <1>6, NoneAssumption
     DEF ListEnabled, NextHook, SubRelease, Fault, SubUnchanged, WantedOK, RowsOK,
         Undisturbed, Enqueued, OnItsWay, Matches, Deliveries, HandledOnce, SubPcs,
         Fresh, subVars, deliveryVars, jobVars, workerVars, claimVars, eventVars,
         matchVars, postVars
<1>7. ASSUME NEW h \in Hooks, CreateDelivery(h) PROVE WantedOK'
  <2>1. <<subEvent, h>> \in Deliveries /\ subPc = "insert" /\ h \in subRest
    BY <1>0, <1>7 DEF CreateDelivery, HandledOnce, Deliveries
  <2>2. SUFFICES ASSUME Undisturbed'
                 PROVE  RowsOK' /\ \A d \in wanted' : (Enqueued(d) \/ OnItsWay(d))'
    BY <1>0, <1>7 DEF WantedOK, Matches, CreateDelivery, SubUnchanged, matchVars, eventVars
  <2>3. RowsOK /\ \A d \in wanted : Enqueued(d) \/ OnItsWay(d)
    BY <1>0, <1>7, <2>2 DEF WantedOK, Undisturbed, CreateDelivery, Fault, SubUnchanged
  <2>4. /\ status' = [status EXCEPT ![<<subEvent, h>>] = "queued"]
        /\ subPc' = "job" /\ subHook' = h /\ subRest' = subRest \ {h} /\ subEvent' = subEvent
    BY <1>0, <1>7, <2>2 DEF CreateDelivery, Fault, Undisturbed, SubUnchanged
  <2>5. UNCHANGED <<jobVars, workerVars, buffer, eventVars, matchVars>>
    BY <1>7 DEF CreateDelivery, SubUnchanged
  <2>6. jobStatus[<<subEvent, h>>] = "none"
    BY <1>0, <2>1 DEF HandledOnce, Fresh
  <2>7. RowsOK'
    <3>1. \A w \in Workers : pc[w] # "idle" => job[w] \in Deliveries /\ job[w] # <<subEvent, h>>
      BY <1>0, <2>6 DEF HoldsJob
    <3>2. \A d \in Deliveries : status'[d] = IF d = <<subEvent, h>> THEN "queued" ELSE status[d]
      BY <1>0, <2>4
    <3>3. \A d \in Deliveries : jobStatus'[d] # "none" => status'[d] # "none"
      BY <2>3, <2>5, <3>2 DEF RowsOK, jobVars
    <3>4. subPc' = "job" => status'[<<subEvent', subHook'>>] # "none"
      BY <2>1, <2>4, <3>2
    <3> QED BY <2>3, <2>5, <3>1, <3>2, <3>3, <3>4 DEF RowsOK, workerVars, claimVars
  <2>8. ASSUME NEW d \in wanted' PROVE (Enqueued(d) \/ OnItsWay(d))'
    <3>1. d \in Deliveries /\ d \in wanted /\ d = <<d[1], d[2]>>
      BY <1>0, <2>5, <2>8 DEF matchVars, Deliveries
    <3>2. CASE d = <<subEvent, h>>
      <4>1. d[1] = subEvent /\ d[2] = h /\ status'[d] # "none"
        BY <1>0, <2>1, <2>4, <3>2
      <4> QED BY <2>4, <4>1 DEF OnItsWay
    <3>3. CASE d # <<subEvent, h>>
      <4>1. status'[d] = status[d] /\ ~ (d[1] = subEvent /\ d[2] = h)
        BY <1>0, <2>4, <3>1, <3>3
      <4> QED
        BY <2>1, <2>3, <2>4, <2>5, <3>1, <4>1 DEF Enqueued, OnItsWay, jobVars, eventVars
    <3> QED BY <3>2, <3>3
  <2> QED BY <2>7, <2>8
<1>8. ASSUME EnqueueJob PROVE WantedOK'
  <2>1. <<subEvent, subHook>> \in Deliveries /\ subPc = "job"
    BY <1>0, <1>8 DEF EnqueueJob, HandledOnce, Deliveries
  <2>2. SUFFICES ASSUME Undisturbed'
                 PROVE  RowsOK' /\ \A d \in wanted' : (Enqueued(d) \/ OnItsWay(d))'
    BY <1>0, <1>8 DEF WantedOK, Matches, EnqueueJob, SubUnchanged, matchVars, eventVars
  <2>3. RowsOK /\ \A d \in wanted : Enqueued(d) \/ OnItsWay(d)
    BY <1>0, <1>8, <2>2 DEF WantedOK, Undisturbed, EnqueueJob, Fault, SubUnchanged
  <2>4. /\ jobStatus' = [jobStatus EXCEPT ![<<subEvent, subHook>>] = "queued"]
        /\ NextHook(subRest)
    BY <1>0, <1>8, <2>2 DEF EnqueueJob, Fault, Undisturbed, SubUnchanged
  <2>5. UNCHANGED <<deliveryVars, workerVars, buffer, eventVars, matchVars>>
    BY <1>8 DEF EnqueueJob, SubUnchanged
  <2>6. RowsOK'
    BY <1>0, <2>1, <2>3, <2>4, <2>5
       DEF RowsOK, NextHook, SubRelease, deliveryVars, workerVars, claimVars
  <2>7. ASSUME NEW d \in wanted' PROVE (Enqueued(d) \/ OnItsWay(d))'
    <3>1. d \in Deliveries /\ d \in wanted /\ d = <<d[1], d[2]>>
      BY <1>0, <2>5, <2>7 DEF matchVars, Deliveries
    <3>2. CASE d = <<subEvent, subHook>>
      <4>1. jobStatus'[d] = "queued" /\ status'[d] # "none"
        BY <1>0, <2>1, <2>3, <2>4, <2>5, <3>2 DEF RowsOK, deliveryVars
      <4> QED BY <4>1 DEF Enqueued
    <3>3. CASE d # <<subEvent, subHook>>
      <4>1. jobStatus'[d] = jobStatus[d] /\ ~ (d[1] = subEvent /\ d[2] = subHook)
        BY <1>0, <2>4, <3>1, <3>3
      <4>2. d[2] \in subRest => subRest' = subRest /\ subEvent' = subEvent
        BY <2>4 DEF NextHook
      <4> QED
        BY <2>1, <2>3, <2>5, <3>1, <4>1, <4>2 DEF Enqueued, OnItsWay, deliveryVars, eventVars
    <3> QED BY <3>2, <3>3
  <2> QED BY <2>6, <2>7
<1>9. ASSUME NEW w \in Workers, NEW d \in Deliveries, Claim(w, d) PROVE WantedOK'
  BY <1>0, <1>9
     DEF Claim, Goto, WorkerUnchanged, WantedOK, RowsOK, Undisturbed, Enqueued,
         OnItsWay, Matches, HoldsJob, BusyPcs, JobStatuses, DeliveryStatuses,
         subVars, deliveryVars, jobVars, workerVars, claimVars, eventVars, matchVars,
         postVars
<1>10. ASSUME NEW w \in Workers, FindDelivery(w) PROVE WantedOK'
  <2>1. job[w] \in Deliveries /\ jobStatus[job[w]] # "none"
    BY <1>0, <1>10 DEF FindDelivery, HoldsJob
  <2>2. SUFFICES ASSUME Undisturbed'
                 PROVE  RowsOK' /\ \A d \in wanted' : (Enqueued(d) \/ OnItsWay(d))'
    BY <1>0, <1>10 DEF WantedOK, Matches, FindDelivery, Fault, WorkerUnchanged, matchVars, eventVars
  <2>3. RowsOK /\ \A d \in wanted : Enqueued(d) \/ OnItsWay(d)
    BY <1>0, <1>10, <2>2 DEF WantedOK, Undisturbed, FindDelivery, Fault, WorkerUnchanged, matchVars, eventVars
  <2>4. RowsOK'
    BY <1>0, <1>10, <2>1, <2>2, <2>3 DEF RowsOK, Undisturbed, FindDelivery, Goto, Fault,
       WorkerUnchanged, subVars, deliveryVars, jobVars, workerVars, claimVars, eventVars, matchVars
  <2>5. \A d \in wanted' : (Enqueued(d) \/ OnItsWay(d))'
    BY <1>0, <1>10, <2>1, <2>2, <2>3 DEF RowsOK, Enqueued, OnItsWay, Undisturbed, FindDelivery, Goto, Fault,
       WorkerUnchanged, subVars, deliveryVars, jobVars, workerVars, claimVars, eventVars, matchVars
  <2> QED BY <2>4, <2>5
<1>11. ASSUME NEW w \in Workers, Post(w) PROVE WantedOK'
  <2>1. job[w] \in Deliveries /\ jobStatus[job[w]] # "none"
    BY <1>0, <1>11 DEF Post, HoldsJob
  <2>2. SUFFICES ASSUME Undisturbed'
                 PROVE  RowsOK' /\ \A d \in wanted' : (Enqueued(d) \/ OnItsWay(d))'
    BY <1>0, <1>11 DEF WantedOK, Matches, Post, WorkerUnchanged, matchVars, eventVars
  <2>3. RowsOK /\ \A d \in wanted : Enqueued(d) \/ OnItsWay(d)
    BY <1>0, <1>11, <2>2 DEF WantedOK, Undisturbed, Post, WorkerUnchanged, matchVars, eventVars
  <2>4. RowsOK'
    BY <1>0, <1>11, <2>1, <2>2, <2>3 DEF RowsOK, Undisturbed, Post, Goto,
       WorkerUnchanged, subVars, deliveryVars, jobVars, workerVars, claimVars, eventVars, matchVars
  <2>5. \A d \in wanted' : (Enqueued(d) \/ OnItsWay(d))'
    BY <1>0, <1>11, <2>1, <2>2, <2>3 DEF RowsOK, Enqueued, OnItsWay, Undisturbed, Post, Goto,
       WorkerUnchanged, subVars, deliveryVars, jobVars, workerVars, claimVars, eventVars, matchVars
  <2> QED BY <2>4, <2>5
<1>12. ASSUME NEW w \in Workers, MarkDelivered(w) PROVE WantedOK'
  <2>1. /\ job[w] \in Deliveries /\ jobStatus[job[w]] # "none"
        /\ subPc = "job" => <<subEvent, subHook>> \in Deliveries
    BY <1>0, <1>12 DEF MarkDelivered, HoldsJob, HandledOnce, Deliveries
  <2>2. SUFFICES ASSUME Undisturbed'
                 PROVE  RowsOK' /\ \A d \in wanted' : (Enqueued(d) \/ OnItsWay(d))'
    BY <1>0, <1>12 DEF WantedOK, Matches, MarkDelivered, Fault, WorkerUnchanged, matchVars, eventVars
  <2>3. RowsOK /\ \A d \in wanted : Enqueued(d) \/ OnItsWay(d)
    BY <1>0, <1>12, <2>2 DEF WantedOK, Undisturbed, MarkDelivered, Fault, WorkerUnchanged, matchVars, eventVars
  <2>4. /\ status'[job[w]] # "queued"
        /\ \A d \in Deliveries : /\ status[d] # "none" => status'[d] # "none"
                                 /\ status[d] # "queued" => status'[d] # "queued"
    BY <1>0, <1>12, <2>1, <2>2 DEF MarkDelivered, UpdateDelivery, Fault, Undisturbed, deliveryVars
  <2>5. UNCHANGED <<jobVars, claimVars, subVars, buffer, eventVars, matchVars>>
    BY <1>12 DEF MarkDelivered, WorkerUnchanged
  <2>6. \A v \in Workers : pc'[v] # pc[v] => v = w /\ pc'[v] # "error"
    BY <1>0, <1>12, <2>2 DEF MarkDelivered, Goto, Fault, Undisturbed
  <2>7. RowsOK'
    <3>1. \A d \in Deliveries : jobStatus'[d] # "none" => status'[d] # "none"
      BY <2>3, <2>4, <2>5 DEF RowsOK, jobVars
    <3>2. ASSUME NEW v \in Workers
          PROVE  /\ pc'[v] # "error"
                 /\ pc'[v] \in {"complete", "requeue", "bury", "return"} =>
                      status'[job'[v]] # "queued"
      <4>1. CASE v = w
        BY <2>3, <2>4, <2>5, <2>6, <4>1 DEF RowsOK, claimVars
      <4>2. CASE v # w
        <5>1. pc'[v] = pc[v] /\ (pc[v] # "idle" => job[v] \in Deliveries)
          BY <1>0, <2>6, <4>2 DEF HoldsJob
        <5> QED BY <2>3, <2>4, <2>5, <5>1 DEF RowsOK, claimVars
      <4> QED BY <4>1, <4>2
    <3>3. subPc' = "job" => status'[<<subEvent', subHook'>>] # "none"
      BY <2>1, <2>3, <2>4, <2>5 DEF RowsOK, subVars
    <3> QED BY <3>1, <3>2, <3>3 DEF RowsOK
  <2>8. \A d \in wanted' : (Enqueued(d) \/ OnItsWay(d))'
    BY <1>0, <2>3, <2>4, <2>5 DEF Enqueued, OnItsWay, jobVars, subVars, eventVars, matchVars
  <2> QED BY <2>7, <2>8
<1>13. ASSUME NEW w \in Workers, CompleteDelivered(w) PROVE WantedOK'
  <2>1. job[w] \in Deliveries /\ jobStatus[job[w]] # "none"
    BY <1>0, <1>13 DEF CompleteDelivered, HoldsJob
  <2>2. SUFFICES ASSUME Undisturbed'
                 PROVE  RowsOK' /\ \A d \in wanted' : (Enqueued(d) \/ OnItsWay(d))'
    BY <1>0, <1>13 DEF WantedOK, Matches, CompleteDelivered, Fault, WorkerUnchanged, matchVars, eventVars
  <2>3. RowsOK /\ \A d \in wanted : Enqueued(d) \/ OnItsWay(d)
    BY <1>0, <1>13, <2>2 DEF WantedOK, Undisturbed, CompleteDelivered, Fault, WorkerUnchanged, matchVars, eventVars
  <2>4. RowsOK'
    BY <1>0, <1>13, <2>1, <2>2, <2>3 DEF RowsOK, Undisturbed, CompleteDelivered, Complete, PutJob, Goto, Fault,
       WorkerUnchanged, subVars, deliveryVars, jobVars, workerVars, claimVars, eventVars, matchVars
  <2>5. \A d \in wanted' : (Enqueued(d) \/ OnItsWay(d))'
    BY <1>0, <1>13, <2>1, <2>2, <2>3 DEF RowsOK, Enqueued, OnItsWay, Undisturbed, CompleteDelivered, Complete, PutJob, Goto, Fault,
       WorkerUnchanged, subVars, deliveryVars, jobVars, workerVars, claimVars, eventVars, matchVars
  <2> QED BY <2>4, <2>5
<1>14. ASSUME NEW w \in Workers, MarkFailed(w) PROVE WantedOK'
  <2>1. /\ job[w] \in Deliveries /\ jobStatus[job[w]] # "none"
        /\ subPc = "job" => <<subEvent, subHook>> \in Deliveries
    BY <1>0, <1>14 DEF MarkFailed, HoldsJob, HandledOnce, Deliveries
  <2>2. SUFFICES ASSUME Undisturbed'
                 PROVE  RowsOK' /\ \A d \in wanted' : (Enqueued(d) \/ OnItsWay(d))'
    BY <1>0, <1>14 DEF WantedOK, Matches, MarkFailed, Fault, WorkerUnchanged, matchVars, eventVars
  <2>3. RowsOK /\ \A d \in wanted : Enqueued(d) \/ OnItsWay(d)
    BY <1>0, <1>14, <2>2 DEF WantedOK, Undisturbed, MarkFailed, Fault, WorkerUnchanged, matchVars, eventVars
  <2>4. /\ status'[job[w]] # "queued"
        /\ \A d \in Deliveries : /\ status[d] # "none" => status'[d] # "none"
                                 /\ status[d] # "queued" => status'[d] # "queued"
    BY <1>0, <1>14, <2>1, <2>2 DEF MarkFailed, UpdateDelivery, Fault, Undisturbed, deliveryVars
  <2>5. UNCHANGED <<jobVars, claimVars, subVars, buffer, eventVars, matchVars>>
    BY <1>14 DEF MarkFailed, WorkerUnchanged
  <2>6. \A v \in Workers : pc'[v] # pc[v] => v = w /\ pc'[v] # "error"
    BY <1>0, <1>14, <2>2 DEF MarkFailed, Goto, Fault, Undisturbed
  <2>7. RowsOK'
    <3>1. \A d \in Deliveries : jobStatus'[d] # "none" => status'[d] # "none"
      BY <2>3, <2>4, <2>5 DEF RowsOK, jobVars
    <3>2. ASSUME NEW v \in Workers
          PROVE  /\ pc'[v] # "error"
                 /\ pc'[v] \in {"complete", "requeue", "bury", "return"} =>
                      status'[job'[v]] # "queued"
      <4>1. CASE v = w
        BY <2>3, <2>4, <2>5, <2>6, <4>1 DEF RowsOK, claimVars
      <4>2. CASE v # w
        <5>1. pc'[v] = pc[v] /\ (pc[v] # "idle" => job[v] \in Deliveries)
          BY <1>0, <2>6, <4>2 DEF HoldsJob
        <5> QED BY <2>3, <2>4, <2>5, <5>1 DEF RowsOK, claimVars
      <4> QED BY <4>1, <4>2
    <3>3. subPc' = "job" => status'[<<subEvent', subHook'>>] # "none"
      BY <2>1, <2>3, <2>4, <2>5 DEF RowsOK, subVars
    <3> QED BY <3>1, <3>2, <3>3 DEF RowsOK
  <2>8. \A d \in wanted' : (Enqueued(d) \/ OnItsWay(d))'
    BY <1>0, <2>3, <2>4, <2>5 DEF Enqueued, OnItsWay, jobVars, subVars, eventVars, matchVars
  <2> QED BY <2>7, <2>8
<1>15. ASSUME NEW w \in Workers, RequeueFailed(w) PROVE WantedOK'
  <2>1. job[w] \in Deliveries /\ jobStatus[job[w]] # "none"
    BY <1>0, <1>15 DEF RequeueFailed, HoldsJob
  <2>2. SUFFICES ASSUME Undisturbed'
                 PROVE  RowsOK' /\ \A d \in wanted' : (Enqueued(d) \/ OnItsWay(d))'
    BY <1>0, <1>15 DEF WantedOK, Matches, RequeueFailed, Fault, WorkerUnchanged, matchVars, eventVars
  <2>3. RowsOK /\ \A d \in wanted : Enqueued(d) \/ OnItsWay(d)
    BY <1>0, <1>15, <2>2 DEF WantedOK, Undisturbed, RequeueFailed, Fault, WorkerUnchanged, matchVars, eventVars
  <2>4. RowsOK'
    BY <1>0, <1>15, <2>1, <2>2, <2>3 DEF RowsOK, Undisturbed, RequeueFailed, Fail, PutJob, Goto, Fault,
       WorkerUnchanged, subVars, deliveryVars, jobVars, workerVars, claimVars, eventVars, matchVars
  <2>5. \A d \in wanted' : (Enqueued(d) \/ OnItsWay(d))'
    BY <1>0, <1>15, <2>1, <2>2, <2>3 DEF RowsOK, Enqueued, OnItsWay, Undisturbed, RequeueFailed, Fail, PutJob, Goto, Fault,
       WorkerUnchanged, subVars, deliveryVars, jobVars, workerVars, claimVars, eventVars, matchVars
  <2> QED BY <2>4, <2>5
<1>16. ASSUME NEW w \in Workers, BuryExhausted(w) PROVE WantedOK'
  <2>1. job[w] \in Deliveries /\ jobStatus[job[w]] # "none"
    BY <1>0, <1>16 DEF BuryExhausted, HoldsJob
  <2>2. SUFFICES ASSUME Undisturbed'
                 PROVE  RowsOK' /\ \A d \in wanted' : (Enqueued(d) \/ OnItsWay(d))'
    BY <1>0, <1>16 DEF WantedOK, Matches, BuryExhausted, Fault, WorkerUnchanged, matchVars, eventVars
  <2>3. RowsOK /\ \A d \in wanted : Enqueued(d) \/ OnItsWay(d)
    BY <1>0, <1>16, <2>2 DEF WantedOK, Undisturbed, BuryExhausted, Fault, WorkerUnchanged, matchVars, eventVars
  <2>4. RowsOK'
    BY <1>0, <1>16, <2>1, <2>2, <2>3 DEF RowsOK, Undisturbed, BuryExhausted, Dead, PutJob, Goto, Fault,
       WorkerUnchanged, subVars, deliveryVars, jobVars, workerVars, claimVars, eventVars, matchVars
  <2>5. \A d \in wanted' : (Enqueued(d) \/ OnItsWay(d))'
    BY <1>0, <1>16, <2>1, <2>2, <2>3 DEF RowsOK, Enqueued, OnItsWay, Undisturbed, BuryExhausted, Dead, PutJob, Goto, Fault,
       WorkerUnchanged, subVars, deliveryVars, jobVars, workerVars, claimVars, eventVars, matchVars
  <2> QED BY <2>4, <2>5
<1>17. ASSUME NEW w \in Workers, PoolFail(w) PROVE WantedOK'
  <2>1. job[w] \in Deliveries /\ jobStatus[job[w]] # "none"
    BY <1>0, <1>17 DEF PoolFail, HoldsJob
  <2>2. SUFFICES ASSUME Undisturbed'
                 PROVE  RowsOK' /\ \A d \in wanted' : (Enqueued(d) \/ OnItsWay(d))'
    BY <1>0, <1>17 DEF WantedOK, Matches, PoolFail, Fault, WorkerUnchanged, matchVars, eventVars
  <2>3. RowsOK /\ \A d \in wanted : Enqueued(d) \/ OnItsWay(d)
    BY <1>0, <1>17, <2>2 DEF WantedOK, Undisturbed, PoolFail, Fault, WorkerUnchanged, matchVars, eventVars
  <2>4. RowsOK'
    BY <1>0, <1>17, <2>1, <2>2, <2>3 DEF RowsOK, Undisturbed, PoolFail, Fail, Dead, PutJob, Release, Goto, Fault,
       WorkerUnchanged, subVars, deliveryVars, jobVars, workerVars, claimVars, eventVars, matchVars
  <2>5. \A d \in wanted' : (Enqueued(d) \/ OnItsWay(d))'
    BY <1>0, <1>17, <2>1, <2>2, <2>3 DEF RowsOK, Enqueued, OnItsWay, Undisturbed, PoolFail, Fail, Dead, PutJob, Release, Goto, Fault,
       WorkerUnchanged, subVars, deliveryVars, jobVars, workerVars, claimVars, eventVars, matchVars
  <2> QED BY <2>4, <2>5
<1>18. ASSUME NEW w \in Workers, PoolComplete(w) PROVE WantedOK'
  <2>1. job[w] \in Deliveries /\ jobStatus[job[w]] # "none"
    BY <1>0, <1>18 DEF PoolComplete, HoldsJob
  <2>2. SUFFICES ASSUME Undisturbed'
                 PROVE  RowsOK' /\ \A d \in wanted' : (Enqueued(d) \/ OnItsWay(d))'
    BY <1>0, <1>18 DEF WantedOK, Matches, PoolComplete, Fault, WorkerUnchanged, matchVars, eventVars
  <2>3. RowsOK /\ \A d \in wanted : Enqueued(d) \/ OnItsWay(d)
    BY <1>0, <1>18, <2>2 DEF WantedOK, Undisturbed, PoolComplete, Fault, WorkerUnchanged, matchVars, eventVars
  <2>4. RowsOK'
    BY <1>0, <1>18, <2>1, <2>2, <2>3 DEF RowsOK, Undisturbed, PoolComplete, Complete, PutJob, Release, Goto, Fault,
       WorkerUnchanged, subVars, deliveryVars, jobVars, workerVars, claimVars, eventVars, matchVars
  <2>5. \A d \in wanted' : (Enqueued(d) \/ OnItsWay(d))'
    BY <1>0, <1>18, <2>1, <2>2, <2>3 DEF RowsOK, Enqueued, OnItsWay, Undisturbed, PoolComplete, Complete, PutJob, Release, Goto, Fault,
       WorkerUnchanged, subVars, deliveryVars, jobVars, workerVars, claimVars, eventVars, matchVars
  <2> QED BY <2>4, <2>5
<1>19. ASSUME NEW d \in Deliveries, BecomeDue(d) PROVE WantedOK'
  BY <1>0, <1>19
     DEF BecomeDue, WantedOK, RowsOK, Undisturbed, Enqueued, OnItsWay, Matches,
         HoldsJob, BusyPcs, JobStatuses, DeliveryStatuses, subVars, deliveryVars,
         jobVars, workerVars, claimVars, eventVars, matchVars, postVars
<1>20. ASSUME Crash PROVE WantedOK'
  BY <1>0, <1>20
     DEF Crash, SubRelease, WantedOK, RowsOK, Undisturbed, Enqueued, OnItsWay,
         Matches, subVars, deliveryVars, jobVars, workerVars, claimVars, eventVars,
         matchVars, postVars
<1>21. ASSUME UNCHANGED vars PROVE WantedOK'
  BY <1>0, <1>21
     DEF vars, WantedOK, RowsOK, Undisturbed, Enqueued, OnItsWay, Matches, subVars,
         deliveryVars, jobVars, workerVars, claimVars, eventVars, matchVars,
         postVars
<1> QED BY <1>1, <1>2, <1>3, <1>4, <1>5, <1>6, <1>7, <1>8, <1>9, <1>10, <1>11,
       <1>12, <1>13, <1>14, <1>15, <1>16, <1>17, <1>18, <1>19, <1>20, <1>21
       DEF Next, Subscriber, Worker, RunJob

-----------------------------------------------------------------------------
(* The theorems.                                                           *)

\* The invariant holds in every reachable state.
LEMMA Invariance == Spec => []IInv
<1>1. Init => IInv
  BY InitInv
<1>2. IInv /\ [Next]_vars => IInv'
  BY NextTypes, NextHolds, NextHandled, NextAccepted, NextCounts, NextMuted, NextWanted
     DEF IInv
<1> QED BY <1>1, <1>2, PTL DEF Spec

\* The rows, the buffer and the goroutines of outbound webhooks hold the values
\* the code stores in them, and no job row reaches max_attempts.
THEOREM TypeCorrect == Spec => []TypeOK
<1>1. IInv => TypeOK
  BY DEF IInv
<1> QED BY <1>1, Invariance, PTL

\* A receiver's 2xx is repeated at most once per database error: neither a crash
\* nor another worker nor the pool's own bookkeeping repeats an accepted POST.
THEOREM AcceptedSafety == Spec => []AcceptedOncePerFault
<1>1. IInv => AcceptedOncePerFault
  BY DEF IInv, AcceptedOK, AcceptedOncePerFault
<1> QED BY <1>1, Invariance, PTL

\* RunJob dead-letters a delivery only after max_attempts POSTs have failed.
THEOREM DeadSafety == Spec => []DeadMeansExhausted
<1>1. IInv => DeadMeansExhausted
  BY DEF IInv, CountsOK, DeadMeansExhausted
<1> QED BY <1>1, Invariance, PTL

\* HandleEvent enqueues an event for every webhook that matched it all along,
\* unless the buffer was full, a statement failed, the process stopped or a
\* webhook was deleted.
THEOREM WantedSafety == Spec => []WantedIsEnqueued
<1>1. IInv => WantedIsEnqueued
  <2> SUFFICES ASSUME IInv, NEW d \in wanted,
                      d[1] # subEvent,
                      ~ \E i \in DOMAIN buffer : buffer[i] = d[1],
                      d[1] \notin dropped,
                      ~ (faults > 0), ~ (crashes > 0),
                      ~ \E h \in Hooks : hook[h].state = "deleted"
               PROVE  /\ status[d] # "none"
                      /\ status[d] = "queued" => jobStatus[d] \in {"queued", "running"}
    BY DEF WantedIsEnqueued
  <2>1. faults \in Nat /\ crashes \in Nat
    BY BoundsAssumption DEF IInv, TypeOK, DisturbanceTypes
  <2>2. Undisturbed
    BY <2>1 DEF Undisturbed
  <2>3. DOMAIN buffer = 1 .. Len(buffer)
    BY LenProperties DEF IInv, TypeOK, BusTypes
  <2>4. Enqueued(d) \/ OnItsWay(d)
    BY <2>2 DEF IInv, WantedOK
  <2>5. ~ OnItsWay(d)
    BY <2>3 DEF OnItsWay
  <2> QED BY <2>4, <2>5 DEF Enqueued
<1> QED BY <1>1, Invariance, PTL

\* HandleEvent and the edits of a webhook never enqueue an event for a webhook
\* that at no time since Publish matched it.
THEOREM MutedSafety == Spec => []MutedNotEnqueued
<1>1. IInv => MutedNotEnqueued
  BY DEF IInv, MutedOK, MutedNotEnqueued, Fresh
<1> QED BY <1>1, Invariance, PTL

=============================================================================
