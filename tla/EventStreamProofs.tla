------------------------- MODULE EventStreamProofs -------------------------
(***************************************************************************)
(* The safety properties of EventStream for any number of tabs, users and  *)
(* organisations and any capacity of the buffers.                          *)
(***************************************************************************)
EXTENDS EventStream, SequenceTheorems, TLAPS

IInv == TypeOK /\ ClosedIsEmpty /\ RingIsPast /\ AudienceOnly /\ NothingSkipped

\* The messages in a buffer.
Contents(s) == {s[i] : i \in 1 .. Len(s)}

-----------------------------------------------------------------------------
(* Buffers.                                                                *)

\* A buffer with one more element.
LEMMA AppendContents ==
    ASSUME NEW S, NEW s \in Seq(S), NEW m \in S
    PROVE  /\ Append(s, m) \in Seq(S)
           /\ Len(Append(s, m)) = Len(s) + 1
           /\ Contents(Append(s, m)) = Contents(s) \cup {m}
<1>1. /\ Append(s, m) \in Seq(S)
      /\ Len(Append(s, m)) = Len(s) + 1
      /\ \A i \in 1 .. Len(s) : Append(s, m)[i] = s[i]
      /\ Append(s, m)[Len(s) + 1] = m
  BY AppendProperties
<1>2. Len(s) \in Nat
  BY LenProperties
<1>3. ASSUME NEW x \in Contents(Append(s, m)) PROVE x \in Contents(s) \cup {m}
  <2>1. PICK i \in 1 .. Len(s) + 1 : x = Append(s, m)[i]
    BY <1>1, <1>3 DEF Contents
  <2>2. CASE i \in 1 .. Len(s)
    BY <1>1, <2>1, <2>2 DEF Contents
  <2>3. CASE i = Len(s) + 1
    BY <1>1, <2>1, <2>3
  <2> QED BY <1>2, <2>1, <2>2, <2>3
<1>4. ASSUME NEW x \in Contents(s) \cup {m} PROVE x \in Contents(Append(s, m))
  <2>1. CASE x = m
    BY <1>1, <1>2, <2>1 DEF Contents
  <2>2. CASE x \in Contents(s)
    <3>1. PICK i \in 1 .. Len(s) : x = s[i]
      BY <2>2 DEF Contents
    <3>2. i \in 1 .. Len(s) + 1
      BY <1>2, <3>1
    <3> QED BY <1>1, <3>1, <3>2 DEF Contents
  <2> QED BY <1>4, <2>1, <2>2
<1> QED BY <1>1, <1>3, <1>4

\* A buffer whose oldest element is taken.
LEMMA TailContents ==
    ASSUME NEW S, NEW s \in Seq(S), s # <<>>
    PROVE  /\ Head(s) \in S
           /\ Tail(s) \in Seq(S)
           /\ Len(Tail(s)) = Len(s) - 1
           /\ Contents(s) = Contents(Tail(s)) \cup {Head(s)}
<1>1. /\ Head(s) \in S
      /\ Tail(s) \in Seq(S)
      /\ Len(Tail(s)) = Len(s) - 1
      /\ \A i \in 1 .. Len(Tail(s)) : Tail(s)[i] = s[i + 1]
  BY HeadTailProperties
<1>2. Len(s) \in Nat /\ Len(s) # 0 /\ Head(s) = s[1]
  BY LenProperties, EmptySeq
<1>3. ASSUME NEW x \in Contents(s) PROVE x \in Contents(Tail(s)) \cup {Head(s)}
  <2>1. PICK i \in 1 .. Len(s) : x = s[i]
    BY <1>3 DEF Contents
  <2>2. CASE i = 1
    BY <1>2, <2>1, <2>2
  <2>3. CASE i # 1
    <3>1. i - 1 \in 1 .. Len(Tail(s)) /\ (i - 1) + 1 = i
      BY <1>1, <1>2, <2>1, <2>3
    <3> QED BY <1>1, <2>1, <3>1 DEF Contents
  <2> QED BY <2>2, <2>3
<1>4. ASSUME NEW x \in Contents(Tail(s)) \cup {Head(s)} PROVE x \in Contents(s)
  <2>1. CASE x = Head(s)
    <3>1. 1 \in 1 .. Len(s)
      BY <1>2
    <3> QED BY <1>2, <2>1, <3>1 DEF Contents
  <2>2. CASE x \in Contents(Tail(s))
    <3>1. PICK i \in 1 .. Len(Tail(s)) : x = Tail(s)[i]
      BY <2>2 DEF Contents
    <3>2. i + 1 \in 1 .. Len(s)
      BY <1>1, <1>2, <3>1
    <3> QED BY <1>1, <3>1, <3>2 DEF Contents
  <2> QED BY <1>4, <2>1, <2>2
<1> QED BY <1>1, <1>3, <1>4

\* Recording keeps the buffer within its size and adds only the new message.
LEMMA RecordKeeps ==
    ASSUME TypeOK, NEW m \in Messages
    PROVE  /\ Record(m) \in Seq(Messages)
           /\ Len(Record(m)) <= RingSize
           /\ Contents(Record(m)) \subseteq Contents(ring) \cup {m}
<1>1. ring \in Seq(Messages) /\ Len(ring) <= RingSize /\ Len(ring) \in Nat /\ RingSize \in Nat \ {0}
  BY BoundsAssumption, LenProperties DEF TypeOK
<1>2. CASE Len(ring) < RingSize
  BY <1>1, <1>2, AppendContents DEF Record
<1>3. CASE ~ (Len(ring) < RingSize)
  <2>1. ring # <<>>
    BY <1>1, <1>3, EmptySeq
  <2>2. /\ Tail(ring) \in Seq(Messages)
        /\ Len(Tail(ring)) = Len(ring) - 1
        /\ Contents(Tail(ring)) \subseteq Contents(ring)
    BY <1>1, <2>1, TailContents
  <2>3. /\ Append(Tail(ring), m) \in Seq(Messages)
        /\ Len(Append(Tail(ring), m)) = Len(Tail(ring)) + 1
        /\ Contents(Append(Tail(ring), m)) = Contents(Tail(ring)) \cup {m}
    <3>1. ASSUME NEW t \in Seq(Messages)
          PROVE  /\ Append(t, m) \in Seq(Messages)
                 /\ Len(Append(t, m)) = Len(t) + 1
                 /\ Contents(Append(t, m)) = Contents(t) \cup {m}
      BY AppendContents
    <3> QED BY <2>2, <3>1
  <2> QED BY <1>1, <1>3, <2>2, <2>3 DEF Record
<1> QED BY <1>2, <1>3

\* What an offer does to the channel of one connection.
LEMMA OfferOne ==
    ASSUME TypeOK, NEW m \in Messages, Offer(m), NEW c \in Clients
    PROVE  /\ queue'[c] \in Seq(Messages)
           /\ Len(queue'[c]) <= ClientBuffer
           /\ dropped'[c] \in SUBSET Messages
           /\ Contents(queue[c]) \subseteq Contents(queue'[c])
           /\ dropped[c] \subseteq dropped'[c]
           /\ Contents(queue'[c]) \subseteq Contents(queue[c]) \cup {m}
           /\ c \notin subs => queue'[c] = queue[c]
           /\ ~ Deliverable(c, m) => queue'[c] = queue[c]
           /\ c \in subs /\ Deliverable(c, m) =>
                m \in Contents(queue'[c]) \cup dropped'[c]
<1>1. /\ queue[c] \in Seq(Messages)
      /\ Len(queue[c]) <= ClientBuffer
      /\ Len(queue[c]) \in Nat
      /\ ClientBuffer \in Nat
      /\ dropped[c] \in SUBSET Messages
  BY BoundsAssumption, LenProperties DEF TypeOK
<1> DEFINE To == c \in subs /\ Deliverable(c, m)
           Fits == Len(queue[c]) < ClientBuffer
<1>2. /\ queue'[c] = IF To /\ Fits THEN Append(queue[c], m) ELSE queue[c]
      /\ dropped'[c] = IF To /\ ~ Fits THEN dropped[c] \cup {m} ELSE dropped[c]
  BY DEF Offer
<1>3. CASE To /\ Fits
  BY <1>1, <1>2, <1>3, AppendContents
<1>4. CASE ~ (To /\ Fits)
  BY <1>1, <1>2, <1>4
<1> QED BY <1>3, <1>4

-----------------------------------------------------------------------------
(* Types.                                                                  *)

\* The initial state satisfies the invariant.
LEMMA InitInv == Init => IInv
<1> SUFFICES ASSUME Init PROVE IInv
  OBVIOUS
<1>1. TypeOK
  BY BoundsAssumption, ScopesAssumption, EmptySeq DEF Init, TypeOK
<1>2. ClosedIsEmpty /\ RingIsPast /\ NothingSkipped
  BY EmptySeq DEF Init, ClosedIsEmpty, RingIsPast, NothingSkipped
<1>3. AudienceOnly
  BY EmptySeq DEF Init, AudienceOnly, Queued
<1> QED BY <1>1, <1>2, <1>3 DEF IInv

\* Closing a connection keeps the types.
LEMMA CloseTypes ==
    ASSUME TypeOK, NEW c \in Clients, Close(c), UNCHANGED <<hubVars, restarts>>,
           last' \in [Clients -> 0 .. MaxEvents]
    PROVE  TypeOK'
<1>1. /\ pc' \in [Clients -> {"off", "replay", "live"}]
      /\ subs' = {d \in Clients : pc'[d] # "off"}
  BY DEF TypeOK, Close
<1>2. /\ queue' \in [Clients -> Seq(Messages)]
      /\ \A d \in Clients : Len(queue'[d]) <= ClientBuffer
  BY EmptySeq, BoundsAssumption DEF TypeOK, Close
<1>3. /\ orgs' \in [Clients -> SUBSET Orgs]
      /\ from' \in [Clients -> 0 .. MaxEvents]
      /\ got' \in [Clients -> SUBSET Messages]
      /\ dropped' \in [Clients -> SUBSET Messages]
  BY BoundsAssumption DEF TypeOK, Close
<1> QED BY <1>1, <1>2, <1>3 DEF TypeOK, hubVars

\* The replay buffer holds messages.
LEMMA RingElements ==
    ASSUME TypeOK
    PROVE  \A i \in 1 .. Len(ring) : ring[i] \in Messages /\ ring[i].id \in 0 .. MaxEvents
<1>1. \A i \in 1 .. Len(ring) : ring[i] \in Messages
  BY ElementOfSeq DEF TypeOK
<1> QED BY <1>1, BoundsAssumption DEF Messages

\* A replay that was written to the end.
Replayed(c) ==
    /\ got' = [got EXCEPT ![c] = {ring[i] : i \in ReplaySince(c)}]
    /\ pc' = [pc EXCEPT ![c] = "live"]
    /\ UNCHANGED <<subs, orgs, from, queue, dropped>>

\* A replay ends the connection or has written everything it has to.
LEMMA ReplayOutcome ==
    ASSUME TypeOK, NEW c \in Clients, Replay(c)
    PROVE  /\ pc[c] = "replay"
           /\ last' \in [Clients -> 0 .. MaxEvents]
           /\ UNCHANGED <<hubVars, restarts>>
           /\ Close(c) \/ Replayed(c)
<1>1. PICK n \in ReplaySince(c) \cup {0} :
        LET written == {i \in ReplaySince(c) : i <= n}
        IN  /\ last' = [last EXCEPT ![c] = IF n = 0 THEN @ ELSE ring[n].id]
            /\ \/ written # ReplaySince(c) /\ Close(c)
               \/ /\ written = ReplaySince(c)
                  /\ got' = [got EXCEPT ![c] = {ring[i] : i \in written}]
                  /\ pc' = [pc EXCEPT ![c] = "live"]
                  /\ UNCHANGED <<subs, orgs, from, flowVars>>
  BY DEF Replay
<1>2. last' \in [Clients -> 0 .. MaxEvents]
  BY <1>1, RingElements DEF TypeOK, ReplaySince
<1>3. Close(c) \/ Replayed(c)
  BY <1>1 DEF Replayed, flowVars
<1> QED BY <1>2, <1>3 DEF Replay

\* Every step keeps the variables in their types.
LEMMA NextTypes == TypeOK /\ [Next]_vars => TypeOK'
<1> SUFFICES ASSUME TypeOK, [Next]_vars PROVE TypeOK'
  OBVIOUS
<1> USE DEF hubVars, connVars, flowVars, tabVars
<1>1. ASSUME NEW s \in BusScopes, Publish(s) PROVE TypeOK'
  <2>1. bus' \in Seq(BusScopes) /\ Len(bus') <= BusBuffer
    BY <1>1, AppendContents, BoundsAssumption, LenProperties DEF Publish, TypeOK
  <2> QED BY <1>1, <2>1 DEF Publish, TypeOK
<1>2. CASE Dispatch
  <2>1. sending' \in Messages
    <3>1. Head(bus) \in BusScopes
      BY <1>2, TailContents DEF Dispatch, TypeOK
    <3>2. seq + 1 \in 1 .. MaxEvents
      BY <1>2, BoundsAssumption DEF Dispatch, TypeOK
    <3> QED BY <1>2, <3>1, <3>2 DEF Dispatch, Messages
  <2>2. ring' \in Seq(Messages) /\ Len(ring') <= RingSize
    BY <1>2, <2>1, RecordKeeps DEF Dispatch
  <2>3. bus' \in Seq(BusScopes) /\ Len(bus') <= BusBuffer
    BY <1>2, TailContents, BoundsAssumption, LenProperties DEF Dispatch, TypeOK
  <2>4. seq' \in 0 .. MaxEvents
    BY <1>2, BoundsAssumption DEF Dispatch, TypeOK
  <2> QED BY <1>2, <2>1, <2>2, <2>3, <2>4 DEF Dispatch, TypeOK
<1>3. ASSUME NEW m \in Messages, Offer(m),
             UNCHANGED <<bus, seq, ring, connVars, tabVars, restarts>>,
             sending' \in {sending, NoMessage}, delta' \in {delta, NoMessage}
      PROVE  TypeOK'
  <2>1. \A c \in Clients : /\ queue'[c] \in Seq(Messages)
                           /\ Len(queue'[c]) <= ClientBuffer
                           /\ dropped'[c] \in SUBSET Messages
    BY <1>3, OfferOne
  <2>2. queue' \in [Clients -> Seq(Messages)] /\ dropped' \in [Clients -> SUBSET Messages]
    BY <1>3, <2>1 DEF Offer
  <2> QED BY <1>3, <2>1, <2>2 DEF TypeOK
<1>4. CASE Deliver
  BY <1>3, <1>4 DEF Deliver, TypeOK
<1>5. ASSUME NEW u \in Users, SendToUser(u) PROVE TypeOK'
  <2>1. seq + 1 \in 1 .. MaxEvents
    BY <1>5, BoundsAssumption DEF SendToUser, TypeOK
  <2>2. delta' \in Messages /\ seq' \in 0 .. MaxEvents
    BY <1>5, <2>1 DEF SendToUser, Messages
  <2> QED BY <1>5, <2>2 DEF SendToUser, TypeOK
<1>6. CASE DeliverToUser
  BY <1>3, <1>6 DEF DeliverToUser, TypeOK
<1>7. ASSUME NEW c \in Clients, Connect(c) PROVE TypeOK'
  BY <1>7 DEF Connect, TypeOK
<1>8. ASSUME NEW c \in Clients, Replay(c) PROVE TypeOK'
  <2>1. CASE Close(c)
    BY <1>8, <2>1, ReplayOutcome, CloseTypes
  <2>2. CASE Replayed(c)
    <3>1. {ring[i] : i \in ReplaySince(c)} \in SUBSET Messages
      BY RingElements DEF ReplaySince
    <3>2. got' \in [Clients -> SUBSET Messages]
      BY <2>2, <3>1 DEF Replayed, TypeOK
    <3> QED BY <1>8, <2>2, <3>2, ReplayOutcome DEF Replayed, TypeOK
  <2> QED BY <1>8, <2>1, <2>2, ReplayOutcome
<1>9. ASSUME NEW c \in Clients, Receive(c) PROVE TypeOK'
  <2>1. /\ Head(queue[c]) \in Messages
        /\ Tail(queue[c]) \in Seq(Messages)
        /\ Len(Tail(queue[c])) <= ClientBuffer
    BY <1>9, TailContents, BoundsAssumption, LenProperties DEF Receive, TypeOK
  <2>2. Head(queue[c]).id \in 0 .. MaxEvents
    BY <2>1, BoundsAssumption DEF Messages
  <2> QED BY <1>9, <2>1, <2>2 DEF Receive, TypeOK
<1>10. ASSUME NEW c \in Clients, Disconnect(c) PROVE TypeOK'
  BY <1>10, CloseTypes DEF Disconnect, TypeOK
<1>11. CASE Restart
  BY <1>11, EmptySeq, BoundsAssumption DEF Restart, TypeOK
<1>12. CASE UNCHANGED vars
  BY <1>12 DEF vars, TypeOK
<1> QED BY <1>1, <1>2, <1>4, <1>5, <1>6, <1>7, <1>8, <1>9, <1>10, <1>11, <1>12 DEF Next

-----------------------------------------------------------------------------
(* Connections and the replay buffer.                                      *)

\* A tab without a connection has nothing under way.
LEMMA NextClosed == TypeOK /\ ClosedIsEmpty /\ [Next]_vars => ClosedIsEmpty'
<1> SUFFICES ASSUME TypeOK, ClosedIsEmpty, [Next]_vars PROVE ClosedIsEmpty'
  OBVIOUS
<1> USE DEF hubVars, connVars, flowVars, tabVars
<1>1. ASSUME NEW s \in BusScopes, Publish(s) PROVE ClosedIsEmpty'
  BY <1>1 DEF Publish, ClosedIsEmpty
<1>2. CASE Dispatch
  BY <1>2 DEF Dispatch, ClosedIsEmpty
<1>3. ASSUME NEW m \in Messages, Offer(m), UNCHANGED <<pc, got>> PROVE ClosedIsEmpty'
  <2>1. \A c \in Clients : c \notin subs => queue'[c] = queue[c]
    BY <1>3, OfferOne
  <2> QED BY <1>3, <2>1 DEF ClosedIsEmpty, TypeOK
<1>4. CASE Deliver
  BY <1>3, <1>4 DEF Deliver, TypeOK
<1>5. ASSUME NEW u \in Users, SendToUser(u) PROVE ClosedIsEmpty'
  BY <1>5 DEF SendToUser, ClosedIsEmpty
<1>6. CASE DeliverToUser
  BY <1>3, <1>6 DEF DeliverToUser, TypeOK
<1>7. ASSUME NEW c \in Clients, Connect(c) PROVE ClosedIsEmpty'
  BY <1>7 DEF Connect, ClosedIsEmpty, TypeOK
<1>8. ASSUME NEW c \in Clients, Close(c) PROVE ClosedIsEmpty'
  BY <1>8 DEF Close, ClosedIsEmpty, TypeOK
<1>9. ASSUME NEW c \in Clients, Replay(c) PROVE ClosedIsEmpty'
  <2>1. CASE Replayed(c)
    BY <2>1 DEF Replayed, ClosedIsEmpty, TypeOK
  <2> QED BY <1>8, <1>9, <2>1, ReplayOutcome
<1>10. ASSUME NEW c \in Clients, Receive(c) PROVE ClosedIsEmpty'
  BY <1>10 DEF Receive, ClosedIsEmpty, TypeOK
<1>11. ASSUME NEW c \in Clients, Disconnect(c) PROVE ClosedIsEmpty'
  BY <1>8, <1>11 DEF Disconnect
<1>12. CASE Restart
  BY <1>12 DEF Restart, ClosedIsEmpty
<1>13. CASE UNCHANGED vars
  BY <1>13 DEF vars, ClosedIsEmpty
<1> QED BY <1>1, <1>2, <1>4, <1>5, <1>6, <1>7, <1>9, <1>10, <1>11, <1>12, <1>13 DEF Next

\* The buffer holds only ids that were handed out.
LEMMA NextRing == TypeOK /\ RingIsPast /\ [Next]_vars => RingIsPast'
<1> SUFFICES ASSUME TypeOK, RingIsPast, [Next]_vars PROVE RingIsPast'
  OBVIOUS
<1>1. CASE Dispatch
  <2>1. /\ sending' \in Messages
        /\ sending'.id = seq + 1
    <3>1. Head(bus) \in BusScopes
      BY <1>1, TailContents DEF Dispatch, TypeOK
    <3>2. seq + 1 \in 1 .. MaxEvents
      BY <1>1, BoundsAssumption DEF Dispatch, TypeOK
    <3> QED BY <1>1, <3>1, <3>2 DEF Dispatch, Messages
  <2>2. Contents(ring') \subseteq Contents(ring) \cup {sending'}
    BY <1>1, <2>1, RecordKeeps DEF Dispatch
  <2>3. \A m \in Contents(ring) : m.id <= seq /\ m.id \in 0 .. MaxEvents
    BY RingElements DEF RingIsPast, Contents
  <2>4. seq' = seq + 1 /\ seq \in Nat
    BY <1>1, BoundsAssumption DEF Dispatch, TypeOK
  <2>5. \A m \in Contents(ring') : m.id <= seq'
    BY <2>1, <2>2, <2>3, <2>4, BoundsAssumption
  <2> QED BY <2>5 DEF RingIsPast, Contents
<1>2. ASSUME NEW u \in Users, SendToUser(u) PROVE RingIsPast'
  BY <1>2, RingElements, BoundsAssumption DEF SendToUser, RingIsPast, TypeOK
<1>3. CASE Restart
  BY <1>3, EmptySeq DEF Restart, RingIsPast
<1>4. CASE UNCHANGED <<ring, seq>>
  BY <1>4 DEF RingIsPast
<1>5. (\E s \in BusScopes : Publish(s)) \/ Deliver \/ DeliverToUser \/ UNCHANGED vars
        => UNCHANGED <<ring, seq>>
  BY DEF Publish, Deliver, DeliverToUser, vars, hubVars
<1>6. (\E c \in Clients : Connect(c) \/ Replay(c) \/ Receive(c) \/ Disconnect(c))
        => UNCHANGED <<ring, seq>>
  BY DEF Connect, Replay, Receive, Disconnect, hubVars
<1> QED BY <1>1, <1>2, <1>3, <1>4, <1>5, <1>6 DEF Next

-----------------------------------------------------------------------------
(* The audience of a connection.                                           *)

\* A step that gives no connection more than it had keeps the audiences.
LEMMA NothingNew ==
    ASSUME AudienceOnly,
           \A d \in Clients :
               /\ orgs'[d] = orgs[d]
               /\ got'[d] \cup Contents(queue'[d]) \subseteq got[d] \cup Contents(queue[d])
    PROVE  AudienceOnly'
  BY DEF AudienceOnly, Queued, Contents, Audience

\* Every step delivers only to the audience.
LEMMA NextAudience == TypeOK /\ ClosedIsEmpty /\ AudienceOnly /\ [Next]_vars => AudienceOnly'
<1> SUFFICES ASSUME TypeOK, ClosedIsEmpty, AudienceOnly, [Next]_vars PROVE AudienceOnly'
  OBVIOUS
<1>a. \A d \in Clients : \A m \in got[d] \cup Contents(queue[d]) : m.scope \in Audience(d)
  BY DEF AudienceOnly, Queued, Contents
<1>b. ASSUME \A d \in Clients : \A m \in got'[d] \cup Contents(queue'[d]) : m.scope \in Audience(d)'
      PROVE  AudienceOnly'
  BY <1>b DEF AudienceOnly, Queued, Contents
<1>c. Contents(<<>>) = {}
  BY EmptySeq DEF Contents
<1>1. CASE UNCHANGED <<orgs, got, queue>>
  BY <1>1, NothingNew
<1>2. (\E s \in BusScopes : Publish(s)) \/ Dispatch \/ (\E u \in Users : SendToUser(u))
        \/ UNCHANGED vars => UNCHANGED <<orgs, got, queue>>
  BY DEF Publish, Dispatch, SendToUser, vars, connVars, flowVars, tabVars
<1>3. ASSUME NEW m \in Messages, Offer(m), UNCHANGED <<orgs, got>> PROVE AudienceOnly'
  <2>1. ASSUME NEW d \in Clients, NEW x \in got'[d] \cup Contents(queue'[d])
        PROVE  x.scope \in Audience(d)'
    <3>1. x \in got[d] \cup Contents(queue[d]) \/ (x = m /\ Deliverable(d, m))
      BY <1>3, <2>1, OfferOne
    <3>2. Deliverable(d, m) => m.scope \in Audience(d)
      BY DEF Deliverable, Audience
    <3>3. x.scope \in Audience(d)
      BY <1>a, <3>1, <3>2
    <3> QED BY <1>3, <3>3 DEF Audience
  <2> QED BY <1>b, <2>1
<1>4. Deliver \/ DeliverToUser => AudienceOnly'
  BY <1>3 DEF Deliver, DeliverToUser, TypeOK, connVars, tabVars
<1>5. ASSUME NEW c \in Clients, Connect(c) PROVE AudienceOnly'
  <2>1. ASSUME NEW d \in Clients, NEW x \in got'[d] \cup Contents(queue'[d])
        PROVE  x.scope \in Audience(d)'
    <3>1. x \in got[d] \cup Contents(queue[d])
      BY <1>5, <2>1 DEF Connect, flowVars, tabVars
    <3>2. d # c
      BY <1>5, <1>c, <3>1 DEF Connect, ClosedIsEmpty
    <3>3. orgs'[d] = orgs[d]
      BY <1>5, <3>2 DEF Connect, TypeOK
    <3> QED BY <1>a, <3>1, <3>3 DEF Audience
  <2> QED BY <1>b, <2>1
<1>6. ASSUME NEW c \in Clients, Close(c) PROVE AudienceOnly'
  <2>1. ASSUME NEW d \in Clients, NEW x \in got'[d] \cup Contents(queue'[d])
        PROVE  x.scope \in Audience(d)'
    <3>1. d # c
      BY <1>6, <1>c, <2>1 DEF Close, TypeOK
    <3>2. x \in got[d] \cup Contents(queue[d]) /\ orgs'[d] = orgs[d]
      BY <1>6, <2>1, <3>1 DEF Close, TypeOK
    <3> QED BY <1>a, <3>2 DEF Audience
  <2> QED BY <1>b, <2>1
<1>7. ASSUME NEW c \in Clients, Replay(c) PROVE AudienceOnly'
  <2>1. CASE Replayed(c)
    <3>1. ASSUME NEW d \in Clients, NEW x \in got'[d] \cup Contents(queue'[d])
          PROVE  x.scope \in Audience(d)'
      <4>1. x \in got[d] \cup Contents(queue[d]) \/ (d = c /\ x \in {ring[i] : i \in ReplaySince(c)})
        BY <2>1, <3>1 DEF Replayed, TypeOK
      <4>2. \A i \in ReplaySince(c) : ring[i].scope \in Audience(c)
        BY DEF ReplaySince, Deliverable, Audience
      <4>3. x.scope \in Audience(d)
        BY <1>a, <4>1, <4>2
      <4> QED BY <2>1, <4>3 DEF Replayed, Audience
    <3> QED BY <1>b, <3>1
  <2> QED BY <1>6, <1>7, <2>1, ReplayOutcome
<1>8. ASSUME NEW c \in Clients, Receive(c) PROVE AudienceOnly'
  <2>1. Contents(queue[c]) = Contents(Tail(queue[c])) \cup {Head(queue[c])}
    BY <1>8, TailContents DEF Receive, TypeOK
  <2>2. \A d \in Clients :
          got'[d] \cup Contents(queue'[d]) \subseteq got[d] \cup Contents(queue[d])
    BY <1>8, <2>1 DEF Receive, TypeOK
  <2> QED BY <1>8, <2>2, NothingNew DEF Receive, connVars
<1>9. ASSUME NEW c \in Clients, Disconnect(c) PROVE AudienceOnly'
  BY <1>6, <1>9 DEF Disconnect
<1>10. CASE Restart
  BY <1>10, <1>b, <1>c DEF Restart
<1> QED BY <1>1, <1>2, <1>4, <1>5, <1>7, <1>8, <1>9, <1>10 DEF Next

-----------------------------------------------------------------------------
(* No gap between the replay and the live messages.                        *)

\* Where a connection's messages have gone.
Handled(c) == got[c] \cup Contents(queue[c]) \cup dropped[c]

\* NothingSkipped for one connection.
Covered(c) ==
    pc[c] = "live" =>
        \A m \in Contents(ring) :
            m.id > from[c] /\ m # sending /\ m.scope \in Audience(c) => m \in Handled(c)

\* The property is about each connection by itself.
LEMMA SkippedByConnection == NothingSkipped <=> \A c \in Clients : Covered(c)
  BY DEF NothingSkipped, Covered, Handled, Contents, Queued

\* A step that takes nothing from a connection, records only the message Run is
\* about to offer, and has offered the one before, keeps the connection covered.
LEMMA StaysCovered ==
    ASSUME NEW c \in Clients, Covered(c),
           pc'[c] = "live" =>
               /\ pc[c] = "live" /\ from'[c] = from[c] /\ orgs'[c] = orgs[c]
               /\ Handled(c) \subseteq Handled(c)'
               /\ \A m \in Contents(ring') : m # sending' =>
                    /\ m \in Contents(ring)
                    /\ m = sending /\ m.scope \in Audience(c) => m \in Handled(c)'
    PROVE  Covered(c)'
  BY DEF Covered, Audience, Contents

\* Every step leaves every connection covered.
LEMMA NextSkipped ==
    TypeOK /\ ClosedIsEmpty /\ RingIsPast /\ NothingSkipped /\ [Next]_vars => NothingSkipped'
<1> SUFFICES ASSUME TypeOK, ClosedIsEmpty, RingIsPast, NothingSkipped, [Next]_vars,
                    NEW d \in Clients
             PROVE  Covered(d)'
  BY SkippedByConnection DEF NothingSkipped, Covered, Handled, Contents, Queued
<1>a. Covered(d)
  BY SkippedByConnection
<1>1. CASE UNCHANGED <<ring, sending, pc, orgs, from, got, queue, dropped>>
  BY <1>1, <1>a DEF Covered, Audience, Contents, Handled
<1>2. (\E s \in BusScopes : Publish(s)) \/ (\E u \in Users : SendToUser(u)) \/ UNCHANGED vars
        => UNCHANGED <<ring, sending, pc, orgs, from, got, queue, dropped>>
  BY DEF Publish, SendToUser, vars, hubVars, connVars, flowVars, tabVars
<1>3. CASE Dispatch
  <2>1. sending' \in Messages
    <3>1. Head(bus) \in BusScopes
      BY <1>3, TailContents DEF Dispatch, TypeOK
    <3>2. seq + 1 \in 1 .. MaxEvents
      BY <1>3, BoundsAssumption DEF Dispatch, TypeOK
    <3> QED BY <1>3, <3>1, <3>2 DEF Dispatch, Messages
  <2>2. Contents(ring') \subseteq Contents(ring) \cup {sending'}
    BY <1>3, <2>1, RecordKeeps DEF Dispatch
  <2>3. \A m \in Contents(ring) : m # sending
    BY <1>3, RingElements, NoMessageAssumption DEF Contents, Dispatch
  <2>4. UNCHANGED <<pc, from, orgs, got, queue, dropped>>
    BY <1>3 DEF Dispatch, connVars, flowVars, tabVars
  <2>5. Handled(d) \subseteq Handled(d)'
    BY <2>4 DEF Handled, Contents
  <2> QED BY <1>a, <2>2, <2>3, <2>4, <2>5, StaysCovered
<1>4. ASSUME NEW m \in Messages, Offer(m), UNCHANGED <<ring, pc, from, orgs, got>>,
             sending' = sending \/ m = sending
      PROVE  Covered(d)'
  <2>1. Handled(d) \subseteq Handled(d)'
    BY <1>4, OfferOne DEF Handled, Contents
  <2>2. pc[d] = "live" /\ m.scope \in Audience(d) => m \in Handled(d)'
    <3>1. pc[d] = "live" => d \in subs
      BY DEF TypeOK
    <3>2. m.scope \in Audience(d) => Deliverable(d, m)
      BY DEF Audience, Deliverable
    <3> QED BY <1>4, <3>1, <3>2, OfferOne DEF Handled, Contents
  <2> QED BY <1>4, <1>a, <2>1, <2>2, StaysCovered
<1>5. CASE Deliver
  BY <1>4, <1>5 DEF Deliver, TypeOK, connVars, tabVars
<1>6. CASE DeliverToUser
  BY <1>4, <1>6 DEF DeliverToUser, TypeOK, connVars, tabVars
<1>7. ASSUME NEW c \in Clients, Connect(c) PROVE Covered(d)'
  <2>1. UNCHANGED <<ring, sending, got, queue, dropped, seq>>
    BY <1>7 DEF Connect, hubVars, flowVars, tabVars
  <2>2. CASE d # c
    <3>1. pc'[d] = pc[d] /\ from'[d] = from[d] /\ orgs'[d] = orgs[d]
      BY <1>7, <2>2 DEF Connect, TypeOK
    <3>2. Handled(d) \subseteq Handled(d)'
      BY <2>1 DEF Handled, Contents
    <3>3. \A m \in Contents(ring') : m # sending' => m \in Contents(ring) /\ m # sending
      BY <2>1
    <3> QED BY <1>a, <3>1, <3>2, <3>3, StaysCovered
  <2>3. CASE d = c /\ pc'[d] = "live"
    <3>1. from'[d] = seq
      BY <1>7, <2>3 DEF Connect, TypeOK
    <3>2. \A m \in Contents(ring') : ~ (m.id > from'[d])
      <4>1. seq \in Int
        BY BoundsAssumption DEF TypeOK
      <4>2. \A i \in 1 .. Len(ring) : ring[i].id \in Int /\ ring[i].id <= seq
        BY RingElements, BoundsAssumption DEF RingIsPast, Messages
      <4>3. \A i \in 1 .. Len(ring) : ~ (ring[i].id > seq)
        BY <4>1, <4>2
      <4> QED BY <2>1, <3>1, <4>3 DEF Contents
    <3> QED BY <3>2 DEF Covered, Contents
  <2>4. CASE pc'[d] # "live"
    BY <2>4 DEF Covered
  <2> QED BY <2>2, <2>3, <2>4
<1>8. ASSUME NEW c \in Clients, Close(c), UNCHANGED hubVars PROVE Covered(d)'
  <2>1. CASE d # c
    BY <1>8, <1>a, <2>1 DEF Close, hubVars, TypeOK, Covered, Audience, Contents, Handled
  <2>2. CASE d = c
    BY <1>8, <2>2 DEF Close, TypeOK, Covered
  <2> QED BY <2>1, <2>2
<1>9. ASSUME NEW c \in Clients, Replay(c) PROVE Covered(d)'
  <2>1. CASE Replayed(c)
    <3>1. UNCHANGED <<ring, sending, orgs, from, queue, dropped>>
      BY <1>9, <2>1, ReplayOutcome DEF Replayed, hubVars
    <3>2. CASE d # c
      BY <1>a, <2>1, <3>1, <3>2 DEF Replayed, TypeOK, Covered, Audience, Contents, Handled
    <3>3. CASE d = c
      <4>1. got'[d] = {ring[i] : i \in ReplaySince(d)}
        BY <2>1, <3>3 DEF Replayed, TypeOK
      <4>2. \A m \in Contents(ring) :
              m.id > from[d] /\ m.scope \in Audience(d) => m \in got'[d]
        BY <4>1 DEF Contents, ReplaySince, Newer, Deliverable, Audience
      <4> QED BY <3>1, <4>2 DEF Covered, Audience, Contents, Handled
    <3> QED BY <3>2, <3>3
  <2> QED BY <1>8, <1>9, <2>1, ReplayOutcome
<1>10. ASSUME NEW c \in Clients, Receive(c) PROVE Covered(d)'
  <2>1. Contents(queue[c]) = Contents(Tail(queue[c])) \cup {Head(queue[c])}
    BY <1>10, TailContents DEF Receive, TypeOK
  <2>2. Handled(d) \subseteq Handled(d)'
    <3>1. dropped' = dropped
      BY <1>10 DEF Receive
    <3>2. CASE d # c
      <4>1. got'[d] = got[d] /\ queue'[d] = queue[d]
        BY <1>10, <3>2 DEF Receive, TypeOK
      <4> QED BY <3>1, <4>1 DEF Handled, Contents
    <3>3. CASE d = c
      <4>1. got'[d] = got[d] \cup {Head(queue[d])} /\ queue'[d] = Tail(queue[d])
        BY <1>10, <3>3 DEF Receive, TypeOK
      <4>2. Handled(d)' = got'[d] \cup Contents(queue'[d]) \cup dropped'[d]
        BY DEF Handled, Contents
      <4> QED BY <2>1, <3>1, <3>3, <4>1, <4>2 DEF Handled
    <3> QED BY <3>2, <3>3
  <2> QED BY <1>10, <1>a, <2>2, StaysCovered DEF Receive, hubVars, connVars
<1>11. ASSUME NEW c \in Clients, Disconnect(c) PROVE Covered(d)'
  BY <1>8, <1>11 DEF Disconnect
<1>12. CASE Restart
  BY <1>12 DEF Restart, Covered
<1> QED BY <1>1, <1>2, <1>3, <1>5, <1>6, <1>7, <1>9, <1>10, <1>11, <1>12 DEF Next

-----------------------------------------------------------------------------
(* The theorems                                                            *)

\* Every behaviour of the bus and the hub satisfies the invariant.
THEOREM Invariance == Spec => []IInv
<1>1. Init => IInv
  BY InitInv
<1>2. IInv /\ [Next]_vars => IInv'
  BY NextTypes, NextClosed, NextRing, NextAudience, NextSkipped DEF IInv
<1> QED BY <1>1, <1>2, PTL DEF Spec

\* The hub's state keeps its types and every buffer its capacity.
THEOREM TypeCorrect == Spec => []TypeOK
<1>1. IInv => TypeOK
  BY DEF IInv
<1> QED BY <1>1, Invariance, PTL

\* A connection never carries a message outside its audience, neither live nor
\* replayed.
THEOREM AudienceSafety == Spec => []AudienceOnly
<1>1. IInv => AudienceOnly
  BY DEF IInv
<1> QED BY <1>1, Invariance, PTL

\* Registering before replaying leaves no gap, however the pump, SendToUser and
\* the connections interleave.
THEOREM NoGap == Spec => []NothingSkipped
<1>1. IInv => NothingSkipped
  BY DEF IInv
<1> QED BY <1>1, Invariance, PTL
=============================================================================
