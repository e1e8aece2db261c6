---------------------------- MODULE EventStream ----------------------------
(***************************************************************************)
(* The realtime stream: the hub's subscription to the event bus            *)
(* (internal/event) and the hub that serves /events (internal/sse).        *)
(*                                                                         *)
(* Three kinds of goroutines meet here: Run pumps the bus and is the only  *)
(* one that records for replay; the workers of the agent engine call       *)
(* SendToUser; each connection has a handler that registers itself,        *)
(* replays what is newer than the browser's Last-Event-ID, then drains its *)
(* channel.  Both channels drop when they are full.  All of it is in       *)
(* memory, except the Last-Event-ID, which the browser keeps.              *)
(***************************************************************************)
EXTENDS Integers, Sequences

CONSTANTS
    Clients,      \* browser tabs
    Users,
    UserOf,       \* the signed-in user of each tab
    Orgs,
    Platform,     \* scope of an event without org
    NoMessage,
    BusBuffer,    \* capacity of the hub's subscription
    ClientBuffer, \* capacity of a connection's channel
    RingSize,     \* depth of the replay buffer
    MaxEvents,    \* bound: ids handed out by one process
    MaxRestarts   \* bound: restarts of the process

ASSUME ScopesAssumption ==
    /\ UserOf \in [Clients -> Users]
    /\ Users \cap (Orgs \cup {Platform}) = {}
    /\ Platform \notin Orgs

ASSUME BoundsAssumption ==
    /\ BusBuffer \in Nat \ {0}
    /\ ClientBuffer \in Nat \ {0}
    /\ RingSize \in Nat \ {0}
    /\ MaxEvents \in Nat
    /\ MaxRestarts \in Nat

BusScopes == Orgs \cup {Platform}
Messages  == [id : 1 .. MaxEvents, scope : BusScopes \cup Users]

ASSUME NoMessageAssumption == NoMessage \notin Messages

VARIABLES
    bus,         \* events in the hub's subscription
    seq,         \* last id handed out
    ring,        \* replay buffer, oldest first
    sending,     \* the message Run recorded and has not delivered
    delta,       \* the message SendToUser numbered and has not delivered
    pc,          \* progress of a tab's connection
    subs,        \* connections registered with the hub
    orgs,        \* the connection's snapshot of the user's organisations
    queue,       \* the connection's channel
    last,        \* Last-Event-ID of the tab, 0 when it has none
    from,        \* what the connection is to continue from
    got,         \* messages received on this connection
    dropped,     \* messages dropped for this connection
    restarts

hubVars  == <<bus, seq, ring, sending, delta>>
connVars == <<pc, subs, orgs, from>>
flowVars == <<queue, dropped>>
tabVars  == <<last, got>>
vars == <<hubVars, connVars, flowVars, tabVars, restarts>>

-----------------------------------------------------------------------------
(* The bus and the hub.                                                    *)

\* An event that does not fit in the subscription is dropped for good.
Publish(s) ==
    /\ bus' = IF Len(bus) < BusBuffer THEN Append(bus, s) ELSE bus
    /\ UNCHANGED <<seq, ring, sending, delta, connVars, flowVars, tabVars, restarts>>

\* Mutant: eviction starts one message late.
RecordLate(m) ==
    IF Len(ring) <= RingSize THEN Append(ring, m) ELSE Append(Tail(ring), m)

\* The replay buffer with m recorded: the oldest message is evicted.
Record(m) ==
    IF Len(ring) < RingSize THEN Append(ring, m) ELSE Append(Tail(ring), m)

Dispatch ==
    /\ sending = NoMessage
    /\ bus # <<>>
    /\ seq < MaxEvents
    /\ seq' = seq + 1
    /\ sending' = [id |-> seq + 1, scope |-> Head(bus)]
    /\ ring' = Record(sending')
    /\ bus' = Tail(bus)
    /\ UNCHANGED <<delta, connVars, flowVars, tabVars, restarts>>

\* Whether a message is for a connection.
Deliverable(c, m) == m.scope \in {UserOf[c], Platform} \cup orgs[c]

\* Offer a message to every registered connection in its audience, without
\* waiting for any.
Offer(m) ==
    LET Fits(c) == Len(queue[c]) < ClientBuffer
        To == {c \in subs : Deliverable(c, m)}
    IN  /\ queue' = [c \in Clients |-> IF c \in To /\ Fits(c) THEN Append(queue[c], m)
                                                              ELSE queue[c]]
        /\ dropped' = [c \in Clients |-> IF c \in To /\ ~ Fits(c) THEN dropped[c] \cup {m}
                                                                  ELSE dropped[c]]

Deliver ==
    /\ sending # NoMessage
    /\ Offer(sending)
    /\ sending' = NoMessage
    /\ UNCHANGED <<bus, seq, ring, delta, connVars, tabVars, restarts>>

\* A message for one user is numbered like the others and never recorded.
SendToUser(u) ==
    /\ delta = NoMessage
    /\ seq < MaxEvents
    /\ seq' = seq + 1
    /\ delta' = [id |-> seq + 1, scope |-> u]
    /\ UNCHANGED <<bus, ring, sending, connVars, flowVars, tabVars, restarts>>

DeliverToUser ==
    /\ delta # NoMessage
    /\ Offer(delta)
    /\ delta' = NoMessage
    /\ UNCHANGED <<bus, seq, ring, sending, connVars, tabVars, restarts>>

-----------------------------------------------------------------------------
(* A connection.                                                           *)

\* The handler returns: its channel goes with it.
Close(c) ==
    /\ pc' = [pc EXCEPT ![c] = "off"]
    /\ subs' = subs \ {c}
    /\ orgs' = [orgs EXCEPT ![c] = {}]
    /\ from' = [from EXCEPT ![c] = 0]
    /\ queue' = [queue EXCEPT ![c] = <<>>]
    /\ got' = [got EXCEPT ![c] = {}]
    /\ dropped' = [dropped EXCEPT ![c] = {}]

\* The handler resolves the organisations (membership and single sign-on may
\* have changed since the last time) and registers with the hub.  A first
\* connection has no Last-Event-ID and replays nothing.
Connect(c) ==
    /\ pc[c] = "off"
    /\ \E S \in SUBSET Orgs : orgs' = [orgs EXCEPT ![c] = S]
    /\ subs' = subs \cup {c}
    /\ pc' = [pc EXCEPT ![c] = IF last[c] = 0 THEN "live" ELSE "replay"]
    /\ from' = [from EXCEPT ![c] = IF last[c] = 0 THEN seq ELSE last[c]]
    /\ UNCHANGED <<hubVars, flowVars, tabVars, restarts>>

\* Mutant: one message too few.
NewerByTwo(c, m) == m.id > from[c] + 1

\* What replay considers newer than the tab's position.
Newer(c, m) == m.id > from[c]

\* Mutant: replay does not look at the audience.
ReplayAll(c) == {i \in 1 .. Len(ring) : Newer(c, ring[i])}

\* The positions in the buffer of the messages to replay.
ReplaySince(c) == {i \in 1 .. Len(ring) : Newer(c, ring[i]) /\ Deliverable(c, ring[i])}

\* The messages are written oldest first, up to position n.  A write that fails
\* ends the connection after part of the replay.
Replay(c) ==
    /\ pc[c] = "replay"
    /\ \E n \in ReplaySince(c) \cup {0} :
         LET written == {i \in ReplaySince(c) : i <= n}
         IN  /\ last' = [last EXCEPT ![c] = IF n = 0 THEN @ ELSE ring[n].id]
             /\ \/ written # ReplaySince(c) /\ Close(c)
                \/ /\ written = ReplaySince(c)
                   /\ got' = [got EXCEPT ![c] = {ring[i] : i \in written}]
                   /\ pc' = [pc EXCEPT ![c] = "live"]
                   /\ UNCHANGED <<subs, orgs, from, flowVars>>
    /\ UNCHANGED <<hubVars, restarts>>

Receive(c) ==
    /\ pc[c] = "live"
    /\ queue[c] # <<>>
    /\ got' = [got EXCEPT ![c] = @ \cup {Head(queue[c])}]
    /\ last' = [last EXCEPT ![c] = Head(queue[c]).id]
    /\ queue' = [queue EXCEPT ![c] = Tail(@)]
    /\ UNCHANGED <<hubVars, connVars, dropped, restarts>>

Disconnect(c) ==
    /\ pc[c] # "off"
    /\ Close(c)
    /\ UNCHANGED <<hubVars, last, restarts>>

\* The process starts again: ids start from 1, tabs keep their position.
Restart ==
    /\ restarts < MaxRestarts
    /\ restarts' = restarts + 1
    /\ bus' = <<>>
    /\ seq' = 0
    /\ ring' = <<>>
    /\ sending' = NoMessage
    /\ delta' = NoMessage
    /\ pc' = [c \in Clients |-> "off"]
    /\ subs' = {}
    /\ orgs' = [c \in Clients |-> {}]
    /\ from' = [c \in Clients |-> 0]
    /\ queue' = [c \in Clients |-> <<>>]
    /\ got' = [c \in Clients |-> {}]
    /\ dropped' = [c \in Clients |-> {}]
    /\ UNCHANGED last

-----------------------------------------------------------------------------
Init ==
    /\ bus = <<>>
    /\ seq = 0
    /\ ring = <<>>
    /\ sending = NoMessage
    /\ delta = NoMessage
    /\ pc = [c \in Clients |-> "off"]
    /\ subs = {}
    /\ orgs = [c \in Clients |-> {}]
    /\ queue = [c \in Clients |-> <<>>]
    /\ last = [c \in Clients |-> 0]
    /\ from = [c \in Clients |-> 0]
    /\ got = [c \in Clients |-> {}]
    /\ dropped = [c \in Clients |-> {}]
    /\ restarts = 0

Next ==
    \/ \E s \in BusScopes : Publish(s)
    \/ \E u \in Users : SendToUser(u)
    \/ \E c \in Clients : Connect(c) \/ Replay(c) \/ Receive(c) \/ Disconnect(c)
    \/ Dispatch \/ Deliver \/ DeliverToUser \/ Restart

Spec == Init /\ [][Next]_vars

-----------------------------------------------------------------------------
(* Properties                                                              *)

\* The variables range over the values the hub gives them; the buffers stay
\* within their capacity.
TypeOK ==
    /\ bus \in Seq(BusScopes) /\ Len(bus) <= BusBuffer
    /\ seq \in 0 .. MaxEvents
    /\ ring \in Seq(Messages) /\ Len(ring) <= RingSize
    /\ sending \in Messages \cup {NoMessage}
    /\ delta \in Messages \cup {NoMessage}
    /\ pc \in [Clients -> {"off", "replay", "live"}]
    /\ subs = {c \in Clients : pc[c] # "off"}
    /\ orgs \in [Clients -> SUBSET Orgs]
    /\ queue \in [Clients -> Seq(Messages)]
    /\ \A c \in Clients : Len(queue[c]) <= ClientBuffer
    /\ last \in [Clients -> 0 .. MaxEvents]
    /\ from \in [Clients -> 0 .. MaxEvents]
    /\ got \in [Clients -> SUBSET Messages]
    /\ dropped \in [Clients -> SUBSET Messages]
    /\ restarts \in 0 .. MaxRestarts

Queued(c) == {queue[c][i] : i \in 1 .. Len(queue[c])}

\* The scopes a connection is entitled to.
Audience(c) == {UserOf[c], Platform} \cup orgs[c]

\* A connection carries only messages for its user, for everybody, or for the
\* organisations resolved when it was opened, live and replayed alike.
AudienceOnly ==
    \A c \in Clients : \A m \in got[c] \cup Queued(c) : m.scope \in Audience(c)

\* Registering before replaying leaves no gap: once the replay is over, every
\* message still in the replay buffer that is newer than the tab's position and
\* in its audience was received, waits in the channel, or was dropped because
\* the channel was full; unless Run is about to offer it.
NothingSkipped ==
    \A c \in Clients : pc[c] = "live" =>
        \A i \in 1 .. Len(ring) :
            /\ ring[i].id > from[c]
            /\ ring[i] # sending
            /\ ring[i].scope \in Audience(c)
            => ring[i] \in got[c] \cup Queued(c) \cup dropped[c]

-----------------------------------------------------------------------------
(* The inductive invariant behind the safety properties.                   *)

\* A tab without a connection has no messages under way.
ClosedIsEmpty ==
    \A c \in Clients : pc[c] = "off" => queue[c] = <<>> /\ got[c] = {}

\* The buffer holds no message of the future.
RingIsPast == \A i \in 1 .. Len(ring) : ring[i].id <= seq
=============================================================================
