---------------------------- MODULE EventStream ----------------------------
(***************************************************************************)
(* The events of the daemon (broadcastEvent, the replay ring, the channel  *)
(* of a subscriber) and one browser that follows them: it replays what it  *)
(* missed, detects gaps, refetches the namespace and polls while the       *)
(* stream has not shown that it delivers.                                  *)
(*                                                                         *)
(* `state` numbers the states of the namespace; a "status" event announces *)
(* a new one, a "stats" event carries its own data and causes no fetch.    *)
(***************************************************************************)
EXTENDS Naturals, Sequences, SequencesExt

CONSTANTS
  RingSize,   \* eventReplayBufferSize
  ChanCap,    \* the capacity of a subscriber's channel
  MaxSeq,     \* bound: events between two starts of the daemon
  MaxDrops,   \* bound: connections lost, daemons restarted
  StreamFaults  \* hazards let loose: "restart", "overflow", "late_fetch", "first_connect"

VARIABLES
  seq,      \* eventSeq
  ring,     \* eventRing, the oldest event first
  state,    \* the state of the namespace that a fetch returns
  conn,     \* "off" | "replay" | "on"
  sub,      \* the subscriber's channel
  cutoff,   \* replayCutoff
  wire,     \* replayed frames on their way to the client
  client,   \* lastSeq, view, live (sseLive), recent (no older than SSE_STALE_MS)
  fetches,  \* answers of fetchData on their way, each the state it saw
  drops,
  epoch     \* ghost: which daemon numbers the events

streamVars == <<seq, ring, state, conn, sub, cutoff, wire, client, fetches, drops, epoch>>

Kinds == {"status", "stats"}
Oldest == ring[1].seq

Init ==
  /\ seq = 0 /\ ring = <<>> /\ state = 0
  /\ conn = "off" /\ sub = <<>> /\ cutoff = 0 /\ wire = <<>>
  /\ client = [lastSeq |-> 0, epoch |-> 0, view |-> 0, live |-> FALSE, recent |-> FALSE]
  /\ fetches = <<0>> /\ drops = 0 /\ epoch = 0

Frames == wire \o sub
Informed == client.view = state \/ \E i \in DOMAIN fetches : fetches[i] = state

\* The client has a number that this daemon can replay from; without one,
\* what is broadcast while it is away is lost on it.
Known ==
  /\ client.lastSeq > 0 \/ "first_connect" \in StreamFaults
  /\ client.epoch = epoch \/ "restart" \in StreamFaults

\* eventRing.push overwrites the oldest of a full ring.
Push(e) == IF Len(ring) < RingSize THEN Append(ring, e) ELSE Append(Tail(ring), e)

\* Sequence number, ring and channel under one lock; a full channel loses it.
BroadcastEvent(kind) ==
  /\ seq < MaxSeq
  /\ conn # "off" \/ Known
  /\ Len(sub) < ChanCap \/ "overflow" \in StreamFaults
  /\ LET e == [seq |-> seq + 1, kind |-> kind] IN
       /\ seq' = seq + 1
       /\ ring' = Push(e)
       /\ sub' = IF conn # "off" /\ Len(sub) < ChanCap THEN Append(sub, e) ELSE sub
  /\ state' = IF kind = "status" THEN state + 1 ELSE state
  /\ UNCHANGED <<conn, cutoff, wire, client, fetches, drops, epoch>>

\* startEventStream, and addSubscriber, which takes the cutoff under the lock.
AddSubscriber ==
  /\ conn = "off"
  /\ conn' = "replay" /\ sub' = <<>> /\ cutoff' = seq
  /\ client' = [client EXCEPT !.live = FALSE]
  /\ UNCHANGED <<seq, ring, state, wire, fetches, drops, epoch>>

\* eventRing.since: FALSE when the ring has wrapped past the gap.
SinceOk == ring = <<>> \/ Oldest <= client.lastSeq + 1
\* What the client has not seen, up to the cutoff: the numbers in the ring
\* follow one another, so it is a stretch of the ring.
Since == IF ring = <<>> THEN <<>> ELSE SubSeq(ring, client.lastSeq - Oldest + 2, cutoff - Oldest + 1)

\* A client that the ring cannot serve is not told to fetch.
ReplayNoResync ==
  /\ conn = "replay" /\ conn' = "on"
  /\ wire' = IF client.lastSeq = 0 \/ ~SinceOk THEN <<>> ELSE Since
  /\ UNCHANGED <<seq, ring, state, sub, cutoff, client, fetches, drops, epoch>>

\* handleEvents between the subscription and its loop.
Replay ==
  /\ conn = "replay"
  /\ conn' = "on"
  /\ wire' = CASE client.lastSeq = 0 -> <<>>
               [] client.lastSeq > 0 /\ ~SinceOk -> <<[seq |-> 0, kind |-> "resync"]>>
               [] OTHER -> Since
  /\ UNCHANGED <<seq, ring, state, sub, cutoff, client, fetches, drops, epoch>>

\* The loop of handleEvents and, at the other end, handleEvent of the store.
Receive ==
  /\ conn = "on" /\ wire \o sub # <<>>
  /\ LET e == IF wire # <<>> THEN Head(wire) ELSE Head(sub)
         gap == client.lastSeq > 0 /\ e.seq > client.lastSeq + 1
         fetch == gap \/ e.kind \in {"status", "resync"}
     IN /\ IF wire # <<>> THEN wire' = Tail(wire) /\ UNCHANGED sub
                          ELSE sub' = Tail(sub) /\ UNCHANGED wire
        /\ client' = IF e.kind = "resync" THEN client
                     ELSE [client EXCEPT !.lastSeq = e.seq, !.epoch = epoch, !.live = TRUE, !.recent = TRUE]
        /\ fetches' = IF fetch THEN Append(fetches, state) ELSE fetches
  /\ UNCHANGED <<seq, ring, state, conn, cutoff, drops, epoch>>

\* The keepalive proves that the stream delivers.
Ping ==
  /\ conn = "on" /\ wire = <<>> /\ sub = <<>>
  /\ client' = [client EXCEPT !.live = TRUE, !.recent = TRUE]
  /\ UNCHANGED <<seq, ring, state, conn, sub, cutoff, wire, fetches, drops, epoch>>

\* fetchData has no generation: the answer that comes last stays.
FetchDone ==
  \E i \in DOMAIN fetches :
    /\ i = 1 \/ "late_fetch" \in StreamFaults
    /\ client' = [client EXCEPT !.view = fetches[i]]
    /\ fetches' = RemoveAt(fetches, i)
    /\ UNCHANGED <<seq, ring, state, conn, sub, cutoff, wire, drops, epoch>>

\* The fallback, idle while frames come in.
Poll ==
  /\ ~(client.live /\ client.recent) /\ fetches = <<>>
  /\ fetches' = <<state>>
  /\ UNCHANGED <<seq, ring, state, conn, sub, cutoff, wire, client, drops, epoch>>

\* No frame for SSE_STALE_MS: the stream is not there.
GoStale ==
  /\ client.recent /\ conn = "off"
  /\ client' = [client EXCEPT !.recent = FALSE]
  /\ UNCHANGED <<seq, ring, state, conn, sub, cutoff, wire, fetches, drops, epoch>>

\* removeSubscriber: what is in the channel and on the wire is lost.
RemoveSubscriber ==
  /\ conn # "off" /\ drops < MaxDrops
  /\ Known
  /\ conn' = "off" /\ sub' = <<>> /\ wire' = <<>> /\ drops' = drops + 1
  /\ UNCHANGED <<seq, ring, state, cutoff, client, fetches, epoch>>

\* A new daemon numbers its events from one again.
RestartDaemon ==
  /\ drops < MaxDrops
  /\ "restart" \in StreamFaults \/ (Frames = <<>> /\ Informed)
  /\ seq' = 0 /\ ring' = <<>> /\ conn' = "off" /\ sub' = <<>> /\ wire' = <<>>
  /\ drops' = drops + 1 /\ epoch' = epoch + 1
  /\ UNCHANGED <<state, cutoff, client, fetches>>

Next ==
  \/ \E kind \in Kinds : BroadcastEvent(kind)
  \/ AddSubscriber \/ Replay \/ Receive \/ Ping \/ FetchDone \/ Poll \/ GoStale
  \/ RemoveSubscriber \/ RestartDaemon

Fair == /\ WF_streamVars(AddSubscriber) /\ WF_streamVars(Replay)
        /\ WF_streamVars(Receive) /\ WF_streamVars(FetchDone)

Spec == Init /\ [][Next]_streamVars /\ Fair
-----------------------------------------------------------------------------
\* Replay and live delivery never hand the client an event twice or out of
\* order, however events are broadcast around the subscription.
DeliveredOnce ==
  conn = "on" /\ client.epoch = epoch =>
    \A i \in DOMAIN Frames : Frames[i].kind # "resync" =>
      /\ Frames[i].seq > client.lastSeq
      /\ \A j \in 1 .. i - 1 : Frames[j].seq < Frames[i].seq

\* When events and disconnections end, the client comes to show the present
\* state and keeps it.
Converges == <>[](client.view = state)

\* Each event once and in order, and in the end the whole state.
StreamIsFaithful == []DeliveredOnce /\ Converges
=============================================================================
