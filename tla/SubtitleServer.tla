---------------------------- MODULE SubtitleServer ----------------------------
(***************************************************************************)
(* WsServer: crates/liveaudio-network/src/server.rs with its queues from   *)
(* replay.rs.                                                              *)
(*                                                                         *)
(* The tasks are the senders (the event task, the audio task and the       *)
(* desktop's test command call the broadcast functions), the accept loop,  *)
(* the replay loop, one task per connection and the owner, who starts and  *)
(* stops.  A step is what a task does under one lock, or between awaits.   *)
(*                                                                         *)
(* Payloads are numbered in the order they are handed to the server.       *)
(* Left out: wording, the wire format, pings, the health file and the      *)
(* counters that nothing but a report reads.                               *)
(***************************************************************************)
EXTENDS Naturals, FiniteSets, SequencesExt

CONSTANTS
    Clients,       \* one connection each: a client that returns is a new one
    ChannelSize,   \* capacity of a client's mpsc channel
    MaxRetry,      \* max_retry_buffer
    ReplayMax,     \* replay_buffer_capacity
    BacklogPolicy, \* backlog_policy
    Senders,       \* how many tasks may broadcast at a time
    MaxPayloads,   \* bound: payloads handed to the server
    MaxStarts      \* bound: calls of start

ASSUME ServerAssumption ==
    /\ {ChannelSize, MaxRetry, ReplayMax, Senders} \subseteq Nat \ {0}
    /\ BacklogPolicy \in {"auto", "live_only", "send_all"}
    /\ {MaxPayloads, MaxStarts} \subseteq Nat

VARIABLES
    history,       \* replay_buffer
    paced,         \* pending_replay
    registered,    \* the clients in the clients map
    chan,          \* per client: its mpsc channel
    retry,         \* per client: its RetryBuffer
    drops,         \* per client: dropped_count of that buffer
    retiredDrops,  \* retired_drops
    clientCount, retryDrops,   \* metrics of these names
    conn,          \* per client: where its connection task is
    burst,         \* per client: history still to be sent
    hand,          \* per client: the payload taken from the channel, or 0
    gone,          \* clients whose peer closed the socket
    frozen,        \* clients whose peer never reads what it is sent
    bound,         \* bound_port is Some
    cancelled,     \* shutdown_token
    acceptLoop, replayLoop, stopPc, starts,
    replaying,     \* the payload the replay loop has taken, or 0
    payloads,      \* how many were handed to the server
    inFlight,      \* live cues remembered and not yet broadcast
    themes,        \* which payloads were themes
    \* What happened, for the properties:
    log,           \* payloads in the order broadcast_raw gave them to clients
    since,         \* per client: Len(log) when it was registered
    offered,       \* per client: the history it was given when it joined
    received       \* per client: the payloads its peer was sent live, in order

bufferVars == <<history, paced, payloads, inFlight, themes>>
queueVars  == <<chan, retry, drops, retiredDrops, retryDrops, log>>
connVars   == <<conn, burst, hand, received>>
joinVars   == <<registered, since, offered>>
ownerVars  == <<bound, cancelled, acceptLoop, stopPc, starts>>
replayVars == <<replayLoop, replaying>>
sendFrame  == <<connVars, joinVars, ownerVars, clientCount, gone, frozen>>
connFrame  == <<bufferVars, ownerVars, replayVars, gone, frozen>>
vars == <<bufferVars, queueVars, connVars, joinVars, ownerVars, replayVars,
          clientCount, gone, frozen>>

Payloads == 1 .. MaxPayloads

Init ==
    /\ history = <<>> /\ paced = <<>> /\ log = <<>>
    /\ registered = {} /\ gone = {} /\ inFlight = {} /\ themes = {}
    /\ frozen \in SUBSET Clients
    /\ chan = [c \in Clients |-> <<>>] /\ retry = chan /\ burst = chan
    /\ received = chan /\ offered = chan
    /\ drops = [c \in Clients |-> 0] /\ since = drops /\ hand = drops
    /\ retiredDrops = 0 /\ clientCount = 0 /\ retryDrops = 0
    /\ conn = [c \in Clients |-> "none"]
    /\ bound = FALSE /\ cancelled = FALSE
    /\ acceptLoop = "none" /\ replayLoop = "none" /\ stopPc = "idle"
    /\ starts = 0 /\ payloads = 0 /\ replaying = 0

-----------------------------------------------------------------------------
(* The queues                                                                *)

(* Pushing on a bounded buffer drops its oldest element when it is full. *)
PushDropOldest(buffer, x, max) ==
    Append(IF Len(buffer) >= max THEN Tail(buffer) ELSE buffer, x)

(* Mutant: the new payload overtakes what waits. *)
WaitingOvertakes(c, p) == <<p>> \o retry[c]

(* What a client has to be given: what waits in its retry queue, then p. *)
Waiting(c, p) == Append(retry[c], p)

(* How much of that its channel can take now. *)
Taken(c, p) ==
    LET room == ChannelSize - Len(chan[c])
    IN  IF Len(Waiting(c, p)) < room THEN Len(Waiting(c, p)) ELSE room

(* Mutant: a payload is popped before the channel has taken it. *)
StillWaitingAfterPop(c, p) == SubSeq(Waiting(c, p), Taken(c, p) + 2, Len(Waiting(c, p)))

StillWaiting(c, p) == SubSeq(Waiting(c, p), Taken(c, p) + 1, Len(Waiting(c, p)))

Overflows(c, p) == Len(StillWaiting(c, p)) > MaxRetry

Published(retired, dropped) ==
    retired + FoldFunction(LAMBDA x, y : x + y, 0, dropped)

(* broadcast_raw: each registered client first gets what waits in its retry  *)
(* queue, then p; what its channel does not take stays in the retry queue,   *)
(* which drops its oldest element when it is full.                           *)
BroadcastRaw(p) ==
    /\ chan' = [c \in Clients |-> IF c \in registered
                    THEN chan[c] \o SubSeq(Waiting(c, p), 1, Taken(c, p)) ELSE chan[c]]
    /\ retry' = [c \in Clients |-> IF c \notin registered THEN retry[c]
                    ELSE IF Overflows(c, p) THEN Tail(StillWaiting(c, p))
                    ELSE StillWaiting(c, p)]
    /\ drops' = [c \in Clients |-> IF c \in registered /\ Overflows(c, p)
                    THEN drops[c] + 1 ELSE drops[c]]
    /\ retryDrops' = Published(retiredDrops, drops')
    /\ log' = Append(log, p)
    /\ UNCHANGED retiredDrops

-----------------------------------------------------------------------------
(* Senders                                                                   *)

NewPayload == payloads < MaxPayloads /\ payloads' = payloads + 1

(* Mutant: the cue is remembered only once it has been broadcast. *)
RememberLater ==
    /\ NewPayload
    /\ Cardinality(inFlight) < Senders
    /\ inFlight' = inFlight \cup {payloads'}
    /\ UNCHANGED <<themes, history, paced, queueVars, replayVars, sendFrame>>

(* broadcast_subtitle of a live cue: remember_replay ... *)
RememberLive ==
    /\ NewPayload
    /\ Cardinality(inFlight) < Senders
    /\ history' = PushDropOldest(history, payloads', ReplayMax)
    /\ inFlight' = inFlight \cup {payloads'}
    /\ UNCHANGED <<themes, paced, queueVars, replayVars, sendFrame>>

(* ... then broadcast_raw, without the delivery lock. *)
BroadcastLive ==
    /\ \E p \in inFlight : BroadcastRaw(p) /\ inFlight' = inFlight \ {p}
    /\ UNCHANGED <<themes, history, paced, payloads, replayVars, sendFrame>>

(* broadcast_subtitle of a delayed cue leaves it to the replay loop. *)
BroadcastPaced ==
    /\ NewPayload
    /\ paced' = PushDropOldest(paced, payloads', ReplayMax)
    /\ UNCHANGED <<themes, history, inFlight, queueVars, replayVars, sendFrame>>

(* broadcast_theme: nothing is remembered. *)
BroadcastTheme ==
    /\ NewPayload
    /\ BroadcastRaw(payloads')
    /\ themes' = themes \cup {payloads'}
    /\ UNCHANGED <<history, paced, inFlight, replayVars, sendFrame>>

(* broadcast_acoustic_event: into the channels that have room, past the retry queues. *)
BroadcastAcoustic ==
    /\ NewPayload
    /\ chan' = [c \in Clients |-> IF c \in registered /\ Len(chan[c]) < ChannelSize
                    THEN Append(chan[c], payloads') ELSE chan[c]]
    /\ UNCHANGED <<themes, history, paced, inFlight, retry, drops, retiredDrops, retryDrops, log, replayVars, sendFrame>>

-----------------------------------------------------------------------------
(* The replay loop holds the delivery lock from taking a cue to broadcasting *)
(* it; how long it pauses in between is not counted.                         *)

DeliveryLockFree == replayLoop # "deliver"

(* Mutant: the loop forgets to look again after it has delivered. *)
ReplayTakesFirst ==
    /\ replayLoop = "wait" /\ paced # <<>> /\ log = <<>>
    /\ paced' = Tail(paced)
    /\ replaying' = Head(paced)
    /\ history' = PushDropOldest(history, replaying', ReplayMax)
    /\ replayLoop' = "deliver"
    /\ UNCHANGED <<themes, payloads, inFlight, queueVars, sendFrame>>

ReplayTakes ==
    /\ replayLoop = "wait" /\ paced # <<>>
    /\ paced' = Tail(paced)
    /\ replaying' = Head(paced)
    /\ history' = PushDropOldest(history, replaying', ReplayMax)
    /\ replayLoop' = "deliver"
    /\ UNCHANGED <<themes, payloads, inFlight, queueVars, sendFrame>>

ReplayDelivers ==
    /\ replayLoop = "deliver"
    /\ BroadcastRaw(replaying)
    /\ replaying' = 0 /\ replayLoop' = "wait"
    /\ UNCHANGED <<bufferVars, sendFrame>>

(* Mutant: the loop waits for its next cue without watching the shutdown token. *)
ReplayLeavesAfterCue ==
    /\ replayLoop = "wait" /\ cancelled /\ paced # <<>>
    /\ replayLoop' = "done"
    /\ UNCHANGED <<bufferVars, queueVars, replaying, sendFrame>>

ReplayLeaves ==
    /\ replayLoop = "wait" /\ cancelled
    /\ replayLoop' = "done"
    /\ UNCHANGED <<bufferVars, queueVars, replaying, sendFrame>>

-----------------------------------------------------------------------------
(* Connections                                                               *)

GoesTo(c, place) == conn' = [conn EXCEPT ![c] = place]

(* The accept loop may take one more connection before it sees the shutdown. *)
Accept(c) ==
    /\ acceptLoop = "running" /\ conn[c] = "none"
    /\ GoesTo(c, "handshake")
    /\ UNCHANGED <<connFrame, queueVars, burst, hand, received, joinVars, clientCount>>

AcceptLeaves ==
    /\ acceptLoop = "running" /\ cancelled
    /\ acceptLoop' = "done"
    /\ UNCHANGED <<bufferVars, queueVars, connVars, joinVars, bound, cancelled, stopPc,
                   starts, replayVars, clientCount, gone, frozen>>

(* A remote address, a foreign origin, a broken handshake, or its timeout. *)
HandshakeRejected(c) ==
    /\ conn[c] = "handshake"
    /\ GoesTo(c, "closed")
    /\ UNCHANGED <<connFrame, queueVars, burst, hand, received, joinVars, clientCount>>

HandshakeDone(c) ==
    /\ conn[c] = "handshake"
    /\ clientCount' = clientCount + 1
    /\ GoesTo(c, "hello")
    /\ UNCHANGED <<connFrame, queueVars, burst, hand, received, joinVars>>

(* decrement_client_count: never below zero. *)
Uncounted == clientCount' = IF clientCount = 0 THEN 0 ELSE clientCount - 1

(* Mutant: a client lost during its greeting stays counted. *)
HelloFailsCounted(c) ==
    /\ conn[c] = "hello" /\ c \in gone
    /\ GoesTo(c, "closed")
    /\ UNCHANGED <<connFrame, queueVars, burst, hand, received, joinVars, clientCount>>

HelloFails(c) ==
    /\ conn[c] = "hello" /\ c \in gone
    /\ Uncounted
    /\ GoesTo(c, "closed")
    /\ UNCHANGED <<connFrame, queueVars, burst, hand, received, joinVars>>

HelloSent(c) ==
    /\ conn[c] = "hello" /\ c \notin gone
    /\ GoesTo(c, "join")
    /\ UNCHANGED <<connFrame, queueVars, burst, hand, received, joinVars, clientCount>>

(* What a filter may keep of n entries: which of them it kept, in their order. *)
Kept(n) ==
    UNION {{f \in [1 .. k -> 1 .. n] : \A i, j \in 1 .. k : i < j => f[i] < f[j]} :
           k \in 0 .. n}

(* select_for_client: all of the history, or what is young enough of it. *)
Selections(buffer) ==
    IF BacklogPolicy = "send_all" THEN {buffer}
    ELSE {[i \in DOMAIN young |-> buffer[young[i]]] : young \in Kept(Len(buffer))}

(* Mutant: the client joins without waiting for the delivery lock. *)
JoinUnlocked(c) ==
    /\ conn[c] = "join"
    /\ \E cues \in Selections(history) :
           /\ burst' = [burst EXCEPT ![c] = cues]
           /\ offered' = [offered EXCEPT ![c] = cues]
    /\ registered' = registered \cup {c}
    /\ since' = [since EXCEPT ![c] = Len(log)]
    /\ GoesTo(c, "burst")
    /\ UNCHANGED <<connFrame, queueVars, hand, received, clientCount>>

(* Under the delivery lock and the history's, so that no cue is remembered or *)
(* taken for replay between the selection and the registration.               *)
Join(c) ==
    /\ conn[c] = "join"
    /\ DeliveryLockFree
    /\ \E cues \in Selections(history) :
           /\ burst' = [burst EXCEPT ![c] = cues]
           /\ offered' = [offered EXCEPT ![c] = cues]
    /\ registered' = registered \cup {c}
    /\ since' = [since EXCEPT ![c] = Len(log)]
    /\ GoesTo(c, "burst")
    /\ UNCHANGED <<connFrame, queueVars, hand, received, clientCount>>

Reads(c) == c \notin gone /\ c \notin frozen

BurstSends(c) ==
    /\ conn[c] = "burst" /\ burst[c] # <<>> /\ Reads(c)
    /\ burst' = [burst EXCEPT ![c] = Tail(@)]
    /\ UNCHANGED <<connFrame, queueVars, conn, hand, received, joinVars, clientCount>>

(* A failed send or, between two sends, the shutdown ends the burst. *)
BurstBreaks(c) ==
    /\ conn[c] = "burst" /\ burst[c] # <<>>
    /\ c \in gone \/ (cancelled /\ c \notin frozen)
    /\ burst' = [burst EXCEPT ![c] = <<>>]
    /\ UNCHANGED <<connFrame, queueVars, conn, hand, received, joinVars, clientCount>>

BurstDone(c) ==
    /\ conn[c] = "burst" /\ burst[c] = <<>>
    /\ GoesTo(c, IF cancelled THEN "leave_quietly" ELSE "pump")
    /\ UNCHANGED <<connFrame, queueVars, burst, hand, received, joinVars, clientCount>>

PumpTakes(c) ==
    /\ conn[c] = "pump" /\ hand[c] = 0 /\ chan[c] # <<>>
    /\ hand' = [hand EXCEPT ![c] = Head(chan[c])]
    /\ chan' = [chan EXCEPT ![c] = Tail(@)]
    /\ UNCHANGED <<connFrame, retry, drops, retiredDrops, retryDrops, log, conn, burst,
                   received, joinVars, clientCount>>

PumpSends(c) ==
    /\ conn[c] = "pump" /\ hand[c] # 0 /\ Reads(c)
    /\ received' = [received EXCEPT ![c] = Append(@, hand[c])]
    /\ hand' = [hand EXCEPT ![c] = 0]
    /\ UNCHANGED <<connFrame, queueVars, conn, burst, joinVars, clientCount>>

(* Mutant: the connection watches only its peer. *)
PumpLeavesWithPeer(c) ==
    /\ conn[c] = "pump" /\ c \in gone
    /\ GoesTo(c, "leave")
    /\ UNCHANGED <<connFrame, queueVars, burst, hand, received, joinVars, clientCount>>

(* The peer closed, or the server shuts down. *)
PumpLeaves(c) ==
    /\ conn[c] = "pump"
    /\ c \in gone \/ (cancelled /\ hand[c] = 0)
    /\ GoesTo(c, "leave")
    /\ UNCHANGED <<connFrame, queueVars, burst, hand, received, joinVars, clientCount>>

(* Cleanup: out of the clients map ... *)
Unregister(c) ==
    /\ conn[c] \in {"leave", "leave_quietly"}
    /\ registered' = registered \ {c}
    /\ GoesTo(c, IF conn[c] = "leave" THEN "forget" ELSE "forget_quietly")
    /\ UNCHANGED <<connFrame, queueVars, burst, hand, received, since, offered,
                   clientCount>>

(* ... then RetryState::forget, published unless the burst was cut short. *)
Forget(c) ==
    /\ conn[c] \in {"forget", "forget_quietly"}
    /\ retry' = [retry EXCEPT ![c] = <<>>]
    /\ drops' = [drops EXCEPT ![c] = 0]
    /\ chan' = [chan EXCEPT ![c] = <<>>]
    /\ retiredDrops' = retiredDrops + drops[c]
    /\ retryDrops' = IF conn[c] = "forget" THEN Published(retiredDrops', drops')
                     ELSE retryDrops
    /\ Uncounted
    /\ GoesTo(c, "closed")
    /\ UNCHANGED <<connFrame, log, burst, hand, received, joinVars>>

PeerCloses(c) ==
    /\ conn[c] \in {"hello", "burst", "pump"} /\ c \notin gone
    /\ gone' = gone \cup {c}
    /\ UNCHANGED <<bufferVars, queueVars, connVars, joinVars, ownerVars, replayVars,
                   clientCount, frozen>>

-----------------------------------------------------------------------------
(* The owner                                                                 *)

(* A start that finds a port among the candidates; one that does not changes nothing. *)
Start ==
    /\ ~bound /\ stopPc \in {"idle", "stopped"} /\ starts < MaxStarts
    /\ bound' = TRUE /\ starts' = starts + 1 /\ stopPc' = "idle"
    /\ acceptLoop' = "running" /\ replayLoop' = "wait"
    /\ UNCHANGED <<bufferVars, queueVars, connVars, joinVars, cancelled, replaying,
                   clientCount, gone, frozen>>

(* stop: the shutdown is announced, what is paced is discarded ... *)
StopCancels ==
    /\ bound /\ stopPc = "idle"
    /\ cancelled' = TRUE /\ bound' = FALSE
    /\ paced' = <<>>
    /\ stopPc' = "clear"
    /\ UNCHANGED <<themes, history, payloads, inFlight, queueVars, connVars, joinVars,
                   acceptLoop, starts, replayVars, clientCount, gone, frozen>>

StopClears ==
    /\ stopPc = "clear"
    /\ registered' = {}
    /\ stopPc' = "reset"
    /\ UNCHANGED <<bufferVars, queueVars, connVars, since, offered, bound, cancelled,
                   acceptLoop, starts, replayVars, clientCount, gone, frozen>>

StopResets ==
    /\ stopPc = "reset"
    /\ clientCount' = 0
    /\ retry' = [c \in Clients |-> <<>>]
    /\ drops' = [c \in Clients |-> 0]
    /\ retryDrops' = Published(retiredDrops, drops')
    /\ stopPc' = "join"
    /\ UNCHANGED <<bufferVars, chan, retiredDrops, log, connVars, joinVars, bound,
                   cancelled, acceptLoop, starts, replayVars, gone, frozen>>

StopJoins ==
    /\ stopPc = "join"
    /\ acceptLoop = "done" /\ replayLoop = "done"
    /\ stopPc' = "stopped"
    /\ UNCHANGED <<bufferVars, queueVars, connVars, joinVars, bound, cancelled,
                   acceptLoop, starts, replayVars, clientCount, gone, frozen>>

-----------------------------------------------------------------------------
Send == \/ RememberLive \/ BroadcastLive \/ BroadcastPaced
        \/ BroadcastTheme \/ BroadcastAcoustic

Replay == ReplayTakes \/ ReplayDelivers \/ ReplayLeaves

Connection(c) ==
    \/ HandshakeRejected(c) \/ HandshakeDone(c) \/ HelloFails(c) \/ HelloSent(c)
    \/ Join(c) \/ BurstSends(c) \/ BurstBreaks(c) \/ BurstDone(c)
    \/ PumpTakes(c) \/ PumpSends(c) \/ PumpLeaves(c) \/ Unregister(c) \/ Forget(c)

Stop == StopCancels \/ StopClears \/ StopResets \/ StopJoins

Next ==
    \/ Send \/ Replay \/ AcceptLeaves \/ Start \/ Stop
    \/ \E c \in Clients : Accept(c) \/ Connection(c) \/ PeerCloses(c)

Spec == Init /\ [][Next]_vars

(* The runtime polls every task that can go on; timers expire.  Nobody has  *)
(* to broadcast, connect, start or stop.  Payloads being bounded, no select *)
(* can be kept busy for ever and no lock is taken again and again, so weak  *)
(* fairness is enough.                                                      *)
Fairness ==
    /\ WF_vars(Replay) /\ WF_vars(AcceptLeaves)
    /\ WF_vars(StopClears \/ StopResets \/ StopJoins)
    /\ \A c \in Clients : WF_vars(Connection(c))

FairSpec == Spec /\ Fairness

-----------------------------------------------------------------------------
(* Properties                                                                *)

(* What client c was given or still waits for of the broadcasts, oldest first. *)
Given(c) ==
    received[c] \o (IF hand[c] = 0 THEN <<>> ELSE <<hand[c]>>) \o chan[c] \o retry[c]

InLog(p) == p \in Range(log)
Place(p) == CHOOSE i \in DOMAIN log : log[i] = p

(* Whatever a client is given live, it is given in the order of the broadcasts and *)
(* at most once, however often it was slow and its retry queue drained or dropped. *)
InOrderOnce ==
    \A c \in Clients : \A i, j \in DOMAIN Given(c) :
        i < j /\ InLog(Given(c)[i]) /\ InLog(Given(c)[j])
            => Place(Given(c)[i]) < Place(Given(c)[j])

(* Every payload broadcast since a client was registered was given to it, waits *)
(* for it, or is counted among its drops: back-pressure loses nothing silently  *)
(* while the server runs (a stop discards the queues).                          *)
EveryDropCounted ==
    ~cancelled => \A c \in registered :
        Cardinality({p \in Range(Given(c)) : InLog(p)}) + drops[c] = Len(log) - since[c]

(* A client that joins while a cue is on its way still gets it, from the history *)
(* or live: no cue falls between the two, unless newer ones filled the history.  *)
NoGapAtJoin ==
    BacklogPolicy = "send_all" =>
        \A c \in registered : \A i \in 1 .. since[c] :
            \/ log[i] \in Range(offered[c]) \cup themes
            \/ Len(offered[c]) = ReplayMax

(* A delayed cue reaches a client from the history or from the replay loop, *)
(* never from both: joins wait for the delivery lock.                       *)
PacedOnce ==
    replaying # 0 => \A c \in registered : replaying \notin Range(offered[c])

(* Once every connection is over nothing of it is left: no entry, no queue, no count. *)
NothingLeft ==
    (\A c \in Clients : conn[c] \in {"none", "closed"}) =>
        registered = {} /\ clientCount = 0 /\ \A c \in Clients : retry[c] = <<>>

(* A stop that was called returns, whatever the peers do. *)
StopReturns == (stopPc = "clear") ~> (stopPc = "stopped")

(* After a stop every connection whose peer reads ends. *)
ConnectionsEnd ==
    \A c \in Clients :
        (cancelled /\ conn[c] # "none" /\ c \notin frozen) ~> (conn[c] = "closed")

(* In a running server a paced cue is broadcast, or a stop or newer cues displace it: *)
(* the replay loop never waits while there is one.                                    *)
PacedIsTaken ==
    \A p \in Payloads : (bound /\ p \in Range(paced)) ~> (p \notin Range(paced))
=============================================================================
