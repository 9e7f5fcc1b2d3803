------------------------------ MODULE EventHub ------------------------------
(***************************************************************************)
(* The event hub (src/src/events.rs): a counter, a bounded ring under a    *)
(* mutex and a broadcast channel.  An emission draws its number first,     *)
(* waits for the mutex, is pushed to the ring and is then sent to the      *)
(* subscribers; other emissions come in between.  The emitters belong to   *)
(* the module that extends this one; here are the steps of an emission and *)
(* the clients, which stream and list events as they like.                 *)
(***************************************************************************)
EXTENDS Naturals, Sequences, FiniteSets, Functions

CONSTANTS
    Emitters,       \* the tasks that emit events, one at a time each
    Clients,        \* connections that list and stream events
    RingSize,       \* EVENT_RING
    Capacity        \* capacity of the broadcast channel

ASSUME HubAssumption == RingSize \in Nat \ {0} /\ Capacity \in Nat \ {0}

VARIABLES
    next,           \* EventHub::next
    ring,           \* EventHub::ring, oldest first
    emission,       \* the emission an emitter has under way
    streaming,      \* the clients that have subscribed
    feed,           \* what the channel holds for each of them
    log             \* history: everything ever pushed to the ring

hubVars == <<next, ring, emission, streaming, feed, log>>

-----------------------------------------------------------------------------
Quiet == [phase |-> "none"]

IsQuiet(e) == emission[e].phase = "none"

HubInit ==
    /\ next = 0
    /\ ring = << >>
    /\ emission = [e \in Emitters |-> Quiet]
    /\ streaming = {}
    /\ feed = [k \in Clients |-> << >>]
    /\ log = << >>

-----------------------------------------------------------------------------
(* EventHub::emit, three steps of the emitter                              *)

Draw(e, body) ==
    /\ IsQuiet(e)
    /\ next' = next + 1
    /\ emission' = [emission EXCEPT ![e] =
                      [phase |-> "drawn",
                       event |-> [seq |-> next + 1, body |-> body]]]
    /\ UNCHANGED <<ring, streaming, feed, log>>

(* Mutant: a full ring drops what is newest.                               *)
Trimmed_Newest(events) ==
    IF Len(events) > RingSize THEN SubSeq(events, 1, RingSize) ELSE events

(* A full ring drops what is oldest.                                       *)
Trimmed(events) ==
    IF Len(events) > RingSize THEN Tail(events) ELSE events

(* Under the mutex.                                                        *)
Push(e) ==
    /\ emission[e].phase = "drawn"
    /\ ring' = Trimmed(Append(ring, emission[e].event))
    /\ log' = Append(log, emission[e].event)
    /\ emission' = [emission EXCEPT ![e].phase = "pushed"]
    /\ UNCHANGED <<next, streaming, feed>>

(* What the channel holds for a subscriber after one more event: one that  *)
(* is too slow loses the oldest, and is not told.                          *)
Fed(events, event) ==
    IF Len(events) < Capacity THEN Append(events, event)
                              ELSE Append(Tail(events), event)

(* After the mutex, without a wait in between.                             *)
Send(e) ==
    /\ emission[e].phase = "pushed"
    /\ feed' = [k \in Clients |-> IF k \in streaming
                                  THEN Fed(feed[k], emission[e].event)
                                  ELSE feed[k]]
    /\ emission' = [emission EXCEPT ![e] = Quiet]
    /\ UNCHANGED <<next, ring, streaming, log>>

(* The future of the emitter is dropped while it waits for the mutex: its  *)
(* number is spent, and the event never was.                               *)
Forget(e) ==
    /\ emission[e].phase = "drawn"
    /\ emission' = [emission EXCEPT ![e] = Quiet]
    /\ UNCHANGED <<next, ring, streaming, feed, log>>

-----------------------------------------------------------------------------
(* The clients.  GET /v1/events only reads the ring.                       *)

(* GET /v1/events/stream                                                   *)
Subscribe(k) ==
    /\ k \notin streaming
    /\ streaming' = streaming \cup {k}
    /\ UNCHANGED <<next, ring, emission, feed, log>>

Receive(k) ==
    /\ feed[k] # << >>
    /\ feed' = [feed EXCEPT ![k] = Tail(@)]
    /\ UNCHANGED <<next, ring, emission, streaming, log>>

Leave(k) ==
    /\ k \in streaming
    /\ streaming' = streaming \ {k}
    /\ feed' = [feed EXCEPT ![k] = << >>]
    /\ UNCHANGED <<next, ring, emission, log>>

Publish(e) == Push(e) \/ Send(e)

Watch(k) == Subscribe(k) \/ Receive(k) \/ Leave(k)

-----------------------------------------------------------------------------
(* An event that is in the ring and not yet in the channel.                *)
Unsent(event) ==
    \E e \in Emitters : emission[e] = [phase |-> "pushed", event |-> event]

(* A client that streams first and lists then has all the ring has to give:*)
(* what comes through the channel has been in the ring, and the ring holds *)
(* the RingSize newest, so nothing falls between the list and the stream   *)
(* (DASHBOARD.md:13, events.rs:49-54).                                     *)
NothingFallsBetween ==
    /\ \A k \in streaming : Range(feed[k]) \subseteq Range(log)
    /\ \A i \in 1..Len(log) : i + RingSize > Len(log) => log[i] \in Range(ring)
=============================================================================
