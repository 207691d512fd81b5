------------------------------ MODULE EventBus ------------------------------
(***************************************************************************)
(* The event bus (core/events.py): numbered events, one bounded buffer per *)
(* subscription, and drop-oldest when a listener is slow.  publish and     *)
(* _offer have no await in them, so a publication and its whole fan-out    *)
(* are one step of the loop.  Threads (the scanner, the consumers of the   *)
(* model streams) post their publications to the loop, which runs them     *)
(* later, in the order they were posted, and numbers them then.            *)
(*                                                                         *)
(* An event is known by its number; log says what it was about.            *)
(***************************************************************************)
EXTENDS Naturals, Sequences, FiniteSets

CONSTANTS
  Sub,        \* subscriptions, one per WebSocket
  Case,       \* ids of cases
  Everything, \* case_id=None: of an event, the whole system; of a filter, none
  BufferMax,  \* subscriber_buffer
  MaxEvents   \* bound: events published or posted

ASSUME BusAssumption ==
  /\ Everything \notin Case
  /\ BufferMax \in Nat \ {0}
  /\ MaxEvents \in Nat

About == Case \cup {Everything}

VARIABLES
  log,      \* what the events published so far were about; EventBus._seq
  posted,   \* callbacks of call_soon_threadsafe that wait for the loop
  open,     \* EventBus._subs
  filter,   \* per subscription, case_id
  buffer,   \* per subscription, _queue, as the numbers of the events
  dropped,  \* per subscription, dropped
  \* ---- history ----
  joined,   \* per subscription, the last number when it subscribed
  last,     \* per subscription, the last number it was given, or joined
  given,    \* per subscription, the numbers it was given
  lost      \* per subscription, the numbers it was not and will not be given

busVars == <<log, posted, open, filter, buffer, dropped, joined, last, given, lost>>

BusInit ==
  /\ log = <<>>
  /\ posted = <<>>
  /\ open = {}
  /\ filter = [s \in Sub |-> Everything]
  /\ buffer = [s \in Sub |-> <<>>]
  /\ dropped = [s \in Sub |-> 0]
  /\ joined = [s \in Sub |-> 0]
  /\ last = [s \in Sub |-> 0]
  /\ given = [s \in Sub |-> {}]
  /\ lost = [s \in Sub |-> {}]

Matches(f, about) == f = Everything \/ about = Everything \/ f = about

\* A listener without an open subscription is given nothing.
Subscribe(s, f) ==
  /\ s \notin open
  /\ open' = open \cup {s}
  /\ filter' = [filter EXCEPT ![s] = f]
  /\ buffer' = [buffer EXCEPT ![s] = <<>>]
  /\ dropped' = [dropped EXCEPT ![s] = 0]
  /\ joined' = [joined EXCEPT ![s] = Len(log)]
  /\ last' = [last EXCEPT ![s] = Len(log)]
  /\ given' = [given EXCEPT ![s] = {}]
  /\ lost' = [lost EXCEPT ![s] = {}]
  /\ UNCHANGED <<log, posted>>

\* close: the buffer goes with the subscription.
Unsubscribe(s) ==
  /\ s \in open
  /\ open' = open \ {s}
  /\ buffer' = [buffer EXCEPT ![s] = <<>>]
  /\ dropped' = [dropped EXCEPT ![s] = 0]
  /\ given' = [given EXCEPT ![s] = {}]
  /\ lost' = [lost EXCEPT ![s] = {}]
  /\ UNCHANGED <<log, posted, filter, joined, last>>

IsFull(s) == Len(buffer[s]) = BufferMax

\* Mutants: a full buffer refuses the newest event; a buffer has no bound.
OfferDropNewest(s, n) == IF IsFull(s) THEN buffer[s] ELSE Append(buffer[s], n)

OfferUnbounded(s, n) == Append(buffer[s], n)

\* _offer: what the buffer of s becomes; the oldest event makes room.
Offer(s, n) ==
  Append(IF IsFull(s) THEN Tail(buffer[s]) ELSE buffer[s], n)

\* Mutant: a case's subscriber is offered everybody's events.
ReachedAll(about) == open

Reached(about) == {s \in open : Matches(filter[s], about)}

FanOut(about) ==
  LET n == Len(log) + 1
      full == {s \in Reached(about) : IsFull(s)}
  IN /\ log' = Append(log, about)
     /\ buffer' = [s \in Sub |-> IF s \in Reached(about) THEN Offer(s, n) ELSE buffer[s]]
     /\ dropped' = [s \in Sub |-> IF s \in full THEN dropped[s] + 1 ELSE dropped[s]]
     /\ lost' = [s \in Sub |-> IF s \in full THEN lost[s] \cup {Head(buffer[s])} ELSE lost[s]]
     /\ UNCHANGED <<open, filter, joined, last, given>>

\* publish, from a coroutine.
Publish(about) ==
  /\ Len(log) + Len(posted) < MaxEvents
  /\ FanOut(about)
  /\ UNCHANGED posted

\* publish_threadsafe, in two steps: a thread posts, the loop publishes.
Post(about) ==
  /\ Len(log) + Len(posted) < MaxEvents
  /\ posted' = Append(posted, about)
  /\ UNCHANGED <<log, open, filter, buffer, dropped, joined, last, given, lost>>

RunPosted ==
  /\ posted # <<>>
  /\ FanOut(Head(posted))
  /\ posted' = Tail(posted)

\* Mutant: the newest event first.
TakeNewest(s) == buffer[s][Len(buffer[s])]

TakeOldest(s) == Head(buffer[s])

\* get: the listener is given the oldest event it has.
Take(s) ==
  /\ s \in open /\ buffer[s] # <<>>
  /\ last' = [last EXCEPT ![s] = TakeOldest(s)]
  /\ given' = [given EXCEPT ![s] = @ \cup {TakeOldest(s)}]
  /\ buffer' = [buffer EXCEPT ![s] = Tail(@)]
  /\ UNCHANGED <<log, posted, open, filter, dropped, joined, lost>>

\* The process ends: whoever listens is disconnected, what waits is gone.  The
\* next process numbers from 1 again; nobody compares its numbers with the old
\* ones, and here they go on.
StopBus ==
  /\ posted' = <<>>
  /\ open' = {}
  /\ buffer' = [s \in Sub |-> <<>>]
  /\ dropped' = [s \in Sub |-> 0]
  /\ given' = [s \in Sub |-> {}]
  /\ lost' = [s \in Sub |-> {}]
  /\ UNCHANGED <<log, filter, joined, last>>

BusNext ==
  \/ \E about \in About : Publish(about) \/ Post(about)
  \/ RunPosted \/ StopBus
  \/ \E s \in Sub : \/ \E f \in About : Subscribe(s, f)
                    \/ Unsubscribe(s)
                    \/ Take(s)

BusSpec == BusInit /\ [][BusNext]_busVars

-----------------------------------------------------------------------------
(***************************************************************************)
(* Properties.                                                             *)
(***************************************************************************)

\* Types, and the bound of every buffer: a slow listener never holds up the
\* pipeline and never grows without limit (events.py lines 4-9).
BusTypeOK ==
  /\ log \in Seq(About)
  /\ posted \in Seq(About)
  /\ open \in SUBSET Sub
  /\ filter \in [Sub -> About]
  /\ buffer \in [Sub -> Seq(Nat)]
  /\ \A s \in Sub : Len(buffer[s]) <= BufferMax
  /\ dropped \in [Sub -> Nat]
  /\ joined \in [Sub -> Nat]
  /\ last \in [Sub -> Nat]
  /\ given \in [Sub -> SUBSET Nat]
  /\ lost \in [Sub -> SUBSET Nat]

\* The events a subscription asked for, since it was opened.
Expected(s) == {n \in joined[s] + 1 .. Len(log) : Matches(filter[s], log[n])}

Waiting(s) == {buffer[s][i] : i \in 1 .. Len(buffer[s])}

\* Each event a listener asked for is given to it, waits for it, or was lost,
\* one of the three; no other reaches it, and dropped counts the lost (_matches
\* and _offer, lines 90-112; ws.py line 70 logs the count).
EveryEventAccountedFor ==
  \A s \in open :
    /\ Expected(s) = given[s] \cup Waiting(s) \cup lost[s]
    /\ given[s] \cap Waiting(s) = {} /\ given[s] \cap lost[s] = {}
    /\ Waiting(s) \cap lost[s] = {}
    /\ dropped[s] = Cardinality(lost[s])

\* What waits is in order, ahead of all that was given, and newer than all that
\* was lost: a slow listener loses the oldest it has not seen and keeps the
\* newest, whatever the order of puts and gets (line 97).
NewestAreKept ==
  \A s \in open :
    /\ \A i, j \in 1 .. Len(buffer[s]) : i < j => buffer[s][i] < buffer[s][j]
    /\ \A n \in Waiting(s) : \A m \in given[s] \cup lost[s] : m < n

\* The bus implements the feed: a listener only moves forward, one event it
\* asked for at a time, over any mix of drops and of publications from threads.
F == INSTANCE LossyFeed WITH
       Subject <- About,
       feed <- log,
       wanted <- [s \in Sub |-> {about \in About : Matches(filter[s], about)}],
       cursor <- last
ReadsOnward == F!FeedSpec

=============================================================================
