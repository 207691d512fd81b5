------------------------------ MODULE LossyFeed ------------------------------
(***************************************************************************)
(* What the event bus promises to one who listens, with no buffer in       *)
(* sight: events have consecutive numbers, and a listener reads on from    *)
(* where it came in, in the order of the numbers, each event at most once  *)
(* and only those it asked for.  It may miss any of them.  EventBus        *)
(* implements this specification.                                          *)
(***************************************************************************)
EXTENDS Naturals, Sequences

CONSTANTS Sub,      \* listeners
          Subject   \* what an event may be about

VARIABLES feed,     \* the events so far, each by its subject
          wanted,   \* the subjects each listener asked for
          cursor    \* where each listener is: it has read nothing beyond

feedVars == <<feed, wanted, cursor>>

FeedInit ==
  /\ feed = <<>>
  /\ wanted = [s \in Sub |-> Subject]
  /\ cursor = [s \in Sub |-> 0]

Happen(subject) == feed' = Append(feed, subject) /\ UNCHANGED <<wanted, cursor>>

ComeIn(s, subjects) ==
  /\ wanted' = [wanted EXCEPT ![s] = subjects]
  /\ cursor' = [cursor EXCEPT ![s] = Len(feed)]
  /\ UNCHANGED feed

Read(s) ==
  /\ \E n \in cursor[s] + 1 .. Len(feed) :
       feed[n] \in wanted[s] /\ cursor' = [cursor EXCEPT ![s] = n]
  /\ UNCHANGED <<feed, wanted>>

FeedNext ==
  \/ \E subject \in Subject : Happen(subject)
  \/ \E s \in Sub : Read(s) \/ \E subjects \in SUBSET Subject : ComeIn(s, subjects)

FeedSpec == FeedInit /\ [][FeedNext]_feedVars

=============================================================================
