------------------------------ MODULE ScanFeed ------------------------------
(***************************************************************************)
(* What a scan cycle promises the backend, without workers, pages, jobs or *)
(* results: every feed of events has a mark behind which the next scan     *)
(* starts.  An event is settled once nobody has to look at it again, and   *)
(* stays so.  A mark is set, forward or back, only to where everything at  *)
(* or below it was settled before.                                         *)
(***************************************************************************)
EXTENDS Naturals

CONSTANTS
  Feeds,
  Events               \* numbers, in the order of the events

VARIABLES
  settled,             \* per feed: the events that are settled, or not its own
  mark                 \* per feed: the event the next scan starts behind

feedVars == <<settled, mark>>

FeedInit ==
  /\ settled \in [Feeds -> SUBSET Events]
  /\ mark = [f \in Feeds |-> 0]

Settle ==
  /\ \A f \in Feeds : settled[f] \subseteq settled'[f]
  /\ UNCHANGED mark

SetMarks ==
  /\ \A f \in Feeds : \A e \in Events : e <= mark'[f] => e \in settled[f]
  /\ UNCHANGED settled

FeedNext == Settle \/ SetMarks

FeedSpec == FeedInit /\ [][FeedNext]_feedVars
=============================================================================
