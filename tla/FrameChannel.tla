---------------------------- MODULE FrameChannel ----------------------------
(***************************************************************************)
(* What the serial link from the sensor node to the base node promises:    *)
(* frames arrive whole and in the order sent; the newest one received      *)
(* replaces its predecessor; "fresh" is 1 until the application takes it.  *)
(***************************************************************************)
EXTENDS Integers, Sequences

CONSTANTS
  Frames,      \* the frames that may be sent
  NoFrame,     \* what the receiver holds before the first one
  MaxInFlight  \* bound: frames sent and not yet received

VARIABLES
  queue,   \* frames sent and not yet received
  newest,  \* the last frame received
  fresh    \* 1 iff it has not been taken yet

vars == <<queue, newest, fresh>>

Init ==
  /\ queue = <<>>
  /\ newest = NoFrame
  /\ fresh = 0

Send(f) ==
  /\ Len(queue) < MaxInFlight
  /\ queue' = Append(queue, f)
  /\ UNCHANGED <<newest, fresh>>

Receive ==
  /\ queue # <<>>
  /\ newest' = Head(queue)
  /\ queue' = Tail(queue)
  /\ fresh' = 1

Take ==
  /\ fresh = 1
  /\ fresh' = 0
  /\ UNCHANGED <<queue, newest>>

Next == (\E f \in Frames : Send(f)) \/ Receive \/ Take

Spec == Init /\ [][Next]_vars

\* Whatever has been sent arrives, and is noticed.
FairSpec == Spec /\ WF_vars(Receive) /\ WF_vars(Take)

============================================================================
