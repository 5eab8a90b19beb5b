--------------------------- MODULE SettingChannel ---------------------------
(***************************************************************************)
(* What the serial link promises an application that sets thresholds:      *)
(* until a node is reset, each setting is applied once, in the order of    *)
(* the calls, with the value meant.  After a reset settings may be lost,   *)
(* but a threshold still changes to nothing but a value asked for it, one  *)
(* at a time, or all of them to what they were compiled with.              *)
(***************************************************************************)
EXTENDS Sequences

CONSTANTS
  Attributes,  \* what can be set
  Asked,       \* for each attribute, the values applications ask for
  Compiled     \* for each attribute, the value after a reset

VARIABLES
  pending,  \* settings <<attribute, value>> on their way
  applied,  \* for each attribute the value in use
  broken    \* has either node been reset?

vars == <<pending, applied, broken>>

Init ==
  /\ pending = <<>>
  /\ applied = Compiled
  /\ broken = FALSE

Ask(a, v) ==
  /\ ~broken
  /\ pending' = Append(pending, <<a, v>>)
  /\ UNCHANGED <<applied, broken>>

Apply ==
  /\ ~broken /\ pending # <<>>
  /\ applied' = [applied EXCEPT ![Head(pending)[1]] = Head(pending)[2]]
  /\ pending' = Tail(pending)
  /\ UNCHANGED broken

Reset ==
  /\ broken' = TRUE
  /\ pending' = <<>>
  /\ applied' \in {applied, Compiled}

\* After a reset, a setting that came through whole.
ApplyLate(a, v) ==
  /\ broken
  /\ applied' = [applied EXCEPT ![a] = v]
  /\ UNCHANGED <<pending, broken>>

Next ==
  \/ \E a \in Attributes : \E v \in Asked[a] : Ask(a, v) \/ ApplyLate(a, v)
  \/ Apply
  \/ Reset

Spec == Init /\ [][Next]_vars

=============================================================================
