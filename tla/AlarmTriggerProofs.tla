------------------------- MODULE AlarmTriggerProofs -------------------------
(***************************************************************************)
(* Proofs about AlarmTrigger, for callers that arm and disarm the trigger  *)
(* as often as they like, with any handlers, and any behaviour of the line.*)
(***************************************************************************)
EXTENDS AlarmTrigger, TLAPS

\* While the pin is armed the device and the trigger are those of some caller;
\* during a call the fields already stored are its arguments.
TriggerInv ==
  /\ TriggerTypeOK
  /\ edge => armed
  /\ armed => data["dev"] = Dev /\ data["trig"] \in Trig
  /\ setting =>
       /\ args["dev"] = Dev
       /\ args["trig"] \in Trig
       /\ \A f \in Fields \ unstored : data[f] = args[f]
  /\ ~setting =>
       /\ unstored = {}
       /\ data = args
       /\ armed <=> data["handler"] # NULL

\* The fields of what a caller asks for.
LEMMA ArgumentsFields ==
  ASSUME NEW t \in Trig, NEW h \in Handler \cup {NULL}
  PROVE  /\ Arguments(t, Dev, h) \in [Fields -> Values]
         /\ Arguments(t, Dev, h)["dev"] = Dev
         /\ Arguments(t, Dev, h)["trig"] = t
  BY DEF Arguments, Fields, Values

LEMMA NothingFields == Nothing \in [Fields -> Values] /\ Nothing["handler"] = NULL
  BY DEF Nothing, Arguments, Fields, Values

LEMMA TriggerInvInit == TriggerInit => TriggerInv
  BY NothingFields DEF TriggerInit, TriggerInv, TriggerTypeOK

\* Each step of trigger_set, of the handler and of the line keeps it.
LEMMA TriggerInvStep == TriggerInv /\ [TriggerNext]_triggerVars => TriggerInv'
  <1> SUFFICES ASSUME TriggerInv, [TriggerNext]_triggerVars PROVE TriggerInv'
    OBVIOUS
  <1> USE DEF TriggerInv, TriggerTypeOK
  <1>1. ASSUME SetTrigger PROVE TriggerInv'
    <2>1. PICK t \in Trig, h \in Handler \cup {NULL} : TriggerSet(t, h)
      BY <1>1 DEF SetTrigger
    <2> QED
      BY <2>1, ArgumentsFields DEF TriggerSet
  <1>2. ASSUME NEW f \in Fields, StoreField(f) PROVE TriggerInv'
    <2>1. args[f] \in Values /\ data' \in [Fields -> Values]
      BY <1>2 DEF StoreField
    <2>2. \A g \in Fields : data'[g] = IF g = f THEN args[g] ELSE data[g]
      BY <1>2 DEF StoreField
    <2>3. setting
      BY <1>2 DEF StoreField
    <2>4. armed => data'["dev"] = Dev /\ data'["trig"] \in Trig
      BY <2>2, <2>3 DEF Fields
    <2> QED
      BY <1>2, <2>1, <2>2, <2>3, <2>4 DEF StoreField
  <1>3. ASSUME Configure PROVE TriggerInv'
    <2>1. data = args
      BY <1>3 DEF Configure, ConfigureWith
    <2> QED
      BY <1>3, <2>1 DEF Configure, ConfigureWith
  <1>4. ASSUME GpioIsr PROVE TriggerInv'
    BY <1>4 DEF GpioIsr
  <1>5. ASSUME NEW b \in BOOLEAN, NEW a \in BOOLEAN, LineMoves(b, a) PROVE TriggerInv'
    BY <1>5 DEF LineMoves, Detects
  <1>6. ASSUME TriggerReset PROVE TriggerInv'
    BY <1>6, NothingFields DEF TriggerReset
  <1>7. ASSUME UNCHANGED triggerVars PROVE TriggerInv'
    BY <1>7 DEF triggerVars
  <1> QED
    BY <1>1, <1>2, <1>3, <1>4, <1>5, <1>6, <1>7 DEF TriggerNext, TriggerStep

LEMMA TriggerInvariant == TriggerSpec => []TriggerInv
  BY TriggerInvInit, TriggerInvStep, PTL DEF TriggerSpec

\* The trigger's variables keep their types.
THEOREM TriggerTypeCorrect == TriggerSpec => []TriggerTypeOK
  BY TriggerInvariant, PTL DEF TriggerInv

\* The interrupt handler never passes a NULL device or trigger to a callback,
\* whatever order trigger_set's stores are made in and whenever it runs.
THEOREM HandlerHasDevice == TriggerSpec => []CalledWithDevice
  <1>1. TriggerInv => CalledWithDevice
    BY DEF TriggerInv, CalledWithDevice, CallsHandler
  <1> QED
    BY <1>1, TriggerInvariant, PTL

=============================================================================
