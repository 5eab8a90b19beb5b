---------------------------- MODULE AlarmTrigger ----------------------------
(***************************************************************************)
(* The driver's trigger: sensor_node_trigger_set, which stores a trigger,  *)
(* the device and a handler and then arms or disarms the pin's interrupt,  *)
(* and the GPIO interrupt handler, which calls what it finds stored.       *)
(*                                                                         *)
(* The interrupt handler can run between any two steps of trigger_set, and *)
(* nothing protects the three fields: the compiler may store them in any   *)
(* order, but all of them before the call that configures the pin.  The    *)
(* thread never runs inside the handler (one core).                        *)
(***************************************************************************)
EXTENDS Integers

CONSTANTS
  Trig,     \* the triggers callers ask for
  Handler,  \* their callbacks
  Dev,      \* the driver's device
  NULL

ASSUME TriggerAssumption == NULL \notin Trig \cup Handler \cup {Dev}

VARIABLES
  data,      \* trig, trigger_dev and trigger_handler of sensor_node_data
  args,      \* the arguments of the last call of trigger_set
  unstored,  \* the fields it has yet to store
  setting,   \* is a call in progress?
  armed,     \* is the pin's interrupt enabled?
  edge       \* has a rising edge been seen and not yet served?

triggerVars == <<data, args, unstored, setting, armed, edge>>

Fields  == {"trig", "dev", "handler"}
Values  == Trig \cup Handler \cup {Dev, NULL}
Arguments(trig, dev, handler) == [trig |-> trig, dev |-> dev, handler |-> handler]
Nothing == Arguments(NULL, NULL, NULL)

TriggerTypeOK ==
  /\ data \in [Fields -> Values]
  /\ args \in [Fields -> Values]
  /\ unstored \in SUBSET Fields
  /\ setting \in BOOLEAN
  /\ armed \in BOOLEAN
  /\ edge \in BOOLEAN

\* Static data are zeros, and sensor_node_init leaves the interrupt disabled.
TriggerInit ==
  /\ data = Nothing
  /\ args = Nothing
  /\ unstored = {}
  /\ setting = FALSE
  /\ armed = FALSE
  /\ edge = FALSE

\* Mutant of TriggerReset: the driver's init arms the pin.
TriggerResetArmed ==
  /\ data' = Nothing
  /\ args' = Nothing
  /\ unstored' = {}
  /\ setting' = FALSE
  /\ armed' = TRUE
  /\ edge' = FALSE

TriggerReset ==
  /\ data' = Nothing
  /\ args' = Nothing
  /\ unstored' = {}
  /\ setting' = FALSE
  /\ armed' = FALSE
  /\ edge' = FALSE

---------------------------------------------------------------------------
(* trigger_set, with a handler to arm the interrupt or NULL to disarm it.  *)

TriggerSet(trig, handler) ==
  /\ ~setting
  /\ setting' = TRUE
  /\ args' = Arguments(trig, Dev, handler)
  /\ unstored' = Fields
  /\ UNCHANGED <<data, armed, edge>>

StoreField(f) ==
  /\ f \in unstored
  /\ data' = [data EXCEPT ![f] = args[f]]
  /\ unstored' = unstored \ {f}
  /\ UNCHANGED <<args, setting, armed, edge>>

\* gpio_pin_interrupt_configure_dt, either way, forgets an edge seen before.
ConfigureWith(stored, enabled) ==
  /\ setting /\ stored
  /\ armed' = enabled
  /\ edge' = FALSE
  /\ setting' = FALSE
  /\ UNCHANGED <<data, args, unstored>>

\* Mutant of Configure: the pin is configured before all fields are stored.
ConfigureFirst == ConfigureWith(TRUE, args.handler # NULL)

Configure == ConfigureWith(unstored = {}, args.handler # NULL)

---------------------------------------------------------------------------
(* The interrupt.                                                          *)

\* Mutants of Detects: GPIO_INT_EDGE_BOTH and GPIO_INT_EDGE_FALLING.
DetectsBoth(before, after)    == armed /\ before # after
DetectsFalling(before, after) == armed /\ before /\ ~after

\* GPIO_INT_EDGE_RISING: what the pin makes of a change of the line.
Detects(before, after) == armed /\ ~before /\ after

LineMoves(before, after) ==
  /\ edge' = (edge \/ Detects(before, after))
  /\ UNCHANGED <<data, args, unstored, setting, armed>>

\* sensor_node_intr_gpio_cb: data.handler(data.dev, data.trig) if there is one.
GpioIsr ==
  /\ edge
  /\ edge' = FALSE
  /\ UNCHANGED <<data, args, unstored, setting, armed>>

CallsHandler == edge /\ data.handler # NULL

---------------------------------------------------------------------------

SetTrigger == \E t \in Trig, h \in Handler \cup {NULL} : TriggerSet(t, h)

TriggerStep == (\E f \in Fields : StoreField(f)) \/ Configure

TriggerNext ==
  \/ SetTrigger \/ TriggerStep \/ GpioIsr \/ TriggerReset
  \/ \E b, a \in BOOLEAN : LineMoves(b, a)

TriggerSpec == TriggerInit /\ [][TriggerNext]_triggerVars

---------------------------------------------------------------------------
(* Properties.                                                             *)

\* A handler is never called with a NULL device or trigger, not even from
\* inside the first trigger_set, whose fields are stored in no known order.
CalledWithDevice ==
  CallsHandler => data.dev = Dev /\ data.trig \in Trig

============================================================================
