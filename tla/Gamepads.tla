------------------------------ MODULE Gamepads ------------------------------
(***************************************************************************)
(* The controllers: the slots of StreamInput (src/web/stream/input.ts),    *)
(* the virtual controller of the overlay, and the gamepads the streamer    *)
(* keeps active for the host (src/streamer/src/main.rs).  Controllers are  *)
(* added and removed on one reliable, ordered channel; the state of each   *)
(* slot travels on a channel of its own that loses and reorders, and only  *)
(* when it changed.  A state is whether the pad's buttons are down.  The   *)
(* host's rumbles are kept by gamepad and played by an interval.           *)
(***************************************************************************)
EXTENDS Naturals, Sequences, FiniteSets

CONSTANTS
  Pads,          \* gamepads of the browser
  FirstPad,      \* the gamepad with index 0
  MaxSlots,      \* MAX_CONTROLLER_SLOTS
  MaxQueue       \* bound on the pads and packets that wait for another to be modelled
ASSUME PadsAssumption ==
  /\ MaxSlots \in Nat \ {0} /\ MaxQueue \in Nat
  /\ IsFiniteSet(Pads) /\ "virtual" \notin Pads /\ "empty" \notin Pads

VARIABLES
  plugged,       \* the pads the browser has, with their state
  connected,     \* onStreamStart has run
  buffered,      \* bufferedControllers
  slots,         \* gamepads: whose slot it is, and the state sent last
  virtual,       \* virtualControllerSlot, 0 for none
  overlay_shown, \* the virtual controller overlay is visible
  control,       \* the channel CONTROLLERS
  states,        \* states on their way, a set for each slot
  active_gamepads,
  host,          \* the slots whose buttons the host has down
  interval,      \* gamepadRumbleInterval is set
  rumble         \* gamepadRumbleCurrent[0], the only entry there ever is, or "none"

padVars == <<plugged, connected, buffered, slots, virtual, overlay_shown,
             control, states, active_gamepads, host, interval, rumble>>
rumbleVars == <<interval, rumble>>
slotVars == <<slots, virtual>>
hostPadVars == <<active_gamepads, host>>

Slots == 1..MaxSlots
Slot(owner, down) == [owner |-> owner, old |-> down]
Empty == Slot("empty", FALSE)
Owned(table, owner) == {i \in DOMAIN table : table[i].owner = owner}

PadInit ==
  /\ plugged = [p \in {} |-> FALSE] /\ connected = FALSE /\ buffered = <<>>
  /\ slots = <<>> /\ virtual = 0 /\ overlay_shown = FALSE
  /\ control = <<>> /\ states = [i \in Slots |-> {}]
  /\ active_gamepads = {} /\ host = {} /\ interval = FALSE /\ rumble = "none"

\* The first free slot, or a new one.
FreeSlot(table) ==
  LET free == Owned(table, "empty") IN
  IF free = {} THEN Len(table) + 1 ELSE CHOOSE i \in free : \A j \in free : i <= j

Occupy(table, i, owner) ==
  IF i \in DOMAIN table THEN [table EXCEPT ![i] = Slot(owner, FALSE)]
                        ELSE Append(table, Slot(owner, FALSE))

\* sendControllerAdd, sendControllerRemove.
Announce(op, i) == control' = Append(control, <<op, i>>)

\* "Start Rumble interval", "Reset rumble": every pad resets the rumble of the first one.
ResetRumble == interval' = TRUE /\ rumble' = "still"

\* onGamepadConnect once connected: the slot that is announced is the last one.
Register(p) ==
  IF Owned(slots, p) # {} THEN UNCHANGED <<slots, control, rumbleVars>>
  ELSE /\ slots' = Occupy(slots, FreeSlot(slots), p) /\ Announce("add", Len(slots'))
       /\ ResetRumble

\* The interval ends when the overlay's slot was the last one.
MayEndInterval ==
  /\ interval' = (interval /\ \E i \in DOMAIN slots' : slots'[i] # Empty)
  /\ UNCHANGED rumble

PadConnects(p) ==
  /\ p \notin DOMAIN plugged /\ Len(buffered) < MaxQueue /\ Len(control) < MaxQueue
  /\ plugged' = [q \in DOMAIN plugged \cup {p} |-> IF q = p THEN FALSE ELSE plugged[q]]
  /\ IF ~connected
       THEN buffered' = Append(buffered, p) /\ UNCHANGED <<slots, control, rumbleVars>>
       ELSE Register(p) /\ UNCHANGED buffered
  /\ UNCHANGED <<connected, virtual, overlay_shown, states, hostPadVars>>

PadDisconnects(p) ==
  /\ p \in DOMAIN plugged /\ Len(control) < MaxQueue
  /\ plugged' = [q \in DOMAIN plugged \ {p} |-> plugged[q]]
  /\ IF Owned(slots, p) = {} THEN UNCHANGED <<slots, control>>
     ELSE \E i \in Owned(slots, p) :
            slots' = [slots EXCEPT ![i] = Empty] /\ Announce("remove", i)
  /\ UNCHANGED <<connected, buffered, virtual, overlay_shown, states, hostPadVars, rumbleVars>>

PadChanges(p) ==
  /\ p \in DOMAIN plugged /\ plugged' = [plugged EXCEPT ![p] = ~@]
  /\ UNCHANGED <<connected, buffered, slotVars, overlay_shown, control, states, hostPadVars,
                 rumbleVars>>

\* The pads that waited and are still plugged, each once, in the order they came.
Waiting == {p \in DOMAIN plugged : \E i \in DOMAIN buffered : buffered[i] = p}
InOrder(order) ==
  \A i, j \in DOMAIN order : i < j =>
    \E k \in DOMAIN buffered : /\ buffered[k] = order[i]
                               /\ \A l \in DOMAIN buffered : l <= k => buffered[l] # order[j]

\* ConnectionComplete: the overlay is told before the input is, and finds it not
\* connected; then the pads that waited are registered.  Nothing has a slot before.
StreamConnects ==
  /\ ~connected /\ connected' = TRUE /\ buffered' = <<>>
  /\ \E order \in [1..Cardinality(Waiting) -> Waiting] :
       /\ InOrder(order)
       /\ slots' = [i \in DOMAIN order |-> Slot(order[i], FALSE)]
       /\ control' = [i \in DOMAIN order |-> <<"add", i>>]
  /\ IF Waiting = {} THEN UNCHANGED rumbleVars ELSE ResetRumble
  /\ UNCHANGED <<plugged, virtual, overlay_shown, states, hostPadVars>>

\* sendController, which drops the state while its channel is busy.
SendState(i, down) ==
  states' = [states EXCEPT ![i] = @ \cup {down}] \/ UNCHANGED states

\* flushGamepad of the overlay.
Pushes(s) == s.owner = "virtual" /\ overlay_shown /\ connected

\* onGamepadUpdate for a slot.
SlotUpdates(i) ==
  LET s == slots[i] IN
  /\ \/ s.owner \in DOMAIN plugged /\ plugged[s.owner] # s.old
     \/ Pushes(s)
  /\ slots' = [slots EXCEPT ![i].old = ~@] /\ SendState(i, ~s.old)
  /\ UNCHANGED <<plugged, connected, buffered, virtual, overlay_shown, control, hostPadVars,
                 rumbleVars>>

\* show() of the overlay: enableVirtualController.
ShowOverlay ==
  /\ ~overlay_shown /\ Len(control) < MaxQueue /\ overlay_shown' = TRUE
  /\ LET i == FreeSlot(slots) IN
     IF connected /\ virtual = 0 /\ i <= MaxSlots
       THEN /\ slots' = Occupy(slots, i, "virtual") /\ virtual' = i
            /\ Announce("add", i) /\ interval' = TRUE
       ELSE UNCHANGED <<slotVars, control, interval>>
  /\ UNCHANGED <<rumble, plugged, connected, buffered, states, hostPadVars>>

\* Mutant: the slot is freed, and still taken for the overlay's.
HideKeepsSlot ==
  /\ overlay_shown /\ Len(control) < MaxQueue /\ overlay_shown' = FALSE
  /\ IF virtual = 0 THEN UNCHANGED <<slots, control, states, rumbleVars>>
     ELSE /\ SendState(virtual, FALSE) /\ slots' = [slots EXCEPT ![virtual] = Empty]
          /\ Announce("remove", virtual) /\ MayEndInterval
  /\ UNCHANGED <<plugged, connected, buffered, virtual, hostPadVars>>

\* hide(): disableVirtualController.
HideOverlay ==
  /\ overlay_shown /\ Len(control) < MaxQueue /\ overlay_shown' = FALSE
  /\ IF virtual = 0 THEN UNCHANGED <<slotVars, control, states, rumbleVars>>
     ELSE /\ SendState(virtual, FALSE)
          /\ slots' = [slots EXCEPT ![virtual] = Empty] /\ virtual' = 0
          /\ Announce("remove", virtual) /\ MayEndInterval
  /\ UNCHANGED <<plugged, connected, buffered, hostPadVars>>

\* onInputContextLost frees the overlay's slot without a word to the host.
ContextLost ==
  /\ virtual # 0 /\ virtual' = 0 /\ slots' = [slots EXCEPT ![virtual] = Empty]
  /\ MayEndInterval
  /\ UNCHANGED <<plugged, connected, buffered, overlay_shown, control, states, hostPadVars>>

-----------------------------------------------------------------------------
(* The streamer.                                                           *)

\* ControllerConnected, ControllerDisconnected.
StreamerControls ==
  /\ control # <<>> /\ control' = Tail(control)
  /\ LET op == Head(control) IN
     IF op[1] = "add" THEN active_gamepads' = active_gamepads \cup {op[2]} /\ UNCHANGED host
     ELSE active_gamepads' = active_gamepads \ {op[2]} /\ host' = host \ {op[2]}
  /\ UNCHANGED <<plugged, connected, buffered, slotVars, overlay_shown, states, rumbleVars>>

\* ControllerState: of a controller that is not active, it is dropped.
StreamerState(i, down) ==
  /\ down \in states[i] /\ states' = [states EXCEPT ![i] = @ \ {down}]
  /\ host' = (IF i \notin active_gamepads THEN host
              ELSE IF down THEN host \cup {i} ELSE host \ {i})
  /\ UNCHANGED <<plugged, connected, buffered, slotVars, overlay_shown, control, active_gamepads,
                 rumbleVars>>

StateLost(i) ==
  /\ states[i] # {} /\ states' = [states EXCEPT ![i] = {}]
  /\ UNCHANGED <<plugged, connected, buffered, slotVars, overlay_shown, control, hostPadVars, rumbleVars>>

\* A rumble of the host, by slot; one for a pad with another index than 0 has no entry to
\* be kept in, and the handler throws.
RumbleArrives(i) ==
  /\ slots[i].owner = FirstPad /\ rumble # "none" /\ rumble' \in {"still", "strong"}
  /\ UNCHANGED <<plugged, connected, buffered, slotVars, overlay_shown, control, states,
                 hostPadVars, interval>>

\* A new stream has a new input, which no pad is told to; the interval of the old one is
\* never cleared, and goes on with what it played last.
NewPads ==
  /\ connected' = FALSE /\ buffered' = <<>> /\ slots' = <<>> /\ virtual' = 0
  /\ control' = <<>> /\ states' = [i \in Slots |-> {}] /\ active_gamepads' = {} /\ host' = {}
  /\ interval' = FALSE /\ rumble' = "none"
  /\ UNCHANGED <<plugged, overlay_shown>>

PadNext ==
  \/ \E p \in Pads : PadConnects(p) \/ PadDisconnects(p) \/ PadChanges(p)
  \/ StreamConnects \/ ShowOverlay \/ HideOverlay \/ ContextLost \/ StreamerControls
  \/ \E i \in DOMAIN slots : SlotUpdates(i) \/ RumbleArrives(i)
  \/ \E i \in Slots : StateLost(i) \/ \E down \in BOOLEAN : StreamerState(i, down)

PadTypeOK ==
  /\ DOMAIN plugged \subseteq Pads /\ \A p \in DOMAIN plugged : plugged[p] \in BOOLEAN
  /\ {connected, overlay_shown} \subseteq BOOLEAN /\ buffered \in Seq(Pads)
  /\ slots \in Seq([owner : Pads \cup {"virtual", "empty"}, old : BOOLEAN])
  /\ virtual \in {0} \cup Slots
  /\ control \in Seq({"add", "remove"} \X Nat) /\ states \in [Slots -> SUBSET BOOLEAN]
  /\ active_gamepads \subseteq Nat /\ host \subseteq Slots
  /\ interval \in BOOLEAN /\ rumble \in {"none", "still", "strong"}
=============================================================================
