---------------------------- MODULE TacticalTouch ----------------------------
(***************************************************************************)
(* The lower screen of the 3DS: createTacticalTouch (game/tactical-touch.  *)
(* ts), the radar that owns it (game/radar.tsx) and the TouchInput of the  *)
(* host (openstrike-3ds/src/touch.rs). It knows one contact at a time.     *)
(*                                                                         *)
(* A turn: the host's ticks take the input, and dispatch the round's state *)
(* and the radar's; then the gestures of the frame.                        *)
(* Abstracted: a position is the control it lies in; amounts of look.      *)
(***************************************************************************)
EXTENDS Integers

CONSTANTS
    FINGERS,    \* identifiers of contacts
    CONTROLS    \* the controls of the screen, some of Actions

Buttons == {"fire", "reload", "jump", "walk"}
Actions == Buttons \cup {"map", "zoom", "clear"}

VARIABLES
    touching,   \* finger -> the control it touches, "away" of all, or "lifted"
    contact,    \* the contact there is, or NoContact
    enabled,    \* the round was live, the player alive and no dialog up at the last tick
    map,        \* the map the radar shows, 0 in the menu
    zoom,       \* how far it is zoomed in: 1, 2 or 4
    mark,       \* the map the waypoint was set on, 0 without one
    input       \* the host's TouchInput

vars == <<touching, contact, enabled, map, zoom, mark, input>>

NoContact == [finger |-> 0, action |-> "none", inside |-> FALSE, dragged |-> FALSE]
NoInput == [button |-> "none", reloadEdge |-> FALSE]

-----------------------------------------------------------------------------
\* TouchInput::update: the button that is down, and the edge of a reload.
Updated(before, button) ==
    [button |-> button,
     reloadEdge |-> before.reloadEdge \/ (button = "reload" /\ before.button # "reload")]

Released(before) == Updated(before, "none")

Cancel == contact' = NoContact /\ input' = Released(input)

\* down: the buttons that are held act at once.
GoesDown(f, control) ==
    /\ touching[f] = "lifted"
    /\ touching' = [touching EXCEPT ![f] = control]
    /\ IF contact # NoContact \/ ~enabled \/ control \notin Actions
       THEN UNCHANGED <<contact, input>>
       ELSE /\ contact' = [finger |-> f, action |-> control, inside |-> TRUE, dragged |-> FALSE]
            /\ input' = IF control \in Buttons \ {"reload"} THEN Updated(input, control) ELSE input
    /\ UNCHANGED <<enabled, map, zoom, mark>>

\* Leaving a button cancels it for the rest of the contact.
Slides(control) ==
    IF control = contact.action THEN UNCHANGED <<contact, input>>
    ELSE contact' = [contact EXCEPT !.inside = FALSE] /\ input' = Released(input)

\* Dragging the map looks around, from a distance of four pixels on.
Drags ==
    \/ UNCHANGED <<contact, input>>
    \/ contact' = [contact EXCEPT !.dragged = TRUE] /\ input' = Released(input)

Moves(f, control) ==
    /\ touching[f] # "lifted"
    /\ touching' = [touching EXCEPT ![f] = control]
    /\ IF contact.finger # f THEN UNCHANGED <<contact, input>>
       ELSE IF ~enabled THEN Cancel
       ELSE IF contact.action = "map" THEN Drags
       ELSE Slides(control)
    /\ UNCHANGED <<enabled, map, zoom, mark>>

NextZoom == CASE zoom = 1 -> 2 [] zoom = 2 -> 4 [] zoom = 4 -> 1

\* up: a contact that never left its control acts, unless it was a drag.
GoesUp(f, control) ==
    LET acts == enabled /\ contact.inside /\ control = contact.action
    IN  /\ touching[f] # "lifted"
        /\ touching' = [touching EXCEPT ![f] = "lifted"]
        /\ IF contact.finger # f THEN UNCHANGED <<contact, input, zoom, mark>>
           ELSE /\ contact' = NoContact
                /\ input' = IF acts /\ control = "reload"
                            THEN Released(Updated(Released(input), "reload"))
                            ELSE Released(input)
                /\ zoom' = IF acts /\ control = "zoom" THEN NextZoom ELSE zoom
                /\ mark' = CASE acts /\ control = "clear" -> 0
                             [] acts /\ control = "map" /\ ~contact.dragged -> map
                             [] OTHER -> mark
        /\ UNCHANGED <<enabled, map>>

\* The gesture is cancelled, whichever finger it was.
Cancelled(f) ==
    /\ touching[f] # "lifted" /\ touching' = [touching EXCEPT ![f] = "lifted"]
    /\ Cancel /\ UNCHANGED <<enabled, map, zoom, mark>>

-----------------------------------------------------------------------------
\* The ticks of the host take the reload; what was dispatched may stop the round.
Taken == [input EXCEPT !.reloadEdge = FALSE]

Stops(active) == ~active /\ enabled

Tick ==
    /\ enabled' \in (IF map = 0 THEN {FALSE} ELSE BOOLEAN)
    /\ IF Stops(enabled') THEN contact' = NoContact /\ input' = Released(Taken)
                          ELSE input' = Taken /\ UNCHANGED contact
    /\ UNCHANGED <<touching, map, zoom, mark>>

ForgetsMark == zoom' = 1 /\ mark' = 0

\* The radar is told of a world, or that there is none any more. The host's
\* input was made anew.
TellRadar ==
    /\ map' \in {0, 1, 2} \ {map}
    /\ contact' = NoContact /\ input' = NoInput /\ ForgetsMark
    /\ UNCHANGED <<touching, enabled>>

\* A dispatch of the menu follows on a world that is gone.
Init ==
    /\ touching = [f \in FINGERS |-> "lifted"] /\ contact = NoContact
    /\ enabled = FALSE /\ map = 0 /\ zoom = 1 /\ mark = 0 /\ input = NoInput

Touches(f) ==
    \/ Cancelled(f)
    \/ \E control \in CONTROLS \cup {"away"} :
         GoesDown(f, control) \/ Moves(f, control) \/ GoesUp(f, control)

Next == Tick \/ TellRadar \/ \E f \in FINGERS : Touches(f)

Spec == Init /\ [][Next]_vars

-----------------------------------------------------------------------------
TypeOK ==
    /\ contact \in [finger : {0} \cup FINGERS, action : Actions \cup {"none"},
                    inside : BOOLEAN, dragged : BOOLEAN]
    /\ zoom \in {1, 2, 4} /\ mark \in 0 .. 2
    /\ input \in [button : Buttons \cup {"none"}, reloadEdge : BOOLEAN]

\* The host holds a button down only for the contact that went down on it and
\* has not left it: sliding into FIRE never starts shooting. Round end, menus
\* and another map release it.
HeldByContact ==
    input.button # "none" =>
        /\ contact.action = input.button /\ contact.inside
        /\ touching[contact.finger] # "lifted" /\ enabled

\* A waypoint is one of the map that is shown.
MarkOfThisMap == mark \in {0, map}

=============================================================================
