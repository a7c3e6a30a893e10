---------------------------- MODULE PrimaryTouch ----------------------------
(***************************************************************************)
(* The touch controls of a round: createPrimaryTouch (game/primary-touch.  *)
(* ts), the component that mounts it (touch-controls.tsx, primary-touch-   *)
(* gesture.ts), the dialog of the HUD that unmounts it (hud.tsx), and the  *)
(* input the iPod host makes of it (openstrike-ipod/src/input.rs).         *)
(*                                                                         *)
(* A turn: the host dispatches the round's state; the framework latches    *)
(* which fingers touch where and gives what changed to the gestures; then  *)
(* it runs the hooks of the frame and the buttons.                         *)
(*                                                                         *)
(* Abstracted: a position is the area it lies in; how far the stick is     *)
(* pushed is whether it is; of looking around only who aims is kept.       *)
(***************************************************************************)
EXTENDS Integers, FiniteSets

CONSTANTS
    FINGERS,    \* identifiers of contacts
    AREAS       \* the areas of the screen a finger may touch, some of Roles

Roles == {"fire", "reload", "jump", "walk", "move", "look"}

VARIABLES
    step,       \* "dispatch", "gestures" or "hooks": what comes next in a turn
    live,       \* the round is live and the player alive, as last dispatched
    shown,      \* the round is, or else the menu
    dialog,     \* the dialog is up over the round
    fingers,    \* finger -> the area it touches, "away" of all, or Lifted
    changed,    \* finger -> what its gesture has still to hear in this frame
    ignored,    \* fingers of before the mount
    contacts,   \* finger -> what it owns: its role, whether it is still valid, aims
    moving,     \* the stick is pushed
    walk,       \* quiet walking is toggled on
    active,     \* the controls were enabled at the last dispatch
    input,      \* the host's GuestInput
    held        \* history: the fingers that have not lifted since the mount

vars == <<step, live, shown, dialog, fingers, changed, ignored, contacts, moving, walk,
          active, input, held>>

Lifted == "lifted"
Nobody == [role |-> "none", valid |-> FALSE, aim |-> FALSE]
NoContacts == [f \in FINGERS |-> Nobody]
NoInput == [paused |-> FALSE, fire |-> FALSE, jump |-> FALSE, walk |-> FALSE,
            moving |-> FALSE, reloadEdge |-> FALSE, jumpEdge |-> FALSE]

\* The controls are there: the round is shown, and no dialog over it.
Mounted == shown /\ ~dialog

Enabled == live /\ Mounted
Down == {f \in FINGERS : fingers[f] # Lifted}

-----------------------------------------------------------------------------
Pressed(owned, role) == \E f \in FINGERS : owned[f].role = role /\ owned[f].valid

\* emit, as GuestInput::update takes it: levels, and the edges of what was not
\* pressed before. While paused it is ignored.
Emitted(owned, walks, moves, reloads) ==
    IF input.paused THEN input
    ELSE [input EXCEPT
            !.fire = Pressed(owned, "fire"), !.jump = Pressed(owned, "jump"),
            !.walk = walks, !.moving = moves,
            !.reloadEdge = @ \/ reloads,
            !.jumpEdge = @ \/ (Pressed(owned, "jump") /\ ~input.jump)]

\* GuestInput::set_paused.
Paused(yes) == [NoInput EXCEPT !.paused = yes]

\* cancel(), of every contact.
CancelAll ==
    /\ contacts' = NoContacts /\ moving' = FALSE /\ walk' = FALSE
    /\ input' = Emitted(NoContacts, FALSE, FALSE, FALSE)

\* The contacts are left as they are, and nothing is emitted.
NoTouch == UNCHANGED <<contacts, moving, walk, input>>

-----------------------------------------------------------------------------
\* down: a finger takes the role of the area it touches if nobody has it, and
\* if it is not one of before the mount; a look that cannot aim is none.
GoesDown(f, area) ==
    LET free == \A g \in FINGERS : contacts[g].role # area
        aims == area \in {"look", "fire"} /\ ~\E g \in FINGERS : contacts[g].aim
    IN  IF /\ Enabled /\ contacts[f] = Nobody /\ f \notin ignored
           /\ area \in Roles /\ free /\ (area = "look" => aims)
        THEN /\ contacts' = [contacts EXCEPT
                    ![f] = [role |-> area, valid |-> TRUE, aim |-> aims]]
             /\ input' = Emitted(contacts', walk, moving, FALSE)
             /\ UNCHANGED <<moving, walk>>
        ELSE NoTouch

\* move: a finger that does not aim is no longer valid once it left its button.
Moves(f, area) ==
    LET owned == contacts[f]
    IN  IF owned = Nobody THEN NoTouch
        ELSE IF ~Enabled THEN CancelAll
        ELSE /\ moving' \in (IF owned.role = "move" THEN BOOLEAN ELSE {moving})
             /\ contacts' = [contacts EXCEPT ![f].valid =
                    @ /\ (owned.aim \/ owned.role \in {"move", "look", area})]
             /\ input' = Emitted(contacts', walk, moving', FALSE)
             /\ UNCHANGED walk

\* Mutation: a finger that lifts is forgotten, but what it pushed stays.
LiftKeepsStick(owned) == moving

StickAfterLift(owned) == moving /\ owned.role # "move"

\* up: letting go inside the button toggles walking, or reloads.
GoesUp(f, area) ==
    LET owned == contacts[f]
        inside == Enabled /\ owned.valid /\ owned.role = area
    IN  IF owned = Nobody THEN NoTouch
        ELSE /\ moving' = StickAfterLift(owned)
             /\ contacts' = [contacts EXCEPT ![f] = Nobody]
             /\ walk' = IF inside /\ area = "walk" THEN ~walk ELSE walk
             /\ input' = Emitted(contacts', walk', moving', inside /\ area = "reload")

\* cancel(id): the framework takes the finger away.
IsCancelled(f) ==
    /\ moving' = StickAfterLift(contacts[f])
    /\ contacts' = [contacts EXCEPT ![f] = Nobody] /\ UNCHANGED walk
    /\ input' = Emitted(contacts', walk, moving', FALSE)

-----------------------------------------------------------------------------
Init ==
    /\ step = "dispatch" /\ live = FALSE /\ shown = FALSE /\ dialog = FALSE
    /\ fingers = [f \in FINGERS |-> Lifted] /\ changed = [f \in FINGERS |-> "no"]
    /\ ignored = {} /\ contacts = NoContacts /\ moving = FALSE /\ walk = FALSE
    /\ active = FALSE /\ input = NoInput /\ held = {}

Releases(next) == active /\ ~next

\* The host's ticks take the edges, unless it is paused; what the round is now
\* is dispatched.
Ticked(due) ==
    IF due /\ ~input.paused THEN [input EXCEPT !.reloadEdge = FALSE, !.jumpEdge = FALSE]
    ELSE input

Dispatch ==
    /\ step = "dispatch" /\ step' = "latch"
    /\ live' \in (IF shown THEN BOOLEAN ELSE {FALSE})
    /\ \E due \in BOOLEAN :
         IF Releases(live' /\ Mounted)
         THEN /\ contacts' = NoContacts /\ moving' = FALSE /\ walk' = FALSE
              /\ input' = [NoInput EXCEPT !.reloadEdge = Ticked(due).reloadEdge,
                                         !.jumpEdge = Ticked(due).jumpEdge]
         ELSE input' = Ticked(due) /\ UNCHANGED <<contacts, moving, walk>>
    /\ active' = (Mounted /\ live')
    /\ UNCHANGED <<shown, dialog, fingers, changed, ignored, held>>

InitiallyHeld == Down

\* The controls come and go: what they held is released, and when they come
\* the fingers that are down are not theirs.
Remounted ==
    /\ contacts' = NoContacts /\ moving' = FALSE /\ walk' = FALSE /\ active' = FALSE
    /\ ignored' = IF Mounted' THEN InitiallyHeld ELSE {}
    /\ held' = IF Mounted' THEN Down ELSE {}

\* The first dispatch of a new round, which is not live yet, or of the menu.
SwitchScreen ==
    /\ step = "dispatch" /\ step' = "latch"
    /\ shown' = ~shown /\ dialog' = FALSE /\ live' = FALSE
    /\ input' = NoInput /\ Remounted
    /\ UNCHANGED <<fingers, changed>>

\* The framework latches the fingers, and what changed since the frame before.
Latch ==
    /\ step = "latch" /\ step' = "gestures"
    /\ fingers' \in [FINGERS -> AREAS \cup {"away", Lifted}]
    /\ \E cancels \in BOOLEAN, slide \in SUBSET FINGERS :
         changed' = [f \in FINGERS |->
            CASE fingers[f] = Lifted /\ fingers'[f] # Lifted -> "down"
              [] fingers[f] # Lifted /\ fingers'[f] = Lifted ->
                    IF cancels THEN "cancel" ELSE "up"
              [] fingers'[f] # Lifted /\ (f \in slide \/ fingers[f] # fingers'[f]) -> "move"
              [] OTHER -> "no"]
    /\ UNCHANGED <<live, shown, dialog, ignored, contacts, moving, walk, active, input, held>>

\* One gesture hears of its finger. The position of a finger that lifts is
\* where it was. A recognizer that was mounted under a finger hears nothing of
\* it until the next down.
Gesture(f) ==
    /\ step = "gestures" /\ changed[f] # "no"
    /\ changed' = [changed EXCEPT ![f] = "no"]
    /\ IF ~Mounted \/ (f \in held /\ changed[f] # "down") THEN NoTouch
       ELSE \/ changed[f] = "down" /\ GoesDown(f, fingers[f])
            \/ changed[f] = "move" /\ Moves(f, fingers[f])
            \/ changed[f] = "up" /\ \E area \in AREAS \cup {"away"} : GoesUp(f, area)
            \/ changed[f] = "cancel" /\ IsCancelled(f)
    /\ UNCHANGED <<step, live, shown, dialog, fingers, ignored, active, held>>

\* sync: a finger of before the mount that is gone is forgotten.
Synced == ignored \cap Down

\* The hooks of the frame, and no button.
Hooks ==
    /\ step = "gestures" /\ \A f \in FINGERS : changed[f] = "no"
    /\ step' = "dispatch"
    /\ ignored' = IF Mounted THEN Synced ELSE ignored
    /\ held' = held \cap Down
    /\ UNCHANGED <<live, shown, dialog, fingers, changed, contacts, moving, walk, active, input>>

\* A button, or a tap, opens or closes the dialog. The host pauses while it is
\* up, and what it holds is cleared both times.
Toggle ==
    /\ step = "gestures" /\ shown
    /\ dialog' = ~dialog /\ UNCHANGED shown
    /\ input' = Paused(dialog') /\ Remounted
    /\ UNCHANGED <<step, live, fingers, changed>>

Next == Dispatch \/ SwitchScreen \/ Latch \/ (\E f \in FINGERS : Gesture(f)) \/ Hooks \/ Toggle

Spec == Init /\ [][Next]_vars

-----------------------------------------------------------------------------
TypeOK ==
    /\ step \in {"dispatch", "latch", "gestures"}
    /\ ignored \subseteq FINGERS /\ held \subseteq FINGERS
    /\ contacts \in [FINGERS ->
           [role : Roles \cup {"none"}, valid : BOOLEAN, aim : BOOLEAN]]
    /\ input \in [DOMAIN NoInput -> BOOLEAN]

\* What the host holds down is what fingers hold down now: fire and jump by a
\* finger that is still on the screen and went down on the button, moving by
\* one that went down on the stick, walking as it was toggled; and nothing
\* while the player is dead, the round is not live or a dialog is up.
HeldByFingers ==
    /\ \A f \in FINGERS :
         contacts[f] # Nobody /\ changed[f] = "no" => fingers[f] # Lifted
    /\ input.fire = Pressed(contacts, "fire") /\ input.jump = Pressed(contacts, "jump")
    /\ input.moving => \E f \in FINGERS : contacts[f].role = "move"
    /\ input.walk = walk
    /\ ~Enabled => contacts = NoContacts /\ ~input.moving /\ ~walk

\* Every role belongs to one finger, and one finger aims.
OneFingerEach ==
    \A f, g \in FINGERS : f # g =>
        /\ contacts[f].role = contacts[g].role => contacts[f] = Nobody
        /\ ~(contacts[f].aim /\ contacts[g].aim)

\* A finger held across a pause must lift before it can act again, and is
\* ignored no longer than that: its identifier is used again.
HeldFingersIgnored ==
    /\ \A f \in held : contacts[f] = Nobody
    /\ step = "dispatch" /\ Mounted => ignored = held

=============================================================================
