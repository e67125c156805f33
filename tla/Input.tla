-------------------------------- MODULE Input --------------------------------
(***************************************************************************)
(* The input handlers of App.js that steer the user's tadpole: keydown /   *)
(* keyup (arrow keys into keyNav), mousedown / mouseup, touchstart /       *)
(* touchend (touchcancel is bound to touchend as well), together with the *)
(* two functions of main.js that show and hide the UI layer and the part   *)
(* of the tick (Tadpole.update) that stops the tadpole while it is shown.  *)
(*                                                                         *)
(* The handlers only ever write the target momentum 0 or maxMomentum (and *)
(* momentum, which then follows the target in userUpdate); positions and *)
(* the mouse coordinates are data no property here reads.  The physical   *)
(* state of the keyboard, the mouse buttons and the touch screen is the   *)
(* environment: a key or button is released only if it is held, and a    *)
(* touch ends only if one is on the screen.                               *)
(***************************************************************************)
EXTENDS Integers

CONSTANTS
    MaxTouches      \* bound on the fingers on the screen at once

ASSUME TouchesAssumption == MaxTouches \in Nat \ {0}

\* Tadpole.maxMomentum
MaxMomentum == 3

\* keys.up, keys.down, keys.left, keys.right, and any other key.
ArrowKeys == {"up", "down", "left", "right"}
KeyCodes == ArrowKeys \cup {"other"}
\* e.which: 1 left, 2 middle, 3 right button.
Buttons == {1, 2, 3}

VARIABLES
    navX, navY,      \* keyNav.x, keyNav.y
    targetMomentum,  \* model.userTadpole.targetMomentum
    uiEnabled,       \* main.js uiEnabled
    held,            \* keys physically held down
    pressed,         \* mouse buttons physically held down
    touches          \* fingers on the screen

vars == <<navX, navY, targetMomentum, uiEnabled, held, pressed, touches>>

TypeOK ==
    /\ navX \in {-1, 0, 1}
    /\ navY \in {-1, 0, 1}
    /\ targetMomentum \in {0, MaxMomentum}
    /\ uiEnabled \in BOOLEAN
    /\ held \subseteq KeyCodes
    /\ pressed \subseteq Buttons
    /\ touches \in 0..MaxTouches

Init ==
    /\ navX = 0 /\ navY = 0
    /\ targetMomentum = 0
    /\ uiEnabled = FALSE
    /\ held = {}
    /\ pressed = {}
    /\ touches = 0

-----------------------------------------------------------------------------
\* app.keydown: an arrow key sets its axis of keyNav and starts swimming
\* (repeats of a held key fire keydown again).
keydown(k) ==
    /\ held' = held \cup {k}
    /\ IF k \in ArrowKeys
         THEN /\ navY' = CASE k = "up" -> -1 [] k = "down" -> 1
                              [] OTHER -> navY
              /\ navX' = CASE k = "left" -> -1 [] k = "right" -> 1
                              [] OTHER -> navX
              /\ targetMomentum' = MaxMomentum
         ELSE UNCHANGED <<navX, navY, targetMomentum>>
    /\ UNCHANGED <<uiEnabled, pressed, touches>>

\* Mutant: keyup tests for "both axes idle" before clearing its own axis.
keyupTestFirst(k) ==
    /\ k \in held
    /\ held' = held \ {k}
    /\ CASE k \in {"up", "down"} ->
              /\ navY' = 0
              /\ targetMomentum' = IF navX = 0 /\ navY = 0 THEN 0
                                   ELSE targetMomentum
              /\ UNCHANGED navX
         [] k \in {"left", "right"} ->
              /\ navX' = 0
              /\ targetMomentum' = IF navX = 0 /\ navY = 0 THEN 0
                                   ELSE targetMomentum
              /\ UNCHANGED navY
         [] OTHER -> UNCHANGED <<navX, navY, targetMomentum>>
    /\ UNCHANGED <<uiEnabled, pressed, touches>>

\* app.keyup: an arrow key clears its axis of keyNav; if the other axis is
\* idle too, the tadpole stops swimming.
keyup(k) ==
    /\ k \in held
    /\ held' = held \ {k}
    /\ CASE k \in {"up", "down"} ->
              /\ navY' = 0
              /\ targetMomentum' = IF navX = 0 THEN 0 ELSE targetMomentum
              /\ UNCHANGED navX
         [] k \in {"left", "right"} ->
              /\ navX' = 0
              /\ targetMomentum' = IF navY = 0 THEN 0 ELSE targetMomentum
              /\ UNCHANGED navY
         [] OTHER -> UNCHANGED <<navX, navY, targetMomentum>>
    /\ UNCHANGED <<uiEnabled, pressed, touches>>

\* app.mousedown: a click that the hovered tadpole's onclick consumes
\* (ctrl+left click on an authorised tadpole, or a middle click) returns
\* early; otherwise a left click starts swimming.
mousedown(b, consumed) ==
    /\ b \notin pressed
    /\ consumed => b \in {1, 2}
    /\ pressed' = pressed \cup {b}
    /\ targetMomentum' = IF b = 1 /\ ~consumed THEN MaxMomentum
                                              ELSE targetMomentum
    /\ UNCHANGED <<navX, navY, uiEnabled, held, touches>>

\* app.mouseup: releasing the left button stops swimming.
mouseup(b) ==
    /\ b \in pressed
    /\ pressed' = pressed \ {b}
    /\ targetMomentum' = IF b = 1 THEN 0 ELSE targetMomentum
    /\ UNCHANGED <<navX, navY, uiEnabled, held, touches>>

\* app.touchstart: a finger down starts swimming.
touchstart ==
    /\ touches < MaxTouches
    /\ touches' = touches + 1
    /\ targetMomentum' = MaxMomentum
    /\ UNCHANGED <<navX, navY, uiEnabled, held, pressed>>

\* app.touchend (also bound to touchcancel): a finger up stops swimming.
touchend ==
    /\ touches > 0
    /\ touches' = touches - 1
    /\ targetMomentum' = 0
    /\ UNCHANGED <<navX, navY, uiEnabled, held, pressed>>

\* showUILayer / hideUILayer of main.js.
showUILayer ==
    /\ uiEnabled' = TRUE
    /\ UNCHANGED <<navX, navY, targetMomentum, held, pressed, touches>>

hideUILayer ==
    /\ uiEnabled' = FALSE
    /\ UNCHANGED <<navX, navY, targetMomentum, held, pressed, touches>>

\* The tick, for the user's tadpole: Tadpole.update zeroes momentum and
\* targetMomentum while the UI layer is shown.
Tick ==
    /\ targetMomentum' = IF uiEnabled THEN 0 ELSE targetMomentum
    /\ UNCHANGED <<navX, navY, uiEnabled, held, pressed, touches>>

Next ==
    \/ \E k \in KeyCodes : keydown(k) \/ keyup(k)
    \/ \E b \in Buttons, c \in BOOLEAN : mousedown(b, c)
    \/ \E b \in Buttons : mouseup(b)
    \/ touchstart \/ touchend
    \/ showUILayer \/ hideUILayer
    \/ Tick

Spec == Init /\ [][Next]_vars

-----------------------------------------------------------------------------
\* Once every arrow key, the left mouse button and every finger have been
\* released, the tadpole's target momentum is 0: the four pairs of
\* handlers, run in any interleaving (keys of both axes, mouse and touch at
\* once), never leave the tadpole swimming with nothing held.
Rest ==
    (held \cap ArrowKeys = {} /\ 1 \notin pressed /\ touches = 0)
        => targetMomentum = 0

\* The strengthening that makes Rest inductive: an axis of keyNav is set
\* only while a key of that axis is held, and a non-zero target momentum
\* is backed by a held arrow axis, the left button or a finger.
IInv ==
    /\ TypeOK
    /\ navY # 0 => held \cap {"up", "down"} # {}
    /\ navX # 0 => held \cap {"left", "right"} # {}
    /\ targetMomentum # 0 => (navX # 0 \/ navY # 0 \/ 1 \in pressed
                              \/ touches > 0)

=============================================================================
