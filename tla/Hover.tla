-------------------------------- MODULE Hover --------------------------------
(***************************************************************************)
(* Which tadpole a mouse click goes to.  Tadpole.update, run by the tick  *)
(* for every entry of model.tadpoles, sets tadpole.hover to whether the    *)
(* mouse is within reach and, if so, points the global mouse.tadpole at    *)
(* it; the reset of mouse.tadpole is commented out.  app.mousedown asks    *)
(* the tadpole mouse.tadpole names, if its hover flag is set, whether its *)
(* onclick consumes the click.                                             *)
(*                                                                         *)
(* Peers join (updateHandler allocates a fresh Tadpole) and leave          *)
(* (leaveHandler deletes the entry, and nothing else refers to the object *)
(* but mouse.tadpole).  A peer's name may change with every update, which *)
(* decides isAuthorized ("@" first).  Positions are abstracted to the set *)
(* `near` of objects within tadpole.size + 2 of the mouse, which the      *)
(* environment changes at will.                                            *)
(***************************************************************************)
EXTENDS Integers

CONSTANT MaxPeers   \* Tadpole objects updateHandler may allocate (>= 1)

UserObj == 0
Peers == 1..MaxPeers
Objs == {UserObj} \cup Peers
NoTadpole == -1     \* mouse.tadpole = null

VARIABLES
    present,        \* the objects filed in model.tadpoles
    gone,           \* the objects leaveHandler removed
    authorized,     \* the objects whose name starts with "@"
    near,           \* the objects within reach of the mouse
    hover,          \* tadpole.hover of every object
    mouseTadpole,   \* mouse.tadpole
    opened          \* the object whose page the last click opened

vars == <<present, gone, authorized, near, hover, mouseTadpole, opened>>

TypeOK ==
    /\ present \subseteq Objs /\ gone \subseteq Peers
    /\ authorized \subseteq Peers /\ near \subseteq Objs
    /\ hover \in [Objs -> BOOLEAN]
    /\ mouseTadpole \in Objs \cup {NoTadpole}
    /\ opened \in Objs \cup {NoTadpole}

\* The App constructor: only the user's tadpole (hover = false), and
\* mouse = {..., tadpole: null}.
Init ==
    /\ present = {UserObj}
    /\ gone = {}
    /\ authorized = {}
    /\ near \in SUBSET Objs
    /\ hover = [o \in Objs |-> FALSE]
    /\ mouseTadpole = NoTadpole
    /\ opened = NoTadpole

\* updateHandler for a new id: a fresh Tadpole (hover = false) named by
\* the update.
join(o) ==
    /\ o \in Peers \ (present \cup gone)
    /\ present' = present \cup {o}
    /\ \E auth \in BOOLEAN :
         authorized' = IF auth THEN authorized \cup {o} ELSE authorized \ {o}
    /\ UNCHANGED <<gone, near, hover, mouseTadpole, opened>>

\* updateHandler for a present id: tadpole.name = data.name.
rename(o) ==
    /\ o \in present \ {UserObj}
    /\ \E auth \in BOOLEAN :
         authorized' = IF auth THEN authorized \cup {o} ELSE authorized \ {o}
    /\ UNCHANGED <<present, gone, near, hover, mouseTadpole, opened>>

\* leaveHandler: the entry is deleted; the object keeps its hover flag and
\* mouse.tadpole may still point at it.
leave(o) ==
    /\ o \in present \ {UserObj}
    /\ present' = present \ {o}
    /\ gone' = gone \cup {o}
    /\ UNCHANGED <<authorized, near, hover, mouseTadpole, opened>>

\* The mouse or the tadpoles move (mousemove, and the tick's position
\* updates, which this model leaves out).
move ==
    /\ near' \in SUBSET Objs
    /\ UNCHANGED <<present, gone, authorized, hover, mouseTadpole, opened>>

\* The hover part of Tadpole.update, for every entry in model.tadpoles in
\* the for..in order: each sets its hover flag; the ones within reach
\* point mouse.tadpole at themselves, so the last of them in that order
\* wins; the others leave mouse.tadpole alone.
tickHover ==
    /\ hover' = [o \in Objs |-> IF o \in present THEN o \in near
                                                 ELSE hover[o]]
    /\ IF present \cap near = {}
         THEN UNCHANGED mouseTadpole
         ELSE mouseTadpole' \in present \cap near
    /\ UNCHANGED <<present, gone, authorized, near, opened>>

\* Tadpole.onclick: a ctrl+left click on an authorised, hovered tadpole
\* opens its page, a middle click is swallowed; both return true.
onclick(o, ctrl, b) ==
    IF ctrl /\ b = 1 THEN o \in authorized /\ hover[o] ELSE b = 2

\* app.mousedown: the click goes to mouse.tadpole if its hover flag is set
\* and its onclick consumes it (then mousedown returns early).  A consumed
\* left click is a ctrl+left click, for which onclick opened the tadpole's
\* page; a consumed middle click only calls preventDefault.
mousedown(b, ctrl) ==
    /\ opened' = IF /\ mouseTadpole # NoTadpole
                    /\ hover[mouseTadpole]
                    /\ onclick(mouseTadpole, ctrl, b)
                    /\ b = 1
                 THEN mouseTadpole ELSE NoTadpole
    /\ UNCHANGED <<present, gone, authorized, near, hover, mouseTadpole>>

Next ==
    \/ \E o \in Peers : join(o) \/ rename(o) \/ leave(o)
    \/ move \/ tickHover
    \/ \E b \in {1, 2, 3}, ctrl \in BOOLEAN : mousedown(b, ctrl)

Spec == Init /\ [][Next]_vars

-----------------------------------------------------------------------------
\* The mousedown test (mouse.tadpole && mouse.tadpole.hover && onclick)
\* lets a click be taken only by the tadpole under the mouse, and the
\* commented-out "mouse.tadpole = null" in Tadpole.update shows that a
\* tadpole no longer under the mouse should not keep it: a ctrl+left click
\* never opens the page of a player who has left the world.
ClickGoesToPresentTadpole ==
    opened \in present \cup {NoTadpole}

=============================================================================
