---------------------------- MODULE Input_proofs ----------------------------
(***************************************************************************)
(* Rest for every bound on the touches: whatever order the key, mouse,    *)
(* touch and UI-layer handlers run in, once nothing is held the tadpole's *)
(* target momentum is 0.  Rest alone is not inductive (a keyup only looks *)
(* at keyNav, not at what is held); IInv says that keyNav and a non-zero  *)
(* target are always backed by something held.                           *)
(***************************************************************************)
EXTENDS Input, TLAPS

USE TouchesAssumption DEF ArrowKeys, KeyCodes, Buttons, MaxMomentum

LEMMA IInvInit == Init => IInv
<1> SUFFICES ASSUME Init PROVE IInv
    OBVIOUS
<1>1. uiEnabled \in BOOLEAN
    BY Zenon DEF Init
<1>2. QED
    BY <1>1 DEF Init, IInv, TypeOK

LEMMA IInvStep == IInv /\ [Next]_vars => IInv'
<1> SUFFICES ASSUME IInv, [Next]_vars PROVE IInv'
    OBVIOUS
<1> USE DEF IInv, TypeOK
<1>1. ASSUME NEW k \in KeyCodes, keydown(k) PROVE IInv'
    <2>1. CASE k \in ArrowKeys
        BY <1>1, <2>1 DEF keydown
    <2>2. CASE k \notin ArrowKeys
        BY <1>1, <2>2 DEF keydown
    <2>3. QED
        BY <2>1, <2>2
<1>2. ASSUME NEW k \in KeyCodes, keyup(k) PROVE IInv'
    <2>1. CASE k \in {"up", "down"}
        BY <1>2, <2>1 DEF keyup
    <2>2. CASE k \in {"left", "right"}
        BY <1>2, <2>2 DEF keyup
    <2>3. CASE k = "other"
        BY <1>2, <2>3 DEF keyup
    <2>4. QED
        BY <2>1, <2>2, <2>3
<1>3. ASSUME NEW b \in Buttons, NEW c \in BOOLEAN, mousedown(b, c)
      PROVE IInv'
    BY <1>3 DEF mousedown
<1>4. ASSUME NEW b \in Buttons, mouseup(b) PROVE IInv'
    BY <1>4 DEF mouseup
<1>5. CASE touchstart
    BY <1>5 DEF touchstart
<1>6. CASE touchend
    BY <1>6 DEF touchend
<1>7. CASE showUILayer
    BY <1>7 DEF showUILayer
<1>8. CASE hideUILayer
    BY <1>8 DEF hideUILayer
<1>9. CASE Tick
    BY <1>9 DEF Tick
<1>10. CASE UNCHANGED vars
    BY <1>10 DEF vars
<1>11. QED
    BY <1>1, <1>2, <1>3, <1>4, <1>5, <1>6, <1>7, <1>8, <1>9, <1>10 DEF Next

\* Every reachable state of Input is well typed.
THEOREM TypeCorrect == Spec => []TypeOK
<1>1. IInv => TypeOK
    BY DEF IInv
<1>2. QED
    BY <1>1, IInvInit, IInvStep, PTL DEF Spec

\* Once every arrow key, the left mouse button and every finger have been
\* released, the target momentum of the user's tadpole is 0, in every
\* interleaving of app.keydown/keyup, mousedown/mouseup, touchstart/touchend
\* and the UI-layer toggles.
THEOREM RestInvariant == Spec => []Rest
<1>1. IInv => Rest
    BY DEF IInv, TypeOK, Rest
<1>2. QED
    BY <1>1, IInvInit, IInvStep, PTL DEF Spec
=============================================================================
