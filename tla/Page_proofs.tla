----------------------------- MODULE Page_proofs -----------------------------
(***************************************************************************)
(* SingleLoop for every bound on the touches.  The strengthening adds     *)
(* that the timer count is a natural number, so that "at most one and not *)
(* one" means none when initApp passes its guard.                         *)
(*                                                                         *)
(* RestInPage: Input's Rest survives the composition.  Every Page step    *)
(* is either a step of Input (an input event once initApp registered the  *)
(* listeners, a UI call, a tick once a timer runs) or leaves Input's      *)
(* variables alone (load, forceInit), so Input's inductive invariant IInv *)
(* carries over unchanged.                                                *)
(***************************************************************************)
EXTENDS Page, Input_proofs

LoopsInv == loops \in Nat /\ SingleLoop

LEMMA LoopsInit == PageInit => LoopsInv
BY DEF PageInit, LoopsInv, SingleLoop

\* initApp, as called from load and from forceInit, keeps the count right.
LEMMA InitAppStep ==
    ASSUME LoopsInv, initApp
    PROVE  LoopsInv'
<1>1. CASE appCreated
    BY <1>1 DEF initApp, LoopsInv, SingleLoop
<1>2. CASE ~appCreated
    <2>1. loops = 0
        BY <1>2 DEF LoopsInv, SingleLoop
    <2>2. QED
        BY <1>2, <2>1 DEF initApp, LoopsInv, SingleLoop
<1>3. QED
    BY <1>1, <1>2

LEMMA LoopsStep == LoopsInv /\ [PageNext]_allVars => LoopsInv'
<1> SUFFICES ASSUME LoopsInv, [PageNext]_allVars PROVE LoopsInv'
    OBVIOUS
<1>1. CASE load
    <2>1. CASE capable
        BY <1>1, <2>1, InitAppStep DEF load
    <2>2. CASE ~capable
        BY <1>1, <2>2 DEF load, LoopsInv, SingleLoop
    <2>3. QED
        BY <2>1, <2>2
<1>2. CASE forceInit
    BY <1>2, InitAppStep DEF forceInit
<1>3. CASE inputStep \/ uiStep \/ tickStep
    BY <1>3 DEF inputStep, uiStep, tickStep, pageVars, LoopsInv, SingleLoop
<1>4. CASE UNCHANGED allVars
    BY <1>4 DEF allVars, pageVars, LoopsInv, SingleLoop
<1>5. QED
    BY <1>1, <1>2, <1>3, <1>4 DEF PageNext

\* However the page script and clicks on the force-init button interleave
\* with the input, at most one runLoop timer is ever started, and exactly
\* one once the App exists.
THEOREM SingleLoopHolds == PageSpec => []SingleLoop
<1>1. LoopsInv => SingleLoop
    BY DEF LoopsInv
<1>2. QED
    BY <1>1, LoopsInit, LoopsStep, PTL DEF PageSpec
-----------------------------------------------------------------------------
\* Every step of the page is a step of Input or leaves its state alone.
LEMMA PageStepIsInputStep == [PageNext]_allVars => [Next]_vars
<1> SUFFICES ASSUME [PageNext]_allVars PROVE [Next]_vars
    OBVIOUS
<1>1. CASE load \/ forceInit
    BY <1>1 DEF load, forceInit
<1>2. CASE inputStep
    BY <1>2 DEF inputStep, Next
<1>3. CASE uiStep \/ tickStep
    BY <1>3 DEF uiStep, tickStep, Next
<1>4. CASE UNCHANGED allVars
    BY <1>4 DEF allVars
<1>5. QED
    BY <1>1, <1>2, <1>3, <1>4 DEF PageNext

\* Composed with the bootstrap, which registers the input listeners only
\* in initApp and may run it again from the force-init button, the input
\* handlers still never leave the tadpole swimming once every arrow key,
\* the left button and every finger have been released.
THEOREM RestInPage == PageSpec => []Rest
<1>1. PageInit => IInv
    BY IInvInit DEF PageInit
<1>2. IInv /\ [PageNext]_allVars => IInv'
    BY PageStepIsInputStep, IInvStep
<1>3. IInv => Rest
    <2> SUFFICES ASSUME IInv PROVE Rest
        OBVIOUS
    <2>1. QED
        BY DEF IInv, Rest, TypeOK, ArrowKeys
<1>4. QED
    BY <1>1, <1>2, <1>3, PTL DEF PageSpec
-----------------------------------------------------------------------------
\* The flags of the page keep their Boolean type.
PageFlagsOK ==
    /\ capable \in BOOLEAN /\ loaded \in BOOLEAN /\ appCreated \in BOOLEAN
    /\ unsupportedShown \in BOOLEAN /\ buttonListener \in BOOLEAN

LEMMA PageFlagsStep == PageFlagsOK /\ [PageNext]_allVars => PageFlagsOK'
<1> SUFFICES ASSUME PageFlagsOK, [PageNext]_allVars PROVE PageFlagsOK'
    OBVIOUS
<1>1. CASE load
    BY <1>1, Zenon DEF load, initApp, PageFlagsOK
<1>2. CASE forceInit
    BY <1>2, Zenon DEF forceInit, initApp, PageFlagsOK
<1>3. CASE inputStep \/ uiStep \/ tickStep
    BY <1>3, Zenon DEF inputStep, uiStep, tickStep, pageVars, PageFlagsOK
<1>4. CASE UNCHANGED allVars
    BY <1>4, Zenon DEF allVars, pageVars, PageFlagsOK
<1>5. QED
    BY <1>1, <1>2, <1>3, <1>4 DEF PageNext

\* The composed page keeps its type: Input's state, the page's flags and
\* the timer count, whatever the capability check said and however often
\* force-init was clicked.
THEOREM PageTypeCorrect == PageSpec => []PageTypeOK
<1>1. PageInit => PageFlagsOK
    BY Zenon DEF PageInit, PageFlagsOK
<1>2. IInv /\ LoopsInv /\ PageFlagsOK => PageTypeOK
    BY DEF IInv, LoopsInv, PageFlagsOK, PageTypeOK
<1>3. QED
    BY <1>1, <1>2, PageFlagsStep, LoopsInit, LoopsStep, IInvInit,
       PageStepIsInputStep, IInvStep, PTL DEF PageSpec, PageInit
=============================================================================
