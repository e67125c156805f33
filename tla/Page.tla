--------------------------------- MODULE Page ---------------------------------
(***************************************************************************)
(* main.js's bootstrap composed with the input handlers of Input.  The    *)
(* page script runs the capability check once: on a capable browser it    *)
(* calls initApp, otherwise it shows #unsupported-browser and registers   *)
(* forceInit on the force-init button, which stays registered, so the     *)
(* user may click it any number of times.  initApp builds the App,        *)
(* registers the canvas listeners (so input events reach app.keydown and  *)
(* the others only from then on) and starts setInterval(runLoop, 30),     *)
(* whose ticks drive Tadpole.update.                                       *)
(***************************************************************************)
EXTENDS Input

VARIABLES
    capable,            \* Modernizr.canvas && Modernizr.websockets
    loaded,             \* the page script has run
    appCreated,         \* app != null
    loops,              \* setInterval(runLoop, 30) timers started
    unsupportedShown,   \* #unsupported-browser is displayed
    buttonListener      \* forceInit is registered on the force-init button

pageVars == <<capable, loaded, appCreated, loops, unsupportedShown,
              buttonListener>>
allVars == <<pageVars, vars>>

PageTypeOK ==
    /\ TypeOK
    /\ capable \in BOOLEAN /\ loaded \in BOOLEAN /\ appCreated \in BOOLEAN
    /\ loops \in Nat
    /\ unsupportedShown \in BOOLEAN /\ buttonListener \in BOOLEAN

PageInit ==
    /\ Init
    /\ capable \in BOOLEAN
    /\ loaded = FALSE
    /\ appCreated = FALSE
    /\ loops = 0
    /\ unsupportedShown = FALSE
    /\ buttonListener = FALSE

\* Mutant: initApp without its app != null early return.
initAppNoGuard ==
    /\ appCreated' = TRUE
    /\ loops' = loops + 1

\* initApp: returns at once if the App exists; otherwise builds it,
\* registers the listeners and starts the 30 ms loop.
initApp ==
    IF appCreated THEN UNCHANGED <<appCreated, loops>>
    ELSE /\ appCreated' = TRUE
         /\ loops' = loops + 1

\* The page script: the capability check decides between initApp and the
\* unsupported-browser fallback with its force-init button.
load ==
    /\ ~loaded
    /\ loaded' = TRUE
    /\ IF capable
         THEN /\ initApp
              /\ UNCHANGED <<unsupportedShown, buttonListener>>
         ELSE /\ unsupportedShown' = TRUE
              /\ buttonListener' = TRUE
              /\ UNCHANGED <<appCreated, loops>>
    /\ UNCHANGED <<capable, vars>>

\* A click on the force-init button: forceInit calls initApp, then hides
\* #unsupported-browser.
forceInit ==
    /\ buttonListener
    /\ initApp
    /\ unsupportedShown' = FALSE
    /\ UNCHANGED <<capable, loaded, buttonListener, vars>>

\* The canvas delivers input only to the listeners initApp registered, and
\* runLoop ticks only once a loop was started.  showUILayer and
\* hideUILayer are global functions the page may call at any time.
inputStep ==
    /\ appCreated
    /\ \/ \E k \in KeyCodes : keydown(k) \/ keyup(k)
       \/ \E b \in Buttons, c \in BOOLEAN : mousedown(b, c)
       \/ \E b \in Buttons : mouseup(b)
       \/ touchstart \/ touchend
    /\ UNCHANGED pageVars

uiStep ==
    /\ showUILayer \/ hideUILayer
    /\ UNCHANGED pageVars

tickStep ==
    /\ loops > 0
    /\ Tick
    /\ UNCHANGED pageVars

PageNext == load \/ forceInit \/ inputStep \/ uiStep \/ tickStep

PageSpec == PageInit /\ [][PageNext]_allVars

-----------------------------------------------------------------------------
\* However often the force-init button is clicked, and whether or not the
\* page script already started the App, exactly one App and one runLoop
\* timer exist once the App is up: initApp's app != null guard keeps a
\* second click from starting a second 30 ms loop, which would run
\* app.update twice per period (double speed, double the updates sent).
SingleLoop ==
    /\ loops <= 1
    /\ appCreated <=> loops = 1

=============================================================================
