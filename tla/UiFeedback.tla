----------------------------- MODULE UiFeedback -----------------------------
(***************************************************************************)
(* The feedback every screen uses: the toasts of FeedbackProvider, which   *)
(* leave by a timer or by hand, and LoaderOverlay, which covers a screen   *)
(* for a minimum time and locks the scrolling of the page.                 *)
(***************************************************************************)
EXTENDS Naturals, FiniteSets

CONSTANTS
    Toasts,       \* ids of toasts
    Persistent,   \* those shown until they are closed (persist)
    Overlays,     \* LoaderOverlay instances
    MinDuration,  \* minimumDuration, in ticks
    None

VARIABLES
    toasts,   \* the toasts on the screen
    timers,   \* timersRef: the toasts with a running timer
    stale,    \* the effect on `toasts` has not run since their last change
    overlay,  \* each overlay: mounted, open, visible, age (openedAtRef), hideTimer
    locks,    \* activeLocks
    scroll    \* body.style.overflow, and the original value saved

toastVars == <<toasts, timers, stale>>
overlayVars == <<overlay, locks, scroll>>
uiVars == <<toasts, timers, stale, overlay, locks, scroll>>

ASSUME UiAssumption ==
    /\ IsFiniteSet(Overlays) /\ MinDuration \in Nat
    /\ None \notin 0 .. MinDuration /\ None \notin {"page", "hidden"}

NoOverlay == [mounted |-> FALSE, open |-> FALSE, visible |-> FALSE, age |-> None, timer |-> None]

UiInit ==
    /\ toasts = {} /\ timers = {} /\ stale = FALSE
    /\ overlay = [o \in Overlays |-> NoOverlay]
    /\ locks = 0 /\ scroll = [style |-> "page", saved |-> None]

UiTypeOK ==
    /\ toasts \subseteq Toasts /\ timers \subseteq Toasts /\ stale \in BOOLEAN
    /\ overlay \in [Overlays -> [mounted : BOOLEAN, open : BOOLEAN, visible : BOOLEAN,
                                 age : 0 .. MinDuration \cup {None}, timer : 0 .. MinDuration \cup {None}]]
    /\ locks \in Nat
    /\ scroll \in [style : {"page", "hidden", None}, saved : {"page", "hidden", None}]

-----------------------------------------------------------------------------
(* Toasts.                                                                 *)

EnqueueToast(t) ==
    /\ t \notin toasts \cup timers
    /\ toasts' = toasts \cup {t} /\ stale' = TRUE
    /\ UNCHANGED <<timers, overlayVars>>

\* Mutation: the timer of a toast that was closed stops the next ones.
RunToastEffectOnce ==
    /\ stale
    /\ timers' = timers \cap toasts
    /\ stale' = FALSE
    /\ UNCHANGED <<toasts, overlayVars>>

\* The effect on `toasts`: no timer without a toast, one for each that does not persist.
RunToastEffect ==
    /\ stale
    /\ timers' = toasts \ Persistent
    /\ stale' = FALSE
    /\ UNCHANGED <<toasts, overlayVars>>

\* dismiss, by the close button, the toast's own action or its timer.
Dismiss(t) ==
    /\ toasts' = toasts \ {t} /\ timers' = timers \ {t} /\ stale' = TRUE
    /\ UNCHANGED <<overlayVars>>

CloseToast(t) == t \in toasts /\ Dismiss(t)
ToastTimer(t) == t \in timers /\ Dismiss(t)

-----------------------------------------------------------------------------
(* LoaderOverlay.                                                          *)

\* lockBodyScroll and unlockBodyScroll, when `visible` changes or the overlay goes.
LockScroll ==
    /\ locks' = locks + 1
    /\ scroll' = IF locks = 0 THEN [style |-> "hidden", saved |-> scroll.style] ELSE scroll

UnlockScroll ==
    /\ locks' = IF locks = 0 THEN 0 ELSE locks - 1
    /\ scroll' = IF locks <= 1 THEN [style |-> scroll.saved, saved |-> None] ELSE scroll

\* `visible` and the lock that follows it.
SetOverlay(o, next) ==
    /\ overlay' = [overlay EXCEPT ![o] = next]
    /\ IF next.visible = overlay[o].visible THEN UNCHANGED <<locks, scroll>>
       ELSE IF next.visible THEN LockScroll ELSE UnlockScroll
    /\ UNCHANGED <<toastVars>>

MountOverlay(o, open) ==
    /\ ~overlay[o].mounted
    /\ SetOverlay(o, [mounted |-> TRUE, open |-> open, visible |-> open,
                      age |-> IF open THEN 0 ELSE None, timer |-> None])

\* Mutation: an overlay removed while it is shown leaves its lock.
UnmountOverlayLocked(o) ==
    /\ overlay[o].mounted
    /\ overlay' = [overlay EXCEPT ![o] = NoOverlay]
    /\ UNCHANGED <<toastVars, locks, scroll>>

\* The clean-up of the effects: the timer and the lock.
UnmountOverlay(o) == overlay[o].mounted /\ SetOverlay(o, NoOverlay)

OpenOverlay(o) ==
    /\ overlay[o].mounted /\ ~overlay[o].open
    /\ SetOverlay(o, [overlay[o] EXCEPT !.open = TRUE, !.visible = TRUE, !.age = 0, !.timer = None])

\* Mutation: the time shown is not looked at.
CloseOverlayAtOnce(o) ==
    /\ overlay[o].mounted /\ overlay[o].open
    /\ SetOverlay(o, [overlay[o] EXCEPT !.open = FALSE, !.visible = FALSE, !.age = None])

\* It stays for what is left of the minimum time.
CloseOverlay(o) ==
    /\ overlay[o].mounted /\ overlay[o].open
    /\ SetOverlay(o,
         IF overlay[o].age < MinDuration
         THEN [overlay[o] EXCEPT !.open = FALSE, !.timer = MinDuration - overlay[o].age]
         ELSE [overlay[o] EXCEPT !.open = FALSE, !.visible = FALSE, !.age = None])

HideTimer(o) ==
    /\ overlay[o].timer = 0
    /\ SetOverlay(o, [overlay[o] EXCEPT !.visible = FALSE, !.age = None, !.timer = None])

\* Mutation: a timer goes on after its end.
TickPast ==
    /\ overlay' = [o \in Overlays |->
         [overlay[o] EXCEPT
             !.age = IF @ = None \/ @ = MinDuration THEN @ ELSE @ + 1,
             !.timer = IF @ = None THEN @ ELSE @ - 1]]
    /\ overlay' # overlay
    /\ UNCHANGED <<toastVars, locks, scroll>>

\* Time passes, to the minimum time and to the end of the timers.
Tick ==
    /\ overlay' = [o \in Overlays |->
         [overlay[o] EXCEPT
             !.age = IF @ = None \/ @ = MinDuration THEN @ ELSE @ + 1,
             !.timer = IF @ = None \/ @ = 0 THEN @ ELSE @ - 1]]
    /\ overlay' # overlay
    /\ UNCHANGED <<toastVars, locks, scroll>>

-----------------------------------------------------------------------------
ToastStep == (\E t \in Toasts : EnqueueToast(t) \/ CloseToast(t) \/ ToastTimer(t)) \/ RunToastEffect
OverlayStep ==
    \/ Tick
    \/ \E o \in Overlays :
         \/ \E open \in BOOLEAN : MountOverlay(o, open)
         \/ UnmountOverlay(o) \/ OpenOverlay(o) \/ CloseOverlay(o) \/ HideTimer(o)

\* The effect and the timers; nothing is assumed of the screens.
UiFairness ==
    /\ WF_uiVars(RunToastEffect) /\ WF_uiVars(Tick)
    /\ \A t \in Toasts : WF_uiVars(ToastTimer(t))
    /\ \A o \in Overlays : WF_uiVars(HideTimer(o))

UiSpec == UiInit /\ [][ToastStep \/ OverlayStep]_uiVars /\ UiFairness

-----------------------------------------------------------------------------
\* The page can be scrolled exactly when no overlay is shown, in whatever order overlays
\* open, close, replace each other and are removed while they are shown.
ScrollFollowsOverlays ==
    LET shown == {o \in Overlays : overlay[o].visible} IN
    /\ locks = Cardinality(shown)
    /\ scroll.style = IF shown = {} THEN "page" ELSE "hidden"
    /\ \A o \in Overlays : overlay[o].open => overlay[o].visible

\* An overlay does not flash: unless its screen goes, it is shown for the minimum time since
\* it was last opened.
ShownLongEnough ==
    [][\A o \in Overlays :
          overlay[o].visible /\ ~overlay'[o].visible /\ overlay'[o].mounted =>
              overlay[o].age = MinDuration]_uiVars

\* An overlay that is closed goes away, and so does a toast that is not to persist.
FeedbackGoes ==
    /\ \A o \in Overlays : ~overlay[o].open ~> ~overlay[o].visible \/ overlay[o].open
    /\ \A t \in Toasts \ Persistent : t \in toasts ~> t \notin toasts
=============================================================================
