---------------------------- MODULE SplashPromise ----------------------------
(***************************************************************************)
(* What the splash screen promises to the bootloader and to the            *)
(* application (doc/usage.rst, "Splash Screen"; bootloader/src/pyi_splash.h):*)
(* it comes up, if it does, before the program runs; it displays the texts *)
(* sent to it one by one and in order; whenever it goes, it does not come  *)
(* back; and it is gone, at the latest, when the program is over.          *)
(***************************************************************************)
EXTENDS Naturals

VARIABLES
    phase,      \* "setup", "running", "over" or "failed"
    screen,     \* "none", "up" or "gone"
    sent,       \* texts sent so far
    shown       \* the text on the screen

vars == <<phase, screen, sent, shown>>

Init == phase = "setup" /\ screen = "none" /\ sent = 0 /\ shown = 0

\* The screen comes up, or cannot, while the program is being set up.
Appear ==
    /\ phase = "setup" /\ screen = "none"
    /\ screen' \in {"up", "gone"}
    /\ UNCHANGED <<phase, sent, shown>>

Run ==
    /\ phase = "setup"
    /\ phase' = "running"
    /\ UNCHANGED <<screen, sent, shown>>

Send ==
    /\ phase = "running"
    /\ sent' = sent + 1
    /\ UNCHANGED <<phase, screen, shown>>

Display ==
    /\ screen = "up" /\ shown < sent
    /\ shown' = shown + 1
    /\ UNCHANGED <<phase, screen, sent>>

Disappear ==
    /\ screen = "up"
    /\ screen' = "gone"
    /\ UNCHANGED <<phase, sent, shown>>

Over ==
    /\ phase = "running" /\ screen # "up"
    /\ phase' = "over"
    /\ UNCHANGED <<screen, sent, shown>>

\* The application cannot be extracted: the process ends, with its screen.
Fail ==
    /\ phase = "running"
    /\ phase' = "failed"
    /\ screen' = IF screen = "up" THEN "gone" ELSE screen
    /\ UNCHANGED <<sent, shown>>

Next == Appear \/ Run \/ Send \/ Display \/ Disappear \/ Over \/ Fail

Spec == Init /\ [][Next]_vars
=============================================================================
