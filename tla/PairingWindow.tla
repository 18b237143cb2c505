--------------------------- MODULE PairingWindow ---------------------------
(***************************************************************************)
(* What the pairing of a workspace promises to the page that asks for it,  *)
(* without its sockets, timers and rows: at most one window is open, it is *)
(* silent unless somebody asked, a code is offered in a window somebody    *)
(* asked for and in no other, and such a window ends.  QrPairing           *)
(* implements it; ConnectPage is built on it.                              *)
(***************************************************************************)
EXTENDS Naturals

CONSTANT MaxRequests    \* how many QR codes users request

VARIABLES window,       \* "none", "silent" (no code leaves it), or "asked"
          offered,      \* a QR code is kept for those who join the workspace's room
          requests      \* QR codes requested so far

windowVars == <<window, offered, requests>>

WindowInit == window = "none" /\ offered = FALSE /\ requests = 0

\* A request closes the window that is open; the code it offered may stay.
Asks ==
    /\ requests < MaxRequests
    /\ requests' = requests + 1
    /\ window' = "none"
    /\ UNCHANGED offered

\* A window may open over another one.
Opens ==
    /\ \/ window' = "silent"
       \/ window' = "asked" /\ requests > 0
    /\ UNCHANGED <<offered, requests>>

Offers ==
    /\ window = "asked"
    /\ offered' = TRUE
    /\ UNCHANGED <<window, requests>>

Lapses ==
    /\ offered /\ offered' = FALSE
    /\ UNCHANGED <<window, requests>>

Ends ==
    /\ window # "none" /\ window' = "none"
    /\ offered' \in {offered, FALSE}
    /\ UNCHANGED requests

WindowNext == Asks \/ Opens \/ Offers \/ Lapses \/ Ends

\* A window somebody asked for does not stay open.
WindowEnds == window = "asked" ~> window # "asked"

WindowSpec == WindowInit /\ [][WindowNext]_windowVars /\ WindowEnds
=============================================================================
