---------------------------- MODULE ScreenContract ----------------------------
(***************************************************************************)
(* What a client may expect of a screen that is painted in parts           *)
(* (docs/daemon: 'paint' updates the image on screen, 'repaint' repaints   *)
(* the whole screen): a paint is one change, of cells that are marked, and *)
(* brings them up to date; a cell that is wrong is always marked for the   *)
(* next paint, or one of the cells the painter is allowed to overlook.     *)
(***************************************************************************)
CONSTANT Cells

VARIABLES picture,   \* what is on the screen, per cell
          image,     \* what should be there
          marked,    \* cells the paint now under way, or the next one, updates
          late,      \* cells asked for during the paint, left to the next one
          overlooked \* cells that may be wrong until the next repaint

contractVars == <<picture, image, marked, late, overlooked>>

\* A cell is as it should be, or something is known of it.
Accounted ==
  {c \in Cells : picture[c] # image[c]} \subseteq marked \union late \union overlooked

ContractInit == Accounted /\ late = {}

\* The image changes, or a paint that has not reached the screen yet.
Ask == picture' = picture /\ Accounted'

\* A part of the buffer is copied to the screen as it is.
Expose ==
  /\ \A c \in Cells \ overlooked : picture'[c] = picture[c]
  /\ UNCHANGED <<image, marked, late, overlooked>>

Paint ==
  /\ image' = image
  /\ \A c \in Cells \ (marked \union overlooked) : picture'[c] = picture[c]
  /\ \A c \in marked \ (late \union overlooked)  : picture'[c] = image[c]
  /\ marked' = late /\ late' = {}
  /\ Accounted'

\* Marks stay after a repaint, what is asked for meanwhile is added to them.
Repaint ==
  /\ image' = image
  /\ \A c \in Cells \ (late \union overlooked) : picture'[c] = image[c]
  /\ marked' = marked \union late /\ late' = {}
  /\ Accounted'

Contract == ContractInit /\ [][Ask \/ Expose \/ Paint \/ Repaint]_contractVars
=============================================================================
