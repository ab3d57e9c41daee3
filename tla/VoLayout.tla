------------------------------- MODULE VoLayout -------------------------------
(***************************************************************************)
(* The arrangement of the cameras' pictures on the monitor: the divisions  *)
(* of the screen (common/vo_grid.c) and the two operations of app/jdk/     *)
(* jdk.c that fill them, JDK_set_vo_division and JDK_swap_vo_chn, as the   *)
(* commands of DVR_Exec (app/dvr.c:659-721) call them.                     *)
(*                                                                         *)
(* A division is named by its number of grids; output channel c shows      *)
(* camera c.  The second monitor only mirrors the first (write back, the   *)
(* one mode the chip's driver takes), so one screen is modelled.  The      *)
(* entries of voChnMap past the page are never read before                 *)
(* JDK_set_vo_division writes them again, so voChnMap ends with the page.  *)
(***************************************************************************)
EXTENDS Integers

CONSTANTS Cams,       \* JDK_ACTIVE_CAM(): how many cameras there are
          VoChns,     \* how many channels the output device has
          Divisions,  \* the divisions that are asked for
          Hidden      \* what a channel that is not shown has for a place

VARIABLES
  nCurDivision, nCurPage,  \* s_jdkCtx's, written by JDK_set_vo_division
  voChnMap,                \* grid of the page -> channel, counted from the page's first
  shown                    \* channel -> Hidden, or the division and grid it was opened in

layoutVars == <<nCurDivision, nCurPage, voChnMap, shown>>

AllDivisions == {1, 4, 6, 8, 9, 13, 16, 25, 36}

\* VO_GRID_get_def_divi
DefDivision ==
  LET fits == {n \in 1..6 : Cams <= n * n}
  IN  IF fits = {} THEN 4
      ELSE LET n == CHOOSE n \in fits : \A k \in fits : n <= k IN n * n

ASSUME LayoutAssumption ==
  /\ Cams \in Nat \ {0}
  /\ VoChns \in Nat /\ Cams <= VoChns
  /\ Divisions \subseteq AllDivisions
  /\ DefDivision \in Divisions
  /\ Hidden \notin [div : Divisions, grid : 0 .. 35]

-----------------------------------------------------------------------------
(* The grids of a division.                                                *)

\* VO_GRID_get_max_row_or_col
Side(div) ==
  CASE div = 1 -> 1 [] div = 4 -> 2 [] div \in {6, 9} -> 3
    [] div \in {8, 13, 16} -> 4 [] div = 25 -> 5 [] div = 36 -> 6

Square(x, y, side) == [x |-> x, y |-> y, side |-> side]

\* The factor tables of VO_GRID_get_rect_of_grid: column, row and size of
\* grid g, in cells of the screen's Side(div) by Side(div).
Place(div, g) ==
  CASE div = 6 -> Square(<<0, 2, 2, 0, 1, 2>>[g + 1], <<0, 0, 1, 2, 2, 2>>[g + 1],
                         IF g = 0 THEN 2 ELSE 1)
    [] div = 8 -> Square(<<0, 3, 3, 3, 0, 1, 2, 3>>[g + 1],
                         <<0, 0, 1, 2, 3, 3, 3, 3>>[g + 1], IF g = 0 THEN 3 ELSE 1)
    [] div = 13 -> Square(<<1, 0, 1, 2, 3, 0, 3, 0, 3, 0, 1, 2, 3>>[g + 1],
                          <<1, 0, 0, 0, 0, 1, 1, 2, 2, 3, 3, 3, 3>>[g + 1],
                          IF g = 0 THEN 2 ELSE 1)
    [] OTHER -> Square(g % Side(div), g \div Side(div), 1)

Cells(p) == (p.x .. p.x + p.side - 1) \X (p.y .. p.y + p.side - 1)

\* VO_GRID_get_rect_of_grid on a screen at (0, 0): a cell has even sides.
Even(n) == 2 * (n \div 2)
GridRect(div, width, height, g) ==
  LET w == Even(width \div Side(div))
      h == Even(height \div Side(div))
      p == Place(div, g)
  IN  [x |-> w * p.x, y |-> h * p.y, width |-> w * p.side, height |-> h * p.side]

InRect(r, px, py) ==
  px >= r.x /\ px < r.x + r.width /\ py >= r.y /\ py < r.y + r.height

\* VO_GRID_find_grid_index: the first grid that holds the point, or the
\* number of grids.
FindGridIndex(div, width, height, px, py) ==
  LET hit == {g \in 0 .. div - 1 : InRect(GridRect(div, width, height, g), px, py)}
  IN  IF hit = {} THEN div ELSE CHOOSE g \in hit : \A k \in hit : g <= k

-----------------------------------------------------------------------------
\* VO_GRID_get_n_pages
Pages(div) == (Cams + div - 1) \div div

PageBase == nCurDivision * nCurPage

InPage(c, div, page) == c >= div * page /\ c < div * page + div

At(div, g) == [div |-> div, grid |-> g]

\* Mutant: the channels of other pages are left where they are.
SetLayoutOver(div, page) ==
  /\ page < Pages(div)
  /\ nCurDivision' = div /\ nCurPage' = page
  /\ shown' = [c \in 0 .. VoChns - 1 |->
                 IF c < Cams /\ InPage(c, div, page) THEN At(div, c - div * page)
                 ELSE shown[c]]
  /\ voChnMap' = [g \in 0 .. div - 1 |-> g]

\* JDK_set_vo_division: the cameras' channels are hidden, those of the page
\* are opened in its grids.  A page past the last is refused (no step).
SetLayout(div, page) ==
  /\ page < Pages(div)
  /\ nCurDivision' = div /\ nCurPage' = page
  /\ shown' = [c \in 0 .. VoChns - 1 |->
                 IF c >= Cams THEN shown[c]
                 ELSE IF InPage(c, div, page) THEN At(div, c - div * page)
                 ELSE Hidden]
  /\ voChnMap' = [g \in 0 .. div - 1 |-> g]

\* Mutant: the map does not follow the channels.
SwapChnUnmapped(g1, g2) ==
  /\ g1 <= Cams /\ g2 <= Cams
  /\ g1 < nCurDivision /\ g2 < nCurDivision
  /\ LET c1 == PageBase + voChnMap[g1]
         c2 == PageBase + voChnMap[g2]
     IN  shown' = [c \in 0 .. VoChns - 1 |->
                     IF c = c2 THEN At(nCurDivision, g1)
                     ELSE IF c = c1 THEN At(nCurDivision, g2)
                     ELSE shown[c]]
  /\ UNCHANGED <<voChnMap, nCurDivision, nCurPage>>

\* Mutant: only one of the two channels moves.
SwapChnHalf(g1, g2) ==
  /\ g1 <= Cams /\ g2 <= Cams
  /\ g1 < nCurDivision /\ g2 < nCurDivision
  /\ LET c2 == PageBase + voChnMap[g2]
     IN  shown' = [c \in 0 .. VoChns - 1 |->
                     IF c = c2 THEN At(nCurDivision, g1) ELSE shown[c]]
  /\ voChnMap' = [voChnMap EXCEPT ![g1] = voChnMap[g2], ![g2] = voChnMap[g1]]
  /\ UNCHANGED <<nCurDivision, nCurPage>>

\* JDK_swap_vo_chn: the channels of two grids of the page change places.
\* The bound is the code's: a grid equal to the number of cameras passes.
\* A channel the device does not have is opened in vain.
SwapChn(g1, g2) ==
  /\ g1 <= Cams /\ g2 <= Cams
  /\ g1 < nCurDivision /\ g2 < nCurDivision
  /\ LET c1 == PageBase + voChnMap[g1]
         c2 == PageBase + voChnMap[g2]
     IN  shown' = [c \in 0 .. VoChns - 1 |->
                     IF c = c2 THEN At(nCurDivision, g1)
                     ELSE IF c = c1 THEN At(nCurDivision, g2)
                     ELSE shown[c]]
  /\ voChnMap' = [voChnMap EXCEPT ![g1] = voChnMap[g2], ![g2] = voChnMap[g1]]
  /\ UNCHANGED <<nCurDivision, nCurPage>>

\* APP_JDK_init ends with the default division.
LayoutInit ==
  /\ nCurDivision = DefDivision /\ nCurPage = 0
  /\ voChnMap = [g \in 0 .. DefDivision - 1 |-> g]
  /\ shown = [c \in 0 .. VoChns - 1 |->
                IF c < Cams /\ c < DefDivision THEN At(DefDivision, c) ELSE Hidden]

LayoutNext ==
  \/ \E div \in Divisions : \E page \in 0 .. Cams - 1 : SetLayout(div, page)
  \/ \E g1, g2 \in 0 .. nCurDivision - 1 : SwapChn(g1, g2)

LayoutSpec == LayoutInit /\ [][LayoutNext]_layoutVars

-----------------------------------------------------------------------------
LayoutTypeOK ==
  /\ nCurDivision \in Divisions /\ nCurPage \in Nat
  /\ voChnMap \in [0 .. nCurDivision - 1 -> 0 .. nCurDivision - 1]
  /\ shown \in [0 .. VoChns - 1 ->
                 {Hidden} \cup [div : Divisions, grid : 0 .. 35]]

\* The map and the screen agree: the camera the map puts in a grid is the one
\* shown there, however often grids were swapped and divisions changed (the
\* map is written by JDK_swap_vo_chn after the channels were opened,
\* app/jdk/jdk.c:757-789, and from nothing else can a click find the camera).
MapIsScreen ==
  \A g \in 0 .. nCurDivision - 1 :
    LET c == PageBase + voChnMap[g]
    IN  c < Cams => shown[c] = At(nCurDivision, g)

\* The monitor shows the cameras of the page and no other camera.
PageIsShown ==
  \A c \in 0 .. Cams - 1 :
    shown[c] # Hidden <=> InPage(c, nCurDivision, nCurPage)

\* No two cameras' pictures cover one another.
PicturesApart ==
  \A c, d \in 0 .. Cams - 1 :
    c # d /\ shown[c] # Hidden /\ shown[d] # Hidden =>
      Cells(Place(shown[c].div, shown[c].grid))
        \cap Cells(Place(shown[d].div, shown[d].grid)) = {}
=============================================================================
