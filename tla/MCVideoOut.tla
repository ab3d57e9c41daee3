------------------------------ MODULE MCVideoOut ------------------------------
(* VideoOut for TLC: the formats the cameras may send, and the tables of      *)
(* common/vo_grid.c checked for every division it knows.                      *)
EXTENDS VideoOut, FiniteSets

CONSTANTS p720, p1080  \* two formats

MCSends == [c \in 0 .. 1 |-> IF c = 0 THEN {p720} ELSE {p720, p1080}]

\* The grids of a division cover the screen, each of its cells once.
ASSUME GridsTile ==
  \A div \in AllDivisions :
    \A cell \in (0 .. Side(div) - 1) \X (0 .. Side(div) - 1) :
      Cardinality({g \in 0 .. div - 1 : cell \in Cells(Place(div, g))}) = 1

\* VO_GRID_find_grid_index finds the grid of every point on a small screen but
\* those of the columns and rows that are left over when the screen is divided.
ASSUME PointsAreFound ==
  \A div \in AllDivisions :
    LET over == Side(div) * Even(26 \div Side(div))
    IN  \A px, py \in 0 .. 25 :
          LET g == FindGridIndex(div, 26, 26, px, py)
          IN  /\ g < div <=> px < over /\ py < over
              /\ g < div => InRect(GridRect(div, 26, 26, g), px, py)
=============================================================================
