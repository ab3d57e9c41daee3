----------------------------- MODULE VoLayoutProofs -----------------------------
(* The safety properties of VoLayout, for any number of cameras and channels *)
(* and any of the divisions vo_grid.c knows.                                 *)
EXTENDS VoLayout, TLAPS

-----------------------------------------------------------------------------
(***************************************************************************)
(* The tables of VO_GRID_get_rect_of_grid.                                 *)
(***************************************************************************)

\* One square lies left of, right of, above or below the other.
Apart(p, q) ==
  \/ p.x + p.side <= q.x \/ q.x + q.side <= p.x
  \/ p.y + p.side <= q.y \/ q.y + q.side <= p.y

Squares == [x : Nat, y : Nat, side : Nat]

\* The squares of two grids of a division, which must be apart.
Separate(div, g, h) ==
  /\ Place(div, g) \in Squares /\ Place(div, h) \in Squares
  /\ Apart(Place(div, g), Place(div, h))

LEMMA ApartIsDisjoint ==
  ASSUME NEW p \in Squares, NEW q \in Squares, Apart(p, q)
  PROVE  Cells(p) \cap Cells(q) = {}
<1> SUFFICES ASSUME NEW a, NEW b,
                    a \in p.x .. p.x + p.side - 1, a \in q.x .. q.x + q.side - 1,
                    b \in p.y .. p.y + p.side - 1, b \in q.y .. q.y + q.side - 1
             PROVE  FALSE
  BY DEF Cells
<1> QED
  BY DEF Squares, Apart

\* The table of the division in 6, one big grid and 5 small ones.
LEMMA Table6 ==
  /\ Place(6, 0) = Square(0, 0, 2) /\ Place(6, 1) = Square(2, 0, 1)
  /\ Place(6, 2) = Square(2, 1, 1) /\ Place(6, 3) = Square(0, 2, 1)
  /\ Place(6, 4) = Square(1, 2, 1) /\ Place(6, 5) = Square(2, 2, 1)
BY DEF Place

\* The table of the division in 8, one big grid and 7 small ones.
LEMMA Table8 ==
  /\ Place(8, 0) = Square(0, 0, 3) /\ Place(8, 1) = Square(3, 0, 1)
  /\ Place(8, 2) = Square(3, 1, 1) /\ Place(8, 3) = Square(3, 2, 1)
  /\ Place(8, 4) = Square(0, 3, 1) /\ Place(8, 5) = Square(1, 3, 1)
  /\ Place(8, 6) = Square(2, 3, 1) /\ Place(8, 7) = Square(3, 3, 1)
BY DEF Place

\* The table of the division in 13, one big grid and 12 small ones.
LEMMA Table13 ==
  /\ Place(13, 0) = Square(1, 1, 2) /\ Place(13, 1) = Square(0, 0, 1)
  /\ Place(13, 2) = Square(1, 0, 1) /\ Place(13, 3) = Square(2, 0, 1)
  /\ Place(13, 4) = Square(3, 0, 1) /\ Place(13, 5) = Square(0, 1, 1)
  /\ Place(13, 6) = Square(3, 1, 1) /\ Place(13, 7) = Square(0, 2, 1)
  /\ Place(13, 8) = Square(3, 2, 1) /\ Place(13, 9) = Square(0, 3, 1)
  /\ Place(13, 10) = Square(1, 3, 1) /\ Place(13, 11) = Square(2, 3, 1)
  /\ Place(13, 12) = Square(3, 3, 1)
BY DEF Place

\* No two grids of a division have a cell in common.
LEMMA GridsApart ==
  ASSUME NEW d \in Divisions, NEW g \in 0 .. d - 1, NEW h \in 0 .. d - 1, g # h
  PROVE  Cells(Place(d, g)) \cap Cells(Place(d, h)) = {}
<1>1. d \in {1, 4, 6, 8, 9, 13, 16, 25, 36}
  BY LayoutAssumption DEF LayoutAssumption, AllDivisions
<1>2. ASSUME d = 1 PROVE Separate(d, g, h)
  BY <1>2 DEF Separate, Place, Side, Square, Squares, Apart
<1>3. ASSUME d = 4 PROVE Separate(d, g, h)
  BY <1>3 DEF Separate, Place, Side, Square, Squares, Apart
<1>4. ASSUME d = 9 PROVE Separate(d, g, h)
  BY <1>4 DEF Separate, Place, Side, Square, Squares, Apart
<1>5. ASSUME d = 16 PROVE Separate(d, g, h)
  BY <1>5 DEF Separate, Place, Side, Square, Squares, Apart
<1>6. ASSUME d = 25 PROVE Separate(d, g, h)
  BY <1>6 DEF Separate, Place, Side, Square, Squares, Apart
<1>7. ASSUME d = 36 PROVE Separate(d, g, h)
  BY <1>7 DEF Separate, Place, Side, Square, Squares, Apart
<1>8. ASSUME d = 6 PROVE Separate(d, g, h)
  <2>1. g \in {0, 1, 2, 3, 4, 5} /\ h \in {0, 1, 2, 3, 4, 5}
    BY <1>8
  <2> QED
    BY <1>8, <2>1, Table6 DEF Separate, Square, Squares, Apart
<1>9. ASSUME d = 8 PROVE Separate(d, g, h)
  <2>1. g \in {0, 1, 2, 3, 4, 5, 6, 7} /\ h \in {0, 1, 2, 3, 4, 5, 6, 7}
    BY <1>9
  <2> QED
    BY <1>9, <2>1, Table8 DEF Separate, Square, Squares, Apart
<1>10. ASSUME d = 13 PROVE Separate(d, g, h)
  <2>1. /\ g \in {0, 1, 2, 3, 4, 5, 6, 7, 8, 9, 10, 11, 12}
        /\ h \in {0, 1, 2, 3, 4, 5, 6, 7, 8, 9, 10, 11, 12}
    BY <1>10
  <2> QED
    BY <1>10, <2>1, Table13 DEF Separate, Square, Squares, Apart
<1>a. Separate(d, g, h)
  BY <1>1, <1>2, <1>3, <1>4, <1>5, <1>6, <1>7, <1>8, <1>9, <1>10
<1> QED
  BY <1>a, ApartIsDisjoint DEF Separate

-----------------------------------------------------------------------------
\* No two grids of the page are given the same camera.
MapIsOneToOne ==
  \A g, h \in 0 .. nCurDivision - 1 : voChnMap[g] = voChnMap[h] => g = h

\* Every channel of the page has a grid.
MapIsOnto ==
  \A k \in 0 .. nCurDivision - 1 : \E g \in 0 .. nCurDivision - 1 : voChnMap[g] = k

\* What the operations preserve: that the map is one to one is why the channels
\* of two grids can change places without moving a third one's.
IInv == LayoutTypeOK /\ MapIsOneToOne /\ MapIsOnto /\ MapIsScreen /\ PageIsShown

USE DEF layoutVars

\* The numbers the layouts are made of.
LEMMA Sizes ==
  /\ Cams \in Nat /\ VoChns \in Nat /\ Cams <= VoChns
  /\ \A d \in Divisions : d \in 1 .. 36
  /\ DefDivision \in Divisions
BY LayoutAssumption DEF LayoutAssumption, AllDivisions

\* A place on the screen is no hidden place.
LEMMA PlacesAreSeen ==
  ASSUME NEW d \in Divisions, NEW g \in 0 .. d - 1
  PROVE  At(d, g) \in [div : Divisions, grid : 0 .. 35] /\ At(d, g) # Hidden
<1>1. g \in 0 .. 35
  BY Sizes
<1>2. At(d, g) \in [div : Divisions, grid : 0 .. 35]
  BY <1>1 DEF At
<1> QED
  BY <1>2, LayoutAssumption DEF LayoutAssumption

\* The channel of a grid is one of its page's.
LEMMA Channels ==
  \A b \in Nat, d \in 1 .. 36 : \A v, w \in 0 .. d - 1 :
    /\ b + v \in Nat /\ b + v >= b /\ b + v < b + d
    /\ b + v = b + w => v = w
    /\ b + v < Cams => b + v \in 0 .. VoChns - 1
BY Sizes

\* What a new division leaves, whatever was there before: the initial state and
\* JDK_set_vo_division are two cases of it.
LEMMA LaidOut ==
  ASSUME NEW d \in Divisions, NEW page \in Nat, NEW old,
         old \in [0 .. VoChns - 1 -> {Hidden} \cup [div : Divisions, grid : 0 .. 35]],
         nCurDivision' = d, nCurPage' = page,
         voChnMap' = [g \in 0 .. d - 1 |-> g],
         shown' = [c \in 0 .. VoChns - 1 |->
                     IF c >= Cams THEN old[c]
                     ELSE IF InPage(c, d, page) THEN At(d, c - d * page)
                     ELSE Hidden]
  PROVE  IInv'
<1>1. d \in 1 .. 36 /\ Cams \in Nat /\ VoChns \in Nat /\ Cams <= VoChns
  BY Sizes
<1> DEFINE base == d * page
<1>2. base \in Nat
  <2>1. \A a, b \in Nat : a * b \in Nat
    OBVIOUS
  <2> QED
    BY <2>1, <1>1
<1>3. \A c \in 0 .. Cams - 1 :
        shown'[c] = IF c >= base /\ c < base + d THEN At(d, c - base) ELSE Hidden
  BY <1>1 DEF InPage
<1>4. \A c \in 0 .. VoChns - 1 :
        shown'[c] \in {Hidden} \cup [div : Divisions, grid : 0 .. 35]
  <2> TAKE c \in 0 .. VoChns - 1
  <2>1. CASE c >= Cams
    BY <2>1
  <2>2. CASE c < Cams /\ c >= base /\ c < base + d
    <3> HIDE DEF base
    <3>1. c \in 0 .. Cams - 1 /\ c - base \in 0 .. d - 1
      BY <2>2, <1>1, <1>2
    <3>2. shown'[c] = At(d, c - base)
      BY <2>2, <3>1, <1>3
    <3> QED
      BY <3>1, <3>2, PlacesAreSeen
  <2>3. CASE c < Cams /\ ~(c >= base /\ c < base + d)
    <3> HIDE DEF base
    <3>1. c \in 0 .. Cams - 1
      BY <2>3, <1>1
    <3>2. shown'[c] = Hidden
      BY <2>3, <3>1, <1>3
    <3> QED
      BY <3>2
  <2> QED
    BY <2>1, <2>2, <2>3, <1>1
<1>5. LayoutTypeOK'
  BY <1>4, <1>1 DEF LayoutTypeOK
<1>6. MapIsOneToOne'
  BY <1>1 DEF MapIsOneToOne
<1>b. MapIsOnto'
  BY <1>1 DEF MapIsOnto
<1>7. MapIsScreen'
  <2> SUFFICES ASSUME NEW g \in 0 .. d - 1, base + g < Cams
               PROVE  shown'[base + g] = At(d, g)
    BY DEF MapIsScreen, PageBase
  <2> HIDE DEF base
  <2>1. base + g \in 0 .. Cams - 1 /\ base + g >= base /\ base + g < base + d
    BY <1>1, <1>2
  <2>2. (base + g) - base = g
    BY <1>1, <1>2
  <2> QED
    BY <2>1, <2>2, <1>3
<1>8. PageIsShown'
  <2> SUFFICES ASSUME NEW c \in 0 .. Cams - 1
               PROVE  shown'[c] # Hidden <=> c >= base /\ c < base + d
    BY DEF PageIsShown, InPage
  <2> HIDE DEF base
  <2>1. ASSUME c >= base, c < base + d PROVE shown'[c] # Hidden
    <3>1. c - base \in 0 .. d - 1
      BY <2>1, <1>1, <1>2
    <3> QED
      BY <3>1, <2>1, <1>3, PlacesAreSeen
  <2> QED
    BY <2>1, <1>3
<1> QED
  BY <1>5, <1>6, <1>b, <1>7, <1>8 DEF IInv

\* The layout APP_JDK_init leaves.
LEMMA InitialLayout == LayoutInit => IInv
<1> SUFFICES ASSUME LayoutInit PROVE IInv
  OBVIOUS
<1> DEFINE d == DefDivision
<1>1. d \in Divisions /\ d \in 1 .. 36 /\ Cams \in Nat /\ VoChns \in Nat /\ Cams <= VoChns
  BY Sizes
<1>2. /\ nCurDivision = d /\ nCurPage = 0
      /\ voChnMap = [g \in 0 .. d - 1 |-> g]
      /\ shown = [c \in 0 .. VoChns - 1 |-> IF c < Cams /\ c < d THEN At(d, c) ELSE Hidden]
  BY DEF LayoutInit
<1> HIDE DEF d
<1>3. \A c \in 0 .. VoChns - 1 : c < d => At(d, c) \in [div : Divisions, grid : 0 .. 35]
                                             /\ At(d, c) # Hidden
  BY <1>1, PlacesAreSeen
<1>4. LayoutTypeOK
  BY <1>1, <1>2, <1>3 DEF LayoutTypeOK
<1>5. MapIsOneToOne
  BY <1>1, <1>2 DEF MapIsOneToOne
<1>b. MapIsOnto
  BY <1>1, <1>2 DEF MapIsOnto
<1>6. PageBase = 0
  BY <1>1, <1>2 DEF PageBase
<1>7. MapIsScreen
  BY <1>1, <1>2, <1>6 DEF MapIsScreen
<1>8. d * 0 = 0
  BY <1>1
<1>9. PageIsShown
  <2>1. \A c \in 0 .. Cams - 1 : InPage(c, d, 0) <=> c < d
    BY <1>1, <1>8 DEF InPage
  <2> QED
    BY <2>1, <1>1, <1>2, <1>3 DEF PageIsShown
<1> QED
  BY <1>4, <1>5, <1>b, <1>7, <1>9 DEF IInv

\* JDK_set_vo_division.
LEMMA SetLayoutKeeps ==
  ASSUME IInv, NEW d \in Divisions, NEW page \in 0 .. Cams - 1, SetLayout(d, page)
  PROVE  IInv'
<1>1. page \in Nat
  BY Sizes
<1>2. shown \in [0 .. VoChns - 1 -> {Hidden} \cup [div : Divisions, grid : 0 .. 35]]
  BY DEF IInv, LayoutTypeOK
<1> QED
  BY <1>1, <1>2, LaidOut DEF SetLayout

\* JDK_swap_vo_chn.
LEMMA SwapChnKeeps ==
  ASSUME IInv, NEW g1 \in 0 .. nCurDivision - 1, NEW g2 \in 0 .. nCurDivision - 1,
         SwapChn(g1, g2)
  PROVE  IInv'
<1> DEFINE d == nCurDivision
           base == PageBase
           c1 == base + voChnMap[g1]
           c2 == base + voChnMap[g2]
<1>1. /\ d \in Divisions /\ d \in 1 .. 36 /\ nCurPage \in Nat
      /\ Cams \in Nat /\ VoChns \in Nat /\ Cams <= VoChns
      /\ voChnMap \in [0 .. d - 1 -> 0 .. d - 1]
      /\ shown \in [0 .. VoChns - 1 -> {Hidden} \cup [div : Divisions, grid : 0 .. 35]]
  BY Sizes DEF IInv, LayoutTypeOK
<1>2. base \in Nat
  <2>1. \A a, b \in Nat : a * b \in Nat
    OBVIOUS
  <2> QED
    BY <2>1, <1>1 DEF PageBase
<1>3. /\ d' = d /\ nCurPage' = nCurPage /\ base' = base
      /\ voChnMap' = [voChnMap EXCEPT ![g1] = voChnMap[g2], ![g2] = voChnMap[g1]]
      /\ shown' = [c \in 0 .. VoChns - 1 |->
                     IF c = c2 THEN At(d, g1) ELSE IF c = c1 THEN At(d, g2) ELSE shown[c]]
  BY DEF SwapChn, PageBase
<1>4. \A g, h \in 0 .. d - 1 : voChnMap[g] = voChnMap[h] => g = h
  BY DEF IInv, MapIsOneToOne
<1>5. \A g \in 0 .. d - 1 : base + voChnMap[g] < Cams => shown[base + voChnMap[g]] = At(d, g)
  BY DEF IInv, MapIsScreen
<1>6. \A c \in 0 .. Cams - 1 : shown[c] # Hidden <=> InPage(c, d, nCurPage)
  BY DEF IInv, PageIsShown
<1>7. /\ At(d, g1) \in [div : Divisions, grid : 0 .. 35] /\ At(d, g1) # Hidden
      /\ At(d, g2) \in [div : Divisions, grid : 0 .. 35] /\ At(d, g2) # Hidden
  BY <1>1, PlacesAreSeen
<1>8. d * nCurPage = base
  BY DEF PageBase
<1>9. /\ voChnMap'[g1] = voChnMap[g2] /\ voChnMap'[g2] = voChnMap[g1]
      /\ \A g \in 0 .. d - 1 : g # g1 /\ g # g2 => voChnMap'[g] = voChnMap[g]
  BY <1>1, <1>3
<1>a. \A g \in 0 .. d - 1 : voChnMap[g] \in 0 .. d - 1
  BY <1>1
<1>b. voChnMap[g1] \in 0 .. d - 1 /\ voChnMap[g2] \in 0 .. d - 1
  BY <1>a
<1> HIDE DEF d, base
<1>10. LayoutTypeOK'
  <2>1. voChnMap' \in [0 .. d - 1 -> 0 .. d - 1]
    BY <1>1, <1>3 DEF d
  <2>2. shown' \in [0 .. VoChns - 1 -> {Hidden} \cup [div : Divisions, grid : 0 .. 35]]
    BY <1>1, <1>3, <1>7
  <2> QED
    BY <2>1, <2>2, <1>1, <1>3 DEF LayoutTypeOK, d
<1>11. MapIsOneToOne'
  <2> SUFFICES ASSUME NEW g \in 0 .. d - 1, NEW h \in 0 .. d - 1,
                      voChnMap'[g] = voChnMap'[h]
               PROVE  g = h
    BY <1>3 DEF MapIsOneToOne, d
  <2> QED
    BY <1>4, <1>9 DEF d
<1>c. MapIsOnto'
  <2> SUFFICES ASSUME NEW k \in 0 .. d - 1
               PROVE  \E g \in 0 .. d - 1 : voChnMap'[g] = k
    BY <1>3 DEF MapIsOnto, d
  <2>1. PICK g \in 0 .. d - 1 : voChnMap[g] = k
    BY DEF IInv, MapIsOnto, d
  <2>2. CASE g = g1
    BY <2>1, <2>2, <1>9 DEF d
  <2>3. CASE g = g2
    BY <2>1, <2>3, <1>9 DEF d
  <2>4. CASE g # g1 /\ g # g2
    BY <2>1, <2>4, <1>9
  <2> QED
    BY <2>2, <2>3, <2>4
<1>12. MapIsScreen'
  <2> SUFFICES ASSUME NEW g \in 0 .. d - 1, base + voChnMap'[g] < Cams
               PROVE  shown'[base + voChnMap'[g]] = At(d, g)
    BY <1>3 DEF MapIsScreen, d, base
  <2>1. \A h \in 0 .. d - 1 :
          base + voChnMap[h] < Cams => base + voChnMap[h] \in 0 .. VoChns - 1
    BY <1>1, <1>2, <1>a, Channels
  <2>2. CASE g = g1
    BY <2>1, <2>2, <1>3, <1>9 DEF d
  <2>3. CASE g = g2 /\ g # g1
    <3>1. c1 # c2
      <4>1. voChnMap[g1] # voChnMap[g2]
        BY <2>3, <1>4 DEF d
      <4> QED
        BY <4>1, <1>1, <1>2, <1>b, Channels
    <3> QED
      BY <3>1, <2>1, <2>3, <1>3, <1>9 DEF d
  <2>4. CASE g # g1 /\ g # g2
    <3>1. base + voChnMap[g] # c1 /\ base + voChnMap[g] # c2
      <4>1. voChnMap[g] # voChnMap[g1] /\ voChnMap[g] # voChnMap[g2]
        BY <2>4, <1>4 DEF d
      <4> QED
        BY <4>1, <1>1, <1>2, <1>a, <1>b, Channels
    <3> QED
      BY <3>1, <2>1, <2>4, <1>3, <1>5, <1>9
  <2> QED
    BY <2>2, <2>3, <2>4
<1>13. PageIsShown'
  <2>1. \A g \in 0 .. d - 1 : base + voChnMap[g] >= base /\ base + voChnMap[g] < base + d
    BY <1>1, <1>2, <1>a, Channels
  <2>2. InPage(c1, d, nCurPage) /\ InPage(c2, d, nCurPage)
    BY <2>1, <1>8 DEF InPage, d
  <2> SUFFICES ASSUME NEW c \in 0 .. Cams - 1
               PROVE  shown'[c] # Hidden <=> InPage(c, d, nCurPage)
    BY <1>3 DEF PageIsShown, InPage, d
  <2>3. c \in 0 .. VoChns - 1
    BY <1>1
  <2> HIDE DEF c1, c2
  <2> QED
    BY <2>2, <2>3, <1>3, <1>6, <1>7
<1> QED
  BY <1>10, <1>11, <1>c, <1>12, <1>13 DEF IInv

LEMMA Inductive == IInv /\ [LayoutNext]_layoutVars => IInv'
<1> SUFFICES ASSUME IInv, [LayoutNext]_layoutVars PROVE IInv'
  OBVIOUS
<1>1. ASSUME NEW div \in Divisions, NEW page \in 0 .. Cams - 1, SetLayout(div, page)
      PROVE  IInv'
  BY <1>1, SetLayoutKeeps
<1>2. ASSUME NEW g1 \in 0 .. nCurDivision - 1, NEW g2 \in 0 .. nCurDivision - 1,
             SwapChn(g1, g2)
      PROVE  IInv'
  BY <1>2, SwapChnKeeps
<1>3. CASE UNCHANGED layoutVars
  BY <1>3 DEF IInv, LayoutTypeOK, MapIsOneToOne, MapIsOnto, MapIsScreen, PageIsShown,
                PageBase, InPage
<1> QED
  BY <1>1, <1>2, <1>3 DEF LayoutNext

LEMMA Invariance == LayoutSpec => []IInv
<1> QED
  BY InitialLayout, Inductive, PTL DEF LayoutSpec

\* The layout's variables keep their types.
THEOREM LayoutTypes == LayoutSpec => []LayoutTypeOK
<1>1. IInv => LayoutTypeOK
  BY DEF IInv
<1> QED
  BY <1>1, Invariance, PTL

\* The camera voChnMap puts in a grid is the one the screen shows there.
THEOREM MapAgrees == LayoutSpec => []MapIsScreen
<1>1. IInv => MapIsScreen
  BY DEF IInv
<1> QED
  BY <1>1, Invariance, PTL

\* The cameras of the page are shown, and no other.
THEOREM PageShown == LayoutSpec => []PageIsShown
<1>1. IInv => PageIsShown
  BY DEF IInv
<1> QED
  BY <1>1, Invariance, PTL

\* A camera that is shown is shown in a grid of the division, its own.
LEMMA ShownInGrid ==
  ASSUME IInv, NEW c \in 0 .. Cams - 1, shown[c] # Hidden
  PROVE  \E g \in 0 .. nCurDivision - 1 :
           c = PageBase + voChnMap[g] /\ shown[c] = At(nCurDivision, g)
<1>1. /\ nCurDivision \in 1 .. 36 /\ nCurPage \in Nat /\ Cams \in Nat
      /\ voChnMap \in [0 .. nCurDivision - 1 -> 0 .. nCurDivision - 1]
  BY Sizes DEF IInv, LayoutTypeOK
<1>2. PageBase \in Nat
  <2>1. \A a, b \in Nat : a * b \in Nat
    OBVIOUS
  <2> QED
    BY <2>1, <1>1 DEF PageBase
<1>3. c >= PageBase /\ c < PageBase + nCurDivision
  BY DEF IInv, PageIsShown, InPage, PageBase
<1>4. c - PageBase \in 0 .. nCurDivision - 1 /\ c = PageBase + (c - PageBase)
  BY <1>1, <1>2, <1>3
<1>5. PICK g \in 0 .. nCurDivision - 1 : voChnMap[g] = c - PageBase
  BY <1>4 DEF IInv, MapIsOnto
<1>6. c = PageBase + voChnMap[g]
  BY <1>4, <1>5
<1>7. shown[c] = At(nCurDivision, g)
  <2>1. c < Cams
    BY <1>1
  <2>2. \A k \in 0 .. nCurDivision - 1 :
          PageBase + voChnMap[k] < Cams => shown[PageBase + voChnMap[k]] = At(nCurDivision, k)
    BY DEF IInv, MapIsScreen
  <2> QED
    BY <1>6, <2>1, <2>2
<1> QED
  BY <1>6, <1>7

\* No camera's picture covers another one's.
THEOREM PicturesSeparate == LayoutSpec => []PicturesApart
<1>1. IInv => PicturesApart
  <2> SUFFICES ASSUME IInv, NEW c \in 0 .. Cams - 1, NEW d \in 0 .. Cams - 1, c # d,
                      shown[c] # Hidden, shown[d] # Hidden
               PROVE  Cells(Place(shown[c].div, shown[c].grid))
                        \cap Cells(Place(shown[d].div, shown[d].grid)) = {}
    BY DEF PicturesApart
  <2>1. PICK g \in 0 .. nCurDivision - 1 :
          c = PageBase + voChnMap[g] /\ shown[c] = At(nCurDivision, g)
    BY ShownInGrid
  <2>2. PICK h \in 0 .. nCurDivision - 1 :
          d = PageBase + voChnMap[h] /\ shown[d] = At(nCurDivision, h)
    BY ShownInGrid
  <2>3. g # h
    BY <2>1, <2>2
  <2>4. /\ shown[c].div = nCurDivision /\ shown[c].grid = g
        /\ shown[d].div = nCurDivision /\ shown[d].grid = h
    BY <2>1, <2>2 DEF At
  <2>5. nCurDivision \in Divisions
    BY DEF IInv, LayoutTypeOK
  <2> QED
    BY <2>3, <2>4, <2>5, GridsApart
<1> QED
  BY <1>1, Invariance, PTL
=============================================================================
