----------------------------- MODULE VideoOutProofs -----------------------------
(* VideoOut for any number of cameras: its screen is a layout of VoLayout,   *)
(* its variables keep their types, and playback shows the decoders.          *)
EXTENDS VideoOut, VoLayoutProofs

LEMMA BncNumbers ==
  /\ Bnc \in Nat /\ Cams \in Nat /\ 0 < Bnc /\ 0 < Cams
  /\ 0 \in BncCams /\ Zoomed \subseteq BncCams
BY VideoOutAssumption, LayoutAssumption DEF VideoOutAssumption, LayoutAssumption, BncCams

-----------------------------------------------------------------------------
(* The screen.                                                             *)

\* A step of any thread is a step of VoLayout or leaves the screen alone.
LEMMA StepOfLayout == [Next]_vars => [LayoutNext]_layoutVars
<1> SUFFICES ASSUME [Next]_vars PROVE [LayoutNext]_layoutVars
  OBVIOUS
<1>1. CASE Loss
  BY <1>1 DEF Loss, LossBegin, LossLook, LossQuery, LossSame, LossUnbind, LossBind,
              LossKeep, LossFormat, LossOpen, LossOpened, LossFormatUnbind, LossFormatDone
<1>2. CASE Check
  BY <1>2 DEF Check, CheckProbe, CheckCompare, CheckWrite, NextCheck
<1>3. CASE AppCall
  <2>1. ASSUME NEW g1 \in 0 .. nCurDivision - 1, NEW g2 \in 0 .. nCurDivision - 1,
               Swap(g1, g2)
        PROVE  LayoutNext
    BY <2>1 DEF Swap, LayoutNext
  <2>2. ASSUME NEW c \in Zoomed, ZoomBegin(c) \/ ZoomFlip(c)
        PROVE  UNCHANGED layoutVars
    BY <2>2 DEF ZoomBegin, ZoomFlip
  <2>3. ASSUME NEW name, ZoomsFirst(name) PROVE UNCHANGED layoutVars
    BY <2>3 DEF ZoomsFirst
  <2> QED
    BY <1>3, <2>1, <2>2, <2>3 DEF AppCall
<1>4. CASE AppAct
  <2>1. ASSUME NEW div \in Divisions, NEW page \in 0 .. Cams - 1, SetDivision(div, page)
        PROVE  LayoutNext
    BY <2>1 DEF SetDivision, LayoutNext
  <2>2. ASSUME SetLiveMode PROVE LayoutNext
    <3>1. DefDivision \in Divisions /\ 0 \in 0 .. Cams - 1
      BY Sizes, BncNumbers
    <3> QED
      BY <2>2, <3>1 DEF SetLiveMode, LayoutNext
  <2>3. ASSUME ClearZoom \/ ZoomOut \/ ZoomUnbind \/ ZoomBind \/ SetPlayMode \/ PlayDone
        PROVE  UNCHANGED layoutVars
    BY <2>3 DEF ClearZoom, ZoomOut, ZoomUnbind, ZoomBind, SetPlayMode, PlayDone
  <2> QED
    BY <1>4, <2>1, <2>2, <2>3 DEF AppAct
<1>5. ASSUME NEW c \in BncCams, Plug(c) PROVE UNCHANGED layoutVars
  BY <1>5 DEF Plug
<1>6. CASE UNCHANGED vars
  BY <1>6 DEF vars
<1> QED
  BY <1>1, <1>2, <1>3, <1>4, <1>5, <1>6 DEF Next

\* VideoOut implements VoLayout: whatever the threads do between, the screen
\* sees divisions and swaps only.
THEOREM ScreenIsLayout == Spec => LayoutSpec
<1>1. Init => LayoutInit
  BY DEF Init
<1> QED
  BY <1>1, StepOfLayout, PTL DEF Spec, LayoutSpec

\* So the cameras the map names are seen where it says.
THEOREM MapIsSeen == Spec => []MapIsScreen
<1> QED
  BY ScreenIsLayout, MapAgrees, PTL

\* So the page's cameras are seen, and no other.
THEOREM PageIsSeen == Spec => []PageIsShown
<1> QED
  BY ScreenIsLayout, PageShown, PTL

\* So no picture covers another one.
THEOREM PicturesAreApart == Spec => []PicturesApart
<1> QED
  BY ScreenIsLayout, PicturesSeparate, PTL

-----------------------------------------------------------------------------
(* Playback.                                                               *)

\* While recordings are played the loss thread is gone, no zoom of an input is
\* under way, and every channel is on its decoder.
PlayInv ==
  ~bLiveMode =>
    /\ dpc = "off" /\ apc \in {"idle", "clear", "join"}
    /\ bind = [c \in BncCams |-> "vdec"]

LEMMA PlayInvKept == PlayInv /\ [Next]_vars => PlayInv'
<1> SUFFICES ASSUME PlayInv, [Next]_vars PROVE PlayInv'
  OBVIOUS
<1> USE DEF PlayInv
<1>1. CASE Loss
  BY <1>1 DEF Loss, LossBegin, LossLook, LossQuery, LossSame, LossUnbind, LossBind,
              LossKeep, LossFormat, LossOpen, LossOpened, LossFormatUnbind, LossFormatDone,
              inputVars, NextCam
<1>2. CASE Check
  BY <1>2 DEF Check, CheckProbe, CheckCompare, CheckWrite, NextCheck, inputVars, lossVars, appVars
<1>3. CASE AppCall
  <2>1. ASSUME NEW g1, NEW g2, Swap(g1, g2) PROVE PlayInv'
    BY <2>1 DEF Swap, inputVars, lossVars, appVars
  <2>2. ASSUME NEW c \in Zoomed, ZoomBegin(c) PROVE PlayInv'
    BY <2>2 DEF ZoomBegin, inputVars, lossVars
  <2>3. ASSUME NEW c \in Zoomed, ZoomFlip(c) PROVE PlayInv'
    BY <2>3 DEF ZoomFlip, lossVars
  <2>4. ASSUME NEW name, ZoomsFirst(name) PROVE PlayInv'
    BY <2>4 DEF ZoomsFirst, inputVars, lossVars
  <2> QED
    BY <1>3, <2>1, <2>2, <2>3, <2>4 DEF AppCall
<1>4. CASE AppAct
  <2>1. ASSUME NEW div, NEW page, SetDivision(div, page) PROVE PlayInv'
    BY <2>1 DEF SetDivision, inputVars, lossVars
  <2>2. CASE ClearZoom
    BY <2>2 DEF ClearZoom, lossVars
  <2>3. CASE ZoomOut \/ ZoomUnbind \/ ZoomBind
    BY <2>3 DEF ZoomOut, ZoomUnbind, ZoomBind, lossVars
  <2>4. CASE SetPlayMode
    BY <2>4 DEF SetPlayMode, lossVars
  <2>5. CASE PlayDone
    BY <2>5 DEF PlayDone, lossVars
  <2>6. CASE SetLiveMode
    BY <2>6 DEF SetLiveMode
  <2> QED
    BY <1>4, <2>1, <2>2, <2>3, <2>4, <2>5, <2>6 DEF AppAct
<1>5. ASSUME NEW c \in BncCams, Plug(c) PROVE PlayInv'
  BY <1>5 DEF Plug, inputVars, lossVars, appVars
<1>6. CASE UNCHANGED vars
  BY <1>6 DEF vars, inputVars, lossVars, appVars
<1> QED
  BY <1>1, <1>2, <1>3, <1>4, <1>5, <1>6 DEF Next

\* While recordings are played every channel shows its decoder, between any two
\* steps of the threads.
THEOREM PlaybackSafe == Spec => []PlayShowsDecoder
<1>1. Init => PlayInv
  BY DEF Init, PlayInv
<1>2. PlayInv => PlayShowsDecoder
  BY DEF PlayInv, PlayShowsDecoder
<1> QED
  BY <1>1, <1>2, PlayInvKept, PTL DEF Spec

-----------------------------------------------------------------------------
(* Types.                                                                  *)

\* The types of the threads' variables; TypeOK adds the layout's.
InputTypes ==
  /\ sent \in [BncCams -> Formats \cup {None}]
  /\ bind \in [BncCams -> {"vi", "vdec", "vpss2", "none"}]
  /\ s_bZoom \in [BncCams -> BOOLEAN]
  /\ bLiveMode \in BOOLEAN /\ lossLoopTrigger \in BOOLEAN
  /\ lostState \in [BncCams -> BOOLEAN]

ThreadTypes ==
  /\ dpc \in {"off", "begin", "look", "query", "act", "bind", "keep", "format",
              "open", "opened", "unbind", "rebind"}
  /\ dn \in BncCams /\ cur \in [BncCams -> BOOLEAN] /\ fmt \in Formats \cup {None}
  /\ viChnMode \in [BncCams -> Formats] /\ viChnModeTemp \in [BncCams -> Formats]
  /\ cpc \in {"probe", "compare", "write"} /\ cn \in BncCams
  /\ probed \in Formats \cup {Unknown, None}
  /\ apc \in {"idle", "clear", "zoomin", "zoombind", "zoomout", "join"}
  /\ ac \in BncCams /\ todo \in {None, "division", "play", "live"}

\* A format is at hand where an input is opened and where a probe is compared.
AtHand ==
  /\ dpc \in {"open", "opened"} => fmt \in Formats
  /\ cpc = "compare" => probed \in Formats \cup {Unknown}
  /\ cpc = "write" => probed \in Formats

TypeInv == InputTypes /\ ThreadTypes /\ AtHand

\* One pass over the cameras stays among them.
LEMMA NextCamType ==
  ASSUME dn \in BncCams, NEW here, NEW next, NextCam(here, next)
  PROVE  dn' \in BncCams /\ dpc' \in {here, next}
BY BncNumbers DEF NextCam, BncCams

LEMMA NextCheckType == cn \in BncCams => (cn + 1) % Bnc \in BncCams
BY BncNumbers DEF BncCams

\* Binding keeps the type of bind.
LEMMA BindType ==
  ASSUME bind \in [BncCams -> {"vi", "vdec", "vpss2", "none"}],
         NEW c \in BncCams, NEW source \in {"vi", "vdec", "vpss2", "none"},
         BindTo(c, source) \/ UnbindOutput(c)
  PROVE  bind' \in [BncCams -> {"vi", "vdec", "vpss2", "none"}]
BY DEF BindTo, UnbindOutput

LEMMA LossTypes == TypeInv /\ Loss => TypeInv'
<1> SUFFICES ASSUME TypeInv, Loss PROVE TypeInv'
  OBVIOUS
<1> USE DEF TypeInv, InputTypes, ThreadTypes, AtHand, inputVars, modeVars, checkVars,
            appVars
<1>1. CASE LossBegin
  BY <1>1 DEF LossBegin
<1>2. CASE LossLook
  BY <1>2 DEF LossLook
<1>3. CASE LossQuery
  BY <1>3, NextCamType DEF LossQuery
<1>4. CASE LossSame
  BY <1>4, NextCamType DEF LossSame
<1>5. CASE LossUnbind
  BY <1>5, BindType DEF LossUnbind
<1>6. CASE LossBind
  BY <1>6, BindType, NextCamType DEF LossBind
<1>7. CASE LossKeep
  BY <1>7 DEF LossKeep
<1>8. CASE LossFormat
  BY <1>8, NextCamType DEF LossFormat
<1>9. CASE LossOpen
  BY <1>9 DEF LossOpen
<1>10. CASE LossOpened
  BY <1>10 DEF LossOpened
<1>11. CASE LossFormatUnbind
  BY <1>11, BindType DEF LossFormatUnbind
<1>12. CASE LossFormatDone
  BY <1>12, BindType, NextCamType DEF LossFormatDone
<1> QED
  BY <1>1, <1>2, <1>3, <1>4, <1>5, <1>6, <1>7, <1>8, <1>9, <1>10, <1>11, <1>12 DEF Loss

\* JDK_clear_digital_zoom and JDK_set_digital_zoom take the zoom off an input.
LEMMA ZoomOutBegins ==
  ASSUME TypeInv,
         bind' \in [BncCams -> {"vi", "vdec", "vpss2", "none"}],
         s_bZoom' = s_bZoom, apc' = "zoomout", ac' \in BncCams,
         UNCHANGED <<bLiveMode, lostState, lossLoopTrigger, sent, todo>>,
         UNCHANGED <<dpc, dn, cur, fmt, viChnMode, viChnModeTemp, cpc, cn, probed>>
  PROVE  TypeInv'
<1>1. InputTypes'
  BY DEF TypeInv, InputTypes
<1>2. ThreadTypes'
  BY DEF TypeInv, ThreadTypes
<1>3. AtHand'
  BY DEF TypeInv, AtHand
<1> QED
  BY <1>1, <1>2, <1>3 DEF TypeInv

LEMMA OtherTypes ==
  ASSUME TypeInv, Check \/ AppCall \/ AppAct \/ (\E c \in BncCams : Plug(c))
  PROVE  TypeInv'
<1> USE DEF TypeInv, InputTypes, ThreadTypes, AtHand, inputVars, lossVars, modeVars,
            checkVars, appVars
<1>1. CASE CheckProbe
  BY <1>1 DEF CheckProbe
<1>2. CASE CheckCompare
  BY <1>2, NextCheckType DEF CheckCompare, NextCheck
<1>3. CASE CheckWrite
  BY <1>3, NextCheckType DEF CheckWrite, NextCheck
<1>4. ASSUME NEW g1, NEW g2, Swap(g1, g2) PROVE TypeInv'
  BY <1>4 DEF Swap
<1>5. ASSUME NEW c \in Zoomed, ZoomBegin(c) PROVE TypeInv'
  BY <1>5, BncNumbers DEF ZoomBegin
<1>6. ASSUME NEW c \in Zoomed, ZoomFlip(c) PROVE TypeInv'
  <2>1. c \in BncCams
    BY BncNumbers
  <2>2. CASE s_bZoom[c] /\ bLiveMode /\ nCurDivision = 1 /\ nCurPage = c
    <3>1. bind' \in [BncCams -> {"vi", "vdec", "vpss2", "none"}]
      BY <1>6, <2>1, <2>2, BindType DEF ZoomFlip
    <3>2. s_bZoom' = s_bZoom /\ apc' = "zoomout" /\ ac' \in BncCams
      BY <1>6, <2>1, <2>2 DEF ZoomFlip
    <3>3. /\ UNCHANGED <<bLiveMode, lostState, lossLoopTrigger, sent, todo>>
          /\ UNCHANGED <<dpc, dn, cur, fmt, viChnMode, viChnModeTemp, cpc, cn, probed>>
      BY <1>6 DEF ZoomFlip
    <3> HIDE DEF TypeInv, InputTypes, ThreadTypes, AtHand
    <3> QED
      BY ZoomOutBegins, <3>1, <3>2, <3>3
  <2>3. CASE ~(s_bZoom[c] /\ bLiveMode /\ nCurDivision = 1 /\ nCurPage = c)
    <3>1. s_bZoom' \in [BncCams -> BOOLEAN]
      BY <1>6, <2>1, <2>3 DEF ZoomFlip
    <3>2. UNCHANGED <<bind, apc, ac>>
      BY <1>6, <2>3 DEF ZoomFlip
    <3>3. /\ UNCHANGED <<bLiveMode, lostState, lossLoopTrigger, sent, todo>>
          /\ UNCHANGED <<dpc, dn, cur, fmt, viChnMode, viChnModeTemp, cpc, cn, probed>>
      BY <1>6 DEF ZoomFlip
    <3> QED
      BY <3>1, <3>2, <3>3
  <2> QED
    BY <2>2, <2>3
<1>7. ASSUME NEW name \in {"division", "play", "live"}, ZoomsFirst(name) PROVE TypeInv'
  BY <1>7 DEF ZoomsFirst
<1>8. ASSUME NEW div, NEW page, SetDivision(div, page) PROVE TypeInv'
  BY <1>8 DEF SetDivision
<1>9. CASE ClearZoom
  <2>1. PICK c \in BncCams :
          IF bLiveMode
          THEN UnbindOutput(c) /\ s_bZoom' = s_bZoom /\ apc' = "zoomout" /\ ac' = c
          ELSE /\ s_bZoom' = [s_bZoom EXCEPT ![c] = FALSE]
               /\ UNCHANGED <<bind, apc, ac>>
    BY <1>9 DEF ClearZoom
  <2>2. CASE bLiveMode
    <3>1. bind' \in [BncCams -> {"vi", "vdec", "vpss2", "none"}]
      BY <2>1, <2>2, BindType
    <3>2. s_bZoom' = s_bZoom /\ apc' = "zoomout" /\ ac' \in BncCams
      BY <2>1, <2>2
    <3>3. /\ UNCHANGED <<bLiveMode, lostState, lossLoopTrigger, sent, todo>>
          /\ UNCHANGED <<dpc, dn, cur, fmt, viChnMode, viChnModeTemp, cpc, cn, probed>>
      BY <1>9 DEF ClearZoom
    <3> HIDE DEF TypeInv, InputTypes, ThreadTypes, AtHand
    <3> QED
      BY ZoomOutBegins, <3>1, <3>2, <3>3
  <2>3. CASE ~bLiveMode
    <3>1. s_bZoom' \in [BncCams -> BOOLEAN]
      BY <2>1, <2>3
    <3>2. UNCHANGED <<bind, apc, ac>>
      BY <2>1, <2>3
    <3>3. /\ UNCHANGED <<bLiveMode, lostState, lossLoopTrigger, sent, todo>>
          /\ UNCHANGED <<dpc, dn, cur, fmt, viChnMode, viChnModeTemp, cpc, cn, probed>>
      BY <1>9 DEF ClearZoom
    <3> QED
      BY <3>1, <3>2, <3>3
  <2> QED
    BY <2>2, <2>3
<1>10. CASE ZoomOut
  BY <1>10, BncNumbers, BindType DEF ZoomOut
<1>11. CASE ZoomUnbind
  BY <1>11, BindType DEF ZoomUnbind
<1>12. CASE ZoomBind
  BY <1>12, BncNumbers, BindType DEF ZoomBind
<1>13. CASE SetPlayMode
  BY <1>13 DEF SetPlayMode
<1>14. CASE PlayDone
  BY <1>14 DEF PlayDone
<1>15. CASE SetLiveMode
  BY <1>15 DEF SetLiveMode
<1>16. ASSUME NEW c \in BncCams, Plug(c) PROVE TypeInv'
  <2>1. \A f \in Sends[c] : f \in Formats
    BY DEF Formats
  <2>2. sent' \in [BncCams -> Formats \cup {None}]
    BY <1>16, <2>1 DEF Plug
  <2> QED
    BY <1>16, <2>2 DEF Plug
<1>17. CASE Check
  BY <1>17, <1>1, <1>2, <1>3 DEF Check
<1>18. CASE AppCall
  BY <1>18, <1>4, <1>5, <1>6, <1>7 DEF AppCall
<1>19. CASE AppAct
  BY <1>19, <1>8, <1>9, <1>10, <1>11, <1>12, <1>13, <1>14, <1>15 DEF AppAct
<1> QED
  BY <1>16, <1>17, <1>18, <1>19

\* The variables of the threads and the screen keep their types, for any number
\* of cameras and any formats.
THEOREM TypesKept == Spec => []TypeOK
<1>1. Init => TypeInv
  BY BncNumbers DEF Init, TypeInv, InputTypes, ThreadTypes, AtHand
<1>2. TypeInv /\ [Next]_vars => TypeInv'
  <2> SUFFICES ASSUME TypeInv, [Next]_vars PROVE TypeInv'
    OBVIOUS
  <2>1. CASE UNCHANGED vars
    BY <2>1 DEF vars, TypeInv, InputTypes, ThreadTypes, AtHand, inputVars, lossVars,
                modeVars, checkVars, appVars
  <2> QED
    BY <2>1, LossTypes, OtherTypes DEF Next
<1>3. Spec => []TypeInv
  BY <1>1, <1>2, PTL DEF Spec
<1>4. TypeInv /\ LayoutTypeOK => TypeOK
  BY DEF TypeInv, InputTypes, ThreadTypes, TypeOK
<1> QED
  BY <1>3, <1>4, ScreenIsLayout, LayoutTypes, PTL
=============================================================================
