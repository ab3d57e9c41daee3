------------------------------- MODULE VideoOut -------------------------------
(***************************************************************************)
(* What feeds the monitor's channels (app/jdk/jdk.c with the Hi3521 driver *)
(* app/jdk/hisi/jdk_hi_3521.c): the loss thread JDK_vo_loss_loop, which    *)
(* binds a channel to its analogue input or to its decoder as the signal   *)
(* comes and goes and reopens an input whose format changed, the thread    *)
(* jdk_vi_format_check_proc that looks for such changes, and the           *)
(* application's thread, which divides the screen, swaps, zooms and goes   *)
(* to playback and back.                                                   *)
(*                                                                         *)
(* Only analogue cameras 0 .. Bnc - 1 are here: a network camera's channel *)
(* is bound to its decoder once and stays there.  Binding commands of the  *)
(* chip are atomic and do what they are told (closing or opening an input  *)
(* may fail in the code, which then tries again in the next round); a      *)
(* picture and what it says are left out.  viInModeAuto, which             *)
(* JDK_vin_init sets from the environment and nothing after it changes, is *)
(* TRUE (no format is followed where it is FALSE); videoCheckFreeze is     *)
(* left out, as the loss thread alone sets it, and clears it again before  *)
(* it tests it.                                                            *)
(***************************************************************************)
EXTENDS VoLayout

CONSTANTS Bnc,       \* JDK_BNC_CAM()
          Zoomed,    \* the cameras that are zoomed by the application
          Sends,     \* camera -> the formats of the pictures it may send
          SwapLive   \* bound: FALSE, grids are swapped outside live mode only
                     \* (a swap touches nothing but the layout)

VARIABLES
  sent,                  \* camera -> format of the picture that comes in, or None
  bind,                  \* what feeds the channel: "vi", "vdec", "vpss2" or "none"
  s_bZoom,               \* camera -> zoomed
  bLiveMode,             \* FALSE while recordings are played
  lostState,             \* camera -> no signal, as the loss thread saw it last
  lossLoopTrigger,       \* tells the loss thread to go on
  dpc, dn, cur, fmt,     \* the loss thread: step, camera, curLossState, format to set
  viChnMode, viChnModeTemp,  \* the input's format, and the one to go to
  cpc, cn, probed,       \* the check thread: step, camera and what it found
  apc, ac, todo          \* the application: step, camera, and the call it is in

inputVars == <<bind, s_bZoom, bLiveMode, lostState, lossLoopTrigger>>
lossVars == <<dpc, dn, cur, fmt>>
modeVars == <<viChnMode, viChnModeTemp>>
checkVars == <<cpc, cn, probed>>
appVars == <<apc, ac, todo>>
vars == <<inputVars, lossVars, modeVars, checkVars, appVars, sent, layoutVars>>

BncCams == 0 .. Bnc - 1
Unknown == "unknown"   \* JDK_INPUT_FORMAT_UNKNOWN
None == "none"         \* no picture, no format

Formats == UNION {Sends[c] : c \in BncCams}

ASSUME VideoOutAssumption ==
  /\ SwapLive \in BOOLEAN
  /\ Bnc \in 1 .. Cams /\ Zoomed \subseteq BncCams
  /\ \A c \in BncCams : {Unknown, None} \cap Sends[c] = {}

-----------------------------------------------------------------------------
(* Binding (jdk_hi_3521.c).                                                *)

\* hi_3521_vi_unbind_output: only the input's own group is unbound.  The
\* numbers of the others are not below JDK_TOTAL_CAM() (where the cameras do
\* not fill a square, that of camera 0's decoder is, but every unbinding of
\* such a channel goes before another binding).
UnbindOutput(c) ==
  bind' = [bind EXCEPT ![c] = IF @ = "vi" THEN "none" ELSE @]

\* BindByForce and UnBindByForce, and hi_3521_vdec_bind_vo.
BindTo(c, source) == bind' = [bind EXCEPT ![c] = source]

-----------------------------------------------------------------------------
(* The loss thread.                                                        *)

\* JDK_vo_loss_loop begins: every analogue camera counts as lost.
LossBegin ==
  /\ dpc = "begin"
  /\ lostState' = [c \in BncCams |-> TRUE]
  /\ dpc' = "look"
  /\ UNCHANGED <<bind, s_bZoom, bLiveMode, lossLoopTrigger, dn, cur, fmt,
                 modeVars, checkVars, appVars, sent, layoutVars>>

\* The loop's test.
LossLook ==
  /\ dpc = "look"
  /\ dpc' = IF lossLoopTrigger THEN "query" ELSE "off"
  /\ UNCHANGED <<inputVars, dn, cur, fmt, modeVars, checkVars, appVars, sent,
                 layoutVars>>

\* Mutant: a camera past the last is looked at.
NextCamPast(here, next) ==
  IF dn < Bnc THEN dn' = dn + 1 /\ dpc' = here ELSE dn' = 0 /\ dpc' = next

\* One pass over the cameras: the next camera, or the next step of the loop.
NextCam(here, next) ==
  IF dn + 1 < Bnc THEN dn' = dn + 1 /\ dpc' = here ELSE dn' = 0 /\ dpc' = next

\* bncCamQueryLostState of one camera.
LossQuery ==
  /\ dpc = "query"
  /\ cur' = [cur EXCEPT ![dn] = sent[dn] = None]
  /\ NextCam("query", "act")
  /\ UNCHANGED <<inputVars, fmt, modeVars, checkVars, appVars, sent, layoutVars>>

\* A camera whose state did not change is passed over.
LossSame ==
  /\ dpc = "act" /\ cur[dn] = lostState[dn]
  /\ NextCam("act", "keep")
  /\ UNCHANGED <<inputVars, cur, fmt, modeVars, checkVars, appVars, sent,
                 layoutVars>>

\* The signal went (the input is unbound) or came back (the decoder is) ...
LossUnbind ==
  /\ dpc = "act" /\ cur[dn] # lostState[dn]
  /\ IF cur[dn] THEN UnbindOutput(dn) ELSE BindTo(dn, "none")
  /\ dpc' = "bind"
  /\ UNCHANGED <<s_bZoom, bLiveMode, lostState, lossLoopTrigger, dn, cur, fmt,
                 modeVars, checkVars, appVars, sent, layoutVars>>

\* ... and the other one is bound.
LossBind ==
  /\ dpc = "bind"
  /\ BindTo(dn, IF cur[dn] THEN "vdec" ELSE "vi")
  /\ NextCam("act", "keep")
  /\ UNCHANGED <<s_bZoom, bLiveMode, lostState, lossLoopTrigger, cur, fmt,
                 modeVars, checkVars, appVars, sent, layoutVars>>

\* Mutant: a camera that was lost once counts as lost for ever.
LossKeepSticky ==
  /\ dpc = "keep"
  /\ lostState' = [c \in BncCams |-> lostState[c] \/ cur[c]]
  /\ cur' = [c \in BncCams |-> FALSE]
  /\ dpc' = "format"
  /\ UNCHANGED <<bind, s_bZoom, bLiveMode, lossLoopTrigger, dn, fmt, modeVars,
                 checkVars, appVars, sent, layoutVars>>

\* "backup current state"
LossKeep ==
  /\ dpc = "keep"
  /\ lostState' = cur
  /\ cur' = [c \in BncCams |-> FALSE]
  /\ dpc' = "format"
  /\ UNCHANGED <<bind, s_bZoom, bLiveMode, lossLoopTrigger, dn, fmt, modeVars,
                 checkVars, appVars, sent, layoutVars>>

\* An input that is to go to another format: JDK_vin_set_input_format ...
LossFormat ==
  /\ dpc = "format"
  /\ IF viChnModeTemp[dn] # viChnMode[dn]
     THEN fmt' = viChnModeTemp[dn] /\ dpc' = "open" /\ dn' = dn
     ELSE fmt' = fmt /\ NextCam("format", "look")
  /\ UNCHANGED <<inputVars, cur, modeVars, checkVars, appVars, sent, layoutVars>>

\* Mutant: the input is opened and its new format not kept.
LossOpenUnkept ==
  /\ dpc = "open"
  /\ dpc' = "opened"
  /\ UNCHANGED <<inputVars, dn, cur, fmt, modeVars, checkVars, appVars, sent, layoutVars>>

\* ... closes it and opens it in that format, JDK_vin_open setting the mode ...
LossOpen ==
  /\ dpc = "open"
  /\ viChnMode' = [viChnMode EXCEPT ![dn] = fmt]
  /\ dpc' = "opened"
  /\ UNCHANGED <<inputVars, dn, cur, fmt, viChnModeTemp, checkVars, appVars, sent,
                 layoutVars>>

\* ... then the wanted one, which the check thread may have written meanwhile ...
LossOpened ==
  /\ dpc = "opened"
  /\ viChnModeTemp' = [viChnModeTemp EXCEPT ![dn] = fmt]
  /\ fmt' = None
  /\ dpc' = "unbind"
  /\ UNCHANGED <<inputVars, dn, cur, viChnMode, checkVars, appVars, sent, layoutVars>>

LossFormatUnbind ==
  /\ dpc = "unbind"
  /\ UnbindOutput(dn)
  /\ dpc' = "rebind"
  /\ UNCHANGED <<s_bZoom, bLiveMode, lostState, lossLoopTrigger, dn, cur, fmt,
                 modeVars, checkVars, appVars, sent, layoutVars>>

\* Mutant: the reopened input's camera does not count as lost.
LossFormatDoneSeen ==
  /\ dpc = "rebind"
  /\ BindTo(dn, "vdec")
  /\ lostState' = lostState
  /\ NextCam("format", "look")
  /\ UNCHANGED <<s_bZoom, bLiveMode, lossLoopTrigger, cur, fmt, modeVars,
                 checkVars, appVars, sent, layoutVars>>

\* ... and the channel waits on its decoder for the next round to see the
\* signal again.
LossFormatDone ==
  /\ dpc = "rebind"
  /\ BindTo(dn, "vdec")
  /\ lostState' = [lostState EXCEPT ![dn] = TRUE]
  /\ NextCam("format", "look")
  /\ UNCHANGED <<s_bZoom, bLiveMode, lossLoopTrigger, cur, fmt, modeVars,
                 checkVars, appVars, sent, layoutVars>>

Loss ==
  \/ LossBegin \/ LossLook \/ LossQuery \/ LossSame \/ LossUnbind \/ LossBind
  \/ LossKeep \/ LossFormat \/ LossOpen \/ LossOpened
  \/ LossFormatUnbind \/ LossFormatDone

-----------------------------------------------------------------------------
(* The check thread, with inputs of one camera each (JDK_VI_MUX_X1).       *)

CheckProbe ==
  /\ cpc = "probe"
  /\ probed' = IF sent[cn] = None THEN Unknown ELSE sent[cn]
  /\ cpc' = "compare"
  /\ UNCHANGED <<inputVars, lossVars, modeVars, cn, appVars, sent, layoutVars>>

NextCheck == probed' = None /\ cpc' = "probe" /\ cn' = (cn + 1) % Bnc

CheckCompare ==
  /\ cpc = "compare"
  /\ IF probed \in {viChnMode[cn], Unknown} THEN NextCheck
     ELSE cpc' = "write" /\ UNCHANGED <<cn, probed>>
  /\ UNCHANGED <<inputVars, lossVars, modeVars, appVars, sent, layoutVars>>

CheckWrite ==
  /\ cpc = "write"
  /\ viChnModeTemp' = [viChnModeTemp EXCEPT ![cn] = probed]
  /\ NextCheck
  /\ UNCHANGED <<inputVars, lossVars, viChnMode, appVars, sent, layoutVars>>

Check == CheckProbe \/ CheckCompare \/ CheckWrite

-----------------------------------------------------------------------------
(* The application's thread.  A call begins by clearing the zooms, camera  *)
(* by camera, which is nothing where no camera is zoomed.  (The loop of    *)
(* JDK_set_play_mode ends with JDK_MAX_PLAYBACK_CAM(), taken to reach all.) *)

NoZoom == \A c \in BncCams : ~s_bZoom[c]

\* A call begins with zooms to clear.
ZoomsFirst(name) ==
  /\ apc = "idle" /\ ~NoZoom
  /\ apc' = "clear" /\ todo' = name
  /\ UNCHANGED <<inputVars, lossVars, modeVars, checkVars, ac, sent, layoutVars>>

\* A call has no zoom to clear any more.
Cleared(name) ==
  /\ NoZoom
  /\ apc = "idle" \/ (apc = "clear" /\ todo = name)

\* JDK_clear_digital_zoom of a camera, in live mode with
\* hi_3521_bnc_vi_digital_zoom_deinit.
ClearZoom ==
  /\ apc = "clear"
  /\ \E c \in BncCams :
       /\ s_bZoom[c] /\ \A k \in 0 .. c - 1 : ~s_bZoom[k]
       /\ IF bLiveMode
          THEN UnbindOutput(c) /\ s_bZoom' = s_bZoom /\ apc' = "zoomout" /\ ac' = c
          ELSE /\ s_bZoom' = [s_bZoom EXCEPT ![c] = FALSE]
               /\ UNCHANGED <<bind, apc, ac>>
  /\ UNCHANGED <<bLiveMode, lostState, lossLoopTrigger, lossVars, modeVars,
                 checkVars, todo, sent, layoutVars>>

\* ... which ends with the input bound again.
ZoomOut ==
  /\ apc = "zoomout"
  /\ BindTo(ac, "vi")
  /\ s_bZoom' = [s_bZoom EXCEPT ![ac] = FALSE]
  /\ apc' = IF todo = None THEN "idle" ELSE "clear"
  /\ ac' = 0
  /\ UNCHANGED <<bLiveMode, lostState, lossLoopTrigger, lossVars, modeVars,
                 checkVars, todo, sent, layoutVars>>

\* JDK_set_vo_division
SetDivision(div, page) ==
  /\ Cleared("division")
  /\ SetLayout(div, page)
  /\ apc' = "idle" /\ todo' = None
  /\ UNCHANGED <<inputVars, lossVars, modeVars, checkVars, ac, sent>>

\* JDK_set_play_mode: the loss thread is told to end ...
SetPlayMode ==
  /\ Cleared("play")
  /\ lossLoopTrigger' = FALSE
  /\ apc' = "join" /\ todo' = None
  /\ UNCHANGED <<bind, s_bZoom, bLiveMode, lostState, lossVars, modeVars, checkVars,
                 ac, sent, layoutVars>>

\* Mutant: the loss thread is not joined.
PlayDoneAtOnce ==
  /\ apc = "join"
  /\ bLiveMode' = FALSE
  /\ bind' = [c \in BncCams |-> "vdec"]
  /\ apc' = "idle"
  /\ UNCHANGED <<s_bZoom, lostState, lossLoopTrigger, lossVars, modeVars, checkVars,
                 ac, todo, sent, layoutVars>>

\* ... and joined, the inputs are unbound and JDK_vdec_init binds the decoders.
PlayDone ==
  /\ apc = "join" /\ dpc = "off"
  /\ bLiveMode' = FALSE
  /\ bind' = [c \in BncCams |-> "vdec"]
  /\ apc' = "idle"
  /\ UNCHANGED <<s_bZoom, lostState, lossLoopTrigger, lossVars, modeVars, checkVars,
                 ac, todo, sent, layoutVars>>

\* JDK_set_live_mode, taken to be called to end playback only: the default
\* division, the decoders bound, and JDK_vo_loss_daemon.
SetLiveMode ==
  /\ ~bLiveMode /\ Cleared("live")
  /\ SetLayout(DefDivision, 0)
  /\ bLiveMode' = TRUE
  /\ bind' = [c \in BncCams |-> "vdec"]
  /\ lossLoopTrigger' = TRUE
  /\ lostState' = [c \in BncCams |-> TRUE]
  /\ dpc' = "begin"
  /\ apc' = "idle" /\ todo' = None
  /\ UNCHANGED <<s_bZoom, dn, cur, fmt, modeVars, checkVars, ac, sent>>

\* JDK_swap_vo_chn
Swap(g1, g2) ==
  /\ apc = "idle" /\ (bLiveMode => SwapLive)
  /\ SwapChn(g1, g2)
  /\ UNCHANGED <<inputVars, lossVars, modeVars, checkVars, appVars, sent>>

\* JDK_set_digital_zoom of a camera that is not zoomed: "no zoom in for vloss
\* channel", so the channel must be fed by its input.
ZoomBegin(c) ==
  /\ apc = "idle" /\ bLiveMode /\ ~s_bZoom[c] /\ bind[c] = "vi"
  /\ apc' = "zoomin" /\ ac' = c
  /\ UNCHANGED <<inputVars, lossVars, modeVars, checkVars, todo, sent, layoutVars>>

ZoomUnbind ==
  /\ apc = "zoomin"
  /\ UnbindOutput(ac)
  /\ apc' = "zoombind"
  /\ UNCHANGED <<s_bZoom, bLiveMode, lostState, lossLoopTrigger, lossVars, modeVars,
                 checkVars, ac, todo, sent, layoutVars>>

ZoomBind ==
  /\ apc = "zoombind"
  /\ BindTo(ac, "vpss2")
  /\ s_bZoom' = [s_bZoom EXCEPT ![ac] = TRUE]
  /\ apc' = "idle" /\ ac' = 0
  /\ UNCHANGED <<bLiveMode, lostState, lossLoopTrigger, lossVars, modeVars,
                 checkVars, todo, sent, layoutVars>>

\* JDK_set_digital_zoom outside live mode only crops the decoder's picture,
\* and of a zoomed camera it ends the zoom, in full screen with its group.
ZoomFlip(c) ==
  /\ apc = "idle" /\ (s_bZoom[c] \/ ~bLiveMode)
  /\ IF s_bZoom[c] /\ bLiveMode /\ nCurDivision = 1 /\ nCurPage = c
     THEN /\ UnbindOutput(c)
          /\ s_bZoom' = s_bZoom /\ apc' = "zoomout" /\ ac' = c
     ELSE /\ s_bZoom' = [s_bZoom EXCEPT ![c] = ~@]
          /\ UNCHANGED <<bind, apc, ac>>
  /\ UNCHANGED <<bLiveMode, lostState, lossLoopTrigger, lossVars, modeVars,
                 checkVars, todo, sent, layoutVars>>

AppCall ==
  \/ \E name \in {"division", "play"} : ZoomsFirst(name)
  \/ ~bLiveMode /\ ZoomsFirst("live")
  \/ \E g1, g2 \in 0 .. nCurDivision - 1 : g1 < g2 /\ Swap(g1, g2)
  \/ \E c \in Zoomed : ZoomBegin(c) \/ ZoomFlip(c)

AppAct ==
  \/ ClearZoom \/ ZoomOut \/ ZoomUnbind \/ ZoomBind
  \/ \E div \in Divisions : \E page \in 0 .. Cams - 1 : SetDivision(div, page)
  \/ SetPlayMode \/ PlayDone \/ SetLiveMode

-----------------------------------------------------------------------------
\* A camera is plugged in or out; one that comes in may be another one.
Plug(c) ==
  /\ \/ sent[c] # None /\ sent' = [sent EXCEPT ![c] = None]
     \/ sent[c] = None /\ \E f \in Sends[c] : sent' = [sent EXCEPT ![c] = f]
  /\ UNCHANGED <<inputVars, lossVars, modeVars, checkVars, appVars, layoutVars>>

\* After APP_JDK_init: live, decoders bound, both threads about to begin.
Init ==
  /\ LayoutInit
  /\ sent \in [BncCams -> Formats \cup {None}]
  /\ viChnMode \in [BncCams -> Formats] /\ viChnModeTemp = viChnMode
  /\ \A c \in BncCams : sent[c] \in Sends[c] \cup {None} /\ viChnMode[c] \in Sends[c]
  /\ bind = [c \in BncCams |-> "vdec"]
  /\ s_bZoom = [c \in BncCams |-> FALSE]
  /\ bLiveMode = TRUE /\ lossLoopTrigger = TRUE
  /\ lostState = [c \in BncCams |-> TRUE]
  /\ dpc = "begin" /\ dn = 0 /\ cur = [c \in BncCams |-> FALSE] /\ fmt = None
  /\ cpc = "probe" /\ cn = 0 /\ probed = None
  /\ apc = "idle" /\ ac = 0 /\ todo = None

Next == Loss \/ Check \/ AppCall \/ AppAct \/ \E c \in BncCams : Plug(c)

Spec == Init /\ [][Next]_vars

\* The threads run on and a call that was made goes on; nothing has to be
\* called, and no camera has to come or go.
FairSpec == Spec /\ WF_vars(Loss) /\ WF_vars(Check) /\ WF_vars(apc # "idle" /\ AppAct)

-----------------------------------------------------------------------------
TypeOK ==
  /\ LayoutTypeOK
  /\ sent \in [BncCams -> Formats \cup {None}]
  /\ bind \in [BncCams -> {"vi", "vdec", "vpss2", "none"}]
  /\ s_bZoom \in [BncCams -> BOOLEAN]
  /\ bLiveMode \in BOOLEAN /\ lossLoopTrigger \in BOOLEAN
  /\ lostState \in [BncCams -> BOOLEAN]
  /\ dpc \in {"off", "begin", "look", "query", "act", "bind", "keep", "format",
              "open", "opened", "unbind", "rebind"}
  /\ dn \in BncCams /\ cur \in [BncCams -> BOOLEAN] /\ fmt \in Formats \cup {None}
  /\ viChnMode \in [BncCams -> Formats] /\ viChnModeTemp \in [BncCams -> Formats]
  /\ cpc \in {"probe", "compare", "write"} /\ cn \in BncCams
  /\ probed \in Formats \cup {Unknown, None}
  /\ apc \in {"idle", "clear", "zoomin", "zoombind", "zoomout", "join"}
  /\ ac \in BncCams /\ todo \in {None, "division", "play", "live"}

\* While recordings are played every channel is fed by its decoder: no thread
\* and no zoom that was under way when JDK_set_play_mode was called binds an
\* input again.
PlayShowsDecoder ==
  apc = "idle" /\ ~bLiveMode => \A c \in BncCams : bind[c] = "vdec"

Steady(c, pictures) == bLiveMode /\ sent[c] \in pictures /\ (c \in Zoomed => apc = "idle")

\* A camera whose picture comes in is seen in the end, directly or through the
\* zoom, whatever was lost, reopened, zoomed or played before.
SignalShown ==
  \A c \in BncCams :
    <>[]Steady(c, Formats) => <>[](bind[c] \in {"vi", "vpss2"})

\* A camera that is away is not left on its input, but on the decoder that
\* shows the picture of the loss; zooms are another matter.
LossShown ==
  \A c \in BncCams \ Zoomed :
    <>[]Steady(c, {None}) => <>[](bind[c] = "vdec")

\* An input is opened in the format of its camera in the end, although the
\* two threads write the wanted format without a lock.
FormatFollows ==
  \A c \in BncCams :
    \A f \in Sends[c] :
      <>[]Steady(c, {f}) => <>[](viChnMode[c] = f)
=============================================================================
