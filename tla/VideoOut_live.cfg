CONSTANTS
  Cams = 2
  VoChns = 2
  Divisions = {1, 4}
  Hidden = Hidden
  Bnc = 2
  Zoomed = {0}
  p720 = p720
  p1080 = p1080
  Sends <- MCSends
  SwapLive = FALSE
SPECIFICATION FairSpec
INVARIANTS TypeOK PlayShowsDecoder MapIsScreen PageIsShown PicturesApart
PROPERTIES SignalShown LossShown FormatFollows
