--------------------------- MODULE MCFrameUpdate ---------------------------
(***************************************************************************)
(* The components the renderer updates every frame, checked in one run:  *)
(* the buffer transition animator (BufferTransition), the video cache     *)
(* (VideoPlayer), the WPE web view (WpeView) and the WPE DMA-BUF export   *)
(* (DmaBuf).  They share no                                               *)
(* state, so a behaviour exercises one of them, named by part, chosen in  *)
(* the initial state; the others' variables stay at their initial values  *)
(* and their properties hold vacuously.                                   *)
(*                                                                         *)
(* Transition: the None effect and two others, two directions, the        *)
(* default duration and a zero one, one snapshot size, content hashes 0   *)
(* (none seen) and two others, time in steps of 100 ms.                   *)
(* Video: a stream two positions long, seeks to its start and end, loop   *)
(* counts -1 (infinite), 0 and 1, two loads and six host calls.           *)
(* Web view: three rendered frames, two widths and six host calls.        *)
(* DMA-BUF: three free descriptor numbers, plane counts 0 and 5 (both     *)
(* rejected), 1 and 2, and three successful exports, so that numbers      *)
(* closed by one buffer are handed to the next.                           *)
(***************************************************************************)
EXTENDS BufferTransition, VideoPlayer, WpeView, DmaBuf

CONSTANT Parts
VARIABLE part

MCTEffects == {NoEffect, Crossfade, "SlideLeft"}
MCDirections == {Left, "Up"}
MCLoopCounts == {-1, 0, 1}

uvars == <<part, tvars, vvars, wvars, dvars>>

UInit == part \in Parts /\ BInit /\ VInit /\ WInit /\ DInit

TransitionStep(A) == part = "transition" /\ A /\ UNCHANGED <<part, vvars, wvars, dvars>>
VideoStep(A)      == part = "video" /\ A /\ UNCHANGED <<part, tvars, wvars, dvars>>
ViewStep(A)       == part = "view" /\ A /\ UNCHANGED <<part, tvars, vvars, dvars>>
ExportStep(A)     == part = "dmabuf" /\ A /\ UNCHANGED <<part, tvars, vvars, wvars>>

UNext == TransitionStep(BNext) \/ VideoStep(VNext) \/ ViewStep(WNext) \/ ExportStep(DNext)

UFairness ==
    /\ WF_uvars(TransitionStep(BUpdate)) /\ WF_uvars(TransitionStep(BWait))
    /\ WF_uvars(VideoStep(VUpdateAll)) /\ WF_uvars(VideoStep(StreamFrame))
    /\ WF_uvars(VideoStep(StreamEnd))
    /\ WF_uvars(ViewStep(WUpdate)) /\ WF_uvars(ViewStep(WHostDraw))
    /\ WF_uvars(ViewStep(WLoadFinished))

USpec == UInit /\ [][UNext]_uvars /\ UFairness

\* TransitionEnds, LoopedPlaybackEnds, FlowsOnlyWhenPlaying and
\* NewestFrameReachesScreen (their modules state them) in the behaviours
\* of their part.
UTransitionEnds == part = "transition" => TransitionEnds
UProgressAdvances == [][part = "transition" => ProgressStep]_uvars
ULoopedPlaybackEnds == part = "video" => LoopedPlaybackEnds
UFlowsOnlyWhenPlaying == part = "video" => FlowsOnlyWhenPlaying
UNewestFrameReachesScreen == part = "view" => NewestFrameReachesScreen
UPixelCopyMatches == part = "view" => PixelCopyMatches
=============================================================================
