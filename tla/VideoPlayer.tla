---------------------------- MODULE VideoPlayer ----------------------------
(***************************************************************************)
(* GpuVideoPlayer and VideoCache of backend/gtk4/video.rs, against an     *)
(* abstract GStreamer pipeline.  One player is loaded at a time           *)
(* (MaxPlayers = 1); the host's calls (load, play, pause, stop, seek,     *)
(* set_looping, remove) are capped at MaxCalls.                           *)
(*                                                                         *)
(* The pipeline is the environment, modelled from GStreamer's documented  *)
(* behaviour: gst is its state, pos a position in 0..MediaLen, eos that   *)
(* the sink has seen end-of-stream, failed that an error stopped the      *)
(* stream, bus the messages posted and not yet popped.  A flushing seek   *)
(* needs PAUSED or PLAYING and clears eos; READY and NULL rewind and     *)
(* clear an error, NULL also flushes the bus; PAUSED -> PLAYING on a sink *)
(* that is at end-of-stream posts EOS again; a state change to PAUSED or  *)
(* PLAYING fails on an errored pipeline.  The streaming thread advances   *)
(* pos while PLAYING and posts EOS at the end, or an error at any time.  *)
(***************************************************************************)
EXTENDS Integers, SequencesExt

CONSTANTS
    MediaLen,       \* last stream position; EOS is posted there
    SeekTargets,    \* positions the host seeks to
    LoopCounts,     \* set_looping arguments (-1 = infinite)
    MaxLoads,       \* ids VideoCache::load may hand out
    MaxCalls        \* host calls in one behaviour

Stopped == "Stopped"
Playing == "Playing"
Paused  == "Paused"
VError  == "Error"
NoVideo == 0

VARIABLES
    gst, pos, eos, failed, bus,          \* the GStreamer pipeline
    vstate, loopCount, loopsRemaining,   \* GpuVideoPlayer fields
    loaded, nextId,                      \* VideoCache: the live id, next_id
    calls

vvars == <<gst, pos, eos, failed, bus, vstate, loopCount, loopsRemaining, loaded, nextId, calls>>
pipe  == [gst |-> gst, pos |-> pos, eos |-> eos, failed |-> failed, bus |-> bus]

VTypeOK ==
    /\ gst \in {"Null", "Ready", "Paused", "Playing"} /\ pos \in 0..MediaLen
    /\ eos \in BOOLEAN /\ failed \in BOOLEAN /\ bus \in Seq({"Eos", "Error"})
    /\ vstate \in {Stopped, Playing, Paused, VError}
    /\ loopCount \in LoopCounts \cup {0} /\ loopsRemaining \in Nat
    /\ loaded \in 0..MaxLoads /\ nextId \in 1..(MaxLoads + 1) /\ calls \in 0..MaxCalls

-----------------------------------------------------------------------------
(* The pipeline, as operators on a record p with its five fields.         *)

Live(p) == p.gst \in {"Paused", "Playing"}

\* Element::set_state: whether it returns Ok, and the pipeline after it.
SetStateOk(p, t) == ~(p.failed /\ t \in {"Paused", "Playing"})
SetState(p, t) ==
    IF ~SetStateOk(p, t) THEN p
    ELSE IF t \in {"Ready", "Null"}
      THEN [p EXCEPT !.gst = t, !.pos = 0, !.eos = FALSE, !.failed = FALSE,
                     !.bus = IF t = "Null" THEN <<>> ELSE @]
    ELSE IF ~Live(p) THEN [p EXCEPT !.gst = t, !.pos = 0, !.eos = FALSE]
    ELSE [p EXCEPT !.gst = t,
                   !.bus = IF p.gst = "Paused" /\ t = "Playing" /\ p.eos
                             THEN Append(@, "Eos") ELSE @]

\* seek_simple with FLUSH: Err unless the pipeline is live.
SeekOk(p) == Live(p) /\ ~p.failed
Seek(p, x) == IF SeekOk(p) THEN [p EXCEPT !.pos = x, !.eos = FALSE] ELSE p

SetPipe(p) ==
    /\ gst' = p.gst /\ pos' = p.pos /\ eos' = p.eos /\ failed' = p.failed /\ bus' = p.bus

\* Frames are produced while the pipeline plays and has not ended.
Flowing == gst = "Playing" /\ ~failed /\ ~eos

VInit ==
    /\ gst = "Null" /\ pos = 0 /\ eos = FALSE /\ failed = FALSE /\ bus = <<>>
    /\ vstate = Stopped /\ loopCount = 0 /\ loopsRemaining = 0
    /\ loaded = NoVideo /\ nextId = 1 /\ calls = 0

-----------------------------------------------------------------------------
(* The host's calls.  Each is one call of the budget.                     *)

HostCall == calls < MaxCalls /\ calls' = calls + 1

\* The fields GpuVideoPlayer::new gives a player: Stopped, no loop.
NewPlayer == vstate' = Stopped /\ loopCount' = 0 /\ loopsRemaining' = 0

\* Drop for GpuVideoPlayer: set_state(NULL), its result ignored.
DropPlayer == SetPipe(SetState(pipe, "Null"))

\* VideoCache::load: GpuVideoPlayer::new may fail (GStreamer or the sink
\* missing) and then no id is used.  The pipeline of a new player is in
\* NULL, as the dropped one was left.
VLoad ==
    /\ HostCall /\ loaded = NoVideo /\ nextId <= MaxLoads
    /\ \/ /\ loaded' = nextId /\ nextId' = nextId + 1
          /\ NewPlayer /\ SetPipe(SetState(pipe, "Null"))
       \/ UNCHANGED <<gst, pos, eos, failed, bus, vstate, loopCount, loopsRemaining, loaded, nextId>>

\* VideoCache::remove: the player is dropped.  The variables of the player
\* return to a new player's, standing for no player.
VRemove ==
    /\ HostCall /\ loaded # NoVideo
    /\ loaded' = NoVideo /\ DropPlayer /\ NewPlayer
    /\ UNCHANGED nextId

\* play / pause / stop: set_state, and on Ok the new state.
ChangeState(t, s) ==
    /\ HostCall /\ loaded # NoVideo
    /\ SetPipe(SetState(pipe, t))
    /\ vstate' = IF SetStateOk(pipe, t) THEN s ELSE vstate
    /\ UNCHANGED <<loopCount, loopsRemaining, loaded, nextId>>

VPlay  == ChangeState("Playing", Playing)
VPause == ChangeState("Paused", Paused)
VStop  == ChangeState("Ready", Stopped)

VSeekTo(x) ==
    /\ HostCall /\ loaded # NoVideo
    /\ SetPipe(Seek(pipe, x))
    /\ UNCHANGED <<vstate, loopCount, loopsRemaining, loaded, nextId>>

\* Bug variant: a negative count is stored in loops_remaining as well.
VSetLoopingNoClamp(c) ==
    /\ HostCall /\ loaded # NoVideo
    /\ loopCount' = c /\ loopsRemaining' = c
    /\ UNCHANGED <<gst, pos, eos, failed, bus, vstate, loaded, nextId>>

\* set_looping: -1 loops forever, 0 never, n > 0 n more times.
VSetLooping(c) ==
    /\ HostCall /\ loaded # NoVideo
    /\ loopCount' = c /\ loopsRemaining' = IF c > 0 THEN c ELSE 0
    /\ UNCHANGED <<gst, pos, eos, failed, bus, vstate, loaded, nextId>>

-----------------------------------------------------------------------------
(* GpuVideoPlayer::update: pop at most five messages.  A player record r  *)
(* carries the pipeline fields and vstate and rem (loops_remaining).      *)

BusBatch == 5

\* Bug variant: a finite loop count is never used up.
OnMessageNoDecrement(r, m) ==
    IF m = "Error" THEN [r EXCEPT !.vstate = VError]
    ELSE IF loopCount < 0 \/ r.rem > 0
      THEN LET p == SetState(Seek(r, 0), "Playing") IN [p EXCEPT !.rem = r.rem]
      ELSE [r EXCEPT !.vstate = Stopped]

\* One message: on EOS loop (seek to 0 and set PLAYING, results ignored)
\* or stop; on an error enter the Error state.
OnMessage(r, m) ==
    IF m = "Error" THEN [r EXCEPT !.vstate = VError]
    ELSE IF loopCount < 0 \/ r.rem > 0
      THEN LET p == SetState(Seek(r, 0), "Playing")
           IN [p EXCEPT !.rem = IF loopCount > 0 THEN r.rem - 1 ELSE r.rem]
      ELSE [r EXCEPT !.vstate = Stopped]

VUpdate ==
    /\ loaded # NoVideo
    /\ LET n    == IF Len(bus) < BusBatch THEN Len(bus) ELSE BusBatch
           r0   == [pipe EXCEPT !.bus = SubSeq(bus, n + 1, Len(bus))] @@
                   [vstate |-> vstate, rem |-> loopsRemaining]
           r    == FoldLeft(OnMessage, r0, SubSeq(bus, 1, n))
       IN /\ SetPipe(r) /\ vstate' = r.vstate /\ loopsRemaining' = r.rem
    /\ UNCHANGED <<loopCount, loaded, nextId, calls>>

\* VideoCache::update_all: update on every player, none if the cache is
\* empty.
VUpdateAll == IF loaded = NoVideo THEN UNCHANGED vvars ELSE VUpdate

-----------------------------------------------------------------------------
(* The streaming thread.                                                  *)

StreamFrame ==
    /\ Flowing /\ pos < MediaLen /\ pos' = pos + 1
    /\ UNCHANGED <<gst, eos, failed, bus, vstate, loopCount, loopsRemaining, loaded, nextId, calls>>

StreamEnd ==
    /\ Flowing /\ pos = MediaLen
    /\ eos' = TRUE /\ bus' = Append(bus, "Eos")
    /\ UNCHANGED <<gst, pos, failed, vstate, loopCount, loopsRemaining, loaded, nextId, calls>>

StreamError ==
    /\ Live(pipe) /\ ~failed
    /\ failed' = TRUE /\ bus' = Append(bus, "Error")
    /\ UNCHANGED <<gst, pos, eos, vstate, loopCount, loopsRemaining, loaded, nextId, calls>>

VNext ==
    \/ VLoad \/ VRemove \/ VPlay \/ VPause \/ VStop
    \/ \E x \in SeekTargets : VSeekTo(x)
    \/ \E c \in LoopCounts : VSetLooping(c)
    \/ VUpdateAll
    \/ StreamFrame \/ StreamEnd \/ StreamError

\* The render loop calls update_all every frame; GStreamer's streaming
\* thread keeps a PLAYING pipeline flowing.  Errors are not forced.
VFairness == WF_vvars(VUpdateAll) /\ WF_vvars(StreamFrame) /\ WF_vvars(StreamEnd)

VSpec == VInit /\ [][VNext]_vvars /\ VFairness

-----------------------------------------------------------------------------
(* Properties.                                                            *)

\* A video with a finite loop count comes to rest: once the host stops
\* calling, update's EOS handling restarts the stream at most
\* loop_count more times (update at video.rs:380), and then the pipeline
\* stops producing frames.
LoopedPlaybackEnds == <>[](loopCount >= 0 => ~Flowing)

\* The pipeline produces frames only while the player reports Playing: a
\* paused or stopped video stays still (pause, stop and update's restart
\* at video.rs:385-388).
FlowsOnlyWhenPlaying == Flowing => vstate = Playing

=============================================================================
