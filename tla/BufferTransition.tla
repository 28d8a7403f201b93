-------------------------- MODULE BufferTransition --------------------------
(***************************************************************************)
(* BufferTransitionAnimator and BufferTransition of                        *)
(* src/rust/neomacs-display/src/core/buffer_transition.rs: at most one     *)
(* active buffer-switch transition, the old buffer's snapshot flag, and   *)
(* the content hash used to detect a switch.  One thread owns the         *)
(* animator; every method is one step.                                    *)
(*                                                                         *)
(* Time passes in the Wait step, TTickMs at a time; a transition keeps *)
(* age (now - start_time), capped once it has reached the duration.      *)
(* Durations are whole numbers of ticks, so the raw progress age/duration *)
(* is a ratio of small integers and the easing curves are computed       *)
(* exactly: progress is the numerator of the eased value over Den(d),    *)
(* a denominator common to the five curves for a duration of d ticks.    *)
(* f32 rounding is not modelled.  BufferTransition::completed is never   *)
(* observed: the update that sets it is the one on which the animator    *)
(* drops the transition.                                                  *)
(***************************************************************************)
EXTENDS Integers

CONSTANTS
    TEffects,       \* BufferTransitionEffect values the host passes
    Directions,     \* TransitionDirection values
    Durations,      \* set_default_duration arguments, in ms
    Sizes,          \* snapshot widths and heights snapshot_captured reports
    Hashes,         \* content hashes update_content_hash is given, 0 among them
    TTickMs

ASSUME /\ TTickMs > 0 /\ 200 % TTickMs = 0
       /\ \A d \in Durations : d % TTickMs = 0

NoEffect == "None"
Crossfade == "Crossfade"
Left == "Left"
EaseOut == "EaseOut"
Easings == {"Linear", EaseOut, "EaseIn", "EaseInOut", "EaseOutBack"}
NoTransition == [none |-> TRUE]     \* active_transition = None

VARIABLES
    defaultEffect, defaultDuration, active, hasSnapshot,
    lastContentHash, switchDetected    \* update_content_hash's last result

tvars == <<defaultEffect, defaultDuration, active, hasSnapshot, lastContentHash,
           switchDetected>>

Transition == [effect : TEffects, direction : Directions, duration : Durations \cup {200},
               easing : Easings, age : Nat, progress : Int, oldWidth : Sizes \cup {0}, oldHeight : Sizes \cup {0}]

BTypeOK ==
    /\ defaultEffect \in TEffects \cup {Crossfade}
    /\ defaultDuration \in Durations \cup {200}
    /\ active \in Transition \cup {NoTransition}
    /\ hasSnapshot \in BOOLEAN
    /\ lastContentHash \in Hashes \cup {0} /\ switchDetected \in BOOLEAN

Active == active # NoTransition

\* BufferTransitionAnimator::new.
BInit ==
    /\ defaultEffect = Crossfade /\ defaultDuration = 200
    /\ active = NoTransition /\ hasSnapshot = FALSE
    /\ lastContentHash = 0 /\ switchDetected = FALSE

\* BufferTransition::new: progress 0, started now, ease-out, no snapshot
\* size.
NewTransition(e, d, dur) ==
    [effect |-> e, direction |-> d, duration |-> dur, easing |-> EaseOut,
     age |-> 0, progress |-> 0, oldWidth |-> 0, oldHeight |-> 0]

-----------------------------------------------------------------------------
(* TransitionEasing::apply at t = a/d (0 <= a < d ticks), as a numerator  *)
(* over Den(d).  EaseOutBack's constants are c1 = 1.70158 and             *)
(* c3 = c1 + 1 = 2.70158, i.e. 170158 and 270158 hundred-thousandths.    *)

Den(d) == 200000 * d * d * d

\* Bug variant: ease-out written (1 - t)^3, the `1.0 -` dropped.
EaseFlipped(k, a, d) ==
    IF k = EaseOut THEN 200000 * (d - a) * (d - a) * (d - a)
    ELSE 200000 * a * d * d

Ease(k, a, d) ==
    LET u == a - d IN       \* (t - 1) * d
    CASE k = "Linear"      -> 200000 * a * d * d
      [] k = "EaseIn"      -> 200000 * a * a * a
      [] k = EaseOut       -> 200000 * (d * d * d + u * u * u)
      [] k = "EaseInOut"   -> IF 2 * a < d THEN 800000 * a * a * a
                              ELSE 200000 * (d * d * d + 4 * u * u * u)
      [] k = "EaseOutBack" -> 200000 * d * d * d + 2 * 270158 * u * u * u
                                + 2 * 170158 * u * u * d

-----------------------------------------------------------------------------
\* start_transition_with: the None effect clears any transition.
StartTransitionWith(e, d) ==
    /\ active' = IF e = NoEffect THEN NoTransition ELSE NewTransition(e, d, defaultDuration)
    /\ UNCHANGED <<defaultEffect, defaultDuration, hasSnapshot, lastContentHash, switchDetected>>

StartTransition == StartTransitionWith(defaultEffect, Left)

RequestSnapshot ==
    /\ hasSnapshot' = FALSE
    /\ UNCHANGED <<defaultEffect, defaultDuration, active, lastContentHash, switchDetected>>

\* snapshot_captured: the size goes to the transition already running, if
\* there is one.
SnapshotCaptured(w, h) ==
    /\ hasSnapshot' = TRUE
    /\ active' = IF Active THEN [active EXCEPT !.oldWidth = w, !.oldHeight = h] ELSE active
    /\ UNCHANGED <<defaultEffect, defaultDuration, lastContentHash, switchDetected>>

\* BufferTransition::update: raw progress elapsed / duration; at 1.0 or
\* more the transition completes.  With a zero duration the quotient is
\* infinite once any time has passed, and NaN (never >= 1.0) before.
Finished(t) == IF t.duration = 0 THEN t.age > 0 ELSE t.age >= t.duration

\* The progress update sets while the transition runs: the eased age, in
\* ticks.  With a zero duration the quotient is NaN and so is the eased
\* value; -1 stands for it.
Eased(t) ==
    IF t.duration = 0 THEN -1
    ELSE Ease(t.easing, t.age \div TTickMs, t.duration \div TTickMs)

\* Bug variant: a finished transition is marked but never dropped.
BUpdateNoDrop ==
    /\ Active
    /\ IF Finished(active)
         THEN hasSnapshot' = FALSE /\ UNCHANGED active
         ELSE active' = [active EXCEPT !.progress = Eased(active)] /\ UNCHANGED hasSnapshot
    /\ UNCHANGED <<defaultEffect, defaultDuration, lastContentHash, switchDetected>>

\* BufferTransitionAnimator::update: a completed transition is dropped
\* together with the snapshot.
BUpdate ==
    /\ Active
    /\ IF Finished(active)
         THEN active' = NoTransition /\ hasSnapshot' = FALSE
         ELSE active' = [active EXCEPT !.progress = Eased(active)] /\ UNCHANGED hasSnapshot
    /\ UNCHANGED <<defaultEffect, defaultDuration, lastContentHash, switchDetected>>

\* update_with_dt ignores dt: BufferTransition::update_with_dt reads the
\* clock exactly as update does.
BUpdateWithDt == BUpdate

SetDefaultEffect(e) ==
    /\ defaultEffect' = e
    /\ UNCHANGED <<defaultDuration, active, hasSnapshot, lastContentHash, switchDetected>>

SetDefaultDuration(d) ==
    /\ defaultDuration' = d
    /\ UNCHANGED <<defaultEffect, active, hasSnapshot, lastContentHash, switchDetected>>

\* update_content_hash: a change is reported only when a hash was seen
\* before; 0 counts as none.
UpdateContentHash(h) ==
    /\ switchDetected' = (h # lastContentHash /\ lastContentHash # 0)
    /\ lastContentHash' = h
    /\ UNCHANGED <<defaultEffect, defaultDuration, active, hasSnapshot>>

\* Time passes: the transition ages, up to the point where only
\* "finished" matters.
AgeCap(t) == IF t.duration = 0 THEN TTickMs ELSE t.duration

BWait ==
    /\ active' = IF Active
                   THEN [active EXCEPT !.age = IF @ + TTickMs > AgeCap(active)
                                                 THEN AgeCap(active) ELSE @ + TTickMs]
                   ELSE active
    /\ UNCHANGED <<defaultEffect, defaultDuration, hasSnapshot, lastContentHash, switchDetected>>

BStep ==
    \/ \E e \in TEffects, d \in Directions : StartTransitionWith(e, d)
    \/ StartTransition
    \/ RequestSnapshot
    \/ \E w, h \in Sizes : SnapshotCaptured(w, h)
    \/ BUpdate
    \/ BUpdateWithDt
    \/ \E e \in TEffects : SetDefaultEffect(e)
    \/ \E d \in Durations : SetDefaultDuration(d)
    \/ \E h \in Hashes : UpdateContentHash(h)

BNext == BStep \/ BWait

\* The render loop updates the animator every frame; frames are apart in
\* time.
BFairness == WF_tvars(BUpdate) /\ WF_tvars(BWait)

BSpec == BInit /\ [][BNext]_tvars /\ BFairness

-----------------------------------------------------------------------------
(* Properties.                                                             *)

Starting == (\E e \in TEffects, d \in Directions : StartTransitionWith(e, d)) \/ StartTransition

\* A transition that is not restarted finishes: update drops it, and its
\* snapshot, once the duration has passed, the zero duration included
\* (spec 4.6 "on reaching 1.0 it drops the transition and clears the
\* snapshot").
TransitionEnds ==
    (<>[][~Starting]_tvars) => <>[](~Active)

\* The eased progress of a running transition with a non-zero duration
\* stays within [0, 1] and never goes back from one update to the next,
\* however the updates fall between clock ticks and snapshots, so the
\* derived opacities, offsets and scales move one way (update 141-176
\* with TransitionEasing::apply 62-81 and the ease-out easing new
\* chooses, 126-138).
ProgressStep ==
    Active /\ Active' /\ active.duration > 0 /\ ~Starting =>
         /\ active.progress <= active'.progress
         /\ 0 <= active'.progress
         /\ active'.progress <= Den(active'.duration \div TTickMs)

ProgressAdvances == [][ProgressStep]_tvars

=============================================================================
