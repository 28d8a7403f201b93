--------------------------- MODULE CursorAnimator ---------------------------
(***************************************************************************)
(* CursorAnimator of src/rust/neomacs-display/src/core/cursor_animation.rs *)
(* : the smoothed cursor, its blink, and the particles, rings and torpedo  *)
(* trail spawned when the cursor moves.  The animator is owned by one      *)
(* thread; every method is one step.                                      *)
(*                                                                         *)
(* Time.  The code reads Instant::now(); here time passes in the Wait      *)
(* step, TickMs at a time, and every timestamp the animator keeps is held  *)
(* as an age.  A particle list, the ring list and the trail are each       *)
(* abstracted to whether the list is non-empty and the time to live of     *)
(* its longest-lived entry: that is all retain(is_alive) and the           *)
(* emptiness tests of update and is_animating depend on.  Velocities,      *)
(* sizes, colours and the cursor style are data no control flow reads.     *)
(*                                                                         *)
(* Positions are in quarter pixels, so the 0.5 px thresholds are 2.  The   *)
(* exponential step current += (target - current) * (1 - exp(-speed*dt))   *)
(* moves a coordinate toward its target by a factor in (0, 1] when dt > 0 *)
(* and not at all when dt = 0; it is modelled as a move to any lattice    *)
(* point strictly closer to the target, the target included.              *)
(***************************************************************************)
EXTENDS Integers

CONSTANTS
    Modes,          \* CursorAnimationMode values set_mode is called with
    XTargets,       \* target coordinates set_target is called with
    YTargets,
    WTargets,
    HTargets,
    Speeds,         \* arguments of set_animation_speed
    Counts,         \* arguments of set_particle_count
    RailgunLife,    \* particle_count -> lifetime (ms) of its longest railgun particle
    TickMs          \* time that passes in one Wait step

None == "None"
Smooth == "Smooth"
Railgun == "Railgun"
Torpedo == "Torpedo"
Pixiedust == "Pixiedust"
Sonicboom == "Sonicboom"
Ripple == "Ripple"
Wireframe == "Wireframe"

BlinkInterval == 530        \* blink_interval
ParticleLifetime == 400     \* particle_lifetime
SonicboomLifetime == 300    \* spawn_sonicboom's ring
RippleLifetime == 500       \* the last of spawn_ripple's three rings (400 + 2 * 50)
TrailLifetime == 200        \* update's trail_lifetime
Snap == 2                   \* 0.5 px

VARIABLES
    mode, target, current, animating,
    blinkOn, blinkAge,                    \* blink_on, now - last_blink_toggle
    animationSpeed, particleCount,
    particles, rings, trail,              \* [live, ttl] abstractions of the lists
    timePassed                            \* now > last_update

cvars == <<mode, target, current, animating, blinkOn, blinkAge,
           animationSpeed, particleCount, particles, rings, trail, timePassed>>

Effects == [live : BOOLEAN, ttl : 0..RippleLifetime]
NoEffects == [live |-> FALSE, ttl |-> 0]
Abs(n) == IF n < 0 THEN -n ELSE n
Clamp(v, lo, hi) == IF v < lo THEN lo ELSE IF v > hi THEN hi ELSE v
Down(a, d) == IF a > d THEN a - d ELSE 0
Higher(a, b) == IF a > b THEN a ELSE b

\* The coordinates between the smallest and the largest target.
Span(S) == UNION {a..b : a, b \in S}
Box == [x : Span(XTargets), y : Span(YTargets), w : Span(WTargets), h : Span(HTargets)]

CTypeOK ==
    /\ mode \in Modes \cup {Smooth}
    /\ target \in Box /\ current \in Box
    /\ animating \in BOOLEAN /\ blinkOn \in BOOLEAN
    /\ blinkAge \in 0..BlinkInterval
    /\ animationSpeed \in 1..100 /\ particleCount \in DOMAIN RailgunLife
    /\ particles \in Effects /\ rings \in Effects /\ trail \in Effects
    /\ timePassed \in BOOLEAN

\* CursorAnimator::new.
CInit ==
    /\ mode = Smooth
    /\ \E x \in XTargets, y \in YTargets, w \in WTargets, h \in HTargets :
         /\ target = [x |-> x, y |-> y, w |-> w, h |-> h]
         /\ current = target
    /\ animating = FALSE /\ blinkOn = TRUE /\ blinkAge = 0
    /\ animationSpeed = 15 /\ particleCount = 15
    /\ particles = NoEffects /\ rings = NoEffects /\ trail = NoEffects
    /\ timePassed = FALSE

-----------------------------------------------------------------------------
\* An entry spawned now joins a list: the list is non-empty and lives at
\* least as long as the new entry.
Spawn(list, life) == [live |-> TRUE, ttl |-> Higher(list.ttl, life)]

\* retain(|p| p.is_alive(now)): an entry lives while its age < lifetime.
Retain(list) == [live |-> list.live /\ list.ttl > 0, ttl |-> list.ttl]

\* add_trail_point (the trim to max_trail_length keeps the newest point).
AddTrailPoint(list) == Spawn(list, TrailLifetime)

\* on_cursor_move, after set_target has stored the new target t and moved
\* from old target o: animating, blink reset, and the mode's effect unless
\* the distance moved is below one pixel.
OnCursorMove(o, t) ==
    LET dx == t.x - o.x
        dy == t.y - o.y
        far == dx * dx + dy * dy >= 16
    IN /\ animating' = TRUE /\ blinkOn' = TRUE /\ blinkAge' = 0
       /\ particles' = IF far /\ mode = Railgun THEN Spawn(particles, RailgunLife[particleCount])
                       ELSE IF far /\ mode = Pixiedust THEN Spawn(particles, ParticleLifetime)
                       ELSE particles
       /\ rings' = IF far /\ mode = Sonicboom THEN Spawn(rings, SonicboomLifetime)
                   ELSE IF far /\ mode = Ripple THEN Spawn(rings, RippleLifetime)
                   ELSE rings
       /\ trail' = IF far /\ mode = Torpedo THEN AddTrailPoint(trail) ELSE trail

\* set_target: moved when either axis changes by more than 0.5 px.
\* last_target_x/y are only read by the on_cursor_move of the same call,
\* which sees them as the old target, so they are not kept as state.
SetTarget(x, y, w, h) ==
    LET t == [x |-> x, y |-> y, w |-> w, h |-> h]
    IN /\ target' = t
       /\ IF Abs(target.x - x) > Snap \/ Abs(target.y - y) > Snap
            THEN OnCursorMove(target, t)
            ELSE UNCHANGED <<animating, blinkOn, blinkAge, particles, rings, trail>>
       /\ UNCHANGED <<mode, current, animationSpeed, particleCount, timePassed>>

\* One coordinate after the exponential step.
Toward(c, t, moves) ==
    IF ~moves \/ c = t THEN {c}
    ELSE {v \in (IF c < t THEN c..t ELSE t..c) : Abs(t - v) < Abs(t - c)}

\* Bug variant: in torpedo mode a trail point is added on every frame.
FrameTorpedoAlways(moves) ==
    /\ IF blinkAge >= BlinkInterval
         THEN blinkOn' = ~blinkOn /\ blinkAge' = 0
         ELSE UNCHANGED <<blinkOn, blinkAge>>
    /\ IF mode # None
         THEN \E nx \in Toward(current.x, target.x, moves), ny \in Toward(current.y, target.y, moves),
                 nw \in Toward(current.w, target.w, moves), nh \in Toward(current.h, target.h, moves) :
                IF Abs(target.x - nx) < Snap /\ Abs(target.y - ny) < Snap
                  THEN /\ current' = [x |-> target.x, y |-> target.y, w |-> nw, h |-> nh]
                       /\ animating' = FALSE
                  ELSE /\ current' = [x |-> nx, y |-> ny, w |-> nw, h |-> nh]
                       /\ UNCHANGED animating
         ELSE current' = target /\ animating' = FALSE
    /\ particles' = Retain(particles)
    /\ rings' = Retain(rings)
    /\ trail' = IF mode = Torpedo THEN AddTrailPoint(Retain(trail)) ELSE Retain(trail)

\* The body shared by update and update_with_dt: blink, smoothing (snap
\* and idle when both axes are within 0.5 px), retain the particles and
\* rings, drop old trail points, and in torpedo mode add one while moving.
\* moves says whether dt > 0.
Frame(moves) ==
    /\ IF blinkAge >= BlinkInterval
         THEN blinkOn' = ~blinkOn /\ blinkAge' = 0
         ELSE UNCHANGED <<blinkOn, blinkAge>>
    /\ IF mode # None
         THEN \E nx \in Toward(current.x, target.x, moves), ny \in Toward(current.y, target.y, moves),
                 nw \in Toward(current.w, target.w, moves), nh \in Toward(current.h, target.h, moves) :
                IF Abs(target.x - nx) < Snap /\ Abs(target.y - ny) < Snap
                  THEN /\ current' = [x |-> target.x, y |-> target.y, w |-> nw, h |-> nh]
                       /\ animating' = FALSE
                  ELSE /\ current' = [x |-> nx, y |-> ny, w |-> nw, h |-> nh]
                       /\ UNCHANGED animating
         ELSE current' = target /\ animating' = FALSE
    /\ particles' = Retain(particles)
    /\ rings' = Retain(rings)
    /\ trail' = IF mode = Torpedo /\ animating' THEN AddTrailPoint(Retain(trail)) ELSE Retain(trail)

\* update: dt is the time since the last update, and last_update = now.
Update ==
    /\ Frame(timePassed)
    /\ timePassed' = FALSE
    /\ UNCHANGED <<mode, target, animationSpeed, particleCount>>

\* update_with_dt: the caller's dt drives the smoothing; blink and
\* lifetimes still follow the clock, and last_update is left alone.
UpdateWithDt(moves) ==
    /\ Frame(moves)
    /\ UNCHANGED <<mode, target, animationSpeed, particleCount, timePassed>>

\* Bug variant: set_mode forgets the trail.
SetModeKeepTrail(m) ==
    /\ mode' = m
    /\ particles' = NoEffects /\ rings' = NoEffects
    /\ UNCHANGED <<target, current, animating, blinkOn, blinkAge,
                   animationSpeed, particleCount, trail, timePassed>>

\* set_mode clears every effect.
SetMode(m) ==
    /\ mode' = m
    /\ particles' = NoEffects /\ rings' = NoEffects /\ trail' = NoEffects
    /\ UNCHANGED <<target, current, animating, blinkOn, blinkAge,
                   animationSpeed, particleCount, timePassed>>

\* Bug variant: the speed is not clamped.
SetAnimationSpeedNoClamp(s) ==
    /\ animationSpeed' = s
    /\ UNCHANGED <<mode, target, current, animating, blinkOn, blinkAge,
                   particleCount, particles, rings, trail, timePassed>>

SetAnimationSpeed(s) ==
    /\ animationSpeed' = Clamp(s, 1, 100)
    /\ UNCHANGED <<mode, target, current, animating, blinkOn, blinkAge,
                   particleCount, particles, rings, trail, timePassed>>

SetParticleCount(c) ==
    /\ particleCount' = Clamp(c, 1, 100)
    /\ UNCHANGED <<mode, target, current, animating, blinkOn, blinkAge,
                   animationSpeed, particles, rings, trail, timePassed>>

\* Time passes between calls: every age grows by TickMs.
Wait ==
    /\ blinkAge' = IF blinkAge + TickMs > BlinkInterval THEN BlinkInterval ELSE blinkAge + TickMs
    /\ particles' = [particles EXCEPT !.ttl = Down(@, TickMs)]
    /\ rings' = [rings EXCEPT !.ttl = Down(@, TickMs)]
    /\ trail' = [trail EXCEPT !.ttl = Down(@, TickMs)]
    /\ timePassed' = TRUE
    /\ UNCHANGED <<mode, target, current, animating, blinkOn,
                   animationSpeed, particleCount>>

CStep ==
    \/ \E x \in XTargets, y \in YTargets, w \in WTargets, h \in HTargets : SetTarget(x, y, w, h)
    \/ Update
    \/ \E moves \in BOOLEAN : UpdateWithDt(moves)
    \/ \E m \in Modes : SetMode(m)
    \/ \E s \in Speeds : SetAnimationSpeed(s)
    \/ \E c \in Counts : SetParticleCount(c)

CNext == CStep \/ Wait

\* The render loop calls update every frame, and frames are apart in time.
CFairness == WF_cvars(Update) /\ WF_cvars(Wait)

CSpec == CInit /\ [][CNext]_cvars /\ CFairness

-----------------------------------------------------------------------------
(* Properties.                                                             *)

\* is_animating, and the value update returns.
IsAnimating == animating \/ particles.live \/ rings.live
UpdateActive == IsAnimating \/ trail.live

\* Only the current mode's effects are ever live: set_mode clears the
\* lists, on_cursor_move spawns only the mode's effect, and update adds
\* trail points only in torpedo mode (spec: "mode change clears
\* particles, rings, and trail").
EffectsMatchMode ==
    /\ particles.live => mode \in {Railgun, Pixiedust}
    /\ rings.live => mode \in {Sonicboom, Ripple}
    /\ trail.live => mode = Torpedo

\* Once the target stops changing, the animator comes to rest: the cursor
\* snaps to its target and every particle, ring and trail point expires,
\* so update eventually returns false for good (spec "Animator
\* convergence" and the lifetimes of on_cursor_move's effects).
CursorSettles ==
    (<>[][UNCHANGED target]_cvars) => <>[](~UpdateActive)

\* Spec 3: the animator is active iff current != target or an effect is
\* live.  After every update (update and update_with_dt, lines 419-487)
\* the value it returns says whether the cursor is still moving: it is
\* false only when the cursor has reached its target in all four
\* dimensions and every particle, ring and trail point is gone.
UpdateReportsMotion ==
    [][(Update \/ \E mv \in BOOLEAN : UpdateWithDt(mv))
          => (UpdateActive' <=> (current' # target' \/ particles'.live
                                 \/ rings'.live \/ trail'.live))]_cvars

=============================================================================
