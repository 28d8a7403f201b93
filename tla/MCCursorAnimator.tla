-------------------------- MODULE MCCursorAnimator --------------------------
(* Every cursor mode; moves of one pixel, of three quarters of a pixel    *)
(* (moved, but below the one-pixel effect threshold) and of a quarter     *)
(* pixel (not a move); a width change of half a pixel (snapped) and of   *)
(* one pixel; set_particle_count with 0 and 150, clamped to 1 and 100,    *)
(* beside the default 15: railgun particles of different lifetimes; a    *)
(* speed of 200, clamped to 100; time in steps of 100 ms.                 *)
EXTENDS CursorAnimator

\* Longest railgun particle lifetime for each particle_count: the largest
\* 400 ms * (0.5 + |sin(7.13 i)| * 0.5) over i < count, in f32 and then
\* truncated to whole ms as spawn_railgun_particles does.
MCRailgunLife == [c \in {1, 2, 15, 100} |-> CASE c = 1 -> 200 [] c = 2 -> 349 [] OTHER -> 399]

MCModes == {None, Smooth, Railgun, Torpedo, Pixiedust, Sonicboom, Ripple, Wireframe}
=============================================================================
