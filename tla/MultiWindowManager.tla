------------------------- MODULE MultiWindowManager -------------------------
(***************************************************************************)
(* The render thread's window manager                                     *)
(* (src/rust/neomacs-display/src/render_thread/multi_window.rs).          *)
(*                                                                         *)
(* All of its state is touched by the render thread only, so every method *)
(* is one atomic step.  What interleaves is the order of calls: the host  *)
(* requests creations and destructions, which wait in two separate        *)
(* queues until the event loop drains them; glyph buffers are routed and *)
(* windows resized and redrawn in between.  Window and surface creation   *)
(* may fail; the scale factor of a new window's monitor is an input.      *)
(***************************************************************************)
EXTENDS Naturals, Sequences

CONSTANTS
    FrameIds,    \* host frame ids other than 0 (0 is the primary window)
    Sizes,       \* logical window sizes a request or a resize may carry
    Scales,      \* monitor scale factors
    MaxPending,  \* bound on each pending queue
    MaxWindows   \* bound on the number of OS windows ever created

ASSUME /\ 0 \notin FrameIds
       /\ Sizes \subseteq Nat /\ Scales \subseteq Nat \ {0}
       /\ MaxPending \in Nat /\ MaxWindows \in Nat

NoWindow == [none |-> TRUE]
NoFrame  == 0
WinitIds == 1..MaxWindows

\* The part of WindowState the routing and redraw logic depends on.
WindowRec == [winit : WinitIds, width : Nat, height : Nat, dirty : BOOLEAN,
              current : BOOLEAN, children : SUBSET FrameIds]

VARIABLES
    windows,        \* MultiWindowManager.windows: frame id -> WindowState
    winitToEmacs,   \* MultiWindowManager.winit_to_emacs
    pendingCreates, \* MultiWindowManager.pending_creates
    pendingDestroys,\* MultiWindowManager.pending_destroys
    nextWinit       \* the id the OS gives the next window it creates

vars == <<windows, winitToEmacs, pendingCreates, pendingDestroys, nextWinit>>

Request == [id : FrameIds, w : Sizes, h : Sizes]

HasWindow(f) == windows[f] # NoWindow

TypeOK ==
    /\ windows \in [FrameIds -> WindowRec \cup {NoWindow}]
    /\ winitToEmacs \in [WinitIds -> FrameIds \cup {NoFrame}]
    /\ pendingCreates \in Seq(Request) /\ Len(pendingCreates) <= MaxPending
    /\ pendingDestroys \in Seq(FrameIds) /\ Len(pendingDestroys) <= MaxPending
    /\ nextWinit \in 1..(MaxWindows + 1)

Init ==
    /\ windows = [f \in FrameIds |-> NoWindow]
    /\ winitToEmacs = [i \in WinitIds |-> NoFrame]
    /\ pendingCreates = <<>>
    /\ pendingDestroys = <<>>
    /\ nextWinit = 1

-----------------------------------------------------------------------------
(* request_create / request_destroy only queue the request (92-104).       *)
RequestCreate(f, w, h) ==
    /\ Len(pendingCreates) < MaxPending
    /\ pendingCreates' = Append(pendingCreates, [id |-> f, w |-> w, h |-> h])
    /\ UNCHANGED <<windows, winitToEmacs, pendingDestroys, nextWinit>>

RequestDestroy(f) ==
    /\ Len(pendingDestroys) < MaxPending
    /\ pendingDestroys' = Append(pendingDestroys, f)
    /\ UNCHANGED <<windows, winitToEmacs, pendingCreates, nextWinit>>

\* Bug variant: the contains_key test (116-119) missing, so a second
\* request for a frame replaces its window.
CreateOneNoExistCheck(st, req, out) ==
    IF ~out.ok
       THEN st
       ELSE [win  |-> [st.win EXCEPT ![req.id] =
                         [winit |-> st.next, width |-> req.w * out.scale,
                          height |-> req.h * out.scale, dirty |-> FALSE,
                          current |-> FALSE, children |-> {}]],
             rev  |-> [st.rev EXCEPT ![st.next] = req.id],
             next |-> st.next + 1]

(* One iteration of the loop of process_creates on the state             *)
(* st = [win, rev, next].  out.ok is whether create_window and           *)
(* create_surface both succeed (126, 137); out.scale the new window's     *)
(* scale factor.  The surface is configured with the physical size        *)
(* (130, 155-165), and the new WindowState is clean with no frame         *)
(* (176-189).                                                             *)
CreateOne(st, req, out) ==
    IF st.win[req.id] # NoWindow \/ ~out.ok
       THEN st
       ELSE [win  |-> [st.win EXCEPT ![req.id] =
                         [winit |-> st.next, width |-> req.w * out.scale,
                          height |-> req.h * out.scale, dirty |-> FALSE,
                          current |-> FALSE, children |-> {}]],
             rev  |-> [st.rev EXCEPT ![st.next] = req.id],
             next |-> st.next + 1]

RECURSIVE CreateAll(_, _, _)
CreateAll(st, reqs, outs) ==
    IF reqs = <<>> THEN st
    ELSE CreateAll(CreateOne(st, Head(reqs), Head(outs)), Tail(reqs), Tail(outs))

\* process_creates: take the whole queue and create each window (108-196).
ProcessCreates ==
    /\ pendingCreates # <<>>
    /\ nextWinit + Len(pendingCreates) <= MaxWindows + 1
    /\ \E outs \in [1..Len(pendingCreates) -> [ok : BOOLEAN, scale : Scales]] :
         LET st == CreateAll([win |-> windows, rev |-> winitToEmacs,
                              next |-> nextWinit],
                             pendingCreates, [i \in 1..Len(outs) |-> outs[i]])
         IN /\ windows' = st.win
            /\ winitToEmacs' = st.rev
            /\ nextWinit' = st.next
    /\ pendingCreates' = <<>>
    /\ UNCHANGED <<pendingDestroys>>

\* Bug variant: the reverse entry is left behind (line 203 missing).
DestroyOneKeepReverse(st, f) ==
    IF st.win[f] = NoWindow THEN st
    ELSE [win |-> [st.win EXCEPT ![f] = NoWindow], rev |-> st.rev]

\* process_destroys: remove each window and its reverse entry (199-208).
DestroyOne(st, f) ==
    IF st.win[f] = NoWindow THEN st
    ELSE [win |-> [st.win EXCEPT ![f] = NoWindow],
          rev |-> [st.rev EXCEPT ![st.win[f].winit] = NoFrame]]

RECURSIVE DestroyAll(_, _)
DestroyAll(st, fs) ==
    IF fs = <<>> THEN st ELSE DestroyAll(DestroyOne(st, Head(fs)), Tail(fs))

ProcessDestroys ==
    /\ pendingDestroys # <<>>
    /\ LET st == DestroyAll([win |-> windows, rev |-> winitToEmacs],
                            pendingDestroys)
       IN /\ windows' = st.win
          /\ winitToEmacs' = st.rev
    /\ pendingDestroys' = <<>>
    /\ UNCHANGED <<pendingCreates, nextWinit>>

-----------------------------------------------------------------------------
\* Bug variant: the frame_id != 0 test (241) missing, so a primary-window
\* child frame is installed in a secondary window.
RouteFrameNoZeroCheck(f, parent) ==
    /\ parent # f
    /\ \/ /\ parent # NoFrame /\ HasWindow(parent)
          /\ windows' = [windows EXCEPT ![parent].children = @ \cup {f},
                                        ![parent].dirty = TRUE]
       \/ /\ parent = NoFrame /\ HasWindow(f)
          /\ windows' = [windows EXCEPT ![f].current = TRUE,
                                        ![f].dirty = TRUE]
    /\ UNCHANGED <<winitToEmacs, pendingCreates, pendingDestroys, nextWinit>>

(* route_frame (239-260).  A child frame goes to the window whose root     *)
(* frame is its parent; a root frame replaces its window's current        *)
(* buffer; either marks the window dirty.  Otherwise nothing changes and  *)
(* the frame is left to the primary window.                               *)
RouteFrame(f, parent) ==
    /\ f # NoFrame /\ parent # f
    /\ \/ /\ parent # NoFrame /\ HasWindow(parent)
          /\ windows' = [windows EXCEPT ![parent].children = @ \cup {f},
                                        ![parent].dirty = TRUE]
       \/ /\ parent = NoFrame /\ HasWindow(f)
          /\ windows' = [windows EXCEPT ![f].current = TRUE,
                                        ![f].dirty = TRUE]
    /\ UNCHANGED <<winitToEmacs, pendingCreates, pendingDestroys, nextWinit>>

\* WindowState::handle_resize: ignore a zero size, else reconfigure the
\* surface and mark the window dirty (45-55).
HandleResize(f, w, h) ==
    /\ HasWindow(f)
    /\ w # 0 /\ h # 0
    /\ windows' = [windows EXCEPT ![f].width = w, ![f].height = h,
                                  ![f].dirty = TRUE]
    /\ UNCHANGED <<winitToEmacs, pendingCreates, pendingDestroys, nextWinit>>

\* The render pass of a dirty window (dirty_windows, 273-278) that
\* acquires its surface draws and clears the flag; the pass itself lies
\* outside this file.  A failed acquisition leaves the window dirty.
RenderPass(f) ==
    /\ HasWindow(f) /\ windows[f].dirty
    /\ windows' = [windows EXCEPT ![f].dirty = FALSE]
    /\ UNCHANGED <<winitToEmacs, pendingCreates, pendingDestroys, nextWinit>>

Next ==
    \/ \E f \in FrameIds, w, h \in Sizes : RequestCreate(f, w, h)
    \/ \E f \in FrameIds : RequestDestroy(f)
    \/ ProcessCreates
    \/ ProcessDestroys
    \/ \E f, p \in FrameIds \cup {NoFrame} : RouteFrame(f, p)
    \/ \E f \in FrameIds, w, h \in Sizes : HandleResize(f, w, h)
    \/ \E f \in FrameIds : RenderPass(f)

Spec == Init /\ [][Next]_vars

-----------------------------------------------------------------------------
(* Properties.                                                             *)

\* winit_to_emacs is exactly the inverse of windows: event dispatch by
\* get_by_winit finds the window of every live OS window and of no dead
\* one, across creations, failed creations and destructions (176-177, 202-203).
ReverseMapConsistent ==
    /\ \A f \in FrameIds : HasWindow(f) => winitToEmacs[windows[f].winit] = f
    /\ \A i \in WinitIds : winitToEmacs[i] # NoFrame =>
          /\ HasWindow(winitToEmacs[i])
          /\ windows[winitToEmacs[i]].winit = i

\* A window's dirty flag, once set by a routed frame or a resize, is
\* cleared only by a render pass of that window: no later request,
\* creation or routing of another frame loses a pending redraw
\* (116-119, 248, 255, 54).
DirtyUntilRendered ==
    [][\A f \in FrameIds :
         (HasWindow(f) /\ windows[f].dirty /\ windows'[f] # NoWindow)
            => (windows'[f].dirty \/ RenderPass(f))]_vars

\* Spec 4.7: a surface is never configured with a zero dimension.  Every
\* live window's surface has the window's physical size (process_creates
\* configures it with inner_size at 155-165, handle_resize at 45-55).
SurfacesNonZero ==
    \A f \in FrameIds : HasWindow(f) => windows[f].width > 0 /\ windows[f].height > 0

=============================================================================
