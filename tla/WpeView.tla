------------------------------ MODULE WpeView ------------------------------
(***************************************************************************)
(* WpeWebView of backend/wpe/view.rs: its lifecycle, its load state and   *)
(* the path of a rendered frame from the buffer-rendered callback through *)
(* update to the host that draws texture() and clears the redraw flag.    *)
(*                                                                         *)
(* WebKit is the environment: it loads (webLoading) and renders buffers.  *)
(* A rendered buffer is the next frame number; the callback runs on the   *)
(* main loop, as update does, so a callback is one step.  A texture is    *)
(* the number of the frame it was made from, 0 for None.  The host, not  *)
(* in src/, draws texture() whenever needs_redraw() and then calls        *)
(* clear_redraw_flag.                                                      *)
(***************************************************************************)
EXTENDS Integers

CONSTANTS
    MaxFrames,      \* buffers WebKit renders in one behaviour
    Widths,         \* widths resize is called with
    MaxWCalls       \* host calls in one behaviour

NoTexture == 0
Frames == 1..MaxFrames

\* WpeViewState values the code assigns (Creating and Error never are).
WReady   == "Ready"
WLoading == "Loading"

VARIABLES
    view,           \* "none" before new succeeds, "live", then "dropped"
    wstate,         \* WpeWebView.state
    width,          \* WpeWebView.width
    texture,        \* WpeWebView.texture
    needsRedraw,    \* WpeWebView.needs_redraw
    cbTexture,      \* BufferCallbackData.latest_texture
    cbAvailable,    \* BufferCallbackData.frame_available
    webLoading,     \* webkit_web_view_is_loading
    rendered,       \* frames WebKit has rendered so far
    lastImported,   \* history: the newest frame the callback made a texture of
    drawn,          \* the texture the host drew last
    wcalls

wvars == <<view, wstate, width, texture, needsRedraw, cbTexture, cbAvailable,
           webLoading, rendered, lastImported, drawn, wcalls>>

WInit ==
    /\ view = "none" /\ wstate = WReady /\ width = CHOOSE w \in Widths : TRUE
    /\ texture = NoTexture /\ needsRedraw = FALSE
    /\ cbTexture = NoTexture /\ cbAvailable = FALSE
    /\ webLoading = FALSE /\ rendered = 0 /\ lastImported = NoTexture
    /\ drawn = NoTexture /\ wcalls = 0

WHostCall == wcalls < MaxWCalls /\ wcalls' = wcalls + 1

WLive == view = "live"

-----------------------------------------------------------------------------
(* The host's calls on WpeWebView.                                        *)

\* new: Err on a null display, web view or WPEView; else a Ready view with
\* empty callback data and the handler connected.
WNew ==
    /\ WHostCall /\ view = "none"
    /\ \/ /\ view' = "live" /\ wstate' = WReady /\ width' \in Widths
          /\ UNCHANGED <<texture, needsRedraw, cbTexture, cbAvailable,
                         webLoading, rendered, lastImported, drawn>>
       \/ UNCHANGED <<view, wstate, width, texture, needsRedraw, cbTexture,
                      cbAvailable, webLoading, rendered, lastImported, drawn>>

\* load_uri / load_html: the state is set to Loading before the string
\* check; an interior NUL returns Err with WebKit not asked to load.
WLoad ==
    /\ WHostCall /\ WLive
    /\ wstate' = WLoading
    /\ \E valid \in BOOLEAN : webLoading' = (valid \/ webLoading)
    /\ UNCHANGED <<view, width, texture, needsRedraw, cbTexture, cbAvailable,
                   rendered, lastImported, drawn>>

\* reload: Loading, and WebKit loads again.
WReload ==
    /\ WHostCall /\ WLive
    /\ wstate' = WLoading /\ webLoading' = TRUE
    /\ UNCHANGED <<view, width, texture, needsRedraw, cbTexture, cbAvailable,
                   rendered, lastImported, drawn>>

\* go_back / go_forward: WebKit navigates when it can; the state is left.
WNavigate ==
    /\ WHostCall /\ WLive
    /\ \E can \in BOOLEAN : webLoading' = (can \/ webLoading)
    /\ UNCHANGED <<view, wstate, width, texture, needsRedraw, cbTexture,
                   cbAvailable, rendered, lastImported, drawn>>

\* stop: webkit_web_view_stop_loading; the state is left.
WStopLoading ==
    /\ WHostCall /\ WLive
    /\ webLoading' = FALSE
    /\ UNCHANGED <<view, wstate, width, texture, needsRedraw, cbTexture,
                   cbAvailable, rendered, lastImported, drawn>>

\* resize: new size and a redraw.
WResize(w) ==
    /\ WHostCall /\ WLive
    /\ width' = w /\ needsRedraw' = TRUE
    /\ UNCHANGED <<view, wstate, texture, cbTexture, cbAvailable, webLoading,
                   rendered, lastImported, drawn>>

\* update: the state from is_loading; if frame_available was set (swap to
\* false), a redraw and the callback's texture, if one is there (take).
WUpdate ==
    /\ WLive
    /\ wstate' = IF webLoading THEN WLoading ELSE WReady
    /\ cbAvailable' = FALSE
    /\ needsRedraw' = (needsRedraw \/ cbAvailable)
    /\ IF cbAvailable /\ cbTexture # NoTexture
         THEN texture' = cbTexture /\ cbTexture' = NoTexture
         ELSE UNCHANGED <<texture, cbTexture>>
    /\ UNCHANGED <<view, width, webLoading, rendered, lastImported, drawn, wcalls>>

\* clear_redraw_flag, called by the host after it drew texture().
WClearRedrawFlag == needsRedraw' = FALSE

WHostDraw ==
    /\ WLive /\ needsRedraw
    /\ drawn' = texture /\ WClearRedrawFlag
    /\ UNCHANGED <<view, wstate, width, texture, cbTexture, cbAvailable,
                   webLoading, rendered, lastImported, wcalls>>

\* Drop: the callback data is freed (the handler is not disconnected) and
\* the web view unreferenced.
WDrop ==
    /\ WHostCall /\ WLive
    /\ view' = "dropped" /\ cbTexture' = NoTexture /\ cbAvailable' = FALSE
    /\ UNCHANGED <<wstate, width, texture, needsRedraw, webLoading, rendered,
                   lastImported, drawn>>

-----------------------------------------------------------------------------
(* WebKit.                                                                *)

WLoadFinished ==
    /\ WLive /\ webLoading /\ webLoading' = FALSE
    /\ UNCHANGED <<view, wstate, width, texture, needsRedraw, cbTexture,
                   cbAvailable, rendered, lastImported, drawn, wcalls>>

\* Bug variant: the callback keeps a texture that update has not taken.
BufferRenderedKeepFirst(f, ok) ==
    IF ok THEN /\ cbTexture' = IF cbTexture = NoTexture THEN f ELSE cbTexture
               /\ cbAvailable' = TRUE /\ lastImported' = f
          ELSE UNCHANGED <<cbTexture, cbAvailable, lastImported>>

\* buffer_rendered_callback for frame f: when the pixel import fails or
\* gives no data it returns early; else it stores the new texture and then
\* sets frame_available.
BufferRendered(f, ok) ==
    IF ok THEN /\ cbTexture' = f /\ cbAvailable' = TRUE /\ lastImported' = f
          ELSE UNCHANGED <<cbTexture, cbAvailable, lastImported>>

\* WebKit renders the next frame and emits buffer-rendered.
WRender ==
    /\ WLive /\ rendered < MaxFrames /\ rendered' = rendered + 1
    /\ \E ok \in BOOLEAN : BufferRendered(rendered + 1, ok)
    /\ UNCHANGED <<view, wstate, width, texture, needsRedraw, webLoading, drawn, wcalls>>

\* A frame of the host with no live view: nothing of the view changes.
WNoView == ~WLive /\ UNCHANGED wvars

WNext ==
    \/ WNoView \/ WNew \/ WLoad \/ WReload \/ WNavigate \/ WStopLoading
    \/ \E w \in Widths : WResize(w)
    \/ WUpdate \/ WHostDraw \/ WDrop
    \/ WLoadFinished \/ WRender

\* The host calls update and draws every frame; WebKit finishes a load.
WFairness == WF_wvars(WUpdate) /\ WF_wvars(WHostDraw) /\ WF_wvars(WLoadFinished)

WSpec == WInit /\ [][WNext]_wvars /\ WFairness

-----------------------------------------------------------------------------
(* The pixel copy of buffer_rendered_callback.  A buffer is w x h pixels  *)
(* of four bytes (B, G, R, X) in rows of `pitch' bytes, pitch >= 4w, and  *)
(* its size is pitch * h.  Byte o of the buffer holds the value o, so the *)
(* copy shows which offset each output byte was read from; a read past    *)
(* the end of the slice is Panic.                                          *)

Panic == -1
Opaque == 255
BufHeights == 1..3          \* heights of the buffers checked
RowPads == {0, 4, 8}        \* bytes of padding at the end of each row

\* Bug variant: the padding branch is lost and rows are always 4w apart.
StrideUnpadded(w, h, size) == w * 4

\* The stride the callback infers from the slice length (view.rs:511-519).
Stride(w, h, size) == IF size # w * h * 4 THEN size \div h ELSE w * 4

\* pixels_with_alpha: for pixel p = row * w + col, bytes B, G, R read at
\* row * stride + col * 4, then 255.
CopyPixels(w, h, size) ==
    LET s == Stride(w, h, size)
        Read(o) == IF o < size THEN o ELSE Panic
    IN [i \in 0..(w * h * 4 - 1) |->
          LET p == i \div 4  c == i % 4
          IN IF c = 3 THEN Opaque ELSE Read((p \div w) * s + (p % w) * 4 + c)]

\* Reference: where WPE put byte c of pixel (row, col).
RefPixels(w, h, pitch) ==
    [i \in 0..(w * h * 4 - 1) |->
       LET p == i \div 4  c == i % 4
       IN IF c = 3 THEN Opaque ELSE (p \div w) * pitch + (p % w) * 4 + c]

-----------------------------------------------------------------------------
(* Properties.                                                            *)

\* No imported frame is lost on its way to the screen: the newest frame the
\* callback imported is still waiting in the callback data, or it is the
\* view's texture and the host has drawn it or will (the callback's store
\* and flag, update's swap and take, and the redraw flag, view.rs:324-336
\* and 556-557).
NewestFrameReachesScreen ==
    WLive /\ lastImported # NoTexture =>
        \/ cbAvailable /\ cbTexture = lastImported
        \/ texture = lastImported /\ (needsRedraw \/ drawn = lastImported)

\* The callback's texture is the buffer's image, whatever padding WPE puts
\* at the end of each row: the stride inferred from the slice length
\* (view.rs:511-519) lands every row copy (527-537) on that row's pixels.
PixelCopyMatches ==
    \A w \in Widths, h \in BufHeights, pad \in RowPads :
        CopyPixels(w, h, (4 * w + pad) * h) = RefPixels(w, h, 4 * w + pad)

=============================================================================
