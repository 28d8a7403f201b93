# TLA+ models of neomacs

This directory holds TLA+ specifications of the concurrent and stateful parts of
the neomacs Rust sources (`src/rust/...`). There are modules, TLC configurations
and `PROJECT.json`, which lists:

- each component and its modelling status;
- each run and its expected outcome;
- the mutant that each passing property must catch;
- the source lines that each definition translates;
- the findings;
- the hazards of the code.

Run a check from this directory with `tlc -workers 2 -config <cfg> <MC module>`.

## 1. The system and its parts

neomacs replaces the display core of Emacs with a Rust library. It also has an
experimental Rust Lisp runtime. The parts in `src/` are:

| Part | Source | State it keeps | Operations |
|---|---|---|---|
| Worker task runtime | `neovm-worker/src/lib.rs` | handle counter (atomic), bounded FIFO queue and `closed` flag under a mutex with a condition variable, task map under an RwLock, per-task status mutex and cancel flag | `spawn`, `cancel`, `task_status`, `close`, worker loop (`start_dummy_workers`) |
| Multi-window manager | `neomacs-display/src/render_thread/multi_window.rs` | map frame id → window state (surface size, dirty flag, current frame, child frames), reverse map OS window → frame id, pending create and destroy queues | `request_create`, `request_destroy`, `process_creates`, `process_destroys`, `route_frame`, `handle_resize`, lookups |
| Layout engine | `neomacs-display/src/layout/engine.rs` | per window: row, column, char position, cursor-placed flag | `layout_frame`, `layout_window` (wrap, truncate, tab, control chars, wide chars, cursor), `decode_utf8` |
| Emacs ABI reader | `neomacs-display/src/layout/emacs_types.rs` | read-only views of Emacs memory; a `OnceLock` of struct offsets | gap-buffer `copy_text`, point/bounds, `frame_window_count` (window-tree walk) |
| Character grid | `neomacs-display/src/core/grid.rs` | rows in a ring buffer with `scroll_offset`, per-row dirty flags | `resize`, `clear`, `scroll`, `scroll_region`, `set_cell`, `update_row` |
| Buffer transition animator | `neomacs-display/src/core/buffer_transition.rs` | active transition, snapshot flag, content hash | `request_snapshot`, `snapshot_captured`, `start_transition`, `update` |
| Cursor animator | `neomacs-display/src/core/cursor_animation.rs` | position/target, blink state, particles, rings, trail | `set_target`, `on_cursor_move`, `update`, `set_mode` |
| Mode registry | `neovm-core/src/elisp/mode.rs` | major modes with parent links, buffer modes, buffer-local and global minor modes with lighters, custom groups and variables, the auto-mode list | register, set/derived-mode queries, enable/disable/toggle minor modes, custom registration, `add_auto_mode`/`mode_for_file`, the mode line (`mode_line_string`, `ModeLineFormat::render`) |
| Video player | `neomacs-display/src/backend/gtk4/video.rs` | player state, loop counters, caches keyed by `next_id` | `play`, `pause`, `stop`, `update` (bus messages), `set_looping`, cache `load` |
| WPE web view and DMA-BUF | `neomacs-display/src/backend/wpe/*.rs` | frame-available flag, latest texture, callback data, fds | buffer-rendered callback, `update`, `Drop`, `export_egl_image` |

How the parts interact:

- The host (Emacs) runs layout. It reads Emacs memory through the ABI reader and
  fills a frame glyph buffer.
- The buffers go to the render thread. There the multi-window manager routes each
  buffer to its OS window and marks that window dirty.
- A render pass redraws the dirty windows and clears the flag. The render pass
  itself is not under `src/`.
- The animators run on the render thread and are driven by `update` ticks.
- The worker runtime is independent of the display. Client threads enqueue Lisp
  tasks and worker threads consume them.

### What is hard

- **Worker runtime.** `spawn`, `cancel` and the worker loop each take several
  locks in turn. Every gap between two of them is a point where another thread
  can run:
  - push to the queue, then insert into the map;
  - check for cancellation, then set Running;
  - read the status, then set Cancelled.

  Condition-variable wakeups can be spurious or missed, and `close` must wake
  every worker.
- **Window manager.** Creations and destructions wait in two separate queues.
  Creating a window or a surface can fail. Frames can arrive before their window
  exists or after it is gone.
- **Layout.** The boundary cases are the hard part: an empty buffer, a line that
  fills exactly the width, a wide or control character at the end of a row,
  tabs, and point past the visible text.
- **Grid.** The mapping of the ring buffer must survive scroll followed by resize,
  and partial scrolls.
- **Mode registry.** It must handle parent cycles, global and local minor modes
  enabled together, and the registration order of custom items.

### Properties that make each part correct

- **Worker runtime**
  - A cancel that observes a task Queued wins over the worker.
  - No task runs twice.
  - Every cancelled task reaches a final status.
  - All workers exit after `close`.
  - A final status never changes (not checked, see §5).
  - A queued task is never dropped.
- **Window manager**
  - The reverse map is the exact inverse of the window map.
  - A dirty window stays dirty until it is rendered.
  - A surface never has a zero size (spec §4.7). Checked as a violation run:
    `process_creates` has no zero test.
  - The last request wins (not checked, see §5).
- **Layout**
  - Exactly one cursor per selected window, inside the text area.
  - Monospace positions: x = text_x + col·char_w.
  - Rows never exceed the window.
- **Grid**
  - The ring buffer behaves as a plain grid of logical rows. Scrolling by k
    then by −k is the identity, and a partial scroll shifts without smearing.
  - `resize` keeps the logical content, as `test_resize` expects. Checked
    as a violation run: after a scroll it does not.
  - A row whose text changes is dirty.
- **Cursor animator**
  - Only the current mode's particles, rings or trail are ever live.
  - Once the target stops moving, the cursor comes to rest and every effect
    expires.
  - `update` reports activity while the cursor still differs from its
    target (the spec's animator state: "active iff current ≠ target").
    Checked as a violation run: a width-only change is not reported.
- **Transition animator**
  - A transition that is not restarted is eventually dropped, with a zero
    duration too.
  - Its eased progress stays within [0, 1] and never goes back from one
    update to the next (the spec's "elapsed progress in [0, 1]").
  - A slide uses the size of the snapshot captured for it (not checked,
    see §5).
- **Mode registry**
  - `derived_mode_p` and font-lock lookup agree with the parent ancestry, and
    they terminate.
  - The active minor-mode list is exact and has no duplicates.
  - `toggle` returns the resulting state.
  - `mode_for_file` picks the earliest matching auto-mode entry.
  - The default mode line ends with `mode_line_string`: the two renderers
    agree on the major mode's name and the minor-mode lighters.
- **Video player**
  - A finitely looping video comes to rest.
  - The pipeline produces frames only while the player says Playing
    (violated: a stale end-of-stream message stops a replaying player).
- **WPE web view**
  - The newest imported frame is either waiting in the callback data or is
    the view's texture, drawn or about to be drawn.
  - The pixel copy reproduces the buffer's image whatever the row padding:
    the stride inferred from the slice length puts every row on its own
    bytes, and no read goes past the slice.
- **DMA-BUF export**
  - Each open descriptor is listed by exactly the live buffer that opened
    it, so `close_fds` followed by the drop never closes a number the kernel
    has handed to another export, and the drop leaks none.
- **Text coding**
  - Every encoded scalar decodes back; malformed bytes become U+FFFD one
    byte at a time.
  - Byte and char positions are inverse on char boundaries.
  - `is_printable` rejects exactly the controls and the Unicode
    noncharacters, and `is_control` exactly the controls.
  - The `Lisp_Object` tag tests decode every word as Emacs tags it. Both
    fixnum tags count as fixnums, and only nil is nil.
  - A display width is 0 only for controls, combining marks and zero-width
    characters, and 2 exactly for the wide table.
  - The gap copy yields the text without the gap.

## 2. Modules

### WorkerRuntime (`WorkerRuntime.tla`, instances `MCRuntimeThreads.tla`, `MCWorkerRuntime.tla`)

This module models `neovm-worker/src/lib.rs`. It has two kinds of thread:
clients, which call `spawn`, `cancel` and `close`, and workers, which run the
worker loop. Each action is one critical section of the code.

| Action | Code |
|---|---|
| `SpawnAlloc` | `fetch_add` (113) |
| `SpawnPush` | queue mutex: Closed / QueueFull / `push_back` (116-125) |
| `SpawnInsert` | tasks write lock (127-130) |
| `SpawnNotify` | `notify_one` (132) |
| `CancelLookup` | read lock (137-144) |
| `CancelFlag` | `context.cancel()` (146) |
| `CancelRead` | `status() == Queued` (148) |
| `CancelSet` | `set_status(Cancelled)` (149) |
| `Close` / `CloseNotify` | 159-164 |
| `WorkerWait` / `WorkerExit` / `WorkerPop` | the locked loop test (173-187) |
| `WorkerWake` / `SpuriousWakeup` | `Condvar::wait` returning |
| `WorkerLookup` | 193-200 |
| `WorkerSkipCancelled` / `WorkerStart` | 202-205 |
| `WorkerRun` | 207 |
| `WorkerFinish` | 214-218 |

Other modelling choices:

- The condition variable is the set `waitSet`.
- `cancel` of a handle not in the map returns false and changes nothing, so it
  has no action. The same holds for the MainOnly early return of `spawn`.
- `seenQueued`, `cancelled` and `runs` are history variables used by the
  properties.

### MultiWindowManager (`MultiWindowManager.tla`, instance `MCRuntimeThreads.tla`)

This module models `render_thread/multi_window.rs`. Every method runs on the
render thread, so each method is one action.

- `process_creates` and `process_destroys` fold the whole queue with the
  recursive operators `CreateAll` and `DestroyAll`. Each fold step is one loop
  iteration (`CreateOne`, `DestroyOne`).
- In `process_creates`, each request nondeterministically succeeds or fails
  (window or surface creation) and gets a scale factor. The physical size is the
  logical size times the scale.
- `RouteFrame` covers both branches of `route_frame`: a child frame goes to its
  parent's window, and a root frame goes to its own window.
- `RenderPass` is the one definition modelled from the spec (§4.7 and §7), because
  the render pass is not under `src/`.

### Utf8, CharUtils and EmacsTypes (`Utf8.tla`, `CharUtils.tla`, `EmacsTypes.tla`, instances `MCTextCoding.tla`, `MCEditorCore.tla`)

Pure operators for the two UTF-8 decoders and the encoder:

- `EngineDecode` is `decode_utf8` of `layout/engine.rs`. It dispatches on the
  lead byte and masks the continuation bytes without checking them.
- `CharUtilsDecode` is `decode_utf8` of `core/char_utils.rs`. It is strict:
  the width from `utf8_char_width`, then `str::from_utf8`, which accepts the
  bytes exactly when they are the encoding of a scalar value.
- `Utf8Encode` is `char::encode_utf8`, written with `\div` and `%`.

`CharUtils` holds the position and width helpers of `core/char_utils.rs`. A
`&str` is its byte sequence, a panic is the value `Panic` (-1, which no
`usize` is), and `Option<char>` is `<<c>>` or `NoChar`:

- `ByteToCharPos`, `CharToBytePos` and `CharAtByte` work on bytes, as the
  code does: `is_char_boundary` (`IsCharBoundary`), `chars().count()` as the
  number of lead bytes (`CharsIn`), and `char_indices()` as the offsets of the
  lead bytes (`CharIndices`). Every assert and panic is a branch.
- `IsControl` and `IsPrintable` are `is_control` and `is_printable`. The
  noncharacter test `cp & 0xFFFE == 0xFFFE` is written `cp % 65536 >= 65534`.
- `CharDisplayWidth` makes the checks of `char_display_width` in the code's
  order: the ASCII path, combining marks, the soft hyphen, the zero-width
  characters, then the wide table. `CombiningRanges` and
  `CharUtilsWideRanges` are the range tables of `is_combining_mark` and
  `is_wide_char`.

`EmacsTypes` holds the pure readers of `layout/emacs_types.rs`:

- **Tagged words.** `NilP`, `FixnumP`, `XFixnum`, `FixnatP`, `XFixnat` and
  `BufferTabWidth` are the tests on a `Lisp_Object`. A mask `obj & 3` is
  `obj % 4`, and the arithmetic shift `obj >> 2` is `obj \div 4`; both are
  floored, as on a two's complement word. `Option<i64>` is a set, `{}` or
  `{n}`. `MCTextCoding` encodes Lisp values the way Emacs tags them: a
  fixnum n is `4n + 2`, and any other value is an 8-aligned address plus its
  type tag, with symbol 0 as nil.
- **Gap buffer.** `GapBufferCopyText` with `BufByteAddress` and `BufFetchByte`
  covers the three slice cases of a multibyte buffer and the per-byte Latin-1
  widening of a unibyte one. The buffer text is a record `[mem, gpt, gap,
  multibyte]`, whose memory includes the gap bytes.
- **Window count.** `FrameWindowCount` is the explicit-stack walk of the
  window tree. The loop that pushes each child while `sp < 64` is
  `PushChildren`, and the outer `while sp > 0` loop is `CountWindows`. The
  stack size is a parameter.

`MCTextCoding` has one variable, `input`, and its next-state relation leaves
it unchanged, so each invariant is checked once per input. The inputs are:

- every lead byte of interest followed by 0-3 continuation or ASCII bytes;
- code points at every encoding boundary;
- every string of 0-3 chars from `A`, U+00E9, U+4E00 and U+1F600 (one char
  of each UTF-8 length);
- for the width, both ends of every range of the two width tables and the
  code point either side of each, the zero-width characters, and the ASCII and
  C1 edges; for `is_printable`, the edges of U+FDD0-FDEF and the last code
  points of planes 0, 1 and 16;
- every buffer text of 0-3 bytes from {`A`, 0x80, 0xFF}, with every gap
  position, gap sizes 0 and 2, both encodings, and every range `[from, to)`,
  empty and reversed ones included;
- the fixnums -5 to 5, and the addresses 0-2 tagged as symbol, cons,
  string, vectorlike and float (symbol 0 is nil), so both fixnum tags
  (even and odd n) and every other tag occur;
- every window tree of depth at most two with 2-3 children per internal
  window, with and without an owned minibuffer window, and the null-frame and
  non-window-root early returns.

The stack has 4 slots instead of 64, so the deepest of these trees fill it.

### LayoutEngine (`LayoutEngine.tla`, instances `MCLayoutEngine.tla`, `MCEditorCore.tla`)

This module models `LayoutEngine::layout_window`. The window parameters `p`
(buffer contents, `window_start`, point, columns, rows, `truncate_lines`, tab
width, cursor type, selected) are chosen in `Init`. Positions are in cells.

| Action | Code |
|---|---|
| `StartNoTextArea` | `cols <= 0 \|\| max_rows <= 0` return (152) |
| `StartNoText` | `bytes_read <= 0` return (174) |
| `StartWalk` | the read of 2·cols·rows characters (156-204) |
| `StepNewline`, `StepTab`, `StepCR` | the `'\n'`, `'\t'` and `'\r'` arms |
| `StepControl`, `StepControlLineEnd` | the `^X` arm, fitting or not |
| `StepNormal` | an ordinary or wide character that fits |
| `StepNormalTruncate` | a full row under `truncate_lines`: skip and `continue` |
| `StepNormalWrap`, `StepNormalWrapBreak` | a full row in wrap mode, with a row left or at the last row (`break`) |
| `LoopExit` | the `while` test failing |
| `Finish` | fallback cursor, background fill, `set_window_end` (386-434) |

Every loop step first does the cursor test of lines 207-245 (`PlaceCursor`).
The three inner skip loops of truncation are the recursive operator
`SkipLine`. The FFI read `neomacs_layout_buffer_text` is outside `src/`, so
`ReadText` is modelled from spec §4.3: the UTF-8 bytes of the characters read.

### ModeRegistry (`ModeRegistry.tla`, instances `MCModeRegistry.tla`, `MCEditorCore.tla`)

This module models `neovm-core/src/elisp/mode.rs`. The registry is a plain
`&mut self` structure, so each public method that changes state is one action.

- **Abstraction.** Names become model values. A major mode is reduced to its
  parent and whether it has font-lock defaults. `NoMode` stands for `None` and
  for an unregistered name.
- **Queries.** The queries (`derived_mode_p`, `font_lock_keywords`,
  `is_minor_mode_active`, `active_minor_modes`) are operators.
- **Walks.** The two parent-chain `while` loops are the recursive
  `DerivedWalk` and `FontLockWalk`. They carry fuel |Majors|+1, and when the
  fuel runs out they return the model value `Hangs`. A chain longer than the
  number of modes must repeat a mode, so `Hangs` is exactly the case where the
  code loops forever.
- **Actions.** One per method: `RegisterMajorMode`, `SetMajorMode`,
  `Register`/`Enable`/`Disable`/`ToggleMinorMode`, the global enable and
  disable, `AddAutoMode`, `RegisterCustomVariable`/`Group` and
  `RemoveBuffer`. Their guards are the methods' `Err` returns.
  `RegisterMinorMode` records whether the mode has a lighter.
  `RegistryNext` and `AutoNext` split `Next`: the auto-mode list is read
  by `mode_for_file` only.
- **Auto-mode.** File names and patterns are short character sequences.
  `FilenameMatchesPattern` is `ends_with`, that is `IsSuffix`.
  `ModeForFileFrom` is the loop of `mode_for_file` over the list.
- **Mode line.** A rendered string is a sequence of tokens. A literal is
  its characters. A pretty name (`Pretty(m)`) or a lighter (`Lighter(n)`)
  is one token for the string the definition carries. `DefaultFormat` is
  `default_format`. `RenderElement` is the `match` of `render`, one arm
  per element kind, and `Render` concatenates the elements. The two
  renderers are modelled separately, as the code writes them:
  `RenderModeName` with `Lighters` for `render`, and `ModeLineString` for
  `mode_line_string`.

### CharacterGrid and LogicalGrid (`CharacterGrid.tla`, `LogicalGrid.tla`, instances `MCCharacterGrid.tla`, `MCEditorCore.tla`)

`CharacterGrid` models `core/grid.rs`. Its variables are the code's `width`,
`height`, `lines` (each line with its cells and dirty flag) and
`scroll_offset`. A cell is reduced to its text.

- **Actions.** One per mutating method: `Resize`, `Clear`, `Scroll`,
  `ScrollRegion`, `SetCell`, `UpdateRow` and `MarkRowClean`.
- **Copy loops.** The two copy loops of `scroll_region` are the recursive
  `CopyRows` over the destination rows in the code's loop order (`LoopRows`).
  Each row is copied through `actual_row`, exactly as the code does it in
  place.
- **`LogicalGrid`.** This is the promise: a grid of logical rows where a
  whole-grid scroll rotates the rows, a partial scroll shifts the region, and
  `resize` keeps each row's text in place, cut or padded, as `test_resize`
  (grid.rs:340-341) expects of the cell at (0, 0).
- **Refinement.** `CharacterGrid` instantiates `LogicalGrid` with the
  refinement mapping `rows[y] = lines[(y + scroll_offset) mod height]`, and
  `GridRefinement` is `LogicalGrid`'s specification. It is violated:
  `resize` resets `scroll_offset` without moving the lines back
  (grid.rs:122), so after a scroll it rotates the rows or drops the wrong
  ones (run `grid_resize_keeps_rows`).
- **`GridStepsRefine`.** Every other step is a step of `LogicalGrid`
  through the same mapping: the action property exempts only a `Resize`
  taken while `scroll_offset` is not 0. It is what checks the in-place copy
  order of `scroll_region` in the passing run.

### CursorAnimator (`CursorAnimator.tla`, instance `MCCursorAnimator.tla`)

This module models `CursorAnimator` of `core/cursor_animation.rs`.

- **Variables.** `mode`, `target`, `current`, `animating`, `blinkOn`,
  `animationSpeed` and `particleCount` are the fields of the same names.
  `blinkAge` is `now - last_blink_toggle`, and `timePassed` says whether
  `now > last_update`.
- **Effect lists.** `particles`, `rings` and `trail` are each reduced to a
  record: whether the list is non-empty, and the time to live of its
  longest-lived entry. That is everything `retain(is_alive)`, `update`'s
  return value and `is_animating` read. The longest railgun lifetime for a
  particle count is precomputed in the MC module from the code's
  `400 ms * (0.5 + |sin(7.13 i)| * 0.5)`.
- **Positions.** Positions are on a quarter-pixel lattice, so the 0.5 px
  thresholds are exact. One smoothing step (`Toward`) moves each coordinate to
  any lattice point strictly closer to its target. The target itself counts
  as closer. Nothing moves when `dt = 0`.
- **Actions.** `SetTarget` covers `set_target` with `on_cursor_move` and the
  spawn functions. `Update` is `update`; `UpdateWithDt` is `update_with_dt`,
  which takes the caller's `dt`. Both share the frame body `Frame`. The
  module also has `SetMode`, `SetAnimationSpeed` and `SetParticleCount`.
  `Wait` is time passing; it is not code.
- **Time.** Time moves in steps of 100 ms, which separates every lifetime in
  the code: 200, 300, 349, 399, 400 and 500 ms, and the 530 ms blink.

### BufferTransition (`BufferTransition.tla`, instance `MCFrameUpdate.tla`)

This module models `BufferTransitionAnimator` and `BufferTransition::update`
of `core/buffer_transition.rs`.

- **Variables.** `active` is `active_transition`: a record or `NoTransition`.
  A transition keeps its age, its `easing` (always ease-out, as `new`
  chooses) and its eased `progress`.
- **Easing.** Durations are whole numbers of time steps, so the raw progress
  age/duration is a ratio of small integers. `Ease` computes each of the five
  curves of `TransitionEasing::apply` exactly, as a numerator over `Den(d)`,
  a denominator common to the curves for a duration of `d` steps. The f32
  rounding of the code is not modelled. The zero duration's NaN progress is
  the value -1.
- **Actions.** One per method: `StartTransitionWith`, `StartTransition`,
  `RequestSnapshot`, `SnapshotCaptured`, `BUpdate`, `BUpdateWithDt`,
  `SetDefaultEffect`, `SetDefaultDuration` and `UpdateContentHash`. `BWait`
  is time passing.
- **Zero duration.** A zero duration is modelled as the floats behave. At age
  0 the quotient is NaN, so the transition is not finished; after that it is
  infinite.

### VideoPlayer (`VideoPlayer.tla`, instance `MCFrameUpdate.tla`)

This module models `GpuVideoPlayer` and `VideoCache` of
`backend/gtk4/video.rs`, with one player loaded at a time.

- **Environment.** The GStreamer pipeline is not in `src/`, so it is modelled
  from GStreamer's documented behaviour. Its state is `gst` (NULL, READY,
  PAUSED or PLAYING), a stream position `pos`, the sink's end-of-stream flag
  `eos`, an error flag `failed`, and the `bus`: the messages posted and not
  yet popped.
  - `SetState` is `Element::set_state`. It fails on an errored pipeline when
    going to PAUSED or PLAYING. READY and NULL rewind and clear the error,
    and NULL also flushes the bus. PAUSED → PLAYING at end-of-stream posts
    EOS again.
  - `Seek` is a flushing `seek_simple`. It fails unless the pipeline is
    PAUSED or PLAYING, and it clears `eos`.
  - The streaming thread is `StreamFrame`, `StreamEnd` (which posts EOS) and
    `StreamError` (which posts an error).
- **Player.** `vstate`, `loopCount` and `loopsRemaining` are `state`,
  `loop_count` and `loops_remaining`. `loaded` is the id of the loaded
  player, or `NoVideo`. `nextId` is `next_id`.
- **Actions.** `VLoad` (`load`, where `new` may fail), `VRemove` (`remove`
  with `Drop`), `VPlay`, `VPause` and `VStop` (one `ChangeState` each: the
  state is set only when `set_state` returns Ok), `VSeekTo`, `VSetLooping`,
  and `VUpdateAll` (`update_all`). `VUpdate` folds `OnMessage` over at most
  five popped messages, as `update`'s `for _ in 0..5` loop does. Host calls
  are capped at `MaxCalls`.

### WpeView (`WpeView.tla`, instance `MCFrameUpdate.tla`)

This module models `WpeWebView` of `backend/wpe/view.rs`: its lifecycle, its
load state, and the path a rendered frame takes to the screen.

- **Environment.** WebKit is the environment. `webLoading` is
  `webkit_web_view_is_loading`. `WRender` renders the next frame and runs
  the buffer-rendered callback, which runs on the main loop as `update` does,
  so the callback is one step. `WLoadFinished` ends a load.
- **Texture.** A texture is the number of the frame it was made from, and 0
  is None. The pixel import is reduced to succeeding or failing; a failure is
  the callback's early return.
- **Variables.** `cbTexture` and `cbAvailable` are the callback data's
  `latest_texture` and `frame_available`. `texture`, `needsRedraw`, `wstate`
  and `width` are the view's fields. `lastImported` (the newest frame
  imported) and `drawn` (what the host drew last) are history.
- **Actions.** `WNew` (which may fail), `WLoad`, `WReload`, `WNavigate`,
  `WStopLoading`, `WResize`, `WUpdate` and `WDrop`. `WHostDraw` is the host,
  which is not in `src/`: it draws `texture()` when `needs_redraw()` and then
  calls `clear_redraw_flag`. `WNoView` is a frame of the host with no live
  view.
- **Pixel copy.** The copy itself is a pure algorithm. `Stride` is the
  stride the callback infers from the slice length, `CopyPixels` the texture
  bytes it builds, and `RefPixels` is the reference: where WPE put each byte
  of a buffer whose rows are `pitch` bytes apart. Byte o of the buffer holds
  the value o, so a wrong read shows as a wrong offset. A read past the slice
  is `Panic`. The check covers widths 1 and 2, heights 1 to 3
  (`BufHeights`) and 0, 4 or 8 bytes of padding per row (`RowPads`). This is
  enough for a two-pixel row, a row after a padded one, and padding wider
  than a pixel. Height 0 is left out, because there the division panics.

### DmaBuf (`DmaBuf.tla`, instance `MCFrameUpdate.tla`)

This module models `DmaBufExporter` and `ExportedDmaBuf` of
`backend/wpe/dmabuf.rs`.

- **Environment.** EGL and the kernel are the environment. Whether the display
  is null, whether the extension is listed, whether each function pointer
  resolves, whether the query and the export succeed, and the plane count
  the query reports are all inputs. The kernel hands out the lowest free
  descriptor numbers (`LowestFree`), as POSIX requires, so a number closed
  by one buffer is the next one handed out. `fdOwner` records which export
  holds each open number.
- **Actions.**
  - `DNew` is `new`, with its two early returns and the test of both
    function pointers.
  - `DExport` is `export_egl_image`. `ExportOk` is the conjunction of its
    five early returns. On success the buffer's `fds` holds one number per
    plane and -1 in the other slots.
  - `DCloseFds` is `close_fds`, and `DDrop` is `Drop`, which calls it.
  - `DIdle` is `is_supported`, or an export call once the bound is reached.
- `export_egl_image` has no caller under `src/`, so the model lets the owner
  of a buffer call `close_fds` and drop it in any order.

### Union instances

Three MC modules each check components that share no state, so that a
component does not need a run of its own. A variable `part` is chosen in the
initial state, and only that part's actions step; the other part's variables
keep their initial values. Fairness is that of each module, restricted to its
part's steps.

- `MCRuntimeThreads` takes `WorkerRuntime` and `MultiWindowManager` by
  `INSTANCE`, because both name their definitions `Init`, `Next` and
  `TypeOK`. Their properties need no guard. In the other part the
  invariants hold at the initial state, the action property holds by
  stuttering, and the leads-to properties never fire, because there is no
  close and no cancel.
- `MCFrameUpdate` extends `BufferTransition`, `VideoPlayer`, `WpeView` and `DmaBuf`,
  and guards each property with `part = ...`.
- `MCEditorCore` takes `LayoutEngine`, `ModeRegistry` and `MCTextCoding` by
  `INSTANCE`, and `CharacterGrid` with the grid's bounds. It has five parts:
  layout, the mode registry, the registry's auto-mode list, text coding and
  the grid. The parts that do not run stay in one
  fixed initial state, where every invariant holds, so the invariants need
  no guard. The exception is `ModeLineMatchesRender`, which is evaluated in
  the modes part only, because rendering the mode line in every layout state
  is the run's costliest check. The grid's two action properties are also
  evaluated on grid steps only: their refinement check enumerates every
  `scroll_region` argument and would otherwise run on every step.

The cursor animator stays in its own run. In a union, each extra fairness
condition and liveness property is evaluated over the cursor's 210,744
states; that took the run past five minutes.

## 3. Runs

| Run | Checks | Result |
|---|---|---|
| `runtime_threads` (`MCRuntimeThreads.cfg`) | worker: `TypeOK`, `CancelBeforeStartWins`, `RunAtMostOnce`, `CancelledTaskSettles`, `WorkersExitAfterClose`; windows: `WindowsTypeOK`, `ReverseMapConsistent`, `DirtyUntilRendered` | pass: 63,567 distinct states (25,982 worker and 37,585 windows), about 25 s |
| `window_zero_surface` (`MCRuntimeThreads_ZeroSurface.cfg`) | `SurfacesNonZero` | **violation**: `request_create(f, 1, 0)`, then `process_creates` configures a surface of height 0. Spec §4.7 says a surface is never configured with a zero dimension; only `handle_resize` tests for zero (multi_window.rs:165) |
| `worker_task_lost` | `QueuedTaskNotLost` | **violation**: a worker pops the handle between `push_back` (124) and `insert` (129), finds no entry and drops it; the task stays Queued forever |
| `editor_core` (`MCEditorCore.cfg`) | layout: `LayoutTypeOK`, `RowGlyphsContiguous`, `AtMostOneCursor`, `GlyphRowsInsideWindow`, `WindowEndCoversGlyphs`; modes: `ModesTypeOK`, `DerivedModeCorrect`, `FontLockFromNearest`, `ActiveModesExact`, `AutoModeFirstMatch`, `ModeLineMatchesRender`; text coding: `EngineDecodesValidUtf8`, `GapCopyIsText`, `LispTagsDecode`, `WindowCountExact`, `PositionsAgree`, `WidthAccounting`, `PrintableExact`; grid: `GridTypeOK`, `GridChangedRowsDirty`, `GridStepsRefine` | pass: 431,282 distinct states, about 3.5 minutes. Layout never places two cursors, keeps glyph rows inside the window and contiguous, and its `window_end` covers every glyph. `derived_mode_p` and the font-lock lookup agree with the parent ancestry wherever they return, parent cycles included. The active minor modes are exact and without duplicates. `mode_for_file` returns the earliest match. The default mode line ends with `mode_line_string`. Text coding over 10,169 inputs: every encoded scalar round-trips, and the engine agrees with the strict decoder wherever that accepts. The gap copy equals the text without the gap, and a unibyte copy decodes back to its bytes. `nilp` holds of nil alone, `xfixnat` returns exactly the non-negative fixnums, odd ones included, and `buffer_tab_width` falls back to 8 for every other value. The window count never exceeds the leaves (plus the minibuffer) and is exact while the windows fit the stack. On every char boundary the byte and char positions are inverse and `char_at_byte` yields the char there; off a boundary they panic or give None. A width is 0 exactly for controls, combining marks and the zero-width characters, and 2 exactly for the wide table. `is_printable` rejects exactly the Unicode controls and noncharacters, the ends of every plane included. In the character grid a row whose text changes is dirty afterwards, and every step but a resize of a scrolled grid is a step of the logical grid, the in-place copy of a partial `scroll_region` included |
| `utf8_malformed` (`MCTextCoding_Malformed.cfg`) | `MalformedBecomesReplacement` | **violation**: `C0 41` decodes to U+0001 and swallows the `A` (engine.rs:455). Multibyte Emacs buffers hold such C0/C1 sequences for raw bytes (emacs_types.rs:342) |
| `layout_cursor_placement` | `CursorPlacement` | **violation**: an empty buffer returns at 174 with no cursor (spec scenario 1 expects one); separately, `a` in one column with point 2 puts the cursor at column 1 = cols |
| `modes_toggle` | `ToggleReportsResult` | **violation**: a mode enabled in the buffer and globally is toggled; `toggle_minor_mode` removes the local entry and returns false, while the global entry keeps it active (mode.rs:432) |
| `grid_resize_keeps_rows` (`MCCharacterGrid_ResizeKeepsRows.cfg`) | `GridRefinement` | **violation**: `scroll(1)`, then `set_cell(0, 0, a)`, which writes physical line 1, then `resize(1, 1)` keeps physical line 0: the cell is lost. `test_resize` expects a written cell to survive a resize; it never scrolls first (grid.rs:122) |
| `cursor_animation` (`MCCursorAnimator.cfg`) | `CTypeOK`, `EffectsMatchMode`, `CursorSettles` | pass: 210,744 distinct states, about 1.5 minutes |
| `cursor_update_reports_motion` (`MCCursorAnimator_UpdateReportsMotion.cfg`) | `UpdateReportsMotion` | **violation**: `set_target` with only a new width, then `update_with_dt` moves the width halfway. The snap looks only at x and y (cursor_animation.rs:451), so `update` returns false while `current != target`, against spec §3's "active iff current ≠ target" |
| `frame_update` (`MCFrameUpdate.cfg`) | `VTypeOK`, `UNewestFrameReachesScreen`, `DTypeOK`, `FdsOwnedExactly`, `UPixelCopyMatches`, `UTransitionEnds`, `UProgressAdvances`, `ULoopedPlaybackEnds` | pass: 16,488 distinct states, about 20 s. A transition that is not restarted ends, and its eased progress stays within [0, 1] and never goes back between updates. A video with a finite loop count stops producing frames once the host stops calling, whatever came before: seeks, pauses, errors and reposted EOS. The newest frame the WPE callback imported is never lost: it waits in the callback data, or it is the view's texture and is drawn or flagged for redraw. DMA-BUF descriptors stay owned by exactly the buffer that opened them while numbers are reused. The callback's pixel copy reproduces every buffer with per-row padding: the stride it infers from the slice length puts each row copy on that row's bytes |
| `video_stale_eos` (`MCFrameUpdate_StaleEos.cfg`) | `UFlowsOnlyWhenPlaying` | **violation**: play, then the stream ends and EOS is posted, then a seek to 0 restarts it. The next `update` pops the old EOS and, with no loop left, sets Stopped while the pipeline plays on (video.rs:380). Pausing between the EOS and the update gives the same |

Every property of a passing run has a mutant in `PROJECT.json`: a one-line bug in
the code's definition that TLC must catch under the same cfg. The mutants are the
operators named `...NoRecheck`, `...OffByOne`, `...KeepReverse` and so on. Each
is defined just before the definition it replaces.

### Bounds

**Worker run:**

- 1 client, 2 workers, queue capacity 1, 2 handles, no symmetry (symmetry is
  unsound with the liveness properties).
- These bounds cover a full queue, a close during a spawn, a cancel racing
  each step of a worker, the lost-task race, and both workers busy.
- One client thread: the races the properties concern are between a client
  call and the workers. Two concurrent calls by different clients (two
  cancels of one task, a close during another client's spawn) are not
  covered; with two clients the liveness check alone took over two minutes.

**Window runs:**

- 2 frame ids, 2 scale factors, queues of 2, and 3 OS windows.
- These bounds allow create, destroy and create again, and a create and a destroy
  pending together.
- Symmetry on frame ids.
- One logical size in the passing run. The zero-surface run adds size 0 and
  runs the windows part alone.

**Layout run:**

- Buffers of 0-3 characters over {`a`, U+4E00, `\n`, `\t`, `\r`, `^A`}, every
  `window_start` and point in 1..ZV, 0-3 columns, 1-2 rows, both
  `truncate_lines` values, tab width 2.
- These cover every arm: a row filled exactly, a wide character that does not
  fit (and one that never fits in one column), a tab stop at the row end, a
  control character at the row end, truncation with and without a following
  newline, wrapping at the last row, and point before, at and after the text.
- Cursor type and selection only change the recorded style, so they are fixed.

**Modes run:**

- Three major modes: `fundamental-mode` and two others. Each may be
  registered with any parent, including itself or the other, so chains,
  cycles and unregistered parents all occur.
- One minor mode, one buffer, one custom variable and one group.
- One minor mode is enough to have it enabled both locally and globally. The
  invariants quantify over every buffer and mode.
- The minor mode is registered with and without a lighter, so the mode line
  shows it or not.
- Auto-mode part: patterns `.rs` and `s` (one a suffix of the other) and the
  file names `a.rs` (both match), `a.ts` (only `s`) and `a` (neither). A list
  of up to three entries, so both orders of two overlapping patterns, and a
  repeated pattern, occur.
- The mode line is rendered for every modified and read-only flag and the
  percentages 0, 50 and 100 (Top, a number, Bot).

**Grid (the `grid` part of `editor_core`, and `grid_resize_keeps_rows`):**

- Widths 1-2, heights 1-3, texts {Blank, `a`}, shifts ±1.
- Coordinates run one past the largest size, so the out-of-range paths of
  `get_cell_mut` and `mark_row_dirty` are taken.
- Height 3 gives a two-row partial scroll inside a three-row grid, which is
  where a wrong copy order smears. A second non-blank text only multiplied the
  states by ten: the run took 24 minutes and found nothing more.
- Height 0 and `rows < -bottom` are excluded. Both make the code panic or loop
  about 2^64 times (hazards grid.rs:201 and grid.rs:239).

**Cursor run:**

- All eight modes.
- x targets {0, 3, 4} in quarter pixels. These give a one-pixel move (effects
  spawn), a three-quarter-pixel move (moved, but below the one-pixel effect
  threshold) and a quarter-pixel change (not a move).
- Two widths half a pixel apart, so width interpolates through an
  intermediate point. One y and one height: their code is the same as that of
  x and width.
- Particle counts 15 (the default), 1 (from the clamp of 0) and 100 (from the
  clamp of 150). These give railgun lifetimes of 399, 200 and 399 ms.
- Speed clamped from 200 to 100. The speed only scales the smoothing factor,
  which the model leaves open anyway.

**Video part:**

- A stream of positions 0..1, seeks to 0 and 1, loop counts -1, 0 and 1.
- Two loads, so an id is handed out, removed and handed out again, and six
  host calls.
- Six calls allow load, set_looping, play, a seek or pause, and another call
  after an EOS. The stale EOS needs four of them.
- Loop count 1 consumes a loop and then stops. -1 loops forever, which is why
  `LoopedPlaybackEnds` only speaks of `loopCount >= 0`.

**View part:**

- Three frames rendered, each import succeeding or failing; widths 1 and 2;
  six host calls.
- This lets a frame arrive between two updates, two frames arrive before an
  update takes either, a frame arrive after a draw, and a resize or a drop
  come in between.

**DMA-BUF part:**

- Three free descriptor numbers and three successful exports.
- Plane counts 0 and 5 (both rejected by the range test) and 1 and 2.
- With these, an export of two planes, a `close_fds`, and the next export
  reuse the same numbers before the first buffer is dropped.

**Transition part:**

- Effects None, Crossfade and SlideLeft; directions Left and Up.
- Time steps of 50 ms. Durations 200 ms (the default, four steps) and 0.
  With four steps the progress is eased at 0, 1/4, 1/2 and 3/4, where a
  curve that turned back (ease-out-back peaks near 0.58) would show it.
- One snapshot size; content hashes 0, 7 and 9.

### Fairness

The worker model assumes weak fairness of each worker's loop steps and of the
steps of a client call already in progress: an OS thread that can run eventually
runs. Starting a new call is never forced, and neither is a spurious wakeup.

The animator models assume weak fairness of `update` and of time passing. The
frame loop calls `update` every frame, and frames are apart in time. Their
liveness properties are conditional: they only assume that the target stops
changing, or that no new transition is started.

The video model assumes weak fairness of `update_all`, which the render loop
calls every frame. It also assumes weak fairness of the streaming thread's
frame and end-of-stream steps: a PLAYING pipeline keeps producing frames.
Errors are not forced.

The view model assumes weak fairness of `update` and of the host's draw,
which the host's frame loop does every frame, and of WebKit finishing a
load. Rendering a new frame and every host call are never forced.

The window manager has no liveness property yet. `layout_window` runs to
completion on the Emacs thread; its runs check safety only and say
`CHECK_DEADLOCK FALSE`, because the walk ends in `"done"`.

### Deadlock

The worker cfgs say `CHECK_DEADLOCK FALSE`, because the runtime really stops:
after `close`, every worker returns and the clients make no more calls. In
the union run `MCRuntimeThreads` this setting also covers the window
manager. The window manager always has a step: a request or a route is
always possible. The video model never deadlocks either: `update_all` is
always possible, and does nothing when the cache is empty.
The DMA-BUF part has `DIdle`, which is `is_supported` or an export call
once the export bound is reached, so it never deadlocks either.

## 4. Plan

Done: WorkerRuntime, MultiWindowManager, Utf8, CharUtils and EmacsTypes (text coding),
LayoutEngine (`layout_window`), ModeRegistry (with the auto-mode list and
the mode line), CharacterGrid with LogicalGrid, CursorAnimator,
BufferTransition, VideoPlayer, WpeView and DmaBuf. Left, in order of
importance:

1. **Text coding**, done for the gap buffer, the window count and the
   `char_utils.rs` position and width helpers. Still to add:
   - a comparison of the two wide-character tables. The engine's
     `is_wide_char` (engine.rs:478) and `char_utils`' (char_utils.rs:108)
     disagree on U+1100-115F, U+3100-31EF, U+3200-33FF, U+303F, U+D7A4-D7AF
     and U+30000 and above;
   - grounding `ReadText` of LayoutEngine in `GapBufferCopyText`.
2. **Findings without a run** (§5). Give them runs when the budget allows,
   for example by combining a passing run with a related one.
3. **WPE view and DMA-BUF together.** `WpeWebView::new` creates an exporter
   but never exports. When a caller appears, compose the two modules so that
   the buffers are exported from the view's textures.
4. **Liveness.** A routed frame is eventually rendered (window manager); mode
   walks terminate when the parents are acyclic.
5. **Coverage.** The map covers about 32% of the source lines. Most of what
   remains is the FFI field readers of `emacs_types.rs`, the video caches and
   sink of `video.rs`, and the floating-point parts of the animators.
6. **Run budget.** At most 12 runs, all used. The text-coding, layout and
   mode runs were joined into `editor_core`, and the two runs this freed hold
   the zero-surface and cursor-motion findings. New components join existing
   runs where they belong to the same subsystem.

## 5. Not modelled

- **GPU and GStreamer I/O:** the blur pipeline and WPE initialisation. DMA-BUF
  export is modelled only up to EGL and the kernel. They are calls into foreign libraries without a state machine
  of their own.
- **Floating-point animation formulas:** the particle, ring and
  per-effect offset, opacity, scale and curl formulas. The easing curves are
  polynomials of a ratio of ticks, and they are modelled exactly as
  rationals. The effect formulas multiply that progress by a pixel size, and
  the resulting numerators pass TLC's 32-bit integers. No control flow reads
  them, so only the lifecycles that use them are modelled.
- **The pseudovector header test** (`pseudovectorp`, `windowp`,
  `bufferp`). It masks the header with bit 62, which is beyond TLC's
  integers. The window-count walk takes the test's result as given.
- **Module declarations and the benchmark example.**
- **Findings without a run.** These findings were met while modelling. They
  have no run because the budget of 12 runs went to the passing runs. Each is a
  hazard in `PROJECT.json`.
  - Worker: `cancel` can set Cancelled between the worker's check (202) and
    `set_status(Running)` (207). `task_status` then reports Cancelled, then
    Running, then Cancelled again.
  - Transition: `request_snapshot`, then `snapshot_captured(w, h)`, then
    `start_transition` leaves `old_width = old_height = 0`. The slide offsets
    are then zero for the whole transition (buffer_transition.rs:318).
  - Window manager: a create and then a destroy of the same frame, drained
    destroys first, leave the deleted frame with a window
    (multi_window.rs:200).
- **Mode line formatting:** `Position` and `BufferName` are single tokens,
  and the text of a pretty name or lighter is one token, because no property
  reads inside them.
- **Grid:** the cells' style and width, which are copied along with the text.
