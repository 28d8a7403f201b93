--------------------------- MODULE CharacterGrid ---------------------------
(***************************************************************************)
(* CharacterGrid of src/rust/neomacs-display/src/core/grid.rs: a ring     *)
(* buffer of lines with a scroll offset.  Logical row y is physical line  *)
(* (y + scroll_offset) rem_euclid height.  Every method is one step; the  *)
(* grid is owned by one thread.  A cell is abstracted to its text (a      *)
(* member of Texts); its style and display width only ride along with    *)
(* the text in the code and are left out.                                 *)
(***************************************************************************)
EXTENDS Integers, Sequences

CONSTANTS
    Texts,        \* cell texts, Blank among them (GridCell::default)
    Blank,
    Widths,       \* sizes resize may be called with
    Heights,
    InitWidth,    \* CharacterGrid::new(width, height)
    InitHeight,
    Shifts,       \* row counts scroll / scroll_region are called with
    XIn,          \* column and row arguments, including out-of-range ones
    YIn,
    Cells         \* the cell slices update_row is called with

ASSUME /\ Blank \in Texts
       /\ Heights \subseteq Nat \ {0} /\ InitHeight \in Heights
       /\ InitWidth \in Widths /\ 0 \notin Shifts

VARIABLES width, height, lines, scrollOffset

vars == <<width, height, lines, scrollOffset>>

Line == [cells : Seq(Texts), dirty : BOOLEAN]

\* GridLine::new / GridLine::resize / GridLine::clear.
NewLine(w) == [cells |-> [i \in 1..w |-> Blank], dirty |-> TRUE]
ResizeLine(l, w) ==
    [cells |-> [i \in 1..w |-> IF i <= Len(l.cells) THEN l.cells[i] ELSE Blank],
     dirty |-> TRUE]

\* actual_row, as a 1-based index into lines.
ActualRow(y) == ((y + scrollOffset) % height) + 1

TypeOK ==
    /\ width \in Widths /\ height \in Heights
    /\ lines \in Seq(Line) /\ Len(lines) = height
    /\ \A j \in 1..height : Len(lines[j].cells) = width
    /\ scrollOffset \in 0..(height - 1)

Init ==
    /\ width = InitWidth /\ height = InitHeight
    /\ lines = [j \in 1..InitHeight |-> NewLine(InitWidth)]
    /\ scrollOffset = 0

-----------------------------------------------------------------------------
(* Helpers on a lines value ls: get_cell_mut and mark_row_dirty return     *)
(* None for an out-of-range coordinate, and the write is then skipped.    *)
WriteCell(ls, x, y, t) ==
    IF x >= width \/ y >= height THEN ls
    ELSE [ls EXCEPT ![ActualRow(y)].cells[x + 1] = t]

MarkRowDirty(ls, y) ==
    IF y >= height THEN ls ELSE [ls EXCEPT ![ActualRow(y)].dirty = TRUE]

\* Copy columns left..right-1 of row src to row dst, cell by cell through
\* get_cell / get_cell_mut; src and dst differ, so the order of x is moot.
CopyRow(ls, src, dst, left, right) ==
    IF src >= height \/ dst >= height THEN ls
    ELSE [ls EXCEPT ![ActualRow(dst)].cells =
            [i \in 1..width |-> IF left <= i - 1 /\ i - 1 < right
                                  THEN ls[ActualRow(src)].cells[i]
                                  ELSE ls[ActualRow(dst)].cells[i]]]

RECURSIVE CopyRows(_, _, _, _, _)
CopyRows(ls, ys, k, left, right) ==
    IF ys = <<>> THEN ls
    ELSE CopyRows(CopyRow(ls, Head(ys) - k, Head(ys), left, right), Tail(ys),
                  k, left, right)

Ascending(a, b)  == [i \in 1..(b - a) |-> a + i - 1]   \* a..b
Descending(a, b) == [i \in 1..(b - a) |-> b - i]       \* (a..b).rev()

\* Bug variant: the scroll-down loop walks the rows upwards.
LoopRowsAscending(top, bottom, k) ==
    IF k > 0 THEN Ascending(top + k, bottom)
    ELSE IF k < 0 THEN Ascending(top, bottom + k) ELSE <<>>

\* The destination rows of scroll_region's copy loops, in loop order.
LoopRows(top, bottom, k) ==
    IF k > 0 THEN Descending(top + k, bottom)
    ELSE IF k < 0 THEN Ascending(top, bottom + k) ELSE <<>>

-----------------------------------------------------------------------------
\* Bug variant: existing lines keep their old width.
ResizeKeepWidth(w, h) ==
    /\ lines' = [j \in 1..h |-> IF j <= Len(lines) THEN lines[j] ELSE NewLine(w)]
    /\ scrollOffset' = 0 /\ width' = w /\ height' = h

\* resize: offset reset, every line resized, lines cut or added.
Resize(w, h) ==
    /\ lines' = [j \in 1..h |-> IF j <= Len(lines) THEN ResizeLine(lines[j], w)
                                 ELSE NewLine(w)]
    /\ scrollOffset' = 0 /\ width' = w /\ height' = h

Clear ==
    /\ lines' = [j \in 1..height |-> NewLine(width)]
    /\ scrollOffset' = 0
    /\ UNCHANGED <<width, height>>

\* Bug variant: the rows are rotated but not marked dirty.
ScrollNoDirty(k) ==
    /\ scrollOffset' = (scrollOffset + k) % height
    /\ UNCHANGED <<width, height, lines>>

\* scroll: rem_euclid of the new offset; every line dirty.
Scroll(k) ==
    /\ scrollOffset' = (scrollOffset + k) % height
    /\ lines' = [j \in 1..height |-> [lines[j] EXCEPT !.dirty = TRUE]]
    /\ UNCHANGED <<width, height>>

\* scroll_region: the whole grid goes to scroll; otherwise the copy loops
\* and every row top..bottom-1 marked dirty.  A negative k with
\* bottom + k < 0 wraps the usize bound and is not taken (see README).
ScrollRegion(top, bottom, left, right, k, cols) ==
    /\ ~(k < 0 /\ bottom + k < 0)
    /\ IF left = 0 /\ right = width /\ cols = 0 /\ top = 0 /\ bottom = height
         THEN Scroll(k)
         ELSE /\ lines' = LET ls == CopyRows(lines, LoopRows(top, bottom, k), k, left, right)
                          IN [j \in 1..height |->
                                IF \E y \in top..(bottom - 1) : y < height /\ ActualRow(y) = j
                                  THEN [ls[j] EXCEPT !.dirty = TRUE] ELSE ls[j]]
              /\ UNCHANGED <<width, height, scrollOffset>>

SetCell(x, y, t) ==
    /\ lines' = MarkRowDirty(WriteCell(lines, x, y, t), y)
    /\ UNCHANGED <<width, height, scrollOffset>>

\* update_row: cells written from col_start while x < width.
UpdateRow(y, c, cs) ==
    /\ lines' = MarkRowDirty(
                  IF y >= height THEN lines
                  ELSE [lines EXCEPT ![ActualRow(y)].cells =
                          [i \in 1..width |-> IF c < i /\ i <= c + Len(cs)
                                                THEN cs[i - c] ELSE @[i]]], y)
    /\ UNCHANGED <<width, height, scrollOffset>>

MarkRowClean(y) ==
    /\ lines' = IF y >= height THEN lines ELSE [lines EXCEPT ![ActualRow(y)].dirty = FALSE]
    /\ UNCHANGED <<width, height, scrollOffset>>

Next ==
    \/ \E w \in Widths, h \in Heights : Resize(w, h)
    \/ Clear
    \/ \E k \in Shifts : Scroll(k)
    \/ \E top, bottom \in YIn, left, right \in XIn, k \in Shifts \cup {0}, cols \in {0, 1} :
         ScrollRegion(top, bottom, left, right, k, cols)
    \/ \E x \in XIn, y \in YIn, t \in Texts : SetCell(x, y, t)
    \/ \E y \in YIn, c \in XIn, cs \in Cells : UpdateRow(y, c, cs)
    \/ \E y \in YIn : MarkRowClean(y)

Spec == Init /\ [][Next]_vars

-----------------------------------------------------------------------------
(* Properties.                                                             *)

\* The text of logical row y, through the ring buffer.
RowText(y) == lines[ActualRow(y)].cells
LogicalView == [y \in 1..height |-> RowText(y - 1)]

\* A row whose text a step changes is dirty afterwards, whichever method
\* changed it: the renderer, which redraws only dirty rows, never shows a
\* stale row.  scroll changes every logical row at once, scroll_region
\* rows it copies into, resize rows it cuts or pads.
ChangedRowsDirtied ==
    \A y \in 0..(height' - 1) :
        (y >= height \/ RowText(y)' # RowText(y)) => lines'[ActualRow(y)'].dirty
ChangedRowsDirty == [][ChangedRowsDirtied]_vars

Logical == INSTANCE LogicalGrid
    WITH gw <- width, gh <- height, rows <- LogicalView

\* The ring buffer implements the logical grid: reading every row through
\* actual_row gives a grid that only ever changes as LogicalGrid allows,
\* and in particular resize keeps every logical row where it was, as
\* test_resize expects of the cell at (0, 0).  resize resets scroll_offset
\* without moving the lines back (grid.rs:122), so after a scroll the
\* rows come back rotated and this fails.
GridRefinement == Logical!ASpec

\* Every step except a resize taken while the ring is rotated is a step of
\* the logical grid: set_cell, update_row, clear, scroll, the in-place
\* copy loops of a partial scroll_region, and a resize at offset 0 all
\* change the rows read through actual_row exactly as LogicalGrid says.
GridStepRefines ==
    (scrollOffset = 0 \/ \A w \in Widths, h \in Heights : ~Resize(w, h))
        => [Logical!ANext]_Logical!avars
GridStepsRefine == [][GridStepRefines]_vars

=============================================================================
