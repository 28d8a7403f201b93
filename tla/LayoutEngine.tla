---------------------------- MODULE LayoutEngine ----------------------------
(***************************************************************************)
(* LayoutEngine::layout_window of src/rust/neomacs-display/src/layout/    *)
(* engine.rs: the monospace walk that turns a window's buffer text into   *)
(* glyph, stretch and cursor entries.                                     *)
(*                                                                         *)
(* The window's parameters p are chosen once, in Init, from bounded sets: *)
(* a buffer of code points, window_start, point, the text area in cells  *)
(* (cols, max_rows), truncate_lines, tab_width, cursor type and whether  *)
(* the window is selected.  One step is one iteration of the while loop  *)
(* (205-384); Start is the set-up before it and Finish the code after it. *)
(* Positions are kept in cells: x = text_x + col * char_w and y = text_y  *)
(* + row * char_h in the code.                                            *)
(***************************************************************************)
EXTENDS Integers, SequencesExt, Utf8

CONSTANTS
    Buffers,      \* buffer contents: sequences of code points
    ColsSet,      \* floor(text_width / char_width) values
    RowsSet,      \* floor(text_height / char_height) values
    TabWidths,    \* tab_width values
    CursorTypes,  \* cursor_type values (0 box, 1 bar, 2 hbar)
    Selected      \* values of selected

Newline == 10
Tab     == 9
CR      == 13

VARIABLES
    p,          \* the window's parameters
    pc,         \* "start", "loop", "finish" or "done"
    text,       \* the bytes read from the buffer (text_buf[..bytes_read])
    i,          \* byte_idx + 1
    col, row, charpos,
    placed,     \* cursor_placed
    windowEnd,  \* window_end_charpos
    endRow,     \* the row passed to neomacs_layout_set_window_end
    glyphs,     \* char, stretch and fill entries added to frame_glyphs
    cursors     \* cursor entries added to frame_glyphs

vars == <<p, pc, text, i, col, row, charpos, placed, windowEnd, endRow,
          glyphs, cursors>>

Zv == Len(p.buf) + 1

Glyph(kind, r, c, w, pos, ch) ==
    [kind |-> kind, row |-> r, col |-> c, w |-> w, pos |-> pos, ch |-> ch]
Stretch(r, c, w) == Glyph("stretch", r, c, w, 0, 0)

\* Inactive windows get a hollow cursor (216-220); a box cursor also gets
\* an inverse entry (233-242), which is the style 0 case.
CursorStyle == IF p.selected THEN p.cursorType ELSE 3
CursorAt(r, c) == [row |-> r, col |-> c, style |-> CursorStyle]

TypeOK ==
    /\ p.buf \in Buffers /\ {p.start, p.point} \subseteq 1..Zv
    /\ p.cols \in ColsSet /\ p.rows \in RowsSet /\ p.truncate \in BOOLEAN
    /\ p.tabWidth \in TabWidths /\ p.cursorType \in CursorTypes
    /\ p.selected \in Selected
    /\ pc \in {"start", "loop", "finish", "done"}
    /\ text \in Seq(0..255)
    /\ i \in 1..(Len(text) + 1)
    /\ col \in Nat /\ row \in 0..p.rows
    /\ charpos \in Nat /\ windowEnd \in Nat /\ endRow \in Int
    /\ placed \in BOOLEAN
    /\ glyphs \in Seq([kind : {"char", "stretch", "fill"}, row : Nat,
                       col : Nat, w : Int, pos : Nat, ch : Nat])
    /\ cursors \in Seq([row : Nat, col : Nat, style : Nat])

\* The window parameters layout_frame passes in (62-87).  BEGV is 1 and
\* buffer_size is ZV, one past the last character.
Init ==
    /\ \E b \in Buffers, c \in ColsSet, r \in RowsSet, t \in BOOLEAN,
          tw \in TabWidths, ct \in CursorTypes, sel \in Selected :
         \E s, pt \in 1..(Len(b) + 1) :
            p = [buf |-> b, start |-> s, point |-> pt, cols |-> c, rows |-> r,
                 truncate |-> t, tabWidth |-> tw, cursorType |-> ct,
                 selected |-> sel]
    /\ pc = "start"
    /\ text = <<>> /\ i = 1
    /\ col = 0 /\ row = 0 /\ charpos = p.start
    /\ placed = FALSE /\ windowEnd = p.start /\ endRow = 0
    /\ glyphs = <<>> /\ cursors = <<>>

-----------------------------------------------------------------------------
(* Set-up, lines 133-203.                                                   *)

\* neomacs_layout_buffer_text(buffer, from, to, ...): the bytes of the
\* characters from .. to-1 of a multibyte buffer.
ReadText(from, to) ==
    FlattenSeq([k \in 1..(to - from) |-> Utf8Encode(p.buf[from + k - 1])])

ReadChars == Min({Zv - p.start + 1, p.cols * p.rows * 2})
ReadEnd   == Min({p.start + ReadChars, Zv})

\* cols <= 0 || max_rows <= 0: return (152-154).
StartNoTextArea ==
    /\ pc = "start"
    /\ p.cols <= 0 \/ p.rows <= 0
    /\ pc' = "done"
    /\ UNCHANGED <<p, text, i, col, row, charpos, placed, windowEnd, endRow,
                   glyphs, cursors>>

\* bytes_read <= 0: return (174-176).  window_start = ZV reads nothing.
\* read_chars <= 0 (157-160) needs window_start > ZV, which Init
\* excludes.
StartNoText ==
    /\ pc = "start"
    /\ p.cols > 0 /\ p.rows > 0
    /\ ReadText(p.start, ReadEnd) = <<>>
    /\ pc' = "done"
    /\ UNCHANGED <<p, text, i, col, row, charpos, placed, windowEnd, endRow,
                   glyphs, cursors>>

StartWalk ==
    /\ pc = "start"
    /\ p.cols > 0 /\ p.rows > 0 /\ ReadChars > 0
    /\ text' = ReadText(p.start, ReadEnd)
    /\ text' # <<>>
    /\ pc' = "loop"
    /\ UNCHANGED <<p, i, col, row, charpos, placed, windowEnd, endRow,
                   glyphs, cursors>>

-----------------------------------------------------------------------------
(* One iteration of the walk (205-384).                                    *)

\* Bug variant: the loop bound written row <= max_rows.
LoopCondOffByOne == i <= Len(text) /\ row <= p.rows

\* while byte_idx < bytes_read && row < max_rows (205)
LoopCond == i <= Len(text) /\ row < p.rows

\* The character decoded at byte_idx (248-250).
Dec  == EngineDecode(SubSeq(text, i, Len(text)))
Ch   == Dec[1]
NextI == i + Dec[2]

\* Bug variant: the !cursor_placed test dropped.
PlaceCursorNoFlag ==
    IF charpos >= p.point
       THEN /\ cursors' = Append(cursors, CursorAt(row, col))
            /\ placed' = TRUE
       ELSE UNCHANGED <<cursors, placed>>

\* !cursor_placed && charpos >= point: a cursor at (col, row) (207-245).
PlaceCursor ==
    IF ~placed /\ charpos >= p.point
       THEN /\ cursors' = Append(cursors, CursorAt(row, col))
            /\ placed' = TRUE
       ELSE UNCHANGED <<cursors, placed>>

\* The inner loops that discard the rest of a logical line under
\* truncate_lines (277-287, 312-322, 345-354): the byte index and char
\* position after the next newline, and whether one was found.
RECURSIVE SkipLine(_, _)
SkipLine(j, cp) ==
    IF j > Len(text) THEN [i |-> j, cp |-> cp, nl |-> FALSE]
    ELSE LET d == EngineDecode(SubSeq(text, j, Len(text))) IN
         IF d[1] = Newline THEN [i |-> j + d[2], cp |-> cp + 1, nl |-> TRUE]
         ELSE SkipLine(j + d[2], cp + 1)

\* Line-end policy of a tab or a control character that does not fit:
\* skip to the next line, or wrap to column 0 of the next row.
LineEnd(j, cp, c, r) ==
    IF p.truncate
       THEN LET s == SkipLine(j, cp) IN
            [i |-> s.i, cp |-> s.cp, col |-> IF s.nl THEN 0 ELSE c,
             row |-> IF s.nl THEN r + 1 ELSE r]
       ELSE [i |-> j, cp |-> cp, col |-> 0, row |-> r + 1]

\* Set the position after a step and record window_end_charpos (383).
MoveTo(st) ==
    /\ i' = st.i /\ charpos' = st.cp /\ col' = st.col /\ row' = st.row
    /\ windowEnd' = st.cp

\* Bug variant: '\n' resets the column but stays on the row.
StepNewlineSameRow ==
    /\ pc = "loop" /\ LoopCond /\ Ch = Newline
    /\ PlaceCursor
    /\ glyphs' = glyphs \o (IF p.cols - col > 0
                              THEN <<Stretch(row, col, p.cols - col)>> ELSE <<>>)
    /\ MoveTo([i |-> NextI, cp |-> charpos + 1, col |-> 0, row |-> row])
    /\ UNCHANGED <<p, pc, text, endRow>>

\* '\n': stretch over the rest of the row, then the next row (253-263).
StepNewline ==
    /\ pc = "loop" /\ LoopCond /\ Ch = Newline
    /\ PlaceCursor
    /\ glyphs' = glyphs \o (IF p.cols - col > 0
                              THEN <<Stretch(row, col, p.cols - col)>> ELSE <<>>)
    /\ MoveTo([i |-> NextI, cp |-> charpos + 1, col |-> 0, row |-> row + 1])
    /\ UNCHANGED <<p, pc, text, endRow>>

\* '\t': a stretch to the next tab stop, capped at the row end (264-295).
StepTab ==
    /\ pc = "loop" /\ LoopCond /\ Ch = Tab
    /\ PlaceCursor
    /\ LET tw     == Max({p.tabWidth, 1})
           spaces == Min({((col \div tw) + 1) * tw - col, p.cols - col})
           c2     == col + spaces
       IN /\ glyphs' = Append(glyphs, Stretch(row, col, spaces))
          /\ MoveTo(IF c2 >= p.cols THEN LineEnd(NextI, charpos + 1, c2, row)
                    ELSE [i |-> NextI, cp |-> charpos + 1, col |-> c2, row |-> row])
    /\ UNCHANGED <<p, pc, text, endRow>>

\* '\r' is skipped (296-298).
StepCR ==
    /\ pc = "loop" /\ LoopCond /\ Ch = CR
    /\ PlaceCursor
    /\ MoveTo([i |-> NextI, cp |-> charpos + 1, col |-> col, row |-> row])
    /\ UNCHANGED <<p, pc, text, endRow, glyphs>>

IsControl(c) == c < 32 /\ c \notin {Newline, Tab, CR}

\* A control character that fits is shown as ^X (299-316).
StepControl ==
    /\ pc = "loop" /\ LoopCond /\ IsControl(Ch)
    /\ col + 2 <= p.cols
    /\ PlaceCursor
    /\ glyphs' = glyphs \o <<Glyph("char", row, col, 1, charpos, 94),
                             Glyph("char", row, col + 1, 1, charpos, Ch + 64)>>
    /\ MoveTo([i |-> NextI, cp |-> charpos + 1, col |-> col + 2, row |-> row])
    /\ UNCHANGED <<p, pc, text, endRow>>

\* One that does not fit takes the line-end policy, and is not shown
\* (317-335).
StepControlLineEnd ==
    /\ pc = "loop" /\ LoopCond /\ IsControl(Ch)
    /\ col + 2 > p.cols
    /\ PlaceCursor
    /\ MoveTo(LineEnd(NextI, charpos + 1, col, row))
    /\ UNCHANGED <<p, pc, text, endRow, glyphs>>

IsNormal(c) == c >= 32
Width(c) == IF IsWideChar(c) THEN 2 ELSE 1

\* Bug variant: window_end_charpos recorded before charpos += 1.
StepNormalEndBefore ==
    /\ pc = "loop" /\ LoopCond /\ IsNormal(Ch)
    /\ col + Width(Ch) <= p.cols
    /\ PlaceCursor
    /\ glyphs' = Append(glyphs, Glyph("char", row, col, Width(Ch), charpos, Ch))
    /\ i' = NextI /\ charpos' = charpos + 1 /\ col' = col + Width(Ch)
    /\ row' = row /\ windowEnd' = charpos
    /\ UNCHANGED <<p, pc, text, endRow>>

\* A character that fits on the row (337-342, 371-379).
StepNormal ==
    /\ pc = "loop" /\ LoopCond /\ IsNormal(Ch)
    /\ col + Width(Ch) <= p.cols
    /\ PlaceCursor
    /\ glyphs' = Append(glyphs, Glyph("char", row, col, Width(Ch), charpos, Ch))
    /\ MoveTo([i |-> NextI, cp |-> charpos + 1, col |-> col + Width(Ch), row |-> row])
    /\ UNCHANGED <<p, pc, text, endRow>>

\* Line full under truncate_lines: skip the rest of the logical line and
\* `continue`, which skips the window_end update (343-356).
StepNormalTruncate ==
    /\ pc = "loop" /\ LoopCond /\ IsNormal(Ch)
    /\ col + Width(Ch) > p.cols /\ p.truncate
    /\ PlaceCursor
    /\ LET s == SkipLine(NextI, charpos + 1) IN
       /\ i' = s.i /\ charpos' = s.cp
       /\ col' = IF s.nl THEN 0 ELSE col
       /\ row' = IF s.nl THEN row + 1 ELSE row
    /\ UNCHANGED <<p, pc, text, endRow, glyphs, windowEnd>>

WrapFill == IF p.cols - col > 0 THEN <<Stretch(row, col, p.cols - col)>> ELSE <<>>

\* Bug variant: the row >= max_rows break (366-368) missing.
StepNormalWrapNoBreak ==
    /\ pc = "loop" /\ LoopCond /\ IsNormal(Ch)
    /\ col + Width(Ch) > p.cols /\ ~p.truncate
    /\ PlaceCursor
    /\ glyphs' = glyphs \o WrapFill
                        \o <<Glyph("char", row + 1, 0, Width(Ch), charpos, Ch)>>
    /\ MoveTo([i |-> NextI, cp |-> charpos + 1, col |-> Width(Ch), row |-> row + 1])
    /\ UNCHANGED <<p, pc, text, endRow>>

\* Line full, wrapping: fill the row and place the character at the
\* start of the next one (357-370, 371-379).
StepNormalWrap ==
    /\ pc = "loop" /\ LoopCond /\ IsNormal(Ch)
    /\ col + Width(Ch) > p.cols /\ ~p.truncate
    /\ row + 1 < p.rows
    /\ PlaceCursor
    /\ glyphs' = glyphs \o WrapFill
                        \o <<Glyph("char", row + 1, 0, Width(Ch), charpos, Ch)>>
    /\ MoveTo([i |-> NextI, cp |-> charpos + 1, col |-> Width(Ch), row |-> row + 1])
    /\ UNCHANGED <<p, pc, text, endRow>>

\* Wrapping past the last row: `break` (366-368).
StepNormalWrapBreak ==
    /\ pc = "loop" /\ LoopCond /\ IsNormal(Ch)
    /\ col + Width(Ch) > p.cols /\ ~p.truncate
    /\ row + 1 >= p.rows
    /\ PlaceCursor
    /\ glyphs' = glyphs \o WrapFill
    /\ i' = NextI /\ charpos' = charpos + 1 /\ col' = 0 /\ row' = row + 1
    /\ pc' = "finish"
    /\ UNCHANGED <<p, text, endRow, windowEnd>>

LoopExit ==
    /\ pc = "loop" /\ ~LoopCond
    /\ pc' = "finish"
    /\ UNCHANGED <<p, text, i, col, row, charpos, placed, windowEnd, endRow,
                   glyphs, cursors>>

-----------------------------------------------------------------------------
(* After the walk (386-434): the cursor at the end if point was not       *)
(* reached, a stretch over the remaining rows, and set_window_end.        *)
Finish ==
    /\ pc = "finish"
    /\ cursors' = IF ~placed /\ p.point >= p.start
                     THEN Append(cursors, CursorAt(Min({row, p.rows - 1}), col))
                     ELSE cursors
    /\ glyphs' = IF row + 1 < p.rows
                    THEN Append(glyphs, Glyph("fill", row + 1, 0, p.cols, 0, 0))
                    ELSE glyphs
    /\ endRow' = Min({row, p.rows - 1})
    /\ pc' = "done"
    /\ UNCHANGED <<p, text, i, col, row, charpos, placed, windowEnd>>

Next ==
    \/ StartNoTextArea \/ StartNoText \/ StartWalk
    \/ StepNewline \/ StepTab \/ StepCR \/ StepControl \/ StepControlLineEnd
    \/ StepNormal \/ StepNormalTruncate \/ StepNormalWrap \/ StepNormalWrapBreak
    \/ LoopExit \/ Finish

\* layout_window runs to completion on the host thread.
Spec == Init /\ [][Next]_vars /\ WF_vars(Next)

-----------------------------------------------------------------------------
(* Properties.                                                             *)

Done == pc = "done"
CharGlyphs == {k \in 1..Len(glyphs) : glyphs[k].kind = "char"}

\* Monospace invariant (spec 8): each entry of a row starts where the one
\* before it ended, and a new row starts at column 0, through newlines,
\* tab stops, ^X pairs, wide characters, wraps and truncation skips.
RowGlyphsContiguous ==
    /\ glyphs # <<>> => glyphs[1].col = 0
    /\ \A k \in 1..(Len(glyphs) - 1) :
          LET g == glyphs[k]  h == glyphs[k + 1] IN
          \/ h.row = g.row /\ h.col = g.col + g.w
          \/ h.row > g.row /\ h.col = 0

\* The walk emits at most one cursor per window: the cursor test at the
\* top of each iteration (207) and the fallback after the loop (387)
\* both respect cursor_placed.
AtMostOneCursor == Len(cursors) <= 1

\* No entry is drawn below the text area: the wrap of a full row stops at
\* the last row (366) and the background fill starts only below the
\* last row reached (422).
GlyphRowsInsideWindow == \A k \in 1..Len(glyphs) : glyphs[k].row < p.rows

\* window_end_charpos, written back to Emacs, lies past every character
\* shown and not past what the walk consumed, across the `continue` of a
\* truncated row and the `break` of a full window (spec 6, 239).
WindowEndCoversGlyphs ==
    Done => /\ \A k \in CharGlyphs : glyphs[k].pos < windowEnd
            /\ windowEnd <= charpos

\* Cursor placement (spec 8): after layout a selected window with a text
\* area has exactly one cursor entry, and every cursor lies within the
\* text area.  The cursor is emitted at the column reached before the
\* character's line-end check (207), the fallback after the loop does not
\* clamp the column (388), and an empty read returns at 174 before the
\* fallback cursor.
CursorPlacement ==
    /\ (Done /\ p.selected /\ p.cols > 0 /\ p.rows > 0) => Len(cursors) = 1
    /\ \A k \in 1..Len(cursors) : cursors[k].col < p.cols /\ cursors[k].row < p.rows

=============================================================================
