---------------------------- MODULE LogicalGrid ----------------------------
(***************************************************************************)
(* What a character grid promises its users, without the ring buffer: a   *)
(* width x height matrix of cell texts addressed by logical row.  It is   *)
(* the abstraction CharacterGrid (core/grid.rs) is checked against.       *)
(*   - scrolling the whole grid by k rotates the rows: row y then shows   *)
(*     what row (y + k) mod height showed, so k then -k is the identity;  *)
(*   - scrolling a part of the grid shifts the region's cells by k rows,  *)
(*     a cell whose source lies outside the grid keeping its text;        *)
(*   - resizing keeps each row's text, cut or padded to the new width,    *)
(*     rows past the new height dropped and new rows blank (test_resize:  *)
(*     "Original cell should still be there").                            *)
(* Dirty flags are bookkeeping for the renderer and are not part of this  *)
(* view.  Rows and columns are numbered from 0 as in the code.            *)
(***************************************************************************)
EXTENDS Integers, Sequences

CONSTANTS Texts, Blank, Widths, Heights, InitWidth, InitHeight, Shifts,
          XIn, YIn, Cells

VARIABLES gw, gh, rows

avars == <<gw, gh, rows>>

Blanks(w) == [i \in 1..w |-> Blank]
Fit(r, w) == [i \in 1..w |-> IF i <= Len(r) THEN r[i] ELSE Blank]
Cell(y, x) == rows[y + 1][x + 1]

AInit ==
    /\ gw = InitWidth /\ gh = InitHeight
    /\ rows = [y \in 1..InitHeight |-> Blanks(InitWidth)]

ASetCell(x, y, t) ==
    /\ rows' = IF x < gw /\ y < gh THEN [rows EXCEPT ![y + 1][x + 1] = t] ELSE rows
    /\ UNCHANGED <<gw, gh>>

AUpdateRow(y, c, cs) ==
    /\ rows' = IF y < gh
                 THEN [rows EXCEPT ![y + 1] =
                        [i \in 1..gw |-> IF c < i /\ i <= c + Len(cs)
                                           THEN cs[i - c] ELSE @[i]]]
                 ELSE rows
    /\ UNCHANGED <<gw, gh>>

AClear == rows' = [y \in 1..gh |-> Blanks(gw)] /\ UNCHANGED <<gw, gh>>

ARotate(k) == [y \in 1..gh |-> rows[((y - 1 + k) % gh) + 1]]

AScroll(k) == rows' = ARotate(k) /\ UNCHANGED <<gw, gh>>

\* The region's cells after a shift by k rows: a cell (x, y) of the region
\* whose source row y - k is in range takes that row's old text.
InShiftedRegion(y, x, top, bottom, left, right, k) ==
    /\ left <= x /\ x < right
    /\ IF k > 0 THEN top + k <= y /\ y < bottom ELSE top <= y /\ y < bottom + k
    /\ y - k < gh

AScrollRegion(top, bottom, left, right, k, cols) ==
    /\ IF left = 0 /\ right = gw /\ cols = 0 /\ top = 0 /\ bottom = gh
         THEN rows' = ARotate(k)
         ELSE rows' = [y \in 1..gh |-> [x \in 1..gw |->
                         IF k # 0 /\ InShiftedRegion(y - 1, x - 1, top, bottom, left, right, k)
                           THEN Cell(y - 1 - k, x - 1) ELSE Cell(y - 1, x - 1)]]
    /\ UNCHANGED <<gw, gh>>

AResize(w, h) ==
    /\ rows' = [y \in 1..h |-> IF y <= gh THEN Fit(rows[y], w) ELSE Blanks(w)]
    /\ gw' = w /\ gh' = h

ANext ==
    \/ \E x \in XIn, y \in YIn, t \in Texts : ASetCell(x, y, t)
    \/ \E y \in YIn, c \in XIn, cs \in Cells : AUpdateRow(y, c, cs)
    \/ AClear
    \/ \E k \in Shifts : AScroll(k)
    \/ \E top, bottom \in YIn, left, right \in XIn, k \in Shifts \cup {0}, cols \in {0, 1} :
         AScrollRegion(top, bottom, left, right, k, cols)
    \/ \E w \in Widths, h \in Heights : AResize(w, h)

ASpec == AInit /\ [][ANext]_avars

=============================================================================
