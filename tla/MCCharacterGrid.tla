-------------------------- MODULE MCCharacterGrid --------------------------
(* A grid of at most 2 columns and 3 rows with one non-blank text: enough *)
(* for a scroll that wraps, a region of two rows shifted inside three, and *)
(* a resize after a scroll.  Coordinates go one past the largest size so  *)
(* the out-of-range paths of get_cell_mut and mark_row_dirty are taken.   *)
EXTENDS CharacterGrid

CONSTANTS a

MCTexts  == {Blank, a}
MCCells  == {<<a>>, <<a, a>>}
MCXIn    == 0..2
MCYIn    == 0..3
MCShifts == {-1, 1}
=============================================================================
