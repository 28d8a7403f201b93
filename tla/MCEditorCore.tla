--------------------------- MODULE MCEditorCore ---------------------------
(***************************************************************************)
(* The components that run on the editor's own thread, checked in one    *)
(* run: layout_window (LayoutEngine), the text-coding operators (checked *)
(* over bounded inputs by MCTextCoding), the mode registry (ModeRegistry) *)
(* and the character grid the display keeps of a frame (CharacterGrid).  *)
(* They share no state, so a behaviour exercises one of  *)
(* them, named by part, chosen in the initial state.  The others stay in  *)
(* one fixed initial state of theirs, where all their invariants hold, so *)
(* the invariants need no guard.                                          *)
(*                                                                         *)
(* Layout: windows of at most 3 cells by 2 rows over buffers of up to 3   *)
(* characters: an ordinary letter, a wide CJK ideograph, a newline, a     *)
(* tab, a carriage return and a C0 control character.                    *)
(* Modes: three major modes (fundamental-mode among them), so that a      *)
(* chain of two parents and a cycle through two modes both occur; one    *)
(* minor mode, one buffer, one custom variable and one group.  The       *)
(* auto-mode list runs as a part of its own ("automode"): nothing else    *)
(* reads it, and with the registry's other state it would only multiply  *)
(* the states.  Two patterns, one a suffix of the other, and file names   *)
(* that match both, one or neither; a list of up to three entries.       *)
(* Text coding: the inputs MCTextCoding enumerates.                       *)
(* Grid: at most 2 columns and 3 rows with one non-blank text: enough for *)
(* a scroll that wraps, a region of two rows shifted inside three, and a  *)
(* resize after a scroll.  Coordinates go one past the largest size so    *)
(* the out-of-range paths of get_cell_mut and mark_row_dirty are taken.   *)
(***************************************************************************)
EXTENDS Integers, Sequences

CONSTANTS
    Parts,
    ColsSet, RowsSet, TabWidths, CursorTypes, Selected,
    fund, m1, m2, n1, b1, v1, g1,
    Majors, Fundamental, Minors, ModeBuffers, Vars, Groups, NoMode, Hangs,
    Patterns, FileNames, MaxAuto, Percents,
    Blank, a

VARIABLES
    part,
    p, pc, text, i, col, row, charpos, placed, windowEnd, endRow, glyphs, cursors,
    majors, minorReg, minorLighter, bufferMajor, bufferMinor, globalMinor, customVars,
    varGroup, customGroups, groupMembers, autoModes,
    input,
    width, height, lines, scrollOffset

Alphabet == {97, 19968, 10, 9, 13, 1}
LayoutBuffers == UNION {[1..n -> Alphabet] : n \in 0..3}
MCMajors == {fund, m1, m2}
MCPatterns == {<<".", "r", "s">>, <<"s">>}
MCFileNames == {<<"a", ".", "r", "s">>, <<"a", ".", "t", "s">>, <<"a">>}

L == INSTANCE LayoutEngine WITH Buffers <- LayoutBuffers
M == INSTANCE ModeRegistry WITH Buffers <- ModeBuffers
T == INSTANCE MCTextCoding
G == INSTANCE CharacterGrid
       WITH Texts <- {Blank, a}, Cells <- {<<a>>, <<a, a>>}, Widths <- {1, 2},
            Heights <- {1, 2, 3}, InitWidth <- 2, InitHeight <- 2,
            Shifts <- {-1, 1}, XIn <- 0..2, YIn <- 0..3

lvars == <<p, pc, text, i, col, row, charpos, placed, windowEnd, endRow, glyphs, cursors>>
mvars == <<majors, minorReg, minorLighter, bufferMajor, bufferMinor, globalMinor,
           customVars, varGroup, customGroups, groupMembers, autoModes>>
gvars == <<width, height, lines, scrollOffset>>

\* The fixed states of the parts that do not run: an empty buffer in a
\* window with no text area, and the code point A.
IdleLayout ==
    [buf |-> <<>>, start |-> 1, point |-> 1, cols |-> 0, rows |-> 1,
     truncate |-> FALSE, tabWidth |-> CHOOSE t \in TabWidths : TRUE,
     cursorType |-> CHOOSE c \in CursorTypes : TRUE,
     selected |-> CHOOSE s \in Selected : TRUE]
IdleInput == [kind |-> "char", cp |-> 65]

LayoutIdle == p = IdleLayout /\ L!Init

UInit ==
    /\ part \in Parts /\ M!Init
    /\ IF part = "layout" THEN L!Init ELSE LayoutIdle
    /\ IF part = "text" THEN T!Init ELSE input = IdleInput
    /\ G!Init

UNext ==
    \/ part = "layout" /\ L!Next /\ UNCHANGED <<part, mvars, input, gvars>>
    \/ part = "modes" /\ M!RegistryNext /\ UNCHANGED <<part, lvars, input, gvars>>
    \/ part = "automode" /\ M!AutoNext /\ UNCHANGED <<part, lvars, input, gvars>>
    \/ part = "text" /\ T!Next /\ UNCHANGED <<part, lvars, mvars, gvars>>
    \/ part = "grid" /\ G!Next /\ UNCHANGED <<part, lvars, mvars, input>>

uvars == <<part, lvars, mvars, input, gvars>>

USpec == UInit /\ [][UNext]_uvars

\* The properties each module states, under the names of its run.
LayoutTypeOK == L!TypeOK
RowGlyphsContiguous == L!RowGlyphsContiguous
AtMostOneCursor == L!AtMostOneCursor
GlyphRowsInsideWindow == L!GlyphRowsInsideWindow
WindowEndCoversGlyphs == L!WindowEndCoversGlyphs
ModesTypeOK == M!TypeOK
DerivedModeCorrect == M!DerivedModeCorrect
FontLockFromNearest == M!FontLockFromNearest
ActiveModesExact == M!ActiveModesExact
AutoModeFirstMatch == M!AutoModeFirstMatch
\* Rendering the mode line in every state is the run's costliest check;
\* outside the modes part the registry keeps its initial state, where
\* the modes part checks it too.
ModeLineMatchesRender == part = "modes" => M!ModeLineMatchesRender
EngineDecodesValidUtf8 == T!EngineDecodesValidUtf8
GapCopyIsText == T!GapCopyIsText
LispTagsDecode == T!LispTagsDecode
PrintableExact == T!PrintableExact
WindowCountExact == T!WindowCountExact
PositionsAgree == T!PositionsAgree
WidthAccounting == T!WidthAccounting
GridTypeOK == G!TypeOK
\* The grid's action properties are checked on the grid's own steps only:
\* the others leave its variables unchanged.
GridChangedRowsDirty == [][part = "grid" => G!ChangedRowsDirtied]_uvars
GridStepsRefine == [][part = "grid" => G!GridStepRefines]_uvars
=============================================================================
