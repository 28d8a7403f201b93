---------------------------- MODULE MCTextCoding ----------------------------
(* Checks the pure text-coding operators over bounded inputs, one state per *)
(* input: the two UTF-8 decoders (Utf8) over boundary byte strings and code *)
(* points, gap_buffer_copy_text over every text of up to three bytes with  *)
(* every gap position, and frame_window_count over every window tree of    *)
(* depth two with two or three children per internal window, the          *)
(* byte/char position helpers over every str of up to three chars of one  *)
(* to four bytes each, and char_display_width at the edges of its tables.  *)
EXTENDS Utf8, EmacsTypes, CharUtils

VARIABLE input

Leads == {0, 65, 127, 128, 191, 192, 193, 194, 223, 224, 237, 239, 240,
          244, 247, 248, 255}
Conts == {65, 128, 160, 191}
\* U+0000, ASCII, the first and last of each encoded length, the surrogate
\* edges, U+FFFD, the first wide ideograph and the last scalar value.
CodePoints == {0, 65, 127, 128, 255, 2047, 2048, 19968, 55295, 57344,
               65533, 65535, 65536, 131072, 1114111}

ByteStrings ==
    UNION {{<<b>> \o t : t \in UNION {[1..n -> Conts] : n \in 0..3}} : b \in Leads}

\* Buffer bytes: ASCII and both halves of the Latin-1 range; the gap holds 0.
TextBytes == {65, 128, 255}
GapFill   == 0
Texts     == UNION {[1..n -> TextBytes] : n \in 0..3}

\* The buffer_text whose text without the gap is txt.
BufferText(txt, g, gs, mb) ==
    [mem |-> SubSeq(txt, 1, g - 1) \o [i \in 1..gs |-> GapFill] \o SubSeq(txt, g, Len(txt)),
     gpt |-> g, gap |-> gs, multibyte |-> mb]

GapInputs ==
    UNION {{[kind |-> "gap", text |-> txt, gpt |-> g, gap |-> gs, multibyte |-> mb,
             from |-> fr, to |-> to] :
              g \in 1..(Len(txt) + 1), gs \in {0, 2}, mb \in BOOLEAN,
              fr \in 1..(Len(txt) + 1), to \in 1..(Len(txt) + 1)} : txt \in Texts}

\* The model's stand-in for the 64 slots of the window stack.
StackSlots == 4

Leaf == [kind |-> "leaf", children |-> <<>>]
Node(cs) == [kind |-> "internal", children |-> cs]
Level1 == {Leaf} \cup {Node(cs) : cs \in [1..2 -> {Leaf}] \cup [1..3 -> {Leaf}]}
Trees  == Level1 \cup {Node(cs) : cs \in [1..2 -> Level1] \cup [1..3 -> Level1]}

FrameInputs ==
    [kind : {"frame"}, null : BOOLEAN, rootIsWindow : BOOLEAN, root : Trees,
     mini : {"own", "other", "none"}]

\* One char of each UTF-8 length: A, e acute, U+4E00, U+1F600.
StrChars == {65, 233, 19968, 128512}
Strs     == UNION {[1..n -> StrChars] : n \in 0..3}

\* Each end of every range of the width tables and the code point either
\* side of it, the zero-width characters, and the ASCII and C1 edges.
WidthSamples ==
    UNION {{r[1] - 1, r[1], r[2], r[2] + 1} : r \in CombiningRanges \cup CharUtilsWideRanges}
      \cup ZeroWidthChars \cup {0, 31, 32, 126, 127, 128, 159, 160, SoftHyphen}

\* Lisp values as Emacs tags them (lisp.h, USE_LSB_TAG): a fixnum n is
\* (n << INTTYPEBITS) + Lisp_Int0, anything else its 8-aligned address
\* plus its type tag.  Symbol 0 is nil.
LispTags == [symbol |-> 0, cons |-> 3, string |-> 4, vectorlike |-> 5, float |-> 7]
LispValues == [type : {"int"}, val : -5..5] \cup [type : DOMAIN LispTags, val : 0..2]
LispWord(o) == IF o.type = "int" THEN 4 * o.val + 2 ELSE 8 * o.val + LispTags[o.type]

\* The edges of the noncharacter block U+FDD0-FDEF and of the last two code
\* points of planes 0, 1 and 16, and the end of C1.
PrintSamples == {159, 160, 64975, 64976, 65007, 65008, 65533, 65534, 65535,
                 65536, 131069, 131070, 131071, 1114109, 1114110, 1114111}

Init == input \in [kind : {"bytes"}, bs : ByteStrings]
                  \cup [kind : {"str"}, s : Strs] \cup [kind : {"width"}, cp : WidthSamples \cup PrintSamples]
                  \cup [kind : {"char"}, cp : CodePoints]
                  \cup GapInputs \cup FrameInputs \cup [kind : {"obj"}, o : LispValues]
Next == UNCHANGED input

\* Reference definitions: the decoded text, the leaves and all windows of
\* a tree.
RECURSIVE DecodeAll(_)
DecodeAll(bs) ==
    IF bs = <<>> THEN <<>>
    ELSE LET d == EngineDecode(bs) IN <<d[1]>> \o DecodeAll(SubSeq(bs, d[2] + 1, Len(bs)))

RECURSIVE LeafCount(_), WindowsIn(_)
LeafCount(w) ==
    IF w.kind = "leaf" THEN 1
    ELSE FoldSeq(LAMBDA c, acc : LeafCount(c) + acc, 0, w.children)
WindowsIn(w) ==
    1 + FoldSeq(LAMBDA c, acc : WindowsIn(c) + acc, 0, w.children)

\* Spec 8, UTF-8 round trip: the engine's decoder gives back every encoded
\* scalar value with the byte count the encoder wrote, and it agrees with
\* the strict decoder of char_utils on every well-formed sequence.
EngineDecodesValidUtf8 ==
    /\ input.kind = "char" =>
          EngineDecode(Utf8Encode(input.cp) \o <<65>>)
             = <<input.cp, Len(Utf8Encode(input.cp))>>
    /\ input.kind = "bytes" /\ CharUtilsDecode(input.bs) # NoChar =>
          EngineDecode(input.bs) = CharUtilsDecode(input.bs)

\* Spec 4.4 and 7: a malformed or truncated sequence decodes to U+FFFD for
\* the offending byte, and decoding continues with the next byte.
MalformedBecomesReplacement ==
    input.kind = "bytes" /\ CharUtilsDecode(input.bs) = NoChar
        => EngineDecode(input.bs) = <<Replacement, 1>>

\* The tag tests read a Lisp_Object as Emacs wrote it: nilp holds of nil
\* alone, xfixnat gives back exactly the non-negative fixnums, odd and
\* negative ones included, and buffer_tab_width falls back to 8 for every
\* other value (emacs_types.rs:37-71, 242-244).
LispTagsDecode ==
    input.kind = "obj" =>
      LET o == input.o  w == LispWord(o)
          nat == o.type = "int" /\ o.val >= 0
      IN /\ NilP(w) <=> o = [type |-> "symbol", val |-> 0]
         /\ XFixnat(w) = IF nat THEN {o.val} ELSE {}
         /\ BufferTabWidth(w) = IF nat THEN o.val ELSE 8

\* Spec 3 and 8: gap_buffer_copy_text returns the text of [from, to) as if
\* there were no gap, wherever the range lies against the gap.  For a
\* unibyte buffer the widened bytes decode, through the layout engine's
\* decoder, back to one character per byte with the byte's value.
GapCopyIsText ==
    input.kind = "gap" =>
      LET out  == GapBufferCopyText(BufferText(input.text, input.gpt, input.gap,
                                               input.multibyte),
                                    input.from, input.to)
          want == SubSeq(input.text, input.from, input.to - 1)
      IN IF input.multibyte THEN out = want ELSE DecodeAll(out) = want

\* frame_window_count never counts more than the leaf windows plus an owned
\* minibuffer window, and counts exactly that when the frame has no more
\* windows than its stack has slots.
WindowCountExact ==
    input.kind = "frame" /\ ~input.null /\ input.rootIsWindow =>
      LET n    == FrameWindowCount(input, StackSlots)
          want == LeafCount(input.root) + (IF input.mini = "own" THEN 1 ELSE 0)
      IN /\ n <= want
         /\ WindowsIn(input.root) <= StackSlots => n = want

\* Spec 8, byte/char position symmetry: on every char boundary
\* byte_to_char_pos and char_to_byte_pos are inverse, char_at_byte yields
\* the char that starts there, and an offset inside a char, past the end or
\* a char index past the last char panics (or is None for char_at_byte).
\* The code counts and finds lead bytes; the reference adds up the
\* encoded lengths of the chars.
PositionsAgree ==
    input.kind = "str" =>
      LET s  == input.s
          bs == StrBytes(s)
          Off(k) == FoldSeq(LAMBDA c, acc : CharBytes(c) + acc, 0, SubSeq(s, 1, k))
          Offs == {Off(k) : k \in 0..Len(s)}
      IN /\ \A k \in 0..Len(s) :
              /\ ByteToCharPos(bs, Off(k)) = k
              /\ CharToBytePos(bs, k) = Off(k)
              /\ CharAtByte(bs, Off(k)) = IF k < Len(s) THEN <<s[k + 1]>> ELSE NoChar
         /\ \A b \in (0..(Len(bs) + 1)) \ Offs :
              ByteToCharPos(bs, b) = Panic /\ CharAtByte(bs, b) = NoChar
         /\ CharToBytePos(bs, Len(s) + 1) = Panic

\* Spec 8, wide-character accounting: char_display_width is 0, 1 or 2;
\* it is 0 exactly for C0 controls and DEL, combining marks and the
\* zero-width characters (ZWSP, the joiners, BOM), and 2 exactly for the
\* wide ranges: no earlier check of the function shadows a table entry.
WidthAccounting ==
    input.kind = "width" =>
      LET cp == input.cp
          w  == CharDisplayWidth(cp)
      IN /\ w \in {0, 1, 2}
         /\ (w = 0) <=> (cp < 32 \/ cp = 127 \/ IsCombiningMark(cp) \/ cp \in ZeroWidthChars)
         /\ (w = 2) <=> IsCharUtilsWide(cp)

\* Unicode's control characters (Cc) and noncharacters: U+FDD0-FDEF and
\* the last two code points of each of the 17 planes.
UnicodeCc == (0..31) \cup (127..159)
Noncharacters == (64976..65007) \cup {q * 65536 + r : q \in 0..16, r \in {65534, 65535}}

\* is_printable rejects exactly the controls and the noncharacters, and
\* is_control exactly the controls: the 0xFFFE mask catches both ends of
\* every plane and nothing else (char_utils.rs:230-248, 296-301).
PrintableExact ==
    input.kind = "width" =>
      LET cp == input.cp
      IN /\ IsControl(cp) <=> cp \in UnicodeCc
         /\ IsPrintable(cp) <=> (cp \notin UnicodeCc /\ cp \notin Noncharacters)

=============================================================================
