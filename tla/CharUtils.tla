----------------------------- MODULE CharUtils -----------------------------
(***************************************************************************)
(* The position and width helpers of core/char_utils.rs.  A &str is the   *)
(* sequence of its bytes, which is always valid UTF-8; a char is its code *)
(* point.  A panic (assert! or panic!) is the value Panic, an Option<char> *)
(* is <<c>> or NoChar.                                                     *)
(***************************************************************************)
EXTENDS Utf8, Integers, SequencesExt

Panic == -1                 \* no usize is negative

\* char_bytes: ch.len_utf8().
CharBytes(cp) == Len(Utf8Encode(cp))

\* The bytes of a str holding the chars of s.
StrBytes(s) == FlattenSeq([i \in DOMAIN s |-> Utf8Encode(s[i])])

\* A UTF-8 continuation byte, 0x80..=0xBF (b as i8 < -0x40).
IsContinuation(b) == 128 <= b /\ b < 192

\* str::is_char_boundary.
IsCharBoundary(bs, b) ==
    \/ b = 0
    \/ b = Len(bs)
    \/ b < Len(bs) /\ ~IsContinuation(bs[b + 1])

\* chars().count() of the first n bytes: the bytes that start a char.
CharsIn(bs, n) == Cardinality({i \in 1..n : ~IsContinuation(bs[i])})

\* string_char_count.
StringCharCount(bs) == CharsIn(bs, Len(bs))

\* Bug variant: the range check rejects the end of the string.
ByteToCharPosEndExcluded(bs, b) ==
    IF b >= Len(bs) \/ ~IsCharBoundary(bs, b) THEN Panic ELSE CharsIn(bs, b)

\* byte_to_char_pos: both asserts, then s[..byte_pos].chars().count().
ByteToCharPos(bs, b) ==
    IF b > Len(bs) \/ ~IsCharBoundary(bs, b) THEN Panic ELSE CharsIn(bs, b)

\* char_indices() as the sequence of the byte offsets it yields.
CharIndices(bs) ==
    SelectSeq([i \in 1..Len(bs) |-> i - 1], LAMBDA i : ~IsContinuation(bs[i + 1]))

\* char_to_byte_pos: the offset of the char_pos-th char; one past the last
\* char is s.len(); anything further panics.
CharToBytePos(bs, c) ==
    LET ix == CharIndices(bs) IN
    IF c < Len(ix) THEN ix[c + 1]
    ELSE IF c = StringCharCount(bs) THEN Len(bs) ELSE Panic

\* char_at_byte: None past the end or inside a char, else the next char.
CharAtByte(bs, b) ==
    IF b >= Len(bs) \/ ~IsCharBoundary(bs, b) THEN NoChar
    ELSE <<CharUtilsDecode(SubSeq(bs, b + 1, Len(bs)))[1]>>

-----------------------------------------------------------------------------
(* Display width.  Ranges are inclusive <<first, last>> pairs.            *)

\* is_combining_mark: the Mn/Mc/Me ranges it lists.
CombiningRanges ==
    {<<768, 879>>, <<6832, 6911>>, <<7616, 7679>>, <<8400, 8447>>, <<65056, 65071>>,
     <<1425, 1469>>, <<1471, 1471>>, <<1473, 1474>>, <<1476, 1477>>, <<1479, 1479>>,
     <<1552, 1562>>, <<1611, 1631>>, <<1648, 1648>>, <<1750, 1756>>, <<1759, 1764>>,
     <<1767, 1768>>, <<1770, 1773>>,
     <<2304, 2307>>, <<2362, 2383>>, <<2385, 2391>>, <<2402, 2403>>,
     <<3633, 3633>>, <<3636, 3642>>, <<3655, 3662>>,
     <<4448, 4607>>, <<65024, 65039>>, <<917760, 917999>>}

\* is_wide_char of char_utils (East Asian Width W/F).
CharUtilsWideRanges ==
    {<<4352, 4447>>, <<9001, 9002>>, <<11904, 12350>>, <<12352, 13311>>,
     <<13312, 19903>>, <<19968, 40959>>, <<44032, 55203>>, <<63744, 64255>>,
     <<65040, 65049>>, <<65072, 65135>>, <<65281, 65376>>, <<65504, 65510>>,
     <<131072, 196607>>, <<196608, 262143>>}

InRanges(cp, rs) == \E r \in rs : r[1] <= cp /\ cp <= r[2]

IsCombiningMark(cp) == InRanges(cp, CombiningRanges)
IsCharUtilsWide(cp) == InRanges(cp, CharUtilsWideRanges)

SoftHyphen == 173
\* ZWSP, ZWNJ, ZWJ, WORD JOINER, BOM.
ZeroWidthChars == {8203, 8204, 8205, 8288, 65279}

\* Bug variant: DEL is not recognised as a control character.
CharDisplayWidthDelVisible(cp) ==
    CASE cp < 128                 -> IF cp < 32 THEN 0 ELSE 1
      [] IsCombiningMark(cp)      -> 0
      [] cp = SoftHyphen          -> 1
      [] cp \in ZeroWidthChars    -> 0
      [] IsCharUtilsWide(cp)      -> 2
      [] OTHER                    -> 1

\* char_display_width: the checks in the order the code makes them.
CharDisplayWidth(cp) ==
    CASE cp < 128                 -> IF cp < 32 \/ cp = 127 THEN 0 ELSE 1
      [] IsCombiningMark(cp)      -> 0
      [] cp = SoftHyphen          -> 1
      [] cp \in ZeroWidthChars    -> 0
      [] IsCharUtilsWide(cp)      -> 2
      [] OTHER                    -> 1

\* is_control: C0, DEL and C1.
IsControl(cp) == cp < 32 \/ cp = 127 \/ (128 <= cp /\ cp <= 159)

\* Bug variant: the mask is 0xFFFF, so only U+xxFFFE is caught.
IsPrintableMaskFFFF(cp) ==
    /\ ~(cp < 32 \/ cp = 127)
    /\ ~(128 <= cp /\ cp <= 159)
    /\ ~(64976 <= cp /\ cp <= 65007)
    /\ ~(cp % 65536 = 65534 /\ cp <= 1114111)

\* is_printable: no C0, DEL or C1 control and no noncharacter.  The test
\* cp & 0xFFFE == 0xFFFE on the low 16 bits is cp % 65536 >= 65534.
IsPrintable(cp) ==
    /\ ~(cp < 32 \/ cp = 127)
    /\ ~(128 <= cp /\ cp <= 159)
    /\ ~(64976 <= cp /\ cp <= 65007)
    /\ ~(cp % 65536 >= 65534 /\ cp <= 1114111)

=============================================================================
