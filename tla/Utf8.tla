-------------------------------- MODULE Utf8 --------------------------------
(***************************************************************************)
(* UTF-8 coding as the display code does it.                               *)
(*   EngineDecode   - decode_utf8 of layout/engine.rs (lenient: masks      *)
(*                    continuation bytes, U+FFFD for a stray or truncated  *)
(*                    lead byte or a value char::from_u32 rejects);        *)
(*   CharUtilsDecode - decode_utf8 of core/char_utils.rs (strict: the      *)
(*                    width of the lead byte, then str::from_utf8);        *)
(*   Utf8Encode     - encode_utf8 / char_bytes of core/char_utils.rs.      *)
(* Bit masks and shifts are written as % and * on naturals, which is what *)
(* they compute on these unsigned values.                                  *)
(***************************************************************************)
EXTENDS Naturals, Sequences

Replacement == 65533          \* U+FFFD
MaxScalar   == 1114111        \* U+10FFFF

IsScalar(cp) == cp <= MaxScalar /\ ~(55296 <= cp /\ cp <= 57343)

\* char::from_u32(cp).unwrap_or('\u{FFFD}')
FromU32(cp) == IF IsScalar(cp) THEN cp ELSE Replacement

\* char::encode_utf8: the bytes of one scalar value.
Utf8Encode(cp) ==
    CASE cp < 128                  -> <<cp>>
      [] 128 <= cp /\ cp < 2048    -> <<192 + cp \div 64, 128 + (cp % 64)>>
      [] 2048 <= cp /\ cp < 65536  -> <<224 + cp \div 4096,
                                       128 + ((cp \div 64) % 64), 128 + (cp % 64)>>
      [] 65536 <= cp               -> <<240 + cp \div 262144,
                                       128 + ((cp \div 4096) % 64),
                                       128 + ((cp \div 64) % 64), 128 + (cp % 64)>>

\* Payload bits of a continuation byte: b & 0x3F.
Cont(b) == b % 64

\* Bug variant: the two-byte branch written `b0 <= 0xE0`, swallowing the
\* first three-byte lead.
EngineDecodeOffByOne(bs) ==
    IF Len(bs) = 0 THEN <<0, 0>>
    ELSE LET b0 == bs[1] IN
    CASE b0 < 128              -> <<b0, 1>>
      [] 128 <= b0 /\ b0 < 192 -> <<Replacement, 1>>
      [] 192 <= b0 /\ b0 <= 224 ->
            IF Len(bs) < 2 THEN <<Replacement, 1>>
            ELSE <<FromU32((b0 % 32) * 64 + Cont(bs[2])), 2>>
      [] 224 < b0 /\ b0 < 240 ->
            IF Len(bs) < 3 THEN <<Replacement, 1>>
            ELSE <<FromU32((b0 % 16) * 4096 + Cont(bs[2]) * 64 + Cont(bs[3])), 3>>
      [] 240 <= b0             ->
            IF Len(bs) < 4 THEN <<Replacement, 1>>
            ELSE <<FromU32((b0 % 8) * 262144 + Cont(bs[2]) * 4096
                           + Cont(bs[3]) * 64 + Cont(bs[4])), 4>>

\* layout/engine.rs decode_utf8: <<code point, bytes consumed>>.
EngineDecode(bs) ==
    IF Len(bs) = 0 THEN <<0, 0>>
    ELSE LET b0 == bs[1] IN
    CASE b0 < 128              -> <<b0, 1>>
      [] 128 <= b0 /\ b0 < 192 -> <<Replacement, 1>>
      [] 192 <= b0 /\ b0 < 224 ->
            IF Len(bs) < 2 THEN <<Replacement, 1>>
            ELSE <<FromU32((b0 % 32) * 64 + Cont(bs[2])), 2>>
      [] 224 <= b0 /\ b0 < 240 ->
            IF Len(bs) < 3 THEN <<Replacement, 1>>
            ELSE <<FromU32((b0 % 16) * 4096 + Cont(bs[2]) * 64 + Cont(bs[3])), 3>>
      [] 240 <= b0             ->
            IF Len(bs) < 4 THEN <<Replacement, 1>>
            ELSE <<FromU32((b0 % 8) * 262144 + Cont(bs[2]) * 4096
                           + Cont(bs[3]) * 64 + Cont(bs[4])), 4>>

\* char_utils.rs utf8_char_width.
Utf8CharWidth(b) ==
    CASE b < 128              -> 1
      [] 192 <= b /\ b < 224   -> 2
      [] 224 <= b /\ b < 240   -> 3
      [] 240 <= b /\ b < 248   -> 4
      [] OTHER                 -> 0

\* The value the lead byte and its continuations spell, for a given width.
Spelled(bs, w) ==
    CASE w = 1 -> bs[1]
      [] w = 2 -> (bs[1] % 32) * 64 + Cont(bs[2])
      [] w = 3 -> (bs[1] % 16) * 4096 + Cont(bs[2]) * 64 + Cont(bs[3])
      [] OTHER -> (bs[1] % 8) * 262144 + Cont(bs[2]) * 4096
                    + Cont(bs[3]) * 64 + Cont(bs[4])

NoChar == <<>>

\* char_utils.rs decode_utf8: NoChar for None.  str::from_utf8 accepts the
\* w bytes exactly when they are the encoding of a scalar value.
CharUtilsDecode(bs) ==
    IF Len(bs) = 0 THEN NoChar
    ELSE LET w == Utf8CharWidth(bs[1]) IN
         IF w = 0 \/ Len(bs) < w THEN NoChar
         ELSE LET cp == Spelled(bs, w) IN
              IF IsScalar(cp) /\ Utf8Encode(cp) = SubSeq(bs, 1, w)
                 THEN <<cp, w>> ELSE NoChar

\* layout/engine.rs is_wide_char: the CJK, Hangul, fullwidth and kana
\* ranges that take two columns.
WideRanges ==
    {<<19968, 40959>>, <<13312, 19903>>, <<131072, 173791>>, <<63744, 64255>>,
     <<65281, 65376>>, <<65504, 65510>>, <<44032, 55215>>, <<11904, 12255>>,
     <<12288, 12351>>, <<12352, 12447>>, <<12448, 12543>>, <<12784, 12799>>}

IsWideChar(cp) == \E r \in WideRanges : r[1] <= cp /\ cp <= r[2]

=============================================================================
