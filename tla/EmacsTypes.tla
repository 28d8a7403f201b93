---------------------------- MODULE EmacsTypes ----------------------------
(***************************************************************************)
(* The pure readers of layout/emacs_types.rs that do more than load a     *)
(* field: the tagged-word tests on Lisp_Object, the gap-buffer byte       *)
(* address and bulk copy, and the leaf count of a frame's window tree.    *)
(*                                                                         *)
(* A buffer_text is the record [mem, gpt, gap, multibyte]: mem is the     *)
(* memory from beg on, gap bytes included; gpt is gpt_byte and gap is     *)
(* gap_size.  A window is [kind, children]: an internal window's          *)
(* children are its contents followed by their next links.  Bit masks and *)
(* shifts on bytes are written as \div and %.                             *)
(***************************************************************************)
EXTENDS Integers, SequencesExt

-----------------------------------------------------------------------------
(* Lisp_Object is an i64.  On a two's complement word, obj & (2^k - 1) is  *)
(* obj % 2^k and an arithmetic obj >> k is obj \div 2^k (both floored).   *)
(* Option<i64> is a set: {} for None, {n} for Some(n).                    *)

INTTYPEBITS == 2

NilP(obj) == obj = 0                          \* nilp: Qnil is 0

\* Bug variant: only the Lisp_Int0 tag (0b010) is taken for a fixnum.
FixnumPInt0Only(obj) == obj % 8 = 2

\* fixnump: Lisp_Int0 (2) and Lisp_Int1 (6) share the low bits 0b10.
FixnumP(obj) == obj % 4 = 2

XFixnum(obj) == obj \div (2 ^ INTTYPEBITS)

FixnatP(obj) == FixnumP(obj) /\ XFixnum(obj) >= 0

XFixnat(obj) == IF FixnatP(obj) THEN {XFixnum(obj)} ELSE {}

\* buffer_tab_width: XFIXNAT of the slot, 8 when it is not a natural
\* fixnum.  The `as i32' is the identity on the values checked here, all
\* far below 2^31.
BufferTabWidth(tw) == IF XFixnat(tw) = {} THEN 8 ELSE CHOOSE n \in XFixnat(tw) : TRUE

-----------------------------------------------------------------------------

BegByte == 1                 \* BEG_BYTE

\* buf_byte_address, as an offset from beg.
BufByteAddress(t, pos) == pos - BegByte + (IF pos < t.gpt THEN 0 ELSE t.gap)

BufFetchByte(t, pos) == t.mem[BufByteAddress(t, pos) + 1]

\* from_raw_parts(beg + off, n).
Slice(t, off, n) == SubSeq(t.mem, off + 1, off + n)

\* A unibyte byte as UTF-8: 0xC0 | (b >> 6), 0x80 | (b & 0x3F) above 0x7F.
Widen(b) == IF b < 128 THEN <<b>> ELSE <<192 + (b \div 64), 128 + (b % 64)>>

\* Bug variant: the after-gap branch forgets to skip the gap.
GapBufferCopyTextNoGapSkip(t, from, to) ==
    IF from >= to THEN <<>>
    ELSE IF t.multibyte
      THEN IF to <= t.gpt THEN Slice(t, from - BegByte, to - from)
           ELSE IF from >= t.gpt THEN Slice(t, from - BegByte, to - from)
           ELSE Slice(t, from - BegByte, t.gpt - from)
                  \o Slice(t, t.gpt - BegByte + t.gap, to - t.gpt)
      ELSE FlattenSeq([i \in 1..(to - from) |-> Widen(BufFetchByte(t, from + i - 1))])

\* gap_buffer_copy_text: the bytes of [from, to).  A multibyte buffer is
\* copied in one or two slices around the gap; a unibyte buffer byte by
\* byte, widened to UTF-8.
GapBufferCopyText(t, from, to) ==
    IF from >= to THEN <<>>
    ELSE IF t.multibyte
      THEN IF to <= t.gpt THEN Slice(t, from - BegByte, to - from)
           ELSE IF from >= t.gpt THEN Slice(t, from - BegByte + t.gap, to - from)
           ELSE Slice(t, from - BegByte, t.gpt - from)
                  \o Slice(t, t.gpt - BegByte + t.gap, to - t.gpt)
      ELSE FlattenSeq([i \in 1..(to - from) |-> Widen(BufFetchByte(t, from + i - 1))])

-----------------------------------------------------------------------------
(* frame_window_count.  A frame is [null, root, rootIsWindow, mini]:      *)
(* mini is "own" when frame_has_minibuf_p holds (the minibuffer window's  *)
(* frame is this frame), "other" or "none" otherwise.                     *)

FrameHasMinibufP(f) == f.mini = "own"

\* The inner while loop: push each child while sp < the stack size.
RECURSIVE PushChildren(_, _, _)
PushChildren(st, cs, slots) ==
    IF cs = <<>> THEN st
    ELSE PushChildren(IF Len(st) < slots THEN Append(st, Head(cs)) ELSE st,
                      Tail(cs), slots)

RECURSIVE CountWindows(_, _, _)

\* Bug variant: internal windows are counted as well as leaves.
CountWindowsAll(st, count, slots) ==
    IF st = <<>> THEN count
    ELSE LET w == Last(st) IN
         IF w.kind = "internal"
           THEN CountWindows(PushChildren(Front(st), w.children, slots), count + 1, slots)
           ELSE CountWindows(Front(st), count + 1, slots)

\* The outer while loop: pop a window; push an internal window's children,
\* count a leaf.
CountWindows(st, count, slots) ==
    IF st = <<>> THEN count
    ELSE LET w == Last(st) IN
         IF w.kind = "internal"
           THEN CountWindows(PushChildren(Front(st), w.children, slots), count, slots)
           ELSE CountWindows(Front(st), count + 1, slots)

FrameWindowCount(f, slots) ==
    IF f.null \/ ~f.rootIsWindow THEN 0
    ELSE CountWindows(<<f.root>>, 0, slots) + (IF FrameHasMinibufP(f) THEN 1 ELSE 0)

=============================================================================
