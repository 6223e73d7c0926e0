------------------------------- MODULE TextTools -------------------------------
(***************************************************************************)
(* The text helpers outside STD and StringFunc: the splitters of           *)
(* LibraryUse/BoostUse/test_string_ref.cc and of std_attri/Feature_17.hpp, *)
(* the line reader and the check code of CommonTools/PoboTool.cc, and the  *)
(* encoders of code points in std_attri/Features.hpp.                      *)
(***************************************************************************)
EXTENDS Integers, SequencesExt

\* What a loop over find_first_of cuts src into: one piece more than separators.
Pieces(src, separator) ==
    LET ends == SetToSortSeq({0, Len(src) + 1} \cup {i \in DOMAIN src : src[i] = separator}, <)
    IN [k \in 1 .. Len(ends) - 1 |-> SubSeq(src, ends[k] + 1, ends[k + 1] - 1)]

Filled(pieces) == SelectSeq(pieces, LAMBDA piece : piece # << >>)

\* Keeps empty pieces, but for the last.
Split(src, separator) ==
    LET pieces == Pieces(src, separator)
    IN IF Last(pieces) = << >> THEN Front(pieces) ELSE pieces

\* string_ref and string_view: no empty piece is kept.
Split_Ref(src, separator)  == Filled(Pieces(src, separator))
Split_View(src, separator) == Filled(Pieces(src, separator))

\* The three of Feature_17.hpp stop at the last separator.
SplitV(src, separator)  == Front(Pieces(src, separator))
Split_17(src, separator) == Front(Pieces(src, separator))
SplitVW(src, separator) == Front(Pieces(src, separator))

\* getline until the end of the file; empty lines are left out.
ReadLinesFromFile(contents) ==
    LET Put(st)     == IF st.oneline = << >> THEN st.lines ELSE Append(st.lines, st.oneline)
        Read(st, c) == IF c = "\n" THEN [lines |-> Put(st), oneline |-> << >>]
                       ELSE [st EXCEPT !.oneline = Append(@, c)]
    IN Put(FoldLeft(Read, [lines |-> << >>, oneline |-> << >>], contents))

-------------------------------------------------------------------------------
\* The i-th unsigned short of the bytes; a last odd byte is a word of its own.
Word(src, i) == src[2 * i - 1] + IF 2 * i > Len(src) THEN 0 ELSE 256 * src[2 * i]

GetCheckCode(src) ==
    FoldLeft(LAMBDA checknum, i : (checknum + Word(src, i)) % 65536, 0,
             [i \in 1 .. (Len(src) + 1) \div 2 |-> i])

-------------------------------------------------------------------------------
unicode_max == 1114111

\* The units written for a code point; none when it throws.
to_utf_16(ch) ==
    CASE ch > unicode_max -> << >>
      [] ch < 65536       -> <<ch>>
      [] OTHER            -> <<55296 + (ch - 65536) \div 1024, 56320 + (ch % 1024)>>

\* The continuation byte for the six bits of ch from bit n = 0, 6, 12 on.
Six(ch, n) == 128 + ((ch \div 2 ^ n) % 64)

to_utf_8(ch) ==
    CASE ch > unicode_max -> << >>
      [] ch < 128         -> <<ch>>
      [] ch < 2048        -> <<192 + ch \div 64, Six(ch, 0)>>
      [] ch < 65536       -> <<224 + ch \div 4096, Six(ch, 6), Six(ch, 0)>>
      [] OTHER            -> <<240 + ch \div 262144, Six(ch, 12), Six(ch, 6), Six(ch, 0)>>
===============================================================================
