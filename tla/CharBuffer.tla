------------------------------ MODULE CharBuffer ------------------------------
(***************************************************************************)
(* The text functions of CommonTools/STD.cc, which read texts that end in  *)
(* a 0 and write them into buffers of a given size.  A text is a sequence  *)
(* of characters without that 0; the value of an operator is the text its  *)
(* function leaves in the buffer, so the function has written one place    *)
(* more than the text is long.                                             *)
(***************************************************************************)
EXTENDS Integers, SequencesExt

Cut(s, n) == SubSeq(s, 1, IF n < Len(s) THEN n ELSE Len(s))

\* The part of s before the first c, all of s without one.
Before(s, c) ==
    Cut(s, Min({i \in DOMAIN s : s[i] = c} \cup {Len(s) + 1}) - 1)

\* The fields of s between separators; one field more than separators.
Fields(s, ch) ==
    LET Read(fields, c) == IF c = ch THEN Append(fields, << >>)
                           ELSE Append(Front(fields), Append(Last(fields), c))
    IN FoldLeft(Read, << << >> >>, s)

\* s without the blanks in front of and behind it.
Trim(s, blanks) ==
    LET kept == {i \in DOMAIN s : s[i] \notin blanks}
    IN IF kept = {} THEN << >> ELSE SubSeq(s, Min(kept), Max(kept))

\* The pieces that fit into room characters: a loop that writes a text piece
\* by piece and stops in front of the first that does not fit.
Written(pieces, room) ==
    LET fits == {k \in 0 .. Len(pieces) : Len(FlattenSeq(SubSeq(pieces, 1, k))) <= room}
    IN FlattenSeq(SubSeq(pieces, 1, Max(fits)))

-------------------------------------------------------------------------------
\* Escapes

Escaped(s, table) ==
    [i \in DOMAIN s |-> IF s[i] \in DOMAIN table THEN table[s[i]] ELSE <<s[i]>>]

\* A bug: to_zhuangyi_string without its case for "&".
ZhuangyiNoAmpersand ==
    ("\\" :> <<"\\", "\\">>) @@ ("=" :> <<"\\", "a">>) @@ ("\n" :> <<"\\", "n">>)

Zhuangyi == ("\\" :> <<"\\", "\\">>) @@ ("=" :> <<"\\", "a">>) @@
            ("&" :> <<"\\", "b">>) @@ ("\n" :> <<"\\", "n">>)

to_zhuangyi_string(s, size) == Written(Escaped(s, Zhuangyi), size - 1)

TranslateData(s, size) ==
    Written(Escaped(s, [c \in {":", ",", ";"} |-> <<"\\", c>>]), size - 1)

ChangeStingBy(s, dst_len) ==
    Written(Escaped(s, ("|" :> <<"&", "1", ";">>) @@ ("&" :> <<"&", "2", ";">>)),
            dst_len - 1)

\* What the character after a backslash stands for.
Unescaped(c) ==
    CASE c = "a" -> "=" [] c = "b" -> "&" [] c = "n" -> "\n" [] OTHER -> "\\"

Get_zhuanyi_string(s, size) ==
    LET Read(st, c) ==
            IF st.escape THEN [out |-> Append(st.out, Unescaped(c)), escape |-> FALSE]
            ELSE IF c = "\\" THEN [st EXCEPT !.escape = TRUE]
            ELSE [st EXCEPT !.out = Append(@, c)]
        end == FoldLeft(Read, [out |-> << >>, escape |-> FALSE], s)
    IN Cut(end.out \o IF end.escape THEN <<"\\">> ELSE << >>, size - 1)

\* The value of para in name1=value1|name2=value2|..., with its escapes undone
\* after it was cut to the buffer.
GetPara(s, size, para, first, second) ==
    LET name == para \o <<second>>
        key  == <<first>> \o name
        found == {i \in DOMAIN s : IsPrefix(key, SubSeq(s, i, Len(s)))}
        from == IF IsPrefix(name, s) THEN Len(name)
                ELSE Min({i + Len(key) - 1 : i \in found} \cup {Len(s)})
        value == Cut(Before(SubSeq(s, from + 1, Len(s)), first), size - 1)
    IN Get_zhuanyi_string(value, size)

-------------------------------------------------------------------------------
\* Fields and copies

GetValue_KeepBlank(s, size, num, ch) ==
    LET fields == Fields(IF ch = "\n" THEN s ELSE Before(s, "\n"), ch)
    IN IF num \in DOMAIN fields THEN Cut(fields[num], size - 1) ELSE << >>

GetValue_KeepReturn(s, size, num, ch) ==
    LET fields == Fields(s, ch)
    IN IF num \in DOMAIN fields THEN Cut(fields[num], size - 1) ELSE << >>

rtrim(s) == LET kept == {i \in DOMAIN s : s[i] \notin {" ", "\n"}}
            IN Cut(s, Max(kept \cup {0}))
ltrim(s) == LET kept == {i \in DOMAIN s : s[i] # " "}
            IN SubSeq(s, Min(kept \cup {Len(s) + 1}), Len(s))

alltrim(s) == rtrim(ltrim(s))

\* The text up to its first line end, of either kind.
TrimEnter(s) == Before(Before(s, "\n"), "\r")
TrimSpaceAndLine(s) == alltrim(TrimEnter(s))

GetValue(s, size, num, ch) == alltrim(GetValue_KeepBlank(s, size, num, ch))

my_strncpy(s, num, end) == Cut(Before(s, end), num - 1)

strcpyr(s, num) == SubSeq(s, Len(s) - Len(Cut(s, num)) + 1, Len(s))

TrimChar(s, c) == SelectSeq(s, LAMBDA x : x # c)

-------------------------------------------------------------------------------
\* Double-byte text: "hi" stands for a byte with its high bit set

\* The characters of a text, a lead byte together with the byte after it.
GbkChars(s) ==
    LET Read(chars, c) ==
            IF chars # << >> /\ Last(chars) = <<"hi">>
            THEN Append(Front(chars), <<"hi", c>>) ELSE Append(chars, <<c>>)
    IN FoldLeft(Read, << >>, s)

\* A bug: a copy that counts bytes, as strncpy does.
StrncpyBytes(s, nDstLen) == Cut(s, nDstLen - 1)

StrncpyGBK(s, nDstLen) ==
    LET chars == GbkChars(s)
        whole == SelectSeq(chars, LAMBDA c : c # <<"hi">>)
    IN IF Len(s) < nDstLen THEN s ELSE Written(whole, nDstLen - 1)

DeleteCtrlCharFromGBK(s, ch) ==
    FlattenSeq(SelectSeq(GbkChars(s), LAMBDA c : c # <<ch>>))

\* Where ReadColumn stops: the first separator that is not the second byte of a
\* character; a blank is no second byte.
ColumnEnd(s, cCol) ==
    LET Read(st, c) ==
            IF st.done THEN st
            ELSE IF st.lead /\ c # " " THEN [st EXCEPT !.i = @ + 1, !.lead = FALSE]
            ELSE IF c = cCol THEN [st EXCEPT !.done = TRUE]
            ELSE [st EXCEPT !.i = @ + 1, !.lead = c = "hi"]
    IN FoldLeft(Read, [i |-> 0, lead |-> FALSE, done |-> FALSE], s).i

\* The first column, and the text after its separator.
ReadColumn(s, cCol, idstlen) ==
    LET i == ColumnEnd(s, cCol)
    IN [column |-> Trim(Cut(s, IF i < idstlen - 1 THEN i ELSE idstlen - 1), {" "}),
        rest   |-> SubSeq(s, i + 2, Len(s))]

-------------------------------------------------------------------------------
\* UTF-8: "1" is a byte of its own, "2" to "6" lead words of two to six bytes,
\* "c" continues a word

\* How many bytes get_utf8_words moves by; it knows words of up to four bytes.
utf8_word_size(first) ==
    CASE first = "2" -> 2 [] first = "3" -> 3 [] first = "4" -> 4 [] OTHER -> 1

\* How many bytes of s get_utf8_words copies; its last word may reach past s.
get_utf8_words(s, dest_size) ==
    LET taken[len \in 0 .. Len(s) + 3] ==
            IF len >= Len(s) \/ len + utf8_word_size(s[len + 1]) >= dest_size THEN len
            ELSE taken[len + utf8_word_size(s[len + 1])]
    IN taken[0]

\* How many bytes CheckTextType asks for behind a first byte.
WordSize(first) ==
    CASE first = "5" -> 5 [] first = "6" -> 6 [] OTHER -> utf8_word_size(first)

\* Whether CheckTextType takes s for UTF-8.
IsUtf8(s) ==
    LET ok[i \in 1 .. Len(s) + 1] ==
            IF i > Len(s) THEN TRUE
            ELSE /\ s[i] # "c"
                 /\ i + WordSize(s[i]) - 1 <= Len(s)
                 /\ \A k \in i + 1 .. i + WordSize(s[i]) - 1 : s[k] = "c"
                 /\ ok[i + WordSize(s[i])]
    IN ok[1]

\* Whether bytes, the first Len(bytes) of a text, begin with EF BB BF.
isHaveBOM(bytes) == IsPrefix(<<239, 187, 191>>, bytes)

-------------------------------------------------------------------------------
\* URLs and Base64

Unreserved == {"x", ".", "-", "_"}

\* The pieces a text is written as; "*" and "~" tell the two encoders apart.
UrlPieces(s, plain) ==
    [i \in DOMAIN s |-> IF s[i] \in plain THEN <<s[i]>>
                        ELSE IF s[i] = " " THEN <<"+">> ELSE <<"%", s[i], s[i]>>]

UrlEncode(s) == FlattenSeq(UrlPieces(s, Unreserved \cup {"~"}))

\* Whether a piece would not leave room for the 0; only %XX is asked.
TooLong(len, piece, resultSize) == Len(piece) = 3 /\ len + 3 >= resultSize

\* The encoded text, or "full" when a %XX does not fit (the code returns 0).
AnsiToURLEncode(s, resultSize) ==
    LET Write(st, piece) ==
            IF st.full \/ Len(st.out) >= resultSize THEN st
            ELSE IF TooLong(Len(st.out), piece, resultSize) THEN [st EXCEPT !.full = TRUE]
            ELSE [st EXCEPT !.out = @ \o piece]
    IN FoldLeft(Write, [out |-> << >>, full |-> FALSE], UrlPieces(s, Unreserved \cup {"*"}))

\* Base64 texts are sequences of the numbers 0 .. 63 the letters stand for.
Pad == 64

Base64Encode_WithAdd(bytes, size) ==
    LET len == size - 1
        n   == Len(bytes)
        Step(st, i) ==
            LET c    == bytes[i]
                pos  == Len(st.out)
                need == IF i % 3 = 0 THEN 6 ELSE 4
            IN IF st.stop \/ pos + need >= len THEN [st EXCEPT !.stop = TRUE]
               ELSE CASE i % 3 = 1 -> [st EXCEPT !.out = Append(@, c \div 4), !.t = (c % 4) * 16]
                      [] i % 3 = 2 -> [st EXCEPT !.out = Append(@, st.t + c \div 16), !.t = (c % 16) * 4]
                      [] OTHER     -> [st EXCEPT !.out = @ \o <<st.t + c \div 64, c % 64>>]
        end == FoldLeft(Step, [out |-> << >>, t |-> 0, stop |-> FALSE], [i \in 1 .. n |-> i])
    IN end.out \o IF n % 3 = 0 \/ Len(end.out) + 5 >= len THEN << >>
                  ELSE IF n % 3 = 1 THEN <<end.t, Pad, Pad>> ELSE <<end.t, Pad>>

\* Any character that is not of the alphabet.
Wrong == 65

\* The kept characters move to the front; nothing ends the text behind them.
Base64Filter(s) ==
    LET kept == SelectSeq(s, LAMBDA c : c # Wrong)
    IN kept \o SubSeq(s, Len(kept) + 1, Len(s))

Chr2Base(c) == IF c < 64 THEN c ELSE 63

\* A bug: the third letter's bits are not shifted.
QuadUnshifted(a, b, c, d) ==
    <<(a * 4 + b \div 16) % 256, (b % 16) * 16 + (c % 16), (c % 4) * 64 + d>>

\* The three bytes of four letters.
Quad(a, b, c, d) ==
    <<(a * 4 + b \div 16) % 256, (b % 16) * 16 + c \div 4, (c % 4) * 64 + d>>

Base64Decode(letters, size) ==
    LET in    == Base64Filter(letters)
        room  == size - 1
        len   == Len(in)
        Bytes(j, pads) == Quad(Chr2Base(in[j + 1]), Chr2Base(in[j + 2]),
                               IF pads > 1 THEN 0 ELSE Chr2Base(in[j + 3]),
                               IF pads > 0 THEN 0 ELSE Chr2Base(in[j + 4]))
        quads == Min({(len - 4) \div 4, room \div 3})
        y     == IF in[len - 1] = Pad THEN 2 ELSE IF in[len] = Pad THEN 1 ELSE 0
        whole == FlattenSeq([z \in 1 .. quads |-> Bytes(4 * (z - 1), 0)])
    IN IF len < 4 THEN << >>
       ELSE whole \o IF 3 * quads + 3 - y <= room THEN Cut(Bytes(4 * quads, y), 3 - y)
                     ELSE << >>
===============================================================================
